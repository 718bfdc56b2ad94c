--------------------- MODULE ConversationOrdering_proofs ---------------------
(***************************************************************************)
(* ConversationOrdering for any messages and slots: the invariants the     *)
(* run checks, the fencing of stale holders, and the refinement of         *)
(* TurnOrder.  IInv is the inductive invariant.  None of the three safety  *)
(* properties is inductive alone: that a lease is on the turn that is due  *)
(* rests on the finished turns being those before it, which rests on turns *)
(* being finished only when leased; a claim is within the turns handed out *)
(* because a message's turn is.                                            *)
(***************************************************************************)
EXTENDS ConversationOrdering, TLAPS

MessagesWithinSeq == \A m \in Messages : msg[m] <= seq

IInv ==
    /\ TypeOK
    /\ MessagesWithinSeq
    /\ TurnsAreDistinct
    /\ LeaseOnDueTurn
    /\ NoTurnSkipped

LEMMA InitIInv == Init => IInv
<1> SUFFICES ASSUME Init PROVE IInv
  OBVIOUS
<1> USE DEF Init, TurnKeysInit
<1>1. TypeOK
  BY DEF TypeOK, TurnKeysType
<1>2. MessagesWithinSeq
  <2>1. \A m \in Messages : msg[m] = 0
    OBVIOUS
  <2>2. seq = 0 /\ 0 <= 0
    OBVIOUS
  <2> QED
    BY <2>1, <2>2 DEF MessagesWithinSeq
<1>3. TurnsAreDistinct
  BY DEF TurnsAreDistinct
<1>4. LeaseOnDueTurn
  BY DEF LeaseOnDueTurn
<1>5. NoTurnSkipped
  BY DEF NoTurnSkipped, ExpectedTurn
<1> QED
  BY <1>1, <1>2, <1>3, <1>4, <1>5 DEF IInv

\* RESERVE_SCRIPT
LEMMA ReserveKeepsIInv ==
    ASSUME IInv, NEW m \in Messages, Reserve(m)
    PROVE  IInv'
<1> USE DEF Reserve, TypeOK, TurnKeysType, IInv
<1>1. CASE msg[m] # 0
  <2>1. UNCHANGED vars
    BY <1>1 DEF ReserveScript, vars
  <2> QED
    BY <2>1 DEF vars, MessagesWithinSeq, TurnsAreDistinct, LeaseOnDueTurn,
                NoTurnSkipped, ExpectedTurn
<1>2. CASE msg[m] = 0
  <2>1. /\ seq' = seq + 1
        /\ msg' = [msg EXCEPT ![m] = seq + 1]
        /\ expected' = ExpectedTurn
        /\ UNCHANGED <<lease, completed, claim>>
    BY <1>2 DEF ReserveScript
  <2>2. ExpectedTurn \in Nat /\ ExpectedTurn' = ExpectedTurn
    BY <2>1 DEF ExpectedTurn
  <2>3. TypeOK'
    BY <2>1, <2>2
  <2>4. MessagesWithinSeq'
    BY <2>1 DEF MessagesWithinSeq
  <2>5. TurnsAreDistinct'
    <3>1. \A n, p \in Messages : msg'[n] # 0 /\ msg'[n] = msg'[p] => n = p
      BY <2>1, <1>2 DEF TurnsAreDistinct, MessagesWithinSeq
    <3>2. ASSUME NEW t \in 1..seq' PROVE \E n \in Messages : msg'[n] = t
      <4>1. CASE t = seq + 1
        BY <4>1, <2>1
      <4>2. CASE t \in 1..seq
        <5>1. PICK n \in Messages : msg[n] = t
          BY <4>2 DEF TurnsAreDistinct
        <5>2. n # m
          BY <5>1, <4>2, <1>2
        <5> QED
          BY <5>1, <5>2, <2>1
      <4> QED
        BY <4>1, <4>2, <2>1
    <3> QED
      BY <3>1, <3>2 DEF TurnsAreDistinct
  <2>6. LeaseOnDueTurn'
    BY <2>1, <2>2 DEF LeaseOnDueTurn
  <2>7. NoTurnSkipped'
    BY <2>1, <2>2 DEF NoTurnSkipped
  <2> QED
    BY <2>3, <2>4, <2>5, <2>6, <2>7
<1> QED
  BY <1>1, <1>2

\* CLAIM_SCRIPT
LEMMA TryClaimKeepsIInv ==
    ASSUME IInv, NEW s \in Slots, NEW m \in Messages,
           msg[m] # 0, TryClaim(s, msg[m])
    PROVE  IInv'
<1> DEFINE t == msg[m]
<1> USE DEF IInv, TypeOK, TurnKeysType
<1>1. /\ lease' = [token |-> s, turn |-> t]
      /\ claim' = [claim EXCEPT ![s] = t]
      /\ UNCHANGED <<seq, msg, expected, completed>>
      /\ t \in 1..seq
      /\ t = ExpectedTurn
      /\ t \notin completed
  BY DEF TryClaim, ClaimScript, Claimable, AlreadyCompleted, MessagesWithinSeq
<1>2. ExpectedTurn' = ExpectedTurn
  BY <1>1 DEF ExpectedTurn
<1>3. TypeOK'
  BY <1>1
<1>4. MessagesWithinSeq' /\ TurnsAreDistinct'
  BY <1>1 DEF MessagesWithinSeq, TurnsAreDistinct
<1>5. LeaseOnDueTurn'
  BY <1>1, <1>2 DEF LeaseOnDueTurn
<1>6. NoTurnSkipped'
  BY <1>1, <1>2 DEF NoTurnSkipped
<1> QED
  BY <1>3, <1>4, <1>5, <1>6

\* COMPLETE_SCRIPT
LEMMA CompleteKeepsIInv ==
    ASSUME IInv, NEW s \in Slots, Complete(s)
    PROVE  IInv'
<1> DEFINE t == claim[s]
<1> USE DEF IInv, TypeOK, TurnKeysType, Complete, Drop
<1>1. CASE CompleteScript(s, t)
  <2>1. /\ completed' = completed \cup {t}
        /\ expected' = t + 1
        /\ lease' = NoLease
        /\ UNCHANGED <<seq, msg>>
        /\ t = ExpectedTurn
        /\ t \in 1..seq
    BY <1>1 DEF CompleteScript, Completable, HoldsLease, LeaseOnDueTurn
  <2>2. ExpectedTurn' = t + 1
    BY <2>1 DEF ExpectedTurn
  <2>3. TypeOK'
    <3>1. claim' \in [Slots -> 0..seq']
      BY <2>1
    <3>2. t \in Nat /\ completed' \in SUBSET Nat
      <4>1. t \in Nat
        BY <2>1
      <4>2. completed \in SUBSET Nat
        OBVIOUS
      <4> QED
        BY <2>1, <4>1, <4>2, Zenon
    <3>3. seq' \in Nat /\ msg' \in [Messages -> Nat] /\ expected' \in Nat
      BY <2>1, <3>2
    <3>4. TurnKeysType'
      BY <2>1, <3>2, <3>3
    <3> QED
      BY <3>1, <3>4
  <2>4. MessagesWithinSeq' /\ TurnsAreDistinct'
    BY <2>1 DEF MessagesWithinSeq, TurnsAreDistinct
  <2>5. LeaseOnDueTurn'
    BY <2>1 DEF LeaseOnDueTurn
  <2>6. NoTurnSkipped'
    BY <2>1, <2>2 DEF NoTurnSkipped
  <2> QED
    BY <2>3, <2>4, <2>5, <2>6
<1>2. CASE UNCHANGED turnKeys
  BY <1>2 DEF turnKeys, MessagesWithinSeq, TurnsAreDistinct, LeaseOnDueTurn,
              NoTurnSkipped, ExpectedTurn
<1> QED
  BY <1>1, <1>2

\* The steps that at most free the lease: RELEASE_SCRIPT, a crash, a lapse
LEMMA FreeingLeaseKeepsIInv ==
    ASSUME IInv, UNCHANGED <<seq, msg, expected, completed>>,
           lease' = lease \/ lease' = NoLease,
           claim' \in [Slots -> 0..seq]
    PROVE  IInv'
<1> USE DEF IInv, TypeOK, TurnKeysType
<1>1. ExpectedTurn' = ExpectedTurn
  BY DEF ExpectedTurn
<1>2. TypeOK' /\ MessagesWithinSeq' /\ TurnsAreDistinct'
  BY DEF MessagesWithinSeq, TurnsAreDistinct
<1>3. LeaseOnDueTurn' /\ NoTurnSkipped'
  BY <1>1 DEF LeaseOnDueTurn, NoTurnSkipped
<1> QED
  BY <1>2, <1>3

LEMMA NextKeepsIInv == IInv /\ [Next]_vars => IInv'
<1> SUFFICES ASSUME IInv, [Next]_vars PROVE IInv'
  OBVIOUS
<1>1. ASSUME NEW m \in Messages, Reserve(m) PROVE IInv'
  BY <1>1, ReserveKeepsIInv
<1>2. ASSUME NEW s \in Slots, NEW m \in Messages, msg[m] # 0, TryClaim(s, msg[m])
      PROVE IInv'
  BY <1>2, TryClaimKeepsIInv
<1>3. ASSUME NEW s \in Slots, Complete(s) PROVE IInv'
  BY <1>3, CompleteKeepsIInv
<1>4. ASSUME NEW s \in Slots, Drop(s) PROVE claim' \in [Slots -> 0..seq]
  BY <1>4 DEF Drop, IInv, TypeOK, TurnKeysType
<1>5. ASSUME NEW s \in Slots, Release(s) PROVE IInv'
  BY <1>4, <1>5, FreeingLeaseKeepsIInv DEF Release, ReleaseScript, turnKeys
<1>6. ASSUME NEW s \in Slots, Crash(s) PROVE IInv'
  BY <1>4, <1>6, FreeingLeaseKeepsIInv DEF Crash, turnKeys
<1>7. claim \in [Slots -> 0..seq]
  BY DEF IInv, TypeOK
<1>8. CASE LeaseExpires
  BY <1>7, <1>8, FreeingLeaseKeepsIInv DEF LeaseExpires, LeaseLapse
<1>9. CASE UNCHANGED vars
  BY <1>7, <1>9, FreeingLeaseKeepsIInv DEF vars
<1> QED
  BY <1>1, <1>2, <1>3, <1>5, <1>6, <1>8, <1>9 DEF Next

LEMMA IInvHolds == Spec => []IInv
<1> QED
  BY InitIInv, NextKeepsIInv, PTL DEF Spec

-----------------------------------------------------------------------------
\* The keys and the claims keep their types, and no slot claims a turn that
\* was not handed out.
THEOREM TypeCorrect == Spec => []TypeOK
<1>1. IInv => TypeOK
  BY DEF IInv
<1> QED
  BY <1>1, IInvHolds, PTL

\* Turns are numbered without a gap and no two messages share one, for any
\* number of messages and redeliveries.
THEOREM TurnsDistinct == Spec => []TurnsAreDistinct
<1>1. IInv => TurnsAreDistinct
  BY DEF IInv
<1> QED
  BY <1>1, IInvHolds, PTL

\* A lease is only ever on the turn that is due.
THEOREM LeaseDue == Spec => []LeaseOnDueTurn
<1>1. IInv => LeaseOnDueTurn
  BY DEF IInv
<1> QED
  BY <1>1, IInvHolds, PTL

\* The finished turns are exactly those before the one that is due.
THEOREM NoneSkipped == Spec => []NoTurnSkipped
<1>1. IInv => NoTurnSkipped
  BY DEF IInv
<1> QED
  BY <1>1, IInvHolds, PTL

\* A slot that ends an attempt without the lease changes no key.
THEOREM Fencing == Spec => StaleHolderFenced
<1> DEFINE Fenced == \A s \in Slots :
              claim[s] # 0 /\ claim'[s] = 0 /\ ~HoldsLease(s, claim[s])
                 => UNCHANGED turnKeys
<1>1. IInv /\ [Next]_vars => Fenced
  <2> SUFFICES ASSUME IInv, [Next]_vars, NEW s \in Slots,
                      claim[s] # 0, claim'[s] = 0, ~HoldsLease(s, claim[s])
               PROVE  UNCHANGED turnKeys
    OBVIOUS
  <2> USE DEF IInv, TypeOK
  <2>1. claim' # claim
    OBVIOUS
  <2>2. ASSUME NEW m \in Messages, Reserve(m) PROVE FALSE
    BY <2>1, <2>2 DEF Reserve
  <2>3. ASSUME NEW u \in Slots, NEW m \in Messages, msg[m] # 0, TryClaim(u, msg[m])
        PROVE FALSE
    BY <2>3 DEF TryClaim
  <2>4. ASSUME NEW u \in Slots, Drop(u) PROVE u = s
    BY <2>4 DEF Drop
  <2>5. ASSUME NEW u \in Slots, Complete(u) PROVE UNCHANGED turnKeys
    BY <2>4, <2>5 DEF Complete, CompleteScript, Completable
  <2>6. ASSUME NEW u \in Slots, Release(u) PROVE UNCHANGED turnKeys
    BY <2>4, <2>6 DEF Release, ReleaseScript
  <2>7. ASSUME NEW u \in Slots, Crash(u) PROVE UNCHANGED turnKeys
    BY <2>7 DEF Crash
  <2>8. ~LeaseExpires
    BY <2>1 DEF LeaseExpires
  <2>9. ~UNCHANGED vars
    BY <2>1 DEF vars
  <2> QED
    BY <2>2, <2>3, <2>5, <2>6, <2>7, <2>8, <2>9 DEF Next
<1> QED
  BY <1>1, IInvHolds, PTL DEF Spec, StaleHolderFenced

\* The keys and scripts implement TurnOrder: a claim starts the due turn, a
\* release or a lapse abandons it, a completion finishes it.
THEOREM Refinement == Spec => ImplementsTurnOrder
<1> DEFINE Running == IF lease = NoLease THEN 0 ELSE lease.turn
<1>1. Init => Order!Init
  BY DEF Init, TurnKeysInit, Order!Init, ExpectedTurn
<1>2. IInv /\ [Next]_vars => [Order!Next]_<<seq, ExpectedTurn, Running>>
  <2> SUFFICES ASSUME IInv, [Next]_vars
               PROVE  [Order!Next]_<<seq, ExpectedTurn, Running>>
    OBVIOUS
  <2> USE DEF IInv, TypeOK, TurnKeysType
  <2>1. ASSUME UNCHANGED <<seq, expected, lease>>
        PROVE  UNCHANGED <<seq, ExpectedTurn, Running>>
    BY <2>1 DEF ExpectedTurn
  <2>2. ASSUME lease # NoLease, lease' = NoLease, UNCHANGED <<seq, expected>>
        PROVE  Order!Abandon
    BY <2>2, NoLeaseAssumption DEF Order!Abandon, ExpectedTurn, LeaseOnDueTurn
  <2>3. ASSUME NEW m \in Messages, Reserve(m)
        PROVE  Order!Issue \/ UNCHANGED <<seq, ExpectedTurn, Running>>
    BY <2>3, <2>1 DEF Reserve, ReserveScript, Order!Issue, ExpectedTurn
  <2>4. ASSUME NEW s \in Slots, NEW m \in Messages, msg[m] # 0, TryClaim(s, msg[m])
        PROVE  Order!Start
    <3>1. /\ lease = NoLease /\ lease' = [token |-> s, turn |-> msg[m]]
          /\ msg[m] = ExpectedTurn /\ msg[m] <= seq /\ UNCHANGED <<seq, expected>>
      BY <2>4 DEF TryClaim, ClaimScript, Claimable, MessagesWithinSeq
    <3>2. lease' # NoLease
      BY <3>1, NoLeaseAssumption
    <3> QED
      BY <3>1, <3>2 DEF Order!Start, ExpectedTurn
  <2>5. ASSUME NEW s \in Slots, Complete(s)
        PROVE  Order!Finish \/ UNCHANGED <<seq, ExpectedTurn, Running>>
    <3>1. CASE CompleteScript(s, claim[s])
      <4>1. /\ lease # NoLease /\ lease.turn = ExpectedTurn
            /\ lease' = NoLease /\ expected' = ExpectedTurn + 1 /\ UNCHANGED seq
        BY <3>1 DEF CompleteScript, Completable, HoldsLease
      <4> QED
        BY <4>1 DEF Order!Finish, ExpectedTurn
    <3>2. CASE UNCHANGED turnKeys
      BY <3>2, <2>1 DEF turnKeys
    <3> QED
      BY <2>5, <3>1, <3>2 DEF Complete
  <2>6. ASSUME NEW s \in Slots, Release(s)
        PROVE  Order!Abandon \/ UNCHANGED <<seq, ExpectedTurn, Running>>
    BY <2>6, <2>1, <2>2 DEF Release, ReleaseScript, HoldsLease, turnKeys
  <2>7. ASSUME NEW s \in Slots, Crash(s)
        PROVE  UNCHANGED <<seq, ExpectedTurn, Running>>
    BY <2>7, <2>1 DEF Crash, turnKeys
  <2>8. CASE LeaseExpires
    BY <2>8, <2>2 DEF LeaseExpires, LeaseLapse, Order!Next
  <2>9. CASE UNCHANGED vars
    BY <2>9, <2>1 DEF vars
  <2> QED
    BY <2>3, <2>4, <2>5, <2>6, <2>7, <2>8, <2>9 DEF Next, Order!Next
<1>3. ImplementsTurnOrder <=> Order!Init /\ [][Order!Next]_<<seq, ExpectedTurn, Running>>
  BY DEF ImplementsTurnOrder, Order!Spec, Order!orderVars
<1> QED
  BY <1>1, <1>2, <1>3, IInvHolds, PTL DEF Spec
=============================================================================
