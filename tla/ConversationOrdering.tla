------------------------ MODULE ConversationOrdering ------------------------
(***************************************************************************)
(* The clients of the ordering adapter on one conversation: webhooks that  *)
(* reserve turns (a redelivered message reserves again) and executor slots *)
(* that claim, renew, complete and release them.  Keys do not reach their  *)
(* three-hour TTL here; OrderingExpiry adds that.  The two-second lease    *)
(* may lapse at any moment, whether its holder died or was only slow, and  *)
(* a holder that lost its lease goes on as if it had it.                   *)
(***************************************************************************)
EXTENDS TurnKeys

VARIABLE claim        \* the turn each slot believes it holds, 0 if none

vars == <<seq, msg, expected, lease, completed, claim>>

TypeOK == TurnKeysType /\ claim \in [Slots -> 0..seq]

Init == TurnKeysInit /\ claim = [s \in Slots |-> 0]

Reserve(m) == ReserveScript(m) /\ UNCHANGED claim

\* A job carries the turn reserved for its message.  "wait" and
\* "alreadyCompleted" change nothing, so only the granted claim is a step.
TryClaim(s, t) ==
    /\ claim[s] = 0
    /\ ClaimScript(s, t)
    /\ claim' = [claim EXCEPT ![s] = t]

Drop(s) == claim' = [claim EXCEPT ![s] = 0]

\* completeTurn: "completed", or an answer that ends the attempt
Complete(s) ==
    /\ claim[s] # 0
    /\ \/ CompleteScript(s, claim[s])
       \/ ~Completable(s, claim[s]) /\ UNCHANGED turnKeys
    /\ Drop(s)

Release(s) ==
    /\ claim[s] # 0
    /\ \/ ReleaseScript(s, claim[s])
       \/ ~HoldsLease(s, claim[s]) /\ UNCHANGED turnKeys
    /\ Drop(s)

\* The process that holds the claim dies
Crash(s) == claim[s] # 0 /\ Drop(s) /\ UNCHANGED turnKeys

LeaseExpires == LeaseLapse /\ UNCHANGED claim

Next ==
    \/ \E m \in Messages : Reserve(m)
    \/ \E s \in Slots, m \in Messages : msg[m] # 0 /\ TryClaim(s, msg[m])
    \/ \E s \in Slots : Complete(s) \/ Release(s) \/ Crash(s)
    \/ LeaseExpires

Spec == Init /\ [][Next]_vars

-----------------------------------------------------------------------------
\* Two messages of a conversation are never given the same turn, and every
\* turn handed out belongs to one of them: the turns are numbered without a
\* gap however often Meta redelivers (RESERVE_SCRIPT).
TurnsAreDistinct ==
    /\ \A m, n \in Messages : msg[m] # 0 /\ msg[m] = msg[n] => m = n
    /\ \A t \in 1..seq : \E m \in Messages : msg[m] = t

\* The lease is always on the turn that is due, a turn that was handed out
\* and is not finished: no script leaves a lease behind on a turn that
\* another script moved past.
LeaseOnDueTurn ==
    lease # NoLease => /\ lease.turn = ExpectedTurn
                       /\ lease.turn \in 1..seq
                       /\ lease.turn \notin completed

\* The finished turns are exactly those before the one that is due, and the
\* due turn is at most one past the last handed out.
NoTurnSkipped ==
    /\ completed = 1..(ExpectedTurn - 1)
    /\ ExpectedTurn <= seq + 1

\* A holder whose lease lapsed and was taken over is fenced: when it ends its
\* attempt, neither the turn that is due nor the other slot's lease moves.
StaleHolderFenced ==
    [][\A s \in Slots :
          claim[s] # 0 /\ claim'[s] = 0 /\ ~HoldsLease(s, claim[s])
             => UNCHANGED turnKeys]_vars

Order == INSTANCE TurnOrder WITH
            issued <- seq, next <- ExpectedTurn,
            running <- IF lease = NoLease THEN 0 ELSE lease.turn

\* The keys and scripts implement the one-turn-at-a-time order.
ImplementsTurnOrder == Order!Spec
=============================================================================
