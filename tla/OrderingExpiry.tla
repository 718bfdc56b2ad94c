--------------------------- MODULE OrderingExpiry ---------------------------
(***************************************************************************)
(* ConversationOrdering with the time-to-live of its keys.  life counts    *)
(* the ticks each key has left; a script that runs EXPIRE, SET .. EX or    *)
(* SET .. PX on a key gives it a full life again, and the scripts do not   *)
(* all refresh the same keys.  Time passes by Tick, which also deletes     *)
(* the keys whose life has run out.                                        *)
(***************************************************************************)
EXTENDS OrderingConstants

CONSTANTS KeyLife,     \* CONVERSATION_ORDERING_TTL_SECONDS, in ticks
          LeaseLife    \* CONVERSATION_ORDERING_LEASE_MS, in ticks

\* The four keys that a conversation has one of
Single == {"seq", "expected", "completed", "lease"}

Keys == Single \cup Messages

\* A lease lives no longer than the other keys, and a message's key has a name
\* of its own
ASSUME KeyLifeAssumption ==
    /\ KeyLife \in Nat /\ LeaseLife \in 1..KeyLife
    /\ Messages \cap Single = {}

VARIABLES ttlSeq, ttlMsg, ttlExpected, ttlLease, ttlCompleted, ttlClaim,
          life,     \* ticks left of each key, 0 when it is absent
          job,      \* turn written in the queued job of a message, 0 if none
          arrived   \* messages Meta has delivered at least once

storedVars == <<ttlSeq, ttlMsg, ttlExpected, ttlLease, ttlCompleted, ttlClaim>>
expiryVars == <<storedVars, life, job, arrived>>

\* The keys, with nothing that expires
Stored == INSTANCE ConversationOrdering WITH
    seq <- ttlSeq, msg <- ttlMsg, expected <- ttlExpected, lease <- ttlLease,
    completed <- ttlCompleted, claim <- ttlClaim

TtlInit ==
    /\ Stored!Init
    /\ life = [k \in Keys |-> 0]
    /\ job = [m \in Messages |-> 0]
    /\ arrived = {}

\* EXPIRE on ks, which does nothing to an absent key
Refresh(ks) == [k \in Keys |-> IF k \in ks /\ life[k] > 0 THEN KeyLife ELSE life[k]]

\* The producer reserves for a new message, or for a redelivered one whose
\* job has left the queue; Meta gives up before the message's key expires.
TtlReserve(m) ==
    /\ job[m] = 0
    /\ m \in arrived => ttlMsg[m] # 0
    /\ Stored!Reserve(m)
    /\ life' = IF ttlMsg[m] # 0
                 THEN Refresh({"seq", m, "expected"})
                 ELSE [k \in Keys |-> IF k \in {"seq", m, "expected"}
                                        THEN KeyLife ELSE life[k]]
    /\ job' = [job EXCEPT ![m] = Stored!ReservedTurn(m)]
    /\ arrived' = arrived \cup {m}

\* Faulty: the lease is stored with the keys' time to live
LeasedTooLong == [Refresh({"expected", "completed"}) EXCEPT !["lease"] = KeyLife]

\* Faulty: claiming and renewing leave "expected" to run out
LeasedAlone == [Refresh({"completed"}) EXCEPT !["lease"] = LeaseLife]

\* CLAIM_SCRIPT and RENEW_SCRIPT store the lease with its own time to live
Leased == [Refresh({"expected", "completed"}) EXCEPT !["lease"] = LeaseLife]

TtlTryClaim(s, m) ==
    /\ job[m] # 0
    /\ Stored!TryClaim(s, job[m])
    /\ life' = Leased
    /\ UNCHANGED <<job, arrived>>

\* The claim finds the turn finished: the job ends without being processed
TtlAlreadyCompleted(m) ==
    /\ job[m] # 0
    /\ Stored!AlreadyCompleted(job[m])
    /\ job' = [job EXCEPT ![m] = 0]
    /\ UNCHANGED <<storedVars, life, arrived>>

TtlRenew(s) ==
    /\ ttlClaim[s] # 0
    /\ Stored!HoldsLease(s, ttlClaim[s])
    /\ life' = Leased
    /\ UNCHANGED <<storedVars, job, arrived>>

\* The job of the claimed turn ends with it; after "lostLease" it is retried
TtlComplete(s) ==
    /\ Stored!Complete(s)
    /\ IF Stored!Completable(s, ttlClaim[s])
         THEN life' = [life EXCEPT !["expected"] = KeyLife,
                                   !["completed"] = KeyLife, !["lease"] = 0]
         ELSE UNCHANGED life
    /\ \E m \in Messages :
          /\ job[m] = ttlClaim[s]
          /\ job' = IF Stored!Completable(s, ttlClaim[s]) \/ Stored!AlreadyCompleted(ttlClaim[s])
                     THEN [job EXCEPT ![m] = 0] ELSE job
    /\ UNCHANGED arrived

TtlRelease(s) ==
    /\ Stored!Release(s)
    /\ life' = IF Stored!HoldsLease(s, ttlClaim[s]) THEN [life EXCEPT !["lease"] = 0] ELSE life
    /\ UNCHANGED <<job, arrived>>

Dying == {k \in Keys : life[k] = 1}

Tick ==
    /\ life' = [k \in Keys |-> IF life[k] = 0 THEN 0 ELSE life[k] - 1]
    /\ ttlSeq' = IF "seq" \in Dying THEN 0 ELSE ttlSeq
    /\ ttlExpected' = IF "expected" \in Dying THEN 0 ELSE ttlExpected
    /\ ttlCompleted' = IF "completed" \in Dying THEN {} ELSE ttlCompleted
    /\ ttlLease' = IF "lease" \in Dying THEN NoLease ELSE ttlLease
    /\ ttlMsg' = [m \in Messages |-> IF m \in Dying THEN 0 ELSE ttlMsg[m]]
    /\ UNCHANGED <<ttlClaim, job, arrived>>

TtlNext ==
    \/ \E m \in Messages : TtlReserve(m) \/ TtlAlreadyCompleted(m)
    \/ \E s \in Slots, m \in Messages : TtlTryClaim(s, m)
    \/ \E s \in Slots : TtlRenew(s) \/ TtlComplete(s) \/ TtlRelease(s)
    \/ Tick

TtlSpec == TtlInit /\ [][TtlNext]_expiryVars

-----------------------------------------------------------------------------
TtlTypeOK ==
    /\ Stored!TurnKeysType
    /\ ttlClaim \in [Slots -> Nat]
    /\ life \in [Keys -> 0..KeyLife] /\ life["lease"] <= LeaseLife
    /\ job \in [Messages -> Nat]
    /\ arrived \subseteq Messages

\* A running claim never sees the counter that fences it reset: "expected", when
\* it is stored, outlives the lease, so that the lease stays on the turn that is
\* due however long the claim is renewed; nor does the set of finished turns
\* stay behind, which would answer the turns numbered again "alreadyCompleted".
LeaseOutlivedByExpected ==
    /\ ttlLease # NoLease => /\ ttlLease.turn = Stored!ExpectedTurn
                             /\ ttlExpected # 0 => life["expected"] >= life["lease"]
    /\ ttlCompleted # {} => ttlExpected # 0

\* A message that arrives for the first time is given a turn that has not been
\* finished, so that it is processed and not answered "alreadyCompleted".
FreshTurnIsDue ==
    [][\A m \in Messages :
          m \notin arrived /\ m \in arrived' => ~(job'[m] < Stored!ExpectedTurn')]_expiryVars
=============================================================================
