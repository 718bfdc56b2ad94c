------------------------------ MODULE TurnKeys ------------------------------
(***************************************************************************)
(* The Valkey keys that order the messages of ONE conversation, and the    *)
(* five Lua scripts of ValkeyConversationOrderingAdapter that read and     *)
(* write them.  Valkey runs a script to its end before the next one, so a  *)
(* script is one atomic action.  An absent counter key is 0, which is what *)
(* INCR starts from; an absent "expected" key is read as 1.                *)
(*                                                                         *)
(* The adapter hashes a fresh UUID into every claim's token.  Here the     *)
(* token is the executor slot that claimed: a slot drops its claim before  *)
(* it claims again, and a claim is granted only when no lease is stored,   *)
(* so two claims of one slot never coexist.                                *)
(***************************************************************************)
EXTENDS OrderingConstants

VARIABLES seq,        \* :seq        last turn number handed out
          msg,        \* :msg:<hash> turn reserved for each message
          expected,   \* :expected   next turn that may run
          lease,      \* :lease      token and turn of the running claim
          completed   \* :completed  set of finished turns

turnKeys == <<seq, msg, expected, lease, completed>>

TurnKeysType ==
    /\ seq \in Nat
    /\ msg \in [Messages -> Nat]
    /\ expected \in Nat
    /\ lease \in [token : Slots, turn : Nat] \cup {NoLease}
    /\ completed \in SUBSET Nat

TurnKeysInit ==
    /\ seq = 0
    /\ msg = [m \in Messages |-> 0]
    /\ expected = 0
    /\ lease = NoLease
    /\ completed = {}

ExpectedTurn == IF expected = 0 THEN 1 ELSE expected

\* "alreadyCompleted" in CLAIM_SCRIPT and COMPLETE_SCRIPT
AlreadyCompleted(t) == t < ExpectedTurn \/ t \in completed

\* Faulty: claims a turn that is ahead of the one that is due
ClaimableAhead(t) == ~AlreadyCompleted(t) /\ lease = NoLease

\* Faulty: a stored lease is overwritten
ClaimableOverLease(t) == ~AlreadyCompleted(t) /\ t = ExpectedTurn

Claimable(t) == ~AlreadyCompleted(t) /\ t = ExpectedTurn /\ lease = NoLease

HoldsLease(s, t) == lease # NoLease /\ lease.token = s /\ lease.turn = t

\* The turn number RESERVE_SCRIPT answers for message m
ReservedTurn(m) == IF msg[m] # 0 THEN msg[m] ELSE seq + 1

\* Faulty: a redelivered message is given a turn of its own
ReserveAgain(m) ==
    /\ seq' = seq + 1
    /\ msg' = [msg EXCEPT ![m] = seq + 1]
    /\ expected' = ExpectedTurn
    /\ UNCHANGED <<lease, completed>>

\* Faulty: the counter is read but not advanced
ReserveWithoutIncr(m) ==
    /\ msg' = [msg EXCEPT ![m] = ReservedTurn(m)]
    /\ expected' = ExpectedTurn
    /\ UNCHANGED <<seq, lease, completed>>

ReserveScript(m) ==
    /\ \/ /\ msg[m] # 0
          /\ UNCHANGED <<seq, msg, expected>>
       \/ /\ msg[m] = 0
          /\ seq' = seq + 1
          /\ msg' = [msg EXCEPT ![m] = seq + 1]
          /\ expected' = ExpectedTurn
    /\ UNCHANGED <<lease, completed>>

\* CLAIM_SCRIPT, the branch that answers "claimed"
ClaimScript(s, t) ==
    /\ Claimable(t)
    /\ lease' = [token |-> s, turn |-> t]
    /\ UNCHANGED <<seq, msg, expected, completed>>

\* Faulty: any slot finishes the turn that is leased
CompletableByAnyone(s, t) ==
    ~AlreadyCompleted(t) /\ lease # NoLease /\ lease.turn = t /\ t = ExpectedTurn

\* COMPLETE_SCRIPT, the branch that answers "completed"
Completable(s, t) ==
    ~AlreadyCompleted(t) /\ HoldsLease(s, t) /\ t = ExpectedTurn

\* Faulty: finishing a turn leaves its lease stored
CompleteKeepsLease(s, t) ==
    /\ Completable(s, t)
    /\ completed' = completed \cup {t}
    /\ expected' = t + 1
    /\ UNCHANGED <<seq, msg, lease>>

\* Faulty: the due turn jumps to the last one handed out
CompleteJumps(s, t) ==
    /\ Completable(s, t)
    /\ completed' = completed \cup {t}
    /\ expected' = seq + 1
    /\ lease' = NoLease
    /\ UNCHANGED <<seq, msg>>

CompleteScript(s, t) ==
    /\ Completable(s, t)
    /\ completed' = completed \cup {t}
    /\ expected' = t + 1
    /\ lease' = NoLease
    /\ UNCHANGED <<seq, msg>>

\* RELEASE_SCRIPT, the branch that answers "released"
ReleaseScript(s, t) ==
    /\ HoldsLease(s, t)
    /\ lease' = NoLease
    /\ UNCHANGED <<seq, msg, expected, completed>>

\* The PX time of the lease key runs out
LeaseLapse ==
    /\ lease # NoLease
    /\ lease' = NoLease
    /\ UNCHANGED <<seq, msg, expected, completed>>
=============================================================================
