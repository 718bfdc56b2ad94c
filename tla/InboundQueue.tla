---------------------------- MODULE InboundQueue ----------------------------
(***************************************************************************)
(* One customer conversation on the inbound WhatsApp queue: Meta's webhook *)
(* deliveries, the producer that reserves a turn and adds a BullMQ job,    *)
(* and the executor slots of the inbound workers that claim the turn,      *)
(* process the message, finish the turn, retry or send to the dead-letter  *)
(* queue.  An action ends at an await: everything another process does may *)
(* happen in between.  The turn keys and scripts are those of TurnKeys.    *)
(*                                                                         *)
(* BullMQ is external: a job is "waiting" (which includes delayed),        *)
(* "active" under the lock of one slot, "completed" or "failed".           *)
(***************************************************************************)
EXTENDS TurnKeys, Sequences

CONSTANTS Requests,      \* concurrent webhook requests
          NoMessage, NoSlot,
          MaxAttempts,   \* WHATSAPP_INBOUND_RETRY_ATTEMPTS
          MaxStalls,     \* BullMQ's maxStalledCount
          Scenarios,     \* sets of kinds of trouble that may occur together
          MaxTrouble     \* bound on how often trouble occurs

ASSUME TroubleAssumption ==
    /\ Scenarios \subseteq SUBSET {"fault", "crash", "lapse", "stall", "lostAck"}
    /\ MaxTrouble \in Nat /\ MaxAttempts \in Nat \ {0} /\ MaxStalls \in Nat
    /\ NoSlot \notin Slots

VARIABLES request,  \* each webhook request: where it is and its message
          acked,    \* messages Meta got a 200 for, so will not redeliver
          job,      \* the BullMQ job of each message
          slot,     \* each executor slot: the handler call it is running
          dlq,      \* messages with an entry in the dead-letter queue
          done,     \* history: messages whose turn has been finished
          effects,  \* history: messages in the order the agent handled them
          trouble   \* what trouble may occur, and how often it has

vars == <<seq, msg, expected, lease, completed,
          request, acked, job, slot, dlq, done, effects, trouble>>

JobStates == {"none", "waiting", "active", "completed", "failed"}
Points == {"idle", "claim", "process", "processed", "complete", "dlq",
           "finalize", "release", "ok", "defer", "throw", "fatal"}

NoJob == [state |-> "none", turn |-> 0, attempts |-> 0, stalls |-> 0, owner |-> NoSlot]
Idle == [at |-> "idle", m |-> NoMessage, lost |-> FALSE]

TypeOK ==
    /\ TurnKeysType
    /\ request \in [Requests -> [at : {"idle", "reserve", "add"},
                                 m : Messages \cup {NoMessage}, turn : Nat]]
    /\ acked \subseteq Messages
    /\ job \in [Messages -> [state : JobStates, turn : Nat, attempts : 0..MaxAttempts,
                             stalls : 0..(MaxStalls + 1), owner : Slots \cup {NoSlot}]]
    /\ slot \in [Slots -> [at : Points, m : Messages \cup {NoMessage}, lost : BOOLEAN]]
    /\ dlq \subseteq Messages
    /\ done \subseteq Messages
    /\ effects \in Seq(Messages)
    /\ trouble \in [kinds : Scenarios, count : 0..MaxTrouble]

Init ==
    /\ TurnKeysInit
    /\ request = [r \in Requests |-> [at |-> "idle", m |-> NoMessage, turn |-> 0]]
    /\ acked = {}
    /\ job = [m \in Messages |-> NoJob]
    /\ slot = [s \in Slots |-> Idle]
    /\ dlq = {}
    /\ done = {}
    /\ effects = <<>>
    /\ trouble \in [kinds : Scenarios, count : {0}]

Trouble(k) ==
    /\ k \in trouble.kinds /\ trouble.count < MaxTrouble
    /\ trouble' = [trouble EXCEPT !.count = @ + 1]

-----------------------------------------------------------------------------
(* The webhook and WhatsAppInboundProducerService.enqueueInboundJob *)

EndRequest(r) ==
    request' = [request EXCEPT ![r] = [at |-> "idle", m |-> NoMessage, turn |-> 0]]

\* A 200 that does not reach Meta is a message that will be delivered again
Acknowledge(m) ==
    \/ acked' = acked \cup {m} /\ UNCHANGED trouble
    \/ Trouble("lostAck") /\ UNCHANGED acked

\* getJob and getState: a job in any state but failed answers "duplicate"
Deliver(r, m) ==
    /\ request[r].at = "idle"
    /\ m \notin acked
    /\ IF job[m].state \in {"waiting", "active", "completed"}
         THEN Acknowledge(m) /\ UNCHANGED request
         ELSE /\ request' = [request EXCEPT ![r] = [at |-> "reserve", m |-> m, turn |-> 0]]
              /\ UNCHANGED <<acked, trouble>>
    /\ UNCHANGED <<turnKeys, job, slot, dlq, done, effects>>

ReserveTurn(r) ==
    /\ request[r].at = "reserve"
    /\ ReserveScript(request[r].m)
    /\ request' = [request EXCEPT ![r].at = "add", ![r].turn = ReservedTurn(request[r].m)]
    /\ UNCHANGED <<acked, job, slot, dlq, done, effects, trouble>>

\* BullMQ ignores an add whose job id exists, in whatever state the job is
AddJob(r) ==
    LET m == request[r].m IN
    /\ request[r].at = "add"
    /\ job' = IF job[m].state # "none" THEN job
              ELSE [job EXCEPT ![m] = [NoJob EXCEPT !.state = "waiting", !.turn = request[r].turn]]
    /\ Acknowledge(m)
    /\ EndRequest(r)
    /\ UNCHANGED <<turnKeys, slot, dlq, done, effects>>

\* Valkey fails or the web process dies: no 200, so Meta will redeliver
RequestFails(r) ==
    /\ request[r].at \in {"reserve", "add"}
    /\ Trouble("fault")
    /\ EndRequest(r)
    /\ UNCHANGED <<turnKeys, acked, job, slot, dlq, done, effects>>

\* removeOnComplete drops a completed job after two hours, long after any
\* request about it has ended
EvictCompleted(m) ==
    /\ job[m].state = "completed"
    /\ \A r \in Requests : request[r].m # m
    /\ \A s \in Slots : slot[s].m # m
    /\ job' = [job EXCEPT ![m] = NoJob]
    /\ UNCHANGED <<turnKeys, request, acked, slot, dlq, done, effects, trouble>>

-----------------------------------------------------------------------------
(* createInboundProcessor: the handler call of one slot *)

Turn(s) == job[slot[s].m].turn

GoTo(s, p) == slot' = [slot EXCEPT ![s].at = p]

KeepQueue == UNCHANGED <<request, acked, job>>

\* The worker takes a waiting job and validates it
Take(s, m) ==
    /\ slot[s].at = "idle"
    /\ job[m].state = "waiting"
    /\ job' = [job EXCEPT ![m].state = "active", ![m].owner = s]
    /\ slot' = [slot EXCEPT ![s] = [at |-> "claim", m |-> m, lost |-> FALSE]]
    /\ UNCHANGED <<turnKeys, request, acked, dlq, done, effects, trouble>>

\* tryClaimTurn; an error of the call leaves the handler before its try block
Claim(s) ==
    /\ slot[s].at = "claim"
    /\ \/ AlreadyCompleted(Turn(s)) /\ GoTo(s, "ok") /\ UNCHANGED <<turnKeys, trouble>>
       \/ ClaimScript(s, Turn(s)) /\ GoTo(s, "process") /\ UNCHANGED trouble
       \/ /\ ~AlreadyCompleted(Turn(s)) /\ ~Claimable(Turn(s))
          /\ GoTo(s, "defer")
          /\ UNCHANGED <<turnKeys, trouble>>
       \/ Trouble("fault") /\ GoTo(s, "throw") /\ UNCHANGED turnKeys
    /\ KeepQueue /\ UNCHANGED <<dlq, done, effects>>

\* A renewal tick finds the lease gone, or its call fails
RenewalFails(s) ==
    /\ slot[s].at \in {"process", "processed"}
    /\ ~slot[s].lost
    /\ \/ ~HoldsLease(s, Turn(s)) /\ UNCHANGED trouble
       \/ HoldsLease(s, Turn(s)) /\ Trouble("fault")
    /\ slot' = [slot EXCEPT ![s].lost = TRUE]
    /\ KeepQueue /\ UNCHANGED <<turnKeys, dlq, done, effects>>

\* processNormalizedCloudMessage runs the agent; it swallows its own errors
Process(s) ==
    /\ slot[s].at = "process"
    /\ effects' = Append(effects, slot[s].m)
    /\ GoTo(s, "processed")
    /\ KeepQueue /\ UNCHANGED <<turnKeys, dlq, done, trouble>>

\* classifyInboundFailure and the terminal test of the catch block
OnError(s, class) ==
    IF class = "permanent" \/ job[slot[s].m].attempts + 1 >= MaxAttempts
      THEN GoTo(s, "dlq") ELSE GoTo(s, "release")

\* Resolving the connection throws before the agent runs: a database error is
\* retryable, a missing or foreign connection is not
ProcessFails(s) ==
    /\ slot[s].at = "process"
    /\ \E class \in {"retryable", "permanent"} : OnError(s, class)
    /\ KeepQueue /\ UNCHANGED <<turnKeys, dlq, done, effects, trouble>>

\* renewal.lost() is read once, when processing returns
Return(s) ==
    /\ slot[s].at = "processed"
    /\ IF slot[s].lost THEN OnError(s, "permanent") ELSE GoTo(s, "complete")
    /\ KeepQueue /\ UNCHANGED <<turnKeys, dlq, done, effects, trouble>>

Finish(s) == CompleteScript(s, Turn(s)) /\ done' = done \cup {slot[s].m}

\* completeTurn: an untyped error, be it lease_lost or the client's, is permanent
Complete(s) ==
    /\ slot[s].at = "complete"
    /\ \/ Finish(s) /\ GoTo(s, "ok") /\ UNCHANGED trouble
       \/ AlreadyCompleted(Turn(s)) /\ GoTo(s, "ok") /\ UNCHANGED <<turnKeys, done, trouble>>
       \/ /\ ~AlreadyCompleted(Turn(s)) /\ ~Completable(s, Turn(s))
          /\ OnError(s, "permanent")
          /\ UNCHANGED <<turnKeys, done, trouble>>
       \/ Trouble("fault") /\ OnError(s, "permanent") /\ UNCHANGED <<turnKeys, done>>
    /\ KeepQueue /\ UNCHANGED <<dlq, effects>>

\* Faulty: a failed publication is swallowed
PublishDlqSwallows(s) ==
    /\ slot[s].at = "dlq"
    /\ \/ dlq' = dlq \cup {slot[s].m} /\ UNCHANGED trouble
       \/ Trouble("fault") /\ UNCHANGED dlq
    /\ GoTo(s, "finalize")
    /\ KeepQueue /\ UNCHANGED <<turnKeys, done, effects>>

\* Faulty: a dead-lettered message keeps its turn
PublishDlqOnly(s) ==
    /\ slot[s].at = "dlq"
    /\ dlq' = dlq \cup {slot[s].m}
    /\ GoTo(s, "fatal")
    /\ KeepQueue /\ UNCHANGED <<turnKeys, done, effects, trouble>>

\* The dead-letter job id is derived from the job's, so a second publication
\* adds nothing; if it cannot be published the turn is released and retried
PublishDlq(s) ==
    /\ slot[s].at = "dlq"
    /\ \/ dlq' = dlq \cup {slot[s].m} /\ GoTo(s, "finalize") /\ UNCHANGED trouble
       \/ Trouble("fault") /\ GoTo(s, "release") /\ UNCHANGED dlq
    /\ KeepQueue /\ UNCHANGED <<turnKeys, done, effects>>

\* The failed turn is finished all the same; a lost lease is thrown and retried
FinalizeTerminal(s) ==
    /\ slot[s].at = "finalize"
    /\ \/ Finish(s) /\ GoTo(s, "fatal") /\ UNCHANGED trouble
       \/ AlreadyCompleted(Turn(s)) /\ GoTo(s, "fatal") /\ UNCHANGED <<turnKeys, done, trouble>>
       \/ /\ ~AlreadyCompleted(Turn(s)) /\ ~Completable(s, Turn(s))
          /\ GoTo(s, "throw")
          /\ UNCHANGED <<turnKeys, done, trouble>>
       \/ Trouble("fault") /\ GoTo(s, "throw") /\ UNCHANGED <<turnKeys, done>>
    /\ KeepQueue /\ UNCHANGED <<dlq, effects>>

Release(s) ==
    /\ slot[s].at = "release"
    /\ \/ ReleaseScript(s, Turn(s)) /\ UNCHANGED trouble
       \/ ~HoldsLease(s, Turn(s)) /\ UNCHANGED <<turnKeys, trouble>>
       \/ Trouble("fault") /\ UNCHANGED turnKeys
    /\ GoTo(s, "throw")
    /\ KeepQueue /\ UNCHANGED <<dlq, done, effects>>

-----------------------------------------------------------------------------
(* BullMQ, the clock and the processes themselves *)

\* Faulty: one attempt too many
OutcomeLate(j, at) ==
    [j EXCEPT !.owner = NoSlot, !.attempts = @ + 1,
       !.state = IF at = "ok" THEN "completed"
                 ELSE IF j.attempts + 1 > MaxAttempts THEN "failed" ELSE "waiting"]

\* What BullMQ makes of the outcome of a handler call
Outcome(j, at) ==
    LET ended == [j EXCEPT !.owner = NoSlot] IN
    CASE at = "ok"    -> [ended EXCEPT !.state = "completed"]
      [] at = "defer" -> [ended EXCEPT !.state = "waiting"]
      [] at = "fatal" -> [ended EXCEPT !.state = "failed", !.attempts = @ + 1]
      [] at = "throw" -> [ended EXCEPT !.attempts = @ + 1,
                            !.state = IF j.attempts + 1 >= MaxAttempts
                                      THEN "failed" ELSE "waiting"]

\* The outcome is recorded only under the job's lock
EndCall(s) ==
    LET m == slot[s].m IN
    /\ slot[s].at \in {"ok", "defer", "throw", "fatal"}
    /\ job' = IF job[m].owner # s THEN job
              ELSE [job EXCEPT ![m] = Outcome(job[m], slot[s].at)]
    /\ slot' = [slot EXCEPT ![s] = Idle]
    /\ UNCHANGED <<turnKeys, request, acked, dlq, done, effects, trouble>>

Crash(s) ==
    /\ slot[s].at # "idle"
    /\ Trouble("crash")
    /\ slot' = [slot EXCEPT ![s] = Idle]
    /\ KeepQueue /\ UNCHANGED <<turnKeys, dlq, done, effects>>

Running(s, m) == slot[s].at # "idle" /\ slot[s].m = m

\* The stalled check puts back a job whose lock was not renewed, because its
\* process died or, a "stall", was blocked; once too often, the job fails
StalledCheck(m) ==
    LET j == job[m] IN
    /\ j.state = "active"
    /\ IF Running(j.owner, m) THEN Trouble("stall") ELSE UNCHANGED trouble
    /\ job' = [job EXCEPT ![m].owner = NoSlot, ![m].stalls = @ + 1,
                 ![m].state = IF j.stalls >= MaxStalls THEN "failed" ELSE "waiting"]
    /\ UNCHANGED <<turnKeys, request, acked, slot, dlq, done, effects>>

\* The two-second lease of a dead holder runs out; that of a live one only
\* when its renewals are late, a "lapse"
Holding(s) == slot[s].at \in {"process", "processed", "complete", "dlq", "finalize", "release"}

LeaseExpires ==
    /\ lease # NoLease
    /\ IF Holding(lease.token) THEN Trouble("lapse") ELSE UNCHANGED trouble
    /\ LeaseLapse
    /\ KeepQueue /\ UNCHANGED <<slot, dlq, done, effects>>

-----------------------------------------------------------------------------
Handler(s) ==
    \/ Claim(s) \/ RenewalFails(s) \/ Process(s) \/ ProcessFails(s) \/ Return(s)
    \/ Complete(s) \/ PublishDlq(s) \/ FinalizeTerminal(s) \/ Release(s) \/ EndCall(s)

Producer(r) == ReserveTurn(r) \/ AddJob(r)

Next ==
    \/ \E r \in Requests, m \in Messages : Deliver(r, m)
    \/ \E r \in Requests : ReserveTurn(r) \/ AddJob(r) \/ RequestFails(r)
    \/ \E m \in Messages : EvictCompleted(m) \/ StalledCheck(m)
    \/ \E s \in Slots, m \in Messages : Take(s, m)
    \/ \E s \in Slots : Handler(s) \/ Crash(s)
    \/ LeaseExpires

Spec == Init /\ [][Next]_vars

\* Processes that run make progress, Meta redelivers what was not acknowledged,
\* the stalled check and the lease's clock do not stop, and BullMQ, which takes
\* jobs in the order they became due, does not pass over a waiting job for ever.
Fairness ==
    /\ \A r \in Requests : WF_vars(Producer(r))
    /\ \A m \in Messages : SF_vars(\E r \in Requests : Deliver(r, m))
    /\ \A s \in Slots : WF_vars(Handler(s))
    /\ \A m \in Messages : SF_vars(\E s \in Slots : Take(s, m))
    /\ \A m \in Messages : WF_vars(StalledCheck(m) /\ UNCHANGED trouble)
    /\ WF_vars(LeaseExpires /\ UNCHANGED trouble)

FairSpec == Spec /\ Fairness

-----------------------------------------------------------------------------
\* However often jobs are redelivered, deferred, retried and resumed after a
\* crash, the agent handles the conversation's messages in the order of their
\* turns: a repeated handling comes before any handling of a later message.
HandledInTurnOrder ==
    \A i, k \in 1..Len(effects) : i < k => msg[effects[i]] <= msg[effects[k]]

\* What a slot believes it holds: its turn, from the granted claim until it has
\* ended the turn or left the handler
HeldTurn == [s \in Slots |-> IF Holding(s) THEN Turn(s) ELSE 0]

Ordering == INSTANCE ConversationOrdering WITH claim <- HeldTurn

\* The webhooks and workers are clients of the ordering adapter as
\* ConversationOrdering describes them: whatever is redelivered, deferred,
\* retried, stalled or crashed, they reserve a turn for a message, claim only
\* reserved turns, and end only what they claimed.
ImplementsOrdering == Ordering!Spec

\* The agent never works on two messages of one conversation at a time, even
\* when the lease of a live worker lapses: the job's lock and the order of the
\* turns hold without it.
OneAtATime ==
    \A s, t \in Slots : slot[s].at = "process" /\ slot[t].at = "process" => s = t

\* A turn is finished, and a completed job evicted, only for a message that was
\* handled or is in the dead-letter queue: none drops out on the way.
NoSilentLoss ==
    LET Handled == {effects[i] : i \in 1..Len(effects)} IN
    /\ done \subseteq Handled \cup dlq
    /\ \A m \in acked : job[m].state \in {"none", "completed"} => m \in Handled \cup dlq

\* Once its turn is finished a message is not handled again, although Meta
\* redelivers it after its completed job was evicted: the reserved turn
\* outlives the job.
FinishedNotHandledAgain ==
    [][\A m \in done : \A s \in Slots :
          slot[s].m = m /\ slot[s].at = "process" => slot'[s].at # "processed"]_vars

\* A message that failed for good and has its dead-letter entry no longer holds
\* up the conversation: its turn is finished.
DeadLetteredTurnAdvanced ==
    \A m \in Messages :
       job[m].state = "failed" /\ m \in dlq => msg[m] < ExpectedTurn

\* Every message Meta was told is accepted gets its turn, and the turn ends:
\* no retry, crash or deferral leaves the conversation stuck behind it.
EveryTurnEnds ==
    \A m \in Messages : m \in acked ~> (msg[m] # 0 /\ msg[m] < ExpectedTurn)
=============================================================================
