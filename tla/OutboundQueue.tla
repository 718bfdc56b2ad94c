--------------------------- MODULE OutboundQueue ---------------------------
(***************************************************************************)
(* The BullMQ job of ONE prepared outbound group, and the worker slots     *)
(* that send its commands to the WhatsApp Cloud API: one call of           *)
(* createOutboundProcessor at a time unless the job's lock is lost.  A     *)
(* group is agent replies, or the one document of a receipt.  An action    *)
(* ends at an await.                                                       *)
(*                                                                         *)
(* A "runtimeReceipt" reads a PDF that the producer staged; an             *)
(* "orderReceipt" writes the PDF anew, exclusively, in every attempt.      *)
(* Both record SENT or FAILED in the customer's order session, which is    *)
(* read, changed and written back as a whole, with no lock and no compare: *)
(* another worker or a turn of the agent may write it in between.          *)
(***************************************************************************)
EXTENDS Naturals, Sequences, SequencesExt

CONSTANTS Groups,        \* the groups a producer may prepare: commands, in order
          Slots, NoSlot,
          MaxAttempts,   \* WHATSAPP_OUTBOUND_RETRY_ATTEMPTS
          MaxStalls,     \* BullMQ's maxStalledCount
          Scenarios,     \* sets of kinds of trouble that may occur together
          MaxTrouble     \* bound on how often trouble occurs

ASSUME OutboundAssumption ==
    /\ Groups \subseteq Seq({"reply", "runtimeReceipt", "orderReceipt"}) \ {<<>>}
    /\ Scenarios \subseteq SUBSET {"crash", "stall", "lostReply", "store", "dlq", "append"}
    /\ MaxTrouble \in Nat /\ MaxAttempts \in Nat \ {0} /\ MaxStalls \in Nat /\ NoSlot \notin Slots

VARIABLES job,       \* the BullMQ job: its state, attempts, cursor and lock
          slot,      \* the handler call each worker slot is running
          calls,     \* history: commands in the order WhatsApp accepted them
          receipt,   \* dispatchStatus in the order session
          appending, \* dispatchStatus in the copy of the session that a turn will write back
          file,      \* the receipt's PDF is on disk
          dlq,       \* the group has an entry in the dead-letter queue
          trouble    \* what trouble may occur, what has, and how often

vars == <<job, slot, calls, receipt, appending, file, dlq, trouble>>

\* The session was read, and what is recorded in the copy is about to be saved
Saves == {"saveNotBuilt", "saveRecord", "saveCatch"}
Points == Saves \cup {"idle", "resolve", "send", "post", "record", "catch", "unlink",
                      "progress", "dlq", "ok", "throw", "fatal"}
Statuses == {"NOT_STARTED", "SENT", "FAILED"}
Classes == {"none", "retryable", "permanent"}

Idle == [at |-> "idle", next |-> 0, class |-> "none"]

Commands == job.commands

TypeOK ==
    /\ job \in [commands : Groups,
                state : {"waiting", "active", "completed", "failed"},
                attempts : 0..MaxAttempts, stalls : 0..(MaxStalls + 1),
                progress : 0..Len(Commands), owner : Slots \cup {NoSlot}]
    /\ slot \in [Slots -> [at : Points, next : 0..Len(Commands), class : Classes]]
    /\ calls \in Seq(1..Len(Commands))
    /\ receipt \in Statuses /\ appending \in Statuses \cup {"none"}
    /\ file \in BOOLEAN /\ dlq \in BOOLEAN
    /\ trouble.kinds \in Scenarios /\ trouble.met \subseteq trouble.kinds
    /\ trouble.count \in 0..MaxTrouble

Init ==
    /\ job \in [commands : Groups, state : {"waiting"}, attempts : {0}, stalls : {0},
                progress : {0}, owner : {NoSlot}]
    /\ slot = [s \in Slots |-> Idle]
    /\ calls = <<>>
    /\ receipt = "NOT_STARTED" /\ appending = "none"
    /\ file = ("runtimeReceipt" \in ToSet(Commands))
    /\ dlq = FALSE
    /\ trouble \in [kinds : Scenarios, met : {{}}, count : {0}]

Trouble(k) ==
    /\ k \in trouble.kinds /\ trouble.count < MaxTrouble
    /\ trouble' = [trouble EXCEPT !.met = @ \cup {k}, !.count = @ + 1]

GoTo(s, p) == slot' = [slot EXCEPT ![s].at = p]

GoToWith(s, p, class) == slot' = [slot EXCEPT ![s].at = p, ![s].class = class]

Command(s) == Commands[slot[s].next + 1]

\* Faulty: the last attempt is not seen to be the last
OnErrorLate(s, class) ==
    GoTo(s, IF class # "retryable" \/ job.attempts + 1 > MaxAttempts
            THEN "dlq" ELSE "throw")

\* classifyOutboundFailure and the terminal test of handleOutboundFailure: an
\* error that is none of the classified ones, a failed fetch included, is permanent
OnError(s, class) ==
    GoTo(s, IF class # "retryable" \/ job.attempts + 1 >= MaxAttempts
            THEN "dlq" ELSE "throw")

-----------------------------------------------------------------------------
\* Faulty: every attempt sends the group from its first command
TakeFromStart(s) ==
    /\ slot[s].at = "idle"
    /\ job.state = "waiting"
    /\ job' = [job EXCEPT !.state = "active", !.owner = s]
    /\ slot' = [slot EXCEPT ![s] = [Idle EXCEPT !.at = "resolve"]]
    /\ UNCHANGED <<calls, receipt, appending, file, dlq, trouble>>

\* Faulty: a failed job is taken again
TakeFailed(s) ==
    /\ slot[s].at = "idle"
    /\ job.state \in {"waiting", "failed"}
    /\ job' = [job EXCEPT !.state = "active", !.owner = s]
    /\ slot' = [slot EXCEPT ![s] = [Idle EXCEPT !.at = "resolve", !.next = job.progress]]
    /\ UNCHANGED <<calls, receipt, appending, file, dlq, trouble>>

\* The worker takes the job and validates its data and its progress
Take(s) ==
    /\ slot[s].at = "idle"
    /\ job.state = "waiting"
    /\ job' = [job EXCEPT !.state = "active", !.owner = s]
    /\ slot' = [slot EXCEPT ![s] = [Idle EXCEPT !.at = "resolve", !.next = job.progress]]
    /\ UNCHANGED <<calls, receipt, appending, file, dlq, trouble>>

Continue(s, n) ==
    slot' = [slot EXCEPT ![s] = [at |-> IF n = Len(Commands) THEN "ok" ELSE "send",
                                 next |-> n, class |-> "none"]]

\* resolveForTrustedSeller: a database error is retryable, a missing
\* connection or credential is not
Resolve(s) ==
    /\ slot[s].at = "resolve"
    /\ \/ Continue(s, slot[s].next)
       \/ \E class \in {"retryable", "permanent"} : OnError(s, class)
    /\ UNCHANGED <<job, calls, receipt, appending, file, dlq, trouble>>

Accepted(s) == calls' = Append(calls, slot[s].next + 1)

\* postCloudMessage: 2xx, 4xx, 5xx, or a fetch that throws, in which case the
\* message may have been accepted all the same
SendReply(s) ==
    /\ slot[s].at = "send" /\ Command(s) = "reply"
    /\ \/ Accepted(s) /\ GoTo(s, "progress") /\ UNCHANGED trouble
       \/ /\ \E class \in {"retryable", "permanent"} : OnError(s, class)
          /\ UNCHANGED <<calls, trouble>>
       \/ Trouble("lostReply") /\ Accepted(s) /\ OnError(s, "permanent")
    /\ UNCHANGED <<job, receipt, appending, file, dlq>>

\* Faulty: the last outcome overwrites the one before
AnyStatus == TRUE

\* recordOrderRuntimeReceiptDispatch leaves a SENT that it reads alone
NotSentYet == receipt # "SENT"

\* A save that throws may have been carried out all the same
SaveThrows(status) == Trouble("store") /\ receipt' \in {receipt, status}

\* The snapshot is loaded and its PDF written with the flag "wx", which fails
\* when the file exists
PrepareReceipt(s) ==
    /\ slot[s].at = "send" /\ Command(s) # "reply"
    /\ IF Command(s) = "runtimeReceipt"
         THEN GoTo(s, "post") /\ UNCHANGED file
         ELSE \/ OnError(s, "permanent") /\ UNCHANGED file
              \/ OnError(s, "retryable") /\ UNCHANGED file
              \/ file /\ GoToWith(s, "catch", "retryable") /\ UNCHANGED file
              \/ ~file /\ file' = TRUE /\ GoTo(s, "post")
    /\ UNCHANGED <<job, calls, receipt, appending, dlq, trouble>>

\* The snapshot gives no receipt model or no PDF: that is recorded as well,
\* outside of the block whose errors are caught
ReceiptNotBuilt(s) ==
    /\ slot[s].at = "send" /\ Command(s) = "orderReceipt"
    /\ \/ NotSentYet /\ GoTo(s, "saveNotBuilt") /\ UNCHANGED trouble
       \/ ~NotSentYet /\ OnError(s, "retryable") /\ UNCHANGED trouble
       \/ Trouble("store") /\ OnError(s, "permanent")
    /\ UNCHANGED <<job, calls, receipt, appending, file, dlq>>

SaveNotBuilt(s) ==
    /\ slot[s].at = "saveNotBuilt"
    /\ \/ receipt' = "FAILED" /\ OnError(s, "retryable") /\ UNCHANGED trouble
       \/ SaveThrows("FAILED") /\ OnError(s, "permanent")
    /\ UNCHANGED <<job, calls, appending, file, dlq>>

\* sendDocument uploads the file and posts the message; a file that cannot be
\* read is an ordinary failure, and so is a failed fetch of the upload; a
\* failed fetch of the message is thrown
PostReceipt(s) ==
    /\ slot[s].at = "post"
    /\ \/ /\ file
          /\ Accepted(s)
          /\ GoToWith(s, "record", "none")
          /\ UNCHANGED trouble
       \/ /\ \E class \in {"retryable"} \cup (IF file THEN {"permanent"} ELSE {}) :
                GoToWith(s, "record", class)
          /\ UNCHANGED <<calls, trouble>>
       \/ file /\ GoToWith(s, "catch", "retryable") /\ UNCHANGED <<calls, trouble>>
       \/ file /\ Trouble("lostReply") /\ Accepted(s) /\ GoToWith(s, "catch", "retryable")
    /\ UNCHANGED <<job, receipt, appending, file, dlq>>

\* The outcome of the post is recorded: the session is read first
Record(s) ==
    /\ slot[s].at = "record"
    /\ \/ GoTo(s, IF NotSentYet THEN "saveRecord" ELSE "unlink") /\ UNCHANGED trouble
       \/ Trouble("store") /\ GoToWith(s, "catch", "retryable")
    /\ UNCHANGED <<job, calls, receipt, appending, file, dlq>>

SaveRecord(s) ==
    /\ slot[s].at = "saveRecord"
    /\ LET status == IF slot[s].class = "none" THEN "SENT" ELSE "FAILED" IN
       \/ receipt' = status /\ GoTo(s, "unlink") /\ UNCHANGED trouble
       \/ SaveThrows(status) /\ GoToWith(s, "catch", "retryable")
    /\ UNCHANGED <<job, calls, appending, file, dlq>>

\* If recording in the catch block fails too, only the order receipt's finally
\* still unlinks
CatchThrows(s) ==
    IF Command(s) = "orderReceipt"
      THEN GoToWith(s, "unlink", "permanent")
      ELSE OnError(s, "permanent")

\* The catch block records FAILED whatever threw, the record of SENT included
CatchReceipt(s) ==
    /\ slot[s].at = "catch"
    /\ \/ GoTo(s, IF NotSentYet THEN "saveCatch" ELSE "unlink") /\ UNCHANGED trouble
       \/ Trouble("store") /\ CatchThrows(s)
    /\ UNCHANGED <<job, calls, receipt, appending, file, dlq>>

SaveCatch(s) ==
    /\ slot[s].at = "saveCatch"
    /\ \/ receipt' = "FAILED" /\ GoTo(s, "unlink") /\ UNCHANGED trouble
       \/ SaveThrows("FAILED") /\ CatchThrows(s)
    /\ UNCHANGED <<job, calls, appending, file, dlq>>

\* The PDF is removed after success and after failure
Unlink(s) ==
    /\ slot[s].at = "unlink"
    /\ file' = FALSE
    /\ IF slot[s].class = "none"
         THEN GoTo(s, "progress")
         ELSE OnError(s, slot[s].class)
    /\ UNCHANGED <<job, calls, receipt, appending, dlq, trouble>>

\* Faulty: the cursor runs one command ahead
CommandAfterNext(s) == slot[s].next + 2

CommandAfter(s) == slot[s].next + 1

\* job.updateProgress does not look at the job's lock.  Its error is caught
\* only around a runtime receipt.
Progress(s) ==
    /\ slot[s].at = "progress"
    /\ \/ /\ job' = [job EXCEPT !.progress = CommandAfter(s)]
          /\ Continue(s, CommandAfter(s))
          /\ UNCHANGED trouble
       \/ /\ Trouble("store")
          /\ IF Command(s) = "runtimeReceipt"
               THEN GoToWith(s, "catch", "retryable")
               ELSE OnError(s, "permanent")
          /\ UNCHANGED job
    /\ UNCHANGED <<calls, receipt, appending, file, dlq>>

\* dlq_publish_failed is an error of the attempt like any other
PublishDlq(s) ==
    /\ slot[s].at = "dlq"
    /\ \/ dlq' = TRUE /\ GoTo(s, "fatal") /\ UNCHANGED trouble
       \/ Trouble("dlq") /\ GoTo(s, "throw") /\ UNCHANGED dlq
    /\ UNCHANGED <<job, calls, receipt, appending, file>>

-----------------------------------------------------------------------------
(* BullMQ and the processes *)

\* Faulty: an error puts the job back without counting the attempt
OutcomeUncounted(at) ==
    [job EXCEPT !.owner = NoSlot,
       !.state = CASE at = "ok" -> "completed" [] at = "fatal" -> "failed" [] at = "throw" -> "waiting"]

\* What BullMQ makes of the outcome of a handler call
Outcome(at) ==
    LET ended == [job EXCEPT !.owner = NoSlot] IN
    CASE at = "ok"    -> [ended EXCEPT !.state = "completed"]
      [] at = "fatal" -> [ended EXCEPT !.state = "failed", !.attempts = @ + 1]
      [] at = "throw" -> [ended EXCEPT !.attempts = @ + 1,
                            !.state = IF job.attempts + 1 >= MaxAttempts
                                      THEN "failed" ELSE "waiting"]

EndCall(s) ==
    /\ slot[s].at \in {"ok", "throw", "fatal"}
    /\ job' = IF job.owner # s THEN job ELSE Outcome(slot[s].at)
    /\ slot' = [slot EXCEPT ![s] = Idle]
    /\ UNCHANGED <<calls, receipt, appending, file, dlq, trouble>>

Crash(s) ==
    /\ slot[s].at # "idle"
    /\ Trouble("crash")
    /\ slot' = [slot EXCEPT ![s] = Idle]
    /\ UNCHANGED <<job, calls, receipt, appending, file, dlq>>

\* A job whose lock was not renewed, because its process died or was blocked
\* (a "stall"), is put back; once too often and it fails, without its handler
StalledCheck ==
    /\ job.state = "active"
    /\ IF slot[job.owner].at # "idle" THEN Trouble("stall") ELSE UNCHANGED trouble
    /\ job' = [job EXCEPT !.owner = NoSlot, !.stalls = @ + 1,
                 !.state = IF job.stalls >= MaxStalls THEN "failed" ELSE "waiting"]
    /\ UNCHANGED <<slot, calls, receipt, appending, file, dlq>>

-----------------------------------------------------------------------------
(* A turn of the agent appends a message to the same session *)

ReadForAppend ==
    /\ appending = "none" /\ Trouble("append")
    /\ appending' = receipt
    /\ UNCHANGED <<job, slot, calls, receipt, file, dlq>>

WriteAppended ==
    /\ appending # "none"
    /\ receipt' = appending /\ appending' = "none"
    /\ UNCHANGED <<job, slot, calls, file, dlq, trouble>>

-----------------------------------------------------------------------------
Handler(s) ==
    \/ Resolve(s) \/ SendReply(s) \/ PrepareReceipt(s) \/ ReceiptNotBuilt(s) \/ SaveNotBuilt(s)
    \/ PostReceipt(s) \/ Record(s) \/ SaveRecord(s) \/ CatchReceipt(s) \/ SaveCatch(s)
    \/ Unlink(s) \/ Progress(s) \/ PublishDlq(s) \/ EndCall(s)

Next ==
    \/ \E s \in Slots : Take(s) \/ Handler(s) \/ Crash(s)
    \/ StalledCheck \/ ReadForAppend \/ WriteAppended

Spec == Init /\ [][Next]_vars

\* Workers that run make progress and take a waiting job; BullMQ's stalled
\* check runs on a timer.  Crashes, stalls and faults are never forced.
FairSpec ==
    /\ Spec
    /\ \A s \in Slots : WF_vars(Handler(s))
    /\ WF_vars(\E s \in Slots : Take(s))
    /\ WF_vars(StalledCheck /\ UNCHANGED trouble)

-----------------------------------------------------------------------------
Delivered == ToSet(calls)

\* The customer reads the group in order, with nothing left out: the cursor
\* never passes a command that WhatsApp did not accept, a command is first
\* accepted after all those before it, whatever crashed or was resumed, and a
\* completed job has delivered the whole group.
DeliveredInOrder ==
    /\ job.state = "completed" => Delivered = 1..Len(Commands)
    /\ 1..job.progress \subseteq Delivered
    /\ \A i \in DOMAIN calls : 1..(calls[i] - 1) \subseteq ToSet(SubSeq(calls, 1, i))

\* Commands the cursor has passed are not sent again by a retry or after a
\* crash; only a worker that lost the job's lock does that.  The one command
\* a crash or a lost answer may repeat is the one at the cursor.
RecordedNotResent ==
    []["stall" \notin trouble.met =>
         \A i \in 1..job.progress : Len(calls') > Len(calls) => Last(calls') # i]_vars

\* The order session says SENT only of a document that WhatsApp accepted, and
\* no worker overwrites SENT: not the catch block, nor a retry that finds no
\* file, nor a save that a read decided on, unless two workers run because one
\* lost the job's lock.  A turn that read the session before may undo it.
SentIsFinal ==
    [][/\ receipt' = "SENT" => Delivered' # {}
       /\ receipt = "SENT" /\ "stall" \notin trouble.met => receipt' = "SENT" \/ WriteAppended]_vars

\* A group that failed for good is in the dead-letter queue, unless that queue
\* was down or BullMQ failed the job for stalling, which runs no handler.
FailedIsDeadLettered ==
    job.state = "failed" /\ job.stalls <= MaxStalls /\ "dlq" \notin trouble.met => dlq

\* Every group is completed or failed in the end.
EventuallyDecided == <>[](job.state \in {"completed", "failed"})

\* A receipt that is going to be retried can still be sent: its document is there.
RetryHasDocument ==
    job.state = "waiting" /\ Delivered = {} => file
=============================================================================
