------------------------ MODULE OutboundQueue_proofs ------------------------
(***************************************************************************)
(* One outbound group for any commands, workers, limits and troubles: the  *)
(* customer reads it in order, nothing recorded is sent again unless a     *)
(* worker lost its lock, SENT is true and no worker overwrites it while    *)
(* jobs keep their locks, and a group that failed is dead-lettered.        *)
(***************************************************************************)
EXTENDS OutboundQueue, TLAPS

TroubleKinds == {"crash", "stall", "lostReply", "store", "dlq", "append"}

\* The job is active exactly under a lock, and its counters leave room for one more
JobInv ==
    /\ job.state = "active" <=> job.owner # NoSlot
    /\ job.state \in {"waiting", "active"} => job.attempts < MaxAttempts /\ job.stalls <= MaxStalls
    /\ trouble \in [kinds : Scenarios, met : SUBSET TroubleKinds, count : 0..MaxTrouble]
    /\ Commands \in Seq({"reply", "runtimeReceipt", "orderReceipt"}) /\ Len(Commands) # 0

\* The steps at which a worker has a command in hand
AtCommand == Saves \cup {"send", "post", "record", "catch", "unlink", "progress"}

\* What a worker counts as delivered was accepted by WhatsApp
SlotInv(s) ==
    /\ 1..slot[s].next \subseteq Delivered
    /\ slot[s].at \in AtCommand => slot[s].next < Len(Commands)
    /\ slot[s].at = "ok" => slot[s].next = Len(Commands)
    /\ slot[s].at \in {"catch", "saveCatch"} => slot[s].class = "retryable"
    /\ slot[s].at = "progress" => slot[s].next + 1 \in Delivered
    /\ slot[s].at \in {"record", "saveRecord", "unlink"} /\ slot[s].class = "none" => slot[s].next + 1 \in Delivered

\* The first acceptance of a command comes after those of the commands before it
InOrder ==
    \A i \in 1..Len(calls) : \A c \in 1..(calls[i] - 1) : \E k \in 1..i : calls[k] = c

DeliveryInv ==
    /\ 1..job.progress \subseteq Delivered
    /\ job.state = "completed" => 1..Len(Commands) \subseteq Delivered
    /\ \A s \in Slots : SlotInv(s)
    /\ InOrder
    /\ "SENT" \in {receipt, appending} => Delivered # {}

\* Without a stall the one worker at the job is the owner of its lock
LockInv == "stall" \notin trouble.met =>
    \A s \in Slots : slot[s].at # "idle" => job.owner = s /\ slot[s].next = job.progress

\* An attempt that is not dead-lettered is not the last
FailInv ==
    /\ \A s \in Slots : slot[s].at = "fatal" => dlq
    /\ \A s \in Slots : slot[s].at = "throw" /\ job.owner = s /\ "dlq" \notin trouble.met =>
          job.attempts + 1 < MaxAttempts
    /\ FailedIsDeadLettered

IInv == TypeOK /\ JobInv /\ DeliveryInv /\ LockInv /\ FailInv

-----------------------------------------------------------------------------
(* Slots and troubles *)

SlotRecords == [at : Points, next : 0..Len(Commands), class : Classes]

JobRecords == [commands : Groups, state : {"waiting", "active", "completed", "failed"},
               attempts : 0..MaxAttempts, stalls : 0..(MaxStalls + 1),
               progress : 0..Len(Commands), owner : Slots \cup {NoSlot}]

TroubleSame ==
    /\ trouble' \in [kinds : Scenarios, met : SUBSET TroubleKinds, count : 0..MaxTrouble]
    /\ trouble.met \subseteq trouble'.met /\ trouble'.met \subseteq trouble'.kinds

LEMMA TroubleStays ==
    ASSUME IInv, UNCHANGED trouble
    PROVE  TroubleSame
BY DEF IInv, TypeOK, JobInv, TroubleSame

LEMMA TroubleOccurs ==
    ASSUME IInv, NEW k, Trouble(k)
    PROVE  TroubleSame /\ k \in trouble'.met
<1>1. /\ trouble \in [kinds : Scenarios, met : SUBSET TroubleKinds, count : 0..MaxTrouble]
      /\ k \in trouble.kinds /\ k \in TroubleKinds /\ MaxTrouble \in Nat /\ trouble.count < MaxTrouble
      /\ trouble.met \subseteq trouble.kinds
  BY OutboundAssumption DEF IInv, TypeOK, JobInv, Trouble, TroubleKinds
<1>2. PICK n : n = trouble.count + 1
  OBVIOUS
<1>3. PICK e : e = trouble.met \cup {k}
  OBVIOUS
<1>4. n \in 0..MaxTrouble /\ e \in SUBSET TroubleKinds
  BY <1>1, <1>2, <1>3
<1>5. trouble' = [trouble EXCEPT !.met = e, !.count = n]
  BY <1>2, <1>3 DEF Trouble
<1>6. /\ trouble' \in [kinds : Scenarios, met : SUBSET TroubleKinds, count : 0..MaxTrouble]
      /\ trouble'.kinds = trouble.kinds /\ trouble'.met = e
  BY <1>1, <1>4, <1>5
<1> QED
  BY <1>1, <1>3, <1>6 DEF TroubleSame

LEMMA LimitsAreNumbers ==
    ASSUME IInv
    PROVE  /\ job \in JobRecords /\ slot \in [Slots -> SlotRecords]
           /\ Len(Commands) \in Nat \ {0} /\ Commands \in Seq({"reply", "runtimeReceipt", "orderReceipt"})
           /\ calls \in Seq(1..Len(Commands)) /\ Len(calls) \in Nat
           /\ MaxAttempts \in Nat \ {0} /\ MaxStalls \in Nat /\ NoSlot \notin Slots
           /\ Delivered = {calls[i] : i \in 1..Len(calls)} /\ Delivered \subseteq 1..Len(Commands)
<1>1. /\ Commands \in Seq({"reply", "runtimeReceipt", "orderReceipt"}) /\ Len(Commands) # 0
      /\ calls \in Seq(1..Len(Commands))
  BY DEF IInv, TypeOK, JobInv
<1>2. Delivered = {calls[i] : i \in 1..Len(calls)}
  BY <1>1 DEF Delivered, ToSet
<1> QED
  BY <1>1, <1>2, OutboundAssumption DEF IInv, TypeOK, JobRecords, SlotRecords

LEMMA GoToRecord ==
    ASSUME IInv, NEW s \in Slots, NEW p \in Points, GoTo(s, p)
    PROVE  \E q \in SlotRecords : /\ slot' = [slot EXCEPT ![s] = q] /\ q.at = p
                                  /\ q.next = slot[s].next /\ q.class = slot[s].class
<1>1. slot[s] \in SlotRecords /\ slot' = [slot EXCEPT ![s] = [slot[s] EXCEPT !.at = p]]
  BY LimitsAreNumbers DEF GoTo
<1>2. PICK q : q = [slot[s] EXCEPT !.at = p]
  OBVIOUS
<1>3. q \in SlotRecords /\ q.at = p /\ q.next = slot[s].next /\ q.class = slot[s].class
  BY <1>1, <1>2 DEF SlotRecords
<1> QED
  BY <1>1, <1>2, <1>3

LEMMA GoToWithRecord ==
    ASSUME IInv, NEW s \in Slots, NEW p \in Points, NEW c \in Classes, GoToWith(s, p, c)
    PROVE  \E q \in SlotRecords : /\ slot' = [slot EXCEPT ![s] = q] /\ q.at = p
                                  /\ q.next = slot[s].next /\ q.class = c
<1>1. slot[s] \in SlotRecords /\ slot' = [slot EXCEPT ![s] = [slot[s] EXCEPT !.at = p, !.class = c]]
  BY LimitsAreNumbers DEF GoToWith
<1>2. PICK q : q = [slot[s] EXCEPT !.at = p, !.class = c]
  OBVIOUS
<1>3. q \in SlotRecords /\ q.at = p /\ q.next = slot[s].next /\ q.class = c
  BY <1>1, <1>2 DEF SlotRecords
<1> QED
  BY <1>1, <1>2, <1>3

\* An error ends the attempt, or goes to the dead-letter queue when it is the last
LEMMA OnErrorRecord ==
    ASSUME IInv, NEW s \in Slots, NEW c, OnError(s, c)
    PROVE  \E q \in SlotRecords :
              /\ slot' = [slot EXCEPT ![s] = q] /\ q.at \in {"dlq", "throw"}
              /\ q.next = slot[s].next
              /\ q.at = "throw" => job.attempts + 1 < MaxAttempts
<1>1. PICK p : p = IF c # "retryable" \/ job.attempts + 1 >= MaxAttempts THEN "dlq" ELSE "throw"
  OBVIOUS
<1>2. job.attempts \in Nat /\ MaxAttempts \in Nat
  BY LimitsAreNumbers DEF JobRecords
<1>3. p \in {"dlq", "throw"} /\ (p = "throw" => job.attempts + 1 < MaxAttempts)
  BY <1>1, <1>2
<1>4. GoTo(s, p) /\ p \in Points
  BY <1>1, <1>3 DEF OnError, Points
<1>5. PICK q \in SlotRecords : /\ slot' = [slot EXCEPT ![s] = q] /\ q.at = p
                               /\ q.next = slot[s].next /\ q.class = slot[s].class
  BY <1>4, GoToRecord
<1> QED
  BY <1>3, <1>5

-----------------------------------------------------------------------------
(* The handler *)

\* What WhatsApp has accepted when the command in hand is sent
LEMMA AcceptedKeeps ==
    ASSUME IInv, NEW s \in Slots, slot[s].at \in {"send", "post"}, Accepted(s)
    PROVE  /\ calls' \in Seq(1..Len(Commands)) /\ slot[s].next + 1 \in Delivered'
           /\ Delivered \subseteq Delivered' /\ InOrder'
<1> DEFINE n == slot[s].next + 1
<1>1. /\ slot[s].next \in 0..Len(Commands) /\ slot[s].next < Len(Commands)
      /\ 1..slot[s].next \subseteq Delivered /\ Len(Commands) \in Nat
  BY LimitsAreNumbers DEF IInv, DeliveryInv, SlotInv, AtCommand, SlotRecords
<1>2. /\ n \in 1..Len(Commands) /\ calls' = Append(calls, n) /\ calls \in Seq(1..Len(Commands))
      /\ 1..(n - 1) \subseteq Delivered /\ n - 1 = slot[s].next
  BY <1>1, LimitsAreNumbers DEF Accepted
<1> HIDE DEF n
<1>3. /\ calls' \in Seq(1..Len(Commands)) /\ Len(calls') = Len(calls) + 1 /\ Len(calls) \in Nat
      /\ \A i \in 1..Len(calls) : calls'[i] = calls[i]
      /\ calls'[Len(calls) + 1] = n
  BY <1>2
<1>4. Delivered' = {calls'[i] : i \in 1..Len(calls')}
  <2>1. DOMAIN calls' = 1..Len(calls')
    BY <1>3
  <2>2. Delivered' = {calls'[i] : i \in DOMAIN calls'}
    BY DEF Delivered, ToSet
  <2> QED
    BY <2>1, <2>2
<1>5. Delivered = {calls[i] : i \in 1..Len(calls)}
  BY LimitsAreNumbers
<1>6. Delivered \subseteq Delivered' /\ n \in Delivered'
  BY <1>3, <1>4, <1>5
<1>7. InOrder'
  <2> SUFFICES ASSUME NEW i \in 1..Len(calls'), NEW c \in 1..(calls'[i] - 1)
               PROVE  \E k \in 1..i : calls'[k] = c
    BY DEF InOrder
  <2>1. CASE i \in 1..Len(calls)
    <3>1. PICK k \in 1..i : calls[k] = c
      BY <1>3, <2>1 DEF IInv, DeliveryInv, InOrder
    <3>2. k \in 1..Len(calls)
      BY <1>3, <2>1
    <3> QED
      BY <1>3, <3>1, <3>2
  <2>2. CASE i = Len(calls) + 1
    <3>1. c \in Delivered
      BY <1>2, <1>3, <2>2
    <3>2. PICK k \in 1..Len(calls) : calls[k] = c
      BY <1>5, <3>1
    <3> QED
      BY <1>3, <2>2, <3>2
  <2> QED
    BY <1>3, <2>1, <2>2
<1> QED
  BY <1>3, <1>6, <1>7 DEF n

\* A step of a handler that leaves the job alone
LEMMA HandlerStep ==
    ASSUME IInv, TroubleSame, NEW s \in Slots, slot[s].at # "idle",
           NEW q \in SlotRecords, slot' = [slot EXCEPT ![s] = q],
           q.at # "idle", q.next = slot[s].next, UNCHANGED job,
           calls' \in Seq(1..Len(Commands)), Delivered \subseteq Delivered', InOrder',
           receipt' \in Statuses, receipt' = "SENT" => Delivered' # {}, UNCHANGED appending,
           file' \in BOOLEAN, dlq' \in BOOLEAN, dlq => dlq',
           q.at \in AtCommand => q.next < Len(Commands),
           q.at = "ok" => q.next = Len(Commands),
           q.at \in {"catch", "saveCatch"} => q.class = "retryable",
           q.at = "progress" => q.next + 1 \in Delivered',
           q.at \in {"record", "saveRecord", "unlink"} /\ q.class = "none" => q.next + 1 \in Delivered',
           q.at = "fatal" => dlq',
           q.at = "throw" /\ "dlq" \notin trouble'.met => job.attempts + 1 < MaxAttempts
    PROVE  IInv'
<1>1. \A t \in Slots : slot'[t] = IF t = s THEN q ELSE slot[t]
  BY LimitsAreNumbers
<1>2. slot' \in [Slots -> SlotRecords] /\ SlotRecords' = SlotRecords
  BY LimitsAreNumbers DEF SlotRecords, Commands
<1>3. Len(Commands)' = Len(Commands) /\ Commands' = Commands
  BY DEF Commands
<1>4. TypeOK'
  BY <1>2, <1>3 DEF IInv, TypeOK, TroubleSame, SlotRecords
<1>5. JobInv'
  BY <1>3 DEF IInv, JobInv, TroubleSame
<1>6. DeliveryInv'
  <2>1. \A t \in Slots : SlotInv(t)'
    <3> SUFFICES ASSUME NEW t \in Slots
                 PROVE  SlotInv(t)'
      OBVIOUS
    <3>1. SlotInv(t)
      BY DEF IInv, DeliveryInv
    <3>2. CASE t = s
      BY <1>1, <1>3, <3>1, <3>2 DEF SlotInv
    <3>3. CASE t # s
      BY <1>1, <1>3, <3>1, <3>3 DEF SlotInv
    <3> QED
      BY <3>2, <3>3
  <2> QED
    BY <1>3, <2>1 DEF IInv, DeliveryInv
<1>7. LockInv'
  BY <1>1 DEF IInv, LockInv, TroubleSame
<1>8. FailInv'
  BY <1>1 DEF IInv, FailInv, FailedIsDeadLettered, TroubleSame
<1> QED
  BY <1>4, <1>5, <1>6, <1>7, <1>8 DEF IInv

\* What is delivered and recorded may only grow
HistoryKept ==
    /\ calls' \in Seq(1..Len(Commands)) /\ Delivered \subseteq Delivered' /\ InOrder'
    /\ receipt' \in Statuses
    /\ receipt' = "SENT" => Delivered' # {}
    /\ file' \in BOOLEAN /\ UNCHANGED appending

LEMMA HistoryStays ==
    ASSUME IInv, UNCHANGED <<calls, receipt, appending>>, file' \in BOOLEAN
    PROVE  HistoryKept /\ Delivered' = Delivered
BY DEF IInv, TypeOK, DeliveryInv, InOrder, Delivered, HistoryKept, Statuses

LEMMA HistoryGrows ==
    ASSUME IInv, NEW s \in Slots, slot[s].at \in {"send", "post"}, Accepted(s),
           UNCHANGED <<receipt, appending, file>>
    PROVE  HistoryKept /\ slot[s].next + 1 \in Delivered'
BY AcceptedKeeps DEF IInv, TypeOK, DeliveryInv, HistoryKept

LEMMA HistoryRecorded ==
    ASSUME IInv, UNCHANGED <<calls, appending, file>>, NEW status \in {"SENT", "FAILED"},
           receipt' \in {receipt, status}, status = "SENT" => Delivered # {}
    PROVE  HistoryKept /\ Delivered' = Delivered
<1>1. Delivered' = Delivered /\ InOrder' /\ calls' \in Seq(1..Len(Commands)) /\ file' \in BOOLEAN
  BY DEF IInv, TypeOK, DeliveryInv, InOrder, Delivered
<1>2. /\ receipt' \in Statuses
      /\ receipt' = "SENT" => Delivered # {}
  BY DEF IInv, TypeOK, DeliveryInv, Statuses
<1> QED
  BY <1>1, <1>2 DEF HistoryKept

LEMMA ErrorKeeps ==
    ASSUME IInv, TroubleSame, HistoryKept, NEW s \in Slots, slot[s].at # "idle",
           NEW c, OnError(s, c), UNCHANGED <<job, dlq>>
    PROVE  IInv'
<1>1. PICK q \in SlotRecords : /\ slot' = [slot EXCEPT ![s] = q] /\ q.at \in {"dlq", "throw"}
                               /\ q.next = slot[s].next
                               /\ q.at = "throw" => job.attempts + 1 < MaxAttempts
  BY OnErrorRecord
<1>2. dlq' \in BOOLEAN /\ (dlq => dlq')
  BY DEF IInv, TypeOK
<1> QED
  BY <1>1, <1>2, HandlerStep DEF HistoryKept, AtCommand, Saves

\* Going on in the handler with the command in hand
LEMMA GoToKeeps ==
    ASSUME IInv, TroubleSame, HistoryKept, NEW s \in Slots, slot[s].at \in AtCommand,
           NEW p \in Saves \cup {"post", "record", "catch", "unlink", "progress"},
           NEW c \in Classes, GoToWith(s, p, c) \/ (GoTo(s, p) /\ c = slot[s].class),
           UNCHANGED <<job, dlq>>,
           p \in {"catch", "saveCatch"} => c = "retryable",
           p = "progress" \/ (p \in {"record", "saveRecord", "unlink"} /\ c = "none") =>
              slot[s].next + 1 \in Delivered'
    PROVE  IInv'
<1>1. p \in Points
  BY DEF Points
<1>2. PICK q \in SlotRecords : /\ slot' = [slot EXCEPT ![s] = q] /\ q.at = p
                               /\ q.next = slot[s].next /\ q.class = c
  BY <1>1, GoToRecord, GoToWithRecord
<1>3. slot[s].next < Len(Commands) /\ slot[s].at # "idle"
  BY DEF IInv, DeliveryInv, SlotInv, AtCommand, Saves
<1>4. dlq' \in BOOLEAN /\ (dlq => dlq')
  BY DEF IInv, TypeOK
<1> QED
  BY <1>2, <1>3, <1>4, HandlerStep DEF HistoryKept, Saves

LEMMA ContinueRecord ==
    ASSUME IInv, NEW s \in Slots, NEW n \in 0..Len(Commands), Continue(s, n)
    PROVE  \E q \in SlotRecords :
              /\ slot' = [slot EXCEPT ![s] = q] /\ q.next = n
              /\ q.at \in {"ok", "send"} /\ (q.at = "ok" <=> n = Len(Commands))
<1>1. PICK p : p = IF n = Len(Commands) THEN "ok" ELSE "send"
  OBVIOUS
<1>2. PICK q : q = [at |-> p, next |-> n, class |-> "none"]
  OBVIOUS
<1>3. q \in SlotRecords /\ q.next = n /\ q.at = p
  BY <1>1, <1>2 DEF SlotRecords, Points, Classes
<1>4. slot' = [slot EXCEPT ![s] = q]
  BY <1>1, <1>2 DEF Continue
<1> QED
  BY <1>1, <1>3, <1>4

LEMMA ResolveKeeps ==
    ASSUME IInv, NEW s \in Slots, Resolve(s)
    PROVE  IInv'
<1>1. slot[s].at = "resolve" /\ UNCHANGED <<job, calls, receipt, appending, file, dlq, trouble>>
  BY DEF Resolve
<1>2. TroubleSame /\ HistoryKept
  BY <1>1, TroubleStays, HistoryStays DEF IInv, TypeOK
<1>3. CASE \E class \in {"retryable", "permanent"} : OnError(s, class)
  BY <1>1, <1>2, <1>3, ErrorKeeps
<1>4. CASE Continue(s, slot[s].next)
  <2>1. slot[s].next \in 0..Len(Commands)
    BY LimitsAreNumbers DEF SlotRecords
  <2>2. PICK q \in SlotRecords :
              /\ slot' = [slot EXCEPT ![s] = q] /\ q.next = slot[s].next
              /\ q.at \in {"ok", "send"} /\ (q.at = "ok" <=> slot[s].next = Len(Commands))
    BY <1>4, <2>1, ContinueRecord
  <2>3. q.at = "send" => q.next < Len(Commands)
    BY <2>1, <2>2, LimitsAreNumbers
  <2>4. dlq' \in BOOLEAN /\ (dlq => dlq')
    BY <1>1 DEF IInv, TypeOK
  <2> QED
    BY <1>1, <1>2, <2>2, <2>3, <2>4, HandlerStep DEF HistoryKept, AtCommand, Saves
<1> QED
  BY <1>3, <1>4 DEF Resolve

LEMMA SendReplyKeeps ==
    ASSUME IInv, NEW s \in Slots, SendReply(s)
    PROVE  IInv'
<1>1. /\ slot[s].at = "send" /\ UNCHANGED <<job, receipt, appending, file, dlq>>
      /\ slot[s].at \in AtCommand /\ slot[s].class \in Classes /\ file' \in BOOLEAN
  BY LimitsAreNumbers DEF SendReply, AtCommand, SlotRecords, IInv, TypeOK
<1>2. CASE Accepted(s) /\ GoTo(s, "progress") /\ UNCHANGED trouble
  BY <1>1, <1>2, TroubleStays, HistoryGrows, GoToKeeps
<1>3. CASE /\ \E class \in {"retryable", "permanent"} : OnError(s, class)
           /\ UNCHANGED <<calls, trouble>>
  BY <1>1, <1>3, TroubleStays, HistoryStays, ErrorKeeps
<1>4. CASE Trouble("lostReply") /\ Accepted(s) /\ OnError(s, "permanent")
  BY <1>1, <1>4, TroubleOccurs, HistoryGrows, ErrorKeeps
<1> QED
  BY <1>2, <1>3, <1>4 DEF SendReply

LEMMA PrepareReceiptKeeps ==
    ASSUME IInv, NEW s \in Slots, PrepareReceipt(s)
    PROVE  IInv'
<1>1. /\ slot[s].at = "send" /\ UNCHANGED <<job, calls, receipt, appending, dlq, trouble>>
      /\ slot[s].at \in AtCommand /\ slot[s].at # "idle" /\ slot[s].class \in Classes
      /\ file' \in BOOLEAN
  BY LimitsAreNumbers DEF PrepareReceipt, AtCommand, SlotRecords, IInv, TypeOK
<1>2. TroubleSame /\ HistoryKept
  BY <1>1, TroubleStays, HistoryStays
<1>3. CASE GoTo(s, "post")
  BY <1>1, <1>2, <1>3, GoToKeeps
<1>4. CASE GoToWith(s, "catch", "retryable")
  BY <1>1, <1>2, <1>4, GoToKeeps DEF Classes
<1>5. CASE OnError(s, "permanent") \/ OnError(s, "retryable")
  BY <1>1, <1>2, <1>5, ErrorKeeps
<1> QED
  BY <1>3, <1>4, <1>5 DEF PrepareReceipt

LEMMA ReceiptNotBuiltKeeps ==
    ASSUME IInv, NEW s \in Slots, ReceiptNotBuilt(s)
    PROVE  IInv'
<1>1. /\ slot[s].at = "send" /\ UNCHANGED <<job, calls, receipt, appending, file, dlq>>
      /\ slot[s].at \in AtCommand /\ slot[s].at # "idle" /\ slot[s].class \in Classes
      /\ file' \in BOOLEAN
  BY LimitsAreNumbers DEF ReceiptNotBuilt, AtCommand, SlotRecords, IInv, TypeOK
<1>2. HistoryKept
  BY <1>1, HistoryStays
<1>3. CASE GoTo(s, "saveNotBuilt") /\ UNCHANGED trouble
  BY <1>1, <1>2, <1>3, TroubleStays, GoToKeeps DEF Saves
<1>4. CASE OnError(s, "retryable") /\ UNCHANGED trouble
  BY <1>1, <1>2, <1>4, TroubleStays, ErrorKeeps
<1>5. CASE Trouble("store") /\ OnError(s, "permanent")
  BY <1>1, <1>2, <1>5, TroubleOccurs, ErrorKeeps
<1> QED
  BY <1>3, <1>4, <1>5 DEF ReceiptNotBuilt

LEMMA SaveNotBuiltKeeps ==
    ASSUME IInv, NEW s \in Slots, SaveNotBuilt(s)
    PROVE  IInv'
<1>1. slot[s].at # "idle" /\ UNCHANGED <<job, calls, appending, file, dlq>>
  BY DEF SaveNotBuilt
<1>2. CASE receipt' = "FAILED" /\ OnError(s, "retryable") /\ UNCHANGED trouble
  BY <1>1, <1>2, TroubleStays, HistoryRecorded, ErrorKeeps
<1>3. CASE SaveThrows("FAILED") /\ OnError(s, "permanent")
  BY <1>1, <1>3, TroubleOccurs, HistoryRecorded, ErrorKeeps DEF SaveThrows
<1> QED
  BY <1>2, <1>3 DEF SaveNotBuilt

LEMMA PostReceiptKeeps ==
    ASSUME IInv, NEW s \in Slots, PostReceipt(s)
    PROVE  IInv'
<1>1. /\ slot[s].at = "post" /\ UNCHANGED <<job, receipt, appending, file, dlq>>
      /\ slot[s].at \in AtCommand /\ file' \in BOOLEAN
  BY DEF PostReceipt, AtCommand, IInv, TypeOK
<1>2. CASE Accepted(s) /\ GoToWith(s, "record", "none") /\ UNCHANGED trouble
  BY <1>1, <1>2, TroubleStays, HistoryGrows, GoToKeeps DEF Classes
<1>3. CASE /\ \E class \in {"retryable", "permanent"} : GoToWith(s, "record", class)
           /\ UNCHANGED <<calls, trouble>>
  BY <1>1, <1>3, TroubleStays, HistoryStays, GoToKeeps DEF Classes
<1>4. CASE GoToWith(s, "catch", "retryable") /\ UNCHANGED <<calls, trouble>>
  BY <1>1, <1>4, TroubleStays, HistoryStays, GoToKeeps DEF Classes
<1>5. CASE Trouble("lostReply") /\ Accepted(s) /\ GoToWith(s, "catch", "retryable")
  BY <1>1, <1>5, TroubleOccurs, HistoryGrows, GoToKeeps DEF Classes
<1> QED
  BY <1>2, <1>3, <1>4, <1>5 DEF PostReceipt

LEMMA RecordKeeps ==
    ASSUME IInv, NEW s \in Slots, Record(s)
    PROVE  IInv'
<1>1. /\ slot[s].at = "record" /\ UNCHANGED <<job, calls, receipt, appending, file, dlq>>
      /\ slot[s].at \in AtCommand /\ slot[s].class \in Classes /\ file' \in BOOLEAN
  BY LimitsAreNumbers DEF Record, AtCommand, SlotRecords, IInv, TypeOK
<1>2. slot[s].class = "none" => slot[s].next + 1 \in Delivered
  BY <1>1 DEF IInv, DeliveryInv, SlotInv
<1>3. HistoryKept /\ Delivered' = Delivered
  BY <1>1, HistoryStays
<1>4. ASSUME NEW p \in {"saveRecord", "unlink"}, GoTo(s, p), UNCHANGED trouble
      PROVE  IInv'
  BY <1>1, <1>2, <1>3, <1>4, TroubleStays, GoToKeeps DEF Saves
<1>5. CASE Trouble("store") /\ GoToWith(s, "catch", "retryable")
  BY <1>1, <1>3, <1>5, TroubleOccurs, GoToKeeps DEF Classes
<1> QED
  BY <1>4, <1>5 DEF Record

LEMMA SaveRecordKeeps ==
    ASSUME IInv, NEW s \in Slots, SaveRecord(s)
    PROVE  IInv'
<1>1. /\ slot[s].at = "saveRecord" /\ UNCHANGED <<job, calls, appending, file, dlq>>
      /\ slot[s].at \in AtCommand /\ slot[s].class \in Classes
  BY LimitsAreNumbers DEF SaveRecord, AtCommand, Saves, SlotRecords
<1>2. PICK status \in {"SENT", "FAILED"} : status = IF slot[s].class = "none" THEN "SENT" ELSE "FAILED"
  OBVIOUS
<1>3. slot[s].class = "none" => slot[s].next + 1 \in Delivered
  BY <1>1 DEF IInv, DeliveryInv, SlotInv
<1>4. CASE receipt' = status /\ GoTo(s, "unlink") /\ UNCHANGED trouble
  <2>1. HistoryKept /\ Delivered' = Delivered
    BY <1>1, <1>2, <1>3, <1>4, HistoryRecorded
  <2> QED
    BY <1>1, <1>3, <1>4, <2>1, TroubleStays, GoToKeeps
<1>5. CASE SaveThrows(status) /\ GoToWith(s, "catch", "retryable")
  <2>1. HistoryKept /\ TroubleSame
    BY <1>1, <1>2, <1>3, <1>5, HistoryRecorded, TroubleOccurs DEF SaveThrows
  <2> QED
    BY <1>1, <1>5, <2>1, GoToKeeps DEF Classes
<1> QED
  BY <1>2, <1>4, <1>5 DEF SaveRecord

\* What is left to do when the catch block throws as well
LEMMA CatchThrowsKeeps ==
    ASSUME IInv, TroubleSame, HistoryKept, NEW s \in Slots,
           slot[s].at \in AtCommand, CatchThrows(s), UNCHANGED <<job, dlq>>
    PROVE  IInv'
<1>1. slot[s].at # "idle"
  BY DEF AtCommand, Saves
<1>2. CASE GoToWith(s, "unlink", "permanent")
  BY <1>2, GoToKeeps DEF Classes
<1>3. CASE OnError(s, "permanent")
  BY <1>1, <1>3, ErrorKeeps
<1> QED
  BY <1>2, <1>3 DEF CatchThrows

LEMMA CatchReceiptKeeps ==
    ASSUME IInv, NEW s \in Slots, CatchReceipt(s)
    PROVE  IInv'
<1>1. /\ slot[s].at = "catch" /\ UNCHANGED <<job, calls, receipt, appending, file, dlq>>
      /\ slot[s].at \in AtCommand /\ slot[s].class \in Classes /\ file' \in BOOLEAN
  BY LimitsAreNumbers DEF CatchReceipt, AtCommand, SlotRecords, IInv, TypeOK
<1>2. slot[s].class = "retryable"
  BY <1>1 DEF IInv, DeliveryInv, SlotInv
<1>3. HistoryKept
  BY <1>1, HistoryStays
<1>4. ASSUME NEW p \in {"saveCatch", "unlink"}, GoTo(s, p), UNCHANGED trouble
      PROVE  IInv'
  BY <1>1, <1>2, <1>3, <1>4, TroubleStays, GoToKeeps DEF Saves
<1>5. CASE Trouble("store") /\ CatchThrows(s)
  BY <1>1, <1>3, <1>5, TroubleOccurs, CatchThrowsKeeps
<1> QED
  BY <1>4, <1>5 DEF CatchReceipt

LEMMA SaveCatchKeeps ==
    ASSUME IInv, NEW s \in Slots, SaveCatch(s)
    PROVE  IInv'
<1>1. /\ slot[s].at = "saveCatch" /\ UNCHANGED <<job, calls, appending, file, dlq>>
      /\ slot[s].at \in AtCommand /\ slot[s].class \in Classes
  BY LimitsAreNumbers DEF SaveCatch, AtCommand, Saves, SlotRecords
<1>2. slot[s].class = "retryable"
  BY <1>1 DEF IInv, DeliveryInv, SlotInv
<1>3. CASE receipt' = "FAILED" /\ GoTo(s, "unlink") /\ UNCHANGED trouble
  BY <1>1, <1>2, <1>3, TroubleStays, HistoryRecorded, GoToKeeps
<1>4. CASE SaveThrows("FAILED") /\ CatchThrows(s)
  BY <1>1, <1>4, TroubleOccurs, HistoryRecorded, CatchThrowsKeeps DEF SaveThrows
<1> QED
  BY <1>3, <1>4 DEF SaveCatch

LEMMA UnlinkKeeps ==
    ASSUME IInv, NEW s \in Slots, Unlink(s)
    PROVE  IInv'
<1>1. /\ slot[s].at = "unlink" /\ UNCHANGED <<job, calls, receipt, appending, dlq, trouble>> /\ file' \in BOOLEAN
      /\ slot[s].at \in AtCommand /\ slot[s].class \in Classes /\ slot[s].at # "idle"
  BY LimitsAreNumbers DEF Unlink, AtCommand, SlotRecords
<1>2. TroubleSame /\ HistoryKept /\ Delivered' = Delivered
  BY <1>1, TroubleStays, HistoryStays
<1>3. slot[s].class = "none" => slot[s].next + 1 \in Delivered
  BY <1>1 DEF IInv, DeliveryInv, SlotInv
<1>4. CASE slot[s].class = "none" /\ GoTo(s, "progress")
  BY <1>1, <1>2, <1>3, <1>4, GoToKeeps
<1>5. CASE OnError(s, slot[s].class)
  BY <1>1, <1>2, <1>5, ErrorKeeps
<1> QED
  BY <1>4, <1>5 DEF Unlink

LEMMA PublishDlqKeeps ==
    ASSUME IInv, NEW s \in Slots, PublishDlq(s)
    PROVE  IInv'
<1>1. /\ slot[s].at # "idle" /\ UNCHANGED <<job, calls, receipt, appending, file>>
      /\ file' \in BOOLEAN /\ dlq \in BOOLEAN
  BY DEF PublishDlq, IInv, TypeOK
<1>2. CASE dlq' = TRUE /\ GoTo(s, "fatal") /\ UNCHANGED trouble
  <2>1. PICK q \in SlotRecords : /\ slot' = [slot EXCEPT ![s] = q] /\ q.at = "fatal"
                                 /\ q.next = slot[s].next
    BY <1>2, GoToRecord DEF Points
  <2>2. TroubleSame /\ HistoryKept
    BY <1>1, <1>2, TroubleStays, HistoryStays
  <2> QED
    BY <1>1, <1>2, <2>1, <2>2, HandlerStep DEF HistoryKept, AtCommand, Saves
<1>3. CASE Trouble("dlq") /\ GoTo(s, "throw") /\ UNCHANGED dlq
  <2>1. PICK q \in SlotRecords : /\ slot' = [slot EXCEPT ![s] = q] /\ q.at = "throw"
                                 /\ q.next = slot[s].next
    BY <1>3, GoToRecord DEF Points
  <2>2. TroubleSame /\ "dlq" \in trouble'.met /\ HistoryKept
    BY <1>1, <1>3, TroubleOccurs, HistoryStays
  <2>3. dlq' \in BOOLEAN /\ (dlq => dlq')
    BY <1>1, <1>3
  <2> QED
    BY <1>1, <2>1, <2>2, <2>3, HandlerStep DEF HistoryKept, AtCommand, Saves
<1> QED
  BY <1>2, <1>3 DEF PublishDlq

-----------------------------------------------------------------------------
(* The job: its cursor, its lock and its outcome *)

\* A step that changes the job, and slots that have no command in hand after it
LEMMA JobMoves ==
    ASSUME IInv, TroubleSame, UNCHANGED <<calls, receipt, appending, file, dlq>>,
           job' \in JobRecords, job'.commands = job.commands, slot' \in [Slots -> SlotRecords],
           1..job'.progress \subseteq Delivered,
           job'.state = "completed" => 1..Len(Commands) \subseteq Delivered,
           \A t \in Slots :
              \/ slot'[t] = slot[t]
              \/ /\ slot'[t].at \in {"idle", "resolve", "send", "ok"}
                 /\ 1..slot'[t].next \subseteq Delivered
                 /\ slot'[t].at = "send" => slot'[t].next < Len(Commands)
                 /\ slot'[t].at = "ok" => slot'[t].next = Len(Commands),
           job'.state = "active" <=> job'.owner # NoSlot,
           job'.state \in {"waiting", "active"} =>
              job'.attempts < MaxAttempts /\ job'.stalls <= MaxStalls,
           LockInv',
           \A t \in Slots : slot'[t].at = "throw" /\ job'.owner = t /\ "dlq" \notin trouble'.met =>
              job.owner = t /\ job'.attempts = job.attempts,
           FailedIsDeadLettered'
    PROVE  IInv'
<1>1. Commands' = Commands /\ Delivered' = Delivered /\ UNCHANGED <<calls, receipt, appending, file, dlq>>
  BY DEF Commands, Delivered
<1>2. TypeOK'
  BY <1>1 DEF IInv, TypeOK, TroubleSame, JobRecords, SlotRecords
<1>3. JobInv'
  BY <1>1 DEF IInv, JobInv, TroubleSame
<1>4. \A t \in Slots : SlotInv(t)'
  <2> SUFFICES ASSUME NEW t \in Slots
               PROVE  SlotInv(t)'
    OBVIOUS
  <2>1. SlotInv(t)
    BY DEF IInv, DeliveryInv
  <2>2. CASE slot'[t] = slot[t]
    BY <1>1, <2>1, <2>2 DEF SlotInv
  <2>3. CASE slot'[t] # slot[t]
    BY <1>1, <2>3 DEF SlotInv, AtCommand, Saves
  <2> QED
    BY <2>2, <2>3
<1>5. DeliveryInv'
  <2>1. InOrder' /\ ("SENT" \in {receipt', appending'} => Delivered' # {})
    BY <1>1 DEF IInv, DeliveryInv, InOrder
  <2> QED
    BY <1>1, <1>4, <2>1 DEF DeliveryInv
<1>6. FailInv'
  <2>1. \A t \in Slots : slot'[t].at \in {"fatal", "throw"} => slot'[t] = slot[t]
    OBVIOUS
  <2> QED
    BY <1>1, <2>1 DEF IInv, FailInv, TroubleSame
<1> QED
  BY <1>2, <1>3, <1>5, <1>6 DEF IInv

LEMMA ProgressKeeps ==
    ASSUME IInv, NEW s \in Slots, Progress(s)
    PROVE  IInv'
<1>1. /\ slot[s].at = "progress" /\ UNCHANGED <<calls, receipt, appending, file, dlq>> /\ slot[s].at # "idle"
      /\ slot[s].at \in AtCommand /\ file' \in BOOLEAN
  BY DEF Progress, AtCommand, IInv, TypeOK
<1>2. CASE Trouble("store") /\ GoToWith(s, "catch", "retryable") /\ UNCHANGED job
  BY <1>1, <1>2, TroubleOccurs, HistoryStays, GoToKeeps DEF Classes
<1>3. CASE Trouble("store") /\ OnError(s, "permanent") /\ UNCHANGED job
  BY <1>1, <1>3, TroubleOccurs, HistoryStays, ErrorKeeps
<1>4. CASE /\ job' = [job EXCEPT !.progress = CommandAfter(s)]
           /\ Continue(s, CommandAfter(s)) /\ UNCHANGED trouble
  <2>1. PICK n : n = CommandAfter(s)
    OBVIOUS
  <2>2. /\ slot[s].next \in 0..Len(Commands) /\ slot[s].next < Len(Commands)
        /\ 1..slot[s].next \subseteq Delivered /\ slot[s].next + 1 \in Delivered
    BY <1>1, LimitsAreNumbers DEF IInv, DeliveryInv, SlotInv, SlotRecords
  <2>3. n \in 0..Len(Commands) /\ 1..n \subseteq Delivered /\ n = slot[s].next + 1
    BY <2>1, <2>2, LimitsAreNumbers DEF CommandAfter
  <2>4. PICK q \in SlotRecords :
              /\ slot' = [slot EXCEPT ![s] = q] /\ q.next = n
              /\ q.at \in {"ok", "send"} /\ (q.at = "ok" <=> n = Len(Commands))
    BY <1>4, <2>1, <2>3, ContinueRecord
  <2>5. PICK j : j = [job EXCEPT !.progress = n]
    OBVIOUS
  <2>6. /\ j \in JobRecords /\ j.progress = n /\ j.commands = job.commands /\ j.state = job.state
        /\ j.attempts = job.attempts /\ j.stalls = job.stalls /\ j.owner = job.owner /\ job' = j
    BY <1>4, <2>1, <2>3, <2>5, LimitsAreNumbers DEF JobRecords
  <2>7. \A t \in Slots : slot'[t] = IF t = s THEN q ELSE slot[t]
    BY <2>4, LimitsAreNumbers
  <2>8. slot' \in [Slots -> SlotRecords] /\ (n < Len(Commands) \/ n = Len(Commands))
    <3>1. slot \in [Slots -> SlotRecords] /\ Len(Commands) \in Nat
      BY LimitsAreNumbers
    <3>2. n < Len(Commands) \/ n = Len(Commands)
      BY <2>3, <3>1
    <3> QED
      BY <2>4, <3>1, <3>2
  <2>9. LockInv'
    <3>1. UNCHANGED trouble
      BY <1>4
    <3>2. "stall" \notin trouble.met => \A t \in Slots : slot[t].at # "idle" => t = s
      BY <1>1 DEF IInv, LockInv
    <3>3. "stall" \notin trouble.met => job.owner = s
      BY <1>1 DEF IInv, LockInv
    <3> QED
      BY <2>4, <2>6, <2>7, <3>1, <3>2, <3>3 DEF LockInv
  <2>10. FailedIsDeadLettered'
    BY <1>1, <1>4, <2>6 DEF IInv, FailInv, FailedIsDeadLettered
  <2>11. /\ job.state = "active" <=> job.owner # NoSlot
         /\ job.state \in {"waiting", "active"} =>
              job.attempts < MaxAttempts /\ job.stalls <= MaxStalls
         /\ job.state = "completed" => 1..Len(Commands) \subseteq Delivered
    BY DEF IInv, JobInv, DeliveryInv
  <2> QED
    BY <1>1, <1>4, <2>3, <2>4, <2>6, <2>7, <2>8, <2>9, <2>10, <2>11, TroubleStays, JobMoves
<1> QED
  BY <1>2, <1>3, <1>4 DEF Progress

LEMMA TakeKeeps ==
    ASSUME IInv, NEW s \in Slots, Take(s)
    PROVE  IInv'
<1>1. /\ UNCHANGED <<calls, receipt, appending, file, dlq, trouble>> /\ slot[s].at = "idle" /\ job.state = "waiting"
      /\ job' = [job EXCEPT !.state = "active", !.owner = s]
      /\ slot' = [slot EXCEPT ![s] = [Idle EXCEPT !.at = "resolve", !.next = job.progress]]
  BY DEF Take
<1>2. PICK n : n = job.progress
  OBVIOUS
<1>3. PICK q : q = [Idle EXCEPT !.at = "resolve", !.next = n]
  OBVIOUS
<1>4. n \in 0..Len(Commands) /\ 1..n \subseteq Delivered
  BY <1>2, LimitsAreNumbers DEF JobRecords, IInv, DeliveryInv
<1>5. q \in SlotRecords /\ q.at = "resolve" /\ q.next = n
  BY <1>3, <1>4 DEF Idle, SlotRecords, Points, Classes
<1>6. /\ slot' = [slot EXCEPT ![s] = q] /\ slot' \in [Slots -> SlotRecords]
      /\ \A t \in Slots : slot'[t] = IF t = s THEN q ELSE slot[t]
  BY <1>1, <1>2, <1>3, <1>5, LimitsAreNumbers
<1>7. PICK j : j = [job EXCEPT !.state = "active", !.owner = s]
  OBVIOUS
<1>8. /\ j \in JobRecords /\ j.progress = n /\ j.commands = job.commands /\ j.state = "active"
      /\ j.attempts = job.attempts /\ j.stalls = job.stalls /\ j.owner = s /\ job' = j
  BY <1>1, <1>2, <1>7, LimitsAreNumbers DEF JobRecords
<1>9. /\ job.attempts < MaxAttempts /\ job.stalls <= MaxStalls /\ s # NoSlot /\ job.owner = NoSlot
  BY <1>1, LimitsAreNumbers DEF IInv, JobInv
<1>10. LockInv'
  BY <1>1, <1>2, <1>5, <1>6, <1>8, <1>9, LimitsAreNumbers DEF IInv, LockInv
<1>11. FailedIsDeadLettered'
  BY <1>8 DEF FailedIsDeadLettered
<1>12. \A t \in Slots : slot'[t].at = "throw" => job'.owner # t
  BY <1>5, <1>6, <1>8
<1> QED
  BY <1>1, <1>4, <1>5, <1>6, <1>8, <1>9, <1>10, <1>11, <1>12, TroubleStays, JobMoves

LEMMA CrashKeeps ==
    ASSUME IInv, NEW s \in Slots, Crash(s)
    PROVE  IInv'
<1>1. /\ UNCHANGED <<job, calls, receipt, appending, file, dlq>> /\ TroubleSame
      /\ slot' = [slot EXCEPT ![s] = Idle]
  BY TroubleOccurs DEF Crash
<1>2. Idle \in SlotRecords /\ Idle.at = "idle" /\ 1..Idle.next \subseteq Delivered
  BY LimitsAreNumbers DEF Idle, SlotRecords, Points, Classes
<1>3. /\ slot' \in [Slots -> SlotRecords]
      /\ \A t \in Slots : slot'[t] = IF t = s THEN Idle ELSE slot[t]
  BY <1>1, <1>2, LimitsAreNumbers
<1>4. LockInv'
  BY <1>1, <1>2, <1>3 DEF IInv, LockInv, TroubleSame
<1>5. FailedIsDeadLettered'
  BY <1>1 DEF IInv, FailInv, FailedIsDeadLettered, TroubleSame
<1>6. /\ job.state = "active" <=> job.owner # NoSlot
      /\ job.state \in {"waiting", "active"} =>
           job.attempts < MaxAttempts /\ job.stalls <= MaxStalls
      /\ job.state = "completed" => 1..Len(Commands) \subseteq Delivered
      /\ 1..job.progress \subseteq Delivered /\ job \in JobRecords
  BY LimitsAreNumbers DEF IInv, JobInv, DeliveryInv
<1> QED
  BY <1>1, <1>2, <1>3, <1>4, <1>5, <1>6, JobMoves

LEMMA StalledCheckKeeps ==
    ASSUME IInv, StalledCheck
    PROVE  IInv'
<1> DEFINE f == IF job.stalls >= MaxStalls THEN "failed" ELSE "waiting"
           b == job.stalls + 1
<1>1. /\ UNCHANGED <<slot, calls, receipt, appending, file, dlq>> /\ job.state = "active"
      /\ slot[job.owner].at # "idle" => Trouble("stall")
      /\ slot[job.owner].at = "idle" => UNCHANGED trouble
      /\ job' = [job EXCEPT !.owner = NoSlot, !.stalls = b, !.state = f]
  BY DEF StalledCheck
<1>2. TroubleSame /\ ("stall" \notin trouble'.met => slot[job.owner].at = "idle")
  BY <1>1, TroubleStays, TroubleOccurs
<1>3. job \in JobRecords /\ job.attempts < MaxAttempts /\ job.stalls <= MaxStalls
  BY <1>1, LimitsAreNumbers DEF IInv, JobInv
<1>4. /\ b \in 0..(MaxStalls + 1) /\ f \in {"failed", "waiting"}
      /\ f = "waiting" => b <= MaxStalls
      /\ f = "failed" => ~(b <= MaxStalls)
  BY <1>3, LimitsAreNumbers DEF JobRecords
<1> HIDE DEF f, b
<1>5. PICK j : j = [job EXCEPT !.owner = NoSlot, !.stalls = b, !.state = f]
  OBVIOUS
<1>6. /\ j \in JobRecords /\ j.state = f /\ j.owner = NoSlot /\ j.stalls = b /\ job' = j
      /\ j.attempts = job.attempts /\ j.progress = job.progress /\ j.commands = job.commands
  BY <1>1, <1>3, <1>4, <1>5 DEF JobRecords
<1>7. LockInv'
  BY <1>1, <1>2 DEF IInv, LockInv, TroubleSame
<1>8. FailedIsDeadLettered'
  BY <1>4, <1>6 DEF FailedIsDeadLettered
<1>9. /\ 1..job.progress \subseteq Delivered /\ slot' \in [Slots -> SlotRecords]
      /\ \A t \in Slots : slot'[t] = slot[t] /\ job'.owner # t
  BY <1>1, <1>6, LimitsAreNumbers DEF IInv, DeliveryInv
<1> QED
  BY <1>1, <1>2, <1>3, <1>4, <1>6, <1>7, <1>8, <1>9, JobMoves

LEMMA EndCallKeeps ==
    ASSUME IInv, NEW s \in Slots, EndCall(s)
    PROVE  IInv'
<1> DEFINE at == slot[s].at
<1>1. /\ UNCHANGED <<calls, receipt, appending, file, dlq, trouble>> /\ at \in {"ok", "throw", "fatal"}
      /\ job' = IF job.owner # s THEN job ELSE Outcome(at)
      /\ slot' = [slot EXCEPT ![s] = Idle]
  BY DEF EndCall
<1>2. Idle \in SlotRecords /\ Idle.at = "idle" /\ 1..Idle.next \subseteq Delivered
  BY LimitsAreNumbers DEF Idle, SlotRecords, Points, Classes
<1>3. /\ slot' \in [Slots -> SlotRecords] /\ TroubleSame
      /\ \A t \in Slots : slot'[t] = IF t = s THEN Idle ELSE slot[t]
  BY <1>1, <1>2, LimitsAreNumbers, TroubleStays
<1>4. /\ job.state = "active" <=> job.owner # NoSlot
      /\ job.state \in {"waiting", "active"} =>
           job.attempts < MaxAttempts /\ job.stalls <= MaxStalls
      /\ job.state = "completed" => 1..Len(Commands) \subseteq Delivered
      /\ 1..job.progress \subseteq Delivered /\ job \in JobRecords /\ s # NoSlot
      /\ FailedIsDeadLettered
  BY LimitsAreNumbers DEF IInv, JobInv, DeliveryInv, FailInv
<1>5. /\ at = "ok" => 1..Len(Commands) \subseteq Delivered
      /\ at = "fatal" => dlq
      /\ at = "throw" /\ job.owner = s /\ "dlq" \notin trouble.met => job.attempts + 1 < MaxAttempts
  BY DEF IInv, DeliveryInv, SlotInv, FailInv
<1> HIDE DEF at
<1>6. CASE job.owner # s
  <2>1. UNCHANGED job
    BY <1>1, <1>6
  <2>2. LockInv'
    BY <1>1, <1>2, <1>3, <2>1 DEF IInv, LockInv
  <2>3. FailedIsDeadLettered'
    BY <1>1, <1>4, <2>1 DEF FailedIsDeadLettered
  <2> QED
    BY <1>1, <1>2, <1>3, <1>4, <2>1, <2>2, <2>3, JobMoves
<1>7. CASE job.owner = s
  <2>1. PICK a : a = job.attempts + 1
    OBVIOUS
  <2>2. job.attempts < MaxAttempts /\ a \in 0..MaxAttempts
    BY <1>4, <1>7, <2>1, LimitsAreNumbers DEF JobRecords
  <2>3. PICK e : e = [job EXCEPT !.owner = NoSlot]
    OBVIOUS
  <2>4. /\ e \in JobRecords /\ e.owner = NoSlot /\ e.commands = job.commands /\ e.stalls = job.stalls
        /\ e.progress = job.progress /\ e.attempts = job.attempts
    BY <1>4, <2>3 DEF JobRecords
  <2>5. PICK j : j = Outcome(at)
    OBVIOUS
  <2>6. /\ j \in JobRecords /\ j.owner = NoSlot /\ j.commands = job.commands
        /\ j.stalls = job.stalls /\ j.progress = job.progress
        /\ j.state \in {"completed", "waiting", "failed"}
        /\ j.state = "completed" => at = "ok"
        /\ j.state = "waiting" => j.attempts < MaxAttempts
        /\ j.state = "failed" => at = "fatal" \/ (at = "throw" /\ job.attempts + 1 >= MaxAttempts)
    <3>1. CASE at = "ok"
      <4>1. j = [e EXCEPT !.state = "completed"]
        BY <2>3, <2>5, <3>1 DEF Outcome
      <4> QED
        BY <2>4, <3>1, <4>1 DEF JobRecords
    <3>2. CASE at = "fatal"
      <4>1. j = [e EXCEPT !.state = "failed", !.attempts = a]
        BY <2>1, <2>3, <2>4, <2>5, <3>2 DEF Outcome
      <4> QED
        BY <2>2, <2>4, <3>2, <4>1 DEF JobRecords
    <3>3. CASE at = "throw"
      <4>1. PICK f : f = IF job.attempts + 1 >= MaxAttempts THEN "failed" ELSE "waiting"
        OBVIOUS
      <4>2. /\ f \in {"failed", "waiting"}
            /\ f = "waiting" => a < MaxAttempts
            /\ f = "failed" => job.attempts + 1 >= MaxAttempts
        BY <2>1, <2>2, <4>1, LimitsAreNumbers
      <4>3. j = [e EXCEPT !.attempts = a, !.state = f]
        BY <2>1, <2>3, <2>4, <2>5, <3>3, <4>1 DEF Outcome
      <4> QED
        BY <2>2, <2>4, <3>3, <4>2, <4>3 DEF JobRecords
    <3> QED
      BY <1>1, <3>1, <3>2, <3>3
  <2>7. job' = j /\ job.stalls <= MaxStalls
    BY <1>1, <1>4, <1>7, <2>5
  <2>8. LockInv'
    BY <1>1, <1>2, <1>3, <1>7 DEF IInv, LockInv
  <2>9. FailedIsDeadLettered'
    BY <1>1, <1>4, <1>5, <1>7, <2>2, <2>6, <2>7, LimitsAreNumbers DEF FailedIsDeadLettered, JobRecords
  <2>10. \A t \in Slots : job'.owner # t
    BY <2>6, <2>7, LimitsAreNumbers
  <2> QED
    BY <1>1, <1>2, <1>3, <1>4, <1>5, <2>6, <2>7, <2>8, <2>9, <2>10, JobMoves
<1> QED
  BY <1>6, <1>7

LEMMA AppendKeeps ==
    ASSUME IInv, ReadForAppend \/ WriteAppended
    PROVE  IInv'
<1>1. /\ UNCHANGED <<job, slot, calls, file, dlq>> /\ TroubleSame
      /\ {receipt', appending'} \subseteq {receipt, appending, "none"} /\ receipt' \in Statuses
  BY TroubleStays, TroubleOccurs DEF ReadForAppend, WriteAppended, IInv, TypeOK
<1>2. Commands' = Commands /\ Delivered' = Delivered
  BY <1>1 DEF Commands, Delivered
<1>3. TypeOK' /\ JobInv'
  BY <1>1, <1>2 DEF IInv, TypeOK, JobInv, TroubleSame
<1>4. DeliveryInv'
  BY <1>1, <1>2 DEF IInv, DeliveryInv, SlotInv, InOrder
<1>5. LockInv' /\ FailInv'
  BY <1>1 DEF IInv, LockInv, FailInv, FailedIsDeadLettered, TroubleSame
<1> QED
  BY <1>3, <1>4, <1>5 DEF IInv

-----------------------------------------------------------------------------
(* The invariant and what follows from it *)

LEMMA InitIInv == Init => IInv
<1> SUFFICES ASSUME Init
             PROVE  IInv
  OBVIOUS
<1>1. /\ job \in [commands : Groups, state : {"waiting"}, attempts : {0}, stalls : {0},
                  progress : {0}, owner : {NoSlot}]
      /\ slot = [s \in Slots |-> Idle] /\ calls = <<>> /\ receipt = "NOT_STARTED" /\ appending = "none"
      /\ file \in BOOLEAN /\ dlq = FALSE
      /\ trouble \in [kinds : Scenarios, met : {{}}, count : {0}]
  BY DEF Init
<1>2. /\ Commands \in Seq({"reply", "runtimeReceipt", "orderReceipt"}) /\ Commands # <<>>
  BY <1>1, OutboundAssumption DEF Commands
<1>3. Len(Commands) \in Nat \ {0}
  BY <1>2
<1>4. Delivered = {}
  BY <1>1 DEF Delivered, ToSet
<1>5. Idle.at = "idle" /\ Idle.next = 0 /\ Idle.class = "none"
  BY DEF Idle
<1>6. TypeOK
  <2>1. Idle \in SlotRecords
    BY <1>3 DEF Idle, SlotRecords, Points, Classes
  <2>2. slot \in [Slots -> SlotRecords]
    BY <1>1, <2>1
  <2>3. job \in JobRecords
    BY <1>1, <1>3, OutboundAssumption DEF JobRecords
  <2>4. calls \in Seq(1..Len(Commands))
    BY <1>1
  <2>5. /\ trouble.kinds \in Scenarios /\ trouble.met \subseteq trouble.kinds
        /\ trouble.count \in 0..MaxTrouble
    BY <1>1, OutboundAssumption
  <2>6. /\ receipt \in Statuses /\ appending \in Statuses \cup {"none"}
        /\ file \in BOOLEAN /\ dlq \in BOOLEAN
    BY <1>1 DEF Statuses
  <2> QED
    BY <2>2, <2>3, <2>4, <2>5, <2>6 DEF TypeOK, SlotRecords, JobRecords
<1>7. JobInv
  BY <1>1, <1>2, <1>3, OutboundAssumption DEF JobInv
<1>8. DeliveryInv
  BY <1>1, <1>4, <1>5 DEF DeliveryInv, SlotInv, InOrder, AtCommand, Saves
<1>9. LockInv /\ FailInv
  BY <1>1, <1>5 DEF LockInv, FailInv, FailedIsDeadLettered
<1> QED
  BY <1>6, <1>7, <1>8, <1>9 DEF IInv

LEMMA NextKeepsIInv == IInv /\ [Next]_vars => IInv'
<1> SUFFICES ASSUME IInv, [Next]_vars
             PROVE  IInv'
  OBVIOUS
<1>1. ASSUME NEW s \in Slots, Take(s) \/ Crash(s)
      PROVE  IInv'
  BY <1>1, TakeKeeps, CrashKeeps
<1>2. ASSUME NEW s \in Slots, Handler(s)
      PROVE  IInv'
  BY <1>2, ResolveKeeps, SendReplyKeeps, PrepareReceiptKeeps, ReceiptNotBuiltKeeps,
     PostReceiptKeeps, RecordKeeps, CatchReceiptKeeps, UnlinkKeeps, ProgressKeeps,
     PublishDlqKeeps, EndCallKeeps, SaveNotBuiltKeeps, SaveRecordKeeps, SaveCatchKeeps DEF Handler
<1>3. CASE StalledCheck
  BY <1>3, StalledCheckKeeps
<1>4. CASE UNCHANGED vars
  <2>1. UNCHANGED <<job, slot, calls, receipt, appending, file, dlq, trouble>>
    BY <1>4 DEF vars
  <2>2. TypeOK' /\ JobInv' /\ LockInv' /\ FailInv'
    BY <2>1 DEF IInv, TypeOK, JobInv, LockInv, FailInv, FailedIsDeadLettered, Commands
  <2>3. DeliveryInv'
    BY <2>1 DEF IInv, DeliveryInv, SlotInv, InOrder, Delivered, Commands
  <2> QED
    BY <2>2, <2>3 DEF IInv
<1>5. CASE ReadForAppend \/ WriteAppended
  BY <1>5, AppendKeeps
<1> QED
  BY <1>1, <1>2, <1>3, <1>4, <1>5 DEF Next

\* Every reachable state satisfies the invariant
LEMMA IInvHolds == Spec => []IInv
BY InitIInv, NextKeepsIInv, PTL DEF Spec

\* The job, the slots and the histories keep their types; in particular the
\* cursor stays within the group, and no attempt is made beyond the limit.
THEOREM TypeCorrect == Spec => []TypeOK
<1>1. IInv => TypeOK
  BY DEF IInv
<1> QED
  BY <1>1, IInvHolds, PTL

\* For a group of any length, whatever crashes, stalls and is resumed, the
\* cursor passes only what WhatsApp accepted, commands are first accepted in
\* the order of the group, and a completed job has delivered all of it.
THEOREM InOrderDelivered == Spec => []DeliveredInOrder
<1>1. ASSUME IInv
      PROVE  DeliveredInOrder
  <2>1. /\ job.state = "completed" => Delivered = 1..Len(Commands)
        /\ 1..job.progress \subseteq Delivered
    BY <1>1, LimitsAreNumbers DEF IInv, DeliveryInv
  <2>2. ASSUME NEW i \in DOMAIN calls, NEW c \in 1..(calls[i] - 1)
        PROVE  c \in ToSet(SubSeq(calls, 1, i))
    <3>1. calls \in Seq(1..Len(Commands)) /\ i \in 1..Len(calls) /\ Len(calls) \in Nat
      BY <1>1, <2>2, LimitsAreNumbers
    <3>2. PICK k \in 1..i : calls[k] = c
      BY <1>1, <2>2, <3>1 DEF IInv, DeliveryInv, InOrder
    <3>3. /\ DOMAIN SubSeq(calls, 1, i) = 1..i
          /\ \A n \in 1..i : SubSeq(calls, 1, i)[n] = calls[n]
      BY <3>1
    <3> QED
      BY <3>2, <3>3 DEF ToSet
  <2> QED
    BY <2>1, <2>2 DEF DeliveredInOrder
<1> QED
  BY <1>1, IInvHolds, PTL

\* A group that failed for good is in the dead-letter queue, unless that queue
\* was down or BullMQ failed the job for stalling.
THEOREM FailedDeadLettered == Spec => []FailedIsDeadLettered
<1>1. IInv => FailedIsDeadLettered
  BY DEF IInv, FailInv
<1> QED
  BY <1>1, IInvHolds, PTL

\* What a worker that read the session may assume when it saves it: as long as
\* no job lost its lock, nobody has recorded SENT meanwhile, and no turn can
\* bring a SENT back that it read before.
SaveInv == "stall" \notin trouble.met =>
    /\ appending = "SENT" => receipt = "SENT"
    /\ \A s \in Slots : slot[s].at \in Saves => receipt # "SENT"

\* A step of the worker at a command: it starts to save only what is not SENT,
\* and only the end of a save changes the receipt
SavingStep(s) ==
    /\ UNCHANGED appending /\ slot[s].at # "idle"
    /\ trouble.met \subseteq trouble'.met
    /\ \A t \in Slots \ {s} : slot'[t] = slot[t]
    /\ \/ receipt' = receipt /\ (slot'[s].at \in Saves => receipt # "SENT")
       \/ slot[s].at \in Saves /\ slot'[s].at \notin Saves

\* A step that goes nowhere near a save
LEMMA ElsewhereIsSavingStep ==
    ASSUME IInv, NEW s \in Slots, slot[s].at # "idle", TroubleSame, UNCHANGED appending,
           \/ \E c : OnError(s, c)
           \/ \E p \in Points \ Saves : GoTo(s, p) \/ \E c \in Classes : GoToWith(s, p, c)
           \/ \E n \in 0..Len(Commands) : Continue(s, n)
           \/ slot' = [slot EXCEPT ![s] = Idle],
           receipt' = receipt \/ slot[s].at \in Saves
    PROVE  SavingStep(s)
<1>1. \E q \in SlotRecords : slot' = [slot EXCEPT ![s] = q] /\ q.at \notin Saves
  <2>1. CASE \E c : OnError(s, c)
    BY <2>1, OnErrorRecord DEF Saves
  <2>2. CASE \E p \in Points \ Saves : GoTo(s, p) \/ \E c \in Classes : GoToWith(s, p, c)
    BY <2>2, GoToRecord, GoToWithRecord
  <2>3. CASE \E n \in 0..Len(Commands) : Continue(s, n)
    BY <2>3, ContinueRecord DEF Saves
  <2>4. CASE slot' = [slot EXCEPT ![s] = Idle]
    <3>1. PICK q : q = Idle
      OBVIOUS
    <3>2. q \in SlotRecords /\ q.at \notin Saves
      BY <3>1, LimitsAreNumbers DEF Idle, SlotRecords, Points, Classes, Saves
    <3> QED
      BY <2>4, <3>1, <3>2
  <2> QED
    BY <2>1, <2>2, <2>3, <2>4
<1> QED
  BY <1>1, LimitsAreNumbers DEF SavingStep, TroubleSame

\* A step that has read the session
LEMMA ReadIsSavingStep ==
    ASSUME IInv, NEW s \in Slots, slot[s].at # "idle", UNCHANGED <<receipt, appending, trouble>>,
           NEW p \in Points, GoTo(s, p), p \in Saves => NotSentYet
    PROVE  SavingStep(s)
<1>1. \E q \in SlotRecords : slot' = [slot EXCEPT ![s] = q] /\ q.at = p
  BY GoToRecord
<1> QED
  BY <1>1, LimitsAreNumbers DEF SavingStep, NotSentYet

LEMMA HandlerIsSavingStep ==
    ASSUME IInv, NEW s \in Slots, Handler(s)
    PROVE  SavingStep(s)
<1> USE ElsewhereIsSavingStep, TroubleStays, TroubleOccurs DEF Points, Classes, Saves
<1>1. CASE Resolve(s)
  <2>1. slot[s].next \in 0..Len(Commands)
    BY LimitsAreNumbers DEF SlotRecords
  <2> QED
    BY <1>1, <2>1 DEF Resolve
<1>2. CASE SendReply(s)
  BY <1>2 DEF SendReply
<1>3. CASE PrepareReceipt(s)
  BY <1>3 DEF PrepareReceipt
<1>4. CASE ReceiptNotBuilt(s)
  BY <1>4, ReadIsSavingStep DEF ReceiptNotBuilt
<1>5. CASE SaveNotBuilt(s)
  BY <1>5 DEF SaveNotBuilt, SaveThrows
<1>6. CASE PostReceipt(s)
  BY <1>6 DEF PostReceipt
<1>7. CASE Record(s)
  BY <1>7, ReadIsSavingStep DEF Record
<1>8. CASE SaveRecord(s)
  BY <1>8 DEF SaveRecord, SaveThrows
<1>9. CASE CatchReceipt(s)
  BY <1>9, ReadIsSavingStep DEF CatchReceipt, CatchThrows
<1>10. CASE SaveCatch(s)
  BY <1>10 DEF SaveCatch, SaveThrows, CatchThrows
<1>11. CASE Unlink(s)
  BY <1>11 DEF Unlink
<1>12. CASE Progress(s)
  <2>1. CASE Continue(s, CommandAfter(s)) /\ UNCHANGED <<trouble, receipt, appending>> /\ slot[s].at = "progress"
    <3>1. CommandAfter(s) \in 0..Len(Commands)
      BY <2>1, LimitsAreNumbers DEF IInv, DeliveryInv, SlotInv, SlotRecords, CommandAfter
    <3> QED
      BY <2>1, <3>1
  <2> QED
    BY <1>12, <2>1 DEF Progress
<1>13. CASE PublishDlq(s)
  BY <1>13 DEF PublishDlq
<1>14. CASE EndCall(s)
  BY <1>14 DEF EndCall
<1> QED
  BY <1>1, <1>2, <1>3, <1>4, <1>5, <1>6, <1>7, <1>8, <1>9, <1>10, <1>11, <1>12, <1>13, <1>14 DEF Handler

\* A step that saves in no slot
LEMMA AwayFromSaves ==
    ASSUME IInv, Next
    PROVE  \/ \E s \in Slots : Handler(s)
           \/ ReadForAppend \/ WriteAppended
           \/ /\ UNCHANGED <<receipt, appending>> /\ trouble.met \subseteq trouble'.met
              /\ \A t \in Slots : slot'[t] = slot[t] \/ slot'[t].at \notin Saves
<1>1. ASSUME NEW s \in Slots, Take(s)
      PROVE  /\ UNCHANGED <<receipt, appending, trouble>>
             /\ \A t \in Slots : slot'[t] = slot[t] \/ slot'[t].at \notin Saves
  <2>1. slot' = [slot EXCEPT ![s] = [Idle EXCEPT !.at = "resolve", !.next = job.progress]]
    BY <1>1 DEF Take
  <2>2. [Idle EXCEPT !.at = "resolve", !.next = job.progress].at = "resolve"
    BY DEF Idle
  <2> QED
    BY <1>1, <2>1, <2>2, LimitsAreNumbers DEF Take, Saves
<1>2. ASSUME NEW s \in Slots, Crash(s)
      PROVE  /\ UNCHANGED <<receipt, appending>> /\ TroubleSame
             /\ \A t \in Slots : slot'[t] = slot[t] \/ slot'[t].at \notin Saves
  <2>1. slot' = [slot EXCEPT ![s] = Idle] /\ Idle.at = "idle"
    BY <1>2 DEF Crash, Idle
  <2> QED
    BY <1>2, <2>1, TroubleOccurs, LimitsAreNumbers DEF Crash, Saves
<1>3. StalledCheck => UNCHANGED <<receipt, appending, slot>> /\ TroubleSame
  BY TroubleStays, TroubleOccurs DEF StalledCheck
<1> QED
  BY <1>1, <1>2, <1>3 DEF Next, TroubleSame

LEMMA NextKeepsSaveInv == IInv /\ SaveInv /\ [Next]_vars => SaveInv'
<1> SUFFICES ASSUME IInv, SaveInv, [Next]_vars, "stall" \notin trouble'.met
             PROVE  /\ appending' = "SENT" => receipt' = "SENT"
                    /\ \A s \in Slots : slot'[s].at \in Saves => receipt' # "SENT"
  BY DEF SaveInv
<1>1. CASE UNCHANGED vars
  BY <1>1 DEF SaveInv, vars
<1>2. ASSUME NEW s \in Slots, Handler(s)
      PROVE  /\ appending' = "SENT" => receipt' = "SENT"
             /\ \A t \in Slots : slot'[t].at \in Saves => receipt' # "SENT"
  <2>1. SavingStep(s)
    BY <1>2, HandlerIsSavingStep
  <2>2. \A t \in Slots \ {s} : slot[t].at = "idle" /\ slot'[t].at = "idle"
    BY <2>1 DEF SavingStep, IInv, LockInv
  <2> QED
    BY <2>1, <2>2 DEF SavingStep, SaveInv, Saves
<1>3. CASE ReadForAppend \/ WriteAppended
  <2>1. trouble.met \subseteq trouble'.met
    BY <1>3, TroubleOccurs DEF ReadForAppend, WriteAppended, TroubleSame
  <2> QED
    BY <1>3, <2>1 DEF SaveInv, ReadForAppend, WriteAppended
<1>4. CASE /\ UNCHANGED <<receipt, appending>> /\ trouble.met \subseteq trouble'.met
           /\ \A t \in Slots : slot'[t] = slot[t] \/ slot'[t].at \notin Saves
  BY <1>4 DEF SaveInv
<1> QED
  BY <1>1, <1>2, <1>3, <1>4, AwayFromSaves

\* The receipt is SENT only of a document WhatsApp accepted, and as long as
\* jobs keep their locks no worker overwrites SENT, although it writes without
\* a compare what an earlier read decided on; a turn's append may undo it.
THEOREM SentFinal == Spec => SentIsFinal
<1>1. Init => SaveInv
  BY DEF Init, SaveInv, Idle, Saves
<1>2. IInv /\ SaveInv /\ IInv' /\ [Next]_vars =>
         [/\ receipt' = "SENT" => Delivered' # {}
          /\ receipt = "SENT" /\ "stall" \notin trouble.met =>
                receipt' = "SENT" \/ WriteAppended]_vars
  <2> SUFFICES ASSUME IInv, SaveInv, IInv', Next
               PROVE  /\ receipt' = "SENT" => Delivered' # {}
                      /\ receipt = "SENT" /\ "stall" \notin trouble.met =>
                            receipt' = "SENT" \/ WriteAppended
    OBVIOUS
  <2>1. receipt' = "SENT" => Delivered' # {}
    BY DEF IInv, DeliveryInv
  <2>2. ASSUME NEW s \in Slots, Handler(s), receipt = "SENT", "stall" \notin trouble.met
        PROVE  receipt' = "SENT"
    BY <2>2, HandlerIsSavingStep DEF SavingStep, SaveInv
  <2>3. ReadForAppend => receipt' = receipt
    BY DEF ReadForAppend
  <2> QED
    BY <2>1, <2>2, <2>3, AwayFromSaves
<1> QED
  BY <1>1, <1>2, IInvHolds, NextKeepsSaveInv, PTL DEF Spec, SentIsFinal

\* A command that the cursor has passed is not sent again by a retry or after
\* a crash, unless a worker lost the lock of the job.
THEOREM NotResent == Spec => RecordedNotResent
<1>1. IInv /\ [Next]_vars =>
         ["stall" \notin trouble.met =>
            \A i \in 1..job.progress : Len(calls') > Len(calls) => Last(calls') # i]_vars
  <2> SUFFICES ASSUME IInv, Next, "stall" \notin trouble.met, NEW i \in 1..job.progress,
                      Len(calls') > Len(calls)
               PROVE  Last(calls') # i
    OBVIOUS
  <2>1. Len(calls) \in Nat /\ calls \in Seq(1..Len(Commands)) /\ calls' # calls
    BY LimitsAreNumbers
  <2>2. \E s \in Slots : slot[s].at # "idle" /\ Accepted(s)
    <3>1. ASSUME NEW s \in Slots, Handler(s)
          PROVE  slot[s].at # "idle" /\ Accepted(s)
      BY <2>1, <3>1 DEF Handler, Resolve, SendReply, PrepareReceipt, ReceiptNotBuilt, PostReceipt,
         Record, CatchReceipt, Unlink, Progress, PublishDlq, EndCall, SaveNotBuilt, SaveRecord, SaveCatch
    <3>2. ASSUME NEW s \in Slots, Take(s) \/ Crash(s)
          PROVE  FALSE
      BY <2>1, <3>2 DEF Take, Crash
    <3>3. ~StalledCheck /\ ~ReadForAppend /\ ~WriteAppended
      BY <2>1 DEF StalledCheck, ReadForAppend, WriteAppended
    <3> QED
      BY <3>1, <3>2, <3>3 DEF Next
  <2>3. PICK s \in Slots : slot[s].at # "idle" /\ Accepted(s)
    BY <2>2
  <2>4. slot[s].next = job.progress /\ job.progress \in Nat
    BY <2>3, LimitsAreNumbers DEF IInv, LockInv, JobRecords
  <2>5. calls' = Append(calls, job.progress + 1)
    BY <2>3, <2>4 DEF Accepted
  <2>6. Last(calls') = job.progress + 1
    <3>1. PICK n : n = job.progress + 1
      OBVIOUS
    <3>2. Len(Append(calls, n)) = Len(calls) + 1 /\ Append(calls, n)[Len(calls) + 1] = n
      BY <2>1
    <3> QED
      BY <2>5, <3>1, <3>2 DEF Last
  <2> QED
    BY <2>4, <2>6
<1> QED
  BY <1>1, IInvHolds, PTL DEF Spec, RecordedNotResent
=============================================================================
