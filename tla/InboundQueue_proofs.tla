------------------------ MODULE InboundQueue_proofs ------------------------
(***************************************************************************)
(* The inbound queue for any messages, workers, limits and troubles: no    *)
(* message drops out on the way; and, unless a job's lock and its lease    *)
(* are both lost under a worker that goes on, messages are handled one at  *)
(* a time, in the order of their turns, and never again once finished.     *)
(***************************************************************************)
EXTENDS InboundQueue, SequenceTheorems, TLAPS

\* A worker is at its turn from the claim until it has ended the turn
TurnPoints == {"process", "processed", "complete", "dlq", "finalize", "release"}

Handled == {effects[i] : i \in 1..Len(effects)}

\* The keys: turns are distinct, the finished ones are those before the due one
KeysInv ==
    /\ TurnKeysType
    /\ completed = 1..(ExpectedTurn - 1) /\ ExpectedTurn <= seq + 1
    /\ \A m \in Messages : msg[m] <= seq
    /\ \A m, n \in Messages : msg[m] = msg[n] /\ msg[m] # 0 => m = n
    /\ lease # NoLease => lease.turn = ExpectedTurn /\ lease.turn <= seq

\* A request and a job carry the turn that was reserved for their message
TurnsInv ==
    /\ \A r \in Requests :
         /\ request[r].at # "idle" => request[r].m \in Messages
         /\ request[r].at = "add" => request[r].turn = msg[request[r].m] /\ msg[request[r].m] # 0
    /\ \A m \in Messages : job[m].state # "none" => job[m].turn = msg[m] /\ msg[m] # 0
    /\ \A s \in Slots : slot[s].at # "idle" => slot[s].m \in Messages /\ job[slot[s].m].state # "none"

JobsInv ==
    \A m \in Messages :
        /\ job[m].state = "active" <=> job[m].owner # NoSlot
        /\ job[m].state \in {"waiting", "active"} =>
             job[m].attempts < MaxAttempts /\ job[m].stalls <= MaxStalls

\* The messages whose turn is over, and those whose job may say so
DoneInv ==
    /\ \A m \in Messages : m \in done <=> msg[m] # 0 /\ msg[m] < ExpectedTurn
    /\ \A s \in Slots : slot[s].at = "ok" => slot[s].m \in done
    /\ \A m \in Messages : job[m].state = "completed" => m \in done
    /\ \A m \in acked : job[m].state = "none" => m \in done

HandledInv ==
    /\ done \subseteq Handled \cup dlq
    /\ \A s \in Slots : /\ slot[s].at \in {"processed", "complete"} => slot[s].m \in Handled
                        /\ slot[s].at = "finalize" => slot[s].m \in dlq

\* Without a stall a worker keeps the lock of its job, without a lapse its lease
LocksInv == "stall" \notin trouble.kinds =>
    \A s \in Slots : slot[s].at # "idle" => job[slot[s].m].owner = s

LeasesInv == "lapse" \notin trouble.kinds =>
    \A s \in Slots : slot[s].at \in TurnPoints => HoldsLease(s, Turn(s))

\* and either of them keeps it at the due turn
DueInv == ~({"stall", "lapse"} \subseteq trouble.kinds) =>
    /\ \A s \in Slots : slot[s].at \in TurnPoints => Turn(s) = ExpectedTurn
    /\ \A i \in 1..Len(effects) : msg[effects[i]] # 0 /\ msg[effects[i]] <= ExpectedTurn
    /\ HandledInTurnOrder

IInv ==
    /\ TypeOK /\ KeysInv /\ TurnsInv /\ JobsInv
    /\ DoneInv /\ HandledInv /\ LocksInv /\ LeasesInv /\ DueInv

-----------------------------------------------------------------------------
(* The scripts *)

LEMMA ReserveKeys ==
    ASSUME KeysInv, NEW m \in Messages, ReserveScript(m)
    PROVE  /\ KeysInv' /\ ExpectedTurn' = ExpectedTurn /\ UNCHANGED lease
           /\ msg'[m] = ReservedTurn(m) /\ msg'[m] # 0
           /\ \A n \in Messages : msg[n] # 0 => msg'[n] = msg[n]
           /\ \A n \in Messages : msg[n] = 0 => msg'[n] = 0 \/ msg'[n] >= ExpectedTurn
<1> USE DEF KeysInv, TurnKeysType
<1>1. CASE msg[m] # 0
  <2>1. UNCHANGED <<seq, msg, expected, lease, completed>>
    BY <1>1 DEF ReserveScript
  <2> QED
    BY <1>1, <2>1 DEF ReservedTurn, ExpectedTurn
<1>2. CASE msg[m] = 0
  <2>1. /\ seq' = seq + 1 /\ msg' = [msg EXCEPT ![m] = seq + 1] /\ expected' = ExpectedTurn
        /\ UNCHANGED <<lease, completed>>
    BY <1>2 DEF ReserveScript
  <2>2. ExpectedTurn \in Nat \ {0} /\ ExpectedTurn' = ExpectedTurn
    BY <2>1 DEF ExpectedTurn
  <2>3. \A n \in Messages : msg'[n] = IF n = m THEN seq + 1 ELSE msg[n]
    BY <2>1
  <2>4. TurnKeysType'
    BY <2>1, <2>2
  <2>5. KeysInv'
    <3>1. completed' = 1..(ExpectedTurn' - 1) /\ ExpectedTurn' <= seq' + 1
      BY <2>1, <2>2
    <3>2. \A n \in Messages : msg'[n] <= seq'
      BY <2>1, <2>3
    <3>3. \A n, o \in Messages : msg'[n] = msg'[o] /\ msg'[n] # 0 => n = o
      BY <2>3
    <3>4. lease' # NoLease => lease'.turn = ExpectedTurn' /\ lease'.turn <= seq'
      BY <2>1, <2>2
    <3> QED
      BY <2>4, <3>1, <3>2, <3>3, <3>4
  <2>6. \A n \in Messages : msg[n] = 0 => msg'[n] = 0 \/ msg'[n] >= ExpectedTurn
    BY <2>2, <2>3
  <2>7. msg'[m] = ReservedTurn(m) /\ msg'[m] # 0
    BY <1>2, <2>3 DEF ReservedTurn
  <2>8. \A n \in Messages : msg[n] # 0 => msg'[n] = msg[n]
    BY <1>2, <2>3
  <2> HIDE DEF KeysInv
  <2> QED
    BY <2>1, <2>2, <2>5, <2>6, <2>7, <2>8
<1> QED
  BY <1>1, <1>2

LEMMA ClaimKeys ==
    ASSUME KeysInv, NEW s \in Slots, NEW t \in Nat, t <= seq, ClaimScript(s, t)
    PROVE  /\ KeysInv' /\ UNCHANGED <<ExpectedTurn, msg>> /\ t = ExpectedTurn
           /\ lease = NoLease /\ lease' = [token |-> s, turn |-> t]
BY DEF KeysInv, TurnKeysType, ClaimScript, Claimable, ExpectedTurn

LEMMA CompleteKeys ==
    ASSUME KeysInv, NEW s \in Slots, NEW t \in Nat, CompleteScript(s, t)
    PROVE  /\ KeysInv' /\ UNCHANGED msg /\ ExpectedTurn' = ExpectedTurn + 1
           /\ t = ExpectedTurn /\ HoldsLease(s, t) /\ lease' = NoLease
<1>1. /\ t = ExpectedTurn /\ HoldsLease(s, t) /\ ~AlreadyCompleted(t) /\ UNCHANGED <<seq, msg>>
      /\ lease' = NoLease /\ completed' = completed \cup {t} /\ expected' = t + 1
  BY DEF CompleteScript, Completable
<1>2. ExpectedTurn \in Nat \ {0} /\ ExpectedTurn' = ExpectedTurn + 1
  BY <1>1 DEF KeysInv, TurnKeysType, ExpectedTurn
<1>3. t <= seq
  BY <1>1 DEF KeysInv, TurnKeysType, HoldsLease
<1>4. KeysInv'
  BY <1>1, <1>2, <1>3 DEF KeysInv, TurnKeysType
<1> QED
  BY <1>1, <1>2, <1>4

LEMMA FreeKeys ==
    ASSUME KeysInv, lease' = NoLease, UNCHANGED <<seq, msg, expected, completed>>
    PROVE  KeysInv' /\ UNCHANGED <<ExpectedTurn, msg>>
BY DEF KeysInv, TurnKeysType, ExpectedTurn

LEMMA SameKeys ==
    ASSUME KeysInv, UNCHANGED turnKeys
    PROVE  KeysInv' /\ UNCHANGED <<seq, msg, expected, lease, completed, ExpectedTurn>>
BY DEF KeysInv, TurnKeysType, ExpectedTurn, turnKeys

LEMMA FinishedTurns ==
    ASSUME IInv, NEW m \in Messages, msg[m] # 0
    PROVE  AlreadyCompleted(msg[m]) <=> m \in done
BY DEF IInv, KeysInv, TurnKeysType, DoneInv, AlreadyCompleted, ExpectedTurn

LEMMA TroubleKept ==
    ASSUME TypeOK, NEW k, Trouble(k)
    PROVE  /\ trouble' \in [kinds : Scenarios, count : 0..MaxTrouble]
           /\ trouble'.kinds = trouble.kinds /\ k \in trouble.kinds
<1>1. trouble \in [kinds : Scenarios, count : 0..MaxTrouble] /\ MaxTrouble \in Nat
  BY TroubleAssumption DEF TypeOK
<1>2. trouble.count + 1 \in 0..MaxTrouble /\ trouble' = [trouble EXCEPT !.count = trouble.count + 1]
  BY <1>1 DEF Trouble
<1> QED
  BY <1>1, <1>2 DEF Trouble

-----------------------------------------------------------------------------
(* Webhook requests and the jobs they add *)

TroubleSame == trouble' \in [kinds : Scenarios, count : 0..MaxTrouble] /\ trouble'.kinds = trouble.kinds

LEMMA AcknowledgeTrouble ==
    ASSUME TypeOK, NEW m, Acknowledge(m)
    PROVE  TroubleSame /\ acked' \subseteq acked \cup {m}
BY TroubleKept DEF Acknowledge, TroubleSame, TypeOK

\* Requests and acknowledgements move, everything else stays
LEMMA RequestMoves ==
    ASSUME IInv, TroubleSame, NEW r \in Requests, NEW q,
           UNCHANGED <<turnKeys, job, slot, dlq, done, effects>>,
           request' = [request EXCEPT ![r] = q], acked' \subseteq Messages,
           q \in [at : {"idle", "reserve", "add"}, m : Messages \cup {NoMessage}, turn : Nat],
           q.at # "idle" => q.m \in Messages, q.at # "add",
           \A m \in acked' : m \notin acked => job[m].state # "none"
    PROVE  IInv'
<1>1. KeysInv' /\ UNCHANGED <<seq, msg, expected, lease, completed, ExpectedTurn>>
  BY SameKeys DEF IInv
<1>2. UNCHANGED <<job, slot, dlq, done, effects>>
  OBVIOUS
<1>3. TypeOK'
  BY <1>1, <1>2 DEF IInv, TypeOK, KeysInv, TroubleSame
<1>4. TurnsInv'
  <2>1. \A p \in Requests : request'[p] = IF p = r THEN q ELSE request[p]
    BY DEF IInv, TypeOK
  <2> QED
    BY <1>1, <1>2, <2>1 DEF IInv, TurnsInv
<1>5. JobsInv' /\ DoneInv' /\ HandledInv'
  BY <1>1, <1>2 DEF IInv, JobsInv, DoneInv, HandledInv, Handled
<1>6. LocksInv' /\ LeasesInv' /\ DueInv'
  BY <1>1, <1>2 DEF IInv, LocksInv, LeasesInv, DueInv, TroubleSame, HoldsLease, Turn, HandledInTurnOrder
<1> QED
  BY <1>1, <1>3, <1>4, <1>5, <1>6 DEF IInv

LEMMA DeliverKeeps ==
    ASSUME IInv, NEW r \in Requests, NEW m \in Messages, Deliver(r, m)
    PROVE  IInv'
<1>1. UNCHANGED <<turnKeys, job, slot, dlq, done, effects>>
  BY DEF Deliver
<1>2. CASE job[m].state \in {"waiting", "active", "completed"}
  <2>1. Acknowledge(m) /\ UNCHANGED request
    BY <1>2 DEF Deliver
  <2>2. TroubleSame /\ acked' \subseteq acked \cup {m}
    BY <2>1, AcknowledgeTrouble DEF IInv
  <2>3. request' = [request EXCEPT ![r] = request[r]] /\ request[r].at = "idle"
    BY <2>1 DEF IInv, TypeOK, Deliver
  <2>4. /\ request[r] \in [at : {"idle", "reserve", "add"}, m : Messages \cup {NoMessage}, turn : Nat]
        /\ acked' \subseteq Messages
    BY <2>2 DEF IInv, TypeOK
  <2>5. \A n \in acked' : n \notin acked => job[n].state # "none"
    BY <1>2, <2>2
  <2> QED
    BY <1>1, <2>2, <2>3, <2>4, <2>5, RequestMoves
<1>3. CASE job[m].state \notin {"waiting", "active", "completed"}
  <2> DEFINE q == [at |-> "reserve", m |-> m, turn |-> 0]
  <2>1. request' = [request EXCEPT ![r] = q] /\ UNCHANGED <<acked, trouble>>
    BY <1>3 DEF Deliver
  <2>2. TroubleSame /\ acked' \subseteq Messages
    BY <2>1 DEF TroubleSame, IInv, TypeOK
  <2>3. /\ q \in [at : {"idle", "reserve", "add"}, m : Messages \cup {NoMessage}, turn : Nat]
        /\ q.at = "reserve" /\ q.m = m
    OBVIOUS
  <2> HIDE DEF q
  <2> QED
    BY <1>1, <2>1, <2>2, <2>3, RequestMoves
<1> QED
  BY <1>2, <1>3

LEMMA RequestFailsKeeps ==
    ASSUME IInv, NEW r \in Requests, RequestFails(r)
    PROVE  IInv'
<1> DEFINE q == [at |-> "idle", m |-> NoMessage, turn |-> 0]
<1>1. /\ UNCHANGED <<turnKeys, job, slot, dlq, done, effects>> /\ UNCHANGED acked
      /\ request' = [request EXCEPT ![r] = q]
  BY DEF RequestFails, EndRequest
<1>2. TroubleSame /\ acked' \subseteq Messages
  BY <1>1, TroubleKept DEF RequestFails, TroubleSame, IInv, TypeOK
<1>3. /\ q \in [at : {"idle", "reserve", "add"}, m : Messages \cup {NoMessage}, turn : Nat]
      /\ q.at = "idle"
  OBVIOUS
<1> HIDE DEF q
<1> QED
  BY <1>1, <1>2, <1>3, RequestMoves

LEMMA ReserveTurnKeeps ==
    ASSUME IInv, NEW r \in Requests, ReserveTurn(r)
    PROVE  IInv'
<1> DEFINE m == request[r].m
<1>1. /\ UNCHANGED <<acked, job, slot, dlq, done, effects, trouble>> /\ m \in Messages
      /\ ReserveScript(m)
      /\ request' = [request EXCEPT ![r].at = "add", ![r].turn = ReservedTurn(m)]
  BY DEF ReserveTurn, IInv, TurnsInv
<1>2. /\ KeysInv' /\ ExpectedTurn' = ExpectedTurn /\ UNCHANGED lease
      /\ msg'[m] = ReservedTurn(m) /\ msg'[m] # 0
      /\ \A n \in Messages : msg[n] # 0 => msg'[n] = msg[n]
      /\ \A n \in Messages : msg[n] = 0 => msg'[n] = 0 \/ msg'[n] >= ExpectedTurn
  BY <1>1, ReserveKeys DEF IInv
<1>3. ExpectedTurn \in Nat /\ msg \in [Messages -> Nat] /\ msg' \in [Messages -> Nat]
  BY <1>2 DEF IInv, KeysInv, TurnKeysType, ExpectedTurn
<1>4. /\ \A p \in Requests \ {r} : request'[p] = request[p]
      /\ request'[r].at = "add" /\ request'[r].m = m /\ request'[r].turn = msg'[m]
      /\ request' \in [Requests -> [at : {"idle", "reserve", "add"},
                                    m : Messages \cup {NoMessage}, turn : Nat]]
  <2>1. request[r] \in [at : {"idle", "reserve", "add"}, m : Messages \cup {NoMessage}, turn : Nat]
    BY DEF IInv, TypeOK
  <2>2. request' = [request EXCEPT ![r] = [request[r] EXCEPT !.at = "add", !.turn = ReservedTurn(m)]]
    BY <1>1 DEF IInv, TypeOK
  <2>3. ReservedTurn(m) \in Nat
    BY <1>1, <1>2, <1>3
  <2>4. PICK q : q = [request[r] EXCEPT !.at = "add", !.turn = ReservedTurn(m)]
    OBVIOUS
  <2>5. /\ q \in [at : {"idle", "reserve", "add"}, m : Messages \cup {NoMessage}, turn : Nat]
        /\ q.at = "add" /\ q.m = m /\ q.turn = ReservedTurn(m)
    BY <2>1, <2>3, <2>4
  <2> HIDE DEF m
  <2> QED
    BY <1>2, <2>2, <2>4, <2>5 DEF IInv, TypeOK
<1> HIDE DEF m
<1>5. TypeOK'
  BY <1>1, <1>2, <1>4 DEF IInv, TypeOK, KeysInv
<1>6. TurnsInv'
  BY <1>1, <1>2, <1>4 DEF IInv, TurnsInv
<1>7. JobsInv' /\ HandledInv'
  BY <1>1 DEF IInv, JobsInv, HandledInv, Handled
<1>8. DoneInv'
  BY <1>1, <1>2, <1>3 DEF IInv, DoneInv
<1>9. LocksInv' /\ LeasesInv'
  BY <1>1, <1>2 DEF IInv, LocksInv, LeasesInv, HoldsLease, Turn
<1>10. DueInv'
  <2>1. \A i \in 1..Len(effects) : effects[i] \in Messages
    BY DEF IInv, TypeOK
  <2> QED
    BY <1>1, <1>2, <2>1 DEF IInv, DueInv, Turn, HandledInTurnOrder
<1> QED
  BY <1>2, <1>5, <1>6, <1>7, <1>8, <1>9, <1>10 DEF IInv

LEMMA AddJobKeeps ==
    ASSUME IInv, NEW r \in Requests, AddJob(r)
    PROVE  IInv'
<1> DEFINE m == request[r].m
           new == [NoJob EXCEPT !.state = "waiting", !.turn = request[r].turn]
<1>1. /\ UNCHANGED <<turnKeys, slot, dlq, done, effects>> /\ m \in Messages
      /\ request[r].turn = msg[m] /\ msg[m] # 0
      /\ job' = IF job[m].state # "none" THEN job ELSE [job EXCEPT ![m] = new]
      /\ request' = [request EXCEPT ![r] = [at |-> "idle", m |-> NoMessage, turn |-> 0]]
  BY DEF AddJob, EndRequest, IInv, TurnsInv
<1>2. TroubleSame /\ acked' \subseteq acked \cup {m}
  BY AcknowledgeTrouble DEF AddJob, IInv
<1>3. KeysInv' /\ UNCHANGED <<seq, msg, expected, lease, completed, ExpectedTurn>>
  BY <1>1, SameKeys DEF IInv
<1>4. /\ new \in [state : JobStates, turn : Nat, attempts : 0..MaxAttempts,
                  stalls : 0..(MaxStalls + 1), owner : Slots \cup {NoSlot}]
      /\ new.state = "waiting" /\ new.turn = msg[m] /\ new.owner = NoSlot
      /\ new.attempts < MaxAttempts /\ new.stalls <= MaxStalls
  <2>1. PICK t : t = msg[m] /\ t \in Nat /\ request[r].turn = t
    BY <1>1 DEF IInv, TypeOK, TurnKeysType
  <2>2. PICK n : n = [NoJob EXCEPT !.state = "waiting", !.turn = t]
    OBVIOUS
  <2>3. /\ n.state = "waiting" /\ n.turn = t /\ n.attempts = 0 /\ n.stalls = 0 /\ n.owner = NoSlot
        /\ n \in [state : JobStates, turn : Nat, attempts : {0}, stalls : {0}, owner : {NoSlot}]
    BY <2>1, <2>2 DEF NoJob, JobStates
  <2>4. n = new
    BY <2>1, <2>2
  <2> HIDE DEF new, m
  <2> QED
    BY <2>1, <2>3, <2>4, TroubleAssumption
<1> HIDE DEF m, new
<1>5. /\ \A n \in Messages : job'[n] = IF n = m /\ job[m].state = "none" THEN new ELSE job[n]
      /\ \A p \in Requests : request'[p] = IF p = r THEN [at |-> "idle", m |-> NoMessage, turn |-> 0]
                                           ELSE request[p]
  BY <1>1 DEF IInv, TypeOK
<1>6. TypeOK'
  <2>1. job' \in [Messages -> [state : JobStates, turn : Nat, attempts : 0..MaxAttempts,
                             stalls : 0..(MaxStalls + 1), owner : Slots \cup {NoSlot}]]
    BY <1>1, <1>4 DEF IInv, TypeOK
  <2>2. request' \in [Requests -> [at : {"idle", "reserve", "add"},
                                   m : Messages \cup {NoMessage}, turn : Nat]]
    BY <1>1 DEF IInv, TypeOK
  <2> QED
    BY <1>1, <1>2, <1>3, <2>1, <2>2 DEF IInv, TypeOK, KeysInv, TroubleSame
<1>7. \A s \in Slots : slot[s].at # "idle" => job'[slot[s].m] = job[slot[s].m]
  BY <1>5 DEF IInv, TurnsInv
<1>8. TurnsInv'
  BY <1>1, <1>3, <1>4, <1>5, <1>7 DEF IInv, TurnsInv
<1>9. JobsInv'
  BY <1>4, <1>5 DEF IInv, JobsInv
<1>10. DoneInv' /\ HandledInv'
  <2>1. \A n \in Messages : job'[n].state = "completed" => job[n].state = "completed"
    BY <1>4, <1>5
  <2>2. \A n \in acked' : job'[n].state = "none" => n \in acked /\ job[n].state = "none"
    BY <1>1, <1>2, <1>4, <1>5 DEF IInv, TypeOK
  <2> QED
    BY <1>1, <1>3, <2>1, <2>2 DEF IInv, DoneInv, HandledInv, Handled
<1>11. LocksInv' /\ LeasesInv' /\ DueInv'
  BY <1>1, <1>2, <1>3, <1>7
  DEF IInv, LocksInv, LeasesInv, DueInv, TroubleSame, HoldsLease, Turn, HandledInTurnOrder, TurnPoints
<1> QED
  BY <1>3, <1>6, <1>8, <1>9, <1>10, <1>11 DEF IInv

-----------------------------------------------------------------------------
(* BullMQ: jobs are taken, ended, found stalled and evicted *)

JobRecords == [state : JobStates, turn : Nat, attempts : 0..MaxAttempts,
               stalls : 0..(MaxStalls + 1), owner : Slots \cup {NoSlot}]

SlotRecords == [at : Points, m : Messages \cup {NoMessage}, lost : BOOLEAN]

\* Jobs change hands, and slots go idle or take one
LEMMA HandsChange ==
    ASSUME IInv, TroubleSame, UNCHANGED <<turnKeys, request, acked, dlq, done, effects>>,
           job' \in [Messages -> JobRecords], slot' \in [Slots -> SlotRecords],
           \A m \in Messages : /\ job'[m].turn = job[m].turn
                               /\ job'[m].state = "none" <=> job[m].state = "none"
                               /\ job'[m].state = "completed" => m \in done,
           \A s \in Slots : \/ slot'[s] = slot[s]
                            \/ slot'[s].at = "idle"
                            \/ /\ slot'[s].at = "claim" /\ slot'[s].m \in Messages
                               /\ job[slot'[s].m].state # "none",
           JobsInv', LocksInv'
    PROVE  IInv'
<1>1. KeysInv' /\ UNCHANGED <<seq, msg, expected, lease, completed, ExpectedTurn>>
  BY SameKeys DEF IInv
<1>2. UNCHANGED <<request, acked, dlq, done, effects>>
  OBVIOUS
<1>3. TypeOK'
  BY <1>1, <1>2 DEF IInv, TypeOK, KeysInv, TroubleSame, JobRecords, SlotRecords
<1>4. TurnsInv'
  BY <1>1, <1>2 DEF IInv, TurnsInv
<1>5. DoneInv'
  BY <1>1, <1>2 DEF IInv, DoneInv, TypeOK
<1>6. HandledInv'
  BY <1>2 DEF IInv, HandledInv, Handled
<1>7. ASSUME NEW s \in Slots, slot'[s].at \in TurnPoints
      PROVE  slot'[s] = slot[s] /\ Turn(s)' = Turn(s)
  BY <1>7 DEF TurnPoints, Turn, IInv, TurnsInv
<1>8. LeasesInv' /\ DueInv'
  BY <1>1, <1>2, <1>7 DEF IInv, LeasesInv, DueInv, TroubleSame, HoldsLease, HandledInTurnOrder
<1> QED
  BY <1>1, <1>3, <1>4, <1>5, <1>6, <1>8 DEF IInv

LEMMA TakeKeeps ==
    ASSUME IInv, NEW s \in Slots, NEW m \in Messages, Take(s, m)
    PROVE  IInv'
<1>1. /\ UNCHANGED <<turnKeys, request, acked, dlq, done, effects>> /\ TroubleSame
      /\ slot[s].at = "idle" /\ job[m].state = "waiting"
      /\ job' = [job EXCEPT ![m] = [job[m] EXCEPT !.state = "active", !.owner = s]]
      /\ slot' = [slot EXCEPT ![s] = [at |-> "claim", m |-> m, lost |-> FALSE]]
  BY DEF Take, IInv, TypeOK, TroubleSame
<1>2. job[m] \in JobRecords /\ job \in [Messages -> JobRecords] /\ slot \in [Slots -> SlotRecords]
  BY DEF IInv, TypeOK, JobRecords, SlotRecords
<1>3. PICK j : j = [job[m] EXCEPT !.state = "active", !.owner = s]
  OBVIOUS
<1>4. /\ j \in JobRecords /\ j.state = "active" /\ j.owner = s /\ j.turn = job[m].turn
      /\ j.attempts = job[m].attempts /\ j.stalls = job[m].stalls
  BY <1>2, <1>3 DEF JobRecords, JobStates
<1>5. /\ \A n \in Messages : job'[n] = IF n = m THEN j ELSE job[n]
      /\ \A t \in Slots : slot'[t] = IF t = s THEN [at |-> "claim", m |-> m, lost |-> FALSE] ELSE slot[t]
  BY <1>1, <1>2, <1>3
<1>6. job' \in [Messages -> JobRecords] /\ slot' \in [Slots -> SlotRecords]
  BY <1>1, <1>2, <1>3, <1>4 DEF SlotRecords, Points
<1>7. JobsInv'
  BY <1>1, <1>4, <1>5, TroubleAssumption DEF IInv, JobsInv
<1>8. LocksInv'
  <2> SUFFICES ASSUME "stall" \notin trouble'.kinds, NEW t \in Slots, slot'[t].at # "idle"
               PROVE  job'[slot'[t].m].owner = t
    BY DEF LocksInv
  <2>1. CASE t = s
    BY <1>4, <1>5, <2>1
  <2>2. CASE t # s
    <3>1. slot'[t] = slot[t] /\ job[slot[t].m].owner = t /\ slot[t].m \in Messages
      BY <1>1, <1>5, <2>2 DEF IInv, LocksInv, TurnsInv, TroubleSame
    <3>2. slot[t].m # m
      BY <1>1, <3>1, TroubleAssumption DEF IInv, JobsInv
    <3> QED
      BY <1>5, <3>1, <3>2
  <2> QED
    BY <2>1, <2>2
<1>9. \A n \in Messages : /\ job'[n].turn = job[n].turn
                          /\ job'[n].state = "none" <=> job[n].state = "none"
                          /\ job'[n].state = "completed" => n \in done
  BY <1>1, <1>4, <1>5 DEF IInv, DoneInv
<1>10. \A t \in Slots : slot'[t] = slot[t] \/
          (slot'[t].at = "claim" /\ slot'[t].m \in Messages /\ job[slot'[t].m].state # "none")
  BY <1>1, <1>5
<1> QED
  BY <1>1, <1>6, <1>7, <1>8, <1>9, <1>10, HandsChange

LEMMA EndCallKeeps ==
    ASSUME IInv, NEW s \in Slots, EndCall(s)
    PROVE  IInv'
<1> DEFINE m == slot[s].m
           at == slot[s].at
<1>1. /\ UNCHANGED <<turnKeys, request, acked, dlq, done, effects>> /\ TroubleSame
      /\ at \in {"ok", "defer", "throw", "fatal"} /\ m \in Messages
      /\ job' = IF job[m].owner # s THEN job ELSE [job EXCEPT ![m] = Outcome(job[m], at)]
      /\ slot' = [slot EXCEPT ![s] = Idle]
  BY DEF EndCall, IInv, TypeOK, TroubleSame, TurnsInv
<1>2. job[m] \in JobRecords /\ job \in [Messages -> JobRecords] /\ slot \in [Slots -> SlotRecords]
  BY <1>1 DEF IInv, TypeOK, JobRecords, SlotRecords
<1>3. at = "ok" => m \in done
  BY DEF IInv, DoneInv
<1>4. job[m].owner = s => /\ job[m].state = "active"
                          /\ job[m].attempts < MaxAttempts /\ job[m].stalls <= MaxStalls
  BY <1>1, TroubleAssumption DEF IInv, JobsInv
<1>5. \A t \in Slots : slot'[t] = IF t = s THEN Idle ELSE slot[t]
  BY <1>1, <1>2
<1>6. slot' \in [Slots -> SlotRecords] /\ Idle.at = "idle"
  BY <1>1, <1>2 DEF SlotRecords, Points, Idle
<1> HIDE DEF m, at
<1>7. CASE job[m].owner # s
  <2>1. UNCHANGED job
    BY <1>1, <1>7
  <2>2. JobsInv' /\ LocksInv'
    BY <1>1, <1>5, <1>6, <2>1 DEF IInv, JobsInv, LocksInv, TroubleSame
  <2>3. \A n \in Messages : job[n].state = "completed" => n \in done
    BY DEF IInv, DoneInv
  <2>4. \A t \in Slots : slot'[t] = slot[t] \/ slot'[t].at = "idle"
    BY <1>5, <1>6
  <2> QED
    BY <1>1, <1>2, <1>6, <2>1, <2>2, <2>3, <2>4, HandsChange
<1>8. CASE job[m].owner = s
  <2>1. PICK j : j = Outcome(job[m], at)
    OBVIOUS
  <2>2. /\ j \in JobRecords /\ j.turn = job[m].turn /\ j.owner = NoSlot /\ j.stalls = job[m].stalls
        /\ j.state \in {"completed", "waiting", "failed"}
        /\ j.state = "completed" => at = "ok"
        /\ j.state = "waiting" => j.attempts < MaxAttempts
    <3>1. PICK e : e = [job[m] EXCEPT !.owner = NoSlot]
      OBVIOUS
    <3>2. /\ e \in JobRecords /\ e.turn = job[m].turn /\ e.owner = NoSlot
          /\ e.stalls = job[m].stalls /\ e.attempts = job[m].attempts
      BY <1>2, <3>1 DEF JobRecords
    <3>3. CASE at \in {"ok", "defer"}
      <4>1. j = [e EXCEPT !.state = IF at = "ok" THEN "completed" ELSE "waiting"]
        BY <2>1, <3>1, <3>3 DEF Outcome
      <4> QED
        BY <1>4, <1>8, <3>2, <3>3, <4>1 DEF JobRecords, JobStates
    <3>4. CASE at \in {"throw", "fatal"}
      <4>1. PICK a : a = e.attempts + 1
        OBVIOUS
      <4>2. a \in 0..MaxAttempts /\ (a >= MaxAttempts \/ a < MaxAttempts)
        BY <1>4, <1>8, <3>2, <4>1, TroubleAssumption DEF JobRecords
      <4>3. CASE at = "fatal"
        <5>1. j = [e EXCEPT !.state = "failed", !.attempts = a]
          BY <2>1, <3>1, <4>1, <4>3 DEF Outcome
        <5> QED
          BY <3>2, <4>2, <4>3, <5>1 DEF JobRecords, JobStates
      <4>4. CASE at = "throw"
        <5>1. PICK f : f = IF job[m].attempts + 1 >= MaxAttempts THEN "failed" ELSE "waiting"
          OBVIOUS
        <5>2. /\ f \in {"failed", "waiting"}
              /\ f = "waiting" => a < MaxAttempts
          BY <3>2, <4>1, <4>2, <5>1
        <5>3. j = [e EXCEPT !.attempts = a, !.state = f]
          BY <2>1, <3>1, <4>1, <4>4, <5>1 DEF Outcome
        <5> QED
          BY <3>2, <4>2, <5>2, <5>3 DEF JobRecords, JobStates
      <4> QED
        BY <3>4, <4>3, <4>4
    <3> QED
      BY <1>1, <3>3, <3>4
  <2>3. job' = [job EXCEPT ![m] = j] /\ \A n \in Messages : job'[n] = IF n = m THEN j ELSE job[n]
    BY <1>1, <1>2, <1>8, <2>1
  <2>4. job' \in [Messages -> JobRecords]
    BY <1>2, <2>2, <2>3
  <2>5. JobsInv'
    BY <1>4, <1>8, <2>2, <2>3 DEF IInv, JobsInv
  <2>6. LocksInv'
    <3> SUFFICES ASSUME "stall" \notin trouble'.kinds, NEW t \in Slots, slot'[t].at # "idle"
                 PROVE  job'[slot'[t].m].owner = t
      BY DEF LocksInv
    <3>1. t # s /\ slot'[t] = slot[t]
      BY <1>5, <1>6
    <3>2. job[slot[t].m].owner = t /\ slot[t].m \in Messages
      BY <1>1, <3>1 DEF IInv, LocksInv, TurnsInv, TroubleSame
    <3> QED
      BY <1>8, <2>3, <3>1, <3>2
  <2>7. \A n \in Messages : /\ job'[n].turn = job[n].turn
                            /\ job'[n].state = "none" <=> job[n].state = "none"
                            /\ job'[n].state = "completed" => n \in done
    BY <1>3, <1>4, <1>8, <2>2, <2>3 DEF IInv, DoneInv
  <2>8. \A t \in Slots : slot'[t] = slot[t] \/ slot'[t].at = "idle"
    BY <1>5, <1>6
  <2> QED
    BY <1>1, <1>6, <2>4, <2>5, <2>6, <2>7, <2>8, HandsChange
<1> QED
  BY <1>7, <1>8

LEMMA StalledCheckKeeps ==
    ASSUME IInv, NEW m \in Messages, StalledCheck(m)
    PROVE  IInv'
<1> DEFINE f == IF job[m].stalls >= MaxStalls THEN "failed" ELSE "waiting"
           b == job[m].stalls + 1
<1>1. /\ UNCHANGED <<turnKeys, request, acked, slot, dlq, done, effects>>
      /\ job[m].state = "active"
      /\ Running(job[m].owner, m) => Trouble("stall")
      /\ ~Running(job[m].owner, m) => UNCHANGED trouble
      /\ job' = [job EXCEPT ![m] = [job[m] EXCEPT !.owner = NoSlot, !.stalls = b, !.state = f]]
  BY DEF StalledCheck, IInv, TypeOK
<1>2. TroubleSame
  BY <1>1, TroubleKept DEF TroubleSame, IInv, TypeOK
<1>3. job[m] \in JobRecords /\ job \in [Messages -> JobRecords] /\ slot \in [Slots -> SlotRecords]
  BY DEF IInv, TypeOK, JobRecords, SlotRecords
<1>4. job[m].attempts < MaxAttempts /\ job[m].stalls <= MaxStalls
  BY <1>1 DEF IInv, JobsInv
<1>5. /\ b \in 0..(MaxStalls + 1) /\ f \in {"failed", "waiting"}
      /\ f = "waiting" => b <= MaxStalls
  BY <1>3, <1>4, TroubleAssumption DEF JobRecords
<1> HIDE DEF f, b
<1>6. PICK j : j = [job[m] EXCEPT !.owner = NoSlot, !.stalls = b, !.state = f]
  OBVIOUS
<1>7. /\ j \in JobRecords /\ j.state = f /\ j.owner = NoSlot /\ j.turn = job[m].turn
      /\ j.attempts = job[m].attempts /\ j.stalls = b
  BY <1>3, <1>5, <1>6 DEF JobRecords, JobStates
<1>8. /\ job' = [job EXCEPT ![m] = j]
      /\ \A n \in Messages : job'[n] = IF n = m THEN j ELSE job[n]
  BY <1>1, <1>3, <1>6
<1>9. job' \in [Messages -> JobRecords] /\ slot' \in [Slots -> SlotRecords]
  BY <1>1, <1>3, <1>7, <1>8
<1>10. JobsInv'
  BY <1>4, <1>5, <1>7, <1>8 DEF IInv, JobsInv
<1>11. LocksInv'
  <2> SUFFICES ASSUME "stall" \notin trouble'.kinds, NEW t \in Slots, slot'[t].at # "idle"
               PROVE  job'[slot'[t].m].owner = t
    BY DEF LocksInv
  <2>1. slot'[t] = slot[t] /\ job[slot[t].m].owner = t /\ slot[t].m \in Messages
    BY <1>1, <1>2 DEF IInv, LocksInv, TurnsInv, TroubleSame
  <2>2. slot[t].m # m
    BY <1>1, <1>2, <2>1 DEF Running, Trouble, TroubleSame
  <2> QED
    BY <1>8, <2>1, <2>2
<1>12. \A n \in Messages :
         /\ job'[n].turn = job[n].turn
         /\ job'[n].state = "none" <=> job[n].state = "none"
         /\ job'[n].state = "completed" => n \in done
  BY <1>1, <1>5, <1>7, <1>8 DEF IInv, DoneInv
<1>13. \A t \in Slots : slot'[t] = slot[t]
  BY <1>1
<1> QED
  BY <1>1, <1>2, <1>9, <1>10, <1>11, <1>12, <1>13, HandsChange

LEMMA CrashKeeps ==
    ASSUME IInv, NEW s \in Slots, Crash(s)
    PROVE  IInv'
<1>1. /\ UNCHANGED <<turnKeys, request, acked, job, dlq, done, effects>>
      /\ slot' = [slot EXCEPT ![s] = Idle] /\ TroubleSame
  BY TroubleKept DEF Crash, KeepQueue, TroubleSame, IInv
<1>2. job \in [Messages -> JobRecords] /\ slot \in [Slots -> SlotRecords]
  BY DEF IInv, TypeOK, JobRecords, SlotRecords
<1>3. slot' \in [Slots -> SlotRecords] /\ Idle.at = "idle"
  BY <1>1, <1>2 DEF SlotRecords, Points, Idle
<1>4. \A t \in Slots : slot'[t] = slot[t] \/ slot'[t].at = "idle"
  BY <1>1, <1>2, <1>3
<1>5. JobsInv' /\ LocksInv'
  BY <1>1, <1>4 DEF IInv, JobsInv, LocksInv, TroubleSame
<1>6. \A n \in Messages : job[n].state = "completed" => n \in done
  BY DEF IInv, DoneInv
<1> QED
  BY <1>1, <1>2, <1>3, <1>4, <1>5, <1>6, HandsChange

LEMMA EvictCompletedKeeps ==
    ASSUME IInv, NEW m \in Messages, EvictCompleted(m)
    PROVE  IInv'
<1>1. /\ UNCHANGED <<turnKeys, request, acked, slot, dlq, done, effects, trouble>>
      /\ job[m].state = "completed" /\ \A s \in Slots : slot[s].m # m
      /\ job' = [job EXCEPT ![m] = NoJob]
  BY DEF EvictCompleted
<1>2. KeysInv' /\ UNCHANGED <<seq, msg, expected, lease, completed, ExpectedTurn>>
  BY <1>1, SameKeys DEF IInv
<1>3. NoJob \in JobRecords /\ NoJob.state = "none" /\ NoJob.owner = NoSlot
  BY TroubleAssumption DEF NoJob, JobRecords, JobStates
<1>4. \A n \in Messages : job'[n] = IF n = m THEN NoJob ELSE job[n]
  BY <1>1 DEF IInv, TypeOK
<1>5. \A s \in Slots : slot[s].at # "idle" => job'[slot[s].m] = job[slot[s].m]
  BY <1>1, <1>4 DEF IInv, TurnsInv
<1>6. TypeOK'
  <2>1. job' \in [Messages -> JobRecords]
    BY <1>1, <1>3 DEF IInv, TypeOK, JobRecords
  <2> QED
    BY <1>1, <1>2, <2>1 DEF IInv, TypeOK, KeysInv, JobRecords
<1>7. TurnsInv'
  BY <1>1, <1>2, <1>3, <1>4, <1>5 DEF IInv, TurnsInv
<1>8. JobsInv'
  BY <1>3, <1>4 DEF IInv, JobsInv
<1>9. DoneInv' /\ HandledInv'
  <2>1. m \in done
    BY <1>1 DEF IInv, DoneInv
  <2>2. acked \subseteq Messages
    BY DEF IInv, TypeOK
  <2> QED
    BY <1>1, <1>2, <1>3, <1>4, <2>1, <2>2 DEF IInv, DoneInv, HandledInv, Handled
<1>10. LocksInv' /\ LeasesInv' /\ DueInv'
  BY <1>1, <1>2, <1>5
  DEF IInv, LocksInv, LeasesInv, DueInv, HoldsLease, Turn, HandledInTurnOrder, TurnPoints
<1> QED
  BY <1>2, <1>6, <1>7, <1>8, <1>9, <1>10 DEF IInv

LEMMA LeaseExpiresKeeps ==
    ASSUME IInv, LeaseExpires
    PROVE  IInv'
<1>1. /\ UNCHANGED <<request, acked, job, slot, dlq, done, effects>>
      /\ lease # NoLease /\ lease' = NoLease /\ UNCHANGED <<seq, msg, expected, completed>>
      /\ Holding(lease.token) => Trouble("lapse")
      /\ ~Holding(lease.token) => UNCHANGED trouble
  BY DEF LeaseExpires, LeaseLapse, KeepQueue
<1>2. KeysInv' /\ UNCHANGED <<ExpectedTurn, msg>>
  BY <1>1, FreeKeys DEF IInv
<1>3. TroubleSame
  BY <1>1, TroubleKept DEF TroubleSame, IInv, TypeOK
<1>4. TypeOK'
  BY <1>1, <1>2, <1>3 DEF IInv, TypeOK, KeysInv, TroubleSame
<1>5. TurnsInv' /\ JobsInv' /\ HandledInv'
  BY <1>1 DEF IInv, TurnsInv, JobsInv, HandledInv, Handled
<1>6. DoneInv' /\ LocksInv' /\ DueInv'
  BY <1>1, <1>2, <1>3
  DEF IInv, DoneInv, LocksInv, DueInv, Turn, HandledInTurnOrder, TurnPoints, TroubleSame
<1>7. LeasesInv'
  <2>1. CASE "lapse" \in trouble.kinds
    BY <1>3, <2>1 DEF LeasesInv, TroubleSame
  <2>2. CASE "lapse" \notin trouble.kinds
    <3>1. ~Holding(lease.token)
      BY <1>1, <2>2 DEF Trouble
    <3>2. \A s \in Slots : slot[s].at \notin TurnPoints
      BY <2>2, <3>1 DEF IInv, LeasesInv, HoldsLease, Holding, TurnPoints
    <3> QED
      BY <1>1, <3>2 DEF LeasesInv
  <2> QED
    BY <2>1, <2>2
<1> QED
  BY <1>2, <1>4, <1>5, <1>6, <1>7 DEF IInv

-----------------------------------------------------------------------------
(* The handler call of one slot *)

LEMMA SlotTurn ==
    ASSUME IInv, NEW s \in Slots, slot[s].at # "idle"
    PROVE  /\ slot[s].m \in Messages /\ Turn(s) = msg[slot[s].m] /\ Turn(s) # 0
           /\ Turn(s) \in Nat /\ Turn(s) <= seq
BY DEF IInv, TurnsInv, KeysInv, TurnKeysType, Turn

\* Two workers are never both at their turns
LEMMA Alone ==
    ASSUME IInv, ~({"stall", "lapse"} \subseteq trouble.kinds),
           NEW s \in Slots, NEW t \in Slots, slot[s].at \in TurnPoints, slot[t].at \in TurnPoints
    PROVE  s = t
<1>1. CASE "stall" \notin trouble.kinds
  <2>1. slot[s].at # "idle" /\ slot[t].at # "idle"
    BY DEF TurnPoints
  <2>2. msg[slot[s].m] = msg[slot[t].m]
    BY <2>1, SlotTurn DEF IInv, DueInv
  <2>3. slot[s].m = slot[t].m
    BY <2>1, <2>2, SlotTurn DEF IInv, KeysInv
  <2> QED
    BY <1>1, <2>1, <2>3 DEF IInv, LocksInv
<1>2. CASE "lapse" \notin trouble.kinds
  BY <1>2 DEF IInv, LeasesInv, HoldsLease
<1> QED
  BY <1>1, <1>2

LEMMA GoToRecord ==
    ASSUME TypeOK, NEW s \in Slots, NEW p \in Points, GoTo(s, p)
    PROVE  \E q \in SlotRecords : /\ slot' = [slot EXCEPT ![s] = q]
                                  /\ q.at = p /\ q.m = slot[s].m
<1>1. slot[s] \in SlotRecords /\ slot' = [slot EXCEPT ![s] = [slot[s] EXCEPT !.at = p]]
  BY DEF TypeOK, SlotRecords, GoTo
<1>2. PICK q : q = [slot[s] EXCEPT !.at = p]
  OBVIOUS
<1>3. q \in SlotRecords /\ q.at = p /\ q.m = slot[s].m
  BY <1>1, <1>2 DEF SlotRecords
<1> QED
  BY <1>1, <1>2, <1>3

\* A step of a handler: what does not depend on which step it is
LEMMA HandlerStep ==
    ASSUME IInv, TroubleSame, NEW s \in Slots, slot[s].at # "idle", NEW q \in SlotRecords,
           slot' = [slot EXCEPT ![s] = q], q.at # "idle", q.m = slot[s].m,
           KeysInv', UNCHANGED <<msg, request, acked, job>>,
           dlq' \subseteq Messages, done' \subseteq Messages, effects' \in Seq(Messages),
           DoneInv', HandledInv', LeasesInv', DueInv'
    PROVE  IInv'
<1>1. \A t \in Slots : slot'[t] = IF t = s THEN q ELSE slot[t]
  BY DEF IInv, TypeOK
<1>2. slot' \in [Slots -> SlotRecords]
  BY DEF IInv, TypeOK, SlotRecords
<1>3. TypeOK'
  BY <1>2 DEF IInv, TypeOK, KeysInv, TroubleSame, SlotRecords
<1>4. TurnsInv' /\ JobsInv' /\ LocksInv'
  BY <1>1 DEF IInv, TurnsInv, JobsInv, LocksInv, TroubleSame
<1> QED
  BY <1>3, <1>4 DEF IInv

\* A step that leaves the keys and the history alone
LEMMA HandlerMoves ==
    ASSUME IInv, TroubleSame, NEW s \in Slots, slot[s].at # "idle", NEW q \in SlotRecords,
           slot' = [slot EXCEPT ![s] = q], q.at # "idle", q.m = slot[s].m,
           UNCHANGED <<turnKeys, request, acked, job, done, effects>>,
           dlq \subseteq dlq', dlq' \subseteq Messages,
           q.at \in TurnPoints => slot[s].at \in TurnPoints,
           q.at = "ok" => q.m \in done,
           q.at \in {"processed", "complete"} => q.m \in Handled,
           q.at = "finalize" => q.m \in dlq'
    PROVE  IInv'
<1>1. KeysInv' /\ UNCHANGED <<seq, msg, expected, lease, completed, ExpectedTurn>>
  BY SameKeys DEF IInv
<1>2. UNCHANGED <<request, acked, job, done, effects>>
  OBVIOUS
<1>3. \A t \in Slots : slot'[t] = IF t = s THEN q ELSE slot[t]
  BY DEF IInv, TypeOK
<1>4. DoneInv'
  BY <1>1, <1>2, <1>3 DEF IInv, DoneInv
<1>5. HandledInv'
  BY <1>2, <1>3 DEF IInv, HandledInv, Handled
<1>6. \A t \in Slots : slot'[t].at \in TurnPoints =>
         slot[t].at \in TurnPoints /\ Turn(t)' = Turn(t)
  BY <1>2, <1>3 DEF Turn
<1>7. LeasesInv' /\ DueInv'
  BY <1>1, <1>2, <1>6 DEF IInv, LeasesInv, DueInv, TroubleSame, HoldsLease, HandledInTurnOrder
<1>8. done' \subseteq Messages /\ effects' \in Seq(Messages)
  BY <1>2 DEF IInv, TypeOK
<1> QED
  BY <1>1, <1>2, <1>4, <1>5, <1>7, <1>8, HandlerStep

\* A worker finishes its turn
LEMMA FinishKeeps ==
    ASSUME IInv, TroubleSame, NEW s \in Slots, slot[s].at \in {"complete", "finalize"},
           NEW q \in SlotRecords,
           slot' = [slot EXCEPT ![s] = q], q.at \in {"ok", "fatal"}, q.m = slot[s].m,
           Finish(s), UNCHANGED <<request, acked, job, dlq, effects>>
    PROVE  IInv'
<1> DEFINE m == slot[s].m
<1>1. /\ m \in Messages /\ Turn(s) = msg[m] /\ Turn(s) # 0 /\ Turn(s) \in Nat
      /\ slot[s].at \in TurnPoints /\ slot[s].at # "idle"
  BY SlotTurn DEF TurnPoints
<1>2. /\ KeysInv' /\ UNCHANGED msg /\ ExpectedTurn' = ExpectedTurn + 1 /\ lease' = NoLease
      /\ msg[m] = ExpectedTurn /\ HoldsLease(s, Turn(s)) /\ done' = done \cup {m}
  BY <1>1, CompleteKeys DEF Finish, IInv
<1>3. ExpectedTurn \in Nat /\ msg \in [Messages -> Nat]
  BY DEF IInv, KeysInv, TurnKeysType, ExpectedTurn
<1> HIDE DEF m
<1>4. \A t \in Slots : slot'[t] = IF t = s THEN q ELSE slot[t]
  BY DEF IInv, TypeOK
<1>5. \A n \in Messages : msg[n] = ExpectedTurn => n = m
  BY <1>1, <1>2 DEF IInv, KeysInv
<1>6. DoneInv'
  <2>1. \A n \in Messages : n \in done' <=> msg'[n] # 0 /\ msg'[n] < ExpectedTurn'
    BY <1>1, <1>2, <1>3, <1>5 DEF IInv, DoneInv
  <2>2. \A t \in Slots : slot'[t].at = "ok" => slot'[t].m \in done'
    BY <1>2, <1>4 DEF IInv, DoneInv, m
  <2> QED
    BY <1>2, <2>1, <2>2 DEF IInv, DoneInv
<1>7. HandledInv'
  BY <1>2, <1>4 DEF IInv, HandledInv, Handled, m
<1>8. \A t \in Slots : slot'[t].at \in TurnPoints => t # s /\ slot[t].at \in TurnPoints
  BY <1>4 DEF TurnPoints
<1>9. LeasesInv'
  BY <1>1, <1>2, <1>8 DEF IInv, LeasesInv, TroubleSame, HoldsLease
<1>10. DueInv'
  <2> SUFFICES ASSUME ~({"stall", "lapse"} \subseteq trouble.kinds)
               PROVE  /\ \A t \in Slots : slot'[t].at \notin TurnPoints
                      /\ \A i \in 1..Len(effects') : msg'[effects'[i]] # 0
                                                     /\ msg'[effects'[i]] <= ExpectedTurn'
                      /\ HandledInTurnOrder'
    BY DEF DueInv, TroubleSame
  <2>1. \A t \in Slots : slot'[t].at \notin TurnPoints
    BY <1>1, <1>8, Alone
  <2>2. \A i \in 1..Len(effects) : effects[i] \in Messages /\ msg[effects[i]] # 0
                                  /\ msg[effects[i]] <= ExpectedTurn
    BY DEF IInv, DueInv, TypeOK
  <2>3. HandledInTurnOrder'
    BY <1>2 DEF IInv, DueInv, HandledInTurnOrder
  <2> QED
    BY <1>2, <1>3, <2>1, <2>2, <2>3
<1>11. /\ dlq' \subseteq Messages /\ done' \subseteq Messages /\ effects' \in Seq(Messages)
       /\ UNCHANGED <<msg, request, acked, job>>
  BY <1>1, <1>2 DEF IInv, TypeOK
<1> QED
  BY <1>1, <1>2, <1>6, <1>7, <1>9, <1>10, <1>11, HandlerStep

\* The catch block goes on to the dead-letter queue or to the release
LEMMA OnErrorGoes ==
    ASSUME NEW s, NEW class, OnError(s, class)
    PROVE  \E p \in {"dlq", "release"} : GoTo(s, p)
BY DEF OnError

\* The steps that only move on in the handler
LEMMA GoToKeeps ==
    ASSUME IInv, TroubleSame, NEW s \in Slots, slot[s].at # "idle",
           NEW p \in Points, GoTo(s, p), p # "idle",
           UNCHANGED <<turnKeys, request, acked, job, done, effects>>,
           dlq \subseteq dlq', dlq' \subseteq Messages,
           p \in TurnPoints => slot[s].at \in TurnPoints,
           p = "ok" => slot[s].m \in done,
           p \in {"processed", "complete"} => slot[s].m \in Handled,
           p = "finalize" => slot[s].m \in dlq'
    PROVE  IInv'
<1>1. PICK q \in SlotRecords : slot' = [slot EXCEPT ![s] = q] /\ q.at = p /\ q.m = slot[s].m
  BY GoToRecord DEF IInv
<1> QED
  BY <1>1, HandlerMoves

LEMMA TroubleStays ==
    ASSUME IInv, UNCHANGED trouble
    PROVE  TroubleSame
BY DEF IInv, TypeOK, TroubleSame

LEMMA TroubleOccurs ==
    ASSUME IInv, NEW k, Trouble(k)
    PROVE  TroubleSame
BY TroubleKept DEF IInv, TroubleSame

\* Reaching a turn's end that was already reached
LEMMA EndedTurn ==
    ASSUME IInv, NEW s \in Slots, slot[s].at # "idle", AlreadyCompleted(Turn(s))
    PROVE  slot[s].m \in done
BY SlotTurn, FinishedTurns

LEMMA ClaimKeeps ==
    ASSUME IInv, NEW s \in Slots, Claim(s)
    PROVE  IInv'
<1>1. slot[s].at = "claim" /\ UNCHANGED <<request, acked, job, dlq, done, effects>>
  BY DEF Claim, KeepQueue
<1>2. dlq' \subseteq Messages /\ dlq \subseteq dlq' /\ slot[s].at # "idle"
  BY <1>1 DEF IInv, TypeOK
<1>3. CASE AlreadyCompleted(Turn(s)) /\ GoTo(s, "ok") /\ UNCHANGED <<turnKeys, trouble>>
  BY <1>1, <1>2, <1>3, EndedTurn, TroubleStays, GoToKeeps DEF Points, TurnPoints
<1>4. CASE /\ ~AlreadyCompleted(Turn(s)) /\ ~Claimable(Turn(s)) /\ GoTo(s, "defer")
           /\ UNCHANGED <<turnKeys, trouble>>
  BY <1>1, <1>2, <1>4, TroubleStays, GoToKeeps DEF Points, TurnPoints
<1>5. CASE Trouble("fault") /\ GoTo(s, "throw") /\ UNCHANGED turnKeys
  BY <1>1, <1>2, <1>5, TroubleOccurs, GoToKeeps DEF Points, TurnPoints
<1>6. CASE ClaimScript(s, Turn(s)) /\ GoTo(s, "process") /\ UNCHANGED trouble
  <2>1. Turn(s) \in Nat /\ Turn(s) <= seq
    BY <1>1, SlotTurn
  <2>2. /\ KeysInv' /\ UNCHANGED <<ExpectedTurn, msg>> /\ Turn(s) = ExpectedTurn
        /\ lease = NoLease /\ lease' = [token |-> s, turn |-> Turn(s)]
    BY <1>6, <2>1, ClaimKeys DEF IInv
  <2>3. PICK q \in SlotRecords : /\ slot' = [slot EXCEPT ![s] = q]
                                 /\ q.at = "process" /\ q.m = slot[s].m
    BY <1>6, GoToRecord DEF IInv, Points
  <2>4. TroubleSame
    BY <1>6, TroubleStays
  <2>5. \A t \in Slots : slot'[t] = IF t = s THEN q ELSE slot[t]
    BY <2>3 DEF IInv, TypeOK
  <2>6. DoneInv' /\ HandledInv'
    BY <1>1, <2>2, <2>3, <2>5 DEF IInv, DoneInv, HandledInv, Handled
  <2>7. \A t \in Slots : Turn(t)' = Turn(t)
    BY <1>1, <2>3, <2>5 DEF Turn
  <2>8. LeasesInv'
    <3> SUFFICES ASSUME "lapse" \notin trouble.kinds, NEW t \in Slots, slot'[t].at \in TurnPoints
                 PROVE  HoldsLease(t, Turn(t))'
      BY <2>4 DEF LeasesInv, TroubleSame
    <3>1. t = s
      BY <2>2, <2>5 DEF IInv, LeasesInv, HoldsLease
    <3>2. lease' # NoLease
      BY <2>1, <2>2, NoLeaseAssumption
    <3> QED
      BY <2>2, <2>7, <3>1, <3>2 DEF HoldsLease
  <2>9. DueInv'
    BY <1>1, <2>2, <2>4, <2>5, <2>7 DEF IInv, DueInv, TroubleSame, HandledInTurnOrder
  <2>10. /\ UNCHANGED <<msg, request, acked, job>> /\ q.at # "idle"
         /\ dlq' \subseteq Messages /\ done' \subseteq Messages /\ effects' \in Seq(Messages)
    BY <1>1, <2>2, <2>3 DEF IInv, TypeOK
  <2> QED
    BY <1>2, <2>2, <2>3, <2>4, <2>6, <2>8, <2>9, <2>10, HandlerStep
<1> QED
  BY <1>3, <1>4, <1>5, <1>6 DEF Claim

LEMMA RenewalFailsKeeps ==
    ASSUME IInv, NEW s \in Slots, RenewalFails(s)
    PROVE  IInv'
<1>1. /\ slot[s].at \in {"process", "processed"}
      /\ UNCHANGED <<turnKeys, request, acked, job, dlq, done, effects>>
      /\ slot' = [slot EXCEPT ![s].lost = TRUE]
  BY DEF RenewalFails, KeepQueue
<1>2. TroubleSame
  BY TroubleStays, TroubleOccurs DEF RenewalFails
<1>3. slot[s] \in SlotRecords /\ slot' = [slot EXCEPT ![s] = [slot[s] EXCEPT !.lost = TRUE]]
  BY <1>1 DEF IInv, TypeOK, SlotRecords
<1>4. PICK q : q = [slot[s] EXCEPT !.lost = TRUE]
  OBVIOUS
<1>5. q \in SlotRecords /\ q.at = slot[s].at /\ q.m = slot[s].m
  BY <1>3, <1>4 DEF SlotRecords
<1>6. dlq' \subseteq Messages /\ (q.at = "processed" => q.m \in Handled)
  BY <1>1, <1>5 DEF IInv, TypeOK, HandledInv
<1>7. slot' = [slot EXCEPT ![s] = q] /\ slot[s].at # "idle" /\ dlq \subseteq dlq'
  BY <1>1, <1>3, <1>4
<1> QED
  BY <1>1, <1>2, <1>5, <1>6, <1>7, HandlerMoves

LEMMA ProcessKeeps ==
    ASSUME IInv, NEW s \in Slots, Process(s)
    PROVE  IInv'
<1> DEFINE m == slot[s].m
<1>1. /\ slot[s].at = "process" /\ effects' = Append(effects, m) /\ GoTo(s, "processed")
      /\ UNCHANGED <<turnKeys, request, acked, job, dlq, done, trouble>>
  BY DEF Process, KeepQueue
<1>2. /\ m \in Messages /\ Turn(s) = msg[m] /\ Turn(s) # 0 /\ Turn(s) \in Nat
      /\ slot[s].at \in TurnPoints /\ slot[s].at # "idle"
  BY <1>1, SlotTurn DEF TurnPoints
<1>3. KeysInv' /\ UNCHANGED <<seq, msg, expected, lease, completed, ExpectedTurn>>
  BY <1>1, SameKeys DEF IInv
<1>4. PICK q \in SlotRecords : /\ slot' = [slot EXCEPT ![s] = q]
                               /\ q.at = "processed" /\ q.m = m
  BY <1>1, GoToRecord DEF IInv, Points
<1>5. \A t \in Slots : slot'[t] = IF t = s THEN q ELSE slot[t]
  BY <1>4 DEF IInv, TypeOK
<1>6. effects \in Seq(Messages) /\ Len(effects) \in Nat
  BY DEF IInv, TypeOK
<1>7. TroubleSame
  BY <1>1, TroubleStays
<1> HIDE DEF m
<1>8. /\ effects' \in Seq(Messages) /\ Len(effects') = Len(effects) + 1
      /\ \A i \in 1..Len(effects) : effects'[i] = effects[i]
      /\ effects'[Len(effects) + 1] = m
  BY <1>1, <1>2, <1>6
<1>9. DoneInv'
  BY <1>1, <1>3, <1>4, <1>5 DEF IInv, DoneInv
<1>10. HandledInv'
  <2>1. Handled \subseteq Handled' /\ m \in Handled'
    BY <1>6, <1>8 DEF Handled
  <2> QED
    BY <1>1, <1>4, <1>5, <2>1 DEF IInv, HandledInv
<1>11. \A t \in Slots : slot'[t].at \in TurnPoints =>
          slot[t].at \in TurnPoints /\ Turn(t)' = Turn(t)
  BY <1>1, <1>2, <1>4, <1>5 DEF Turn, m
<1>12. LeasesInv'
  BY <1>3, <1>7, <1>11 DEF IInv, LeasesInv, TroubleSame, HoldsLease
<1>13. DueInv'
  <2> SUFFICES ASSUME ~({"stall", "lapse"} \subseteq trouble.kinds)
               PROVE  /\ \A t \in Slots : slot'[t].at \in TurnPoints => Turn(t)' = ExpectedTurn'
                      /\ \A i \in 1..Len(effects') : msg'[effects'[i]] # 0
                                                     /\ msg'[effects'[i]] <= ExpectedTurn'
                      /\ HandledInTurnOrder'
    BY <1>7 DEF DueInv, TroubleSame
  <2>1. /\ \A t \in Slots : slot[t].at \in TurnPoints => Turn(t) = ExpectedTurn
        /\ \A i \in 1..Len(effects) : msg[effects[i]] # 0 /\ msg[effects[i]] <= ExpectedTurn
        /\ \A i, k \in 1..Len(effects) : i < k => msg[effects[i]] <= msg[effects[k]]
    BY DEF IInv, DueInv, HandledInTurnOrder
  <2>2. msg[m] = ExpectedTurn /\ ExpectedTurn \in Nat
    BY <1>2, <2>1
  <2>3. \A t \in Slots : slot'[t].at \in TurnPoints => Turn(t)' = ExpectedTurn'
    BY <1>3, <1>11, <2>1
  <2>4. \A i \in 1..Len(effects') : /\ msg'[effects'[i]] # 0
                                    /\ msg'[effects'[i]] <= ExpectedTurn'
    BY <1>2, <1>3, <1>6, <1>8, <2>1, <2>2
  <2>5. HandledInTurnOrder'
    <3> SUFFICES ASSUME NEW i \in 1..Len(effects'), NEW k \in 1..Len(effects'), i < k
                 PROVE  msg'[effects'[i]] <= msg'[effects'[k]]
      BY DEF HandledInTurnOrder
    <3>1. i \in 1..Len(effects)
      BY <1>6, <1>8
    <3>2. CASE k \in 1..Len(effects)
      BY <1>3, <1>8, <2>1, <3>1, <3>2
    <3>3. CASE k = Len(effects) + 1
      BY <1>3, <1>8, <2>1, <2>2, <3>1, <3>3
    <3> QED
      BY <1>6, <1>8, <3>2, <3>3
  <2> QED
    BY <2>3, <2>4, <2>5
<1>14. /\ dlq' \subseteq Messages /\ done' \subseteq Messages /\ q.at # "idle"
       /\ q.m = slot[s].m /\ UNCHANGED <<msg, request, acked, job>>
  BY <1>1, <1>3, <1>4 DEF IInv, TypeOK, m
<1> QED
  BY <1>2, <1>3, <1>4, <1>7, <1>8, <1>9, <1>10, <1>12, <1>13, <1>14, HandlerStep

\* An error at a turn leads to the dead-letter queue or the release
LEMMA ErrorKeeps ==
    ASSUME IInv, TroubleSame, NEW s \in Slots, slot[s].at \in TurnPoints, NEW class,
           OnError(s, class), UNCHANGED <<turnKeys, request, acked, job, dlq, done, effects>>
    PROVE  IInv'
<1>1. PICK p \in {"dlq", "release"} : GoTo(s, p)
  BY OnErrorGoes
<1>2. slot[s].at # "idle" /\ dlq \subseteq dlq' /\ dlq' \subseteq Messages
  BY DEF TurnPoints, IInv, TypeOK
<1> QED
  BY <1>1, <1>2, GoToKeeps DEF Points

LEMMA ProcessFailsKeeps ==
    ASSUME IInv, NEW s \in Slots, ProcessFails(s)
    PROVE  IInv'
BY TroubleStays, ErrorKeeps DEF ProcessFails, KeepQueue, TurnPoints

LEMMA ReturnKeeps ==
    ASSUME IInv, NEW s \in Slots, Return(s)
    PROVE  IInv'
<1>1. /\ slot[s].at = "processed" /\ TroubleSame
      /\ UNCHANGED <<turnKeys, request, acked, job, dlq, done, effects>>
  BY TroubleStays DEF Return, KeepQueue
<1>2. slot[s].at \in TurnPoints /\ slot[s].at # "idle"
  BY <1>1 DEF TurnPoints
<1>3. CASE slot[s].lost
  BY <1>1, <1>2, <1>3, ErrorKeeps DEF Return
<1>4. CASE ~slot[s].lost
  <2>1. slot[s].m \in Handled /\ dlq \subseteq dlq' /\ dlq' \subseteq Messages
    BY <1>1 DEF IInv, HandledInv, TypeOK
  <2>2. GoTo(s, "complete")
    BY <1>4 DEF Return
  <2> QED
    BY <1>1, <1>2, <2>1, <2>2, GoToKeeps DEF Points
<1> QED
  BY <1>3, <1>4

\* Finishing the turn and going on
LEMMA FinishGoToKeeps ==
    ASSUME IInv, UNCHANGED trouble, NEW s \in Slots, slot[s].at \in {"complete", "finalize"},
           NEW p \in {"ok", "fatal"}, GoTo(s, p), Finish(s),
           UNCHANGED <<request, acked, job, dlq, effects>>
    PROVE  IInv'
<1>1. p \in Points
  BY DEF Points
<1>2. PICK q \in SlotRecords : slot' = [slot EXCEPT ![s] = q] /\ q.at = p /\ q.m = slot[s].m
  BY <1>1, GoToRecord DEF IInv
<1> QED
  BY <1>2, TroubleStays, FinishKeeps

LEMMA CompleteKeeps ==
    ASSUME IInv, NEW s \in Slots, Complete(s)
    PROVE  IInv'
<1>1. /\ slot[s].at = "complete" /\ UNCHANGED <<request, acked, job, dlq, effects>>
      /\ slot[s].at # "idle" /\ slot[s].at \in TurnPoints
      /\ dlq' \subseteq Messages /\ dlq \subseteq dlq'
  BY DEF Complete, KeepQueue, TurnPoints, IInv, TypeOK
<1>2. CASE Finish(s) /\ GoTo(s, "ok") /\ UNCHANGED trouble
  BY <1>1, <1>2, FinishGoToKeeps
<1>3. CASE AlreadyCompleted(Turn(s)) /\ GoTo(s, "ok") /\ UNCHANGED <<turnKeys, done, trouble>>
  <2>1. slot[s].m \in done /\ TroubleSame
    BY <1>1, <1>3, EndedTurn, TroubleStays
  <2> QED
    BY <1>1, <1>3, <2>1, GoToKeeps DEF Points, TurnPoints
<1>4. CASE OnError(s, "permanent") /\ UNCHANGED <<turnKeys, done>> /\ TroubleSame
  BY <1>1, <1>4, ErrorKeeps
<1> QED
  BY <1>2, <1>3, <1>4, TroubleStays, TroubleOccurs DEF Complete

LEMMA PublishDlqKeeps ==
    ASSUME IInv, NEW s \in Slots, PublishDlq(s)
    PROVE  IInv'
<1>1. /\ slot[s].at = "dlq" /\ UNCHANGED <<turnKeys, request, acked, job, done, effects>>
      /\ slot[s].at # "idle" /\ slot[s].at \in TurnPoints
  BY DEF PublishDlq, KeepQueue, TurnPoints
<1>2. slot[s].m \in Messages /\ dlq \subseteq Messages
  BY <1>1, SlotTurn DEF IInv, TypeOK
<1>3. CASE dlq' = dlq \cup {slot[s].m} /\ GoTo(s, "finalize") /\ UNCHANGED trouble
  <2>1. slot[s].m \in dlq' /\ dlq \subseteq dlq' /\ dlq' \subseteq Messages
    BY <1>2, <1>3
  <2> QED
    BY <1>1, <1>3, <2>1, TroubleStays, GoToKeeps DEF Points
<1>4. CASE Trouble("fault") /\ GoTo(s, "release") /\ UNCHANGED dlq
  BY <1>1, <1>2, <1>4, TroubleOccurs, GoToKeeps DEF Points
<1> QED
  BY <1>3, <1>4 DEF PublishDlq

LEMMA FinalizeTerminalKeeps ==
    ASSUME IInv, NEW s \in Slots, FinalizeTerminal(s)
    PROVE  IInv'
<1>1. /\ slot[s].at = "finalize" /\ UNCHANGED <<request, acked, job, dlq, effects>>
      /\ slot[s].at # "idle"
      /\ dlq' \subseteq Messages /\ dlq \subseteq dlq'
  BY DEF FinalizeTerminal, KeepQueue, IInv, TypeOK
<1>2. CASE Finish(s) /\ GoTo(s, "fatal") /\ UNCHANGED trouble
  BY <1>1, <1>2, FinishGoToKeeps
<1>3. ASSUME NEW p \in {"fatal", "throw"}, GoTo(s, p), TroubleSame, UNCHANGED <<turnKeys, done>>
      PROVE  IInv'
  BY <1>1, <1>3, GoToKeeps DEF Points, TurnPoints
<1> QED
  BY <1>2, <1>3, TroubleStays, TroubleOccurs DEF FinalizeTerminal

LEMMA ReleaseKeeps ==
    ASSUME IInv, NEW s \in Slots, Release(s)
    PROVE  IInv'
<1>1. /\ slot[s].at = "release" /\ UNCHANGED <<request, acked, job, dlq, done, effects>>
      /\ GoTo(s, "throw") /\ slot[s].at # "idle" /\ slot[s].at \in TurnPoints
      /\ dlq' \subseteq Messages /\ dlq \subseteq dlq'
  BY DEF Release, KeepQueue, TurnPoints, IInv, TypeOK
<1>2. CASE UNCHANGED turnKeys /\ TroubleSame
  BY <1>1, <1>2, GoToKeeps DEF Points, TurnPoints
<1>3. CASE ReleaseScript(s, Turn(s)) /\ UNCHANGED trouble
  <2>1. /\ lease # NoLease /\ lease.token = s /\ lease' = NoLease
        /\ UNCHANGED <<seq, msg, expected, completed>> /\ TroubleSame
    BY <1>3, TroubleStays DEF ReleaseScript, HoldsLease
  <2>2. KeysInv' /\ UNCHANGED <<ExpectedTurn, msg>>
    BY <2>1, FreeKeys DEF IInv
  <2>3. PICK q \in SlotRecords : /\ slot' = [slot EXCEPT ![s] = q]
                                 /\ q.at = "throw" /\ q.m = slot[s].m
    BY <1>1, GoToRecord DEF IInv, Points
  <2>4. \A t \in Slots : slot'[t] = IF t = s THEN q ELSE slot[t]
    BY <2>3 DEF IInv, TypeOK
  <2>5. DoneInv' /\ HandledInv'
    BY <1>1, <2>2, <2>3, <2>4 DEF IInv, DoneInv, HandledInv, Handled
  <2>6. \A t \in Slots : slot'[t].at \in TurnPoints =>
           t # s /\ slot[t].at \in TurnPoints /\ Turn(t)' = Turn(t)
    BY <1>1, <2>3, <2>4 DEF Turn, TurnPoints
  <2>7. LeasesInv'
    BY <2>1, <2>6 DEF IInv, LeasesInv, TroubleSame, HoldsLease
  <2>8. DueInv'
    BY <1>1, <2>1, <2>2, <2>6 DEF IInv, DueInv, TroubleSame, HandledInTurnOrder
  <2>9. /\ UNCHANGED <<msg, request, acked, job>> /\ q.at # "idle"
        /\ dlq' \subseteq Messages /\ done' \subseteq Messages /\ effects' \in Seq(Messages)
    BY <1>1, <2>2, <2>3 DEF IInv, TypeOK
  <2> QED
    BY <1>1, <2>1, <2>2, <2>3, <2>5, <2>7, <2>8, <2>9, HandlerStep
<1> QED
  BY <1>2, <1>3, TroubleStays, TroubleOccurs DEF Release

-----------------------------------------------------------------------------
(* The invariant and what follows from it *)

LEMMA InitIInv == Init => IInv
<1> SUFFICES ASSUME Init
             PROVE  IInv
  OBVIOUS
<1>1. /\ seq = 0 /\ msg = [m \in Messages |-> 0] /\ expected = 0 /\ lease = NoLease
      /\ completed = {} /\ ExpectedTurn = 1
      /\ acked = {} /\ dlq = {} /\ done = {} /\ effects = <<>>
      /\ trouble \in [kinds : Scenarios, count : {0}]
  BY DEF Init, TurnKeysInit, ExpectedTurn
<1>2. /\ \A r \in Requests : request[r].at = "idle"
      /\ \A m \in Messages : job[m].state = "none" /\ job[m].owner = NoSlot
      /\ \A s \in Slots : slot[s].at = "idle"
  BY DEF Init, NoJob, Idle
<1>3. KeysInv
  BY <1>1 DEF KeysInv, TurnKeysType
<1>4. TypeOK
  <2>1. request \in [Requests -> [at : {"idle", "reserve", "add"},
                                 m : Messages \cup {NoMessage}, turn : Nat]]
    BY DEF Init
  <2>2. NoJob \in JobRecords /\ Idle \in SlotRecords
    BY TroubleAssumption DEF NoJob, Idle, JobRecords, SlotRecords, JobStates, Points
  <2>3. job \in [Messages -> JobRecords] /\ slot \in [Slots -> SlotRecords]
    BY <2>2 DEF Init
  <2>4. trouble \in [kinds : Scenarios, count : 0..MaxTrouble]
    BY <1>1, TroubleAssumption
  <2> QED
    BY <1>1, <1>3, <2>1, <2>3, <2>4 DEF TypeOK, KeysInv, JobRecords, SlotRecords
<1>5. TurnsInv /\ JobsInv
  BY <1>2 DEF TurnsInv, JobsInv
<1>6. DoneInv /\ HandledInv
  BY <1>1, <1>2 DEF DoneInv, HandledInv
<1>7. LocksInv /\ LeasesInv /\ DueInv
  BY <1>1, <1>2 DEF LocksInv, LeasesInv, DueInv, TurnPoints, HandledInTurnOrder
<1> QED
  BY <1>3, <1>4, <1>5, <1>6, <1>7 DEF IInv

LEMMA NextKeepsIInv == IInv /\ [Next]_vars => IInv'
<1> SUFFICES ASSUME IInv, [Next]_vars
             PROVE  IInv'
  OBVIOUS
<1>1. ASSUME NEW r \in Requests, NEW m \in Messages, Deliver(r, m)
      PROVE  IInv'
  BY <1>1, DeliverKeeps
<1>2. ASSUME NEW r \in Requests, ReserveTurn(r) \/ AddJob(r) \/ RequestFails(r)
      PROVE  IInv'
  BY <1>2, ReserveTurnKeeps, AddJobKeeps, RequestFailsKeeps
<1>3. ASSUME NEW m \in Messages, EvictCompleted(m) \/ StalledCheck(m)
      PROVE  IInv'
  BY <1>3, EvictCompletedKeeps, StalledCheckKeeps
<1>4. ASSUME NEW s \in Slots, NEW m \in Messages, Take(s, m)
      PROVE  IInv'
  BY <1>4, TakeKeeps
<1>5. ASSUME NEW s \in Slots, Handler(s)
      PROVE  IInv'
  BY <1>5, ClaimKeeps, RenewalFailsKeeps, ProcessKeeps, ProcessFailsKeeps, ReturnKeeps,
     CompleteKeeps, PublishDlqKeeps, FinalizeTerminalKeeps, ReleaseKeeps, EndCallKeeps DEF Handler
<1>6. ASSUME NEW s \in Slots, Crash(s)
      PROVE  IInv'
  BY <1>6, CrashKeeps
<1>7. CASE LeaseExpires
  BY <1>7, LeaseExpiresKeeps
<1>8. CASE UNCHANGED vars
  <2>1. /\ UNCHANGED <<seq, msg, expected, lease, completed>>
        /\ UNCHANGED <<request, acked, job, slot, dlq, done, effects, trouble>>
    BY <1>8 DEF vars
  <2>2. KeysInv' /\ UNCHANGED ExpectedTurn
    BY <2>1, SameKeys DEF IInv, turnKeys
  <2>3. TypeOK' /\ TurnsInv' /\ JobsInv' /\ DoneInv' /\ HandledInv'
    BY <2>1, <2>2 DEF IInv, TypeOK, KeysInv, TurnsInv, JobsInv, DoneInv, HandledInv, Handled
  <2>4. LocksInv' /\ LeasesInv' /\ DueInv'
    BY <2>1, <2>2 DEF IInv, LocksInv, LeasesInv, DueInv, HoldsLease, Turn, HandledInTurnOrder
  <2> QED
    BY <2>2, <2>3, <2>4 DEF IInv
<1> QED
  BY <1>1, <1>2, <1>3, <1>4, <1>5, <1>6, <1>7, <1>8 DEF Next

\* Every reachable state satisfies the invariant
LEMMA IInvHolds == Spec => []IInv
BY InitIInv, NextKeepsIInv, PTL DEF Spec

\* Keys, requests, jobs and slots keep their types; in particular no job is
\* tried more often than the retry policy allows or found stalled more often
\* than BullMQ does before it fails the job.
THEOREM TypeCorrect == Spec => []TypeOK
<1>1. IInv => TypeOK
  BY DEF IInv
<1> QED
  BY <1>1, IInvHolds, PTL

\* Whatever fails, stalls or crashes, a turn is finished, and a completed job
\* evicted, only for a message the agent handled or that is dead-lettered.
THEOREM NoneLost == Spec => []NoSilentLoss
<1>1. IInv => NoSilentLoss
  BY DEF IInv, TypeOK, DoneInv, HandledInv, Handled, NoSilentLoss
<1> QED
  BY <1>1, IInvHolds, PTL

\* A worker that goes on after it lost both the lock of its job and its lease
\* is the one thing that breaks the order: no execution meets both troubles.
LockOrLease == \A k \in Scenarios : ~({"stall", "lapse"} \subseteq k)

LEMMA LockOrLeaseKept ==
    ASSUME LockOrLease, TypeOK
    PROVE  ~({"stall", "lapse"} \subseteq trouble.kinds)
BY DEF LockOrLease, TypeOK

\* However often jobs are redelivered, deferred and retried, the agent handles
\* the messages of a conversation in the order of their turns.
THEOREM InTurnOrder == LockOrLease => (Spec => []HandledInTurnOrder)
<1> SUFFICES ASSUME LockOrLease
             PROVE  Spec => []HandledInTurnOrder
  OBVIOUS
<1>1. IInv => HandledInTurnOrder
  BY LockOrLeaseKept DEF IInv, DueInv
<1> QED
  BY <1>1, IInvHolds, PTL

\* Two workers never have the agent at work on one conversation together.
THEOREM OneWorker == LockOrLease => (Spec => []OneAtATime)
<1> SUFFICES ASSUME LockOrLease
             PROVE  Spec => []OneAtATime
  OBVIOUS
<1>1. ASSUME IInv
      PROVE  OneAtATime
  <2>1. ~({"stall", "lapse"} \subseteq trouble.kinds)
    BY <1>1, LockOrLeaseKept DEF IInv
  <2> QED
    BY <1>1, <2>1, Alone DEF OneAtATime, TurnPoints
<1> QED
  BY <1>1, IInvHolds, PTL

\* A message whose turn is finished is not handled again, although Meta may
\* deliver it once more after its completed job was evicted.
THEOREM NotHandledAgain == LockOrLease => (Spec => FinishedNotHandledAgain)
<1> SUFFICES ASSUME LockOrLease
             PROVE  Spec => FinishedNotHandledAgain
  OBVIOUS
<1>1. ASSUME IInv, NEW m \in done, NEW s \in Slots, slot[s].m = m
      PROVE  slot[s].at # "process"
  <2> SUFFICES ASSUME slot[s].at = "process"
               PROVE  FALSE
    OBVIOUS
  <2>1. ~({"stall", "lapse"} \subseteq trouble.kinds)
    BY <1>1, LockOrLeaseKept DEF IInv
  <2>2. Turn(s) = ExpectedTurn /\ Turn(s) = msg[m] /\ m \in Messages
    BY <1>1, <2>1, SlotTurn DEF IInv, DueInv, TurnPoints
  <2>3. msg[m] < ExpectedTurn /\ ExpectedTurn \in Nat
    BY <1>1, <2>2 DEF IInv, DoneInv, KeysInv, TurnKeysType, ExpectedTurn
  <2> QED
    BY <2>2, <2>3
<1>2. IInv => [\A m \in done : \A s \in Slots :
          slot[s].m = m /\ slot[s].at = "process" => slot'[s].at # "processed"]_vars
  BY <1>1
<1> QED
  BY <1>2, IInvHolds, PTL DEF FinishedNotHandledAgain

-----------------------------------------------------------------------------
(* The queue as a client of the ordering adapter *)

\* What a slot holds is the turn reserved for its message
LEMMA HeldTurns ==
    ASSUME IInv, NEW s \in Slots
    PROVE  HeldTurn[s] = IF slot[s].at \in TurnPoints THEN msg[slot[s].m] ELSE 0
<1>1. Holding(s) <=> slot[s].at \in TurnPoints
  BY DEF Holding, TurnPoints
<1>2. slot[s].at \in TurnPoints => slot[s].at # "idle"
  BY DEF TurnPoints
<1> QED
  BY <1>1, <1>2, SlotTurn DEF HeldTurn

LEMMA HeldNext ==
    ASSUME IInv', NEW s \in Slots
    PROVE  HeldTurn'[s] = IF slot'[s].at \in TurnPoints THEN msg'[slot'[s].m] ELSE 0
<1>1. Holding(s)' <=> slot'[s].at \in TurnPoints
  BY DEF Holding, TurnPoints
<1>2. slot'[s].at \in TurnPoints => Turn(s)' = msg'[slot'[s].m]
  BY DEF IInv, TurnsInv, Turn, TurnPoints
<1> QED
  BY <1>1, <1>2 DEF HeldTurn

LEMMA HeldStays ==
    ASSUME IInv, IInv', \A m \in Messages : msg[m] # 0 => msg'[m] = msg[m],
           \A s \in Slots : /\ slot'[s].at \in TurnPoints <=> slot[s].at \in TurnPoints
                            /\ slot[s].at \in TurnPoints => slot'[s].m = slot[s].m
    PROVE  UNCHANGED HeldTurn
<1>1. ASSUME NEW s \in Slots
      PROVE  HeldTurn'[s] = HeldTurn[s]
  <2>1. CASE slot[s].at \in TurnPoints
    <3>1. slot[s].m \in Messages /\ msg[slot[s].m] # 0
      BY <2>1, SlotTurn DEF TurnPoints
    <3>2. HeldTurn[s] = msg[slot[s].m]
      BY <2>1, HeldTurns
    <3>3. HeldTurn'[s] = msg'[slot'[s].m]
      BY <2>1, HeldNext
    <3> QED
      BY <2>1, <3>1, <3>2, <3>3
  <2>2. CASE slot[s].at \notin TurnPoints
    BY <2>2, HeldTurns, HeldNext
  <2> QED
    BY <2>1, <2>2
<1> QED
  BY <1>1 DEF HeldTurn

LEMMA HeldMoves ==
    ASSUME IInv, IInv', UNCHANGED msg, NEW s \in Slots, slot[s].at # "idle",
           NEW q, slot' = [slot EXCEPT ![s] = q], q.m = slot[s].m \/ q.at \notin TurnPoints
    PROVE  /\ q.at \in TurnPoints => HeldTurn' = [HeldTurn EXCEPT ![s] = Turn(s)]
           /\ q.at \notin TurnPoints => HeldTurn' = [HeldTurn EXCEPT ![s] = 0]
<1>1. \A t \in Slots : slot'[t] = IF t = s THEN q ELSE slot[t]
  BY DEF IInv, TypeOK
<1>2. \A t \in Slots \ {s} : HeldTurn'[t] = HeldTurn[t]
  BY <1>1, HeldTurns, HeldNext
<1>3. HeldTurn'[s] = IF q.at \in TurnPoints THEN msg[q.m] ELSE 0
  BY <1>1, HeldNext
<1>4. q.at \in TurnPoints => msg[q.m] = Turn(s)
  BY SlotTurn
<1>5. DOMAIN HeldTurn = Slots /\ DOMAIN HeldTurn' = Slots
  BY DEF HeldTurn
<1>6. HeldTurn' = [t \in Slots |-> HeldTurn'[t]] /\ HeldTurn = [t \in Slots |-> HeldTurn[t]]
  BY DEF HeldTurn
<1> QED
  BY <1>2, <1>3, <1>4, <1>5, <1>6

OrderingStep == [Ordering!Next]_(Ordering!vars)

LEMMA NothingMoved ==
    ASSUME UNCHANGED turnKeys, UNCHANGED HeldTurn
    PROVE  OrderingStep
BY DEF turnKeys, OrderingStep, Ordering!vars

\* Webhooks, the producer and BullMQ move no slot at its turn
LEMMA OutsideStep ==
    ASSUME IInv, IInv', UNCHANGED turnKeys,
           \A s \in Slots : \/ slot'[s] = slot[s]
                            \/ slot[s].at \notin TurnPoints /\ slot'[s].at \notin TurnPoints
    PROVE  OrderingStep
<1>1. UNCHANGED msg
  BY DEF turnKeys
<1>2. UNCHANGED HeldTurn
  BY <1>1, HeldStays
<1> QED
  BY <1>2, NothingMoved

LEMMA ReserveIsReserve ==
    ASSUME IInv, IInv', NEW r \in Requests, ReserveTurn(r)
    PROVE  OrderingStep
<1>1. request[r].m \in Messages /\ ReserveScript(request[r].m) /\ UNCHANGED slot
  BY DEF ReserveTurn, IInv, TurnsInv
<1>2. UNCHANGED HeldTurn
  BY <1>1, ReserveKeys, HeldStays DEF IInv
<1>3. Ordering!Reserve(request[r].m)
  BY <1>1, <1>2 DEF Ordering!Reserve, Ordering!ReserveScript, ReserveScript, Ordering!ExpectedTurn, ExpectedTurn
<1> QED
  BY <1>1, <1>3 DEF OrderingStep, Ordering!Next

LEMMA LapseIsLapse ==
    ASSUME IInv, IInv', LeaseExpires
    PROVE  OrderingStep
<1>1. LeaseLapse /\ UNCHANGED <<msg, slot>>
  BY DEF LeaseExpires, LeaseLapse
<1>2. UNCHANGED HeldTurn
  BY <1>1, HeldStays
<1> QED
  BY <1>1, <1>2 DEF OrderingStep, Ordering!Next, Ordering!LeaseExpires, Ordering!LeaseLapse, LeaseLapse

\* A slot that leaves its turn without a script, by a crash or a failed call
LEMMA LeftIsCrash ==
    ASSUME IInv, IInv', UNCHANGED turnKeys, NEW s \in Slots, slot[s].at \in TurnPoints,
           NEW q, slot' = [slot EXCEPT ![s] = q], q.at \notin TurnPoints
    PROVE  OrderingStep
<1>1. UNCHANGED msg /\ slot[s].at # "idle"
  BY DEF turnKeys, TurnPoints
<1>2. HeldTurn' = [HeldTurn EXCEPT ![s] = 0]
  BY <1>1, HeldMoves
<1>3. HeldTurn[s] # 0
  BY <1>1, HeldTurns, SlotTurn
<1> QED
  BY <1>2, <1>3 DEF OrderingStep, Ordering!Next, Ordering!Crash, Ordering!Drop, Ordering!turnKeys, turnKeys

\* A slot that goes on at its turn
LEMMA GoingOnIsStutter ==
    ASSUME IInv, IInv', UNCHANGED turnKeys, NEW s \in Slots, slot[s].at \in TurnPoints,
           NEW q, slot' = [slot EXCEPT ![s] = q], q.at \in TurnPoints, q.m = slot[s].m
    PROVE  OrderingStep
<1>1. UNCHANGED msg /\ \A t \in Slots : slot'[t] = IF t = s THEN q ELSE slot[t]
  BY DEF turnKeys, IInv, TypeOK
<1>2. UNCHANGED HeldTurn
  BY <1>1, HeldStays
<1> QED
  BY <1>2, NothingMoved

LEMMA ClaimIsTryClaim ==
    ASSUME IInv, IInv', NEW s \in Slots, Claim(s)
    PROVE  OrderingStep
<1>1. slot[s].at = "claim" /\ slot[s].at \notin TurnPoints
  BY DEF Claim, TurnPoints
<1>2. ASSUME NEW p \in {"ok", "defer", "throw"}, GoTo(s, p), UNCHANGED turnKeys
      PROVE  OrderingStep
  <2>1. PICK q \in SlotRecords : slot' = [slot EXCEPT ![s] = q] /\ q.at = p
    BY <1>2, GoToRecord DEF IInv, Points
  <2>2. \A t \in Slots : slot'[t] = IF t = s THEN q ELSE slot[t]
    BY <2>1 DEF IInv, TypeOK
  <2> QED
    BY <1>1, <1>2, <2>1, <2>2, OutsideStep DEF TurnPoints
<1>3. ASSUME ClaimScript(s, Turn(s)), GoTo(s, "process")
      PROVE  OrderingStep
  <2>1. PICK q \in SlotRecords : slot' = [slot EXCEPT ![s] = q] /\ q.at = "process" /\ q.m = slot[s].m
    BY <1>3, GoToRecord DEF IInv, Points
  <2>2. HeldTurn[s] = 0 /\ slot[s].at # "idle"
    BY <1>1, HeldTurns
  <2>3. UNCHANGED msg
    BY <1>3 DEF ClaimScript
  <2>4. HeldTurn' = [HeldTurn EXCEPT ![s] = Turn(s)]
    BY <2>1, <2>2, <2>3, HeldMoves DEF TurnPoints
  <2>5. PICK m \in Messages : Turn(s) = msg[m] /\ msg[m] # 0
    BY <2>2, SlotTurn
  <2>6. Ordering!TryClaim(s, msg[m])
    BY <1>3, <2>2, <2>4, <2>5 DEF Ordering!TryClaim, Ordering!ClaimScript, ClaimScript, Ordering!Claimable,
       Claimable, Ordering!AlreadyCompleted, AlreadyCompleted, Ordering!ExpectedTurn, ExpectedTurn
  <2> QED
    BY <2>5, <2>6 DEF OrderingStep, Ordering!Next
<1> QED
  BY <1>2, <1>3 DEF Claim

\* The script that finishes a turn, on the way out of the handler
LEMMA FinishIsComplete ==
    ASSUME IInv, IInv', NEW s \in Slots, slot[s].at \in TurnPoints, CompleteScript(s, Turn(s)),
           NEW p \in {"ok", "fatal"}, GoTo(s, p)
    PROVE  OrderingStep
<1>1. PICK q \in SlotRecords : slot' = [slot EXCEPT ![s] = q] /\ q.at = p
  BY GoToRecord DEF IInv, Points
<1>2. q.at \notin TurnPoints /\ slot[s].at # "idle" /\ UNCHANGED msg
  BY <1>1 DEF TurnPoints, CompleteScript
<1>3. HeldTurn' = [HeldTurn EXCEPT ![s] = 0]
  BY <1>1, <1>2, HeldMoves
<1>4. HeldTurn[s] = Turn(s) /\ HeldTurn[s] # 0
  BY <1>2, HeldTurns, SlotTurn
<1>5. Ordering!Complete(s)
  BY <1>3, <1>4 DEF Ordering!Complete, Ordering!Drop, Ordering!CompleteScript, CompleteScript,
     Ordering!Completable, Completable, Ordering!HoldsLease, HoldsLease,
     Ordering!AlreadyCompleted, AlreadyCompleted, Ordering!ExpectedTurn, ExpectedTurn
<1> QED
  BY <1>5 DEF OrderingStep, Ordering!Next

\* Every other way out of the handler
LEMMA OutIsCrash ==
    ASSUME IInv, IInv', NEW s \in Slots, slot[s].at \in TurnPoints, UNCHANGED turnKeys,
           NEW p \in {"ok", "fatal", "throw"}, GoTo(s, p)
    PROVE  OrderingStep
<1>1. PICK q \in SlotRecords : slot' = [slot EXCEPT ![s] = q] /\ q.at = p
  BY GoToRecord DEF IInv, Points
<1>2. q.at \notin TurnPoints
  BY <1>1 DEF TurnPoints
<1> QED
  BY <1>1, <1>2, LeftIsCrash

LEMMA OnIsStutter ==
    ASSUME IInv, IInv', NEW s \in Slots, slot[s].at \in TurnPoints, UNCHANGED turnKeys,
           NEW p \in TurnPoints, GoTo(s, p)
    PROVE  OrderingStep
<1>1. PICK q \in SlotRecords : slot' = [slot EXCEPT ![s] = q] /\ q.at = p /\ q.m = slot[s].m
  BY GoToRecord DEF IInv, Points, TurnPoints
<1> QED
  BY <1>1, GoingOnIsStutter

LEMMA ErrorIsStutter ==
    ASSUME IInv, IInv', NEW s \in Slots, slot[s].at \in TurnPoints, UNCHANGED turnKeys,
           NEW class, OnError(s, class)
    PROVE  OrderingStep
BY OnIsStutter DEF OnError, TurnPoints

LEMMA EndIsComplete ==
    ASSUME IInv, IInv', NEW s \in Slots, Complete(s) \/ FinalizeTerminal(s)
    PROVE  OrderingStep
<1>1. slot[s].at \in TurnPoints
  BY DEF Complete, FinalizeTerminal, TurnPoints
<1>2. CASE Complete(s)
  BY <1>1, <1>2, FinishIsComplete, OutIsCrash, ErrorIsStutter DEF Complete, Finish
<1>3. CASE FinalizeTerminal(s)
  BY <1>1, <1>3, FinishIsComplete, OutIsCrash DEF FinalizeTerminal, Finish
<1> QED
  BY <1>2, <1>3

LEMMA ReleaseIsRelease ==
    ASSUME IInv, IInv', NEW s \in Slots, Release(s)
    PROVE  OrderingStep
<1>1. slot[s].at \in TurnPoints /\ GoTo(s, "throw")
  BY DEF Release, TurnPoints
<1>2. CASE UNCHANGED turnKeys
  BY <1>1, <1>2, OutIsCrash
<1>3. CASE ReleaseScript(s, Turn(s))
  <2>1. PICK q \in SlotRecords : slot' = [slot EXCEPT ![s] = q] /\ q.at = "throw"
    BY <1>1, GoToRecord DEF IInv, Points
  <2>2. q.at \notin TurnPoints /\ slot[s].at # "idle" /\ UNCHANGED msg
    BY <1>1, <1>3, <2>1 DEF TurnPoints, ReleaseScript
  <2>3. HeldTurn' = [HeldTurn EXCEPT ![s] = 0]
    BY <2>1, <2>2, HeldMoves
  <2>4. HeldTurn[s] = Turn(s) /\ HeldTurn[s] # 0
    BY <1>1, <2>2, HeldTurns, SlotTurn
  <2>5. Ordering!Release(s)
    BY <1>3, <2>3, <2>4 DEF Ordering!Release, Ordering!Drop, Ordering!ReleaseScript, ReleaseScript,
       Ordering!HoldsLease, HoldsLease
  <2> QED
    BY <2>5 DEF OrderingStep, Ordering!Next
<1> QED
  BY <1>2, <1>3 DEF Release

LEMMA WorkIsStutter ==
    ASSUME IInv, IInv', NEW s \in Slots,
           RenewalFails(s) \/ Process(s) \/ ProcessFails(s) \/ Return(s) \/ PublishDlq(s)
    PROVE  OrderingStep
<1>1. slot[s].at \in TurnPoints /\ UNCHANGED turnKeys
  BY DEF RenewalFails, Process, ProcessFails, Return, PublishDlq, TurnPoints
<1>2. CASE RenewalFails(s)
  <2>1. PICK q : q = [slot[s] EXCEPT !.lost = TRUE]
    OBVIOUS
  <2>2. slot[s] \in SlotRecords /\ slot' = [slot EXCEPT ![s] = q]
    BY <1>2, <2>1 DEF RenewalFails, IInv, TypeOK, SlotRecords
  <2>3. q.at = slot[s].at /\ q.m = slot[s].m
    BY <2>1, <2>2 DEF SlotRecords
  <2> QED
    BY <1>1, <2>2, <2>3, GoingOnIsStutter
<1>3. CASE Process(s)
  BY <1>1, <1>3, OnIsStutter DEF Process, TurnPoints
<1>4. CASE ProcessFails(s)
  BY <1>1, <1>4, ErrorIsStutter DEF ProcessFails
<1>5. CASE Return(s)
  BY <1>1, <1>5, OnIsStutter, ErrorIsStutter DEF Return, TurnPoints
<1>6. CASE PublishDlq(s)
  BY <1>1, <1>6, OnIsStutter DEF PublishDlq, TurnPoints
<1> QED
  BY <1>2, <1>3, <1>4, <1>5, <1>6

LEMMA StepIsOrderingStep ==
    ASSUME IInv, IInv', [Next]_vars
    PROVE  OrderingStep
<1>1. ASSUME NEW r \in Requests, NEW m \in Messages, Deliver(r, m)
      PROVE  OrderingStep
  BY <1>1, OutsideStep DEF Deliver
<1>2. ASSUME NEW r \in Requests, ReserveTurn(r) \/ AddJob(r) \/ RequestFails(r)
      PROVE  OrderingStep
  BY <1>2, ReserveIsReserve, OutsideStep DEF AddJob, RequestFails
<1>3. ASSUME NEW m \in Messages, EvictCompleted(m) \/ StalledCheck(m)
      PROVE  OrderingStep
  BY <1>3, OutsideStep DEF EvictCompleted, StalledCheck
<1>4. ASSUME NEW s \in Slots, NEW m \in Messages, Take(s, m)
      PROVE  OrderingStep
  <2>1. /\ UNCHANGED turnKeys /\ slot[s].at = "idle"
        /\ slot' = [slot EXCEPT ![s] = [at |-> "claim", m |-> m, lost |-> FALSE]]
    BY <1>4 DEF Take
  <2>2. \A t \in Slots \ {s} : slot'[t] = slot[t]
    BY <2>1 DEF IInv, TypeOK
  <2>3. slot'[s].at = "claim"
    BY <2>1 DEF IInv, TypeOK
  <2> QED
    BY <2>1, <2>2, <2>3, OutsideStep DEF TurnPoints
<1>5. ASSUME NEW s \in Slots, EndCall(s) \/ Crash(s)
      PROVE  OrderingStep
  <2>1. UNCHANGED turnKeys /\ slot' = [slot EXCEPT ![s] = Idle]
    BY <1>5 DEF EndCall, Crash
  <2>2. Idle.at \notin TurnPoints /\ \A t \in Slots : slot'[t] = IF t = s THEN Idle ELSE slot[t]
    BY <2>1 DEF Idle, TurnPoints, IInv, TypeOK
  <2>3. CASE slot[s].at \in TurnPoints
    BY <2>1, <2>2, <2>3, LeftIsCrash
  <2>4. CASE slot[s].at \notin TurnPoints
    BY <2>1, <2>2, <2>4, OutsideStep
  <2> QED
    BY <2>3, <2>4
<1>6. ASSUME NEW s \in Slots, Handler(s)
      PROVE  OrderingStep
  BY <1>5, <1>6, ClaimIsTryClaim, WorkIsStutter, EndIsComplete, ReleaseIsRelease DEF Handler
<1>7. CASE LeaseExpires
  BY <1>7, LapseIsLapse
<1>8. CASE UNCHANGED vars
  BY <1>8, OutsideStep DEF vars, turnKeys
<1> QED
  BY <1>1, <1>2, <1>3, <1>4, <1>5, <1>6, <1>7, <1>8 DEF Next

\* The queue implements ConversationOrdering, so what is proved of the adapter
\* and its clients holds of the webhooks and the workers, whichever troubles
\* meet: a turn is reserved once for a message, the claimed one is the due one,
\* none is skipped, and a worker that lost its lease moves no key.
THEOREM ClientOfOrdering == Spec => ImplementsOrdering
<1>1. Init => Ordering!Init
  <2> SUFFICES ASSUME Init
               PROVE  Ordering!Init
    OBVIOUS
  <2>1. \A s \in Slots : ~Holding(s)
    BY DEF Init, Idle, Holding
  <2>2. HeldTurn = [s \in Slots |-> 0]
    BY <2>1 DEF HeldTurn
  <2> QED
    BY <2>2 DEF Init, TurnKeysInit, Ordering!Init, Ordering!TurnKeysInit
<1>2. IInv /\ IInv' /\ [Next]_vars => [Ordering!Next]_(Ordering!vars)
  BY StepIsOrderingStep DEF OrderingStep
<1>3. ImplementsOrdering <=> Ordering!Init /\ [][Ordering!Next]_(Ordering!vars)
  BY DEF ImplementsOrdering, Ordering!Spec
<1> QED
  BY <1>1, <1>2, <1>3, IInvHolds, PTL DEF Spec

-----------------------------------------------------------------------------
(* What may leave a turn open for ever *)

\* A failed job has used up its attempts or its stalls, unless its turn is
\* finished and its message in the dead-letter queue
Settled(m) == m \in done /\ m \in dlq

FailedInv ==
    /\ \A s \in Slots : slot[s].at = "fatal" => Settled(slot[s].m)
    /\ \A m \in Messages :
         job[m].state = "failed" =>
            Settled(m) \/ job[m].attempts = MaxAttempts \/ job[m].stalls > MaxStalls

\* Steps of the producer and of BullMQ
LEMMA QueueKeepsFailed ==
    ASSUME IInv, FailedInv, UNCHANGED <<done, dlq>>,
           \A s \in Slots : slot'[s].at = "fatal" => slot'[s] = slot[s],
           \A m \in Messages : job'[m].state = "failed" =>
              \/ job'[m] = job[m] \/ Settled(m)
              \/ job'[m].attempts = MaxAttempts \/ job'[m].stalls > MaxStalls
    PROVE  FailedInv'
BY DEF FailedInv, Settled

LEMMA AddJobKeepsFailed ==
    ASSUME IInv, FailedInv, NEW r \in Requests, AddJob(r)
    PROVE  FailedInv'
<1> DEFINE m == request[r].m
           new == [NoJob EXCEPT !.state = "waiting", !.turn = request[r].turn]
<1>1. /\ UNCHANGED <<slot, done, dlq>> /\ m \in Messages
      /\ job' = IF job[m].state # "none" THEN job ELSE [job EXCEPT ![m] = new]
  BY DEF AddJob, IInv, TurnsInv
<1>2. new.state = "waiting"
  BY DEF NoJob
<1> HIDE DEF m, new
<1>3. \A n \in Messages : job'[n] = job[n] \/ job'[n].state = "waiting"
  BY <1>1, <1>2 DEF IInv, TypeOK
<1> QED
  BY <1>1, <1>3, QueueKeepsFailed

LEMMA EndCallKeepsFailed ==
    ASSUME IInv, FailedInv, NEW s \in Slots, EndCall(s)
    PROVE  FailedInv'
<1> DEFINE m == slot[s].m
           j == job[m]
           at == slot[s].at
<1>1. /\ UNCHANGED <<done, dlq>> /\ at \in {"ok", "defer", "throw", "fatal"} /\ m \in Messages
      /\ job' = IF j.owner # s THEN job ELSE [job EXCEPT ![m] = Outcome(j, at)]
      /\ slot' = [slot EXCEPT ![s] = Idle]
  BY DEF EndCall, IInv, TurnsInv
<1>2. \A t \in Slots : slot'[t].at = "fatal" => slot'[t] = slot[t]
  BY <1>1 DEF Idle, IInv, TypeOK
<1>3. at = "fatal" => Settled(m)
  BY DEF FailedInv
<1>4. j.owner = s => j.state = "active" /\ j.attempts < MaxAttempts
  BY <1>1, TroubleAssumption DEF IInv, JobsInv
<1>5. j \in JobRecords
  BY <1>1 DEF IInv, TypeOK, JobRecords
<1> HIDE DEF at, j, m
<1>6. ASSUME j.owner = s, Outcome(j, at).state = "failed", at = "throw"
      PROVE  Outcome(j, at).attempts = MaxAttempts
  <2>1. PICK b : b = (IF j.attempts + 1 >= MaxAttempts THEN "failed" ELSE "waiting")
    OBVIOUS
  <2>2. PICK o : o = [j EXCEPT !.owner = NoSlot, !.attempts = j.attempts + 1, !.state = b]
    OBVIOUS
  <2>3. Outcome(j, at) = o
    BY <1>6, <2>1, <2>2, <1>5 DEF Outcome, JobRecords
  <2>4. o.state = b /\ o.attempts = j.attempts + 1
    BY <1>5, <2>2 DEF JobRecords
  <2>5. j.attempts + 1 >= MaxAttempts
    BY <1>6, <2>1, <2>3, <2>4
  <2> QED
    BY <1>4, <1>5, <1>6, <2>3, <2>4, <2>5, TroubleAssumption DEF JobRecords
<1>7. ASSUME at = "ok" \/ at = "defer"
      PROVE  Outcome(j, at).state # "failed"
  BY <1>5, <1>7 DEF Outcome, JobRecords
<1>8. \A n \in Messages : job'[n] = IF n = m /\ j.owner = s THEN Outcome(j, at) ELSE job[n]
  BY <1>1 DEF IInv, TypeOK
<1>9. \A n \in Messages : job'[n].state = "failed" =>
              \/ job'[n] = job[n] \/ Settled(n)
              \/ job'[n].attempts = MaxAttempts \/ job'[n].stalls > MaxStalls
  BY <1>1, <1>3, <1>6, <1>7, <1>8
<1> QED
  BY <1>1, <1>2, <1>9, QueueKeepsFailed

LEMMA StalledCheckKeepsFailed ==
    ASSUME IInv, FailedInv, NEW m \in Messages, StalledCheck(m)
    PROVE  FailedInv'
<1> DEFINE f == IF job[m].stalls >= MaxStalls THEN "failed" ELSE "waiting"
<1>1. /\ UNCHANGED <<slot, done, dlq>>
      /\ job' = [job EXCEPT ![m] = [job[m] EXCEPT !.owner = NoSlot, !.stalls = job[m].stalls + 1, !.state = f]]
  BY DEF StalledCheck, IInv, TypeOK
<1>2. job[m] \in JobRecords
  BY DEF IInv, TypeOK, JobRecords
<1>3. f = "failed" => job[m].stalls + 1 > MaxStalls
  BY <1>2, TroubleAssumption DEF JobRecords
<1> HIDE DEF f
<1>4. PICK j : j = [job[m] EXCEPT !.owner = NoSlot, !.stalls = job[m].stalls + 1, !.state = f]
  OBVIOUS
<1>5. j.state = f /\ j.stalls = job[m].stalls + 1
  BY <1>2, <1>4 DEF JobRecords
<1>6. \A n \in Messages : job'[n] = IF n = m THEN j ELSE job[n]
  BY <1>1, <1>4 DEF IInv, TypeOK
<1> QED
  BY <1>1, <1>3, <1>5, <1>6, QueueKeepsFailed

\* Steps of a handler: only the finished turn of a dead-lettered message makes
\* an outcome that is not to be retried
LEMMA HandlerKeepsFailed ==
    ASSUME IInv, FailedInv, NEW s \in Slots, Handler(s), ~EndCall(s)
    PROVE  FailedInv'
<1>1. UNCHANGED job /\ done \subseteq done' /\ dlq \subseteq dlq'
  BY DEF Handler, Claim, RenewalFails, Process, ProcessFails, Return, Complete, PublishDlq,
     FinalizeTerminal, Release, KeepQueue, Finish
<1>2. ASSUME slot'[s].at = "fatal"
      PROVE  slot'[s].m \in done' /\ slot'[s].m \in dlq'
  <2>1. slot[s] \in SlotRecords /\ \A p : GoTo(s, p) => slot'[s] = [slot[s] EXCEPT !.at = p]
    BY DEF IInv, TypeOK, SlotRecords, GoTo
  <2>2. \A p : GoTo(s, p) => slot'[s].at = p /\ slot'[s].m = slot[s].m
    BY <2>1 DEF SlotRecords
  <2>3. RenewalFails(s) => slot'[s].at = slot[s].at /\ slot[s].at # "fatal"
    <3>1. RenewalFails(s) => slot' = [slot EXCEPT ![s] = [slot[s] EXCEPT !.lost = TRUE]]
      BY DEF RenewalFails, IInv, TypeOK
    <3> QED
      BY <2>1, <3>1 DEF RenewalFails, SlotRecords, IInv, TypeOK
  <2>4. \A class : OnError(s, class) => slot'[s].at \in {"dlq", "release"}
    BY <2>2 DEF OnError
  <2>5. FinalizeTerminal(s) /\ GoTo(s, "fatal")
    BY <1>2, <2>2, <2>3, <2>4 DEF Handler, Claim, Process, ProcessFails, Return, Complete,
       PublishDlq, FinalizeTerminal, Release
  <2>6. slot[s].m \in dlq /\ slot[s].at = "finalize"
    BY <2>5 DEF FinalizeTerminal, IInv, HandledInv
  <2>7. AlreadyCompleted(Turn(s)) => slot[s].m \in done
    BY <2>6, SlotTurn, FinishedTurns
  <2>8. slot[s].m \in done'
    BY <1>1, <2>2, <1>2, <2>5, <2>7 DEF FinalizeTerminal, Finish
  <2> QED
    BY <1>1, <2>2, <2>5, <2>6, <2>8
<1>3. \A t \in Slots \ {s} : slot'[t] = slot[t]
  BY DEF Handler, Claim, RenewalFails, Process, ProcessFails, Return, Complete, PublishDlq,
     FinalizeTerminal, Release, GoTo, OnError, IInv, TypeOK
<1>4. \A t \in Slots : slot'[t].at = "fatal" => slot'[t].m \in done' /\ slot'[t].m \in dlq'
  BY <1>1, <1>2, <1>3 DEF FailedInv, Settled
<1> QED
  BY <1>1, <1>4 DEF FailedInv, Settled

LEMMA NextKeepsFailed == IInv /\ FailedInv /\ [Next]_vars => FailedInv'
<1> SUFFICES ASSUME IInv, FailedInv, [Next]_vars
             PROVE  FailedInv'
  OBVIOUS
<1>1. CASE UNCHANGED <<job, slot, done, dlq>>
  BY <1>1 DEF FailedInv, Settled
<1>2. ASSUME NEW r \in Requests, AddJob(r)
      PROVE  FailedInv'
  BY <1>2, AddJobKeepsFailed
<1>3. ASSUME NEW m \in Messages, EvictCompleted(m)
      PROVE  FailedInv'
  <2>1. UNCHANGED <<slot, done, dlq>> /\ \A n \in Messages : job'[n] = IF n = m THEN NoJob ELSE job[n]
    BY <1>3 DEF EvictCompleted, IInv, TypeOK
  <2> QED
    BY <2>1, QueueKeepsFailed DEF NoJob
<1>4. ASSUME NEW m \in Messages, StalledCheck(m)
      PROVE  FailedInv'
  BY <1>4, StalledCheckKeepsFailed
<1>5. ASSUME NEW s \in Slots, NEW m \in Messages, Take(s, m)
      PROVE  FailedInv'
  <2>1. /\ UNCHANGED <<done, dlq>>
        /\ slot' = [slot EXCEPT ![s] = [at |-> "claim", m |-> m, lost |-> FALSE]]
        /\ job' = [job EXCEPT ![m] = [job[m] EXCEPT !.state = "active", !.owner = s]]
    BY <1>5 DEF Take, IInv, TypeOK
  <2>2. job[m] \in JobRecords
    BY DEF IInv, TypeOK, JobRecords
  <2>3. \A n \in Messages : n # m => job'[n] = job[n]
    BY <2>1 DEF IInv, TypeOK
  <2>4. job'[m].state = "active"
    BY <2>1, <2>2 DEF JobRecords, IInv, TypeOK
  <2>5. \A t \in Slots : slot'[t].at = "fatal" => slot'[t] = slot[t]
    BY <2>1 DEF IInv, TypeOK
  <2> QED
    BY <2>1, <2>3, <2>4, <2>5, QueueKeepsFailed
<1>6. ASSUME NEW s \in Slots, EndCall(s)
      PROVE  FailedInv'
  BY <1>6, EndCallKeepsFailed
<1>7. ASSUME NEW s \in Slots, Handler(s), ~EndCall(s)
      PROVE  FailedInv'
  BY <1>7, HandlerKeepsFailed
<1>8. ASSUME NEW s \in Slots, Crash(s)
      PROVE  FailedInv'
  <2>1. UNCHANGED <<job, done, dlq>> /\ slot' = [slot EXCEPT ![s] = Idle]
    BY <1>8 DEF Crash, KeepQueue
  <2>2. \A t \in Slots : slot'[t].at = "fatal" => slot'[t] = slot[t]
    BY <2>1 DEF Idle, IInv, TypeOK
  <2> QED
    BY <2>1, <2>2, QueueKeepsFailed
<1> QED
  BY <1>1, <1>2, <1>3, <1>4, <1>5, <1>6, <1>7, <1>8
  DEF Next, vars, Deliver, ReserveTurn, RequestFails, LeaseExpires, KeepQueue

\* The turn of a failed message stays due only if its last attempt threw or its
\* job stalled once too often: a message refused for good, at whatever attempt,
\* is in the dead-letter queue and its turn is finished.
THEOREM OpenTurnExhausted ==
    Spec => [](\A m \in Messages :
        job[m].state = "failed" /\ ~(m \in dlq /\ msg[m] < ExpectedTurn) =>
            job[m].attempts = MaxAttempts \/ job[m].stalls > MaxStalls)
<1>1. Init => FailedInv
  BY DEF Init, FailedInv, NoJob, Idle
<1>2. IInv /\ FailedInv =>
        \A m \in Messages :
          job[m].state = "failed" /\ ~(m \in dlq /\ msg[m] < ExpectedTurn) =>
            job[m].attempts = MaxAttempts \/ job[m].stalls > MaxStalls
  BY DEF IInv, DoneInv, FailedInv, Settled
<1> QED
  BY <1>1, <1>2, IInvHolds, NextKeepsFailed, PTL DEF Spec
=============================================================================
