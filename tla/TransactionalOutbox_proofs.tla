--------------------- MODULE TransactionalOutbox_proofs ---------------------
(***************************************************************************)
(* The outbox for any orders, writers, publishers and troubles: a receipt  *)
(* is handed over after its order, as one job, and a running claim is left *)
(* to its publisher.                                                       *)
(***************************************************************************)
EXTENDS TransactionalOutbox, TLAPS

Busy == {"add", "mark", "fail"}

\* A transaction is about an order
WritersAtWork == \A w \in Writers : tx[w].at # "none" => tx[w].order \in Orders

\* Rows are of committed orders
RowsOfOrders == \A o \in Orders : row[o] = NoRow \/ o \in orders

\* A job was added for an order that is committed
AddedForOrders ==
    \A o \in Orders : /\ job[o] = "none" <=> added[o] = 0
                      /\ added[o] > 0 => o \in orders
                      /\ row[o].status = "published" => added[o] > 0

\* What a publisher works on
AtWork(p) ==
    /\ pub[p].batch \subseteq orders
    /\ pub[p].at \in Busy => pub[p].order \in orders
    /\ pub[p].at = "mark" => added[pub[p].order] > 0
    /\ pub[p].at = "rest" => pub[p] = Resting

\* A running claim is of a row that its publisher still has to end
ClaimsAtWork ==
    \A o \in Orders, p \in Publishers :
        row[o].leased /\ row[o].owner = p =>
            o \in pub[p].batch \/ (pub[p].at \in Busy /\ pub[p].order = o)

EvictionMet == \A o \in Orders : job[o] = "evicted" => "evict" \in trouble.met

IInv ==
    /\ TypeOK /\ WritersAtWork /\ RowsOfOrders /\ AddedForOrders /\ EvictionMet /\ EnqueuedOnce
    /\ \A p \in Publishers : AtWork(p)
    /\ ClaimsAtWork

LEMMA InitIInv == Init => IInv
<1> SUFFICES ASSUME Init PROVE IInv
  OBVIOUS
<1> USE DEF Init, NoRow, NoTx, Resting
<1>1. TypeOK
  BY OutboxAssumption DEF TypeOK
<1>2. WritersAtWork /\ RowsOfOrders /\ AddedForOrders /\ EvictionMet /\ EnqueuedOnce
  BY DEF WritersAtWork, RowsOfOrders, AddedForOrders, EvictionMet, EnqueuedOnce
<1>3. (\A p \in Publishers : AtWork(p)) /\ ClaimsAtWork
  BY OutboxAssumption DEF AtWork, ClaimsAtWork, Busy
<1> QED
  BY <1>1, <1>2, <1>3 DEF IInv

\* Trouble is only ever added to
LEMMA TroubleKept ==
    ASSUME TypeOK, NEW k, Trouble(k)
    PROVE  /\ trouble' \in [met : SUBSET Kinds, count : 0..MaxTrouble]
           /\ k \in trouble'.met /\ trouble.met \subseteq trouble'.met
BY OutboxAssumption DEF TypeOK, Trouble

-----------------------------------------------------------------------------
(* The writers *)

LEMMA WriterKeepsIInv ==
    ASSUME IInv, NEW w \in Writers,
           (\E o \in Orders : InsertOrder(w, o)) \/ AppendRow(w) \/ Commit(w) \/ Rollback(w)
    PROVE  IInv'
<1> USE DEF IInv
<1>1. CASE (\E o \in Orders : InsertOrder(w, o)) \/ AppendRow(w) \/ Rollback(w)
  <2>1. UNCHANGED <<orders, row, job, added, pub, trouble>>
    BY <1>1 DEF InsertOrder, AppendRow, Rollback
  <2>2. TypeOK' /\ WritersAtWork'
    BY <1>1, <2>1 DEF TypeOK, WritersAtWork, InsertOrder, AppendRow, Rollback, NoTx
  <2>3. RowsOfOrders' /\ AddedForOrders' /\ EvictionMet' /\ EnqueuedOnce'
    BY <2>1 DEF RowsOfOrders, AddedForOrders, EvictionMet, EnqueuedOnce
  <2>4. (\A p \in Publishers : AtWork(p))' /\ ClaimsAtWork'
    BY <2>1 DEF AtWork, ClaimsAtWork
  <2> QED
    BY <2>2, <2>3, <2>4
<1>2. CASE Commit(w)
  <2> DEFINE o == tx[w].order
  <2>1. /\ orders' = orders \cup {o}
        /\ row' = [row EXCEPT ![o] = IF @ = NoRow THEN Pending ELSE @]
        /\ tx' = [tx EXCEPT ![w] = NoTx]
        /\ UNCHANGED <<job, added, pub, trouble>>
    BY <1>2 DEF Commit
  <2>2. o \in Orders
    BY <1>2 DEF Commit, WritersAtWork
  <2>3. TypeOK' /\ WritersAtWork'
    BY <2>1, <2>2 DEF TypeOK, WritersAtWork, NoTx, NoRow, Pending
  <2>4. \A q \in Orders : row'[q] = row[q] \/ (q = o /\ row[q] = NoRow /\ row'[q] = Pending)
    BY <2>1 DEF TypeOK
  <2> HIDE DEF o
  <2>5. RowsOfOrders' /\ AddedForOrders'
    <3>1. \A q \in Orders : row'[q].status = "published" => row[q].status = "published"
      BY <2>4 DEF Pending
    <3>2. RowsOfOrders'
      BY <2>1, <2>4 DEF RowsOfOrders
    <3> QED
      BY <2>1, <3>1, <3>2 DEF AddedForOrders
  <2>6. EvictionMet' /\ EnqueuedOnce'
    BY <2>1 DEF EvictionMet, EnqueuedOnce
  <2>7. (\A p \in Publishers : AtWork(p))' /\ ClaimsAtWork'
    BY <2>1, <2>4 DEF AtWork, ClaimsAtWork, NoRow, Pending
  <2> QED
    BY <2>3, <2>5, <2>6, <2>7
<1> QED
  BY <1>1, <1>2

-----------------------------------------------------------------------------
(* The publishers *)

\* What a publisher does when it does not claim, seen by the rows
LEMMA RowsEnd ==
    ASSUME IInv, NEW p \in Publishers, pub[p].at \in Busy,
           NEW status \in {Pending, Published},
           status = Published => pub[p].at = "mark", SetRow(p, status)
    PROVE  /\ row' \in [Orders -> {NoRow, Pending, Published} \cup
                  [status : {"publishing"}, owner : Publishers \cup {Gone}, leased : BOOLEAN]]
           /\ \A o \in Orders : \/ row'[o] = row[o] /\ ~(row[o].owner = p /\ o = pub[p].order)
                              \/ /\ row'[o] = status /\ row[o] # NoRow
                                 /\ o = pub[p].order /\ row[o].owner = p
<1> USE DEF IInv
<1>1. pub[p].order \in Orders /\ p # Nobody
  BY OutboxAssumption DEF AtWork, TypeOK
<1>2. row[pub[p].order].owner = p => Unpublished(pub[p].order)
  BY <1>1 DEF TypeOK, Unpublished, NoRow, Pending, Published
<1>3. CASE row[pub[p].order].owner # p
  BY <1>3 DEF SetRow, Owns, TypeOK
<1>4. CASE row[pub[p].order].owner = p
  <2>1. row' = [row EXCEPT ![pub[p].order] = status] /\ row[pub[p].order] # NoRow
    BY <1>1, <1>2, <1>4 DEF SetRow, Owns, NoRow
  <2> QED
    BY <1>1, <1>4, <2>1 DEF TypeOK
<1> QED
  BY <1>3, <1>4

LEMMA ClaimKeepsIInv ==
    ASSUME IInv, NEW p \in Publishers, Claim(p)
    PROVE  IInv'
<1> USE DEF IInv
<1>1. PICK batch \in SUBSET {o \in Orders : Claimable(o)} :
        /\ row' = [o \in Orders |-> IF o \in batch
                     THEN [status |-> "publishing", owner |-> p, leased |-> TRUE] ELSE row[o]]
        /\ pub' = [pub EXCEPT ![p] = [at |-> "next", batch |-> batch, order |-> Nobody]]
  BY DEF Claim
<1>2. UNCHANGED <<orders, tx, job, added, trouble>> /\ pub[p] = Resting
  BY DEF Claim, KeepWriters, KeepQueue
<1>3. TypeOK' /\ WritersAtWork'
  BY <1>1, <1>2 DEF TypeOK, WritersAtWork
<1>4. \A o \in batch : o \in orders /\ Claimable(o)
  BY <1>1 DEF Claimable, Unpublished, RowsOfOrders, NoRow
<1>5. RowsOfOrders'
  BY <1>1, <1>2, <1>4 DEF RowsOfOrders
<1>6. AddedForOrders' /\ EvictionMet' /\ EnqueuedOnce'
  BY <1>1, <1>2 DEF AddedForOrders, EvictionMet, EnqueuedOnce
<1>7. \A q \in Publishers : AtWork(q)'
  BY <1>1, <1>2, <1>4 DEF AtWork, TypeOK, Busy
<1>8. ASSUME NEW o \in Orders, NEW q \in Publishers, row'[o].leased, row'[o].owner = q
      PROVE  o \in pub'[q].batch \/ (pub'[q].at \in Busy /\ pub'[q].order = o)
  <2>1. CASE o \in batch
    BY <1>1, <1>8, <2>1 DEF TypeOK
  <2>2. CASE o \notin batch
    <3>1. q # p
      BY <1>1, <1>2, <1>8, <2>2 DEF ClaimsAtWork, Resting, Busy
    <3> QED
      BY <1>1, <1>8, <2>2, <3>1 DEF ClaimsAtWork, TypeOK
  <2> QED
    BY <2>1, <2>2
<1>9. ClaimsAtWork'
  BY <1>8 DEF ClaimsAtWork
<1> QED
  BY <1>3, <1>5, <1>6, <1>7, <1>9

LEMMA LookupKeepsIInv ==
    ASSUME IInv, NEW p \in Publishers, Lookup(p)
    PROVE  IInv'
<1> USE DEF IInv
<1>1. PICK o \in pub[p].batch, at \in Busy :
        /\ at = "mark" => job[o] \in {"open", "completed"}
        /\ pub' = [pub EXCEPT ![p] = [at |-> at, batch |-> pub[p].batch \ {o}, order |-> o]]
        /\ Trouble("queue") \/ UNCHANGED trouble
  BY DEF Lookup, Busy, TypeOK
<1>2. UNCHANGED <<orders, tx, row, job, added>> /\ o \in orders /\ pub[p].at = "next"
  BY <1>1 DEF Lookup, KeepWriters, KeepQueue, AtWork
<1>3. /\ trouble' \in [met : SUBSET Kinds, count : 0..MaxTrouble] /\ trouble.met \subseteq trouble'.met
  BY <1>1, TroubleKept DEF TypeOK
<1>4. TypeOK' /\ WritersAtWork'
  BY <1>1, <1>2, <1>3 DEF TypeOK, WritersAtWork, Busy
<1>5. RowsOfOrders' /\ AddedForOrders' /\ EvictionMet' /\ EnqueuedOnce'
  BY <1>2, <1>3 DEF RowsOfOrders, AddedForOrders, EvictionMet, EnqueuedOnce
<1>6. ASSUME NEW q \in Publishers
      PROVE  AtWork(q)'
  <2>1. CASE q # p
    BY <1>1, <1>2, <2>1 DEF AtWork, TypeOK
  <2>2. CASE q = p
    <3>1. pub'[p] = [at |-> at, batch |-> pub[p].batch \ {o}, order |-> o] /\ o \in Orders
      BY <1>1, <1>2 DEF TypeOK
    <3>2. at = "mark" => added[o] > 0
      BY <1>1, <3>1 DEF AddedForOrders, TypeOK
    <3> QED
      BY <1>2, <2>2, <3>1, <3>2 DEF AtWork, Busy
  <2> QED
    BY <2>1, <2>2
<1>7. ClaimsAtWork'
  BY <1>1, <1>2 DEF ClaimsAtWork, TypeOK, Busy
<1> QED
  BY <1>4, <1>5, <1>6, <1>7

\* What a publisher leaves of its place when a row is done, or failed
LEMMA PlaceKeepsIInv ==
    ASSUME IInv, NEW p \in Publishers, pub[p].at \in Busy,
           NextRow(p) \/ GoTo(p, "fail")
    PROVE  \E n \in [at : {"rest", "next", "fail"}, batch : SUBSET Orders, order : Orders \cup {Nobody}] :
             /\ pub' = [pub EXCEPT ![p] = n]
             /\ n.batch = pub[p].batch
             /\ n.at = "rest" => n = Resting
             /\ n.at = "fail" => n.order = pub[p].order /\ GoTo(p, "fail")
<1> USE DEF IInv
<1>1. pub[p] \in [at : {"rest", "next", "add", "mark", "fail"},
                  batch : SUBSET Orders, order : Orders \cup {Nobody}]
  BY DEF TypeOK
<1> DEFINE At(at, order) == [at |-> at, batch |-> pub[p].batch, order |-> order]
<1>2. CASE GoTo(p, "fail")
  <2>1. pub' = [pub EXCEPT ![p] = [pub[p] EXCEPT !.at = "fail"]]
    BY <1>2 DEF GoTo
  <2>2. [pub[p] EXCEPT !.at = "fail"] = At("fail", pub[p].order)
    BY <1>1
  <2> QED
    BY <1>1, <1>2, <2>1, <2>2
<1>3. CASE NextRow(p) /\ pub[p].batch = {}
  <2>1. pub' = [pub EXCEPT ![p] = Resting]
    BY <1>3 DEF NextRow
  <2>2. /\ Resting \in [at : {"rest", "next", "fail"}, batch : SUBSET Orders, order : Orders \cup {Nobody}]
        /\ Resting.at = "rest" /\ Resting.batch = pub[p].batch
    BY <1>3 DEF Resting
  <2> QED
    BY <2>1, <2>2
<1>4. CASE NextRow(p) /\ pub[p].batch # {}
  <2>1. pub' = [pub EXCEPT ![p] = [pub[p] EXCEPT !.at = "next", !.order = Nobody]]
    BY <1>4 DEF NextRow, TypeOK
  <2>2. PICK n : n = [pub[p] EXCEPT !.at = "next", !.order = Nobody]
    OBVIOUS
  <2>3. /\ n \in [at : {"rest", "next", "fail"}, batch : SUBSET Orders, order : Orders \cup {Nobody}]
        /\ n.at = "next" /\ n.batch = pub[p].batch
    BY <1>1, <2>2
  <2> QED
    BY <2>1, <2>2, <2>3
<1> QED
  BY <1>2, <1>3, <1>4

LEMMA AddJobKeepsIInv ==
    ASSUME IInv, NEW p \in Publishers, AddJob(p)
    PROVE  IInv'
<1> USE DEF IInv
<1> DEFINE o == pub[p].order
<1>1. /\ UNCHANGED <<orders, tx, row>> /\ pub[p].at = "add" /\ o \in orders /\ o \in Orders
  BY DEF AddJob, KeepWriters, AtWork, Busy, TypeOK
<1>2. PICK at \in {"mark", "fail"} :
        /\ pub' = [pub EXCEPT ![p].at = at]
        /\ Enqueued(o) \/ (at = "fail" /\ KeepQueue)
        /\ Trouble("queue") \/ UNCHANGED trouble
  BY DEF AddJob, GoTo
<1>3. trouble' \in [met : SUBSET Kinds, count : 0..MaxTrouble] /\ trouble.met \subseteq trouble'.met
  BY <1>2, TroubleKept DEF TypeOK
<1> HIDE DEF o
<1>4. \/ UNCHANGED <<job, added>> /\ (at = "mark" => added[o] > 0)
      \/ /\ job[o] \in {"none", "evicted"}
         /\ job' = [job EXCEPT ![o] = "open"] /\ added' = [added EXCEPT ![o] = added[o] + 1]
  <2>1. job[o] # "none" => added[o] > 0
    BY <1>1 DEF AddedForOrders, TypeOK
  <2> QED
    BY <1>2, <2>1 DEF Enqueued, KeepQueue
<1>5. TypeOK' /\ WritersAtWork'
  <2>1. pub' \in [Publishers -> [at : {"rest", "next", "add", "mark", "fail"},
                                batch : SUBSET Orders, order : Orders \cup {Nobody}]]
    BY <1>2 DEF TypeOK
  <2>2. job' \in [Orders -> {"none", "open", "completed", "failed", "evicted"}] /\ added' \in [Orders -> Nat]
    BY <1>1, <1>4 DEF TypeOK
  <2> QED
    BY <1>1, <1>3, <2>1, <2>2 DEF TypeOK, WritersAtWork
<1>6. AddedForOrders' /\ RowsOfOrders' /\ EvictionMet'
  BY <1>1, <1>3, <1>4 DEF AddedForOrders, RowsOfOrders, EvictionMet, TypeOK
<1>7. EnqueuedOnce'
  BY <1>1, <1>3, <1>4 DEF AddedForOrders, EnqueuedOnce, EvictionMet, TypeOK
<1>8. \A q \in Orders : added'[q] \in Nat /\ added[q] \in Nat /\ added'[q] >= added[q]
  BY <1>1, <1>4 DEF TypeOK
<1>9. ASSUME NEW q \in Publishers
      PROVE  AtWork(q)'
  <2>1. CASE q # p
    <3>1. pub'[q] = pub[q]
      BY <1>2, <2>1 DEF TypeOK
    <3> QED
      BY <1>1, <1>8, <3>1 DEF AtWork, TypeOK, Busy
  <2>2. CASE q = p
    <3>1. pub'[p].batch = pub[p].batch /\ pub'[p].order = o /\ pub'[p].at = at
      BY <1>2 DEF o, TypeOK
    <3>2. at = "mark" => added'[o] > 0
      BY <1>1, <1>4 DEF TypeOK
    <3> QED
      BY <1>1, <2>2, <3>1, <3>2 DEF AtWork, Busy
  <2> QED
    BY <2>1, <2>2
<1>10. ClaimsAtWork'
  <2>1. \A q \in Publishers :
          /\ pub'[q].batch = pub[q].batch /\ pub'[q].order = pub[q].order
          /\ (pub[q].at \in Busy => pub'[q].at \in Busy)
    <3> TAKE q \in Publishers
    <3>1. pub'[q] = IF q = p THEN [pub[p] EXCEPT !.at = at] ELSE pub[q]
      BY <1>2 DEF TypeOK
    <3>2. pub[q] \in [at : {"rest", "next", "add", "mark", "fail"},
                      batch : SUBSET Orders, order : Orders \cup {Nobody}]
      BY DEF TypeOK
    <3> QED
      BY <3>1, <3>2 DEF Busy
  <2> SUFFICES ASSUME NEW i \in Orders, NEW q \in Publishers, row'[i].leased, row'[i].owner = q
               PROVE  i \in pub'[q].batch \/ (pub'[q].at \in Busy /\ pub'[q].order = i)
    BY DEF ClaimsAtWork
  <2>2. i \in pub[q].batch \/ (pub[q].at \in Busy /\ pub[q].order = i)
    BY <1>1 DEF ClaimsAtWork
  <2> QED
    BY <2>1, <2>2
<1> QED
  BY <1>5, <1>6, <1>7, <1>9, <1>10

LEMMA EndOfRowKeepsIInv ==
    ASSUME IInv, NEW p \in Publishers, MarkPublished(p) \/ RecordPublicationFailure(p)
    PROVE  IInv'
<1> USE DEF IInv
<1>1. /\ UNCHANGED <<orders, tx, job, added>> /\ pub[p].at \in Busy
      /\ Trouble("database") \/ UNCHANGED trouble
      /\ NextRow(p) \/ GoTo(p, "fail")
  BY DEF MarkPublished, RecordPublicationFailure, KeepWriters, KeepQueue, Busy
<1>2. PICK status \in {Pending, Published} :
        /\ status = Published => pub[p].at = "mark"
        /\ SetRow(p, status) \/ (GoTo(p, "fail") /\ UNCHANGED row)
  <2>1. CASE MarkPublished(p)
    BY <2>1 DEF MarkPublished
  <2>2. CASE RecordPublicationFailure(p)
    BY <2>2 DEF RecordPublicationFailure, Pending, Published
  <2> QED
    BY <2>1, <2>2
<1>3. trouble' \in [met : SUBSET Kinds, count : 0..MaxTrouble] /\ trouble.met \subseteq trouble'.met
  BY <1>1, TroubleKept DEF TypeOK
<1>4. PICK n \in [at : {"rest", "next", "fail"}, batch : SUBSET Orders, order : Orders \cup {Nobody}] :
             /\ pub' = [pub EXCEPT ![p] = n]
             /\ n.batch = pub[p].batch
             /\ n.at = "rest" => n = Resting
             /\ n.at = "fail" => n.order = pub[p].order /\ GoTo(p, "fail")
  BY <1>1, PlaceKeepsIInv
<1>5. /\ row' \in [Orders -> {NoRow, Pending, Published} \cup
                  [status : {"publishing"}, owner : Publishers \cup {Gone}, leased : BOOLEAN]]
      /\ \A o \in Orders :
           \/ row'[o] = row[o] /\ (~(row[o].owner = p /\ o = pub[p].order) \/ GoTo(p, "fail"))
           \/ /\ row'[o] = status /\ row[o] # NoRow
              /\ o = pub[p].order /\ row[o].owner = p
  BY <1>1, <1>2, RowsEnd DEF TypeOK
<1>6. TypeOK' /\ WritersAtWork'
  BY <1>1, <1>3, <1>4, <1>5 DEF TypeOK, WritersAtWork
<1>7. RowsOfOrders'
  BY <1>1, <1>5 DEF RowsOfOrders
<1>8. AddedForOrders'
  <2>1. ASSUME NEW o \in Orders, row'[o].status = "published"
        PROVE  added[o] > 0
    BY <1>2, <1>5, <2>1 DEF AddedForOrders, AtWork, Pending
  <2> QED
    BY <1>1, <2>1 DEF AddedForOrders
<1>9. EvictionMet' /\ EnqueuedOnce'
  BY <1>1, <1>3 DEF EvictionMet, EnqueuedOnce
<1>10. \A q \in Publishers : AtWork(q)'
  BY <1>1, <1>4 DEF AtWork, TypeOK, Busy
<1>11. ClaimsAtWork'
  <2> SUFFICES ASSUME NEW o \in Orders, NEW q \in Publishers, row'[o].leased, row'[o].owner = q
               PROVE  o \in pub'[q].batch \/ (pub'[q].at \in Busy /\ pub'[q].order = o)
    BY DEF ClaimsAtWork
  <2>1. row'[o] = row[o] /\ (~(row[o].owner = p /\ o = pub[p].order) \/ GoTo(p, "fail"))
    BY <1>5 DEF Pending, Published
  <2>2. CASE q # p
    BY <1>4, <2>1, <2>2 DEF ClaimsAtWork, TypeOK
  <2>3. CASE q = p
    <3>1. pub'[p] = n
      BY <1>4 DEF TypeOK
    <3>2. CASE o \in pub[p].batch
      BY <1>4, <2>3, <3>1, <3>2
    <3>3. CASE o = pub[p].order /\ GoTo(p, "fail")
      BY <3>1, <2>3, <3>3 DEF GoTo, TypeOK, Busy
    <3> QED
      BY <2>1, <2>3, <3>2, <3>3 DEF ClaimsAtWork
  <2> QED
    BY <2>2, <2>3
<1> QED
  BY <1>6, <1>7, <1>8, <1>9, <1>10, <1>11

LEMMA DieKeepsIInv ==
    ASSUME IInv, NEW p \in Publishers, Die(p)
    PROVE  IInv'
<1> USE DEF IInv
<1>1. /\ UNCHANGED <<orders, tx, job, added>> /\ pub' = [pub EXCEPT ![p] = Resting]
      /\ row' = [o \in Orders |-> [row[o] EXCEPT !.owner = IF @ = p THEN Gone ELSE @]]
      /\ trouble' \in [met : SUBSET Kinds, count : 0..MaxTrouble] /\ trouble.met \subseteq trouble'.met
  BY TroubleKept DEF Die, KeepWriters, KeepQueue
<1>2. ASSUME NEW o \in Orders
      PROVE  \/ row'[o] = row[o] /\ row[o].owner # p
             \/ /\ row[o] \in [status : {"publishing"}, owner : Publishers \cup {Gone}, leased : BOOLEAN]
                /\ row'[o] = [row[o] EXCEPT !.owner = Gone]
  <2>1. row'[o] = [row[o] EXCEPT !.owner = IF row[o].owner = p THEN Gone ELSE row[o].owner]
    BY <1>1
  <2>2. row[o] \in {NoRow, Pending, Published} \/
        row[o] \in [status : {"publishing"}, owner : Publishers \cup {Gone}, leased : BOOLEAN]
    BY DEF TypeOK
  <2>3. p # Nobody
    BY OutboxAssumption
  <2>4. row[o] \in {NoRow, Pending, Published} => row'[o] = row[o] /\ row[o].owner # p
    BY <2>1, <2>3 DEF NoRow, Pending, Published
  <2>5. row[o] \notin {NoRow, Pending, Published} /\ row[o].owner # p => row'[o] = row[o]
    BY <2>1, <2>2
  <2> QED
    BY <2>1, <2>2, <2>4, <2>5
<1>3. ASSUME NEW o \in Orders
      PROVE  /\ row'[o] = row[o] \/ row'[o] \in
                  [status : {"publishing"}, owner : {Gone}, leased : BOOLEAN]
             /\ row'[o].owner # p
             /\ row'[o] = NoRow <=> row[o] = NoRow
             /\ row'[o].status = row[o].status
  <2>1. CASE row'[o] = row[o] /\ row[o].owner # p
    BY <2>1
  <2>2. CASE /\ row[o] \in [status : {"publishing"}, owner : Publishers \cup {Gone}, leased : BOOLEAN]
             /\ row'[o] = [row[o] EXCEPT !.owner = Gone]
    <3>1. /\ row'[o] \in [status : {"publishing"}, owner : {Gone}, leased : BOOLEAN]
          /\ row'[o].owner = Gone /\ row'[o].status = "publishing" /\ row[o].status = "publishing"
      BY <2>2
    <3>2. row'[o] # NoRow /\ row[o] # NoRow
      BY <3>1 DEF NoRow
    <3> QED
      BY <3>1, <3>2, OutboxAssumption
  <2> QED
    BY <1>2, <2>1, <2>2
<1>4. TypeOK' /\ WritersAtWork'
  <2>1. pub' \in [Publishers -> [at : {"rest", "next", "add", "mark", "fail"},
                                batch : SUBSET Orders, order : Orders \cup {Nobody}]]
    BY <1>1 DEF TypeOK, Resting
  <2>2. row' \in [Orders -> {NoRow, Pending, Published} \cup
                   [status : {"publishing"}, owner : Publishers \cup {Gone}, leased : BOOLEAN]]
    <3>1. \A o \in Orders : row'[o] \in {NoRow, Pending, Published} \cup
                   [status : {"publishing"}, owner : Publishers \cup {Gone}, leased : BOOLEAN]
      BY <1>3 DEF TypeOK
    <3> QED
      BY <1>1, <3>1
  <2> QED
    BY <1>1, <2>1, <2>2 DEF TypeOK, WritersAtWork
<1>5. RowsOfOrders' /\ AddedForOrders' /\ EvictionMet' /\ EnqueuedOnce'
  BY <1>1, <1>3 DEF RowsOfOrders, AddedForOrders, EvictionMet, EnqueuedOnce
<1>6. \A q \in Publishers : AtWork(q)'
  BY <1>1 DEF AtWork, TypeOK, Busy, Resting
<1>7. ClaimsAtWork'
  <2> SUFFICES ASSUME NEW o \in Orders, NEW q \in Publishers, row'[o].leased, row'[o].owner = q
               PROVE  o \in pub'[q].batch \/ (pub'[q].at \in Busy /\ pub'[q].order = o)
    BY DEF ClaimsAtWork
  <2>1. row'[o] = row[o] /\ q # p
    BY <1>3, OutboxAssumption
  <2> QED
    BY <1>1, <2>1 DEF ClaimsAtWork, TypeOK
<1> QED
  BY <1>4, <1>5, <1>6, <1>7

LEMMA LeaseLapsesKeepsIInv ==
    ASSUME IInv, NEW l \in Orders, LeaseLapses(l)
    PROVE  IInv'
<1> USE DEF IInv
<1>1. /\ UNCHANGED <<orders, tx, job, added, pub>> /\ row[l].leased
      /\ row' = [row EXCEPT ![l].leased = FALSE]
      /\ trouble' \in [met : SUBSET Kinds, count : 0..MaxTrouble] /\ trouble.met \subseteq trouble'.met
  BY TroubleKept DEF LeaseLapses, KeepWriters, KeepQueue, TypeOK
<1>2. row[l] \in [status : {"publishing"}, owner : Publishers \cup {Gone}, leased : BOOLEAN]
  BY <1>1 DEF TypeOK, NoRow, Pending, Published
<1>3. /\ \A o \in Orders \ {l} : row'[o] = row[o]
      /\ row'[l] \in [status : {"publishing"}, owner : Publishers \cup {Gone}, leased : {FALSE}]
  BY <1>1, <1>2 DEF TypeOK
<1>4. TypeOK' /\ WritersAtWork'
  <2>1. row' \in [Orders -> {NoRow, Pending, Published} \cup
                   [status : {"publishing"}, owner : Publishers \cup {Gone}, leased : BOOLEAN]]
    BY <1>1, <1>2, <1>3 DEF TypeOK
  <2> QED
    BY <1>1, <2>1 DEF TypeOK, WritersAtWork
<1>5. RowsOfOrders' /\ AddedForOrders' /\ EvictionMet' /\ EnqueuedOnce'
  <2>1. /\ row[l].status = "publishing" /\ row'[l].status = "publishing"
        /\ row[l] # NoRow
    <3>1. \A r \in [status : {"publishing"}, owner : Publishers \cup {Gone}, leased : BOOLEAN] :
            r.status = "publishing"
      OBVIOUS
    <3>2. row[l].status = "publishing" /\ row'[l].status = "publishing"
      BY <1>2, <1>3, <3>1
    <3> QED
      BY <3>2 DEF NoRow
  <2>2. RowsOfOrders'
    BY <1>1, <1>3, <2>1 DEF RowsOfOrders
  <2>3. \A o \in Orders : row'[o].status = row[o].status
    BY <1>3, <2>1
  <2> QED
    BY <1>1, <2>2, <2>3 DEF AddedForOrders, EvictionMet, EnqueuedOnce
<1>6. \A q \in Publishers : AtWork(q)'
  BY <1>1 DEF AtWork
<1>7. ClaimsAtWork'
  BY <1>1, <1>3 DEF ClaimsAtWork
<1> QED
  BY <1>4, <1>5, <1>6, <1>7

LEMMA QueueKeepsIInv ==
    ASSUME IInv, NEW l \in Orders, JobEnds(l) \/ EvictCompleted(l)
    PROVE  IInv'
<1> USE DEF IInv
<1>1. /\ UNCHANGED <<orders, tx, row, added, pub>> /\ job[l] # "none"
      /\ \E state \in {"completed", "failed", "evicted"} :
           /\ job' = [job EXCEPT ![l] = state]
           /\ state = "evicted" => "evict" \in trouble'.met
      /\ trouble' \in [met : SUBSET Kinds, count : 0..MaxTrouble] /\ trouble.met \subseteq trouble'.met
  BY TroubleKept DEF JobEnds, EvictCompleted, KeepWriters, TypeOK
<1>2. TypeOK' /\ WritersAtWork'
  BY <1>1 DEF TypeOK, WritersAtWork
<1>3. RowsOfOrders' /\ AddedForOrders' /\ EnqueuedOnce'
  BY <1>1 DEF RowsOfOrders, AddedForOrders, EnqueuedOnce, TypeOK
<1>4. EvictionMet'
  BY <1>1 DEF EvictionMet, TypeOK
<1>5. (\A q \in Publishers : AtWork(q)') /\ ClaimsAtWork'
  BY <1>1 DEF AtWork, ClaimsAtWork
<1> QED
  BY <1>2, <1>3, <1>4, <1>5

-----------------------------------------------------------------------------
(* The specification *)

LEMMA NextKeepsIInv == IInv /\ [Next]_vars => IInv'
<1> SUFFICES ASSUME IInv, [Next]_vars PROVE IInv'
  OBVIOUS
<1>1. ASSUME NEW p \in Publishers, Claim(p) \/ PublishBatch(p) \/ Die(p)
      PROVE  IInv'
  BY <1>1, ClaimKeepsIInv, LookupKeepsIInv, AddJobKeepsIInv, EndOfRowKeepsIInv, DieKeepsIInv
  DEF PublishBatch
<1>2. CASE UNCHANGED vars
  <2>1. UNCHANGED <<orders, tx, row, job, added, pub, trouble>>
    BY <1>2 DEF vars
  <2> QED
    BY <2>1 DEF IInv, TypeOK, WritersAtWork, RowsOfOrders, AddedForOrders, EvictionMet, EnqueuedOnce,
                AtWork, ClaimsAtWork
<1> QED
  BY <1>1, <1>2, WriterKeepsIInv, LeaseLapsesKeepsIInv, QueueKeepsIInv DEF Next

LEMMA IInvHolds == Spec => []IInv
BY InitIInv, NextKeepsIInv, PTL DEF Spec

(* The rows, jobs and publishers of TransactionalOutbox keep their types, for *)
(* any orders, processes and troubles.                                       *)
THEOREM TypeCorrect == Spec => []TypeOK
<1>1. IInv => TypeOK
  BY DEF IInv
<1> QED
  BY <1>1, IInvHolds, PTL

(* No receipt is handed to the queue for an order that is not committed, and *)
(* no row is published whose job the queue never accepted (the transaction   *)
(* of persistConfirmedOrder, publishClaimedBatch).                           *)
THEOREM HandedOver == Spec => []HandedOverInOrder
<1>1. IInv => HandedOverInOrder
  BY DEF IInv, AddedForOrders, HandedOverInOrder
<1> QED
  BY <1>1, IInvHolds, PTL

(* Retries, reclaimed rows, crashes and lost answers make no second job of an *)
(* order, as long as BullMQ keeps the first (the deterministic job id).      *)
THEOREM OnceEnqueued == Spec => []EnqueuedOnce
<1>1. IInv => EnqueuedOnce
  BY DEF IInv
<1> QED
  BY <1>1, IInvHolds, PTL

(* A claim whose lease is running is ended by a step of its own publisher,   *)
(* so two publishers never work on a row unless the lease ran out (the       *)
(* WHERE clauses of claimPending and markPublished).                         *)
THEOREM ClaimKept == Spec => LiveClaimKept
<1> DEFINE A == \A o \in Orders, p \in Publishers :
         row[o].leased /\ row[o].owner = p /\ row'[o].owner # p => pub'[p] # pub[p]
<1>1. IInv /\ [Next]_vars => A
  <2> SUFFICES ASSUME IInv, [Next]_vars, NEW o \in Orders, NEW p \in Publishers,
                      row[o].leased, row[o].owner = p, row'[o].owner # p
               PROVE  pub'[p] # pub[p]
    OBVIOUS
  <2>1. /\ TypeOK /\ p # Nobody /\ row[o] # NoRow
        /\ o \in pub[p].batch \/ pub[p].at \in Busy
        /\ row[o] \in [status : {"publishing"}, owner : Publishers \cup {Gone}, leased : BOOLEAN]
    BY OutboxAssumption DEF IInv, ClaimsAtWork, TypeOK, NoRow, Pending, Published
  <2>2. ASSUME NEW w \in Writers, Commit(w)
        PROVE  FALSE
    BY <2>1, <2>2 DEF Commit, TypeOK
  <2>3. ASSUME NEW q \in Publishers, Claim(q)
        PROVE  FALSE
    BY <2>1, <2>3 DEF Claim, Claimable
  <2>4. ASSUME NEW q \in Publishers, MarkPublished(q) \/ RecordPublicationFailure(q)
        PROVE  pub'[p] # pub[p]
    <3>1. pub[q].at \in {"mark", "fail"} /\ (\E status : SetRow(q, status) \/ UNCHANGED row)
          /\ (NextRow(q) \/ (pub[q].at = "mark" /\ GoTo(q, "fail")))
      BY <2>4 DEF MarkPublished, RecordPublicationFailure
    <3>2. q = p
      BY <2>1, <3>1 DEF SetRow, Owns, TypeOK
    <3>3. CASE pub[p].at = "mark"
      <4>1. PICK n \in [at : {"rest", "next", "fail"}, batch : SUBSET Orders, order : Orders \cup {Nobody}] :
              pub' = [pub EXCEPT ![p] = n]
        BY <3>1, <3>2, PlaceKeepsIInv DEF Busy
      <4> QED
        BY <2>1, <3>3, <4>1 DEF TypeOK
    <3>4. CASE pub[p].at = "fail"
      <4>1. pub' = [pub EXCEPT ![p] = IF pub[p].batch = {} THEN Resting
                                      ELSE [pub[p] EXCEPT !.at = "next", !.order = Nobody]]
        BY <2>1, <3>1, <3>2, <3>4 DEF NextRow, TypeOK
      <4>2. Resting.at = "rest" /\ [pub[p] EXCEPT !.at = "next", !.order = Nobody].at = "next"
        BY <2>1 DEF TypeOK, Resting
      <4> QED
        BY <2>1, <3>4, <4>1, <4>2 DEF TypeOK
    <3> QED
      BY <3>1, <3>2, <3>3, <3>4
  <2>5. ASSUME NEW q \in Publishers, Die(q)
        PROVE  pub'[p] # pub[p]
    <3>1. /\ pub' = [pub EXCEPT ![q] = Resting]
          /\ row' = [r \in Orders |-> [row[r] EXCEPT !.owner = IF @ = q THEN Gone ELSE @]]
      BY <2>5 DEF Die
    <3>2. row'[o] = [row[o] EXCEPT !.owner = IF p = q THEN Gone ELSE p]
      BY <3>1
    <3>3. q = p
      BY <2>1, <3>2
    <3>4. pub'[p] = Resting
      BY <2>1, <3>1, <3>3 DEF TypeOK
    <3> QED
      BY <2>1, <3>4 DEF Resting, Busy
  <2>6. ASSUME NEW l \in Orders, LeaseLapses(l)
        PROVE  FALSE
    BY <2>1, <2>6 DEF LeaseLapses, TypeOK
  <2>7. ASSUME UNCHANGED row
        PROVE  FALSE
    BY <2>7
  <2>8. [Next]_vars => \/ UNCHANGED row
                       \/ \E w \in Writers : Commit(w)
                       \/ \E q \in Publishers : \/ Claim(q) \/ Die(q)
                                               \/ MarkPublished(q) \/ RecordPublicationFailure(q)
                       \/ \E l \in Orders : LeaseLapses(l)
    BY DEF Next, vars, PublishBatch, InsertOrder, AppendRow, Rollback, Lookup, AddJob, JobEnds, EvictCompleted
  <2> QED
    BY <2>2, <2>3, <2>4, <2>5, <2>6, <2>7, <2>8
<1>2. IInv /\ [Next]_vars => [A]_vars
  BY <1>1
<1> HIDE DEF A
<1>3. Spec => [][A]_vars
  BY <1>2, IInvHolds, PTL DEF Spec
<1> QED
  BY <1>3 DEF LiveClaimKept, A

(* Without its fairness, the outbox implements what ReceiptHandoff promises: *)
(* a step confirms an order, hands over the receipt of a confirmed one, or   *)
(* is not seen.                                                              *)
THEOREM HandsOver == Spec => Handoff!Spec
<1> DEFINE Stage == [o \in Orders |-> IF o \notin orders /\ added[o] = 0 THEN "none"
                                       ELSE IF added[o] = 0 THEN "confirmed" ELSE "handedOver"]
<1>1. Init => Handoff!Init
  BY DEF Init, Handoff!Init
<1>2. IInv /\ [Next]_vars => [Handoff!Next]_Stage
  <2> SUFFICES ASSUME IInv, [Next]_vars
               PROVE  Handoff!Next \/ UNCHANGED Stage
    OBVIOUS
  <2>1. ASSUME UNCHANGED <<orders, added>>
        PROVE  UNCHANGED Stage
    BY <2>1
  <2>2. ASSUME NEW w \in Writers, Commit(w)
        PROVE  Handoff!Next \/ UNCHANGED Stage
    <3> DEFINE o == tx[w].order
    <3>1. o \in Orders /\ orders' = orders \cup {o} /\ UNCHANGED added
      BY <2>2 DEF Commit, IInv, WritersAtWork
    <3>2. CASE o \in orders \/ added[o] # 0
      <4>1. \A q \in Orders : Stage'[q] = Stage[q]
        BY <3>1, <3>2 DEF IInv, AddedForOrders
      <4> QED
        BY <4>1
    <3>3. CASE o \notin orders /\ added[o] = 0
      <4>1. Stage[o] = "none" /\ Stage' = [Stage EXCEPT ![o] = "confirmed"]
        BY <3>1, <3>3
      <4> QED
        BY <3>1, <4>1 DEF Handoff!Next, Handoff!Confirm, Handoff!Advance
    <3> QED
      BY <3>2, <3>3
  <2>3. ASSUME NEW p \in Publishers, AddJob(p)
        PROVE  Handoff!Next \/ UNCHANGED Stage
    <3> DEFINE o == pub[p].order
    <3>1. /\ o \in orders /\ o \in Orders /\ added \in [Orders -> Nat] /\ UNCHANGED orders
          /\ UNCHANGED added \/ added' = [added EXCEPT ![o] = @ + 1]
      BY <2>3 DEF AddJob, Enqueued, KeepQueue, KeepWriters, IInv, AtWork, Busy, TypeOK
    <3>2. CASE UNCHANGED added
      BY <2>1, <3>1, <3>2
    <3>3. CASE added' = [added EXCEPT ![o] = @ + 1] /\ added[o] # 0
      <4>1. \A q \in Orders : Stage'[q] = Stage[q]
        BY <3>1, <3>3
      <4> QED
        BY <4>1
    <3>4. CASE added' = [added EXCEPT ![o] = @ + 1] /\ added[o] = 0
      <4>1. Stage[o] = "confirmed" /\ Stage' = [Stage EXCEPT ![o] = "handedOver"]
        BY <3>1, <3>4
      <4> QED
        BY <3>1, <4>1 DEF Handoff!Next, Handoff!HandOver, Handoff!Advance
    <3> QED
      BY <3>1, <3>2, <3>3, <3>4
  <2>4. \/ UNCHANGED <<orders, added>>
        \/ \E w \in Writers : Commit(w)
        \/ \E p \in Publishers : AddJob(p)
    BY DEF Next, vars, PublishBatch, InsertOrder, AppendRow, Rollback, Claim, Lookup, MarkPublished,
           RecordPublicationFailure, Die, LeaseLapses, JobEnds, EvictCompleted, KeepWriters, KeepQueue
  <2> QED
    BY <2>1, <2>2, <2>3, <2>4
<1> HIDE DEF Stage
<1>3. Handoff!Spec <=> Handoff!Init /\ [][Handoff!Next]_Stage
  BY DEF Handoff!Spec, Stage
<1> QED
  BY <1>1, <1>2, <1>3, IInvHolds, PTL DEF Spec
=============================================================================
