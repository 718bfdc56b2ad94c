------------------------ MODULE TransactionalOutbox ------------------------
(***************************************************************************)
(* The path of an order's receipt from the transaction that confirms the   *)
(* order to the outbound queue.  A row of whatsapp_transactional_outbox is *)
(* inserted in that transaction; publishers, one per process, claim rows   *)
(* under a lease, add a job of a deterministic id, and mark the row        *)
(* published.  An action ends at an await.                                 *)
(***************************************************************************)
EXTENDS Naturals, FiniteSets

CONSTANTS Orders,      \* confirmations, each with its own idempotency key
          Writers,     \* transactions that may run at the same time
          Publishers,  \* the publisher of each process
          Nobody,
          Gone,        \* the ownerId of a process that died
          BatchSize,   \* WHATSAPP_TRANSACTIONAL_OUTBOX_BATCH_SIZE
          Kinds,       \* kinds of trouble that may occur
          MaxTrouble   \* bound on how often trouble occurs

ASSUME OutboxAssumption ==
    /\ BatchSize \in Nat \ {0} /\ MaxTrouble \in Nat
    /\ Kinds \subseteq {"crash", "slow", "queue", "database", "evict"}
    /\ Nobody # Gone /\ {Nobody, Gone} \cap Publishers = {}

VARIABLES orders,   \* the orders committed to the database
          tx,       \* the confirmation each writer is in, and how far it is
          row,      \* the outbox row of each order
          job,      \* the outbound job of each order
          added,    \* history: how often a job was created for each order
          pub,      \* what each publisher is doing
          trouble   \* what trouble occurred, and how often

vars == <<orders, tx, row, job, added, pub, trouble>>

NoRow == [status |-> "absent", owner |-> Nobody, leased |-> FALSE]
Pending == [status |-> "pending", owner |-> Nobody, leased |-> FALSE]
Published == [status |-> "published", owner |-> Nobody, leased |-> FALSE]

Resting == [at |-> "rest", batch |-> {}, order |-> Nobody]
NoTx == [order |-> Nobody, at |-> "none"]

TypeOK ==
    /\ orders \subseteq Orders
    /\ tx \in [Writers -> [order : Orders \cup {Nobody}, at : {"none", "inserted", "appended"}]]
    /\ row \in [Orders -> {NoRow, Pending, Published} \cup
                  [status : {"publishing"}, owner : Publishers \cup {Gone}, leased : BOOLEAN]]
    /\ job \in [Orders -> {"none", "open", "completed", "failed", "evicted"}]
    /\ added \in [Orders -> Nat]
    /\ pub \in [Publishers -> [at : {"rest", "next", "add", "mark", "fail"},
                               batch : SUBSET Orders, order : Orders \cup {Nobody}]]
    /\ trouble \in [met : SUBSET Kinds, count : 0..MaxTrouble]

Init ==
    /\ orders = {}
    /\ tx = [w \in Writers |-> NoTx]
    /\ row = [o \in Orders |-> NoRow]
    /\ job = [o \in Orders |-> "none"]
    /\ added = [o \in Orders |-> 0]
    /\ pub = [p \in Publishers |-> Resting]
    /\ trouble = [met |-> {}, count |-> 0]

Trouble(k) ==
    /\ k \in Kinds /\ trouble.count < MaxTrouble
    /\ trouble' = [met |-> trouble.met \cup {k}, count |-> trouble.count + 1]

KeepWriters == UNCHANGED <<orders, tx>>
KeepQueue == UNCHANGED <<job, added>>

-----------------------------------------------------------------------------
(* persistConfirmedOrder, one transaction.  A second one with the same        *)
(* idempotency key waits on the unique index; once the order is committed it  *)
(* fails with 23505 and returns the stored order, which changes nothing.      *)

InsertOrder(w, o) ==
    /\ tx[w] = NoTx
    /\ o \notin orders /\ \A v \in Writers : tx[v].order # o
    /\ tx' = [tx EXCEPT ![w] = [order |-> o, at |-> "inserted"]]
    /\ UNCHANGED <<orders, row, job, added, pub, trouble>>

\* Faulty: the row is inserted on a connection of its own
AppendOutside(w) ==
    /\ tx[w].at = "inserted"
    /\ tx' = [tx EXCEPT ![w].at = "appended"]
    /\ row' = [row EXCEPT ![tx[w].order] = IF @ = NoRow THEN Pending ELSE @]
    /\ UNCHANGED <<orders, job, added, pub, trouble>>

\* appendWithinTransaction: seen by nobody before the commit
AppendRow(w) ==
    /\ tx[w].at = "inserted"
    /\ tx' = [tx EXCEPT ![w].at = "appended"]
    /\ UNCHANGED <<orders, row, job, added, pub, trouble>>

Commit(w) ==
    /\ tx[w].at = "appended"
    /\ orders' = orders \cup {tx[w].order}
    /\ row' = [row EXCEPT ![tx[w].order] = IF @ = NoRow THEN Pending ELSE @]
    /\ tx' = [tx EXCEPT ![w] = NoTx]
    /\ UNCHANGED <<job, added, pub, trouble>>

\* Any statement may fail, and so may the process
Rollback(w) ==
    /\ tx[w] # NoTx
    /\ tx' = [tx EXCEPT ![w] = NoTx]
    /\ UNCHANGED <<orders, row, job, added, pub, trouble>>

-----------------------------------------------------------------------------
(* The publisher *)

Unpublished(o) == row[o].status \in {"pending", "publishing"}

\* Faulty: the lease of another publisher is not looked at
ClaimableLeased(o) == Unpublished(o)

\* Faulty: a row that was claimed once is never claimed again
ClaimablePending(o) == row[o].status = "pending"

Claimable(o) == Unpublished(o) /\ (row[o].owner = Nobody \/ ~row[o].leased)

\* claimPending: rows that another transaction has locked are skipped, so any
\* of the claimable rows may be missing from the batch
Claim(p) ==
    /\ pub[p] = Resting
    /\ \E batch \in SUBSET {o \in Orders : Claimable(o)} :
         /\ batch # {} /\ Cardinality(batch) <= BatchSize
         /\ row' = [o \in Orders |-> IF o \in batch
                      THEN [status |-> "publishing", owner |-> p, leased |-> TRUE] ELSE row[o]]
         /\ pub' = [pub EXCEPT ![p] = [at |-> "next", batch |-> batch, order |-> Nobody]]
    /\ KeepWriters /\ KeepQueue /\ UNCHANGED trouble

GoTo(p, at) == pub' = [pub EXCEPT ![p].at = at]

NextRow(p) == pub' = [pub EXCEPT ![p] = IF @.batch = {} THEN Resting
                                        ELSE [@ EXCEPT !.at = "next", !.order = Nobody]]

\* dispatchOutboundGroup looks for the job first; one that failed is not a duplicate
Lookup(p) ==
    /\ pub[p].at = "next"
    /\ \E o \in pub[p].batch, at \in {"add", "mark", "fail"} :
         /\ \/ at = "mark" /\ job[o] \in {"open", "completed"} /\ UNCHANGED trouble
            \/ at = "add" /\ job[o] \notin {"open", "completed"} /\ UNCHANGED trouble
            \/ at = "fail" /\ Trouble("queue")
         /\ pub' = [pub EXCEPT ![p] = [at |-> at, batch |-> @.batch \ {o}, order |-> o]]
    /\ KeepWriters /\ KeepQueue /\ UNCHANGED row

\* Faulty: every call makes a job of a new id
EnqueuedAnew(o) ==
    /\ job' = [job EXCEPT ![o] = "open"]
    /\ added' = [added EXCEPT ![o] = @ + 1]

\* BullMQ's add: an id that exists, of a failed job too, is left as it is
Enqueued(o) ==
    IF job[o] \in {"none", "evicted"}
      THEN /\ job' = [job EXCEPT ![o] = "open"]
           /\ added' = [added EXCEPT ![o] = @ + 1]
      ELSE KeepQueue

\* Faulty: a failed add counts as accepted
AddJobAccepting(p) ==
    /\ pub[p].at = "add"
    /\ \/ Enqueued(pub[p].order) /\ UNCHANGED trouble
       \/ Trouble("queue") /\ KeepQueue
    /\ GoTo(p, "mark")
    /\ KeepWriters /\ UNCHANGED row

\* The add may fail, or succeed and lose its answer
AddJob(p) ==
    /\ pub[p].at = "add"
    /\ \/ Enqueued(pub[p].order) /\ GoTo(p, "mark") /\ UNCHANGED trouble
       \/ /\ Trouble("queue")
          /\ Enqueued(pub[p].order) \/ KeepQueue
          /\ GoTo(p, "fail")
    /\ KeepWriters /\ UNCHANGED row

Owns(p, o) == row[o].owner = p /\ Unpublished(o)

\* Faulty: the claim is left on the row
SetRowKeepsClaim(p, status) ==
    row' = IF Owns(p, pub[p].order)
             THEN [row EXCEPT ![pub[p].order].status = status.status] ELSE row

\* WHERE claimed_by = owner AND published_at IS NULL
SetRow(p, status) ==
    row' = IF Owns(p, pub[p].order) THEN [row EXCEPT ![pub[p].order] = status] ELSE row

\* markPublished, whose result is not looked at; its error goes to the catch
\* block, whether or not the row was updated
MarkPublished(p) ==
    /\ pub[p].at = "mark"
    /\ \/ SetRow(p, Published) /\ NextRow(p) /\ UNCHANGED trouble
       \/ /\ Trouble("database")
          /\ SetRow(p, Published) \/ UNCHANGED row
          /\ GoTo(p, "fail")
    /\ KeepWriters /\ KeepQueue

RecordPublicationFailure(p) ==
    /\ pub[p].at = "fail"
    /\ SetRow(p, Pending)
    /\ NextRow(p)
    /\ KeepWriters /\ KeepQueue /\ UNCHANGED trouble

\* The process dies, of itself or because an error of claimPending or of
\* recordPublicationFailure rejects "void this.poll()".  The next one has an
\* ownerId of its own.
Die(p) ==
    /\ Trouble("crash")
    /\ pub' = [pub EXCEPT ![p] = Resting]
    /\ row' = [o \in Orders |-> [row[o] EXCEPT !.owner = IF @ = p THEN Gone ELSE @]]
    /\ KeepWriters /\ KeepQueue

\* claim_expires_at passes; under a publisher that is still at the row only if
\* that is slow
LeaseLapses(o) ==
    /\ row[o].leased
    /\ IF \E p \in Publishers : row[o].owner = p /\ o \in pub[p].batch \cup {pub[p].order}
         THEN Trouble("slow") ELSE UNCHANGED trouble
    /\ row' = [row EXCEPT ![o].leased = FALSE]
    /\ KeepWriters /\ KeepQueue /\ UNCHANGED pub

-----------------------------------------------------------------------------
(* The outbound worker decides the job; a completed one is removed in time *)

JobEnds(o) ==
    /\ job[o] = "open"
    /\ \E state \in {"completed", "failed"} : job' = [job EXCEPT ![o] = state]
    /\ KeepWriters /\ UNCHANGED <<row, added, pub, trouble>>

EvictCompleted(o) ==
    /\ job[o] = "completed"
    /\ Trouble("evict")
    /\ job' = [job EXCEPT ![o] = "evicted"]
    /\ KeepWriters /\ UNCHANGED <<row, added, pub>>

-----------------------------------------------------------------------------
PublishBatch(p) == Lookup(p) \/ AddJob(p) \/ MarkPublished(p) \/ RecordPublicationFailure(p)

Next ==
    \/ \E w \in Writers : \/ \E o \in Orders : InsertOrder(w, o)
                          \/ AppendRow(w) \/ Commit(w) \/ Rollback(w)
    \/ \E p \in Publishers : Claim(p) \/ PublishBatch(p) \/ Die(p)
    \/ \E o \in Orders : LeaseLapses(o) \/ JobEnds(o) \/ EvictCompleted(o)

Spec == Init /\ [][Next]_vars

\* Every publisher polls on a timer and goes on with its batch; claims of dead
\* or finished publishers run out.  Trouble is never forced.
FairSpec ==
    /\ Spec
    /\ \A p \in Publishers : WF_vars(Claim(p)) /\ WF_vars(PublishBatch(p))
    /\ \A o \in Orders : WF_vars(LeaseLapses(o) /\ UNCHANGED trouble)

-----------------------------------------------------------------------------
\* No receipt goes out for an order that is not committed, and a row is
\* published only when its job was accepted by the queue.
HandedOverInOrder ==
    \A o \in Orders : /\ added[o] > 0 => o \in orders
                      /\ row[o].status = "published" => added[o] > 0

\* One job per order whatever is retried, reclaimed or crashes, as long as
\* BullMQ still has the first one.
EnqueuedOnce == \A o \in Orders : added[o] > 1 => "evict" \in trouble.met

\* A claim whose lease is running is ended by its own publisher and by no other.
LiveClaimKept ==
    [][\A o \in Orders, p \in Publishers :
         row[o].leased /\ row[o].owner = p /\ row'[o].owner # p => pub'[p] # pub[p]]_vars

\* The row of every confirmed order is published in the end.
EventuallyPublished ==
    \A o \in Orders : o \in orders ~> row[o].status = "published"

Handoff == INSTANCE ReceiptHandoff WITH
    stage <- [o \in Orders |-> IF o \notin orders /\ added[o] = 0 THEN "none"
                               ELSE IF added[o] = 0 THEN "confirmed" ELSE "handedOver"]

\* The outbox and its publishers implement the handoff, its liveness included.
ImplementsHandoff == Handoff!FairSpec
=============================================================================
