------------------------- MODULE OrderConfirmation -------------------------
(***************************************************************************)
(* The last stages of the guarded order runtime in one conversation: the   *)
(* customer reviews the cart and confirms, the order is stored under the   *)
(* key kept in the session, its receipt is delivered by another process,   *)
(* which records that in the same session.  Turns of a conversation run    *)
(* one at a time (module ConversationOrdering), but not in step with the   *)
(* seller, who edits the catalog, nor with the outbound worker.  Writes of *)
(* orders are enabled and receipts take the durable path.                  *)
(*                                                                         *)
(* A runtime that no longer suits the seller's settings is replaced by an  *)
(* empty one at the beginning of any turn, whatever its stage.  Nothing    *)
(* locks the session: whoever has read it may write it back late.          *)
(***************************************************************************)
EXTENDS Naturals

CONSTANTS Items, NoItems, \* what a customer may have in the cart
          Products, NoProduct,
          Codes, NoCode, \* public order codes, which are the idempotency keys
          NoOrder,
          MaxEdits,    \* bound on the edits of the catalog and the settings
          MaxBranding, \* bound on the edits of the receipt's branding
          Kinds,       \* kinds of trouble that may occur
          MaxTrouble   \* bound on how often trouble occurs

ASSUME ConfirmationAssumption ==
    /\ MaxEdits \in Nat /\ MaxBranding \in Nat /\ MaxTrouble \in Nat
    /\ Kinds \subseteq {"crash", "database", "reply", "document", "session"}
    /\ NoCode \notin Codes /\ NoProduct \notin Products

VARIABLES catalog,   \* the seller's product and fields, as far as a cart depends on them
          branding,  \* the branding of the seller's receipts
          session,   \* the order runtime of the stored session
          turn,      \* the turn being processed: the runtime and the settings it has in memory
          orders,    \* the orders stored, each under its key
          dropped,   \* history: the keys that a changed revalidation discarded
          forgotten, \* history: the keys that a session lost when it was replaced as a whole
          delivered, \* the orders whose receipt the Cloud API accepted
          recorder,  \* the outbound worker, with the runtime it is about to write back
          trouble    \* how often trouble occurred

vars == <<catalog, branding, session, turn, orders, dropped, forgotten, delivered, recorder, trouble>>

Facts == 0..MaxEdits
Cart == [items : Items \cup {NoItems}, facts : Facts]
Runtime == [stage : {"FIRST_ENTRY", "CART_REVIEW", "FINAL_ORDER_REVIEW", "CONFIRMED", "RECOVERY_REQUIRED"},
            product : Products \cup {NoProduct}, cart : Cart,
            pending : Codes \cup {NoCode}, order : Codes \cup {NoCode},
            dispatch : {"PENDING", "SENT", "FAILED"}]

\* What a turn has read of the seller: how receipts look, the product the
\* connection is bound to, and whether a field of the order has the key of an option
Seller == [branding : 0..MaxBranding, product : Products \cup {NoProduct}, conflict : BOOLEAN]

ASSUME OrderAssumption == NoOrder \notin [cart : Cart, branding : 0..MaxBranding]

TypeOK ==
    /\ catalog \in [edits : Facts, facts : Facts, offered : SUBSET Items, active : BOOLEAN,
                    product : Products, conflict : BOOLEAN, rebound : BOOLEAN]
    /\ branding \in 0..MaxBranding
    /\ session \in Runtime
    /\ turn \in [at : {"rest", "reset", "check", "key", "write", "restore", "document", "save", "append"},
                 runtime : Runtime, seller : Seller]
    /\ orders \in [Codes -> {NoOrder} \cup [cart : Cart, branding : 0..MaxBranding]]
    /\ dropped \subseteq Codes /\ forgotten \subseteq Codes /\ delivered \subseteq Codes
    /\ recorder \in [at : {"rest", "write"}, runtime : Runtime]
    /\ trouble \in 0..MaxTrouble

\* createRuntimeSession
FirstEntry(product) ==
    [stage |-> "FIRST_ENTRY", product |-> product, cart |-> [items |-> NoItems, facts |-> 0],
     pending |-> NoCode, order |-> NoCode, dispatch |-> "PENDING"]

\* A session without an order runtime
NoRuntime == FirstEntry(NoProduct)

Resting == [at |-> "rest", runtime |-> NoRuntime,
            seller |-> [branding |-> 0, product |-> NoProduct, conflict |-> FALSE]]
RecorderResting == [at |-> "rest", runtime |-> NoRuntime]

Init ==
    /\ \E p \in Products :
         catalog = [edits |-> 0, facts |-> 0, offered |-> Items, active |-> TRUE,
                    product |-> p, conflict |-> FALSE, rebound |-> FALSE]
    /\ branding = 0
    /\ session = NoRuntime
    /\ turn = Resting
    /\ orders = [c \in Codes |-> NoOrder]
    /\ dropped = {} /\ forgotten = {} /\ delivered = {}
    /\ recorder = RecorderResting
    /\ trouble = 0

Trouble(k) == k \in Kinds /\ trouble < MaxTrouble /\ trouble' = trouble + 1

KeepSeller == UNCHANGED <<catalog, branding>>
KeepRecorder == UNCHANGED <<delivered, recorder>>
KeepKeys == UNCHANGED <<dropped, forgotten>>

\* The code of the order that a runtime stands for
Key(r) == IF r.stage = "CONFIRMED" THEN r.order ELSE r.pending

\* A whole session is replaced, and with it the key that only it knows
Forget(r) == forgotten' = forgotten \cup ({Key(session)} \ {NoCode, Key(r)})

-----------------------------------------------------------------------------
(* The seller *)

Edit == /\ catalog.edits < MaxEdits
        /\ UNCHANGED <<branding, session, turn, orders, trouble>> /\ KeepKeys /\ KeepRecorder

\* Prices, offers and options
EditCatalog ==
    /\ Edit
    /\ \E offered \in SUBSET Items, active \in BOOLEAN :
         catalog' = [catalog EXCEPT !.edits = @ + 1, !.facts = @ + 1,
                                    !.offered = offered, !.active = active]

\* The fields asked of the customer: one with the key of an option makes every
\* cart with that option invalid
EditFields ==
    /\ Edit
    /\ catalog' = [catalog EXCEPT !.edits = @ + 1, !.conflict = ~catalog.conflict]

\* The connection is bound to another product; the session's key does not name one
Rebind ==
    /\ Edit
    /\ \E p \in Products \ {catalog.product} :
         catalog' = [catalog EXCEPT !.edits = @ + 1, !.product = p, !.rebound = TRUE]

EditBranding ==
    /\ branding < MaxBranding
    /\ branding' = branding + 1
    /\ UNCHANGED <<catalog, session, turn, orders, trouble>> /\ KeepKeys /\ KeepRecorder

-----------------------------------------------------------------------------
(* Turns: the runtime and the settings are read when the turn begins.  A turn *)
(* that does not confirm goes on to its save; the key kept for a retry stays. *)

Settings == [branding |-> branding, product |-> catalog.product, conflict |-> catalog.conflict]

TurnAt(at, r) == turn' = [at |-> at, runtime |-> r, seller |-> Settings]

Goes == UNCHANGED <<session, orders, trouble>> /\ KeepSeller /\ KeepRecorder

\* The product and, by evaluateCartIntegrity, the cart of the runtime suit the settings
IsRuntimeSession(r, seller) ==
    r.product = seller.product /\ (r.cart.items # NoItems => ~seller.conflict)

Load == /\ turn.at = "rest" /\ catalog.active
        /\ session = NoRuntime \/ IsRuntimeSession(session, Settings)

\* Planning, collecting and delivery (module CartRuntime) end in a reviewed cart
\* of the product that is bound, or in a save that throws
PlanCart ==
    /\ Load /\ session.stage = "FIRST_ENTRY" /\ ~catalog.conflict
    /\ \E i \in catalog.offered :
         TurnAt("save", [FirstEntry(catalog.product) EXCEPT !.stage = "CART_REVIEW",
                            !.cart = [items |-> i, facts |-> catalog.facts]])
    /\ Goes /\ KeepKeys

ReturnToCart ==
    /\ Load /\ session.stage = "FINAL_ORDER_REVIEW"
    /\ TurnAt("save", [session EXCEPT !.stage = "CART_REVIEW"])
    /\ Goes /\ KeepKeys

\* The review gives the cart the facts, and the fingerprint, of the catalog it shows
ReviewCart ==
    /\ Load /\ session.stage = "CART_REVIEW"
    /\ \E i \in catalog.offered :
         TurnAt("save", [session EXCEPT !.stage = "FINAL_ORDER_REVIEW",
                                       !.cart = [items |-> i, facts |-> catalog.facts]])
    /\ Goes /\ KeepKeys

\* Any turn that finds a runtime which is not valid, a confirmed one or one with
\* a retained key included, replaces it ...
ReplaceRuntime ==
    /\ turn.at = "rest" /\ catalog.active
    /\ session # NoRuntime /\ ~IsRuntimeSession(session, Settings)
    /\ TurnAt("reset", FirstEntry(catalog.product))
    /\ Goes /\ KeepKeys

\* ... by writing back the session it has read, with an empty runtime
SaveReplaced ==
    /\ turn.at = "reset"
    /\ session' = turn.runtime /\ Forget(turn.runtime)
    /\ turn' = Resting
    /\ UNCHANGED <<orders, dropped, trouble>> /\ KeepSeller /\ KeepRecorder

\* The session expires, or getConversationSession, called by anyone, catches an
\* error of its own and writes an empty session
LoseSession ==
    /\ session # NoRuntime /\ Trouble("session")
    /\ session' = NoRuntime /\ Forget(NoRuntime)
    /\ UNCHANGED <<turn, orders, dropped>> /\ KeepSeller /\ KeepRecorder

-----------------------------------------------------------------------------
(* The turn that confirms *)

\* Faulty: a conversation that has confirmed is not answered at once
ReviewedOrConfirmed == session.stage \in {"FINAL_ORDER_REVIEW", "CONFIRMED"}

Reviewed == session.stage = "FINAL_ORDER_REVIEW"

LoadRuntime == Load /\ Reviewed /\ TurnAt("check", session) /\ Goes /\ KeepKeys

\* revalidateCartBeforeConfirmation against the projection read anew
Revalidation(r) ==
    IF ~catalog.active \/ catalog.product # r.product THEN "BLOCKED"
    ELSE IF r.cart.items \notin catalog.offered THEN "CORRECTION_REQUIRED"
    ELSE IF r.cart.facts # catalog.facts THEN "REVIEW_REQUIRED" ELSE "UNCHANGED"

\* createPublicOrderCode is random: a code that was never used
Unused(c) == orders[c] = NoOrder /\ c \notin dropped \cup forgotten

\* Faulty: the key is not saved before the order is written
KeyInMemory(r) ==
    \/ r.pending # NoCode /\ turn' = [turn EXCEPT !.at = "write"]
    \/ /\ r.pending = NoCode
       /\ \E c \in Codes : Unused(c) /\ turn' = [turn EXCEPT !.at = "write", !.runtime.pending = c]

\* confirmationAttempt: the key that is kept, or else a new one that is saved first
ConfirmationAttempt(r) ==
    \/ r.pending # NoCode /\ turn' = [turn EXCEPT !.at = "write"]
    \/ /\ r.pending = NoCode
       /\ \E c \in Codes : Unused(c) /\ turn' = [turn EXCEPT !.at = "key", !.runtime.pending = c]

\* Faulty: the status of the revalidation is taken for the stage
StatusAsStage(status) == status

StageAfter(status) == CASE status = "BLOCKED" -> "RECOVERY_REQUIRED"
                        [] status = "CORRECTION_REQUIRED" -> "CART_REVIEW"
                        [] status = "REVIEW_REQUIRED" -> "FINAL_ORDER_REVIEW"

Revalidate ==
    /\ turn.at = "check"
    /\ LET r == turn.runtime
           status == Revalidation(r)
       IN \/ /\ status = "UNCHANGED" /\ ConfirmationAttempt(r) /\ UNCHANGED dropped
          \/ /\ status # "UNCHANGED"
             /\ turn' = [turn EXCEPT !.at = "save", !.runtime =
                  [r EXCEPT !.pending = NoCode, !.stage = StageAfter(status),
                            !.cart.facts = IF status = "REVIEW_REQUIRED" THEN catalog.facts ELSE @]]
             /\ dropped' = dropped \cup ({r.pending} \ {NoCode})
    /\ UNCHANGED forgotten /\ Goes

SaveKey ==
    /\ turn.at = "key"
    /\ session' = turn.runtime
    /\ turn' = [turn EXCEPT !.at = "write"]
    /\ UNCHANGED <<orders, trouble>> /\ KeepKeys /\ KeepSeller /\ KeepRecorder

\* What the hash of the payload covers: the cart with its delivery details, and
\* how the receipt looks
Snapshot == [cart |-> turn.runtime.cart, branding |-> turn.seller.branding]

\* Faulty: the order stored under the key is returned whatever it holds
ReplaysAny(key) == orders[key] # NoOrder

Replays(key) == orders[key] = Snapshot

\* RuntimeConfirmedOrderWriter.persist: the order and the outbox row commit
\* together; a stored order is replayed if its payload is the same, and is a
\* conflict if it is not; a commit whose reply is lost is a failure
WriteOrder ==
    /\ turn.at = "write"
    /\ LET key == turn.runtime.pending
           committed == orders' = [orders EXCEPT ![key] = Snapshot]
           continueAt(at) == turn' = [turn EXCEPT !.at = at]
       IN \/ orders[key] = NoOrder /\ committed /\ continueAt("document") /\ UNCHANGED trouble
          \/ orders[key] = NoOrder /\ committed /\ continueAt("restore") /\ Trouble("reply")
          \/ Replays(key) /\ continueAt("document") /\ UNCHANGED <<orders, trouble>>
          \/ /\ orders[key] # NoOrder /\ ~Replays(key)
             /\ continueAt("restore") /\ UNCHANGED <<orders, trouble>>
          \/ continueAt("restore") /\ Trouble("database") /\ UNCHANGED orders
    /\ UNCHANGED session /\ KeepKeys /\ KeepSeller /\ KeepRecorder

\* The review is saved again, with the key, after a failed write
RestoreReview ==
    /\ turn.at = "restore"
    /\ session' = turn.runtime
    /\ turn' = Resting
    /\ UNCHANGED <<orders, trouble>> /\ KeepKeys /\ KeepSeller /\ KeepRecorder

\* The document is rendered after the commit; if that fails nothing is saved
PrepareReceipt ==
    /\ turn.at = "document"
    /\ \/ /\ turn' = [turn EXCEPT !.at = "save", !.runtime =
                        [@ EXCEPT !.stage = "CONFIRMED", !.order = turn.runtime.pending,
                                  !.pending = NoCode, !.dispatch = "PENDING"]]
          /\ UNCHANGED trouble
       \/ turn' = Resting /\ Trouble("document")
    /\ UNCHANGED <<session, orders>> /\ KeepKeys /\ KeepSeller /\ KeepRecorder

\* The last save of the turn: confirmed, or whatever a changed revalidation left
SaveRuntime ==
    /\ turn.at = "save"
    /\ session' = turn.runtime
    /\ turn' = Resting
    /\ UNCHANGED <<orders, trouble>> /\ KeepKeys /\ KeepSeller /\ KeepRecorder

\* The process dies, or a call of the turn throws, which the agent swallows
AbandonTurn ==
    /\ turn.at # "rest" /\ Trouble("crash")
    /\ turn' = Resting
    /\ UNCHANGED <<session, orders>> /\ KeepKeys /\ KeepSeller /\ KeepRecorder

-----------------------------------------------------------------------------
(* A turn the order runtime leaves to the agent appends to the messages of    *)
(* the session: it reads all of the session and writes all of it back.        *)

ReadForAppend ==
    /\ turn.at = "rest"
    /\ TurnAt("append", session)
    /\ Goes /\ KeepKeys

WriteAppended ==
    /\ turn.at = "append"
    /\ session' = turn.runtime
    /\ turn' = Resting
    /\ UNCHANGED <<orders, trouble>> /\ KeepKeys /\ KeepSeller /\ KeepRecorder

-----------------------------------------------------------------------------
(* The outbound worker, from the commit on (modules TransactionalOutbox and   *)
(* OutboundQueue)                                                             *)

Deliver(c) ==
    /\ orders[c] # NoOrder /\ c \notin delivered
    /\ delivered' = delivered \cup {c}
    /\ UNCHANGED <<session, turn, orders, recorder, trouble>> /\ KeepKeys /\ KeepSeller

\* Faulty: the dispatch of any order counts for the one that was confirmed
RecordedOnAny(r, c) == r.stage = "CONFIRMED" /\ r.dispatch # "SENT"

RecordedOn(r, c) == r.stage = "CONFIRMED" /\ r.order = c /\ r.dispatch # "SENT"

\* recordOrderRuntimeReceiptDispatch up to its save; a failure is recorded too
\* when recording the success threw
ReadForDispatch(c, status) ==
    /\ recorder.at = "rest" /\ orders[c] # NoOrder
    /\ status = "SENT" => c \in delivered
    /\ RecordedOn(session, c)
    /\ recorder' = [at |-> "write", runtime |-> [session EXCEPT !.dispatch = status]]
    /\ UNCHANGED <<session, turn, orders, delivered, trouble>> /\ KeepKeys /\ KeepSeller

RecorderDies ==
    /\ recorder.at = "write" /\ Trouble("crash")
    /\ recorder' = RecorderResting
    /\ UNCHANGED <<session, turn, orders, delivered>> /\ KeepKeys /\ KeepSeller

\* getConversationSession writes back what it has read if the connection was
\* bound to another product since the last reading.  Of a turn that is no more
\* than an append.  (Once there was a rebinding, the model lets any reading be so.)
ReadOutdated ==
    /\ recorder.at = "rest" /\ catalog.rebound /\ \E c \in Codes : orders[c] # NoOrder
    /\ recorder' = [at |-> "write", runtime |-> session]
    /\ UNCHANGED <<session, turn, orders, delivered, trouble>> /\ KeepKeys /\ KeepSeller

WriteDispatch ==
    /\ recorder.at = "write"
    /\ session' = recorder.runtime /\ Forget(recorder.runtime)
    /\ recorder' = RecorderResting
    /\ UNCHANGED <<turn, orders, dropped, delivered, trouble>> /\ KeepSeller

-----------------------------------------------------------------------------
Next ==
    \/ EditCatalog \/ EditFields \/ Rebind \/ EditBranding
    \/ PlanCart \/ ReturnToCart \/ ReviewCart
    \/ ReplaceRuntime \/ SaveReplaced \/ LoseSession
    \/ LoadRuntime \/ Revalidate \/ SaveKey \/ WriteOrder \/ RestoreReview
    \/ PrepareReceipt \/ SaveRuntime \/ AbandonTurn
    \/ ReadForAppend \/ WriteAppended
    \/ \E c \in Codes : Deliver(c) \/ \E status \in {"SENT", "FAILED"} : ReadForDispatch(c, status)
    \/ ReadOutdated \/ WriteDispatch \/ RecorderDies

Spec == Init /\ [][Next]_vars

-----------------------------------------------------------------------------
(* A conversation is told that it has confirmed only while the order stored   *)
(* under its code is the cart it shows, whatever failed or was retried on the *)
(* way: order-runtime-router.service.ts 676-748.                              *)
ConfirmedIsStored ==
    session.stage = "CONFIRMED" =>
        /\ orders[session.order] # NoOrder
        /\ orders[session.order].cart = session.cart

(* Retries never store a second order by themselves: of any two orders of a   *)
(* conversation, one had its key discarded because the seller changed the     *)
(* product between the attempts, or lost when the session was replaced as a   *)
(* whole (the key is kept and saved before the write).                        *)
SecondOrderWasDropped ==
    \A c, d \in Codes :
        orders[c] # NoOrder /\ orders[d] # NoOrder /\ c # d
            => {c, d} \cap (dropped \cup forgotten) # {}

(* A receipt is shown as sent only if the one of this very order was accepted *)
(* by the Cloud API, not that of an order the conversation stored before      *)
(* (recordOrderRuntimeReceiptDispatch).                                       *)
SentIsDelivered ==
    session.stage = "CONFIRMED" /\ session.dispatch = "SENT" => session.order \in delivered

(* What may undo a confirmation: a turn that began when the runtime was not   *)
(* valid (loadOrderRuntimeSession), the loss of the session, a late write of  *)
(* or over a confirmation that had been undone before, and the recorder's     *)
(* writing back a session it found bound to another product.                  *)
MayUndo ==
    \/ turn.at = "reset" /\ ~IsRuntimeSession(session, turn.seller)
    \/ LoseSession
    \/ {session.order, session'.order} \cap forgotten # {}
    \/ WriteDispatch /\ catalog.rebound

(* Otherwise a confirmed conversation stays confirmed, with the order it was  *)
(* told, whatever the customer sends and whichever process writes the session.*)
ConfirmedIsFinal ==
    [][session.stage = "CONFIRMED" =>
          session' = [session EXCEPT !.dispatch = session'.dispatch] \/ MayUndo]_vars

(* The confirmation identity retained for a retry is of use to that retry:    *)
(* the order stored under it, if any, is the one now being confirmed.         *)
RetainedKeyFits ==
    turn.at = "write" =>
        orders[turn.runtime.pending] \in {NoOrder, Snapshot}
=============================================================================
