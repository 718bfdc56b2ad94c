---------------------- MODULE OrderConfirmation_proofs ----------------------
(***************************************************************************)
(* OrderConfirmation for any items, products, codes and bounds: what is    *)
(* shown as confirmed is stored, what is shown as sent was delivered, and  *)
(* only what MayUndo names undoes a confirmation.  Turns and the recorder  *)
(* hold copies of the session that they write back later.  IInv says that  *)
(* every copy is sound, whenever it is written; KeyInv which key a copy    *)
(* may bring back, or take away; FinalInv when a copy is of a confirmation *)
(* that the session no longer shows.                                       *)
(***************************************************************************)
EXTENDS OrderConfirmation, TLAPS

\* A runtime that may be written to the session at any time
Sound(r) ==
    /\ r.stage \in {"FIRST_ENTRY", "CONFIRMED"} => r.pending = NoCode
    /\ r.stage = "CONFIRMED" =>
        /\ r.order \in Codes
        /\ orders[r.order] # NoOrder
        /\ orders[r.order].cart = r.cart
        /\ r.dispatch = "SENT" => r.order \in delivered

Confirming == {"check", "key", "write", "restore", "document"}

ConfirmingIsReviewed ==
    /\ turn.at \in Confirming => turn.runtime.stage = "FINAL_ORDER_REVIEW"
    /\ turn.at \in {"key", "write", "restore", "document"} => turn.runtime.pending \in Codes

DocumentIsStored ==
    turn.at = "document" =>
        /\ orders[turn.runtime.pending] # NoOrder
        /\ orders[turn.runtime.pending].cart = turn.runtime.cart

ReplacementIsEmpty == turn.at = "reset" => Key(turn.runtime) = NoCode

IInv ==
    /\ TypeOK /\ catalog.facts <= catalog.edits
    /\ Sound(session) /\ Sound(turn.runtime) /\ Sound(recorder.runtime)
    /\ ConfirmingIsReviewed /\ DocumentIsStored /\ ReplacementIsEmpty

-----------------------------------------------------------------------------
(* What the kinds of steps do *)

LEMMA EmptyRuntimes ==
    /\ \A p \in Products \cup {NoProduct} :
          /\ FirstEntry(p) \in Runtime
          /\ FirstEntry(p).stage = "FIRST_ENTRY" /\ FirstEntry(p).pending = NoCode
    /\ NoRuntime \in Runtime /\ NoRuntime.stage = "FIRST_ENTRY" /\ NoRuntime.pending = NoCode
    /\ Resting.at = "rest" /\ Resting.runtime = NoRuntime
    /\ Resting.seller \in Seller
    /\ RecorderResting.at = "rest" /\ RecorderResting.runtime = NoRuntime
<1>1. \A p \in Products \cup {NoProduct} :
          /\ FirstEntry(p) \in Runtime
          /\ FirstEntry(p).stage = "FIRST_ENTRY" /\ FirstEntry(p).pending = NoCode
  BY ConfirmationAssumption DEF FirstEntry, Runtime, Cart, Facts
<1>2. NoRuntime \in Runtime /\ NoRuntime.stage = "FIRST_ENTRY" /\ NoRuntime.pending = NoCode
  BY <1>1 DEF NoRuntime
<1> QED
  BY <1>1, <1>2, ConfirmationAssumption DEF Resting, RecorderResting, Seller

\* The seller and the Cloud API
Elsewhere == EditCatalog \/ EditFields \/ Rebind \/ EditBranding \/ \E c \in Codes : Deliver(c)

LEMMA ElsewhereStep ==
    ASSUME IInv, Elsewhere
    PROVE  /\ TypeOK' /\ UNCHANGED <<session, turn, orders, dropped, forgotten, recorder>>
           /\ catalog'.facts <= catalog'.edits
           /\ delivered \subseteq delivered' /\ (catalog.rebound => catalog'.rebound)
<1> USE DEF IInv
<1>1. ASSUME Edit, NEW facts \in {catalog.facts, catalog.facts + 1}, NEW offered \in SUBSET Items,
             NEW active \in BOOLEAN, NEW product \in Products, NEW conflict \in BOOLEAN,
             NEW rebound \in BOOLEAN, catalog.rebound => rebound,
             catalog' = [edits |-> catalog.edits + 1, facts |-> facts, offered |-> offered,
                         active |-> active, product |-> product, conflict |-> conflict,
                         rebound |-> rebound]
      PROVE  /\ TypeOK' /\ UNCHANGED <<session, turn, orders, dropped, forgotten, recorder, delivered>>
             /\ catalog'.facts <= catalog'.edits
             /\ catalog.rebound => catalog'.rebound
  <2>1. catalog.edits + 1 \in Facts /\ facts \in Facts /\ facts <= catalog.edits + 1
    BY <1>1, ConfirmationAssumption DEF Edit, TypeOK, Facts
  <2>2. catalog' \in [edits : Facts, facts : Facts, offered : SUBSET Items, active : BOOLEAN,
                      product : Products, conflict : BOOLEAN, rebound : BOOLEAN]
    BY <1>1, <2>1
  <2> QED
    BY <1>1, <2>1, <2>2 DEF Edit, KeepKeys, KeepRecorder, TypeOK
<1>2. CASE EditCatalog
  <2>1. PICK offered \in SUBSET Items, active \in BOOLEAN :
           catalog' = [catalog EXCEPT !.edits = @ + 1, !.facts = @ + 1,
                                      !.offered = offered, !.active = active]
    BY <1>2 DEF EditCatalog
  <2>2. catalog' = [edits |-> catalog.edits + 1, facts |-> catalog.facts + 1, offered |-> offered,
                    active |-> active, product |-> catalog.product,
                    conflict |-> catalog.conflict, rebound |-> catalog.rebound]
    BY <2>1 DEF TypeOK
  <2>3. /\ Edit /\ catalog.product \in Products
        /\ catalog.conflict \in BOOLEAN /\ catalog.rebound \in BOOLEAN
    BY <1>2 DEF EditCatalog, TypeOK
  <2> HIDE DEF IInv
  <2> QED
    BY <1>1, <2>2, <2>3
<1>3. CASE EditFields
  <2>1. catalog' = [edits |-> catalog.edits + 1, facts |-> catalog.facts, offered |-> catalog.offered,
                    active |-> catalog.active, product |-> catalog.product,
                    conflict |-> ~catalog.conflict, rebound |-> catalog.rebound]
    BY <1>3 DEF EditFields, TypeOK
  <2> QED
    BY <1>1, <1>3, <2>1 DEF EditFields, TypeOK
<1>4. CASE Rebind
  <2>1. PICK p \in Products : catalog' = [catalog EXCEPT !.edits = @ + 1, !.product = p, !.rebound = TRUE]
    BY <1>4 DEF Rebind
  <2>2. catalog' = [edits |-> catalog.edits + 1, facts |-> catalog.facts, offered |-> catalog.offered,
                    active |-> catalog.active, product |-> p,
                    conflict |-> catalog.conflict, rebound |-> TRUE]
    BY <2>1 DEF TypeOK
  <2> QED
    BY <1>1, <1>4, <2>2 DEF Rebind, TypeOK
<1>5. CASE EditBranding
  BY <1>5, ConfirmationAssumption DEF EditBranding, KeepKeys, KeepRecorder, TypeOK
<1>6. CASE \E c \in Codes : Deliver(c)
  BY <1>6 DEF Deliver, KeepKeys, KeepSeller, TypeOK
<1> QED
  BY <1>2, <1>3, <1>4, <1>5, <1>6 DEF Elsewhere

\* The beginning of a turn
Begins == PlanCart \/ ReturnToCart \/ ReviewCart \/ ReplaceRuntime \/ LoadRuntime \/ ReadForAppend

LEMMA SettingsType == ASSUME TypeOK PROVE Settings \in Seller
BY DEF TypeOK, Settings, Seller

LEMMA BeginsStep ==
    ASSUME IInv, Begins
    PROVE  /\ TypeOK' /\ turn.at = "rest" /\ turn'.seller = Settings
           /\ UNCHANGED <<catalog, branding, session, orders, dropped, forgotten, delivered, recorder>>
           /\ \/ turn'.at = "append" /\ turn'.runtime = session
              \/ turn'.at = "check" /\ turn'.runtime = session /\ session.stage = "FINAL_ORDER_REVIEW"
              \/ /\ turn'.at = "reset" /\ ~IsRuntimeSession(session, turn'.seller)
                 /\ turn'.runtime.stage = "FIRST_ENTRY" /\ turn'.runtime.pending = NoCode
              \/ /\ turn'.at = "save" /\ session.stage # "CONFIRMED"
                 /\ turn'.runtime.stage \in {"CART_REVIEW", "FINAL_ORDER_REVIEW"}
                 /\ turn'.runtime.pending = session.pending
                 /\ ReviewCart \/ session.pending = NoCode \/ turn'.runtime.cart = session.cart
<1> USE DEF IInv, Goes, KeepKeys, KeepSeller, KeepRecorder
<1>1. /\ turn.at = "rest"
      /\ UNCHANGED <<catalog, branding, session, orders, dropped, forgotten, delivered, recorder, trouble>>
  BY DEF Begins, PlanCart, ReturnToCart, ReviewCart, ReplaceRuntime, LoadRuntime, ReadForAppend, Load
<1>2. ASSUME NEW at \in {"reset", "check", "save", "append"}, NEW r \in Runtime, TurnAt(at, r)
      PROVE  TypeOK' /\ turn'.seller = Settings /\ turn'.at = at /\ turn'.runtime = r
  BY <1>1, <1>2, SettingsType DEF TypeOK, TurnAt
<1>3. CASE PlanCart
  <2>1. PICK i \in catalog.offered :
           TurnAt("save", [FirstEntry(catalog.product) EXCEPT !.stage = "CART_REVIEW",
                              !.cart = [items |-> i, facts |-> catalog.facts]])
    BY <1>3 DEF PlanCart
  <2>2. PICK r : r = [FirstEntry(catalog.product) EXCEPT !.stage = "CART_REVIEW",
                         !.cart = [items |-> i, facts |-> catalog.facts]]
    OBVIOUS
  <2>3. [items |-> i, facts |-> catalog.facts] \in Cart /\ catalog.product \in Products
    BY DEF TypeOK, Cart
  <2>4. r \in Runtime /\ r.stage = "CART_REVIEW" /\ r.pending = NoCode
    BY <2>2, <2>3, EmptyRuntimes DEF Runtime
  <2>5. session.stage = "FIRST_ENTRY" /\ session.pending = NoCode
    BY <1>3 DEF PlanCart, Sound
  <2> QED
    BY <1>1, <1>2, <2>1, <2>2, <2>4, <2>5
<1>4. CASE ReturnToCart
  <2>1. PICK r : r = [session EXCEPT !.stage = "CART_REVIEW"]
    OBVIOUS
  <2>2. /\ r \in Runtime /\ r.stage = "CART_REVIEW" /\ r.pending = session.pending
        /\ r.cart = session.cart
    BY <2>1 DEF TypeOK, Runtime
  <2> QED
    BY <1>1, <1>2, <1>4, <2>1, <2>2 DEF ReturnToCart
<1>5. CASE ReviewCart
  <2>1. PICK i \in catalog.offered :
           TurnAt("save", [session EXCEPT !.stage = "FINAL_ORDER_REVIEW",
                                          !.cart = [items |-> i, facts |-> catalog.facts]])
    BY <1>5 DEF ReviewCart
  <2>2. PICK r : r = [session EXCEPT !.stage = "FINAL_ORDER_REVIEW",
                                     !.cart = [items |-> i, facts |-> catalog.facts]]
    OBVIOUS
  <2>3. [items |-> i, facts |-> catalog.facts] \in Cart
    BY DEF TypeOK, Cart
  <2>4. r \in Runtime /\ r.stage = "FINAL_ORDER_REVIEW" /\ r.pending = session.pending
    BY <2>2, <2>3 DEF TypeOK, Runtime
  <2>5. session.stage = "CART_REVIEW"
    BY <1>5 DEF ReviewCart
  <2> QED
    BY <1>1, <1>2, <1>5, <2>1, <2>2, <2>4, <2>5
<1>6. CASE ReplaceRuntime
  <2>1. catalog.product \in Products
    BY DEF TypeOK
  <2> QED
    BY <1>1, <1>2, <1>6, <2>1, EmptyRuntimes DEF ReplaceRuntime
<1>7. CASE LoadRuntime \/ ReadForAppend
  <2>1. session \in Runtime
    BY DEF TypeOK
  <2> QED
    BY <1>1, <1>2, <1>7, <2>1 DEF LoadRuntime, Reviewed, ReadForAppend
<1> QED
  BY <1>3, <1>4, <1>5, <1>6, <1>7 DEF Begins

\* The revalidation: the key is kept, chosen, or discarded with the confirmation
LEMMA RevalidateStep ==
    ASSUME IInv, Revalidate
    PROVE  /\ TypeOK' /\ turn.at = "check" /\ turn'.seller = turn.seller
           /\ turn.runtime.stage = "FINAL_ORDER_REVIEW"
           /\ UNCHANGED <<catalog, branding, session, orders, forgotten, delivered, recorder>>
           /\ \/ /\ turn'.at = "write" /\ turn'.runtime = turn.runtime
                 /\ turn.runtime.pending \in Codes /\ UNCHANGED dropped
              \/ /\ turn'.at = "key" /\ turn'.runtime.stage = "FINAL_ORDER_REVIEW"
                 /\ turn'.runtime.pending \in Codes /\ Unused(turn'.runtime.pending)
                 /\ turn.runtime.pending = NoCode
                 /\ turn'.runtime.cart = turn.runtime.cart /\ UNCHANGED dropped
              \/ /\ turn'.at = "save" /\ turn'.runtime.pending = NoCode
                 /\ turn'.runtime.stage \in {"RECOVERY_REQUIRED", "CART_REVIEW", "FINAL_ORDER_REVIEW"}
                 /\ dropped' = dropped \cup ({turn.runtime.pending} \ {NoCode})
<1> USE DEF IInv
<1> DEFINE r == turn.runtime
           status == Revalidation(r)
<1>1. /\ turn.at = "check" /\ r \in Runtime /\ r.stage = "FINAL_ORDER_REVIEW"
      /\ UNCHANGED <<catalog, branding, session, orders, forgotten, delivered, recorder, trouble>>
  BY DEF Revalidate, Goes, KeepSeller, KeepRecorder, TypeOK, ConfirmingIsReviewed, Confirming
<1>2. CASE ConfirmationAttempt(r) /\ UNCHANGED dropped
  <2>1. CASE r.pending # NoCode /\ turn' = [turn EXCEPT !.at = "write"]
    <3>1. r.pending \in Codes
      BY <1>1, <2>1 DEF Runtime
    <3>2. TypeOK' /\ turn'.at = "write" /\ turn'.runtime = r /\ turn'.seller = turn.seller
      BY <1>1, <1>2, <2>1 DEF TypeOK
    <3> QED
      BY <1>1, <1>2, <3>1, <3>2
  <2>2. ASSUME NEW c \in Codes, Unused(c), r.pending = NoCode,
               turn' = [turn EXCEPT !.at = "key", !.runtime.pending = c]
        PROVE  /\ TypeOK' /\ turn'.at = "key" /\ turn'.runtime.stage = "FINAL_ORDER_REVIEW"
               /\ turn'.runtime.pending = c /\ turn'.runtime.cart = r.cart
               /\ turn'.seller = turn.seller
    <3>1. PICK q : q = [r EXCEPT !.pending = c]
      OBVIOUS
    <3>2. q \in Runtime /\ q.pending = c /\ q.stage = r.stage /\ q.cart = r.cart
      BY <1>1, <3>1 DEF Runtime
    <3>3. turn' = [turn EXCEPT !.at = "key", !.runtime = q]
      BY <2>2, <3>1 DEF TypeOK
    <3>4. turn'.at = "key" /\ turn'.runtime = q /\ turn'.seller = turn.seller
      BY <3>3 DEF TypeOK
    <3>5. TypeOK'
      BY <1>1, <1>2, <3>2, <3>3 DEF TypeOK
    <3> QED
      BY <1>1, <3>2, <3>4, <3>5
  <2> QED
    BY <1>1, <1>2, <2>1, <2>2 DEF ConfirmationAttempt
<1>3. CASE /\ status # "UNCHANGED"
           /\ turn' = [turn EXCEPT !.at = "save", !.runtime =
                  [r EXCEPT !.pending = NoCode, !.stage = StageAfter(status),
                            !.cart.facts = IF status = "REVIEW_REQUIRED" THEN catalog.facts ELSE @]]
           /\ dropped' = dropped \cup ({r.pending} \ {NoCode})
  <2> DEFINE facts == IF status = "REVIEW_REQUIRED" THEN catalog.facts ELSE r.cart.facts
  <2>1. StageAfter(status) \in {"RECOVERY_REQUIRED", "CART_REVIEW", "FINAL_ORDER_REVIEW"}
    BY <1>3 DEF StageAfter, Revalidation
  <2>2. PICK cart : cart = [r.cart EXCEPT !.facts = facts]
    OBVIOUS
  <2>3. cart \in Cart
    BY <1>1, <2>2 DEF TypeOK, Runtime, Cart
  <2>4. PICK q : q = [r EXCEPT !.pending = NoCode, !.stage = StageAfter(status), !.cart = cart]
    OBVIOUS
  <2>5. q \in Runtime /\ q.stage = StageAfter(status) /\ q.pending = NoCode
    BY <1>1, <2>1, <2>3, <2>4 DEF Runtime
  <2>6. turn' = [turn EXCEPT !.at = "save", !.runtime = q]
    BY <1>1, <1>3, <2>2, <2>4 DEF Runtime
  <2>7. turn'.at = "save" /\ turn'.runtime = q /\ turn'.seller = turn.seller
    BY <2>6 DEF TypeOK
  <2>8. dropped' \subseteq Codes
    BY <1>1, <1>3 DEF TypeOK, Runtime
  <2>9. TypeOK'
    BY <1>1, <2>5, <2>6, <2>8 DEF TypeOK
  <2> QED
    BY <1>1, <1>3, <2>1, <2>5, <2>7, <2>9
<1> QED
  BY <1>2, <1>3 DEF Revalidate

\* The turn writes back what it holds
Saves == SaveKey \/ RestoreReview \/ SaveRuntime \/ WriteAppended \/ SaveReplaced

LEMMA SavesStep ==
    ASSUME IInv, Saves
    PROVE  /\ TypeOK' /\ session' = turn.runtime
           /\ turn.at \in {"key", "restore", "save", "append", "reset"}
           /\ UNCHANGED <<catalog, branding, orders, dropped, delivered, recorder>>
           /\ \/ turn'.at = "rest" /\ turn'.runtime = NoRuntime
              \/ /\ turn.at = "key" /\ turn'.at = "write"
                 /\ turn'.runtime = turn.runtime /\ turn'.seller = turn.seller
           /\ IF turn.at = "reset" THEN Forget(turn.runtime) ELSE UNCHANGED forgotten
<1> USE DEF IInv, KeepKeys, KeepSeller, KeepRecorder
<1>1. /\ session' = turn.runtime /\ turn.runtime \in Runtime
      /\ turn.at \in {"key", "restore", "save", "append", "reset"}
      /\ UNCHANGED <<catalog, branding, orders, dropped, delivered, recorder, trouble>>
      /\ \/ turn' = Resting
         \/ turn.at = "key" /\ turn' = [turn EXCEPT !.at = "write"]
      /\ IF turn.at = "reset" THEN Forget(turn.runtime) ELSE UNCHANGED forgotten
  BY DEF Saves, SaveKey, RestoreReview, SaveRuntime, WriteAppended, SaveReplaced, TypeOK
<1>2. forgotten' \subseteq Codes
  BY <1>1 DEF TypeOK, Forget, Key, Runtime
<1>3. /\ turn' \in [at : {"rest", "write"}, runtime : Runtime, seller : Seller]
      /\ \/ turn'.at = "rest" /\ turn'.runtime = NoRuntime
         \/ /\ turn.at = "key" /\ turn'.at = "write"
            /\ turn'.runtime = turn.runtime /\ turn'.seller = turn.seller
  <2>1. CASE turn' = Resting
    BY <2>1, EmptyRuntimes DEF Resting
  <2>2. CASE turn.at = "key" /\ turn' = [turn EXCEPT !.at = "write"]
    BY <2>2 DEF TypeOK
  <2> QED
    BY <1>1, <2>1, <2>2
<1>4. TypeOK'
  BY <1>1, <1>2, <1>3 DEF TypeOK
<1> QED
  BY <1>1, <1>3, <1>4

\* The session is lost, or overwritten by the recorder
LEMMA ReplacedStep ==
    ASSUME IInv, LoseSession \/ WriteDispatch
    PROVE  /\ TypeOK' /\ UNCHANGED <<catalog, branding, turn, orders, dropped, delivered>>
           /\ Forget(session')
           /\ \/ session' = NoRuntime /\ UNCHANGED recorder
              \/ /\ recorder.at = "write" /\ session' = recorder.runtime
                 /\ recorder'.at = "rest" /\ recorder'.runtime = NoRuntime
<1> USE DEF IInv, KeepSeller, KeepRecorder
<1>1. /\ session' \in Runtime /\ Forget(session')
      /\ UNCHANGED <<catalog, branding, turn, orders, dropped, delivered>>
      /\ trouble' \in 0..MaxTrouble
  BY EmptyRuntimes, ConfirmationAssumption DEF LoseSession, WriteDispatch, Trouble, TypeOK
<1>2. forgotten' \subseteq Codes
  BY <1>1 DEF TypeOK, Forget, Key, Runtime
<1>3. /\ recorder' \in [at : {"rest", "write"}, runtime : Runtime]
      /\ \/ session' = NoRuntime /\ UNCHANGED recorder
         \/ /\ recorder.at = "write" /\ session' = recorder.runtime
            /\ recorder'.at = "rest" /\ recorder'.runtime = NoRuntime
  BY EmptyRuntimes DEF LoseSession, WriteDispatch, RecorderResting, TypeOK
<1> QED
  BY <1>1, <1>2, <1>3 DEF TypeOK

\* The recorder reads the session, or dies
RecorderMoves ==
    \/ \E c \in Codes, status \in {"SENT", "FAILED"} : ReadForDispatch(c, status)
    \/ ReadOutdated \/ RecorderDies

LEMMA RecorderStep ==
    ASSUME IInv, RecorderMoves
    PROVE  /\ TypeOK' /\ Sound(recorder'.runtime)
           /\ UNCHANGED <<catalog, branding, session, turn, orders, dropped, forgotten, delivered>>
           /\ \/ recorder'.at = "rest" /\ recorder'.runtime = NoRuntime
              \/ recorder'.at = "write" /\ recorder'.runtime = session /\ catalog.rebound
              \/ /\ recorder'.at = "write" /\ session.stage = "CONFIRMED"
                 /\ recorder'.runtime.stage = "CONFIRMED"
                 /\ recorder'.runtime.pending = NoCode
                 /\ recorder'.runtime.order = session.order
                 /\ recorder'.runtime = [session EXCEPT !.dispatch = recorder'.runtime.dispatch]
<1> USE DEF IInv, KeepKeys, KeepSeller
<1>1. ASSUME NEW c \in Codes, NEW status \in {"SENT", "FAILED"}, ReadForDispatch(c, status)
      PROVE  /\ TypeOK' /\ Sound(recorder'.runtime)
             /\ UNCHANGED <<catalog, branding, session, turn, orders, dropped, forgotten, delivered>>
             /\ recorder'.at = "write" /\ session.stage = "CONFIRMED"
             /\ recorder'.runtime.stage = "CONFIRMED"
             /\ recorder'.runtime.pending = NoCode
             /\ recorder'.runtime.order = session.order
             /\ recorder'.runtime = [session EXCEPT !.dispatch = recorder'.runtime.dispatch]
  <2>1. PICK r : r = [session EXCEPT !.dispatch = status]
    OBVIOUS
  <2>2. /\ session.stage = "CONFIRMED" /\ session.order = c /\ (status = "SENT" => c \in delivered)
        /\ recorder' = [at |-> "write", runtime |-> r]
        /\ UNCHANGED <<catalog, branding, session, turn, orders, dropped, forgotten, delivered, trouble>>
    BY <1>1, <2>1 DEF ReadForDispatch, RecordedOn
  <2>3. /\ r \in Runtime /\ r.stage = "CONFIRMED" /\ r.order = c /\ r.dispatch = status
        /\ r.cart = session.cart /\ r.pending = session.pending
    BY <2>1, <2>2 DEF TypeOK, Runtime
  <2>4. TypeOK' /\ recorder'.at = "write" /\ recorder'.runtime = r
    BY <2>2, <2>3 DEF TypeOK
  <2>5. Sound(r) /\ r.pending = NoCode
    BY <2>2, <2>3 DEF Sound
  <2> QED
    BY <2>1, <2>2, <2>3, <2>4, <2>5
<1>2. CASE ReadOutdated
  <2>1. TypeOK' /\ recorder'.at = "write" /\ recorder'.runtime = session
    BY <1>2 DEF ReadOutdated, TypeOK
  <2> QED
    BY <1>2, <2>1 DEF ReadOutdated
<1>3. CASE RecorderDies
  <2>1. TypeOK' /\ recorder'.at = "rest" /\ recorder'.runtime = NoRuntime
    BY <1>3, EmptyRuntimes, ConfirmationAssumption DEF RecorderDies, RecorderResting, Trouble, TypeOK
  <2> QED
    BY <1>3, <2>1, EmptyRuntimes DEF RecorderDies, Sound
<1> QED
  BY <1>1, <1>2, <1>3 DEF RecorderMoves

\* The write of the order: what was stored stays as it is
LEMMA WriteOrderStep ==
    ASSUME IInv, WriteOrder
    PROVE  /\ TypeOK' /\ turn.at = "write" /\ turn'.at \in {"document", "restore"}
           /\ turn'.runtime = turn.runtime /\ turn'.seller = turn.seller
           /\ UNCHANGED <<catalog, branding, session, dropped, forgotten, delivered, recorder>>
           /\ turn.runtime.pending \in Codes /\ turn.runtime.stage = "FINAL_ORDER_REVIEW"
           /\ \A c \in Codes \ {turn.runtime.pending} : orders'[c] = orders[c]
           /\ orders'[turn.runtime.pending] \in {orders[turn.runtime.pending], Snapshot}
           /\ orders[turn.runtime.pending] # NoOrder =>
                 orders'[turn.runtime.pending] = orders[turn.runtime.pending]
           /\ turn'.at = "document" => orders'[turn.runtime.pending] = Snapshot
           /\ Snapshot # NoOrder /\ Snapshot.cart = turn.runtime.cart
<1> USE DEF IInv, WriteOrder, KeepKeys, KeepSeller, KeepRecorder
<1> DEFINE key == turn.runtime.pending
<1>1. /\ turn.at = "write" /\ key \in Codes /\ turn.runtime.stage = "FINAL_ORDER_REVIEW"
      /\ UNCHANGED <<catalog, branding, session, dropped, forgotten, delivered, recorder>>
  BY DEF ConfirmingIsReviewed, Confirming
<1>2. Snapshot \in [cart : Cart, branding : 0..MaxBranding] /\ Snapshot.cart = turn.runtime.cart
  BY DEF Snapshot, TypeOK, Runtime, Seller
<1>3. Snapshot # NoOrder
  BY <1>2, OrderAssumption DEF Cart, Facts
<1>4. /\ \/ orders' = orders
         \/ orders[key] = NoOrder /\ orders' = [orders EXCEPT ![key] = Snapshot]
      /\ \/ turn' = [turn EXCEPT !.at = "document"] /\ orders'[key] = Snapshot
         \/ turn' = [turn EXCEPT !.at = "restore"]
      /\ trouble' \in 0..MaxTrouble
  <2> DEFINE committed == orders[key] = NoOrder /\ orders' = [orders EXCEPT ![key] = Snapshot]
             kept == UNCHANGED trouble \/ \E k \in Kinds : Trouble(k)
  <2>1. kept => trouble' \in 0..MaxTrouble
    BY ConfirmationAssumption DEF Trouble, TypeOK
  <2>2. committed => orders'[key] = Snapshot
    BY <1>1 DEF TypeOK
  <2> QED
    BY <2>1, <2>2 DEF Replays, Trouble
<1>5. TypeOK'
  BY <1>1, <1>2, <1>4 DEF TypeOK
<1>6. /\ turn'.at \in {"document", "restore"} /\ turn'.runtime = turn.runtime /\ turn'.seller = turn.seller
      /\ turn'.at = "document" => orders'[key] = Snapshot
  BY <1>4 DEF TypeOK
<1>7. /\ \A c \in Codes \ {key} : orders'[c] = orders[c]
      /\ orders'[key] \in {orders[key], Snapshot}
      /\ orders[key] # NoOrder => orders'[key] = orders[key]
  BY <1>1, <1>4 DEF TypeOK
<1> QED
  BY <1>1, <1>2, <1>3, <1>5, <1>6, <1>7

\* The receipt is prepared, or the turn ends
LEMMA PrepareStep ==
    ASSUME IInv, PrepareReceipt \/ AbandonTurn
    PROVE  /\ TypeOK' /\ Sound(turn'.runtime)
           /\ UNCHANGED <<catalog, branding, session, orders, dropped, forgotten, delivered, recorder>>
           /\ \/ turn'.at = "rest" /\ turn'.runtime = NoRuntime
              \/ /\ turn.at = "document" /\ turn'.at = "save" /\ turn'.runtime.stage = "CONFIRMED"
                 /\ turn'.runtime.pending = NoCode /\ turn'.runtime.order = turn.runtime.pending
                 /\ turn.runtime.stage = "FINAL_ORDER_REVIEW"
<1> USE DEF IInv, KeepKeys, KeepSeller, KeepRecorder
<1>1. UNCHANGED <<catalog, branding, session, orders, dropped, forgotten, delivered, recorder>>
  BY DEF PrepareReceipt, AbandonTurn
<1>2. CASE turn' = Resting /\ trouble' \in 0..MaxTrouble
  <2>1. TypeOK' /\ turn'.at = "rest" /\ turn'.runtime = NoRuntime
    BY <1>1, <1>2, EmptyRuntimes DEF Resting, TypeOK
  <2> QED
    BY <1>1, <2>1, EmptyRuntimes DEF Sound
<1>3. CASE /\ turn.at = "document" /\ UNCHANGED trouble
           /\ turn' = [turn EXCEPT !.at = "save", !.runtime =
                        [@ EXCEPT !.stage = "CONFIRMED", !.order = turn.runtime.pending,
                                  !.pending = NoCode, !.dispatch = "PENDING"]]
  <2>1. PICK q : q = [turn.runtime EXCEPT !.stage = "CONFIRMED", !.order = turn.runtime.pending,
                                          !.pending = NoCode, !.dispatch = "PENDING"]
    OBVIOUS
  <2>2. /\ turn.runtime \in Runtime /\ turn.runtime.pending \in Codes
        /\ turn.runtime.stage = "FINAL_ORDER_REVIEW"
        /\ orders[turn.runtime.pending] # NoOrder
        /\ orders[turn.runtime.pending].cart = turn.runtime.cart
    BY <1>3 DEF TypeOK, ConfirmingIsReviewed, Confirming, DocumentIsStored
  <2>3. /\ q \in Runtime /\ q.stage = "CONFIRMED" /\ q.order = turn.runtime.pending
        /\ q.pending = NoCode /\ q.dispatch = "PENDING" /\ q.cart = turn.runtime.cart
    BY <2>1, <2>2 DEF Runtime
  <2>4. turn' = [turn EXCEPT !.at = "save", !.runtime = q]
    BY <1>3, <2>1
  <2>5. TypeOK' /\ turn'.at = "save" /\ turn'.runtime = q
    BY <1>1, <1>3, <2>3, <2>4 DEF TypeOK
  <2> QED
    BY <1>1, <1>3, <2>2, <2>3, <2>5 DEF Sound
<1> QED
  BY <1>2, <1>3, ConfirmationAssumption DEF PrepareReceipt, AbandonTurn, Trouble, TypeOK

LEMMA StepKinds ==
    Next <=> \/ Elsewhere \/ Begins \/ Revalidate \/ Saves \/ LoseSession \/ WriteDispatch
             \/ RecorderMoves \/ WriteOrder \/ PrepareReceipt \/ AbandonTurn
BY DEF Next, Elsewhere, Begins, Saves, RecorderMoves

-----------------------------------------------------------------------------
(* Every copy of the session is sound *)

LEMMA InitIInv == Init => IInv
<1> SUFFICES ASSUME Init PROVE IInv
  OBVIOUS
<1>1. PICK p \in Products :
        catalog = [edits |-> 0, facts |-> 0, offered |-> Items, active |-> TRUE,
                   product |-> p, conflict |-> FALSE, rebound |-> FALSE]
  BY DEF Init
<1>2. /\ session \in Runtime /\ turn.at = "rest" /\ turn.runtime = NoRuntime
      /\ recorder.at = "rest" /\ recorder.runtime = NoRuntime
      /\ session.stage = "FIRST_ENTRY" /\ session.pending = NoCode /\ session = NoRuntime
  BY EmptyRuntimes DEF Init
<1>3. turn \in [at : {"rest"}, runtime : Runtime, seller : Seller]
  BY EmptyRuntimes DEF Init, Resting
<1>4. recorder \in [at : {"rest"}, runtime : Runtime]
  BY EmptyRuntimes DEF Init, RecorderResting
<1>5. TypeOK
  BY <1>1, <1>2, <1>3, <1>4, ConfirmationAssumption DEF Init, TypeOK, Facts
<1> QED
  BY <1>1, <1>2, <1>5 DEF IInv, Sound, ConfirmingIsReviewed, Confirming, DocumentIsStored,
                               ReplacementIsEmpty

LEMMA NextKeepsIInv == IInv /\ [Next]_vars => IInv'
<1> SUFFICES ASSUME IInv, [Next]_vars PROVE IInv'
  OBVIOUS
<1> USE DEF IInv, Sound, ConfirmingIsReviewed, Confirming, DocumentIsStored, ReplacementIsEmpty, Key
<1>1. CASE UNCHANGED vars
  BY <1>1 DEF vars, TypeOK
<1>2. CASE Elsewhere
  <2>1. TypeOK' /\ catalog'.facts <= catalog'.edits
    BY <1>2, ElsewhereStep
  <2>2. UNCHANGED <<session, turn, orders, recorder>> /\ delivered \subseteq delivered'
    BY <1>2, ElsewhereStep
  <2> QED
    BY <2>1, <2>2
<1>3. CASE Begins
  BY <1>3, BeginsStep
<1>4. CASE Revalidate
  BY <1>4, RevalidateStep
<1>5. CASE Saves
  BY <1>5, SavesStep, EmptyRuntimes
<1>6. CASE LoseSession \/ WriteDispatch
  BY <1>6, ReplacedStep, EmptyRuntimes
<1>7. CASE RecorderMoves
  BY <1>7, RecorderStep
<1>8. CASE WriteOrder
  BY <1>8, WriteOrderStep
<1>9. CASE PrepareReceipt \/ AbandonTurn
  BY <1>9, PrepareStep, EmptyRuntimes
<1> QED
  BY <1>1, <1>2, <1>3, <1>4, <1>5, <1>6, <1>7, <1>8, <1>9, StepKinds

LEMMA AlwaysIInv == Spec => []IInv
<1> QED
  BY InitIInv, NextKeepsIInv, PTL DEF Spec

\* Every variable keeps its type: the copies that the turn and the recorder
\* write back are always runtimes, the keys always codes.
THEOREM TypeCorrect == Spec => []TypeOK
<1>1. IInv => TypeOK
  BY DEF IInv
<1> QED
  BY <1>1, AlwaysIInv, PTL

\* What a conversation is told is confirmed is the order stored under its code.
THEOREM ConfirmedStored == Spec => []ConfirmedIsStored
<1>1. IInv => ConfirmedIsStored
  BY DEF IInv, Sound, ConfirmedIsStored
<1> QED
  BY <1>1, AlwaysIInv, PTL

\* A receipt shown as sent is that of this order, and was accepted.
THEOREM SentDelivered == Spec => []SentIsDelivered
<1>1. IInv => SentIsDelivered
  BY DEF IInv, Sound, SentIsDelivered
<1> QED
  BY <1>1, AlwaysIInv, PTL

-----------------------------------------------------------------------------
(* That a retry stores no second order rests on the key: an order that was    *)
(* stored, and whose key is not lost, is the one the session points to, so a  *)
(* key is only ever chosen when there is no such order.  A turn or a recorder *)
(* that holds a copy of the session may write back only the key the session   *)
(* has, none, or one that is lost already.                                    *)

Lost == dropped \cup forgotten

\* The code is the one of the session, or of no order that matters
Expected(code) == code \in {NoCode, Key(session)} \cup Lost

KeyInv ==
    /\ \A c \in Codes : orders[c] # NoOrder /\ c \notin Lost => c = Key(session)
    /\ turn.at \notin {"rest", "reset"} => Key(session) \in {NoCode, Key(turn.runtime)} \cup Lost
    /\ turn.at \in {"check", "write", "restore", "document"} => Expected(turn.runtime.pending)
    /\ recorder.at = "write" => Expected(Key(recorder.runtime))

LEMMA NextKeepsKeyInv == IInv /\ KeyInv /\ [Next]_vars => KeyInv'
<1> SUFFICES ASSUME IInv, KeyInv, [Next]_vars PROVE KeyInv'
  OBVIOUS
<1> USE ConfirmationAssumption DEF KeyInv, Expected, Lost, Key
<1>1. CASE UNCHANGED vars
  BY <1>1 DEF vars
<1>2. CASE Elsewhere
  BY <1>2, ElsewhereStep
<1>3. CASE Begins
  BY <1>3, BeginsStep
<1>4. CASE Revalidate
  BY <1>4, RevalidateStep
<1>5. CASE Saves
  <2>1. turn.at = "key" => turn.runtime.stage = "FINAL_ORDER_REVIEW"
    BY DEF IInv, ConfirmingIsReviewed, Confirming
  <2> QED
    BY <1>5, <2>1, SavesStep DEF Forget
<1>6. CASE LoseSession \/ WriteDispatch
  BY <1>6, ReplacedStep, EmptyRuntimes DEF Forget
<1>7. CASE RecorderMoves
  BY <1>7, RecorderStep
<1>8. CASE WriteOrder
  BY <1>8, WriteOrderStep
<1>9. CASE PrepareReceipt \/ AbandonTurn
  BY <1>9, PrepareStep
<1> QED
  BY <1>1, <1>2, <1>3, <1>4, <1>5, <1>6, <1>7, <1>8, <1>9, StepKinds

\* Of any two orders of the conversation, one had its key discarded by a changed
\* revalidation or lost with a session that was replaced as a whole: failures
\* and retries alone store one order at most.
THEOREM SecondDropped == Spec => []SecondOrderWasDropped
<1>1. Init => KeyInv
  BY EmptyRuntimes DEF Init, KeyInv
<1>2. KeyInv => SecondOrderWasDropped
  BY DEF KeyInv, Lost, SecondOrderWasDropped
<1> QED
  BY <1>1, <1>2, AlwaysIInv, NextKeepsKeyInv, PTL DEF Spec

-----------------------------------------------------------------------------
(* What may still overwrite a confirmation: copies that differ from it in the *)
(* dispatch only, an empty runtime for one that was not valid, and copies     *)
(* from before or over a confirmation that had been undone.                   *)

SameButDispatch(r) == r = [session EXCEPT !.dispatch = r.dispatch]

\* A confirmation that was undone, and came back with a late write
Undone == session.order \in forgotten

FinalInv ==
    session.stage = "CONFIRMED" =>
        /\ turn.at \in Confirming \cup {"save"} => Undone
        /\ turn.at = "append" => SameButDispatch(turn.runtime) \/ Undone
        /\ turn.at = "reset" => ~IsRuntimeSession(session, turn.seller) \/ Undone

RecorderInv ==
    recorder.at = "write" =>
        /\ catalog.rebound \/ recorder.runtime.stage = "CONFIRMED"
        /\ recorder.runtime.stage = "CONFIRMED" =>
              SameButDispatch(recorder.runtime) \/ recorder.runtime.order \in forgotten

LEMMA NextKeepsFinalInv == IInv /\ FinalInv /\ RecorderInv /\ [Next]_vars => FinalInv'
<1> SUFFICES ASSUME IInv, FinalInv, RecorderInv, [Next]_vars PROVE FinalInv'
  OBVIOUS
<1> USE DEF FinalInv, Undone
<1>0. session \in Runtime
  BY DEF IInv, TypeOK
<1>1. CASE UNCHANGED vars
  BY <1>1 DEF vars, SameButDispatch, IsRuntimeSession
<1>2. CASE Elsewhere
  BY <1>2, ElsewhereStep DEF SameButDispatch, IsRuntimeSession
<1>3. CASE Begins
  <2>1. session = [session EXCEPT !.dispatch = session.dispatch]
    BY <1>0 DEF Runtime
  <2> QED
    BY <1>3, <2>1, BeginsStep DEF SameButDispatch, IsRuntimeSession, Confirming
<1>4. CASE Revalidate \/ WriteOrder \/ PrepareReceipt \/ AbandonTurn
  <2>1. /\ UNCHANGED <<session, forgotten>>
        /\ \/ turn'.at = "rest"
           \/ turn.at \in Confirming /\ turn'.at \in Confirming \cup {"save"}
    <3>1. CASE Revalidate
      BY <3>1, RevalidateStep DEF Confirming
    <3>2. CASE WriteOrder
      BY <3>2, WriteOrderStep DEF Confirming
    <3>3. CASE PrepareReceipt \/ AbandonTurn
      BY <3>3, PrepareStep DEF Confirming
    <3> QED
      BY <1>4, <3>1, <3>2, <3>3
  <2> QED
    BY <2>1 DEF Confirming
<1>5. CASE Saves
  <2>1. turn.at = "key" => turn.runtime.stage = "FINAL_ORDER_REVIEW"
    BY DEF IInv, ConfirmingIsReviewed, Confirming
  <2> QED
    BY <1>5, <2>1, SavesStep DEF Confirming
<1>6. CASE LoseSession \/ WriteDispatch
  <2>1. CASE session' = NoRuntime
    BY <2>1, EmptyRuntimes
  <2>2. CASE recorder.at = "write" /\ session' = recorder.runtime
    <3>1. turn' = turn /\ forgotten \subseteq forgotten'
      BY <1>6, ReplacedStep DEF Forget
    <3>2. CASE SameButDispatch(recorder.runtime)
      <4>1. /\ session'.stage = session.stage /\ session'.order = session.order
            /\ session'.product = session.product /\ session'.cart = session.cart
        BY <1>0, <2>2, <3>2 DEF SameButDispatch, Runtime
      <4>2. SameButDispatch(turn.runtime) => turn.runtime = [session' EXCEPT !.dispatch = turn.runtime.dispatch]
        BY <1>0, <2>2, <3>2 DEF SameButDispatch, Runtime
      <4> QED
        BY <3>1, <4>1, <4>2 DEF SameButDispatch, IsRuntimeSession
    <3> QED
      BY <2>2, <3>1, <3>2 DEF RecorderInv
  <2> QED
    BY <1>6, <2>1, <2>2, ReplacedStep
<1>7. CASE RecorderMoves
  BY <1>7, RecorderStep DEF SameButDispatch, IsRuntimeSession
<1> QED
  BY <1>1, <1>2, <1>3, <1>4, <1>5, <1>6, <1>7, StepKinds

LEMMA NextKeepsRecorderInv == IInv /\ FinalInv /\ RecorderInv /\ [Next]_vars => RecorderInv'
<1> SUFFICES ASSUME IInv, FinalInv, RecorderInv, [Next]_vars PROVE RecorderInv'
  OBVIOUS
<1> USE DEF RecorderInv
<1>0. session \in Runtime
  BY DEF IInv, TypeOK
<1>1. CASE UNCHANGED vars
  BY <1>1 DEF vars, SameButDispatch
<1>2. CASE Elsewhere
  BY <1>2, ElsewhereStep DEF SameButDispatch
<1>3. CASE Begins \/ Revalidate \/ WriteOrder \/ PrepareReceipt \/ AbandonTurn
  <2>1. UNCHANGED <<catalog, session, recorder, forgotten>>
    BY <1>3, BeginsStep, RevalidateStep, WriteOrderStep, PrepareStep
  <2> QED
    BY <2>1 DEF SameButDispatch
\* The session changes while the recorder holds a copy
<1>4. CASE (Saves \/ LoseSession) /\ recorder' = recorder
  <2> SUFFICES ASSUME recorder.at = "write", recorder.runtime.stage = "CONFIRMED",
                      SameButDispatch(recorder.runtime)
               PROVE  SameButDispatch(recorder.runtime)' \/ recorder.runtime.order \in forgotten'
    BY <1>4, SavesStep, ReplacedStep DEF Forget
  <2>1. /\ session.stage = "CONFIRMED" /\ session.order = recorder.runtime.order
        /\ session.order \in Codes
    BY <1>0 DEF SameButDispatch, Runtime, IInv, Sound
  <2>2. CASE Saves
    <3>1. CASE turn.at \in {"key", "restore", "save"}
      BY <1>4, <2>1, <2>2, <3>1, SavesStep DEF FinalInv, Undone, Confirming
    <3>2. CASE turn.at = "append"
      <4>1. SameButDispatch(turn.runtime) =>
              recorder.runtime = [turn.runtime EXCEPT !.dispatch = recorder.runtime.dispatch]
        BY <1>0 DEF SameButDispatch, Runtime
      <4> QED
        BY <1>4, <2>1, <2>2, <3>2, <4>1, SavesStep DEF FinalInv, Undone, SameButDispatch
    <3>3. CASE turn.at = "reset"
      <4>1. Key(turn.runtime) = NoCode
        BY <3>3 DEF IInv, ReplacementIsEmpty
      <4> QED
        BY <2>1, <2>2, <3>3, <4>1, SavesStep, ConfirmationAssumption DEF Forget, Key
    <3> QED
      BY <2>2, <3>1, <3>2, <3>3, SavesStep
  <2>3. CASE LoseSession
    BY <2>1, <2>3, EmptyRuntimes, ConfirmationAssumption DEF LoseSession, Forget, Key
  <2> QED
    BY <1>4, <2>2, <2>3
<1>5. CASE WriteDispatch
  BY <1>5, EmptyRuntimes DEF WriteDispatch
<1>6. CASE RecorderMoves
  <2>1. session = [session EXCEPT !.dispatch = session.dispatch]
    BY <1>0 DEF Runtime
  <2> QED
    BY <1>6, <2>1, RecorderStep DEF SameButDispatch
<1>7. Saves \/ LoseSession => recorder' = recorder
  BY SavesStep DEF LoseSession, KeepRecorder
<1> QED
  BY <1>1, <1>2, <1>3, <1>4, <1>5, <1>6, <1>7, StepKinds

LEMMA AlwaysFinalInv == Spec => [](IInv /\ FinalInv /\ RecorderInv)
<1>1. Init => FinalInv /\ RecorderInv
  BY EmptyRuntimes DEF Init, FinalInv, RecorderInv
<1> QED
  BY <1>1, AlwaysIInv, NextKeepsFinalInv, NextKeepsRecorderInv, PTL DEF Spec

\* Whatever the customer sends, and whichever process writes the session late, a
\* confirmation is left as it is but by what MayUndo names.
THEOREM ConfirmedFinal == Spec => ConfirmedIsFinal
<1> DEFINE Kept == session.stage = "CONFIRMED" =>
                       session' = [session EXCEPT !.dispatch = session'.dispatch] \/ MayUndo
<1>1. ASSUME IInv, FinalInv, RecorderInv, [Next]_vars PROVE [Kept]_vars
  <2> SUFFICES ASSUME Next, session.stage = "CONFIRMED"
               PROVE  session' = [session EXCEPT !.dispatch = session'.dispatch] \/ MayUndo
    BY <1>1
  <2>1. session = [session EXCEPT !.dispatch = session.dispatch]
    BY <1>1 DEF IInv, TypeOK, Runtime
  <2>2. CASE session' = session
    BY <2>1, <2>2
  <2>3. CASE Saves
    <3>1. /\ session' = turn.runtime
          /\ turn.at \in {"key", "restore", "save", "append", "reset"}
      BY <1>1, <2>3, SavesStep
    <3> QED
      BY <1>1, <3>1 DEF FinalInv, Undone, SameButDispatch, MayUndo, Confirming
  <2>4. CASE WriteDispatch
    <3>1. recorder.at = "write" /\ session' = recorder.runtime
      BY <2>4 DEF WriteDispatch
    <3> QED
      BY <1>1, <2>4, <3>1 DEF RecorderInv, SameButDispatch, MayUndo
  <2>5. CASE LoseSession
    BY <2>5 DEF MayUndo
  <2>6. session' = session \/ Saves \/ LoseSession \/ WriteDispatch
    BY <1>1, StepKinds, ElsewhereStep, BeginsStep, RevalidateStep, RecorderStep,
       WriteOrderStep, PrepareStep
  <2> QED
    BY <2>2, <2>3, <2>4, <2>5, <2>6
<1> QED
  BY <1>1, AlwaysFinalInv, PTL DEF Spec, ConfirmedIsFinal

-----------------------------------------------------------------------------
(* The retained key is of no use to a retry for two reasons only: the         *)
(* receipt's branding is edited, or a review changes the cart, after the key  *)
(* was chosen.                                                                *)

\* The copies of the runtime that there are
Holders == {session, turn.runtime, recorder.runtime}

Unrevised ==
    /\ turn.at \in Confirming \/ (\E h \in Holders : h.pending # NoCode) => UNCHANGED branding
    /\ ReviewCart /\ session.pending # NoCode => turn'.runtime.cart = session.cart

\* Without them the order stored under a retained key, if any, is the one that
\* every holder of the key has, and a turn that confirms has read just that
FitInv ==
    /\ \A h \in Holders : h.pending # NoCode =>
          orders[h.pending] \in {NoOrder, [cart |-> h.cart, branding |-> branding]}
    /\ \A g, h \in Holders : g.pending = h.pending /\ g.pending # NoCode => g.cart = h.cart
    /\ turn.at \in Confirming => turn.seller.branding = branding
    /\ recorder.at = "rest" => recorder.runtime = NoRuntime

\* Nothing changes if every copy is of one there was, or holds no key
LEMMA CopiesKeepFitInv ==
    ASSUME FitInv, UNCHANGED <<orders, branding>>,
           \A g \in Holders' : \/ g.pending = NoCode
                               \/ \E h \in Holders : g.pending = h.pending /\ g.cart = h.cart,
           turn'.at \in Confirming => turn'.seller.branding = branding,
           recorder'.at = "rest" => recorder'.runtime = NoRuntime
    PROVE  FitInv'
<1>1. (\A h \in Holders : h.pending # NoCode =>
          orders[h.pending] \in {NoOrder, [cart |-> h.cart, branding |-> branding]})'
  BY DEF FitInv
<1>2. (\A g, h \in Holders : g.pending = h.pending /\ g.pending # NoCode => g.cart = h.cart)'
  BY DEF FitInv
<1> QED
  BY <1>1, <1>2 DEF FitInv

LEMMA NextKeepsFitInv == IInv /\ KeyInv /\ FitInv /\ [Next]_vars /\ [Unrevised]_vars => FitInv'
<1> SUFFICES ASSUME IInv, KeyInv, FitInv, [Next]_vars, [Unrevised]_vars PROVE FitInv'
  OBVIOUS
<1>1. CASE UNCHANGED vars
  BY <1>1 DEF vars, FitInv, Holders
<1>2. CASE Elsewhere
  <2>1. UNCHANGED <<session, turn, orders, recorder>>
    BY <1>2, ElsewhereStep
  <2>2. CASE UNCHANGED branding
    BY <2>1, <2>2 DEF FitInv, Holders
  <2>3. CASE turn.at \notin Confirming /\ \A h \in Holders : h.pending = NoCode
    BY <2>1, <2>3 DEF FitInv, Holders
  <2>4. branding' # branding => vars' # vars
    BY DEF vars
  <2> QED
    BY <2>2, <2>3, <2>4 DEF Unrevised
<1>3. CASE Begins
  <2>1. /\ UNCHANGED <<session, recorder, orders, branding>>
        /\ turn'.seller.branding = branding
        /\ \/ turn'.runtime.pending = NoCode
           \/ turn'.runtime.pending = session.pending /\ turn'.runtime.cart = session.cart
    <3>1. turn'.seller.branding = branding
      BY <1>3, BeginsStep DEF Settings
    <3>2. ReviewCart /\ session.pending # NoCode => turn'.runtime.cart = session.cart
      <4>1. turn.at = "rest" /\ (ReviewCart => turn'.at = "save")
        <5>1. ReviewCart => turn'.at = "save"
          BY DEF ReviewCart, TurnAt
        <5> QED
          BY <1>3, <5>1, BeginsStep
      <4>2. turn' # turn => vars' # vars
        BY DEF vars
      <4> QED
        BY <4>1, <4>2 DEF Unrevised
    <3> QED
      BY <1>3, <3>1, <3>2, BeginsStep
  <2> QED
    BY <2>1, CopiesKeepFitInv DEF Holders, FitInv
<1>4. CASE Revalidate
  <2>1. /\ UNCHANGED <<session, recorder, orders, branding>> /\ turn.at = "check"
        /\ turn'.seller.branding = branding
    BY <1>4, RevalidateStep DEF FitInv, Confirming
  <2>2. CASE turn'.runtime.pending = NoCode \/ turn'.runtime = turn.runtime
    BY <2>1, <2>2, CopiesKeepFitInv DEF Holders, FitInv
  <2>3. ASSUME turn.runtime.pending = NoCode, Unused(turn'.runtime.pending),
               turn'.runtime.pending \in Codes
        PROVE  FitInv'
    <3>1. Key(turn.runtime) = NoCode /\ Key(session) \in {NoCode} \cup Lost
      BY <1>4, <2>1, <2>3, RevalidateStep DEF Key, KeyInv
    <3>2. session.pending \in {NoCode} \cup Lost
      BY <3>1 DEF Key, IInv, Sound
    <3>3. recorder.at = "write" => recorder.runtime.pending \in {NoCode} \cup Lost
      BY <3>1 DEF Key, IInv, Sound, KeyInv, Expected
    <3>4. recorder.runtime.pending \in {NoCode} \cup Lost
      BY <3>3, EmptyRuntimes DEF FitInv, IInv, TypeOK
    <3>5. turn'.runtime.pending \notin {NoCode} \cup Lost /\ orders[turn'.runtime.pending] = NoOrder
      BY <2>3, ConfirmationAssumption DEF Unused, Lost
    <3>6. (\A h \in Holders : h.pending # NoCode =>
              orders[h.pending] \in {NoOrder, [cart |-> h.cart, branding |-> branding]})'
      BY <2>1, <3>5 DEF FitInv, Holders
    <3>7. (\A g, h \in Holders : g.pending = h.pending /\ g.pending # NoCode => g.cart = h.cart)'
      BY <2>1, <3>2, <3>4, <3>5 DEF FitInv, Holders
    <3> QED
      BY <2>1, <3>6, <3>7 DEF FitInv
  <2> QED
    BY <1>4, <2>2, <2>3, RevalidateStep
<1>5. CASE Saves
  <2>1. /\ UNCHANGED <<recorder, orders, branding>> /\ session' = turn.runtime
        /\ turn'.runtime \in {NoRuntime, turn.runtime}
        /\ turn'.at \in Confirming => turn'.seller.branding = branding
    BY <1>5, SavesStep DEF FitInv, Confirming
  <2> QED
    BY <2>1, CopiesKeepFitInv, EmptyRuntimes DEF Holders, FitInv
<1>6. CASE LoseSession \/ WriteDispatch
  <2>1. /\ UNCHANGED <<turn, orders, branding>>
        /\ session' \in {NoRuntime, recorder.runtime}
        /\ recorder'.runtime \in {NoRuntime, recorder.runtime}
        /\ recorder'.at = "rest" => recorder'.runtime = NoRuntime
    BY <1>6, ReplacedStep DEF FitInv
  <2> QED
    BY <2>1, CopiesKeepFitInv, EmptyRuntimes DEF Holders, FitInv
<1>7. CASE RecorderMoves
  <2>1. /\ UNCHANGED <<turn, session, orders, branding>>
        /\ recorder'.runtime.pending = NoCode \/ recorder'.runtime = session
        /\ recorder'.at = "rest" => recorder'.runtime = NoRuntime
    BY <1>7, RecorderStep, EmptyRuntimes
  <2> QED
    BY <2>1, CopiesKeepFitInv DEF Holders, FitInv
<1>8. CASE WriteOrder
  <2>1. /\ UNCHANGED <<session, recorder, branding>> /\ turn'.runtime = turn.runtime
        /\ turn'.seller.branding = branding /\ turn.at \in Confirming
    BY <1>8, WriteOrderStep DEF FitInv, Confirming
  <2>2. Snapshot = [cart |-> turn.runtime.cart, branding |-> branding]
    BY <2>1 DEF FitInv, Snapshot
  <2>3. (\A h \in Holders : h.pending # NoCode =>
            orders[h.pending] \in {NoOrder, [cart |-> h.cart, branding |-> branding]})'
    <3> SUFFICES ASSUME NEW h \in Holders, h.pending # NoCode
                 PROVE  orders'[h.pending] \in {NoOrder, [cart |-> h.cart, branding |-> branding]}
      BY <2>1 DEF Holders
    <3>1. h.pending \in Codes
      BY DEF Holders, IInv, TypeOK, Runtime
    <3>2. CASE h.pending = turn.runtime.pending
      <4>1. h.cart = turn.runtime.cart
        BY <3>2 DEF FitInv, Holders
      <4> QED
        BY <1>8, <2>2, <3>2, <4>1, WriteOrderStep DEF FitInv
    <3>3. CASE h.pending # turn.runtime.pending
      BY <1>8, <3>1, <3>3, WriteOrderStep DEF FitInv
    <3> QED
      BY <3>2, <3>3
  <2> QED
    BY <2>1, <2>3 DEF FitInv, Holders
<1>9. CASE PrepareReceipt \/ AbandonTurn
  <2>1. /\ UNCHANGED <<session, recorder, orders, branding>>
        /\ turn'.runtime.pending = NoCode /\ turn'.at \notin Confirming
    BY <1>9, PrepareStep, EmptyRuntimes DEF Confirming
  <2> QED
    BY <2>1, CopiesKeepFitInv DEF Holders, FitInv
<1> QED
  BY <1>1, <1>2, <1>3, <1>4, <1>5, <1>6, <1>7, <1>8, <1>9, StepKinds

\* RetainedKeyFits fails through those two causes only: as long as neither
\* happens, no failure, crash, lost reply, edit of the catalog or replacement of
\* the session makes a retry a conflict.
THEOREM RetryFits == Spec /\ [][Unrevised]_vars => []RetainedKeyFits
<1>1. Init => KeyInv /\ FitInv
  <2> SUFFICES ASSUME Init PROVE KeyInv /\ FitInv
    OBVIOUS
  <2>1. /\ \A h \in Holders : h.pending = NoCode
        /\ turn.at = "rest" /\ recorder.at = "rest" /\ recorder.runtime = NoRuntime
    BY EmptyRuntimes DEF Init, Holders
  <2>2. \A c \in Codes : orders[c] = NoOrder
    BY DEF Init
  <2> QED
    BY <2>1, <2>2 DEF KeyInv, FitInv, Confirming
<1>2. IInv /\ FitInv => RetainedKeyFits
  BY ConfirmationAssumption DEF IInv, ConfirmingIsReviewed, FitInv, RetainedKeyFits,
                                Holders, Snapshot, Confirming
<1> QED
  BY <1>1, <1>2, AlwaysIInv, NextKeepsKeyInv, NextKeepsFitInv, PTL DEF Spec
=============================================================================
