------------------------- MODULE CartRuntime_proofs -------------------------
(***************************************************************************)
(* CartRuntime for any product, limits and offer: no turn changes a line   *)
(* that the customer has not opened, every stage has the cart it works on, *)
(* and a turn is thrown only where two lines become alike.                 *)
(***************************************************************************)
EXTENDS CartRuntime, FiniteSetTheorems, WellFoundedInduction, TLAPS

\* The fields a runtime and its cart have, whatever they hold
CartFields == {"status", "target", "offer", "implicit", "fields", "ids", "lines", "draft"}

Shaped(r) ==
    /\ DOMAIN r = {"stage", "entry", "checkout", "shortcut", "review", "edit", "cart"}
    /\ DOMAIN r.cart = CartFields

\* A draft has an identifier that no line has, and quantities can be added
LinesInv(c) ==
    /\ c.ids \in Nat /\ DOMAIN c.lines \subseteq 1..c.ids
    /\ \A i \in DOMAIN c.lines :
         DOMAIN c.lines[i] = {"options", "quantity"} /\ c.lines[i].quantity \in Nat
    /\ DOMAIN c.draft = {"id", "options", "quantity"}
    /\ c.draft.id \in (0..c.ids) \ DOMAIN c.lines /\ c.draft.quantity \in Nat

Opened == {runtime.review.selected, runtime.review.awaiting, runtime.edit.source}

IInv(r) == Shaped(r) /\ LinesInv(r.cart)

Unchanged(old, new, i) ==
    i \in DOMAIN new /\ new[i].options = old[i].options /\ new[i].quantity >= old[i].quantity

\* What a turn may save
Keeps(r) ==
    IInv(r) /\ \A i \in DOMAIN runtime.cart.lines \ Opened : Unchanged(runtime.cart.lines, r.cart.lines, i)

Kept == IInv(runtime') /\ \A i \in DOMAIN runtime.cart.lines \ Opened :
            Unchanged(runtime.cart.lines, runtime'.cart.lines, i)

LEMMA SelfUnchanged ==
    ASSUME IInv(runtime)
    PROVE  \A i \in DOMAIN runtime.cart.lines : Unchanged(runtime.cart.lines, runtime.cart.lines, i)
<1> TAKE i \in DOMAIN runtime.cart.lines
<1>1. runtime.cart.lines[i].quantity \in Nat
  BY DEF IInv, LinesInv
<1> QED
  BY <1>1 DEF Unchanged

LEMMA TurnKeeps ==
    ASSUME IInv(runtime), NEW r, Keeps(r), Turn(r)
    PROVE  Kept
<1>1. CASE runtime' = r
  BY <1>1 DEF Kept, Keeps, IInv, Shaped, LinesInv
<1>2. CASE runtime' = runtime
  BY <1>2, SelfUnchanged DEF Kept, IInv, Shaped, LinesInv
<1> QED
  BY <1>1, <1>2 DEF Turn

\* Turns that save another stage, editor or selection with the same lines and draft
LEMMA SameLinesKeeps ==
    ASSUME IInv(runtime), NEW r, Shaped(r),
           r.cart.lines = runtime.cart.lines, r.cart.draft = runtime.cart.draft,
           r.cart.ids = runtime.cart.ids
    PROVE  Keeps(r)
<1>1. LinesInv(r.cart)
  BY DEF IInv, LinesInv
<1> QED
  BY <1>1, SelfUnchanged DEF Keeps, IInv

\* The planning questions, refused buttons, lists and the editor's opening
LEMMA StageTurns ==
    ASSUME IInv(runtime),
           \/ OrderNow \/ EntryOption
           \/ RefusedInReview \/ ShowLines \/ UnreadableQuantity \/ CloseEditor \/ EditDelivery
    PROVE  Kept
<1>0. Shaped(runtime)
  BY DEF IInv
<1>1. CASE OrderNow
  <2>1. PICK pending, r : r = [runtime EXCEPT !.stage = "PLANNING", !.entry = pending] /\ Turn(r)
    BY <1>1 DEF OrderNow
  <2>2. Shaped(r) /\ r.cart = runtime.cart
    BY <1>0, <2>1 DEF Shaped
  <2> QED
    BY <2>1, <2>2, TurnKeeps, SameLinesKeeps
<1>2. CASE EntryOption
  <2>1. PICK g, v, r : r = [runtime EXCEPT !.entry[g] = v] /\ Turn(r)
    BY <1>2 DEF EntryOption
  <2>2. Shaped(r) /\ r.cart = runtime.cart
    BY <1>0, <2>1 DEF Shaped
  <2> QED
    BY <2>1, <2>2, TurnKeeps, SameLinesKeeps
<1>3. CASE RefusedInReview
  <2>1. PICK r : r = [runtime EXCEPT !.stage = "CART_REVIEW"] /\ Turn(r)
    BY <1>3 DEF RefusedInReview
  <2>2. Shaped(r) /\ r.cart = runtime.cart
    BY <1>0, <2>1 DEF Shaped
  <2> QED
    BY <2>1, <2>2, TurnKeeps, SameLinesKeeps
<1>4. CASE ShowLines
  <2>1. PICK r : r = [runtime EXCEPT !.stage = "CART_REVIEW", !.edit = NoEdit,
                                      !.review = NoReview(@.accepted)] /\ Turn(r)
    BY <1>4 DEF ShowLines
  <2>2. Shaped(r) /\ r.cart = runtime.cart
    BY <1>0, <2>1 DEF Shaped
  <2> QED
    BY <2>1, <2>2, TurnKeeps, SameLinesKeeps
<1>5. CASE UnreadableQuantity
  <2>1. PICK r : r = [runtime EXCEPT !.stage = "EDITING_CART_ITEM"] /\ Turn(r)
    BY <1>5 DEF UnreadableQuantity
  <2>2. Shaped(r) /\ r.cart = runtime.cart
    BY <1>0, <2>1 DEF Shaped
  <2> QED
    BY <2>1, <2>2, TurnKeeps, SameLinesKeeps
<1>6. CASE CloseEditor
  <2>1. PICK r : r = [runtime EXCEPT !.stage = "CART_REVIEW", !.edit = NoEdit] /\ Turn(r)
    BY <1>6 DEF CloseEditor
  <2>2. Shaped(r) /\ r.cart = runtime.cart
    BY <1>0, <2>1 DEF Shaped
  <2> QED
    BY <2>1, <2>2, TurnKeeps, SameLinesKeeps
<1>7. CASE EditDelivery
  <2>1. PICK r : r = [runtime EXCEPT !.checkout = "editing"] /\ Turn(r)
    BY <1>7 DEF EditDelivery
  <2>2. Shaped(r) /\ r.cart = runtime.cart
    BY <1>0, <2>1 DEF Shaped
  <2> QED
    BY <2>1, <2>2, TurnKeeps, SameLinesKeeps
<1> QED
  BY <1>1, <1>2, <1>3, <1>4, <1>5, <1>6, <1>7

-----------------------------------------------------------------------------
(* The operations of the cart *)

CartOK(c) == DOMAIN c = CartFields /\ LinesInv(c)

\* Every line of c is still in d, with its options and at least its quantity
Grows(c, d) == CartOK(d) /\ \A i \in DOMAIN c.lines : Unchanged(c.lines, d.lines, i)

LEMMA SameGrows ==
    ASSUME NEW c, CartOK(c), NEW d, DOMAIN d = CartFields,
           d.lines = c.lines, d.draft = c.draft, d.ids = c.ids
    PROVE  Grows(c, d)
<1>1. \A i \in DOMAIN c.lines : c.lines[i].quantity \in Nat
  BY DEF CartOK, LinesInv
<1> QED
  BY <1>1 DEF CartOK, LinesInv, Grows, Unchanged

LEMMA DraftGrows ==
    ASSUME NEW c, CartOK(c), NEW d, DOMAIN d = CartFields, d.lines = c.lines, d.ids = c.ids,
           DOMAIN d.draft = {"id", "options", "quantity"},
           d.draft.id = c.draft.id, d.draft.quantity \in Nat
    PROVE  Grows(c, d)
<1>1. \A i \in DOMAIN c.lines : c.lines[i].quantity \in Nat
  BY DEF CartOK, LinesInv
<1> QED
  BY <1>1 DEF CartOK, LinesInv, Grows, Unchanged

LEMMA GrowsTransitive ==
    ASSUME NEW c, NEW d, NEW e, CartOK(c), Grows(c, d), Grows(d, e)
    PROVE  Grows(c, e)
<1>1. ASSUME NEW i \in DOMAIN c.lines
      PROVE  Unchanged(c.lines, e.lines, i)
  <2>1. Unchanged(c.lines, d.lines, i) /\ Unchanged(d.lines, e.lines, i)
    BY <1>1 DEF Grows, Unchanged
  <2>2. /\ c.lines[i].quantity \in Nat /\ d.lines[i].quantity \in Nat
        /\ e.lines[i].quantity \in Nat
    BY <1>1, <2>1 DEF Grows, CartOK, LinesInv, Unchanged
  <2> QED
    BY <2>1, <2>2 DEF Unchanged
<1> QED
  BY <1>1 DEF Grows

LEMMA StartPieceGrows ==
    ASSUME NEW c, CartOK(c)
    PROVE  Grows(c, StartPiece(c))
<1>1. PICK d : d = StartPiece(c)
  OBVIOUS
<1>2. /\ DOMAIN d = CartFields /\ d.lines = c.lines /\ d.ids = c.ids + 1
      /\ DOMAIN d.draft = {"id", "options", "quantity"}
      /\ d.draft.id = c.ids + 1 /\ d.draft.quantity = 0
  BY <1>1 DEF StartPiece, NoDraft, CartOK, CartFields
<1>3. \A i \in DOMAIN c.lines : c.lines[i].quantity \in Nat
  BY DEF CartOK, LinesInv
<1>4. LinesInv(d)
  BY <1>2 DEF CartOK, LinesInv
<1> QED
  BY <1>1, <1>2, <1>3, <1>4 DEF Grows, CartOK, Unchanged

LEMMA NextPieceGrows ==
    ASSUME NEW c, CartOK(c)
    PROVE  Grows(c, NextPiece(c))
<1>1. PICK d : d = [c EXCEPT !.status = "CART_REVIEW"]
  OBVIOUS
<1>2. DOMAIN d = CartFields /\ d.lines = c.lines /\ d.draft = c.draft /\ d.ids = c.ids
  BY <1>1 DEF CartOK, CartFields
<1> QED
  BY <1>1, <1>2, SameGrows, StartPieceGrows DEF NextPiece

\* A finished piece adds to lines alike or becomes a line of its own
LEMMA FinalizeGrows ==
    ASSUME NEW c, NEW facts, CartOK(c), c.draft.id # 0
    PROVE  Grows(c, Finalize(c, facts))
<1> DEFINE quantity == IF c.implicit THEN 1 ELSE c.draft.quantity
           joined == Alike(c, facts)
           more == [i \in DOMAIN c.lines |->
                      IF i \in joined THEN [c.lines[i] EXCEPT !.quantity = @ + quantity] ELSE c.lines[i]]
           new == [i \in DOMAIN c.lines \cup {c.draft.id} |->
                     IF i = c.draft.id THEN [options |-> c.draft.options, quantity |-> quantity]
                     ELSE c.lines[i]]
           lines == IF joined # {} THEN more ELSE new
<1>1. /\ quantity \in Nat
      /\ \A i \in DOMAIN c.lines : /\ DOMAIN c.lines[i] = {"options", "quantity"}
                                   /\ c.lines[i].quantity \in Nat
      /\ c.draft.id \in 1..c.ids /\ c.draft.id \notin DOMAIN c.lines /\ c.ids \in Nat
  BY DEF CartOK, LinesInv
<1>2. /\ \A i \in DOMAIN c.lines : Unchanged(c.lines, lines, i)
      /\ DOMAIN lines \subseteq 1..c.ids
      /\ \A i \in DOMAIN lines : /\ DOMAIN lines[i] = {"options", "quantity"}
                                 /\ lines[i].quantity \in Nat
  <2>1. CASE joined # {}
    <3>1. ASSUME NEW i \in DOMAIN c.lines
          PROVE  /\ more[i].options = c.lines[i].options /\ more[i].quantity >= c.lines[i].quantity
                 /\ DOMAIN more[i] = {"options", "quantity"} /\ more[i].quantity \in Nat
      <4>1. more[i] = IF i \in joined THEN [c.lines[i] EXCEPT !.quantity = @ + quantity] ELSE c.lines[i]
        BY <3>1
      <4> HIDE DEF quantity, joined, more
      <4>2. CASE i \in joined
        <5>1. more[i] = [c.lines[i] EXCEPT !.quantity = c.lines[i].quantity + quantity]
          BY <4>1, <4>2
        <5> QED
          BY <1>1, <3>1, <5>1
      <4>3. CASE i \notin joined
        BY <1>1, <3>1, <4>1, <4>3
      <4> QED
        BY <4>2, <4>3
    <3> HIDE DEF quantity, joined
    <3>2. DOMAIN more = DOMAIN c.lines
      OBVIOUS
    <3> HIDE DEF more
    <3> QED
      BY <2>1, <3>1, <3>2 DEF Unchanged, CartOK, LinesInv
  <2>2. CASE joined = {}
    <3>1. ASSUME NEW i \in DOMAIN c.lines
          PROVE  new[i] = c.lines[i]
      BY <1>1, <3>1
    <3>2. new[c.draft.id] = [options |-> c.draft.options, quantity |-> quantity]
      OBVIOUS
    <3>3. DOMAIN new = DOMAIN c.lines \cup {c.draft.id}
      OBVIOUS
    <3>4. lines = new
      BY <2>2
    <3> HIDE DEF quantity, joined, new, lines
    <3>5. \A i \in DOMAIN c.lines : Unchanged(c.lines, new, i)
      BY <1>1, <3>1, <3>3 DEF Unchanged
    <3>6. DOMAIN new \subseteq 1..c.ids
      BY <1>1, <3>3 DEF CartOK, LinesInv
    <3>7. DOMAIN new[c.draft.id] = {"options", "quantity"} /\ new[c.draft.id].quantity \in Nat
      BY <1>1, <3>2
    <3> QED
      BY <1>1, <3>1, <3>3, <3>4, <3>5, <3>6, <3>7
  <2> QED
    BY <2>1, <2>2
<1> HIDE DEF quantity, joined, lines
<1>3. PICK d : d = [c EXCEPT !.lines = lines, !.draft = NoDraft]
  OBVIOUS
<1>4. DOMAIN d = CartFields /\ d.lines = lines /\ d.draft = NoDraft /\ d.ids = c.ids
  BY <1>3 DEF CartOK, CartFields
<1>5. CartOK(d)
  BY <1>1, <1>2, <1>4 DEF CartOK, LinesInv, NoDraft
<1>6. Grows(c, d)
  BY <1>2, <1>4, <1>5 DEF Grows
<1>7. Grows(c, NextPiece(d))
  BY <1>5, <1>6, NextPieceGrows, GrowsTransitive
<1>8. Grows(c, c)
  BY SameGrows DEF CartOK
<1>9. Finalize(c, facts) \in {c, NextPiece(d)}
  BY <1>3 DEF Finalize, lines, quantity, joined
<1> QED
  BY <1>7, <1>8, <1>9

LEMMA AutoFinalizeGrows ==
    ASSUME NEW c, NEW facts, CartOK(c)
    PROVE  Grows(c, AutoFinalize(c, facts))
<1>1. Grows(c, c)
  BY SameGrows DEF CartOK
<1> QED
  BY <1>1, FinalizeGrows DEF AutoFinalize

-----------------------------------------------------------------------------
(* The turns that collect pieces *)

LEMMA GrownKeeps ==
    ASSUME IInv(runtime), NEW r, Shaped(r), Grows(runtime.cart, r.cart)
    PROVE  Keeps(r)
BY DEF Grows, Keeps, IInv, CartOK

LEMMA RuntimeCartOK ==
    ASSUME IInv(runtime)
    PROVE  CartOK(runtime.cart)
BY DEF IInv, Shaped, CartOK

LEMMA CollectedKeeps ==
    ASSUME IInv(runtime), NEW r, Shaped(r), NEW d, Grows(runtime.cart, d), Turn(Collected(r, d))
    PROVE  Kept
<1>1. PICK q : q = Collected(r, d)
  OBVIOUS
<1>2. DOMAIN q = DOMAIN r /\ q.cart = d
  BY <1>1 DEF Collected, Shaped
<1>3. Shaped(q)
  BY <1>2 DEF Shaped, Grows, CartOK
<1> QED
  BY <1>1, <1>2, <1>3, GrownKeeps, TurnKeeps

LEMMA PlanKept ==
    ASSUME IInv(runtime), NEW n, NEW offer, Plan(n, offer)
    PROVE  Kept
<1> DEFINE c == [runtime.cart EXCEPT !.target = n, !.offer = offer, !.implicit = TRUE]
           e == [StartPiece(c) EXCEPT !.draft.options = runtime.entry]
           r == [runtime EXCEPT !.entry = Blank]
<1>1. CartOK(runtime.cart) /\ Shaped(runtime)
  BY RuntimeCartOK DEF IInv
<1>2. Grows(runtime.cart, c)
  <2>1. /\ DOMAIN c = CartFields /\ c.lines = runtime.cart.lines
        /\ c.draft = runtime.cart.draft /\ c.ids = runtime.cart.ids
    BY <1>1 DEF CartOK, CartFields
  <2> HIDE DEF c
  <2> QED
    BY <1>1, <2>1, SameGrows
<1> HIDE DEF c
<1>3. Grows(c, StartPiece(c))
  BY <1>2, StartPieceGrows DEF Grows
<1>4. Grows(StartPiece(c), e)
  <2>1. PICK s : s = StartPiece(c)
    OBVIOUS
  <2>2. CartOK(s)
    BY <1>3, <2>1 DEF Grows
  <2>3. /\ DOMAIN e = CartFields /\ e.lines = s.lines /\ e.ids = s.ids
        /\ DOMAIN e.draft = {"id", "options", "quantity"}
        /\ e.draft.id = s.draft.id /\ e.draft.quantity = s.draft.quantity
    BY <2>1, <2>2 DEF CartOK, CartFields, LinesInv
  <2>4. e.draft.quantity \in Nat
    BY <2>2, <2>3 DEF CartOK, LinesInv
  <2> HIDE DEF e
  <2> QED
    BY <2>1, <2>2, <2>3, <2>4, DraftGrows
<1> HIDE DEF e
<1>5. Grows(e, AutoFinalize(e, Blank))
  BY <1>4, AutoFinalizeGrows DEF Grows
<1>6. Grows(runtime.cart, AutoFinalize(e, Blank))
  <2>1. Grows(c, e)
    BY <1>2, <1>3, <1>4, GrowsTransitive DEF Grows
  <2>2. Grows(runtime.cart, e)
    BY <1>1, <1>2, <2>1, GrowsTransitive
  <2> QED
    BY <1>1, <1>5, <2>2, GrowsTransitive
<1>7. Shaped(r)
  BY <1>1 DEF Shaped
<1>8. Turn(Collected(r, AutoFinalize(e, Blank)))
  BY DEF Plan, c, e
<1> HIDE DEF r
<1> QED
  BY <1>6, <1>7, <1>8, CollectedKeeps

\* What is chosen for the draft leaves the lines alone
LEMMA ChosenKept ==
    ASSUME IInv(runtime), NEW r, Shaped(r), NEW d, NEW facts,
           DOMAIN d = CartFields, d.lines = runtime.cart.lines, d.ids = runtime.cart.ids,
           DOMAIN d.draft = {"id", "options", "quantity"},
           d.draft.id = runtime.cart.draft.id, d.draft.quantity \in Nat
    PROVE  /\ Turn(Collected(r, AutoFinalize(d, facts))) => Kept
           /\ d.draft.id # 0 /\ Turn(Collected(r, Finalize(d, facts))) => Kept
<1>1. CartOK(runtime.cart)
  BY RuntimeCartOK
<1>2. Grows(runtime.cart, d)
  BY <1>1, DraftGrows
<1>3. Grows(d, AutoFinalize(d, facts)) /\ (d.draft.id # 0 => Grows(d, Finalize(d, facts)))
  BY <1>2, AutoFinalizeGrows, FinalizeGrows DEF Grows
<1>4. /\ Grows(runtime.cart, AutoFinalize(d, facts))
      /\ d.draft.id # 0 => Grows(runtime.cart, Finalize(d, facts))
  BY <1>1, <1>2, <1>3, GrowsTransitive
<1> QED
  BY <1>4, CollectedKeeps

LEMMA CollectionTurns ==
    ASSUME IInv(runtime),
           \/ ChooseQuantity \/ ChooseOffer
           \/ SameAsPrevious \/ DifferentChoices \/ RefusedInCollection
           \/ \E n \in 1..MaxTarget : PieceQuantity(n)
           \/ \E t \in 1..runtime.cart.ids, g \in 1..Groups, v \in Values : ItemOption(t, g, v)
    PROVE  Kept
<1>0. /\ Shaped(runtime) /\ CartOK(runtime.cart) /\ DOMAIN runtime.cart = CartFields
      /\ DOMAIN runtime.cart.draft = {"id", "options", "quantity"}
      /\ runtime.cart.draft.quantity \in Nat
  BY RuntimeCartOK DEF IInv, CartOK, LinesInv
<1>1. CASE ChooseQuantity \/ ChooseOffer
  BY <1>1, PlanKept DEF ChooseQuantity, ChooseOffer
<1>2. CASE SameAsPrevious
  <2>1. PICK d, r : /\ d = [runtime.cart EXCEPT !.draft.options =
                              runtime.cart.lines[Max(DOMAIN runtime.cart.lines)].options]
                    /\ r = [runtime EXCEPT !.shortcut.decision = "same"]
                    /\ Turn(Collected(r, AutoFinalize(d, Blank)))
    BY <1>2 DEF SameAsPrevious
  <2>2. /\ Shaped(r) /\ DOMAIN d = CartFields /\ d.lines = runtime.cart.lines
        /\ d.ids = runtime.cart.ids /\ DOMAIN d.draft = {"id", "options", "quantity"}
        /\ d.draft.id = runtime.cart.draft.id /\ d.draft.quantity = runtime.cart.draft.quantity
    BY <1>0, <2>1 DEF Shaped, CartFields
  <2> QED
    BY <1>0, <2>1, <2>2, ChosenKept
<1>3. CASE DifferentChoices
  <2>1. PICK r : r = [runtime EXCEPT !.shortcut.decision = "different"] /\ Turn(Collected(r, runtime.cart))
    BY <1>3 DEF DifferentChoices
  <2>2. Shaped(r) /\ Grows(runtime.cart, runtime.cart)
    BY <1>0, <2>1, SameGrows DEF Shaped
  <2> QED
    BY <2>1, <2>2, CollectedKeeps
<1>4. CASE RefusedInCollection
  BY <1>0, <1>4, ChosenKept DEF RefusedInCollection
<1>5. CASE \E n \in 1..MaxTarget : PieceQuantity(n)
  <2>1. PICK n, d :
          /\ n \in 1..MaxTarget /\ d = [runtime.cart EXCEPT !.draft.quantity = n]
          /\ runtime.cart.draft.id # 0
          /\ Turn(Collected(runtime, Finalize(d, runtime.cart.draft.options)))
    BY <1>5 DEF PieceQuantity
  <2>2. /\ DOMAIN d = CartFields /\ d.lines = runtime.cart.lines
        /\ d.ids = runtime.cart.ids /\ DOMAIN d.draft = {"id", "options", "quantity"}
        /\ d.draft.id = runtime.cart.draft.id /\ d.draft.quantity = n
    BY <1>0, <2>1 DEF CartFields
  <2>3. n \in Nat
    BY <2>1, CartAssumption
  <2> QED
    BY <1>0, <2>1, <2>2, <2>3, ChosenKept
<1>6. CASE \E t \in 1..runtime.cart.ids, g \in 1..Groups, v \in Values : ItemOption(t, g, v)
  <2>1. PICK g, v, d : /\ d = [runtime.cart EXCEPT !.draft.options[g] = v]
                       /\ Turn(Collected(runtime, AutoFinalize(d, runtime.cart.draft.options)))
    BY <1>6 DEF ItemOption
  <2>2. /\ DOMAIN d = CartFields /\ d.lines = runtime.cart.lines
        /\ d.ids = runtime.cart.ids /\ DOMAIN d.draft = {"id", "options", "quantity"}
        /\ d.draft.id = runtime.cart.draft.id /\ d.draft.quantity = runtime.cart.draft.quantity
    BY <1>0, <2>1 DEF CartFields
  <2> QED
    BY <1>0, <2>1, <2>2, ChosenKept
<1> QED
  BY <1>1, <1>2, <1>3, <1>4, <1>5, <1>6

-----------------------------------------------------------------------------
(* The turns of the review and of the editor *)

\* Only lines that are open differ
Touches(d) ==
    CartOK(d) /\ \A i \in DOMAIN runtime.cart.lines \ Opened : Unchanged(runtime.cart.lines, d.lines, i)

LEMMA TouchedKept ==
    ASSUME IInv(runtime), NEW r, Shaped(r), Touches(r.cart), Turn(r)
    PROVE  Kept
BY TurnKeeps DEF Touches, Keeps, IInv, CartOK

LEMMA SameTouches ==
    ASSUME IInv(runtime), NEW d, DOMAIN d = CartFields, d.lines = runtime.cart.lines,
           d.draft = runtime.cart.draft, d.ids = runtime.cart.ids
    PROVE  Touches(d)
BY SelfUnchanged DEF Touches, IInv, CartOK, LinesInv

\* A new target changes nothing else
LEMMA SynchronizedTouches ==
    ASSUME NEW d, Touches(d)
    PROVE  Touches(Synchronized(d))
<1>1. PICK e : e = Synchronized(d)
  OBVIOUS
<1>2. DOMAIN e = CartFields /\ e.lines = d.lines /\ e.draft = d.draft /\ e.ids = d.ids
  BY <1>1 DEF Synchronized, Touches, CartOK, CartFields
<1> QED
  BY <1>1, <1>2 DEF Touches, CartOK, LinesInv

LEMMA AfterReviewKept ==
    ASSUME IInv(runtime), NEW d, Touches(d), NEW accepted, AfterReview(d, accepted)
    PROVE  Kept
<1>1. PICK r : /\ r = [runtime EXCEPT !.stage = "CART_REVIEW", !.cart = d, !.review = NoReview(accepted)]
               /\ Turn(r)
  BY DEF AfterReview
<1>2. Shaped(r) /\ r.cart = d
  BY <1>1 DEF IInv, Shaped, Touches, CartOK
<1> QED
  BY <1>1, <1>2, TouchedKept

\* The line that is open gets another quantity, or other options
LEMMA LineTouches ==
    ASSUME IInv(runtime), NEW i \in Opened, NEW d, DOMAIN d = CartFields,
           d.draft = runtime.cart.draft, d.ids = runtime.cart.ids,
           DOMAIN d.lines = DOMAIN runtime.cart.lines,
           \A j \in DOMAIN d.lines \ {i} : d.lines[j] = runtime.cart.lines[j],
           i \in DOMAIN d.lines =>
              DOMAIN d.lines[i] = {"options", "quantity"} /\ d.lines[i].quantity \in Nat
    PROVE  Touches(d)
<1>1. CartOK(d)
  BY DEF IInv, CartOK, LinesInv
<1> QED
  BY <1>1, SelfUnchanged DEF Touches, Unchanged

LEMMA ReplacedTouches ==
    ASSUME IInv(runtime), NEW options
    PROVE  Touches(Replaced(runtime.cart, runtime.edit.source, options))
<1>1. PICK i, d : i = runtime.edit.source /\ d = [runtime.cart EXCEPT !.lines[i].options = options]
  OBVIOUS
<1>2. CartOK(runtime.cart) /\ i \in Opened
  BY <1>1, RuntimeCartOK DEF Opened
<1>3. /\ DOMAIN d = CartFields /\ d.draft = runtime.cart.draft /\ d.ids = runtime.cart.ids
      /\ d.lines = [runtime.cart.lines EXCEPT ![i].options = options]
  BY <1>1, <1>2 DEF CartOK, CartFields
<1>4. /\ DOMAIN d.lines = DOMAIN runtime.cart.lines
      /\ \A j \in DOMAIN d.lines \ {i} : d.lines[j] = runtime.cart.lines[j]
      /\ i \in DOMAIN d.lines =>
           /\ DOMAIN d.lines[i] = {"options", "quantity"}
           /\ d.lines[i].quantity = runtime.cart.lines[i].quantity
  BY <1>2, <1>3 DEF CartOK, LinesInv
<1>5. Touches(d)
  BY <1>2, <1>3, <1>4, LineTouches DEF CartOK, LinesInv
<1> QED
  BY <1>1, <1>5, SynchronizedTouches DEF Replaced

LEMMA WithQuantityTouches ==
    ASSUME IInv(runtime), NEW n \in Nat
    PROVE  Touches(WithQuantity(runtime.cart, runtime.review.awaiting, n))
<1>1. PICK i, d : i = runtime.review.awaiting /\ d = [runtime.cart EXCEPT !.lines[i].quantity = n]
  OBVIOUS
<1>2. CartOK(runtime.cart) /\ i \in Opened
  BY <1>1, RuntimeCartOK DEF Opened
<1>3. /\ DOMAIN d = CartFields /\ d.draft = runtime.cart.draft /\ d.ids = runtime.cart.ids
      /\ d.lines = [runtime.cart.lines EXCEPT ![i].quantity = n]
  BY <1>1, <1>2 DEF CartOK, CartFields
<1>4. /\ DOMAIN d.lines = DOMAIN runtime.cart.lines
      /\ \A j \in DOMAIN d.lines \ {i} : d.lines[j] = runtime.cart.lines[j]
      /\ i \in DOMAIN d.lines =>
           DOMAIN d.lines[i] = {"options", "quantity"} /\ d.lines[i].quantity = n
  BY <1>2, <1>3 DEF CartOK, LinesInv
<1>5. Touches(Synchronized(d))
  BY <1>2, <1>3, <1>4, LineTouches, SynchronizedTouches
<1>6. Touches(runtime.cart)
  BY <1>2, SameTouches DEF CartOK
<1> QED
  BY <1>1, <1>5, <1>6 DEF WithQuantity

LEMMA RemoveTouches ==
    ASSUME IInv(runtime), NEW i \in Opened, NEW d,
           d = [runtime.cart EXCEPT !.lines = [j \in DOMAIN runtime.cart.lines \ {i} |-> runtime.cart.lines[j]]]
    PROVE  Touches(d)
<1>1. CartOK(runtime.cart)
  BY RuntimeCartOK
<1>2. /\ DOMAIN d = CartFields /\ d.draft = runtime.cart.draft /\ d.ids = runtime.cart.ids
      /\ d.lines = [j \in DOMAIN runtime.cart.lines \ {i} |-> runtime.cart.lines[j]]
  BY <1>1 DEF CartOK, CartFields
<1>3. /\ DOMAIN d.lines = DOMAIN runtime.cart.lines \ {i}
      /\ \A j \in DOMAIN d.lines : d.lines[j] = runtime.cart.lines[j]
  BY <1>2
<1>4. CartOK(d)
  BY <1>1, <1>2, <1>3 DEF CartOK, LinesInv
<1> QED
  BY <1>3, <1>4, SelfUnchanged DEF Touches, Unchanged

LEMMA ReviewTurns ==
    ASSUME IInv(runtime),
           \/ \E n \in 1..MaxTarget : LineQuantity(n)
           \/ UseStandard \/ AddPiece
           \/ \E i \in DOMAIN runtime.cart.lines : SelectLine(i) \/ ChangeQuantity(i) \/ RemoveLine(i)
    PROVE  Kept
<1>0. /\ Shaped(runtime) /\ CartOK(runtime.cart) /\ DOMAIN runtime.cart = CartFields
      /\ Touches(runtime.cart)
  BY RuntimeCartOK, SameTouches DEF IInv, CartOK
<1>1. CASE \E n \in 1..MaxTarget : LineQuantity(n)
  <2>1. PICK n \in 1..MaxTarget :
          AfterReview(WithQuantity(runtime.cart, runtime.review.awaiting, n), FALSE)
    BY <1>1 DEF LineQuantity
  <2>2. Touches(WithQuantity(runtime.cart, runtime.review.awaiting, n))
    BY CartAssumption, WithQuantityTouches
  <2> QED
    BY <2>1, <2>2, AfterReviewKept
<1>2. CASE UseStandard
  <2>1. PICK d : d = [runtime.cart EXCEPT !.offer = FALSE]
    OBVIOUS
  <2>2. /\ DOMAIN d = CartFields /\ d.lines = runtime.cart.lines
        /\ d.draft = runtime.cart.draft /\ d.ids = runtime.cart.ids
    BY <1>0, <2>1 DEF CartFields
  <2>3. Touches(Synchronized(d))
    BY <2>2, SameTouches, SynchronizedTouches
  <2>4. AfterReview(IF runtime.cart.offer THEN Synchronized(d) ELSE runtime.cart, TRUE)
    BY <1>2, <2>1 DEF UseStandard
  <2> QED
    BY <1>0, <2>3, <2>4, AfterReviewKept
<1>3. CASE AddPiece
  <2>1. PICK s, d : s = Synchronized(runtime.cart) /\ d = [s EXCEPT !.target = s.target + 1]
    OBVIOUS
  <2>2. /\ DOMAIN d = CartFields /\ d.lines = runtime.cart.lines
        /\ d.draft = runtime.cart.draft /\ d.ids = runtime.cart.ids
    BY <1>0, <2>1 DEF Synchronized, CartFields
  <2>3. Grows(runtime.cart, StartPiece(d))
    <3>1. Grows(runtime.cart, d)
      BY <1>0, <2>2, SameGrows
    <3>2. Grows(d, StartPiece(d))
      BY <3>1, StartPieceGrows DEF Grows
    <3> QED
      BY <1>0, <3>1, <3>2, GrowsTransitive
  <2>4. PICK r : /\ r = [runtime EXCEPT !.stage = "COLLECTING_ITEM", !.review = NoReview(FALSE),
                                        !.cart = StartPiece(d)]
                 /\ Turn(r)
    BY <1>3, <2>1 DEF AddPiece
  <2>5. Shaped(r) /\ r.cart = StartPiece(d)
    BY <1>0, <2>3, <2>4 DEF Shaped, Grows, CartOK
  <2> QED
    BY <2>3, <2>4, <2>5, GrownKeeps, TurnKeeps
<1>4. ASSUME NEW i \in DOMAIN runtime.cart.lines, SelectLine(i)
      PROVE  Kept
  <2>1. PICK r : /\ r = [runtime EXCEPT !.stage = "EDITING_CART_ITEM", !.review.selected = i,
                                        !.review.awaiting = 0]
                 /\ Turn(r)
    BY <1>4 DEF SelectLine
  <2>2. Shaped(r) /\ r.cart = runtime.cart
    BY <1>0, <2>1 DEF Shaped
  <2> QED
    BY <2>1, <2>2, TurnKeeps, SameLinesKeeps
<1>5. ASSUME NEW i \in DOMAIN runtime.cart.lines, ChangeQuantity(i)
      PROVE  Kept
  <2>1. PICK r : /\ r = [runtime EXCEPT !.stage = "EDITING_CART_ITEM", !.review.awaiting = i]
                 /\ Turn(r)
    BY <1>5 DEF ChangeQuantity
  <2>2. Shaped(r) /\ r.cart = runtime.cart
    BY <1>0, <2>1 DEF Shaped
  <2> QED
    BY <2>1, <2>2, TurnKeeps, SameLinesKeeps
<1>6. ASSUME NEW i \in DOMAIN runtime.cart.lines, RemoveLine(i)
      PROVE  Kept
  <2>1. i \in Opened
    BY <1>6 DEF RemoveLine, MayRemove, Opened
  <2>2. PICK d : d = [runtime.cart EXCEPT !.lines =
                        [j \in DOMAIN runtime.cart.lines \ {i} |-> runtime.cart.lines[j]]]
    OBVIOUS
  <2>3. Touches(Synchronized(d))
    BY <2>1, <2>2, RemoveTouches, SynchronizedTouches
  <2>4. AfterReview(IF Cardinality(DOMAIN runtime.cart.lines) > 1
                    THEN Synchronized(d) ELSE runtime.cart, FALSE)
    BY <1>6, <2>2 DEF RemoveLine
  <2> QED
    BY <1>0, <2>3, <2>4, AfterReviewKept
<1> QED
  BY <1>1, <1>2, <1>3, <1>4, <1>5, <1>6

LEMMA EditorTurns ==
    ASSUME IInv(runtime),
           \/ \E i \in DOMAIN runtime.cart.lines, focus \in BOOLEAN : OpenEditor(i, focus)
           \/ \E t \in 1..runtime.cart.ids, g \in 1..Groups, v \in Values : EditorOption(t, g, v)
           \/ EditorSave
    PROVE  Kept
<1>0. Shaped(runtime) /\ CartOK(runtime.cart) /\ DOMAIN runtime.cart = CartFields
  BY RuntimeCartOK DEF IInv, CartOK
<1>1. ASSUME NEW i, NEW focus, OpenEditor(i, focus)
      PROVE  Kept
  <2>1. PICK r : /\ Turn(r)
                 /\ \/ \E stage, edit : r = [runtime EXCEPT !.stage = stage, !.edit = edit]
                    \/ \E stage, auto : r = [runtime EXCEPT !.stage = stage, !.edit.auto = auto]
    BY <1>1, Zenon DEF OpenEditor
  <2>2. Shaped(r) /\ r.cart = runtime.cart
    BY <1>0, <2>1 DEF Shaped
  <2> QED
    BY <2>1, <2>2, TurnKeeps, SameLinesKeeps
<1>2. ASSUME NEW t, NEW g, NEW v, EditorOption(t, g, v)
      PROVE  Kept
  <2> DEFINE edit == [runtime.edit EXCEPT !.options[g] = v]
             back == [runtime EXCEPT !.stage = "CART_REVIEW", !.review = NoReview(@.accepted),
                                     !.edit = NoEdit]
             d == Replaced(runtime.cart, edit.source, edit.options)
  <2>1. Shaped(back) /\ back.cart = runtime.cart
    BY <1>0 DEF Shaped
  <2>2. CASE Turn([runtime EXCEPT !.stage = "EDITING_CART_ITEM"])
    <3>1. PICK r : r = [runtime EXCEPT !.stage = "EDITING_CART_ITEM"] /\ Turn(r)
      BY <2>2
    <3>2. Shaped(r) /\ r.cart = runtime.cart
      BY <1>0, <3>1 DEF Shaped
    <3> QED
      BY <3>1, <3>2, TurnKeeps, SameLinesKeeps
  <2>3. CASE OfThisLine(t) /\ Turn([back EXCEPT !.cart = d])
    <3>1. edit.source = runtime.edit.source
      OBVIOUS
    <3>2. Touches(d)
      BY <3>1, ReplacedTouches
    <3> HIDE DEF back, d
    <3>3. PICK r : r = [back EXCEPT !.cart = d] /\ Turn(r)
      BY <2>3
    <3>4. Shaped(r) /\ r.cart = d
      BY <2>1, <3>2, <3>3 DEF Shaped, Touches, CartOK
    <3> QED
      BY <3>2, <3>3, <3>4, TouchedKept
  <2>4. CASE Turn(back)
    <3> HIDE DEF back
    <3> QED
      BY <2>1, <2>4, TurnKeeps, SameLinesKeeps
  <2>5. CASE Turn([back EXCEPT !.edit = edit])
    <3> HIDE DEF back
    <3>1. PICK r : r = [back EXCEPT !.edit = edit] /\ Turn(r)
      BY <2>5
    <3>2. Shaped(r) /\ r.cart = runtime.cart
      BY <2>1, <3>1 DEF Shaped
    <3> QED
      BY <3>1, <3>2, TurnKeeps, SameLinesKeeps
  <2> QED
    BY <1>2, <2>1, <2>2, <2>3, <2>4, <2>5 DEF EditorOption
<1>3. CASE EditorSave
  <2> DEFINE d == Replaced(runtime.cart, runtime.edit.source, runtime.edit.options)
  <2>1. PICK r : /\ r = [runtime EXCEPT !.stage = "CART_REVIEW", !.edit = NoEdit, !.cart = d]
                 /\ Turn(r)
    BY <1>3 DEF EditorSave
  <2>2. Touches(d)
    BY ReplacedTouches
  <2> HIDE DEF d
  <2>3. Shaped(r) /\ r.cart = d
    BY <1>0, <2>1, <2>2 DEF Shaped, Touches, CartOK
  <2> QED
    BY <2>1, <2>2, <2>3, TouchedKept
<1> QED
  BY <1>1, <1>2, <1>3

\* The turns of the delivery and of the final review change the status only
LEMMA DeliveryTurns ==
    ASSUME IInv(runtime),
           \/ Continue \/ AnswerFields \/ FinishEditDelivery \/ BackToCart \/ ResumeDelivery \/ Confirm
    PROVE  Kept
<1>0. Shaped(runtime)
  BY DEF IInv
<1> DEFINE Same(r) == /\ Shaped(r) /\ r.cart.lines = runtime.cart.lines
                      /\ r.cart.draft = runtime.cart.draft /\ r.cart.ids = runtime.cart.ids
<1>1. ASSUME NEW r, Same(r), Turn(r)
      PROVE  Kept
  BY <1>1, TurnKeeps, SameLinesKeeps
<1>2. ASSUME NEW r, Same(r)
      PROVE  Same(Final(r)) /\ Same(StartDelivery(r))
  <2>1. Same(Final(r))
    <3>1. PICK f : f = Final(r)
      OBVIOUS
    <3> QED
      BY <1>2, <3>1 DEF Final, Shaped, CartFields
  <2>2. PICK s : s = [r EXCEPT !.stage = "COLLECTING_DELIVERY", !.checkout = "collecting",
                               !.cart.status = "COLLECTING_DELIVERY"]
    OBVIOUS
  <2>3. Same(s)
    BY <1>2, <2>2 DEF Shaped, CartFields
  <2>4. StartDelivery(r) \in {Final(r), s}
    BY <2>2 DEF StartDelivery
  <2> HIDE DEF Same
  <2> QED
    BY <2>1, <2>3, <2>4
<1>3. Same(runtime)
  BY <1>0
<1>4. CASE Continue \/ ResumeDelivery
  <2>1. Turn(StartDelivery(runtime))
    BY <1>4 DEF Continue, ResumeDelivery
  <2> HIDE DEF Same
  <2> QED
    BY <1>1, <1>2, <1>3, <2>1
<1>5. CASE FinishEditDelivery
  <2>1. Turn(Final(runtime))
    BY <1>5 DEF FinishEditDelivery
  <2> HIDE DEF Same
  <2> QED
    BY <1>1, <1>2, <1>3, <2>1
<1>6. CASE AnswerFields
  <2>1. PICK a : a = [runtime EXCEPT !.cart.fields = TRUE] /\ (Turn(a) \/ Turn(Final(a)))
    BY <1>6 DEF AnswerFields
  <2>2. Same(a)
    BY <1>0, <2>1 DEF Shaped, CartFields
  <2> HIDE DEF Same
  <2> QED
    BY <1>1, <1>2, <2>1, <2>2
<1>7. CASE BackToCart
  <2>1. PICK b, r : /\ b = [runtime EXCEPT !.cart.status = "CART_REVIEW", !.checkout = "none"]
                    /\ r = [b EXCEPT !.stage = "CART_REVIEW", !.edit = NoEdit, !.review = NoReview(@.accepted)]
                    /\ (Turn(b) \/ Turn(r))
    BY <1>7 DEF BackToCart
  <2>2. Same(b)
    BY <1>0, <2>1 DEF Shaped, CartFields
  <2>3. Same(r)
    BY <2>1, <2>2 DEF Shaped
  <2> HIDE DEF Same
  <2> QED
    BY <1>1, <2>1, <2>2, <2>3
<1>8. CASE Confirm
  <2>1. PICK r : r = [runtime EXCEPT !.stage = "CONFIRMED", !.cart.status = "CONFIRMED"] /\ Turn(r)
    BY <1>8 DEF Confirm
  <2>2. Same(r)
    BY <1>0, <2>1 DEF Shaped, CartFields
  <2> HIDE DEF Same
  <2> QED
    BY <1>1, <2>1, <2>2
<1> QED
  BY <1>4, <1>5, <1>6, <1>7, <1>8

-----------------------------------------------------------------------------
(* The specification *)

LEMMA CartInitIInv ==
    ASSUME CartInit
    PROVE  IInv(runtime)
<1>1. PICK c : c = runtime.cart
  OBVIOUS
<1>2. /\ Shaped(runtime) /\ c.ids = 0 /\ c.lines = <<>> /\ c.draft = NoDraft
  BY <1>1 DEF CartInit, Shaped, CartFields
<1>3. DOMAIN c.lines = {}
  BY <1>2
<1>4. LinesInv(c)
  BY <1>2, <1>3 DEF LinesInv, NoDraft
<1> QED
  BY <1>1, <1>2, <1>4 DEF IInv

LEMMA CartStepKeeps ==
    ASSUME IInv(runtime), [CartNext]_cartVars
    PROVE  Kept
<1>1. CASE UNCHANGED runtime
  BY <1>1, SelfUnchanged DEF Kept, IInv, Shaped, LinesInv
<1>2. CASE OfferChanges \/ UNCHANGED cartVars
  BY <1>1, <1>2 DEF OfferChanges, cartVars
<1>3. CASE CartNext /\ ~OfferChanges
  <2>1. ASSUME NEW i \in DOMAIN runtime.cart.lines, LineTurn(i)
        PROVE  Kept
    BY <2>1, ReviewTurns, EditorTurns DEF LineTurn
  <2>2. ASSUME NEW n \in 1..MaxTarget, QuantityTurn(n)
        PROVE  Kept
    BY <2>2, ReviewTurns, CollectionTurns DEF QuantityTurn
  <2>3. ASSUME NEW t \in 1..runtime.cart.ids, NEW g \in 1..Groups, NEW v \in Values, OptionTurn(t, g, v)
        PROVE  Kept
    BY <2>3, EditorTurns, CollectionTurns DEF OptionTurn
  <2> QED
    BY <1>3, <2>1, <2>2, <2>3, StageTurns, CollectionTurns, ReviewTurns, EditorTurns, DeliveryTurns
    DEF CartNext
<1> QED
  BY <1>2, <1>3

(* In every reachable state no line has the draft's identifier, and every    *)
(* quantity can be added to (cartItemId and finalizeActiveDraft of           *)
(* cart-state.service.ts).                                                   *)
THEOREM LinesKept == CartSpec => []IInv(runtime)
<1>1. IInv(runtime) /\ [CartNext]_cartVars => IInv(runtime)'
  BY CartStepKeeps DEF Kept
<1> QED
  BY <1>1, CartInitIInv, PTL DEF CartSpec

(* For every product, limit and offer: no turn of the customer, whatever old *)
(* button it presses, changes the options of a line that is not open, takes  *)
(* it out of the cart or makes it smaller.                                   *)
THEOREM OnlyOpenedChanges == CartSpec => OnlyOpenedLineChanges
<1> DEFINE A == \A i \in DOMAIN runtime.cart.lines :
         i \notin {runtime.review.selected, runtime.review.awaiting, runtime.edit.source} =>
            /\ i \in DOMAIN runtime'.cart.lines
            /\ runtime'.cart.lines[i].options = runtime.cart.lines[i].options
            /\ runtime'.cart.lines[i].quantity >= runtime.cart.lines[i].quantity
<1>1. IInv(runtime) /\ [CartNext]_cartVars => A
  BY CartStepKeeps DEF Kept, Opened, Unchanged
<1>2. IInv(runtime) /\ [CartNext]_cartVars => [A]_cartVars
  BY <1>1
<1> HIDE DEF A
<1>3. CartSpec => [][A]_cartVars
  BY <1>2, LinesKept, PTL DEF CartSpec
<1> QED
  BY <1>3 DEF OnlyOpenedLineChanges, A

-----------------------------------------------------------------------------
(* How many pieces the lines add up to *)

\* Finitely many lines, of at most so many pieces each
Counted(c, most) == IsFiniteSet(DOMAIN c.lines) /\ \A i \in DOMAIN c.lines : c.lines[i].quantity \in 0..most

LEMMA PiecesFinite ==
    ASSUME NEW c, NEW most \in Nat, Counted(c, most)
    PROVE  IsFiniteSet(Pieces(c)) /\ Units(c) \in Nat
<1>1. IsFiniteSet(1..most)
  BY FS_Interval
<1>2. PICK lines : lines = DOMAIN c.lines /\ IsFiniteSet(lines)
  BY DEF Counted
<1>3. IsFiniteSet(lines \X (1..most))
  BY <1>1, <1>2, FS_Product
<1>4. ASSUME NEW i \in DOMAIN c.lines
      PROVE  {i} \X (1..c.lines[i].quantity) \subseteq lines \X (1..most)
  <2>1. PICK q : q = c.lines[i].quantity /\ q \in 0..most
    BY DEF Counted
  <2>2. i \in lines /\ 1..q \subseteq 1..most
    BY <1>2, <2>1
  <2> QED
    BY <2>1, <2>2
<1>5. Pieces(c) \subseteq lines \X (1..most)
  BY <1>4 DEF Pieces
<1>6. IsFiniteSet(Pieces(c))
  BY <1>3, <1>5, FS_Subset
<1> QED
  BY <1>6, FS_CardinalityType DEF Units

\* Without one of its lines, a cart has so many pieces less
LEMMA UnitsWithout ==
    ASSUME NEW c, NEW d, NEW most \in Nat, Counted(c, most), NEW i \in DOMAIN c.lines,
           DOMAIN d.lines = DOMAIN c.lines \ {i},
           \A j \in DOMAIN d.lines : d.lines[j].quantity = c.lines[j].quantity
    PROVE  Counted(d, most) /\ Units(c) = Units(d) + c.lines[i].quantity
<1>0. Counted(d, most)
  BY FS_RemoveElement DEF Counted
<1>1. PICK q \in Nat : q = c.lines[i].quantity
  BY DEF Counted
<1>2. PICK own : own = {i} \X (1..q) /\ IsFiniteSet(own) /\ Cardinality(own) = q
  <2>1. IsFiniteSet({i}) /\ Cardinality({i}) = 1
    BY FS_Singleton
  <2>2. IsFiniteSet(1..q) /\ Cardinality(1..q) = q
    BY FS_Interval
  <2>3. IsFiniteSet({i} \X (1..q)) /\ Cardinality({i} \X (1..q)) = 1 * q
    BY <2>1, <2>2, FS_Product
  <2> QED
    BY <2>3
<1>3. Pieces(c) = Pieces(d) \cup own
  BY <1>1, <1>2 DEF Pieces
<1>4. Pieces(d) \cap own = {}
  BY <1>2 DEF Pieces
<1>5. PICK rest : rest = Pieces(d) /\ IsFiniteSet(rest)
  BY <1>0, PiecesFinite
<1>6. Cardinality(rest) \in Nat /\ Cardinality(rest \cap own) = 0
  BY <1>4, <1>5, FS_EmptySet, FS_CardinalityType
<1>7. Cardinality(rest \cup own) = Cardinality(rest) + Cardinality(own) - Cardinality(rest \cap own)
  BY <1>2, <1>5, FS_Union
<1>8. Cardinality(rest \cup own) = Cardinality(rest) + q
  BY <1>2, <1>6, <1>7
<1> QED
  BY <1>0, <1>1, <1>3, <1>5, <1>8 DEF Units

\* No line has more pieces than the cart
LEMMA LineWithinUnits ==
    ASSUME NEW c, NEW most \in Nat, Counted(c, most), NEW i \in DOMAIN c.lines
    PROVE  c.lines[i].quantity <= Units(c)
<1>1. PICK d : d = [lines |-> [j \in DOMAIN c.lines \ {i} |-> c.lines[j]]]
  OBVIOUS
<1>2. /\ DOMAIN d.lines = DOMAIN c.lines \ {i}
      /\ \A j \in DOMAIN d.lines : d.lines[j].quantity = c.lines[j].quantity
  BY <1>1
<1>3. Counted(d, most) /\ Units(c) = Units(d) + c.lines[i].quantity
  BY <1>2, UnitsWithout
<1>4. Units(d) \in Nat
  BY <1>3, PiecesFinite
<1>5. c.lines[i].quantity \in Nat
  BY DEF Counted
<1> QED
  BY <1>3, <1>4, <1>5

\* If one line gets another quantity, the pieces change by the difference
LEMMA UnitsChanged ==
    ASSUME NEW c, NEW d, NEW most \in Nat, Counted(c, most), Counted(d, most), NEW i \in DOMAIN c.lines,
           DOMAIN d.lines = DOMAIN c.lines,
           \A j \in DOMAIN c.lines \ {i} : d.lines[j].quantity = c.lines[j].quantity
    PROVE  Units(c) + d.lines[i].quantity = Units(d) + c.lines[i].quantity
<1>1. PICK e : e = [lines |-> [j \in DOMAIN c.lines \ {i} |-> c.lines[j]]]
  OBVIOUS
<1>2. /\ DOMAIN e.lines = DOMAIN c.lines \ {i}
      /\ \A j \in DOMAIN e.lines : e.lines[j].quantity = c.lines[j].quantity
  BY <1>1
<1>3. /\ i \in DOMAIN d.lines /\ DOMAIN e.lines = DOMAIN d.lines \ {i}
      /\ \A j \in DOMAIN e.lines : e.lines[j].quantity = d.lines[j].quantity
  BY <1>2
<1>4. Counted(e, most) /\ Units(c) = Units(e) + c.lines[i].quantity
  BY <1>2, UnitsWithout
<1>5. Units(d) = Units(e) + d.lines[i].quantity
  BY <1>3, UnitsWithout
<1>6. PICK rest \in Nat : rest = Units(e)
  BY <1>4, PiecesFinite
<1>7. PICK q \in Nat, p \in Nat : q = c.lines[i].quantity /\ p = d.lines[i].quantity
  BY <1>3 DEF Counted
<1> QED
  BY <1>4, <1>5, <1>6, <1>7

LEMMA NoLinesNoUnits ==
    ASSUME NEW c, DOMAIN c.lines = {}
    PROVE  Units(c) = 0
<1>1. Pieces(c) = {}
  BY DEF Pieces
<1> QED
  BY <1>1, FS_EmptySet DEF Units

-----------------------------------------------------------------------------
(* The question that is open, and the last line *)

LEMMA MinInSet ==
    ASSUME NEW S \in SUBSET Nat, S # {}
    PROVE  Min(S) \in S
<1>1. \E x \in S : \A y \in S : ~ (<<y, x>> \in OpToRel(<, Nat))
  BY WFMin, NatLessThanWellFounded
<1>2. PICK x \in S : \A y \in S : ~ (<<y, x>> \in OpToRel(<, Nat))
  BY <1>1
<1>3. \A y \in S : x <= y
  <2> TAKE y \in S
  <2>1. x \in Nat /\ y \in Nat
    OBVIOUS
  <2>2. ~ (y < x)
    BY <1>2, <2>1 DEF OpToRel
  <2> QED
    BY <2>1, <2>2
<1> QED
  BY <1>3 DEF Min

LEMMA MaxInSet ==
    ASSUME NEW n \in Nat, NEW S \in SUBSET (1..n), S # {}
    PROVE  Max(S) \in S
<1> DEFINE T == {n - x : x \in S}
<1>1. T \in SUBSET Nat /\ T # {}
  <2>1. \A x \in S : n - x \in Nat
    OBVIOUS
  <2> QED
    BY <2>1
<1>2. \E x \in T : \A y \in T : ~ (<<y, x>> \in OpToRel(<, Nat))
  BY <1>1, WFMin, NatLessThanWellFounded
<1>3. PICK x \in S : \A y \in S : ~ (<<n - y, n - x>> \in OpToRel(<, Nat))
  BY <1>2
<1>4. \A y \in S : x >= y
  <2> TAKE y \in S
  <2>1. x \in Int /\ y \in Int /\ n - x \in Nat /\ n - y \in Nat
    OBVIOUS
  <2>2. ~ (n - y < n - x)
    BY <1>3, <2>1 DEF OpToRel
  <2> QED
    BY <2>1, <2>2
<1> QED
  BY <1>4 DEF Max

-----------------------------------------------------------------------------
(* What every cart in a session is like *)

CartInv(c) ==
    /\ c \in CartRecord(DOMAIN c.lines, Nat)
    /\ DOMAIN c.lines \subseteq 1..c.ids /\ c.draft.id \in (0..c.ids) \ DOMAIN c.lines
    /\ c.draft.quantity # 0 => Complete(c.draft.options)
    /\ \A i \in DOMAIN c.lines : Complete(c.lines[i].options)
    /\ Units(c) <= c.target
    /\ Cardinality(DOMAIN c.lines) <= MaxLines

Distinct(c) == \A i, j \in DOMAIN c.lines : c.lines[i].options = c.lines[j].options => i = j

LEMMA Limits ==
    /\ MaxTarget \in Nat \ {0} /\ MaxLines \in Nat \ {0} /\ Groups \in Nat \ {0}
    /\ MaxTarget \in Nat
BY CartAssumption

LEMMA CartTypes ==
    ASSUME NEW c, NEW L, c \in CartRecord(L, Nat)
    PROVE  /\ DOMAIN c = CartFields /\ DOMAIN c.draft = {"id", "options", "quantity"}
           /\ c.target \in 0..MaxTarget /\ c.target \in Nat
           /\ c.offer \in BOOLEAN /\ c.implicit \in BOOLEAN /\ c.fields \in BOOLEAN
           /\ c.ids \in Nat /\ c.lines \in [L -> Line]
           /\ c.draft \in [id : Nat, options : Options, quantity : 0..MaxTarget]
           /\ c.draft.id \in Nat /\ c.draft.options \in Options
           /\ c.draft.quantity \in 0..MaxTarget /\ c.draft.quantity \in Nat
BY Limits DEF CartRecord, CartFields

LEMMA CartCounted ==
    ASSUME NEW c, c.ids \in Nat, DOMAIN c.lines \subseteq 1..c.ids, c.lines \in [DOMAIN c.lines -> Line]
    PROVE  /\ Counted(c, MaxTarget) /\ Units(c) \in Nat
           /\ IsFiniteSet(DOMAIN c.lines) /\ Cardinality(DOMAIN c.lines) \in Nat
<1>1. IsFiniteSet(1..c.ids)
  BY FS_Interval
<1>2. IsFiniteSet(DOMAIN c.lines)
  BY <1>1, FS_Subset
<1>3. \A i \in DOMAIN c.lines : c.lines[i].quantity \in 0..MaxTarget
  BY DEF Line
<1>4. Counted(c, MaxTarget)
  BY <1>2, <1>3 DEF Counted
<1> QED
  BY <1>2, <1>4, Limits, PiecesFinite, FS_CardinalityType

LEMMA CartSums ==
    ASSUME NEW c, CartInv(c)
    PROVE  /\ Counted(c, MaxTarget) /\ Units(c) \in Nat
           /\ IsFiniteSet(DOMAIN c.lines) /\ Cardinality(DOMAIN c.lines) \in Nat
<1>1. c.ids \in Nat /\ c.lines \in [DOMAIN c.lines -> Line]
  BY CartTypes DEF CartInv
<1> QED
  BY <1>1, CartCounted DEF CartInv

\* The same lines with another status, target or draft
LEMMA SameLinesInv ==
    ASSUME NEW c, CartInv(c), NEW d, d \in CartRecord(DOMAIN d.lines, Nat), d.lines = c.lines,
           d.ids \in Nat, c.ids <= d.ids, d.draft.id \in (0..d.ids) \ DOMAIN c.lines,
           d.draft.quantity # 0 => Complete(d.draft.options),
           Units(c) <= d.target
    PROVE  CartInv(d) /\ Units(d) = Units(c) /\ (Distinct(c) => Distinct(d))
<1>1. Units(d) = Units(c)
  BY DEF Units, Pieces
<1>2. c.ids \in Nat
  BY CartTypes DEF CartInv
<1>3. DOMAIN d.lines \subseteq 1..d.ids
  BY <1>2 DEF CartInv
<1> QED
  BY <1>1, <1>3 DEF CartInv, Distinct

\* A blank draft is not complete
LEMMA BlankAsks == Blank \in Options /\ ~Complete(Blank) /\ Left(Blank) = 1..Groups
<1>1. Blank \in Options /\ Left(Blank) = 1..Groups
  BY DEF Blank, Options, Left
<1>2. 1 \in 1..Groups
  BY Limits
<1> QED
  BY <1>1, <1>2 DEF Complete

LEMMA StartPieceInv ==
    ASSUME NEW c, CartInv(c)
    PROVE  LET d == StartPiece(c) IN
           /\ CartInv(d) /\ Units(d) = Units(c) /\ (Distinct(c) => Distinct(d))
           /\ d.lines = c.lines /\ d.target = c.target /\ d.ids = c.ids + 1 /\ d.implicit = c.implicit
           /\ d.status = "COLLECTING_ITEM"
           /\ d.draft = [id |-> c.ids + 1, options |-> Blank, quantity |-> 0]
<1>0. PICK L : L = DOMAIN c.lines /\ c \in CartRecord(L, Nat)
  BY DEF CartInv
<1>1. PICK draft : draft = [id |-> c.ids + 1, options |-> Blank, quantity |-> 0]
  OBVIOUS
<1>2. [NoDraft EXCEPT !.id = c.ids + 1] = draft
  BY <1>1 DEF NoDraft
<1>3. PICK d : d = [c EXCEPT !.status = "COLLECTING_ITEM", !.ids = @ + 1, !.draft = draft]
  OBVIOUS
<1>4. d = StartPiece(c)
  BY <1>2, <1>3 DEF StartPiece
<1>5. c.ids \in Nat /\ c.ids + 1 \in Nat /\ DOMAIN c = CartFields
  BY <1>0, CartTypes
<1>6. /\ d.lines = c.lines /\ d.target = c.target /\ d.ids = c.ids + 1 /\ d.implicit = c.implicit
      /\ d.status = "COLLECTING_ITEM" /\ d.draft = draft
  BY <1>3, <1>5 DEF CartFields
<1>7. draft \in [id : Nat, options : Options, quantity : 0..MaxTarget]
  BY <1>1, <1>5, BlankAsks, Limits
<1>8. d \in CartRecord(L, Nat)
  BY <1>0, <1>3, <1>5, <1>7 DEF CartRecord
<1>9. d.draft.id \in (0..d.ids) \ DOMAIN c.lines
  BY <1>1, <1>5, <1>6 DEF CartInv
<1>10. Units(c) <= d.target /\ d.draft.quantity = 0 /\ c.ids <= d.ids /\ d.ids \in Nat
  BY <1>1, <1>5, <1>6 DEF CartInv
<1>11. CartInv(d) /\ Units(d) = Units(c) /\ (Distinct(c) => Distinct(d))
  BY <1>0, <1>6, <1>8, <1>9, <1>10, SameLinesInv
<1> QED
  BY <1>1, <1>4, <1>6, <1>11

\* The next piece is collected, or the review is ready
LEMMA NextPieceInv ==
    ASSUME NEW c, CartInv(c), c.draft.id = 0, DOMAIN c.lines # {}
    PROVE  LET d == NextPiece(c) IN
           /\ CartInv(d) /\ Units(d) = Units(c) /\ (Distinct(c) => Distinct(d))
           /\ d.lines = c.lines /\ d.ids \in Nat /\ c.ids <= d.ids
           /\ Collecting(d) \/ Ready(d)
<1>0. /\ c \in CartRecord(DOMAIN c.lines, Nat) /\ DOMAIN c = CartFields /\ c.ids \in Nat /\ c.target \in Nat
      /\ Units(c) \in Nat /\ Units(c) <= c.target
  BY CartTypes, CartSums DEF CartInv
<1>1. CASE Units(c) = c.target
  <2>1. PICK d : d = [c EXCEPT !.status = "CART_REVIEW"]
    OBVIOUS
  <2>2. /\ d.lines = c.lines /\ d.target = c.target /\ d.ids = c.ids /\ d.draft = c.draft
        /\ d.status = "CART_REVIEW"
    BY <1>0, <2>1 DEF CartFields
  <2>3. d \in CartRecord(DOMAIN c.lines, Nat)
    BY <1>0, <2>1 DEF CartRecord
  <2>4. CartInv(d) /\ Units(d) = Units(c) /\ (Distinct(c) => Distinct(d))
    BY <1>0, <2>2, <2>3, SameLinesInv DEF CartInv
  <2>5. Ready(d)
    BY <1>1, <2>2, <2>4 DEF Ready
  <2>6. NextPiece(c) = d
    BY <1>1, <2>1 DEF NextPiece
  <2> QED
    BY <1>0, <2>2, <2>4, <2>5, <2>6
<1>2. CASE Units(c) # c.target
  <2>1. PICK d : d = StartPiece(c)
    OBVIOUS
  <2>2. /\ CartInv(d) /\ Units(d) = Units(c) /\ (Distinct(c) => Distinct(d))
        /\ d.lines = c.lines /\ d.target = c.target /\ d.ids = c.ids + 1
        /\ d.status = "COLLECTING_ITEM"
        /\ d.draft = [id |-> c.ids + 1, options |-> Blank, quantity |-> 0]
    BY <2>1, StartPieceInv
  <2>3. Units(d) < d.target /\ d.draft.id # 0 /\ d.draft.options = Blank
    BY <1>0, <1>2, <2>2
  <2>4. Collecting(d)
    BY <2>2, <2>3, BlankAsks DEF Collecting
  <2>5. NextPiece(c) = d
    BY <1>2, <2>1 DEF NextPiece
  <2>6. d.ids \in Nat /\ c.ids <= d.ids
    BY <1>0, <2>2
  <2> QED
    BY <2>2, <2>4, <2>5, <2>6
<1> QED
  BY <1>1, <1>2

Longer(c, k, n) ==
    [i \in DOMAIN c.lines |->
       IF i \in {k} THEN [c.lines[i] EXCEPT !.quantity = @ + n] ELSE c.lines[i]]

WithDraft(c, n) ==
    [i \in DOMAIN c.lines \cup {c.draft.id} |->
       IF i = c.draft.id THEN [options |-> c.draft.options, quantity |-> n] ELSE c.lines[i]]

WithoutDraft(c, lines) == [c EXCEPT !.lines = lines, !.draft = NoDraft]

\* The finished draft makes a line alike longer
LEMMA JoinInv ==
    ASSUME NEW c, CartInv(c), NEW n \in 0..MaxTarget, Units(c) + n <= c.target,
           NEW k \in DOMAIN c.lines, NEW lines, lines = Longer(c, k, n),
           NEW d, d = WithoutDraft(c, lines)
    PROVE  CartInv(d) /\ Units(d) = Units(c) + n /\ (Distinct(c) => Distinct(d))
<1>0. /\ c \in CartRecord(DOMAIN c.lines, Nat) /\ DOMAIN c = CartFields /\ c.ids \in Nat
      /\ c.target \in 0..MaxTarget /\ c.lines \in [DOMAIN c.lines -> Line] /\ Counted(c, MaxTarget)
  BY CartTypes, CartSums DEF CartInv
<1>1. d.lines = lines /\ d.draft = NoDraft /\ d.ids = c.ids /\ d.target = c.target
  BY <1>0 DEF WithoutDraft, CartFields
<1>2. PICK q \in 0..MaxTarget : q = c.lines[k].quantity
  BY <1>0 DEF Line
<1>3. /\ DOMAIN lines = DOMAIN c.lines
      /\ \A i \in DOMAIN c.lines \ {k} : lines[i] = c.lines[i]
      /\ lines[k] = [c.lines[k] EXCEPT !.quantity = q + n]
  BY <1>2 DEF Longer
<1>4. lines[k].options = c.lines[k].options /\ lines[k].quantity = q + n
  BY <1>0, <1>3 DEF Line
<1>5. PICK most \in Nat : most = MaxTarget + MaxTarget
  BY Limits
<1>6. 0..MaxTarget \subseteq 0..most /\ q + n \in 0..most
  BY <1>2, <1>5, Limits
<1>7. Counted(c, most)
  BY <1>0, <1>6 DEF Counted
<1>8. Counted(d, most)
  <2>1. ASSUME NEW i \in DOMAIN lines
        PROVE  lines[i].quantity \in 0..most
    <3>1. CASE i = k
      BY <1>4, <1>6, <3>1
    <3>2. CASE i # k
      BY <1>3, <1>7, <3>2 DEF Counted
    <3> QED
      BY <3>1, <3>2
  <2> QED
    BY <1>1, <1>3, <1>7, <2>1 DEF Counted
<1>9. PICK u \in Nat, v \in Nat : u = Units(c) /\ v = Units(d)
  BY <1>7, <1>8, PiecesFinite
<1>10. u + (q + n) = v + q
  <2>1. DOMAIN d.lines = DOMAIN c.lines
    BY <1>1, <1>3
  <2>2. \A j \in DOMAIN c.lines \ {k} : d.lines[j].quantity = c.lines[j].quantity
    BY <1>1, <1>3
  <2>3. Units(c) + d.lines[k].quantity = Units(d) + c.lines[k].quantity
    BY <1>7, <1>8, <2>1, <2>2, UnitsChanged
  <2> QED
    BY <1>1, <1>2, <1>4, <1>9, <2>3
<1>11. v = u + n /\ v <= MaxTarget /\ v <= d.target
  BY <1>0, <1>1, <1>2, <1>9, <1>10, Limits
<1>12. q + n <= v
  <2>1. d.lines[k].quantity <= Units(d)
    BY <1>1, <1>3, <1>8, LineWithinUnits
  <2> QED
    BY <1>1, <1>4, <1>9, <2>1
<1>13. lines \in [DOMAIN c.lines -> Line]
  <2>1. ASSUME NEW i \in DOMAIN c.lines
        PROVE  lines[i] \in Line
    <3>1. CASE i = k
      <4>1. q + n \in 0..MaxTarget
        BY <1>2, <1>9, <1>11, <1>12, Limits
      <4>2. lines[k] = [c.lines[k] EXCEPT !.quantity = q + n] /\ c.lines[k] \in Line
        BY <1>0, <1>3
      <4> QED
        BY <3>1, <4>1, <4>2 DEF Line
    <3>2. CASE i # k
      BY <1>0, <1>3, <3>2
    <3> QED
      BY <3>1, <3>2
  <2> QED
    BY <1>3, <2>1 DEF Longer
<1>14. NoDraft \in [id : Nat, options : Options, quantity : 0..MaxTarget]
  BY BlankAsks, Limits DEF NoDraft
<1>15. d \in CartRecord(DOMAIN c.lines, Nat)
  BY <1>0, <1>13, <1>14 DEF WithoutDraft, CartRecord
<1>16. /\ DOMAIN d.lines = DOMAIN c.lines
       /\ \A i \in DOMAIN c.lines : d.lines[i].options = c.lines[i].options
  BY <1>1, <1>3, <1>4
<1>17. \A i \in DOMAIN d.lines : Complete(d.lines[i].options)
  BY <1>16 DEF CartInv
<1>18. d.draft.id = 0 /\ d.draft.quantity = 0
  BY <1>1 DEF NoDraft
<1>19. CartInv(d)
  BY <1>0, <1>1, <1>9, <1>11, <1>15, <1>16, <1>17, <1>18 DEF CartInv
<1> QED
  BY <1>9, <1>11, <1>16, <1>19 DEF Distinct

\* The finished draft becomes a line of its own
LEMMA NewLineInv ==
    ASSUME NEW c, CartInv(c), NEW n \in 0..MaxTarget, Units(c) + n <= c.target, c.draft.id # 0,
           Complete(c.draft.options), Cardinality(DOMAIN c.lines) < MaxLines,
           NEW lines, lines = WithDraft(c, n), NEW d, d = WithoutDraft(c, lines)
    PROVE  /\ CartInv(d) /\ Units(d) = Units(c) + n
           /\ Distinct(c) /\ ~Distinct(d) => \E i \in DOMAIN c.lines : c.lines[i].options = c.draft.options
<1>0. /\ c \in CartRecord(DOMAIN c.lines, Nat) /\ DOMAIN c = CartFields /\ c.ids \in Nat
      /\ c.target \in 0..MaxTarget /\ c.lines \in [DOMAIN c.lines -> Line] /\ Counted(c, MaxTarget)
      /\ c.draft.options \in Options /\ c.draft.id \in Nat
      /\ Cardinality(DOMAIN c.lines) \in Nat /\ IsFiniteSet(DOMAIN c.lines)
  BY CartTypes, CartSums DEF CartInv
<1>1. d.lines = lines /\ d.draft = NoDraft /\ d.ids = c.ids /\ d.target = c.target
  BY <1>0 DEF WithoutDraft, CartFields
<1>2. PICK k : k = c.draft.id /\ k \in 1..c.ids /\ k \notin DOMAIN c.lines
  BY <1>0 DEF CartInv
<1>3. /\ DOMAIN lines = DOMAIN c.lines \cup {k}
      /\ \A i \in DOMAIN c.lines : lines[i] = c.lines[i]
      /\ lines[k] = [options |-> c.draft.options, quantity |-> n]
  BY <1>2 DEF WithDraft
<1>4. lines \in [DOMAIN lines -> Line]
  <2>1. lines[k] \in Line
    BY <1>0, <1>3 DEF Line
  <2>2. ASSUME NEW i \in DOMAIN lines
        PROVE  lines[i] \in Line
    BY <1>0, <1>3, <2>1
  <2> QED
    BY <1>3, <2>2 DEF WithDraft
<1>5. DOMAIN d.lines \subseteq 1..d.ids
  BY <1>1, <1>2, <1>3 DEF CartInv
<1>6. Counted(d, MaxTarget) /\ Units(d) \in Nat
  BY <1>0, <1>1, <1>4, <1>5, CartCounted
<1>7. Units(d) = Units(c) + n
  <2>1. k \in DOMAIN d.lines /\ DOMAIN c.lines = DOMAIN d.lines \ {k}
    BY <1>1, <1>2, <1>3
  <2>2. \A j \in DOMAIN c.lines : c.lines[j].quantity = d.lines[j].quantity
    BY <1>1, <1>3
  <2>3. PICK most \in Nat : most = MaxTarget /\ Counted(d, most)
    BY <1>6, Limits
  <2>4. Units(d) = Units(c) + d.lines[k].quantity
    BY <2>1, <2>2, <2>3, UnitsWithout
  <2> QED
    BY <1>1, <1>3, <2>4
<1>8. Cardinality(DOMAIN d.lines) <= MaxLines
  <2>1. PICK m \in Nat : m = Cardinality(DOMAIN c.lines) /\ m < MaxLines
    BY <1>0
  <2>2. Cardinality(DOMAIN c.lines \cup {k}) = m + 1
    BY <1>0, <1>2, <2>1, FS_AddElement
  <2>3. m + 1 <= MaxLines
    BY <2>1, Limits
  <2> QED
    BY <1>1, <1>3, <2>2, <2>3
<1>9. NoDraft \in [id : Nat, options : Options, quantity : 0..MaxTarget]
  BY BlankAsks, Limits DEF NoDraft
<1>10. d \in CartRecord(DOMAIN lines, Nat)
  BY <1>0, <1>4, <1>9 DEF WithoutDraft, CartRecord
<1>11. \A i \in DOMAIN d.lines : Complete(d.lines[i].options)
  BY <1>1, <1>3 DEF CartInv
<1>12. d.draft.id = 0 /\ d.draft.quantity = 0 /\ 0 \notin DOMAIN d.lines
  BY <1>1, <1>5, <1>0 DEF NoDraft
<1>13. CartInv(d)
  BY <1>0, <1>1, <1>5, <1>7, <1>8, <1>10, <1>11, <1>12 DEF CartInv
<1>14. \A i \in DOMAIN c.lines : lines[i].options = c.lines[i].options
  BY <1>3
<1>15. lines[k].options = c.draft.options
  BY <1>3
<1>16. ASSUME Distinct(c), ~Distinct(d)
       PROVE  \E i \in DOMAIN c.lines : c.lines[i].options = c.draft.options
  <2>1. PICK i \in DOMAIN d.lines, j \in DOMAIN d.lines :
          d.lines[i].options = d.lines[j].options /\ i # j
    BY <1>16 DEF Distinct
  <2>2. i = k \/ j = k
    BY <1>1, <1>3, <1>14, <1>16, <2>1 DEF Distinct
  <2> QED
    BY <1>1, <1>3, <1>14, <1>15, <2>1, <2>2
<1> QED
  BY <1>7, <1>13, <1>16

\* What finishing a piece may leave: the next one, the review, or this piece
\* again; two lines alike only if the draft has the options of a line but was
\* saved with other ones
LEMMA FinalizeInv ==
    ASSUME NEW c, NEW facts, CartInv(c), Distinct(c), c.status = "COLLECTING_ITEM",
           c.draft.id # 0, Complete(c.draft.options), c.implicit \/ c.draft.quantity # 0,
           Units(c) < c.target, ~c.implicit => Units(c) + c.draft.quantity <= c.target,
           NEW d, d = Finalize(c, facts)
    PROVE  /\ CartInv(d) /\ (Collecting(d) \/ Ready(d))
           /\ DOMAIN c.lines \subseteq DOMAIN d.lines /\ d.ids \in Nat /\ c.ids <= d.ids
           /\ ~Distinct(d) => /\ facts # Blank /\ facts # c.draft.options
                              /\ \E i \in DOMAIN c.lines : c.lines[i].options = c.draft.options
<1>0. /\ DOMAIN c = CartFields /\ c.ids \in Nat /\ c.target \in Nat /\ c.implicit \in BOOLEAN
      /\ c.draft.quantity \in 0..MaxTarget /\ Units(c) \in Nat
      /\ Cardinality(DOMAIN c.lines) \in Nat /\ Cardinality(DOMAIN c.lines) <= MaxLines
  BY CartTypes, CartSums DEF CartInv
<1>1. CASE Cardinality(DOMAIN c.lines) >= MaxLines
  <2>1. d = c
    BY <1>1 DEF Finalize
  <2>2. Cardinality(DOMAIN c.lines) = MaxLines
    BY <1>0, <1>1, Limits
  <2>3. Collecting(c)
    BY <2>2 DEF Collecting
  <2> QED
    BY <1>0, <2>1, <2>3
<1>2. CASE ~(Cardinality(DOMAIN c.lines) >= MaxLines)
  <2>1. PICK n : n = IF c.implicit THEN 1 ELSE c.draft.quantity
    OBVIOUS
  <2>2. n \in 0..MaxTarget /\ Units(c) + n <= c.target
    <3>1. CASE c.implicit
      BY <1>0, <2>1, <3>1, Limits
    <3>2. CASE ~c.implicit
      BY <1>0, <2>1, <3>2
    <3> QED
      BY <3>1, <3>2
  <2>3. PICK joined : joined = Alike(c, facts)
    OBVIOUS
  <2>4. CASE joined # {}
    <3>1. PICK k \in DOMAIN c.lines : joined = {k}
      BY <2>3, <2>4 DEF Alike, Distinct
    <3>2. PICK lines : lines = Longer(c, k, n)
      OBVIOUS
    <3>3. PICK e : e = WithoutDraft(c, lines)
      OBVIOUS
    <3>4. CartInv(e) /\ Distinct(e)
      BY <2>2, <3>2, <3>3, JoinInv
    <3>5. e.lines = lines /\ e.draft = NoDraft /\ e.ids = c.ids
      BY <1>0, <3>3 DEF WithoutDraft, CartFields
    <3>6. e.draft.id = 0 /\ DOMAIN e.lines = DOMAIN c.lines /\ DOMAIN e.lines # {}
      BY <3>2, <3>5 DEF Longer, NoDraft
    <3>7. d = NextPiece(e)
      BY <1>2, <2>1, <2>3, <3>1, <3>2, <3>3 DEF Finalize, Longer, WithoutDraft
    <3> QED
      BY <3>4, <3>5, <3>6, <3>7, NextPieceInv
  <2>5. CASE joined = {}
    <3>1. PICK lines : lines = WithDraft(c, n)
      OBVIOUS
    <3>2. PICK e : e = WithoutDraft(c, lines)
      OBVIOUS
    <3>3. Cardinality(DOMAIN c.lines) < MaxLines
      BY <1>0, <1>2, Limits
    <3>4. /\ CartInv(e)
          /\ ~Distinct(e) => \E i \in DOMAIN c.lines : c.lines[i].options = c.draft.options
      BY <2>2, <3>1, <3>2, <3>3, NewLineInv
    <3>5. e.lines = lines /\ e.draft = NoDraft /\ e.ids = c.ids
      BY <1>0, <3>2 DEF WithoutDraft, CartFields
    <3>6. e.draft.id = 0 /\ DOMAIN e.lines = DOMAIN c.lines \cup {c.draft.id}
      BY <3>1, <3>5 DEF WithDraft, NoDraft
    <3>7. facts = Blank \/ facts = c.draft.options => Distinct(e)
      BY <2>3, <2>5, <3>4 DEF Alike
    <3>8. d = NextPiece(e)
      BY <1>2, <2>1, <2>3, <2>5, <3>1, <3>2 DEF Finalize, WithDraft, WithoutDraft
    <3> QED
      BY <3>4, <3>5, <3>6, <3>7, <3>8, NextPieceInv
  <2> QED
    BY <2>4, <2>5
<1> QED
  BY <1>1, <1>2

\* The same of the piece that finishes by itself
LEMMA AutoFinalizeInv ==
    ASSUME NEW c, NEW facts, CartInv(c), Distinct(c), c.status = "COLLECTING_ITEM", c.draft.id # 0,
           Units(c) < c.target, ~c.implicit => Collecting(c), NEW d, d = AutoFinalize(c, facts)
    PROVE  /\ CartInv(d) /\ (Collecting(d) \/ Ready(d))
           /\ DOMAIN c.lines \subseteq DOMAIN d.lines /\ d.ids \in Nat /\ c.ids <= d.ids
           /\ ~Distinct(d) => /\ facts # Blank /\ facts # c.draft.options
                              /\ \E i \in DOMAIN c.lines : c.lines[i].options = c.draft.options
                              /\ Complete(c.draft.options)
<1>1. c.ids \in Nat
  BY CartTypes DEF CartInv
<1>2. CASE c.implicit /\ Complete(c.draft.options)
  <2>1. d = Finalize(c, facts)
    BY <1>2 DEF AutoFinalize
  <2> QED
    BY <1>2, <2>1, FinalizeInv
<1>3. CASE ~(c.implicit /\ Complete(c.draft.options))
  <2>1. d = c
    BY <1>3 DEF AutoFinalize
  <2>2. Collecting(c)
    BY <1>3 DEF Collecting
  <2> QED
    BY <1>1, <2>1, <2>2
<1> QED
  BY <1>2, <1>3

-----------------------------------------------------------------------------
(* What every session is like *)

ReviewInv(r) == r.review \in [selected : OpenLine(r.cart), awaiting : OpenLine(r.cart), accepted : BOOLEAN]

EditInv(r) ==
    /\ r.edit \in [source : OpenLine(r.cart), options : Options, auto : BOOLEAN, base : Line]
    /\ r.edit.source # 0 => Complete(r.edit.options)

QuestionsInv(r) ==
    /\ r.entry \in Options /\ r.checkout \in Checkouts
    /\ r.shortcut \in [id : 0..r.cart.ids, decision : {"none", "same", "different"}]

StageInv(r) ==
    /\ r.stage \in Stages /\ FitsStage(r)
    /\ r.stage \in {"FIRST_ENTRY", "PLANNING"} => DOMAIN r.cart.lines = {}

SessionInv(r) ==
    Shaped(r) /\ CartInv(r.cart) /\ QuestionsInv(r) /\ ReviewInv(r) /\ EditInv(r) /\ StageInv(r)

CartIInv ==
    /\ SessionInv(runtime) /\ Distinct(runtime.cart) /\ runtime.cart.ids <= MaxPieces
    /\ offerOpen \in BOOLEAN /\ lastTurn \in {"saved", "thrown"}
    /\ ThrownOnlyIfAlike

\* Of such a session, only lines alike fail the integrity check
LEMMA DistinctIsValid ==
    ASSUME NEW r, SessionInv(r)
    PROVE  Valid(r.cart) <=> Distinct(r.cart)
<1>1. Cardinality(DOMAIN r.cart.lines) <= MaxLines /\ r.cart.target <= MaxTarget
  <2>1. r.cart.target \in 0..MaxTarget
    BY CartTypes DEF SessionInv, CartInv
  <2> QED
    BY <2>1, Limits DEF SessionInv, CartInv
<1>2. /\ r.cart.status \in {"CART_REVIEW", "AWAITING_CONFIRMATION", "CONFIRMED"} => DOMAIN r.cart.lines # {}
      /\ r.cart.status \in {"AWAITING_CONFIRMATION", "CONFIRMED"} => r.cart.draft.id = 0
  BY DEF SessionInv, StageInv, Stages, FitsStage, Collecting, Ready, Delivering
<1> QED
  BY <1>1, <1>2 DEF Valid, Distinct

\* A turn is saved or thrown
LEMMA TurnSafe ==
    ASSUME CartIInv, NEW r, SessionInv(r), Distinct(r.cart) \/ MayBecomeAlike(runtime), Turn(r)
    PROVE  CartIInv'
<1>1. offerOpen' \in BOOLEAN
  BY DEF CartIInv, Turn
<1>2. CASE Valid(r.cart)
  <2>1. runtime' = r /\ lastTurn' = "saved" /\ r.cart.ids <= MaxPieces
    BY <1>2 DEF Turn
  <2>2. Distinct(r.cart)
    BY <1>2, DistinctIsValid
  <2> QED
    BY <1>1, <2>1, <2>2 DEF CartIInv, ThrownOnlyIfAlike
<1>3. CASE ~Valid(r.cart)
  <2>1. runtime' = runtime /\ lastTurn' = "thrown"
    BY <1>3 DEF Turn
  <2>2. MayBecomeAlike(runtime)
    BY <1>3, DistinctIsValid
  <2>3. /\ SessionInv(runtime') /\ Distinct(runtime'.cart) /\ runtime'.cart.ids <= MaxPieces
        /\ MayBecomeAlike(runtime')
    BY <2>1, <2>2 DEF CartIInv
  <2> QED
    BY <1>1, <2>1, <2>3 DEF CartIInv, ThrownOnlyIfAlike
<1> QED
  BY <1>2, <1>3

\* The lines that are open are still there, and the shortcut's piece is known
LEMMA OpenKept ==
    ASSUME CartIInv, NEW r, r.review = runtime.review, r.edit = runtime.edit,
           r.entry = runtime.entry, r.checkout \in Checkouts, r.shortcut = runtime.shortcut,
           DOMAIN runtime.cart.lines \subseteq DOMAIN r.cart.lines,
           r.cart.ids \in Nat, runtime.cart.ids <= r.cart.ids
    PROVE  QuestionsInv(r) /\ ReviewInv(r) /\ EditInv(r)
<1>1. QuestionsInv(runtime) /\ ReviewInv(runtime) /\ EditInv(runtime) /\ runtime.cart.ids \in Nat
  BY CartTypes DEF CartIInv, SessionInv, CartInv
<1>2. 0..runtime.cart.ids \subseteq 0..r.cart.ids /\ OpenLine(runtime.cart) \subseteq OpenLine(r.cart)
  BY <1>1 DEF OpenLine
<1>3. QuestionsInv(r)
  BY <1>1, <1>2 DEF QuestionsInv
<1>4. ReviewInv(r)
  BY <1>1, <1>2 DEF ReviewInv
<1>5. EditInv(r)
  BY <1>1, <1>2 DEF EditInv
<1> QED
  BY <1>3, <1>4, <1>5

LEMMA ClosedInv ==
    ASSUME NEW r
    PROVE  /\ \A accepted \in BOOLEAN : r.review = NoReview(accepted) => ReviewInv(r)
           /\ r.edit = NoEdit => EditInv(r)
           /\ NoEdit.source = 0
<1>1. NoEdit.source = 0
  BY DEF NoEdit
<1>2. [options |-> Blank, quantity |-> 0] \in Line
  BY BlankAsks, Limits DEF Line
<1>3. NoEdit \in [source : OpenLine(r.cart), options : Options, auto : BOOLEAN, base : Line]
  BY <1>2, BlankAsks DEF NoEdit, OpenLine
<1>4. \A accepted \in BOOLEAN :
        NoReview(accepted) \in [selected : OpenLine(r.cart), awaiting : OpenLine(r.cart), accepted : BOOLEAN]
  BY DEF NoReview, OpenLine
<1> QED
  BY <1>1, <1>3, <1>4 DEF ReviewInv, EditInv

\* What is known at the start of a turn
LEMMA SessionFacts ==
    ASSUME CartIInv
    PROVE  /\ Shaped(runtime) /\ CartInv(runtime.cart) /\ Distinct(runtime.cart)
           /\ runtime.cart \in CartRecord(DOMAIN runtime.cart.lines, Nat)
           /\ DOMAIN runtime.cart = CartFields /\ runtime.cart.ids \in Nat
           /\ runtime.cart.target \in Nat /\ Units(runtime.cart) \in Nat
           /\ Units(runtime.cart) <= runtime.cart.target
           /\ QuestionsInv(runtime) /\ ReviewInv(runtime) /\ EditInv(runtime) /\ StageInv(runtime)
           /\ FitsStage(runtime)
BY CartTypes, CartSums DEF CartIInv, SessionInv, CartInv, StageInv

-----------------------------------------------------------------------------
(* Planning, and the turns that collect pieces *)

LEMMA PlanningTurns ==
    ASSUME CartIInv, OrderNow \/ EntryOption
    PROVE  CartIInv'
<1>1. PICK entry, r : /\ entry \in Options
                       /\ r = [runtime EXCEPT !.stage = "PLANNING", !.entry = entry]
                       /\ Turn(r)
  <2>1. CASE OrderNow
    BY <2>1 DEF OrderNow
  <2>2. CASE EntryOption
    <3>1. PICK g \in 1..Groups, v \in Values : runtime.stage = "PLANNING" /\ Turn([runtime EXCEPT !.entry[g] = v])
      BY <2>2 DEF EntryOption
    <3>2. PICK entry : entry = [runtime.entry EXCEPT ![g] = v]
      OBVIOUS
    <3>3. entry \in Options
      BY <3>2, SessionFacts DEF QuestionsInv, Options
    <3>4. PICK r : r = [runtime EXCEPT !.entry[g] = v]
      OBVIOUS
    <3>5. r = [runtime EXCEPT !.stage = "PLANNING", !.entry = entry]
      BY <3>1, <3>2, <3>4, SessionFacts DEF Shaped
    <3> QED
      BY <3>1, <3>3, <3>4, <3>5
  <2> QED
    BY <2>1, <2>2
<1>2. runtime.stage \in {"FIRST_ENTRY", "PLANNING"}
  BY DEF OrderNow, EntryOption
<1>3. /\ Shaped(r) /\ r.cart = runtime.cart /\ r.stage = "PLANNING" /\ r.entry = entry /\ entry \in Options
      /\ r.checkout = runtime.checkout /\ r.shortcut = runtime.shortcut
      /\ r.review = runtime.review /\ r.edit = runtime.edit
  BY <1>1, SessionFacts DEF Shaped
<1>4. QuestionsInv(r) /\ ReviewInv(r) /\ EditInv(r)
  BY <1>3, SessionFacts DEF QuestionsInv, ReviewInv, EditInv
<1>5. StageInv(r)
  BY <1>2, <1>3, SessionFacts DEF StageInv, FitsStage, Stages
<1>6. SessionInv(r) /\ Distinct(r.cart)
  BY <1>3, <1>4, <1>5, SessionFacts DEF SessionInv
<1> QED
  BY <1>1, <1>6, TurnSafe

\* A turn of item collection leaves a piece to choose, or a review
LEMMA CollectedSafe ==
    ASSUME CartIInv, NEW r, Shaped(r), r.entry \in Options, r.checkout = runtime.checkout,
           r.shortcut \in [id : 0..runtime.cart.ids, decision : {"none", "same", "different"}],
           r.review = runtime.review, r.edit = runtime.edit,
           NEW d, CartInv(d), Collecting(d) \/ Ready(d), d.ids \in Nat, runtime.cart.ids <= d.ids,
           DOMAIN runtime.cart.lines \subseteq DOMAIN d.lines,
           Distinct(d) \/ MayBecomeAlike(runtime), Turn(Collected(r, d))
    PROVE  CartIInv'
<1>1. PICK q : q = Collected(r, d)
  OBVIOUS
<1>2. /\ DOMAIN q = DOMAIN r /\ q.cart = d /\ q.entry = r.entry /\ q.checkout = r.checkout
      /\ q.review = r.review /\ q.edit = r.edit
      /\ q.stage = IF d.status = "CART_REVIEW" THEN "CART_REVIEW" ELSE "COLLECTING_ITEM"
      /\ q.shortcut = IF r.shortcut.id = d.draft.id THEN r.shortcut
                      ELSE [id |-> d.draft.id, decision |-> "none"]
  BY <1>1 DEF Collected, Shaped
<1>3. Shaped(q)
  BY <1>2, CartTypes DEF Shaped, CartInv
<1>4. QuestionsInv(q)
  <2>1. d.draft.id \in 0..d.ids /\ 0..runtime.cart.ids \subseteq 0..d.ids
    BY SessionFacts DEF CartInv
  <2>2. r.shortcut \in [id : 0..d.ids, decision : {"none", "same", "different"}]
    BY <2>1
  <2>3. q.shortcut \in [id : 0..d.ids, decision : {"none", "same", "different"}]
    BY <1>2, <2>1, <2>2
  <2> QED
    BY <1>2, <2>3, SessionFacts DEF QuestionsInv
<1>5. ReviewInv(q) /\ EditInv(q)
  <2>1. OpenLine(runtime.cart) \subseteq OpenLine(q.cart)
    BY <1>2 DEF OpenLine
  <2>2. ReviewInv(q)
    BY <1>2, <2>1, SessionFacts DEF ReviewInv
  <2>3. EditInv(q)
    BY <1>2, <2>1, SessionFacts DEF EditInv
  <2> QED
    BY <2>2, <2>3
<1>6. StageInv(q)
  BY <1>2 DEF StageInv, Stages, FitsStage, Collecting, Ready
<1>7. SessionInv(q)
  BY <1>2, <1>3, <1>4, <1>5, <1>6 DEF SessionInv
<1> QED
  BY <1>1, <1>2, <1>7, TurnSafe

\* The draft of the piece that is collected gets other options or a quantity
WithChoices(c, options, n) ==
    [c EXCEPT !.draft = [id |-> c.draft.id, options |-> options, quantity |-> n]]

LEMMA DraftInv ==
    ASSUME NEW c, CartInv(c), NEW options \in Options, NEW n \in 0..MaxTarget, n # 0 => Complete(options),
           NEW d, d = WithChoices(c, options, n)
    PROVE  /\ CartInv(d) /\ Units(d) = Units(c) /\ (Distinct(c) => Distinct(d))
           /\ d.lines = c.lines /\ d.ids = c.ids /\ d.target = c.target /\ d.status = c.status
           /\ d.implicit = c.implicit
           /\ d.draft.id = c.draft.id /\ d.draft.options = options /\ d.draft.quantity = n
<1>0. c \in CartRecord(DOMAIN c.lines, Nat) /\ DOMAIN c = CartFields /\ c.ids \in Nat /\ c.draft.id \in Nat
  BY CartTypes DEF CartInv
<1>1. PICK draft : draft = [id |-> c.draft.id, options |-> options, quantity |-> n]
  OBVIOUS
<1>2. draft \in [id : Nat, options : Options, quantity : 0..MaxTarget]
  BY <1>0, <1>1
<1>3. /\ d.lines = c.lines /\ d.ids = c.ids /\ d.target = c.target /\ d.status = c.status
      /\ d.implicit = c.implicit /\ d.draft = draft
  BY <1>0, <1>1 DEF WithChoices, CartFields
<1>4. d \in CartRecord(DOMAIN c.lines, Nat)
  BY <1>0, <1>1, <1>2 DEF WithChoices, CartRecord
<1>5. d.draft.id = c.draft.id /\ d.draft.options = options /\ d.draft.quantity = n
  BY <1>1, <1>3
<1>6. /\ d \in CartRecord(DOMAIN d.lines, Nat) /\ d.ids \in Nat /\ c.ids <= d.ids
      /\ d.draft.id \in (0..d.ids) \ DOMAIN c.lines /\ Units(c) <= d.target
  BY <1>0, <1>3, <1>4, <1>5 DEF CartInv
<1>7. CartInv(d) /\ Units(d) = Units(c) /\ (Distinct(c) => Distinct(d))
  BY <1>3, <1>5, <1>6, SameLinesInv
<1> QED
  BY <1>3, <1>5, <1>7

\* The same update, written field by field
LEMMA DraftUpdates ==
    ASSUME NEW c, CartInv(c)
    PROVE  /\ \A options :
                [c EXCEPT !.draft.options = options] = WithChoices(c, options, c.draft.quantity)
           /\ \A n : [c EXCEPT !.draft.quantity = n] = WithChoices(c, c.draft.options, n)
<1>0. /\ DOMAIN c = CartFields
      /\ c.draft \in [id : Nat, options : Options, quantity : 0..MaxTarget]
  BY CartTypes DEF CartInv
<1>1. ASSUME NEW options
      PROVE  [c.draft EXCEPT !.options = options] =
                [id |-> c.draft.id, options |-> options, quantity |-> c.draft.quantity]
  BY <1>0
<1>2. ASSUME NEW n
      PROVE  [c.draft EXCEPT !.quantity = n] =
                [id |-> c.draft.id, options |-> c.draft.options, quantity |-> n]
  BY <1>0
<1>3. /\ \A options : [c EXCEPT !.draft.options = options] = [c EXCEPT !.draft = [c.draft EXCEPT !.options = options]]
      /\ \A n : [c EXCEPT !.draft.quantity = n] = [c EXCEPT !.draft = [c.draft EXCEPT !.quantity = n]]
  OBVIOUS
<1> QED
  BY <1>1, <1>2, <1>3 DEF WithChoices

LEMMA PlanSafe ==
    ASSUME CartIInv, NEW n \in 1..MaxTarget, NEW offer \in BOOLEAN, Plan(n, offer)
    PROVE  CartIInv'
<1>0. DOMAIN runtime.cart.lines = {} /\ runtime.entry \in Options /\ Complete(runtime.entry)
  BY SessionFacts DEF Plan, StageInv, QuestionsInv
<1>1. PICK c : c = [runtime.cart EXCEPT !.target = n, !.offer = offer, !.implicit = TRUE]
  OBVIOUS
<1>2. /\ c.lines = runtime.cart.lines /\ c.target = n /\ c.ids = runtime.cart.ids /\ c.implicit = TRUE
      /\ c.draft = runtime.cart.draft
  BY <1>1, SessionFacts DEF CartFields
<1>3. c \in CartRecord(DOMAIN runtime.cart.lines, Nat)
  <2>1. n \in 0..MaxTarget
    BY Limits
  <2> QED
    BY <1>1, <2>1, SessionFacts DEF CartRecord
<1>4. Units(runtime.cart) = 0 /\ 0 < n /\ 0 <= n
  BY <1>0, NoLinesNoUnits, Limits
<1>5. CartInv(c) /\ Units(c) = 0 /\ Distinct(c)
  BY <1>2, <1>3, <1>4, SessionFacts, SameLinesInv DEF CartInv
<1>6. PICK s : s = StartPiece(c)
  OBVIOUS
<1>7. /\ CartInv(s) /\ Units(s) = 0 /\ Distinct(s) /\ s.lines = c.lines /\ s.target = n
      /\ s.ids = c.ids + 1 /\ s.implicit = TRUE /\ s.status = "COLLECTING_ITEM"
      /\ s.draft = [id |-> c.ids + 1, options |-> Blank, quantity |-> 0]
  BY <1>2, <1>5, <1>6, StartPieceInv
<1>8. s.draft.id # 0 /\ s.draft.quantity = 0 /\ 0 \in 0..MaxTarget
  BY <1>2, <1>7, SessionFacts, Limits
<1>9. PICK e : e = [s EXCEPT !.draft.options = runtime.entry]
  OBVIOUS
<1>10. e = WithChoices(s, runtime.entry, 0)
  BY <1>7, <1>8, <1>9, DraftUpdates
<1>11. /\ CartInv(e) /\ Units(e) = 0 /\ Distinct(e) /\ e.lines = s.lines /\ e.ids = s.ids /\ e.target = n
       /\ e.status = "COLLECTING_ITEM" /\ e.implicit = TRUE /\ e.draft.id # 0
  BY <1>0, <1>7, <1>8, <1>10, DraftInv
<1>12. PICK d : d = AutoFinalize(e, Blank)
  OBVIOUS
<1>13. /\ CartInv(d) /\ (Collecting(d) \/ Ready(d)) /\ Distinct(d)
       /\ DOMAIN e.lines \subseteq DOMAIN d.lines /\ d.ids \in Nat /\ e.ids <= d.ids
  BY <1>4, <1>11, <1>12, AutoFinalizeInv
<1>14. runtime.cart.ids <= d.ids
  BY <1>2, <1>7, <1>11, <1>13, SessionFacts
<1>15. PICK r : r = [runtime EXCEPT !.entry = Blank]
  OBVIOUS
<1>16. /\ Shaped(r) /\ r.entry = Blank /\ r.checkout = runtime.checkout
       /\ r.shortcut = runtime.shortcut /\ r.review = runtime.review /\ r.edit = runtime.edit
  BY <1>15, SessionFacts DEF Shaped
<1>17. Turn(Collected(r, d))
  BY <1>1, <1>6, <1>9, <1>12, <1>15 DEF Plan
<1>18. DOMAIN runtime.cart.lines \subseteq DOMAIN d.lines
  BY <1>0
<1>19. /\ r.entry \in Options
       /\ r.shortcut \in [id : 0..runtime.cart.ids, decision : {"none", "same", "different"}]
  BY <1>16, BlankAsks, SessionFacts DEF QuestionsInv
<1> QED
  BY <1>13, <1>14, <1>16, <1>17, <1>18, <1>19, CollectedSafe

\* The next option of the piece; if it then equals a line, the turn is thrown
LEMMA ItemOptionSafe ==
    ASSUME CartIInv, NEW t, NEW g \in 1..Groups, NEW v \in Values, ItemOption(t, g, v)
    PROVE  CartIInv'
<1> DEFINE c == runtime.cart
           old == c.draft.options
           options == [old EXCEPT ![g] = v]
<1>0. /\ CartInv(c) /\ Distinct(c) /\ Collecting(c) /\ c.ids \in Nat /\ old \in Options
      /\ c.draft.quantity \in 0..MaxTarget /\ runtime.stage = "COLLECTING_ITEM"
  BY SessionFacts, CartTypes DEF ItemOption, FitsStage
<1>1. ~Complete(old) /\ g \in Left(old)
  <2>1. ~Complete(old) /\ g = Min(Left(old))
    BY DEF ItemOption, AsksFor
  <2>2. Left(old) \in SUBSET Nat /\ Left(old) # {}
    BY <2>1 DEF Left, Complete
  <2> QED
    BY <2>1, <2>2, MinInSet
<1>2. c.draft.quantity = 0
  BY <1>0, <1>1 DEF CartInv
<1>3. options \in Options
  BY <1>0 DEF Options
<1>4. PICK e : e = [c EXCEPT !.draft.options = options]
  OBVIOUS
<1>5. e = WithChoices(c, options, 0)
  BY <1>0, <1>2, <1>4, DraftUpdates
<1>6. e = [c EXCEPT !.draft.options[g] = v]
  BY <1>4
<1> HIDE DEF options
<1>7. /\ CartInv(e) /\ Units(e) = Units(c) /\ Distinct(e) /\ e.lines = c.lines /\ e.ids = c.ids
      /\ e.target = c.target /\ e.status = c.status /\ e.implicit = c.implicit
      /\ e.draft.id = c.draft.id /\ e.draft.options = options /\ e.draft.quantity = 0
  BY <1>0, <1>2, <1>3, <1>5, DraftInv
<1>8. PICK d : d = AutoFinalize(e, old)
  OBVIOUS
<1>9. /\ e.status = "COLLECTING_ITEM" /\ e.draft.id # 0 /\ Units(e) < e.target
      /\ ~e.implicit => Collecting(e)
  BY <1>0, <1>7 DEF Collecting
<1>10. /\ CartInv(d) /\ (Collecting(d) \/ Ready(d))
       /\ DOMAIN e.lines \subseteq DOMAIN d.lines /\ d.ids \in Nat /\ e.ids <= d.ids
       /\ ~Distinct(d) => /\ old # Blank /\ Complete(options)
                          /\ \E i \in DOMAIN c.lines : c.lines[i].options = options
  BY <1>7, <1>8, <1>9, AutoFinalizeInv
<1>11. ASSUME ~Distinct(d)
       PROVE  MayBecomeAlike(runtime)
  <2>1. PICK i \in DOMAIN c.lines : c.lines[i].options = options
    BY <1>10, <1>11
  <2>2. \A h \in 1..Groups : options[h] = IF h = g THEN v ELSE old[h]
    BY <1>0 DEF options, Options
  <2>3. Left(old) = {g}
    BY <1>1, <1>10, <1>11, <2>2 DEF Left, Complete
  <2>4. old[g] = Unset /\ v # Unset
    BY <1>1, CartAssumption DEF Left
  <2>5. Differ(c, i, old) = {g}
    BY <2>1, <2>2, <2>4 DEF Differ
  <2>6. Cardinality({g}) = 1
    BY FS_Singleton
  <2> QED
    BY <1>0, <1>10, <1>11, <2>3, <2>5, <2>6 DEF MayBecomeAlike
<1>12. Turn(Collected(runtime, d))
  BY <1>6, <1>8 DEF ItemOption
<1>13. runtime.entry \in Options
       /\ runtime.shortcut \in [id : 0..runtime.cart.ids, decision : {"none", "same", "different"}]
  BY SessionFacts DEF QuestionsInv
<1> QED
  BY <1>7, <1>10, <1>11, <1>12, <1>13, SessionFacts, CollectedSafe

LEMMA ShortcutTurns ==
    ASSUME CartIInv, SameAsPrevious \/ DifferentChoices
    PROVE  CartIInv'
<1> DEFINE c == runtime.cart
<1>0. /\ CartInv(c) /\ Distinct(c) /\ Collecting(c) /\ c.ids \in Nat /\ Shaped(runtime)
      /\ c.draft.quantity \in 0..MaxTarget /\ c.lines \in [DOMAIN c.lines -> Line]
      /\ c.draft.options = Blank /\ DOMAIN c.lines # {}
      /\ runtime.entry \in Options
      /\ runtime.shortcut \in [id : 0..c.ids, decision : {"none", "same", "different"}]
  BY SessionFacts, CartTypes DEF SameAsPrevious, DifferentChoices, ShortcutOpen, FitsStage, QuestionsInv, CartInv
<1>1. CASE DifferentChoices
  <2>1. PICK r : r = [runtime EXCEPT !.shortcut.decision = "different"] /\ Turn(Collected(r, c))
    BY <1>1 DEF DifferentChoices
  <2>2. /\ Shaped(r) /\ r.entry = runtime.entry /\ r.checkout = runtime.checkout
        /\ r.review = runtime.review /\ r.edit = runtime.edit
        /\ r.shortcut = [runtime.shortcut EXCEPT !.decision = "different"]
    BY <1>0, <2>1 DEF Shaped
  <2>3. r.shortcut \in [id : 0..c.ids, decision : {"none", "same", "different"}]
    BY <1>0, <2>2
  <2>4. c.ids <= c.ids /\ DOMAIN c.lines \subseteq DOMAIN c.lines
    BY <1>0
  <2> QED
    BY <1>0, <2>1, <2>2, <2>3, <2>4, CollectedSafe
<1>2. CASE SameAsPrevious
  <2>1. PICK k : k = Max(DOMAIN c.lines)
    OBVIOUS
  <2>2. k \in DOMAIN c.lines
    BY <1>0, <2>1, MaxInSet DEF CartInv
  <2>3. c.lines[k].options \in Options
    BY <1>0, <2>2 DEF Line
  <2>4. c.draft.quantity = 0
    BY <1>0, BlankAsks DEF CartInv
  <2>5. PICK e : e = [c EXCEPT !.draft.options = c.lines[k].options]
    OBVIOUS
  <2>6. e = WithChoices(c, c.lines[k].options, 0)
    BY <1>0, <2>4, <2>5, DraftUpdates
  <2>7. /\ CartInv(e) /\ Units(e) = Units(c) /\ Distinct(e) /\ e.lines = c.lines /\ e.ids = c.ids
        /\ e.target = c.target /\ e.status = c.status /\ e.implicit = c.implicit
        /\ e.draft.id = c.draft.id /\ e.draft.quantity = 0
    BY <1>0, <2>3, <2>4, <2>6, DraftInv
  <2>8. PICK d : d = AutoFinalize(e, Blank)
    OBVIOUS
  <2>9. /\ e.status = "COLLECTING_ITEM" /\ e.draft.id # 0 /\ Units(e) < e.target
        /\ ~e.implicit => Collecting(e)
    BY <1>0, <2>7 DEF Collecting
  <2>10. /\ CartInv(d) /\ (Collecting(d) \/ Ready(d)) /\ Distinct(d)
         /\ DOMAIN c.lines \subseteq DOMAIN d.lines /\ d.ids \in Nat /\ c.ids <= d.ids
    BY <2>7, <2>8, <2>9, AutoFinalizeInv
  <2>11. PICK r : r = [runtime EXCEPT !.shortcut.decision = "same"] /\ Turn(Collected(r, d))
    BY <1>2, <2>1, <2>5, <2>8 DEF SameAsPrevious
  <2>12. /\ Shaped(r) /\ r.entry = runtime.entry /\ r.checkout = runtime.checkout
         /\ r.review = runtime.review /\ r.edit = runtime.edit
         /\ r.shortcut = [runtime.shortcut EXCEPT !.decision = "same"]
    BY <1>0, <2>11 DEF Shaped
  <2>13. r.shortcut \in [id : 0..c.ids, decision : {"none", "same", "different"}]
    BY <1>0, <2>12
  <2> QED
    BY <1>0, <2>10, <2>11, <2>12, <2>13, CollectedSafe
<1> QED
  BY <1>1, <1>2

LEMMA RefusedInCollectionSafe ==
    ASSUME CartIInv, RefusedInCollection
    PROVE  CartIInv'
<1> DEFINE c == runtime.cart
<1>0. /\ CartInv(c) /\ Distinct(c) /\ Collecting(c) /\ Shaped(runtime) /\ runtime.entry \in Options
      /\ runtime.shortcut \in [id : 0..c.ids, decision : {"none", "same", "different"}]
  BY SessionFacts DEF RefusedInCollection, FitsStage, QuestionsInv
<1>1. PICK d : d = AutoFinalize(c, c.draft.options)
  OBVIOUS
<1>2. /\ CartInv(d) /\ (Collecting(d) \/ Ready(d)) /\ Distinct(d)
      /\ DOMAIN c.lines \subseteq DOMAIN d.lines /\ d.ids \in Nat /\ c.ids <= d.ids
  BY <1>0, <1>1, AutoFinalizeInv DEF Collecting
<1>3. Turn(Collected(runtime, d))
  BY <1>1 DEF RefusedInCollection
<1> QED
  BY <1>0, <1>2, <1>3, CollectedSafe

LEMMA PieceQuantitySafe ==
    ASSUME CartIInv, NEW n \in 1..MaxTarget, PieceQuantity(n)
    PROVE  CartIInv'
<1> DEFINE c == runtime.cart
<1>0. /\ CartInv(c) /\ Distinct(c) /\ Collecting(c) /\ Shaped(runtime) /\ runtime.entry \in Options
      /\ runtime.shortcut \in [id : 0..c.ids, decision : {"none", "same", "different"}]
      /\ c.draft.options \in Options /\ Units(c) \in Nat
  BY SessionFacts, CartTypes DEF PieceQuantity, FitsStage, QuestionsInv
<1>1. /\ ~c.implicit /\ c.draft.id # 0 /\ Complete(c.draft.options) /\ n + Units(c) <= c.target
  BY DEF PieceQuantity
<1>2. PICK e : e = [c EXCEPT !.draft.quantity = n]
  OBVIOUS
<1>3. e = WithChoices(c, c.draft.options, n)
  BY <1>0, <1>2, DraftUpdates
<1>4. n \in 0..MaxTarget /\ n # 0 /\ n \in Nat
  BY Limits
<1>5. /\ CartInv(e) /\ Units(e) = Units(c) /\ Distinct(e) /\ e.lines = c.lines /\ e.ids = c.ids
      /\ e.target = c.target /\ e.status = c.status /\ e.implicit = c.implicit
      /\ e.draft.id = c.draft.id /\ e.draft.options = c.draft.options /\ e.draft.quantity = n
  BY <1>0, <1>1, <1>3, <1>4, DraftInv
<1>6. PICK d : d = Finalize(e, c.draft.options)
  OBVIOUS
<1>7. Units(e) < e.target /\ Units(e) + e.draft.quantity <= e.target /\ e.status = "COLLECTING_ITEM"
  BY <1>0, <1>1, <1>4, <1>5 DEF Collecting
<1>8. /\ CartInv(d) /\ (Collecting(d) \/ Ready(d)) /\ Distinct(d)
      /\ DOMAIN c.lines \subseteq DOMAIN d.lines /\ d.ids \in Nat /\ c.ids <= d.ids
  BY <1>1, <1>4, <1>5, <1>6, <1>7, FinalizeInv
<1>9. Turn(Collected(runtime, d))
  BY <1>2, <1>6 DEF PieceQuantity
<1> QED
  BY <1>0, <1>8, <1>9, CollectedSafe

-----------------------------------------------------------------------------
(* The review and the editor *)

LEMMA ReviewSafe ==
    ASSUME CartIInv, NEW r, Shaped(r), CartInv(r.cart), Ready(r.cart),
           r.stage \in {"CART_REVIEW", "EDITING_CART_ITEM"},
           r.entry = runtime.entry, r.checkout = runtime.checkout, r.shortcut = runtime.shortcut,
           r.cart.ids = runtime.cart.ids, ReviewInv(r), EditInv(r),
           Distinct(r.cart) \/ MayBecomeAlike(runtime), Turn(r)
    PROVE  CartIInv'
<1>1. QuestionsInv(r)
  BY SessionFacts DEF QuestionsInv
<1>2. StageInv(r)
  BY DEF StageInv, Stages, FitsStage
<1>3. SessionInv(r)
  BY <1>1, <1>2 DEF SessionInv
<1> QED
  BY <1>3, TurnSafe

\* Buttons that change the screen, the selection or the editor only
LEMMA ScreenSafe ==
    ASSUME CartIInv, InReview, NEW r, Shaped(r), r.cart = runtime.cart,
           r.stage \in {"CART_REVIEW", "EDITING_CART_ITEM"},
           r.entry = runtime.entry, r.checkout = runtime.checkout, r.shortcut = runtime.shortcut,
           r.review = runtime.review \/ ReviewInv(r), r.edit \in {runtime.edit, NoEdit} \/ EditInv(r),
           Turn(r)
    PROVE  CartIInv'
<1>1. ReviewInv(r)
  BY SessionFacts DEF ReviewInv
<1>2. EditInv(r)
  BY SessionFacts, ClosedInv DEF EditInv
<1> QED
  BY <1>1, <1>2, SessionFacts, ReviewSafe DEF InReview

LEMMA ScreenTurns ==
    ASSUME CartIInv, RefusedInReview \/ ShowLines \/ UnreadableQuantity \/ CloseEditor
    PROVE  CartIInv'
<1>1. CASE RefusedInReview \/ UnreadableQuantity
  <2>1. PICK r, stage : /\ r = [runtime EXCEPT !.stage = stage] /\ Turn(r)
                        /\ stage \in {"CART_REVIEW", "EDITING_CART_ITEM"} /\ InReview
    BY <1>1 DEF RefusedInReview, UnreadableQuantity, NoEditor
  <2>2. /\ Shaped(r) /\ r.cart = runtime.cart /\ r.stage = stage /\ r.entry = runtime.entry
        /\ r.checkout = runtime.checkout /\ r.shortcut = runtime.shortcut
        /\ r.review = runtime.review /\ r.edit = runtime.edit
    BY <2>1, SessionFacts DEF Shaped
  <2> QED
    BY <2>1, <2>2, ScreenSafe
<1>2. CASE ShowLines
  <2>1. PICK r : /\ r = [runtime EXCEPT !.stage = "CART_REVIEW", !.edit = NoEdit,
                                        !.review = NoReview(@.accepted)]
                 /\ Turn(r) /\ InReview
    BY <1>2 DEF ShowLines
  <2>2. /\ Shaped(r) /\ r.cart = runtime.cart /\ r.stage = "CART_REVIEW" /\ r.entry = runtime.entry
        /\ r.checkout = runtime.checkout /\ r.shortcut = runtime.shortcut
        /\ r.review = NoReview(runtime.review.accepted) /\ r.edit = NoEdit
    BY <2>1, SessionFacts DEF Shaped
  <2>3. runtime.review.accepted \in BOOLEAN
    BY SessionFacts DEF ReviewInv
  <2>4. ReviewInv(r)
    BY <2>2, <2>3, ClosedInv
  <2> QED
    BY <2>1, <2>2, <2>4, ScreenSafe
<1>3. CASE CloseEditor
  <2>1. PICK r : r = [runtime EXCEPT !.stage = "CART_REVIEW", !.edit = NoEdit] /\ Turn(r) /\ InReview
    BY <1>3 DEF CloseEditor
  <2>2. /\ Shaped(r) /\ r.cart = runtime.cart /\ r.stage = "CART_REVIEW" /\ r.entry = runtime.entry
        /\ r.checkout = runtime.checkout /\ r.shortcut = runtime.shortcut
        /\ r.review = runtime.review /\ r.edit = NoEdit
    BY <2>1, SessionFacts DEF Shaped
  <2> QED
    BY <2>1, <2>2, ScreenSafe
<1> QED
  BY <1>1, <1>2, <1>3

LEMMA SelectionTurns ==
    ASSUME CartIInv, NEW i \in DOMAIN runtime.cart.lines, SelectLine(i) \/ ChangeQuantity(i)
    PROVE  CartIInv'
<1>1. PICK r, review :
        /\ r = [runtime EXCEPT !.stage = "EDITING_CART_ITEM", !.review = review] /\ Turn(r) /\ InReview
        /\ review \in {[runtime.review EXCEPT !.selected = i, !.awaiting = 0],
                       [runtime.review EXCEPT !.awaiting = i]}
  <2>1. CASE SelectLine(i)
    <3>1. PICK r : /\ r = [runtime EXCEPT !.stage = "EDITING_CART_ITEM", !.review.selected = i,
                                          !.review.awaiting = 0]
                   /\ Turn(r) /\ InReview
      BY <2>1 DEF SelectLine, NoEditor
    <3>2. r = [runtime EXCEPT !.stage = "EDITING_CART_ITEM",
                              !.review = [runtime.review EXCEPT !.selected = i, !.awaiting = 0]]
      BY <3>1, SessionFacts DEF Shaped
    <3> QED
      BY <3>1, <3>2
  <2>2. CASE ChangeQuantity(i)
    <3>1. PICK r : /\ r = [runtime EXCEPT !.stage = "EDITING_CART_ITEM", !.review.awaiting = i]
                   /\ Turn(r) /\ InReview
      BY <2>2 DEF ChangeQuantity, NoEditor
    <3>2. r = [runtime EXCEPT !.stage = "EDITING_CART_ITEM",
                              !.review = [runtime.review EXCEPT !.awaiting = i]]
      BY <3>1, SessionFacts DEF Shaped
    <3> QED
      BY <3>1, <3>2
  <2> QED
    BY <2>1, <2>2
<1>2. /\ Shaped(r) /\ r.cart = runtime.cart /\ r.stage = "EDITING_CART_ITEM" /\ r.entry = runtime.entry
      /\ r.checkout = runtime.checkout /\ r.shortcut = runtime.shortcut
      /\ r.review = review /\ r.edit = runtime.edit
  BY <1>1, SessionFacts DEF Shaped
<1>3. ReviewInv(r)
  <2>1. i \in OpenLine(runtime.cart) /\ 0 \in OpenLine(runtime.cart)
    BY DEF OpenLine
  <2>2. review \in [selected : OpenLine(runtime.cart), awaiting : OpenLine(runtime.cart), accepted : BOOLEAN]
    BY <1>1, <2>1, SessionFacts DEF ReviewInv
  <2> QED
    BY <1>2, <2>2 DEF ReviewInv
<1> QED
  BY <1>1, <1>2, <1>3, ScreenSafe

LEMMA OpenEditorSafe ==
    ASSUME CartIInv, NEW i \in DOMAIN runtime.cart.lines, NEW focus \in BOOLEAN, OpenEditor(i, focus)
    PROVE  CartIInv'
<1> DEFINE line == runtime.cart.lines[i]
           opened == [source |-> i, options |-> line.options, auto |-> focus, base |-> line]
           focused == [runtime.edit EXCEPT !.auto = @ \/ focus]
<1>1. PICK r, stage, edit :
        /\ r = [runtime EXCEPT !.stage = stage, !.edit = edit] /\ Turn(r) /\ InReview
        /\ stage \in {"CART_REVIEW", "EDITING_CART_ITEM"} /\ edit \in {NoEdit, opened, focused}
  <2>1. CASE Turn([runtime EXCEPT !.stage = "CART_REVIEW", !.edit = NoEdit])
    BY <2>1 DEF OpenEditor
  <2>2. CASE Turn([runtime EXCEPT !.stage = "EDITING_CART_ITEM", !.edit = opened])
    BY <2>2 DEF OpenEditor
  <2>3. CASE Turn([runtime EXCEPT !.stage = IF runtime.edit.source = i /\ Unmoved
                                            THEN "EDITING_CART_ITEM" ELSE "CART_REVIEW",
                                  !.edit.auto = @ \/ focus])
    <3>1. PICK stage, r : /\ r = [runtime EXCEPT !.stage = stage, !.edit.auto = @ \/ focus]
                          /\ Turn(r) /\ stage \in {"CART_REVIEW", "EDITING_CART_ITEM"}
      BY <2>3
    <3>2. r = [runtime EXCEPT !.stage = stage, !.edit = focused]
      BY <3>1, SessionFacts DEF Shaped
    <3> HIDE DEF focused
    <3> QED
      BY <3>1, <3>2 DEF OpenEditor
  <2> QED
    BY <2>1, <2>2, <2>3, Zenon DEF OpenEditor
<1>2. /\ Shaped(r) /\ r.cart = runtime.cart /\ r.stage = stage /\ r.entry = runtime.entry
      /\ r.checkout = runtime.checkout /\ r.shortcut = runtime.shortcut
      /\ r.review = runtime.review /\ r.edit = edit
  BY <1>1, SessionFacts DEF Shaped
<1>3. EditInv(r)
  <2>1. CASE edit = NoEdit
    BY <1>2, <2>1, ClosedInv
  <2>2. CASE edit = opened
    <3>1. line \in Line /\ Complete(line.options) /\ i \in OpenLine(runtime.cart)
      BY SessionFacts, CartTypes DEF CartInv, OpenLine
    <3>2. line.options \in Options
      BY <3>1 DEF Line
    <3> HIDE DEF line
    <3>3. opened \in [source : OpenLine(runtime.cart), options : Options, auto : BOOLEAN, base : Line]
      BY <3>1, <3>2
    <3> QED
      BY <1>2, <2>2, <3>1, <3>3 DEF EditInv
  <2>3. CASE edit = focused
    <3>1. PICK auto \in BOOLEAN : auto = (runtime.edit.auto \/ focus)
      OBVIOUS
    <3>2. focused = [runtime.edit EXCEPT !.auto = auto]
      BY <3>1
    <3> HIDE DEF focused
    <3> QED
      BY <1>2, <2>3, <3>1, <3>2, SessionFacts DEF EditInv
  <2> QED
    BY <1>1, <2>1, <2>2, <2>3
<1> QED
  BY <1>1, <1>2, <1>3, ScreenSafe

\* A changed cart: the target follows the lines
Alterable(e) ==
    /\ e \in CartRecord(DOMAIN e.lines, Nat) /\ DOMAIN e.lines \subseteq 1..e.ids
    /\ e.draft.id = 0 /\ (e.draft.quantity # 0 => Complete(e.draft.options))
    /\ \A i \in DOMAIN e.lines : Complete(e.lines[i].options)
    /\ Cardinality(DOMAIN e.lines) <= MaxLines
    /\ e.status = "CART_REVIEW" /\ DOMAIN e.lines # {}

LEMMA ReadyAlterable ==
    ASSUME NEW c, CartInv(c), Ready(c)
    PROVE  Alterable(c)
BY DEF CartInv, Ready, Alterable

LEMMA SynchronizedInv ==
    ASSUME NEW e, Alterable(e), NEW d, d = Synchronized(e), d.target <= MaxTarget
    PROVE  /\ CartInv(d) /\ Ready(d) /\ d.lines = e.lines /\ d.ids = e.ids /\ Units(d) = d.target
           /\ Units(e) = d.target
<1>0. DOMAIN e = CartFields /\ e.ids \in Nat /\ e.lines \in [DOMAIN e.lines -> Line]
  BY CartTypes DEF Alterable
<1>1. Units(e) \in Nat
  BY <1>0, CartCounted DEF Alterable
<1>2. /\ d.lines = e.lines /\ d.ids = e.ids /\ d.draft = e.draft /\ d.status = e.status
      /\ d.target = Units(e)
  BY <1>0 DEF Synchronized, CartFields
<1>3. Units(e) \in 0..MaxTarget
  BY <1>1, <1>2, Limits
<1>4. PICK u : u = Units(e)
  OBVIOUS
<1>5. d = [e EXCEPT !.target = u, !.implicit = FALSE]
  BY <1>4 DEF Synchronized
<1>6. d \in CartRecord(DOMAIN e.lines, Nat)
  BY <1>0, <1>3, <1>4, <1>5 DEF CartRecord, Alterable
<1>7. Units(d) = Units(e)
  BY <1>2 DEF Units, Pieces
<1>8. d.draft.id \in (0..d.ids) \ DOMAIN d.lines
  BY <1>0, <1>2 DEF Alterable
<1>9. Units(d) <= d.target
  BY <1>1, <1>2, <1>7
<1>10. CartInv(d)
  BY <1>2, <1>6, <1>8, <1>9 DEF CartInv, Alterable
<1>11. Ready(d)
  BY <1>2, <1>7 DEF Ready, Alterable
<1> QED
  BY <1>2, <1>7, <1>10, <1>11

LEMMA AfterReviewSafe ==
    ASSUME CartIInv, runtime.edit = NoEdit, NEW d, CartInv(d), Ready(d), Distinct(d),
           d.ids = runtime.cart.ids, NEW accepted \in BOOLEAN, AfterReview(d, accepted)
    PROVE  CartIInv'
<1>1. PICK r : /\ r = [runtime EXCEPT !.stage = "CART_REVIEW", !.cart = d, !.review = NoReview(accepted)]
               /\ Turn(r)
  BY DEF AfterReview
<1>2. /\ DOMAIN r = DOMAIN runtime /\ r.cart = d /\ r.stage = "CART_REVIEW" /\ r.entry = runtime.entry
      /\ r.checkout = runtime.checkout /\ r.shortcut = runtime.shortcut
      /\ r.review = NoReview(accepted) /\ r.edit = NoEdit
  BY <1>1, SessionFacts DEF Shaped
<1>3. Shaped(r)
  BY <1>2, SessionFacts, CartTypes DEF Shaped, CartInv
<1>4. ReviewInv(r) /\ EditInv(r)
  BY <1>2, ClosedInv
<1> QED
  BY <1>1, <1>2, <1>3, <1>4, ReviewSafe

LEMMA LineQuantitySafe ==
    ASSUME CartIInv, NEW n \in 1..MaxTarget, LineQuantity(n)
    PROVE  CartIInv'
<1> DEFINE c == runtime.cart
<1>0. /\ CartInv(c) /\ Ready(c) /\ Distinct(c) /\ runtime.edit = NoEdit /\ DOMAIN c = CartFields
      /\ c.lines \in [DOMAIN c.lines -> Line] /\ c \in CartRecord(DOMAIN c.lines, Nat)
  BY SessionFacts, CartTypes DEF LineQuantity, NoEditor, InReview
<1>1. PICK i \in DOMAIN c.lines : i = runtime.review.awaiting
  BY SessionFacts DEF LineQuantity, ReviewInv, OpenLine
<1>2. PICK lines : lines = [c.lines EXCEPT ![i].quantity = n]
  OBVIOUS
<1>3. n \in 0..MaxTarget
  BY Limits
<1>4. /\ DOMAIN lines = DOMAIN c.lines /\ lines \in [DOMAIN c.lines -> Line]
      /\ \A j \in DOMAIN c.lines : lines[j].options = c.lines[j].options
  BY <1>0, <1>2, <1>3 DEF Line
<1>5. PICK e : e = [c EXCEPT !.lines[i].quantity = n]
  OBVIOUS
<1>6. e = [c EXCEPT !.lines = lines]
  BY <1>2, <1>5
<1>7. /\ e.lines = lines /\ e.ids = c.ids /\ e.draft = c.draft /\ e.status = c.status
  BY <1>0, <1>6 DEF CartFields
<1>8. e \in CartRecord(DOMAIN c.lines, Nat)
  BY <1>0, <1>4, <1>6 DEF CartRecord
<1>9. Alterable(e)
  BY <1>0, <1>4, <1>7, <1>8, ReadyAlterable DEF Alterable
<1>10. PICK d : d = Synchronized(e)
  OBVIOUS
<1>11. WithQuantity(c, i, n) = IF d.target <= MaxTarget THEN d ELSE c
  BY <1>5, <1>10 DEF WithQuantity
<1>12. CASE d.target <= MaxTarget
  <2>1. CartInv(d) /\ Ready(d) /\ d.lines = lines /\ d.ids = c.ids
    BY <1>7, <1>9, <1>10, <1>12, SynchronizedInv
  <2>2. Distinct(d)
    BY <1>0, <1>4, <2>1 DEF Distinct
  <2>3. AfterReview(d, FALSE)
    BY <1>1, <1>11, <1>12 DEF LineQuantity
  <2> QED
    BY <1>0, <2>1, <2>2, <2>3, AfterReviewSafe
<1>13. CASE ~(d.target <= MaxTarget)
  <2>1. AfterReview(c, FALSE)
    BY <1>1, <1>11, <1>13 DEF LineQuantity
  <2> QED
    BY <1>0, <2>1, AfterReviewSafe
<1> QED
  BY <1>12, <1>13

LEMMA RemoveLineSafe ==
    ASSUME CartIInv, NEW i \in DOMAIN runtime.cart.lines, RemoveLine(i)
    PROVE  CartIInv'
<1> DEFINE c == runtime.cart
<1>0. /\ CartInv(c) /\ Ready(c) /\ Distinct(c) /\ runtime.edit = NoEdit /\ DOMAIN c = CartFields
      /\ c.lines \in [DOMAIN c.lines -> Line] /\ c \in CartRecord(DOMAIN c.lines, Nat)
      /\ c.target \in 0..MaxTarget /\ Counted(c, MaxTarget) /\ Units(c) = c.target
      /\ IsFiniteSet(DOMAIN c.lines) /\ Cardinality(DOMAIN c.lines) \in Nat
  BY SessionFacts, CartTypes, CartSums DEF RemoveLine, MayRemove, NoEditor, InReview, Ready
<1>1. CASE Cardinality(DOMAIN c.lines) > 1
  <2>1. PICK lines : lines = [j \in DOMAIN c.lines \ {i} |-> c.lines[j]]
    OBVIOUS
  <2>2. PICK e : e = [c EXCEPT !.lines = lines]
    OBVIOUS
  <2>3. e.lines = lines /\ e.ids = c.ids /\ e.draft = c.draft /\ e.status = c.status
    BY <1>0, <2>2 DEF CartFields
  <2>4. /\ DOMAIN lines = DOMAIN c.lines \ {i} /\ lines \in [DOMAIN lines -> Line]
        /\ \A j \in DOMAIN lines : lines[j] = c.lines[j]
    BY <1>0, <2>1
  <2>5. e \in CartRecord(DOMAIN lines, Nat)
    BY <1>0, <2>2, <2>4 DEF CartRecord
  <2>6. PICK m \in Nat : m = Cardinality(DOMAIN c.lines)
    BY <1>0
  <2>7. Cardinality(DOMAIN c.lines \ {i}) = m - 1
    BY <1>0, <2>6, FS_RemoveElement
  <2>8. m - 1 # 0 /\ m - 1 <= MaxLines
    BY <1>0, <1>1, <2>6, Limits DEF CartInv
  <2>9. DOMAIN lines # {} /\ Cardinality(DOMAIN lines) <= MaxLines
    BY <2>4, <2>7, <2>8, FS_EmptySet
  <2>10. Alterable(e)
    BY <1>0, <2>3, <2>4, <2>5, <2>9, ReadyAlterable DEF Alterable
  <2>11. Units(e) <= MaxTarget
    <3>1. PICK most \in Nat : most = MaxTarget /\ Counted(c, most)
      BY <1>0, Limits
    <3>2. /\ DOMAIN e.lines = DOMAIN c.lines \ {i}
          /\ \A j \in DOMAIN e.lines : e.lines[j].quantity = c.lines[j].quantity
      BY <2>3, <2>4
    <3>3. Counted(e, most) /\ Units(c) = Units(e) + c.lines[i].quantity
      BY <3>1, <3>2, UnitsWithout
    <3>4. PICK u \in Nat, q \in Nat : u = Units(e) /\ q = c.lines[i].quantity
      BY <3>1, <3>3, PiecesFinite DEF Counted
    <3> QED
      BY <1>0, <3>3, <3>4, Limits
  <2>12. PICK d : d = Synchronized(e)
    OBVIOUS
  <2>13. d.target = Units(e)
    BY <2>5, <2>12, CartTypes DEF Synchronized, CartFields
  <2>14. CartInv(d) /\ Ready(d) /\ d.lines = lines /\ d.ids = c.ids
    BY <2>3, <2>10, <2>11, <2>12, <2>13, SynchronizedInv
  <2>15. Distinct(d)
    BY <1>0, <2>4, <2>14 DEF Distinct
  <2>16. AfterReview(d, FALSE)
    BY <1>1, <2>1, <2>2, <2>12 DEF RemoveLine
  <2> QED
    BY <1>0, <2>14, <2>15, <2>16, AfterReviewSafe
<1>2. CASE ~(Cardinality(DOMAIN c.lines) > 1)
  <2>1. AfterReview(c, FALSE)
    BY <1>2 DEF RemoveLine
  <2> QED
    BY <1>0, <2>1, AfterReviewSafe
<1> QED
  BY <1>1, <1>2

\* The review's target is already what the lines add up to
LEMMA SynchronizedReview ==
    ASSUME NEW c, CartInv(c), Ready(c), NEW d, d = Synchronized(c)
    PROVE  /\ CartInv(d) /\ Ready(d) /\ d.lines = c.lines /\ d.ids = c.ids /\ d.target = c.target
           /\ Units(d) = Units(c)
<1>0. c \in CartRecord(DOMAIN c.lines, Nat) /\ DOMAIN c = CartFields /\ c.target \in 0..MaxTarget
  BY CartTypes DEF CartInv
<1>1. d.target = c.target
  BY <1>0 DEF Synchronized, CartFields, Ready
<1>2. d.target <= MaxTarget
  BY <1>0, <1>1, Limits
<1> QED
  BY <1>1, <1>2, ReadyAlterable, SynchronizedInv

LEMMA UseStandardSafe ==
    ASSUME CartIInv, UseStandard
    PROVE  CartIInv'
<1> DEFINE c == runtime.cart
<1>0. /\ CartInv(c) /\ Ready(c) /\ Distinct(c) /\ runtime.edit = NoEdit /\ DOMAIN c = CartFields
      /\ c \in CartRecord(DOMAIN c.lines, Nat)
  BY SessionFacts DEF UseStandard, NoEditor, InReview
<1>1. PICK e : e = [c EXCEPT !.offer = FALSE]
  OBVIOUS
<1>2. /\ e.lines = c.lines /\ e.ids = c.ids /\ e.draft = c.draft /\ e.status = c.status
      /\ e.target = c.target
  BY <1>0, <1>1 DEF CartFields
<1>3. e \in CartRecord(DOMAIN c.lines, Nat)
  BY <1>0, <1>1 DEF CartRecord
<1>4. Units(e) = Units(c)
  BY <1>2 DEF Units, Pieces
<1>5. CartInv(e) /\ Ready(e)
  BY <1>0, <1>2, <1>3, <1>4 DEF CartInv, Ready
<1>6. PICK d : d = Synchronized(e)
  OBVIOUS
<1>7. CartInv(d) /\ Ready(d) /\ d.lines = c.lines /\ d.ids = c.ids
  BY <1>2, <1>5, <1>6, SynchronizedReview
<1>8. Distinct(d)
  BY <1>0, <1>7 DEF Distinct
<1>9. AfterReview(d, TRUE) \/ AfterReview(c, TRUE)
  BY <1>1, <1>6 DEF UseStandard
<1> QED
  BY <1>0, <1>7, <1>8, <1>9, AfterReviewSafe

LEMMA AddPieceSafe ==
    ASSUME CartIInv, AddPiece
    PROVE  CartIInv'
<1> DEFINE c == runtime.cart
<1>0. /\ CartInv(c) /\ Ready(c) /\ Distinct(c) /\ runtime.edit = NoEdit
      /\ Units(c) \in Nat /\ Units(c) = c.target /\ Units(c) < MaxTarget /\ c.ids \in Nat
  BY SessionFacts DEF AddPiece, NoEditor, InReview, Ready
<1>1. PICK d : d = Synchronized(c)
  OBVIOUS
<1>2. /\ CartInv(d) /\ d.lines = c.lines /\ d.ids = c.ids /\ d.target = c.target /\ Units(d) = Units(c)
  BY <1>0, <1>1, SynchronizedReview
<1>3. PICK t \in 0..MaxTarget : t = c.target + 1
  BY <1>0, Limits
<1>4. PICK e : e = [d EXCEPT !.target = t]
  OBVIOUS
<1>5. d \in CartRecord(DOMAIN d.lines, Nat) /\ DOMAIN d = CartFields /\ d.ids \in Nat
  BY <1>2, CartTypes DEF CartInv
<1>6. e.lines = d.lines /\ e.ids = d.ids /\ e.draft = d.draft /\ e.target = t
  BY <1>4, <1>5 DEF CartFields
<1>7. e \in CartRecord(DOMAIN d.lines, Nat)
  BY <1>4, <1>5 DEF CartRecord
<1>8. Units(d) <= t /\ Units(c) < t
  BY <1>0, <1>2, <1>3
<1>9. /\ e.draft.id \in (0..e.ids) \ DOMAIN d.lines /\ d.ids <= e.ids
      /\ (e.draft.quantity # 0 => Complete(e.draft.options))
  BY <1>2, <1>5, <1>6 DEF CartInv
<1>10. CartInv(e) /\ Units(e) = Units(c)
  BY <1>2, <1>5, <1>6, <1>7, <1>8, <1>9, SameLinesInv
<1>11. PICK s : s = StartPiece(e)
  OBVIOUS
<1>12. /\ CartInv(s) /\ Units(s) = Units(c) /\ s.lines = c.lines /\ s.target = t
       /\ s.ids = c.ids + 1 /\ s.status = "COLLECTING_ITEM"
       /\ s.draft = [id |-> c.ids + 1, options |-> Blank, quantity |-> 0]
  BY <1>2, <1>6, <1>10, <1>11, StartPieceInv
<1>13. Collecting(s)
  <2>1. s.draft.id # 0 /\ s.draft.options = Blank
    BY <1>0, <1>12
  <2> QED
    BY <1>8, <1>12, <2>1, BlankAsks DEF Collecting
<1>14. PICK r : /\ r = [runtime EXCEPT !.stage = "COLLECTING_ITEM", !.review = NoReview(FALSE), !.cart = s]
                /\ Turn(r)
  <2>1. d.target + 1 = t
    BY <1>2, <1>3
  <2> QED
    BY <1>1, <1>4, <1>11, <2>1 DEF AddPiece
<1>15. /\ DOMAIN r = DOMAIN runtime /\ r.cart = s /\ r.stage = "COLLECTING_ITEM" /\ r.entry = runtime.entry
       /\ r.checkout = runtime.checkout /\ r.shortcut = runtime.shortcut
       /\ r.review = NoReview(FALSE) /\ r.edit = NoEdit
  BY <1>0, <1>14, SessionFacts DEF Shaped
<1>16. Shaped(r)
  BY <1>12, <1>15, SessionFacts, CartTypes DEF Shaped, CartInv
<1>17. ReviewInv(r) /\ EditInv(r)
  BY <1>15, ClosedInv
<1>18. QuestionsInv(r)
  <2>1. 0..c.ids \subseteq 0..r.cart.ids
    BY <1>0, <1>12, <1>15
  <2> QED
    BY <1>15, <2>1, SessionFacts DEF QuestionsInv
<1>19. StageInv(r)
  BY <1>13, <1>15 DEF StageInv, Stages, FitsStage
<1>20. SessionInv(r)
  BY <1>12, <1>15, <1>16, <1>17, <1>18, <1>19 DEF SessionInv
<1>21. Distinct(r.cart)
  BY <1>0, <1>12, <1>15 DEF Distinct
<1> QED
  BY <1>14, <1>20, <1>21, TurnSafe

\* The line of the editor with other options; all the others as they were
LEMMA ReplacedInv ==
    ASSUME NEW c, CartInv(c), Ready(c), NEW i \in DOMAIN c.lines, NEW options \in Options,
           Complete(options), NEW d, d = Replaced(c, i, options)
    PROVE  /\ CartInv(d) /\ Ready(d) /\ d.ids = c.ids /\ DOMAIN d.lines = DOMAIN c.lines
           /\ Distinct(c) /\ ~Distinct(d) =>
                \E j \in DOMAIN c.lines \ {i} : c.lines[j].options = options
<1>0. /\ DOMAIN c = CartFields /\ c.lines \in [DOMAIN c.lines -> Line] /\ c.target \in 0..MaxTarget
      /\ c \in CartRecord(DOMAIN c.lines, Nat)
  BY CartTypes DEF CartInv
<1>1. PICK lines : lines = [c.lines EXCEPT ![i].options = options]
  OBVIOUS
<1>2. /\ DOMAIN lines = DOMAIN c.lines /\ lines \in [DOMAIN c.lines -> Line]
      /\ lines[i].options = options /\ lines[i].quantity = c.lines[i].quantity
      /\ \A j \in DOMAIN c.lines \ {i} : lines[j] = c.lines[j]
  BY <1>0, <1>1 DEF Line
<1>3. PICK e : e = [c EXCEPT !.lines = lines]
  OBVIOUS
<1>4. d = Synchronized(e)
  BY <1>1, <1>3 DEF Replaced
<1>5. e.lines = lines /\ e.ids = c.ids /\ e.draft = c.draft /\ e.status = c.status /\ e.target = c.target
  BY <1>0, <1>3 DEF CartFields
<1>6. e \in CartRecord(DOMAIN c.lines, Nat)
  BY <1>0, <1>2, <1>3 DEF CartRecord
<1>7. \A j \in DOMAIN c.lines : lines[j].quantity = c.lines[j].quantity
  BY <1>2
<1>8. Pieces(e) = Pieces(c)
  BY <1>2, <1>5, <1>7 DEF Pieces
<1>9. Units(e) = Units(c)
  BY <1>8 DEF Units
<1>10. \A j \in DOMAIN lines : Complete(lines[j].options)
  BY <1>2 DEF CartInv
<1>11. CartInv(e) /\ Ready(e)
  BY <1>2, <1>5, <1>6, <1>9, <1>10 DEF CartInv, Ready
<1>12. CartInv(d) /\ Ready(d) /\ d.lines = lines /\ d.ids = c.ids
  BY <1>4, <1>5, <1>11, SynchronizedReview
<1>13. ASSUME Distinct(c), ~Distinct(d)
       PROVE  \E j \in DOMAIN c.lines \ {i} : c.lines[j].options = options
  <2>1. PICK j \in DOMAIN lines, k \in DOMAIN lines : lines[j].options = lines[k].options /\ j # k
    BY <1>12, <1>13 DEF Distinct
  <2>2. j = i \/ k = i
    BY <1>2, <1>13, <2>1 DEF Distinct
  <2> QED
    BY <1>2, <2>1, <2>2
<1> QED
  BY <1>2, <1>12, <1>13

\* If the line in the editor then equals another one, the turn is thrown
LEMMA ReplacedSafe ==
    ASSUME CartIInv, Unmoved, NEW options \in Options, Complete(options), NEW g \in 1..Groups,
           \A h \in 1..Groups \ {g} : options[h] = runtime.edit.options[h],
           NEW r, r.cart = Replaced(runtime.cart, runtime.edit.source, options),
           DOMAIN r = DOMAIN runtime, r.stage = "CART_REVIEW", r.edit = NoEdit,
           r.entry = runtime.entry, r.checkout = runtime.checkout, r.shortcut = runtime.shortcut,
           r.review = runtime.review \/ \E accepted \in BOOLEAN : r.review = NoReview(accepted), Turn(r)
    PROVE  CartIInv'
<1>0. /\ CartInv(runtime.cart) /\ Ready(runtime.cart) /\ Distinct(runtime.cart)
      /\ runtime.edit.source \in DOMAIN runtime.cart.lines
  BY SessionFacts DEF Unmoved, InReview
<1>1. PICK i, d : /\ i \in DOMAIN runtime.cart.lines /\ i = runtime.edit.source
                  /\ d = Replaced(runtime.cart, i, options)
  BY <1>0
<1>2. /\ CartInv(d) /\ Ready(d) /\ d.ids = runtime.cart.ids /\ DOMAIN d.lines = DOMAIN runtime.cart.lines
      /\ ~Distinct(d) => \E j \in DOMAIN runtime.cart.lines \ {i} : runtime.cart.lines[j].options = options
  BY <1>0, <1>1, ReplacedInv
<1>3. r.cart = d
  BY <1>1
<1>4. ASSUME ~Distinct(d)
      PROVE  MayBecomeAlike(runtime)
  <2>1. PICK j \in DOMAIN runtime.cart.lines \ {i} : runtime.cart.lines[j].options = options
    BY <1>2, <1>4
  <2>2. PICK D : D = Differ(runtime.cart, j, runtime.edit.options)
    OBVIOUS
  <2>3. D \subseteq {g}
    BY <2>1, <2>2 DEF Differ
  <2>4. IsFiniteSet({g}) /\ Cardinality({g}) = 1
    BY FS_Singleton
  <2>5. Cardinality(D) <= 1
    BY <2>3, <2>4, FS_Subset
  <2>6. runtime.edit # NoEdit
    <3>1. i # 0
      BY <1>1, SessionFacts DEF CartInv
    <3> QED
      BY <1>1, <3>1, ClosedInv
  <2> QED
    BY <1>1, <2>1, <2>2, <2>5, <2>6 DEF MayBecomeAlike
<1>5. ReviewInv(r)
  <2>1. CASE r.review = runtime.review
    <3>1. OpenLine(r.cart) = OpenLine(runtime.cart)
      BY <1>2, <1>3 DEF OpenLine
    <3> QED
      BY <2>1, <3>1, SessionFacts DEF ReviewInv
  <2>2. CASE \E accepted \in BOOLEAN : r.review = NoReview(accepted)
    BY <2>2, ClosedInv
  <2> QED
    BY <2>1, <2>2
<1>6. EditInv(r)
  BY ClosedInv
<1>7. Shaped(r)
  BY <1>2, <1>3, SessionFacts, CartTypes DEF Shaped, CartInv
<1> QED
  BY <1>2, <1>3, <1>4, <1>5, <1>6, <1>7, ReviewSafe

LEMMA EditorSaveSafe ==
    ASSUME CartIInv, EditorSave
    PROVE  CartIInv'
<1>1. PICK d, r : /\ d = Replaced(runtime.cart, runtime.edit.source, runtime.edit.options)
                  /\ r = [runtime EXCEPT !.stage = "CART_REVIEW", !.edit = NoEdit, !.cart = d]
                  /\ Turn(r) /\ Unmoved
  BY DEF EditorSave
<1>2. /\ DOMAIN r = DOMAIN runtime /\ r.cart = d /\ r.stage = "CART_REVIEW" /\ r.entry = runtime.entry
      /\ r.checkout = runtime.checkout /\ r.shortcut = runtime.shortcut
      /\ r.review = runtime.review /\ r.edit = NoEdit
  BY <1>1, SessionFacts DEF Shaped
<1>3. runtime.edit.options \in Options /\ Complete(runtime.edit.options)
  <2>1. runtime.edit.source # 0
    BY <1>1, SessionFacts DEF Unmoved, CartInv
  <2> QED
    BY <2>1, SessionFacts DEF EditInv
<1>4. 1 \in 1..Groups
  BY Limits
<1> QED
  BY <1>1, <1>2, <1>3, <1>4, ReplacedSafe

LEMMA EditorOptionSafe ==
    ASSUME CartIInv, NEW t, NEW g \in 1..Groups, NEW v \in Values, EditorOption(t, g, v)
    PROVE  CartIInv'
<1>1. PICK options, edit, back :
        /\ options = [runtime.edit.options EXCEPT ![g] = v]
        /\ edit = [runtime.edit EXCEPT !.options[g] = v]
        /\ back = [runtime EXCEPT !.stage = "CART_REVIEW", !.review = NoReview(@.accepted), !.edit = NoEdit]
  OBVIOUS
<1>2. /\ Unmoved /\ InReview
      /\ \/ Turn([runtime EXCEPT !.stage = "EDITING_CART_ITEM"])
         \/ Turn([back EXCEPT !.cart = Replaced(@, edit.source, edit.options)])
         \/ Turn(back)
         \/ Turn([back EXCEPT !.edit = edit])
  BY <1>1 DEF EditorOption, Unmoved
<1>3. /\ runtime.edit \in [source : OpenLine(runtime.cart), options : Options, auto : BOOLEAN, base : Line]
      /\ runtime.edit.source # 0 /\ Complete(runtime.edit.options) /\ runtime.edit.options \in Options
      /\ runtime.review.accepted \in BOOLEAN
  BY <1>2, SessionFacts DEF EditInv, Unmoved, CartInv, ReviewInv
<1>4. /\ options \in Options
      /\ \A h \in 1..Groups : options[h] = IF h = g THEN v ELSE runtime.edit.options[h]
  BY <1>1, <1>3 DEF Options
<1>5. Complete(options)
  <2>1. v # Unset
    BY CartAssumption
  <2> QED
    BY <1>3, <1>4, <2>1 DEF Complete, Left
<1>6. edit.source = runtime.edit.source /\ edit.options = options
  BY <1>1, <1>3
<1>7. edit \in [source : OpenLine(runtime.cart), options : Options, auto : BOOLEAN, base : Line]
  BY <1>1, <1>3, <1>4
<1>8. /\ DOMAIN back = DOMAIN runtime /\ back.cart = runtime.cart /\ back.stage = "CART_REVIEW"
      /\ back.entry = runtime.entry /\ back.checkout = runtime.checkout
      /\ back.shortcut = runtime.shortcut
      /\ back.review = NoReview(runtime.review.accepted) /\ back.edit = NoEdit
      /\ DOMAIN runtime = {"stage", "entry", "checkout", "shortcut", "review", "edit", "cart"}
      /\ Shaped(back)
  BY <1>1, SessionFacts DEF Shaped
<1>9. CASE Turn([runtime EXCEPT !.stage = "EDITING_CART_ITEM"])
  <2>1. PICK r : r = [runtime EXCEPT !.stage = "EDITING_CART_ITEM"] /\ Turn(r)
    BY <1>9
  <2>2. /\ Shaped(r) /\ r.cart = runtime.cart /\ r.stage = "EDITING_CART_ITEM" /\ r.entry = runtime.entry
        /\ r.checkout = runtime.checkout /\ r.shortcut = runtime.shortcut
        /\ r.review = runtime.review /\ r.edit = runtime.edit
    BY <2>1, SessionFacts DEF Shaped
  <2> QED
    BY <1>2, <2>1, <2>2, ScreenSafe
<1>10. CASE Turn([back EXCEPT !.cart = Replaced(@, edit.source, edit.options)])
  <2>1. PICK r, d : /\ d = Replaced(runtime.cart, runtime.edit.source, options)
                    /\ r = [back EXCEPT !.cart = d] /\ Turn(r)
    BY <1>6, <1>8, <1>10
  <2>2. /\ DOMAIN r = DOMAIN runtime /\ r.cart = d /\ r.stage = "CART_REVIEW" /\ r.entry = runtime.entry
        /\ r.checkout = runtime.checkout /\ r.shortcut = runtime.shortcut
        /\ r.review = NoReview(runtime.review.accepted) /\ r.edit = NoEdit
    BY <1>8, <2>1
  <2>3. \A h \in 1..Groups \ {g} : options[h] = runtime.edit.options[h]
    BY <1>4
  <2>4. \E accepted \in BOOLEAN : r.review = NoReview(accepted)
    BY <1>3, <2>2
  <2> QED
    BY <1>2, <1>4, <1>5, <2>1, <2>2, <2>3, <2>4, ReplacedSafe
<1>11. ReviewInv(back)
  BY <1>3, <1>8, ClosedInv
<1>12. CASE Turn(back)
  BY <1>2, <1>8, <1>11, <1>12, ScreenSafe
<1>13. CASE Turn([back EXCEPT !.edit = edit])
  <2>1. PICK r : r = [back EXCEPT !.edit = edit] /\ Turn(r)
    BY <1>13
  <2>2. /\ DOMAIN r = DOMAIN back /\ r.cart = runtime.cart /\ r.stage = "CART_REVIEW" /\ r.entry = runtime.entry
        /\ r.checkout = runtime.checkout /\ r.shortcut = runtime.shortcut
        /\ r.review = back.review /\ r.edit = edit
    BY <1>8, <2>1
  <2>3. Shaped(r)
    BY <1>8, <2>2 DEF Shaped
  <2>4. ReviewInv(r) /\ EditInv(r)
    BY <1>5, <1>6, <1>7, <1>8, <1>11, <2>2 DEF ReviewInv, EditInv
  <2> QED
    BY <1>2, <2>1, <2>2, <2>3, <2>4, ScreenSafe
<1> QED
  BY <1>2, <1>9, <1>10, <1>12, <1>13

-----------------------------------------------------------------------------
(* The delivery and the final review *)

\* What the delivery is started with, and stays with
Deliverable(c) ==
    /\ CartInv(c) /\ c.draft.id = 0 /\ DOMAIN c.lines # {} /\ Units(c) = c.target
    /\ c.offer => Units(c) = Required

\* The same pieces with another status, or with the fields answered
WithStatus(c, status, fields) == [c EXCEPT !.status = status, !.fields = fields]

LEMMA StatusDeliverable ==
    ASSUME NEW c, Deliverable(c), NEW fields \in BOOLEAN,
           NEW status \in {"CART_REVIEW", "COLLECTING_DELIVERY", "AWAITING_CONFIRMATION", "CONFIRMED"}
    PROVE  LET d == WithStatus(c, status, fields) IN
           /\ Deliverable(d) /\ (Distinct(c) => Distinct(d))
           /\ d.lines = c.lines /\ d.ids = c.ids /\ d.status = status /\ d.fields = fields
<1> DEFINE d == WithStatus(c, status, fields)
<1>0. c \in CartRecord(DOMAIN c.lines, Nat) /\ DOMAIN c = CartFields
  BY CartTypes DEF Deliverable, CartInv
<1>1. /\ d.lines = c.lines /\ d.ids = c.ids /\ d.status = status /\ d.fields = fields
      /\ d.draft = c.draft /\ d.target = c.target /\ d.offer = c.offer
  BY <1>0 DEF WithStatus, CartFields
<1>2. d \in CartRecord(DOMAIN c.lines, Nat)
  BY <1>0 DEF WithStatus, CartRecord
<1>3. PICK u : u = Units(c) /\ u = Units(d)
  BY <1>1 DEF Units, Pieces
<1> HIDE DEF d
<1>4. CartInv(d)
  BY <1>1, <1>2, <1>3 DEF CartInv, Deliverable
<1>5. Deliverable(d) /\ (Distinct(c) => Distinct(d))
  BY <1>1, <1>3, <1>4 DEF Deliverable, Distinct
<1> QED
  BY <1>1, <1>5 DEF d

LEMMA DeliverySafe ==
    ASSUME CartIInv, NEW r, DOMAIN r = DOMAIN runtime, Deliverable(r.cart), Distinct(r.cart),
           r.cart.lines = runtime.cart.lines, r.cart.ids = runtime.cart.ids,
           r.stage \in {"COLLECTING_DELIVERY", "FINAL_ORDER_REVIEW", "CONFIRMED"},
           r.checkout \in Checkouts, r.entry = runtime.entry, r.shortcut = runtime.shortcut,
           r.review = runtime.review, r.edit = runtime.edit,
           r.cart.status = IF r.stage = "CONFIRMED" THEN "CONFIRMED"
                           ELSE CASE r.checkout = "collecting" -> "COLLECTING_DELIVERY"
                                  [] r.checkout = "none" -> "CART_REVIEW"
                                  [] OTHER -> "AWAITING_CONFIRMATION",
           r.cart.status \in {"AWAITING_CONFIRMATION", "CONFIRMED"} => r.cart.fields, Turn(r)
    PROVE  CartIInv'
<1>1. QuestionsInv(r) /\ ReviewInv(r) /\ EditInv(r)
  BY SessionFacts, OpenKept
<1>2. Delivering(r)
  BY DEF Delivering, Deliverable
<1>3. StageInv(r)
  BY <1>2 DEF StageInv, Stages, FitsStage
<1>4. Shaped(r)
  BY SessionFacts, CartTypes DEF Shaped, Deliverable, CartInv
<1>5. SessionInv(r)
  BY <1>1, <1>3, <1>4 DEF SessionInv, Deliverable
<1> QED
  BY <1>5, TurnSafe

\* The delivery of a session that is ready for it, up to its final review
LEMMA StartDeliverySafe ==
    ASSUME CartIInv, NEW b, DOMAIN b = DOMAIN runtime, Deliverable(b.cart), Distinct(b.cart),
           b.cart.lines = runtime.cart.lines, b.cart.ids = runtime.cart.ids,
           b.entry = runtime.entry, b.shortcut = runtime.shortcut,
           b.review = runtime.review, b.edit = runtime.edit
    PROVE  /\ b.cart.fields /\ Turn(Final(b)) => CartIInv'
           /\ Turn(StartDelivery(b)) => CartIInv'
<1>0. /\ DOMAIN b.cart = CartFields /\ b.cart.fields \in BOOLEAN
      /\ DOMAIN b = {"stage", "entry", "checkout", "shortcut", "review", "edit", "cart"}
  BY SessionFacts, CartTypes DEF Shaped, Deliverable, CartInv
<1>1. ASSUME b.cart.fields, Turn(Final(b))
      PROVE  CartIInv'
  <2>1. PICK d : d = WithStatus(b.cart, "AWAITING_CONFIRMATION", TRUE)
    OBVIOUS
  <2>2. d = [b.cart EXCEPT !.status = "AWAITING_CONFIRMATION"]
    BY <1>0, <1>1, <2>1 DEF WithStatus, CartFields
  <2>3. /\ Deliverable(d) /\ Distinct(d) /\ d.lines = b.cart.lines /\ d.ids = b.cart.ids
        /\ d.status = "AWAITING_CONFIRMATION" /\ d.fields = TRUE
    BY <2>1, StatusDeliverable
  <2>4. PICK r : r = Final(b)
    OBVIOUS
  <2>5. /\ DOMAIN r = DOMAIN runtime /\ r.cart = d /\ r.stage = "FINAL_ORDER_REVIEW"
        /\ r.checkout = "final" /\ r.entry = runtime.entry /\ r.shortcut = runtime.shortcut
        /\ r.review = runtime.review /\ r.edit = runtime.edit
    BY <1>0, <2>2, <2>4 DEF Final
  <2>6. Turn(r) /\ r.checkout \in Checkouts
    BY <1>1, <2>4, <2>5 DEF Checkouts
  <2> QED
    BY <2>3, <2>5, <2>6, DeliverySafe
<1>2. ASSUME ~b.cart.fields, Turn(StartDelivery(b))
      PROVE  CartIInv'
  <2>1. PICK d : d = WithStatus(b.cart, "COLLECTING_DELIVERY", FALSE)
    OBVIOUS
  <2>2. d = [b.cart EXCEPT !.status = "COLLECTING_DELIVERY"]
    BY <1>0, <1>2, <2>1 DEF WithStatus, CartFields
  <2>3. /\ Deliverable(d) /\ Distinct(d) /\ d.lines = b.cart.lines /\ d.ids = b.cart.ids
        /\ d.status = "COLLECTING_DELIVERY"
    BY <2>1, StatusDeliverable
  <2>4. PICK r : /\ r = [b EXCEPT !.stage = "COLLECTING_DELIVERY", !.checkout = "collecting",
                                  !.cart.status = "COLLECTING_DELIVERY"]
                 /\ Turn(r)
    BY <1>2 DEF StartDelivery
  <2>5. /\ DOMAIN r = DOMAIN runtime /\ r.cart = d /\ r.stage = "COLLECTING_DELIVERY"
        /\ r.checkout = "collecting" /\ r.entry = runtime.entry /\ r.shortcut = runtime.shortcut
        /\ r.review = runtime.review /\ r.edit = runtime.edit
    BY <1>0, <2>2, <2>4
  <2>6. r.checkout \in Checkouts
    BY <2>5 DEF Checkouts
  <2> QED
    BY <2>3, <2>4, <2>5, <2>6, DeliverySafe
<1>3. b.cart.fields => StartDelivery(b) = Final(b)
  BY DEF StartDelivery
<1> QED
  BY <1>1, <1>2, <1>3

\* In the delivery, the cart is what it was started with
LEMMA DeliveryFacts ==
    ASSUME CartIInv, InDelivery
    PROVE  /\ Deliverable(runtime.cart) /\ Distinct(runtime.cart) /\ Delivering(runtime)
           /\ runtime.stage \in {"COLLECTING_DELIVERY", "FINAL_ORDER_REVIEW"}
           /\ runtime.checkout \in Checkouts
BY SessionFacts DEF InDelivery, FitsStage, Delivering, Deliverable, QuestionsInv

LEMMA StartTurns ==
    ASSUME CartIInv, Continue \/ ResumeDelivery
    PROVE  CartIInv'
<1>1. Deliverable(runtime.cart)
  <2>1. CASE Continue
    BY <2>1, SessionFacts DEF Continue, NoEditor, InReview, Ready, MayContinue, Eligible, Deliverable
  <2>2. CASE ResumeDelivery
    BY <2>2, DeliveryFacts DEF ResumeDelivery
  <2> QED
    BY <2>1, <2>2
<1>2. Turn(StartDelivery(runtime))
  BY DEF Continue, ResumeDelivery
<1> QED
  BY <1>1, <1>2, SessionFacts, StartDeliverySafe

LEMMA AnswerFieldsSafe ==
    ASSUME CartIInv, AnswerFields
    PROVE  CartIInv'
<1>0. /\ Deliverable(runtime.cart) /\ Distinct(runtime.cart) /\ DOMAIN runtime.cart = CartFields
      /\ runtime.stage \in {"COLLECTING_DELIVERY", "FINAL_ORDER_REVIEW"} /\ runtime.checkout = "collecting"
      /\ runtime.cart.status = "COLLECTING_DELIVERY"
  BY DeliveryFacts, SessionFacts DEF AnswerFields, Delivering
<1>1. PICK d : d = WithStatus(runtime.cart, "COLLECTING_DELIVERY", TRUE)
  OBVIOUS
<1>2. d = [runtime.cart EXCEPT !.fields = TRUE]
  BY <1>0, <1>1 DEF WithStatus, CartFields
<1>3. /\ Deliverable(d) /\ Distinct(d) /\ d.lines = runtime.cart.lines /\ d.ids = runtime.cart.ids
      /\ d.status = "COLLECTING_DELIVERY" /\ d.fields = TRUE
  BY <1>0, <1>1, StatusDeliverable
<1>4. PICK r : r = [runtime EXCEPT !.cart.fields = TRUE] /\ (Turn(r) \/ Turn(Final(r)))
  BY DEF AnswerFields
<1>5. /\ DOMAIN r = DOMAIN runtime /\ r.cart = d /\ r.stage = runtime.stage
      /\ r.checkout = "collecting" /\ r.entry = runtime.entry /\ r.shortcut = runtime.shortcut
      /\ r.review = runtime.review /\ r.edit = runtime.edit
  BY <1>0, <1>2, <1>4, SessionFacts DEF Shaped
<1>6. CASE Turn(Final(r))
  BY <1>3, <1>5, <1>6, StartDeliverySafe
<1>7. CASE Turn(r)
  <2>1. r.checkout \in Checkouts /\ r.stage # "CONFIRMED"
    BY <1>0, <1>5 DEF Checkouts
  <2> QED
    BY <1>0, <1>3, <1>5, <1>7, <2>1, DeliverySafe
<1> QED
  BY <1>4, <1>6, <1>7

\* The other buttons of the final review
LEMMA FinalReviewTurns ==
    ASSUME CartIInv, EditDelivery \/ FinishEditDelivery \/ BackToCart \/ Confirm
    PROVE  CartIInv'
<1>0. /\ Deliverable(runtime.cart) /\ Distinct(runtime.cart) /\ DOMAIN runtime.cart = CartFields
      /\ runtime.stage \in {"COLLECTING_DELIVERY", "FINAL_ORDER_REVIEW"}
      /\ runtime.checkout \in {"final", "editing"}
      /\ runtime.cart.status = "AWAITING_CONFIRMATION" /\ runtime.cart.fields
      /\ runtime.cart.fields = TRUE
      /\ DOMAIN runtime = {"stage", "entry", "checkout", "shortcut", "review", "edit", "cart"}
  <2>1. InDelivery /\ runtime.checkout \in {"final", "editing"}
    BY DEF EditDelivery, FinishEditDelivery, BackToCart, Confirm
  <2>2. /\ Deliverable(runtime.cart) /\ Distinct(runtime.cart) /\ Delivering(runtime)
        /\ runtime.stage \in {"COLLECTING_DELIVERY", "FINAL_ORDER_REVIEW"}
    BY <2>1, DeliveryFacts
  <2>3. runtime.cart.status = "AWAITING_CONFIRMATION" /\ runtime.cart.fields
    BY <2>1, <2>2 DEF Delivering
  <2>4. runtime.cart.fields \in BOOLEAN
    BY SessionFacts, CartTypes
  <2> QED
    BY <2>1, <2>2, <2>3, <2>4, SessionFacts DEF Shaped
<1>1. CASE EditDelivery
  <2>1. PICK r : r = [runtime EXCEPT !.checkout = "editing"] /\ Turn(r)
    BY <1>1 DEF EditDelivery
  <2>2. /\ DOMAIN r = DOMAIN runtime /\ r.cart = runtime.cart /\ r.stage = runtime.stage
        /\ r.checkout = "editing" /\ r.entry = runtime.entry /\ r.shortcut = runtime.shortcut
        /\ r.review = runtime.review /\ r.edit = runtime.edit
    BY <1>0, <2>1
  <2>3. r.checkout \in Checkouts /\ r.stage # "CONFIRMED"
    BY <1>0, <2>2 DEF Checkouts
  <2> QED
    BY <1>0, <2>1, <2>2, <2>3, DeliverySafe
<1>2. CASE FinishEditDelivery
  <2>1. Turn(Final(runtime))
    BY <1>2 DEF FinishEditDelivery
  <2> QED
    BY <1>0, <2>1, StartDeliverySafe
<1>3. CASE BackToCart
  <2>1. PICK d : d = WithStatus(runtime.cart, "CART_REVIEW", TRUE)
    OBVIOUS
  <2>2. d = [runtime.cart EXCEPT !.status = "CART_REVIEW"]
    BY <1>0, <2>1 DEF WithStatus, CartFields
  <2>3. /\ Deliverable(d) /\ Distinct(d) /\ d.lines = runtime.cart.lines /\ d.ids = runtime.cart.ids
        /\ d.status = "CART_REVIEW"
    BY <1>0, <2>1, StatusDeliverable
  <2>4. PICK b, r : /\ b = [runtime EXCEPT !.cart.status = "CART_REVIEW", !.checkout = "none"]
                    /\ r = [b EXCEPT !.stage = "CART_REVIEW", !.edit = NoEdit, !.review = NoReview(@.accepted)]
                    /\ (Turn(b) \/ Turn(r))
    BY <1>3 DEF BackToCart
  <2>5. /\ DOMAIN b = DOMAIN runtime /\ b.cart = d /\ b.stage = runtime.stage
        /\ b.checkout = "none" /\ b.entry = runtime.entry /\ b.shortcut = runtime.shortcut
        /\ b.review = runtime.review /\ b.edit = runtime.edit
    BY <1>0, <2>2, <2>4
  <2>6. CASE Turn(b)
    <3>1. b.checkout \in Checkouts /\ b.stage # "CONFIRMED"
      BY <1>0, <2>5 DEF Checkouts
    <3> QED
      BY <1>0, <2>3, <2>5, <2>6, <3>1, DeliverySafe
  <2>7. CASE Turn(r)
    <3>1. /\ DOMAIN r = DOMAIN runtime /\ r.cart = d /\ r.stage = "CART_REVIEW"
          /\ r.checkout = "none" /\ r.entry = runtime.entry /\ r.shortcut = runtime.shortcut
          /\ r.review = NoReview(runtime.review.accepted) /\ r.edit = NoEdit
      BY <1>0, <2>4, <2>5
    <3>2. runtime.review.accepted \in BOOLEAN
      BY SessionFacts DEF ReviewInv
    <3>3. ReviewInv(r) /\ EditInv(r)
      BY <3>1, <3>2, ClosedInv
    <3>4. CartInv(r.cart) /\ Ready(r.cart) /\ Shaped(r)
      BY <1>0, <2>3, <3>1, CartTypes DEF Deliverable, Ready, Shaped, CartInv
    <3>5. QuestionsInv(r)
      BY <2>3, <3>1, SessionFacts DEF QuestionsInv, Checkouts
    <3>6. StageInv(r)
      BY <3>1, <3>4 DEF StageInv, Stages, FitsStage
    <3>7. SessionInv(r)
      BY <3>3, <3>4, <3>5, <3>6 DEF SessionInv
    <3> QED
      BY <2>3, <2>7, <3>1, <3>7, TurnSafe
  <2> QED
    BY <2>4, <2>6, <2>7
<1>4. CASE Confirm
  <2>1. PICK d : d = WithStatus(runtime.cart, "CONFIRMED", TRUE)
    OBVIOUS
  <2>2. d = [runtime.cart EXCEPT !.status = "CONFIRMED"]
    BY <1>0, <2>1 DEF WithStatus, CartFields
  <2>3. /\ Deliverable(d) /\ Distinct(d) /\ d.lines = runtime.cart.lines /\ d.ids = runtime.cart.ids
        /\ d.status = "CONFIRMED" /\ d.fields = TRUE
    BY <1>0, <2>1, StatusDeliverable
  <2>4. PICK r : r = [runtime EXCEPT !.stage = "CONFIRMED", !.cart.status = "CONFIRMED"] /\ Turn(r)
    BY <1>4 DEF Confirm
  <2>5. /\ DOMAIN r = DOMAIN runtime /\ r.cart = d /\ r.stage = "CONFIRMED"
        /\ r.checkout = runtime.checkout /\ r.entry = runtime.entry /\ r.shortcut = runtime.shortcut
        /\ r.review = runtime.review /\ r.edit = runtime.edit
    BY <1>0, <2>2, <2>4
  <2>6. r.checkout \in Checkouts
    BY <1>0, <2>5 DEF Checkouts
  <2> QED
    BY <2>3, <2>4, <2>5, <2>6, DeliverySafe
<1> QED
  BY <1>1, <1>2, <1>3, <1>4

-----------------------------------------------------------------------------
(* The invariants of the specification *)

LEMMA CartInitInvariant ==
    ASSUME CartInit
    PROVE  CartIInv
<1>1. PICK c : c = runtime.cart
  OBVIOUS
<1>2. c = [status |-> "EMPTY", target |-> 0, offer |-> FALSE, implicit |-> FALSE,
           fields |-> FALSE, ids |-> 0, lines |-> <<>>, draft |-> NoDraft]
  BY <1>1 DEF CartInit
<1>3. DOMAIN c.lines = {} /\ c.lines \in [{} -> Line]
  BY <1>2
<1>4. NoDraft \in [id : Nat, options : Options, quantity : 0..MaxTarget] /\ NoDraft.id = 0 /\ NoDraft.quantity = 0
  BY BlankAsks, Limits DEF NoDraft
<1>5. c \in CartRecord({}, Nat)
  BY <1>2, <1>3, <1>4, Limits DEF CartRecord
<1>6. Units(c) = 0 /\ Cardinality(DOMAIN c.lines) = 0
  BY <1>3, NoLinesNoUnits, FS_EmptySet
<1>7. c.ids = 0 /\ c.draft = NoDraft /\ c.target = 0 /\ c.status = "EMPTY"
  BY <1>2
<1>8. CartInv(c)
  <2>1. Units(c) <= c.target /\ Cardinality(DOMAIN c.lines) <= MaxLines
    BY <1>6, <1>7, Limits
  <2> QED
    BY <1>3, <1>4, <1>5, <1>7, <2>1 DEF CartInv
<1>9. /\ runtime.stage = "FIRST_ENTRY" /\ runtime.entry = Blank /\ runtime.checkout = "none"
      /\ runtime.shortcut = [id |-> 0, decision |-> "none"]
      /\ runtime.review = NoReview(FALSE) /\ runtime.edit = NoEdit
      /\ DOMAIN runtime = {"stage", "entry", "checkout", "shortcut", "review", "edit", "cart"}
  BY DEF CartInit
<1>10. Shaped(runtime)
  BY <1>1, <1>5, <1>9, CartTypes DEF Shaped
<1>11. QuestionsInv(runtime)
  BY <1>1, <1>7, <1>9, BlankAsks DEF QuestionsInv, Checkouts
<1>12. ReviewInv(runtime) /\ EditInv(runtime)
  BY <1>9, ClosedInv
<1>13. StageInv(runtime)
  BY <1>1, <1>3, <1>7, <1>9 DEF StageInv, Stages, FitsStage
<1>14. SessionInv(runtime) /\ Distinct(runtime.cart)
  BY <1>1, <1>3, <1>8, <1>10, <1>11, <1>12, <1>13 DEF SessionInv, Distinct
<1>15. runtime.cart.ids <= MaxPieces
  BY <1>1, <1>7, CartAssumption
<1> QED
  BY <1>14, <1>15 DEF CartIInv, CartInit, ThrownOnlyIfAlike

LEMMA CartStepInvariant ==
    ASSUME CartIInv, [CartNext]_cartVars
    PROVE  CartIInv'
<1>1. ASSUME UNCHANGED <<runtime, lastTurn>>, offerOpen' \in BOOLEAN
      PROVE  CartIInv'
  BY <1>1 DEF CartIInv, ThrownOnlyIfAlike
<1>2. CASE UNCHANGED cartVars
  BY <1>1, <1>2 DEF cartVars, CartIInv
<1>3. CASE OfferChanges
  BY <1>1, <1>3 DEF OfferChanges
<1>4. CASE ChooseQuantity \/ ChooseOffer
  BY <1>4, PlanSafe, CartAssumption DEF ChooseQuantity, ChooseOffer
<1>5. ASSUME NEW n \in 1..MaxTarget, QuantityTurn(n)
      PROVE  CartIInv'
  BY <1>5, PieceQuantitySafe, LineQuantitySafe DEF QuantityTurn
<1>6. ASSUME NEW t \in 1..runtime.cart.ids, NEW g \in 1..Groups, NEW v \in Values, OptionTurn(t, g, v)
      PROVE  CartIInv'
  BY <1>6, ItemOptionSafe, EditorOptionSafe DEF OptionTurn
<1>7. ASSUME NEW i \in DOMAIN runtime.cart.lines, LineTurn(i)
      PROVE  CartIInv'
  BY <1>7, SelectionTurns, RemoveLineSafe, OpenEditorSafe DEF LineTurn
<1>8. CASE OrderNow \/ EntryOption \/ SameAsPrevious \/ DifferentChoices \/ RefusedInCollection
  BY <1>8, PlanningTurns, ShortcutTurns, RefusedInCollectionSafe
<1>9. CASE \/ RefusedInReview \/ ShowLines \/ UnreadableQuantity \/ UseStandard \/ AddPiece
           \/ EditorSave \/ CloseEditor
  BY <1>9, ScreenTurns, UseStandardSafe, AddPieceSafe, EditorSaveSafe
<1>10. CASE \/ Continue \/ AnswerFields \/ EditDelivery \/ FinishEditDelivery \/ BackToCart
            \/ ResumeDelivery \/ Confirm
  BY <1>10, StartTurns, AnswerFieldsSafe, FinalReviewTurns
<1> QED
  BY <1>2, <1>3, <1>4, <1>5, <1>6, <1>7, <1>8, <1>9, <1>10 DEF CartNext

LEMMA CartInvariant == CartSpec => []CartIInv
BY CartInitInvariant, CartStepInvariant, PTL DEF CartSpec

(* For every product, limit and offer: what the customer has open is a line  *)
(* of the cart, no identifier is given twice, and no quantity and no total   *)
(* exceeds the largest target (cart-state.service.ts).                       *)
THEOREM CartTypeCorrect == CartSpec => []CartTypeOK
<1>1. CartIInv => CartTypeOK
  <2> SUFFICES ASSUME CartIInv
               PROVE  CartTypeOK
    OBVIOUS
  <2>1. PICK c, L : c = runtime.cart /\ L = DOMAIN c.lines
    OBVIOUS
  <2>2. c \in CartRecord(L, Nat) /\ c.ids \in Nat /\ c.draft.id \in 0..c.ids /\ c.ids <= MaxPieces
    BY <2>1, SessionFacts DEF CartInv, CartIInv
  <2>3. c.ids \in Piece /\ c.draft.id \in Piece
    BY <2>2, CartAssumption DEF Piece
  <2>4. c.draft \in [id : Piece, options : Options, quantity : 0..MaxTarget]
    BY <2>2, <2>3, CartTypes
  <2>5. c \in CartRecord(L, Piece)
    BY <2>2, <2>3, <2>4 DEF CartRecord
  <2>6. runtime.cart \in CartRecord(DOMAIN runtime.cart.lines, Piece)
    BY <2>1, <2>5
  <2> QED
    BY <2>6, SessionFacts DEF CartTypeOK, CartIInv, CartInv, StageInv, QuestionsInv, ReviewInv, EditInv
<1> QED
  BY <1>1, CartInvariant, PTL

(* For every product, limit and offer, and whatever the customer edits, goes *)
(* back to or presses: pieces are collected while some are missing, the      *)
(* review has them all, and the delivery works on a cart that fits the offer *)
(* and has its fields when it waits for the confirmation (the router's       *)
(* stages and getCartReviewReadiness).                                       *)
THEOREM StageMatches == CartSpec => []StageMatchesCart
<1>1. CartIInv => StageMatchesCart
  BY SessionFacts DEF StageMatchesCart
<1> QED
  BY <1>1, CartInvariant, PTL

(* For every product, limit and offer: the integrity check throws a turn     *)
(* only when it would make two lines alike, by the last option of the piece  *)
(* that is collected or by one option in the editor (evaluateCartIntegrity). *)
THEOREM OnlyAlikeIsThrown == CartSpec => []ThrownOnlyIfAlike
<1>1. CartIInv => ThrownOnlyIfAlike
  BY DEF CartIInv
<1> QED
  BY <1>1, CartInvariant, PTL
=============================================================================
