---------------------------- MODULE CartRuntime ----------------------------
(***************************************************************************)
(* The stages of the guarded order runtime before an order is written: the *)
(* customer plans how many pieces, chooses the options of each, reviews    *)
(* the lines, edits them and gives the delivery details.  A turn is one    *)
(* message or one press of a button, also of a button shown long ago.      *)
(* Turns run one at a time (module ConversationOrdering), so the hazards   *)
(* are their order, what is kept between them, and the offer that the      *)
(* seller may end meanwhile.  A turn whose runtime fails the integrity     *)
(* check throws, and nothing of it is saved.                               *)
(***************************************************************************)
EXTENDS Naturals, FiniteSets, FiniteSetsExt

CONSTANTS Groups,       \* number of option groups of the product, asked in order
          QuickGroups,  \* those whose key is size or color
          Values,       \* values of a group
          Unset,
          MaxLines,     \* MAX_CART_ITEMS
          MaxTarget,    \* MAX_CART_TARGET_ITEM_COUNT
          Required,     \* pieces the offer asks for
          MixedAllowed, \* whether the pieces of the offer may differ
          MaxPieces     \* bound on the identifiers given to pieces

ASSUME CartAssumption ==
    /\ {Groups, MaxLines, MaxTarget, MaxPieces} \subseteq Nat \ {0}
    /\ QuickGroups \subseteq 1..Groups /\ Unset \notin Values
    /\ Required \in 1..MaxTarget /\ MixedAllowed \in BOOLEAN

VARIABLES runtime,   \* the order runtime of the stored session
          offerOpen, \* whether the seller's offer is available now
          lastTurn   \* whether the last turn was saved or thrown

cartVars == <<runtime, offerOpen, lastTurn>>

Options == [1..Groups -> Values \cup {Unset}]
Blank == [g \in 1..Groups |-> Unset]
Left(options) == {g \in 1..Groups : options[g] = Unset}
Complete(options) == Left(options) = {}
AsksFor(options, g) == ~Complete(options) /\ g = Min(Left(options))

\* Identifiers of pieces are 1, 2, ... in the order they are given; 0 is none
Piece == 0..MaxPieces
Line == [options : Options, quantity : 0..MaxTarget]
NoDraft == [id |-> 0, options |-> Blank, quantity |-> 0]
NoReview(accepted) == [selected |-> 0, awaiting |-> 0, accepted |-> accepted]
NoEdit == [source |-> 0, options |-> Blank, auto |-> FALSE,
           base |-> [options |-> Blank, quantity |-> 0]]

\* A draft's quantity is 0 until the customer says it
CartRecord(lines, pieces) ==
    [status : {"EMPTY", "COLLECTING_ITEM", "CART_REVIEW", "COLLECTING_DELIVERY",
               "AWAITING_CONFIRMATION", "CONFIRMED"},
     target : 0..MaxTarget, offer : BOOLEAN, implicit : BOOLEAN, fields : BOOLEAN,
     ids : pieces, lines : [lines -> Line],
     draft : [id : pieces, options : Options, quantity : 0..MaxTarget]]

Stages == {"FIRST_ENTRY", "PLANNING", "COLLECTING_ITEM", "CART_REVIEW", "EDITING_CART_ITEM",
           "COLLECTING_DELIVERY", "FINAL_ORDER_REVIEW", "CONFIRMED"}
Checkouts == {"none", "collecting", "final", "editing"}
OpenLine(c) == {0} \cup DOMAIN c.lines

\* What the customer has open is a line of the cart, and identifiers are not reused
CartTypeOK ==
    LET c == runtime.cart IN
    /\ DOMAIN c.lines \subseteq 1..c.ids /\ c.draft.id \in (0..c.ids) \ DOMAIN c.lines
    /\ c \in CartRecord(DOMAIN c.lines, Piece)
    /\ runtime.stage \in Stages /\ runtime.checkout \in Checkouts
    /\ runtime.entry \in Options
    /\ runtime.shortcut \in [id : 0..c.ids, decision : {"none", "same", "different"}]
    /\ runtime.review \in [selected : OpenLine(c), awaiting : OpenLine(c), accepted : BOOLEAN]
    /\ runtime.edit \in [source : OpenLine(c), options : Options, auto : BOOLEAN, base : Line]
    /\ offerOpen \in BOOLEAN /\ lastTurn \in {"saved", "thrown"}

CartInit ==
    /\ runtime = [stage |-> "FIRST_ENTRY", entry |-> Blank, checkout |-> "none",
                  shortcut |-> [id |-> 0, decision |-> "none"],
                  review |-> NoReview(FALSE), edit |-> NoEdit,
                  cart |-> [status |-> "EMPTY", target |-> 0, offer |-> FALSE, implicit |-> FALSE,
                            fields |-> FALSE, ids |-> 0, lines |-> <<>>, draft |-> NoDraft]]
    /\ offerOpen \in BOOLEAN /\ lastTurn = "saved"

-----------------------------------------------------------------------------
(* The cart *)

\* Every line counts for its quantity
Pieces(c) == UNION {{i} \X (1..c.lines[i].quantity) : i \in DOMAIN c.lines}

Units(c) == Cardinality(Pieces(c))

\* evaluateCartIntegrity, after hydrateCartProductAuthority gave every line its facts
Valid(c) ==
    /\ Cardinality(DOMAIN c.lines) <= MaxLines /\ c.target <= MaxTarget
    /\ \A i, j \in DOMAIN c.lines : c.lines[i].options = c.lines[j].options => i = j
    /\ c.status \in {"CART_REVIEW", "AWAITING_CONFIRMATION", "CONFIRMED"} => DOMAIN c.lines # {}
    /\ c.status \in {"AWAITING_CONFIRMATION", "CONFIRMED"} => c.draft.id = 0

\* The integrity check before the session is saved; what fails it is thrown
Turn(r) ==
    /\ r.cart.ids <= MaxPieces
    /\ runtime' = IF Valid(r.cart) THEN r ELSE runtime
    /\ lastTurn' = IF Valid(r.cart) THEN "saved" ELSE "thrown"
    /\ UNCHANGED offerOpen

StartPiece(c) == [c EXCEPT !.status = "COLLECTING_ITEM", !.ids = @ + 1,
                           !.draft = [NoDraft EXCEPT !.id = c.ids + 1]]

NextPiece(c) == IF Units(c) = c.target THEN [c EXCEPT !.status = "CART_REVIEW"] ELSE StartPiece(c)

\* areCartItemsMergeCompatible: a draft saved with some options has the facts of
\* those, and is compared by them; a draft without facts by the options it has
Alike(c, facts) ==
    {i \in DOMAIN c.lines : c.lines[i].options = IF facts = Blank THEN c.draft.options ELSE facts}

\* The draft joins a line alike or becomes one, unless there are MaxLines already
Finalize(c, facts) ==
    LET quantity == IF c.implicit THEN 1 ELSE c.draft.quantity
        joined == Alike(c, facts)
        lines == IF joined # {}
                 THEN [i \in DOMAIN c.lines |->
                         IF i \in joined THEN [c.lines[i] EXCEPT !.quantity = @ + quantity] ELSE c.lines[i]]
                 ELSE [i \in DOMAIN c.lines \cup {c.draft.id} |->
                         IF i = c.draft.id THEN [options |-> c.draft.options, quantity |-> quantity]
                         ELSE c.lines[i]]
    IN IF Cardinality(DOMAIN c.lines) >= MaxLines THEN c
       ELSE NextPiece([c EXCEPT !.lines = lines, !.draft = NoDraft])

AutoFinalize(c, facts) ==
    IF c.implicit /\ c.draft.id # 0 /\ Complete(c.draft.options) THEN Finalize(c, facts) ELSE c

\* After a mutation in the review the target is what the lines add up to
Synchronized(c) == [c EXCEPT !.target = Units(c), !.implicit = FALSE]

\* No line has the facts that this one was saved with, so it joins none
Replaced(c, i, options) == Synchronized([c EXCEPT !.lines[i].options = options])

\* isSelectedOfferEligible for the one offer of the product, or an order without one
Eligible(c) ==
    c.offer => /\ offerOpen /\ Units(c) = Required
               /\ MixedAllowed \/ Cardinality(DOMAIN c.lines) = 1

-----------------------------------------------------------------------------
(* Entry and planning *)

\* The options that the customer chose while asking for information come along
OrderNow ==
    /\ runtime.stage = "FIRST_ENTRY"
    /\ \E pending \in Options : Turn([runtime EXCEPT !.stage = "PLANNING", !.entry = pending])

EntryOption ==
    /\ runtime.stage = "PLANNING"
    /\ \E g \in 1..Groups, v \in Values :
         AsksFor(runtime.entry, g) /\ Turn([runtime EXCEPT !.entry[g] = v])

\* What a turn of item collection leaves in the session
Collected(r, c) ==
    [r EXCEPT !.cart = c,
              !.shortcut = IF @.id = c.draft.id THEN @ ELSE [id |-> c.draft.id, decision |-> "none"],
              !.stage = IF c.status = "CART_REVIEW" THEN "CART_REVIEW" ELSE "COLLECTING_ITEM"]

\* The first piece takes the options of the entry, in the turn that plans
Plan(n, offer) ==
    /\ runtime.stage = "PLANNING" /\ Complete(runtime.entry)
    /\ LET planned == StartPiece([runtime.cart EXCEPT !.target = n, !.offer = offer, !.implicit = TRUE])
       IN Turn(Collected([runtime EXCEPT !.entry = Blank],
                         AutoFinalize([planned EXCEPT !.draft.options = runtime.entry], Blank)))

ChooseQuantity == \E n \in 1..MaxTarget : Plan(n, FALSE)
ChooseOffer == offerOpen /\ Plan(Required, TRUE)

-----------------------------------------------------------------------------
(* Item collection *)

\* The button of another piece is refused
OfThisPiece(t) == t = runtime.cart.draft.id

ItemOption(t, g, v) ==
    /\ runtime.stage = "COLLECTING_ITEM" /\ OfThisPiece(t)
    /\ AsksFor(runtime.cart.draft.options, g)
    /\ Turn(Collected(runtime, AutoFinalize([runtime.cart EXCEPT !.draft.options[g] = v],
                                            runtime.cart.draft.options)))

\* Offered for a blank piece after at least one line
ShortcutOpen ==
    /\ runtime.stage = "COLLECTING_ITEM"
    /\ runtime.shortcut = [id |-> runtime.cart.draft.id, decision |-> "none"]
    /\ runtime.cart.draft.options = Blank /\ DOMAIN runtime.cart.lines # {}

SameAsPrevious ==
    /\ ShortcutOpen
    /\ LET c == runtime.cart
           copied == [c EXCEPT !.draft.options = c.lines[Max(DOMAIN c.lines)].options]
       IN Turn(Collected([runtime EXCEPT !.shortcut.decision = "same"], AutoFinalize(copied, Blank)))

DifferentChoices ==
    /\ ShortcutOpen
    /\ Turn(Collected([runtime EXCEPT !.shortcut.decision = "different"], runtime.cart))

\* A piece added in the review is finalized when its quantity is said
PieceQuantity(n) ==
    LET c == runtime.cart IN
    /\ runtime.stage = "COLLECTING_ITEM" /\ ~c.implicit /\ c.draft.id # 0
    /\ Complete(c.draft.options) /\ c.draft.quantity = 0 /\ n + Units(c) <= c.target
    /\ Turn(Collected(runtime, Finalize([c EXCEPT !.draft.quantity = n], c.draft.options)))

\* A refused click or text is answered, and the shortcut now belongs to this draft
RefusedInCollection ==
    /\ runtime.stage = "COLLECTING_ITEM"
    /\ Turn(Collected(runtime, AutoFinalize(runtime.cart, runtime.cart.draft.options)))

-----------------------------------------------------------------------------
(* Cart review *)

Ready(c) == c.status = "CART_REVIEW" /\ c.draft.id = 0 /\ DOMAIN c.lines # {} /\ Units(c) = c.target

InReview == runtime.stage \in {"CART_REVIEW", "EDITING_CART_ITEM"} /\ Ready(runtime.cart)
NoEditor == InReview /\ runtime.edit = NoEdit

\* The line is still the one that the editor was opened on
Unmoved ==
    LET e == runtime.edit IN
    InReview /\ e.source \in DOMAIN runtime.cart.lines /\ runtime.cart.lines[e.source] = e.base

\* Refused: a line that is unknown or not selected, an offer or target that does
\* not allow it, any other button while the editor is open
RefusedInReview == InReview /\ Turn([runtime EXCEPT !.stage = "CART_REVIEW"])

\* The list of lines, from any button; the review itself, when no editor is open
ShowLines ==
    /\ InReview
    /\ Turn([runtime EXCEPT !.stage = "CART_REVIEW", !.edit = NoEdit,
                            !.review = NoReview(@.accepted)])

SelectLine(i) ==
    /\ NoEditor
    /\ Turn([runtime EXCEPT !.stage = "EDITING_CART_ITEM", !.review.selected = i, !.review.awaiting = 0])

ChangeQuantity(i) ==
    /\ NoEditor /\ runtime.review.selected = i
    /\ Turn([runtime EXCEPT !.stage = "EDITING_CART_ITEM", !.review.awaiting = i])

\* Faulty: the line that was selected stays selected
AfterReviewKeeping(c, accepted) ==
    Turn([runtime EXCEPT !.stage = "CART_REVIEW", !.cart = c, !.review.accepted = accepted])

AfterReview(c, accepted) ==
    Turn([runtime EXCEPT !.stage = "CART_REVIEW", !.cart = c, !.review = NoReview(accepted)])

\* Faulty: the target is not checked against its maximum before it is saved
UnboundedQuantity(c, i, n) == Synchronized([c EXCEPT !.lines[i].quantity = n])

\* A quantity that would exceed the largest target is refused, and the wait is over
WithQuantity(c, i, n) ==
    LET changed == Synchronized([c EXCEPT !.lines[i].quantity = n])
    IN IF changed.target <= MaxTarget THEN changed ELSE c

LineQuantity(n) ==
    /\ NoEditor /\ runtime.review.awaiting # 0
    /\ AfterReview(WithQuantity(runtime.cart, runtime.review.awaiting, n), FALSE)

UnreadableQuantity ==
    /\ NoEditor /\ runtime.review.awaiting # 0
    /\ Turn([runtime EXCEPT !.stage = "EDITING_CART_ITEM"])

\* Faulty: the button of any line removes it
MayRemoveAny(i) == NoEditor

MayRemove(i) == NoEditor /\ runtime.review.selected = i

\* The last line is not removed
RemoveLine(i) ==
    /\ MayRemove(i)
    /\ LET c == runtime.cart
           rest == [c EXCEPT !.lines = [j \in DOMAIN c.lines \ {i} |-> c.lines[j]]]
       IN AfterReview(IF Cardinality(DOMAIN c.lines) > 1 THEN Synchronized(rest) ELSE c, FALSE)

UseStandard ==
    /\ NoEditor /\ (runtime.review.accepted \/ ~Eligible(runtime.cart))
    /\ LET c == runtime.cart
       IN AfterReview(IF c.offer THEN Synchronized([c EXCEPT !.offer = FALSE]) ELSE c, TRUE)

\* The shortcut still names the last piece: the first press of it is refused
AddPiece ==
    /\ NoEditor /\ Units(runtime.cart) < MaxTarget
    /\ LET c == Synchronized(runtime.cart)
       IN Turn([runtime EXCEPT !.stage = "COLLECTING_ITEM", !.review = NoReview(FALSE),
                               !.cart = StartPiece([c EXCEPT !.target = c.target + 1])])

-----------------------------------------------------------------------------
(* The editor of one line *)

\* An editor stays on its line, whichever line the button names; a wait for a
\* quantity closes it.  Once focused on one group it saves by itself.
OpenEditor(i, focus) ==
    /\ InReview
    /\ \/ /\ runtime.review.awaiting # 0
          /\ Turn([runtime EXCEPT !.stage = "CART_REVIEW", !.edit = NoEdit])
       \/ /\ runtime.review.awaiting = 0 /\ runtime.edit = NoEdit
          /\ LET line == runtime.cart.lines[i]
             IN Turn([runtime EXCEPT !.stage = "EDITING_CART_ITEM",
                        !.edit = [source |-> i, options |-> line.options, auto |-> focus, base |-> line]])
       \/ /\ runtime.review.awaiting = 0 /\ runtime.edit # NoEdit
          /\ Turn([runtime EXCEPT !.stage = IF runtime.edit.source = i /\ Unmoved
                                            THEN "EDITING_CART_ITEM" ELSE "CART_REVIEW",
                                  !.edit.auto = @ \/ focus])

OfThisLine(t) == t = runtime.edit.source

\* An option button of another line shows the editor again.  One of this line is
\* saved if the editor is focused; a size or color otherwise closes the editor,
\* and what was chosen is lost; any other option waits to be saved.
EditorOption(t, g, v) ==
    /\ Unmoved
    /\ LET edit == [runtime.edit EXCEPT !.options[g] = v]
           back == [runtime EXCEPT !.stage = "CART_REVIEW", !.review = NoReview(@.accepted), !.edit = NoEdit]
       IN \/ ~OfThisLine(t) /\ Turn([runtime EXCEPT !.stage = "EDITING_CART_ITEM"])
          \/ /\ OfThisLine(t) /\ edit.auto
             /\ Turn([back EXCEPT !.cart = Replaced(@, edit.source, edit.options)])
          \/ OfThisLine(t) /\ ~edit.auto /\ g \in QuickGroups /\ Turn(back)
          \/ OfThisLine(t) /\ ~edit.auto /\ g \notin QuickGroups /\ Turn([back EXCEPT !.edit = edit])

EditorSave ==
    /\ Unmoved
    /\ Turn([runtime EXCEPT !.stage = "CART_REVIEW", !.edit = NoEdit,
                            !.cart = Replaced(@, runtime.edit.source, runtime.edit.options)])

CloseEditor == InReview /\ Turn([runtime EXCEPT !.stage = "CART_REVIEW", !.edit = NoEdit])

-----------------------------------------------------------------------------
(* Delivery and final review *)

InDelivery == runtime.stage \in {"COLLECTING_DELIVERY", "FINAL_ORDER_REVIEW"}

Final(r) == [r EXCEPT !.stage = "FINAL_ORDER_REVIEW", !.checkout = "final",
                      !.cart.status = "AWAITING_CONFIRMATION"]

\* Delivery details of an earlier pass are kept
StartDelivery(r) ==
    IF r.cart.fields THEN Final(r)
    ELSE [r EXCEPT !.stage = "COLLECTING_DELIVERY", !.checkout = "collecting",
                   !.cart.status = "COLLECTING_DELIVERY"]

\* Faulty: the offer is not looked at when the review is left
ContinueAnyway(c) == TRUE

MayContinue(c) == Eligible(c)

Continue == NoEditor /\ MayContinue(runtime.cart) /\ Turn(StartDelivery(runtime))

\* All fields are answered; an offer that ended meanwhile holds the order here
AnswerFields ==
    /\ InDelivery /\ runtime.checkout = "collecting"
    /\ LET answered == [runtime EXCEPT !.cart.fields = TRUE]
       IN Turn(IF Eligible(runtime.cart) THEN Final(answered) ELSE answered)

EditDelivery ==
    /\ InDelivery /\ runtime.checkout = "final"
    /\ Turn([runtime EXCEPT !.checkout = "editing"])

FinishEditDelivery ==
    /\ InDelivery /\ runtime.checkout = "editing" /\ Eligible(runtime.cart)
    /\ Turn(Final(runtime))

\* If the offer ended, the cart returns to the review but the stage does not
BackToCart ==
    /\ InDelivery /\ runtime.checkout = "final"
    /\ LET back == [runtime EXCEPT !.cart.status = "CART_REVIEW", !.checkout = "none"]
       IN Turn(IF Eligible(runtime.cart)
               THEN [back EXCEPT !.stage = "CART_REVIEW", !.edit = NoEdit, !.review = NoReview(@.accepted)]
               ELSE back)

\* The only way on from there: any message starts delivery again, once the offer
\* is back, unless the review was left while it waited for a quantity
ResumeDelivery ==
    /\ InDelivery /\ runtime.checkout = "none"
    /\ runtime.review.awaiting = 0 /\ runtime.edit = NoEdit /\ Eligible(runtime.cart)
    /\ Turn(StartDelivery(runtime))

\* What follows is module OrderConfirmation
Confirm ==
    /\ InDelivery /\ runtime.checkout = "final" /\ Eligible(runtime.cart)
    /\ Turn([runtime EXCEPT !.stage = "CONFIRMED", !.cart.status = "CONFIRMED"])

OfferChanges == offerOpen' = ~offerOpen /\ UNCHANGED <<runtime, lastTurn>>

-----------------------------------------------------------------------------

LineTurn(i) ==
    \/ SelectLine(i) \/ ChangeQuantity(i) \/ RemoveLine(i)
    \/ \E focus \in BOOLEAN : OpenEditor(i, focus)

QuantityTurn(n) == PieceQuantity(n) \/ LineQuantity(n)

OptionTurn(t, g, v) == ItemOption(t, g, v) \/ EditorOption(t, g, v)

CartNext ==
    \/ OrderNow \/ EntryOption \/ ChooseQuantity \/ ChooseOffer
    \/ SameAsPrevious \/ DifferentChoices \/ RefusedInCollection
    \/ \E n \in 1..MaxTarget : QuantityTurn(n)
    \/ \E t \in 1..runtime.cart.ids, g \in 1..Groups, v \in Values : OptionTurn(t, g, v)
    \/ \E i \in DOMAIN runtime.cart.lines : LineTurn(i)
    \/ RefusedInReview \/ ShowLines \/ UnreadableQuantity \/ UseStandard \/ AddPiece
    \/ EditorSave \/ CloseEditor
    \/ Continue \/ AnswerFields \/ EditDelivery \/ FinishEditDelivery \/ BackToCart
    \/ ResumeDelivery \/ Confirm \/ OfferChanges

CartSpec == CartInit /\ [][CartNext]_cartVars

-----------------------------------------------------------------------------
\* A piece is missing, unless there is no line left for the one that was chosen
Collecting(c) ==
    /\ c.status = "COLLECTING_ITEM" /\ c.draft.id # 0 /\ Units(c) < c.target
    /\ Complete(c.draft.options) /\ (c.implicit \/ c.draft.quantity # 0) =>
         Cardinality(DOMAIN c.lines) = MaxLines

\* The pieces are those of the offer, and the cart says how far the delivery is
Delivering(r) ==
    LET c == r.cart IN
    /\ c.draft.id = 0 /\ DOMAIN c.lines # {} /\ Units(c) = c.target
    /\ c.offer => Units(c) = Required
    /\ c.status = IF r.stage = "CONFIRMED" THEN "CONFIRMED"
                  ELSE CASE r.checkout = "collecting" -> "COLLECTING_DELIVERY"
                         [] r.checkout = "none" -> "CART_REVIEW"
                         [] OTHER -> "AWAITING_CONFIRMATION"
    /\ c.status \in {"AWAITING_CONFIRMATION", "CONFIRMED"} => c.fields

FitsStage(r) ==
    /\ r.stage \in {"FIRST_ENTRY", "PLANNING"} => r.cart.status = "EMPTY"
    /\ r.stage = "COLLECTING_ITEM" => Collecting(r.cart)
    /\ r.stage \in {"CART_REVIEW", "EDITING_CART_ITEM"} => Ready(r.cart)
    /\ r.stage \in {"COLLECTING_DELIVERY", "FINAL_ORDER_REVIEW", "CONFIRMED"} => Delivering(r)

(* Wherever the conversation is, the cart is what that stage works on, after  *)
(* any mixture of edits, returns and old buttons: a piece that is missing     *)
(* while pieces are collected, a complete cart in the review, and in the      *)
(* delivery one that fits the offer it was started with (the router's stages, *)
(* getCartReviewReadiness and buildCartDeliveryCheckoutContext).              *)
StageMatchesCart == FitsStage(runtime)

(* A line that the customer has not opened - not selected, nor waiting for a  *)
(* quantity, nor in the editor - keeps its options and stays in the cart, and *)
(* its quantity only grows, by pieces that are chosen alike: an old button    *)
(* changes no other line (the checks of cart-review-preview.service.ts and of *)
(* item-option-action-handler.service.ts).                                    *)
OnlyOpenedLineChanges ==
    [][\A i \in DOMAIN runtime.cart.lines :
         i \notin {runtime.review.selected, runtime.review.awaiting, runtime.edit.source} =>
            /\ i \in DOMAIN runtime'.cart.lines
            /\ runtime'.cart.lines[i].options = runtime.cart.lines[i].options
            /\ runtime'.cart.lines[i].quantity >= runtime.cart.lines[i].quantity]_cartVars

\* The groups in which a line differs
Differ(c, i, options) == {g \in 1..Groups : c.lines[i].options[g] # options[g]}

\* One choice more, and the piece or the line in the editor equals another line
MayBecomeAlike(r) ==
    LET c == r.cart IN
    \/ /\ r.stage = "COLLECTING_ITEM"
       /\ c.draft.options # Blank /\ Cardinality(Left(c.draft.options)) = 1
       /\ \E i \in DOMAIN c.lines : Differ(c, i, c.draft.options) = Left(c.draft.options)
    \/ /\ r.edit # NoEdit
       /\ \E i \in DOMAIN c.lines \ {r.edit.source} : Cardinality(Differ(c, i, r.edit.options)) <= 1

(* A turn is thrown away, with its answer, in two situations only: the piece  *)
(* that is being chosen step by step, of which one group is left, and the     *)
(* line in the editor can come to equal another line.  Both are choices that  *)
(* the shop offers (the comment at cart-state.service.ts 682-686 promises to  *)
(* merge such lines); nothing else the customer does has no answer.           *)
ThrownOnlyIfAlike == lastTurn = "thrown" => MayBecomeAlike(runtime)
=============================================================================
