# TLA+ verification of AgentWhatsApp

AgentWhatsApp sells over WhatsApp for many sellers: a Node backend (`src/backend/src`) with PostgreSQL, Valkey and BullMQ,
and a Next.js dashboard. A customer's message arrives as a webhook, is put in the order of its conversation, handled by an
agent that keeps a session, and answered through the WhatsApp Cloud API; a confirmed order is stored and its receipt is
sent later, by another process. This directory models the part where processes, retries, leases and crashes meet.

## 1. Inventory

| Component | State it keeps | Operations | What is hard |
|---|---|---|---|
| Conversation ordering (`agent/conversation-ordering`) | Valkey keys `seq`, `expected`, `completed`, `msg`, `lease` of a conversation | five Lua scripts | leases lapse under a holder; keys expire one by one |
| Inbound queue (`whatsapp/cloud/inbound-queue`) | one BullMQ job per message, attempts, dead letters | webhook, reserve, add, claim, run, complete, defer, retry | redelivery, stalls, crashes between two calls, a last attempt that fails half way |
| Outbound queue (`whatsapp/cloud/outbound-queue`) | one job per group of commands, its cursor, staged documents | send, save the cursor, record the dispatch, retry, dead-letter | a command accepted but not recorded; two workers on one job |
| Transactional outbox (`whatsapp/cloud/transactional-outbox`) | rows pending, publishing, published, with owner and lease | append, claim, enqueue, mark, record a failure | commit with the order; two publishers; re-publication |
| Order runtime (`agent/order/runtime` and the stages it calls) | stage, plan, cart, line editor, retained key and confirmation, inside the session in Valkey | one turn per message or pressed button | five awaits in the turn that confirms; buttons shown long ago; an offer that ends between two turns; the seller edits at any time |
| Session store (`agent/session`) | the whole session, with a time to live | get, save, append | read-modify-write by turns and by the outbound worker; a session replaced as a whole when it expired, cannot be read or does not fit the settings |
| Order persistence (`agent/order/persistence`, `composition/runtime-write`) | orders with key and payload hash | idempotent insert | replay, conflict, a commit whose reply is lost |
| Queue composition (`composition/queue`) | the running workers and publisher | start, shutdown | shutdown while starting |
| WhatsApp connections (`whatsapp-connection`) | rows with status, credentials, phone, PIN, markers; what Meta has registered and subscribed | embedded signup, manual setup, choose assets, configure, finalise, switch, disconnect | one active connection per seller; overlapping requests and crashes between a Meta call and the row that records it |
| Authentication (`auth`) | users, sessions, recovery tokens, rate windows | sign up, log in, recover, verify | tokens used once; windows |
| Catalog, settings, onboarding, logo (`catalog`, `seller-*`, `onboarding`, `conversation-config`) | rows of a seller | CRUD | seen by a conversation at any moment |
| Pricing and offers (`agent/order/pricing`, `commercial`) | none | pure functions over minor units | rounding, eligibility |
| Legacy conversation path, AI, conversation engine | messages in the session | classify, phrase | text, not protocol |
| Dashboard (`src/frontend`) | none of its own | HTTP calls | presentation |

How they interact: the webhook calls the inbound producer, which calls the ordering scripts and BullMQ; the inbound worker
claims the turn, calls the agent, which reads and writes the session, prepares a group of commands and calls the outbound
producer; the turn that confirms writes the order and the outbox row in one transaction; the publisher polls the rows and
calls the outbound producer; the outbound worker calls the Cloud API and records the receipt in the session, which is the
only way back. `PROJECT.json` lists every component with its status and every hazard with its line.

## 2. Modules

Each action is what the code does between two awaits that other actors can see; a Lua script, a transaction and a single
Valkey or BullMQ call are atomic. Operators marked `Faulty:` are plausible bugs, used only to show that each property can
fail; no specification uses them.

| Module | Models | Correspondence |
|---|---|---|
| `TurnKeys` | the keys and scripts of `valkey-conversation-ordering.adapter.ts` | one operator per script |
| `ConversationOrdering` | clients that reserve, claim, renew, complete and release | a slot is one execution of the worker's processor, with the claim it believes it has |
| `TurnOrder` | what ordering promises | abstract: turns issued, the one due, the one running |
| `OrderingConstants` | the messages and slots of a conversation | shared by the modules that order them |
| `OrderingExpiry` | the scripts of `ConversationOrdering` (its instance `Stored`) on keys of its own, with a clock and the TTL of every key | which script refreshes which key |
| `InboundQueue` | `whatsapp-inbound-producer`, `-worker`, `-reliability` over `TurnKeys` | webhooks (`request`), BullMQ jobs, slots with program points, dead letters |
| `OutboundQueue` | `whatsapp-outbound-worker`, `-reliability`, `dispatchPreparedOutboundGroupDirectly` | the job with its cursor, slots, what the Cloud API accepted, staged documents, the dispatch in the session: each record is a read and a later write, and a turn's append may come in between |
| `TransactionalOutbox` | `appendWithinTransaction`, `claimPending`, `markPublished`, `recordPublicationFailure`, the publisher, the producer | writers in a transaction, rows, BullMQ jobs, one publisher per process |
| `ReceiptHandoff` | what the outbox promises | abstract: none, confirmed, handed over |
| `OrderConfirmation` | the review and confirmation branch of `order-runtime-router`, `order-runtime-session` and the session store, the repository's replay and conflict | the session, the copy a turn holds with the settings it has read, the stored orders, the copy the recorder holds, the seller. A runtime that is not valid at the load of a turn is replaced (`ReplaceRuntime`, `SaveReplaced`); a session may be lost (`LoseSession`) |
| `CartRuntime` | the stages before the confirmation: `order-runtime-router`, `-entry`, `-planning`, `-cart-review`, `-item-editor`, `-delivery` and the cart of `cart-state.service` | `runtime` is the stored runtime, one action per message or button, a turn that fails the integrity check is thrown and saves nothing |
| `ConnectionLifecycle` | `whatsapp-connection/application` (completion, finalisation, switch, disconnect, manual setup) and its repository | rows, Meta's registrations and subscriptions, one record per HTTP request; an action per statement, transaction or Meta call |
| `MCConversationOrdering`, `MCOrderRuntime` | two specifications of one subject side by side in one run | ordering without and with expiry; the runtime before and from the final review on |
| `MCInboundQueue`, `MCOutboundQueue`, `MCConnectionLifecycle` | constants that a cfg cannot write | - |
| `ConversationOrdering_proofs`, `OrderingExpiry_proofs`, `InboundQueue_proofs`, `OutboundQueue_proofs`, `TransactionalOutbox_proofs`, `OrderConfirmation_proofs`, `CartRuntime_proofs`, `ConnectionLifecycle_proofs` | theorems | section 5 |

`InboundQueue` uses the scripts of `TurnKeys` directly and is proved to be a client as `ConversationOrdering` describes them
(`ImplementsOrdering`; its refinement mapping `HeldTurn` is the turn a slot believes it holds), so what that module establishes
of the keys, `TurnOrder` included, is true of the queue. `OutboundQueue` takes the group that `TransactionalOutbox` hands over, and the `Deliver` and `ReadForDispatch`
of `OrderConfirmation` stand for its sending and its recording.

## 3. Runs

| Run | Question | Bounds and why they are enough |
|---|---|---|
| `ordering` | Do the scripts hand out distinct turns, lease only the due one, skip none, and fence off holders that lost their lease? Do they implement `TurnOrder`? Does a lease outlive the due turn's key? | three messages and three slots: a lapsed holder, the one that took over, one that waits; with the clock, key life 3 and lease life 2 ticks: only their order matters |
| `ordering_fresh_turn` (violation) | Is a new message's turn ever one that was finished already? Yes: finding 1 | two messages and one slot, key life 3 and lease life 1 |
| `inbound` | Are messages handled in turn order and one at a time, and is none lost without a job or a redelivery? | two messages, redelivered at will, two slots, two attempts of three, any two troubles of a scenario |
| `inbound_live` | Does every turn end after one crash? | one trouble, fair scheduling |
| `inbound_dead_letter` (violation) | Does a message in the dead-letter queue leave its turn finished? No: finding 2 | as `inbound` |
| `outbound` | Are commands delivered in order and completely, repeated only when something went wrong, failed only with a dead letter, SENT only when delivered and not overwritten by a worker, and is every group decided? | every group of the cfg, three attempts of five (the fourth repeats the third), two troubles |
| `outbound_document` (violation) | Does a retry still have its document? No: finding 3 | one group |
| `outbox` | Is a receipt handed over after its order commits, once, by a publisher that holds the claim, and always in the end? Does it implement `ReceiptHandoff`? | two orders, writers and publishers, two troubles |
| `confirmation` | Before the final review: does the stage always fit the cart, does a turn change only the line that is open, and is a turn thrown only when the merging of stale lines fails? From it on: is what is shown as confirmed stored, and what is shown as sent delivered? Do retries store one order at most, and what undoes a confirmation? | cart: two option groups of two values, one of them asked by quick buttons; two lines and three pieces, so that both limits are met; an offer of two alike pieces, kept, broken and mended; four pieces started; symmetry on the values. Confirmation: two carts, two products, two codes, one edit of the catalog, the fields or the binding and one of the branding, two troubles: enough to drop or lose a key after its commit and confirm another order while the first receipt is recorded; symmetry on carts, products and codes |
| `confirmation_retry` (violation) | Can a retry use the key it retained? Not always: finding 4 | one code and one trouble |
| `connections` | Has a seller one ACTIVE connection at most, and a phone one holder? Is an ACTIVE connection registered and subscribed at Meta, is the stored PIN the registered one, and does only the seller or a replacement end it? | two connections, sellers, phones, PINs and requests; the scenarios of `MCConnectionLifecycle` bound which operations meet: embedded signups of two sellers overlapping, a manual setup overlapping with itself, credentials replaced under it, and both kinds of connection one request after the other |
| `connection_assets` (violation) | Are the assets of a manual connection those of its stored credentials? No: finding 5 | one manual connection, two tokens that manage one phone each |

A trouble is anything the environment may do (a crash, a stall, a lapsed lease, a call that fails or whose reply is lost);
its kinds are in each module and `MaxTrouble` bounds how often it happens. The counters of attempts, stalls and edits are
bounded by constants, and codes by the set `Codes`.

`CHECK_DEADLOCK FALSE` appears where the system may stop: everything settled, or a conversation that waits for ever (a
turn whose last attempt failed; a session in RECOVERY_REQUIRED, which only another binding or its loss leads out of).

### Fairness

- `InboundQueue`: a running handler goes on (Node runs it); a free slot takes a waiting job (BullMQ), strongly fair because
  jobs come and go; a stalled job is noticed by BullMQ's checker; a lease lapses at its TTL; Meta redelivers until it gets an
  acknowledgement, which is what its webhooks document and what the producer's 5xx answer relies on.
- `OutboundQueue`: the same for its handler, slots and stalled check.
- `TransactionalOutbox`: a poll happens (an interval timer), a started batch goes on, a lease lapses with time.
- Nothing is assumed of customers, sellers or faults. `OrderConfirmation`, `CartRuntime` and `ConnectionLifecycle` have no
  fairness: whether a customer confirms or a seller finalises again is his affair.

## 4. Findings

Each is a violation run whose counterexample follows the code; `PROJECT.json` quotes the line it contradicts.

1. `ordering_fresh_turn`: `claim`, `renew` and `complete` refresh `expected` but not `seq`; after a busy conversation `seq`
   expires first, and the next message gets a turn already finished, so it is dropped as a duplicate.
2. `inbound_dead_letter`: on the last attempt `terminal_turn_finalize_failed` asks for a retry that never comes; the turn
   stays due and the conversation waits.
3. `outbound_document`: the staged PDF is removed after a failed attempt that will be retried, so that every retry fails.
4. `confirmation_retry`: an order whose turn did not finish keeps its key; if the cart changes before the next attempt, that
   attempt and all later ones are refused as a conflict, until the seller edits the product or the session is replaced.
5. `connection_assets`: the choice of assets compares the row's time in a SELECT of its transaction and then writes without
   looking at it; credentials replaced in between are followed by a phone that the new token may not manage.

Reading and model checking `CartRuntime` showed five more places where the customer is stranded or surprised; the module has
these steps as the code has them, and no document promises otherwise, so they are no violation runs:

- Two lines that become alike while the product's facts are stale cannot be merged; the integrity check then refuses every
  later turn that would save them (`ThrownOnlyIfAlike` says that this is the only way a turn is thrown).
- At twenty lines with pieces left to choose, the runtime stays in COLLECTING_ITEM: no button leads out of it.
- After ADD_ITEM the first press of "same" is refused as STALE_PREVIEW_STATE, because the shown step is that of the old target.
- If the offer ends during the delivery questions, BACK_TO_CART leaves the stage FINAL_ORDER_REVIEW with a cart in
  CART_REVIEW; the customer is stranded until the offer returns, and for good if a quantity was awaited.
- A size or color chosen in an editor that is open on the whole line closes the editor without changing anything.

Of `ConnectionLifecycle`: a candidate in REPLACEMENT_PENDING whose old connection is disconnected first can never become ACTIVE,
and replacing credentials clears the stored PIN of a phone that keeps it at Meta. `PinKept` is about embedded connections and
rows that nobody else changed for this reason.

Smaller disagreements met on the way are hazards with a note: `network_interruption` and `rate_limited` are declared failure
categories that nothing is classified as, and a receipt recorded before its turn saves CONFIRMED stays PENDING.

## 5. Proofs

TLAPS checks these for every value of the constants, under the named assumptions of the modules only.

`ConversationOrdering_proofs` (`TypeCorrect`, `TurnsDistinct`, `LeaseDue`, `NoneSkipped`, `Fencing`, `Refinement`). `IInv`
adds to the checked invariants that no message holds a turn beyond `seq`. None of them is inductive alone: that a lease is on
the due turn rests on the finished turns being exactly those before it, and that on finishing only under a lease. One lemma
per script; fencing and the refinement of `TurnOrder` follow from the same invariant.

`OrderingExpiry_proofs` (`TtlTypeCorrect`, `LeaseOutlived`, `UntimedUntilExpiry`, `FreshUntilExpiry`). That no lease outlives
the counter it is fenced by says nothing of the ticks left until `LivesMatch` ties them to the keys: a key is stored exactly
while it has ticks left, and the finished turns never outlive the counter. `ExpiryInv` is these and the types.
`UntimedUntilExpiry` says what the clock adds: until a key other than the lease runs out, a timed behaviour is one of
`ConversationOrdering`; hence `FreshUntilExpiry`, that such an expiry is the only cause of finding 1.

`OrderConfirmation_proofs` (`TypeCorrect`, `ConfirmedStored`, `SentDelivered`, `ConfirmedFinal`, `SecondDropped`,
`RetryFits`). The hard part is that a turn and the recorder write back copies of the session, and that the session may be
replaced while they hold them. One lemma per kind of step says what it changes (`BeginsStep`, `SavesStep`, ...); every
invariant is then shown from these. `IInv` says that each copy is sound, whenever it is written: a copy shown as CONFIRMED is
of a stored order, and SENT in it of a delivered one; stored orders never change, so what was sound stays so. `KeyInv`, for
`SecondDropped`, says that a stored order whose key is neither dropped nor forgotten is the one the session points to, and that
a copy brings back no other key; so a new key is chosen only when there is no such order. `FinalInv` and `RecorderInv`, for
`ConfirmedFinal`, say when a copy is not of the confirmation that the session shows: never, unless the turn found the runtime
invalid or a confirmation was undone before. `RetryFits` bounds finding 4: if the seller does not change the branding while a
turn confirms or any copy retains a key, and a review keeps the cart while a key is retained (`Unrevised`), a retained key
always fits what a retry would send (`FitInv`: copies with one key have one cart); TLC shows that neither condition can be left
out.

`ConfirmedIsFinal` names what may undo a confirmation (`MayUndo`): a turn that found the runtime not valid, because the
connection was bound to another product or a field conflicts with an option; the loss of the session; a late write of, or
over, a confirmation that had been undone before; and the write-back of a session found bound to another product. The code does
each of them, and TLC finds the property violated without any one of the four.

`InboundQueue_proofs` (`TypeCorrect`, `NoneLost`, `InTurnOrder`, `OneWorker`, `NotHandledAgain`, `ClientOfOrdering`,
`OpenTurnExhausted`). `IInv` relates the three places that know where a message is: the keys (turns distinct, the finished
ones are those before the due one), the jobs (which carry the reserved turn and are active exactly under a lock) and the
slots. `NoneLost` holds under every combination of troubles. The other three are proved under `LockOrLease`: no scenario has a
worker go on after it lost both the lock of its job (a stall) and its lease (a lapse). Without a stall every running slot owns
its job (`LocksInv`), without a lapse every slot at its turn holds the lease (`LeasesInv`); either alone is enough for what
the theorems need, that a slot at its turn is at the due one (`DueInv`) and that two such slots are the same (`Alone`). With
both gone BullMQ does run the agent twice. `ClientOfOrdering` is the composition, under any troubles: every step of a webhook,
a worker or BullMQ is a step of `ConversationOrdering` or none, one lemma per kind of step. The prover cannot cite a theorem
through an INSTANCE, so the conclusion, that the theorems on the keys hold of the queue, is drawn here and not in a module.
`OpenTurnExhausted` bounds finding 2: a failed message whose turn is still due, or that is not in the dead-letter queue, has
used its last attempt or stalled once too often; a message refused for good always leaves its turn finished.

`OutboundQueue_proofs` (`TypeCorrect`, `InOrderDelivered`, `FailedDeadLettered`, `SentFinal`, `NotResent`). `InOrderDelivered`
rests on `SlotInv`: what a worker counts as delivered was accepted by WhatsApp, at each of its steps, whichever worker did it;
a worker that is stalled and goes on has an old cursor but never one that is ahead. For `NotResent`, `LockInv` says that
without a stall the worker at the job owns its lock and its place is the cursor of the job. `FailInv`, for
`FailedDeadLettered`, says that an attempt that throws without a dead letter is not the last. `SentFinal` rests on `SaveInv`: a
worker about to save has read a dispatch that is not SENT, and as long as no job lost its lock nobody else records; a turn that
appends writes back what it has read, and does undo SENT (`WriteAppended`), as a second worker does after a stall.

`TransactionalOutbox_proofs` (`TypeCorrect`, `HandedOver`, `OnceEnqueued`, `ClaimKept`, `HandsOver`). `IInv` says that rows
are those of committed orders, that a publisher believes a job was added only if it was, that a claim that counts is held by a
publisher at work, and that a job is evicted only after its row was published or given up. `HandsOver` is the refinement of
`ReceiptHandoff` step by step, without its fairness.

`CartRuntime_proofs` (`CartTypeCorrect`, `StageMatches`, `OnlyAlikeIsThrown`, `OnlyOpenedChanges`, `LinesKept`). The pieces of
a cart are counted as a set (`Pieces`, one element per piece of a line), because nothing can be proved of a fold over the
lines without induction over data; the lemmas on `Units` say what a new line, a longer one and a removed one add and take.
`CartInv` is what every cart in a session is like: complete lines, identifiers given once and not to the draft, no more pieces
than the target; `SessionInv` adds what the review, the editor, the questions and the stage need of it, since each button
relies on the state that an earlier turn left. A turn saves only a valid cart, and of a session as `SessionInv` describes it
only two lines alike make the cart invalid (`DistinctIsValid`); those come only from the last group of a piece that is chosen
step by step or from the editor, when the choice comes to equal another line (`MayBecomeAlike`), and hence
`OnlyAlikeIsThrown`. That a turn leaves the lines alone which the customer has not opened needs much less, `LinesInv`:
finishing the piece in progress would overwrite a line that has its identifier, and adding to a line needs its quantity to be
a number.

`ConnectionLifecycle_proofs` (`TypeCorrect`, `OneEach`, `Ready`, `Pin`, `ActiveLeft`, `AssetsUnraced`). A request reads, waits
for Meta and writes later, while others write the same row. `IInv` says what a request may still rely on: `KnownInv` that an
embedded row keeps its phone and its seller for ever, and that of a manual one the request is right as long as nobody else has
written the row (`fresh`); `MetaInv` that a request past the verification has seen the phone registered and the webhook
subscribed, of which Meta takes nothing back, and that the PIN it holds is the stored one. `UniqueInv` is the two unique
indexes. Every write is shown once to keep what others rely on (`WriteKeeps`), from what it says of its own row (`Written`).
`AssetsUnraced` bounds finding 5: the phone of a manual connection is one of its stored token's, unless a request wrote the
row although another one had changed it since (`AssetsInv`: a choice of assets that nobody overtook still fits the stored
token).

Only model-checked: liveness (`EveryTurnEnds`, `EventuallyDecided`, `EventuallyPublished`, and the fairness of
`ReceiptHandoff` in `ImplementsHandoff`), because ENABLED and fairness are outside what the prover handles. Every safety and
action property that a passing run checks is stated by a theorem. Finding 3 has no theorem: its document is removed by the
first failed attempt, so that there is no condition to find.

## 6. What is not modelled

- Configurations other than: ordering, retries, dead letters, outbound queue and outbox all on. With them off, the code takes
  simpler paths without the protocols modelled here.
- In `inbound`, a stalled job whose first run is still alive and whose lease lapses too: BullMQ then runs the agent twice at the
  same time, and the order of effects is not guaranteed. The scenarios name what is combined; `NoneLost` needs no such limit.
- In `OrderConfirmation`: two executions of one turn, two recorders at once, writes of orders disabled, receipts sent
  directly. The cart carries its delivery details; a revalidation that finds an ineligible offer again and again is
  REVIEW_REQUIRED like any other. After a rebinding `ReadOutdated` lets any reading write the session back, where the code does
  so only when the normalisation changes something: more than the code does.
- In `OutboundQueue` the session stays that of the order: its replacement is the subject of `OrderConfirmation`. In
  `InboundQueue` the worker's answer to an invalid job is left out, because the producer adds none.
- In `CartRuntime`: the prompt for a typed quantity and its attempts, option fields of free text, the values of the delivery
  fields, what an offer says beyond how many pieces it asks for and whether they may differ, and changes of the catalog
  before the confirmation; hence also the replacement of a runtime that is not valid any more. A value's label is its canonical value, as it is for every size and color of the catalog, and
  a save that changed nothing is a replacement like any other.
- In `ConnectionLifecycle`: the binding of products to a connection, rate limits, audits and the management views. The
  database runs at READ COMMITTED, its default, with the unique indexes of the migrations; Meta accepts or refuses a call.
- An agent turn inside `InboundQueue` is one effect; that errors inside it are swallowed is a hazard with a note.
- Texts, formats, PDF rendering, AI calls, dashboard, CRUD of a single row: no protocol to check.

## 7. Plan

The most important behaviour, the message pipeline and the order, is done first. Next, in this order:

1. `QueueLifecycle`: start and shutdown of `composition/queue` with a failure half way, a start while starting, and a shutdown
   while starting; property: after a shutdown nothing runs.
2. `OrderConfirmation`: two executions of a turn, and two recorders at once.
3. `CartPricing`: `cart-pricing.service.ts` and `offer-eligibility.service.ts` against a reference definition on bounded carts.
4. `AuthSessions`: sessions, recovery tokens used once, rate windows.

Proofs next: the invariants of the modules above as they are written.
