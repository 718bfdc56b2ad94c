--------------------------- MODULE ReceiptHandoff ---------------------------
(* What the transactional outbox promises: the receipt of a confirmed order is *)
(* handed to the outbound queue, once, after the order is committed.           *)
CONSTANT Orders

VARIABLE stage \* how far each order and its receipt got

Init == stage = [o \in Orders |-> "none"]

Advance(o, from, to) == stage[o] = from /\ stage' = [stage EXCEPT ![o] = to]

Confirm(o) == Advance(o, "none", "confirmed")

HandOver(o) == Advance(o, "confirmed", "handedOver")

Next == \E o \in Orders : Confirm(o) \/ HandOver(o)

Spec == Init /\ [][Next]_stage

\* Nobody has to confirm an order; the receipt of a confirmed one must go out.
FairSpec == Spec /\ \A o \in Orders : WF_stage(HandOver(o))
=============================================================================
