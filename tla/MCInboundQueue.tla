--------------------------- MODULE MCInboundQueue ---------------------------
(* Nothing in the model tells one message, slot or request from another before *)
(* it acts, so the safety run may permute them.                                *)
EXTENDS InboundQueue, TLC

Symmetry == Permutations(Messages) \cup Permutations(Slots) \cup Permutations(Requests)
=============================================================================
