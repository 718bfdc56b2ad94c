------------------------- MODULE OrderingConstants -------------------------
(***************************************************************************)
(* The messages of one conversation and the executor slots that run their  *)
(* turns, whichever module orders them.                                    *)
(***************************************************************************)
EXTENDS Naturals

CONSTANTS Messages, Slots, NoLease

ASSUME NoLeaseAssumption == NoLease \notin [token : Slots, turn : Nat]
=============================================================================
