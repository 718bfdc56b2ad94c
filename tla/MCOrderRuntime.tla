-------------------------- MODULE MCOrderRuntime --------------------------
(***************************************************************************)
(* The guarded order runtime, its stages side by side: in a behaviour that *)
(* is collecting, CartRuntime takes all the steps, from the first entry to *)
(* the press of CONFIRM; in any other one OrderConfirmation takes them,    *)
(* from the review of a cart on.  The half that takes no step starts in    *)
(* one state only.                                                         *)
(***************************************************************************)
EXTENDS OrderConfirmation, CartRuntime, TLC

VARIABLE collecting

\* The second group is neither a size nor a color
QuickFirst == {1}

\* Values, carts, products and codes are alike to everything that the properties tell apart
Alternatives == Permutations(Values) \cup Permutations(Items) \cup Permutations(Products)
                  \cup Permutations(Codes)

MCInit ==
    /\ Init /\ CartInit /\ collecting \in BOOLEAN
    /\ collecting \/ offerOpen

MCNext ==
    \/ ~collecting /\ Next /\ UNCHANGED <<cartVars, collecting>>
    \/ collecting /\ CartNext /\ UNCHANGED <<vars, collecting>>

MCSpec == MCInit /\ [][MCNext]_<<vars, cartVars, collecting>>
===========================================================================
