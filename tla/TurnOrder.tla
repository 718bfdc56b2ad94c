------------------------------ MODULE TurnOrder ------------------------------
(***************************************************************************)
(* What the ordering coordinator promises about one conversation: turns    *)
(* are numbered as messages arrive, one turn runs at a time, and turn n+1  *)
(* starts only when turn n has finished.  A turn that was started may be   *)
(* abandoned and started again; it is finished once.                       *)
(***************************************************************************)
EXTENDS Naturals

VARIABLES issued,   \* turns handed out so far
          next,     \* the turn whose turn it is
          running   \* the turn being run, 0 if none

orderVars == <<issued, next, running>>

Init == issued = 0 /\ next = 1 /\ running = 0

Issue == issued' = issued + 1 /\ UNCHANGED <<next, running>>

Start ==
    /\ running = 0
    /\ next <= issued
    /\ running' = next
    /\ UNCHANGED <<issued, next>>

Abandon ==
    /\ running # 0
    /\ running' = 0
    /\ UNCHANGED <<issued, next>>

Finish ==
    /\ running = next
    /\ next' = next + 1
    /\ running' = 0
    /\ UNCHANGED issued

Next == Issue \/ Start \/ Abandon \/ Finish

Spec == Init /\ [][Next]_orderVars
=============================================================================
