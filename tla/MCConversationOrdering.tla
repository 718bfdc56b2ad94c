---------------------- MODULE MCConversationOrdering ----------------------
(***************************************************************************)
(* The ordering keys twice, side by side: in a behaviour that is not timed *)
(* they never expire, and ConversationOrdering takes all the steps; in a   *)
(* timed one OrderingExpiry takes them, on keys of its own that a clock    *)
(* deletes.                                                                *)
(***************************************************************************)
EXTENDS ConversationOrdering, OrderingExpiry

VARIABLE timed

MCInit == Init /\ TtlInit /\ timed \in BOOLEAN

MCNext ==
    \/ ~timed /\ Next /\ UNCHANGED <<expiryVars, timed>>
    \/ timed /\ TtlNext /\ UNCHANGED <<vars, timed>>

MCSpec == MCInit /\ [][MCNext]_<<vars, expiryVars, timed>>
===========================================================================
