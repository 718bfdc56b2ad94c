-------------------------- MODULE MCOutboundQueue --------------------------
(* The three shapes of group that the producers prepare, and the troubles that *)
(* are looked at together                                                      *)
EXTENDS OutboundQueue

AllGroups == {<<"reply", "reply">>, <<"runtimeReceipt">>, <<"orderReceipt">>}
StagedReceipt == {<<"runtimeReceipt">>}

LostAnswers == {"crash", "lostReply", "store"}
LostLocks == {"crash", "stall", "store", "dlq"}
Appends == {"append", "store", "crash"}
AllTroubles == {LostAnswers, LostLocks, Appends}
NoTroubles == {{}}
=============================================================================
