------------------------- MODULE MCConversationStore -------------------------
(* Instances of ConversationStore for TLC.                                 *)
EXTENDS ConversationStore

CONSTANTS operator, periodic

(* One long session that is compacted; one whose summary is missing; more  *)
(* sessions than the cap.                                                  *)
ThreeCasts ==
    {[window |-> 4, capacity |-> 2, keep |-> 2, turns |-> 8, kills |-> 1, ids |-> {1}, legacy |-> FALSE],
     [window |-> 3, capacity |-> 2, keep |-> 1, turns |-> 5, kills |-> 1, ids |-> {1, 2}, legacy |-> TRUE],
     [window |-> 2, capacity |-> 2, keep |-> 1, turns |-> 2, kills |-> 1, ids |-> {1, 2, 3}, legacy |-> FALSE]}

OneCast ==
    {[window |-> 3, capacity |-> 2, keep |-> 1, turns |-> 6, kills |-> 0, ids |-> {1}, legacy |-> FALSE]}
=============================================================================
