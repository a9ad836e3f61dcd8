--------------------------- MODULE MCParentDelivery ---------------------------
(* Instances of ParentDelivery for TLC.                                    *)
EXTENDS ParentDelivery, TLC

CONSTANTS p, q, k, chat

(* Independent monitors of one conversation.                               *)
Apart == [s \in Sub |-> chat]
NoTickets == [s \in Sub |-> NoTicket]

(* k is a child of p.                                                      *)
ChildOfP == [s \in Sub |-> IF s = k THEN p ELSE NoSub]
=============================================================================
