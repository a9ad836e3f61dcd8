--------------------------- MODULE MCSpawnAdmission ---------------------------
(* Instances of SpawnAdmission for TLC.                                    *)
EXTENDS SpawnAdmission

CONSTANTS conv1, conv2, t1, t2, t3

(* 1 is the prerequisite of 2; 3 and 5 track the same ticket for two       *)
(* conversations; 3 may be a request that is refused whenever it is tried. *)
Owners == <<conv1, conv1, conv1, conv1, conv2, conv1>>
Tickets == <<t1, t2, t3, NoTicket, t3, NoTicket>>
Prerequisites == <<NoTicket, t1, NoTicket, NoTicket, NoTicket, NoTicket>>
ThreeSettings ==
    {[staleReclaim |-> TRUE, maxActive |-> 2, perSession |-> 0, invalid |-> {}],
     [staleReclaim |-> FALSE, maxActive |-> 3, perSession |-> 0, invalid |-> {}],
     [staleReclaim |-> FALSE, maxActive |-> 2, perSession |-> 2, invalid |-> {3}]}
=============================================================================
