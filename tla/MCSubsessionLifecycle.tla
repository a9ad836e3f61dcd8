------------------------ MODULE MCSubsessionLifecycle ------------------------
(* Instances of SubsessionLifecycle for TLC: a monitor alone, and one      *)
(* with a dependent.                                                       *)
EXTENDS SubsessionLifecycle, TLC

CONSTANTS a, b, t1, t2

\* a alone.
SoloTicketOf == a :> t1
SoloDependsOn == a :> NoTicket

\* b waits for the ticket that a tracks.
ChainTicketOf == (a :> t1) @@ (b :> t2)
ChainDependsOn == (a :> NoTicket) @@ (b :> t1)
=============================================================================
