--------------------------- MODULE MCStartupResume ---------------------------
(* Instances of StartupResume for TLC.                                     *)
EXTENDS StartupResume

CONSTANTS k

(* Two monitors of one ticket, the second spawned once the first is closed, *)
(* around an event monitor; a chat after an entry that is refused; a task   *)
(* before a monitor.                                                        *)
ThreeCasts ==
    {[kind |-> <<"periodic", "event", "periodic">>, key |-> <<k, NoKey, k>>, bad |-> {}],
     [kind |-> <<"event", "chat", "periodic">>, key |-> <<NoKey, NoKey, NoKey>>, bad |-> {1}],
     [kind |-> <<"event", "task", "periodic">>, key |-> <<NoKey, NoKey, NoKey>>, bad |-> {}]}
=============================================================================
