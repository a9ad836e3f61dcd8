------------------------- MODULE MCPeriodicScheduler -------------------------
(* Instances of PeriodicScheduler for TLC.                                 *)
EXTENDS PeriodicScheduler

CONSTANTS caretaker, digest, chat, monitor

TheOrder == <<caretaker, digest>>
Plain(i, j) == caretaker :> i @@ digest :> j

(* One preset with a subsession of each kind; two, of which one is         *)
(* anchored and gets its first run by hand or on the hour.                 *)
TwoCasts ==
    {[interval |-> Plain(2, 2), anchor |-> Plain(None, None), retained |-> 1,
      defs |-> {caretaker}, subs |-> {chat, monitor}, horizon |-> 3, acts |-> 2],
     [interval |-> Plain(2, 3), anchor |-> Plain(None, 2), retained |-> 2,
      defs |-> {caretaker, digest}, subs |-> {chat}, horizon |-> 4, acts |-> 1]}

Anchored ==
    {[interval |-> Plain(3, 4), anchor |-> Plain(None, 2), retained |-> 2,
      defs |-> {digest}, subs |-> {}, horizon |-> 10, acts |-> 0]}
=============================================================================
