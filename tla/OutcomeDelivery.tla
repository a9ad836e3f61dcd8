--------------------------- MODULE OutcomeDelivery ---------------------------
(***************************************************************************)
(* What ParentDelivery promises to a conversation, without its timers,     *)
(* batches, locks and counters: a report that was accepted for a           *)
(* conversation is recorded in its history once.                           *)
(***************************************************************************)
EXTENDS Naturals, Sequences

CONSTANTS Session, Report

VARIABLES
    waiting,   \* Session -> the reports accepted and not yet recorded
    history    \* Session -> the reports in the order they were recorded

deliveryVars == <<waiting, history>>

Recorded(c) == {history[c][i] : i \in DOMAIN history[c]}

Init ==
    /\ waiting = [c \in Session |-> {}]
    /\ history = [c \in Session |-> <<>>]

Accept(c, r) ==
    /\ r \notin waiting[c] \cup Recorded(c)
    /\ waiting' = [waiting EXCEPT ![c] = @ \cup {r}]
    /\ UNCHANGED history

(* A turn records a batch of reports: new ones, each of them once.         *)
Record(c, batch) ==
    /\ \A i, j \in DOMAIN batch : batch[i] = batch[j] => i = j
    /\ \A i \in DOMAIN batch : batch[i] \in waiting[c]
    /\ waiting' = [waiting EXCEPT ![c] = @ \ {batch[i] : i \in DOMAIN batch}]
    /\ history' = [history EXCEPT ![c] = @ \o batch]

(* The batch of a step is the suffix it adds to the history.               *)
Added(c) == SubSeq(history'[c], Len(history[c]) + 1, Len(history'[c]))

Next ==
    \E c \in Session :
        \/ \E r \in Report : Accept(c, r)
        \/ Record(c, Added(c))

Spec == Init /\ [][Next]_deliveryVars
=============================================================================
