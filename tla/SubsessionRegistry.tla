-------------------------- MODULE SubsessionRegistry --------------------------
(***************************************************************************)
(* The in-process registry of monitor subsessions (kinds "periodic" and    *)
(* "wait_for_event"): src/robotsix_chat/subsessions/registry*.py.          *)
(*                                                                         *)
(* The registry is called from one asyncio loop and no operation awaits,   *)
(* so each operation is one atomic effect.  The effects are operators      *)
(* here; the actors that call them (workers, watcher, tools, routes) are   *)
(* in SubsessionLifecycle.  Records are kept for ever: the pruning of old  *)
(* terminal records starts at 50 of them, more than any instance creates.  *)
(***************************************************************************)
EXTENDS FiniteSets

CONSTANTS
    Sub,          \* identifiers of the monitors that may be spawned
    Slot,         \* asyncio tasks one monitor may have at the same time
    Ticket,       \* mill tickets
    TicketOf,     \* Sub -> Ticket: the dedup_key, the ticket a monitor tracks
    DependsOn,    \* Sub -> Ticket or NoTicket: depends_on_ticket_id
    EventDriven,  \* the monitors of kind wait_for_event
    NoTicket, NoSub, NoSlot

ASSUME RegistryConstants ==
    /\ NoTicket \notin Ticket /\ NoSub \notin Sub /\ NoSlot \notin Slot
    /\ TicketOf \in [Sub -> Ticket]
    /\ DependsOn \in [Sub -> Ticket \cup {NoTicket}]
    /\ EventDriven \subseteq Sub

VARIABLES
    status,      \* SubsessionInfo.status; "none" before create
    reason,      \* SubsessionInfo.close_reason
    inboxes,     \* the monitors that have an entry in _inboxes
    mail,        \* the monitors whose inbox holds an undelivered message
    wake,        \* the monitors whose _wake_events entry is set
    seeded,      \* the monitors whose checkpoint carries ticket_id
    dedupKeys,   \* _active_dedup_keys: Ticket -> Sub or NoSub
    running,     \* _running: the task the registry would cancel
    cancelled    \* the tasks on which cancel() was called

registryVars ==
    <<status, reason, inboxes, mail, wake, seeded, dedupKeys, running, cancelled>>

Statuses == {"none", "running", "sleeping", "paused", "closed", "failed"}

(* Close reasons the code tells apart.  "max_runs" stands for it and for   *)
(* the human-approval reasons that records of older versions carry;        *)
(* "resolved" for the ticket-terminal reasons and "completed"; "given_up"  *)
(* for every other reason.                                                 *)
Reopenable == {"paused", "max_runs", "waiting_for_prerequisite"}
TicketTerminal == {"resolved"}
Reasons == Reopenable \cup TicketTerminal \cup {"none", "given_up"}

Active(s) == status[s] \in {"running", "sleeping", "paused"}

-----------------------------------------------------------------------------
(* find_active_periodic_by_ticket_id and the dedup key, as spawn and       *)
(* create consult them.                                                    *)
ActiveMonitorOf(t) == {s \in Sub : Active(s) /\ s \in seeded /\ TicketOf[s] = t}

IsDedupKeyActive(t) == dedupKeys[t] # NoSub /\ Active(dedupKeys[t])

Create(s) ==
    /\ status' = [status EXCEPT ![s] = "running"]
    /\ inboxes' = inboxes \cup {s}
    /\ wake' = wake \ {s}
    /\ seeded' = IF s \in EventDriven THEN seeded \cup {s} ELSE seeded
    /\ dedupKeys' = [dedupKeys EXCEPT ![TicketOf[s]] = s]
    /\ UNCHANGED <<reason, mail, cancelled>>

(* set_status: ignored when the record is terminal.                        *)
SetStatus(s, st) ==
    status' = IF Active(s) THEN [status EXCEPT ![s] = st] ELSE status

(* enqueue_message: refused unless the record is active and has an inbox.  *)
CanEnqueue(s) == Active(s) /\ s \in inboxes


Enqueue(s) ==
    /\ mail' = mail \cup {s}
    /\ wake' = wake \cup {s}

(* drain_inbox: the wake event is cleared, the messages leave the inbox.   *)
Drain(s) ==
    /\ mail' = mail \ {s}
    /\ wake' = wake \ {s}

-----------------------------------------------------------------------------
\* Mutant: the key outlives its monitor.
KeepKeys(gone) == dedupKeys

(* _close_and_publish drops the dedup key of each record it closes.        *)
PopKeys(gone) ==
    [t \in Ticket |-> IF \E x \in gone : TicketOf[x] = t THEN NoSub ELSE dedupKeys[t]]

(* _pause_dependents recurses through cancel_and_close: a dependent that   *)
(* is closed pauses its own dependents when its checkpoint has a ticket.   *)
PausedBy(c) ==
    {d \in Sub \ {c} : DependsOn[d] = TicketOf[c] /\ status[d] \in {"running", "sleeping"}}

\* Mutant: the cascade passes over the dependents that run.
SleepingDependents(s) == {d \in PausedBy(s) : status[d] = "sleeping"}

Dependents(s) ==
    {d \in Sub \ {s} :
        \A C \in SUBSET (Sub \ {s}) :
            (\A c \in C \cup {s} : c \in seeded => PausedBy(c) \ {s} \subseteq C) => d \in C}

PausedWith(s, r) == IF r \in TicketTerminal THEN {} ELSE Dependents(s)

(* _close_and_publish of s with status st and reason r.  A failure leaves  *)
(* close_reason as it was.  The tasks of the dependents are cancelled, and *)
(* the task of s when the caller is cancel_and_close.                      *)
CloseAndPublish(s, st, r, cancelling) ==
    LET why    == IF st = "failed" THEN reason[s] ELSE r
        deps   == PausedWith(s, why)
        gone   == deps \cup {s}
        killed == IF cancelling THEN gone ELSE deps
    IN  /\ status' = [x \in Sub |-> IF x = s THEN st
                                    ELSE IF x \in deps THEN "closed" ELSE status[x]]
        /\ reason' = [x \in Sub |-> IF x = s THEN why
                                    ELSE IF x \in deps THEN "waiting_for_prerequisite"
                                    ELSE reason[x]]
        /\ dedupKeys' = PopKeys(gone)
        /\ inboxes' = inboxes \ gone
        /\ mail' = mail \ gone
        /\ cancelled' = cancelled \cup {<<x, running[x]>> : x \in {y \in killed : running[y] # NoSlot}}
        /\ UNCHANGED <<wake, seeded>>

recordVars == <<status, reason, inboxes, mail, wake, seeded, dedupKeys, cancelled>>

(* mark_closed and fail: a terminal record is left alone.                  *)
MarkClosed(s, r) ==
    IF Active(s) THEN CloseAndPublish(s, "closed", r, FALSE) ELSE UNCHANGED recordVars


Fail(s) ==
    IF Active(s) THEN CloseAndPublish(s, "failed", "none", FALSE) ELSE UNCHANGED recordVars

CancelAndClose(s, r) == Active(s) /\ CloseAndPublish(s, "closed", r, TRUE)

-----------------------------------------------------------------------------
(* mark_paused, resume, reopen.                                            *)
MarkPaused(s) ==
    /\ status' = [status EXCEPT ![s] = "paused"]
    /\ reason' = [reason EXCEPT ![s] = "paused"]

Resume(s) ==
    /\ status' = [status EXCEPT ![s] = "running"]
    /\ reason' = [reason EXCEPT ![s] = "none"]

\* Mutant: reopen forgets to look at the close reason.
CanReopenAny(s) == status[s] \in {"closed", "paused"}

CanReopen(s) == status[s] \in {"closed", "paused"} /\ reason[s] \in Reopenable

(* reopen restores the status only: the inbox and the dedup key stay as    *)
(* the close left them.                                                    *)
Reopen(s) ==
    /\ status' = [status EXCEPT ![s] = "running"]
    /\ reason' = [reason EXCEPT ![s] = "none"]
    /\ UNCHANGED <<inboxes, mail, wake, seeded, dedupKeys, cancelled>>

\* Mutant: a close reason added later is missing from the watcher's list.
FindPausedOld ==
    {s \in Sub : status[s] = "paused" \/ (status[s] = "closed" /\ reason[s] \in {"paused", "max_runs"})}

(* find_paused_periodic                                                    *)
FindPaused ==
    {s \in Sub : status[s] = "paused" \/ (status[s] = "closed" /\ reason[s] \in Reopenable)}
=============================================================================
