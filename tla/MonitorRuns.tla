------------------------------ MODULE MonitorRuns ------------------------------
(***************************************************************************)
(* The run accounting of one monitor: which run numbers its worker claims, *)
(* how replies and errors move the run budget and the other limits, and    *)
(* what becomes of the messages it takes from its inbox, across errors,    *)
(* retries, reopenings and restarts of the process (worker.py,             *)
(* worker_periodic.py, subsession_waits.py, resume.py).                    *)
(*                                                                         *)
(* A step is the code between two awaits.  Everything a restart reads back *)
(* is persisted before the await that ends the step, so one copy stands    *)
(* for the record and for the store.  pc names the await:                  *)
(*   boot      building the agent, _check_resume_status                    *)
(*   turn      the agent's turn                                            *)
(*   sleep     the interval between two runs                               *)
(*   queued    _queued_wait_loop        event   _event_wait_loop           *)
(*   paused    _paused_wait_loop        escalate  board.create_ticket      *)
(*   done      no worker                                                   *)
(* One worker at a time: the overlaps are in SubsessionLifecycle.          *)
(***************************************************************************)
EXTENDS Integers, Sequences

CONSTANTS
    Msg,                  \* messages that may be sent to the monitor
    Note,                 \* a message the worker writes itself (restart, timeout)
    LastRun,              \* bound: no run beyond this number starts
    Budgets,              \* values max_runs is spawned with; NoCap for None
    ErrorThreshold,       \* consecutive_error_fail_threshold
    Retries,              \* monitor_error_max_retries
    IdleCap,              \* max_idle_runs, 0: never pause
    PauseCap,             \* max_no_change_pauses, 0: always pause
    AutoStop,             \* auto_stop_no_change_runs
    HumanCap,             \* human_approval_timeout_runs
    Extension, Ceiling,   \* max_runs_progress_extension, periodic_max_total_runs
    Window,               \* max_runs_progress_window
    Escalation            \* max_runs_escalation_threshold, 0: never escalate

NoCap == -1

ASSUME RunConstants ==
    /\ Note \notin Msg
    /\ Budgets \subseteq Nat \cup {NoCap}
    /\ {LastRun, ErrorThreshold, Retries, IdleCap, PauseCap, HumanCap,
        Extension, Ceiling, Window, Escalation} \subseteq Nat
    /\ AutoStop \in Nat \ {0}

VARIABLES
    kind,       \* "periodic" or "wait_for_event"
    status, reason, pc,
    runs,       \* info.runs
    completed,  \* info.completed_runs: the claimed run numbers
    log,        \* history: the numbers of the turns started
    maxRuns,    \* info.max_runs
    stale,      \* runs since the last True in recent_progress_flags, at most Window
    exhausted,  \* checkpoint max_runs_exhausted_count
    pauses,     \* checkpoint no_change_pause_count
    mode,       \* checkpoint last_known_state, as far as the code tells apart
    surfaced,   \* checkpoint operator_decision_surfaced
    idle,       \* consecutive_no_change
    errored,    \* consecutive_errored_runs
    retries,    \* retry_count
    hasInbox, inbox,
    inFlight,   \* _in_flight: drained and not yet part of a completed turn
    pending,    \* the worker's next input, or the input of the current turn
    heard       \* history: the messages that were input of a completed turn

limitVars == <<maxRuns, stale, exhausted, pauses>>
checkpointVars == <<mode, surfaced>>
errorVars == <<errored, retries>>
runVars == <<runs, completed, log>>
mailVars == <<hasInbox, inbox, inFlight, pending, heard>>
vars == <<kind, status, reason, pc, runVars, limitVars, checkpointVars, idle,
          errorVars, mailVars>>

(* "draft" is a draft whose operator-decision comment is posted.           *)
Modes == {"moving", "draft", "approval", "merged"}
Replies == {"change", "duplicate", "no_change"}
Active == status \in {"running", "sleeping", "paused"}
Periodic == kind = "periodic"

Init ==
    /\ kind \in {"periodic", "wait_for_event"}
    /\ status = "running" /\ reason = "none" /\ pc = "boot"
    /\ runs = 0 /\ completed = {} /\ log = <<>>
    /\ maxRuns \in IF Periodic THEN Budgets ELSE {NoCap}
    /\ stale = Window /\ exhausted = 0 /\ pauses = 0
    /\ mode = "moving" /\ surfaced = FALSE
    /\ idle = 0 /\ errored = 0 /\ retries = 0
    /\ hasInbox = TRUE /\ inbox = {} /\ inFlight = {} /\ pending = {} /\ heard = {}

-----------------------------------------------------------------------------
(* _close_and_publish, and the worker ends.                                *)
Close(st, why) ==
    /\ status' = st /\ reason' = why /\ pc' = "done"
    /\ hasInbox' = FALSE /\ inbox' = {} /\ inFlight' = {} /\ pending' = {}

\* Mutant: the run guard is skipped.
NextAfter(r, n) == n = r + 1

(* claim_run: the numbers that were claimed before are skipped.            *)
NextUnclaimed(r, n) == n > r /\ n \notin completed /\ (r + 1)..(n - 1) \subseteq completed

StartsRun(r) ==
    \E n \in 1..LastRun :
        /\ NextUnclaimed(r, n)
        /\ completed' = completed \cup {n}
        /\ log' = Append(log, n)
        /\ runs' = n - 1
        /\ pc' = "turn" /\ status' = "running"

Waits(r, where, st) ==
    /\ runs' = r /\ pc' = where /\ status' = st
    /\ UNCHANGED <<completed, log>>

(* The head of the worker's loop with run counter r, pending input ms and  *)
(* last known state m.  Without input, a wait_for_event monitor waits for  *)
(* an event, and a periodic one leaves alone a draft the operator was      *)
(* asked about.                                                            *)
LoopHead(r, ms, m, first) ==
    LET wait == IF ms # {} THEN "none"
                ELSE IF ~Periodic /\ ~first THEN "event"
                ELSE IF Periodic /\ m = "draft" THEN "queued"
                ELSE "none"
    IN  /\ pending' = ms
        /\ \/ wait = "none" /\ StartsRun(r)
           \/ wait = "event" /\ Waits(r, "event", "running")
           \/ wait = "queued" /\ Waits(r, "queued", "sleeping")


(* drain_inbox, keeping what was drained in the in-flight buffer.          *)
Take(ms) ==
    /\ inbox' = inbox \ ms
    /\ inFlight' = inFlight \cup ms

-----------------------------------------------------------------------------
(* The worker starts, for a new, reopened, resumed or retried monitor: a   *)
(* paused one goes back to its pause, any other to its first run, with a   *)
(* note on the ticket's state, which the checkpoint may record.            *)
BootContinues ==
    /\ pc = "boot" /\ status # "paused"
    /\ \E m \in {mode, "moving", "approval"}, ms \in {{}, {Note}} :
          mode' = m /\ LoopHead(runs, ms, m, TRUE)
    /\ UNCHANGED <<kind, reason, limitVars, surfaced, idle, errorVars,
                   hasInbox, inbox, inFlight, heard>>

BootPaused ==
    /\ pc = "boot" /\ status = "paused"
    /\ pc' = "paused"
    /\ mode' \in {mode, "moving", "approval"}
    /\ UNCHANGED <<kind, status, reason, runVars, limitVars, surfaced, idle,
                   errorVars, mailVars>>

(* The ticket is resolved, unreachable or blocked again, a tool is missing, *)
(* or the agent closes the monitor in its turn.                            *)
WorkerCloses ==
    /\ pc \in {"boot", "turn"}
    /\ Close("closed", "given_up")
    /\ heard' = IF pc = "turn" THEN heard \cup (pending \ {Note}) ELSE heard
    /\ UNCHANGED <<kind, runVars, limitVars, checkpointVars, idle, errorVars>>

-----------------------------------------------------------------------------
(* Tools of the agent, during its turn.                                    *)

(* set_checkpoint replaces the whole dict: the keys that                   *)
(* registry_checkpoint.py does not preserve are gone.                      *)
SetCheckpoint(m) ==
    /\ pc = "turn"
    /\ mode' = m /\ surfaced' = FALSE /\ exhausted' = 0
    /\ UNCHANGED <<kind, status, reason, pc, runVars, maxRuns, stale, pauses, idle,
                   errorVars, mailVars>>

SelfUpdate(n) ==
    /\ pc = "turn" /\ Periodic
    /\ maxRuns' = n
    /\ UNCHANGED <<kind, status, reason, pc, runVars, stale, exhausted, pauses,
                   checkpointVars, idle, errorVars, mailVars>>

-----------------------------------------------------------------------------
(* The turn fails.                                                         *)

(* _handle_monitor_run_error.  The input stays in the worker's hands: a    *)
(* wait_for_event worker is back at the loop head with it, a periodic one  *)
(* overwrites it when its sleep ends.                                      *)
RunErrs ==
    /\ pc = "turn"
    /\ errored' = errored + 1
    /\ IF errored + 1 >= ErrorThreshold
       THEN Close("failed", reason) /\ UNCHANGED <<runVars, idle>>
       ELSE /\ idle' = idle + 1
            /\ IF Periodic
               THEN Waits(runs + 1, "sleep", "sleeping") /\ UNCHANGED pending
               ELSE LoopHead(runs + 1, pending, mode, FALSE)
            /\ UNCHANGED <<reason, hasInbox, inbox, inFlight>>
    /\ UNCHANGED <<kind, limitVars, checkpointVars, retries, heard>>

(* The outer handler: the model's tier is gone, or the agent cannot be     *)
(* built.  The relaunched worker is handed no input: in_flight_inbox is    *)
(* never set for a monitor.                                                *)
WorkerRaises ==
    /\ pc \in {"boot", "turn"}
    /\ IF retries < Retries
       THEN /\ retries' = retries + 1
            /\ pc' = "boot" /\ pending' = {}
            /\ UNCHANGED <<status, reason, hasInbox, inbox, inFlight>>
       ELSE Close("failed", reason) /\ UNCHANGED retries
    /\ UNCHANGED <<kind, runVars, limitVars, checkpointVars, idle, errored, heard>>

-----------------------------------------------------------------------------
(* The turn succeeds.                                                      *)

(* The error streak ends, and what the worker held has been delivered.     *)
Hears == errored' = 0 /\ heard' = heard \cup (pending \ {Note})

\* Mutant: the drained messages stay in the in-flight buffer.
HearsOnly == Hears /\ inFlight' = inFlight

(* append_turn_history empties the in-flight buffer.                       *)
CompletesTurn == Hears /\ inFlight' = {}

(* The turn ended and the monitor goes on: its input is used up.           *)
TurnEnds ==
    /\ CompletesTurn
    /\ pending' = {}
    /\ UNCHANGED <<kind, mode, retries, hasInbox, inbox>>


(* recent_progress_flags after this reply.                                 *)
StaleAfter(reply) ==
    IF maxRuns = NoCap \/ Window = 0 THEN stale
    ELSE IF reply = "change" THEN 0
    ELSE IF stale < Window THEN stale + 1 ELSE Window

IdleAfter(reply) == IF reply = "no_change" THEN idle + 1 ELSE 0
PausesAfter(reply) == IF reply = "no_change" THEN pauses ELSE 0

Spends(cap) == cap # NoCap /\ runs + 1 >= cap

(* The adaptive budget: progress in the window moves the cap once reached. *)
Extends(reply) ==
    /\ Spends(maxRuns) /\ StaleAfter(reply) < Window
    /\ Extension > 0 /\ maxRuns < Ceiling

CapAfter(reply) ==
    IF ~Extends(reply) THEN maxRuns
    ELSE IF maxRuns + Extension < Ceiling THEN maxRuns + Extension ELSE Ceiling

BudgetAfter(reply) ==
    /\ maxRuns' = CapAfter(reply)
    /\ stale' = IF Extends(reply) THEN Window ELSE StaleAfter(reply)

\* Mutant: one exhausted budget too many.
EscalatesLate == Escalation > 0 /\ exhausted + 1 > Escalation

Escalates == Escalation > 0 /\ exhausted + 1 >= Escalation

(* A reply that the ticket is queued waits without any of the limits.      *)
RunQueued ==
    /\ pc = "turn" /\ Periodic
    /\ TurnEnds
    /\ Waits(runs + 1, "queued", "sleeping")
    /\ idle' = 0
    /\ UNCHANGED <<reason, limitVars, surfaced>>

(* The run budget is spent: close, or file a ticket first when it was      *)
(* spent too often.                                                        *)
RunSpendsBudget(reply) ==
    /\ pc = "turn" /\ Periodic /\ Spends(CapAfter(reply))
    /\ BudgetAfter(reply)
    /\ pauses' = PausesAfter(reply)
    /\ Hears
    /\ IF Escalates
       THEN /\ pc' = "escalate" /\ status' = "sleeping"
            /\ inFlight' = {} /\ pending' = {}
            /\ UNCHANGED <<reason, exhausted, hasInbox, inbox>>
       ELSE Close("closed", "max_runs") /\ exhausted' = exhausted + 1
    /\ runs' = runs + 1
    /\ UNCHANGED <<kind, completed, log, checkpointVars, idle, retries>>

TicketFiled ==
    /\ pc = "escalate"
    /\ Close("closed", "max_runs_escalated")
    /\ UNCHANGED <<kind, runVars, limitVars, checkpointVars, idle, errorVars, heard>>

(* The ticket awaits the operator: a draft that was commented on, or an    *)
(* approval that is due for too long.  The approval is surfaced once and   *)
(* counted as a second run.                                                *)
RunAwaitsOperator(reply) ==
    /\ pc = "turn" /\ Periodic /\ ~Spends(CapAfter(reply))
    /\ mode \in {"draft", "approval"}
    /\ TurnEnds
    /\ BudgetAfter(reply)
    /\ pauses' = PausesAfter(reply)
    /\ Waits(IF mode = "draft" THEN runs + 1 ELSE runs + 2, "queued", "sleeping")
    /\ surfaced' = (surfaced \/ mode = "approval")
    /\ idle' = 0
    /\ UNCHANGED <<reason, exhausted>>

(* Neither the budget nor the operator ends the run.  How long an approval *)
(* has been due is not modelled, only that HumanCap idle runs are too many. *)
Ordinary(reply) ==
    /\ pc = "turn" /\ Periodic /\ ~Spends(CapAfter(reply))
    /\ mode # "draft"
    /\ mode = "approval" => IdleAfter(reply) < HumanCap

IsIdle(reply) == IdleCap > 0 /\ IdleAfter(reply) >= IdleCap

(* The idle guard pauses, and closes at the last pause.                    *)
RunPauses(reply) ==
    /\ Ordinary(reply) /\ IsIdle(reply)
    /\ BudgetAfter(reply)
    /\ runs' = runs + 1
    /\ Hears
    /\ IF PauseCap > 0 /\ pauses + 1 >= PauseCap
       THEN Close("closed", "no_change_pause_limit") /\ UNCHANGED <<pauses, idle>>
       ELSE /\ pauses' = pauses + 1 /\ idle' = 0
            /\ status' = "paused" /\ reason' = "paused" /\ pc' = "paused"
            /\ inFlight' = {} /\ pending' = {}
            /\ UNCHANGED <<hasInbox, inbox>>
    /\ UNCHANGED <<kind, completed, log, exhausted, checkpointVars, retries>>

(* The no-change guard closes.                                             *)
RunStops(reply) ==
    /\ Ordinary(reply) /\ ~IsIdle(reply) /\ IdleAfter(reply) >= AutoStop
    /\ BudgetAfter(reply)
    /\ runs' = runs + 1
    /\ Hears
    /\ Close("closed", "no_change_auto_stop")
    /\ UNCHANGED <<kind, completed, log, exhausted, pauses, checkpointVars, idle, retries>>

RunSleeps(reply) ==
    /\ Ordinary(reply) /\ ~IsIdle(reply) /\ IdleAfter(reply) < AutoStop
    /\ TurnEnds
    /\ BudgetAfter(reply)
    /\ pauses' = PausesAfter(reply)
    /\ Waits(runs + 1, "sleep", "sleeping")
    /\ idle' = IdleAfter(reply)
    /\ UNCHANGED <<reason, exhausted, surfaced>>

(* _run_wait_for_event_turn has no limits; the loop head waits at once.    *)
EventRunEnds(reply) ==
    /\ pc = "turn" /\ ~Periodic
    /\ TurnEnds
    /\ Waits(runs + 1, "event", "running")
    /\ idle' = IdleAfter(reply)
    /\ UNCHANGED <<reason, limitVars, surfaced>>

-----------------------------------------------------------------------------
(* The waits end: with what the inbox holds, or, after a query about the   *)
(* ticket, with none of it.                                                *)
WakesWith(ms, where) ==
    /\ pc = where
    /\ Take(ms \ {Note})
    /\ LoopHead(runs, ms, mode, FALSE)
    /\ UNCHANGED <<kind, limitVars, checkpointVars, idle, errorVars, hasInbox, heard>>

SleepEnds == WakesWith(inbox, "sleep") /\ UNCHANGED reason

QueuedWakes ==
    /\ \E ms \in {inbox, {}} : WakesWith(ms, "queued")
    /\ UNCHANGED reason

EventArrives ==
    /\ inbox # {} /\ WakesWith(inbox, "event")
    /\ UNCHANGED reason

EventTimesOut == WakesWith({Note}, "event") /\ UNCHANGED reason

PausedWakes ==
    /\ \E ms \in {inbox, {}} : WakesWith(ms, "paused")
    /\ reason' = "none"

-----------------------------------------------------------------------------
(* The others: message_subsession and the event feed, the close of the     *)
(* operator, the watcher, the restart of the process.                      *)
Message(m) ==
    /\ Active /\ hasInbox /\ m \notin inbox \cup inFlight \cup heard
    /\ inbox' = inbox \cup {m}
    /\ UNCHANGED <<kind, status, reason, pc, runVars, limitVars, checkpointVars, idle,
                   errorVars, hasInbox, inFlight, pending, heard>>

ExternalClose ==
    /\ Active
    /\ Close("closed", "given_up")
    /\ UNCHANGED <<kind, runVars, limitVars, checkpointVars, idle, errorVars, heard>>

(* reopen resets the run counter, not the claimed numbers.                 *)
Reopen ==
    /\ status = "closed" /\ reason = "max_runs"
    /\ status' = "running" /\ reason' = "none" /\ pc' = "boot"
    /\ runs' = 0
    /\ UNCHANGED <<kind, completed, log, limitVars, checkpointVars, idle, errorVars, mailVars>>


(* _resume_entry spawns the active monitors again, and the ones that the   *)
(* no-change guard stopped.                                                *)
Resumed == Active \/ (status = "closed" /\ reason = "no_change_auto_stop")

\* Mutant: only the queued messages are read back.
RebuiltQueued == inbox

RebuiltInbox == inFlight \cup inbox

(* The counter resumes at the highest claimed number.                      *)
RebuiltRuns ==
    IF completed = {} THEN runs' = runs
    ELSE runs' \in completed /\ \A n \in completed : n <= runs'

(* The error streak and the no-change streak are not read back.            *)
RestartResumes ==
    /\ Resumed /\ mode # "merged"
    /\ RebuiltRuns
    /\ status' = IF status = "paused" THEN "paused" ELSE "running"
    /\ reason' = IF status = "paused" THEN reason ELSE "none"
    /\ pc' = "boot"
    /\ inbox' = RebuiltInbox /\ inFlight' = {} /\ pending' = {} /\ hasInbox' = TRUE
    /\ idle' = 0 /\ errored' = 0
    /\ UNCHANGED <<kind, completed, log, limitVars, checkpointVars, retries, heard>>

(* The checkpoint says that the ticket is merged: no worker.               *)
RestartMerged ==
    /\ Resumed /\ mode = "merged"
    /\ Close("closed", "given_up")
    /\ errored' = 0
    /\ UNCHANGED <<kind, runVars, limitVars, checkpointVars, idle, retries, heard>>

(* A terminal record is read back, with an inbox.                          *)
RestartKeeps ==
    /\ ~Resumed
    /\ hasInbox' = TRUE /\ errored' = 0
    /\ UNCHANGED <<kind, status, reason, pc, runVars, limitVars, checkpointVars, idle,
                   retries, inbox, inFlight, pending, heard>>

Restart == RestartResumes \/ RestartMerged \/ RestartKeeps

-----------------------------------------------------------------------------
WorkerStep ==
    \/ BootContinues \/ BootPaused \/ WorkerCloses
    \/ RunErrs \/ WorkerRaises
    \/ \E m \in Modes : SetCheckpoint(m)
    \/ \E n \in Budgets \ {NoCap} : SelfUpdate(n)
    \/ RunQueued
    \/ \E reply \in Replies :
          \/ RunSpendsBudget(reply) \/ RunAwaitsOperator(reply)
          \/ RunPauses(reply) \/ RunStops(reply) \/ RunSleeps(reply)
          \/ EventRunEnds(reply)
    \/ TicketFiled
    \/ SleepEnds \/ QueuedWakes \/ EventArrives \/ EventTimesOut \/ PausedWakes

Next ==
    \/ WorkerStep
    \/ \E m \in Msg : Message(m)
    \/ ExternalClose \/ Reopen \/ Restart

Spec == Init /\ [][Next]_vars

-----------------------------------------------------------------------------
(* Type invariant.                                                         *)
TypeOK ==
    /\ kind \in {"periodic", "wait_for_event"}
    /\ status \in {"running", "sleeping", "paused", "closed", "failed"}
    /\ reason \in {"none", "paused", "given_up", "max_runs", "max_runs_escalated",
                   "no_change_pause_limit", "no_change_auto_stop"}
    /\ pc \in {"boot", "turn", "sleep", "queued", "event", "paused", "escalate", "done"}
    /\ runs \in Nat /\ completed \subseteq 1..LastRun /\ log \in Seq(1..LastRun)
    /\ maxRuns \in Nat \cup {NoCap} /\ stale \in 0..Window
    /\ exhausted \in Nat /\ pauses \in Nat
    /\ mode \in Modes /\ surfaced \in BOOLEAN
    /\ idle \in Nat /\ errored \in Nat /\ retries \in Nat
    /\ hasInbox \in BOOLEAN
    /\ inbox \subseteq Msg /\ inFlight \subseteq Msg /\ heard \subseteq Msg
    /\ pending \subseteq Msg \cup {Note}

(* No run number is executed twice, although reopen sets the counter back, *)
(* a restart rebuilds it, a retry starts the worker over and some runs     *)
(* count twice.                                                            *)
RunNumbersOnce == \A i, j \in 1..Len(log) : log[i] = log[j] => i = j

(* A message that was input of a completed turn is nowhere any more: no    *)
(* retry, restart or later run delivers it again.                          *)
HeardOnce == heard \cap (inbox \cup inFlight \cup pending) = {}

(* What the worker holds outside its inbox is also in the persisted        *)
(* in-flight buffer, so a restart in the middle of a wait or of a turn     *)
(* gives it back.                                                          *)
HeldIsPersisted == pending \subseteq inFlight \cup {Note}

(* A restart of a monitor that goes on loses none of the messages that     *)
(* were accepted for it and not heard yet.                                 *)
RestartKeepsMessages ==
    [][RestartResumes => (inbox \cup inFlight \cup pending) \ {Note} \subseteq inbox']_vars

(* A monitor that goes on is below every limit that would have ended it:   *)
(* errors in a row, relaunches, exhausted budgets across its reopenings,   *)
(* and pauses in a row, whichever of them restarts reset.                  *)
LimitsHold ==
    /\ Active => errored < ErrorThreshold \/ errored = 0
    /\ retries <= Retries
    /\ Escalation > 0 => exhausted < Escalation
    /\ PauseCap > 0 => pauses < PauseCap

(* A monitor that was closed for good, by its operator, its agent, the     *)
(* escalation or a failure, is not brought back by a restart or the        *)
(* watcher.                                                                *)
Ended == status = "failed" \/ (status = "closed" /\ reason \notin {"max_runs", "no_change_auto_stop"})

EndedStaysEnded == [][Ended => UNCHANGED <<status, reason, log>>]_vars
=============================================================================
