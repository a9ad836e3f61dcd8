------------------------- MODULE SubsessionLifecycle -------------------------
(***************************************************************************)
(* The life of a monitor subsession: the worker coroutine of worker.py,    *)
(* the waits of subsession_waits.py and worker_periodic.py, the background *)
(* watcher of watcher.py and the external closes, over the registry of     *)
(* SubsessionRegistry.                                                     *)
(*                                                                         *)
(* A step is the code between two awaits that really suspend.  A worker is *)
(* a task <<s, w>> whose pc names the await it is suspended in:            *)
(*   boot    building the agent in a thread                                *)
(*   check   _check_resume_status querying the mill                        *)
(*   turn    the agent's turn                                              *)
(*   sleep   the wait between runs (interval, queued or event wait)        *)
(*   paused  _paused_wait_loop waiting for its inbox                       *)
(*   poll    _paused_wait_loop querying the ticket state                   *)
(*   ending  finishing a turn that closed its monitor, or returning        *)
(***************************************************************************)
EXTENDS SubsessionRegistry

CONSTANT
    TracksPR      \* the monitors whose checkpoint names a pull request

ASSUME LifecycleConstants == TracksPR \subseteq Sub

VARIABLES
    pc,       \* where each task is suspended, "idle" when it does not exist
    pass,     \* the pass of the watcher: "mill" or "pr"
    todo,     \* what is left of the watcher's snapshot
    visit,    \* the entry the watcher is querying about, and on which branch
    merged    \* the tickets the mill reports in a merged-terminal state

watcherVars == <<pass, todo, visit>>
vars == <<status, reason, inboxes, mail, wake, seeded, dedupKeys, running, cancelled,
          pc, pass, todo, visit, merged>>

Task == Sub \X Slot
PC == {"idle", "boot", "check", "turn", "sleep", "paused", "poll", "ending"}
Branches == {"prereq", "state", "pr"}
NoVisit == <<NoSub, "state">>

Init ==
    /\ status = [s \in Sub |-> "none"]
    /\ reason = [s \in Sub |-> "none"]
    /\ inboxes = {} /\ mail = {} /\ wake = {} /\ seeded = {}
    /\ dedupKeys = [t \in Ticket |-> NoSub]
    /\ running = [s \in Sub |-> NoSlot]
    /\ cancelled = {}
    /\ pc = [s \in Sub |-> [w \in Slot |-> "idle"]]
    /\ pass = "pr" /\ todo = {} /\ visit = NoVisit
    /\ merged = {}

(* A task that still runs code: cancel() takes effect at the await the     *)
(* task is suspended in, so a cancelled task only unwinds.                 *)
Live(s, w) == pc[s][w] \notin {"idle", "ending"} /\ <<s, w>> \notin cancelled

Goto(s, w, l) == pc' = [pc EXCEPT ![s][w] = l]

(* create_task and attach_task                                             *)
StartWorker(s) ==
    \E w \in Slot :
        /\ pc[s][w] = "idle"
        /\ pc' = [pc EXCEPT ![s][w] = "boot"]
        /\ running' = [running EXCEPT ![s] = w]

-----------------------------------------------------------------------------
(* spawn_subsession once every admission check has passed (the limits are  *)
(* in SpawnAdmission): two dedup checks, create, create_task.              *)
Spawn(s) ==
    /\ status[s] = "none"
    /\ ~IsDedupKeyActive(TicketOf[s])
    /\ ActiveMonitorOf(TicketOf[s]) = {}
    /\ Create(s)
    /\ StartWorker(s)
    /\ UNCHANGED <<watcherVars, merged>>

-----------------------------------------------------------------------------
(* The worker.                                                             *)

(* The agent is built and the checkpoint seeded from the dedup key.        *)
Boot(s, w) ==
    /\ pc[s][w] = "boot" /\ Live(s, w)
    /\ seeded' = seeded \cup {s}
    /\ Goto(s, w, "check")
    /\ UNCHANGED <<status, reason, inboxes, mail, wake, dedupKeys, running, cancelled,
                   watcherVars, merged>>

\* Mutant: the loop head does not look at the status.
LoopTopAlways(s, w) == SetStatus(s, "running") /\ Goto(s, w, "turn")

(* The head of the worker's loop, reached with no await in between.        *)
LoopTop(s, w) ==
    IF Active(s)
    THEN status' = [status EXCEPT ![s] = "running"] /\ Goto(s, w, "turn")
    ELSE status' = status /\ Goto(s, w, "ending")

(* _check_resume_status lets the worker go on: a paused monitor goes back  *)
(* to its pause, any other to the loop.                                    *)
CheckContinues(s, w) ==
    /\ pc[s][w] = "check" /\ Live(s, w)
    /\ IF status[s] = "paused"
       THEN Goto(s, w, "paused") /\ status' = status
       ELSE LoopTop(s, w)
    /\ UNCHANGED <<reason, inboxes, mail, wake, seeded, dedupKeys, running, cancelled,
                   watcherVars, merged>>

(* The task returns; its done-callback pops _running[s], whichever task    *)
(* the entry refers to.                                                    *)
Return(s, w) ==
    /\ Goto(s, w, "idle")
    /\ running' = [running EXCEPT ![s] = NoSlot]

(* The ticket is terminal, unreachable or blocked again, or a tool the     *)
(* monitor needs is missing.                                               *)
CheckCloses(s, w) ==
    /\ pc[s][w] = "check" /\ Live(s, w)
    /\ \E r \in {"resolved", "given_up"} : MarkClosed(s, r)
    /\ Return(s, w)
    /\ UNCHANGED <<watcherVars, merged>>

(* The turn ends and the monitor waits for its next run.  A wait_for_event *)
(* worker is back at the loop head first, which notices a close.           *)
RunEnds(s, w) ==
    /\ pc[s][w] = "turn" /\ Live(s, w)
    /\ IF s \in EventDriven
       THEN SetStatus(s, "running") /\ Goto(s, w, IF Active(s) THEN "sleep" ELSE "ending")
       ELSE SetStatus(s, "sleeping") /\ Goto(s, w, "sleep")
    /\ UNCHANGED <<reason, inboxes, mail, wake, seeded, dedupKeys, running, cancelled,
                   watcherVars, merged>>

(* The agent calls complete_subsession or spawn_continuation: the record   *)
(* is closed while the turn goes on.                                       *)
RunCompletes(s, w) ==
    /\ pc[s][w] = "turn" /\ Live(s, w)
    /\ \E r \in {"resolved", "given_up"} : MarkClosed(s, r)
    /\ Goto(s, w, "ending")
    /\ UNCHANGED <<running, watcherVars, merged>>

(* The run budget or a no-change limit is reached after the turn.          *)
RunStops(s, w) ==
    /\ pc[s][w] = "turn" /\ Live(s, w)
    /\ \E r \in {"given_up", "max_runs"} :
          (r = "max_runs" => s \notin EventDriven) /\ MarkClosed(s, r)
    /\ Return(s, w)
    /\ UNCHANGED <<watcherVars, merged>>

(* Too many errored runs in a row, or an error the worker cannot retry.    *)
RunFails(s, w) ==
    /\ pc[s][w] = "turn" /\ Live(s, w)
    /\ Fail(s)
    /\ Return(s, w)
    /\ UNCHANGED <<watcherVars, merged>>

(* The idle guard pauses a periodic monitor; its worker stays alive.       *)
RunPauses(s, w) ==
    /\ pc[s][w] = "turn" /\ Live(s, w)
    /\ s \notin EventDriven
    /\ IF Active(s)
       THEN MarkPaused(s) /\ Goto(s, w, "paused")
       ELSE UNCHANGED <<status, reason>> /\ Goto(s, w, "ending")
    /\ UNCHANGED <<inboxes, mail, wake, seeded, dedupKeys, running, cancelled,
                   watcherVars, merged>>

(* A message, an event or the timeout ends the wait.  The event wait looks *)
(* at the status before it drains.                                         *)
SleepEnds(s, w) ==
    /\ pc[s][w] = "sleep" /\ Live(s, w)
    /\ IF Active(s) \/ s \notin EventDriven THEN Drain(s) ELSE UNCHANGED <<mail, wake>>
    /\ LoopTop(s, w)
    /\ UNCHANGED <<reason, inboxes, seeded, dedupKeys, running, cancelled,
                   watcherVars, merged>>

\* Mutant: the auto-resume forgets to drain the inbox.
PausedResumesUndrained(s, w) ==
    /\ pc[s][w] = "paused" /\ Live(s, w)
    /\ status[s] = "paused"
    /\ Resume(s)
    /\ Goto(s, w, "turn")
    /\ UNCHANGED <<inboxes, mail, wake, seeded, dedupKeys, running, cancelled, watcherVars, merged>>

(* _paused_wait_loop: a message or the auto-resume timeout.                *)
PausedResumes(s, w) ==
    /\ pc[s][w] = "paused" /\ Live(s, w)
    /\ status[s] = "paused"
    /\ Drain(s)
    /\ Resume(s)
    /\ Goto(s, w, "turn")
    /\ UNCHANGED <<inboxes, seeded, dedupKeys, running, cancelled, watcherVars, merged>>

(* Its wait timed out, or was woken by an event with no message behind it: *)
(* the ticket state is polled.                                             *)
PausedPolls(s, w) ==
    /\ pc[s][w] = "paused" /\ Live(s, w)
    /\ status[s] = "paused" /\ s \notin mail
    /\ wake' = wake \ {s}
    /\ Goto(s, w, "poll")
    /\ UNCHANGED <<status, reason, inboxes, mail, seeded, dedupKeys, running, cancelled,
                   watcherVars, merged>>

(* The ticket did not move.                                                *)
PollUnchanged(s, w) ==
    /\ pc[s][w] = "poll" /\ Live(s, w)
    /\ Goto(s, w, "paused")
    /\ UNCHANGED <<registryVars, watcherVars, merged>>

(* The ticket moved: resume, unless another path changed the status while  *)
(* the answer was on its way.                                              *)
PollMoved(s, w) ==
    /\ pc[s][w] = "poll" /\ Live(s, w)
    /\ IF status[s] = "paused"
       THEN Resume(s) /\ Goto(s, w, "turn")
       ELSE UNCHANGED <<status, reason>> /\ Goto(s, w, "ending")
    /\ UNCHANGED <<inboxes, mail, wake, seeded, dedupKeys, running, cancelled,
                   watcherVars, merged>>

\* Mutant: any wake-up without a message ends the loop.
PausedLeavesAnyway(s, w) ==
    /\ pc[s][w] = "paused" /\ Live(s, w)
    /\ Goto(s, w, "ending")
    /\ UNCHANGED <<registryVars, watcherVars, merged>>

(* The paused worker finds that its monitor is no longer paused.           *)
PausedLeaves(s, w) ==
    /\ pc[s][w] = "paused" /\ Live(s, w)
    /\ status[s] # "paused"
    /\ Goto(s, w, "ending")
    /\ UNCHANGED <<registryVars, watcherVars, merged>>

(* A cancelled task has unwound, or the closing turn has ended.            *)
TaskEnds(s, w) ==
    /\ pc[s][w] # "idle" /\ ~Live(s, w)
    /\ Return(s, w)
    /\ cancelled' = cancelled \ {<<s, w>>}
    /\ UNCHANGED <<status, reason, inboxes, mail, wake, seeded, dedupKeys,
                   watcherVars, merged>>

WorkerStep(s, w) ==
    \/ Boot(s, w) \/ CheckContinues(s, w) \/ CheckCloses(s, w)
    \/ RunEnds(s, w) \/ RunCompletes(s, w) \/ RunStops(s, w)
    \/ RunFails(s, w) \/ RunPauses(s, w)
    \/ SleepEnds(s, w)
    \/ PausedResumes(s, w) \/ PausedPolls(s, w) \/ PausedLeaves(s, w)
    \/ PollUnchanged(s, w) \/ PollMoved(s, w)
    \/ TaskEnds(s, w)

-----------------------------------------------------------------------------
(* The callers outside the worker: the close tool, the close route, the    *)
(* close of the whole conversation; message_subsession and the event feed. *)
ExternalClose(s) ==
    /\ CancelAndClose(s, "given_up")
    /\ UNCHANGED <<running, pc, watcherVars, merged>>

Message(s) ==
    /\ CanEnqueue(s)
    /\ Enqueue(s)
    /\ UNCHANGED <<status, reason, inboxes, seeded, dedupKeys, running, cancelled,
                   pc, watcherVars, merged>>

(* Only the prerequisites are told apart by their state.                   *)
Merge(t) ==
    /\ t \notin merged /\ \E s \in Sub : DependsOn[s] = t
    /\ merged' = merged \cup {t}
    /\ UNCHANGED <<registryVars, pc, watcherVars>>

-----------------------------------------------------------------------------
(* The watcher: two passes over a snapshot of the paused monitors, each    *)
(* entry examined, queried about, then acted on with the answer.           *)
Scan ==
    /\ todo = {} /\ visit = NoVisit
    /\ pass' = IF pass = "mill" THEN "pr" ELSE "mill"
    /\ todo' = FindPaused
    /\ todo' # {}
    /\ UNCHANGED <<registryVars, pc, visit, merged>>

BranchOf(s) ==
    IF pass = "pr" THEN "pr"
    ELSE IF reason[s] = "waiting_for_prerequisite" /\ DependsOn[s] # NoTicket THEN "prereq"
    ELSE "state"

(* An entry without a ticket (or a pull request) is passed over.           *)
Visit(s) ==
    /\ visit = NoVisit /\ s \in todo
    /\ todo' = todo \ {s}
    /\ visit' = IF s \in (IF pass = "pr" THEN TracksPR ELSE seeded)
                THEN <<s, BranchOf(s)>> ELSE NoVisit
    /\ UNCHANGED <<registryVars, pc, pass, merged>>

(* The query fails, or its answer calls for nothing.                       *)
NothingToDo ==
    /\ visit # NoVisit
    /\ visit' = NoVisit
    /\ UNCHANGED <<registryVars, pc, pass, todo, merged>>

(* _resume_paused_monitor and _resume_merged_pr_monitor                    *)
ResumeMonitor(s) ==
    IF CanReopen(s)
    THEN Reopen(s) /\ StartWorker(s)
    ELSE UNCHANGED <<registryVars, pc>>

PrerequisiteMerged(s) ==
    /\ visit = <<s, "prereq">> /\ DependsOn[s] \in merged
    /\ ResumeMonitor(s)
    /\ visit' = NoVisit
    /\ UNCHANGED <<pass, todo, merged>>

(* The ticket left its last known state, or its pull request was closed    *)
(* unmerged: wake a paused monitor, reopen a closed one.                   *)
TicketMoved(s) ==
    /\ visit \in {<<s, "state">>, <<s, "pr">>}
    /\ IF status[s] = "paused" /\ CanEnqueue(s)
       THEN /\ Enqueue(s)
            /\ UNCHANGED <<status, reason, inboxes, seeded, dedupKeys, running, cancelled, pc>>
       ELSE ResumeMonitor(s)
    /\ visit' = NoVisit
    /\ UNCHANGED <<pass, todo, merged>>

PullRequestMerged(s) ==
    /\ visit = <<s, "pr">>
    /\ ResumeMonitor(s)
    /\ visit' = NoVisit
    /\ UNCHANGED <<pass, todo, merged>>

(* The mill answered 404 three times: close, or relabel a closed record.   *)
TicketDeleted(s) ==
    /\ visit = <<s, "state">>
    /\ IF Active(s)
       THEN CloseAndPublish(s, "closed", "given_up", FALSE)
       ELSE /\ reason' = [reason EXCEPT ![s] = "given_up"]
            /\ UNCHANGED <<status, inboxes, mail, wake, seeded, dedupKeys, cancelled>>
    /\ visit' = NoVisit
    /\ UNCHANGED <<running, pc, pass, todo, merged>>

WatcherStep ==
    \/ Scan
    \/ NothingToDo
    \/ \E s \in Sub :
          \/ Visit(s) \/ PrerequisiteMerged(s) \/ TicketMoved(s)
          \/ PullRequestMerged(s) \/ TicketDeleted(s)

-----------------------------------------------------------------------------
Next ==
    \/ \E s \in Sub : Spawn(s) \/ ExternalClose(s) \/ Message(s)
    \/ \E s \in Sub, w \in Slot : WorkerStep(s, w)
    \/ \E t \in Ticket : Merge(t)
    \/ WatcherStep

Spec == Init /\ [][Next]_vars

(* Every await of a worker returns: turns and queries have timeouts, the   *)
(* waits have a next run.  The watcher never stops scanning, and a query   *)
(* about a merged prerequisite is answered infinitely often.  A paused     *)
(* worker whose wake event is set runs in the same round of the event      *)
(* loop, so a watcher that keeps reopening the monitor does not starve it. *)
Fairness ==
    /\ \A s \in Sub, w \in Slot : WF_vars(WorkerStep(s, w)) /\ SF_vars(PausedResumes(s, w))
    /\ WF_vars(WatcherStep)
    /\ \A s \in Sub : SF_vars(PrerequisiteMerged(s))

FairSpec == Spec /\ Fairness

-----------------------------------------------------------------------------
(* Type invariant.                                                         *)
TypeOK ==
    /\ status \in [Sub -> Statuses] /\ reason \in [Sub -> Reasons]
    /\ inboxes \subseteq Sub /\ mail \subseteq Sub /\ wake \subseteq Sub /\ seeded \subseteq Sub
    /\ dedupKeys \in [Ticket -> Sub \cup {NoSub}]
    /\ running \in [Sub -> Slot \cup {NoSlot}]
    /\ cancelled \subseteq Task
    /\ pc \in [Sub -> [Slot -> PC]]
    /\ pass \in {"mill", "pr"} /\ todo \subseteq Sub
    /\ visit \in (Sub \cup {NoSub}) \X Branches
    /\ merged \subseteq Ticket

(* No monitor is stranded: every active record has a task that still runs  *)
(* code for it, and unless it is paused that task is not one that will     *)
(* leave the pause loop. Reopening, waking, cancelling and the two ways out of   *)
(* the pause loop all have to agree for this to hold.                      *)
HasWorker(s) ==
    \E w \in Slot : Live(s, w) /\ (status[s] # "paused" => pc[s][w] \notin {"paused", "poll"})

ActiveHasWorker == \A s \in Sub : Active(s) => HasWorker(s)

(* A dedup key refers to an active monitor of its ticket, whatever mix of  *)
(* closes, cascades and reopenings came before: spawn relies on it to      *)
(* refuse duplicates without refusing a first monitor.                     *)
KeysReferToActive ==
    \A t \in Ticket : dedupKeys[t] # NoSub =>
        Active(dedupKeys[t]) /\ TicketOf[dedupKeys[t]] = t

(* No message is stranded: one is queued only for an active monitor with   *)
(* an inbox, and with the wake event set, so no wait can sleep through it. *)
NoLostWakeup == \A s \in mail : Active(s) /\ s \in inboxes /\ s \in wake

(* A record whose close no ticket change can undo (a failure, an operator  *)
(* close, a resolved ticket) stays terminal, whichever late step of a      *)
(* worker or of the watcher still refers to it.                            *)
Final(s) == status[s] = "failed" \/ (status[s] = "closed" /\ reason[s] \notin Reopenable)

FinalStaysFinal == [][\A s \in Sub : Final(s) => Final(s)']_vars

(* No agent turn starts on a terminal record: a worker that was not        *)
(* cancelled by the close stops before its next run.                       *)
NoTurnAfterClose ==
    [][\A s \in Sub, w \in Slot :
          pc[s][w] # "turn" /\ pc'[s][w] = "turn" => Active(s)']_vars

(* When a monitor closes before its ticket is resolved, the monitors that  *)
(* wait for that ticket stop with it, and so do those that wait for them.  *)
DependentsStop ==
    [][\A c, d \in Sub :
          /\ Active(c) /\ status'[c] \in {"closed", "failed"}
          /\ reason'[c] \notin TicketTerminal /\ c \in seeded
          /\ c # d /\ DependsOn[d] = TicketOf[c] /\ status[d] # "paused"
          => ~Active(d)']_vars

(* A message queued for a monitor is read by its worker, or the monitor    *)
(* ends.                                                                   *)
MessageTaken == \A s \in Sub : s \in mail ~> s \notin mail

(* A monitor stopped for its prerequisite is reopened once the watcher can *)
(* learn that the prerequisite was merged.                                 *)
WaitsForMerged(s) ==
    /\ status[s] = "closed" /\ reason[s] = "waiting_for_prerequisite"
    /\ DependsOn[s] \in merged

PrerequisiteReopens == \A s \in Sub : WaitsForMerged(s) /\ s \in seeded ~> ~WaitsForMerged(s)
=============================================================================
