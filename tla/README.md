# TLA+ models of robotsix-chat

`robotsix-chat` is a chat server: a browser talks to an LLM agent over HTTP, and the agent starts
background *subsessions* (one-shot tasks, periodic monitors of mill tickets, event-driven monitors,
side chats) whose outcomes come back into the conversation. Everything runs in one asyncio loop; agents
are built, and files written, in threads. The program's hard part is not its arithmetic but the many
coroutines that read and change the same records between awaits, and what a restart finds of them. That
is what these modules model.

Paths below are relative to `src/src/robotsix_chat/`; `PROJECT.json` gives the lines of every definition.

## 1. Inventory

| Component | State it keeps | Operations | Hard behaviour | What makes it correct | Module |
| --- | --- | --- | --- | --- | --- |
| Subsession registry (`subsessions/registry*.py`, `models.py`) | records, statuses, close reasons, inboxes, wake events, dedup keys, running tasks | create, set_status, enqueue, drain, close cascade, fail, pause, resume, reopen, claim_run | atomic operations, but every caller acts on what it read before an await | terminal stays terminal, keys and inboxes agree with statuses, a close reaches the dependents | `SubsessionRegistry` |
| Worker (`worker*.py`, `subsession_waits.py`, `turn_runner.py`) | one coroutine per record, the carried-over input | boot, resume check, turn, interval / event / pause waits, retries | cancelled at any await; another path closes, pauses or reopens its record meanwhile | an active record has a worker, no turn on a closed one, no message slept through | `SubsessionLifecycle` |
| Run accounting of a monitor (`worker.py`, `worker_periodic.py`, `subsession_waits.py`, `resume.py`) | run counter and claimed run numbers, run budget, error / no-change / pause / exhaustion counts, the messages in its hands | claim a run, turn, limits, retry, wait, reopen, restart | counters kept in five places, some of which a reopening, a retry or a restart resets | no run twice, no message lost or heard twice, no limit overrun | `MonitorRuns` |
| Paused-monitor watcher (`watcher.py`) | a snapshot of paused monitors | wake, reopen, close, relabel | acts on a snapshot read before several queries | waiting dependents are reopened, final records stay final | `SubsessionLifecycle` |
| Parent delivery (`delivery.py`) | pending batches, hold timers, depth, surfaced ids | deliver, schedule, flush, react, record passively | timer, user request and new outcome race for one batch; reactions chain | an outcome is recorded once, the chain is bounded | `ParentDelivery`, `OutcomeDelivery` |
| Spawn admission and slot budget (`worker.py`, `slot_budget*.py`, `registry_index.py`) | per-owner queues, counts from the registry | admit, queue, reclaim a slot, drain the queue | synchronous calls that re-enter: a close drains a queue inside the spawn that made it | the limits hold, a queued spawn is not stranded, the queue is served in order | `SpawnAdmission` |
| Startup resume, registry file (`resume.py`, `registry_store.py`) | the JSON file | load, restore each record, persist | each restored record rewrites the file; a kill may come between two writes | what was live comes back once, what was closed does not, messages survive | `StartupResume` |
| Chat requests (`routes/chat.py`: RunSerializer, MessageCoalescer; `idempotency.py`) | locks, batches, processing flags, replies by id | submit, cancel, process, retry, replay | cancel against a processor that sleeps; several processors of a session; two lock keys | every message answered once, a turn is recorded on the history it read | `ChatTurns`, `ChatPromise` |
| Event bus (`chat/events.py`) | subscribers, in-flight turns | begin, append, end a turn; subscribe | a tab that attaches in the middle of a turn | it sees the whole turn | `ChatTurns` |
| Lifecycle drain (`lifecycle/`) | counters of turns in flight | gate, defer, restart | turns that start while it waits | a restart is gated by the turns that are counted | `ChatTurns` |
| Conversation store (`chat/conversation.py`) and its compaction (`evergoing/scheduler.py`) | sessions, owners, windows of turns, summaries, the file | begin, record, compact, delete, close, evict, restart | a summary made while turns are recorded and sessions go | what the agent does not see is in the summary; memory, lists and file agree | `ConversationStore` |
| Periodic scheduler (`periodic/scheduler.py`) | last firing, last and recent sessions, runs in progress, its file | tick, fire, run, prune, carry over, reload, restart | a run, the operator's turn and a firing in the same sessions; a kill in the middle of a firing | no overlap, nothing fired twice, decisions kept, a due preset fires | `PeriodicScheduler` |
| Mill event routing (`routes/mill_events.py`, `registry_tickets.py`) | none of its own | webhook to inbox | an event that arrives in the middle of a turn | the wait's timeout makes up for it | as a message of the monitor |

The rest (HTTP tools, repository tools, memory, prompts, configuration, authentication, UI routes) is I/O,
formatting or sequential code; section 7 and `PROJECT.json` give the reason for each part.

How they interact: a tool call in an agent turn spawns, messages or closes subsessions through the registry;
a worker reports through parent delivery; delivery starts a turn of the main agent under a lock of the
serializer that the chat requests use, and that turn may spawn again. The watcher and the mill webhooks wake
workers by their inbox. A `/chat` request flushes the pending outcomes of its conversation, then asks for its
lock. The periodic scheduler opens sessions and sends them turns through the coalescer, the compaction reads
and rewrites the sessions beside the turns, and a restart rebuilds all of it from three files.

The models are separate because the code's parts meet in few places, and each meeting is in the model that it
matters to: the inbox of a worker in `SubsessionLifecycle`, the reactions that compete for a lock in both
`ParentDelivery` and `ChatTurns`, the restart of a monitor in `MonitorRuns` (its counters) and in
`StartupResume` (which records come back), the busy flag of the coalescer in `ChatTurns` (how it goes wrong)
and in `PeriodicScheduler` (what follows from it).

## 2. Modules

### `SubsessionRegistry` and `SubsessionLifecycle`

`SubsessionRegistry` holds the registry's state and its operations as effects: no registry operation awaits,
so each of them is atomic. `Create`, `SetStatus`, `Enqueue`, `Drain`, `CloseAndPublish` (with
`_pause_dependents` as the least set closed under the cascade), `MarkClosed`, `Fail`, `CancelAndClose`,
`MarkPaused`, `Resume`, `Reopen` and `FindPaused` are the methods of those names.

`SubsessionLifecycle` adds the actors. A worker is a task `<<s, w>>`; a record may get more than one when it
is reopened, so there are `Slot`s. `pc[s][w]` names the await a task is suspended in, and an action is the
code from one await to the next. Cancelling a task marks it; it then only unwinds (`TaskEnds`), and its
done-callback pops `_running[s]` whichever task is registered there. The watcher takes a snapshot (`Scan`),
looks at an entry (`Visit`), and acts on the answer of the query in a later step, when the record may have
changed. Only `periodic` and `wait_for_event` monitors are modelled; tasks and side chats share the registry
code but not the waits. Close reasons are grouped by what the code does with them.

### `OutcomeDelivery` and `ParentDelivery`

`OutcomeDelivery` is the promise made to a conversation: a report accepted for it is recorded in its history
once. `ParentDelivery` is the implementation: `Deliver` is `deliver_summary` together with the close or pause
it reports (there is no await between them), with the three suppressions and the routing to a parent
subsession; a monitor reports a pause, a request for the operator, its completion or failure, or that it stopped without news; `Schedule` is `_schedule_reaction`; a batch is drained by its timer (`TimerFires`) or by a user's
request (`Arrive`), waits for the conversation's lock and is recorded (`ReactionEnds`). The lock is the
queue of its holder and its waiters: `asyncio.Lock` serves them in order. `PassiveStarts` is a step
of its own because a passive record is made by a task that runs later. `ImplementsPromise` states the
refinement: the accepted reports are those in the batch, in a passive task, or in a turn.

The end of a turn that fails is that of one that succeeds: both record the outcomes. A request of the user
waits for the batch it flushed, then for the coalescer, which is an external delay here.

### `MonitorRuns`

One monitor, its operator, and restarts of the process, where `SubsessionLifecycle` leaves the counters out. A step
is again the code between two awaits; `pc` names the await. What a restart reads back is persisted
before the await that ends the step, so one copy of the record stands for the memory and the file. The
variables are the fields of `SubsessionInfo` (`runs`, `completed`, `maxRuns`, `errored`, `idle`, `retries`),
the keys of its checkpoint that the limits count (`stale` for `recent_progress_flags`, `exhausted`, `pauses`,
`mode`, `surfaced`), the inbox, the persisted in-flight buffer, and the worker's next input (`pending`). Two
histories serve the properties: `log`, the numbers of the turns started, and `heard`, the messages of completed turns.

`LoopHead` is the head of `_subsession_worker`'s loop up to the turn or a wait; it includes the numbers that
`claim_run` refuses (`NextUnclaimed`). A turn ends by one of the branches of `_run_periodic_turn` in their order in the
code: `RunQueued`, `RunSpendsBudget` (after `BudgetAfter`, the adaptive extension), `RunAwaitsOperator`,
`RunPauses`, `RunStops`, `RunSleeps`; or by `EventRunEnds`, `RunErrs`, `WorkerRaises`, `WorkerCloses`. A wait ends by
`WakesWith`. `Restart` is `_resume_entry` for this record: resumed, closed because its ticket is merged, or kept.

Times are left out: how long an approval has been due is replaced by the choice of its branch, and a wait may end at
any moment. The per-run turn budget, which closes a monitor like `WorkerCloses`, and the wording of inputs are left out as well.

### `SpawnAdmission`

`spawn_subsession` never awaits between its first guard and the record, yet it is not one step: it may close
another record, the close callback drains the owner's queue, the drain calls `spawn_subsession`, and a close
cascades to dependents whose closes drain again. The module keeps the stack of calls: `stack` holds a frame
per call in progress, named for what remains of it (`admit`, `capacity`, `recheck`, `create` of a spawn,
`drain`, the cascade's `dependents` and the loop `each`). A step runs the top frame up to the next call. Everything
else in the process (`Elsewhere`) runs only on an empty stack. `status` follows a request until it is a record,
and the record until it ends. `AtBudget` counts paused monitors, `RunningOf` does not, as in `registry_index.py`.
`upsets` is a history of the events after which a guarantee is not given.

### `StartupResume`

`file` is the registry file, `mem` the records in memory. The hook takes the entries of the file (`StartHook`)
in order; for each, `CloseResolved`, `KeepEntry` (closed records are kept as they were), `RespawnEntry` or
`DropEntry`, the spawn that raises and loses the entry. A respawned record passes through `RestoreInbox`, `RestoreTranscript` and `RestorePause`, each
a step because the spawn has already written the file without them. `Kill` is possible between any two of
these steps. Before the restart the records get messages, run turns, pause and close. A message is in the inbox, in the in-flight buffer,
in the part of the transcript that is newer than the last turn (`text`), or quoted in the prompt (`note`).

### `ChatPromise` and `ChatTurns`

`ChatPromise` is the promise made to whoever posts messages, without batches, processors, locks, streams, kept replies and restarts:
its state is the session of each message (`home`), what the client has of it (`frame`) and the turns recorded (`history`). A message is
posted, and gets one last frame, by `Cancel` or by `Answer`; at that point the turn that ends it is in the history of its own
session, and a history grows by turns that are new to it (`Record`, `Answer`). The mapping (`ChatTurns_proofs`) takes `history` from
`hist`, `home` from the session that the cast gives a message, and `frame` from `answer`, of which the client has nothing that names a
turn before the last frame (`Seen`).

In `ChatTurns` a processor (`_process_batch`) is named by the message that created it. It sleeps, takes the batch (`Wake`),
waits in the `line` of its lock key, and then replays a known answer (`Replay`) or runs a turn: `Begin`,
`Token`, `Retry`, `RecordThenTitle`/`Titled`, `Finish`; its done-callback is the step `Cleared`. Reactions and the
continuation share the locks and the bus (`Arrive`, `FinishOther`). The operator submits, cancels one or all
messages, and subscribes; a turn may ask for a restart (`SelfRestart`, `Drained`, `DrainTimeout`). `current` is the bus's copy of the turn, `heard` what the
subscriber has got of it. Which message has which session, lock key and id is chosen in the initial state (`cast`).

### `ConversationStore`

A session is its window of turns, `compacted_turn_index`, the summary (the set of turns it was made from), and
the counters the compaction tests. `BeginTurn` … `Record` are a turn, `RecordReaction` one of the delivery, `Create`, `Delete` and
`CloseSession` the routes. `Evict` runs wherever `_evict_overflow` does. `file` is what the last `_persist` wrote,
`Restart` what `_load_current_format` reads back.

A visit of the compaction to a session is `StartFold` … `FinishFold` (or `FoldFails`); when the session hides turns and has no
summary, the visit begins with a repair, `StartRepair` … `FinishRepair` (or `RepairFails`), and goes on to the fold whatever became
of it (`GoOn`). During a repair the session may be deleted or evicted and made again: the visit still reads the
session object it began with for one of its tests and for the boundary, and the store for the rest (`held`, `FoldOf`). What the summariser is
asked about is what the agent sees (`Folded`): after a failed repair, without the hidden turns. Its answer (`Texts`) tells of any of
these turns but none of others: `generate_idle_summary` leaves out windows that fail (`summarize.py:250`, 290), drops
the oldest windows beyond `MAX_CHUNKS` (257), and cuts a long turn, of which the summary before is one, at 2000 characters (123). The
history `lost` collects the turns that a summary covers and does not tell of: left out of its text, or hidden by a failed repair.

### `PeriodicScheduler`

A tick fires all presets that are due and not busy, one after the other, in one step, as nothing in it waits. `Firings` is `fire` cut at
the points at which a kill can come: after the new session, the file, the hand-over of decisions
(`reassign_live_user_chats`) and the close of the run before. A run starts its turn later (`StartRun`), ends (`RunEnds`)
or fails (`RunFails`). The operator's turns, closes, deletions and manual firings, and the reload of the
definitions go on beside it. A turn of the operator marks its session when it is submitted (`OperatorTurn`) and opens it when it
begins, after the debounce and the lock (`OperatorTurnBegins`); the firing, the close and the prune may come in between.

### Proof modules

`SubsessionLifecycle_proofs`, `ParentDelivery_proofs`, `MonitorRuns_proofs`, `SpawnAdmission_proofs`,
`StartupResume_proofs`, `ConversationStore_proofs`, `ChatTurns_proofs` and `PeriodicScheduler_proofs`, see section 5.

## 3. Runs

| Run | Question | Result |
| --- | --- | --- |
| `solo` | one monitor, two task slots, a tracked pull request: can the interleavings of its workers, the watcher, closes and messages strand the record, run a turn after a close, or strand a message? | no |
| `chain` | a prerequisite and its dependent (periodic): is the dependent reopened after the merge, do final records stay so, does the cascade reach it, does the dedup table follow? | yes |
| `delivery` | a monitor that reports and its child, depth limit 2: is each accepted outcome recorded once and eventually, the chain of reactions bounded, the user's turn informed, the child's report kept when its periodic parent ends? | yes |
| `runs` | one monitor of either kind, six runs, a message, every limit small: can errors, retries, limits, reopenings and restarts repeat a run, repeat or lose a message over a restart, or overrun a limit? | no |
| `slots` | six requests of two conversations, two slots, three settings of the caps: do the limits, the keys and the queue survive the nested calls, and do the calls return? | yes |
| `restart` | three records in three mixes of kinds, a message, two kills anywhere: what comes back, what stays closed, which monitors that the hook put to sleep still sleep, what happens to the message? | holds, but for the exceptions below |
| `turns` | three turns in five mixes: is every message in one place and answered, does a turn record on what it read, is an id run once, does a tab see the whole turn, is a restart gated? | yes |
| `turns_restart_cuts` | what the drain gate is for: a restart cuts no other turn | violated |
| `store` | a session that is compacted and killed, one without its summary whose repair may fail, three sessions under a cap of two: is every turn that the agent does not see in the summary or among those that the summariser left out, do lists, memory and file agree, and does a deleted session stay away? | yes |
| `store_window_slides` | a summary saw every turn that it covers | violated |
| `periodic` | a preset with a decision and a monitor, and two presets of which one is anchored: overlap, cadence, decisions, and that a due preset fires | holds |
| `periodic_anchor_missed` | an anchored preset comes at its anchor or at a point of its grid | violated |

What the violations show (the findings of `PROJECT.json`):

- `turns_restart_cuts`: `is_busy` is a set of sessions, and the done-callback of *any* processor of a session removes
  it. A message is cancelled while another one of its session is answered; its processor ends and unmarks the session;
  a restart asked for by another session is then issued in the middle of the answer. `GatedRestart` states what
  the gate does guarantee.
- `store_window_slides`: the boundary of a summary is an index into the turns as they were when the summary was asked
  for. When the window is full and a turn is recorded meanwhile, the window moves under the index, and a turn is
  hidden that the summary never saw. `ViewIsWhole` holds for all sessions to which this has not happened.
- `periodic_anchor_missed`: `_next_run` of a preset that never fired is the first point of the grid that is not past,
  computed at each tick; the preset is due only if a tick reads exactly that instant.

### More divergences

These follow from the models and have no run of their own.

Registry and watcher:

- `reopen` does not recreate the inbox, so a reopened monitor is active and refuses messages (`registry_lifecycle.py:221`
  against `models.py:90`).
- The pull-request pass of the watcher reopens a paused monitor that has a live worker (`watcher.py:1457` against `:342`).
- `reopen` neither checks nor takes back the dedup key that the close dropped, so a reopened monitor may run beside one
  spawned for its ticket meanwhile (`docs/periodic-checks.md:28` says the key prevents that).
- A periodic dependent closed before its agent was built has no checkpoint, so the watcher never reopens it:
  `PrerequisiteReopens` is therefore stated for seeded monitors.
- The done-callback of an old worker unregisters the new one (`registry.py:309`): a later external close does not cancel
  it, and it runs on to its next loop head.
- An event of the mill that comes while no wait is registered (during a turn or the silent check) is dropped; the
  timeout of the wait makes up for it, unless the ticket is back in the state the monitor knows.

Delivery:

- A nested report in the inbox of a parent that ends before reading it is lost (`delivery.py:640` against `:660`);
  `NestedReportsAreKept` is stated for periodic parents.
- `_consumed_outcome_ids` holds subsession ids, not outcome ids, so the next report of a monitor whose pause was
  surfaced is dropped, a request for the operator included (`delivery.py:715`).
- A completion is suppressed because another monitor of the ticket closed as completed (`registry_tickets.py:300`),
  although the report of that monitor may itself have been dropped.
- Outcomes held for a batch are in memory while the close is already on disk: a restart within the hold loses them.

Run accounting:

- `reopen` resets `runs` but not `completed_runs`: `claim_run` refuses each number of the old budget, the worker counts the refusals, and
  the monitor has one run before it reaches `max_runs` again (`registry_lifecycle.py:267`).
- The error and no-change streaks are persisted and not read back (`resume.py:405`).
- The input of a run that fails is overwritten when the monitor's sleep ends, or not handed to the worker that the
  retry starts. It survives in the in-flight buffer until the next completed run clears that; only a restart in between
  gives it back (`worker.py:1222`).
- `set_checkpoint` preserves neither `max_runs_exhausted_count` nor `operator_decision_surfaced` (`registry.py:700`).
- A wait-for-event run that fails runs again at once with the same input; the comment (`worker.py:939`) expects the
  event wait.
- Runs that end in an error or in the queued wait are not tested against `max_runs`, and a run that surfaces an
  approval counts twice.
- The escalation ticket is filed before the close is recorded: a restart in between files a second one
  (`worker_periodic.py:613`).

Admission:

- A spawn may take the slot of a paused monitor (closing it) and then be refused by a cap, by one of the later checks, or deduplicated: a
  monitor has ended for nothing, and the freed slot is not offered to the queue. `NoIdleSlot` excepts these conversations.
- A drain inside a spawn fills the slot that the spawn was given, and the conversation is over its budget
  (`worker.py:297` against `docs/configuration.md:486`); `WithinLimits` excepts exactly this.
- The dict put in the queue has no `anchor_time` and no inbox (`worker.py:306`).

Startup:

- A paused periodic monitor of a resolved dependency and a paused `wait_for_event` come back running, not paused (`resume.py:880` against `:852`).
- The notice to the conversation says nothing of an entry that was lost because its spawn raised.
- A message to a chat that is still in its inbox is also quoted in the prompt of its first turn: it is heard twice.
- The file is read once, and each spawn of the hook writes it with the records restored so far. A kill in the hook loses the entries still
  to come: the next start does not find them (`resume.py:869` against `docs/periodic-checks.md:516`). `LiveComesBack` is stated for the
  entries of the file that a start began from, `MailSurvives` for records that are live.
- A paused monitor is restored by two writes, its spawn and its pause (`resume.py:420-428`). A kill between them leaves it active in the
  file, and the next start runs it, against `docs/periodic-checks.md:522` ("its `PAUSED` state is persisted; the resume hook re-spawns the
  worker and immediately returns it to the paused wait loop"). `PausedStaysPaused` excepts this kill and no other: `asleep` holds
  the records whose pause nobody has taken back, and that kill removes the monitor at hand from it.
- The inbox and the transcript of a chat are restored after its spawn was written without them (`resume.py:587`): a kill in between loses
  its messages, and the next start strips the note that quoted them. `MailSurvives` excepts chats once the hook has been killed.

Chat turns:

- When the first message of a batch was answered before, its old reply is given to all messages of the batch, and the
  others are never run (`chat.py:395`).
- The turn of the continuation is not counted by the drain (`cli.py:661`).
- A shutdown sends no last frame to the messages in progress.

Conversation store:

- A failed repair of a missing summary is never made up for, although the scheduler logs "will retry next pass" (`evergoing/scheduler.py:242-247`):
  the same visit folds what the agent sees, which leaves out the hidden turns, and as the session has a summary then, no later visit repairs it.
- A summary need not tell of all it covers, see `Texts` above. The summary before is the first turn of what is summarised and so the
  first to be cut or dropped, although the comment says that it "is folded into the new one naturally" (`evergoing/scheduler.py:164-168`).
- `ViewIsWhole` and `NothingForgotten` except the turns in `lost` for these two reasons, and `ViewIsWhole` the sessions in `torn` for the next and for
  `store_window_slides`. What they say is that nothing else, no slide of the window, deletion, eviction, reaction, kill or failed pass, loses a turn.
- A summary of a session deleted meanwhile is stored on a session made again under the same id (`torn` in the model).
- After a repair the visit takes the boundary of the fold from the session object it began with, which the store may have dropped and replaced.
- The eviction leaves the owner's `active_session_id` pointing to the evicted session.
- The order of use is not in the file: after a restart another session may be evicted.

Periodic scheduler:

- The end of a run closes the session in which a turn of the operator runs; a decision asked there is
  pruned away by a later firing (`lost` in the model). A turn that still waits opens the session again when it begins.
- A kill between the file and the close leaves the session of the run before open for ever; one before the file
  leaves an empty session.
- A run that was killed leaves no report, and its preset fires again only after its interval.
- A preset that is switched off keeps its last session open.

### Bounds

Deadlock is not checked in any run: when every monitor is closed, every report made or every message answered, the
system really may stop.

- `solo`: two slots are enough to see a second worker beside a first; a third needs two reopenings during
  one unwinding and shows no new kind of overlap, as workers touch only their own `pc`.
- `chain`: one slot for each monitor, so a reopening waits until the worker before has unwound; the overlap of two workers
  is left to `solo`. Two monitors show the roles of prerequisite and dependent; the recursion of the cascade is covered by
  its proof for chains of any length.
- `delivery`: two reports are enough for "a report after one that was surfaced"; a depth limit of 2 stands for the code's 3
  and is exceeded by the reports that the instance makes. One conversation: the states of two are disjoint. The
  subsessions watch different tickets, so only the suppression by a stale checkpoint occurs; the two suppressions by
  another monitor of the ticket (`DuplicateTerminal`, `DuplicateAutoPause`) are covered by the proofs.
- `runs`: `LastRun` = 6 is enough to spend a budget of two, extend it to three, spend it again after a reopening, and
  escalate at the second exhaustion. Each limit is the least value at which it differs from "always" and "never". The
  code's defaults have the no-change stop (3) before the idle pause (15); the instance has 2 and 3, the same order. One message is
  enough: messages do not act on each other.
- `slots`: two slots, a queue of two and six requests fill the slots and the queue of one conversation and leave requests
  over; requests 1 and 2 are prerequisite and dependent, 3 and 5 want one ticket from two conversations. The three
  settings turn the stale reclaim on, the caps apart from the budget, and the last checks against a request.
- `restart`: three records are an entry before, at and after the one that is lost or killed; two kills put one in the
  hook that follows the other. The three mixes put two records on one key, a chat after a refused entry, and a task before a monitor.
- `turns`: three messages make a batch and a processor beside it; the five mixes are a retried id, a reaction beside messages,
  two lock keys for one session, two sessions with a restart, and a continuation under its owner's key. Two tokens and
  three attempts occur in the mix that streams. The lock key of a message, its id and its session vary independently only among these mixes.
- `store`: a window of four with two recent turns kept lets a compaction fall in the middle; eight turns let the window
  move under two compactions; a cap of two with three sessions evicts. The session without its summary has five turns, two ids (so that
  it can be deleted or evicted in the middle of its repair) and a window of three: a fold after the failed repair and one after
  that. One kill.
- `periodic`: a horizon of three or four units with intervals of two and three: a run, the one after it, and a tick that is
  not due. Two acts of the operator or the host (a close and a kill, a turn and a firing). Session numbers run out at six, which no run of this length reaches twice.

## 4. Fairness

- `SubsessionLifecycle`: weak fairness of each worker step (turns and queries have timeouts, waits have a next run).
  A paused worker whose wake event is set runs in the same round of the loop, so a watcher that keeps changing the
  record cannot starve it: `PausedResumes` is strongly fair. The watcher loop is weakly fair. A query about a merged
  prerequisite is assumed to be answered infinitely often when it is asked infinitely often (strong fairness of
  `PrerequisiteMerged`). Nothing is assumed of users, agents' choices, merges or closes.
- `ParentDelivery`: timers, tasks and turns are weakly fair. A new outcome restarts the timer: an endless stream of outcomes
  less than 30 s apart could postpone it for ever, which a finite number of reports hides; the code's comment accepts that.
- `SpawnAdmission`: weak fairness of `CallStep`: there is no await inside a call.
- `ChatTurns`: weak fairness of the steps of each processor (`Work`): the loop runs every task that is ready, and the
  agent's stream ends or times out. Nothing is assumed of the operator or of the restart.
- `PeriodicScheduler`: weak fairness of the tick (the loop sleeps 30 s and goes on after an exception), of the runs and of the
  begin and end of the operator's turns (they are `ChatTurns`' turns).
- `MonitorRuns`, `StartupResume`, `ConversationStore` have no fairness: the bounds on runs, kills and turns stop them, so what
  must happen eventually would be refuted by the bound. That a message is taken from a wait is checked in `solo`; that a
  restart brings back what was live is the invariant `LiveComesBack`, stated for the end of the hook.

## 5. Proofs

All proofs are checked by TLAPS for any values of the constants that satisfy the named assumptions
(`RegistryConstants`, `LifecycleConstants`, `DeliveryConstants`, `RunConstants`, `AdmissionConstants`, `ResumeConstants`,
`ChatConstants`, `StoreConstants`, `PeriodicConstants`): any number of monitors, records, sessions and messages, any limits.

- `SubsessionLifecycle_proofs`: `TypeCorrect`, `ActiveMonitorsHaveWorkers`, `DedupKeysReferToActive`,
  `MessagesAreAnnounced`. They are not inductive one by one: that an active monitor keeps a worker needs that an idle task is not
  marked cancelled (`TasksBusy`), or a reopening could start a worker that is cancelled already. The invariant is the
  conjunction `IInv`. The action properties `FinalRecordsStayFinal`, `NoTurnStartsClosed` and `ClosesStopDependents` follow
  from it step by step; the last rests on a lemma that the set of the cascade is closed under "waits for the ticket of".
- `ParentDelivery_proofs`: the depth of reactions is tested when an outcome joins a batch and raised when the batch is
  drained, up to 30 s later; what carries the bound is that a conversation that holds outcomes is below the limit
  (`PendingBelowLimit`). `DepthIsGivenBack` shows the counter to be the number of reactions in progress, by a bijection between
  the turns in the line before and after a step. `DeliveryKeepsItsPromise` is the refinement of `OutcomeDelivery`: every report is in
  exactly one place (`PlacesOK`) and every step is a step of the promise or a stutter. `UsersSeeOutcomes` needs that a request was flushed before it
  waits (`RequestOK`). `NestedReportsReachTheChat` is proved under its stated assumption, ordinary subsessions under periodic parents.
  `ReportsReachTheHistory` is what safety says of `AcceptedIsRecorded`: each accepted report has a timer, a task or a turn at the head of
  the line that takes it further (`NoReportIsLeft`), and its place in the line only falls (`ReportsMoveOn`).
- `MonitorRuns_proofs`: all that `runs` checks, and `EndedMonitorsStayEnded`. The invariant adds that the log holds claimed
  numbers only (`LogClaimed`); that a message is in the inbox, in the in-flight buffer or heard, never in two (`Apart`); that a worker
  exists exactly while the monitor is active (`PhaseInv`); and that what did not fail is below the error threshold (`ErrorsBelow`).
- `SpawnAdmission_proofs`: `SpawnsKeepLimits`, `KeysHaveOneMonitor`, `AdmissionTypes` from `Held`. A count of active records is not
  inductive while spawns are on the stack; what carries it is the stack's `Shape`: a spawn in progress is at the bottom or stands on
  the drain that holds its request, so that a conversation has at most one of them unless a drain was nested, and one that is
  past the budget test has a slot that counts as taken (`BudgetOf`). The dedup keys need only that `create` tests them again.
  `QueuesAreServedInOrder` (an action property) and `SlotsAreTaken` follow from `Placed`, which says where each request is: a spawn is
  known by its depth in the stack, of two held by drains the deeper is the older, both are older than the queue, and the one asked
  for from outside is the newest. A spawn that finds the budget full is therefore never a drained one (`AdmitInv`), and a free slot
  with a queue always has a drain to come or the spawn at the bottom that has just closed a monitor for it (`SlotInv`).
  `CallsRunOut` is what safety says of `CallsReturn`: spawns, closes, drains and cascades call each other, but every step lowers `Work`, the sum
  of a weight per request (a queued one `N + 13`, an active one `N + 8`, `N` the number of subsessions) and one per frame (a spawn 4 to 1, a drain 5,
  a cascade `N + 2`, a loop one more than what it has left). A sum over a set needs recursion, which the provers cannot unfold, so `Work` is the
  cardinality of a set of as many tokens.
- `StartupResume_proofs`: `ClosedIsFinal`, `KeysAreUnique`, `PausesSurvive`. The last needs `AsleepInv`: what is asleep is paused
  in memory and in the file, but for the entry whose pause is still to be restored. `IInv` says which entries the file and the
  memory hold at each position of the hook (`Position`), that a record closed on request is closed in both (`ClosedKnown`), and that
  the file never shows two live records of a key. `MessagesSurvive` adds where a message may be (`InHands`, `MailKept`); the
  exception for a chat killed between its spawn and the restore of its inbox is part of the property. `LiveRecordsComeBack` needs
  `BackInv`: the entries done are those before the entries to do, what is live in memory is an entry that came back, and an entry that was
  dropped has its excuse already, which later entries cannot take away. `HookRunsOut`: an entry takes at most three steps, so
  the hook ends for any file; a kill begins it again, and the bound on kills pays for that.
- `ConversationStore_proofs`: `ViewStaysWhole`, `SummariesKeepTurns` (an action property) from `ViewInv`: a summary together with `lost` holds every turn
  below the index, a pending summary every turn below its boundary that the session does not hide without a summary, or the session is in
  `torn`; a visit that holds a session the store has dropped is one whose session is in `torn` (`HeldTorn`). `SessionListsAgree`, `DeletionsLast` from
  `ListInv`. Steps are grouped by what they change: those that leave sessions alone, those on lists, the ends of a summary, the restart.
- `ChatTurns_proofs`: `ChatTypes`, `MessagesAreInOnePlace`, `BatchesAreServed`, `TurnsFollowEachOther`, `IdsAreRunOnce`, `SubscribersHaveTheTurn`,
  `RestartsAreGated`, `LastFramesAreLast`. `ChatInv` relates the processors to the lines of the locks (`LockInv`: only the
  head of a line runs, which gives one turn at a time), to the batches and answers (`MailInv`), to the bus (`BusInv`), to the
  marks (`MarkInv`) and to the recorded ids (`OnceInv`). `RestartsAreGated` compares the cardinality that the code tests with
  the set of turns that it stands for. `ChatKeepsItsPromise` is the refinement of `ChatPromise`. It needs to know which turn the
  queue of a message hears (`OfInv`: none while it is in a batch, the one that runs once it is taken) and that a reply kept for an id is
  that of a recorded turn (`RepliesInv`). What safety says of `EveryMessageAnswered` are two theorems: with `NoMessageIsStuck` a message that
  waits is served by a processor that can step, or whose lock is held by one that can; with `ProcessorsRunOut` a processor's
  own steps lower its `Rank` (its phase, the attempts left and the tokens left), which no step of anybody raises.
- `PeriodicScheduler_proofs`: `PeriodicTypes`, `RunsDoNotOverlap`, `DecisionsAreKept`, and `FiringsAreSpaced` (an action property), for any
  presets, intervals, anchors and sessions. `RunsDoNotOverlap` needs `NumberInv`: the last sessions of the presets differ and the numbers of
  new sessions, given to several presets in one tick, are new and distinct, so that closing the session of one preset closes the run of no
  other. `DecisionsAreKept` needs `HomeInv`: a decision is in a session that nobody but the operator closed, or that a kill or
  a close under the operator's running turn left behind; what is pruned is closed. `FiringsAreSpaced` is `_next_run` with a lemma on quotients; that the
  file has the last firing (`FiredInv`) is what makes a restart count for nothing.

A type invariant is a theorem, and not a checked property, of the modules that have a proof module with one; TLC evaluates the
assumptions.

Only model-checked: liveness (`MessageTaken`, `PrerequisiteReopens`, `AcceptedIsRecorded`, `CallsReturn`,
`EveryMessageAnswered`, `DueFires`), which is out of the prover's reach. Of `AcceptedIsRecorded`, `CallsReturn` and `EveryMessageAnswered`
the part that needs no fairness is proved: somebody always has a step to take, and such steps run out. `MessageTaken` and
`PrerequisiteReopens` have no such measure, as the watcher may reopen a monitor any number of times; they rest on strong fairness.
`NoReportIsLeft`, `ReportsMoveOn`, `CallsShorten`, `HookShortens`, `SomeoneServes`, `ProcessorsShorten` and `KeepsPromise` are stated in the proof modules, and
no run checks them.

## 6. How to run

`tlc -config <cfg> <module>` in this directory, with the pairs of `PROJECT.json` "runs"; `tlapm <module>_proofs.tla` for the
proofs. `periodic` is the longest run, three minutes on two workers; `SpawnAdmission_proofs` and
`ChatTurns_proofs` (over ten minutes each) are the longest proofs.

## 7. Not modelled

The map covers about a ninth of the implementation's lines. The rest is mostly not the kind of code a model adds to:

- the agent's tools over HTTP, files and repositories (`repo/`, `ticket_poll/`, `component/`, `file_hub_tools/`, `sftp/`, …), about half of the code: calls
  that are sent, formatted and forgotten. The mill's answers are nondeterministic where a model asks it. The cache of ticket states only
  gives a last answer with a caveat when the board cannot be reached.
- configuration, prompts, error classification, captions, titles: data and strings. Their outcome is a choice in the models.
- the continuation store: a file consumed at startup. `schedule`, which would arm one, has no caller in the program.
- feedback, health, diagnostics, the caretaker: sequential jobs that report; nothing else reads their state.
- the bounded queues of slow subscribers of the event bus, drafts, attachments, searches, usage counters, old file formats.
- the loops of `task` and `user_chat` subsessions: an inbox and a turn, without the waits in which monitors go wrong. They are
  records in `SpawnAdmission` (as owners of a callback) and in `StartupResume`.
- thread pools: agents are built in threads, but their results come back to the loop at an await, which is where the models have a step.
