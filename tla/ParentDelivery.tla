---------------------------- MODULE ParentDelivery ----------------------------
(***************************************************************************)
(* The delivery of subsession outcomes to the conversation or subsession   *)
(* that spawned them: src/robotsix_chat/subsessions/delivery.py, with the  *)
(* request handler that flushes it and the per-owner lock of the chat      *)
(* routes.                                                                 *)
(*                                                                         *)
(* One asyncio loop runs everything, so a step is the code between two     *)
(* awaits.  deliver_summary never awaits: it is one step with the close or *)
(* the pause it reports.  The lock is an asyncio.Lock, which is fair: it   *)
(* is the queue of the turns that hold it (the head) or wait for it.  The  *)
(* agent is wired before any subsession runs; a turn that fails records    *)
(* the outcomes as one that succeeds does.                                 *)
(***************************************************************************)
EXTENDS Naturals, Sequences, FiniteSets

CONSTANTS
    Sub,            \* subsessions
    Session,        \* conversations
    SessionOf,      \* Sub -> Session: owner_session_id
    ParentOf,       \* Sub -> Sub or NoSub: parent_id
    Periodic,       \* the subsessions of kind periodic
    TicketOf,       \* Sub -> the ticket of the checkpoint, or NoTicket
    NoSub, NoTicket,
    MaxDepth,       \* _MAX_REACTION_DEPTH
    MaxReports      \* bound: the reports one subsession makes

ASSUME DeliveryConstants ==
    /\ NoSub \notin Sub
    /\ SessionOf \in [Sub -> Session]
    /\ ParentOf \in [Sub -> Sub \cup {NoSub}]
    /\ MaxDepth \in Nat \ {0} /\ MaxReports \in Nat

VARIABLES
    live,          \* the subsessions whose record is active
    closeReason,   \* SubsessionInfo.close_reason
    made,          \* how many reports each subsession made
    inbox,         \* Sub -> the reports unread in its inbox
    read,          \* the reports a parent subsession has read
    pending,       \* _pending_outcomes
    timers,        \* the conversations with an entry in _pending_timers
    depth,         \* _reaction_depth
    consumed,      \* _consumed_outcome_ids
    starting,      \* Session -> the passive records whose task has not run yet
    lock,          \* Session -> the turns that hold or await its RunSerializer lock
    history,       \* Session -> the reports recorded in its history
    request,       \* Session -> where its /chat request is
    awaited        \* Session -> the reports accepted when the request arrived

recordVars == <<live, closeReason, made, inbox, read>>
deliveryVars == <<pending, timers, depth, consumed>>
chatVars == <<starting, lock, history, request, awaited>>
vars == <<recordVars, deliveryVars, chatVars>>

Report == Sub \X (1..MaxReports)
Turns == {"reaction", "flush", "passive", "user"}
Job == [turn : Turns, batch : Seq(Report)]

Interim == {"paused", "needs_operator"}
Terminal == {"completed", "failed", "no_change_auto_stop"}
OfMonitors == Interim \cup {"no_change_auto_stop"}
NoNews == {"paused", "no_change_auto_stop"}
Reasons == Interim \cup Terminal

Elements(q) == {q[i] : i \in DOMAIN q}
InTurns(c) == UNION {Elements(job.batch) : job \in Elements(lock[c])}
Waiting(c) == Elements(pending[c]) \cup starting[c] \cup InTurns(c)
Recorded(c) == Elements(history[c])

Init ==
    /\ live = Sub
    /\ closeReason = [s \in Sub |-> "none"]
    /\ made = [s \in Sub |-> 0]
    /\ inbox = [s \in Sub |-> {}] /\ read = {}
    /\ pending = [c \in Session |-> <<>>]
    /\ timers = {}
    /\ depth = [c \in Session |-> 0]
    /\ consumed = {}
    /\ starting = [c \in Session |-> {}]
    /\ lock = [c \in Session |-> <<>>]
    /\ history = [c \in Session |-> <<>>]
    /\ request = [c \in Session |-> "none"]
    /\ awaited = [c \in Session |-> {}]

-----------------------------------------------------------------------------
(* deliver_summary                                                         *)

SameTicket(s, x) == x # s /\ TicketOf[s] # NoTicket /\ TicketOf[x] = TicketOf[s]

(* is_duplicate_ticket_terminal: another closed monitor completed.         *)
DuplicateTerminal(s) ==
    \E x \in Sub : SameTicket(s, x) /\ x \notin live /\ closeReason[x] = "completed"

(* is_duplicate_auto_pause: another monitor is paused, stopped for want of *)
(* changes, or completed.                                                  *)
DuplicateAutoPause(s) ==
    \E x \in Sub : SameTicket(s, x) /\ closeReason[x] \in NoNews \cup {"completed"}

(* "stale": the checkpoint of a monitor that pauses or stops without news  *)
(* says its ticket is merged.                                              *)
Suppressed(s, reason, stale) ==
    \/ reason = "completed" /\ DuplicateTerminal(s)
    \/ reason \in NoNews /\ (DuplicateAutoPause(s) \/ stale)

(* enqueue_message into the inbox of an active parent                      *)
ParentAccepts(s) == ParentOf[s] \in live

\* Mutant: a periodic parent is treated as any other.
ForActiveParent(s) == ParentAccepts(s)

(* The parent agent alone gets the report, unless it is periodic.          *)
ForParentOnly(s) == ParentAccepts(s) /\ ParentOf[s] \notin Periodic

\* Mutant: an outcome is queued behind a running timer that is not renewed.
ScheduleWithoutTimer(c, s, r) ==
    IF s \in consumed THEN UNCHANGED <<deliveryVars, starting>>
    ELSE IF depth[c] >= MaxDepth
    THEN /\ starting' = [starting EXCEPT ![c] = @ \cup {r}]
         /\ UNCHANGED deliveryVars
    ELSE /\ pending' = [pending EXCEPT ![c] = Append(@, r)]
         /\ timers' = timers \ {c}
         /\ UNCHANGED <<depth, consumed, starting>>

\* Mutant: the depth guard is off by one.
ScheduleOneDeeper(c, s, r) ==
    IF s \in consumed THEN UNCHANGED <<deliveryVars, starting>>
    ELSE IF depth[c] > MaxDepth
    THEN /\ starting' = [starting EXCEPT ![c] = @ \cup {r}]
         /\ UNCHANGED deliveryVars
    ELSE /\ pending' = [pending EXCEPT ![c] = Append(@, r)]
         /\ timers' = timers \cup {c}
         /\ UNCHANGED <<depth, consumed, starting>>

(* _schedule_reaction: a subsession that was surfaced before is dropped;   *)
(* at the depth limit the outcome is recorded by a task of its own; else   *)
(* it joins the batch and the timer starts again.                          *)
Schedule(c, s, r) ==
    IF s \in consumed THEN UNCHANGED <<deliveryVars, starting>>
    ELSE IF depth[c] >= MaxDepth
    THEN /\ starting' = [starting EXCEPT ![c] = @ \cup {r}]
         /\ UNCHANGED deliveryVars
    ELSE /\ pending' = [pending EXCEPT ![c] = Append(@, r)]
         /\ timers' = timers \cup {c}
         /\ UNCHANGED <<depth, consumed, starting>>

(* A subsession pauses, asks for the operator or ends, and delivers its    *)
(* summary.  The unread inbox of one that ends is dropped with it.         *)
Deliver(s, reason, stale) ==
    LET r    == <<s, made[s] + 1>>
        kept == IF reason \in Terminal THEN [inbox EXCEPT ![s] = {}] ELSE inbox
    IN
    /\ s \in live /\ made[s] < MaxReports
    /\ reason \in OfMonitors => s \in Periodic /\ closeReason[s] = "none"
    /\ stale => reason \in NoNews
    /\ made' = [made EXCEPT ![s] = @ + 1]
    /\ live' = IF reason \in Terminal THEN live \ {s} ELSE live
    /\ closeReason' = [closeReason EXCEPT ![s] = IF reason = "needs_operator" THEN @ ELSE reason]
    /\ IF Suppressed(s, reason, stale) \/ ~ParentAccepts(s)
       THEN inbox' = kept
       ELSE inbox' = [kept EXCEPT ![ParentOf[s]] = @ \cup {r}]
    /\ IF Suppressed(s, reason, stale) \/ ForParentOnly(s)
       THEN UNCHANGED <<deliveryVars, starting>>
       ELSE Schedule(SessionOf[s], s, r)
    /\ UNCHANGED <<read, lock, history, request, awaited>>

(* resume: a paused monitor runs again.                                    *)
Resume(s) ==
    /\ s \in live /\ closeReason[s] = "paused"
    /\ closeReason' = [closeReason EXCEPT ![s] = "none"]
    /\ UNCHANGED <<live, made, inbox, read, deliveryVars, chatVars>>

(* drain_inbox at the next turn boundary of a parent subsession            *)
ReadInbox(s) ==
    /\ s \in live /\ inbox[s] # {}
    /\ read' = read \cup inbox[s]
    /\ inbox' = [inbox EXCEPT ![s] = {}]
    /\ UNCHANGED <<live, closeReason, made, deliveryVars, chatVars>>

-----------------------------------------------------------------------------
(* The batch and its turn.                                                 *)

\* Mutant: the batch is not taken out of the queue it is drained from.
DrainAgain(c, turn) ==
    /\ pending[c] # <<>>
    /\ timers' = timers \ {c}
    /\ depth' = [depth EXCEPT ![c] = @ + 1]
    /\ lock' = [lock EXCEPT ![c] = Append(@, [turn |-> turn, batch |-> pending[c]])]
    /\ UNCHANGED <<pending, consumed>>

(* _drain_pending_outcomes up to the await of the lock                     *)
Drain(c, turn) ==
    /\ pending[c] # <<>>
    /\ pending' = [pending EXCEPT ![c] = <<>>]
    /\ timers' = timers \ {c}
    /\ depth' = [depth EXCEPT ![c] = @ + 1]
    /\ lock' = [lock EXCEPT ![c] = Append(@, [turn |-> turn, batch |-> pending[c]])]
    /\ UNCHANGED consumed

(* _flush_pending_reactions: the hold window has passed.                   *)
TimerFires(c) ==
    /\ c \in timers
    /\ IF pending[c] = <<>>
       THEN timers' = timers \ {c} /\ UNCHANGED <<pending, depth, consumed, lock>>
       ELSE Drain(c, "reaction")
    /\ UNCHANGED <<recordVars, starting, history, request, awaited>>

(* _record_passive starts and asks for the lock.                           *)
PassiveStarts(c, r) ==
    /\ r \in starting[c]
    /\ starting' = [starting EXCEPT ![c] = @ \ {r}]
    /\ lock' = [lock EXCEPT ![c] = Append(@, [turn |-> "passive", batch |-> <<r>>])]
    /\ UNCHANGED <<recordVars, deliveryVars, history, request, awaited>>

Holds(c, turn) == lock[c] # <<>> /\ Head(lock[c]).turn = turn

Recording(c) == history' = [history EXCEPT ![c] = @ \o Head(lock[c]).batch]

Release(c) == lock' = [lock EXCEPT ![c] = Tail(@)]


(* The depth goes down by one, and its entry is dropped at zero.           *)
DepthAfter(d) == IF d <= 1 THEN 0 ELSE d - 1


(* _react_in_main_chat or _react_batched ends: recorded, depth given back, *)
(* the subsessions of the batch are consumed.                              *)
ReactionEnds(c, turn) ==
    /\ Holds(c, turn)
    /\ Recording(c) /\ Release(c)
    /\ depth' = [depth EXCEPT ![c] = DepthAfter(@)]
    /\ consumed' = consumed \cup {r[1] : r \in Elements(Head(lock[c]).batch)}
    /\ UNCHANGED <<recordVars, pending, timers, starting>>

BackgroundEnds(c) ==
    /\ ReactionEnds(c, "reaction")
    /\ UNCHANGED <<request, awaited>>

PassiveEnds(c) ==
    /\ Holds(c, "passive")
    /\ Recording(c) /\ Release(c)
    /\ UNCHANGED <<recordVars, deliveryVars, starting, request, awaited>>

-----------------------------------------------------------------------------
(* A /chat request: it flushes the batch, waits for the turn that reports  *)
(* it, and submits its message; the coalescer then asks for the lock.      *)

\* Mutant: the handler does not flush.
ArriveWithoutFlush(c) ==
    /\ request[c] = "none"
    /\ awaited' = [awaited EXCEPT ![c] = Waiting(c)]
    /\ request' = [request EXCEPT ![c] = "submitted"]
    /\ UNCHANGED <<recordVars, deliveryVars, starting, lock, history>>

Arrive(c) ==
    /\ request[c] = "none"
    /\ awaited' = [awaited EXCEPT ![c] = Waiting(c)]
    /\ IF pending[c] = <<>>
       THEN /\ timers' = timers \ {c}
            /\ request' = [request EXCEPT ![c] = "submitted"]
            /\ UNCHANGED <<pending, depth, consumed, lock>>
       ELSE Drain(c, "flush") /\ request' = [request EXCEPT ![c] = "flushing"]
    /\ UNCHANGED <<recordVars, starting, history>>

FlushEnds(c) ==
    /\ ReactionEnds(c, "flush")
    /\ request' = [request EXCEPT ![c] = "submitted"]
    /\ UNCHANGED awaited

(* The coalescer's debounce (0.3 s) spans many rounds of the event loop:   *)
(* a task that was created before it has started.                          *)
Submit(c) ==
    /\ request[c] = "submitted"
    /\ starting[c] \cap awaited[c] = {}
    /\ request' = [request EXCEPT ![c] = "queued"]
    /\ lock' = [lock EXCEPT ![c] = Append(@, [turn |-> "user", batch |-> <<>>])]
    /\ UNCHANGED <<recordVars, deliveryVars, starting, history, awaited>>

UserTurnEnds(c) ==
    /\ Holds(c, "user") /\ Release(c)
    /\ request' = [request EXCEPT ![c] = "none"]
    /\ awaited' = [awaited EXCEPT ![c] = {}]
    /\ UNCHANGED <<recordVars, deliveryVars, starting, history>>

-----------------------------------------------------------------------------
ChatStep(c) ==
    \/ TimerFires(c)
    \/ \E r \in Report : PassiveStarts(c, r)
    \/ BackgroundEnds(c) \/ PassiveEnds(c) \/ FlushEnds(c)
    \/ Submit(c) \/ UserTurnEnds(c)

Next ==
    \/ \E s \in Sub :
          \/ \E reason \in Reasons, stale \in BOOLEAN : Deliver(s, reason, stale)
          \/ Resume(s) \/ ReadInbox(s)
    \/ \E c \in Session : ChatStep(c) \/ Arrive(c)

Spec == Init /\ [][Next]_vars

(* The timer's sleep ends, tasks run and turns end. A user need not write. *)
Fairness ==
    \A c \in Session :
        /\ WF_vars(TimerFires(c))
        /\ WF_vars(\E r \in Report : PassiveStarts(c, r))
        /\ WF_vars(BackgroundEnds(c) \/ PassiveEnds(c) \/ FlushEnds(c) \/ UserTurnEnds(c))

FairSpec == Spec /\ Fairness

-----------------------------------------------------------------------------
(* Type invariant.                                                         *)
TypeOK ==
    /\ live \subseteq Sub
    /\ closeReason \in [Sub -> Reasons \cup {"none"}]
    /\ made \in [Sub -> 0..MaxReports]
    /\ inbox \in [Sub -> SUBSET Report] /\ read \subseteq Report
    /\ pending \in [Session -> Seq(Report)]
    /\ timers \subseteq Session
    /\ depth \in [Session -> Nat]
    /\ consumed \subseteq Sub
    /\ starting \in [Session -> SUBSET Report]
    /\ lock \in [Session -> Seq(Job)]
    /\ history \in [Session -> Seq(Report)]
    /\ request \in [Session -> {"none", "flushing", "submitted", "queued"}]
    /\ awaited \in [Session -> SUBSET Report]

(* A chain of closes and reactions is bounded: however timers, flushes and *)
(* turns overlap, the depth of a conversation stays within the limit.      *)
DepthBounded == \A c \in Session : depth[c] <= MaxDepth

(* No outcome is held with nothing left to flush it: each conversation     *)
(* with pending outcomes has a running timer.                              *)
PendingHasTimer == \A c \in Session : pending[c] # <<>> => c \in timers

(* The depth counter tells how many reaction turns hold or await the lock, *)
(* so that it returns to zero, and reactions are on again, when they end.  *)
ReactionsOf(c) == {i \in DOMAIN lock[c] : lock[c][i].turn \in {"reaction", "flush"}}

DepthCountsReactions == \A c \in Session : depth[c] = Cardinality(ReactionsOf(c))

(* At most MaxDepth reaction turns of a conversation hold or await the     *)
(* lock, and the counter that decides this is exact.                       *)
ReactionsBounded == DepthBounded /\ DepthCountsReactions

(* The agent that answers the user has every outcome in its history that   *)
(* was accepted before the user's message arrived.                         *)
UserTurnSeesOutcomes ==
    \A c \in Session : Holds(c, "user") => awaited[c] \subseteq Recorded(c)

(* An accepted outcome is recorded, once, whichever of the timer, the      *)
(* user's request or the passive record takes it.                          *)
Promise == INSTANCE OutcomeDelivery WITH
               waiting <- [c \in Session |-> Waiting(c)]

ImplementsPromise == Promise!Spec

(* An accepted outcome reaches the history.                                *)
AcceptedIsRecorded ==
    \A c \in Session, r \in Report : r \in Waiting(c) ~> r \in Recorded(c)

InChat(r) == r \in Waiting(SessionOf[r[1]]) \cup Recorded(SessionOf[r[1]])

(* deliver_summary: the report of a nested subsession is read by its       *)
(* parent, or relayed to the conversation.                                 *)
NestedReportsAreKept ==
    \A s \in Sub : ParentOf[s] # NoSub =>
        \A n \in 1..made[s] : <<s, n>> \in inbox[ParentOf[s]] \cup read \/ InChat(<<s, n>>)
=============================================================================
