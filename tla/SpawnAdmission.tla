---------------------------- MODULE SpawnAdmission ----------------------------
(***************************************************************************)
(* Admission of new monitors: spawn_subsession (worker.py), the slot       *)
(* budget of a conversation with its queue of pending requests             *)
(* (slot_budget.py, slot_budget_wiring.py) and the close of a record       *)
(* (registry_lifecycle.py).                                                *)
(*                                                                         *)
(* None of this awaits, yet it is not one step: a spawn may close another  *)
(* record, the close callback drains a queue, the drain spawns, and the    *)
(* close cascades to dependents, whose closes drain again.  The stack of   *)
(* calls is explicit: head first, one frame per call in progress, the      *)
(* frame's op naming what remains of the call.  Other code of the process  *)
(* runs only when the stack is empty.                                      *)
(***************************************************************************)
EXTENDS Integers, Sequences, FiniteSets

CONSTANTS
    N,              \* the requests for monitors are 1..N
    Conv,           \* conversations
    OwnerOf,        \* 1..N -> Conv
    Ticket,         \* dedup keys
    TicketOf,       \* 1..N -> Ticket or NoTicket: dedup_key
    DependsOn,      \* 1..N -> Ticket or NoTicket: depends_on_ticket_id
    NoTicket,
    Budget,         \* monitor_slot_budget
    QueueMax,       \* monitor_slot_queue_max
    Settings        \* the settings to consider, see settings

Sub == 1..N
NoSub == 0

ASSUME AdmissionConstants ==
    /\ N \in Nat /\ Budget \in Nat \ {0}
    /\ QueueMax \in Nat
    /\ NoTicket \notin Ticket
    /\ OwnerOf \in [Sub -> Conv]
    /\ {TicketOf, DependsOn} \subseteq [Sub -> Ticket \cup {NoTicket}]
    /\ Settings \subseteq
         [staleReclaim : BOOLEAN, maxActive : Nat, perSession : Nat, invalid : SUBSET Sub]

VARIABLES
    status,     \* of the request, then of the record it became
    queue,      \* SlotBudget._queues
    stack,      \* the calls in progress
    settings,   \* stale_reclaim_seconds > 0, max_concurrent,
                \* max_concurrent_per_session (0: no cap), and the requests
                \* that the checks after admission refuse
    upsets      \* history: the events after which a guarantee is off

vars == <<status, queue, stack, settings, upsets>>

(* A request is "held" by a drain, "refused" by an exception, "deduped"    *)
(* when spawn returns the id of another record, "dropped" with its queue.  *)
(* "running" stands for running and sleeping; "waiting" is closed with     *)
(* reason waiting_for_prerequisite, the one close that is taken back here. *)
Requests == {"new", "asking", "queued", "held", "refused", "deduped", "dropped"}
Records == {"running", "paused", "waiting", "ended"}

(* count_occupied_for_owner counts the paused monitors, which              *)
(* count_active_for_owner and count_active do not.                         *)
Active(r) == status[r] \in {"running", "paused"}
Occupied(c) == Cardinality({r \in Sub : OwnerOf[r] = c /\ Active(r)})
RunningOf(c) == {r \in Sub : OwnerOf[r] = c /\ status[r] = "running"}
Running == {r \in Sub : status[r] = "running"}

(* The two dedup guards of spawn, repeated by create.                      *)
HasMonitor(t) == t # NoTicket /\ \E r \in Sub : Active(r) /\ TicketOf[r] = t

SpawnOps == {"admit", "capacity", "recheck", "create"}
SpawnCall(op, r) == [op |-> op, sub |-> r]
DrainCall(c, r) == [op |-> "drain", conv |-> c, held |-> r]
CascadeCall(t) == [op |-> "dependents", ticket |-> t]
EachCall(why, S) == [op |-> "each", why |-> why, left |-> S]

Top(op) == stack # <<>> /\ Head(stack).op = op
Rest == Tail(stack)
SpawnsOf(c, st) == {i \in DOMAIN st : st[i].op \in SpawnOps /\ OwnerOf[st[i].sub] = c}

Init ==
    /\ status = [r \in Sub |-> "new"]
    /\ queue = [c \in Conv |-> <<>>]
    /\ stack = <<>>
    /\ settings \in Settings
    /\ upsets = {}

-----------------------------------------------------------------------------
(* Closing a record.                                                       *)

\* Mutant: no reclaim drains, the one of a stale monitor either.
SkipReclaims(r, why) ==
    IF why \in {"slot_reclaimed", "stale_reclaimed", "session closed"} THEN <<>>
    ELSE <<DrainCall(OwnerOf[r], NoSub)>>

(* _on_monitor_closed: a reclaimed slot is left to the spawn that wants    *)
(* it, and a conversation that is torn down loses its queue instead.       *)
CallbackCalls(r, why) ==
    IF why \in {"slot_reclaimed", "session closed"} THEN <<>>
    ELSE <<DrainCall(OwnerOf[r], NoSub)>>

DiscardedBy(r, why) ==
    IF why = "session closed"
    THEN {q \in Sub : status[q] = "queued" /\ OwnerOf[q] = OwnerOf[r]} ELSE {}

CascadeCalls(r, why) ==
    IF TicketOf[r] = NoTicket \/ why = "resolved" THEN <<>> ELSE <<CascadeCall(TicketOf[r])>>

(* _close_and_publish: the callback, then _pause_dependents, then the rest *)
(* of the caller.                                                          *)
Close(r, why, rest) ==
    /\ status' = [x \in Sub |->
                     IF x = r THEN IF why = "waiting_for_prerequisite" THEN "waiting" ELSE "ended"
                     ELSE IF x \in DiscardedBy(r, why) THEN "dropped" ELSE status[x]]
    /\ queue' = IF why = "session closed" THEN [queue EXCEPT ![OwnerOf[r]] = <<>>] ELSE queue
    /\ stack' = CallbackCalls(r, why) \o CascadeCalls(r, why) \o rest

(* _pause_dependents looks at the records that exist when it starts, and   *)
(* at each one's status when its turn comes; close_all_for_owner likewise. *)
StartDependents ==
    /\ Top("dependents")
    /\ stack' = <<EachCall("waiting_for_prerequisite",
                           {d \in Sub : DependsOn[d] = Head(stack).ticket /\ status[d] \in Records})>>
                \o Rest
    /\ UNCHANGED <<status, queue, settings, upsets>>

Closable(d, why) ==
    IF why = "session closed" THEN Active(d) ELSE status[d] = "running"

CloseEach ==
    /\ Top("each")
    /\ LET f == Head(stack)
           todo == {d \in f.left : Closable(d, f.why)}
       IN  \/ todo = {} /\ stack' = Rest /\ UNCHANGED <<status, queue>>
           \/ \E d \in todo : Close(d, f.why, <<EachCall(f.why, f.left \ {d})>> \o Rest)
    /\ UNCHANGED <<settings, upsets>>

-----------------------------------------------------------------------------
(* spawn_subsession.  A spawn is called from outside, or by the drain      *)
(* below it on the stack.                                                  *)
Drained == Len(stack) > 1

Proceed(op) ==
    /\ stack' = <<SpawnCall(op, Head(stack).sub)>> \o Rest
    /\ UNCHANGED <<status, queue, upsets>>

(* The call returns an id: the drain goes on with the next request.        *)
Returns(st) ==
    /\ status' = [status EXCEPT ![Head(stack).sub] = st]
    /\ stack' = IF Drained THEN <<DrainCall(Head(Rest).conv, NoSub)>> \o Tail(Rest) ELSE <<>>
    /\ queue' = queue

\* Mutant: the drain goes on after a failure.
RaisesAndGoesOn(r, c) ==
    /\ status' = [status EXCEPT ![r] = IF Drained THEN "queued" ELSE "refused"]
    /\ queue' = IF Drained THEN [queue EXCEPT ![c] = <<r>> \o @] ELSE queue
    /\ stack' = IF Drained THEN <<DrainCall(c, NoSub)>> \o Tail(Rest) ELSE <<>>

\* Mutant: the request goes back to the end of the queue.
RaisesToTheEnd(r, c) ==
    /\ status' = [status EXCEPT ![r] = IF Drained THEN "queued" ELSE "refused"]
    /\ queue' = IF Drained THEN [queue EXCEPT ![c] = Append(@, r)] ELSE queue
    /\ stack' = IF Drained THEN Tail(Rest) ELSE <<>>


(* The call raises: the drain puts the request back in front and stops.    *)
RaisesTo(r, c) ==
    /\ status' = [status EXCEPT ![r] = IF Drained THEN "queued" ELSE "refused"]
    /\ queue' = IF Drained THEN [queue EXCEPT ![c] = <<r>> \o @] ELSE queue
    /\ stack' = IF Drained THEN Tail(Rest) ELSE <<>>

Raises ==
    LET r == Head(stack).sub IN
    /\ RaisesTo(r, OwnerOf[r])
    /\ upsets' = upsets \cup {<<"refused", OwnerOf[r]>>}

\* Mutant: a paused monitor is taken to leave its slot.
AtBudgetRunning(c) == Cardinality(RunningOf(c)) >= Budget

AtBudget(c) == Occupied(c) >= Budget
PausedOf(c) == {p \in Sub : OwnerOf[p] = c /\ status[p] = "paused"}

(* Dedup, then the slot budget: take over the slot of a paused monitor     *)
(* (the least recently active: any), else queue.                           *)
Admit ==
    /\ Top("admit")
    /\ LET r == Head(stack).sub
           c == OwnerOf[r]
       IN  \/ HasMonitor(TicketOf[r]) /\ Returns("deduped") /\ UNCHANGED upsets
           \/ ~HasMonitor(TicketOf[r]) /\ ~AtBudget(c) /\ Proceed("capacity")
           \/ /\ ~HasMonitor(TicketOf[r]) /\ AtBudget(c)
              /\ \E p \in PausedOf(c) :
                    Close(p, "slot_reclaimed", <<SpawnCall("capacity", r)>> \o Rest)
              /\ UNCHANGED upsets
           \/ /\ ~HasMonitor(TicketOf[r]) /\ AtBudget(c) /\ PausedOf(c) = {}
              /\ \/ Len(queue[c]) >= QueueMax /\ Raises
                 \/ /\ Len(queue[c]) < QueueMax
                    /\ queue' = [queue EXCEPT ![c] = Append(@, r)]
                    /\ status' = [status EXCEPT ![r] = "queued"]
                    /\ stack' = IF Drained THEN Tail(Rest) ELSE <<>>
                    /\ UNCHANGED upsets
    /\ UNCHANGED settings

(* The caps of the conversation and of the process.  A stale monitor of    *)
(* another conversation may be closed to make room (which are stale is     *)
(* left open); a paused one makes none.                                    *)
CheckCapacity ==
    /\ Top("capacity")
    /\ LET r == Head(stack).sub
           c == OwnerOf[r]
           free == settings.perSession = 0 \/ Cardinality(RunningOf(c)) < settings.perSession
       IN  \/ ~free /\ Raises
           \/ free /\ Cardinality(Running) < settings.maxActive /\ Proceed("create")
           \/ free /\ Cardinality(Running) >= settings.maxActive /\ Raises
           \/ /\ free /\ Cardinality(Running) >= settings.maxActive /\ settings.staleReclaim
              /\ \E x \in Sub :
                    /\ OwnerOf[x] # c /\ Active(x)
                    /\ Close(x, "stale_reclaimed", <<SpawnCall("recheck", r)>> \o Rest)
              /\ UNCHANGED upsets
    /\ UNCHANGED settings


RoomAfterReclaim == Cardinality(Running) < settings.maxActive

Recheck ==
    /\ Top("recheck")
    /\ IF RoomAfterReclaim THEN Proceed("create") ELSE Raises
    /\ UNCHANGED settings

\* Mutant: create trusts the dedup guard at the head of spawn.
NeverTaken(r) == FALSE

(* create looks for the dedup key again.                                   *)
TakenMeanwhile(r) == HasMonitor(TicketOf[r])

(* The checks on depth, kind of parent, model level and interval come      *)
(* last, after what the spawn has closed to make room.                     *)
CreateRecord ==
    /\ Top("create")
    /\ LET r == Head(stack).sub IN
           \/ r \in settings.invalid /\ Raises
           \/ /\ r \notin settings.invalid /\ TakenMeanwhile(r) /\ Returns("deduped")
              /\ upsets' = upsets \cup {<<"refused", OwnerOf[r]>>}
           \/ /\ r \notin settings.invalid /\ ~TakenMeanwhile(r) /\ Returns("running")
              /\ UNCHANGED upsets
    /\ UNCHANGED settings

-----------------------------------------------------------------------------
(* _drain_slot_budget_queue.  A drain below which a spawn of the same      *)
(* conversation is still in progress is a nested one.                      *)
Drain ==
    /\ Top("drain")
    /\ LET c == Head(stack).conv IN
           \/ /\ AtBudget(c) \/ queue[c] = <<>>
              /\ stack' = Rest /\ UNCHANGED <<status, queue, upsets>>
           \/ /\ ~AtBudget(c) /\ queue[c] # <<>>
              /\ LET r == Head(queue[c]) IN
                     /\ queue' = [queue EXCEPT ![c] = Tail(@)]
                     /\ status' = [status EXCEPT ![r] = "held"]
                     /\ stack' = <<SpawnCall("admit", r), DrainCall(c, r)>> \o Rest
              /\ upsets' = IF SpawnsOf(c, Rest) # {} THEN upsets \cup {<<"nested", c>>} ELSE upsets
    /\ UNCHANGED settings

CallStep ==
    StartDependents \/ CloseEach \/ Admit \/ CheckCapacity \/ Recheck \/ CreateRecord \/ Drain

-----------------------------------------------------------------------------
(* The rest of the process, between two awaits.                            *)
Idle == stack = <<>>

(* The requests of a conversation are numbered in the order they are made. *)
Ask(r) ==
    /\ Idle /\ status[r] = "new" /\ \A q \in 1..(r - 1) : OwnerOf[q] = OwnerOf[r] => status[q] # "new"
    /\ status' = [status EXCEPT ![r] = "asking"]
    /\ stack' = <<SpawnCall("admit", r)>>
    /\ UNCHANGED <<queue, settings, upsets>>

MarkPaused(r) ==
    /\ Idle /\ status[r] = "running"
    /\ status' = [status EXCEPT ![r] = "paused"]
    /\ UNCHANGED <<queue, stack, settings, upsets>>

(* resume and reopen look at no limit.                                     *)
Resume(r) ==
    /\ Idle /\ status[r] = "paused"
    /\ status' = [status EXCEPT ![r] = "running"]
    /\ upsets' = upsets \cup {<<"resumed", OwnerOf[r]>>}
    /\ UNCHANGED <<queue, stack, settings>>

Reopen(r) ==
    /\ Idle /\ status[r] = "waiting"
    /\ status' = [status EXCEPT ![r] = "running"]
    /\ upsets' = upsets \cup {<<"reopened", OwnerOf[r]>>}
    /\ UNCHANGED <<queue, stack, settings>>

(* The worker, a tool or a route closes a monitor.                         *)
CloseOne(r, why) ==
    /\ Idle /\ Active(r)
    /\ Close(r, why, <<>>)
    /\ UNCHANGED <<settings, upsets>>

(* The callback runs for every kind: the close of a task drains too.       *)
TaskCloses(c) ==
    /\ Idle /\ queue[c] # <<>>
    /\ stack' = <<DrainCall(c, NoSub)>>
    /\ UNCHANGED <<status, queue, settings, upsets>>

CloseAllForOwner(c) ==
    /\ Idle
    /\ stack' = <<EachCall("session closed", {r \in Sub : OwnerOf[r] = c /\ status[r] \in Records})>>
    /\ UNCHANGED <<status, queue, settings, upsets>>

Elsewhere ==
    \/ \E r \in Sub : \/ Ask(r) \/ MarkPaused(r) \/ Resume(r) \/ Reopen(r)
                      \/ \E why \in {"given_up", "resolved"} : CloseOne(r, why)
    \/ \E c \in Conv : TaskCloses(c) \/ CloseAllForOwner(c)

Next == CallStep \/ Elsewhere

Spec == Init /\ [][Next]_vars

(* A call in progress goes on: there is no await in it.                    *)
FairSpec == Spec /\ WF_vars(CallStep)

-----------------------------------------------------------------------------
(* Properties.                                                             *)
Frames ==
    [op : SpawnOps, sub : Sub] \cup [op : {"drain"}, conv : Conv, held : Sub \cup {NoSub}]
    \cup [op : {"dependents"}, ticket : Ticket]
    \cup [op : {"each"}, why : {"waiting_for_prerequisite", "session closed"}, left : SUBSET Sub]

(* The type of each variable (one invariant for the module).               *)
TypeOK ==
    /\ status \in [Sub -> Requests \cup Records]
    /\ queue \in [Conv -> Seq(Sub)]
    /\ stack \in Seq(Frames)
    /\ settings \in Settings
    /\ upsets \subseteq {"nested", "refused", "resumed", "reopened"} \X Conv

(* A conversation occupies no more slots than its budget (worker.py        *)
(* spawn_subsession, "occupied count stays unchanged"), except after a     *)
(* reopening, which looks at no limit, and after a drain that ran inside a *)
(* spawn of the same conversation and filled the slot the spawn was given. *)
WithinBudget ==
    \A c \in Conv :
        Occupied(c) > Budget => {<<"nested", c>>, <<"reopened", c>>} \cap upsets # {}

(* count_active stays within max_concurrent, whatever a reclaim and the    *)
(* drains inside it have started, as long as nothing is resumed or         *)
(* reopened.                                                               *)
WithinCap ==
    Cardinality(Running) > settings.maxActive =>
        \E c \in Conv : {<<"resumed", c>>, <<"reopened", c>>} \cap upsets # {}

(* Both limits of spawn_subsession hold, through the spawns that closes    *)
(* start in the middle of other spawns.                                    *)
WithinLimits == WithinBudget /\ WithinCap

(* No two active monitors have the same dedup key, though between the      *)
(* guards of spawn and create a drain may spawn the same ticket (only      *)
(* reopen does not look at the keys).                                      *)
OneMonitorPerTicket ==
    \A r, q \in Sub :
        /\ Active(r) /\ Active(q) /\ TicketOf[r] = TicketOf[q] /\ TicketOf[r] # NoTicket
        /\ \A c \in Conv : <<"reopened", c>> \notin upsets
        => r = q

(* Between calls no slot is free while a request waits for one, unless a   *)
(* spawn of that conversation was refused or deduplicated at the end (a    *)
(* refused drain stops, and such a spawn has already closed the monitor    *)
(* whose slot it wanted).                                                  *)
NoIdleSlot ==
    \A c \in Conv :
        Idle /\ queue[c] # <<>> /\ ~AtBudget(c) =>
            <<"refused", c>> \in upsets

(* The queue of a conversation is served in the order of arrival: what a   *)
(* drain starts is older than everything that stays queued, though a drain *)
(* may run inside another and the requests of both may be put back.        *)
ServedInOrder ==
    [][\A r, q \in Sub :
          /\ status[r] = "held" /\ status'[r] = "running"
          /\ status'[q] = "queued" /\ OwnerOf[q] = OwnerOf[r]
          => r < q]_vars

(* The closes, drains and spawns that call each other end.                 *)
CallsReturn == ~Idle ~> Idle
=============================================================================
