-------------------------- MODULE PeriodicScheduler --------------------------
(***************************************************************************)
(* The periodic scheduler (periodic/scheduler.py) with the callbacks the   *)
(* server gives it (chat/server/app.py): a tick fires the presets that are *)
(* due, a firing opens a session, hands over the pending decisions of the  *)
(* run before, closes that run, prunes old runs and starts its own turn.   *)
(* The operator writes to, closes and deletes the sessions and fires by    *)
(* hand, definitions are reloaded, and the process is killed, in the       *)
(* middle of a firing too.                                                 *)
(*                                                                         *)
(* A tick is one step: nothing in it waits.                                *)
(***************************************************************************)
EXTENDS Integers, Sequences, FiniteSets, SequencesExt

CONSTANTS
    N,          \* sessions are numbered in the order they are created
    Order,      \* the presets, in the order of the definitions
    Chats, Monitors,   \* the user_chat and the other subsessions
    TickEvery,  \* a tick comes at most so long after the one before
    None,
    Casts       \* the instances to consider, see cast

Ids == 1..N
Presets == ToSet(Order)
Subs == Chats \cup Monitors

ASSUME PeriodicConstants ==
    /\ N \in Nat /\ Order \in Seq(Presets) /\ TickEvery \in Nat \ {0}
    /\ None \notin Nat /\ Chats \cap Monitors = {}
    /\ \A c \in Casts :
          /\ c.interval \in [Presets -> Nat \ {0}] /\ c.anchor \in [Presets -> Nat \cup {None}]
          /\ c.defs \subseteq Presets /\ c.subs \subseteq Subs
          /\ c.retained \in Nat \ {0} /\ c.horizon \in Nat /\ c.acts \in Nat

VARIABLES
    cast,       \* interval, anchor of the presets; retained: _retained_runs;
                \* defs: those enabled at first; bounds: subs, horizon, acts
    clock, since,  \* the time, and the time since the last tick
    defs,       \* _definitions
    entry,      \* _state: preset -> last_fired_at, last and recent session ids
    disk,       \* the same in the file
    sess,       \* session -> "new", "open", "closed", "deleted"
    owner,      \* subsession -> its session; None before it is one, 0 after
    tasks,      \* the runs, a superset of _turn_tasks
    turns,      \* sessions in which a turn of the operator waits or runs
    queued,     \* those of them in which it waits for the coalescer
    mark,       \* sessions for which the coalescer says is_busy
    acts,       \* what the operator and the host did so far
    fires,      \* history: preset -> when it last fired
    shut,       \* history: sessions the operator closed or deleted
    lost,       \* history: sessions that a kill in a firing left behind, or that
                \* the scheduler closed under a running turn of the operator
    cut         \* history: subsessions the scheduler closed

world == <<entry, disk, sess, owner, tasks, fires, cut>>
histories == <<shut, lost>>
waits == <<turns, queued>>
vars == <<cast, clock, since, defs, world, waits, mark, acts, histories>>

Blank == [fired |-> None, last |-> None, recent |-> <<>>]

Init ==
    /\ cast \in Casts
    /\ clock = 1 /\ since = TickEvery /\ defs = cast.defs
    /\ entry = [p \in Presets |-> Blank] /\ disk = entry
    /\ sess = [s \in Ids |-> "new"] /\ owner = [x \in Subs |-> None]
    /\ tasks = {} /\ turns = {} /\ queued = {} /\ mark = {} /\ acts = 0
    /\ fires = [p \in Presets |-> None]
    /\ shut = {} /\ lost = {} /\ cut = {}

-----------------------------------------------------------------------------
(* When a preset fires.                                                    *)

CeilDiv(a, b) == (a + b - 1) \div b

NextRun(p, fired) ==
    LET i == cast.interval[p]  a == cast.anchor[p] IN
    IF a = None THEN IF fired = None THEN 0 ELSE fired + i
    ELSE IF fired # None THEN a + ((fired - a) \div i + 1) * i
    ELSE IF clock <= a THEN a
    ELSE a + CeilDiv(clock - a, i) * i
Due(p) == clock >= NextRun(p, entry[p].fired)

(* _previous_run_busy: the task of the run, or a turn the coalescer knows. *)
\* Mutant: only what the coalescer knows.
BusyIfMarked(p) == entry[p].last \in mark
Busy(p) == (\E t \in tasks : t.p = p) \/ entry[p].last \in mark

-----------------------------------------------------------------------------
(* Firings, of a set of presets one after the other.                       *)

Created == {s \in Ids : sess[s] # "new"}
Place(p) == CHOOSE i \in 1..Len(Order) : Order[i] = p
(* create_session: the sessions that firing the presets P creates.         *)
NewOf(p, P) == Cardinality(Created) + Cardinality({q \in P : Place(q) <= Place(p)})
News(P) == {NewOf(p, P) : p \in P}
Olds(P) == {entry[p].last : p \in P} \ {None}

LastOf(q) == IF Len(q) > cast.retained THEN SubSeq(q, Len(q) - cast.retained + 1, Len(q)) ELSE q
Entry(p, s) == [fired |-> clock, last |-> s, recent |-> LastOf(Append(entry[p].recent, s))]

(* _save_state.                                                            *)
\* Mutant: the file has the firings before.
SavedLate(e) == entry
Saved(e) == e

(* reassign_live_user_chats: the session of x once the presets C have a    *)
(* new one.                                                                *)
\* Mutant: the decisions of the run before stay where they are.
NotCarried(x, C, P) == owner[x]
Carried(x, C, P) ==
    IF x \in Chats /\ owner[x] \in Olds(C)
    THEN NewOf(CHOOSE p \in C : entry[p].last = owner[x], P) ELSE owner[x]

(* prune: every closed periodic session that no preset retains is deleted. *)
Retained(e) == UNION {ToSet(e[p].recent) \cup {e[p].last} : p \in Presets}
Prunable(st, e) == {s \in Ids : st[s] = "closed"} \ Retained(e)

(* close_all_for_owner for the sessions S, when the subsessions are those  *)
(* of o.  (The history cut leaves out what was in a session the operator   *)
(* closed or that are lost.)                                               *)
SubsClosed(o, S) ==
    /\ owner' = [x \in Subs |-> IF o[x] \in S THEN 0 ELSE o[x]]
    /\ cut' = cut \cup {x \in Subs : o[x] \in S \ (shut' \cup lost')}

(* fire, step by step: P have their session, E the file, C the hand-over   *)
(* and X the close of the run before.  What is pruned then is pruned after *)
(* each of them, or when the process starts again.                         *)
Firings(P, E, C, X) ==
    LET st == [s \in Ids |-> IF s \in News(P) THEN "open"
                             ELSE IF s \in Olds(X) /\ sess[s] # "deleted" THEN "closed" ELSE sess[s]] IN
    /\ entry' = [p \in Presets |-> IF p \in E THEN Entry(p, NewOf(p, P)) ELSE entry[p]]
    /\ disk' = Saved(entry')
    /\ fires' = [p \in Presets |-> IF p \in E THEN clock ELSE fires[p]]
    /\ \E old \in {Prunable(st, entry')} :
          /\ sess' = [s \in Ids |-> IF s \in old THEN "deleted" ELSE st[s]]
          /\ SubsClosed([x \in Subs |-> Carried(x, C, P)], Olds(X) \cup old)
Runs(P) == {[p |-> p, s |-> NewOf(p, P), pc |-> "new"] : p \in P}

Running == turns \ queued

(* Bound: firings need session numbers that are left.                      *)
Room(P) == Cardinality(Created) + Cardinality(P) <= N
Fire(P) ==
    /\ Room(P) /\ tasks' = tasks \cup Runs(P)
    /\ lost' = lost \cup (Olds(P) \cap Running) /\ UNCHANGED shut
    /\ Firings(P, P, P, P)

ToFire == {p \in defs : Due(p) /\ ~Busy(p)}
Tick ==
    /\ UNCHANGED <<cast, clock, defs, waits, mark, acts>>
    /\ Fire(ToFire) /\ since' = 0

Time ==
    /\ clock < cast.horizon /\ since < TickEvery
    /\ clock' = clock + 1 /\ since' = since + 1
    /\ UNCHANGED <<cast, defs, world, waits, mark, acts, histories>>

-----------------------------------------------------------------------------
(* A run.                                                                  *)

(* A turn in s begins, which opens the session again.  (One that was       *)
(* deleted is made anew, but not as a run of a preset: it stays deleted.)  *)
Begun(s) == IF sess[s] = "closed" THEN [sess EXCEPT ![s] = "open"] ELSE sess

(* The turn of a run, which submit_turn gave to the coalescer.  (The mark  *)
(* comes before it, but until then the run counts by its task.)            *)
StartRun(t) ==
    /\ t.pc = "new" /\ tasks' = (tasks \ {t}) \cup {[t EXCEPT !.pc = "turn"]}
    /\ mark' = mark \cup {t.s} /\ sess' = Begun(t.s)
    /\ UNCHANGED <<cast, clock, since, defs, entry, disk, owner, fires, cut, waits, acts, histories>>

(* A turn in s ends: the mark goes with the first of two (is_busy of       *)
(* ChatTurns).                                                             *)
MarkAfter(s, another) == IF another THEN {mark, mark \ {s}} ELSE {mark \ {s}}

(* The turn failed: its error is reported and the session stays open.      *)
\* Mutant: the task of a run that failed is kept.
RunFailsKept(t) ==
    /\ t.pc = "turn" /\ tasks' = (tasks \ {t}) \cup {[t EXCEPT !.pc = "kept"]}
    /\ mark' \in MarkAfter(t.s, t.s \in turns)
    /\ UNCHANGED <<cast, clock, since, defs, entry, disk, sess, owner, fires, cut, waits, acts, histories>>
RunFails(t) ==
    /\ t.pc = "turn" /\ tasks' = tasks \ {t}
    /\ mark' \in MarkAfter(t.s, t.s \in turns)
    /\ UNCHANGED <<cast, clock, since, defs, entry, disk, sess, owner, fires, cut, waits, acts, histories>>

(* The turn ended: a blank reply gets a report, and the session is closed  *)
(* unless one of its subsessions lives.                                    *)
Live(s) == {x \in Subs : owner[x] = s}
(* close_session_fully, which does not mark a session that has gone.       *)
ClosedFully(s) ==
    /\ sess' = [sess EXCEPT ![s] = IF @ = "deleted" THEN @ ELSE "closed"]
    /\ SubsClosed(owner, {s})
RunEnds(t) ==
    /\ t.pc = "turn" /\ tasks' = tasks \ {t}
    /\ lost' = lost \cup (IF Live(t.s) = {} THEN {t.s} \cap Running ELSE {})
    /\ UNCHANGED <<cast, clock, since, defs, entry, disk, fires, waits, acts, shut>>
    /\ IF Live(t.s) = {} THEN ClosedFully(t.s) ELSE UNCHANGED <<sess, owner, cut>>
    /\ mark' \in MarkAfter(t.s, t.s \in turns)

-----------------------------------------------------------------------------
(* What turns do, and the operator.                                        *)

InTurn(s) == s \in Running \/ \E t \in tasks : t.s = s /\ t.pc = "turn"

(* A turn starts a subsession.                                             *)
Start(x, s) ==
    /\ x \in cast.subs /\ owner[x] = None /\ InTurn(s)
    /\ owner' = [owner EXCEPT ![x] = s]
    /\ UNCHANGED <<cast, clock, since, defs, entry, disk, sess, tasks, fires, cut, waits, mark, acts, histories>>
(* The operator answers, or the monitor ends.                              *)
End(x) ==
    /\ owner[x] \in Ids /\ owner' = [owner EXCEPT ![x] = 0]
    /\ UNCHANGED <<cast, clock, since, defs, entry, disk, sess, tasks, fires, cut, waits, mark, acts, histories>>

(* Bound: what the operator and the host do.                               *)
Act == acts < cast.acts /\ acts' = acts + 1

(* The operator writes to a session.  His turn waits for the coalescer,    *)
(* begins and ends.                                                        *)
OperatorTurn(s) ==
    /\ Act /\ sess[s] \in {"open", "closed"} /\ s \notin turns
    /\ turns' = turns \cup {s} /\ queued' = queued \cup {s} /\ mark' = mark \cup {s}
    /\ UNCHANGED <<cast, clock, since, defs, world, histories>>
OperatorTurnBegins(s) ==
    /\ s \in queued /\ queued' = queued \ {s} /\ sess' = Begun(s)
    /\ UNCHANGED <<cast, clock, since, defs, entry, disk, owner, tasks, fires, cut, turns, mark, acts, histories>>
OperatorTurnEnds(s) ==
    /\ s \in Running /\ turns' = turns \ {s}
    /\ mark' \in MarkAfter(s, \E t \in tasks : t.s = s /\ t.pc = "turn")
    /\ UNCHANGED <<cast, clock, since, defs, world, queued, acts, histories>>

(* The routes to close and to delete a session and to fire by hand.        *)
GoneBy(s, st) ==
    /\ sess' = [sess EXCEPT ![s] = st] /\ shut' = shut \cup {s}
    /\ owner' = [x \in Subs |-> IF owner[x] = s THEN 0 ELSE owner[x]]
    /\ UNCHANGED <<cast, clock, since, defs, entry, disk, tasks, fires, cut, waits, mark, lost>>
CloseRoute(s) == Act /\ sess[s] = "open" /\ GoneBy(s, "closed")
DeleteRoute(s) == Act /\ sess[s] \in {"open", "closed"} /\ GoneBy(s, "deleted")
FireRoute(p) ==
    /\ Act /\ p \in defs /\ ~Busy(p)
    /\ UNCHANGED <<cast, clock, since, defs, waits, mark>>
    /\ Fire({p})

(* reload_definitions: a preset is switched on or off.                     *)
Reload(p) ==
    /\ Act /\ defs' = IF p \in defs THEN defs \ {p} ELSE defs \cup {p}
    /\ UNCHANGED <<cast, clock, since, world, waits, mark, histories>>

-----------------------------------------------------------------------------
(* The process is killed and starts again with the file; it prunes and     *)
(* then ticks.                                                             *)
Restart ==
    /\ Act
    /\ tasks' = {} /\ turns' = {} /\ queued' = {} /\ mark' = {} /\ since' = TickEvery
    /\ UNCHANGED <<cast, clock, defs, shut>>

Kill ==
    /\ Restart /\ UNCHANGED <<disk, fires, lost>>
    /\ LET old == Prunable(sess, disk) IN
       /\ entry' = disk /\ SubsClosed(owner, old)
       /\ sess' = [s \in Ids |-> IF s \in old THEN "deleted" ELSE sess[s]]

(* The kill comes in the firing of p by a tick: after its session, the     *)
(* file, the hand-over or the close.                                       *)
Steps == {"session", "file", "handover", "close"}
KillInFire(p, k) ==
    LET done == {q \in ToFire : Place(q) < Place(p)}
        P == done \cup {p}
        upto(S) == IF k \in S THEN done ELSE P IN
    /\ p \in ToFire /\ Room(P)
    /\ Restart
    /\ lost' = lost \cup (IF k = "session" THEN {NewOf(p, P)} ELSE IF k = "close" THEN {} ELSE Olds({p}))
    /\ Firings(P, upto({"session"}), upto({"session", "file"}), upto({"session", "file", "handover"}))

-----------------------------------------------------------------------------
RunSteps == \E t \in tasks : StartRun(t) \/ RunFails(t) \/ RunEnds(t)
OperatorSteps ==
    \/ \E s \in Ids : OperatorTurn(s) \/ CloseRoute(s) \/ DeleteRoute(s)
    \/ \E p \in Presets : FireRoute(p) \/ Reload(p)
TurnSteps == \E s \in Ids : OperatorTurnBegins(s) \/ OperatorTurnEnds(s)
Next ==
    \/ Tick \/ Time \/ RunSteps \/ OperatorSteps \/ TurnSteps
    \/ \E x \in Subs : End(x) \/ \E s \in Ids : Start(x, s)
    \/ Kill \/ \E p \in Presets, k \in Steps : KillInFire(p, k)

Spec == Init /\ [][Next]_vars

(* The loop of the scheduler goes on, and turns begin and end.             *)
FairSpec == Spec /\ WF_vars(Tick) /\ WF_vars(RunSteps) /\ WF_vars(TurnSteps)

-----------------------------------------------------------------------------
(* Properties.                                                             *)

TypeOK ==
    /\ cast \in Casts /\ clock \in Nat /\ since \in 0..TickEvery /\ defs \subseteq Presets
    /\ \A e \in {entry[p] : p \in Presets} :
          /\ e.fired \in Nat \cup {None} /\ e.last \in Ids \cup {None}
          /\ Len(e.recent) <= cast.retained
          /\ IF e.recent = <<>> THEN e = Blank ELSE e.last = Last(e.recent)
    /\ sess \in [Ids -> {"new", "open", "closed", "deleted"}]
    /\ owner \in [Subs -> Ids \cup {None, 0}]
    /\ \A t \in tasks : t.p \in Presets /\ t.s \in Ids /\ t.pc \in {"new", "turn"}
    /\ queued \subseteq turns /\ turns \cup mark \cup shut \cup lost \subseteq Ids
    /\ acts \in 0..cast.acts

(* A preset has one run at a time, by tick or by hand, whatever the        *)
(* operator writes to its session; and the run is that of its last session *)
(* and in a session that nobody but the operator closed.                   *)
OneRunAtATime ==
    \A t \in tasks :
       /\ \A u \in tasks : u.p = t.p => u = t
       /\ entry[t.p].last = t.s
       /\ sess[t.s] = "open" \/ t.s \in shut

(* A decision that waits for the operator is ended by the operator: no     *)
(* completed run, later firing, prune or restart closes it.                *)
DecisionsSurvive == cut \cap Chats = {}

(* Between two firings of a preset, of which the second is by a tick, lies *)
(* an interval, or a point of the grid of its anchor; a restart counts for *)
(* nothing.                                                                *)
Spaced(p, f, g) ==
    LET i == cast.interval[p]  a == cast.anchor[p] IN
    IF a = None THEN g - f >= i ELSE (g - a) \div i > (f - a) \div i
Cadence ==
    [][\A p \in Presets : Tick /\ fires[p] # None /\ fires'[p] # fires[p]
          => Spaced(p, fires[p], fires'[p])]_vars

(* A preset that is due fires, however its runs end.                       *)
DueFires == \A p \in Presets : (p \in defs /\ Due(p)) ~> (p \notin defs \/ ~Due(p))

(* The first run of an anchored preset comes: at the anchor or, when that  *)
(* has passed, at the next point of the grid, as _next_run says.           *)
AnchoredRunComes ==
    \A p \in cast.defs :
       cast.anchor[p] # None /\ clock > cast.anchor[p] + cast.interval[p] + TickEvery => fires[p] # None
=============================================================================
