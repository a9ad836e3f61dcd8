-------------------------- MODULE ConversationStore --------------------------
(***************************************************************************)
(* The conversation store (chat/conversation.py): the sessions in LRU      *)
(* order, the owners that list them, the window of recorded turns, the     *)
(* file, and the summary that the periodic compaction                      *)
(* (evergoing/scheduler.py) puts over the older turns while the agent is   *)
(* asked for it and turns go on.                                           *)
(*                                                                         *)
(* A recorded turn is a number, a summary the set of the turns it tells    *)
(* of.  trim_session, register_session and record_for_owner have no      *)
(* caller in the program and are left out.                                 *)
(***************************************************************************)
EXTENDS Integers, Sequences, FiniteSets, SequencesExt

CONSTANTS
    N,          \* session ids are numbered in the order they come into use
    Owners,     \* the canonical owners
    Periodic,   \* the owner that gets no replacement for a deleted session
    None,
    Casts       \* the instances to consider, see cast

Ids == 1..N

ASSUME StoreConstants ==
    /\ N \in Nat /\ Periodic \in Owners /\ None \notin Owners /\ None \notin Ids
    /\ \A c \in Casts :
          /\ c.window \in Nat \ {0} /\ c.capacity \in Nat \ {0} /\ c.keep \in Nat \ {0}
          /\ c.turns \in Nat /\ c.kills \in Nat
          /\ c.ids \in SUBSET Ids /\ c.legacy \in BOOLEAN
          /\ c.legacy => c.window >= 2 /\ 1 \in Ids

VARIABLES
    cast,       \* window: max_history_turns, capacity: max_conversations,
                \* keep: keep_recent_runs, legacy: the file holds a session
                \* whose summary is missing; bounds: ids, turns, kills
    data,       \* _sessions: id -> session, see New
    lru,        \* their order, least recently used first
    owners,     \* _owners: owner -> active session and session ids
    file,       \* what the last persist wrote
    turn,       \* id -> the owner of the turn that runs, None without one
    pass,       \* the summary call of the compaction that runs
    held,       \* the session a repair began with, once the store dropped it
    last,       \* the number of the last turn
    kills,      \* restarts so far
    torn,       \* history: the window moved, or the session went, under a summary
    used,       \* history: the ids that were ever in use
    lost,       \* history: the turns a summary covers and does not tell of
    evicted,    \* history: sessions popped by the cap
    deleted     \* history: sessions deleted and not used again

vars == <<cast, data, lru, owners, file, turn, pass, held, last, kills,
          torn, used, lost, evicted, deleted>>

(* turns: the window, comp: compacted_turn_index, sum: compacted_summary,  *)
(* {} when there is none, count: turn_count, mark: last_trim_turn_count.   *)
New == [turns |-> <<>>, comp |-> 0, sum |-> {}, count |-> 0, mark |-> 0, closed |-> FALSE]
Gone == [New EXCEPT !.count = -1]
(* A session of the file whose summary is missing.                         *)
Legacy == [turns |-> <<1, 2>>, comp |-> 1, sum |-> {}, count |-> 2, mark |-> 1, closed |-> FALSE]
Unknown == [known |-> FALSE, active |-> None, ids |-> {}]
Idle == [pc |-> "idle", s |-> None, cover |-> 0, of |-> {}]

Present(d) == {s \in Ids : d[s] # Gone}
Listed(o) == UNION {o[w].ids : w \in Owners}

(* ConversationStoreSerializer.persist: the sessions an owner lists; an    *)
(* owner that lists none is left out.                                      *)
Saved(d, o) ==
    [data |-> [s \in Ids |-> IF s \in Listed(o) THEN d[s] ELSE Gone],
     owners |-> [w \in Owners |->
        IF o[w].ids \cap Present(d) = {} THEN Unknown
        ELSE [o[w] EXCEPT !.ids = @ \cap Present(d)]]]
Persist == file' = Saved(data', owners')

Init ==
    /\ cast \in Casts
    /\ data = [s \in Ids |->
          IF cast.legacy /\ s = 1
          THEN Legacy
          ELSE Gone]
    /\ lru = IF cast.legacy THEN <<1>> ELSE <<>>
    /\ owners = [w \in Owners |-> IF cast.legacy /\ w # Periodic
                                  THEN [known |-> TRUE, active |-> 1, ids |-> {1}] ELSE Unknown]
    /\ file = Saved(data, owners)
    /\ turn = [s \in Ids |-> None] /\ pass = Idle /\ held = Gone
    /\ last = IF cast.legacy THEN 2 ELSE 0
    /\ kills = 0 /\ torn = {} /\ lost = {} /\ used = Present(data) /\ evicted = {} /\ deleted = {}

(* move_to_end and _evict_overflow.                                        *)
Touched(s) == Append(SelectSeq(lru, LAMBDA q : q # s), s)
Overflow(l) == IF Len(l) > cast.capacity THEN Len(l) - cast.capacity ELSE 0

(* The order becomes l, the sessions d, the owners o; then what is over    *)
(* the cap is dropped and listed no more.  (moved: added to torn.)         *)
Evict(l, d, o, moved) ==
    LET victims == {l[i] : i \in 1..Overflow(l)} IN
    /\ lru' = SubSeq(l, Overflow(l) + 1, Len(l))
    /\ data' = [q \in Ids |-> IF q \in victims THEN Gone ELSE d[q]]
    /\ owners' = [w \in Owners |-> [o[w] EXCEPT !.ids = @ \ victims]]
    /\ evicted' = evicted \cup victims
    /\ deleted' = (deleted \cup Present(data)) \ Present(d)
    /\ used' = used \cup Present(d)
    /\ torn' = torn \cup moved \cup {s \in victims : pass.s = s}
    /\ held' = IF pass.pc = "repair" /\ held = Gone /\ data'[pass.s] = Gone
               THEN data[pass.s] ELSE held

ValueOf(s) == IF data[s] = Gone THEN New ELSE data[s]
(* A fresh id: the session_factory never returns one twice.                *)
Fresh(s) == s \in cast.ids \ used /\ \A q \in cast.ids : q < s => q \in used
(* Bound: the turns begun and recorded.                                    *)
MoreTurns == last + Cardinality({s \in Ids : turn[s] # None}) < cast.turns

-----------------------------------------------------------------------------
(* Turns.                                                                  *)

(* begin and reopen_session, for a turn of owner w: a session that is not  *)
(* known is created and evicts; it is not written, unless it was closed.   *)
BeginTurn(s, w) ==
    /\ s \in used \/ Fresh(s)
    /\ turn[s] = None /\ MoreTurns
    /\ turn' = [turn EXCEPT ![s] = w]
    /\ Evict(Touched(s), [data EXCEPT ![s] = [ValueOf(s) EXCEPT !.closed = FALSE]], owners, {})
    /\ IF ValueOf(s).closed THEN Persist ELSE UNCHANGED file
    /\ UNCHANGED <<cast, pass, last, kills, lost>>

(* A message that names no session runs under a fresh id that begin never  *)
(* sees (had_session).                                                     *)
BeginBlank(s, w) ==
    /\ Fresh(s) /\ MoreTurns
    /\ turn' = [turn EXCEPT ![s] = w] /\ used' = used \cup {s}
    /\ UNCHANGED <<cast, data, lru, owners, file, pass, held, last, kills, torn, lost, evicted, deleted>>

(* The window after one more turn; its indexes move with it.               *)
Recorded(r) ==
    LET all == Append(r.turns, last + 1)
        out == IF Len(all) > cast.window THEN Len(all) - cast.window ELSE 0 IN
    [r EXCEPT !.turns = SubSeq(all, out + 1, Len(all)),
              !.comp = IF @ > out THEN @ - out ELSE 0,
              !.count = @ + 1]
(* The history torn: the window of s moves under the summary being made.   *)
Slid(s) == IF pass.pc = "fold" /\ pass.s = s /\ Len(ValueOf(s).turns) = cast.window
           THEN {s} ELSE {}

(* record, for the owner of the turn: nothing when the session has gone.   *)
\* Mutant: the owner lists and writes the session although it has gone.
RecordAnyway(s) ==
    LET w == turn[s] IN
    /\ w # None /\ turn' = [turn EXCEPT ![s] = None]
    /\ data' = [data EXCEPT ![s] = Recorded(ValueOf(s))]
    /\ lru' = Touched(s) /\ last' = last + 1
    /\ owners' = IF owners[w].known
                 THEN [owners EXCEPT ![w].active = s, ![w].ids = @ \cup {s}]
                 ELSE owners
    /\ torn' = torn \cup Slid(s)
    /\ Persist
    /\ UNCHANGED <<cast, pass, held, kills, used, lost, evicted, deleted>>
Record(s) ==
    LET w == turn[s] IN
    /\ w # None /\ turn' = [turn EXCEPT ![s] = None]
    /\ IF data[s] = Gone
       THEN UNCHANGED <<data, lru, last, owners, torn, file>>
       ELSE /\ data' = [data EXCEPT ![s] = Recorded(@)]
            /\ lru' = Touched(s) /\ last' = last + 1
            /\ owners' = IF owners[w].known
                         THEN [owners EXCEPT ![w].active = s, ![w].ids = @ \cup {s}]
                         ELSE owners
            /\ torn' = torn \cup Slid(s)
            /\ Persist
    /\ UNCHANGED <<cast, pass, held, kills, used, lost, evicted, deleted>>

(* record_for_session, for a reaction: the session is created again when   *)
(* it has gone, and no owner lists it for that.                            *)
RecordReaction(s) ==
    /\ s \in used /\ MoreTurns /\ last' = last + 1
    /\ Evict(Touched(s), [data EXCEPT ![s] = Recorded(ValueOf(s))], owners, Slid(s))
    /\ Persist
    /\ UNCHANGED <<cast, turn, pass, kills, lost>>

-----------------------------------------------------------------------------
(* The operations of an owner.                                             *)

(* create_session, and list_sessions for an owner that is not known yet.   *)
Create(w, s) ==
    /\ Fresh(s)
    /\ Evict(Touched(s), [data EXCEPT ![s] = New],
             [owners EXCEPT ![w] = [known |-> TRUE, active |-> s, ids |-> @.ids \cup {s}]], {})
    /\ Persist
    /\ UNCHANGED <<cast, turn, pass, last, kills, lost>>

(* The active session of an owner that has lost session s: another one it  *)
(* lists (the newest), a fresh one, or none for the periodic owner.        *)
ActiveAfter(w, s) ==
    LET rest == (owners[w].ids \ {s}) \cap Present(data) IN
    IF owners[w].active # s THEN {owners[w].active}
    ELSE IF rest # {} THEN rest
    ELSE IF w = Periodic THEN {None} ELSE {f \in Ids : Fresh(f)}

(* delete_session: the session goes when no other owner lists it.          *)
Shared(w, s) == \E v \in Owners \ {w} : s \in owners[v].ids
Delete(w, s) ==
    LET gone == IF Shared(w, s) THEN {} ELSE {s} IN
    /\ s \in owners[w].ids
    /\ \E a \in ActiveAfter(w, s) :
          LET fresh == {f \in {a} \ {None} : Fresh(f)} IN
          Evict(SelectSeq(lru, LAMBDA q : q \notin gone) \o SetToSeq(fresh),
                [q \in Ids |-> IF q \in gone THEN Gone ELSE IF q \in fresh THEN New ELSE data[q]],
                [owners EXCEPT ![w].ids = (@ \ {s}) \cup fresh, ![w].active = a],
                {q \in gone : pass.s = q})
    /\ Persist
    /\ UNCHANGED <<cast, turn, pass, last, kills, lost>>

CloseSession(w, s) ==
    /\ s \in owners[w].ids /\ data[s] # Gone
    /\ data' = [data EXCEPT ![s].closed = TRUE]
    /\ UNCHANGED <<cast, lru, owners, turn, pass, held, last, kills, torn, used, lost, evicted, deleted>>
    /\ Persist

-----------------------------------------------------------------------------
(* Compaction: EvergoingSummaryScheduler visits the sessions one after the *)
(* other; a visit may ask for the repair of a summary, then for a fold.    *)

(* What the agent sees of a session is not the turns below its index.      *)
Hidden(r) == {r.turns[i] : i \in 1..r.comp}
Unrepaired(r) == r.sum = {} /\ r.comp > 0

(* The turns the next summary is made from: what the agent sees, the       *)
(* summary before included, without the recent turns.                      *)
\* Mutant: the summary before is not among them.
FoldedWindow(r) == {r.turns[i] : i \in (r.comp + 1)..(Len(r.turns) - cast.keep)}
Folded(r) == r.sum \cup {r.turns[i] : i \in (r.comp + 1)..(Len(r.turns) - cast.keep)}

(* generate_idle_summary: a text that tells of all the turns it was asked  *)
(* about, or of some: windows that fail or are over MAX_CHUNKS are left    *)
(* out of it, a long turn (the summary before is one) is cut.              *)
Texts == SUBSET pass.of \ {{}}

(* The fold that a visit of s comes to: the gates read the session o that  *)
(* the visit began with and the session r that the store has.              *)
FoldOf(s, o, r) ==
    IF r # Gone /\ r.count > r.mark /\ Len(o.turns) - o.comp > cast.keep /\ Folded(r) # {}
    THEN [pc |-> "fold", s |-> s, cover |-> Len(o.turns) - cast.keep, of |-> Folded(r)]
    ELSE Idle

StartFold(s) ==
    LET r == data[s] IN
    /\ pass.pc = "idle" /\ r # Gone /\ ~Unrepaired(r)
    /\ pass' = FoldOf(s, r, r) /\ pass' # Idle
    /\ UNCHANGED <<cast, data, lru, owners, file, turn, held, last, kills, torn, used, lost, evicted, deleted>>

(* compact_session with the boundary of the snapshot.                      *)
\* Mutant: the boundary is taken when the summary arrives.
BoundaryNow(r) == Len(r.turns) - cast.keep
Boundary(r) == IF pass.cover < Len(r.turns) THEN pass.cover ELSE Len(r.turns)
Compacted(r, text) == [r EXCEPT !.sum = text,
                                !.comp = IF Boundary(r) > @ THEN Boundary(r) ELSE @,
                                !.mark = r.count]
(* The history lost: what the text leaves out, and what the session hid    *)
(* without a summary because its repair had failed.                        *)
LeftOut(r, text) == (pass.of \ text) \cup (IF r.sum = {} THEN Hidden(r) ELSE {})
\* Mutant: the summary is not written.
FinishFoldUnsaved ==
    /\ pass.pc = "fold" /\ pass' = Idle
    /\ IF data[pass.s] = Gone
       THEN UNCHANGED <<data, lost>>
       ELSE \E text \in Texts : /\ data' = [data EXCEPT ![pass.s] = Compacted(@, text)]
                                /\ lost' = lost \cup LeftOut(data[pass.s], text)
    /\ UNCHANGED <<cast, lru, owners, file, turn, held, last, kills, torn, used, evicted, deleted>>
FinishFold ==
    /\ pass.pc = "fold" /\ pass' = Idle
    /\ IF data[pass.s] = Gone
       THEN UNCHANGED <<data, file, lost>>
       ELSE \E text \in Texts : /\ data' = [data EXCEPT ![pass.s] = Compacted(@, text)]
                                /\ lost' = lost \cup LeftOut(data[pass.s], text)
                                /\ file' = Saved(data', owners)
    /\ UNCHANGED <<cast, lru, owners, turn, held, last, kills, torn, used, evicted, deleted>>
(* The agent fails to make a summary: nothing changes.                     *)
FoldFails ==
    /\ pass.pc = "fold" /\ pass' = Idle
    /\ UNCHANGED <<cast, data, lru, owners, file, turn, held, last, kills, torn, used, lost, evicted, deleted>>

(* A session whose summary is missing gets one of the turns it covers.     *)
StartRepair(s) ==
    LET r == data[s] IN
    /\ pass.pc = "idle" /\ r # Gone /\ Unrepaired(r)
    /\ pass' = [pc |-> "repair", s |-> s, cover |-> r.comp, of |-> Hidden(r)]
    /\ UNCHANGED <<cast, data, lru, owners, file, turn, held, last, kills, torn, used, lost, evicted, deleted>>
(* The visit goes on to the fold, whatever became of the repair.           *)
GoOn ==
    /\ held' = Gone
    /\ pass' = FoldOf(pass.s, IF held = Gone THEN data'[pass.s] ELSE held, data'[pass.s])
    /\ UNCHANGED <<cast, lru, owners, turn, last, kills, torn, used, evicted, deleted>>
(* backfill_compacted_summary.                                             *)
FinishRepair ==
    LET r == data[pass.s] IN
    /\ pass.pc = "repair"
    /\ IF r = Gone \/ ~Unrepaired(r)
       THEN UNCHANGED <<data, file, lost>>
       ELSE \E text \in Texts : /\ data' = [data EXCEPT ![pass.s].sum = text]
                                /\ lost' = lost \cup (pass.of \ text)
                                /\ file' = Saved(data', owners)
    /\ GoOn
RepairFails == pass.pc = "repair" /\ UNCHANGED <<data, file, lost>> /\ GoOn

-----------------------------------------------------------------------------
(* The process is killed and starts again: load.  The order of the file is *)
(* that of a set.                                                          *)
Orders(S) == {q \in [1..Cardinality(S) -> S] : {q[i] : i \in 1..Cardinality(S)} = S}
ActiveLoaded(o) == IF o.active \in o.ids THEN {o.active} ELSE IF o.ids = {} THEN {None} ELSE o.ids
Restart ==
    /\ kills < cast.kills /\ kills' = kills + 1
    /\ data' = file.data
    /\ lru' \in Orders(Present(file.data))
    /\ \E a \in [Owners -> Ids \cup {None}] :
          /\ \A w \in Owners : a[w] \in ActiveLoaded(file.owners[w])
          /\ owners' = [w \in Owners |-> [file.owners[w] EXCEPT !.active = a[w]]]
    /\ turn' = [s \in Ids |-> None] /\ pass' = Idle /\ held' = Gone
    /\ UNCHANGED <<cast, file, last, torn, used, lost, evicted, deleted>>

-----------------------------------------------------------------------------
Next ==
    \/ \E s \in Ids : Record(s) \/ RecordReaction(s) \/ StartFold(s) \/ StartRepair(s)
    \/ \E s \in Ids, w \in Owners : \/ BeginTurn(s, w) \/ BeginBlank(s, w) \/ Create(w, s) \/ Delete(w, s)
                                    \/ CloseSession(w, s)
    \/ FinishFold \/ FoldFails \/ FinishRepair \/ RepairFails \/ Restart

Spec == Init /\ [][Next]_vars

-----------------------------------------------------------------------------
(* Properties.                                                             *)

TypeOK ==
    /\ cast \in Casts
    /\ \A s \in Present(data) :
          LET r == data[s] IN
          /\ Len(r.turns) <= cast.window /\ r.comp \in 0..Len(r.turns)
          /\ r.mark <= r.count /\ Len(r.turns) <= r.count
          /\ ToSet(r.turns) \cup r.sum \subseteq 1..last
    /\ ToSet(lru) = Present(data) /\ Len(lru) = Cardinality(Present(data))
    /\ Len(lru) <= cast.capacity
    /\ Listed(owners) \subseteq Present(data)
    /\ owners \in [Owners -> [known : BOOLEAN, active : Ids \cup {None}, ids : SUBSET Ids]]
    /\ turn \in [Ids -> Owners \cup {None}]
    /\ pass.pc \in {"idle", "fold", "repair"} /\ pass.of \subseteq 1..last
    /\ (held # Gone => pass.pc = "repair") /\ lost \subseteq 1..last
    /\ torn \cup evicted \cup deleted \subseteq used /\ used \subseteq Ids /\ kills \in 0..cast.kills

(* What the agent no longer sees is in the summary: every turn of the      *)
(* window below compacted_turn_index is told of by the summary over it -   *)
(* but for the turns that the summariser itself left out or that a failed  *)
(* repair left behind (lost), and for a session whose full window moved,   *)
(* or that was replaced, while the summary was made (torn).                *)
ViewIsWhole ==
    \A s \in Present(data) \ torn :
       data[s].sum # {} => Hidden(data[s]) \subseteq data[s].sum \cup lost

(* The same for every session, as compact_session promises: the boundary   *)
(* of the snapshot covers no turn that the summariser was not given.       *)
SummarySawWhatItCovers ==
    \A s \in Present(data) :
       data[s].sum # {} => Hidden(data[s]) \subseteq data[s].sum \cup lost

(* A turn that a summary tells of stays in the summaries after it, while   *)
(* the session lives, unless the summariser leaves it out: it may have     *)
(* left the window, so nothing else keeps it.                              *)
NothingForgotten ==
    [][\A s \in Ids : data[s] # Gone /\ data'[s] # Gone /\ s \notin torn'
          => data[s].sum \ lost' \subseteq data'[s].sum]_vars

(* A session that an owner lists is on disk as it is in memory, at every   *)
(* step: a kill at any moment loses no recorded turn and no summary of it. *)
ListedIsSaved ==
    \A w \in Owners : \A s \in owners[w].ids :
       file.data[s] = data[s] /\ s \in file.owners[w].ids

(* The active session of an owner is one it lists, through deletions by    *)
(* either owner and restarts - unless the cap evicted it.                  *)
ActiveIsListed ==
    \A w \in Owners : owners[w].active \in owners[w].ids \cup evicted \cup {None}

(* The three places that name the sessions of an owner agree: the active   *)
(* one is listed, and what is listed is on disk.                           *)
ListsAgree == ActiveIsListed /\ ListedIsSaved

(* A deleted session does not come back through a turn that was running or *)
(* a restart: only a new turn or a reaction makes it again.                *)
DeletedStaysDeleted ==
    \A s \in deleted : data[s] = Gone /\ file.data[s] = Gone /\ s \notin Listed(owners)
=============================================================================
