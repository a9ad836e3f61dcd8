---------------------------- MODULE StartupResume ----------------------------
(***************************************************************************)
(* What survives a restart: the registry file (registry_store.py), the     *)
(* startup hook that reads it back (resume.py) and the records it makes.   *)
(*                                                                         *)
(* The file is read once, at the start.  Every spawn of the hook writes it *)
(* again from the records restored so far, so the file shrinks and grows   *)
(* while the hook runs, and a record that fails to come back is gone from  *)
(* it.  The hook does not await: no worker runs before it ends, but the    *)
(* process may be killed between any two writes.                           *)
(***************************************************************************)
EXTENDS Integers, Sequences, FiniteSets

CONSTANTS
    N,          \* records are numbered in the order they are first created
    Casts,      \* the instances to consider, see cast
    NoKey,
    Cap,        \* max_concurrent
    Msg,        \* messages to the records
    Restarts    \* bound: kills of the process

Sub == 1..N

ASSUME ResumeConstants ==
    /\ N \in Nat /\ Cap \in Nat \ {0} /\ Restarts \in Nat
    /\ \A c \in Casts :
          /\ c.kind \in [Sub -> {"periodic", "event", "chat", "task"}]
          /\ DOMAIN c.key = Sub /\ c.bad \subseteq Sub

VARIABLES
    cast,       \* kind: Sub -> kind, key: Sub -> dedup key or NoKey, bad: the
                \* records the next start refuses (a changed minimum interval)
    phase,      \* "up", "down", "resuming"
    made,       \* the number of records created so far
    mem,        \* SubsessionRegistry._subs with the inboxes
    file,       \* the persisted entries
    boot,       \* the entries as the hook loaded them, while it runs
    todo,       \* the entries still to resume
    rest,       \* what remains of the current entry: "next", "inbox", "text", "pause"
    taken,      \* the messages in the current turn of a record's worker
    heard,      \* history: messages that were input of a completed turn
    sent,       \* history: Msg -> the record that accepted it, 0 before that,
                \* Void once the record was closed
    asleep,     \* history: the records whose pause nobody has taken back
    kills,      \* restarts so far
    cut         \* history: the process was killed while the hook ran

vars == <<cast, phase, made, mem, file, boot, todo, rest, taken, heard, sent, asleep,
          kills, cut>>

KindOf == cast.kind
KeyOf == cast.key
Bad == cast.bad

(* st:     active, paused, auto (closed with a reason of                   *)
(*         _AUTO_CLOSE_REASONS), closed (any other end), none (no record)  *)
(* inbox, flight: _inboxes and _in_flight                                  *)
(* text:   transcript messages newer than the last completed turn          *)
(* note:   messages that the prompt of the first turn quotes               *)
(* asked:  a turn was completed (_entry_last_assistant_text)               *)
(* merged: the checkpoint's last_known_state is terminal                   *)
(* first:  the worker's first turn, with the prompt, is still to come      *)
None == [st |-> "none", inbox |-> {}, flight |-> {}, text |-> {}, note |-> {},
         asked |-> FALSE, merged |-> FALSE, first |-> FALSE]
Fresh == [None EXCEPT !.st = "active", !.first = TRUE]

Monitor(s) == KindOf[s] \in {"periodic", "event"}
Live(r) == r.st \in {"active", "paused"}
Counted(m) == {s \in Sub : m[s].st = "active"}
KeyTaken(m, s) == KeyOf[s] # NoKey /\ \E q \in Sub : Live(m[q]) /\ KeyOf[q] = KeyOf[s]
Void == -1
SentToOthers(s) == [m \in Msg |-> IF sent[m] = s THEN Void ELSE sent[m]]
MailOf(r) == r.inbox \cup r.flight

Init ==
    /\ cast \in Casts
    /\ phase = "up" /\ made = 0 /\ kills = 0 /\ cut = FALSE
    /\ mem = [s \in Sub |-> None] /\ file = mem /\ boot = mem
    /\ todo = {} /\ rest = "next"
    /\ taken = [s \in Sub |-> {}]
    /\ heard = {} /\ sent = [m \in Msg |-> 0] /\ asleep = {}

(* persist: all records of the registry, in one replace of the file.       *)
Persist(m) == mem' = m /\ file' = m

hookVars == <<cast, phase, made, boot, todo, rest, kills, cut>>

-----------------------------------------------------------------------------
(* The running process: each operation persists before it returns.         *)

(* spawn_subsession with its dedup guard and cap.                          *)
Spawn(s) ==
    /\ phase = "up" /\ s = made + 1 /\ made' = s
    /\ ~KeyTaken(mem, s) /\ Cardinality(Counted(mem)) < Cap
    /\ Persist([mem EXCEPT ![s] = Fresh])
    /\ UNCHANGED <<cast, phase, boot, todo, rest, kills, cut, taken, heard, sent, asleep>>

(* enqueue_message: the transcript is written at the same time.            *)
Send(s, m) ==
    /\ phase = "up" /\ Live(mem[s]) /\ sent[m] = 0
    /\ Persist([mem EXCEPT ![s].inbox = @ \cup {m},
                           ![s].text = IF KindOf[s] = "chat" THEN @ \cup {m} ELSE @])
    /\ sent' = [sent EXCEPT ![m] = s]
    /\ UNCHANGED <<hookVars, taken, heard, asleep>>

(* The worker starts a turn: the first with the prompt, the others with    *)
(* what it drains.                                                         *)
StartTurn(s) ==
    /\ phase = "up" /\ mem[s].st = "active" /\ taken[s] = {}
    /\ ~mem[s].first /\ mem[s].inbox # {}
    /\ taken' = [taken EXCEPT ![s] = MailOf(mem[s])]
    /\ Persist([mem EXCEPT ![s].inbox = {}, ![s].flight = MailOf(mem[s])])
    /\ UNCHANGED <<hookVars, heard, sent, asleep>>

(* append_turn_history drops the in-flight copy.  The reply comes after    *)
(* every message of the transcript.                                        *)
CompleteTurn(s) ==
    /\ phase = "up" /\ mem[s].st = "active" /\ (mem[s].first \/ taken[s] # {})
    /\ heard' = heard \cup taken[s] \cup (IF mem[s].first THEN mem[s].note ELSE {})
    /\ taken' = [taken EXCEPT ![s] = {}]
    /\ Persist([mem EXCEPT ![s].flight = {}, ![s].text = {}, ![s].note = {},
                           ![s].asked = KindOf[s] = "chat", ![s].first = FALSE])
    /\ UNCHANGED <<hookVars, sent, asleep>>

(* mark_paused and resume; a monitor between two turns.                    *)
Pause(s) ==
    /\ phase = "up" /\ Monitor(s) /\ mem[s].st = "active" /\ taken[s] = {}
    /\ Persist([mem EXCEPT ![s].st = "paused"])
    /\ asleep' = asleep \cup {s}
    /\ UNCHANGED <<hookVars, taken, heard, sent>>

Unpause(s) ==
    /\ phase = "up" /\ mem[s].st = "paused"
    /\ Persist([mem EXCEPT ![s].st = "active"])
    /\ asleep' = asleep \ {s}
    /\ UNCHANGED <<hookVars, taken, heard, sent>>

(* A close empties both buffers; only a monitor is closed automatically.   *)
Close(s, st) ==
    /\ phase = "up" /\ Live(mem[s]) /\ (st = "auto" => Monitor(s))
    /\ Persist([mem EXCEPT ![s].st = st, ![s].inbox = {}, ![s].flight = {}])
    /\ taken' = [taken EXCEPT ![s] = {}]
    /\ sent' = SentToOthers(s) /\ asleep' = asleep \ {s}
    /\ UNCHANGED <<hookVars, heard>>

(* The checkpoint records that the ticket or its PR is done.               *)
NotesMerge(s) ==
    /\ phase = "up" /\ mem[s].st = "active" /\ Monitor(s) /\ ~mem[s].merged
    /\ Persist([mem EXCEPT ![s].merged = TRUE])
    /\ UNCHANGED <<hookVars, taken, heard, sent, asleep>>

-----------------------------------------------------------------------------
(* The restart.                                                            *)
Current == CHOOSE s \in todo : \A q \in todo : s <= q

(* A kill between the two writes of a paused monitor's resume leaves it in *)
(* the file as active: its pause is gone (see RestorePause).               *)
Kill ==
    /\ phase # "down" /\ kills < Restarts
    /\ phase' = "down" /\ kills' = kills + 1
    /\ cut' = (cut \/ phase = "resuming")
    /\ mem' = [s \in Sub |-> None] /\ taken' = [s \in Sub |-> {}]
    /\ todo' = {} /\ rest' = "next" /\ boot' = mem'
    /\ asleep' = IF rest = "pause" THEN asleep \ {Current} ELSE asleep
    /\ UNCHANGED <<cast, made, file, heard, sent>>

(* load_persisted                                                          *)
StartHook ==
    /\ phase = "down"
    /\ phase' = "resuming" /\ boot' = file
    /\ todo' = {s \in Sub : file[s].st # "none"}
    /\ UNCHANGED <<cast, made, mem, file, rest, taken, heard, sent, asleep, kills, cut>>

InHook == phase = "resuming" /\ todo # {}
Entry == boot[Current]

hookFrame == <<cast, phase, made, boot, taken, heard, asleep, kills, cut>>

GoOn(what) ==
    /\ rest' = what
    /\ todo' = IF what = "next" THEN todo \ {Current} ELSE todo
    /\ UNCHANGED <<hookFrame, sent>>

\* Mutant: every closed monitor is respawned.
RespawnsAll(s, r) == Live(r) \/ (r.st \in {"auto", "closed"} /\ Monitor(s))

(* _resume_entry: what is respawned, the rest is kept for the UI.          *)
Respawns(s, r) == Live(r) \/ (r.st = "auto" /\ Monitor(s))

(* _restore_entry does not persist.                                        *)
KeepEntry ==
    /\ InHook /\ rest = "next" /\ ~Respawns(Current, Entry)
    /\ mem' = [mem EXCEPT ![Current] = Entry]
    /\ UNCHANGED file
    /\ GoOn("next")

(* _handle_terminal_on_resume: restored as active, closed at once.         *)
CloseResolved ==
    /\ InHook /\ rest = "next" /\ Respawns(Current, Entry) /\ Entry.merged
    /\ Persist([mem EXCEPT ![Current] = [Entry EXCEPT !.st = "closed", !.inbox = {}, !.flight = {}]])
    /\ rest' = "next" /\ todo' = todo \ {Current} /\ sent' = SentToOthers(Current)
    /\ UNCHANGED hookFrame

\* Mutant: the in-flight messages are not read back.
RebuildInboxOnly(r) == r.inbox

(* _rebuild_inbox: the in-flight messages first.                           *)
RebuildInbox(r) == r.flight \cup r.inbox

(* A chat that has asked its question and has no newer message waits for   *)
(* the answer; otherwise its first turn gets the newer messages in the     *)
(* prompt.  The notes of an earlier resume are stripped.  Its inbox and    *)
(* its transcript come back after the spawn, each with a write of its own. *)
Respawned(s, r) ==
    IF KindOf[s] = "chat"
    THEN [Fresh EXCEPT !.asked = r.asked, !.note = r.text, !.first = ~(r.asked /\ r.text = {})]
    ELSE [Fresh EXCEPT !.inbox = RebuildInbox(r), !.asked = r.asked,
                       !.first = TRUE]

\* Mutant: a pause is not restored.
AfterSpawnRuns(s, r) == IF KindOf[s] = "chat" THEN "inbox" ELSE "next"

(* Only a periodic monitor is put back to its pause, once it is spawned.   *)
AfterSpawn(s, r) ==
    IF KindOf[s] = "chat" THEN "inbox"
    ELSE IF KindOf[s] = "periodic" /\ r.st = "paused" THEN "pause" ELSE "next"

\* Mutant: a resumed record is exempt from the dedup guard.
CanSpawnTwice(s) == s \notin Bad /\ Cardinality(Counted(mem)) < Cap

CanSpawn(s) == s \notin Bad /\ ~KeyTaken(mem, s) /\ Cardinality(Counted(mem)) < Cap

RespawnEntry ==
    /\ InHook /\ rest = "next" /\ Respawns(Current, Entry) /\ ~Entry.merged
    /\ CanSpawn(Current)
    /\ Persist([mem EXCEPT ![Current] = Respawned(Current, Entry)])
    /\ GoOn(AfterSpawn(Current, Entry))

\* Mutant: one entry that raises ends the hook.
EndAfterDrop == todo' = {} /\ rest' = "next" /\ UNCHANGED <<hookFrame, sent>>

(* The spawn raises, which is logged, or returns the id of a record with   *)
(* the same key: the entry is dropped.                                     *)
GoOnAfterDrop == GoOn("next")

DropEntry ==
    /\ InHook /\ rest = "next" /\ Respawns(Current, Entry) /\ ~Entry.merged
    /\ ~CanSpawn(Current)
    /\ UNCHANGED <<mem, file>>
    /\ GoOnAfterDrop

RestoreInbox ==
    /\ InHook /\ rest = "inbox"
    /\ Persist([mem EXCEPT ![Current].inbox = RebuildInbox(Entry)])
    /\ GoOn("text")

RestoreTranscript ==
    /\ InHook /\ rest = "text"
    /\ Persist([mem EXCEPT ![Current].text = Entry.text])
    /\ GoOn("next")

RestorePause ==
    /\ InHook /\ rest = "pause"
    /\ Persist([mem EXCEPT ![Current].st = "paused"])
    /\ GoOn("next")

EndHook ==
    /\ phase = "resuming" /\ todo = {}
    /\ phase' = "up" /\ boot' = [s \in Sub |-> None]
    /\ UNCHANGED <<cast, made, mem, file, todo, rest, taken, heard, sent, asleep, kills, cut>>

Hook ==
    \/ StartHook \/ KeepEntry \/ CloseResolved \/ RespawnEntry \/ DropEntry
    \/ RestoreInbox \/ RestoreTranscript \/ RestorePause \/ EndHook

Next ==
    \/ Hook \/ Kill
    \/ \E s \in Sub :
          \/ Spawn(s) \/ StartTurn(s) \/ CompleteTurn(s) \/ Pause(s) \/ Unpause(s)
          \/ NotesMerge(s)
          \/ \E st \in {"auto", "closed"} : Close(s, st)
          \/ \E m \in Msg : Send(s, m)

Spec == Init /\ [][Next]_vars

-----------------------------------------------------------------------------
(* Properties.                                                             *)
Record ==
    [st : {"none", "active", "paused", "auto", "closed"}, inbox : SUBSET Msg,
     flight : SUBSET Msg, text : SUBSET Msg, note : SUBSET Msg,
     asked : BOOLEAN, merged : BOOLEAN, first : BOOLEAN]

(* The type of each variable (one invariant for the module).               *)
TypeOK ==
    /\ cast \in Casts
    /\ phase \in {"up", "down", "resuming"} /\ made \in 0..N
    /\ {mem, file, boot} \subseteq [Sub -> Record]
    /\ todo \subseteq Sub /\ rest \in {"next", "inbox", "text", "pause"}
    /\ rest # "next" => todo # {}
    /\ taken \in [Sub -> SUBSET Msg]
    /\ asleep \subseteq 1..made
    /\ heard \subseteq Msg /\ sent \in [Msg -> Sub \cup {0, Void}]
    /\ kills \in 0..Restarts /\ cut \in BOOLEAN

(* An end that was asked for is final: a record that the file shows as     *)
(* closed is never live again, whatever is killed and restarted            *)
(* (resume.py, _resume_entry: only automatic closes are taken back).       *)
ClosedStaysClosed ==
    [][\A s \in Sub :
          file[s].st = "closed" => file'[s].st \in {"closed", "none"} /\ ~Live(mem'[s])]_vars

HookDone == phase = "resuming" /\ todo = {}

(* Every record that the hook found live has come back, except one it      *)
(* could not: its own entry is bad, an earlier one took its key, or the    *)
(* entries before it fill the cap.  One bad entry costs no other.          *)
LiveComesBack ==
    HookDone =>
        \A s \in Sub :
            Live(boot[s]) /\ mem[s].st = "none" =>
                \/ s \in Bad
                \/ \E q \in 1..(s - 1) :
                      Respawns(q, boot[q]) /\ KeyOf[q] = KeyOf[s] /\ KeyOf[s] # NoKey
                \/ Cardinality({q \in 1..(s - 1) : Respawns(q, boot[q])}) >= Cap

(* A message that a live record accepted has been the input of a completed *)
(* turn, or is in the inbox or the hands of its worker; a chat may lose it *)
(* when the hook itself is killed (resume.py:576-590).                     *)
MailSurvives ==
    phase = "up" =>
        \A m \in Msg, s \in Sub :
            sent[m] = s /\ Live(mem[s]) /\ (KindOf[s] = "chat" => ~cut) =>
                m \in heard \cup mem[s].inbox \cup taken[s]

(* Two live records never share a dedup key, though an automatic close     *)
(* frees the key and the next start takes the close back.                  *)
OneRecordPerKey ==
    \A s, q \in Sub :
        Live(mem[s]) /\ Live(mem[q]) /\ KeyOf[s] = KeyOf[q] /\ KeyOf[s] # NoKey => s = q

(* A pause lasts until somebody takes it back: a periodic monitor that was *)
(* paused and is live is paused, whenever it runs or is about to, however  *)
(* many restarts lie between - but for a process that was killed between   *)
(* the two writes of that monitor's own resume (resume.py:420-428).        *)
PausedStaysPaused ==
    phase = "up" \/ HookDone =>
        \A s \in asleep : KindOf[s] = "periodic" /\ Live(mem[s]) => mem[s].st = "paused"
=============================================================================
