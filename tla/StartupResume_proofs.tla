------------------------ MODULE StartupResume_proofs ------------------------
(***************************************************************************)
(* Proofs about StartupResume for every number of records, cap, bound on   *)
(* restarts and cast.                                                      *)
(*                                                                         *)
(* Each step is first characterised by the record it writes (Kept, Opened, *)
(* Hooked and so on); the invariant is then preserved by each kind of step.*)
(***************************************************************************)
EXTENDS StartupResume, FiniteSetTheorems, WellFoundedInduction, TLAPS

-----------------------------------------------------------------------------
(* The order of the hook.                                                  *)

(* The current entry is the first of those that are still to be resumed.   *)
LEMMA CurrentIsToDo ==
    ASSUME todo \subseteq Sub, todo # {}
    PROVE  Current \in todo /\ \A q \in todo : Current <= q
<1>1. Sub \subseteq Nat
  BY ResumeConstants DEF Sub
<1>2. PICK s \in todo : \A q \in todo : <<q, s>> \notin OpToRel(<, Nat)
  BY <1>1, WFMin, NatLessThanWellFounded, Zenon
<1>3. \A q \in todo : ~(q < s)
  BY <1>1, <1>2, Zenon DEF OpToRel
<1>4. \A q \in todo : s <= q
  BY <1>1, <1>3
<1> QED
  BY <1>4 DEF Current

-----------------------------------------------------------------------------
(* The inductive invariant.                                                *)

Typed ==
    /\ mem \in [Sub -> Record] /\ file \in [Sub -> Record] /\ boot \in [Sub -> Record]
    /\ todo \subseteq Sub /\ made \in Nat
    /\ rest \in {"next", "inbox", "text", "pause"} /\ phase \in {"up", "down", "resuming"}

(* A number that is not used has no record anywhere.                       *)
Unused ==
    \A s \in Sub : s > made =>
        mem[s].st = "none" /\ file[s].st = "none" /\ boot[s].st = "none"

(* Where the hook is: outside it nothing is to do, while down nothing is   *)
(* in memory, the entries to do are not in memory but for the current one. *)
Position ==
    /\ phase # "resuming" => todo = {}
    /\ phase = "down" => \A s \in Sub : mem[s].st = "none"
    /\ rest # "next" => todo # {} /\ mem[Current].st = "active"
    /\ rest \in {"inbox", "text"} => KindOf[Current] = "chat"
    /\ \A s \in todo : boot[s].st # "none"
    /\ \A s \in todo : (rest = "next" \/ s # Current) => mem[s].st = "none"

(* What the file shows as closed is closed in memory or not there yet, and *)
(* the hook has it as closed.                                              *)
ClosedKnown ==
    \A s \in Sub : file[s].st = "closed" =>
        /\ mem[s].st \in {"closed", "none"}
        /\ s \in todo => boot[s].st = "closed"

IInv ==
    Typed /\ Unused /\ Position /\ ClosedKnown /\ OneRecordPerKey

-----------------------------------------------------------------------------
(* What the steps write.                                                   *)

(* The record of s becomes r, in the file too.                             *)
Writes(s, r) ==
    /\ s \in Sub /\ r \in Record
    /\ mem' = [mem EXCEPT ![s] = r] /\ file' = mem'

(* The running process writes a record that is live, or a new one.         *)
Operated(s, r) ==
    /\ phase = "up" /\ Writes(s, r) /\ UNCHANGED <<cast, phase, boot, todo, rest>>
    /\ \/ made' = made /\ Live(mem[s])
       \/ made' = s /\ s = made + 1 /\ ~KeyTaken(mem, s)

(* The hook writes the current record, and is done with it or not.         *)
Hooked(r, what) ==
    /\ InHook /\ Writes(Current, r) /\ UNCHANGED <<cast, phase, made, boot>>
    /\ rest' = what /\ what \in {"next", "inbox", "text", "pause"}
    /\ todo' = IF what = "next" THEN todo \ {Current} ELSE todo

LEMMA RecordUpdates ==
    ASSUME NEW f \in [Sub -> Record], NEW s \in Sub, NEW r \in Record
    PROVE  /\ [f EXCEPT ![s] = r] \in [Sub -> Record]
           /\ [f EXCEPT ![s] = r][s] = r
           /\ \A q \in Sub \ {s} : [f EXCEPT ![s] = r][q] = f[q]
  OBVIOUS

LEMMA NoneIsRecord == None \in Record /\ None.st = "none" /\ Fresh \in Record /\ Fresh.st = "active"
  BY DEF None, Fresh, Record

(* An operation of the running process keeps the invariant.                *)
LEMMA OperatedKeeps ==
    ASSUME IInv, NEW s, NEW r, Operated(s, r)
    PROVE  IInv' /\ \A q \in Sub : file[q].st = "closed" =>
                        file'[q].st \in {"closed", "none"} /\ ~Live(mem'[q])
<1>1. /\ s \in Sub /\ mem \in [Sub -> Record] /\ mem' \in [Sub -> Record]
      /\ mem'[s] = r /\ r \in Record
      /\ \A q \in Sub \ {s} : mem'[q] = mem[q]
      /\ file' = mem' /\ boot' = boot /\ todo' = todo /\ rest' = rest /\ phase' = phase
      /\ cast' = cast /\ phase = "up" /\ todo = {}
  BY RecordUpdates DEF IInv, Typed, Operated, Writes, Position
<1>2. rest = "next"
  BY <1>1 DEF IInv, Position, Typed
<1>3. file[s].st # "closed"
  BY <1>1 DEF IInv, ClosedKnown, Unused, Operated, Live, Typed, Sub
<1>4. Typed'
  BY <1>1 DEF IInv, Typed, Operated, Sub
<1>5. Unused'
  <2> SUFFICES ASSUME NEW q \in Sub, q > made'
               PROVE  mem'[q].st = "none" /\ file'[q].st = "none" /\ boot'[q].st = "none"
    BY DEF Unused
  <2>1. made \in Nat /\ q \in Nat /\ s \in Nat
    BY <1>1, ResumeConstants DEF IInv, Typed, Sub
  <2>2. \/ made' = made /\ Live(mem[s])
        \/ made' = s /\ s = made + 1
    BY DEF Operated
  <2>3. q > made
    BY <2>1, <2>2
  <2>4. mem[q].st = "none" /\ file[q].st = "none" /\ boot[q].st = "none"
    BY <2>3 DEF IInv, Unused
  <2>5. q # s
    BY <2>1, <2>2, <2>4 DEF Live
  <2> QED BY <1>1, <2>4, <2>5
<1>6. Position'
  BY <1>1, <1>2 DEF Position
<1>7. ClosedKnown'
  BY <1>1 DEF ClosedKnown
<1>8. OneRecordPerKey'
  <2> SUFFICES ASSUME NEW x \in Sub, NEW y \in Sub, Live(mem'[x]), Live(mem'[y]),
                      KeyOf[x] = KeyOf[y], KeyOf[x] # NoKey
               PROVE  x = y
    BY <1>1 DEF OneRecordPerKey, KeyOf
  <2>1. CASE x # s /\ y # s
    BY <1>1, <2>1 DEF IInv, OneRecordPerKey
  <2>2. CASE (x = s \/ y = s) /\ Live(mem[s])
    BY <1>1, <2>2 DEF IInv, OneRecordPerKey
  <2>3. CASE (x = s \/ y = s) /\ ~KeyTaken(mem, s)
    BY <1>1, <2>3 DEF KeyTaken
  <2> QED
    BY <2>1, <2>2, <2>3 DEF Operated
<1>10. \A q \in Sub : file[q].st = "closed" =>
                        file'[q].st \in {"closed", "none"} /\ ~Live(mem'[q])
  BY <1>1, <1>3 DEF IInv, ClosedKnown, Live
<1> QED
  BY <1>4, <1>5, <1>6, <1>7, <1>8, <1>10 DEF IInv

(* A write of the hook keeps the invariant, when it is one of these: a     *)
(* closed record; an active one, of an entry that is not closed and whose  *)
(* key is free; a record that was there, active or put back to its pause.  *)
HookWrites(r, what) ==
    \/ r.st = "closed" /\ rest = "next" /\ what = "next"
    \/ /\ r.st = "active" /\ rest = "next" /\ boot[Current].st # "closed"
       /\ ~KeyTaken(mem, Current)
       /\ what \in {"inbox", "text"} => KindOf[Current] = "chat"
    \/ r.st = "active" /\ rest = "inbox" /\ what = "text"
    \/ r.st = "active" /\ rest = "text" /\ what = "next"
    \/ r.st = "paused" /\ rest = "pause" /\ what = "next"

LEMMA HookedKeeps ==
    ASSUME IInv, NEW r, NEW what, Hooked(r, what), HookWrites(r, what)
    PROVE  IInv' /\ \A q \in Sub : file[q].st = "closed" =>
                        file'[q].st \in {"closed", "none"} /\ ~Live(mem'[q])
<1> DEFINE s == Current
<1>0. s \in todo /\ s \in Sub /\ todo \subseteq Sub
  BY CurrentIsToDo DEF IInv, Typed, Hooked, InHook
<1>1. /\ mem \in [Sub -> Record] /\ mem' \in [Sub -> Record]
      /\ mem'[s] = r /\ r \in Record
      /\ \A q \in Sub \ {s} : mem'[q] = mem[q]
      /\ file' = mem' /\ boot' = boot /\ made' = made /\ phase' = phase
      /\ cast' = cast /\ phase = "resuming"
  BY <1>0, RecordUpdates DEF IInv, Typed, Hooked, Writes, InHook
<1>2. /\ what # "next" => todo' = todo /\ Current' = Current
      /\ what = "next" => todo' = todo \ {s}
      /\ rest' = what /\ what \in {"next", "inbox", "text", "pause"}
  BY DEF Hooked, Current
<1>3. r.st \in {"active", "paused", "closed"} /\ (rest = "next" \/ Live(r))
  BY DEF HookWrites, Live
<1>4. \A q \in todo \ {s} : mem[q].st = "none"
  BY DEF IInv, Position
<1>5. rest # "next" => mem[s].st = "active"
  BY DEF IInv, Position
<1>6. file[s].st = "closed" => boot[s].st = "closed" /\ rest = "next"
  BY <1>0, <1>5 DEF IInv, ClosedKnown
<1>7. Typed'
  BY <1>0, <1>1, <1>2 DEF IInv, Typed
<1>8. Unused'
  <2>1. ~(s > made)
    BY <1>0 DEF IInv, Unused, Position
  <2> QED
    BY <1>1, <2>1 DEF IInv, Unused
<1>9. Position'
  <2>1. what # "next" => r.st = "active"
    BY DEF HookWrites
  <2>2. what \in {"inbox", "text"} => KindOf[s] = "chat"
    BY DEF HookWrites, IInv, Position
  <2>3. \A q \in todo : boot[q].st # "none"
    BY DEF IInv, Position
  <2> QED
    BY <1>0, <1>1, <1>2, <1>4, <2>1, <2>2, <2>3 DEF Position, KindOf
<1>10. ClosedKnown'
  <2>1. r.st = "closed" => s \notin todo'
    BY <1>2 DEF HookWrites
  <2> QED
    BY <1>0, <1>1, <1>2, <1>4, <2>1 DEF ClosedKnown
<1>11. OneRecordPerKey'
  <2> SUFFICES ASSUME NEW x \in Sub, NEW y \in Sub, Live(mem'[x]), Live(mem'[y]),
                      KeyOf[x] = KeyOf[y], KeyOf[x] # NoKey
               PROVE  x = y
    BY <1>1 DEF OneRecordPerKey, KeyOf
  <2>1. CASE x # s /\ y # s
    BY <1>1, <2>1 DEF IInv, OneRecordPerKey
  <2>2. CASE (x = s \/ y = s) /\ Live(mem[s])
    BY <1>0, <1>1, <2>2 DEF IInv, OneRecordPerKey
  <2>3. CASE (x = s \/ y = s) /\ ~KeyTaken(mem, s)
    BY <1>0, <1>1, <2>3 DEF KeyTaken
  <2>4. CASE r.st = "closed"
    BY <1>1, <2>1, <2>4 DEF Live
  <2> QED
    BY <1>5, <2>1, <2>2, <2>3, <2>4 DEF HookWrites, Live
<1>13. \A q \in Sub : file[q].st = "closed" =>
                        file'[q].st \in {"closed", "none"} /\ ~Live(mem'[q])
  <2>1. \A q \in Sub \ {s} : file[q].st = "closed" => mem'[q].st \in {"closed", "none"}
    BY <1>1 DEF IInv, ClosedKnown
  <2>2. file[s].st = "closed" => r.st = "closed"
    BY <1>6 DEF HookWrites
  <2> QED
    BY <1>1, <2>1, <2>2 DEF Live
<1> QED
  BY <1>7, <1>8, <1>9, <1>10, <1>11, <1>13 DEF IInv

(* The operations of the running process.                                  *)
LEMMA OperationsWrite ==
    ASSUME IInv, NEW s \in Sub,
           \/ Spawn(s) \/ StartTurn(s) \/ CompleteTurn(s) \/ Pause(s) \/ Unpause(s)
           \/ NotesMerge(s)
           \/ \E st \in {"auto", "closed"} : Close(s, st)
           \/ \E m \in Msg : Send(s, m)
    PROVE  \E r \in Record : Operated(s, r)
<1>1. mem \in [Sub -> Record] /\ mem[s] \in Record
  BY DEF IInv, Typed
<1>2. CASE Spawn(s)
  <2>1. Operated(s, Fresh)
    BY <1>1, <1>2, NoneIsRecord, Zenon DEF Spawn, Operated, Writes, Persist
  <2> QED
    BY <2>1, NoneIsRecord
<1>3. CASE StartTurn(s)
  <2> DEFINE r == [mem[s] EXCEPT !.inbox = {}, !.flight = MailOf(mem[s])]
  <2>1. r \in Record
    BY <1>1 DEF Record, MailOf
  <2>2. mem' = [mem EXCEPT ![s] = r] /\ file' = mem'
    BY <1>1, <1>3, <2>1 DEF StartTurn, Persist
  <2> QED
    BY <1>3, <2>1, <2>2 DEF StartTurn, Operated, Writes, Live, hookVars
<1>4. CASE CompleteTurn(s)
  <2> DEFINE r == [mem[s] EXCEPT !.flight = {}, !.text = {}, !.note = {},
                                 !.asked = KindOf[s] = "chat", !.first = FALSE]
  <2>1. r \in Record
    BY <1>1 DEF Record
  <2>2. mem' = [mem EXCEPT ![s] = r] /\ file' = mem'
    BY <1>1, <1>4, <2>1 DEF CompleteTurn, Persist
  <2> QED
    BY <1>4, <2>1, <2>2 DEF CompleteTurn, Operated, Writes, Live, hookVars
<1>5. CASE Pause(s) \/ Unpause(s) \/ NotesMerge(s)
  <2>1. PICK r \in {[mem[s] EXCEPT !.st = "paused"], [mem[s] EXCEPT !.st = "active"],
                    [mem[s] EXCEPT !.merged = TRUE]} :
           mem' = [mem EXCEPT ![s] = r] /\ file' = mem'
    BY <1>1, <1>5 DEF Pause, Unpause, NotesMerge, Persist
  <2>2. r \in Record
    BY <1>1 DEF Record
  <2> QED
    BY <1>5, <2>1, <2>2 DEF Pause, Unpause, NotesMerge, Operated, Writes, Live, hookVars
<1>6. ASSUME NEW st \in {"auto", "closed"}, Close(s, st)
      PROVE  \E r \in Record : Operated(s, r)
  <2> DEFINE r == [mem[s] EXCEPT !.st = st, !.inbox = {}, !.flight = {}]
  <2>1. r \in Record
    BY <1>1 DEF Record
  <2>2. mem' = [mem EXCEPT ![s] = r] /\ file' = mem'
    BY <1>1, <1>6, <2>1 DEF Close, Persist
  <2> QED
    BY <1>6, <2>1, <2>2 DEF Close, Operated, Writes, hookVars
<1>7. ASSUME NEW m \in Msg, Send(s, m)
      PROVE  \E r \in Record : Operated(s, r)
  <2> DEFINE r == [mem[s] EXCEPT !.inbox = @ \cup {m},
                                 !.text = IF KindOf[s] = "chat" THEN @ \cup {m} ELSE @]
  <2>1. r \in Record
    BY <1>1 DEF Record
  <2>2. mem' = [mem EXCEPT ![s] = r] /\ file' = mem'
    BY <1>1, <1>7, <2>1 DEF Send, Persist
  <2> QED
    BY <1>7, <2>1, <2>2 DEF Send, Operated, Writes, hookVars
<1> QED
  BY <1>2, <1>3, <1>4, <1>5, <1>6, <1>7

(* The hook's writes.                                                      *)
LEMMA HookStepsWrite ==
    ASSUME IInv,
           \/ CloseResolved \/ RespawnEntry \/ RestoreInbox \/ RestoreTranscript \/ RestorePause
    PROVE  \E r \in Record, what \in {"next", "inbox", "text", "pause"} :
               Hooked(r, what) /\ HookWrites(r, what)
<1> DEFINE s == Current
<1>0. InHook
  <2>1. \A x : rest = x /\ x # "next" => InHook
    BY DEF IInv, Position, InHook
  <2> QED
    BY <2>1 DEF CloseResolved, RespawnEntry, RestoreInbox, RestoreTranscript, RestorePause
<1>1. /\ s \in Sub /\ mem \in [Sub -> Record] /\ mem[s] \in Record
      /\ boot[s] \in Record /\ Entry = boot[s]
  BY <1>0, CurrentIsToDo DEF IInv, Typed, InHook, Entry
<1>2. CASE CloseResolved
  <2> DEFINE r == [boot[s] EXCEPT !.st = "closed", !.inbox = {}, !.flight = {}]
  <2>1. r \in Record /\ r.st = "closed"
    BY <1>1 DEF Record
  <2>2. mem' = [mem EXCEPT ![s] = r] /\ file' = mem'
    BY <1>1, <1>2 DEF CloseResolved, Persist
  <2>3. Hooked(r, "next")
    BY <1>0, <1>1, <1>2, <2>1, <2>2 DEF CloseResolved, Hooked, Writes, hookFrame
  <2>4. HookWrites(r, "next")
    BY <1>2, <2>1 DEF CloseResolved, HookWrites
  <2> QED
    BY <2>1, <2>3, <2>4
<1>3. CASE RespawnEntry
  <2> DEFINE r    == Respawned(s, boot[s])
             what == AfterSpawn(s, boot[s])
  <2>1. r \in Record /\ r.st = "active"
    BY <1>1 DEF Record, Respawned, Fresh, None, RebuildInbox
  <2>2. what \in {"next", "inbox", "pause"} /\ (what = "inbox" => KindOf[s] = "chat")
    BY DEF AfterSpawn
  <2>4. boot[s].st # "closed"
    BY <1>1, <1>3 DEF RespawnEntry, Respawns, Live
  <2>5. Hooked(r, what)
    BY <1>0, <1>1, <1>3, <2>1, <2>2 DEF RespawnEntry, Persist, GoOn, Hooked, Writes, hookFrame
  <2>6. HookWrites(r, what)
    BY <1>3, <2>1, <2>2, <2>4 DEF RespawnEntry, CanSpawn, HookWrites
  <2> QED
    BY <2>1, <2>2, <2>5, <2>6
<1>4. CASE RestoreInbox
  <2> DEFINE r == [mem[s] EXCEPT !.inbox = RebuildInbox(boot[s])]
  <2>1. r \in Record /\ r.st = "active"
    BY <1>1, <1>4 DEF Record, RebuildInbox, RestoreInbox, IInv, Position
  <2>2. mem' = [mem EXCEPT ![s] = r] /\ file' = mem'
    BY <1>1, <1>4 DEF RestoreInbox, Persist
  <2>3. Hooked(r, "text")
    BY <1>0, <1>1, <1>4, <2>1, <2>2 DEF RestoreInbox, GoOn, Hooked, Writes, hookFrame
  <2> QED
    BY <1>4, <2>1, <2>3 DEF RestoreInbox, HookWrites
<1>5. CASE RestoreTranscript
  <2> DEFINE r == [mem[s] EXCEPT !.text = boot[s].text]
  <2>1. r \in Record /\ r.st = "active"
    BY <1>1, <1>5 DEF Record, RestoreTranscript, IInv, Position
  <2>2. mem' = [mem EXCEPT ![s] = r] /\ file' = mem'
    BY <1>1, <1>5 DEF RestoreTranscript, Persist
  <2>3. Hooked(r, "next")
    BY <1>0, <1>1, <1>5, <2>1, <2>2 DEF RestoreTranscript, GoOn, Hooked, Writes, hookFrame
  <2> QED
    BY <1>5, <2>1, <2>3 DEF RestoreTranscript, HookWrites
<1>6. CASE RestorePause
  <2> DEFINE r == [mem[s] EXCEPT !.st = "paused"]
  <2>1. r \in Record /\ r.st = "paused"
    BY <1>1 DEF Record
  <2>2. mem' = [mem EXCEPT ![s] = r] /\ file' = mem'
    BY <1>1, <1>6 DEF RestorePause, Persist
  <2>3. Hooked(r, "next")
    BY <1>0, <1>1, <1>6, <2>1, <2>2 DEF RestorePause, GoOn, Hooked, Writes, hookFrame
  <2> QED
    BY <1>6, <2>1, <2>3 DEF RestorePause, HookWrites
<1> QED
  BY <1>2, <1>3, <1>4, <1>5, <1>6

(* The other steps: an entry kept for the UI, one dropped, the start and   *)
(* the end of the hook, and a kill.                                        *)
LEMMA OtherStepsKeep ==
    ASSUME IInv, KeepEntry \/ DropEntry \/ StartHook \/ EndHook \/ Kill \/ UNCHANGED vars
    PROVE  IInv' /\ \A q \in Sub : file[q].st = "closed" =>
                        file'[q].st \in {"closed", "none"} /\ ~Live(mem'[q])
<1>1. CASE KeepEntry
  <2> DEFINE s == Current
  <2>1. s \in todo /\ s \in Sub /\ phase = "resuming" /\ rest = "next"
    BY <1>1, CurrentIsToDo DEF KeepEntry, InHook, IInv, Typed
  <2>2. /\ mem \in [Sub -> Record] /\ mem' \in [Sub -> Record] /\ mem'[s] = boot[s]
        /\ \A q \in Sub \ {s} : mem'[q] = mem[q]
    BY <1>1, <2>1, RecordUpdates DEF KeepEntry, Entry, IInv, Typed
  <2>3. boot[s].st \in {"closed", "auto"} /\ ~Live(boot[s])
    BY <1>1, <2>1 DEF KeepEntry, Entry, Respawns, Live, IInv, Typed, Position, Record
  <2>4. /\ todo' = todo \ {s} /\ rest' = "next" /\ file' = file /\ boot' = boot
        /\ made' = made /\ phase' = phase /\ cast' = cast
    BY <1>1 DEF KeepEntry, GoOn, hookFrame
  <2>5. Typed'
    BY <2>2, <2>4 DEF IInv, Typed
  <2>6. Unused'
    BY <2>1, <2>2, <2>4 DEF IInv, Unused
  <2>10. Position'
    <3>1. \A q \in todo' : boot[q].st # "none" /\ mem'[q].st = "none"
      BY <2>1, <2>2, <2>4 DEF IInv, Position, Typed
    <3> QED
      BY <2>1, <2>4, <3>1 DEF Position
  <2>7. ClosedKnown'
    BY <2>1, <2>2, <2>4 DEF IInv, ClosedKnown
  <2>8. OneRecordPerKey'
    BY <2>1, <2>2, <2>3, <2>4 DEF IInv, OneRecordPerKey, KindOf, KeyOf
  <2>9. \A q \in Sub : file[q].st = "closed" =>
                        file'[q].st \in {"closed", "none"} /\ ~Live(mem'[q])
    BY <2>2, <2>3, <2>4 DEF IInv, ClosedKnown, Live
  <2> QED
    BY <2>5, <2>6, <2>7, <2>8, <2>9, <2>10 DEF IInv
<1>2. CASE DropEntry \/ EndHook \/ UNCHANGED vars
  <2>1. /\ mem' = mem /\ file' = file /\ made' = made /\ cast' = cast
        /\ rest' = "next" \/ (todo' = todo /\ rest' = rest /\ phase' = phase)
        /\ todo' \subseteq todo
    BY <1>2 DEF DropEntry, GoOnAfterDrop, GoOn, hookFrame, EndHook, vars, InHook, IInv, Position
  <2>2. /\ phase' = "resuming" => boot' = boot /\ phase = "resuming"
        /\ phase' \in {"up", "down", "resuming"}
        /\ phase' # "resuming" => todo' = {} /\ (phase' = "down" => phase = "down")
        /\ boot' = boot \/ boot' = [s \in Sub |-> None]
        /\ boot' # boot => todo' = {}
    BY <1>2 DEF DropEntry, GoOnAfterDrop, GoOn, hookFrame, EndHook, vars, InHook, IInv, Position, Typed
  <2>3. rest' = "next" => rest = "next" \/ todo' = {}
    BY <1>2 DEF DropEntry, GoOnAfterDrop, GoOn, hookFrame, EndHook, vars, InHook, IInv, Position, Typed
  <2>4. boot' \in [Sub -> Record] /\ Typed' /\ Unused'
    BY <2>1, <2>2, NoneIsRecord DEF IInv, Typed, Unused
  <2>5. Position'
    BY <2>1, <2>2, <2>3 DEF IInv, Position, Current, KindOf, Typed
  <2>6. ClosedKnown' /\ OneRecordPerKey'
    BY <2>1, <2>2 DEF IInv, ClosedKnown, OneRecordPerKey, KeyOf, Typed
  <2> QED
    BY <2>1, <2>4, <2>5, <2>6 DEF IInv, ClosedKnown, Live
<1>3. CASE StartHook \/ Kill
  <2>1. /\ \A q \in Sub : mem'[q].st = "none" /\ mem'[q] \in Record
        /\ mem' \in [Sub -> Record] /\ file' = file /\ made' = made /\ cast' = cast
        /\ rest' = "next"
    BY <1>3, NoneIsRecord DEF StartHook, Kill, IInv, Typed, Position
  <2>2. \/ boot' = file /\ todo' = {s \in Sub : file[s].st # "none"} /\ phase' = "resuming"
        \/ (\A q \in Sub : boot'[q].st = "none") /\ boot' \in [Sub -> Record]
           /\ todo' = {} /\ phase' = "down"
    BY <1>3, <2>1 DEF StartHook, Kill
  <2>3. Typed' /\ Unused'
    BY <2>1, <2>2 DEF IInv, Typed, Unused
  <2>4. Position' /\ ClosedKnown'
    BY <2>1, <2>2 DEF IInv, Typed, Position, ClosedKnown
  <2>5. OneRecordPerKey'
    BY <2>1 DEF OneRecordPerKey, Live
  <2> QED
    BY <2>1, <2>3, <2>4, <2>5 DEF IInv, Live
<1> QED
  BY <1>1, <1>2, <1>3

(* Every step keeps the invariant, and no record that the file shows as    *)
(* closed becomes live.                                                    *)
LEMMA StepKeeps ==
    ASSUME IInv, [Next]_vars
    PROVE  IInv' /\ \A q \in Sub : file[q].st = "closed" =>
                        file'[q].st \in {"closed", "none"} /\ ~Live(mem'[q])
<1>1. CASE \E s \in Sub :
               \/ Spawn(s) \/ StartTurn(s) \/ CompleteTurn(s) \/ Pause(s) \/ Unpause(s)
               \/ NotesMerge(s)
               \/ \E st \in {"auto", "closed"} : Close(s, st)
               \/ \E m \in Msg : Send(s, m)
  BY <1>1, OperationsWrite, OperatedKeeps
<1>2. CASE CloseResolved \/ RespawnEntry \/ RestoreInbox \/ RestoreTranscript \/ RestorePause
  BY <1>2, HookStepsWrite, HookedKeeps
<1>3. CASE KeepEntry \/ DropEntry \/ StartHook \/ EndHook \/ Kill \/ UNCHANGED vars
  BY <1>3, OtherStepsKeep
<1> QED
  BY <1>1, <1>2, <1>3 DEF Next, Hook

LEMMA InitKeeps == Init => IInv
<1> SUFFICES ASSUME Init PROVE IInv
  OBVIOUS
<1>1. /\ \A q \in Sub : mem[q] = None /\ file[q] = None /\ boot[q] = None
      /\ mem \in [Sub -> Record] /\ file \in [Sub -> Record] /\ boot \in [Sub -> Record]
  BY NoneIsRecord DEF Init
<1> QED
  BY <1>1, NoneIsRecord
     DEF Init, IInv, Typed, Unused, Position, ClosedKnown, OneRecordPerKey, Live

THEOREM Invariant == Spec => []IInv
<1>1. IInv /\ [Next]_vars => IInv'
  BY StepKeeps
<1> QED
  BY InitKeeps, <1>1, PTL DEF Spec

-----------------------------------------------------------------------------
(* What a restart may not do.                                              *)

(* An end that was asked for is final, whatever is killed and restarted.   *)
THEOREM ClosedIsFinal == Spec => ClosedStaysClosed
<1>1. IInv /\ [Next]_vars =>
        [\A s \in Sub : file[s].st = "closed" =>
              file'[s].st \in {"closed", "none"} /\ ~Live(mem'[s])]_vars
  BY StepKeeps
<1> QED
  BY <1>1, Invariant, PTL DEF Spec, ClosedStaysClosed

(* No key has two live records, though a restart takes an automatic close  *)
(* back when its key may have gone to another record.                      *)
THEOREM KeysAreUnique == Spec => []OneRecordPerKey
<1>1. IInv => OneRecordPerKey
  BY DEF IInv
<1> QED
  BY <1>1, Invariant, PTL

-----------------------------------------------------------------------------
(* Pauses last.  A monitor whose pause nobody took back is not active, nor *)
(* one that the next start would take back, in memory, in the file and in  *)
(* the entries to come - but between the two writes of its own resume.     *)
Sleeping(r) == r.st \notin {"active", "auto"}

AsleepInv ==
    /\ \A s \in asleep : s \in Sub /\ s <= made
    /\ \A s \in asleep : KindOf[s] = "periodic" =>
          /\ s \in todo => Sleeping(boot[s])
          /\ (rest = "pause" /\ s = Current) \/ (Sleeping(mem[s]) /\ Sleeping(file[s]))

(* The operations: one that makes a record active takes its pause back.    *)
LEMMA OperationsKeepAsleep ==
    ASSUME IInv, AsleepInv, NEW s \in Sub,
           \/ Spawn(s) \/ StartTurn(s) \/ CompleteTurn(s) \/ Pause(s) \/ Unpause(s)
           \/ NotesMerge(s)
           \/ \E st \in {"auto", "closed"} : Close(s, st)
           \/ \E m \in Msg : Send(s, m)
    PROVE  AsleepInv'
<1>1. PICK r \in Record : Operated(s, r)
  BY OperationsWrite
<1>2. /\ mem \in [Sub -> Record] /\ \A q \in Sub \ {s} : mem'[q] = mem[q]
      /\ file' = mem' /\ todo' = todo /\ todo = {} /\ cast' = cast
      /\ rest' = "next" /\ rest = "next"
  BY <1>1, RecordUpdates DEF Operated, Writes, IInv, Typed, Position
<1>3. /\ made \in Nat /\ s \in Nat /\ made' \in Nat /\ made <= made' /\ s <= made'
  <2>1. made \in Nat /\ s \in Nat
    BY ResumeConstants DEF IInv, Typed, Sub
  <2>2. Live(mem[s]) => s <= made
    BY <2>1 DEF IInv, Unused, Live
  <2> QED
    BY <1>1, <2>1, <2>2 DEF Operated
<1>4. /\ asleep' \ {s} \subseteq asleep
      /\ s \in asleep' /\ KindOf[s] = "periodic" =>
            mem'[s].st = "paused" \/ (s \in asleep /\ mem'[s].st = mem[s].st)
  <2>1. CASE Spawn(s)
    BY <1>3, <2>1 DEF Spawn, AsleepInv
  <2>2. CASE StartTurn(s)
    BY <1>2, <2>2 DEF StartTurn, Persist, Record
  <2>3. CASE CompleteTurn(s)
    BY <1>2, <2>3 DEF CompleteTurn, Persist, Record
  <2>4. CASE Pause(s)
    BY <1>2, <2>4 DEF Pause, Persist, Record
  <2>5. CASE Unpause(s)
    BY <2>5 DEF Unpause
  <2>6. CASE NotesMerge(s)
    BY <1>2, <2>6 DEF NotesMerge, Persist, Record
  <2>7. CASE \E st \in {"auto", "closed"} : Close(s, st)
    BY <2>7 DEF Close
  <2>8. CASE \E m \in Msg : Send(s, m)
    <3>1. PICK m \in Msg : Send(s, m)
      BY <2>8
    <3> DEFINE u == [mem[s] EXCEPT !.inbox = @ \cup {m},
                                   !.text = IF KindOf[s] = "chat" THEN @ \cup {m} ELSE @]
    <3>2. mem' = [mem EXCEPT ![s] = u] /\ asleep' = asleep
      BY <1>2, <3>1 DEF Send, Persist
    <3>3. mem[s] \in Record
      BY <1>2
    <3>4. u.st = mem[s].st
      BY <3>3 DEF Record
    <3> HIDE DEF u
    <3>5. mem'[s] = u
      BY <1>2, <3>2
    <3> QED
      BY <3>2, <3>4, <3>5
  <2> QED
    BY <2>1, <2>2, <2>3, <2>4, <2>5, <2>6, <2>7, <2>8
<1>5. ASSUME NEW q \in asleep'
      PROVE  q \in Sub /\ q <= made'
  BY <1>3, <1>4, ResumeConstants DEF AsleepInv, Sub
<1>6. ASSUME NEW q \in asleep', KindOf[q] = "periodic"
      PROVE  Sleeping(mem'[q]) /\ Sleeping(file'[q])
  BY <1>2, <1>4, <1>6 DEF AsleepInv, Sleeping
<1> QED
  BY <1>2, <1>5, <1>6 DEF AsleepInv, KindOf

(* The writes of the hook.                                                 *)
LEMMA HookStepsKeepAsleep ==
    ASSUME IInv, AsleepInv,
           \/ CloseResolved \/ RespawnEntry \/ RestoreInbox \/ RestoreTranscript \/ RestorePause
    PROVE  AsleepInv'
<1> DEFINE c == Current
<1>1. PICK r \in Record, what \in {"next", "inbox", "text", "pause"} :
          Hooked(r, what) /\ HookWrites(r, what)
  BY HookStepsWrite
<1>2. /\ c \in todo /\ c \in Sub /\ mem \in [Sub -> Record] /\ boot \in [Sub -> Record]
      /\ mem'[c] = r /\ file' = mem' /\ \A q \in Sub \ {c} : mem'[q] = mem[q]
      /\ boot' = boot /\ made' = made /\ cast' = cast /\ todo' \subseteq todo
      /\ rest' = what /\ (what # "next" => Current' = c)
  BY <1>1, CurrentIsToDo, RecordUpdates DEF Hooked, Writes, InHook, IInv, Typed, Current
<1>3. asleep' = asleep
  BY DEF CloseResolved, RespawnEntry, RestoreInbox, RestoreTranscript, RestorePause, GoOn, hookFrame
<1>4. ASSUME c \in asleep, KindOf[c] = "periodic"
      PROVE  Sleeping(r) \/ what = "pause"
  <2>1. Sleeping(boot[c])
    BY <1>2, <1>4 DEF AsleepInv
  <2>2. CASE CloseResolved
    BY <1>2, <2>2 DEF CloseResolved, Persist, Entry, Sleeping, Record
  <2>3. CASE RespawnEntry
    <3>1. boot[c].st = "paused"
      BY <2>1, <2>3 DEF RespawnEntry, Respawns, Live, Entry, Sleeping
    <3>2. rest' = "pause"
      BY <1>4, <2>3, <3>1 DEF RespawnEntry, GoOn, AfterSpawn, Entry
    <3> QED
      BY <1>2, <3>2
  <2>4. CASE RestoreInbox \/ RestoreTranscript
    BY <1>4, <2>4 DEF RestoreInbox, RestoreTranscript, IInv, Position
  <2>5. CASE RestorePause
    BY <1>2, <2>5 DEF RestorePause, Persist, Sleeping, Record
  <2> QED
    BY <2>2, <2>3, <2>4, <2>5
<1>5. ASSUME NEW q \in asleep, KindOf[q] = "periodic"
      PROVE  /\ q \in todo' => Sleeping(boot'[q])
             /\ (what = "pause" /\ q = c) \/ (Sleeping(mem'[q]) /\ Sleeping(file'[q]))
  <2>1. CASE q = c
    BY <1>2, <1>4, <1>5, <2>1 DEF AsleepInv
  <2>2. CASE q # c
    BY <1>2, <1>5, <2>2 DEF AsleepInv
  <2> QED
    BY <2>1, <2>2
<1> QED
  BY <1>2, <1>3, <1>5 DEF AsleepInv, KindOf

LEMMA OtherStepsKeepAsleep ==
    ASSUME IInv, AsleepInv, KeepEntry \/ DropEntry \/ StartHook \/ EndHook \/ Kill \/ UNCHANGED vars
    PROVE  AsleepInv'
<1>1. CASE KeepEntry
  <2>1. /\ Current \in todo /\ Current \in Sub /\ rest = "next"
        /\ mem \in [Sub -> Record]
    BY <1>1, CurrentIsToDo DEF KeepEntry, InHook, IInv, Typed
  <2>2. /\ mem'[Current] = boot[Current] /\ \A q \in Sub \ {Current} : mem'[q] = mem[q]
        /\ file' = file /\ todo' \subseteq todo /\ boot' = boot /\ made' = made
        /\ cast' = cast /\ asleep' = asleep
    BY <1>1, <2>1 DEF KeepEntry, Entry, GoOn, hookFrame
  <2> QED
    BY <2>1, <2>2 DEF AsleepInv, KindOf
<1>2. CASE DropEntry \/ EndHook
  <2>1. /\ mem' = mem /\ file' = file /\ made' = made /\ cast' = cast /\ asleep' = asleep
        /\ todo' \subseteq todo /\ (todo' # {} => boot' = boot)
        /\ rest = "next"
    BY <1>2 DEF DropEntry, GoOnAfterDrop, GoOn, hookFrame, EndHook, IInv, Position
  <2> QED
    BY <2>1 DEF AsleepInv, KindOf
<1>3. CASE StartHook
  <2>1. rest = "next"
    BY <1>3 DEF StartHook, IInv, Position
  <2>2. /\ mem' = mem /\ file' = file /\ made' = made /\ cast' = cast /\ asleep' = asleep
        /\ boot' = file
    BY <1>3 DEF StartHook
  <2> QED
    BY <2>1, <2>2 DEF AsleepInv, KindOf
<1>4. CASE Kill
  <2>1. /\ \A q \in Sub : mem'[q].st = "none"
        /\ file' = file /\ made' = made /\ cast' = cast /\ todo' = {}
        /\ asleep' = IF rest = "pause" THEN asleep \ {Current} ELSE asleep
    BY <1>4, NoneIsRecord DEF Kill
  <2> QED
    BY <2>1 DEF AsleepInv, KindOf, Sleeping
<1>5. CASE UNCHANGED vars
  BY <1>5 DEF vars, AsleepInv, KindOf, Current, Sleeping
<1> QED
  BY <1>1, <1>2, <1>3, <1>4, <1>5

(* A pause lasts until somebody takes it back, over any number of restarts *)
(* at any write but the one between the two of its own resume.             *)
THEOREM PausesSurvive == Spec => []PausedStaysPaused
<1>1. Init => AsleepInv
  BY DEF Init, AsleepInv
<1>2. IInv /\ AsleepInv /\ [Next]_vars => AsleepInv'
  <2> SUFFICES ASSUME IInv, AsleepInv, [Next]_vars PROVE AsleepInv'
    OBVIOUS
  <2>1. CASE \E s \in Sub :
               \/ Spawn(s) \/ StartTurn(s) \/ CompleteTurn(s) \/ Pause(s) \/ Unpause(s)
               \/ NotesMerge(s)
               \/ \E st \in {"auto", "closed"} : Close(s, st)
               \/ \E m \in Msg : Send(s, m)
    BY <2>1, OperationsKeepAsleep
  <2>2. CASE CloseResolved \/ RespawnEntry \/ RestoreInbox \/ RestoreTranscript \/ RestorePause
    BY <2>2, HookStepsKeepAsleep
  <2>3. CASE KeepEntry \/ DropEntry \/ StartHook \/ EndHook \/ Kill \/ UNCHANGED vars
    BY <2>3, OtherStepsKeepAsleep
  <2> QED
    BY <2>1, <2>2, <2>3 DEF Next, Hook
<1>3. IInv /\ AsleepInv => PausedStaysPaused
  <2> SUFFICES ASSUME IInv, AsleepInv, phase = "up" \/ HookDone,
                      NEW s \in asleep, KindOf[s] = "periodic", Live(mem[s])
               PROVE  mem[s].st = "paused"
    BY DEF PausedStaysPaused
  <2>1. rest = "next"
    BY DEF HookDone, IInv, Position
  <2> QED
    BY <2>1 DEF AsleepInv, Sleeping, Live
<1> QED
  BY <1>1, <1>2, <1>3, Invariant, PTL DEF Spec

-----------------------------------------------------------------------------
(* Messages survive.  MailInv says where a message is that s has accepted: *)
(* it was heard, or the entry or record of s has it, in the file as well,  *)
(* so that a kill finds it there.  The exception is a chat of which only   *)
(* the spawn is written; a kill then sets cut.                             *)

MailTyped ==
    /\ sent \in [Msg -> Sub \cup {0, Void}] /\ taken \in [Sub -> SUBSET Msg]
    /\ \A m \in Msg : sent[m] \in Sub => sent[m] <= made

InHands == \A s \in Sub : Live(mem[s]) => mem[s].flight \subseteq taken[s]

HalfBack(s) == rest = "inbox" /\ s = Current

MailKept ==
    \A m \in Msg, s \in Sub :
        sent[m] = s /\ (KindOf[s] = "chat" => ~cut) =>
            /\ s \in todo => m \in heard \cup MailOf(boot[s])
            /\ ~HalfBack(s) =>
                  /\ file[s].st # "none" => m \in heard \cup MailOf(file[s])
                  /\ mem[s].st # "none" => m \in heard \cup MailOf(mem[s])

MailInv == MailTyped /\ InHands /\ MailKept

(* A write of the record of s keeps what the others have; what s has is    *)
(* for the step to show.                                                   *)
LEMMA WriteKeepsMail ==
    ASSUME IInv, MailInv, NEW s, NEW r, Writes(s, r),
           boot' = boot, todo' \subseteq todo, cut' = cut, cast' = cast, heard \subseteq heard',
           rest = "next" \/ s = Current, rest' = "inbox" => Current' = s,
           \A m \in Msg, q \in Sub : sent'[m] = q /\ (q # s \/ s \in todo') => sent[m] = q,
           \A m \in Msg : sent'[m] = s /\ (KindOf[s] = "chat" => ~cut) /\ rest' # "inbox"
               => m \in heard' \cup MailOf(r)
    PROVE  MailKept'
<1> SUFFICES ASSUME NEW m \in Msg, NEW q \in Sub, sent'[m] = q, KindOf[q] = "chat" => ~cut
             PROVE  /\ q \in todo' => m \in heard' \cup MailOf(boot[q])
                    /\ ~(rest' = "inbox" /\ q = Current') =>
                          (mem'[q].st # "none" => m \in heard' \cup MailOf(mem'[q]))
  BY DEF MailKept, HalfBack, MailOf, Writes, KindOf
<1>1. /\ s \in Sub /\ mem'[s] = r
      /\ \A x \in Sub \ {s} : mem'[x] = mem[x]
  BY RecordUpdates DEF IInv, Typed, Writes
<1>2. q \in todo' => m \in heard' \cup MailOf(boot[q])
  BY DEF MailInv, MailKept
<1>3. CASE q # s
  <2>1. sent[m] = q /\ ~HalfBack(q)
    BY <1>3 DEF HalfBack
  <2> QED
    BY <1>1, <1>2, <1>3, <2>1 DEF MailInv, MailKept
<1>4. CASE q = s
  BY <1>1, <1>2, <1>4
<1> QED
  BY <1>3, <1>4

LEMMA OperationsKeepMail ==
    ASSUME IInv, MailInv, NEW s \in Sub,
           \/ Spawn(s) \/ StartTurn(s) \/ CompleteTurn(s) \/ Pause(s) \/ Unpause(s)
           \/ NotesMerge(s)
           \/ \E st \in {"auto", "closed"} : Close(s, st)
           \/ \E m \in Msg : Send(s, m)
    PROVE  MailInv'
<1>1. PICK r \in Record : Operated(s, r)
  BY OperationsWrite
<1>2. /\ mem'[s] = r /\ Writes(s, r) /\ rest = "next" /\ rest' = "next"
      /\ boot' = boot /\ todo' = todo /\ cast' = cast /\ todo = {}
      /\ \A q \in Sub \ {s} : mem'[q] = mem[q]
      /\ Sub \subseteq Int /\ made \in Nat /\ mem[s] \in Record
  <2>1. Sub \subseteq Int /\ made \in Nat /\ mem[s] \in Record
    BY ResumeConstants DEF IInv, Typed, Sub
  <2>2. todo = {} /\ rest = "next"
    BY <1>1 DEF Operated, IInv, Typed, Position
  <2>3. mem'[s] = r /\ \A q \in Sub \ {s} : mem'[q] = mem[q]
    BY <1>1, RecordUpdates DEF Operated, Writes, IInv, Typed
  <2> QED
    BY <1>1, <2>1, <2>2, <2>3 DEF Operated
<1>3. cut' = cut
  BY DEF Spawn, StartTurn, CompleteTurn, Pause, Unpause, NotesMerge, Close, Send, hookVars
<1>4. heard \subseteq heard'
  BY DEF Spawn, StartTurn, CompleteTurn, Pause, Unpause, NotesMerge, Close, Send
<1>9. taken' \in [Sub -> SUBSET Msg]
  <2>1. MailOf(mem[s]) \subseteq Msg /\ taken \in [Sub -> SUBSET Msg]
    BY <1>2 DEF MailOf, Record, MailInv, MailTyped
  <2> QED
    BY <2>1 DEF Spawn, StartTurn, CompleteTurn, Pause, Unpause, NotesMerge, Close, Send
<1>5. /\ MailTyped'
      /\ \A m \in Msg, q \in Sub : sent'[m] = q /\ q # s => sent[m] = q
  <2>0. made' \in Nat /\ made <= made' /\ Void \notin Sub
    BY <1>1, <1>2 DEF Operated, Void, Sub
  <2>1. CASE sent' = sent
    <3>1. ASSUME NEW m \in Msg, sent[m] \in Sub
          PROVE  sent[m] <= made'
      <4>1. sent[m] <= made /\ sent[m] \in Int
        BY <1>2, <3>1 DEF MailInv, MailTyped
      <4> QED
        BY <1>2, <2>0, <4>1
    <3> QED
      BY <2>1, <1>9, <3>1 DEF MailInv, MailTyped
  <2>2. CASE \E st \in {"auto", "closed"} : Close(s, st)
    <3>1. made' = made /\ sent' = SentToOthers(s)
      BY <2>2 DEF Close, hookVars
    <3>2. \A m \in Msg : sent'[m] \in {sent[m], Void}
      BY <3>1 DEF SentToOthers
    <3>3. sent' \in [Msg -> Sub \cup {0, Void}]
      BY <3>1 DEF SentToOthers, MailInv, MailTyped
    <3> QED
      BY <1>9, <2>0, <3>1, <3>2, <3>3 DEF MailInv, MailTyped
  <2>3. ASSUME NEW m \in Msg, Send(s, m)
        PROVE  MailTyped' /\ \A n \in Msg, q \in Sub : sent'[n] = q /\ q # s => sent[n] = q
    <3>1. s <= made
      <4>1. mem[s].st # "none"
        BY <2>3 DEF Send, Live
      <4> QED
        BY <1>2, <4>1 DEF IInv, Unused
    <3> QED
      BY <2>3, <1>9, <3>1 DEF Send, MailInv, MailTyped, hookVars
  <2> QED
    BY <2>1, <2>2, <2>3 DEF Spawn, StartTurn, CompleteTurn, Pause, Unpause, NotesMerge
<1>6. ASSUME NEW m \in Msg, sent'[m] = s, KindOf[s] = "chat" => ~cut
      PROVE  m \in heard' \cup MailOf(r)
  <2>1. sent[m] = s => made >= s
    BY <1>2 DEF MailInv, MailTyped
  <2>2. sent[m] = s /\ mem[s].st # "none" => m \in heard \cup MailOf(mem[s])
    BY <1>2, <1>6 DEF MailInv, MailKept, HalfBack
  <2>3. CASE Spawn(s)
    BY <1>2, <1>6, <2>1, <2>3 DEF Spawn
  <2>4. CASE StartTurn(s) \/ Pause(s) \/ Unpause(s) \/ NotesMerge(s)
    <3>1. sent' = sent /\ mem[s].st # "none" /\ MailOf(mem'[s]) = MailOf(mem[s])
      <4>1. CASE StartTurn(s)
        BY <4>1 DEF StartTurn, Persist, MailOf, IInv, Typed, Record
      <4>2. CASE Pause(s)
        BY <4>2 DEF Pause, Persist, MailOf, IInv, Typed, Record
      <4>3. CASE Unpause(s)
        BY <4>3 DEF Unpause, Persist, MailOf, IInv, Typed, Record
      <4>4. CASE NotesMerge(s)
        BY <4>4 DEF NotesMerge, Persist, MailOf, IInv, Typed, Record
      <4> QED
        BY <2>4, <4>1, <4>2, <4>3, <4>4
    <3> QED
      BY <1>2, <1>4, <1>6, <2>2, <3>1
  <2>5. CASE CompleteTurn(s)
    <3>1. mem'[s].inbox = mem[s].inbox
      BY <2>5 DEF CompleteTurn, Persist, IInv, Typed, Record
    <3>2. mem[s].flight \subseteq taken[s] /\ taken[s] \subseteq heard'
      BY <2>5 DEF CompleteTurn, MailInv, InHands, Live
    <3> QED
      BY <1>2, <1>4, <1>6, <2>2, <2>5, <3>1, <3>2 DEF CompleteTurn, MailOf
  <2>6. ASSUME NEW st \in {"auto", "closed"}, Close(s, st)
        PROVE  FALSE
    BY <1>2, <1>6, <2>6 DEF Close, SentToOthers, Void, Sub
  <2>7. ASSUME NEW n \in Msg, Send(s, n)
        PROVE  m \in heard' \cup MailOf(r)
    <3>1. mem'[s].inbox = mem[s].inbox \cup {n} /\ mem'[s].flight = mem[s].flight
      BY <2>7 DEF Send, Persist, IInv, Typed, Record
    <3>2. CASE m = n
      BY <1>2, <3>1, <3>2 DEF MailOf
    <3>3. CASE m # n
      BY <1>2, <1>4, <1>6, <2>2, <2>7, <3>1, <3>3 DEF Send, MailOf, Live
    <3> QED
      BY <3>2, <3>3
  <2> QED
    BY <2>3, <2>4, <2>5, <2>6, <2>7
<1>7. MailKept'
  BY <1>2, <1>3, <1>4, <1>5, <1>6, WriteKeepsMail
<1>8. InHands'
  <2>1. taken \in [Sub -> SUBSET Msg]
    BY DEF MailInv, MailTyped
  <2>2. \A q \in Sub \ {s} : taken'[q] = taken[q]
    BY <2>1 DEF Spawn, StartTurn, CompleteTurn, Pause, Unpause, NotesMerge, Close, Send
  <2>3. Live(r) => r.flight \subseteq taken'[s]
    <3>1. CASE Spawn(s)
      BY <1>2, <3>1 DEF Spawn, Persist, Fresh, None, IInv, Typed
    <3>2. CASE StartTurn(s) \/ CompleteTurn(s) \/ \E st \in {"auto", "closed"} : Close(s, st)
      <4>1. CASE StartTurn(s)
        BY <1>2, <2>1, <4>1 DEF StartTurn, Persist, IInv, Typed, Record
      <4>2. CASE CompleteTurn(s)
        BY <1>2, <2>1, <4>2 DEF CompleteTurn, Persist, IInv, Typed, Record
      <4>3. CASE \E st \in {"auto", "closed"} : Close(s, st)
        BY <1>2, <2>1, <4>3 DEF Close, Persist, IInv, Typed, Record
      <4> QED BY <3>2, <4>1, <4>2, <4>3
    <3>3. CASE Pause(s) \/ Unpause(s) \/ NotesMerge(s) \/ \E m \in Msg : Send(s, m)
      <4>1. taken' = taken /\ Live(mem[s]) /\ mem'[s].flight = mem[s].flight
        <5>1. CASE Pause(s)
          BY <5>1 DEF Pause, Persist, Live, IInv, Typed, Record
        <5>2. CASE Unpause(s)
          BY <5>2 DEF Unpause, Persist, Live, IInv, Typed, Record
        <5>3. CASE NotesMerge(s)
          BY <5>3 DEF NotesMerge, Persist, Live, IInv, Typed, Record
        <5>4. CASE \E m \in Msg : Send(s, m)
          <6>1. PICK m \in Msg : Send(s, m)
            BY <5>4
          <6> QED
            BY <6>1 DEF Send, Persist, IInv, Typed, Record
        <5> QED
          BY <3>3, <5>1, <5>2, <5>3, <5>4
      <4> QED
        BY <1>2, <4>1 DEF MailInv, InHands
    <3> QED
      BY <3>1, <3>2, <3>3
  <2> QED
    BY <1>2, <2>2, <2>3 DEF MailInv, InHands
<1> QED
  BY <1>5, <1>7, <1>8 DEF MailInv

LEMMA HookStepsKeepMail ==
    ASSUME IInv, MailInv,
           \/ CloseResolved \/ RespawnEntry \/ RestoreInbox \/ RestoreTranscript \/ RestorePause
    PROVE  MailInv'
<1> DEFINE s == Current
<1>1. PICK r \in Record, what \in {"next", "inbox", "text", "pause"} :
           Hooked(r, what) /\ HookWrites(r, what)
  BY HookStepsWrite
<1>2. /\ s \in todo /\ s \in Sub /\ mem'[s] = r /\ Writes(s, r) /\ Entry = boot[s]
      /\ boot' = boot /\ cast' = cast /\ made' = made /\ phase = "resuming"
      /\ \A q \in Sub \ {s} : mem'[q] = mem[q]
  BY <1>1, CurrentIsToDo, RecordUpdates DEF Hooked, Writes, InHook, IInv, Typed, Entry
<1>3. /\ rest' = what /\ todo' \subseteq todo
      /\ what = "next" => s \notin todo'
      /\ what = "inbox" => Current' = s
  BY <1>1 DEF Hooked, Current
<1>4. cut' = cut /\ heard' = heard /\ taken' = taken
  BY DEF CloseResolved, RespawnEntry, RestoreInbox, RestoreTranscript, RestorePause, GoOn, hookFrame
<1>5. \/ sent' = sent
      \/ r.st = "closed" /\ what = "next" /\ sent' = SentToOthers(s)
  <2>1. CASE CloseResolved
    <3>1. r.st = "closed" /\ rest' = "next"
      BY <1>1, <1>2, <2>1 DEF CloseResolved, Persist, Hooked, IInv, Typed, Record
    <3> QED
      BY <1>3, <2>1, <3>1 DEF CloseResolved
  <2>2. CASE RespawnEntry \/ RestoreInbox \/ RestoreTranscript \/ RestorePause
    BY <2>2 DEF RespawnEntry, RestoreInbox, RestoreTranscript, RestorePause, GoOn
  <2> QED
    BY <2>1, <2>2
<1>6. Void \notin Sub
  BY DEF Void, Sub
<1>7. /\ MailTyped'
      /\ \A m \in Msg, q \in Sub : sent'[m] = q => sent[m] = q
  BY <1>2, <1>4, <1>5, <1>6 DEF SentToOthers, MailInv, MailTyped
<1>8. ASSUME NEW m \in Msg, sent'[m] = s, KindOf[s] = "chat" => ~cut, what # "inbox"
      PROVE  m \in heard \cup MailOf(r)
  <2>1. sent[m] = s
    BY <1>2, <1>7, <1>8
  <2>2. m \in heard \cup MailOf(boot[s])
    BY <1>2, <1>8, <2>1 DEF MailInv, MailKept
  <2>3. CASE CloseResolved
    BY <1>2, <1>6, <1>8, <2>3 DEF CloseResolved, SentToOthers
  <2>4. CASE RespawnEntry
    <3>1. KindOf[s] # "chat"
      BY <1>3, <1>8, <2>4 DEF RespawnEntry, GoOn, AfterSpawn
    <3>2. r.inbox = MailOf(boot[s])
      BY <1>2, <2>4, <3>1 DEF RespawnEntry, Persist, Respawned, RebuildInbox, MailOf, IInv, Typed, Fresh, None
    <3> QED
      BY <2>2, <3>2 DEF MailOf
  <2>5. CASE RestoreInbox
    <3>1. r.inbox = MailOf(boot[s])
      BY <1>2, <2>5 DEF RestoreInbox, Persist, RebuildInbox, MailOf, IInv, Typed, Record
    <3> QED
      BY <2>2, <3>1 DEF MailOf
  <2>6. CASE RestoreTranscript \/ RestorePause
    <3>1. mem[s].st # "none" /\ ~HalfBack(s)
      BY <2>6 DEF RestoreTranscript, RestorePause, IInv, Position, HalfBack
    <3>2. m \in heard \cup MailOf(mem[s])
      BY <1>2, <1>8, <2>1, <3>1 DEF MailInv, MailKept
    <3>3. MailOf(r) = MailOf(mem[s])
      <4>1. CASE RestoreTranscript
        BY <1>2, <4>1 DEF RestoreTranscript, Persist, MailOf, IInv, Typed, Record
      <4>2. CASE RestorePause
        BY <1>2, <4>2 DEF RestorePause, Persist, MailOf, IInv, Typed, Record
      <4> QED
        BY <2>6, <4>1, <4>2
    <3> QED
      BY <3>2, <3>3
  <2> QED
    BY <2>3, <2>4, <2>5, <2>6
<1>9. MailKept'
  <2>1. rest = "next" \/ s = Current
    OBVIOUS
  <2> QED
    BY <1>2, <1>3, <1>4, <1>7, <1>8, <2>1, WriteKeepsMail
<1>10. InHands'
  <2>1. Live(r) => r.flight \subseteq taken[s]
    <3>1. CASE CloseResolved
      BY <1>2, <3>1 DEF CloseResolved, Persist, Live, IInv, Typed, Record
    <3>2. CASE RespawnEntry
      BY <1>2, <3>2 DEF RespawnEntry, Persist, Respawned, Fresh, None, IInv, Typed
    <3>3. CASE RestoreInbox \/ RestoreTranscript \/ RestorePause
      <4>1. mem[s].st = "active" /\ Live(mem[s])
        BY <3>3 DEF RestoreInbox, RestoreTranscript, RestorePause, IInv, Position, Live
      <4>2. r.flight = mem[s].flight
        <5>1. CASE RestoreInbox
          BY <1>2, <5>1 DEF RestoreInbox, Persist, IInv, Typed, Record
        <5>2. CASE RestoreTranscript
          BY <1>2, <5>2 DEF RestoreTranscript, Persist, IInv, Typed, Record
        <5>3. CASE RestorePause
          BY <1>2, <5>3 DEF RestorePause, Persist, IInv, Typed, Record
        <5> QED
          BY <3>3, <5>1, <5>2, <5>3
      <4> QED
        BY <1>2, <4>1, <4>2 DEF MailInv, InHands
    <3> QED
      BY <3>1, <3>2, <3>3
  <2> QED
    BY <1>2, <1>4, <2>1 DEF MailInv, InHands
<1> QED
  BY <1>7, <1>9, <1>10 DEF MailInv

LEMMA OtherStepsKeepMail ==
    ASSUME IInv, MailInv,
           KeepEntry \/ DropEntry \/ StartHook \/ EndHook \/ Kill \/ UNCHANGED vars
    PROVE  MailInv'
<1>1. MailTyped'
  <2>1. taken' = taken \/ taken' = [s \in Sub |-> {}]
    BY DEF KeepEntry, DropEntry, GoOnAfterDrop, GoOn, hookFrame, StartHook, EndHook, Kill, vars
  <2>2. sent' = sent /\ made' = made
    BY DEF KeepEntry, DropEntry, GoOnAfterDrop, GoOn, hookFrame, StartHook, EndHook, Kill, vars
  <2> QED
    BY <2>1, <2>2 DEF MailInv, MailTyped
<1>2. CASE KeepEntry
  <2> DEFINE s == Current
  <2>1. s \in todo /\ s \in Sub /\ rest = "next"
    BY <1>2, CurrentIsToDo DEF KeepEntry, InHook, IInv, Typed
  <2>2. mem'[s] = boot[s] /\ \A q \in Sub \ {s} : mem'[q] = mem[q]
    BY <1>2, <2>1, RecordUpdates DEF KeepEntry, Entry, IInv, Typed
  <2>3. /\ todo' = todo \ {s} /\ rest' = "next" /\ file' = file /\ boot' = boot
        /\ taken' = taken /\ heard' = heard /\ cut' = cut /\ cast' = cast /\ sent' = sent
    BY <1>2 DEF KeepEntry, GoOn, hookFrame
  <2>4. ~Live(boot[s])
    BY <1>2 DEF KeepEntry, Respawns, Entry
  <2>5. InHands'
    BY <2>2, <2>3, <2>4 DEF MailInv, InHands
  <2>6. MailKept'
    BY <2>1, <2>2, <2>3 DEF MailInv, MailKept, HalfBack, KindOf
  <2> QED
    BY <1>1, <2>5, <2>6 DEF MailInv
<1>3. CASE DropEntry \/ EndHook \/ UNCHANGED vars
  <2>1. /\ mem' = mem /\ file' = file /\ taken' = taken /\ heard' = heard
        /\ cut' = cut /\ cast' = cast /\ sent' = sent /\ todo' \subseteq todo
        /\ boot' = boot \/ todo' = {}
        /\ rest = "next" \/ (rest' = rest /\ todo' = todo)
    BY <1>3 DEF DropEntry, GoOnAfterDrop, GoOn, hookFrame, EndHook, vars, InHook, IInv, Position
  <2>2. \A q \in Sub : HalfBack(q)' => HalfBack(q)
    BY <1>3 DEF DropEntry, GoOnAfterDrop, GoOn, hookFrame, EndHook, vars, HalfBack, Current
  <2>3. \A q \in Sub : HalfBack(q) => HalfBack(q)'
    BY <2>1 DEF HalfBack, Current
  <2>4. MailKept'
    BY <2>1, <2>2, <2>3 DEF MailInv, MailKept, KindOf
  <2> QED
    BY <1>1, <2>1, <2>4 DEF MailInv, InHands
<1>4. CASE StartHook
  <2>1. /\ \A q \in Sub : mem[q].st = "none"
        /\ mem' = mem /\ file' = file /\ boot' = file /\ rest = "next" /\ rest' = "next"
        /\ heard' = heard /\ cut' = cut /\ cast' = cast /\ sent' = sent
        /\ todo' = {q \in Sub : file[q].st # "none"} /\ taken' = taken
    BY <1>4 DEF StartHook, IInv, Position, Typed
  <2>2. MailKept'
    BY <2>1 DEF MailInv, MailKept, HalfBack, KindOf
  <2> QED
    BY <1>1, <2>1, <2>2 DEF MailInv, InHands, Live
<1>5. CASE Kill
  <2>1. /\ \A q \in Sub : mem'[q].st = "none"
        /\ file' = file /\ todo' = {} /\ rest' = "next"
        /\ heard' = heard /\ cast' = cast /\ sent' = sent
        /\ cut' = (cut \/ phase = "resuming")
    BY <1>5, NoneIsRecord DEF Kill
  <2>2. \A q \in Sub : HalfBack(q) => cut' /\ KindOf[q] = "chat"
    BY <2>1 DEF HalfBack, IInv, Position
  <2>3. MailKept'
    BY <2>1, <2>2 DEF MailInv, MailKept, HalfBack, KindOf
  <2> QED
    BY <1>1, <2>1, <2>3 DEF MailInv, InHands, Live
<1> QED
  BY <1>2, <1>3, <1>4, <1>5

LEMMA InitMail == Init => MailInv
<1> SUFFICES ASSUME Init PROVE MailInv
  OBVIOUS
<1>1. 0 \notin Sub /\ \A s \in Sub : mem[s].st = "none"
  BY NoneIsRecord DEF Init, Sub
<1> QED
  BY <1>1 DEF Init, MailInv, MailTyped, InHands, MailKept, Live

(* A message that a live record has accepted was heard, waits in its inbox *)
(* or is in the hands of its worker, across any number of restarts, unless *)
(* the record is a chat and the hook was killed.                           *)
THEOREM MessagesSurvive == Spec => []MailSurvives
<1>1. IInv /\ MailInv /\ [Next]_vars => MailInv'
  <2> SUFFICES ASSUME IInv, MailInv, [Next]_vars
               PROVE  MailInv'
    OBVIOUS
  <2>1. CASE \E s \in Sub :
               \/ Spawn(s) \/ StartTurn(s) \/ CompleteTurn(s) \/ Pause(s) \/ Unpause(s)
               \/ NotesMerge(s)
               \/ \E st \in {"auto", "closed"} : Close(s, st)
               \/ \E m \in Msg : Send(s, m)
    BY <2>1, OperationsKeepMail
  <2>2. CASE CloseResolved \/ RespawnEntry \/ RestoreInbox \/ RestoreTranscript \/ RestorePause
    BY <2>2, HookStepsKeepMail
  <2>3. CASE KeepEntry \/ DropEntry \/ StartHook \/ EndHook \/ Kill \/ UNCHANGED vars
    BY <2>3, OtherStepsKeepMail
  <2> QED
    BY <2>1, <2>2, <2>3 DEF Next, Hook
<1>2. IInv /\ MailInv => MailSurvives
  <2> SUFFICES ASSUME IInv, MailInv, phase = "up", NEW m \in Msg, NEW s \in Sub,
                      sent[m] = s, Live(mem[s]), KindOf[s] = "chat" => ~cut
               PROVE  m \in heard \cup mem[s].inbox \cup taken[s]
    BY DEF MailSurvives
  <2>1. ~HalfBack(s) /\ mem[s].st # "none"
    BY DEF IInv, Position, HalfBack, Live
  <2>2. m \in heard \cup MailOf(mem[s])
    BY <2>1 DEF MailInv, MailKept
  <2> QED
    BY <2>2 DEF MailInv, InHands, MailOf
<1> QED
  BY InitMail, Invariant, <1>1, <1>2, PTL DEF Spec

-----------------------------------------------------------------------------
(* Live records come back.  The hook takes the entries in their order, and *)
(* what is live is an entry that it has respawned, so that the record that *)
(* holds a key, or those that fill the cap, come before the one they keep  *)
(* out.                                                                    *)

Excused(s) ==
    \/ s \in Bad
    \/ \E q \in 1..(s - 1) : Respawns(q, boot[q]) /\ KeyOf[q] = KeyOf[s] /\ KeyOf[s] # NoKey
    \/ Cardinality({q \in 1..(s - 1) : Respawns(q, boot[q])}) >= Cap

BackInv ==
    phase = "resuming" =>
        /\ \A q \in Sub \ todo, s \in todo : boot[q].st # "none" => q < s
        /\ \A s \in Sub : Live(mem[s]) => Respawns(s, boot[s])
        /\ \A s \in Sub \ todo : Live(boot[s]) /\ mem[s].st = "none" => Excused(s)

(* An entry is dropped for one of the three reasons.                       *)
LEMMA DroppedIsExcused ==
    ASSUME IInv, BackInv, DropEntry
    PROVE  Excused(Current)
<1> DEFINE s == Current
           R == {q \in 1..(s - 1) : Respawns(q, boot[q])}
<1>1. /\ phase = "resuming" /\ rest = "next" /\ todo # {} /\ todo \subseteq Sub
      /\ ~CanSpawn(s)
  BY DEF DropEntry, InHook, IInv, Typed
<1>2. s \in todo /\ s \in Sub /\ Sub \subseteq Nat /\ Sub = 1..N
  <2>1. s \in todo
    BY <1>1, CurrentIsToDo
  <2>2. N \in Nat
    BY ResumeConstants
  <2>3. Sub \subseteq Nat /\ Sub = 1..N
    BY <2>2 DEF Sub
  <2> QED
    BY <1>1, <2>1, <2>3
<1>3. ASSUME NEW q \in Sub, Live(mem[q])
      PROVE  q \in R
  <2>1. q \notin todo
    BY <1>1, <1>3 DEF IInv, Position, Live
  <2>2. Respawns(q, boot[q]) /\ boot[q].st # "none"
    BY <1>1, <1>3 DEF BackInv, Respawns, Live
  <2>3. q < s
    BY <1>1, <1>2, <1>3, <2>1, <2>2 DEF BackInv
  <2>4. q \in 1..(s - 1)
    <3>1. q \in Int /\ s \in Int /\ 1 <= q
      BY <1>2, <1>3
    <3> QED BY <2>3, <3>1
  <2> QED BY <2>2, <2>4
<1>4. CASE s \in Bad
  BY <1>4 DEF Excused
<1>5. CASE KeyTaken(mem, s)
  <2>1. PICK q \in Sub : Live(mem[q]) /\ KeyOf[q] = KeyOf[s] /\ KeyOf[s] # NoKey
    BY <1>5 DEF KeyTaken
  <2>2. q \in 1..(s - 1) /\ Respawns(q, boot[q])
    BY <1>3, <2>1
  <2> QED BY <2>1, <2>2 DEF Excused
<1>6. CASE ~(Cardinality(Counted(mem)) < Cap)
  <2>1. IsFiniteSet(1..(s - 1)) /\ R \in SUBSET (1..(s - 1))
    BY <1>2, FS_Interval
  <2>2. Counted(mem) \in SUBSET R
    BY <1>3 DEF Counted, Live
  <2> HIDE DEF R
  <2>3. IsFiniteSet(R)
    BY <2>1, FS_Subset
  <2>4. /\ Cardinality(Counted(mem)) \in Nat /\ Cardinality(R) \in Nat
        /\ Cardinality(Counted(mem)) <= Cardinality(R)
    BY <2>2, <2>3, FS_Subset, FS_CardinalityType
  <2>5. Cardinality(R) >= Cap
    BY <1>6, <2>4, ResumeConstants
  <2> QED BY <2>5 DEF Excused, R
<1> QED BY <1>1, <1>4, <1>5, <1>6 DEF CanSpawn

(* A step of the hook that is done with the current entry, or not.         *)
LEMMA GoesOnInOrder ==
    ASSUME IInv, BackInv, phase = "resuming", todo # {}, boot' = boot, cast' = cast,
           todo' \in {todo, todo \ {Current}},
           \A q \in Sub \ {Current} : mem'[q] = mem[q],
           Live(mem'[Current]) => Respawns(Current, boot[Current]),
           Current \notin todo' /\ Live(boot[Current]) /\ mem'[Current].st = "none" => Excused(Current)
    PROVE  BackInv'
<1>1. todo \subseteq Sub /\ Sub \subseteq Nat /\ Current \in todo /\ \A q \in todo : Current <= q
  BY CurrentIsToDo, ResumeConstants DEF IInv, Typed, Sub
<1>2. \A q \in Sub \ todo', s \in todo' : boot'[q].st # "none" => q < s
  <2> SUFFICES ASSUME NEW q \in Sub \ todo', NEW s \in todo', boot[q].st # "none" PROVE q < s
    OBVIOUS
  <2>1. CASE q \in todo
    <3>1. q = Current /\ s # Current /\ s \in todo
      BY <2>1
    <3> QED BY <1>1, <3>1
  <2>2. CASE q \notin todo
    BY <2>2 DEF BackInv
  <2> QED BY <2>1, <2>2
<1>3. \A s \in Sub : Live(mem'[s]) => Respawns(s, boot[s])
  BY DEF BackInv
<1>4. \A s \in Sub \ todo' : Live(boot[s]) /\ mem'[s].st = "none" => Excused(s)
  BY DEF BackInv
<1>5. /\ \A s : Excused(s)' <=> Excused(s)
      /\ \A s, r : Respawns(s, r)' <=> Respawns(s, r)
  BY DEF Excused, Respawns, Bad, KeyOf, Monitor, KindOf
<1> QED BY <1>2, <1>3, <1>4, <1>5 DEF BackInv

LEMMA StepsBringBack ==
    ASSUME IInv, BackInv, [Next]_vars
    PROVE  BackInv'
<1>1. CASE RespawnEntry \/ CloseResolved \/ RestoreInbox \/ RestoreTranscript \/ RestorePause
  <2>1. PICK r \in Record, what \in {"next", "inbox", "text", "pause"} :
            Hooked(r, what) /\ HookWrites(r, what)
    BY <1>1, HookStepsWrite
  <2>2. /\ phase = "resuming" /\ todo # {} /\ boot' = boot /\ cast' = cast
        /\ todo' \in {todo, todo \ {Current}}
        /\ mem' = [mem EXCEPT ![Current] = r] /\ Current \in Sub
    BY <2>1 DEF Hooked, InHook, Writes
  <2>3. mem'[Current] = r /\ \A q \in Sub \ {Current} : mem'[q] = mem[q]
    BY <2>2, RecordUpdates DEF IInv, Typed
  <2>4. r.st # "none"
    BY <2>1 DEF HookWrites
  <2>5. Live(r) => Respawns(Current, boot[Current])
    <3>1. CASE RespawnEntry \/ CloseResolved
      BY <3>1 DEF RespawnEntry, CloseResolved, Entry
    <3>2. CASE RestoreInbox \/ RestoreTranscript \/ RestorePause
      <4>1. Live(mem[Current])
        BY <3>2 DEF RestoreInbox, RestoreTranscript, RestorePause, IInv, Position, Live
      <4> QED BY <2>2, <4>1 DEF BackInv
    <3> QED BY <1>1, <3>1, <3>2
  <2> QED BY <2>2, <2>3, <2>4, <2>5, GoesOnInOrder
<1>2. CASE KeepEntry
  <2>1. /\ phase = "resuming" /\ todo # {} /\ boot' = boot /\ cast' = cast
        /\ todo' = todo \ {Current} /\ ~Respawns(Current, boot[Current])
        /\ mem' = [mem EXCEPT ![Current] = boot[Current]]
    BY <1>2 DEF KeepEntry, GoOn, hookFrame, InHook, Entry
  <2>2. Current \in Sub /\ boot[Current] \in Record
    BY <2>1, CurrentIsToDo DEF IInv, Typed
  <2>3. mem'[Current] = boot[Current] /\ \A q \in Sub \ {Current} : mem'[q] = mem[q]
    BY <2>1, <2>2, RecordUpdates DEF IInv, Typed
  <2>4. ~Live(boot[Current])
    BY <2>1 DEF Respawns
  <2> QED BY <2>1, <2>3, <2>4, GoesOnInOrder
<1>3. CASE DropEntry
  <2>1. /\ phase = "resuming" /\ todo # {} /\ boot' = boot /\ cast' = cast
        /\ todo' = todo \ {Current} /\ mem' = mem /\ Respawns(Current, boot[Current])
    BY <1>3 DEF DropEntry, GoOnAfterDrop, GoOn, hookFrame, InHook, Entry
  <2>2. Excused(Current)
    BY <1>3, DroppedIsExcused
  <2> QED BY <2>1, <2>2, GoesOnInOrder
<1>4. CASE StartHook
  <2>1. /\ boot' = file /\ todo' = {s \in Sub : file[s].st # "none"} /\ mem' = mem
        /\ \A s \in Sub : mem[s].st = "none"
    BY <1>4 DEF StartHook, IInv, Position
  <2> QED BY <2>1 DEF BackInv, Live
<1>5. CASE EndHook \/ Kill
  BY <1>5 DEF EndHook, Kill, BackInv
<1>6. CASE UNCHANGED vars
  BY <1>6 DEF vars, BackInv, Excused, Respawns, Bad, KeyOf, Monitor, KindOf
<1>7. ASSUME NEW s \in Sub,
             \/ Spawn(s) \/ StartTurn(s) \/ CompleteTurn(s) \/ Pause(s) \/ Unpause(s)
             \/ NotesMerge(s)
             \/ \E st \in {"auto", "closed"} : Close(s, st)
             \/ \E m \in Msg : Send(s, m)
      PROVE  BackInv'
  <2>1. phase' # "resuming"
    BY <1>7, OperationsWrite DEF Operated
  <2> QED BY <2>1 DEF BackInv
<1> QED BY <1>1, <1>2, <1>3, <1>4, <1>5, <1>6, <1>7 DEF Next, Hook

(* Every record that the hook found live is back when it ends, unless its  *)
(* own entry is refused, an earlier one took its key, or those before it   *)
(* fill the cap: one bad entry costs no other.                             *)
THEOREM LiveRecordsComeBack == Spec => []LiveComesBack
<1>1. Init => BackInv
  BY DEF Init, BackInv
<1>2. IInv /\ BackInv /\ [Next]_vars => BackInv'
  BY StepsBringBack
<1>3. BackInv => LiveComesBack
  BY DEF BackInv, LiveComesBack, HookDone, Excused
<1> QED
  BY <1>1, <1>2, <1>3, Invariant, PTL DEF Spec

-----------------------------------------------------------------------------
(* The hook ends.  HookLeft bounds the steps that are left of a start: at  *)
(* most three for each entry still to do, less those made for the current  *)
(* one, and one to end.  A kill begins again, which the number of kills    *)
(* that are left pays for.                                                 *)
Made(what) == CASE what = "next" -> 0 [] what = "inbox" -> 1 [] OTHER -> 2
HookLeft ==
    CASE phase = "down"     -> 3 * N + 2
      [] phase = "resuming" -> (3 * Cardinality(todo) - Made(rest)) + 1
      [] OTHER -> 0
StartsLeft == (Restarts - kills) * (3 * N + 3) + HookLeft

HookFacts ==
    HookLeft \in Nat /\ HookLeft <= 3 * N + 2 /\ Cardinality(todo) \in Nat /\ Cardinality(todo) <= N
KillsInv == kills \in Nat /\ kills <= Restarts
HookShortens == [][StartsLeft' <= StartsLeft /\ (Hook \/ Kill => StartsLeft' < StartsLeft)]_vars

LEMMA ToDoFacts ==
    ASSUME IInv
    PROVE  /\ N \in Nat /\ IsFiniteSet(todo) /\ Cardinality(todo) \in Nat /\ Cardinality(todo) <= N
           /\ Cardinality(todo) = 0 <=> todo = {}
           /\ Made(rest) \in {0, 1, 2} /\ Made("next") = 0
           /\ rest # "next" => todo # {}
           /\ HookLeft \in Nat /\ HookLeft <= 3 * N + 2
<1>1. N \in Nat /\ todo \subseteq 1..N
  BY ResumeConstants DEF IInv, Typed, Sub
<1>2. IsFiniteSet(1..N) /\ Cardinality(1..N) = N
  BY <1>1, FS_Interval
<1>3. /\ IsFiniteSet(todo) /\ Cardinality(todo) \in Nat /\ Cardinality(todo) <= N
      /\ Cardinality(todo) = 0 <=> todo = {}
  <2>1. IsFiniteSet(todo) /\ Cardinality(todo) <= N
    BY <1>1, <1>2, FS_Subset
  <2> QED BY <2>1, FS_CardinalityType, FS_EmptySet
<1>4. rest # "next" => todo # {}
  BY DEF IInv, Position
<1>5. Made(rest) \in {0, 1, 2} /\ Made("next") = 0 /\ (rest = "next" => Made(rest) = 0)
  BY DEF Made
<1>6. 3 * Cardinality(todo) - Made(rest) \in Nat /\ 3 * Cardinality(todo) - Made(rest) <= 3 * N
  <2>1. CASE todo = {}
    <3>1. Made(rest) = 0 /\ Cardinality(todo) = 0
      BY <1>3, <1>4, <1>5, <2>1
    <3> QED BY <1>1, <3>1
  <2>2. CASE todo # {}
    <3>1. Cardinality(todo) >= 1
      BY <1>3, <2>2
    <3> QED BY <1>1, <1>3, <1>5, <3>1
  <2> QED BY <2>1, <2>2
<1>7. HookLeft \in Nat /\ HookLeft <= 3 * N + 2
  BY <1>1, <1>6 DEF HookLeft
<1> QED BY <1>1, <1>3, <1>4, <1>5, <1>7

(* A step within one start.                                                *)
LEMMA SameKills ==
    ASSUME N \in Nat, Restarts \in Nat, KillsInv, kills' = kills,
           HookLeft \in Nat, HookLeft' \in Nat
    PROVE  /\ HookLeft' <= HookLeft => StartsLeft' <= StartsLeft
           /\ HookLeft' < HookLeft => StartsLeft' < StartsLeft
<1> DEFINE K == (Restarts - kills) * (3 * N + 3)
<1>1. K \in Nat
  BY DEF KillsInv
<1>2. StartsLeft = K + HookLeft /\ StartsLeft' = K + HookLeft'
  BY DEF StartsLeft
<1>3. PICK k \in Nat : StartsLeft = k + HookLeft /\ StartsLeft' = k + HookLeft'
  BY <1>1, <1>2
<1>4. PICK a \in Nat, b \in Nat : a = HookLeft /\ b = HookLeft'
  OBVIOUS
<1>5. /\ b <= a => k + b <= k + a
      /\ b < a => k + b < k + a
  OBVIOUS
<1> QED BY <1>3, <1>4, <1>5, Zenon

LEMMA KillsCounted ==
    ASSUME [Next]_vars PROVE kills' = kills \/ Kill
<1>1. ASSUME Hook PROVE kills' = kills
  BY <1>1 DEF Hook, StartHook, KeepEntry, CloseResolved, RespawnEntry, DropEntry, RestoreInbox,
              RestoreTranscript, RestorePause, EndHook, GoOn, GoOnAfterDrop, hookFrame
<1>2. ASSUME NEW s \in Sub, \/ Spawn(s) \/ StartTurn(s) \/ CompleteTurn(s) \/ Pause(s) \/ Unpause(s)
                           \/ NotesMerge(s)
      PROVE  kills' = kills
  BY <1>2 DEF Spawn, StartTurn, CompleteTurn, Pause, Unpause, NotesMerge, hookVars
<1>3. ASSUME NEW s \in Sub, NEW st \in {"auto", "closed"}, Close(s, st) PROVE kills' = kills
  BY <1>3 DEF Close, hookVars
<1>4. ASSUME NEW s \in Sub, NEW m \in Msg, Send(s, m) PROVE kills' = kills
  BY <1>4 DEF Send, hookVars
<1> QED BY <1>1, <1>2, <1>3, <1>4 DEF Next, vars

LEMMA HookFalls ==
    ASSUME IInv, HookFacts', KillsInv, [Next]_vars
    PROVE  StartsLeft' <= StartsLeft /\ (Hook \/ Kill => StartsLeft' < StartsLeft)
<1> DEFINE n == Cardinality(todo)
<1>1. /\ N \in Nat /\ Restarts \in Nat /\ IsFiniteSet(todo) /\ n \in Nat /\ n <= N
      /\ n = 0 <=> todo = {}
      /\ Made(rest) \in {0, 1, 2} /\ Made("next") = 0
      /\ rest # "next" => todo # {}
      /\ HookLeft \in Nat
  BY ToDoFacts, ResumeConstants
<1>2. HookLeft' \in Nat /\ HookLeft' <= 3 * N + 2 /\ Cardinality(todo') \in Nat /\ Cardinality(todo') <= N
  BY DEF HookFacts
<1>3. ASSUME UNCHANGED <<phase, todo, rest, kills>>
      PROVE  StartsLeft' <= StartsLeft
  <2>1. HookLeft' = HookLeft
    BY <1>3 DEF HookLeft
  <2> QED BY <1>1, <1>2, <1>3, <2>1, SameKills
<1>4. ASSUME Kill PROVE StartsLeft' < StartsLeft
  <2> DEFINE b == Restarts - kills
             c == 3 * N + 3
  <2>1. b \in Nat /\ b >= 1 /\ c \in Nat /\ Restarts - kills' = b - 1 /\ HookLeft' = c - 1
    BY <1>1, <1>4 DEF Kill, KillsInv, HookLeft
  <2>2. StartsLeft = b * c + HookLeft /\ StartsLeft' = (b - 1) * c + (c - 1)
    BY <2>1 DEF StartsLeft
  <2> HIDE DEF b, c
  <2>3. b * c \in Nat /\ (b - 1) * c = b * c - c
    BY <2>1
  <2> QED BY <1>1, <2>1, <2>2, <2>3
<1>5. ASSUME StartHook PROVE StartsLeft' < StartsLeft
  <2>1. rest = "next" /\ rest' = rest
    BY <1>1, <1>5 DEF StartHook, IInv, Position
  <2>2. HookLeft = 3 * N + 2 /\ HookLeft' = (3 * Cardinality(todo') - 0) + 1
    BY <1>1, <1>5, <2>1 DEF StartHook, HookLeft
  <2>3. HookLeft' < HookLeft
    BY <1>1, <1>2, <2>2
  <2> QED BY <1>1, <1>2, <1>5, <2>3, SameKills DEF StartHook
<1>6. ASSUME EndHook PROVE StartsLeft' < StartsLeft
  <2>1. HookLeft = 1 /\ HookLeft' = 0
    <3>1. n = 0 /\ Made(rest) = 0
      BY <1>1, <1>6 DEF EndHook
    <3> QED BY <1>6, <3>1 DEF EndHook, HookLeft
  <2> QED BY <1>1, <1>2, <1>6, <2>1, SameKills DEF EndHook
\* The current entry is done.
<1>7. ASSUME phase = "resuming", UNCHANGED <<phase, kills>>, todo # {},
             todo' = todo \ {Current}, rest' = "next"
      PROVE  StartsLeft' < StartsLeft
  <2>1. Current \in todo
    BY <1>7, CurrentIsToDo DEF IInv, Typed
  <2>2. Cardinality(todo') = n - 1
    BY <1>1, <1>7, <2>1, FS_RemoveElement
  <2>3. HookLeft = (3 * n - Made(rest)) + 1 /\ HookLeft' = (3 * (n - 1) - 0) + 1
    BY <1>1, <1>7, <2>2 DEF HookLeft
  <2>4. n \in Nat /\ Made(rest) \in {0, 1, 2}
    BY <1>1
  <2> HIDE DEF n
  <2>5. HookLeft' < HookLeft
    BY <2>3, <2>4
  <2> QED BY <1>1, <1>2, <1>7, <2>5, SameKills
\* The current entry goes on.
<1>8. ASSUME phase = "resuming", UNCHANGED <<phase, kills, todo>>, Made(rest') > Made(rest),
             Made(rest') \in {0, 1, 2}
      PROVE  StartsLeft' < StartsLeft
  <2>1. HookLeft = (3 * n - Made(rest)) + 1 /\ HookLeft' = (3 * n - Made(rest')) + 1
    BY <1>8 DEF HookLeft
  <2>2. HookLeft' < HookLeft
    BY <1>1, <1>8, <2>1
  <2> QED BY <1>1, <1>2, <1>8, <2>2, SameKills
<1>9. ASSUME NEW what, GoOn(what), phase = "resuming", todo # {},
             \/ what = "next"
             \/ rest = "next" /\ what \in {"inbox", "pause"}
             \/ rest = "inbox" /\ what = "text"
      PROVE  StartsLeft' < StartsLeft
  <2>1. rest' = what /\ phase' = phase /\ kills' = kills
    BY <1>9 DEF GoOn, hookFrame
  <2>2. CASE what = "next"
    BY <1>7, <1>9, <2>1, <2>2 DEF GoOn
  <2>3. CASE what # "next"
    <3>1. todo' = todo
      BY <1>9, <2>3 DEF GoOn
    <3>2. Made(what) > Made(rest) /\ Made(what) \in {0, 1, 2}
      BY <1>9, <2>3 DEF Made
    <3> QED BY <1>8, <1>9, <2>1, <3>1, <3>2
  <2> QED BY <2>2, <2>3
<1>10. ASSUME CloseResolved PROVE StartsLeft' < StartsLeft
  BY <1>7, <1>10 DEF CloseResolved, InHook, hookFrame
<1>11. ASSUME KeepEntry \/ DropEntry PROVE StartsLeft' < StartsLeft
  BY <1>9, <1>11 DEF KeepEntry, DropEntry, GoOnAfterDrop, InHook
<1>12. ASSUME RespawnEntry PROVE StartsLeft' < StartsLeft
  <2> DEFINE what == AfterSpawn(Current, Entry)
  <2>1. what \in {"next", "inbox", "pause"} /\ GoOn(what) /\ InHook /\ rest = "next"
    BY <1>12 DEF RespawnEntry, AfterSpawn
  <2> HIDE DEF what
  <2> QED BY <1>9, <2>1 DEF InHook
<1>13. ASSUME RestoreInbox \/ RestoreTranscript \/ RestorePause PROVE StartsLeft' < StartsLeft
  BY <1>9, <1>13 DEF RestoreInbox, RestoreTranscript, RestorePause, InHook
<1>14. ASSUME Hook \/ Kill PROVE StartsLeft' < StartsLeft
  BY <1>4, <1>5, <1>6, <1>10, <1>11, <1>12, <1>13, <1>14 DEF Hook
<1>15. StartsLeft \in Nat /\ (StartsLeft' < StartsLeft => StartsLeft' \in Int)
  <2>1. (Restarts - kills) * (3 * N + 3) \in Nat
    BY <1>1 DEF KillsInv
  <2>2. kills' \in Nat
    BY KillsCounted DEF KillsInv, Kill
  <2>3. (Restarts - kills') * (3 * N + 3) \in Int
    BY <1>1, <2>2
  <2> QED BY <1>1, <1>2, <2>1, <2>3 DEF StartsLeft
<1>16. CASE Hook \/ Kill
  BY <1>14, <1>15, <1>16
<1>17. CASE ~(Hook \/ Kill)
  <2>1. UNCHANGED <<phase, todo, rest, kills>>
    BY ZenonT(60), <1>17 DEF Next, vars, Spawn, StartTurn, CompleteTurn, Pause, Unpause, NotesMerge, Close, Send, hookVars
  <2> QED BY <1>3, <1>17, <2>1
<1> QED BY <1>16, <1>17

LEMMA KillsBounded == Spec => []KillsInv
<1>1. Init => KillsInv
  BY ResumeConstants DEF Init, KillsInv
<1>2. KillsInv /\ [Next]_vars => KillsInv'
  <2> SUFFICES ASSUME KillsInv, [Next]_vars PROVE KillsInv'
    OBVIOUS
  <2>1. CASE kills' = kills
    BY <2>1 DEF KillsInv
  <2>2. CASE Kill
    BY <2>2, ResumeConstants DEF KillsInv, Kill
  <2> QED BY <2>1, <2>2, KillsCounted
<1> QED BY <1>1, <1>2, PTL DEF Spec

(* The hook comes to its end whatever the entries are: each of its steps,  *)
(* the entry that raises included, lowers a number that nothing but a kill *)
(* can set back, and the kills are paid for (resume_subsessions).          *)
THEOREM HookRunsOut == Spec => [](StartsLeft \in Nat) /\ HookShortens
<1>1. ASSUME IInv, KillsInv PROVE StartsLeft \in Nat
  <2>1. N \in Nat /\ HookLeft \in Nat /\ Restarts - kills \in Nat
    BY <1>1, ToDoFacts, ResumeConstants DEF KillsInv
  <2>2. (Restarts - kills) * (3 * N + 3) \in Nat
    BY <2>1
  <2> QED BY <2>1, <2>2 DEF StartsLeft
<1>2. IInv => HookFacts
  BY ToDoFacts DEF HookFacts
<1>3. ASSUME IInv, HookFacts', KillsInv, [Next]_vars
      PROVE  [StartsLeft' <= StartsLeft /\ (Hook \/ Kill => StartsLeft' < StartsLeft)]_vars
  BY <1>3, HookFalls
<1> QED BY <1>1, <1>2, <1>3, Invariant, KillsBounded, PTL DEF Spec, HookShortens
=============================================================================
