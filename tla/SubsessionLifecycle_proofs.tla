---------------------- MODULE SubsessionLifecycle_proofs ----------------------
(***************************************************************************)
(* Proofs about SubsessionLifecycle for every set of monitors, tickets,    *)
(* slots and dependencies.                                                 *)
(***************************************************************************)
EXTENDS SubsessionLifecycle, TLAPS

-----------------------------------------------------------------------------
(* What a close does, seen from outside: some set of monitors that has s   *)
(* in it becomes terminal and loses its keys, inboxes and messages; only   *)
(* tasks of that set are cancelled; the other records keep their status.   *)
ClosedSet(s, gone) ==
    /\ gone \subseteq Sub /\ s \in gone
    /\ \A x \in gone : status'[x] \in {"closed", "failed"}
    /\ \A x \in Sub \ gone : status'[x] = status[x]
    /\ inboxes' = inboxes \ gone /\ mail' = mail \ gone
    /\ wake' = wake /\ seeded' = seeded
    /\ dedupKeys' = PopKeys(gone)
    /\ \A x \in Sub, v \in Slot :
          <<x, v>> \in cancelled' => <<x, v>> \in cancelled \/ (x \in gone /\ running[x] = v)

LEMMA CloseEffect ==
    ASSUME TypeOK, NEW s \in Sub, NEW st \in {"closed", "failed"}, NEW r \in Reasons,
           NEW c \in BOOLEAN, CloseAndPublish(s, st, r, c)
    PROVE  /\ \E gone \in SUBSET Sub : ClosedSet(s, gone)
           /\ c \/ \A v \in Slot : <<s, v>> \in cancelled' => <<s, v>> \in cancelled
           /\ status' \in [Sub -> Statuses] /\ reason' \in [Sub -> Reasons]
           /\ inboxes' \subseteq Sub /\ mail' \subseteq Sub /\ wake' \subseteq Sub
           /\ seeded' \subseteq Sub /\ cancelled' \subseteq Task
           /\ dedupKeys' \in [Ticket -> Sub \cup {NoSub}]
<1> DEFINE why    == IF st = "failed" THEN reason[s] ELSE r
           deps   == PausedWith(s, why)
           gone   == deps \cup {s}
           killed == IF c THEN gone ELSE deps
<1>1. deps \subseteq Sub \ {s}
  BY DEF PausedWith, Dependents
<1>2. why \in Reasons
  BY DEF TypeOK
<1>3. /\ status' = [x \in Sub |-> IF x = s THEN st
                                  ELSE IF x \in deps THEN "closed" ELSE status[x]]
      /\ reason' = [x \in Sub |-> IF x = s THEN why
                                  ELSE IF x \in deps THEN "waiting_for_prerequisite"
                                  ELSE reason[x]]
      /\ dedupKeys' = PopKeys(gone)
      /\ inboxes' = inboxes \ gone /\ mail' = mail \ gone
      /\ cancelled' = cancelled \cup {<<x, running[x]>> : x \in {y \in killed : running[y] # NoSlot}}
      /\ wake' = wake /\ seeded' = seeded
  BY DEF CloseAndPublish
<1> HIDE DEF deps, why
<1>4. killed \subseteq gone /\ gone \subseteq Sub
  BY <1>1
<1>5. cancelled' \subseteq Task
  BY <1>3, <1>4 DEF TypeOK, Task
<1>6. ClosedSet(s, gone)
  <2>1. \A x \in Sub, v \in Slot :
           <<x, v>> \in cancelled' => <<x, v>> \in cancelled \/ (x \in gone /\ running[x] = v)
    BY <1>3, <1>4
  <2> QED BY <1>3, <1>4, <2>1 DEF ClosedSet
<1>7. status' \in [Sub -> Statuses] /\ reason' \in [Sub -> Reasons]
  BY <1>2, <1>3 DEF TypeOK, Statuses, Reasons, Reopenable, TicketTerminal
<1>8. dedupKeys' \in [Ticket -> Sub \cup {NoSub}]
  BY <1>3 DEF TypeOK, PopKeys
<1>9. c \/ \A v \in Slot : <<s, v>> \in cancelled' => <<s, v>> \in cancelled
  BY <1>1, <1>3
<1> QED BY <1>3, <1>4, <1>5, <1>6, <1>7, <1>8, <1>9 DEF TypeOK

-----------------------------------------------------------------------------
(* The inductive invariant.  TasksBusy is the strengthening: the registry  *)
(* and the cancellations refer to tasks that exist, so a slot taken by a   *)
(* new task carries no old cancellation.                                   *)
TasksBusy ==
    \A x \in Sub, v \in Slot : running[x] = v \/ <<x, v>> \in cancelled => pc[x][v] # "idle"

IInv == TypeOK /\ TasksBusy /\ ActiveHasWorker /\ KeysReferToActive /\ NoLostWakeup

(* What keeps the worker of a monitor that a step does not close: its      *)
(* tasks stay where they are and none of them is cancelled.                *)
Untouched(x) ==
    /\ status'[x] = status[x]
    /\ \A v \in Slot : /\ pc'[x][v] = pc[x][v]
                       /\ <<x, v>> \in cancelled' => <<x, v>> \in cancelled

LEMMA UntouchedKeepsWorker ==
    ASSUME NEW x \in Sub, Untouched(x), Active(x) => HasWorker(x)
    PROVE  (Active(x) => HasWorker(x))'
BY DEF Untouched, Active, HasWorker, Live

LEMMA OneMonitorStep ==
    ASSUME IInv, NEW s \in Sub, (Active(s) => HasWorker(s))',
           \A x \in Sub \ {s} : Untouched(x)
    PROVE  ActiveHasWorker'
<1>1. \A x \in Sub \ {s} : (Active(x) => HasWorker(x))'
  BY UntouchedKeepsWorker DEF IInv, ActiveHasWorker
<1> QED BY <1>1 DEF ActiveHasWorker

(* A step of a worker that is neither ending nor in the pause loop.        *)
LEMMA BusyWorker ==
    ASSUME NEW s \in Sub, NEW w \in Slot, <<s, w>> \notin cancelled',
           pc'[s][w] \in {"boot", "check", "turn", "sleep"}
    PROVE  HasWorker(s)'
BY DEF HasWorker, Live

(* Keys and messages survive a step that keeps the active monitors active. *)
LEMMA RecordsKept ==
    ASSUME IInv, dedupKeys' = dedupKeys, inboxes' = inboxes,
           mail' \subseteq mail, \A x \in mail' : x \in wake => x \in wake',
           \A x \in Sub : Active(x) => Active(x)'
    PROVE  KeysReferToActive' /\ NoLostWakeup'
BY DEF IInv, TypeOK, KeysReferToActive, NoLostWakeup

(* Closing, whoever does it, preserves the three invariants, provided the  *)
(* tasks of the other monitors stay where they are.                        *)
LEMMA CloseKeeps ==
    ASSUME IInv, NEW s \in Sub, NEW gone \in SUBSET Sub, ClosedSet(s, gone),
           \A x \in Sub \ {s} : pc'[x] = pc[x]
    PROVE  ActiveHasWorker' /\ KeysReferToActive' /\ NoLostWakeup'
<1>0. \A x \in Sub \ gone, v \in Slot : <<x, v>> \in cancelled' => <<x, v>> \in cancelled
  BY DEF ClosedSet
<1>1. \A x \in gone : ~Active(x)'
  BY DEF ClosedSet, Active
<1>2. \A x \in Sub \ gone : (Active(x) => HasWorker(x))'
  <2> TAKE x \in Sub \ gone
  <2>1. Untouched(x)
    BY <1>0 DEF ClosedSet, Untouched
  <2> QED BY <2>1, UntouchedKeepsWorker DEF IInv, ActiveHasWorker
<1>3. ActiveHasWorker'
  BY <1>1, <1>2 DEF ActiveHasWorker
<1>4. \A x \in Sub \ gone : Active(x)' = Active(x)
  BY DEF ClosedSet, Active
<1>5. KeysReferToActive'
  BY <1>4 DEF ClosedSet, PopKeys, KeysReferToActive, IInv, TypeOK
<1>6. NoLostWakeup'
  BY <1>4 DEF ClosedSet, NoLostWakeup, IInv, TypeOK
<1> QED BY <1>3, <1>5, <1>6

-----------------------------------------------------------------------------
LEMMA InitInv == ASSUME RegistryConstants, LifecycleConstants, Init PROVE IInv
<1> USE DEF Init
<1>1. TypeOK
  BY DEF TypeOK, Statuses, Reasons, PC, Branches, NoVisit
<1>2. ActiveHasWorker /\ KeysReferToActive /\ NoLostWakeup
  BY DEF ActiveHasWorker, Active, KeysReferToActive, NoLostWakeup
<1>3. TasksBusy
  BY DEF TasksBusy, RegistryConstants
<1> QED BY <1>1, <1>2, <1>3 DEF IInv

(* One lemma per group of actions.                                         *)
LEMMA SpawnInv ==
    ASSUME RegistryConstants, IInv, NEW s \in Sub, Spawn(s) PROVE IInv'
<1> USE DEF Spawn, Create, watcherVars
<1>0. PICK w \in Slot : /\ pc[s][w] = "idle"
                        /\ pc' = [pc EXCEPT ![s][w] = "boot"]
                        /\ running' = [running EXCEPT ![s] = w]
  BY DEF StartWorker
<1>1. TypeOK'
  BY <1>0 DEF IInv, TypeOK, Statuses, PC, RegistryConstants
<1>2. TasksBusy'
  BY <1>0 DEF IInv, TypeOK, TasksBusy
<1>3. ActiveHasWorker'
  <2>1. \A x \in Sub \ {s} : Untouched(x)
    BY <1>0 DEF IInv, TypeOK, Untouched
  <2>2. HasWorker(s)'
    BY <1>0, BusyWorker DEF IInv, TypeOK, TasksBusy
  <2> QED BY <2>1, <2>2, OneMonitorStep
<1>4. KeysReferToActive' /\ NoLostWakeup'
  BY DEF IInv, TypeOK, KeysReferToActive, NoLostWakeup, Active
<1> QED BY <1>1, <1>2, <1>3, <1>4 DEF IInv

(* What a task's jump changes.                                             *)
LEMMA GotoEffect ==
    ASSUME TypeOK, NEW s \in Sub, NEW w \in Slot, NEW l \in PC, Goto(s, w, l)
    PROVE  /\ pc' \in [Sub -> [Slot -> PC]] /\ pc'[s][w] = l
           /\ \A v \in Slot \ {w} : pc'[s][v] = pc[s][v]
           /\ \A x \in Sub \ {s} : pc'[x] = pc[x]
BY DEF TypeOK, Goto

LEMMA BootInv ==
    ASSUME IInv, NEW s \in Sub, NEW w \in Slot, Boot(s, w) PROVE IInv'
<1> USE DEF Boot, watcherVars, registryVars
<1>0. PICK l \in {"check"} : Goto(s, w, l)
  BY DEF PC
<1> HIDE DEF Goto
<1>p. /\ pc' \in [Sub -> [Slot -> PC]] /\ pc'[s][w] = l
      /\ \A v \in Slot \ {w} : pc'[s][v] = pc[s][v]
      /\ \A x \in Sub \ {s} : pc'[x] = pc[x]
  BY <1>0, GotoEffect DEF IInv, PC
<1>1. TypeOK'
  BY <1>p DEF IInv, TypeOK, Statuses, Reasons, Reopenable
<1>2. TasksBusy'
  BY <1>p DEF IInv, TypeOK, TasksBusy, Live
<1>3. \A x \in Sub \ {s} : Untouched(x)
  BY <1>p DEF IInv, TypeOK, Untouched
<1>4. (Active(s) => HasWorker(s))'
  BY <1>p, BusyWorker DEF IInv, TypeOK, Live
<1>5. KeysReferToActive' /\ NoLostWakeup'
  BY RecordsKept DEF IInv, TypeOK, NoLostWakeup, Active
<1> QED BY <1>1, <1>2, <1>3, <1>4, <1>5, OneMonitorStep DEF IInv

LEMMA CheckContinuesInv ==
    ASSUME IInv, NEW s \in Sub, NEW w \in Slot, CheckContinues(s, w) PROVE IInv'
<1> USE DEF CheckContinues, watcherVars, registryVars
<1>0. PICK l \in {"paused", "turn", "ending"} : Goto(s, w, l)
  BY DEF LoopTop
<1> HIDE DEF Goto
<1>p. /\ pc' \in [Sub -> [Slot -> PC]] /\ pc'[s][w] = l
      /\ \A v \in Slot \ {w} : pc'[s][v] = pc[s][v]
      /\ \A x \in Sub \ {s} : pc'[x] = pc[x]
  BY <1>0, GotoEffect DEF IInv, PC
<1>1. TypeOK'
  BY <1>p DEF IInv, TypeOK, Statuses, Reasons, Reopenable, LoopTop, Active
<1>2. TasksBusy'
  BY SMTT(30), ZenonT(60), <1>p DEF IInv, TypeOK, TasksBusy, Live
<1>3. \A x \in Sub \ {s} : Untouched(x)
  BY <1>p DEF IInv, TypeOK, Untouched, LoopTop
<1>4. (Active(s) => HasWorker(s))'
  <2>1. CASE status[s] = "paused"
    <3>1. Goto(s, w, "paused") /\ status'[s] = "paused"
      BY <2>1 DEF IInv, TypeOK, Active
    <3>2. pc'[s][w] = "paused"
      BY <3>1, GotoEffect DEF IInv, PC
    <3> QED BY <3>1, <3>2 DEF HasWorker, Live
  <2>2. CASE status[s] # "paused" /\ Active(s)
    <3>1. Goto(s, w, "turn") /\ status'[s] = "running"
      BY <2>2 DEF IInv, TypeOK, Active, LoopTop
    <3>2. pc'[s][w] = "turn"
      BY <3>1, GotoEffect DEF IInv, PC
    <3> QED BY <3>1, <3>2 DEF HasWorker, Live
  <2>3. CASE ~Active(s)
    BY <2>3 DEF Active, LoopTop
  <2> QED BY <2>1, <2>2, <2>3
<1>5. KeysReferToActive' /\ NoLostWakeup'
  BY RecordsKept DEF IInv, TypeOK, NoLostWakeup, Active, LoopTop
<1> QED BY <1>1, <1>2, <1>3, <1>4, <1>5, OneMonitorStep DEF IInv

LEMMA RunEndsInv ==
    ASSUME IInv, NEW s \in Sub, NEW w \in Slot, RunEnds(s, w) PROVE IInv'
<1> USE DEF RunEnds, watcherVars, registryVars
<1>0. PICK l \in {"sleep", "ending"} : Goto(s, w, l)
  BY DEF SetStatus
<1> HIDE DEF Goto
<1>p. /\ pc' \in [Sub -> [Slot -> PC]] /\ pc'[s][w] = l
      /\ \A v \in Slot \ {w} : pc'[s][v] = pc[s][v]
      /\ \A x \in Sub \ {s} : pc'[x] = pc[x]
  BY <1>0, GotoEffect DEF IInv, PC
<1>1. TypeOK'
  BY <1>p DEF IInv, TypeOK, Statuses, Reasons, Reopenable, SetStatus, Active
<1>2. TasksBusy'
  BY SMTT(30), ZenonT(60), <1>p DEF IInv, TypeOK, TasksBusy, Live
<1>3. \A x \in Sub \ {s} : Untouched(x)
  BY <1>p DEF IInv, TypeOK, Untouched, SetStatus
<1>4. (Active(s) => HasWorker(s))'
  <2>1. CASE Active(s)
    <3>1. Goto(s, w, "sleep")
      BY <2>1 DEF SetStatus
    <3>2. pc'[s][w] = "sleep"
      BY <3>1, GotoEffect DEF IInv, PC
    <3> QED BY <3>2 DEF HasWorker, Live
  <2>2. CASE ~Active(s)
    BY <2>2 DEF Active, SetStatus, Goto
  <2> QED BY <2>1, <2>2
<1>5. KeysReferToActive' /\ NoLostWakeup'
  BY RecordsKept DEF IInv, TypeOK, NoLostWakeup, Active, SetStatus
<1> QED BY <1>1, <1>2, <1>3, <1>4, <1>5, OneMonitorStep DEF IInv

LEMMA RunPausesInv ==
    ASSUME IInv, NEW s \in Sub, NEW w \in Slot, RunPauses(s, w) PROVE IInv'
<1> USE DEF RunPauses, watcherVars, registryVars
<1>0. PICK l \in {"paused", "ending"} : Goto(s, w, l)
  BY DEF MarkPaused
<1> HIDE DEF Goto
<1>p. /\ pc' \in [Sub -> [Slot -> PC]] /\ pc'[s][w] = l
      /\ \A v \in Slot \ {w} : pc'[s][v] = pc[s][v]
      /\ \A x \in Sub \ {s} : pc'[x] = pc[x]
  BY <1>0, GotoEffect DEF IInv, PC
<1>1. TypeOK'
  BY <1>p DEF IInv, TypeOK, Statuses, Reasons, Reopenable, MarkPaused, Active
<1>2. TasksBusy'
  BY <1>p DEF IInv, TypeOK, TasksBusy, Live
<1>3. \A x \in Sub \ {s} : Untouched(x)
  BY <1>p DEF IInv, TypeOK, Untouched, MarkPaused
<1>4. (Active(s) => HasWorker(s))'
  <2>1. CASE Active(s)
    <3>1. Goto(s, w, "paused") /\ status'[s] = "paused"
      BY <2>1 DEF IInv, TypeOK, Active, MarkPaused
    <3>2. pc'[s][w] = "paused"
      BY <3>1, GotoEffect DEF IInv, PC
    <3> QED BY <3>1, <3>2 DEF HasWorker, Live
  <2>2. CASE ~Active(s)
    BY <2>2 DEF Active, MarkPaused, Goto
  <2> QED BY <2>1, <2>2
<1>5. KeysReferToActive' /\ NoLostWakeup'
  BY RecordsKept DEF IInv, TypeOK, NoLostWakeup, Active, MarkPaused
<1> QED BY <1>1, <1>2, <1>3, <1>4, <1>5, OneMonitorStep DEF IInv

LEMMA SleepEndsInv ==
    ASSUME IInv, NEW s \in Sub, NEW w \in Slot, SleepEnds(s, w) PROVE IInv'
<1> USE DEF SleepEnds, watcherVars, registryVars
<1>0. PICK l \in {"turn", "ending"} : Goto(s, w, l)
  BY DEF LoopTop
<1> HIDE DEF Goto
<1>p. /\ pc' \in [Sub -> [Slot -> PC]] /\ pc'[s][w] = l
      /\ \A v \in Slot \ {w} : pc'[s][v] = pc[s][v]
      /\ \A x \in Sub \ {s} : pc'[x] = pc[x]
  BY <1>0, GotoEffect DEF IInv, PC
<1>1. TypeOK'
  BY <1>p DEF IInv, TypeOK, Statuses, Reasons, Reopenable, LoopTop, Drain, Active
<1>2. TasksBusy'
  BY SMTT(30), ZenonT(60), <1>p DEF IInv, TypeOK, TasksBusy, Live
<1>3. \A x \in Sub \ {s} : Untouched(x)
  BY <1>p DEF IInv, TypeOK, Untouched, LoopTop, Drain
<1>4. (Active(s) => HasWorker(s))'
  <2>1. CASE Active(s)
    <3>1. Goto(s, w, "turn") /\ status'[s] = "running"
      BY <2>1 DEF IInv, TypeOK, Active, LoopTop
    <3>2. pc'[s][w] = "turn"
      BY <3>1, GotoEffect DEF IInv, PC
    <3> QED BY <3>1, <3>2 DEF HasWorker, Live
  <2>2. CASE ~Active(s)
    BY <2>2 DEF Active, LoopTop, Goto
  <2> QED BY <2>1, <2>2
<1>5. KeysReferToActive' /\ NoLostWakeup'
  BY RecordsKept DEF IInv, TypeOK, NoLostWakeup, Active, LoopTop, Drain
<1> QED BY <1>1, <1>2, <1>3, <1>4, <1>5, OneMonitorStep DEF IInv

LEMMA PausedResumesInv ==
    ASSUME IInv, NEW s \in Sub, NEW w \in Slot, PausedResumes(s, w) PROVE IInv'
<1> USE DEF PausedResumes, watcherVars, registryVars
<1>0. PICK l \in {"turn"} : Goto(s, w, l)
  BY DEF Resume
<1> HIDE DEF Goto
<1>p. /\ pc' \in [Sub -> [Slot -> PC]] /\ pc'[s][w] = l
      /\ \A v \in Slot \ {w} : pc'[s][v] = pc[s][v]
      /\ \A x \in Sub \ {s} : pc'[x] = pc[x]
  BY <1>0, GotoEffect DEF IInv, PC
<1>1. TypeOK'
  BY <1>p DEF IInv, TypeOK, Statuses, Reasons, Reopenable, Drain, Resume
<1>2. TasksBusy'
  BY <1>p DEF IInv, TypeOK, TasksBusy, Live
<1>3. \A x \in Sub \ {s} : Untouched(x)
  BY <1>p DEF IInv, TypeOK, Untouched, Drain, Resume
<1>4. (Active(s) => HasWorker(s))'
  BY <1>p DEF IInv, TypeOK, Live, Active, HasWorker
<1>5. KeysReferToActive' /\ NoLostWakeup'
  BY RecordsKept DEF IInv, TypeOK, NoLostWakeup, Active, Drain, Resume
<1> QED BY <1>1, <1>2, <1>3, <1>4, <1>5, OneMonitorStep DEF IInv

LEMMA PausedPollsInv ==
    ASSUME IInv, NEW s \in Sub, NEW w \in Slot, PausedPolls(s, w) PROVE IInv'
<1> USE DEF PausedPolls, watcherVars, registryVars
<1>0. PICK l \in {"poll"} : Goto(s, w, l)
  BY DEF PC
<1> HIDE DEF Goto
<1>p. /\ pc' \in [Sub -> [Slot -> PC]] /\ pc'[s][w] = l
      /\ \A v \in Slot \ {w} : pc'[s][v] = pc[s][v]
      /\ \A x \in Sub \ {s} : pc'[x] = pc[x]
  BY <1>0, GotoEffect DEF IInv, PC
<1>1. TypeOK'
  BY <1>p DEF IInv, TypeOK, Statuses, Reasons, Reopenable
<1>2. TasksBusy'
  BY <1>p DEF IInv, TypeOK, TasksBusy, Live
<1>3. \A x \in Sub \ {s} : Untouched(x)
  BY <1>p DEF IInv, TypeOK, Untouched
<1>4. (Active(s) => HasWorker(s))'
  BY <1>p DEF IInv, TypeOK, Live, Active, HasWorker
<1>5. KeysReferToActive' /\ NoLostWakeup'
  BY RecordsKept DEF IInv, TypeOK, NoLostWakeup, Active
<1> QED BY <1>1, <1>2, <1>3, <1>4, <1>5, OneMonitorStep DEF IInv

LEMMA PollUnchangedInv ==
    ASSUME IInv, NEW s \in Sub, NEW w \in Slot, PollUnchanged(s, w) PROVE IInv'
<1> USE DEF PollUnchanged, watcherVars, registryVars
<1>0. PICK l \in {"paused"} : Goto(s, w, l)
  BY DEF PC
<1> HIDE DEF Goto
<1>p. /\ pc' \in [Sub -> [Slot -> PC]] /\ pc'[s][w] = l
      /\ \A v \in Slot \ {w} : pc'[s][v] = pc[s][v]
      /\ \A x \in Sub \ {s} : pc'[x] = pc[x]
  BY <1>0, GotoEffect DEF IInv, PC
<1>1. TypeOK'
  BY <1>p DEF IInv, TypeOK, Statuses, Reasons, Reopenable
<1>2. TasksBusy'
  BY <1>p DEF IInv, TypeOK, TasksBusy, Live
<1>3. \A x \in Sub \ {s} : Untouched(x)
  BY <1>p DEF IInv, TypeOK, Untouched
<1>4. (Active(s) => HasWorker(s))'
  <2> SUFFICES ASSUME Active(s)' PROVE HasWorker(s)'
    OBVIOUS
  <2>1. PICK v \in Slot : Live(s, v) /\ (status[s] # "paused" => pc[s][v] \notin {"paused", "poll"})
    BY DEF IInv, ActiveHasWorker, Active, HasWorker
  <2>2. CASE v = w
    BY <2>1, <2>2, <1>p, <1>0, GotoEffect DEF HasWorker, Live, IInv, PC
  <2>3. CASE v # w
    BY <2>1, <2>3, <1>p DEF HasWorker, Live
  <2> QED BY <2>2, <2>3
<1>5. KeysReferToActive' /\ NoLostWakeup'
  BY RecordsKept DEF IInv, TypeOK, NoLostWakeup, Active
<1> QED BY <1>1, <1>2, <1>3, <1>4, <1>5, OneMonitorStep DEF IInv

LEMMA PollMovedInv ==
    ASSUME IInv, NEW s \in Sub, NEW w \in Slot, PollMoved(s, w) PROVE IInv'
<1> USE DEF PollMoved, watcherVars, registryVars
<1>0. PICK l \in {"turn", "ending"} : Goto(s, w, l)
  BY DEF Resume
<1> HIDE DEF Goto
<1>p. /\ pc' \in [Sub -> [Slot -> PC]] /\ pc'[s][w] = l
      /\ \A v \in Slot \ {w} : pc'[s][v] = pc[s][v]
      /\ \A x \in Sub \ {s} : pc'[x] = pc[x]
  BY <1>0, GotoEffect DEF IInv, PC
<1>1. TypeOK'
  BY <1>p DEF IInv, TypeOK, Statuses, Reasons, Reopenable, Resume
<1>2. TasksBusy'
  BY <1>p DEF IInv, TypeOK, TasksBusy, Live
<1>3. \A x \in Sub \ {s} : Untouched(x)
  BY <1>p DEF IInv, TypeOK, Untouched, Resume
<1>4. (Active(s) => HasWorker(s))'
  <2>1. CASE status[s] = "paused"
    <3>1. Goto(s, w, "turn") /\ status'[s] = "running"
      BY <2>1 DEF IInv, TypeOK, Active, Resume
    <3>2. pc'[s][w] = "turn"
      BY <3>1, GotoEffect DEF IInv, PC
    <3> QED BY <3>1, <3>2 DEF HasWorker, Live
  <2>2. CASE status[s] # "paused"
    <3> SUFFICES ASSUME Active(s)' PROVE HasWorker(s)'
      OBVIOUS
    <3>1. PICK v \in Slot : Live(s, v) /\ (status[s] # "paused" => pc[s][v] \notin {"paused", "poll"})
      BY <2>2 DEF IInv, ActiveHasWorker, Active, HasWorker
    <3>2. v # w
      BY <2>2, <3>1
    <3> QED BY <2>2, <3>1, <3>2, <1>p DEF HasWorker, Live
  <2> QED BY <2>1, <2>2
<1>5. KeysReferToActive' /\ NoLostWakeup'
  BY RecordsKept DEF IInv, TypeOK, NoLostWakeup, Active, Resume
<1> QED BY <1>1, <1>2, <1>3, <1>4, <1>5, OneMonitorStep DEF IInv

LEMMA PausedLeavesInv ==
    ASSUME IInv, NEW s \in Sub, NEW w \in Slot, PausedLeaves(s, w) PROVE IInv'
<1> USE DEF PausedLeaves, watcherVars, registryVars
<1>0. PICK l \in {"ending"} : Goto(s, w, l)
  BY DEF PC
<1> HIDE DEF Goto
<1>p. /\ pc' \in [Sub -> [Slot -> PC]] /\ pc'[s][w] = l
      /\ \A v \in Slot \ {w} : pc'[s][v] = pc[s][v]
      /\ \A x \in Sub \ {s} : pc'[x] = pc[x]
  BY <1>0, GotoEffect DEF IInv, PC
<1>1. TypeOK'
  BY <1>p DEF IInv, TypeOK, Statuses, Reasons, Reopenable
<1>2. TasksBusy'
  BY <1>p DEF IInv, TypeOK, TasksBusy, Live
<1>3. \A x \in Sub \ {s} : Untouched(x)
  BY <1>p DEF IInv, TypeOK, Untouched
<1>4. (Active(s) => HasWorker(s))'
  BY <1>p DEF IInv, TypeOK, Live, Active, HasWorker, ActiveHasWorker
<1>5. KeysReferToActive' /\ NoLostWakeup'
  BY RecordsKept DEF IInv, TypeOK, NoLostWakeup, Active
<1> QED BY <1>1, <1>2, <1>3, <1>4, <1>5, OneMonitorStep DEF IInv

LEMMA TaskEndsInv ==
    ASSUME IInv, NEW s \in Sub, NEW w \in Slot, TaskEnds(s, w) PROVE IInv'
<1> USE DEF TaskEnds, watcherVars, registryVars
<1>0. PICK l \in {"idle"} : Goto(s, w, l)
  BY DEF Return
<1> HIDE DEF Goto
<1>p. /\ pc' \in [Sub -> [Slot -> PC]] /\ pc'[s][w] = l
      /\ \A v \in Slot \ {w} : pc'[s][v] = pc[s][v]
      /\ \A x \in Sub \ {s} : pc'[x] = pc[x]
  BY <1>0, GotoEffect DEF IInv, PC
<1>1. TypeOK'
  BY <1>p DEF IInv, TypeOK, Statuses, Reasons, Reopenable, Return, Task
<1>2. TasksBusy'
  BY <1>p, RegistryConstants DEF IInv, TypeOK, TasksBusy, Live, Return
<1>3. \A x \in Sub \ {s} : Untouched(x)
  BY <1>p DEF IInv, TypeOK, Untouched, Return
<1>4. (Active(s) => HasWorker(s))'
  BY <1>p DEF IInv, TypeOK, Live, Active, HasWorker, ActiveHasWorker
<1>5. KeysReferToActive' /\ NoLostWakeup'
  BY RecordsKept DEF IInv, TypeOK, NoLostWakeup, Active, Return
<1> QED BY <1>1, <1>2, <1>3, <1>4, <1>5, OneMonitorStep DEF IInv

(* A worker that closes its monitor, or finds it terminal, and ends.       *)
LEMMA WorkerClosesInv ==
    ASSUME IInv, NEW s \in Sub, NEW w \in Slot, Live(s, w),
           NEW l \in {"ending", "idle"}, Goto(s, w, l),
           \/ l = "ending" /\ running' = running
           \/ running' = [running EXCEPT ![s] = NoSlot],
           NEW st \in {"closed", "failed"}, NEW r \in Reasons,
           IF Active(s) THEN CloseAndPublish(s, st, r, FALSE) ELSE UNCHANGED recordVars,
           UNCHANGED <<watcherVars, merged>>
    PROVE  IInv'
<1>1. /\ pc' \in [Sub -> [Slot -> PC]] /\ pc'[s][w] = l
      /\ \A v \in Slot \ {w} : pc'[s][v] = pc[s][v]
      /\ \A x \in Sub \ {s} : pc'[x] = pc[x]
  BY GotoEffect DEF IInv, PC
<1>2. running' \in [Sub -> Slot \cup {NoSlot}]
  BY DEF IInv, TypeOK
<1>3. \A x \in Sub, v \in Slot : running'[x] = v => running[x] = v /\ (<<x, v>> # <<s, w>> \/ l = "ending")
  BY RegistryConstants DEF IInv, TypeOK
<1>4. CASE Active(s)
  <2>1. PICK gone \in SUBSET Sub : ClosedSet(s, gone)
    BY <1>4, CloseEffect DEF IInv
  <2>2. TypeOK'
    <3>1. /\ status' \in [Sub -> Statuses] /\ reason' \in [Sub -> Reasons]
          /\ inboxes' \subseteq Sub /\ mail' \subseteq Sub /\ wake' \subseteq Sub
          /\ seeded' \subseteq Sub /\ cancelled' \subseteq Task
          /\ dedupKeys' \in [Ticket -> Sub \cup {NoSub}]
      BY <1>4, CloseEffect DEF IInv
    <3> QED BY <1>1, <1>2, <3>1 DEF IInv, TypeOK, watcherVars
  <2>3. \A v \in Slot : <<s, v>> \in cancelled' => <<s, v>> \in cancelled
    BY <1>4, CloseEffect DEF IInv
  <2>4. \A x \in Sub, v \in Slot :
           <<x, v>> \in cancelled' => <<x, v>> \in cancelled \/ running[x] = v
    BY <2>1 DEF ClosedSet
  <2>5. TasksBusy'
    BY <1>1, <1>3, <2>3, <2>4 DEF IInv, TasksBusy, Live
  <2> QED BY <1>1, <2>1, <2>2, <2>5, CloseKeeps DEF IInv
<1>5. CASE ~Active(s)
  <2> USE <1>5 DEF recordVars, watcherVars
  <2>1. TypeOK'
    BY <1>1, <1>2 DEF IInv, TypeOK
  <2>2. TasksBusy'
    BY <1>1, <1>3 DEF IInv, TasksBusy, Live
  <2>3. \A x \in Sub \ {s} : Untouched(x)
    BY <1>1 DEF Untouched
  <2>4. (Active(s) => HasWorker(s))'
    BY DEF Active
  <2>5. KeysReferToActive' /\ NoLostWakeup'
    BY DEF IInv, KeysReferToActive, NoLostWakeup, Active
  <2> QED BY <2>1, <2>2, <2>3, <2>4, <2>5, OneMonitorStep DEF IInv
<1> QED BY <1>4, <1>5

LEMMA CheckClosesInv ==
    ASSUME IInv, NEW s \in Sub, NEW w \in Slot, CheckCloses(s, w) PROVE IInv'
<1>1. PICK r \in {"resolved", "given_up"} : MarkClosed(s, r)
  BY DEF CheckCloses
<1>2. r \in Reasons
  BY DEF Reasons, TicketTerminal
<1> QED BY <1>1, <1>2, WorkerClosesInv DEF CheckCloses, MarkClosed, Return

LEMMA RunCompletesInv ==
    ASSUME IInv, NEW s \in Sub, NEW w \in Slot, RunCompletes(s, w) PROVE IInv'
<1>1. PICK r \in {"resolved", "given_up"} : MarkClosed(s, r)
  BY DEF RunCompletes
<1>2. r \in Reasons
  BY DEF Reasons, TicketTerminal
<1>3. Goto(s, w, "ending") /\ running' = running /\ Live(s, w) /\ UNCHANGED <<watcherVars, merged>>
  BY DEF RunCompletes
<1> QED BY <1>1, <1>2, <1>3, WorkerClosesInv DEF MarkClosed

LEMMA RunStopsInv ==
    ASSUME IInv, NEW s \in Sub, NEW w \in Slot, RunStops(s, w) PROVE IInv'
<1>1. PICK r \in {"given_up", "max_runs"} : MarkClosed(s, r)
  BY DEF RunStops
<1>2. r \in Reasons
  BY DEF Reasons, Reopenable
<1> QED BY <1>1, <1>2, WorkerClosesInv DEF RunStops, MarkClosed, Return

LEMMA RunFailsInv ==
    ASSUME IInv, NEW s \in Sub, NEW w \in Slot, RunFails(s, w) PROVE IInv'
<1>1. "none" \in Reasons
  BY DEF Reasons
<1> QED BY <1>1, WorkerClosesInv DEF RunFails, Fail, Return

LEMMA WorkerStepInv ==
    ASSUME IInv, NEW s \in Sub, NEW w \in Slot, WorkerStep(s, w) PROVE IInv'
BY BootInv, CheckContinuesInv, CheckClosesInv, RunEndsInv, RunCompletesInv, RunStopsInv,
   RunFailsInv, RunPausesInv, SleepEndsInv, PausedResumesInv, PausedPollsInv,
   PausedLeavesInv, PollUnchangedInv, PollMovedInv, TaskEndsInv DEF WorkerStep

-----------------------------------------------------------------------------
(* The callers outside the worker.                                         *)
LEMMA OutsideCloseInv ==
    ASSUME IInv, NEW s \in Sub, NEW c \in BOOLEAN,
           CloseAndPublish(s, "closed", "given_up", c),
           UNCHANGED <<running, pc, merged>>,
           pass' = pass, todo' = todo, visit' \in {visit, NoVisit}
    PROVE  IInv'
<1>1. "given_up" \in Reasons
  BY DEF Reasons
<1>2. PICK gone \in SUBSET Sub : ClosedSet(s, gone)
  BY <1>1, CloseEffect DEF IInv
<1>3. visit' \in (Sub \cup {NoSub}) \X Branches
  BY DEF IInv, TypeOK, NoVisit, Branches
<1>4. TypeOK'
  BY <1>1, <1>3, CloseEffect DEF IInv, TypeOK
<1>5. TasksBusy'
  BY <1>2 DEF IInv, TasksBusy, ClosedSet
<1> QED BY <1>2, <1>4, <1>5, CloseKeeps DEF IInv

LEMMA MessageInv ==
    ASSUME IInv, NEW s \in Sub, CanEnqueue(s), Enqueue(s),
           UNCHANGED <<status, reason, inboxes, seeded, dedupKeys, running, cancelled, pc>>,
           todo' = todo, pass' = pass, merged' = merged, visit' \in {visit, NoVisit}
    PROVE  IInv'
<1> USE DEF CanEnqueue, Enqueue
<1>1. TypeOK'
  BY DEF IInv, TypeOK, NoVisit, Branches
<1>2. TasksBusy' /\ KeysReferToActive' /\ NoLostWakeup'
  BY DEF IInv, TasksBusy, KeysReferToActive, NoLostWakeup, Active
<1>3. ActiveHasWorker'
  BY DEF IInv, ActiveHasWorker, HasWorker, Live, Active
<1> QED BY <1>1, <1>2, <1>3 DEF IInv

(* A step that changes neither the records nor the tasks.                  *)
LEMMA IdleInv ==
    ASSUME IInv, UNCHANGED <<registryVars, pc>>, pass' \in {"mill", "pr"}, todo' \subseteq Sub,
           visit' \in (Sub \cup {NoSub}) \X Branches, merged' \subseteq Ticket
    PROVE  IInv'
<1> USE DEF registryVars
<1>1. TypeOK'
  BY DEF IInv, TypeOK
<1>2. TasksBusy' /\ KeysReferToActive' /\ NoLostWakeup' /\ ActiveHasWorker'
  BY DEF IInv, TasksBusy, KeysReferToActive, NoLostWakeup, ActiveHasWorker, HasWorker, Live, Active
<1> QED BY <1>1, <1>2 DEF IInv

(* A reopening, or nothing when the record cannot be reopened.             *)
LEMMA ResumeMonitorInv ==
    ASSUME IInv, NEW s \in Sub, ResumeMonitor(s), pass' = pass, todo' = todo, merged' = merged,
           visit' = NoVisit
    PROVE  IInv'
<1>0. NoVisit \in (Sub \cup {NoSub}) \X Branches
  BY DEF NoVisit, Branches
<1>1. CASE ~CanReopen(s)
  BY <1>0, <1>1, IdleInv DEF ResumeMonitor, IInv, TypeOK
<1>2. CASE CanReopen(s)
  <2> USE <1>2 DEF Reopen
  <2>0. Reopen(s) /\ StartWorker(s)
    BY DEF ResumeMonitor
  <2>1. PICK w \in Slot : /\ pc[s][w] = "idle"
                          /\ pc' = [pc EXCEPT ![s][w] = "boot"]
                          /\ running' = [running EXCEPT ![s] = w]
    BY <2>0 DEF StartWorker
  <2>2. TypeOK'
    BY <1>0, <2>0, <2>1 DEF IInv, TypeOK, Statuses, Reasons, PC
  <2>3. TasksBusy'
    BY <2>0, <2>1 DEF IInv, TypeOK, TasksBusy
  <2>4. \A x \in Sub \ {s} : Untouched(x)
    BY <2>0, <2>1 DEF IInv, TypeOK, Untouched
  <2>5. HasWorker(s)'
    BY <2>0, <2>1, BusyWorker DEF IInv, TypeOK, TasksBusy
  <2>6. KeysReferToActive' /\ NoLostWakeup'
    BY <2>0 DEF IInv, TypeOK, KeysReferToActive, NoLostWakeup, Active
  <2> QED BY <2>2, <2>3, <2>4, <2>5, <2>6, OneMonitorStep DEF IInv
<1> QED BY <1>1, <1>2

LEMMA TicketDeletedInv ==
    ASSUME IInv, NEW s \in Sub, TicketDeleted(s) PROVE IInv'
<1> USE DEF TicketDeleted
<1>1. CASE Active(s)
  BY <1>1, OutsideCloseInv
<1>2. CASE ~Active(s)
  <2>1. TypeOK'
    BY <1>2 DEF IInv, TypeOK, Reasons, NoVisit, Branches
  <2>2. TasksBusy' /\ KeysReferToActive' /\ NoLostWakeup'
    BY <1>2 DEF IInv, TasksBusy, KeysReferToActive, NoLostWakeup, Active
  <2>3. ActiveHasWorker'
    BY <1>2 DEF IInv, ActiveHasWorker, HasWorker, Live, Active
  <2> QED BY <2>1, <2>2, <2>3 DEF IInv
<1> QED BY <1>1, <1>2

LEMMA WatcherStepInv ==
    ASSUME IInv, WatcherStep PROVE IInv'
<1>0. NoVisit \in (Sub \cup {NoSub}) \X Branches
  BY DEF NoVisit, Branches
<1>1. CASE Scan
  BY <1>1, IdleInv DEF Scan, FindPaused, IInv, TypeOK
<1>2. CASE NothingToDo
  BY <1>0, <1>2, IdleInv DEF NothingToDo, IInv, TypeOK
<1>3. ASSUME NEW s \in Sub, Visit(s) PROVE IInv'
  <2>1. BranchOf(s) \in Branches
    BY DEF BranchOf, Branches
  <2> QED BY <1>0, <1>3, <2>1, IdleInv DEF Visit, IInv, TypeOK
<1>4. ASSUME NEW s \in Sub, PrerequisiteMerged(s) PROVE IInv'
  BY <1>4, ResumeMonitorInv DEF PrerequisiteMerged
<1>5. ASSUME NEW s \in Sub, TicketMoved(s) PROVE IInv'
  BY <1>5, ResumeMonitorInv, MessageInv DEF TicketMoved
<1>6. ASSUME NEW s \in Sub, PullRequestMerged(s) PROVE IInv'
  BY <1>6, ResumeMonitorInv DEF PullRequestMerged
<1> QED BY <1>1, <1>2, <1>3, <1>4, <1>5, <1>6, TicketDeletedInv DEF WatcherStep

LEMMA NextInv == ASSUME IInv, [Next]_vars PROVE IInv'
<1>1. ASSUME NEW s \in Sub, ExternalClose(s) PROVE IInv'
  BY <1>1, OutsideCloseInv DEF ExternalClose, CancelAndClose, watcherVars
<1>2. ASSUME NEW s \in Sub, Message(s) PROVE IInv'
  BY <1>2, MessageInv DEF Message, watcherVars
<1>3. ASSUME NEW t \in Ticket, Merge(t) PROVE IInv'
  BY <1>3, IdleInv DEF Merge, watcherVars, IInv, TypeOK
<1>4. CASE UNCHANGED vars
  BY <1>4, IdleInv DEF vars, registryVars, IInv, TypeOK
<1> QED BY <1>1, <1>2, <1>3, <1>4, SpawnInv, WorkerStepInv, WatcherStepInv, RegistryConstants DEF Next

-----------------------------------------------------------------------------
THEOREM Inductive == Spec => []IInv
BY InitInv, NextInv, RegistryConstants, LifecycleConstants, PTL DEF Spec

(* Every variable keeps its type.                                          *)
THEOREM TypeCorrect == Spec => []TypeOK
BY Inductive, PTL DEF IInv

(* No active monitor is ever without a worker, whatever the interleaving   *)
(* of workers, watcher, closes and reopenings.                             *)
THEOREM ActiveMonitorsHaveWorkers == Spec => []ActiveHasWorker
BY Inductive, PTL DEF IInv

(* The dedup table refers only to active monitors of the ticket.           *)
THEOREM DedupKeysReferToActive == Spec => []KeysReferToActive
BY Inductive, PTL DEF IInv

(* A queued message has an active addressee, an inbox and a set event.     *)
THEOREM MessagesAreAnnounced == Spec => []NoLostWakeup
BY Inductive, PTL DEF IInv

-----------------------------------------------------------------------------
(* What a step may never do.  A close touches the active records only.     *)
LEMMA CloseLeavesFinal ==
    ASSUME NEW s \in Sub, NEW st \in {"closed", "failed"}, NEW r \in Reasons,
           NEW c \in BOOLEAN, Active(s), CloseAndPublish(s, st, r, c), NEW x \in Sub, Final(x)
    PROVE  Final(x)'
<1> DEFINE deps == PausedWith(s, IF st = "failed" THEN reason[s] ELSE r)
<1>1. \A d \in deps : status[d] \in {"running", "sleeping"}
  <2>1. \A d \in Dependents(s) : status[d] \in {"running", "sleeping"}
    <3> DEFINE C == {d \in Sub \ {s} : status[d] \in {"running", "sleeping"}}
    <3>1. \A y \in C \cup {s} : y \in seeded => PausedBy(y) \ {s} \subseteq C
      BY DEF PausedBy
    <3>2. C \in SUBSET (Sub \ {s})
      OBVIOUS
    <3> QED BY <3>1, <3>2 DEF Dependents
  <2> QED BY <2>1 DEF PausedWith
<1>2. x # s /\ x \notin deps
  BY <1>1 DEF Final, Active
<1>3. status'[x] = status[x] /\ reason'[x] = reason[x]
  <2>1. /\ status' = [y \in Sub |-> IF y = s THEN st
                                    ELSE IF y \in deps THEN "closed" ELSE status[y]]
        /\ reason' = [y \in Sub |-> IF y = s THEN IF st = "failed" THEN reason[s] ELSE r
                                    ELSE IF y \in deps THEN "waiting_for_prerequisite"
                                    ELSE reason[y]]
    BY DEF CloseAndPublish
  <2> HIDE DEF deps
  <2> QED BY <1>2, <2>1
<1> QED BY <1>3 DEF Final

LEMMA WorkerLeavesFinal ==
    ASSUME TypeOK, NEW s \in Sub, NEW w \in Slot, WorkerStep(s, w), NEW x \in Sub, Final(x)
    PROVE  Final(x)'
<1> USE DEF Final
<1>1. CASE Boot(s, w) \/ PausedPolls(s, w) \/ PollUnchanged(s, w) \/ PausedLeaves(s, w) \/ TaskEnds(s, w)
  BY <1>1 DEF Boot, PausedPolls, PollUnchanged, PausedLeaves, TaskEnds, registryVars
<1>2. CASE CheckContinues(s, w) \/ SleepEnds(s, w)
  BY <1>2 DEF CheckContinues, SleepEnds, LoopTop, Active, TypeOK
<1>3. CASE RunEnds(s, w)
  BY <1>3 DEF RunEnds, SetStatus, Active, TypeOK
<1>4. CASE RunPauses(s, w)
  BY <1>4 DEF RunPauses, MarkPaused, Active, TypeOK
<1>5. CASE PausedResumes(s, w) \/ PollMoved(s, w)
  BY <1>5 DEF PausedResumes, PollMoved, Resume, TypeOK
<1>6. CASE \E r \in {"resolved", "given_up", "max_runs"} : MarkClosed(s, r)
  <2>1. PICK r \in {"resolved", "given_up", "max_runs"} : MarkClosed(s, r)
    BY <1>6
  <2>2. r \in Reasons
    BY DEF Reasons, TicketTerminal, Reopenable
  <2> QED BY <2>1, <2>2, CloseLeavesFinal DEF MarkClosed, recordVars
<1>7. CASE Fail(s)
  <2>1. "none" \in Reasons
    BY DEF Reasons
  <2> QED BY <1>7, <2>1, CloseLeavesFinal DEF Fail, recordVars
<1> QED BY <1>1, <1>2, <1>3, <1>4, <1>5, <1>6, <1>7
        DEF WorkerStep, CheckCloses, RunCompletes, RunStops, RunFails

LEMMA StepLeavesFinal ==
    ASSUME TypeOK, Next, NEW x \in Sub, Final(x)
    PROVE  Final(x)'
<1>1. ASSUME NEW s \in Sub, Spawn(s) PROVE Final(x)'
  BY <1>1 DEF Spawn, Create, Final, TypeOK
<1>2. ASSUME NEW s \in Sub, ExternalClose(s) PROVE Final(x)'
  <2>1. "given_up" \in Reasons
    BY DEF Reasons
  <2> QED BY <1>2, <2>1, CloseLeavesFinal DEF ExternalClose, CancelAndClose
<1>3. ASSUME NEW s \in Sub, Message(s) PROVE Final(x)'
  BY <1>3 DEF Message, Final
<1>4. ASSUME NEW t \in Ticket, Merge(t) PROVE Final(x)'
  BY <1>4 DEF Merge, registryVars, Final
<1>5. ASSUME NEW s \in Sub, ResumeMonitor(s) PROVE Final(x)'
  BY <1>5 DEF ResumeMonitor, CanReopen, Reopen, registryVars, Final, TypeOK
<1>6. ASSUME NEW s \in Sub, TicketMoved(s) PROVE Final(x)'
  BY <1>5, <1>6 DEF TicketMoved, Final
<1>7. ASSUME NEW s \in Sub, TicketDeleted(s) PROVE Final(x)'
  <2>1. CASE Active(s)
    <3>1. "given_up" \in Reasons
      BY DEF Reasons
    <3> QED BY <1>7, <2>1, <3>1, CloseLeavesFinal DEF TicketDeleted
  <2>2. CASE ~Active(s)
    BY <1>7, <2>2 DEF TicketDeleted, Final, TypeOK, Reopenable
  <2> QED BY <2>1, <2>2
<1>8. CASE WatcherStep
  <2>1. CASE Scan \/ NothingToDo \/ \E s \in Sub : Visit(s)
    BY <2>1 DEF Scan, NothingToDo, Visit, registryVars, Final
  <2> QED BY <1>5, <1>6, <1>7, <1>8, <2>1 DEF WatcherStep, PrerequisiteMerged, PullRequestMerged
<1> QED BY <1>1, <1>2, <1>3, <1>4, <1>8, WorkerLeavesFinal DEF Next

(* A record that failed, was closed by the operator or whose ticket was    *)
(* resolved is terminal for ever, whichever late step still refers to it.  *)
THEOREM FinalRecordsStayFinal == Spec => FinalStaysFinal
<1>1. TypeOK /\ [Next]_vars => [\A s \in Sub : Final(s) => Final(s)']_vars
  BY StepLeavesFinal
<1> QED BY <1>1, TypeCorrect, PTL DEF Spec, FinalStaysFinal

-----------------------------------------------------------------------------
(* A worker enters a turn by way of three awaits, and looks at the status  *)
(* after each of them.                                                     *)
EntersTurn(x, v) == pc[x][v] # "turn" /\ pc'[x][v] = "turn"

LEMMA OtherTasksEnterNoTurn ==
    ASSUME TypeOK, NEW s \in Sub, NEW w \in Slot, NEW l \in PC, Goto(s, w, l),
           NEW x \in Sub, NEW v \in Slot, EntersTurn(x, v)
    PROVE  x = s /\ v = w /\ l = "turn"
BY GotoEffect DEF EntersTurn

LEMMA WorkerEntersTurn ==
    ASSUME TypeOK, NEW s \in Sub, NEW w \in Slot, WorkerStep(s, w),
           NEW x \in Sub, NEW v \in Slot, EntersTurn(x, v)
    PROVE  Active(x)'
<1>1. CASE CheckContinues(s, w) \/ SleepEnds(s, w)
  <2>1. PICK l \in {"paused", "turn", "ending"} : Goto(s, w, l)
    BY <1>1 DEF CheckContinues, SleepEnds, LoopTop
  <2>2. x = s /\ v = w /\ l = "turn"
    BY <2>1, OtherTasksEnterNoTurn DEF PC
  <2>3. Goto(s, w, "turn") /\ pc'[s][w] = "turn"
    BY <2>1, <2>2, GotoEffect DEF PC
  <2>4. LoopTop(s, w)
    <3>1. CASE CheckContinues(s, w) /\ status[s] = "paused"
      <4>1. pc'[s][w] = "paused"
        BY <3>1, GotoEffect DEF CheckContinues, PC
      <4> QED BY <2>3, <4>1
    <3> QED BY <1>1, <3>1 DEF CheckContinues, SleepEnds
  <2>5. Active(s)
    <3>1. CASE ~Active(s)
      <4>1. pc'[s][w] = "ending"
        BY <2>4, <3>1, GotoEffect DEF LoopTop, PC
      <4> QED BY <2>3, <4>1
    <3> QED BY <3>1
  <2> QED BY <2>2, <2>4, <2>5 DEF LoopTop, Active, TypeOK
<1>2. CASE PausedResumes(s, w) \/ (PollMoved(s, w) /\ status[s] = "paused")
  <2>1. Goto(s, w, "turn") /\ status'[s] = "running"
    BY <1>2 DEF PausedResumes, PollMoved, Resume, TypeOK
  <2> QED BY <2>1, OtherTasksEnterNoTurn DEF PC, Active
<1>3. CASE \E l \in {"check", "sleep", "ending", "idle", "paused", "poll"} : Goto(s, w, l)
  BY <1>3, OtherTasksEnterNoTurn DEF PC
<1>4. CASE RunEnds(s, w) \/ RunPauses(s, w)
  <2>1. \E l \in {"sleep", "ending", "paused"} : Goto(s, w, l)
    BY <1>4 DEF RunEnds, RunPauses
  <2> QED BY <1>3, <2>1
<1>5. CASE CheckCloses(s, w) \/ RunStops(s, w) \/ RunFails(s, w) \/ TaskEnds(s, w)
  BY <1>3, <1>5 DEF CheckCloses, RunStops, RunFails, TaskEnds, Return
<1>6. CASE Boot(s, w) \/ RunCompletes(s, w) \/ PausedPolls(s, w) \/ PausedLeaves(s, w) \/ PollUnchanged(s, w)
  BY <1>3, <1>6 DEF Boot, RunCompletes, PausedPolls, PausedLeaves, PollUnchanged
<1>7. CASE PollMoved(s, w) /\ status[s] # "paused"
  BY <1>3, <1>7 DEF PollMoved
<1> QED BY <1>1, <1>2, <1>4, <1>5, <1>6, <1>7 DEF WorkerStep

LEMMA StepEntersTurn ==
    ASSUME TypeOK, Next, NEW x \in Sub, NEW v \in Slot, EntersTurn(x, v)
    PROVE  Active(x)'
<1>1. \A s \in Sub : ~StartWorker(s)
  BY DEF StartWorker, EntersTurn, TypeOK
<1>2. pc' # pc
  BY DEF EntersTurn
<1>3. \A s \in Sub : ~ResumeMonitor(s)
  BY <1>1, <1>2 DEF ResumeMonitor
<1>4. ~WatcherStep
  BY <1>2, <1>3 DEF WatcherStep, Scan, NothingToDo, Visit, PrerequisiteMerged, TicketMoved,
                    PullRequestMerged, TicketDeleted
<1>5. \A s \in Sub : ~Spawn(s) /\ ~ExternalClose(s) /\ ~Message(s)
  BY <1>1, <1>2 DEF Spawn, ExternalClose, Message
<1>6. \A t \in Ticket : ~Merge(t)
  BY <1>2 DEF Merge
<1> QED BY <1>4, <1>5, <1>6, WorkerEntersTurn DEF Next

(* No agent turn starts on a record that is terminal: a close that comes   *)
(* while the worker waits for the mill, its messages or a poll is noticed. *)
THEOREM NoTurnStartsClosed == Spec => NoTurnAfterClose
<1>1. TypeOK /\ [Next]_vars => [\A s \in Sub, w \in Slot :
          pc[s][w] # "turn" /\ pc'[s][w] = "turn" => Active(s)']_vars
  BY StepEntersTurn DEF EntersTurn
<1> QED BY <1>1, TypeCorrect, PTL DEF Spec, NoTurnAfterClose

-----------------------------------------------------------------------------
(* The cascade.  Dependents(s) is closed under PausedBy, so that a chain   *)
(* of any length stops.                                                    *)
Stops(c, d) ==
    /\ Active(c) /\ status'[c] \in {"closed", "failed"}
    /\ reason'[c] \notin TicketTerminal /\ c \in seeded
    /\ c # d /\ DependsOn[d] = TicketOf[c] /\ status[d] # "paused"

LEMMA DependentsClosed ==
    ASSUME NEW s \in Sub, NEW c \in Dependents(s) \cup {s}, c \in seeded
    PROVE  PausedBy(c) \ {s} \subseteq Dependents(s)
<1> SUFFICES ASSUME NEW d \in PausedBy(c) \ {s},
                    NEW C \in SUBSET (Sub \ {s}),
                    \A y \in C \cup {s} : y \in seeded => PausedBy(y) \ {s} \subseteq C
             PROVE  d \in C
  BY DEF Dependents, PausedBy
<1>1. c \in C \cup {s}
  BY DEF Dependents
<1> QED BY <1>1

LEMMA CloseStops ==
    ASSUME TypeOK, NEW s \in Sub, NEW st \in {"closed", "failed"}, NEW r \in Reasons,
           NEW b \in BOOLEAN, Active(s), CloseAndPublish(s, st, r, b),
           NEW c \in Sub, NEW d \in Sub, Stops(c, d)
    PROVE  ~Active(d)'
<1> DEFINE why  == IF st = "failed" THEN reason[s] ELSE r
           deps == PausedWith(s, why)
<1>1. /\ status' = [x \in Sub |-> IF x = s THEN st
                                  ELSE IF x \in deps THEN "closed" ELSE status[x]]
      /\ reason' = [x \in Sub |-> IF x = s THEN why
                                  ELSE IF x \in deps THEN "waiting_for_prerequisite"
                                  ELSE reason[x]]
  BY DEF CloseAndPublish
<1> HIDE DEF why
<1>2. c = s \/ c \in deps
  BY <1>1 DEF Stops, Active
<1>3. deps = Dependents(s)
  BY <1>1, <1>2 DEF PausedWith, Stops
<1>4. CASE Active(d)
  <2>1. d \in PausedBy(c)
    BY <1>4 DEF PausedBy, Stops, Active
  <2>2. d = s \/ d \in deps
    BY <1>2, <1>3, <2>1, DependentsClosed DEF Stops
  <2> QED BY <1>1, <2>2 DEF Active
<1>5. CASE ~Active(d)
  BY <1>1, <1>5 DEF Active
<1> QED BY <1>4, <1>5

LEMMA WorkerStops ==
    ASSUME TypeOK, NEW s \in Sub, NEW w \in Slot, WorkerStep(s, w),
           NEW c \in Sub, NEW d \in Sub, Stops(c, d)
    PROVE  ~Active(d)'
<1>0. status[c] # status'[c] /\ status'[c] \in {"closed", "failed"}
  BY DEF Stops, Active
<1>1. CASE Boot(s, w) \/ PausedPolls(s, w) \/ PollUnchanged(s, w) \/ PausedLeaves(s, w) \/ TaskEnds(s, w)
  BY <1>0, <1>1 DEF Boot, PausedPolls, PollUnchanged, PausedLeaves, TaskEnds, registryVars
<1>2. CASE CheckContinues(s, w) \/ SleepEnds(s, w)
  BY <1>0, <1>2 DEF CheckContinues, SleepEnds, LoopTop, Active, TypeOK
<1>3. CASE RunEnds(s, w)
  BY <1>0, <1>3 DEF RunEnds, SetStatus, Active, TypeOK
<1>4. CASE RunPauses(s, w)
  BY <1>0, <1>4 DEF RunPauses, MarkPaused, Active, TypeOK
<1>5. CASE PausedResumes(s, w) \/ PollMoved(s, w)
  BY <1>0, <1>5 DEF PausedResumes, PollMoved, Resume, TypeOK
<1>6. CASE \E r \in {"resolved", "given_up", "max_runs"} : MarkClosed(s, r)
  <2>1. PICK r \in {"resolved", "given_up", "max_runs"} : MarkClosed(s, r)
    BY <1>6
  <2>2. r \in Reasons
    BY DEF Reasons, TicketTerminal, Reopenable
  <2> QED BY <1>0, <2>1, <2>2, CloseStops DEF MarkClosed, recordVars
<1>7. CASE Fail(s)
  <2>1. "none" \in Reasons
    BY DEF Reasons
  <2> QED BY <1>0, <1>7, <2>1, CloseStops DEF Fail, recordVars
<1> QED BY <1>1, <1>2, <1>3, <1>4, <1>5, <1>6, <1>7
        DEF WorkerStep, CheckCloses, RunCompletes, RunStops, RunFails

LEMMA StepStops ==
    ASSUME TypeOK, Next, NEW c \in Sub, NEW d \in Sub, Stops(c, d)
    PROVE  ~Active(d)'
<1>0. status[c] # status'[c] /\ status'[c] \in {"closed", "failed"}
  BY DEF Stops, Active
<1>1. "given_up" \in Reasons
  BY DEF Reasons
<1>2. ASSUME NEW s \in Sub, ExternalClose(s) PROVE ~Active(d)'
  BY <1>1, <1>2, CloseStops DEF ExternalClose, CancelAndClose
<1>3. ASSUME NEW s \in Sub, TicketDeleted(s) PROVE ~Active(d)'
  BY <1>0, <1>1, <1>3, CloseStops DEF TicketDeleted
<1>4. \A s \in Sub : ~Spawn(s) /\ ~Message(s)
  BY <1>0 DEF Spawn, Create, Message, TypeOK
<1>5. \A t \in Ticket : ~Merge(t)
  BY <1>0 DEF Merge, registryVars
<1>6. \A s \in Sub : ~ResumeMonitor(s)
  BY <1>0 DEF ResumeMonitor, Reopen, registryVars, TypeOK
<1>7. CASE WatcherStep
  BY <1>0, <1>3, <1>6, <1>7 DEF WatcherStep, Scan, NothingToDo, Visit, PrerequisiteMerged, TicketMoved,
                    PullRequestMerged, registryVars
<1> QED BY <1>2, <1>4, <1>5, <1>7, WorkerStops DEF Next

(* When a monitor of an unresolved ticket closes, every monitor that waits *)
(* for it stops in the same step, down chains of any length.               *)
THEOREM ClosesStopDependents == Spec => DependentsStop
<1>1. TypeOK /\ [Next]_vars => [\A c, d \in Sub : Stops(c, d) => ~Active(d)']_vars
  BY StepStops
<1> QED BY <1>1, TypeCorrect, PTL DEF Spec, DependentsStop, Stops
=============================================================================
