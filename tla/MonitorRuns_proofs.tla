-------------------------- MODULE MonitorRuns_proofs --------------------------
(***************************************************************************)
(* The accounting of a monitor's runs and messages, for any messages, run  *)
(* bound, budgets and limits.                                              *)
(*                                                                         *)
(* None of the properties is inductive as it stands:                       *)
(*   - a run number is not repeated because the log holds claimed numbers  *)
(*     only (LogClaimed) and a claim takes an unclaimed one;               *)
(*   - a message is heard once because it is in one place at a time        *)
(*     (Apart), and the worker's input is part of the in-flight buffer;    *)
(*   - an ended monitor stays so because a worker exists exactly while the *)
(*     monitor is active (PhaseInv), and every step of the worker starts   *)
(*     at one of its awaits.                                               *)
(***************************************************************************)
EXTENDS MonitorRuns, TLAPS

LogClaimed == \A i \in 1..Len(log) : log[i] \in completed

Apart == inbox \cap inFlight = {} /\ heard \cap (inbox \cup inFlight) = {}

PhaseInv == Active <=> pc # "done"

(* A monitor that did not fail is below the error threshold, so that a     *)
(* reopened one is.                                                        *)
ErrorsBelow == status # "failed" => errored < ErrorThreshold \/ errored = 0

LogInv == LogClaimed /\ RunNumbersOnce
MailInv == Apart /\ HeldIsPersisted
LimitInv == ErrorsBelow /\ LimitsHold

IInv == TypeOK /\ PhaseInv /\ LogInv /\ MailInv /\ LimitInv

-----------------------------------------------------------------------------
(* What a claim and the loop head do to the run numbers.                   *)
LEMMA StartsRunEffect ==
    ASSUME TypeOK, LogInv, NEW r \in Nat, StartsRun(r)
    PROVE  /\ runs' \in Nat /\ completed' \subseteq 1..LastRun /\ log' \in Seq(1..LastRun)
           /\ pc' = "turn" /\ status' = "running" /\ LogInv'
<1>1. PICK n \in 1..LastRun :
        /\ NextUnclaimed(r, n)
        /\ completed' = completed \cup {n} /\ log' = Append(log, n) /\ runs' = n - 1
        /\ pc' = "turn" /\ status' = "running"
  BY DEF StartsRun
<1>2. n \notin completed /\ log \in Seq(1..LastRun) /\ completed \subseteq 1..LastRun
  BY <1>1 DEF NextUnclaimed, TypeOK
<1>3. /\ log' \in Seq(1..LastRun) /\ Len(log') = Len(log) + 1 /\ Len(log) \in Nat
      /\ log'[Len(log) + 1] = n /\ \A i \in 1..Len(log) : log'[i] = log[i]
  BY <1>1, <1>2
<1>4. \A i \in 1..Len(log) : log'[i] \in completed
  BY <1>3 DEF LogInv, LogClaimed
<1>5. LogClaimed'
  <2>1. SUFFICES ASSUME NEW i \in 1..(Len(log) + 1) PROVE log'[i] \in completed'
    BY <1>3 DEF LogClaimed
  <2>2. i \in 1..Len(log) \/ i = Len(log) + 1
    BY <1>3
  <2> QED BY <1>1, <1>3, <1>4, <2>2
<1>6. RunNumbersOnce'
  <2>1. SUFFICES ASSUME NEW i \in 1..(Len(log) + 1), NEW j \in 1..(Len(log) + 1), log'[i] = log'[j]
                 PROVE  i = j
    BY <1>3 DEF RunNumbersOnce
  <2>2. CASE i \in 1..Len(log) /\ j \in 1..Len(log)
    BY <1>3, <2>1, <2>2 DEF LogInv, RunNumbersOnce
  <2>3. CASE i = Len(log) + 1 /\ j \in 1..Len(log)
    BY <1>2, <1>3, <1>4, <2>1, <2>3
  <2>4. CASE i \in 1..Len(log) /\ j = Len(log) + 1
    BY <1>2, <1>3, <1>4, <2>1, <2>4
  <2> QED BY <1>3, <2>2, <2>3, <2>4
<1> QED BY <1>1, <1>2, <1>3, <1>5, <1>6 DEF LogInv

LEMMA LoopHeadEffect ==
    ASSUME TypeOK, LogInv, NEW r \in Nat, NEW ms, NEW m, NEW first, LoopHead(r, ms, m, first)
    PROVE  /\ runs' \in Nat /\ completed' \subseteq 1..LastRun /\ log' \in Seq(1..LastRun)
           /\ pc' \in {"turn", "event", "queued"} /\ status' \in {"running", "sleeping"}
           /\ pending' = ms /\ LogInv'
<1>1. pending' = ms
  BY DEF LoopHead
<1>2. StartsRun(r) \/ Waits(r, "event", "running") \/ Waits(r, "queued", "sleeping")
  BY DEF LoopHead
<1>3. CASE StartsRun(r)
  BY <1>1, <1>3, StartsRunEffect
<1>4. CASE Waits(r, "event", "running") \/ Waits(r, "queued", "sleeping")
  BY <1>1, <1>4 DEF Waits, TypeOK, LogInv, LogClaimed, RunNumbersOnce
<1> QED BY <1>2, <1>3, <1>4

(* The ends of the waits have one form.                                    *)
Wakes == SleepEnds \/ QueuedWakes \/ EventArrives \/ EventTimesOut \/ PausedWakes

LEMMA WakesEffect ==
    ASSUME TypeOK, Wakes
    PROVE  \E ms \in SUBSET (inbox \cup {Note}) :
              /\ Take(ms \ {Note}) /\ LoopHead(runs, ms, mode, FALSE)
              /\ pc \in {"sleep", "queued", "event", "paused"}
              /\ reason' \in {reason, "none"}
              /\ UNCHANGED <<kind, limitVars, checkpointVars, idle, errorVars, hasInbox, heard>>
<1>1. CASE SleepEnds
  BY <1>1 DEF SleepEnds, WakesWith
<1>2. CASE QueuedWakes
  BY <1>2 DEF QueuedWakes, WakesWith
<1>3. CASE EventArrives
  BY <1>3 DEF EventArrives, WakesWith
<1>4. CASE EventTimesOut
  BY <1>4 DEF EventTimesOut, WakesWith
<1>5. CASE PausedWakes
  BY <1>5 DEF PausedWakes, WakesWith
<1> QED BY <1>1, <1>2, <1>3, <1>4, <1>5 DEF Wakes

(* How the limits move with a reply.                                       *)
LEMMA LimitTypes ==
    ASSUME TypeOK, NEW reply \in Replies
    PROVE  /\ StaleAfter(reply) \in 0..Window /\ IdleAfter(reply) \in Nat
           /\ PausesAfter(reply) \in Nat /\ PausesAfter(reply) <= pauses
           /\ CapAfter(reply) \in Nat \cup {NoCap}
<1>1. Window \in Nat /\ stale \in 0..Window /\ idle \in Nat /\ pauses \in Nat
  BY RunConstants DEF TypeOK
<1>2. Extension \in Nat /\ Ceiling \in Nat
  BY RunConstants
<1>3. StaleAfter(reply) \in 0..Window
  BY <1>1 DEF StaleAfter
<1>4. IdleAfter(reply) \in Nat /\ PausesAfter(reply) \in Nat /\ PausesAfter(reply) <= pauses
  BY <1>1 DEF IdleAfter, PausesAfter
<1>5. CapAfter(reply) \in Nat \cup {NoCap}
  BY <1>2 DEF CapAfter, Extends, Spends, NoCap, TypeOK
<1> QED BY <1>3, <1>4, <1>5

LEMMA BudgetTypes ==
    ASSUME TypeOK, NEW reply \in Replies, BudgetAfter(reply)
    PROVE  maxRuns' \in Nat \cup {NoCap} /\ stale' \in 0..Window
<1>1. Window \in 0..Window
  BY RunConstants
<1> QED BY <1>1, LimitTypes DEF BudgetAfter

-----------------------------------------------------------------------------
(* Types.                                                                  *)
LEMMA InitTypes == Init => TypeOK
<1> SUFFICES ASSUME Init PROVE TypeOK OBVIOUS
<1>1. Window \in 0..Window /\ NoCap \in Nat \cup {NoCap}
  BY RunConstants
<1>2. log \in Seq(1..LastRun)
  BY DEF Init
<1> QED BY <1>1, <1>2, RunConstants DEF Init, TypeOK, Modes

LEMMA HearsTypes ==
    ASSUME TypeOK, Hears
    PROVE  errored' = 0 /\ heard' \subseteq Msg
BY DEF Hears, TypeOK

LEMMA ReplyTypes ==
    ASSUME TypeOK, LogInv, NEW reply \in Replies,
           \/ RunSpendsBudget(reply) \/ RunAwaitsOperator(reply) \/ RunPauses(reply)
           \/ RunStops(reply) \/ RunSleeps(reply) \/ EventRunEnds(reply)
    PROVE  TypeOK'
<1> USE DEF runVars, limitVars, checkpointVars, errorVars
<1>1. CASE RunSpendsBudget(reply)
  <2>1. maxRuns' \in Nat \cup {NoCap} /\ stale' \in 0..Window /\ pauses' \in Nat
    BY <1>1, BudgetTypes, LimitTypes DEF RunSpendsBudget
  <2>2. errored' = 0 /\ heard' \subseteq Msg
    BY <1>1, HearsTypes DEF RunSpendsBudget
  <2>3. CASE Escalates
    BY <1>1, <2>1, <2>2, <2>3 DEF RunSpendsBudget, TypeOK
  <2>4. CASE ~Escalates
    <3>1. /\ status' = "closed" /\ pc' = "done" /\ reason' = "max_runs"
          /\ hasInbox' \in BOOLEAN /\ inbox' \subseteq Msg /\ inFlight' \subseteq Msg
          /\ pending' \subseteq Msg \cup {Note}
      BY <1>1, <2>4 DEF Close, RunSpendsBudget
    <3>2. /\ runs' = runs + 1 /\ exhausted' = exhausted + 1
          /\ UNCHANGED <<kind, completed, log, checkpointVars, idle, retries>>
      BY <1>1, <2>4 DEF RunSpendsBudget
    <3> QED BY <2>1, <2>2, <3>1, <3>2 DEF TypeOK
  <2> QED BY <2>3, <2>4
<1>2. CASE RunAwaitsOperator(reply)
  <2>1. maxRuns' \in Nat \cup {NoCap} /\ stale' \in 0..Window /\ pauses' \in Nat
    BY <1>2, BudgetTypes, LimitTypes DEF RunAwaitsOperator
  <2>2. errored' = 0 /\ heard' \subseteq Msg
    BY <1>2, HearsTypes DEF RunAwaitsOperator, TurnEnds, CompletesTurn
  <2> QED BY <1>2, <2>1, <2>2 DEF RunAwaitsOperator, TurnEnds, CompletesTurn, Waits, TypeOK
<1>3. CASE RunPauses(reply)
  <2>1. maxRuns' \in Nat \cup {NoCap} /\ stale' \in 0..Window
    BY <1>3, BudgetTypes DEF RunPauses
  <2>2. errored' = 0 /\ heard' \subseteq Msg
    BY <1>3, HearsTypes DEF RunPauses
  <2>3. CASE PauseCap > 0 /\ pauses + 1 >= PauseCap
    <3>1. /\ status' = "closed" /\ pc' = "done" /\ reason' = "no_change_pause_limit"
          /\ hasInbox' \in BOOLEAN /\ inbox' \subseteq Msg /\ inFlight' \subseteq Msg
          /\ pending' \subseteq Msg \cup {Note}
      BY <1>3, <2>3 DEF Close, RunPauses
    <3>2. /\ runs' = runs + 1
          /\ UNCHANGED <<kind, completed, log, exhausted, pauses, checkpointVars, idle, retries>>
      BY <1>3, <2>3 DEF RunPauses
    <3> QED BY <2>1, <2>2, <3>1, <3>2 DEF TypeOK
  <2>4. CASE ~(PauseCap > 0 /\ pauses + 1 >= PauseCap)
    BY <1>3, <2>1, <2>2, <2>4 DEF RunPauses, TypeOK
  <2> QED BY <2>3, <2>4
<1>4. CASE RunStops(reply)
  <2>1. maxRuns' \in Nat \cup {NoCap} /\ stale' \in 0..Window
    BY <1>4, BudgetTypes DEF RunStops
  <2>2. errored' = 0 /\ heard' \subseteq Msg
    BY <1>4, HearsTypes DEF RunStops
  <2>3. /\ status' = "closed" /\ pc' = "done" /\ reason' = "no_change_auto_stop"
        /\ hasInbox' \in BOOLEAN /\ inbox' \subseteq Msg /\ inFlight' \subseteq Msg
        /\ pending' \subseteq Msg \cup {Note}
    BY <1>4 DEF Close, RunStops
  <2>4. /\ runs' = runs + 1
        /\ UNCHANGED <<kind, completed, log, exhausted, pauses, checkpointVars, idle, retries>>
    BY <1>4 DEF RunStops
  <2> QED BY <2>1, <2>2, <2>3, <2>4 DEF TypeOK
<1>5. CASE RunSleeps(reply)
  <2>1. /\ maxRuns' \in Nat \cup {NoCap} /\ stale' \in 0..Window
        /\ pauses' \in Nat /\ idle' \in Nat
    BY <1>5, BudgetTypes, LimitTypes DEF RunSleeps
  <2>2. errored' = 0 /\ heard' \subseteq Msg
    BY <1>5, HearsTypes DEF RunSleeps, TurnEnds, CompletesTurn
  <2> QED BY <1>5, <2>1, <2>2 DEF RunSleeps, TurnEnds, CompletesTurn, Waits, TypeOK
<1>6. CASE EventRunEnds(reply)
  <2>1. idle' \in Nat
    BY <1>6, LimitTypes DEF EventRunEnds
  <2>2. errored' = 0 /\ heard' \subseteq Msg
    BY <1>6, HearsTypes DEF EventRunEnds, TurnEnds, CompletesTurn
  <2> QED BY <1>6, <2>1, <2>2 DEF EventRunEnds, TurnEnds, CompletesTurn, Waits, TypeOK
<1> QED BY <1>1, <1>2, <1>3, <1>4, <1>5, <1>6

LEMMA TypeStep == ASSUME TypeOK, LogInv, Next PROVE TypeOK'
<1> USE DEF runVars, limitVars, checkpointVars, errorVars, mailVars
<1>1. CASE BootContinues
  <2>1. PICK m \in Modes, ms \in SUBSET {Note} : mode' = m /\ LoopHead(runs, ms, m, TRUE)
    BY <1>1 DEF BootContinues, Modes, TypeOK
  <2>2. /\ runs' \in Nat /\ completed' \subseteq 1..LastRun /\ log' \in Seq(1..LastRun)
        /\ pc' \in {"turn", "event", "queued"} /\ status' \in {"running", "sleeping"}
        /\ pending' = ms
    BY <2>1, LoopHeadEffect DEF TypeOK
  <2> QED BY <1>1, <2>1, <2>2 DEF BootContinues, TypeOK
<1>2. CASE BootPaused
  BY <1>2 DEF BootPaused, TypeOK, Modes
<1>3. CASE WorkerCloses
  <2>1. heard' \subseteq Msg
    BY <1>3 DEF WorkerCloses, TypeOK
  <2> QED BY <1>3, <2>1 DEF Close, WorkerCloses, TypeOK
<1>4. CASE RunErrs
  <2>1. errored' \in Nat
    BY <1>4 DEF RunErrs, TypeOK
  <2>2. CASE errored + 1 >= ErrorThreshold
    BY <1>4, <2>1, <2>2 DEF Close, RunErrs, TypeOK
  <2>3. CASE ~(errored + 1 >= ErrorThreshold) /\ Periodic
    <3>1. Waits(runs + 1, "sleep", "sleeping") /\ idle' = idle + 1
      BY <1>4, <2>3 DEF RunErrs
    <3>2. UNCHANGED <<kind, limitVars, checkpointVars, retries, heard, reason,
                      hasInbox, inbox, inFlight, pending>>
      BY <1>4, <2>3 DEF RunErrs
    <3> QED BY <2>1, <3>1, <3>2 DEF Waits, TypeOK
  <2>4. CASE ~(errored + 1 >= ErrorThreshold) /\ ~Periodic
    <3>1. LoopHead(runs + 1, pending, mode, FALSE)
      BY <1>4, <2>4 DEF RunErrs
    <3>2. /\ runs' \in Nat /\ completed' \subseteq 1..LastRun /\ log' \in Seq(1..LastRun)
          /\ pc' \in {"turn", "event", "queued"} /\ status' \in {"running", "sleeping"}
          /\ pending' = pending
      <4>1. runs + 1 \in Nat
        BY DEF TypeOK
      <4> QED BY <3>1, <4>1, LoopHeadEffect
    <3>3. /\ idle' = idle + 1
          /\ UNCHANGED <<kind, limitVars, checkpointVars, retries, heard, reason,
                         hasInbox, inbox, inFlight>>
      BY <1>4, <2>4 DEF RunErrs
    <3> QED BY <2>1, <3>2, <3>3 DEF TypeOK
  <2> QED BY <2>2, <2>3, <2>4
<1>5. CASE WorkerRaises
  <2>1. CASE retries < Retries
    BY <1>5, <2>1 DEF WorkerRaises, TypeOK
  <2>2. CASE ~(retries < Retries)
    BY <1>5, <2>2 DEF Close, WorkerRaises, TypeOK
  <2> QED BY <2>1, <2>2
<1>6. ASSUME NEW m \in Modes, SetCheckpoint(m) PROVE TypeOK'
  BY <1>6 DEF SetCheckpoint, TypeOK
<1>7. ASSUME NEW n \in Budgets \ {NoCap}, SelfUpdate(n) PROVE TypeOK'
  <2>1. n \in Nat
    BY RunConstants
  <2> QED BY <1>7, <2>1 DEF SelfUpdate, TypeOK
<1>8. CASE RunQueued
  <2>1. errored' = 0 /\ heard' \subseteq Msg
    BY <1>8, HearsTypes DEF RunQueued, TurnEnds, CompletesTurn
  <2> QED BY <1>8, <2>1 DEF RunQueued, TurnEnds, CompletesTurn, Waits, TypeOK
<1>9. CASE TicketFiled
  BY <1>9 DEF Close, TicketFiled, TypeOK
<1>10. CASE Wakes
  <2>1. PICK ms \in SUBSET (inbox \cup {Note}) :
          /\ Take(ms \ {Note}) /\ LoopHead(runs, ms, mode, FALSE)
          /\ reason' \in {reason, "none"}
          /\ UNCHANGED <<kind, limitVars, checkpointVars, idle, errorVars, hasInbox, heard>>
    BY <1>10, WakesEffect
  <2>2. /\ runs' \in Nat /\ completed' \subseteq 1..LastRun /\ log' \in Seq(1..LastRun)
        /\ pc' \in {"turn", "event", "queued"} /\ status' \in {"running", "sleeping"}
        /\ pending' = ms
    BY <2>1, LoopHeadEffect DEF TypeOK
  <2>3. inbox' \subseteq Msg /\ inFlight' \subseteq Msg /\ pending' \subseteq Msg \cup {Note}
    BY <2>1, <2>2 DEF Take, TypeOK
  <2> QED BY <2>1, <2>2, <2>3 DEF TypeOK
<1>11. ASSUME NEW m \in Msg, Message(m) PROVE TypeOK'
  BY <1>11 DEF Message, TypeOK
<1>12. CASE ExternalClose
  BY <1>12 DEF Close, ExternalClose, TypeOK
<1>13. CASE Reopen
  BY <1>13 DEF Reopen, TypeOK
<1>14. CASE RestartResumes
  <2>1. runs' \in Nat
    <3>1. runs' = runs \/ runs' \in completed
      BY <1>14 DEF RestartResumes, RebuiltRuns
    <3>2. runs \in Nat /\ completed \subseteq 1..LastRun
      BY DEF TypeOK
    <3>3. 1..LastRun \subseteq Nat
      BY RunConstants
    <3> QED BY <3>1, <3>2, <3>3
  <2>2. inbox' \subseteq Msg
    BY <1>14 DEF RestartResumes, RebuiltInbox, TypeOK
  <2> QED BY <1>14, <2>1, <2>2 DEF RestartResumes, TypeOK
<1>15. CASE RestartMerged
  BY <1>15 DEF Close, RestartMerged, TypeOK
<1>16. CASE RestartKeeps
  BY <1>16 DEF RestartKeeps, TypeOK
<1> QED BY <1>1, <1>2, <1>3, <1>4, <1>5, <1>6, <1>7, <1>8, <1>9, <1>10, <1>11, <1>12,
           <1>13, <1>14, <1>15, <1>16, ReplyTypes DEF Next, WorkerStep, Wakes, Restart

-----------------------------------------------------------------------------
(* What every completed turn does, whatever becomes of the monitor.        *)
Succeeds ==
    \/ RunQueued
    \/ \E reply \in Replies :
          \/ RunSpendsBudget(reply) \/ RunAwaitsOperator(reply) \/ RunPauses(reply)
          \/ RunStops(reply) \/ RunSleeps(reply) \/ EventRunEnds(reply)

AfterTurn ==
    /\ pc = "turn"
    /\ Hears /\ inFlight' = {} /\ pending' = {} /\ inbox' \in {inbox, {}}
    /\ UNCHANGED <<completed, log, retries>>
    /\ PhaseInv' /\ status' # "failed"
    /\ Escalation > 0 => exhausted' < Escalation
    /\ PauseCap > 0 => pauses' < PauseCap

LEMMA SucceedsEffect ==
    ASSUME TypeOK, LimitsHold, Succeeds
    PROVE  AfterTurn
<1> USE DEF limitVars, checkpointVars, Active, PhaseInv, AfterTurn
<1>1. CASE RunQueued
  BY <1>1 DEF RunQueued, TurnEnds, CompletesTurn, Waits, LimitsHold
<1>2. ASSUME NEW reply \in Replies, RunSpendsBudget(reply)
      PROVE  AfterTurn
  <2>1. PauseCap > 0 => pauses' < PauseCap
    <3>1. pauses' <= pauses /\ pauses' \in Nat /\ pauses \in Nat /\ PauseCap \in Nat
      BY <1>2, LimitTypes, RunConstants DEF RunSpendsBudget, TypeOK
    <3> QED BY <3>1 DEF LimitsHold
  <2>2. CASE Escalates
    BY <1>2, <2>1, <2>2 DEF RunSpendsBudget, LimitsHold
  <2>3. CASE ~Escalates
    <3>1. exhausted' = exhausted + 1 /\ Close("closed", "max_runs")
      BY <1>2, <2>3 DEF RunSpendsBudget
    <3>2. Escalation > 0 => exhausted' < Escalation
      BY <2>3, <3>1, RunConstants DEF Escalates, TypeOK
    <3> QED BY <1>2, <2>1, <3>1, <3>2 DEF RunSpendsBudget, Close
  <2> QED BY <2>2, <2>3
<1>3. ASSUME NEW reply \in Replies, RunAwaitsOperator(reply) \/ RunSleeps(reply)
      PROVE  AfterTurn
  <2>1. PauseCap > 0 => pauses' < PauseCap
    <3>1. pauses' <= pauses /\ pauses' \in Nat /\ pauses \in Nat /\ PauseCap \in Nat
      BY <1>3, LimitTypes, RunConstants DEF RunAwaitsOperator, RunSleeps, TypeOK
    <3> QED BY <3>1 DEF LimitsHold
  <2>2. CASE RunAwaitsOperator(reply)
    BY <2>1, <2>2 DEF RunAwaitsOperator, TurnEnds, CompletesTurn, Waits, LimitsHold
  <2>3. CASE RunSleeps(reply)
    BY <2>1, <2>3 DEF RunSleeps, Ordinary, TurnEnds, CompletesTurn, Waits, LimitsHold
  <2> QED BY <1>3, <2>2, <2>3
<1>4. ASSUME NEW reply \in Replies, RunPauses(reply)
      PROVE  AfterTurn
  <2>1. CASE PauseCap > 0 /\ pauses + 1 >= PauseCap
    BY <1>4, <2>1 DEF RunPauses, Ordinary, Close, LimitsHold
  <2>2. CASE ~(PauseCap > 0 /\ pauses + 1 >= PauseCap)
    <3>1. pauses' = pauses + 1 /\ pauses \in Nat /\ PauseCap \in Nat
      BY <1>4, <2>2, RunConstants DEF RunPauses, TypeOK
    <3>2. PauseCap > 0 => pauses' < PauseCap
      BY <2>2, <3>1
    <3> QED BY <1>4, <2>2, <3>2 DEF RunPauses, Ordinary, LimitsHold
  <2> QED BY <2>1, <2>2
<1>5. ASSUME NEW reply \in Replies, RunStops(reply) \/ EventRunEnds(reply)
      PROVE  AfterTurn
  <2>1. CASE RunStops(reply)
    BY <2>1 DEF RunStops, Ordinary, Close, LimitsHold
  <2>2. CASE EventRunEnds(reply)
    BY <2>2 DEF EventRunEnds, TurnEnds, CompletesTurn, Waits, LimitsHold
  <2> QED BY <1>5, <2>1, <2>2
<1> QED BY <1>1, <1>2, <1>3, <1>4, <1>5 DEF Succeeds

-----------------------------------------------------------------------------
(* A worker exists exactly while the monitor is active.                    *)
LEMMA PhaseStep ==
    ASSUME TypeOK, LogInv, LimitsHold, PhaseInv, Next
    PROVE  PhaseInv'
<1> USE DEF PhaseInv, Active
<1>1. CASE BootContinues
  <2>1. PICK m \in Modes, ms \in SUBSET {Note} : LoopHead(runs, ms, m, TRUE)
    BY <1>1 DEF BootContinues, Modes, TypeOK
  <2> QED BY <2>1, LoopHeadEffect DEF TypeOK
<1>2. CASE BootPaused \/ WorkerCloses \/ TicketFiled \/ ExternalClose \/ Reopen
  BY <1>2 DEF BootPaused, WorkerCloses, TicketFiled, ExternalClose, Reopen, Close
<1>3. CASE RunErrs
  <2>1. CASE errored + 1 >= ErrorThreshold
    BY <1>3, <2>1 DEF RunErrs, Close
  <2>2. CASE ~(errored + 1 >= ErrorThreshold) /\ Periodic
    BY <1>3, <2>2 DEF RunErrs, Waits
  <2>3. CASE ~(errored + 1 >= ErrorThreshold) /\ ~Periodic
    <3>1. LoopHead(runs + 1, pending, mode, FALSE)
      BY <1>3, <2>3 DEF RunErrs
    <3>2. runs + 1 \in Nat
      BY DEF TypeOK
    <3> QED BY <3>1, <3>2, LoopHeadEffect
  <2> QED BY <2>1, <2>2, <2>3
<1>4. CASE WorkerRaises
  BY <1>4 DEF WorkerRaises, Close
<1>5. ASSUME NEW m \in Modes, SetCheckpoint(m) PROVE PhaseInv'
  BY <1>5 DEF SetCheckpoint
<1>6. ASSUME NEW n \in Budgets, SelfUpdate(n) PROVE PhaseInv'
  BY <1>6 DEF SelfUpdate
<1>7. CASE Succeeds
  BY <1>7, SucceedsEffect DEF AfterTurn
<1>8. CASE Wakes
  <2>1. PICK ms \in SUBSET (inbox \cup {Note}) : LoopHead(runs, ms, mode, FALSE)
    BY <1>8, WakesEffect
  <2> QED BY <2>1, LoopHeadEffect DEF TypeOK
<1>9. ASSUME NEW m \in Msg, Message(m) PROVE PhaseInv'
  BY <1>9 DEF Message
<1>10. CASE Restart
  BY <1>10 DEF Restart, RestartResumes, RestartMerged, RestartKeeps, Close
<1> QED BY <1>1, <1>2, <1>3, <1>4, <1>5, <1>6, <1>7, <1>8, <1>9, <1>10
        DEF Next, WorkerStep, Wakes, Succeeds

-----------------------------------------------------------------------------
(* Only a claim adds to the log.                                           *)
LEMMA LogStep ==
    ASSUME TypeOK, LogInv, LimitsHold, Next
    PROVE  LogInv'
<1>1. CASE UNCHANGED <<completed, log>>
  BY <1>1 DEF LogInv, LogClaimed, RunNumbersOnce
<1>2. CASE BootContinues
  <2>1. PICK m \in Modes, ms \in SUBSET {Note} : LoopHead(runs, ms, m, TRUE)
    BY <1>2 DEF BootContinues, Modes, TypeOK
  <2> QED BY <2>1, LoopHeadEffect DEF TypeOK
<1>3. CASE RunErrs
  <2>1. UNCHANGED <<completed, log>> \/ LoopHead(runs + 1, pending, mode, FALSE)
    BY <1>3 DEF RunErrs, Waits, runVars
  <2>2. runs + 1 \in Nat
    BY DEF TypeOK
  <2> QED BY <1>1, <2>1, <2>2, LoopHeadEffect
<1>4. CASE Wakes
  <2>1. PICK ms \in SUBSET (inbox \cup {Note}) : LoopHead(runs, ms, mode, FALSE)
    BY <1>4, WakesEffect
  <2> QED BY <2>1, LoopHeadEffect DEF TypeOK
<1>5. CASE Succeeds
  BY <1>1, <1>5, SucceedsEffect DEF AfterTurn
<1>6. CASE BootPaused \/ WorkerCloses \/ WorkerRaises \/ TicketFiled
  BY <1>1, <1>6 DEF BootPaused, WorkerCloses, WorkerRaises, TicketFiled, runVars
<1>7. ASSUME NEW m \in Modes, SetCheckpoint(m) PROVE LogInv'
  BY <1>1, <1>7 DEF SetCheckpoint, runVars
<1>8. ASSUME NEW n \in Budgets, SelfUpdate(n) PROVE LogInv'
  BY <1>1, <1>8 DEF SelfUpdate, runVars
<1>9. ASSUME NEW m \in Msg, Message(m) PROVE LogInv'
  BY <1>1, <1>9 DEF Message, runVars
<1>10. CASE ExternalClose \/ Reopen \/ Restart
  BY <1>1, <1>10
     DEF ExternalClose, Reopen, Restart, RestartResumes, RestartMerged, RestartKeeps, runVars
<1> QED BY <1>2, <1>3, <1>4, <1>5, <1>6, <1>7, <1>8, <1>9, <1>10
        DEF Next, WorkerStep, Wakes, Succeeds

-----------------------------------------------------------------------------
(* A message is in the inbox, in the worker's hands, or heard.             *)
LEMMA HearsMail ==
    ASSUME TypeOK, MailInv, Hears, inFlight' = {}, pending' = {}, inbox' \in {inbox, {}}
    PROVE  MailInv'
<1>1. Note \notin inbox
  BY RunConstants DEF TypeOK
<1>2. pending \ {Note} \subseteq inFlight /\ inbox \cap inFlight = {} /\ heard \cap inbox = {}
  BY DEF MailInv, Apart, HeldIsPersisted
<1> QED BY <1>1, <1>2 DEF Hears, MailInv, Apart, HeldIsPersisted

LEMMA MailStep ==
    ASSUME TypeOK, LogInv, LimitsHold, MailInv, Next
    PROVE  MailInv'
<1> USE DEF mailVars
<1>1. CASE BootContinues
  <2>1. PICK m \in Modes, ms \in SUBSET {Note} : LoopHead(runs, ms, m, TRUE)
    BY <1>1 DEF BootContinues, Modes, TypeOK
  <2>2. pending' \subseteq {Note}
    BY <2>1 DEF LoopHead
  <2> QED BY <1>1, <2>2 DEF BootContinues, MailInv, Apart, HeldIsPersisted
<1>2. CASE WorkerCloses \/ TicketFiled \/ ExternalClose \/ RestartMerged
  BY <1>2 DEF WorkerCloses, TicketFiled, ExternalClose, RestartMerged, Close,
              MailInv, Apart, HeldIsPersisted
<1>3. CASE RunErrs
  <2>1. heard' = heard
    BY <1>3 DEF RunErrs
  <2>2. CASE errored + 1 >= ErrorThreshold
    BY <1>3, <2>1, <2>2 DEF RunErrs, Close, MailInv, Apart, HeldIsPersisted
  <2>3. CASE ~(errored + 1 >= ErrorThreshold)
    <3>1. inbox' = inbox /\ inFlight' = inFlight /\ pending' = pending
      BY <1>3, <2>3 DEF RunErrs, LoopHead
    <3> QED BY <2>1, <3>1 DEF MailInv, Apart, HeldIsPersisted
  <2> QED BY <2>2, <2>3
<1>4. CASE WorkerRaises
  BY <1>4 DEF WorkerRaises, Close, MailInv, Apart, HeldIsPersisted
<1>5. CASE Succeeds
  BY <1>5, SucceedsEffect, HearsMail DEF AfterTurn
<1>6. CASE Wakes
  <2>1. PICK ms \in SUBSET (inbox \cup {Note}) :
          Take(ms \ {Note}) /\ LoopHead(runs, ms, mode, FALSE) /\ heard' = heard
    BY <1>6, WakesEffect
  <2>2. pending' = ms
    BY <2>1 DEF LoopHead
  <2>3. ms \ {Note} \subseteq inbox
    BY <2>1
  <2> QED BY <2>1, <2>2, <2>3 DEF Take, MailInv, Apart, HeldIsPersisted
<1>7. CASE BootPaused \/ Reopen \/ RestartKeeps
  BY <1>7 DEF BootPaused, Reopen, RestartKeeps, MailInv, Apart, HeldIsPersisted
<1>8. ASSUME NEW m \in Modes, SetCheckpoint(m) PROVE MailInv'
  BY <1>8 DEF SetCheckpoint, MailInv, Apart, HeldIsPersisted
<1>9. ASSUME NEW n \in Budgets, SelfUpdate(n) PROVE MailInv'
  BY <1>9 DEF SelfUpdate, MailInv, Apart, HeldIsPersisted
<1>10. ASSUME NEW m \in Msg, Message(m) PROVE MailInv'
  BY <1>10 DEF Message, MailInv, Apart, HeldIsPersisted
<1>11. CASE RestartResumes
  BY <1>11 DEF RestartResumes, RebuiltInbox, MailInv, Apart, HeldIsPersisted
<1> QED BY <1>1, <1>2, <1>3, <1>4, <1>5, <1>6, <1>7, <1>8, <1>9, <1>10, <1>11
        DEF Next, WorkerStep, Wakes, Succeeds, Restart

-----------------------------------------------------------------------------
(* The limits.  Each step that counts an error, a relaunch, an exhausted   *)
(* budget or a pause also tests the count; the others leave it alone or    *)
(* set it to zero.                                                         *)
LEMMA LimitsKept ==
    ASSUME LimitInv, errored' \in {errored, 0}, status' # "failed" => status # "failed",
           UNCHANGED <<retries, exhausted, pauses>>
    PROVE  LimitInv'
BY DEF LimitInv, ErrorsBelow, LimitsHold, Active

LEMMA LimitStep ==
    ASSUME TypeOK, LogInv, PhaseInv, LimitInv, Next
    PROVE  LimitInv'
<1> USE DEF limitVars, errorVars
<1>1. CASE BootContinues \/ BootPaused \/ WorkerCloses \/ TicketFiled
  <2>1. status # "failed"
    BY <1>1 DEF BootContinues, BootPaused, WorkerCloses, TicketFiled, PhaseInv, Active
  <2>2. errored' = errored /\ UNCHANGED <<retries, exhausted, pauses>>
    BY <1>1 DEF BootContinues, BootPaused, WorkerCloses, TicketFiled
  <2> QED BY <2>1, <2>2, LimitsKept
<1>2. CASE RunErrs
  <2>1. /\ errored' = errored + 1 /\ UNCHANGED <<retries, exhausted, pauses>>
        /\ errored \in Nat /\ ErrorThreshold \in Nat
    BY <1>2, RunConstants DEF RunErrs, TypeOK
  <2>2. status' = "failed" \/ errored' < ErrorThreshold
    <3>1. CASE errored + 1 >= ErrorThreshold
      BY <1>2, <3>1 DEF RunErrs, Close
    <3> QED BY <2>1, <3>1
  <2> QED BY <2>1, <2>2 DEF LimitInv, ErrorsBelow, LimitsHold, Active
<1>3. CASE WorkerRaises
  <2>1. errored' = errored /\ UNCHANGED <<exhausted, pauses>>
    BY <1>3 DEF WorkerRaises
  <2>2. status # "failed"
    BY <1>3 DEF WorkerRaises, PhaseInv, Active
  <2>3. retries' <= Retries
    BY <1>3, RunConstants DEF WorkerRaises, LimitInv, LimitsHold, TypeOK
  <2> QED BY <2>1, <2>2, <2>3 DEF LimitInv, ErrorsBelow, LimitsHold, Active
<1>4. ASSUME NEW m \in Modes, SetCheckpoint(m) PROVE LimitInv'
  BY <1>4 DEF SetCheckpoint, LimitInv, ErrorsBelow, LimitsHold, Active
<1>5. ASSUME NEW n \in Budgets, SelfUpdate(n) PROVE LimitInv'
  BY <1>5, LimitsKept DEF SelfUpdate
<1>6. CASE Succeeds
  <2>1. AfterTurn
    BY <1>6, SucceedsEffect DEF LimitInv
  <2>2. errored' = 0
    BY <2>1 DEF AfterTurn, Hears
  <2> QED BY <2>1, <2>2 DEF AfterTurn, LimitInv, ErrorsBelow, LimitsHold
<1>7. CASE Wakes
  <2>1. errored' = errored /\ UNCHANGED <<retries, exhausted, pauses>>
    BY <1>7, WakesEffect
  <2>2. status # "failed"
    BY <1>7, WakesEffect DEF PhaseInv, Active
  <2> QED BY <2>1, <2>2, LimitsKept
<1>8. ASSUME NEW m \in Msg, Message(m) PROVE LimitInv'
  BY <1>8, LimitsKept DEF Message
<1>9. CASE ExternalClose \/ Reopen
  <2>1. status # "failed"
    BY <1>9 DEF ExternalClose, Reopen, Active
  <2>2. errored' = errored /\ UNCHANGED <<retries, exhausted, pauses>>
    BY <1>9 DEF ExternalClose, Reopen
  <2> QED BY <2>1, <2>2, LimitsKept
<1>10. CASE Restart
  <2>1. errored' = 0 /\ UNCHANGED <<retries, exhausted, pauses>>
    BY <1>10 DEF Restart, RestartResumes, RestartMerged, RestartKeeps
  <2>2. status' # "failed" => status # "failed"
    BY <1>10 DEF Restart, RestartResumes, RestartMerged, RestartKeeps, Resumed, Active
  <2> QED BY <2>1, <2>2, LimitsKept
<1> QED BY <1>1, <1>2, <1>3, <1>4, <1>5, <1>6, <1>7, <1>8, <1>9, <1>10
        DEF Next, WorkerStep, Wakes, Succeeds

-----------------------------------------------------------------------------
(* The inductive invariant.                                                *)
LEMMA InitInv == Init => IInv
<1> SUFFICES ASSUME Init PROVE IInv OBVIOUS
<1>1. TypeOK
  BY InitTypes
<1>2. PhaseInv
  BY DEF Init, PhaseInv, Active
<1>3. LogInv
  <2>1. Len(log) = 0
    BY DEF Init
  <2> QED BY <2>1 DEF LogInv, LogClaimed, RunNumbersOnce
<1>4. MailInv
  BY DEF Init, MailInv, Apart, HeldIsPersisted
<1>5. LimitInv
  BY RunConstants DEF Init, LimitInv, ErrorsBelow, LimitsHold
<1> QED BY <1>1, <1>2, <1>3, <1>4, <1>5 DEF IInv

LEMMA StepInv == IInv /\ [Next]_vars => IInv'
<1> SUFFICES ASSUME IInv, [Next]_vars PROVE IInv' OBVIOUS
<1>1. CASE Next
  BY <1>1, TypeStep, PhaseStep, LogStep, MailStep, LimitStep DEF IInv, LimitInv
<1>2. CASE UNCHANGED vars
  <2> USE <1>2 DEF vars, runVars, limitVars, checkpointVars, errorVars, mailVars
  <2>1. TypeOK'
    BY DEF IInv, TypeOK
  <2>2. PhaseInv' /\ LogInv'
    BY DEF IInv, PhaseInv, Active, LogInv, LogClaimed, RunNumbersOnce
  <2>3. MailInv'
    BY DEF IInv, MailInv, Apart, HeldIsPersisted
  <2>4. LimitInv'
    BY DEF IInv, LimitInv, ErrorsBelow, LimitsHold, Active
  <2> QED BY <2>1, <2>2, <2>3, <2>4 DEF IInv
<1> QED BY <1>1, <1>2

LEMMA Invariant == Spec => []IInv
BY InitInv, StepInv, PTL DEF Spec

(* Every variable keeps its type.                                          *)
THEOREM RunTypes == Spec => []TypeOK
<1>1. IInv => TypeOK
  BY DEF IInv
<1> QED BY <1>1, Invariant, PTL

(* claim_run: no run number is executed twice.                             *)
THEOREM NoRunTwice == Spec => []RunNumbersOnce
<1>1. IInv => RunNumbersOnce
  BY DEF IInv, LogInv
<1> QED BY <1>1, Invariant, PTL

(* What the worker holds is persisted in the in-flight buffer.             *)
THEOREM HeldMessagesPersisted == Spec => []HeldIsPersisted
<1>1. IInv => HeldIsPersisted
  BY DEF IInv, MailInv
<1> QED BY <1>1, Invariant, PTL

(* A message of a completed turn is not delivered again: it is in neither  *)
(* buffer, and the worker's input is within them.                          *)
THEOREM MessagesHeardOnce == Spec => []HeardOnce
<1>1. IInv => HeardOnce
  <2>1. SUFFICES ASSUME IInv PROVE HeardOnce
    OBVIOUS
  <2>2. heard \cap (inbox \cup inFlight) = {} /\ pending \subseteq inFlight \cup {Note}
    BY <2>1 DEF IInv, MailInv, Apart, HeldIsPersisted
  <2>3. Note \notin heard
    BY <2>1, RunConstants DEF IInv, TypeOK
  <2> QED BY <2>2, <2>3 DEF HeardOnce
<1> QED BY <1>1, Invariant, PTL

(* A monitor that goes on is below its limits.                             *)
THEOREM NoLimitOverrun == Spec => []LimitsHold
<1>1. IInv => LimitsHold
  BY DEF IInv, LimitInv
<1> QED BY <1>1, Invariant, PTL

(* _rebuild_inbox: a restart gives back every message that was accepted.   *)
THEOREM RestartsKeepMessages == Spec => RestartKeepsMessages
<1>1. IInv /\ [Next]_vars =>
        [RestartResumes => (inbox \cup inFlight \cup pending) \ {Note} \subseteq inbox']_vars
  <2>1. SUFFICES ASSUME IInv, RestartResumes
                 PROVE  (inbox \cup inFlight \cup pending) \ {Note} \subseteq inbox'
    OBVIOUS
  <2>2. pending \subseteq inFlight \cup {Note} /\ inbox' = inFlight \cup inbox
    BY <2>1 DEF IInv, MailInv, HeldIsPersisted, RestartResumes, RebuiltInbox
  <2> QED BY <2>2
<1> QED BY <1>1, Invariant, PTL DEF Spec, RestartKeepsMessages

(* _resume_entry and reopen leave alone what ended for good; the worker is *)
(* gone, so no other step applies.                                         *)
THEOREM EndedMonitorsStayEnded == Spec => EndedStaysEnded
<1>1. IInv /\ [Next]_vars => [Ended => UNCHANGED <<status, reason, log>>]_vars
  <2>1. SUFFICES ASSUME IInv, Next, Ended PROVE UNCHANGED <<status, reason, log>>
    OBVIOUS
  <2>2. ~Active /\ pc = "done" /\ ~Resumed
    BY <2>1 DEF IInv, PhaseInv, Ended, Active, Resumed
  <2>3. ~WorkerStep
    <3>1. /\ ~BootContinues /\ ~BootPaused /\ ~WorkerCloses /\ ~RunErrs
          /\ ~WorkerRaises /\ ~TicketFiled
      BY <2>2 DEF BootContinues, BootPaused, WorkerCloses, RunErrs, WorkerRaises, TicketFiled
    <3>2. ~Succeeds
      BY <2>1, <2>2, SucceedsEffect DEF IInv, LimitInv, AfterTurn
    <3>3. ~Wakes
      BY <2>1, <2>2, WakesEffect DEF IInv
    <3>4. (\A m \in Modes : ~SetCheckpoint(m)) /\ (\A n \in Budgets : ~SelfUpdate(n))
      BY <2>2 DEF SetCheckpoint, SelfUpdate
    <3> QED BY <3>1, <3>2, <3>3, <3>4 DEF WorkerStep, Succeeds, Wakes
  <2>4. ~ExternalClose /\ ~Reopen /\ \A m \in Msg : ~Message(m)
    BY <2>1, <2>2 DEF ExternalClose, Reopen, Message, Ended
  <2>5. RestartKeeps
    BY <2>1, <2>2, <2>3, <2>4 DEF Next, Restart, RestartResumes, RestartMerged
  <2> QED BY <2>5 DEF RestartKeeps, runVars
<1> QED BY <1>1, Invariant, PTL DEF Spec, EndedStaysEnded
=============================================================================
