--------------------------- MODULE ChatTurns_proofs ---------------------------
(***************************************************************************)
(* Proofs about ChatTurns for any messages, sessions, lock keys, bounds    *)
(* and interleavings: a message is in one place, is answered once and not  *)
(* run again, the turns of a lock key follow each other, the bus holds the *)
(* turn that runs, and the drain gate misses no turn that is counted.      *)
(*                                                                         *)
(* The invariant comes in parts, each about the variables it names: where  *)
(* a message is (MailInv), who has the lock (LockInv), what the bus holds  *)
(* (BusInv), what is marked (MarkInv), what was recorded (OnceInv).  Only  *)
(* the last two and BusInv rest on LockInv, through OneAtATime.            *)
(*                                                                         *)
(* Then the refinement of ChatPromise, and what safety has to say of the   *)
(* answers to come: nobody is stuck, and processors come to their end.     *)
(***************************************************************************)
EXTENDS ChatTurns, FiniteSetTheorems, SequenceTheorems, TLAPS

AtWorkPcs == {"asleep", "waiting", "asking", "titling"}

(* What is in a batch was posted to its session, is there once and awaits  *)
(* its last frame.                                                         *)
Distinct(q) == \A i, j \in DOMAIN q : q[i] = q[j] => i = j
BatchInv ==
    \A s \in Sessions :
       /\ Distinct(batch[s])
       /\ \A r \in ToSet(batch[s]) : SessionOf(r) = s /\ answer[r].end = "open"

(* What a processor at work has taken awaits its last frame, and nobody    *)
(* else has it.                                                            *)
TakenInv ==
    \A p \in Requests : AtWork(p) =>
       \A r \in ToSet(proc[p].taken) :
          /\ answer[r].end = "open" /\ SessionOf(r) = SessionOf(p)
          /\ r \notin ToSet(batch[SessionOf(p)])
          /\ \A q \in Requests : AtWork(q) /\ r \in ToSet(proc[q].taken) => q = p

(* What awaits its last frame is in its batch or was taken.                *)
Placed(r) ==
    \/ r \in ToSet(batch[SessionOf(r)])
    \/ \E p \in Requests : AtWork(p) /\ r \in ToSet(proc[p].taken)
OpenInv == Up => \A r \in Requests : answer[r].end = "open" => Placed(r)
MailInv == BatchInv /\ TakenInv /\ OpenInv

(* The life of a processor.                                                *)
LifeInv ==
    \A p \in Requests :
       /\ proc[p].pc \in {"none", "asleep"} => proc[p].taken = <<>>
       /\ proc[p].pc \in {"none", "asleep", "waiting"} => proc[p].tokens = 0
       /\ proc[p].pc \in {"asleep", "titling", "over"} => KindOf(p) = "chat"
       /\ KindOf(p) # "chat" => proc[p].taken = <<>>
       /\ KindOf(p) = "chat" /\ answer[p].end = "unsent" => proc[p].pc = "none"
       /\ KindOf(p) = "chat" /\ proc[p].pc \in {"waiting", "asking", "titling"} => proc[p].taken # <<>>

(* A lock has a queue of those who hold or want it, and they are in it     *)
(* once; who runs a turn is its head.                                      *)
InLine(p) == proc[p].pc \in {"waiting", "asking", "titling"}
LockInv ==
    /\ \A k \in Locks : \A i \in DOMAIN line[k] :
          /\ LockOf(line[k][i]) = k /\ InLine(line[k][i])
          /\ \A j \in DOMAIN line[k] : line[k][i] = line[k][j] => i = j
    /\ \A p \in Requests : InLine(p) =>
          \E i \in DOMAIN line[LockOf(p)] : line[LockOf(p)][i] = p
    /\ \A p \in Requests : Running(p) => Head(line[LockOf(p)]) = p

OneAtATime ==
    \A p, q \in Requests : Running(p) /\ Running(q) /\ LockOf(p) = LockOf(q) => p = q

(* The turn the bus holds runs, its parts are the tokens so far, and the   *)
(* subscriber has them.                                                    *)
BusInv ==
    /\ \A s \in Sessions : current[s].turn # None =>
          LET p == current[s].turn IN
          /\ KindOf(p) = "chat" /\ SessionOf(p) = s /\ Running(p)
          /\ current[s].parts = proc[p].tokens
          /\ ear[s] = "on" => heard[p] = proc[p].tokens
    /\ \A p \in Requests :
          proc[p].pc \in {"none", "asleep", "waiting"} => heard[p] = 0

(* The mark of a session: there while a processor is at work, unless it    *)
(* was removed early, and not without one.                                 *)
MarkInv ==
    /\ \A p \in Requests : KindOf(p) = "chat" /\ AtWork(p) =>
          SessionOf(p) \in busy \cup early
    /\ \A s \in busy : \E p \in Requests :
          KindOf(p) = "chat" /\ SessionOf(p) = s /\ proc[p].pc \in AtWorkPcs \cup {"over"}

(* The recorded turns: their ids are marked when the turn is over, and the *)
(* turn that runs was checked against those that were recorded before.     *)
HeadId(p) == IdOf(Head(proc[p].taken))
Repeats(a, p) ==
    KindOf(a) = "chat" /\ LockOf(a) = LockOf(p) /\ HeadId(p) # NoId
    /\ \E r \in ToSet(proc[a].taken) : IdOf(r) = HeadId(p)
Recorded ==
    \A s \in Sessions : \A i \in DOMAIN hist[s] :
       /\ SessionOf(hist[s][i]) = s /\ proc[hist[s][i]].pc \in {"titling", "over", "gone"}
       /\ KindOf(hist[s][i]) = "chat" /\ proc[hist[s][i]].pc # "titling" =>
             \A r \in ToSet(proc[hist[s][i]].taken) : IdOf(r) # NoId => reply[s][IdOf(r)] # None
RecordedOnce ==
    \A s \in Sessions : \A i, j \in DOMAIN hist[s] :
       i < j /\ KindOf(hist[s][j]) = "chat" => ~Repeats(hist[s][i], hist[s][j])
AskedOnce ==
    \A p \in Requests : KindOf(p) = "chat" /\ proc[p].pc = "asking" =>
       \A i \in DOMAIN hist[SessionOf(p)] : ~Repeats(hist[SessionOf(p)][i], p)
OnceInv == Up => Recorded /\ RecordedOnce /\ AskedOnce

-----------------------------------------------------------------------------
(* Facts about one step.                                                   *)

(* The requests of an instance.                                            *)
LEMMA CastFacts ==
    ASSUME cast \in Casts, NEW p \in Requests
    PROVE  /\ SessionOf(p) \in Sessions /\ LockOf(p) \in Locks
           /\ KindOf(p) \in {"chat", "reaction", "continuation"}
           /\ IdOf(p) # NoId => IdOf(p) \in Ids
BY ChatConstants DEF SessionOf, LockOf, KindOf, IdOf, Locks, Ids

(* The one who holds the lock is at the head of its queue.                 *)
LEMMA HeadFacts ==
    ASSUME TypeOK, LockInv, NEW p \in Requests, Running(p) \/ Holds(p)
    PROVE  /\ line[LockOf(p)] \in Seq(Requests) /\ line[LockOf(p)] # <<>>
           /\ Len(line[LockOf(p)]) \in Nat \ {0} /\ line[LockOf(p)][1] = p
           /\ Released(p) \in [Locks -> Seq(Requests)]
<1>1. LockOf(p) \in Locks
  BY CastFacts DEF TypeOK
<1>2. line[LockOf(p)] \in Seq(Requests) /\ Head(line[LockOf(p)]) = p
  BY <1>1 DEF TypeOK, LockInv, Holds
<1>3. InLine(p)
  BY DEF InLine, Running, Holds
<1>4. PICK i \in DOMAIN line[LockOf(p)] : line[LockOf(p)][i] = p
  BY <1>3 DEF LockInv
<1>5. line[LockOf(p)] # <<>> /\ Len(line[LockOf(p)]) \in Nat \ {0}
  BY <1>2, <1>4
<1>6. Tail(line[LockOf(p)]) \in Seq(Requests)
  BY <1>2, <1>5
<1>7. Released(p) \in [Locks -> Seq(Requests)]
  BY <1>1, <1>6 DEF Released, TypeOK
<1> QED BY <1>2, <1>5, <1>7

(* A sequence without one of its elements.                                 *)
LEMMA RemoveFacts ==
    ASSUME NEW S, NEW q \in Seq(S), NEW i \in DOMAIN q
    PROVE  /\ RemoveAt(q, i) \in Seq(S) /\ Len(RemoveAt(q, i)) = Len(q) - 1
           /\ \A j \in 1..(Len(q) - 1) : RemoveAt(q, i)[j] = IF j < i THEN q[j] ELSE q[j + 1]
<1> DEFINE a == SubSeq(q, 1, i - 1)
           b == SubSeq(q, i + 1, Len(q))
<1>0. Len(q) \in Nat /\ i \in 1..Len(q)
  OBVIOUS
<1>1. a \in Seq(S) /\ Len(a) = i - 1 /\ \A j \in 1..(i - 1) : a[j] = q[j]
  <2>1. \A j \in 1..(i - 1) : q[j] \in S
    BY <1>0
  <2> QED BY <1>0, <2>1, SubSeqProperties
<1>2. b \in Seq(S) /\ Len(b) = Len(q) - i /\ \A j \in 1..(Len(q) - i) : b[j] = q[j + i]
  <2>1. \A j \in (i + 1)..Len(q) : q[j] \in S
    BY <1>0
  <2>2. \A j \in 1..(Len(q) - (i + 1) + 1) : b[j] = q[(i + 1) + j - 1]
    BY <1>0, <2>1, SubSeqProperties
  <2>3. b \in Seq(S) /\ Len(b) = IF i + 1 <= Len(q) THEN Len(q) - (i + 1) + 1 ELSE 0
    BY <1>0, <2>1, SubSeqProperties
  <2>4. ASSUME NEW j \in 1..(Len(q) - i) PROVE b[j] = q[j + i]
    BY <1>0, <2>2
  <2> QED BY <1>0, <2>3, <2>4
<1>3. RemoveAt(q, i) = a \o b
  BY DEF RemoveAt
<1>6. /\ a \o b \in Seq(S) /\ Len(a \o b) = Len(a) + Len(b)
      /\ \A j \in 1..(Len(a) + Len(b)) : (a \o b)[j] = IF j <= Len(a) THEN a[j] ELSE b[j - Len(a)]
  BY <1>1, <1>2, ConcatProperties
<1> HIDE DEF a, b
<1>4. a \o b \in Seq(S) /\ Len(a \o b) = Len(q) - 1
  BY <1>0, <1>1, <1>2, <1>6
<1>5. ASSUME NEW j \in 1..(Len(q) - 1)
      PROVE  (a \o b)[j] = IF j < i THEN q[j] ELSE q[j + 1]
  <2>1. CASE j < i
    BY SMTT(30), ZenonT(60), <1>0, <1>1, <1>2, <1>6, <2>1
  <2>2. CASE ~(j < i)
    <3>1. j - (i - 1) \in 1..(Len(q) - i) /\ ~(j <= Len(a)) /\ (j - (i - 1)) + i = j + 1
      BY <1>0, <1>1, <2>2
    <3>2. b[j - (i - 1)] = q[j + 1]
      BY <1>2, <3>1
    <3>3. j \in 1..(Len(a) + Len(b)) /\ j - Len(a) = j - (i - 1)
      BY <1>0, <1>1, <1>2
    <3>4. (a \o b)[j] = b[j - (i - 1)]
      BY <1>6, <3>1, <3>3
    <3> QED BY <2>2, <3>2, <3>4
  <2> QED BY <2>1, <2>2
<1> QED BY <1>3, <1>4, <1>5

(* Records with one field changed.                                         *)
Pcs == {"none", "asleep", "waiting", "asking", "titling", "over", "gone"}
LEMMA PcSet ==
    ASSUME NEW x \in Processors, NEW c \in Pcs
    PROVE  /\ [x EXCEPT !.pc = c] \in Processors
           /\ [x EXCEPT !.pc = c].pc = c
BY DEF Processors, Pcs

LEMMA TypesKept ==
    ASSUME TypeOK, LockInv, LifeInv, [Next]_vars
    PROVE  TypeOK'
<1> DEFINE Procs == [Requests -> Processors]
           Replies == [Sessions -> [Ids -> Requests \cup {None}]]
           Lines == [Locks -> Seq(Requests)]
           Lists == [Sessions -> Seq(Requests)]
<1>1. \A p \in Requests : SessionOf(p) \in Sessions /\ LockOf(p) \in Locks
  BY CastFacts DEF TypeOK
<1>0. /\ proc \in Procs /\ reply \in Replies /\ line \in Lines /\ batch \in Lists
      /\ hist \in Lists /\ answer \in [Requests -> Answers]
      /\ current \in [Sessions -> Turns] /\ cast \in Casts
  BY DEF TypeOK
<1>p. ASSUME NEW p \in Requests, NEW c \in Pcs, proc' = [proc EXCEPT ![p].pc = c]
      PROVE  proc' \in Procs
  <2>1. proc' = [proc EXCEPT ![p] = [proc[p] EXCEPT !.pc = c]]
    BY <1>p
  <2> QED BY <1>0, <2>1, PcSet
<1>2. CASE UNCHANGED vars
  BY <1>2 DEF vars, TypeOK
<1>3. ASSUME NEW r \in Requests, Submit(r) PROVE TypeOK'
  <2>1. proc' \in Procs
    BY <1>0, <1>3, <1>p DEF Submit, Pcs
  <2>2. batch' \in Lists
    BY <1>0, <1>1, <1>3 DEF Submit
  <2>3. answer' \in [Requests -> Answers]
    BY <1>0, <1>3 DEF Submit, Answers
  <2>4. busy' \subseteq Sessions
    BY <1>1, <1>3 DEF Submit, TypeOK
  <2> QED BY <1>3, <2>1, <2>2, <2>3, <2>4 DEF Submit, busVars, gateVars, TypeOK
<1>4. ASSUME NEW r \in Requests, Arrive(r) PROVE TypeOK'
  <2>1. proc' \in Procs
    BY <1>4, <1>p DEF Arrive, Pcs
  <2>2. line' \in Lines
    BY <1>0, <1>1, <1>4 DEF Arrive
  <2> QED BY <1>4, <2>1, <2>2 DEF Arrive, busVars, gateVars, TypeOK
<1>5. ASSUME NEW q \in Seq(Requests), NEW e \in {"done", "error"}
      PROVE  Ended(q, e) \in [Requests -> Answers]
  BY <1>0 DEF Ended, Answers
<1>6. ASSUME NEW r \in Requests, CancelOne(r) PROVE TypeOK'
  <2>1. PICK i \in DOMAIN batch[SessionOf(r)] :
           batch' = [batch EXCEPT ![SessionOf(r)] = RemoveAt(@, i)]
    BY <1>6 DEF CancelOne
  <2>2. RemoveAt(batch[SessionOf(r)], i) \in Seq(Requests)
    BY <1>0, <1>1, RemoveFacts
  <2>3. batch' \in Lists
    BY <1>0, <1>1, <2>1, <2>2
  <2>4. answer' \in [Requests -> Answers]
    <3>1. <<r>> \in Seq(Requests) /\ answer' = Ended(<<r>>, "done")
      BY <1>6 DEF CancelOne
    <3> QED BY <1>5, <3>1
  <2> QED BY <1>6, <2>3, <2>4 DEF CancelOne, busVars, gateVars, TypeOK
<1>7. ASSUME NEW s \in Sessions, CancelAll(s) PROVE TypeOK'
  <2>1. answer' \in [Requests -> Answers]
    BY <1>0, <1>5, <1>7 DEF CancelAll
  <2>2. batch' \in Lists
    BY <1>0, <1>7 DEF CancelAll
  <2> QED BY <1>7, <2>1, <2>2 DEF CancelAll, busVars, gateVars, TypeOK
<1>8. ASSUME NEW p \in Requests, Wake(p) PROVE TypeOK'
  <2>1. batch' \in Lists
    <3>1. batch' = [batch EXCEPT ![SessionOf(p)] = <<>>]
      BY <1>8 DEF Wake
    <3> QED BY <1>0, <1>1, <3>1
  <2>2. line' \in Lines
    <3>1. line' = line \/ line' = [line EXCEPT ![LockOf(p)] = Append(@, p)]
      BY <1>8 DEF Wake
    <3>2. [line EXCEPT ![LockOf(p)] = Append(@, p)] \in Lines
      BY <1>0, <1>1
    <3> QED BY <1>0, <3>1, <3>2
  <2>3. proc' \in Procs
    <3>1. CASE batch[SessionOf(p)] = <<>>
      BY <1>8, <1>p, <3>1 DEF Wake, Pcs
    <3>2. CASE batch[SessionOf(p)] # <<>>
      <4>1. proc' = [proc EXCEPT ![p] = [proc[p] EXCEPT !.pc = "waiting",
                                                        !.taken = batch[SessionOf(p)]]]
        BY <1>0, <1>8, <3>2 DEF Wake
      <4>2. [proc[p] EXCEPT !.pc = "waiting", !.taken = batch[SessionOf(p)]] \in Processors
        BY <1>0, <1>1 DEF Processors
      <4> QED BY <1>0, <4>1, <4>2
    <3> QED BY <3>1, <3>2
  <2> QED BY <1>8, <2>1, <2>2, <2>3 DEF Wake, busVars, gateVars, TypeOK
<1>9. ASSUME NEW p \in Requests, Replay(p) PROVE TypeOK'
  <2>1. IdOf(Head(proc[p].taken)) # NoId /\ Known(p) = reply[SessionOf(p)][IdOf(Head(proc[p].taken))]
    BY <1>9 DEF Replay, Known
  <2>0. /\ proc[p].pc = "waiting" /\ KindOf(p) = "chat" /\ proc[p] \in Processors
    BY <1>0, <1>9 DEF Replay, Holds
  <2>2. Head(proc[p].taken) \in Requests
    BY <2>0 DEF Processors, LifeInv
  <2>3. Known(p) \in Requests
    BY <1>0, <1>1, <1>9, <2>1, <2>2, CastFacts DEF Replay
  <2>4. answer' \in [Requests -> Answers]
    BY <1>0, <1>9, <2>3 DEF Replay, Answers
  <2>5. proc' \in Procs
    BY <1>9, <1>p DEF Replay, Pcs
  <2>6. line' \in Lines
    BY <1>9, HeadFacts DEF Replay
  <2> QED BY <1>9, <2>4, <2>5, <2>6 DEF Replay, busVars, gateVars, TypeOK
<1>10. ASSUME NEW p \in Requests, Begin(p) PROVE TypeOK'
  <2>1. proc' \in Procs
    <3>1. Len(hist[SessionOf(p)]) \in Nat
      BY <1>0, <1>1
    <3>2. proc' = [proc EXCEPT ![p] = [proc[p] EXCEPT !.pc = "asking",
                                                      !.seen = Len(hist[SessionOf(p)])]]
      BY <1>0, <1>10 DEF Begin
    <3>3. [proc[p] EXCEPT !.pc = "asking", !.seen = Len(hist[SessionOf(p)])] \in Processors
      BY <1>0, <3>1 DEF Processors
    <3> QED BY <1>0, <3>2, <3>3
  <2>2. current' \in [Sessions -> Turns]
    <3>1. \/ current' = current
          \/ current' = [current EXCEPT ![SessionOf(p)] = [turn |-> p, parts |-> 0]]
      BY <1>10 DEF Begin
    <3>2. [current EXCEPT ![SessionOf(p)] = [turn |-> p, parts |-> 0]] \in [Sessions -> Turns]
      BY <1>0, <1>1 DEF Turns
    <3> QED BY <1>0, <3>1, <3>2
  <2>3. answer' \in [Requests -> Answers]
    <3>1. \/ answer' = answer
          \/ answer' = [r \in Requests |-> IF r \in ToSet(proc[p].taken)
                                           THEN [answer[r] EXCEPT !.of = p] ELSE answer[r]]
      BY <1>10 DEF Begin
    <3>2. [r \in Requests |-> IF r \in ToSet(proc[p].taken)
                              THEN [answer[r] EXCEPT !.of = p] ELSE answer[r]]
             \in [Requests -> Answers]
      BY <1>0 DEF Answers
    <3> QED BY <1>0, <3>1, <3>2
  <2> QED BY <1>10, <2>1, <2>2, <2>3 DEF Begin, gateVars, TypeOK
<1>11. ASSUME NEW p \in Requests, Token(p) PROVE TypeOK'
  <2>1. proc' \in Procs
    <3>1. proc' = [proc EXCEPT ![p] = [proc[p] EXCEPT !.tokens = @ + 1]]
      BY <1>0, <1>11 DEF Token
    <3>2. [proc[p] EXCEPT !.tokens = @ + 1] \in Processors
      <4>1. proc[p] \in Processors /\ proc[p].tokens + 1 \in Nat
        BY <1>0 DEF Processors
      <4> QED BY <4>1 DEF Processors
    <3> QED BY <1>0, <3>1, <3>2
  <2>2. current' \in [Sessions -> Turns]
    <3>1. current[SessionOf(p)].parts + 1 \in Nat /\ current[SessionOf(p)] \in Turns
      BY <1>0, <1>1 DEF Turns
    <3>2. [current[SessionOf(p)] EXCEPT !.parts = @ + 1] \in Turns
      BY <3>1 DEF Turns
    <3>3. \/ current' = current
          \/ current' = [current EXCEPT ![SessionOf(p)] =
                            [current[SessionOf(p)] EXCEPT !.parts = @ + 1]]
      BY <1>0, <1>11 DEF Token
    <3> QED BY <1>0, <3>2, <3>3
  <2>3. heard' \in [Requests -> Nat]
    BY <1>11 DEF Token, TypeOK
  <2> QED BY <1>11, <2>1, <2>2, <2>3 DEF Token, gateVars, TypeOK
<1>12. ASSUME NEW p \in Requests, Retry(p) PROVE TypeOK'
  <2>1. proc' \in Procs
    <3>1. proc' = [proc EXCEPT ![p] = [proc[p] EXCEPT !.tries = @ + 1]]
      BY <1>0, <1>12 DEF Retry
    <3>2. [proc[p] EXCEPT !.tries = @ + 1] \in Processors
      <4>1. proc[p] \in Processors /\ proc[p].tries + 1 \in Nat
        BY <1>0 DEF Processors
      <4> QED BY <4>1 DEF Processors
    <3> QED BY <1>0, <3>1, <3>2
  <2> QED BY <1>12, <2>1 DEF Retry, busVars, gateVars, TypeOK
<1>13. ASSUME NEW p \in Requests, RecordThenTitle(p) PROVE TypeOK'
  <2>1. proc' \in Procs
    BY <1>13, <1>p DEF RecordThenTitle, Pcs
  <2>2. hist' \in Lists
    BY <1>0, <1>1, <1>13 DEF RecordThenTitle
  <2> QED BY <1>13, <2>1, <2>2 DEF RecordThenTitle, busVars, gateVars, TypeOK
<1>14. ASSUME NEW p \in Requests, NEW e \in {"done", "error"}, Running(p), Close(p, e)
       PROVE  /\ reply' \in Replies /\ answer' \in [Requests -> Answers]
              /\ current' \in [Sessions -> Turns] /\ line' \in Lines
  <2>1. reply' \in Replies
    BY <1>0, <1>1, <1>14 DEF Close, Marked
  <2>2. answer' \in [Requests -> Answers]
    BY <1>0, <1>5, <1>14 DEF Close, Processors
  <2>3. current' \in [Sessions -> Turns]
    BY <1>0, <1>1, <1>14 DEF Close, EndTurn, Turns
  <2>4. line' \in Lines
    BY <1>14, HeadFacts DEF Close
  <2> QED BY <2>1, <2>2, <2>3, <2>4
<1>15. ASSUME NEW p \in Requests, Titled(p) PROVE TypeOK'
  <2>1. Running(p)
    BY <1>15 DEF Titled, Running
  <2>2. proc' \in Procs
    BY <1>15, <1>p DEF Titled, Pcs
  <2>3. Close(p, "done") /\ UNCHANGED hist
    BY <1>15 DEF Titled
  <2> QED BY <1>14, <2>1, <2>2, <2>3 DEF Close, gateVars, TypeOK
<1>16. ASSUME NEW p \in Requests, NEW e \in {"done", "error"}, Finish(p, e) PROVE TypeOK'
  <2>1. Running(p) /\ Close(p, e)
    BY <1>16 DEF Finish, Running
  <2>2. proc' \in Procs
    BY <1>16, <1>p DEF Finish, Pcs
  <2>3. hist' \in Lists
    BY <1>0, <1>1, <1>16 DEF Finish
  <2> QED BY <1>14, <2>1, <2>2, <2>3 DEF Close, gateVars, TypeOK
<1>17. ASSUME NEW p \in Requests, FinishOther(p) PROVE TypeOK'
  <2>1. proc' \in Procs
    BY <1>17, <1>p DEF FinishOther, Pcs
  <2>2. hist' \in Lists
    <3>1. [hist EXCEPT ![SessionOf(p)] = Append(@, p)] \in Lists
      BY <1>0, <1>1
    <3> QED BY <1>0, <1>17, <3>1 DEF FinishOther
  <2>3. line' \in Lines
    BY <1>17, HeadFacts DEF FinishOther, Running
  <2> QED BY <1>17, <2>1, <2>2, <2>3 DEF FinishOther, busVars, gateVars, TypeOK
<1>18. ASSUME NEW p \in Requests, Cleared(p) PROVE TypeOK'
  <2>1. proc' \in Procs
    BY <1>18, <1>p DEF Cleared, Pcs
  <2>2. busy' \subseteq Sessions /\ early' \subseteq Sessions
    BY <1>1, <1>18 DEF Cleared, TypeOK
  <2> QED BY <1>18, <2>1, <2>2 DEF Cleared, busVars, gateVars, TypeOK
<1>19. ASSUME NEW s \in Sessions, Subscribe(s) \/ Unsubscribe(s) PROVE TypeOK'
  <2>1. ear' \in [Sessions -> {"off", "on"}]
    BY <1>19 DEF Subscribe, Unsubscribe, TypeOK
  <2>2. current[s].turn \in Requests \cup {None} /\ current[s].parts \in Nat
    BY <1>0 DEF Turns
  <2>3. heard' \in [Requests -> Nat]
    <3>1. \/ heard' = heard
          \/ current[s].turn # None /\ heard' = [heard EXCEPT ![current[s].turn] = current[s].parts]
          \/ heard' = [p \in Requests |-> IF SessionOf(p) = s THEN 0 ELSE heard[p]]
      BY <1>19 DEF Subscribe, Unsubscribe
    <3>2. heard \in [Requests -> Nat]
      BY DEF TypeOK
    <3>3. [heard EXCEPT ![current[s].turn] = current[s].parts] \in [Requests -> Nat]
      BY <2>2, <3>2
    <3>4. [p \in Requests |-> IF SessionOf(p) = s THEN 0 ELSE heard[p]] \in [Requests -> Nat]
      BY <3>2
    <3> QED BY <3>1, <3>2, <3>3, <3>4
  <2>4. UNCHANGED <<cast, batch, proc, busy, line, answer, reply, hist, current, gateVars, early>>
    BY <1>19 DEF Subscribe, Unsubscribe
  <2> QED BY <2>1, <2>3, <2>4 DEF gateVars, TypeOK
<1>20. ASSUME NEW p \in Requests, SelfRestart(p) PROVE TypeOK'
  BY <1>20 DEF SelfRestart, busVars, TypeOK
<1>21. CASE Drained \/ DrainTimeout
  BY <1>21 DEF Drained, DrainTimeout, busVars, TypeOK
<1>22. CASE Shutdown
  <2>1. proc' \in Procs
    BY <1>22 DEF Shutdown, Unborn, Processors
  <2>2. line' \in Lines /\ batch' \in Lists /\ reply' \in Replies
    BY <1>22 DEF Shutdown
  <2>3. current' \in [Sessions -> Turns]
    BY <1>22 DEF Shutdown, Turns
  <2> QED BY <1>22, <2>1, <2>2, <2>3 DEF Shutdown, TypeOK
<1> QED
  BY <1>2, <1>3, <1>4, <1>6, <1>7, <1>8, <1>9, <1>10, <1>11, <1>12, <1>13, <1>15, <1>16,
     <1>17, <1>18, <1>19, <1>20, <1>21, <1>22 DEF Next, Work

-----------------------------------------------------------------------------
(* What a step does to the processors.                                     *)

(* Processor p is now at c, with the messages t, k tokens and n recorded   *)
(* turns read; the others are where they were.                             *)
Goes(p, c, t, k, n) ==
    /\ proc'[p].pc = c /\ proc'[p].taken = t /\ proc'[p].tokens = k /\ proc'[p].seen = n
    /\ \A q \in Requests : q # p => proc'[q] = proc[q]
GoesTo(p, c) == Goes(p, c, proc[p].taken, proc[p].tokens, proc[p].seen)

LEMMA PcChanged ==
    ASSUME TypeOK, NEW p \in Requests, NEW c, proc' = [proc EXCEPT ![p].pc = c]
    PROVE  GoesTo(p, c)
<1>1. proc \in [Requests -> Processors]
  BY DEF TypeOK
<1>2. proc' = [proc EXCEPT ![p] = [proc[p] EXCEPT !.pc = c]]
  BY <1>1
<1> QED BY <1>1, <1>2 DEF Processors, GoesTo, Goes

LEMMA ProcSteps ==
    ASSUME TypeOK, NEW p \in Requests
    PROVE  /\ Submit(p) => proc' = proc \/ GoesTo(p, "asleep")
           /\ Arrive(p) => GoesTo(p, "waiting")
           /\ Wake(p) /\ batch[SessionOf(p)] = <<>> => GoesTo(p, "over")
           /\ Wake(p) /\ batch[SessionOf(p)] # <<>> =>
                 Goes(p, "waiting", batch[SessionOf(p)], proc[p].tokens, proc[p].seen)
           /\ Replay(p) => GoesTo(p, "over")
           /\ Begin(p) => Goes(p, "asking", proc[p].taken, proc[p].tokens, Len(hist[SessionOf(p)]))
           /\ Token(p) => Goes(p, "asking", proc[p].taken, proc[p].tokens + 1, proc[p].seen)
           /\ Retry(p) => GoesTo(p, "asking")
           /\ RecordThenTitle(p) => GoesTo(p, "titling")
           /\ Titled(p) => GoesTo(p, "over")
           /\ \A e \in {"done", "error"} : Finish(p, e) => GoesTo(p, "over")
           /\ FinishOther(p) => GoesTo(p, "gone")
           /\ Cleared(p) => GoesTo(p, "gone")
<1>0. proc \in [Requests -> Processors]
  BY DEF TypeOK
<1>1. Submit(p) => proc' = proc \/ GoesTo(p, "asleep")
  BY PcChanged DEF Submit
<1>2. Arrive(p) => GoesTo(p, "waiting")
  BY PcChanged DEF Arrive
<1>3. Wake(p) /\ batch[SessionOf(p)] = <<>> => GoesTo(p, "over")
  BY PcChanged DEF Wake
<1>4. ASSUME Wake(p), batch[SessionOf(p)] # <<>>
      PROVE  Goes(p, "waiting", batch[SessionOf(p)], proc[p].tokens, proc[p].seen)
  <2>1. proc' = [proc EXCEPT ![p] = [proc[p] EXCEPT !.pc = "waiting",
                                                    !.taken = batch[SessionOf(p)]]]
    BY <1>0, <1>4 DEF Wake
  <2> QED BY <1>0, <2>1 DEF Processors, Goes
<1>5. Replay(p) => GoesTo(p, "over")
  BY PcChanged DEF Replay
<1>6. ASSUME Begin(p)
      PROVE  Goes(p, "asking", proc[p].taken, proc[p].tokens, Len(hist[SessionOf(p)]))
  <2>1. proc' = [proc EXCEPT ![p] = [proc[p] EXCEPT !.pc = "asking",
                                                    !.seen = Len(hist[SessionOf(p)])]]
    BY <1>0, <1>6 DEF Begin
  <2> QED BY <1>0, <2>1 DEF Processors, Goes
<1>7. ASSUME Token(p)
      PROVE  Goes(p, "asking", proc[p].taken, proc[p].tokens + 1, proc[p].seen)
  <2>1. proc' = [proc EXCEPT ![p] = [proc[p] EXCEPT !.tokens = @ + 1]] /\ proc[p].pc = "asking"
    BY <1>0, <1>7 DEF Token
  <2> QED BY <1>0, <2>1 DEF Processors, Goes
<1>8. ASSUME Retry(p) PROVE GoesTo(p, "asking")
  <2>1. proc' = [proc EXCEPT ![p] = [proc[p] EXCEPT !.tries = @ + 1]] /\ proc[p].pc = "asking"
    BY <1>0, <1>8 DEF Retry
  <2> QED BY <1>0, <2>1 DEF Processors, GoesTo, Goes
<1>9. RecordThenTitle(p) => GoesTo(p, "titling")
  BY PcChanged DEF RecordThenTitle
<1>10. Titled(p) => GoesTo(p, "over")
  BY PcChanged DEF Titled
<1>11. ASSUME NEW e \in {"done", "error"}, Finish(p, e) PROVE GoesTo(p, "over")
  BY <1>11, PcChanged DEF Finish
<1>12. FinishOther(p) => GoesTo(p, "gone")
  BY PcChanged DEF FinishOther
<1>13. Cleared(p) => GoesTo(p, "gone")
  BY PcChanged DEF Cleared
<1> QED BY <1>1, <1>2, <1>3, <1>4, <1>5, <1>6, <1>7, <1>8, <1>9, <1>10, <1>11, <1>12, <1>13

-----------------------------------------------------------------------------
(* The locks.                                                              *)

LEMMA LineKept ==
    ASSUME TypeOK, LockInv, cast' = cast, line' = line,
           \A q \in Requests : /\ InLine(q)' <=> InLine(q)
                               /\ Running(q)' => Running(q) \/ Head(line[LockOf(q)]) = q
    PROVE  LockInv'
<1>1. /\ \A q : LockOf(q)' = LockOf(q)
      /\ Locks' = Locks
  BY DEF LockOf, Locks
<1>2. \A k \in Locks : \A i \in DOMAIN line[k] : line[k][i] \in Requests
  BY DEF TypeOK
<1> QED BY <1>1, <1>2 DEF LockInv

Joined(p) == [line EXCEPT ![LockOf(p)] = Append(@, p)]
LEMMA LineJoined ==
    ASSUME TypeOK, LockInv, cast' = cast, NEW p \in Requests,
           line' = Joined(p), ~InLine(p), InLine(p)', ~Running(p)',
           \A q \in Requests : q # p => proc'[q] = proc[q]
    PROVE  LockInv'
<1> DEFINE k == LockOf(p)
           n == Len(line[k])
<1>1. /\ \A q : LockOf(q)' = LockOf(q)
      /\ Locks' = Locks
  BY DEF LockOf, Locks
<1>2. k \in Locks /\ line[k] \in Seq(Requests) /\ n \in Nat
  BY CastFacts DEF TypeOK
<1>3. \A q \in Requests : q # p => (InLine(q)' <=> InLine(q)) /\ (Running(q)' <=> Running(q))
  BY DEF InLine, Running
<1>4. \A l \in Locks : l # k => line'[l] = line[l]
  BY DEF TypeOK, Joined
<1>5. line'[k] = Append(line[k], p)
  BY <1>2 DEF TypeOK, Joined
<1>6. \A i \in DOMAIN line[k] : line[k][i] # p
  BY <1>2 DEF LockInv
<1>7. /\ DOMAIN line'[k] = 1..(n + 1) /\ DOMAIN line[k] = 1..n
      /\ \A i \in 1..n : line'[k][i] = line[k][i]
      /\ line'[k][n + 1] = p
  BY <1>2, <1>5
<1> HIDE DEF k, n
<1>8. ASSUME NEW l \in Locks, NEW i \in DOMAIN line'[l]
      PROVE  /\ LockOf(line'[l][i]) = l
             /\ proc'[line'[l][i]].pc \in {"waiting", "asking", "titling"}
             /\ \A j \in DOMAIN line'[l] : line'[l][i] = line'[l][j] => i = j
  <2>1. CASE l # k
    <3>1. line[l][i] \in Requests /\ line[l][i] # p
      <4>1. line[l][i] \in Requests /\ LockOf(line[l][i]) = l
        BY <1>4, <1>8, <2>1 DEF TypeOK, LockInv
      <4> QED BY <2>1, <4>1 DEF k
    <3> QED BY <1>3, <1>4, <2>1, <3>1 DEF LockInv, InLine
  <2>2. CASE l = k
    <3>1. CASE i = n + 1
      BY <1>2, <1>6, <1>7, <2>2, <3>1 DEF k, InLine
    <3>2. CASE i \in 1..n
      <4>1. line[k][i] \in Requests /\ line[k][i] # p
        BY <1>2, <1>6, <1>7, <3>2
      <4>2. LockOf(line[k][i]) = k /\ InLine(line[k][i])
        BY <1>2, <1>7, <3>2 DEF LockInv
      <4>3. ASSUME NEW j \in DOMAIN line'[l], line'[l][i] = line'[l][j] PROVE i = j
        <5>1. j \in 1..n
          BY <1>2, <1>7, <2>2, <3>2, <4>1, <4>3
        <5> QED BY <1>2, <1>7, <2>2, <3>2, <4>3, <5>1 DEF LockInv
      <4> QED BY <1>3, <1>7, <2>2, <3>2, <4>1, <4>2, <4>3 DEF InLine
    <3> QED BY <1>2, <1>7, <2>2, <3>1, <3>2
  <2> QED BY <2>1, <2>2
<1>9. ASSUME NEW q \in Requests, InLine(q)'
      PROVE  \E i \in DOMAIN line'[LockOf(q)] : line'[LockOf(q)][i] = q
  <2>1. CASE q = p
    BY <1>2, <1>7, <2>1 DEF k
  <2>2. CASE q # p
    <3>1. PICK i \in DOMAIN line[LockOf(q)] : line[LockOf(q)][i] = q
      BY <1>3, <1>9, <2>2 DEF LockInv
    <3>2. LockOf(q) \in Locks
      BY CastFacts DEF TypeOK
    <3>3. i \in DOMAIN line'[LockOf(q)] /\ line'[LockOf(q)][i] = q
      BY <1>2, <1>4, <1>7, <3>1, <3>2
    <3> QED BY <3>3
  <2> QED BY <2>1, <2>2
<1>10. ASSUME NEW q \in Requests, Running(q)' PROVE Head(line'[LockOf(q)]) = q
  <2>1. q # p /\ Running(q) /\ InLine(q)
    BY <1>3, <1>10 DEF Running, InLine
  <2>2. PICK i \in DOMAIN line[LockOf(q)] : line[LockOf(q)][i] = q
    BY <2>1 DEF LockInv
  <2>3. LockOf(q) \in Locks /\ line[LockOf(q)] \in Seq(Requests)
    BY CastFacts DEF TypeOK
  <2>4. Head(line[LockOf(q)]) = q /\ line[LockOf(q)] # <<>>
    BY <2>1, <2>2, <2>3 DEF LockInv
  <2>5. CASE LockOf(q) = k
    BY <1>5, <2>3, <2>4, <2>5
  <2>6. CASE LockOf(q) # k
    BY <1>4, <2>3, <2>4, <2>6
  <2> QED BY <2>5, <2>6
<1> QED BY <1>8, <1>9, <1>10 DEF LockInv, LockOf, Locks, InLine, Running

LEMMA LineLeft ==
    ASSUME TypeOK, LockInv, cast' = cast, NEW p \in Requests,
           Running(p) \/ Holds(p), line' = Released(p), ~InLine(p)',
           \A q \in Requests : q # p => proc'[q] = proc[q]
    PROVE  LockInv'
<1> DEFINE k == LockOf(p)
           n == Len(line[k])
<1>1. /\ \A q : LockOf(q)' = LockOf(q)
      /\ Locks' = Locks
  BY DEF LockOf, Locks
<1>2. k \in Locks /\ line[k] \in Seq(Requests) /\ n \in Nat \ {0} /\ line[k][1] = p
  BY CastFacts, HeadFacts DEF TypeOK
<1>3. \A q \in Requests : q # p => (InLine(q)' <=> InLine(q)) /\ (Running(q)' <=> Running(q))
  BY DEF InLine, Running
<1>4. \A l \in Locks : l # k => line'[l] = line[l]
  BY DEF TypeOK, Released
<1>5. line'[k] = Tail(line[k])
  BY <1>2 DEF TypeOK, Released
<1>6. /\ DOMAIN line'[k] = 1..(n - 1) /\ DOMAIN line[k] = 1..n
      /\ \A i \in 1..(n - 1) : line'[k][i] = line[k][i + 1]
  BY <1>2, <1>5
<1>7. \A i \in 2..n : line[k][i] # p
  BY <1>2, <1>6 DEF LockInv
<1>0. ~Running(p)'
  BY DEF InLine, Running
<1> HIDE DEF k, n
<1>8. ASSUME NEW l \in Locks, NEW i \in DOMAIN line'[l]
      PROVE  /\ LockOf(line'[l][i]) = l
             /\ proc'[line'[l][i]].pc \in {"waiting", "asking", "titling"}
             /\ \A j \in DOMAIN line'[l] : line'[l][i] = line'[l][j] => i = j
  <2>1. CASE l # k
    <3>1. line[l][i] \in Requests /\ line[l][i] # p
      <4>1. line[l][i] \in Requests /\ LockOf(line[l][i]) = l
        BY <1>4, <1>8, <2>1 DEF TypeOK, LockInv
      <4> QED BY <2>1, <4>1 DEF k
    <3> QED BY <1>3, <1>4, <2>1, <3>1 DEF LockInv, InLine
  <2>2. CASE l = k
    <3>1. i \in 1..(n - 1) /\ i + 1 \in 2..n /\ i + 1 \in DOMAIN line[k]
      BY <1>2, <1>6, <2>2
    <3>2. line[k][i + 1] \in Requests /\ line[k][i + 1] # p
      BY <1>2, <1>7, <3>1
    <3>3. LockOf(line[k][i + 1]) = k /\ InLine(line[k][i + 1])
      BY <1>2, <3>1 DEF LockInv
    <3>4. ASSUME NEW j \in DOMAIN line'[l], line'[l][i] = line'[l][j] PROVE i = j
      <4>1. j \in 1..(n - 1) /\ j + 1 \in DOMAIN line[k] /\ line[k][j + 1] = line[k][i + 1]
        BY <1>2, <1>6, <2>2, <3>1, <3>4
      <4>2. i + 1 = j + 1
        BY <1>2, <3>1, <4>1 DEF LockInv
      <4> QED BY <3>1, <4>1, <4>2
    <3> QED BY <1>3, <1>6, <2>2, <3>1, <3>2, <3>3, <3>4 DEF InLine
  <2> QED BY <2>1, <2>2
<1>9. ASSUME NEW q \in Requests, InLine(q)'
      PROVE  \E i \in DOMAIN line'[LockOf(q)] : line'[LockOf(q)][i] = q
  <2>1. q # p /\ InLine(q) /\ LockOf(q) \in Locks
    BY <1>3, <1>9, CastFacts DEF TypeOK
  <2>2. PICK i \in DOMAIN line[LockOf(q)] : line[LockOf(q)][i] = q
    BY <2>1 DEF LockInv
  <2>3. CASE LockOf(q) = k
    <3>1. i \in 1..n /\ i # 1
      BY <1>2, <1>6, <2>1, <2>2, <2>3
    <3>2. i - 1 \in 1..(n - 1) /\ (i - 1) + 1 = i
      BY <1>2, <3>1
    <3>3. line'[k][i - 1] = q
      BY <1>6, <2>2, <2>3, <3>2
    <3> QED BY <1>6, <2>3, <3>2, <3>3
  <2>4. CASE LockOf(q) # k
    BY <1>4, <2>1, <2>2, <2>4
  <2> QED BY <2>3, <2>4
<1>10. ASSUME NEW q \in Requests, Running(q)' PROVE Head(line'[LockOf(q)]) = q
  <2>1. q # p /\ Running(q) /\ LockOf(q) \in Locks
    BY <1>0, <1>3, <1>10, CastFacts DEF TypeOK
  <2>2. Head(line[LockOf(q)]) = q
    BY <2>1 DEF LockInv
  <2>3. LockOf(q) # k
    BY <1>2, <2>1, <2>2
  <2> QED BY <1>4, <2>1, <2>2, <2>3
<1> QED BY <1>8, <1>9, <1>10 DEF LockInv, LockOf, Locks, InLine, Running

LEMMA LocksKept ==
    ASSUME TypeOK, LockInv, LifeInv, [Next]_vars
    PROVE  LockInv'
<1> DEFINE Quiet == \A q \in Requests : /\ InLine(q)' <=> InLine(q)
                                        /\ Running(q)' => Running(q) \/ Head(line[LockOf(q)]) = q
<1>1. CASE UNCHANGED <<cast, proc, line>>
  <2>1. Quiet
    BY <1>1 DEF InLine, Running
  <2> QED BY <1>1, <2>1, LineKept
<1>2. ASSUME NEW p \in Requests,
             \/ Submit(p) \/ Begin(p) \/ Token(p) \/ Retry(p) \/ RecordThenTitle(p) \/ Cleared(p)
      PROVE  LockInv'
  <2>1. UNCHANGED <<cast, line>>
    BY <1>2 DEF Submit, Begin, Token, Retry, RecordThenTitle, Cleared
  <2>2. CASE Submit(p)
    <3>1. proc' = proc \/ GoesTo(p, "asleep")
      BY <2>2, ProcSteps
    <3>2. proc[p].pc = "none"
      BY <2>2 DEF Submit, LifeInv
    <3>3. CASE proc' = proc
      BY <2>1, <3>3, <1>1
    <3>4. CASE GoesTo(p, "asleep")
      <4>1. Quiet
        BY <3>2, <3>4 DEF InLine, Running, GoesTo, Goes
      <4> QED BY <2>1, <4>1, LineKept
    <3> QED BY <3>1, <3>3, <3>4
  <2>3. CASE Begin(p)
    <3>1. proc'[p].pc = "asking" /\ \A q \in Requests : q # p => proc'[q] = proc[q]
      BY <2>3, ProcSteps DEF Goes
    <3>2. proc[p].pc = "waiting" /\ Head(line[LockOf(p)]) = p
      BY <2>3 DEF Begin, Holds
    <3>3. Quiet
      BY <3>1, <3>2 DEF InLine, Running
    <3> QED BY <2>1, <3>3, LineKept
  <2>4. CASE Token(p) \/ Retry(p) \/ RecordThenTitle(p)
    <3>1. proc'[p].pc \in {"asking", "titling"} /\ \A q \in Requests : q # p => proc'[q] = proc[q]
      BY <2>4, ProcSteps DEF GoesTo, Goes
    <3>2. proc[p].pc = "asking"
      BY <2>4 DEF Token, Retry, RecordThenTitle
    <3>3. Quiet
      BY <3>1, <3>2 DEF InLine, Running
    <3> QED BY <2>1, <3>3, LineKept
  <2>5. CASE Cleared(p)
    <3>1. proc'[p].pc = "gone" /\ \A q \in Requests : q # p => proc'[q] = proc[q]
      BY <2>5, ProcSteps DEF GoesTo, Goes
    <3>2. proc[p].pc = "over"
      BY <2>5 DEF Cleared
    <3>3. Quiet
      BY <3>1, <3>2 DEF InLine, Running
    <3> QED BY <2>1, <3>3, LineKept
  <2> QED BY <1>2, <2>2, <2>3, <2>4, <2>5
<1>3. ASSUME NEW p \in Requests, proc[p].pc \in {"none", "asleep"}, proc'[p].pc = "waiting",
             \A q \in Requests : q # p => proc'[q] = proc[q],
             cast' = cast, line' = Joined(p)
      PROVE  LockInv'
  <2>1. ~InLine(p) /\ InLine(p)' /\ ~Running(p)'
    BY <1>3 DEF InLine, Running
  <2> QED BY <1>3, <2>1, LineJoined
<1>9. ASSUME NEW p \in Requests, Arrive(p) PROVE LockInv'
  BY <1>3, <1>9, ProcSteps DEF GoesTo, Goes, Arrive, Joined
<1>10. ASSUME NEW p \in Requests, Wake(p) PROVE LockInv'
  <2>0. proc[p].pc = "asleep" /\ cast' = cast
    BY <1>10 DEF Wake
  <2>1. CASE batch[SessionOf(p)] = <<>>
    <3>1. GoesTo(p, "over") /\ line' = line
      BY <1>10, <2>1, ProcSteps DEF Wake
    <3>2. Quiet
      BY <2>0, <3>1 DEF GoesTo, Goes, InLine, Running
    <3> QED BY <2>0, <3>1, <3>2, LineKept
  <2>2. CASE batch[SessionOf(p)] # <<>>
    <3>1. Goes(p, "waiting", batch[SessionOf(p)], proc[p].tokens, proc[p].seen)
      BY <1>10, <2>2, ProcSteps
    <3>2. line' = Joined(p)
      BY <1>10, <2>2 DEF Wake, Joined
    <3> QED BY <1>3, <2>0, <3>1, <3>2 DEF Goes
  <2> QED BY <2>1, <2>2
<1>4. ASSUME NEW p \in Requests,
             \/ Replay(p) \/ Titled(p) \/ FinishOther(p) \/ \E e \in {"done", "error"} : Finish(p, e)
      PROVE  LockInv'
  <2>1. /\ proc'[p].pc \in {"over", "gone"}
        /\ \A q \in Requests : q # p => proc'[q] = proc[q]
    BY <1>4, ProcSteps DEF GoesTo, Goes
  <2>2. cast' = cast /\ line' = Released(p)
    BY <1>4 DEF Replay, Titled, FinishOther, Finish, Close
  <2>3. Running(p) \/ Holds(p)
    BY <1>4 DEF Replay, Titled, FinishOther, Finish, Running
  <2>4. ~InLine(p)'
    BY <2>1 DEF InLine
  <2> QED BY <2>1, <2>2, <2>3, <2>4, LineLeft
<1>5. CASE Shutdown
  <2>1. /\ \A p \in Requests : proc'[p].pc = "none"
        /\ \A k \in Locks : line'[k] = <<>>
        /\ cast' = cast
    BY <1>5 DEF Shutdown, Unborn
  <2> QED BY <2>1 DEF LockInv, LockOf, Locks, InLine, Running
<1>6. ASSUME NEW r \in Requests, CancelOne(r) \/ SelfRestart(r) PROVE LockInv'
  BY <1>1, <1>6 DEF CancelOne, SelfRestart
<1>7. ASSUME NEW s \in Sessions, CancelAll(s) \/ Subscribe(s) \/ Unsubscribe(s) PROVE LockInv'
  BY <1>1, <1>7 DEF CancelAll, Subscribe, Unsubscribe
<1>8. CASE Drained \/ DrainTimeout \/ UNCHANGED vars
  BY <1>1, <1>8 DEF Drained, DrainTimeout, vars
<1> QED BY <1>2, <1>4, <1>5, <1>6, <1>7, <1>8, <1>9, <1>10 DEF Next, Work

(* The lives of the processors.                                            *)
Living(p) ==
    /\ proc[p].pc \in {"none", "asleep"} => proc[p].taken = <<>>
    /\ proc[p].pc \in {"none", "asleep", "waiting"} => proc[p].tokens = 0
    /\ proc[p].pc \in {"asleep", "titling", "over"} => KindOf(p) = "chat"
    /\ KindOf(p) # "chat" => proc[p].taken = <<>>
    /\ KindOf(p) = "chat" /\ answer[p].end = "unsent" => proc[p].pc = "none"
    /\ KindOf(p) = "chat" /\ proc[p].pc \in {"waiting", "asking", "titling"} => proc[p].taken # <<>>

LEMMA AnswersStay ==
    ASSUME TypeOK, [Next]_vars, NEW r \in Requests, answer'[r].end = "unsent"
    PROVE  answer[r].end = "unsent"
<1> USE DEF Ended
<1>0. answer \in [Requests -> Answers]
  BY DEF TypeOK
<1>1. CASE UNCHANGED answer
  BY <1>1
<1>2. ASSUME NEW q \in Requests, Submit(q) PROVE answer[r].end = "unsent"
  BY <1>0, <1>2 DEF Submit, Answers
<1>3. ASSUME NEW q \in Requests, CancelOne(q) PROVE answer[r].end = "unsent"
  BY <1>0, <1>3 DEF CancelOne, Answers
<1>4. ASSUME NEW s \in Sessions, CancelAll(s) PROVE answer[r].end = "unsent"
  BY <1>0, <1>4 DEF CancelAll, Answers
<1>5. ASSUME NEW p \in Requests, Replay(p) PROVE answer[r].end = "unsent"
  BY <1>0, <1>5 DEF Replay, Answers
<1>6. ASSUME NEW p \in Requests, Begin(p) PROVE answer[r].end = "unsent"
  <2>1. \/ answer' = answer
        \/ answer' = [q \in Requests |-> IF q \in ToSet(proc[p].taken)
                                         THEN [answer[q] EXCEPT !.of = p] ELSE answer[q]]
    BY <1>6 DEF Begin
  <2>2. answer'[r].end = answer[r].end
    BY <1>0, <2>1 DEF Answers
  <2> QED BY <2>2
<1>7. ASSUME NEW p \in Requests, NEW e \in {"done", "error"}, Close(p, e)
      PROVE  answer[r].end = "unsent"
  BY <1>0, <1>7 DEF Close, Answers
<1>8. ASSUME NEW p \in Requests, Work(p) PROVE answer[r].end = "unsent"
  BY <1>1, <1>5, <1>6, <1>7, <1>8 DEF Work, Wake, Titled, Cleared, FinishOther, Finish
<1>9. ASSUME NEW p \in Requests, Arrive(p) \/ SelfRestart(p) \/ Token(p) \/ Retry(p) \/ RecordThenTitle(p)
      PROVE  answer[r].end = "unsent"
  BY <1>1, <1>9 DEF Arrive, SelfRestart, Token, Retry, RecordThenTitle
<1>10. ASSUME NEW s \in Sessions, Subscribe(s) \/ Unsubscribe(s) PROVE answer[r].end = "unsent"
  BY <1>1, <1>10 DEF Subscribe, Unsubscribe
<1>11. CASE Drained \/ DrainTimeout \/ Shutdown \/ UNCHANGED vars
  BY <1>1, <1>11 DEF Drained, DrainTimeout, Shutdown, vars
<1> QED BY <1>2, <1>3, <1>4, <1>8, <1>9, <1>10, <1>11 DEF Next

LEMMA LivesKept ==
    ASSUME TypeOK, LockInv, LifeInv, [Next]_vars
    PROVE  LifeInv'
<1>0. \A p \in Requests : Living(p)
  BY DEF LifeInv, Living
<1>1. cast' = cast /\ \A q : KindOf(q)' = KindOf(q)
  <2>1. cast' = cast
    BY DEF Next, Work, vars, Submit, Arrive, CancelOne, SelfRestart, Wake, Replay, Begin, Titled,
           Cleared, FinishOther, Finish, Close, Token, Retry, RecordThenTitle, CancelAll, Subscribe,
           Unsubscribe, Drained, DrainTimeout, Shutdown
  <2> QED BY <2>1 DEF KindOf
<1>2. ASSUME NEW p \in Requests, proc'[p] = proc[p] PROVE Living(p)'
  BY <1>0, <1>1, <1>2, AnswersStay DEF Living
<1>3. CASE proc' = proc
  BY <1>2, <1>3 DEF LifeInv, Living
<1>4. ASSUME NEW p \in Requests, NEW c, NEW t, NEW k, NEW n, Goes(p, c, t, k, n), Living(p)'
      PROVE  LifeInv'
  <2>1. ASSUME NEW q \in Requests PROVE Living(q)'
    BY <1>2, <1>4 DEF Goes
  <2> QED BY <2>1 DEF LifeInv, Living
<1>5. ASSUME NEW p \in Requests, Submit(p) PROVE LifeInv'
  <2>1. proc' = proc \/ GoesTo(p, "asleep")
    BY <1>5, ProcSteps
  <2>2. proc[p].pc = "none" /\ KindOf(p) = "chat" /\ answer'[p].end = "open"
    BY <1>0, <1>5 DEF Submit, Living, TypeOK, Answers
  <2>3. CASE GoesTo(p, "asleep")
    <3>1. Living(p)'
      BY <1>0, <1>1, <2>2, <2>3 DEF Living, GoesTo, Goes
    <3> QED BY <1>4, <2>3, <3>1 DEF GoesTo
  <2> QED BY <1>3, <2>1, <2>3
<1>6. ASSUME NEW p \in Requests, Arrive(p) PROVE LifeInv'
  <2>1. GoesTo(p, "waiting") /\ KindOf(p) # "chat" /\ proc[p].pc = "none"
    BY <1>6, ProcSteps DEF Arrive
  <2>2. Living(p)'
    BY <1>0, <1>1, <2>1 DEF Living, GoesTo, Goes
  <2> QED BY <1>4, <2>1, <2>2 DEF GoesTo
<1>7. ASSUME NEW p \in Requests, Wake(p) PROVE LifeInv'
  <2>0. proc[p].pc = "asleep" /\ KindOf(p) = "chat" /\ answer'[p].end # "unsent"
    BY <1>0, <1>7, AnswersStay DEF Wake, Living
  <2>1. CASE batch[SessionOf(p)] = <<>>
    <3>1. GoesTo(p, "over")
      BY <1>7, <2>1, ProcSteps
    <3>2. Living(p)'
      BY <1>0, <1>1, <2>0, <3>1 DEF Living, GoesTo, Goes
    <3> QED BY <1>4, <3>1, <3>2 DEF GoesTo
  <2>2. CASE batch[SessionOf(p)] # <<>>
    <3>1. Goes(p, "waiting", batch[SessionOf(p)], proc[p].tokens, proc[p].seen)
      BY <1>7, <2>2, ProcSteps
    <3>2. Living(p)'
      BY <1>0, <1>1, <2>0, <2>2, <3>1 DEF Living, Goes
    <3> QED BY <1>4, <3>1, <3>2
  <2> QED BY <2>1, <2>2
<1>8. ASSUME NEW p \in Requests, NEW c \in {"over", "gone", "asking", "titling"}, NEW k, NEW n,
             Goes(p, c, proc[p].taken, k, n), proc[p].pc \in {"waiting", "asking", "titling", "over"},
             c \in {"titling", "over"} => KindOf(p) = "chat",
             c \in {"asking", "titling"} => proc[p].pc # "over"
      PROVE  LifeInv'
  <2>1. answer'[p].end = "unsent" => KindOf(p) # "chat"
    BY <1>0, <1>8, AnswersStay DEF Living
  <2>2. Living(p)'
    BY <1>0, <1>1, <1>8, <2>1 DEF Living, Goes
  <2> QED BY <1>4, <1>8, <2>2
<1>9. ASSUME NEW p \in Requests, Replay(p) \/ Titled(p) \/ \E e \in {"done", "error"} : Finish(p, e)
      PROVE  LifeInv'
  <2>1. GoesTo(p, "over") /\ proc[p].pc \in {"waiting", "asking", "titling"} /\ KindOf(p) = "chat"
    BY <1>0, <1>9, ProcSteps DEF Replay, Holds, Titled, Finish, Living
  <2> QED BY <1>8, <2>1 DEF GoesTo
<1>10. ASSUME NEW p \in Requests, FinishOther(p) \/ Cleared(p) PROVE LifeInv'
  <2>1. GoesTo(p, "gone") /\ proc[p].pc \in {"asking", "over"}
    BY <1>10, ProcSteps DEF FinishOther, Cleared
  <2> QED BY <1>8, <2>1 DEF GoesTo
<1>11. ASSUME NEW p \in Requests, Begin(p) PROVE LifeInv'
  BY <1>8, <1>11, ProcSteps DEF Begin, Holds
<1>12. ASSUME NEW p \in Requests, Token(p) PROVE LifeInv'
  BY <1>8, <1>12, ProcSteps DEF Token
<1>13. ASSUME NEW p \in Requests, Retry(p) PROVE LifeInv'
  BY <1>8, <1>13, ProcSteps DEF Retry, GoesTo
<1>14. ASSUME NEW p \in Requests, RecordThenTitle(p) PROVE LifeInv'
  BY <1>8, <1>14, ProcSteps DEF RecordThenTitle, GoesTo
<1>15. CASE Shutdown
  <2>1. ASSUME NEW p \in Requests PROVE Living(p)'
    BY <1>15 DEF Living, Shutdown, Unborn
  <2> QED BY <2>1 DEF LifeInv, Living
<1>16. ASSUME NEW r \in Requests, CancelOne(r) \/ SelfRestart(r) PROVE LifeInv'
  BY <1>3, <1>16 DEF CancelOne, SelfRestart
<1>17. ASSUME NEW s \in Sessions, CancelAll(s) \/ Subscribe(s) \/ Unsubscribe(s) PROVE LifeInv'
  BY <1>3, <1>17 DEF CancelAll, Subscribe, Unsubscribe
<1>18. CASE Drained \/ DrainTimeout \/ UNCHANGED vars
  BY <1>3, <1>18 DEF Drained, DrainTimeout, vars
<1> QED BY <1>5, <1>6, <1>7, <1>9, <1>10, <1>11, <1>12, <1>13, <1>14, <1>15, <1>16, <1>17, <1>18
        DEF Next, Work

LEMMA CastKept ==
    ASSUME [Next]_vars PROVE cast' = cast
BY DEF Next, Work, vars, Submit, Arrive, CancelOne, SelfRestart, Wake, Replay, Begin, Titled, Cleared,
       FinishOther, Finish, Close, Token, Retry, RecordThenTitle, CancelAll, Subscribe, Unsubscribe,
       Drained, DrainTimeout, Shutdown

(* The turns of a lock key follow each other.                              *)
LEMMA OneTurnPerLock == LockInv => OneAtATime
BY DEF LockInv, OneAtATime

LEMMA SeenKept ==
    ASSUME TypeOK, LockInv, LifeInv, RecordedOnWhatItRead, [Next]_vars
    PROVE  RecordedOnWhatItRead'
<1> DEFINE Read(p) == proc[p].pc = "asking" /\ OneLock(SessionOf(p))
                         => proc[p].seen = Len(hist[SessionOf(p)])
<1>0. cast' = cast /\ \A q \in Requests : SessionOf(q)' = SessionOf(q) /\ SessionOf(q) \in Sessions
  BY CastKept, CastFacts DEF TypeOK, SessionOf
<1>22. \A s \in Sessions : OneLock(s)' <=> OneLock(s)
  BY <1>0 DEF OneLock, SessionOf, LockOf
<1>1. \A p \in Requests : Read(p)
  BY DEF RecordedOnWhatItRead
<1>2. SUFFICES ASSUME NEW p \in Requests, proc'[p].pc = "asking", OneLock(SessionOf(p))
               PROVE  proc'[p].seen = Len(hist'[SessionOf(p)])
  BY <1>0, <1>22 DEF RecordedOnWhatItRead
<1>3. CASE proc[p].pc = "asking" /\ proc'[p].seen = proc[p].seen /\ hist'[SessionOf(p)] = hist[SessionOf(p)]
  BY <1>1, <1>2, <1>3
<1>4. CASE proc' = proc /\ hist' = hist
  BY <1>2, <1>3, <1>4
<1>5. ASSUME NEW q \in Requests, NEW c, NEW t, NEW k, Goes(q, c, t, k, proc[q].seen),
             proc[q].pc = "asking" \/ c # "asking", hist' = hist
      PROVE  proc'[p].seen = Len(hist'[SessionOf(p)])
  BY <1>2, <1>3, <1>5 DEF Goes
<1>6. ASSUME NEW q \in Requests, Running(q), NEW c \in {"over", "gone", "titling"}, GoesTo(q, c),
             \/ hist' = hist
             \/ hist' = [hist EXCEPT ![SessionOf(q)] = Append(@, q)]
      PROVE  proc'[p].seen = Len(hist'[SessionOf(p)])
  <2>1. q # p /\ proc'[p] = proc[p] /\ Running(p)
    BY <1>2, <1>6 DEF GoesTo, Goes, Running
  <2>2. LockOf(q) # LockOf(p)
    BY <1>6, <2>1, OneTurnPerLock DEF OneAtATime
  <2>3. SessionOf(q) # SessionOf(p)
    BY <1>2, <2>2 DEF OneLock
  <2>4. hist'[SessionOf(p)] = hist[SessionOf(p)]
    BY <1>0, <1>6, <2>3 DEF TypeOK
  <2> QED BY <1>2, <1>3, <2>1, <2>4
<1>7. ASSUME NEW q \in Requests, Submit(q) PROVE proc'[p].seen = Len(hist'[SessionOf(p)])
  <2>1. hist' = hist /\ (proc' = proc \/ GoesTo(q, "asleep"))
    BY <1>7, ProcSteps DEF Submit
  <2> QED BY <1>4, <1>5, <2>1 DEF GoesTo
<1>8. ASSUME NEW q \in Requests, NEW c \in {"waiting", "over", "gone"}, GoesTo(q, c), hist' = hist
      PROVE  proc'[p].seen = Len(hist'[SessionOf(p)])
  BY <1>5, <1>8 DEF GoesTo
<1>9. ASSUME NEW q \in Requests, Arrive(q) \/ Replay(q) \/ Cleared(q)
      PROVE  proc'[p].seen = Len(hist'[SessionOf(p)])
  BY <1>8, <1>9, ProcSteps DEF Arrive, Replay, Cleared
<1>10. ASSUME NEW q \in Requests, Wake(q) PROVE proc'[p].seen = Len(hist'[SessionOf(p)])
  <2>1. hist' = hist
    BY <1>10 DEF Wake
  <2>2. CASE batch[SessionOf(q)] = <<>>
    BY <1>8, <1>10, <2>1, <2>2, ProcSteps
  <2>3. CASE batch[SessionOf(q)] # <<>>
    BY <1>5, <1>10, <2>1, <2>3, ProcSteps
  <2> QED BY <2>2, <2>3
<1>11. ASSUME NEW q \in Requests, Begin(q) PROVE proc'[p].seen = Len(hist'[SessionOf(p)])
  <2>1. hist' = hist /\ Goes(q, "asking", proc[q].taken, proc[q].tokens, Len(hist[SessionOf(q)]))
    BY <1>11, ProcSteps DEF Begin
  <2>2. CASE q = p
    BY <2>1, <2>2 DEF Goes
  <2>3. CASE q # p
    BY <1>2, <1>3, <2>1, <2>3 DEF Goes
  <2> QED BY <2>2, <2>3
<1>12. ASSUME NEW q \in Requests, Token(q) \/ Retry(q) PROVE proc'[p].seen = Len(hist'[SessionOf(p)])
  <2>1. hist' = hist /\ proc[q].pc = "asking"
    BY <1>12 DEF Token, Retry
  <2>2. \/ Goes(q, "asking", proc[q].taken, proc[q].tokens + 1, proc[q].seen)
        \/ GoesTo(q, "asking")
    BY <1>12, ProcSteps
  <2> QED BY <1>5, <2>1, <2>2 DEF GoesTo
<1>13. ASSUME NEW q \in Requests, RecordThenTitle(q) PROVE proc'[p].seen = Len(hist'[SessionOf(p)])
  <2>1. Running(q) /\ hist' = [hist EXCEPT ![SessionOf(q)] = Append(@, q)]
    BY <1>13 DEF RecordThenTitle, Running
  <2> QED BY <1>6, <1>13, <2>1, ProcSteps
<1>14. ASSUME NEW q \in Requests, Titled(q) PROVE proc'[p].seen = Len(hist'[SessionOf(p)])
  <2>1. Running(q) /\ hist' = hist
    BY <1>14 DEF Titled, Running
  <2> QED BY <1>6, <1>14, <2>1, ProcSteps
<1>15. ASSUME NEW q \in Requests, NEW e \in {"done", "error"}, Finish(q, e)
       PROVE  proc'[p].seen = Len(hist'[SessionOf(p)])
  <2>1. Running(q) /\ hist' = [hist EXCEPT ![SessionOf(q)] = Append(@, q)]
    BY <1>15 DEF Finish, Running
  <2> QED BY <1>6, <1>15, <2>1, ProcSteps
<1>16. ASSUME NEW q \in Requests, FinishOther(q) PROVE proc'[p].seen = Len(hist'[SessionOf(p)])
  <2>1. Running(q) /\ (hist' = hist \/ hist' = [hist EXCEPT ![SessionOf(q)] = Append(@, q)])
    BY <1>16 DEF FinishOther, Running
  <2> QED BY <1>6, <1>16, <2>1, ProcSteps
<1>17. CASE Shutdown
  BY <1>2, <1>17 DEF Shutdown, Unborn
<1>18. ASSUME NEW r \in Requests, CancelOne(r) \/ SelfRestart(r) PROVE proc'[p].seen = Len(hist'[SessionOf(p)])
  BY <1>4, <1>18 DEF CancelOne, SelfRestart
<1>19. ASSUME NEW x \in Sessions, CancelAll(x) \/ Subscribe(x) \/ Unsubscribe(x)
       PROVE  proc'[p].seen = Len(hist'[SessionOf(p)])
  BY <1>4, <1>19 DEF CancelAll, Subscribe, Unsubscribe
<1>20. CASE Drained \/ DrainTimeout \/ UNCHANGED vars
  BY <1>4, <1>20 DEF Drained, DrainTimeout, vars
<1>21. proc'[p].seen = Len(hist'[SessionOf(p)])
  BY <1>7, <1>9, <1>10, <1>11, <1>12, <1>13, <1>14, <1>15, <1>16, <1>17, <1>18, <1>19, <1>20
     DEF Next, Work
<1> QED BY <1>21

-----------------------------------------------------------------------------
(* The marks of the sessions and the drain gate.                           *)
LEMMA MarksKept ==
    ASSUME TypeOK, LifeInv, MarkInv, [Next]_vars
    PROVE  MarkInv'
<1> DEFINE Chat(p, x) == KindOf(p) = "chat" /\ SessionOf(p) = x
           Alive == AtWorkPcs \cup {"over"}
<1>0. cast' = cast /\ \A q \in Requests : /\ SessionOf(q)' = SessionOf(q) /\ KindOf(q)' = KindOf(q)
                                          /\ SessionOf(q) \in Sessions
  BY CastKept, CastFacts DEF TypeOK, SessionOf, KindOf
<1>1. ASSUME busy' = busy, early' = early,
             \A q \in Requests : KindOf(q) = "chat" =>
                /\ proc'[q].pc \in AtWorkPcs => proc[q].pc \in AtWorkPcs
                /\ proc[q].pc \in Alive => proc'[q].pc \in Alive
      PROVE  MarkInv'
  BY <1>0, <1>1 DEF MarkInv, AtWork, AtWorkPcs
<1>2. CASE UNCHANGED <<proc, busy, early>>
  BY <1>1, <1>2
<1>3. ASSUME NEW p \in Requests, NEW c \in AtWorkPcs \cup {"over"}, NEW t, NEW k, NEW n,
             Goes(p, c, t, k, n), proc[p].pc \in AtWorkPcs, busy' = busy, early' = early
      PROVE  MarkInv'
  BY <1>1, <1>3 DEF Goes
<1>4. ASSUME NEW p \in Requests, NEW c \in Pcs, GoesTo(p, c), KindOf(p) # "chat",
             busy' = busy, early' = early
      PROVE  MarkInv'
  BY <1>1, <1>4 DEF GoesTo, Goes
<1>5. ASSUME NEW p \in Requests, Submit(p) PROVE MarkInv'
  <2>1. CASE batch[SessionOf(p)] # <<>>
    BY <1>2, <1>5, <2>1 DEF Submit
  <2>2. CASE batch[SessionOf(p)] = <<>>
    <3>1. /\ proc' = [proc EXCEPT ![p].pc = "asleep"] /\ KindOf(p) = "chat"
          /\ busy' = busy \cup {SessionOf(p)} /\ early' = early
      BY <1>5, <2>2 DEF Submit
    <3>2. GoesTo(p, "asleep")
      BY <3>1, PcChanged
    <3> QED BY <1>0, <3>1, <3>2 DEF MarkInv, AtWork, AtWorkPcs, GoesTo, Goes
  <2> QED BY <2>1, <2>2
<1>6. ASSUME NEW p \in Requests, Arrive(p) PROVE MarkInv'
  BY <1>4, <1>6, ProcSteps DEF Arrive, Pcs
<1>7. ASSUME NEW p \in Requests, FinishOther(p) PROVE MarkInv'
  BY <1>4, <1>7, ProcSteps DEF FinishOther, Pcs
<1>8. ASSUME NEW p \in Requests, Wake(p) PROVE MarkInv'
  <2>1. proc[p].pc \in AtWorkPcs /\ busy' = busy /\ early' = early
    BY <1>8 DEF Wake, AtWorkPcs
  <2>2. CASE batch[SessionOf(p)] = <<>>
    BY <1>3, <1>8, <2>1, <2>2, ProcSteps DEF GoesTo
  <2>3. CASE batch[SessionOf(p)] # <<>>
    BY <1>3, <1>8, <2>1, <2>3, ProcSteps DEF AtWorkPcs
  <2> QED BY <2>2, <2>3
<1>9. ASSUME NEW p \in Requests, Replay(p) \/ Titled(p) \/ \E e \in {"done", "error"} : Finish(p, e)
      PROVE  MarkInv'
  <2>1. proc[p].pc \in AtWorkPcs /\ busy' = busy /\ early' = early
    BY <1>9 DEF Replay, Holds, Titled, Finish, Close, AtWorkPcs
  <2>2. GoesTo(p, "over")
    BY <1>9, ProcSteps
  <2> QED BY <1>3, <2>1, <2>2 DEF GoesTo
<1>10. ASSUME NEW p \in Requests, Begin(p) PROVE MarkInv'
  <2>1. proc[p].pc \in AtWorkPcs /\ busy' = busy /\ early' = early
    BY <1>10 DEF Begin, Holds, AtWorkPcs
  <2>2. Goes(p, "asking", proc[p].taken, proc[p].tokens, Len(hist[SessionOf(p)]))
    BY <1>10, ProcSteps
  <2> QED BY <1>3, <2>1, <2>2 DEF AtWorkPcs
<1>11. ASSUME NEW p \in Requests, Token(p) \/ Retry(p) \/ RecordThenTitle(p) PROVE MarkInv'
  <2>1. proc[p].pc \in AtWorkPcs /\ busy' = busy /\ early' = early
    BY <1>11 DEF Token, Retry, RecordThenTitle, AtWorkPcs
  <2>2. \/ Goes(p, "asking", proc[p].taken, proc[p].tokens + 1, proc[p].seen)
        \/ GoesTo(p, "asking") \/ GoesTo(p, "titling")
    BY <1>11, ProcSteps
  <2> QED BY <1>3, <2>1, <2>2 DEF GoesTo, AtWorkPcs
<1>12. ASSUME NEW p \in Requests, Cleared(p) PROVE MarkInv'
  <2> DEFINE x == SessionOf(p)
  <2>1. /\ GoesTo(p, "gone") /\ proc[p].pc = "over" /\ KindOf(p) = "chat"
        /\ busy' = busy \ {x} /\ early \subseteq early'
        /\ (\E q \in Requests \ {p} : AtWork(q) /\ KindOf(q) = "chat" /\ SessionOf(q) = x) => x \in early'
    BY <1>12, ProcSteps DEF Cleared, LifeInv
  <2>2. ASSUME NEW q \in Requests, KindOf(q) = "chat", proc'[q].pc \in AtWorkPcs
        PROVE  SessionOf(q) \in busy' \cup early'
    <3>1. q # p /\ AtWork(q)
      BY <2>1, <2>2 DEF GoesTo, Goes, AtWork, AtWorkPcs
    <3> QED BY <2>1, <2>2, <3>1 DEF MarkInv
  <2>3. ASSUME NEW y \in busy'
        PROVE  \E q \in Requests : Chat(q, y) /\ proc'[q].pc \in Alive
    <3>1. PICK q \in Requests : Chat(q, y) /\ proc[q].pc \in Alive
      BY <2>1 DEF MarkInv
    <3> QED BY <2>1, <3>1 DEF GoesTo, Goes
  <2> QED BY <1>0, <2>2, <2>3 DEF MarkInv, AtWork, AtWorkPcs
<1>13. CASE Shutdown
  BY <1>13 DEF Shutdown, Unborn, MarkInv, AtWork
<1>14. ASSUME NEW r \in Requests, CancelOne(r) \/ SelfRestart(r) PROVE MarkInv'
  BY <1>2, <1>14 DEF CancelOne, SelfRestart
<1>15. ASSUME NEW x \in Sessions, CancelAll(x) \/ Subscribe(x) \/ Unsubscribe(x) PROVE MarkInv'
  BY <1>2, <1>15 DEF CancelAll, Subscribe, Unsubscribe
<1>16. CASE Drained \/ DrainTimeout \/ UNCHANGED vars
  BY <1>2, <1>16 DEF Drained, DrainTimeout, vars
<1> QED BY <1>5, <1>6, <1>7, <1>8, <1>9, <1>10, <1>11, <1>12, <1>13, <1>14, <1>15, <1>16
        DEF Next, Work

LEMMA TwoElements ==
    ASSUME NEW a, NEW b, a # b
    PROVE  Cardinality({a, b}) = 2
<1>1. IsFiniteSet({a}) /\ Cardinality({a}) = 1
  BY FS_Singleton
<1>2. Cardinality({a} \cup {b}) = Cardinality({a}) + 1
  BY <1>1, FS_AddElement
<1>3. {a, b} = {a} \cup {b}
  OBVIOUS
<1> QED BY <1>1, <1>2, <1>3

(* A counted turn is in flight, and turns of two sessions, or a reaction   *)
(* and another turn, count for two.                                        *)
BusySessions == {s \in Sessions : IsBusy(s)}
Reacting == {p \in Requests : KindOf(p) = "reaction" /\ proc[p].pc = "asking"}

LEMMA InflightCounts ==
    ASSUME TypeOK, NEW A, NEW B, A \subseteq BusySessions, B \subseteq Reacting
    PROVE  IsFiniteSet(A) /\ IsFiniteSet(B) /\ Cardinality(A) + Cardinality(B) <= Inflight
<1>1. IsFiniteSet(BusySessions) /\ IsFiniteSet(Reacting)
  BY ChatConstants, FS_Subset DEF BusySessions, Reacting
<1>2. /\ IsFiniteSet(A) /\ Cardinality(A) <= Cardinality(BusySessions)
      /\ IsFiniteSet(B) /\ Cardinality(B) <= Cardinality(Reacting)
  BY <1>1, FS_Subset
<1>3. /\ Cardinality(A) \in Nat /\ Cardinality(BusySessions) \in Nat
      /\ Cardinality(B) \in Nat /\ Cardinality(Reacting) \in Nat
  BY <1>1, <1>2, FS_CardinalityType
<1>4. Inflight = Cardinality(BusySessions) + Cardinality(Reacting)
  BY DEF Inflight, BusySessions, Reacting
<1> QED BY <1>2, <1>3, <1>4

LEMMA CountedIsInFlight ==
    ASSUME TypeOK, LifeInv, MarkInv, NEW p \in Requests, Counted(p)
    PROVE  \/ KindOf(p) = "chat" /\ SessionOf(p) \in BusySessions
           \/ KindOf(p) = "reaction" /\ p \in Reacting
<1>1. SessionOf(p) \in Sessions /\ KindOf(p) \in {"chat", "reaction"} /\ Running(p)
  BY CastFacts DEF TypeOK, Counted
<1>2. CASE KindOf(p) = "chat"
  BY <1>1, <1>2 DEF Counted, MarkInv, AtWork, Running, BusySessions, IsBusy
<1>3. CASE KindOf(p) = "reaction"
  BY <1>1, <1>3 DEF LifeInv, Running, Reacting
<1> QED BY <1>1, <1>2, <1>3

LEMMA RestartIsGated ==
    ASSUME TypeOK, LifeInv, MarkInv, [Next]_vars, Issues, asker' # None
    PROVE  LET running == {p \in Requests : Counted(p)} IN
           \/ restart = "deferred" /\ running = {}
           \/ restart = "no" /\ asker' \notin running
           \/ restart = "no" /\ \A p \in running : SessionOf(p) = SessionOf(asker')
<1>1. CASE Drained
  <2>1. ASSUME NEW p \in Requests, Counted(p) PROVE FALSE
    <3>1. CASE KindOf(p) = "chat" /\ SessionOf(p) \in BusySessions
      <4>1. {SessionOf(p)} \subseteq BusySessions /\ Cardinality({SessionOf(p)}) = 1
        BY <3>1, FS_Singleton
      <4>2. 1 + 0 <= Inflight
        BY <4>1, InflightCounts, FS_EmptySet
      <4> QED BY <1>1, <4>2 DEF Drained
    <3>2. CASE KindOf(p) = "reaction" /\ p \in Reacting
      <4>1. {p} \subseteq Reacting /\ Cardinality({p}) = 1
        BY <3>2, FS_Singleton
      <4>2. 0 + 1 <= Inflight
        BY <4>1, InflightCounts, FS_EmptySet
      <4> QED BY <1>1, <4>2 DEF Drained
    <3> QED BY <2>1, <3>1, <3>2, CountedIsInFlight
  <2> QED BY <1>1, <2>1 DEF Drained
<1>2. ASSUME NEW p \in Requests, SelfRestart(p)
      PROVE  /\ restart = "no" /\ asker' = p
             /\ ~Counted(p) \/ \A q \in Requests : Counted(q) => SessionOf(q) = SessionOf(p)
  <2>1. restart = "no" /\ asker' = p /\ Gate(p)
    BY <1>2 DEF SelfRestart, Issues
  <2>2. Inflight \in Nat /\ Inflight <= 1
    <3>1. IsFiniteSet(BusySessions) /\ IsFiniteSet(Reacting)
      BY InflightCounts
    <3>2. Inflight \in Nat
      BY <3>1, FS_CardinalityType DEF Inflight, BusySessions, Reacting
    <3> QED BY <2>1, <3>2 DEF Gate
  <2>3. ASSUME Counted(p), NEW q \in Requests, Counted(q), SessionOf(q) # SessionOf(p) PROVE FALSE
    <3>1. p # q
      BY <2>3
    <3>2. CASE KindOf(p) = "chat" /\ KindOf(q) = "chat"
      <4>1. {SessionOf(p), SessionOf(q)} \subseteq BusySessions
        BY <2>3, <3>2, CountedIsInFlight
      <4>2. Cardinality({SessionOf(p), SessionOf(q)}) = 2
        BY <2>3, TwoElements
      <4> QED BY <2>2, <4>1, <4>2, InflightCounts, FS_EmptySet
    <3>3. CASE KindOf(p) = "reaction" /\ KindOf(q) = "reaction"
      <4>1. {p, q} \subseteq Reacting
        BY <2>3, <3>3, CountedIsInFlight
      <4>2. Cardinality({p, q}) = 2
        BY <3>1, TwoElements
      <4> QED BY <2>2, <4>1, <4>2, InflightCounts, FS_EmptySet
    <3>4. ASSUME NEW a \in Requests, NEW b \in Requests, Counted(a), Counted(b),
                 KindOf(a) = "chat", KindOf(b) = "reaction"
          PROVE  FALSE
      <4>1. {SessionOf(a)} \subseteq BusySessions /\ {b} \subseteq Reacting
        BY <3>4, CountedIsInFlight
      <4>2. Cardinality({SessionOf(a)}) = 1 /\ Cardinality({b}) = 1
        BY FS_Singleton
      <4> QED BY <2>2, <4>1, <4>2, InflightCounts
    <3> QED BY <2>3, <3>2, <3>3, <3>4, CountedIsInFlight
  <2> QED BY <2>1, <2>3
<1>3. \/ Drained
      \/ \E p \in Requests : SelfRestart(p)
  <2>1. restart' # restart /\ restart' = "issued"
    BY DEF Issues
  <2>2. ~DrainTimeout
    BY DEF DrainTimeout
  <2> QED BY ZenonT(60), <2>1, <2>2 DEF Next, Work, vars, gateVars, Submit, Arrive, CancelOne, Wake, Replay, Begin,
        Titled, Cleared, FinishOther, Finish, Close, Token, Retry, RecordThenTitle, CancelAll,
        Subscribe, Unsubscribe, Shutdown
<1> QED BY <1>1, <1>2, <1>3

-----------------------------------------------------------------------------
(* The messages: in the batch, taken, or answered.                         *)

LEMMA SetOfAppend ==
    ASSUME NEW S, NEW q \in Seq(S), NEW e
    PROVE  /\ ToSet(Append(q, e)) = ToSet(q) \cup {e}
           /\ Distinct(q) /\ e \notin ToSet(q) => Distinct(Append(q, e))
<1>1. /\ DOMAIN Append(q, e) = 1..(Len(q) + 1) /\ DOMAIN q = 1..Len(q) /\ Len(q) \in Nat
      /\ \A i \in 1..Len(q) : Append(q, e)[i] = q[i]
      /\ Append(q, e)[Len(q) + 1] = e
  OBVIOUS
<1>2. ToSet(Append(q, e)) = ToSet(q) \cup {e}
  <2>1. ASSUME NEW x \in ToSet(Append(q, e)) PROVE x \in ToSet(q) \cup {e}
    BY <1>1, <2>1 DEF ToSet
  <2>2. ASSUME NEW x \in ToSet(q) PROVE x \in ToSet(Append(q, e))
    <3>1. PICK i \in 1..Len(q) : q[i] = x
      BY <1>1 DEF ToSet
    <3>2. i \in DOMAIN Append(q, e) /\ Append(q, e)[i] = x
      BY <1>1, <3>1
    <3> QED BY <3>2 DEF ToSet
  <2>3. e \in ToSet(Append(q, e))
    <3>1. Len(q) + 1 \in DOMAIN Append(q, e)
      BY <1>1
    <3> QED BY <1>1, <3>1 DEF ToSet
  <2> QED BY <2>1, <2>2, <2>3
<1>3. ASSUME Distinct(q), e \notin ToSet(q) PROVE Distinct(Append(q, e))
  <2>1. \A i \in 1..Len(q) : q[i] # e
    BY <1>1, <1>3 DEF ToSet
  <2> QED BY <1>1, <1>3, <2>1 DEF Distinct
<1> QED BY <1>2, <1>3

LEMMA SetOfRemove ==
    ASSUME NEW S, NEW q \in Seq(S), Distinct(q), NEW i \in DOMAIN q
    PROVE  ToSet(RemoveAt(q, i)) = ToSet(q) \ {q[i]} /\ Distinct(RemoveAt(q, i))
<1> DEFINE z == RemoveAt(q, i)
           n == Len(q)
<1>1. /\ n \in Nat /\ DOMAIN q = 1..n /\ i \in 1..n /\ DOMAIN z = 1..(n - 1)
      /\ \A j \in 1..(n - 1) : z[j] = IF j < i THEN q[j] ELSE q[j + 1]
  BY RemoveFacts
<1> HIDE DEF z, n
<1>2. ASSUME NEW j \in DOMAIN z
      PROVE  \E m \in DOMAIN q : /\ m = (IF j < i THEN j ELSE j + 1)
                                 /\ m # i /\ z[j] = q[m] /\ q[m] # q[i]
  <2>1. CASE j < i
    <3>1. j \in DOMAIN q /\ j # i
      BY <1>1, <2>1
    <3> QED BY <1>1, <2>1, <3>1 DEF Distinct
  <2>2. CASE ~(j < i)
    <3>1. j + 1 \in DOMAIN q /\ j + 1 # i
      BY <1>1, <2>2
    <3> QED BY <1>1, <2>2, <3>1 DEF Distinct
  <2> QED BY <2>1, <2>2
<1>3. ASSUME NEW m \in DOMAIN q, m # i PROVE q[m] \in ToSet(z)
  <2>1. CASE m < i
    <3>1. m \in DOMAIN z /\ z[m] = q[m]
      BY <1>1, <2>1
    <3> QED BY <3>1 DEF ToSet
  <2>2. CASE m > i
    <3>1. m - 1 \in DOMAIN z /\ ~(m - 1 < i) /\ (m - 1) + 1 = m
      BY <1>1, <2>2
    <3>2. z[m - 1] = q[m]
      BY <1>1, <3>1
    <3> QED BY <3>1, <3>2 DEF ToSet
  <2> QED BY <1>1, <1>3, <2>1, <2>2
<1>4. ToSet(z) = ToSet(q) \ {q[i]}
  <2>1. ToSet(z) \subseteq ToSet(q) \ {q[i]}
    BY <1>2 DEF ToSet
  <2>2. ToSet(q) \ {q[i]} \subseteq ToSet(z)
    BY <1>3 DEF ToSet
  <2> QED BY <2>1, <2>2
<1>5. ASSUME NEW j \in DOMAIN z, NEW k \in DOMAIN z, z[j] = z[k] PROVE j = k
  <2>1. (IF j < i THEN j ELSE j + 1) = (IF k < i THEN k ELSE k + 1)
    BY <1>2, <1>5 DEF Distinct
  <2>2. j \in Nat /\ k \in Nat /\ i \in Nat
    BY <1>1
  <2> QED BY <2>1, <2>2
<1> QED BY <1>4, <1>5 DEF Distinct, z

LEMMA UpKept ==
    ASSUME [Next]_vars, Up' PROVE Up
BY ZenonT(60) DEF Up, Next, Work, vars, gateVars, Submit, Arrive, CancelOne, SelfRestart, Wake, Replay, Begin, Titled,
       Cleared, FinishOther, Finish, Close, Token, Retry, RecordThenTitle, CancelAll, Subscribe,
       Unsubscribe, Drained, DrainTimeout, Shutdown

LEMMA MailKept ==
    ASSUME TypeOK, LifeInv, MailInv, [Next]_vars
    PROVE  MailInv'
<1> DEFINE W(s) == ToSet(batch[s])
           T(p) == ToSet(proc[p].taken)
           Open(r) == answer[r].end = "open"
<1>0. cast' = cast /\ \A q : SessionOf(q)' = SessionOf(q) /\ KindOf(q)' = KindOf(q)
  BY CastKept DEF SessionOf, KindOf
<1>1. /\ batch \in [Sessions -> Seq(Requests)] /\ answer \in [Requests -> Answers]
      /\ \A q \in Requests : SessionOf(q) \in Sessions
      /\ \A s \in Sessions : W(s) \subseteq Requests
      /\ \A q \in Requests : T(q) \subseteq Requests
  <2>1. \A q \in Requests : SessionOf(q) \in Sessions
    BY CastFacts DEF TypeOK
  <2>2. \A q \in Requests : proc[q].taken \in Seq(Requests)
    BY DEF TypeOK, Processors
  <2> QED BY <2>1, <2>2 DEF TypeOK, ToSet
<1>2. ToSet(<<>>) = {} /\ Distinct(<<>>)
  BY DEF ToSet, Distinct
<1>3. /\ \A s \in Sessions : Distinct(batch[s]) /\ \A r \in W(s) : SessionOf(r) = s /\ Open(r)
      /\ \A p \in Requests : AtWork(p) => \A r \in T(p) :
            /\ Open(r) /\ SessionOf(r) = SessionOf(p) /\ r \notin W(SessionOf(p))
            /\ \A q \in Requests : AtWork(q) /\ r \in T(q) => q = p
      /\ Up => \A r \in Requests : Open(r) => Placed(r)
  BY DEF MailInv, BatchInv, TakenInv, OpenInv
<1> DEFINE Work1(q) == proc'[q].pc \in AtWorkPcs
           T1(q) == ToSet(proc'[q].taken)
           W1(s) == ToSet(batch'[s])
           Open1(r) == answer'[r].end = "open"
<1>4. ASSUME \A s \in Sessions : Distinct(batch'[s]) /\ \A r \in W1(s) : SessionOf(r) = s /\ Open1(r),
             \A p \in Requests : Work1(p) => \A r \in T1(p) :
                /\ Open1(r) /\ SessionOf(r) = SessionOf(p) /\ r \notin W1(SessionOf(p))
                /\ \A q \in Requests : Work1(q) /\ r \in T1(q) => q = p,
             Up' => \A r \in Requests : Open1(r) =>
                \/ r \in W1(SessionOf(r))
                \/ \E p \in Requests : Work1(p) /\ r \in T1(p)
      PROVE  MailInv'
  <2>1. BatchInv'
    BY <1>0, <1>4 DEF BatchInv, SessionOf, Distinct
  <2>2. TakenInv'
    BY <1>0, <1>4 DEF TakenInv, SessionOf, AtWork, AtWorkPcs
  <2>3. OpenInv'
    BY <1>0, <1>4 DEF OpenInv, Placed, SessionOf, AtWork, AtWorkPcs
  <2> QED BY <2>1, <2>2, <2>3 DEF MailInv
<1>5. Up' => Up
  BY UpKept
\* What stays where it is.
<1>6. ASSUME batch' = batch,
             \A r \in Requests : Open1(r) <=> Open(r),
             \A q \in Requests : /\ Work1(q) /\ T1(q) # {} => AtWork(q) /\ T1(q) = T(q)
                                 /\ AtWork(q) /\ T(q) # {} => Work1(q) /\ T1(q) = T(q)
      PROVE  MailInv'
  <2>1. \A s \in Sessions : Distinct(batch'[s]) /\ \A r \in W1(s) : SessionOf(r) = s /\ Open1(r)
    BY <1>1, <1>3, <1>6
  <2>2. ASSUME NEW p \in Requests, Work1(p), NEW r \in T1(p)
        PROVE  /\ Open1(r) /\ SessionOf(r) = SessionOf(p) /\ r \notin W1(SessionOf(p))
               /\ \A q \in Requests : Work1(q) /\ r \in T1(q) => q = p
    <3>1. AtWork(p) /\ r \in T(p) /\ r \in Requests
      BY <1>1, <1>6, <2>2
    <3> QED BY <1>3, <1>6, <3>1
  <2>3. ASSUME Up', NEW r \in Requests, Open1(r)
        PROVE  r \in W1(SessionOf(r)) \/ \E p \in Requests : Work1(p) /\ r \in T1(p)
    <3>1. Placed(r)
      BY <1>3, <1>5, <1>6, <2>3
    <3> QED BY <1>6, <3>1 DEF Placed
  <2> QED BY <1>4, <2>1, <2>2, <2>3
\* Messages of a batch that are cancelled.
<1>7. ASSUME NEW s \in Sessions, NEW D \in SUBSET W(s), W1(s) = W(s) \ D, Distinct(batch'[s]),
             \A x \in Sessions : x # s => batch'[x] = batch[x], proc' = proc,
             \A r \in Requests : Open1(r) <=> Open(r) /\ r \notin D
      PROVE  MailInv'
  <2>1. ASSUME NEW x \in Sessions
        PROVE  Distinct(batch'[x]) /\ \A r \in W1(x) : SessionOf(r) = x /\ Open1(r)
    <3>1. \A r \in D : SessionOf(r) = s
      BY <1>3, <1>7
    <3>2. CASE x = s
      BY <1>1, <1>3, <1>7, <3>2
    <3>3. CASE x # s
      BY <1>1, <1>3, <1>7, <3>1, <3>3
    <3> QED BY <3>2, <3>3
  <2>2. ASSUME NEW p \in Requests, Work1(p), NEW r \in T1(p)
        PROVE  /\ Open1(r) /\ SessionOf(r) = SessionOf(p) /\ r \notin W1(SessionOf(p))
               /\ \A q \in Requests : Work1(q) /\ r \in T1(q) => q = p
    <3>1. AtWork(p) /\ r \in T(p) /\ r \in Requests
      BY <1>1, <1>7, <2>2 DEF AtWork, AtWorkPcs
    <3>2. r \notin D
      BY <1>3, <1>7, <3>1
    <3>3. W1(SessionOf(p)) \subseteq W(SessionOf(p))
      BY <1>1, <1>7
    <3> QED BY <1>3, <1>7, <3>1, <3>2, <3>3 DEF AtWork, AtWorkPcs
  <2>3. ASSUME Up', NEW r \in Requests, Open1(r)
        PROVE  r \in W1(SessionOf(r)) \/ \E p \in Requests : Work1(p) /\ r \in T1(p)
    <3>1. Placed(r) /\ r \notin D
      BY <1>3, <1>5, <1>7, <2>3
    <3>2. CASE r \in W(SessionOf(r))
      BY <1>1, <1>7, <3>1, <3>2
    <3>3. CASE \E p \in Requests : AtWork(p) /\ r \in T(p)
      BY <1>7, <3>3 DEF AtWork, AtWorkPcs
    <3> QED BY <3>1, <3>2, <3>3 DEF Placed
  <2> QED BY <1>4, <2>1, <2>2, <2>3
\* The last frames of what a processor had.
<1>8. ASSUME NEW p \in Requests, AtWork(p), batch' = batch, ~Work1(p),
             \A q \in Requests : q # p => proc'[q] = proc[q],
             \A r \in Requests : Open1(r) <=> Open(r) /\ r \notin T(p)
      PROVE  MailInv'
  <2>0. \A q \in Requests : Work1(q) => q # p /\ AtWork(q) /\ T1(q) = T(q)
    BY <1>8 DEF AtWork, AtWorkPcs
  <2>1. \A s \in Sessions : Distinct(batch'[s]) /\ \A r \in W1(s) : SessionOf(r) = s /\ Open1(r)
    <3>1. ASSUME NEW s \in Sessions, NEW r \in W(s) PROVE r \notin T(p)
      BY <1>3, <1>8, <3>1
    <3> QED BY <1>1, <1>3, <1>8, <3>1
  <2>2. ASSUME NEW q \in Requests, Work1(q), NEW r \in T1(q)
        PROVE  /\ Open1(r) /\ SessionOf(r) = SessionOf(q) /\ r \notin W1(SessionOf(q))
               /\ \A x \in Requests : Work1(x) /\ r \in T1(x) => x = q
    <3>1. q # p /\ AtWork(q) /\ r \in T(q) /\ r \in Requests
      BY <1>1, <2>0, <2>2
    <3>2. r \notin T(p)
      BY <1>3, <1>8, <3>1
    <3> QED BY <1>3, <1>8, <2>0, <3>1, <3>2
  <2>3. ASSUME Up', NEW r \in Requests, Open1(r)
        PROVE  r \in W1(SessionOf(r)) \/ \E q \in Requests : Work1(q) /\ r \in T1(q)
    <3>1. Placed(r) /\ r \notin T(p)
      BY <1>3, <1>5, <1>8, <2>3
    <3>2. ASSUME NEW q \in Requests, AtWork(q), r \in T(q)
          PROVE  Work1(q) /\ r \in T1(q)
      BY <1>8, <3>1, <3>2 DEF AtWork, AtWorkPcs
    <3> QED BY <1>8, <3>1, <3>2 DEF Placed
  <2> QED BY <1>4, <2>1, <2>2, <2>3
\* A batch that is taken.
<1>9. ASSUME NEW p \in Requests, Wake(p) PROVE MailInv'
  <2> DEFINE s == SessionOf(p)
  <2>0. /\ proc[p].pc = "asleep" /\ AtWork(p) /\ T(p) = {} /\ answer' = answer
        /\ batch' = [batch EXCEPT ![s] = <<>>] /\ s \in Sessions
    BY <1>1, <1>2, <1>9 DEF Wake, AtWork, LifeInv
  <2>1. CASE batch[s] = <<>>
    <3>1. batch' = batch
      BY <1>1, <2>0, <2>1
    <3>2. GoesTo(p, "over")
      BY <1>9, <2>1, ProcSteps
    <3>3. \A q \in Requests : /\ Work1(q) /\ T1(q) # {} => AtWork(q) /\ T1(q) = T(q)
                              /\ AtWork(q) /\ T(q) # {} => Work1(q) /\ T1(q) = T(q)
      BY <2>0, <3>2 DEF GoesTo, Goes, AtWork, AtWorkPcs
    <3> QED BY <1>6, <2>0, <3>1, <3>3
  <2>2. CASE batch[s] # <<>>
    <3>1. Goes(p, "waiting", batch[s], proc[p].tokens, proc[p].seen)
      BY <1>9, <2>2, ProcSteps
    <3>2. /\ W1(s) = {} /\ \A x \in Sessions : x # s => W1(x) = W(x) /\ batch'[x] = batch[x]
          /\ Distinct(batch'[s])
      BY <1>1, <1>2, <2>0
    <3>3. /\ Work1(p) /\ T1(p) = W(s)
          /\ \A q \in Requests : q # p => (Work1(q) <=> AtWork(q)) /\ T1(q) = T(q)
      BY <3>1 DEF Goes, AtWork, AtWorkPcs
    <3> HIDE DEF s
    <3>4. \A x \in Sessions : Distinct(batch'[x]) /\ \A r \in W1(x) : SessionOf(r) = x /\ Open1(r)
      BY <1>3, <2>0, <3>2
    <3>5. ASSUME NEW q \in Requests, Work1(q), NEW r \in T1(q)
          PROVE  /\ Open1(r) /\ SessionOf(r) = SessionOf(q) /\ r \notin W1(SessionOf(q))
                 /\ \A x \in Requests : Work1(x) /\ r \in T1(x) => x = q
      <4>1. CASE q = p
        <5>1. Open1(r) /\ SessionOf(r) = s /\ r \notin W1(s)
          BY <1>3, <2>0, <3>2, <3>3, <3>5, <4>1
        <5>2. ASSUME NEW x \in Requests, Work1(x), r \in T1(x), x # p PROVE FALSE
          <6>1. AtWork(x) /\ r \in T(x) /\ r \in W(s)
            BY <3>3, <3>5, <4>1, <5>2
          <6>2. SessionOf(r) = SessionOf(x) /\ SessionOf(r) = s
            BY <1>3, <2>0, <6>1
          <6> QED BY <1>3, <6>1, <6>2
        <5> QED BY <4>1, <5>1, <5>2 DEF s
      <4>2. CASE q # p
        <5>1. AtWork(q) /\ r \in T(q)
          BY <3>3, <3>5, <4>2
        <5>2. /\ Open(r) /\ SessionOf(r) = SessionOf(q) /\ r \notin W(SessionOf(q))
              /\ \A x \in Requests : AtWork(x) /\ r \in T(x) => x = q
          BY <1>3, <5>1
        <5>3. r \notin W1(SessionOf(q))
          BY <1>1, <3>2, <5>2
        <5>4. r \notin W(s)
          BY <1>3, <2>0, <5>2
        <5> QED BY <2>0, <3>3, <5>2, <5>3, <5>4
      <4> QED BY <4>1, <4>2
    <3>6. ASSUME Up', NEW r \in Requests, Open1(r)
          PROVE  r \in W1(SessionOf(r)) \/ \E q \in Requests : Work1(q) /\ r \in T1(q)
      <4>1. Placed(r)
        BY <1>3, <1>5, <2>0, <3>6
      <4>2. CASE r \in W(SessionOf(r))
        BY <1>1, <3>2, <3>3, <4>2
      <4>3. ASSUME NEW q \in Requests, AtWork(q), r \in T(q)
            PROVE  Work1(q) /\ r \in T1(q)
        BY <2>0, <3>3, <4>3
      <4> QED BY <4>1, <4>2, <4>3 DEF Placed
    <3> QED BY <1>4, <3>4, <3>5, <3>6
  <2> QED BY <2>1, <2>2
\* A message that is posted.
<1>10. ASSUME NEW m \in Requests, Submit(m) PROVE MailInv'
  <2> DEFINE s == SessionOf(m)
  <2>0. /\ s \in Sessions /\ batch' = [batch EXCEPT ![s] = Append(@, m)]
        /\ \A r \in Requests : Open1(r) <=> Open(r) \/ r = m
        /\ ~Open(m) /\ proc[m].pc = "none" /\ T(m) = {}
    BY <1>1, <1>2, <1>10 DEF Submit, LifeInv, Answers
  <2>1. m \notin W(s) /\ \A q \in Requests : AtWork(q) => m \notin T(q)
    BY <1>3, <2>0
  <2>2. /\ W1(s) = W(s) \cup {m} /\ Distinct(batch'[s])
        /\ \A x \in Sessions : x # s => W1(x) = W(x) /\ batch'[x] = batch[x]
    <3>1. batch'[s] = Append(batch[s], m) /\ batch[s] \in Seq(Requests) /\ Distinct(batch[s])
      BY <1>1, <1>3, <2>0
    <3>2. \A x \in Sessions : x # s => batch'[x] = batch[x]
      BY <1>1, <2>0
    <3> QED BY <2>1, <3>1, <3>2, SetOfAppend
  <2>3. \A q \in Requests : /\ T1(q) = T(q)
                            /\ T(q) # {} => (Work1(q) <=> AtWork(q))
    <3>1. proc' = proc \/ GoesTo(m, "asleep")
      BY <1>10, ProcSteps
    <3> QED BY <2>0, <3>1 DEF GoesTo, Goes, AtWork, AtWorkPcs
  <2>4. ASSUME NEW x \in Sessions
        PROVE  Distinct(batch'[x]) /\ \A r \in W1(x) : SessionOf(r) = x /\ Open1(r)
    BY <1>1, <1>3, <2>0, <2>2
  <2> HIDE DEF s
  <2>5. ASSUME NEW q \in Requests, Work1(q), NEW r \in T1(q)
        PROVE  /\ Open1(r) /\ SessionOf(r) = SessionOf(q) /\ r \notin W1(SessionOf(q))
               /\ \A x \in Requests : Work1(x) /\ r \in T1(x) => x = q
    <3>1. AtWork(q) /\ r \in T(q) /\ r \in Requests /\ r # m
      BY <1>1, <2>1, <2>3, <2>5
    <3>2. r \notin W1(SessionOf(q))
      BY <1>1, <1>3, <2>2, <3>1
    <3> QED BY <1>3, <2>0, <2>3, <3>1, <3>2
  <2>6. ASSUME Up', NEW r \in Requests, Open1(r)
        PROVE  r \in W1(SessionOf(r)) \/ \E q \in Requests : Work1(q) /\ r \in T1(q)
    <3>1. CASE r = m
      BY <2>2, <3>1 DEF s
    <3>2. CASE r # m
      <4>1. Placed(r)
        BY <1>3, <1>5, <2>0, <2>6, <3>2
      <4>2. CASE r \in W(SessionOf(r))
        BY <1>1, <2>2, <4>2
      <4>3. ASSUME NEW q \in Requests, AtWork(q), r \in T(q)
            PROVE  Work1(q) /\ r \in T1(q)
        BY <2>3, <4>3
      <4> QED BY <4>1, <4>2, <4>3 DEF Placed
    <3> QED BY <3>1, <3>2
  <2> QED BY <1>4, <2>4, <2>5, <2>6
<1>11. ASSUME NEW m \in Requests, CancelOne(m) PROVE MailInv'
  <2> DEFINE s == SessionOf(m)
  <2>1. PICK i \in DOMAIN batch[s] : batch[s][i] = m /\ batch' = [batch EXCEPT ![s] = RemoveAt(@, i)]
    BY <1>11 DEF CancelOne
  <2>2. /\ s \in Sessions /\ proc' = proc /\ {m} \subseteq W(s)
        /\ \A x \in Sessions : x # s => batch'[x] = batch[x]
        /\ batch'[s] = RemoveAt(batch[s], i)
    BY <1>1, <1>11, <2>1 DEF CancelOne, ToSet
  <2>3. W1(s) = W(s) \ {m} /\ Distinct(batch'[s])
    BY <1>1, <1>3, <2>1, <2>2, SetOfRemove
  <2>4. \A r \in Requests : Open1(r) <=> Open(r) /\ r \notin {m}
    <3>1. answer' = Ended(<<m>>, "done") /\ ToSet(<<m>>) = {m}
      BY <1>11 DEF CancelOne, ToSet
    <3> QED BY <1>1, <3>1 DEF Ended, Answers
  <2> HIDE DEF s
  <2> QED BY <1>7, <2>2, <2>3, <2>4
<1>12. ASSUME NEW s \in Sessions, CancelAll(s) PROVE MailInv'
  <2>1. /\ proc' = proc /\ batch'[s] = <<>> /\ \A x \in Sessions : x # s => batch'[x] = batch[x]
    BY <1>1, <1>12 DEF CancelAll
  <2>2. \A r \in Requests : Open1(r) <=> Open(r) /\ r \notin W(s)
    BY <1>1, <1>12 DEF CancelAll, Ended, Answers
  <2>3. W1(s) = W(s) \ W(s) /\ Distinct(batch'[s])
    BY <1>2, <2>1
  <2> QED BY <1>7, <2>1, <2>2, <2>3
\* The turns.
<1>13. ASSUME NEW p \in Requests, NEW c \in AtWorkPcs, NEW k, NEW n, Goes(p, c, proc[p].taken, k, n),
              AtWork(p), batch' = batch, \A r \in Requests : Open1(r) <=> Open(r)
       PROVE  MailInv'
  BY <1>6, <1>13 DEF Goes, AtWork, AtWorkPcs
<1>14. ASSUME NEW p \in Requests, Begin(p) PROVE MailInv'
  <2>1. /\ Goes(p, "asking", proc[p].taken, proc[p].tokens, Len(hist[SessionOf(p)]))
        /\ AtWork(p) /\ batch' = batch
    BY <1>14, ProcSteps DEF Begin, Holds, AtWork
  <2>2. \/ answer' = answer
        \/ answer' = [r \in Requests |-> IF r \in ToSet(proc[p].taken)
                                         THEN [answer[r] EXCEPT !.of = p] ELSE answer[r]]
    BY <1>14 DEF Begin
  <2>3. \A r \in Requests : Open1(r) <=> Open(r)
    <3>1. CASE answer' = answer
      BY <3>1
    <3>2. CASE answer' = [r \in Requests |-> IF r \in ToSet(proc[p].taken)
                                             THEN [answer[r] EXCEPT !.of = p] ELSE answer[r]]
      BY <1>1, <3>2 DEF Answers
    <3> QED BY <2>2, <3>1, <3>2
  <2> QED BY <1>13, <2>1, <2>3 DEF AtWorkPcs
<1>15. ASSUME NEW p \in Requests, Token(p) \/ Retry(p) \/ RecordThenTitle(p) PROVE MailInv'
  <2>1. AtWork(p) /\ batch' = batch /\ answer' = answer
    BY <1>15 DEF Token, Retry, RecordThenTitle, AtWork
  <2>2. \/ Goes(p, "asking", proc[p].taken, proc[p].tokens + 1, proc[p].seen)
        \/ GoesTo(p, "asking") \/ GoesTo(p, "titling")
    BY <1>15, ProcSteps
  <2> QED BY <1>13, <2>1, <2>2 DEF GoesTo, AtWorkPcs
<1>16. ASSUME NEW p \in Requests, Replay(p) \/ Titled(p) \/ \E e \in {"done", "error"} : Finish(p, e)
       PROVE  MailInv'
  <2>1. GoesTo(p, "over") /\ AtWork(p) /\ batch' = batch
    BY <1>16, ProcSteps DEF Replay, Holds, Titled, Finish, Close, AtWork
  <2>2. \/ \E e \in {"done", "error"} : answer' = Ended(proc[p].taken, e)
        \/ answer' = [r \in Requests |-> IF r \in ToSet(proc[p].taken)
                                         THEN [of |-> Known(p), end |-> "done"] ELSE answer[r]]
    BY <1>16 DEF Replay, Titled, Finish, Close
  <2>3. \A r \in Requests : Open1(r) <=> Open(r) /\ r \notin T(p)
    <3>1. ASSUME NEW e \in {"done", "error"}, answer' = Ended(proc[p].taken, e), NEW r \in Requests
          PROVE  Open1(r) <=> Open(r) /\ r \notin T(p)
      BY <1>1, <3>1 DEF Ended, Answers
    <3>2. ASSUME answer' = [r \in Requests |-> IF r \in ToSet(proc[p].taken)
                                               THEN [of |-> Known(p), end |-> "done"] ELSE answer[r]],
                 NEW r \in Requests
          PROVE  Open1(r) <=> Open(r) /\ r \notin T(p)
      BY <3>2
    <3> QED BY <2>2, <3>1, <3>2
  <2> QED BY <1>8, <2>1, <2>3 DEF GoesTo, Goes, AtWorkPcs
\* A processor that is not at work, or has nothing.
<1>17. ASSUME NEW p \in Requests, NEW c, GoesTo(p, c), T(p) = {} \/ (~AtWork(p) /\ c \notin AtWorkPcs),
              batch' = batch, answer' = answer
       PROVE  MailInv'
  BY <1>6, <1>17 DEF GoesTo, Goes, AtWork, AtWorkPcs
<1>18. ASSUME NEW p \in Requests, Arrive(p) \/ FinishOther(p) PROVE MailInv'
  <2>1. T(p) = {} /\ batch' = batch /\ answer' = answer
    BY <1>2, <1>18 DEF Arrive, FinishOther, LifeInv
  <2>2. GoesTo(p, "waiting") \/ GoesTo(p, "gone")
    BY <1>18, ProcSteps
  <2>3. \A q \in Requests : /\ Work1(q) /\ T1(q) # {} => AtWork(q) /\ T1(q) = T(q)
                            /\ AtWork(q) /\ T(q) # {} => Work1(q) /\ T1(q) = T(q)
    BY <2>1, <2>2 DEF GoesTo, Goes, AtWork, AtWorkPcs
  <2> QED BY <1>6, <2>1, <2>3
<1>19. ASSUME NEW p \in Requests, Cleared(p) PROVE MailInv'
  <2>1. GoesTo(p, "gone") /\ ~AtWork(p) /\ "gone" \notin AtWorkPcs /\ batch' = batch /\ answer' = answer
    BY <1>19, ProcSteps DEF Cleared, AtWork, AtWorkPcs
  <2> QED BY <1>17, <2>1
<1>20. CASE UNCHANGED <<batch, proc, answer>>
  BY <1>6, <1>20 DEF AtWork, AtWorkPcs
<1>21. CASE Shutdown
  <2>1. /\ ~Up' /\ \A q \in Requests : proc'[q].pc = "none"
        /\ \A s \in Sessions : batch'[s] = <<>>
    BY <1>21 DEF Shutdown, Unborn, Up
  <2> QED BY <1>2, <1>4, <2>1 DEF AtWorkPcs
<1>22. ASSUME NEW p \in Requests, SelfRestart(p) PROVE MailInv'
  BY <1>20, <1>22 DEF SelfRestart
<1>23. ASSUME NEW s \in Sessions, Subscribe(s) \/ Unsubscribe(s) PROVE MailInv'
  BY <1>20, <1>23 DEF Subscribe, Unsubscribe
<1>24. CASE Drained \/ DrainTimeout \/ UNCHANGED vars
  BY <1>20, <1>24 DEF Drained, DrainTimeout, vars
<1> QED BY <1>9, <1>10, <1>11, <1>12, <1>14, <1>15, <1>16, <1>18, <1>19, <1>21, <1>22, <1>23, <1>24
        DEF Next, Work

(* The two places exclude each other, and there is one for a message that  *)
(* awaits its last frame.                                                  *)
LEMMA PlaceIsOne ==
    ASSUME TypeOK, MailInv
    PROVE  InOnePlace
<1> SUFFICES ASSUME Up, NEW r \in Requests
             PROVE  Cardinality({s \in Sessions : r \in ToSet(batch[s])})
                    + Cardinality({p \in Requests : AtWork(p) /\ r \in ToSet(proc[p].taken)})
                      = IF answer[r].end = "open" THEN 1 ELSE 0
  BY DEF InOnePlace
<1> DEFINE B == {s \in Sessions : r \in ToSet(batch[s])}
           P == {p \in Requests : AtWork(p) /\ r \in ToSet(proc[p].taken)}
<1>1. SessionOf(r) \in Sessions
  BY CastFacts DEF TypeOK
<1>2. \A s \in B : s = SessionOf(r) /\ answer[r].end = "open"
  BY DEF MailInv, BatchInv
<1>3. \A p \in P : /\ answer[r].end = "open" /\ SessionOf(r) \notin B
                   /\ \A q \in P : q = p
  BY DEF MailInv, TakenInv
<1>4. answer[r].end = "open" => SessionOf(r) \in B \/ P # {}
  BY <1>1 DEF MailInv, OpenInv, Placed
<1> HIDE DEF B, P
<1>5. CASE answer[r].end # "open"
  <2>1. B = {} /\ P = {}
    BY <1>2, <1>3, <1>5
  <2>2. Cardinality(B) = 0 /\ Cardinality(P) = 0
    BY <2>1, FS_EmptySet
  <2> QED BY <1>5, <2>2 DEF B, P
<1>6. CASE answer[r].end = "open" /\ P = {}
  <2>1. B = {SessionOf(r)}
    BY <1>2, <1>4, <1>6
  <2>2. Cardinality(B) = 1 /\ Cardinality(P) = 0
    BY <1>6, <2>1, FS_EmptySet, FS_Singleton
  <2> QED BY <1>6, <2>2 DEF B, P
<1>7. CASE answer[r].end = "open" /\ P # {}
  <2>1. PICK p \in P : TRUE
    BY <1>7
  <2>2. P = {p} /\ B = {}
    BY <1>2, <1>3, <2>1
  <2>3. Cardinality(B) = 0 /\ Cardinality(P) = 1
    BY <2>2, FS_EmptySet, FS_Singleton
  <2> QED BY <1>7, <2>3 DEF B, P
<1> QED BY <1>5, <1>6, <1>7

(* Who writes a last frame has a message that awaits it.                   *)
LEMMA LastFrameStays ==
    ASSUME TypeOK, LifeInv, MailInv, [Next]_vars, NEW r \in Requests,
           answer[r].end \in {"done", "error"}
    PROVE  answer'[r] = answer[r]
<1>0. answer \in [Requests -> Answers] /\ answer[r].end # "open" /\ answer[r].end # "unsent"
  BY DEF TypeOK
<1>1. \A p \in Requests : AtWork(p) => r \notin ToSet(proc[p].taken)
  BY <1>0 DEF MailInv, TakenInv
<1>2. \A s \in Sessions : r \notin ToSet(batch[s])
  BY <1>0 DEF MailInv, BatchInv
<1>3. CASE UNCHANGED answer
  BY <1>3
<1>4. ASSUME NEW m \in Requests, Submit(m) PROVE answer'[r] = answer[r]
  BY <1>0, <1>4 DEF Submit
<1>5. ASSUME NEW m \in Requests, CancelOne(m) PROVE answer'[r] = answer[r]
  <2>1. SessionOf(m) \in Sessions
    BY CastFacts DEF TypeOK
  <2>2. m \in ToSet(batch[SessionOf(m)]) /\ answer' = Ended(<<m>>, "done")
    BY <1>5 DEF CancelOne, ToSet
  <2>3. r # m /\ ToSet(<<m>>) = {m}
    BY <1>2, <2>1, <2>2 DEF ToSet
  <2> QED BY <2>2, <2>3 DEF Ended
<1>6. ASSUME NEW s \in Sessions, CancelAll(s) PROVE answer'[r] = answer[r]
  BY <1>2, <1>6 DEF CancelAll, Ended
<1>7. ASSUME NEW p \in Requests, Replay(p) PROVE answer'[r] = answer[r]
  BY <1>1, <1>7 DEF Replay, Holds, AtWork
<1>8. ASSUME NEW p \in Requests, Begin(p) PROVE answer'[r] = answer[r]
  <2>1. AtWork(p)
    BY <1>8 DEF Begin, Holds, AtWork
  <2>2. \/ answer' = answer
        \/ answer' = [x \in Requests |-> IF x \in ToSet(proc[p].taken)
                                         THEN [answer[x] EXCEPT !.of = p] ELSE answer[x]]
    BY <1>8 DEF Begin
  <2> QED BY <1>1, <2>1, <2>2
<1>9. ASSUME NEW p \in Requests, NEW e, Close(p, e), AtWork(p) PROVE answer'[r] = answer[r]
  BY <1>1, <1>9 DEF Close, Ended
<1>10. ASSUME NEW p \in Requests, Titled(p) \/ \E e \in {"done", "error"} : Finish(p, e)
       PROVE  answer'[r] = answer[r]
  BY <1>9, <1>10 DEF Titled, Finish, AtWork
<1>11. ASSUME NEW p \in Requests, Work(p) PROVE answer'[r] = answer[r]
  BY <1>3, <1>7, <1>8, <1>10, <1>11 DEF Work, Wake, Cleared, FinishOther
<1>12. ASSUME NEW p \in Requests, Arrive(p) \/ SelfRestart(p) \/ Token(p) \/ Retry(p) \/ RecordThenTitle(p)
       PROVE  answer'[r] = answer[r]
  BY <1>3, <1>12 DEF Arrive, SelfRestart, Token, Retry, RecordThenTitle
<1>13. ASSUME NEW s \in Sessions, Subscribe(s) \/ Unsubscribe(s) PROVE answer'[r] = answer[r]
  BY <1>3, <1>13 DEF Subscribe, Unsubscribe
<1>14. CASE Drained \/ DrainTimeout \/ Shutdown \/ UNCHANGED vars
  BY <1>3, <1>14 DEF Drained, DrainTimeout, Shutdown, vars
<1> QED BY <1>4, <1>5, <1>6, <1>11, <1>12, <1>13, <1>14 DEF Next

(* Who finds a batch empty is asleep until it takes what is in it.         *)
LEMMA BatchServed ==
    ASSUME TypeOK, LifeInv, BatchHasProcessor, [Next]_vars
    PROVE  BatchHasProcessor'
<1>0. cast' = cast /\ \A q : SessionOf(q)' = SessionOf(q)
  BY CastKept DEF SessionOf
<1> SUFFICES ASSUME Up', NEW s \in Sessions, batch'[s] # <<>>
             PROVE  \E p \in Requests : proc'[p].pc = "asleep" /\ SessionOf(p) = s
  BY <1>0 DEF BatchHasProcessor, SessionOf
<1> DEFINE Served == \E p \in Requests : proc'[p].pc = "asleep" /\ SessionOf(p) = s
<1>1. batch[s] # <<>> => \E p \in Requests : proc[p].pc = "asleep" /\ SessionOf(p) = s
  BY UpKept DEF BatchHasProcessor
<1>2. /\ batch \in [Sessions -> Seq(Requests)]
      /\ \A q \in Requests : SessionOf(q) \in Sessions
  BY CastFacts DEF TypeOK
<1>3. CASE batch'[s] = batch[s] /\ proc' = proc
  BY <1>1, <1>3
<1>5. ASSUME NEW m \in Requests, Submit(m) PROVE Served
  <2>1. /\ batch' = [batch EXCEPT ![SessionOf(m)] = Append(@, m)] /\ proc[m].pc = "none"
        /\ IF batch[SessionOf(m)] = <<>> THEN proc' = [proc EXCEPT ![m].pc = "asleep"] ELSE proc' = proc
    BY <1>5 DEF Submit, LifeInv
  <2>2. CASE batch[SessionOf(m)] = <<>>
    <3>1. GoesTo(m, "asleep")
      BY <2>1, <2>2, PcChanged
    <3>2. CASE s = SessionOf(m)
      BY <3>1, <3>2 DEF GoesTo, Goes
    <3>3. CASE s # SessionOf(m)
      <4>1. batch'[s] = batch[s]
        BY <1>2, <2>1, <3>3
      <4> QED BY <1>1, <2>1, <3>1, <4>1 DEF GoesTo, Goes
    <3> QED BY <3>2, <3>3
  <2>3. CASE batch[SessionOf(m)] # <<>>
    <3>1. CASE s = SessionOf(m)
      BY <1>1, <2>1, <2>3, <3>1
    <3>2. CASE s # SessionOf(m)
      <4>1. batch'[s] = batch[s]
        BY <1>2, <2>1, <3>2
      <4> QED BY <1>3, <2>1, <2>3, <4>1
    <3> QED BY <3>1, <3>2
  <2> QED BY <2>2, <2>3
<1>6. ASSUME NEW m \in Requests, CancelOne(m) PROVE Served
  <2>1. PICK i \in DOMAIN batch[SessionOf(m)] :
           batch' = [batch EXCEPT ![SessionOf(m)] = RemoveAt(@, i)]
    BY <1>6 DEF CancelOne
  <2>2. proc' = proc
    BY <1>6 DEF CancelOne
  <2>3. batch[s] # <<>>
    BY <1>2, <2>1
  <2> QED BY <1>1, <2>2, <2>3
<1>7. ASSUME NEW x \in Sessions, CancelAll(x) PROVE Served
  <2>1. proc' = proc /\ batch'[s] = batch[s]
    BY <1>2, <1>7 DEF CancelAll
  <2> QED BY <1>3, <2>1
<1>8. ASSUME NEW p \in Requests, Wake(p) PROVE Served
  <2>1. batch' = [batch EXCEPT ![SessionOf(p)] = <<>>]
    BY <1>8 DEF Wake
  <2>2. s # SessionOf(p) /\ batch'[s] = batch[s]
    BY <1>2, <2>1
  <2>3. \A q \in Requests : q # p => proc'[q] = proc[q]
    BY <1>8, ProcSteps DEF GoesTo, Goes
  <2> QED BY <1>1, <2>2, <2>3
<1>9. ASSUME NEW p \in Requests, Arrive(p) \/ Token(p) \/ Retry(p) \/ RecordThenTitle(p) \/ Cleared(p)
      PROVE  Served
  <2>1. proc[p].pc # "asleep" /\ batch' = batch
    BY <1>9 DEF Arrive, Token, Retry, RecordThenTitle, Cleared
  <2>2. \A q \in Requests : q # p => proc'[q] = proc[q]
    BY <1>9, ProcSteps DEF GoesTo, Goes
  <2> QED BY <1>1, <2>1, <2>2
<1>10. ASSUME NEW p \in Requests,
              Replay(p) \/ Begin(p) \/ Titled(p) \/ FinishOther(p) \/ \E e \in {"done", "error"} : Finish(p, e)
       PROVE  Served
  <2>1. proc[p].pc # "asleep" /\ batch' = batch
    BY <1>10 DEF Replay, Begin, Holds, Titled, FinishOther, Finish, Close
  <2>2. \A q \in Requests : q # p => proc'[q] = proc[q]
    BY <1>10, ProcSteps DEF GoesTo, Goes
  <2> QED BY <1>1, <2>1, <2>2
<1>11. ~Shutdown
  BY DEF Shutdown, Up
<1>12. ASSUME NEW p \in Requests, SelfRestart(p) PROVE Served
  BY <1>3, <1>12 DEF SelfRestart
<1>13. ASSUME NEW x \in Sessions, Subscribe(x) \/ Unsubscribe(x) PROVE Served
  BY <1>3, <1>13 DEF Subscribe, Unsubscribe
<1>14. CASE Drained \/ DrainTimeout \/ UNCHANGED vars
  BY <1>3, <1>14 DEF Drained, DrainTimeout, vars
<1> QED BY <1>5, <1>6, <1>7, <1>8, <1>9, <1>10, <1>11, <1>12, <1>13, <1>14 DEF Next, Work

-----------------------------------------------------------------------------
(* The turn the bus holds and what its subscriber has.                     *)
LEMMA BusKept ==
    ASSUME TypeOK, LifeInv, BusInv, [Next]_vars
    PROVE  BusInv'
<1> DEFINE Fresh == {"none", "asleep", "waiting"}
           Runs == {"asking", "titling"}
           HeldIs(s, p) == KindOf(p) = "chat" /\ SessionOf(p) = s
<1>0. cast' = cast /\ \A q : SessionOf(q)' = SessionOf(q) /\ KindOf(q)' = KindOf(q)
  BY CastKept DEF SessionOf, KindOf
<1>1. /\ \A q \in Requests : SessionOf(q) \in Sessions
      /\ current \in [Sessions -> Turns] /\ heard \in [Requests -> Nat] /\ ear \in [Sessions -> {"off", "on"}]
      /\ \A s \in Sessions : current[s].turn # None => current[s].turn \in Requests
      /\ \A q \in Requests : proc[q].tokens \in Nat
  BY CastFacts DEF TypeOK, Turns, Processors
<1>2. /\ \A s \in Sessions : current[s].turn # None =>
            /\ HeldIs(s, current[s].turn) /\ proc[current[s].turn].pc \in Runs
            /\ current[s].parts = proc[current[s].turn].tokens
            /\ ear[s] = "on" => heard[current[s].turn] = proc[current[s].turn].tokens
      /\ \A q \in Requests : proc[q].pc \in Fresh => heard[q] = 0
  BY DEF BusInv, Running
<1>3. ASSUME \A s \in Sessions : current'[s].turn # None =>
                /\ HeldIs(s, current'[s].turn) /\ proc'[current'[s].turn].pc \in Runs
                /\ current'[s].parts = proc'[current'[s].turn].tokens
                /\ ear'[s] = "on" => heard'[current'[s].turn] = proc'[current'[s].turn].tokens,
             \A q \in Requests : proc'[q].pc \in Fresh => heard'[q] = 0
      PROVE  BusInv'
  BY <1>0, <1>3 DEF BusInv, Running, KindOf, SessionOf
<1>4. CASE UNCHANGED <<proc, current, ear, heard>>
  BY <1>2, <1>3, <1>4
\* A processor that the bus does not hold.
<1>5. ASSUME NEW p \in Requests, NEW c, NEW t, NEW k, NEW n, Goes(p, c, t, k, n),
             KindOf(p) = "chat" => proc[p].pc \notin Runs,
             c \in Fresh => proc[p].pc \in Fresh, UNCHANGED <<current, ear, heard>>
      PROVE  BusInv'
  <2>1. \A s \in Sessions : current[s].turn # None =>
           current[s].turn # p /\ proc'[current[s].turn] = proc[current[s].turn]
    BY <1>1, <1>2, <1>5 DEF Goes
  <2> QED BY <1>2, <1>3, <1>5, <2>1 DEF Goes
<1>6. ASSUME NEW p \in Requests, Submit(p) PROVE BusInv'
  <2>1. proc[p].pc = "none" /\ UNCHANGED <<current, ear, heard>>
    BY <1>6 DEF Submit, LifeInv, busVars
  <2>2. proc' = proc \/ GoesTo(p, "asleep")
    BY <1>6, ProcSteps
  <2>3. CASE proc' = proc
    BY <1>4, <2>1, <2>3
  <2>4. CASE GoesTo(p, "asleep")
    BY <1>5, <2>1, <2>4 DEF GoesTo
  <2> QED BY <2>2, <2>3, <2>4
<1>7. ASSUME NEW p \in Requests, Arrive(p) PROVE BusInv'
  <2>1. GoesTo(p, "waiting") /\ proc[p].pc = "none" /\ UNCHANGED <<current, ear, heard>>
    BY <1>7, ProcSteps DEF Arrive, busVars
  <2> QED BY <1>5, <2>1 DEF GoesTo
<1>8. ASSUME NEW p \in Requests, Wake(p) PROVE BusInv'
  <2>1. proc[p].pc = "asleep" /\ UNCHANGED <<current, ear, heard>>
    BY <1>8 DEF Wake, busVars
  <2>2. CASE batch[SessionOf(p)] = <<>>
    <3>1. GoesTo(p, "over")
      BY <1>8, <2>2, ProcSteps
    <3> QED BY <1>5, <2>1, <3>1 DEF GoesTo
  <2>3. CASE batch[SessionOf(p)] # <<>>
    <3>1. Goes(p, "waiting", batch[SessionOf(p)], proc[p].tokens, proc[p].seen)
      BY <1>8, <2>3, ProcSteps
    <3> QED BY <1>5, <2>1, <3>1
  <2> QED BY <2>2, <2>3
<1>9. ASSUME NEW p \in Requests, Replay(p) PROVE BusInv'
  <2>1. GoesTo(p, "over") /\ proc[p].pc = "waiting" /\ UNCHANGED <<current, ear, heard>>
    BY <1>9, ProcSteps DEF Replay, Holds, busVars
  <2> QED BY <1>5, <2>1 DEF GoesTo
<1>10. ASSUME NEW p \in Requests, Cleared(p) PROVE BusInv'
  <2>1. GoesTo(p, "gone") /\ proc[p].pc = "over" /\ UNCHANGED <<current, ear, heard>>
    BY <1>10, ProcSteps DEF Cleared, busVars
  <2> QED BY <1>5, <2>1 DEF GoesTo
<1>11. ASSUME NEW p \in Requests, FinishOther(p) PROVE BusInv'
  <2>1. GoesTo(p, "gone") /\ KindOf(p) # "chat" /\ UNCHANGED <<current, ear, heard>>
    BY <1>11, ProcSteps DEF FinishOther, busVars
  <2> QED BY <1>5, <2>1 DEF GoesTo
<1>12. ASSUME NEW p \in Requests, Begin(p) PROVE BusInv'
  <2>1. /\ proc[p].pc = "waiting" /\ proc[p].tokens = 0 /\ UNCHANGED <<ear, heard>>
        /\ Goes(p, "asking", proc[p].taken, proc[p].tokens, Len(hist[SessionOf(p)]))
    BY <1>12, ProcSteps DEF Begin, Holds, LifeInv
  <2>2. CASE KindOf(p) # "chat"
    <3>1. current' = current
      BY <1>12, <2>2 DEF Begin
    <3> QED BY <1>5, <2>1, <2>2, <3>1
  <2>3. CASE KindOf(p) = "chat"
    <3>1. current' = [current EXCEPT ![SessionOf(p)] = [turn |-> p, parts |-> 0]]
      BY <1>12, <2>3 DEF Begin
    <3>2. heard[p] = 0
      BY <1>2, <2>1
    <3>3. ASSUME NEW s \in Sessions, current'[s].turn # None
          PROVE  /\ HeldIs(s, current'[s].turn) /\ proc'[current'[s].turn].pc \in Runs
                 /\ current'[s].parts = proc'[current'[s].turn].tokens
                 /\ ear'[s] = "on" => heard'[current'[s].turn] = proc'[current'[s].turn].tokens
      <4>1. CASE s = SessionOf(p)
        <5>1. current'[s].turn = p /\ current'[s].parts = 0
          BY <1>1, <3>1, <4>1
        <5> QED BY <2>1, <2>3, <3>2, <4>1, <5>1 DEF Goes
      <4>2. CASE s # SessionOf(p)
        <5>1. current'[s] = current[s]
          BY <1>1, <3>1, <4>2
        <5>2. current[s].turn # p /\ current[s].turn \in Requests
          BY <1>1, <1>2, <3>3, <4>2, <5>1
        <5> QED BY <1>2, <2>1, <3>3, <5>1, <5>2 DEF Goes
      <4> QED BY <4>1, <4>2
    <3>4. \A q \in Requests : proc'[q].pc \in Fresh => heard'[q] = 0
      BY <1>2, <2>1 DEF Goes
    <3> QED BY <1>3, <3>3, <3>4
  <2> QED BY <2>2, <2>3
<1>13. ASSUME NEW p \in Requests, Token(p) PROVE BusInv'
  <2> DEFINE x == SessionOf(p)
  <2>1. /\ proc[p].pc = "asking" /\ ear' = ear /\ x \in Sessions
        /\ Goes(p, "asking", proc[p].taken, proc[p].tokens + 1, proc[p].seen)
        /\ current' = IF current[x].turn = p THEN [current EXCEPT ![x].parts = @ + 1] ELSE current
        /\ heard' = IF ear[x] = "on" THEN [heard EXCEPT ![p] = @ + 1] ELSE heard
    BY <1>1, <1>13, ProcSteps DEF Token
  <2>2. /\ \A s \in Sessions : current'[s].turn = current[s].turn
        /\ \A s \in Sessions : current[s].turn # p => current'[s] = current[s]
        /\ current[x].turn = p => current'[x].parts = current[x].parts + 1
    <3>1. CASE current[x].turn = p
      <4>1. current' = [current EXCEPT ![x].parts = @ + 1]
        BY <2>1, <3>1
      <4> QED BY <1>1, <2>1, <3>1, <4>1 DEF Turns
    <3>2. CASE current[x].turn # p
      BY <2>1, <3>2
    <3> QED BY <3>1, <3>2
  <2>3. /\ \A q \in Requests : q # p => heard'[q] = heard[q]
        /\ ear[x] = "on" => heard'[p] = heard[p] + 1
    BY <1>1, <2>1
  <2>4. ASSUME NEW s \in Sessions, current'[s].turn # None
        PROVE  /\ HeldIs(s, current'[s].turn) /\ proc'[current'[s].turn].pc \in Runs
               /\ current'[s].parts = proc'[current'[s].turn].tokens
               /\ ear'[s] = "on" => heard'[current'[s].turn] = proc'[current'[s].turn].tokens
    <3>1. current'[s].turn = current[s].turn /\ current[s].turn \in Requests
      BY <1>1, <2>2, <2>4
    <3>2. CASE current[s].turn = p
      <4>1. s = x
        BY <1>2, <2>4, <3>1, <3>2
      <4> QED BY <1>2, <2>1, <2>2, <2>3, <2>4, <3>1, <3>2, <4>1 DEF Goes
    <3>3. CASE current[s].turn # p
      BY <1>2, <2>1, <2>2, <2>3, <2>4, <3>1, <3>3 DEF Goes
    <3> QED BY <3>2, <3>3
  <2>5. \A q \in Requests : proc'[q].pc \in Fresh => heard'[q] = 0
    BY <1>2, <2>1, <2>3 DEF Goes
  <2> QED BY <1>3, <2>4, <2>5
<1>14. ASSUME NEW p \in Requests, Retry(p) \/ RecordThenTitle(p) PROVE BusInv'
  <2>1. proc[p].pc = "asking" /\ UNCHANGED <<current, ear, heard>>
    BY <1>14 DEF Retry, RecordThenTitle, busVars
  <2>2. GoesTo(p, "asking") \/ GoesTo(p, "titling")
    BY <1>14, ProcSteps
  <2>3. /\ proc'[p].pc \in Runs /\ proc'[p].tokens = proc[p].tokens
        /\ \A q \in Requests : q # p => proc'[q] = proc[q]
    BY <2>2 DEF GoesTo, Goes
  <2> QED BY <1>1, <1>2, <1>3, <2>1, <2>3
<1>15. ASSUME NEW p \in Requests, Titled(p) \/ \E e \in {"done", "error"} : Finish(p, e)
       PROVE  BusInv'
  <2>1. GoesTo(p, "over") /\ UNCHANGED <<ear, heard>> /\ current' = EndTurn(p)
    BY <1>15, ProcSteps DEF Titled, Finish, Close
  <2>2. \A s \in Sessions : current'[s].turn # None =>
           current'[s] = current[s] /\ current[s].turn # p
    <3>1. CASE current[SessionOf(p)].turn = p
      <4>1. current' = [current EXCEPT ![SessionOf(p)] = [turn |-> None, parts |-> 0]]
        BY <2>1, <3>1 DEF EndTurn
      <4>2. \A s \in Sessions : s # SessionOf(p) => current'[s] = current[s]
        BY <1>1, <4>1
      <4>3. current'[SessionOf(p)].turn = None
        BY <1>1, <4>1
      <4>4. None # p
        BY ChatConstants
      <4> QED BY <1>2, <4>2, <4>3, <4>4
    <3>2. CASE current[SessionOf(p)].turn # p
      <4>1. current' = current
        BY <2>1, <3>2 DEF EndTurn
      <4> QED BY <1>2, <3>2, <4>1
    <3> QED BY <3>1, <3>2
  <2>3. \A s \in Sessions : current'[s].turn # None =>
           proc'[current[s].turn] = proc[current[s].turn]
    BY <1>1, <2>1, <2>2 DEF GoesTo, Goes
  <2>4. \A q \in Requests : proc'[q].pc \in Fresh => heard'[q] = 0
    BY <1>2, <2>1 DEF GoesTo, Goes
  <2> QED BY <1>2, <1>3, <2>1, <2>2, <2>3, <2>4
<1>16. ASSUME NEW s \in Sessions, Subscribe(s) PROVE BusInv'
  <2>1. /\ proc' = proc /\ current' = current /\ ear' = [ear EXCEPT ![s] = "on"]
        /\ heard' = IF current[s].turn = None THEN heard
                    ELSE [heard EXCEPT ![current[s].turn] = current[s].parts]
    BY <1>16 DEF Subscribe
  <2>2. CASE current[s].turn = None
    BY <1>1, <1>2, <1>3, <2>1, <2>2
  <2>3. CASE current[s].turn # None
    <3> DEFINE t == current[s].turn
    <3>1. /\ t \in Requests /\ heard'[t] = proc[t].tokens
          /\ \A q \in Requests : q # t => heard'[q] = heard[q]
      BY <1>1, <1>2, <2>1, <2>3
    <3>2. \A y \in Sessions : y # s => current[y].turn # t /\ ear'[y] = ear[y]
      BY <1>1, <1>2, <2>1, <2>3
    <3>3. \A q \in Requests : proc'[q].pc \in Fresh => heard'[q] = 0
      BY <1>2, <2>1, <2>3, <3>1
    <3>4. ASSUME NEW y \in Sessions, current'[y].turn # None, ear'[y] = "on"
          PROVE  heard'[current'[y].turn] = proc'[current'[y].turn].tokens
      <4>1. CASE y = s
        BY <2>1, <3>1, <4>1
      <4>2. CASE y # s
        BY <1>1, <1>2, <2>1, <3>1, <3>2, <3>4, <4>2
      <4> QED BY <4>1, <4>2
    <3> QED BY <1>2, <1>3, <2>1, <3>3, <3>4
  <2> QED BY <2>2, <2>3
<1>17. ASSUME NEW s \in Sessions, Unsubscribe(s) PROVE BusInv'
  <2>1. /\ proc' = proc /\ current' = current /\ ear' = [ear EXCEPT ![s] = "off"]
        /\ heard' = [p \in Requests |-> IF SessionOf(p) = s THEN 0 ELSE heard[p]]
    BY <1>17 DEF Unsubscribe
  <2>2. \A y \in Sessions : ear'[y] = "on" => y # s /\ ear[y] = "on"
    BY <1>1, <2>1
  <2>3. \A q \in Requests : heard'[q] = 0 \/ heard'[q] = heard[q]
    BY <2>1
  <2>4. \A q \in Requests : SessionOf(q) # s => heard'[q] = heard[q]
    BY <2>1
  <2> QED BY <1>1, <1>2, <1>3, <2>1, <2>2, <2>3, <2>4
<1>18. CASE Shutdown
  <2>1. /\ \A s \in Sessions : current'[s].turn = None
        /\ \A q \in Requests : heard'[q] = 0
    BY <1>18 DEF Shutdown
  <2> QED BY <1>3, <2>1
<1>19. ASSUME NEW r \in Requests, CancelOne(r) \/ SelfRestart(r) PROVE BusInv'
  BY <1>4, <1>19 DEF CancelOne, SelfRestart, busVars
<1>20. ASSUME NEW s \in Sessions, CancelAll(s) PROVE BusInv'
  BY <1>4, <1>20 DEF CancelAll, busVars
<1>21. CASE Drained \/ DrainTimeout \/ UNCHANGED vars
  BY <1>4, <1>21 DEF Drained, DrainTimeout, vars, busVars
<1> QED BY <1>6, <1>7, <1>8, <1>9, <1>10, <1>11, <1>12, <1>13, <1>14, <1>15, <1>16, <1>17, <1>18, <1>19,
           <1>20, <1>21 DEF Next, Work

-----------------------------------------------------------------------------
(* The recorded turns and the marked ids.                                  *)

LEMMA MarkedFacts ==
    ASSUME TypeOK, NEW p \in Requests
    PROVE  /\ \A s \in Sessions : \A m \in Ids : reply[s][m] # None => Marked(p)[s][m] # None
           /\ \A r \in ToSet(proc[p].taken) :
                 IdOf(r) # NoId => Marked(p)[SessionOf(p)][IdOf(r)] # None
<1>1. /\ SessionOf(p) \in Sessions /\ reply \in [Sessions -> [Ids -> Requests \cup {None}]]
      /\ p # None
  BY CastFacts, ChatConstants DEF TypeOK
<1>2. \A r \in ToSet(proc[p].taken) : r \in Requests
  BY DEF TypeOK, Processors, ToSet
<1>3. \A r \in ToSet(proc[p].taken) : IdOf(r) # NoId => IdOf(r) \in Ids
  BY <1>2, CastFacts DEF TypeOK
<1>4. /\ \A s \in Sessions : s # SessionOf(p) => Marked(p)[s] = reply[s]
      /\ Marked(p)[SessionOf(p)] =
            [m \in Ids |-> IF m \in {IdOf(r) : r \in ToSet(proc[p].taken)} \ {NoId} THEN p
                           ELSE reply[SessionOf(p)][m]]
  BY <1>1 DEF Marked
<1> QED BY <1>1, <1>3, <1>4

LEMMA OnceKept ==
    ASSUME TypeOK, LockInv, LifeInv, OnceInv, [Next]_vars
    PROVE  OnceInv'
<1> DEFINE Done == {"titling", "over", "gone"}
           Ids1(a) == {IdOf(r) : r \in ToSet(proc[a].taken)}
           Same(a, p) == KindOf(a) = "chat" /\ LockOf(a) = LockOf(p)
<1>0. cast' = cast /\ \A q : /\ SessionOf(q)' = SessionOf(q) /\ KindOf(q)' = KindOf(q)
                             /\ LockOf(q)' = LockOf(q) /\ IdOf(q)' = IdOf(q)
  BY CastKept DEF SessionOf, KindOf, LockOf, IdOf
<1>1. /\ \A q \in Requests : SessionOf(q) \in Sessions
      /\ hist \in [Sessions -> Seq(Requests)]
      /\ \A s \in Sessions : \A i \in DOMAIN hist[s] : hist[s][i] \in Requests
  BY CastFacts DEF TypeOK
<1> SUFFICES ASSUME Up' PROVE OnceInv'
  BY DEF OnceInv
<1>2. /\ \A s \in Sessions : \A i \in DOMAIN hist[s] :
            LET a == hist[s][i] IN
            /\ SessionOf(a) = s /\ proc[a].pc \in Done
            /\ KindOf(a) = "chat" /\ proc[a].pc # "titling" =>
                  \A r \in ToSet(proc[a].taken) : IdOf(r) # NoId => reply[s][IdOf(r)] # None
            /\ \A j \in DOMAIN hist[s] : i < j /\ KindOf(hist[s][j]) = "chat" => ~Repeats(a, hist[s][j])
      /\ \A p \in Requests : KindOf(p) = "chat" /\ proc[p].pc = "asking" =>
            \A i \in DOMAIN hist[SessionOf(p)] : ~Repeats(hist[SessionOf(p)][i], p)
  BY UpKept DEF OnceInv, Recorded, RecordedOnce, AskedOnce
\* Repeats in the next state.
<1> DEFINE Repeats1(a, p) ==
              /\ KindOf(a) = "chat" /\ LockOf(a) = LockOf(p) /\ IdOf(Head(proc'[p].taken)) # NoId
              /\ \E r \in ToSet(proc'[a].taken) : IdOf(r) = IdOf(Head(proc'[p].taken))
<1>3. ASSUME \A s \in Sessions : \A i \in DOMAIN hist'[s] :
                /\ SessionOf(hist'[s][i]) = s /\ proc'[hist'[s][i]].pc \in Done
                /\ KindOf(hist'[s][i]) = "chat" /\ proc'[hist'[s][i]].pc # "titling" =>
                      \A r \in ToSet(proc'[hist'[s][i]].taken) :
                         IdOf(r) # NoId => reply'[s][IdOf(r)] # None
                /\ \A j \in DOMAIN hist'[s] : i < j /\ KindOf(hist'[s][j]) = "chat" =>
                      ~Repeats1(hist'[s][i], hist'[s][j]),
             \A p \in Requests : KindOf(p) = "chat" /\ proc'[p].pc = "asking" =>
                \A i \in DOMAIN hist'[SessionOf(p)] : ~Repeats1(hist'[SessionOf(p)][i], p)
      PROVE  OnceInv'
  <2> HIDE DEF Repeats1
  <2>0. cast' = cast
    BY <1>0
  <2>1. Recorded'
    <3>1. \A s \in Sessions : \A i \in DOMAIN hist'[s] :
             /\ SessionOf(hist'[s][i]) = s /\ proc'[hist'[s][i]].pc \in Done
             /\ KindOf(hist'[s][i]) = "chat" /\ proc'[hist'[s][i]].pc # "titling" =>
                   \A r \in ToSet(proc'[hist'[s][i]].taken) :
                      IdOf(r) # NoId => reply'[s][IdOf(r)] # None
      BY <1>3
    <3> QED BY <2>0, <3>1 DEF Recorded, SessionOf, KindOf, IdOf
  <2>2. RecordedOnce'
    <3>1. \A s \in Sessions : \A i, j \in DOMAIN hist'[s] :
             i < j /\ KindOf(hist'[s][j]) = "chat" => ~Repeats1(hist'[s][i], hist'[s][j])
      BY <1>3
    <3>2. ASSUME NEW s \in Sessions, NEW i \in DOMAIN hist'[s], NEW j \in DOMAIN hist'[s],
                 i < j, KindOf(hist[s][j])' = "chat", Repeats(hist[s][i], hist[s][j])'
          PROVE  FALSE
      <4>1. KindOf(hist'[s][j]) = "chat"
        BY <2>0, <3>2 DEF KindOf
      <4>2. /\ KindOf(hist[s][i])' = "chat"
            /\ LockOf(hist[s][i])' = LockOf(hist[s][j])'
            /\ HeadId(hist[s][j])' # NoId
            /\ \E r \in ToSet(proc'[hist'[s][i]].taken) : IdOf(r)' = HeadId(hist[s][j])'
        BY <3>2 DEF Repeats
      <4>3. /\ KindOf(hist[s][i])' = KindOf(hist'[s][i])
            /\ LockOf(hist[s][i])' = LockOf(hist'[s][i])
            /\ LockOf(hist[s][j])' = LockOf(hist'[s][j])
            /\ HeadId(hist[s][j])' = IdOf(Head(proc'[hist'[s][j]].taken))
        BY <2>0 DEF HeadId, SessionOf, KindOf, LockOf, IdOf
      <4>4. \A r : IdOf(r)' = IdOf(r)
        BY <2>0 DEF IdOf
      <4>5. Repeats1(hist'[s][i], hist'[s][j])
        BY <4>2, <4>3, <4>4 DEF Repeats1
      <4> QED BY <3>1, <3>2, <4>1, <4>5
    <3> QED BY <3>2 DEF RecordedOnce
  <2>3. AskedOnce'
    <3>1. \A p \in Requests : KindOf(p) = "chat" /\ proc'[p].pc = "asking" =>
             \A i \in DOMAIN hist'[SessionOf(p)] : ~Repeats1(hist'[SessionOf(p)][i], p)
      BY <1>3
    <3>2. ASSUME NEW p \in Requests, KindOf(p)' = "chat", proc'[p].pc = "asking",
                 NEW i \in DOMAIN hist'[SessionOf(p)], Repeats(hist[SessionOf(p)][i], p)'
          PROVE  FALSE
      <4>1. KindOf(p) = "chat" /\ SessionOf(p)' = SessionOf(p)
        BY <2>0, <3>2 DEF KindOf, SessionOf
      <4>2. /\ KindOf(hist[SessionOf(p)][i])' = "chat"
            /\ LockOf(hist[SessionOf(p)][i])' = LockOf(p)' /\ HeadId(p)' # NoId
            /\ \E r \in ToSet(proc'[hist'[SessionOf(p)][i]].taken) : IdOf(r)' = HeadId(p)'
        BY <3>2, <4>1 DEF Repeats
      <4>3. /\ KindOf(hist[SessionOf(p)][i])' = KindOf(hist'[SessionOf(p)][i])
            /\ LockOf(hist[SessionOf(p)][i])' = LockOf(hist'[SessionOf(p)][i]) /\ LockOf(p)' = LockOf(p)
            /\ HeadId(p)' = IdOf(Head(proc'[p].taken))
        BY <2>0 DEF HeadId, SessionOf, KindOf, LockOf, IdOf
      <4>4. \A r : IdOf(r)' = IdOf(r)
        BY <2>0 DEF IdOf
      <4>5. Repeats1(hist'[SessionOf(p)][i], p)
        BY <4>2, <4>3, <4>4 DEF Repeats1
      <4> QED BY <3>1, <3>2, <4>1, <4>5
    <3> QED BY <2>0, <3>2 DEF AskedOnce, SessionOf
  <2> QED BY <2>1, <2>2, <2>3 DEF OnceInv
<1>4. \A a, p \in Requests : proc'[a].taken = proc[a].taken /\ proc'[p].taken = proc[p].taken
                                => (Repeats1(a, p) <=> Repeats(a, p))
  BY DEF Repeats, HeadId
<1> HIDE DEF Repeats1
\* The turns that are recorded stay, with what they have; none starts.
<1>5. ASSUME hist' = hist,
             \A s \in Sessions : \A m \in Ids : reply[s][m] # None => reply'[s][m] # None,
             \A q \in Requests : proc[q].pc \in Done =>
                /\ proc'[q].pc \in Done /\ proc'[q].taken = proc[q].taken
                /\ proc'[q].pc # "titling" /\ proc[q].pc = "titling" =>
                      \A r \in ToSet(proc[q].taken) :
                         IdOf(r) # NoId => reply'[SessionOf(q)][IdOf(r)] # None,
             \A q \in Requests : proc'[q].pc = "asking" =>
                proc[q].pc = "asking" /\ proc'[q].taken = proc[q].taken
      PROVE  OnceInv'
  <2>1. ASSUME NEW s \in Sessions, NEW i \in DOMAIN hist[s]
        PROVE  /\ SessionOf(hist'[s][i]) = s /\ proc'[hist'[s][i]].pc \in Done
               /\ \A j \in DOMAIN hist'[s] : i < j /\ KindOf(hist'[s][j]) = "chat" =>
                      ~Repeats1(hist'[s][i], hist'[s][j])
               /\ proc'[hist[s][i]].taken = proc[hist[s][i]].taken
    BY <1>1, <1>2, <1>4, <1>5
  <2>2. ASSUME NEW s \in Sessions, NEW i \in DOMAIN hist[s], KindOf(hist[s][i]) = "chat",
               proc'[hist[s][i]].pc # "titling", NEW r \in ToSet(proc'[hist[s][i]].taken), IdOf(r) # NoId
        PROVE  reply'[s][IdOf(r)] # None
    <3> DEFINE a == hist[s][i]
    <3>1. a \in Requests /\ SessionOf(a) = s /\ proc[a].pc \in Done /\ r \in ToSet(proc[a].taken)
      BY <1>1, <1>2, <2>1, <2>2
    <3>2. r \in Requests
      BY SMTT(30), ZenonT(60), <3>1 DEF TypeOK, Processors, ToSet
    <3>3. IdOf(r) \in Ids
      BY <2>2, <3>2, CastFacts DEF TypeOK
    <3>4. CASE proc[a].pc = "titling"
      BY <1>5, <2>2, <3>1, <3>4
    <3>5. CASE proc[a].pc # "titling"
      <4>1. reply[s][IdOf(r)] # None
        BY <1>2, <2>2, <3>1, <3>5
      <4> QED BY <1>5, <3>3, <4>1
    <3> QED BY <3>4, <3>5
  <2>3. ASSUME NEW p \in Requests, KindOf(p) = "chat", proc'[p].pc = "asking",
               NEW i \in DOMAIN hist'[SessionOf(p)]
        PROVE  ~Repeats1(hist'[SessionOf(p)][i], p)
    <3>1. proc[p].pc = "asking" /\ proc'[p].taken = proc[p].taken /\ ~Repeats(hist[SessionOf(p)][i], p)
      BY <1>2, <1>5, <2>3
    <3>2. proc'[hist[SessionOf(p)][i]].taken = proc[hist[SessionOf(p)][i]].taken
      BY <1>1, <1>5, <2>1, <2>3
    <3>3. hist[SessionOf(p)][i] \in Requests
      BY <1>1, <1>5, <2>3
    <3> QED BY <1>4, <1>5, <3>1, <3>2, <3>3
  <2> QED BY <1>3, <1>5, <2>1, <2>2, <2>3
<1>6. ASSUME NEW p \in Requests, NEW c, NEW t, NEW k, NEW n, Goes(p, c, t, k, n),
             hist' = hist, reply' = reply,
             proc[p].pc \notin Done \cup {"asking"}, c # "asking"
      PROVE  OnceInv'
  BY <1>5, <1>6 DEF Goes
<1>7. CASE UNCHANGED <<proc, hist, reply>>
  BY <1>5, <1>7
<1>8. ASSUME NEW p \in Requests, Submit(p) PROVE OnceInv'
  <2>1. proc[p].pc = "none" /\ UNCHANGED <<hist, reply>>
    BY <1>8 DEF Submit, LifeInv
  <2>2. proc' = proc \/ GoesTo(p, "asleep")
    BY <1>8, ProcSteps
  <2>3. CASE proc' = proc
    BY <1>7, <2>1, <2>3
  <2>4. CASE GoesTo(p, "asleep")
    BY <1>6, <2>1, <2>4 DEF GoesTo
  <2> QED BY <2>2, <2>3, <2>4
<1>9. ASSUME NEW p \in Requests, Arrive(p) PROVE OnceInv'
  <2>1. GoesTo(p, "waiting") /\ proc[p].pc = "none" /\ UNCHANGED <<hist, reply>>
    BY <1>9, ProcSteps DEF Arrive
  <2> QED BY <1>6, <2>1 DEF GoesTo
<1>10. ASSUME NEW p \in Requests, Wake(p) PROVE OnceInv'
  <2>1. proc[p].pc = "asleep" /\ UNCHANGED <<hist, reply>>
    BY <1>10 DEF Wake
  <2>2. CASE batch[SessionOf(p)] = <<>>
    <3>1. GoesTo(p, "over")
      BY <1>10, <2>2, ProcSteps
    <3> QED BY <1>6, <2>1, <3>1 DEF GoesTo
  <2>3. CASE batch[SessionOf(p)] # <<>>
    <3>1. Goes(p, "waiting", batch[SessionOf(p)], proc[p].tokens, proc[p].seen)
      BY <1>10, <2>3, ProcSteps
    <3> QED BY <1>6, <2>1, <3>1
  <2> QED BY <2>2, <2>3
<1>11. ASSUME NEW p \in Requests, Replay(p) PROVE OnceInv'
  <2>1. GoesTo(p, "over") /\ proc[p].pc = "waiting" /\ UNCHANGED <<hist, reply>>
    BY <1>11, ProcSteps DEF Replay, Holds
  <2> QED BY <1>6, <2>1 DEF GoesTo
<1>12. ASSUME NEW p \in Requests, Token(p) \/ Retry(p) PROVE OnceInv'
  <2>1. proc[p].pc = "asking" /\ UNCHANGED <<hist, reply>>
    BY <1>12 DEF Token, Retry
  <2>2. /\ proc'[p].pc = "asking" /\ proc'[p].taken = proc[p].taken
        /\ \A q \in Requests : q # p => proc'[q] = proc[q]
    BY <1>12, ProcSteps DEF GoesTo, Goes
  <2> QED BY <1>5, <2>1, <2>2
<1>13. ASSUME NEW p \in Requests, Cleared(p) PROVE OnceInv'
  <2>1. /\ proc[p].pc = "over" /\ UNCHANGED <<hist, reply>>
        /\ proc'[p].pc = "gone" /\ proc'[p].taken = proc[p].taken
        /\ \A q \in Requests : q # p => proc'[q] = proc[q]
    BY <1>13, ProcSteps DEF Cleared, GoesTo, Goes
  <2> QED BY <1>5, <2>1
\* A turn starts: the turns of its lock that were recorded are over, and marked.
<1>14. ASSUME NEW p \in Requests, Begin(p) PROVE OnceInv'
  <2>1. /\ proc[p].pc = "waiting" /\ UNCHANGED <<hist, reply>> /\ Holds(p)
        /\ proc'[p].pc = "asking" /\ proc'[p].taken = proc[p].taken
        /\ \A q \in Requests : q # p => proc'[q] = proc[q]
    BY <1>14, ProcSteps DEF Begin, Holds, Goes
  <2>2. \A q \in Requests : proc'[q].taken = proc[q].taken
    BY <2>1
  <2>3. ASSUME NEW i \in DOMAIN hist[SessionOf(p)], KindOf(p) = "chat",
               Repeats(hist[SessionOf(p)][i], p)
        PROVE  FALSE
    <3> DEFINE a == hist[SessionOf(p)][i]
    <3>1. a \in Requests /\ SessionOf(a) = SessionOf(p) /\ proc[a].pc \in Done /\ a # p
      BY <1>1, <1>2, <2>1
    <3>2. proc[a].pc # "titling"
      <4>1. LockOf(a) = LockOf(p)
        BY <2>3 DEF Repeats
      <4> QED BY <2>1, <3>1, <4>1 DEF LockInv, Running, Holds
    <3>3. PICK r \in ToSet(proc[a].taken) : IdOf(r) = HeadId(p)
      BY <2>3 DEF Repeats
    <3>4. HeadId(p) # NoId /\ KindOf(a) = "chat"
      BY <2>3 DEF Repeats
    <3>5. reply[SessionOf(p)][HeadId(p)] # None
      BY <1>1, <1>2, <3>1, <3>2, <3>3, <3>4
    <3> QED BY <1>14, <2>3, <3>4, <3>5 DEF Begin, Known, HeadId
  <2>4. ASSUME NEW q \in Requests, KindOf(q) = "chat", proc'[q].pc = "asking",
               NEW i \in DOMAIN hist[SessionOf(q)]
        PROVE  ~Repeats(hist[SessionOf(q)][i], q)
    BY <1>2, <2>1, <2>3, <2>4
  <2>5. \A s \in Sessions : \A i \in DOMAIN hist[s] :
           /\ hist[s][i] # p /\ proc'[hist[s][i]] = proc[hist[s][i]]
    BY <1>1, <1>2, <2>1
  <2>6. hist' = hist /\ reply' = reply
    BY <2>1
  <2>7. ASSUME NEW s \in Sessions, NEW i \in DOMAIN hist[s]
        PROVE  /\ SessionOf(hist[s][i]) = s /\ proc'[hist[s][i]].pc \in Done
               /\ KindOf(hist[s][i]) = "chat" /\ proc'[hist[s][i]].pc # "titling" =>
                     \A r \in ToSet(proc'[hist[s][i]].taken) :
                        IdOf(r) # NoId => reply[s][IdOf(r)] # None
    BY <1>2, <2>5, <2>7
  <2>8. ASSUME NEW s \in Sessions, NEW i \in DOMAIN hist[s], NEW j \in DOMAIN hist[s],
               i < j, KindOf(hist[s][j]) = "chat"
        PROVE  ~Repeats1(hist[s][i], hist[s][j])
    <3>1. hist[s][i] \in Requests /\ hist[s][j] \in Requests /\ ~Repeats(hist[s][i], hist[s][j])
      BY <1>1, <1>2, <2>8
    <3> QED BY <1>4, <2>2, <3>1
  <2>9. ASSUME NEW q \in Requests, KindOf(q) = "chat", proc'[q].pc = "asking",
               NEW i \in DOMAIN hist[SessionOf(q)]
        PROVE  ~Repeats1(hist[SessionOf(q)][i], q)
    <3>1. hist[SessionOf(q)][i] \in Requests /\ ~Repeats(hist[SessionOf(q)][i], q)
      BY <1>1, <2>4, <2>9
    <3> QED BY <1>4, <2>2, <3>1
  <2> QED BY <1>3, <2>6, <2>7, <2>8, <2>9
\* A turn is recorded.
<1>15. ASSUME NEW p \in Requests, NEW c \in Done, GoesTo(p, c), proc[p].pc = "asking", Running(p),
              hist' = [hist EXCEPT ![SessionOf(p)] = Append(@, p)],
              \A s \in Sessions : \A m \in Ids : reply[s][m] # None => reply'[s][m] # None,
              KindOf(p) = "chat" /\ c # "titling" =>
                 \A r \in ToSet(proc[p].taken) : IdOf(r) # NoId => reply'[SessionOf(p)][IdOf(r)] # None
       PROVE  OnceInv'
  <2> DEFINE x == SessionOf(p)
             n == Len(hist[x])
  <2>1. /\ x \in Sessions /\ n \in Nat /\ hist'[x] = Append(hist[x], p)
        /\ \A s \in Sessions : s # x => hist'[s] = hist[s]
    BY <1>1, <1>15
  <2>2. /\ DOMAIN hist[x] = 1..n /\ DOMAIN hist'[x] = 1..(n + 1)
        /\ \A i \in 1..n : hist'[x][i] = hist[x][i]
        /\ hist'[x][n + 1] = p
    BY <1>1, <2>1
  <2>3. /\ proc'[p].pc = c /\ \A q \in Requests : proc'[q].taken = proc[q].taken
        /\ \A q \in Requests : q # p => proc'[q] = proc[q]
    BY <1>15 DEF GoesTo, Goes
  <2>4. \A a, b \in Requests : Repeats1(a, b) <=> Repeats(a, b)
    BY <1>4, <2>3
  <2> HIDE DEF x, n
  \* What a recorded turn has, in the next state.
  <2>5. ASSUME NEW s \in Sessions, NEW i \in DOMAIN hist[s]
        PROVE  /\ hist[s][i] # p /\ hist[s][i] \in Requests /\ SessionOf(hist[s][i]) = s
               /\ proc'[hist[s][i]] = proc[hist[s][i]] /\ proc[hist[s][i]].pc \in Done
    BY <1>1, <1>2, <1>15, <2>3
  <2>6. ASSUME NEW s \in Sessions, NEW i \in DOMAIN hist[s], KindOf(hist[s][i]) = "chat",
               proc[hist[s][i]].pc # "titling", NEW r \in ToSet(proc[hist[s][i]].taken), IdOf(r) # NoId
        PROVE  reply'[s][IdOf(r)] # None
    <3>1. r \in Requests
      BY <2>5, <2>6 DEF TypeOK, Processors, ToSet
    <3>2. IdOf(r) \in Ids
      BY <2>6, <3>1, CastFacts DEF TypeOK
    <3>3. reply[s][IdOf(r)] # None
      BY <1>2, <2>6
    <3> QED BY <1>15, <3>2, <3>3
  <2>7. ASSUME NEW s \in Sessions, NEW i \in DOMAIN hist'[s]
        PROVE  /\ SessionOf(hist'[s][i]) = s /\ proc'[hist'[s][i]].pc \in Done
               /\ KindOf(hist'[s][i]) = "chat" /\ proc'[hist'[s][i]].pc # "titling" =>
                      \A r \in ToSet(proc'[hist'[s][i]].taken) :
                         IdOf(r) # NoId => reply'[s][IdOf(r)] # None
    <3>1. CASE s = x /\ i = n + 1
      BY <1>15, <2>2, <2>3, <3>1 DEF x
    <3>2. CASE ~(s = x /\ i = n + 1)
      <4>1. i \in DOMAIN hist[s] /\ hist'[s][i] = hist[s][i]
        BY <2>1, <2>2, <2>7, <3>2
      <4> QED BY <2>5, <2>6, <4>1
    <3> QED BY <3>1, <3>2
  <2>8. ASSUME NEW s \in Sessions, NEW i \in DOMAIN hist'[s], NEW j \in DOMAIN hist'[s], i < j,
               KindOf(hist'[s][j]) = "chat"
        PROVE  ~Repeats1(hist'[s][i], hist'[s][j])
    <3>1. CASE s = x /\ j = n + 1
      <4>1. i \in DOMAIN hist[x] /\ hist'[s][i] = hist[x][i] /\ hist'[s][j] = p
        BY <2>1, <2>2, <2>8, <3>1
      <4>2. ~Repeats(hist[x][i], p)
        BY <1>2, <1>15, <2>8, <4>1 DEF x
      <4> QED BY <2>1, <2>4, <2>5, <4>1, <4>2
    <3>2. CASE ~(s = x /\ j = n + 1)
      <4>1. /\ i \in DOMAIN hist[s] /\ hist'[s][i] = hist[s][i]
            /\ j \in DOMAIN hist[s] /\ hist'[s][j] = hist[s][j]
        <5>1. CASE s = x
          BY <2>1, <2>2, <2>8, <3>2, <5>1
        <5>2. CASE s # x
          BY <2>1, <2>8, <5>2
        <5> QED BY <5>1, <5>2
      <4>2. ~Repeats(hist[s][i], hist[s][j])
        BY <1>2, <2>8, <4>1
      <4> QED BY <2>4, <2>5, <4>1, <4>2
    <3> QED BY <3>1, <3>2
  <2>9. ASSUME NEW q \in Requests, KindOf(q) = "chat", proc'[q].pc = "asking",
               NEW i \in DOMAIN hist'[SessionOf(q)]
        PROVE  ~Repeats1(hist'[SessionOf(q)][i], q)
    <3>1. q # p /\ proc[q].pc = "asking" /\ Running(q) /\ SessionOf(q) \in Sessions
      BY <1>1, <1>15, <2>3, <2>9 DEF Running
    <3>2. LockOf(q) # LockOf(p)
      BY <1>15, <3>1, OneTurnPerLock DEF OneAtATime
    <3>3. CASE SessionOf(q) = x /\ i = n + 1
      BY <2>2, <2>4, <3>2, <3>3 DEF Repeats
    <3>4. CASE ~(SessionOf(q) = x /\ i = n + 1)
      <4>1. i \in DOMAIN hist[SessionOf(q)] /\ hist'[SessionOf(q)][i] = hist[SessionOf(q)][i]
        <5>1. CASE SessionOf(q) = x
          BY <2>1, <2>2, <2>9, <3>4, <5>1
        <5>2. CASE SessionOf(q) # x
          BY <2>1, <2>9, <3>1, <5>2
        <5> QED BY <5>1, <5>2
      <4>2. ~Repeats(hist[SessionOf(q)][i], q)
        BY <1>2, <2>9, <3>1, <4>1
      <4> QED BY <2>4, <2>5, <3>1, <4>1, <4>2
    <3> QED BY <3>3, <3>4
  <2> QED BY <1>3, <2>7, <2>8, <2>9
<1>16. ASSUME NEW p \in Requests, RecordThenTitle(p) PROVE OnceInv'
  <2>1. /\ proc[p].pc = "asking" /\ Running(p) /\ reply' = reply
        /\ hist' = [hist EXCEPT ![SessionOf(p)] = Append(@, p)]
    BY <1>16 DEF RecordThenTitle, Running
  <2> QED BY <1>15, <1>16, <2>1, ProcSteps
<1>17. ASSUME NEW p \in Requests, Titled(p) PROVE OnceInv'
  <2>1. /\ proc[p].pc = "titling" /\ hist' = hist /\ reply' = Marked(p)
        /\ proc'[p].pc = "over" /\ proc'[p].taken = proc[p].taken
        /\ \A q \in Requests : q # p => proc'[q] = proc[q]
    BY <1>17, ProcSteps DEF Titled, Close, GoesTo, Goes
  <2>2. /\ \A s \in Sessions : \A m \in Ids : reply[s][m] # None => reply'[s][m] # None
        /\ \A r \in ToSet(proc[p].taken) : IdOf(r) # NoId => reply'[SessionOf(p)][IdOf(r)] # None
    BY <2>1, MarkedFacts
  <2> QED BY <1>5, <2>1, <2>2
<1>18. ASSUME NEW p \in Requests, NEW e \in {"done", "error"}, Finish(p, e) PROVE OnceInv'
  <2>1. /\ proc[p].pc = "asking" /\ Running(p) /\ reply' = Marked(p) /\ GoesTo(p, "over")
        /\ hist' = [hist EXCEPT ![SessionOf(p)] = Append(@, p)]
    BY <1>18, ProcSteps DEF Finish, Close, Running
  <2>2. /\ \A s \in Sessions : \A m \in Ids : reply[s][m] # None => reply'[s][m] # None
        /\ \A r \in ToSet(proc[p].taken) : IdOf(r) # NoId => reply'[SessionOf(p)][IdOf(r)] # None
    BY <2>1, MarkedFacts
  <2> QED BY <1>15, <2>1, <2>2
<1>19. ASSUME NEW p \in Requests, FinishOther(p) PROVE OnceInv'
  <2>1. /\ proc[p].pc = "asking" /\ Running(p) /\ reply' = reply /\ GoesTo(p, "gone")
        /\ KindOf(p) # "chat"
        /\ hist' = hist \/ hist' = [hist EXCEPT ![SessionOf(p)] = Append(@, p)]
    BY <1>19, ProcSteps DEF FinishOther, Running
  <2>2. CASE hist' = hist
    BY <1>5, <2>1, <2>2 DEF GoesTo, Goes
  <2>3. CASE hist' = [hist EXCEPT ![SessionOf(p)] = Append(@, p)]
    BY <1>15, <2>1, <2>3
  <2> QED BY <2>1, <2>2, <2>3
<1>20. ~Shutdown
  BY DEF Shutdown, Up
<1>21. ASSUME NEW r \in Requests, CancelOne(r) \/ SelfRestart(r) PROVE OnceInv'
  BY <1>7, <1>21 DEF CancelOne, SelfRestart
<1>22. ASSUME NEW s \in Sessions, CancelAll(s) \/ Subscribe(s) \/ Unsubscribe(s) PROVE OnceInv'
  BY <1>7, <1>22 DEF CancelAll, Subscribe, Unsubscribe
<1>23. CASE Drained \/ DrainTimeout \/ UNCHANGED vars
  BY <1>7, <1>23 DEF Drained, DrainTimeout, vars
<1> QED BY <1>8, <1>9, <1>10, <1>11, <1>12, <1>13, <1>14, <1>16, <1>17, <1>18, <1>19, <1>20, <1>21, <1>22,
           <1>23 DEF Next, Work

-----------------------------------------------------------------------------
(* The invariant and the theorems.                                         *)
ChatInv ==
    /\ TypeOK /\ LockInv /\ LifeInv /\ MailInv /\ BusInv /\ MarkInv /\ OnceInv
    /\ RecordedOnWhatItRead /\ BatchHasProcessor

LEMMA InitInv == Init => ChatInv
<1> SUFFICES ASSUME Init PROVE ChatInv
  OBVIOUS
<1>1. /\ \A p \in Requests : /\ proc[p].pc = "none" /\ proc[p].taken = <<>>
                             /\ proc[p].tokens = 0
                             /\ answer[p].end = "unsent"
      /\ \A s \in Sessions : batch[s] = <<>> /\ hist[s] = <<>> /\ current[s].turn = None
      /\ \A k \in Locks : line[k] = <<>>
      /\ \A p \in Requests : heard[p] = 0
      /\ busy = {}
  BY DEF Init, Unborn
<1>2. ToSet(<<>>) = {} /\ Distinct(<<>>)
  BY DEF ToSet, Distinct
<1>3. TypeOK
  BY DEF Init, Unborn, TypeOK, Processors, Answers, Turns
<1>4. LockInv /\ LifeInv
  BY <1>1 DEF LockInv, LifeInv, InLine, Running
<1>5. MailInv
  BY <1>1, <1>2 DEF MailInv, BatchInv, TakenInv, OpenInv, AtWork
<1>6. BusInv /\ MarkInv
  BY <1>1 DEF BusInv, MarkInv, AtWork, AtWorkPcs
<1>7. OnceInv /\ RecordedOnWhatItRead /\ BatchHasProcessor
  BY <1>1 DEF OnceInv, Recorded, RecordedOnce, AskedOnce, RecordedOnWhatItRead, BatchHasProcessor
<1> QED BY <1>3, <1>4, <1>5, <1>6, <1>7 DEF ChatInv

LEMMA ChatInvHolds == Spec => []ChatInv
<1>1. ChatInv /\ [Next]_vars => ChatInv'
  BY TypesKept, LocksKept, LivesKept, MailKept, BusKept, MarksKept, OnceKept, SeenKept, BatchServed
     DEF ChatInv
<1> QED BY <1>1, InitInv, PTL DEF Spec

(* The types of ChatTurns.                                                 *)
THEOREM ChatTypes == Spec => []TypeOK
<1>1. ChatInv => TypeOK
  BY DEF ChatInv
<1> QED BY <1>1, ChatInvHolds, PTL

(* A message is in its batch or with one processor until it has its last   *)
(* frame (chat.py, submit, cancel_message, _process_batch).                *)
THEOREM MessagesAreInOnePlace == Spec => []InOnePlace
<1>1. ChatInv => InOnePlace
  BY PlaceIsOne DEF ChatInv
<1> QED BY <1>1, ChatInvHolds, PTL

(* A batch has a processor that will take it.                              *)
THEOREM BatchesAreServed == Spec => []BatchHasProcessor
<1>1. ChatInv => BatchHasProcessor
  BY DEF ChatInv
<1> QED BY <1>1, ChatInvHolds, PTL

(* With one lock key per session a turn is recorded on the history it read *)
(* (RunSerializer).                                                        *)
THEOREM TurnsFollowEachOther == Spec => []RecordedOnWhatItRead
<1>1. ChatInv => RecordedOnWhatItRead
  BY DEF ChatInv
<1> QED BY <1>1, ChatInvHolds, PTL

(* An id that heads a batch is run once per lock key (the store of replies *)
(* by message id).                                                         *)
THEOREM IdsAreRunOnce == Spec => []RunOnce
<1>1. ASSUME ChatInv PROVE RunOnce
  <2> SUFFICES ASSUME Up, NEW s \in Sessions, NEW i \in DOMAIN hist[s], NEW j \in DOMAIN hist[s],
                      i < j, LockOf(hist[s][i]) = LockOf(hist[s][j]),
                      KindOf(hist[s][i]) = "chat", KindOf(hist[s][j]) = "chat",
                      IdOf(Head(proc[hist[s][j]].taken)) # NoId
               PROVE  \A r \in ToSet(proc[hist[s][i]].taken) :
                         IdOf(r) # IdOf(Head(proc[hist[s][j]].taken))
    BY DEF RunOnce
  <2>1. ~Repeats(hist[s][i], hist[s][j])
    BY <1>1 DEF ChatInv, OnceInv, RecordedOnce
  <2> QED BY <2>1 DEF Repeats, HeadId
<1> QED BY <1>1, ChatInvHolds, PTL

(* A subscriber has every token of the turn the bus holds (EventBus).      *)
THEOREM SubscribersHaveTheTurn == Spec => []ResumeIsWhole
<1>1. ChatInv => ResumeIsWhole
  BY DEF ChatInv, BusInv, ResumeIsWhole
<1> QED BY <1>1, ChatInvHolds, PTL

(* A restart that did not time out misses no counted turn of another       *)
(* session (_drain_gated_restart, inflight_count).                         *)
THEOREM RestartsAreGated == Spec => GatedRestart
<1>1. ASSUME ChatInv, [Next]_vars
      PROVE  [Issues /\ asker' # None =>
                LET running == {p \in Requests : Counted(p)} IN
                \/ restart = "deferred" /\ running = {}
                \/ restart = "no" /\ asker' \notin running
                \/ restart = "no" /\ \A p \in running : SessionOf(p) = SessionOf(asker')]_vars
  BY <1>1, RestartIsGated DEF ChatInv
<1> QED BY <1>1, ChatInvHolds, PTL DEF Spec, GatedRestart

(* The last frame of a message is its last.                                *)
THEOREM LastFramesAreLast == Spec => LastFrameIsLast
<1>1. ASSUME ChatInv, [Next]_vars
      PROVE  [\A r \in Requests : answer[r].end \in {"done", "error"} => answer'[r] = answer[r]]_vars
  BY <1>1, LastFrameStays DEF ChatInv
<1> QED BY <1>1, ChatInvHolds, PTL DEF Spec, LastFrameIsLast

-----------------------------------------------------------------------------
(***************************************************************************)
(* The promise to the operator.  OfInv says which turn the queue of a      *)
(* message hears, RepliesInv that what is marked was recorded.             *)
(***************************************************************************)
OfInv ==
    /\ \A r \in Requests : answer[r].end = "unsent" => answer[r].of = None
    /\ \A s \in Sessions : \A r \in ToSet(batch[s]) : answer[r].of = None
    /\ \A p \in Requests : AtWork(p) =>
          \A r \in ToSet(proc[p].taken) : answer[r].of = IF Running(p) THEN p ELSE None
RepliesInv ==
    Up => /\ \A p \in Requests : proc[p].pc = "titling" => p \in ToSet(hist[SessionOf(p)])
          /\ \A s \in Sessions : \A m \in Ids :
                reply[s][m] # None => reply[s][m] \in ToSet(hist[s])

LEMMA OfKept ==
    ASSUME TypeOK, LifeInv, MailInv, OfInv, [Next]_vars
    PROVE  OfInv'
<1> DEFINE W(s) == ToSet(batch[s])
           T(p) == ToSet(proc[p].taken)
           W1(s) == ToSet(batch'[s])
           T1(p) == ToSet(proc'[p].taken)
           Work1(p) == proc'[p].pc \in AtWorkPcs
           Run1(p) == proc'[p].pc \in {"asking", "titling"}
<1>1. /\ batch \in [Sessions -> Seq(Requests)] /\ answer \in [Requests -> Answers]
      /\ proc \in [Requests -> Processors] /\ ToSet(<<>>) = {}
      /\ \A q \in Requests : SessionOf(q) \in Sessions /\ T(q) \subseteq Requests
      /\ \A s \in Sessions : W(s) \subseteq Requests
  <2>1. \A q \in Requests : SessionOf(q) \in Sessions
    BY CastFacts DEF TypeOK
  <2>2. \A q \in Requests : proc[q].taken \in Seq(Requests)
    BY DEF TypeOK, Processors
  <2> QED BY <2>1, <2>2 DEF TypeOK, ToSet
<1>2. /\ \A s \in Sessions : \A r \in W(s) : answer[r].of = None /\ SessionOf(r) = s
      /\ \A p \in Requests : AtWork(p) => \A r \in T(p) :
            /\ answer[r].of = IF Running(p) THEN p ELSE None
            /\ SessionOf(r) = SessionOf(p) /\ r \notin W(SessionOf(p)) /\ answer[r].end = "open"
            /\ \A q \in Requests : AtWork(q) /\ r \in T(q) => q = p
  BY DEF OfInv, MailInv, BatchInv, TakenInv
<1>3. ASSUME \A s \in Sessions : \A r \in W1(s) : answer'[r].of = None,
             \A r \in Requests : answer[r].end = "unsent" => answer'[r].of = None,
             \A p \in Requests : Work1(p) => \A r \in T1(p) :
                answer'[r].of = IF Run1(p) THEN p ELSE None
      PROVE  OfInv'
  <2>1. \A r \in Requests : answer'[r].end = "unsent" => answer'[r].of = None
    BY <1>3, AnswersStay
  <2> QED BY <1>3, <2>1 DEF OfInv, AtWork, Running, AtWorkPcs
\* The turns that are heard stay.
<1>4. ASSUME \A r \in Requests : answer'[r].of = answer[r].of,
             \A s \in Sessions : \A r \in W1(s) : r \in Requests /\ answer[r].of = None,
             \A p \in Requests : Work1(p) /\ T1(p) # {} =>
                \/ AtWork(p) /\ T1(p) = T(p) /\ (Run1(p) <=> Running(p))
                \/ T1(p) \subseteq W(SessionOf(p)) /\ ~Run1(p)
      PROVE  OfInv'
  <2>1. \A r \in Requests : answer[r].end = "unsent" => answer'[r].of = None
    BY <1>4 DEF OfInv
  <2>2. ASSUME NEW p \in Requests, Work1(p), NEW r \in T1(p)
        PROVE  answer'[r].of = IF Run1(p) THEN p ELSE None
    <3>1. CASE AtWork(p) /\ T1(p) = T(p) /\ (Run1(p) <=> Running(p))
      BY <1>1, <1>2, <1>4, <2>2, <3>1
    <3>2. CASE T1(p) \subseteq W(SessionOf(p)) /\ ~Run1(p)
      BY <1>1, <1>2, <1>4, <2>2, <3>2
    <3> QED BY <1>4, <2>2, <3>1, <3>2
  <2> QED BY <1>3, <1>4, <2>1, <2>2
<1>5. \A q, e : answer' = Ended(q, e) => \A r \in Requests : answer'[r].of = answer[r].of
  BY <1>1 DEF Ended, Answers
\* One processor goes to c.
<1>6. ASSUME NEW p \in Requests, NEW c, GoesTo(p, c), batch' = batch,
             \A r \in Requests : answer'[r].of = answer[r].of,
             c \in AtWorkPcs => \/ T(p) = {}
                                \/ AtWork(p) /\ (c \in {"asking", "titling"} <=> Running(p))
      PROVE  OfInv'
  BY <1>1, <1>2, <1>4, <1>6 DEF GoesTo, Goes, AtWork, Running, AtWorkPcs
<1>7. CASE UNCHANGED <<answer, batch, proc>>
  BY <1>1, <1>2, <1>4, <1>7 DEF AtWork, Running, AtWorkPcs
<1>8. ASSUME NEW r \in Requests, Submit(r) PROVE OfInv'
  <2> DEFINE s == SessionOf(r)
  <2>1. /\ s \in Sessions /\ batch' = [batch EXCEPT ![s] = Append(@, r)] /\ answer[r].of = None
        /\ answer' = [answer EXCEPT ![r].end = "open"] /\ proc[r].pc = "none" /\ T(r) = {}
    BY <1>1, <1>8 DEF Submit, OfInv, LifeInv
  <2>2. \A x \in Requests : answer'[x].of = answer[x].of
    BY <1>1, <2>1 DEF Answers
  <2>3. batch[s] \in Seq(Requests) /\ \A x \in Sessions : x # s => batch'[x] = batch[x]
    BY <1>1, <2>1
  <2>4. W1(s) = W(s) \cup {r}
    BY <1>1, <2>1, <2>3, SetOfAppend
  <2>5. \A x \in Sessions : \A y \in W1(x) : y \in Requests /\ answer[y].of = None
    BY <1>1, <1>2, <2>1, <2>3, <2>4
  <2>6. proc' = proc \/ GoesTo(r, "asleep")
    BY <1>8, ProcSteps
  <2>7. \A p \in Requests : Work1(p) /\ T1(p) # {} =>
           AtWork(p) /\ T1(p) = T(p) /\ (Run1(p) <=> Running(p))
    BY <2>1, <2>6 DEF GoesTo, Goes, AtWork, Running, AtWorkPcs
  <2> QED BY <1>4, <2>2, <2>5, <2>7
<1>9. ASSUME NEW p \in Requests, Arrive(p) PROVE OfInv'
  <2>1. GoesTo(p, "waiting") /\ UNCHANGED <<batch, answer>> /\ T(p) = {}
    BY <1>1, <1>9, ProcSteps DEF Arrive, LifeInv
  <2> QED BY <1>6, <2>1
<1>10. ASSUME NEW r \in Requests, CancelOne(r) PROVE OfInv'
  <2> DEFINE s == SessionOf(r)
  <2>1. PICK i \in DOMAIN batch[s] : batch' = [batch EXCEPT ![s] = RemoveAt(@, i)]
    BY <1>10 DEF CancelOne
  <2>2. /\ s \in Sessions /\ batch[s] \in Seq(Requests)
        /\ \A x \in Sessions : x # s => batch'[x] = batch[x]
        /\ batch'[s] = RemoveAt(batch[s], i)
    BY <1>1, <2>1
  <2>3. Distinct(batch[s])
    BY <2>2 DEF MailInv, BatchInv
  <2>4. W1(s) \subseteq W(s)
    BY <2>1, <2>2, <2>3, SetOfRemove
  <2>5. proc' = proc /\ \A x \in Requests : answer'[x].of = answer[x].of
    BY <1>5, <1>10 DEF CancelOne
  <2>6. \A x \in Sessions : W1(x) \subseteq W(x)
    BY <2>2, <2>4
  <2> QED BY <1>1, <1>2, <1>4, <2>5, <2>6 DEF AtWork, Running, AtWorkPcs
<1>11. ASSUME NEW s \in Sessions, CancelAll(s) PROVE OfInv'
  <2>1. \A x \in Sessions : W1(x) \subseteq W(x)
    BY <1>1, <1>11 DEF CancelAll
  <2>2. proc' = proc /\ \A x \in Requests : answer'[x].of = answer[x].of
    BY <1>5, <1>11 DEF CancelAll
  <2> QED BY <1>1, <1>2, <1>4, <2>1, <2>2 DEF AtWork, Running, AtWorkPcs
<1>12. ASSUME NEW p \in Requests, Wake(p) PROVE OfInv'
  <2> DEFINE s == SessionOf(p)
  <2>1. /\ answer' = answer /\ batch' = [batch EXCEPT ![s] = <<>>] /\ proc[p].pc = "asleep"
        /\ T(p) = {}
    BY <1>1, <1>12 DEF Wake, LifeInv
  <2>2. \A x \in Sessions : W1(x) \subseteq W(x)
    BY <1>1, <2>1
  <2>3. \/ proc'[p].pc = "over"
        \/ proc'[p].pc = "waiting" /\ T1(p) = W(s)
    BY <1>12, ProcSteps DEF GoesTo, Goes
  <2>4. \A q \in Requests : q # p => proc'[q] = proc[q]
    BY <1>12, ProcSteps DEF GoesTo, Goes
  <2>5. ASSUME NEW q \in Requests, Work1(q), T1(q) # {}
        PROVE  \/ AtWork(q) /\ T1(q) = T(q) /\ (Run1(q) <=> Running(q))
               \/ T1(q) \subseteq W(SessionOf(q)) /\ ~Run1(q)
    <3>1. CASE q = p
      BY <2>3, <2>5, <3>1 DEF AtWorkPcs
    <3>2. CASE q # p
      BY <2>4, <2>5, <3>2 DEF AtWork, Running, AtWorkPcs
    <3> QED BY <3>1, <3>2
  <2> QED BY <1>1, <1>2, <1>4, <2>1, <2>2, <2>5
\* The messages of p hear another turn; nobody else has them.
<1>13. ASSUME NEW p \in Requests, AtWork(p), NEW c, GoesTo(p, c) \/ Goes(p, c, proc[p].taken, proc[p].tokens, Len(hist[SessionOf(p)])),
              NEW t, batch' = batch,
              \A r \in Requests : answer'[r].of = IF r \in T(p) THEN t ELSE answer[r].of,
              c \in AtWorkPcs => c = "asking" /\ t = p
       PROVE  OfInv'
  <2>1. /\ proc'[p].pc = c /\ T1(p) = T(p)
        /\ \A q \in Requests : q # p => proc'[q] = proc[q]
    BY <1>13 DEF GoesTo, Goes
  <2>2. \A r \in Requests : answer[r].end = "unsent" => answer'[r].of = None
    BY <1>2, <1>13 DEF OfInv
  <2>3. ASSUME NEW s \in Sessions, NEW r \in W1(s) PROVE answer'[r].of = None
    BY <1>1, <1>2, <1>13, <2>3
  <2>4. ASSUME NEW q \in Requests, Work1(q), NEW r \in T1(q)
        PROVE  answer'[r].of = IF Run1(q) THEN q ELSE None
    <3>1. CASE q = p
      BY <1>1, <1>13, <2>1, <2>4, <3>1
    <3>2. CASE q # p
      <4>1. AtWork(q) /\ r \in T(q) /\ (Run1(q) <=> Running(q))
        BY <2>1, <2>4, <3>2 DEF AtWork, Running, AtWorkPcs
      <4>2. r \notin T(p) /\ r \in Requests
        BY <1>1, <1>2, <1>13, <3>2, <4>1
      <4> QED BY <1>2, <1>13, <4>1, <4>2
    <3> QED BY <3>1, <3>2
  <2> QED BY <1>3, <2>2, <2>3, <2>4
<1>14. ASSUME NEW p \in Requests, Replay(p) PROVE OfInv'
  <2>1. GoesTo(p, "over") /\ batch' = batch /\ AtWork(p)
    BY <1>14, ProcSteps DEF Replay, Holds, AtWork
  <2>2. \A r \in Requests : answer'[r].of = IF r \in T(p) THEN Known(p) ELSE answer[r].of
    BY <1>14 DEF Replay
  <2> QED BY <1>13, <2>1, <2>2 DEF AtWorkPcs
<1>15. ASSUME NEW p \in Requests, Begin(p) PROVE OfInv'
  <2>1. /\ Goes(p, "asking", proc[p].taken, proc[p].tokens, Len(hist[SessionOf(p)]))
        /\ batch' = batch /\ AtWork(p)
    BY <1>15, ProcSteps DEF Begin, Holds, AtWork
  <2>2. \A r \in Requests : answer'[r].of = IF r \in T(p) THEN p ELSE answer[r].of
    <3>1. CASE KindOf(p) = "chat"
      BY <1>1, <1>15, <3>1 DEF Begin, Answers
    <3>2. CASE KindOf(p) # "chat"
      BY <1>1, <1>15, <3>2 DEF Begin, LifeInv
    <3> QED BY <3>1, <3>2
  <2> QED BY <1>13, <2>1, <2>2
<1>16. ASSUME NEW p \in Requests, Token(p) PROVE OfInv'
  <2>1. /\ UNCHANGED <<answer, batch>> /\ proc[p].pc = "asking" /\ proc'[p].pc = "asking"
        /\ T1(p) = T(p) /\ \A q \in Requests : q # p => proc'[q] = proc[q]
    BY <1>16, ProcSteps DEF Token, Goes
  <2> QED BY <1>1, <1>2, <1>4, <2>1 DEF AtWork, Running, AtWorkPcs
<1>17. ASSUME NEW p \in Requests, Retry(p) \/ RecordThenTitle(p) PROVE OfInv'
  <2>1. /\ UNCHANGED <<answer, batch>> /\ Running(p) /\ AtWork(p)
        /\ GoesTo(p, "asking") \/ GoesTo(p, "titling")
    BY <1>17, ProcSteps DEF Retry, RecordThenTitle, Running, AtWork
  <2> QED BY <1>6, <2>1
<1>18. ASSUME NEW p \in Requests, Titled(p) \/ \E e \in {"done", "error"} : Finish(p, e) PROVE OfInv'
  <2>1. batch' = batch /\ GoesTo(p, "over")
    BY <1>18, ProcSteps DEF Titled, Finish, Close
  <2>2. \A r \in Requests : answer'[r].of = answer[r].of
    BY <1>5, <1>18 DEF Titled, Finish, Close
  <2> QED BY <1>6, <2>1, <2>2 DEF AtWorkPcs
<1>19. ASSUME NEW p \in Requests, FinishOther(p) \/ Cleared(p) PROVE OfInv'
  <2>1. UNCHANGED <<answer, batch>> /\ GoesTo(p, "gone")
    BY <1>19, ProcSteps DEF FinishOther, Cleared
  <2> QED BY <1>6, <2>1 DEF AtWorkPcs
<1>20. CASE Shutdown
  <2>1. /\ answer' = answer /\ \A p \in Requests : proc'[p].pc = "none"
        /\ \A s \in Sessions : batch'[s] = <<>>
    BY <1>20 DEF Shutdown, Unborn
  <2> QED BY <1>1, <1>4, <2>1 DEF AtWorkPcs
<1>21. ASSUME NEW r \in Requests, SelfRestart(r) PROVE OfInv'
  BY <1>7, <1>21 DEF SelfRestart
<1>22. ASSUME NEW s \in Sessions, Subscribe(s) \/ Unsubscribe(s) PROVE OfInv'
  BY <1>7, <1>22 DEF Subscribe, Unsubscribe
<1>23. CASE Drained \/ DrainTimeout \/ UNCHANGED vars
  BY <1>7, <1>23 DEF Drained, DrainTimeout, vars
<1> QED BY <1>8, <1>9, <1>10, <1>11, <1>12, <1>14, <1>15, <1>16, <1>17, <1>18, <1>19, <1>20, <1>21, <1>22,
           <1>23 DEF Next, Work

LEMMA RepliesKept ==
    ASSUME TypeOK, OnceInv, RepliesInv, [Next]_vars
    PROVE  RepliesInv'
<1> DEFINE H(s) == ToSet(hist[s])
           H1(s) == ToSet(hist'[s])
<1>0. cast' = cast /\ \A q : SessionOf(q)' = SessionOf(q) /\ KindOf(q)' = KindOf(q)
  BY CastKept DEF SessionOf, KindOf
<1>1. /\ \A q \in Requests : SessionOf(q) \in Sessions
      /\ hist \in [Sessions -> Seq(Requests)] /\ reply \in [Sessions -> [Ids -> Requests \cup {None}]]
  BY CastFacts DEF TypeOK
<1> SUFFICES ASSUME Up' PROVE RepliesInv'
  BY DEF RepliesInv
<1>2. /\ \A p \in Requests : proc[p].pc = "titling" => p \in H(SessionOf(p))
      /\ \A s \in Sessions : \A m \in Ids : reply[s][m] # None => reply[s][m] \in H(s)
  BY UpKept DEF RepliesInv
<1>3. ASSUME \A p \in Requests : proc'[p].pc = "titling" => p \in H1(SessionOf(p)),
             \A s \in Sessions : \A m \in Ids : reply'[s][m] # None => reply'[s][m] \in H1(s)
      PROVE  RepliesInv'
  BY <1>0, <1>3 DEF RepliesInv, SessionOf
<1>4. ASSUME \A s \in Sessions : H(s) \subseteq H1(s),
             \A p \in Requests : proc'[p].pc = "titling" => proc[p].pc = "titling" \/ p \in H1(SessionOf(p)),
             \A s \in Sessions : \A m \in Ids :
                reply'[s][m] = reply[s][m] \/ reply'[s][m] \in H1(s)
      PROVE  RepliesInv'
  BY <1>1, <1>2, <1>3, <1>4
\* Nothing is recorded or marked.
<1>5. ASSUME UNCHANGED <<hist, reply>>,
             \A p \in Requests : proc'[p].pc = "titling" => proc[p].pc = "titling"
      PROVE  RepliesInv'
  BY <1>4, <1>5
<1>6. ASSUME NEW p \in Requests, NEW c, NEW t, NEW k, NEW n, Goes(p, c, t, k, n), c # "titling",
             UNCHANGED <<hist, reply>>
      PROVE  RepliesInv'
  BY <1>5, <1>6 DEF Goes
<1>7. CASE UNCHANGED <<proc, hist, reply>>
  BY <1>5, <1>7
\* A turn is recorded.
<1>8. ASSUME NEW p \in Requests, hist' = [hist EXCEPT ![SessionOf(p)] = Append(@, p)]
      PROVE  p \in H1(SessionOf(p)) /\ \A s \in Sessions : H(s) \subseteq H1(s)
  <2>1. /\ SessionOf(p) \in Sessions /\ hist[SessionOf(p)] \in Seq(Requests)
        /\ hist'[SessionOf(p)] = Append(hist[SessionOf(p)], p)
        /\ \A s \in Sessions : s # SessionOf(p) => hist'[s] = hist[s]
    BY <1>1, <1>8
  <2>2. H1(SessionOf(p)) = H(SessionOf(p)) \cup {p}
    BY <2>1, SetOfAppend
  <2> QED BY <2>1, <2>2
<1>9. ASSUME NEW p \in Requests, p \in H1(SessionOf(p))
      PROVE  \A s \in Sessions : \A m \in Ids : Marked(p)[s][m] = reply[s][m] \/ Marked(p)[s][m] \in H1(s)
  <2>1. /\ \A s \in Sessions : s # SessionOf(p) => Marked(p)[s] = reply[s]
        /\ \A m \in Ids : Marked(p)[SessionOf(p)][m] = p \/ Marked(p)[SessionOf(p)][m] = reply[SessionOf(p)][m]
    BY <1>1 DEF Marked
  <2> QED BY <1>9, <2>1
<1>10. ASSUME NEW p \in Requests,
              Submit(p) \/ Arrive(p) \/ Wake(p) \/ Replay(p) \/ Begin(p) \/ Token(p) \/ Retry(p) \/ Cleared(p)
       PROVE  RepliesInv'
  <2>1. UNCHANGED <<hist, reply>>
    BY <1>10 DEF Submit, Arrive, Wake, Replay, Begin, Token, Retry, Cleared
  <2>2. \/ proc' = proc
        \/ /\ proc'[p].pc # "titling"
           /\ \A q \in Requests : q # p => proc'[q] = proc[q]
    BY <1>10, ProcSteps DEF GoesTo, Goes
  <2> QED BY <1>5, <2>1, <2>2
<1>11. ASSUME NEW p \in Requests, RecordThenTitle(p) PROVE RepliesInv'
  <2>1. /\ reply' = reply /\ GoesTo(p, "titling")
        /\ hist' = [hist EXCEPT ![SessionOf(p)] = Append(@, p)]
    BY <1>11, ProcSteps DEF RecordThenTitle
  <2>2. \A q \in Requests : proc'[q].pc = "titling" => proc[q].pc = "titling" \/ q = p
    BY <2>1 DEF GoesTo, Goes
  <2> QED BY <1>4, <1>8, <2>1, <2>2
<1>12. ASSUME NEW p \in Requests, Titled(p) PROVE RepliesInv'
  <2>1. /\ reply' = Marked(p) /\ GoesTo(p, "over") /\ hist' = hist /\ proc[p].pc = "titling"
    BY <1>12, ProcSteps DEF Titled, Close
  <2>2. \A q \in Requests : proc'[q].pc = "titling" => proc[q].pc = "titling"
    BY <2>1 DEF GoesTo, Goes
  <2>3. p \in H1(SessionOf(p))
    BY <1>2, <2>1
  <2> QED BY <1>4, <1>9, <2>1, <2>2, <2>3
<1>13. ASSUME NEW p \in Requests, NEW e \in {"done", "error"}, Finish(p, e) PROVE RepliesInv'
  <2>1. /\ reply' = Marked(p) /\ GoesTo(p, "over")
        /\ hist' = [hist EXCEPT ![SessionOf(p)] = Append(@, p)]
    BY <1>13, ProcSteps DEF Finish, Close
  <2>2. \A q \in Requests : proc'[q].pc = "titling" => proc[q].pc = "titling"
    BY <2>1 DEF GoesTo, Goes
  <2> QED BY <1>4, <1>8, <1>9, <2>1, <2>2
<1>14. ASSUME NEW p \in Requests, FinishOther(p) PROVE RepliesInv'
  <2>1. /\ reply' = reply /\ GoesTo(p, "gone")
        /\ hist' = hist \/ hist' = [hist EXCEPT ![SessionOf(p)] = Append(@, p)]
    BY <1>14, ProcSteps DEF FinishOther
  <2>2. \A q \in Requests : proc'[q].pc = "titling" => proc[q].pc = "titling"
    BY <2>1 DEF GoesTo, Goes
  <2> QED BY <1>4, <1>5, <1>8, <2>1, <2>2
<1>15. ~Shutdown
  BY DEF Shutdown, Up
<1>16. ASSUME NEW r \in Requests, CancelOne(r) \/ SelfRestart(r) PROVE RepliesInv'
  BY <1>7, <1>16 DEF CancelOne, SelfRestart
<1>17. ASSUME NEW s \in Sessions, CancelAll(s) \/ Subscribe(s) \/ Unsubscribe(s) PROVE RepliesInv'
  BY <1>7, <1>17 DEF CancelAll, Subscribe, Unsubscribe
<1>18. CASE Drained \/ DrainTimeout \/ UNCHANGED vars
  BY <1>7, <1>18 DEF Drained, DrainTimeout, vars
<1> QED BY <1>10, <1>11, <1>12, <1>13, <1>14, <1>15, <1>16, <1>17, <1>18 DEF Next, Work

-----------------------------------------------------------------------------
(* What a client has of a message: nothing of a turn before the last frame.*)
Seen(a) == [of |-> IF a.end \in {"done", "error"} THEN a.of ELSE None, end |-> a.end]
Shown == [r \in Requests |-> Seen(answer[r])]
Home == [r \in Requests |-> SessionOf(r)]

Promise == INSTANCE ChatPromise WITH
               Request <- Requests, Session <- Sessions, NoTurn <- None,
               home <- Home, frame <- Shown, history <- hist

KeepsPromise == Promise!Spec

LEMMA SeenFacts ==
    ASSUME NEW a, NEW b
    PROVE  /\ Seen(a).end = a.end
           /\ a.end = b.end /\ (a.of = b.of \/ a.end \in {"open", "unsent"}) => Seen(a) = Seen(b)
           /\ a.end = "unsent" /\ b.end = "open" => Seen(b) = [Seen(a) EXCEPT !.end = "open"]
<1>1. CASE a.end \in {"done", "error"}
  BY <1>1 DEF Seen
<1>2. CASE a.end \notin {"done", "error"}
  <2>1. Seen(a) = [of |-> None, end |-> a.end]
    BY <1>2 DEF Seen
  <2>2. b.end \notin {"done", "error"} => Seen(b) = [of |-> None, end |-> b.end]
    BY DEF Seen
  <2> QED BY <1>2, <2>1, <2>2
<1> QED BY <1>1, <1>2

LEMMA SeenLast ==
    ASSUME NEW t, NEW e \in {"done", "error"}
    PROVE  Seen([of |-> t, end |-> e]) = [of |-> t, end |-> e]
BY DEF Seen

LEMMA PromiseStep ==
    ASSUME ChatInv, OfInv, RepliesInv, [Next]_vars
    PROVE  [Promise!Next]_(Promise!promiseVars)
<1> DEFINE T(p) == ToSet(proc[p].taken)
           H(s) == ToSet(hist[s])
<1>0. TypeOK /\ MailInv /\ OnceInv /\ LifeInv /\ LockInv
  BY DEF ChatInv
<1>1. /\ \A q \in Requests : SessionOf(q) \in Sessions /\ T(q) \subseteq Requests
      /\ hist \in [Sessions -> Seq(Requests)] /\ answer \in [Requests -> Answers]
      /\ None \notin Requests
  <2>1. \A q \in Requests : SessionOf(q) \in Sessions
    BY <1>0, CastFacts DEF TypeOK
  <2>2. \A q \in Requests : proc[q].taken \in Seq(Requests)
    BY <1>0 DEF TypeOK, Processors
  <2> QED BY <1>0, <2>1, <2>2, ChatConstants DEF TypeOK, ToSet
<1>2. Home' = Home /\ \A q \in Requests : Home[q] = SessionOf(q)
  BY CastKept DEF Home, SessionOf
<1>3. /\ \A r \in Requests : Shown[r] = Seen(answer[r]) /\ Shown'[r] = Seen(answer'[r])
      /\ \A r \in Requests : Shown[r].end = answer[r].end
  BY SeenFacts DEF Shown
<1> DEFINE Given(Q, t, e) == [r \in Requests |-> IF r \in Q THEN [of |-> t, end |-> e] ELSE Shown[r]]
<1>3a. ASSUME NEW Q, NEW t, NEW e,
              \A r \in Requests : Shown'[r] = IF r \in Q THEN [of |-> t, end |-> e] ELSE Shown[r]
       PROVE  Shown' = Given(Q, t, e)
  BY <1>3a DEF Shown
<1>4. \A s \in Sessions : Promise!Recorded(s) = H(s)
  BY DEF Promise!Recorded, ToSet
\* Nobody sees anything.
<1>5. ASSUME Shown' = Shown, hist' = hist PROVE UNCHANGED Promise!promiseVars
  BY <1>2, <1>5 DEF Promise!promiseVars
<1>6. ASSUME answer' = answer PROVE Shown' = Shown
  BY <1>6 DEF Shown
\* Messages that have heard nothing end without a turn.
<1>7. ASSUME NEW q, ToSet(q) \subseteq Requests, answer' = Ended(q, "done"), hist' = hist,
             \A r \in ToSet(q) : answer[r].end = "open" /\ answer[r].of = None
      PROVE  Promise!Next
  <2>1. Promise!Open(ToSet(q))
    BY <1>3, <1>7 DEF Promise!Open
  <2>2. \A r \in Requests : answer'[r] = IF r \in ToSet(q) THEN [of |-> None, end |-> "done"]
                                                           ELSE answer[r]
    BY <1>1, <1>7 DEF Ended, Answers
  <2>3. \A r \in Requests :
           Shown'[r] = IF r \in ToSet(q) THEN [of |-> None, end |-> "done"] ELSE Shown[r]
    BY <1>3, <2>2, SeenLast
  <2>5. Shown' = Given(ToSet(q), None, "done")
    BY <1>3a, <2>3
  <2>4. Promise!Cancel(ToSet(q))
    BY <1>2, <1>7, <2>1, <2>5 DEF Promise!Cancel, Promise!LastFrame
  <2> QED BY <1>7, <2>4 DEF Promise!Next
\* Messages end with a turn, recorded before or now.
<1>8. ASSUME NEW Q \in SUBSET Requests, NEW t \in Requests, NEW e \in {"done", "error"},
             \A r \in Q : answer[r].end = "open" /\ SessionOf(r) = SessionOf(t),
             \A r \in Requests : answer'[r] = IF r \in Q THEN [of |-> t, end |-> e] ELSE answer[r],
             \/ t \in H(SessionOf(t)) /\ hist' = hist
             \/ t \notin H(SessionOf(t)) /\ hist' = [hist EXCEPT ![SessionOf(t)] = Append(@, t)]
      PROVE  Promise!Next
  <2>1. Promise!Open(Q) /\ \A r \in Q : Home[r] = Home[t]
    BY <1>2, <1>3, <1>8 DEF Promise!Open
  <2>5. \A r \in Requests : Shown'[r] = IF r \in Q THEN [of |-> t, end |-> e] ELSE Shown[r]
    <3>1. \A r \in Requests : Shown'[r] = Seen(answer'[r]) /\ Shown[r] = Seen(answer[r])
      BY <1>3
    <3>2. \A r \in Q : answer'[r] = [of |-> t, end |-> e]
      BY <1>8
    <3>3. \A r \in Requests : r \notin Q => answer'[r] = answer[r]
      BY <1>8
    <3>4. Seen([of |-> t, end |-> e]) = [of |-> t, end |-> e]
      BY SeenLast
    <3> QED BY <3>1, <3>2, <3>3, <3>4
  <2>2. Shown' = Given(Q, t, e)
    BY <1>3a, <2>5
  <2>3. Promise!New(t) <=> t \notin H(SessionOf(t))
    BY <1>1, <1>2, <1>4 DEF Promise!New
  <2>4. Promise!Answer(Q, t, e)
    BY <1>2, <1>8, <2>1, <2>2, <2>3 DEF Promise!Answer, Promise!LastFrame
  <2> QED BY <2>4 DEF Promise!Next
\* A turn is recorded.
<1>9. ASSUME NEW p \in Requests, p \notin H(SessionOf(p)), answer' = answer,
             hist' = [hist EXCEPT ![SessionOf(p)] = Append(@, p)]
      PROVE  Promise!Next
  <2>1. Promise!New(p)
    BY <1>1, <1>2, <1>4, <1>9 DEF Promise!New
  <2>2. Promise!Record(p)
    BY <1>2, <1>6, <1>9, <2>1 DEF Promise!Record
  <2> QED BY <2>2 DEF Promise!Next
<1>10. ASSUME NEW p \in Requests, Up, proc[p].pc = "asking" PROVE p \notin H(SessionOf(p))
  <2> SUFFICES ASSUME p \in H(SessionOf(p)) PROVE FALSE
    OBVIOUS
  <2>1. PICK i \in DOMAIN hist[SessionOf(p)] : hist[SessionOf(p)][i] = p
    BY DEF ToSet
  <2>2. SessionOf(p) \in Sessions
    BY <1>1
  <2>3. proc[p].pc \in {"titling", "over", "gone"}
    BY <1>0, <1>10, <2>1, <2>2 DEF OnceInv, Recorded
  <2> QED BY <1>10, <2>3
<1>11. \A p \in Requests : AtWork(p) => \A r \in T(p) :
          /\ answer[r].end = "open" /\ SessionOf(r) = SessionOf(p)
          /\ answer[r].of = IF Running(p) THEN p ELSE None
  BY <1>0 DEF MailInv, TakenInv, OfInv
<1>12. \A s \in Sessions : \A r \in ToSet(batch[s]) :
          r \in Requests /\ answer[r].end = "open" /\ answer[r].of = None
  BY <1>0 DEF MailInv, BatchInv, OfInv, TypeOK, ToSet
<1>13. ASSUME NEW r \in Requests, Submit(r) PROVE Promise!Next
  <2>1. /\ answer[r].end = "unsent" /\ answer' = [answer EXCEPT ![r].end = "open"]
        /\ hist' = hist /\ answer[r].of = None
    BY <1>13 DEF Submit, OfInv
  <2>2. \A q \in Requests : Shown'[q] = IF q = r THEN [Shown[q] EXCEPT !.end = "open"] ELSE Shown[q]
    <3>1. /\ answer'[r].end = "open"
          /\ \A q \in Requests : q # r => answer'[q] = answer[q]
      BY <1>1, <2>1 DEF Answers
    <3>2. Seen(answer'[r]) = [Seen(answer[r]) EXCEPT !.end = "open"]
      BY <2>1, <3>1, SeenFacts
    <3> QED BY <1>3, <3>1, <3>2
  <2>3. Shown' = [Shown EXCEPT ![r].end = "open"]
    BY <2>2 DEF Shown
  <2>4. Promise!Post(r)
    BY <1>2, <1>3, <2>1, <2>3 DEF Promise!Post
  <2> QED BY <2>4 DEF Promise!Next
<1>14. ASSUME NEW r \in Requests, CancelOne(r) PROVE Promise!Next
  <2>1. r \in ToSet(batch[SessionOf(r)]) /\ answer' = Ended(<<r>>, "done") /\ hist' = hist
    BY <1>14 DEF CancelOne, ToSet
  <2>2. ToSet(<<r>>) = {r}
    BY DEF ToSet
  <2> QED BY <1>1, <1>7, <1>12, <2>1, <2>2
<1>15. ASSUME NEW s \in Sessions, CancelAll(s) PROVE Promise!Next
  <2>1. answer' = Ended(batch[s], "done") /\ hist' = hist
    BY <1>15 DEF CancelAll
  <2>2. ToSet(batch[s]) \subseteq Requests
    BY <1>12
  <2> QED BY <1>7, <1>12, <2>1, <2>2
<1>16. ASSUME NEW p \in Requests, Replay(p) PROVE Promise!Next
  <2> DEFINE t == Known(p)
             m == IdOf(Head(proc[p].taken))
  <2>1. /\ AtWork(p) /\ KindOf(p) = "chat" /\ proc[p].pc = "waiting" /\ t # None /\ Up /\ hist' = hist
        /\ \A r \in Requests : answer'[r] = IF r \in T(p) THEN [of |-> t, end |-> "done"] ELSE answer[r]
    BY <1>16 DEF Replay, Holds, AtWork
  <2>2. m # NoId /\ t = reply[SessionOf(p)][m]
    BY <2>1 DEF Known
  <2>3. proc[p].taken \in Seq(Requests) /\ proc[p].taken # <<>>
    BY <1>0, <2>1 DEF TypeOK, Processors, LifeInv
  <2>4. Head(proc[p].taken) \in Requests
    BY <2>3
  <2>5. m \in Ids
    BY <1>0, <2>2, <2>4, CastFacts DEF TypeOK
  <2>6. t \in H(SessionOf(p))
    BY <1>1, <2>1, <2>2, <2>5 DEF RepliesInv
  <2>7. PICK i \in DOMAIN hist[SessionOf(p)] : hist[SessionOf(p)][i] = t
    BY <2>6 DEF ToSet
  <2>8. t \in Requests /\ SessionOf(t) = SessionOf(p)
    BY <1>0, <1>1, <2>1, <2>7 DEF OnceInv, Recorded
  <2>9. T(p) \in SUBSET Requests /\ \A r \in T(p) : answer[r].end = "open" /\ SessionOf(r) = SessionOf(t)
    BY <1>1, <1>11, <2>1, <2>8
  <2>10. t \in H(SessionOf(t))
    BY <2>6, <2>8
  <2>11. \A r \in Requests : answer'[r] = IF r \in T(p) THEN [of |-> t, end |-> "done"] ELSE answer[r]
    BY <2>1
  <2> HIDE DEF t, T, H
  <2> QED BY <1>8, <2>1, <2>8, <2>9, <2>10, <2>11
<1>17. ASSUME NEW p \in Requests, Begin(p) PROVE Shown' = Shown /\ hist' = hist
  <2>1. AtWork(p) /\ hist' = hist
    BY <1>17 DEF Begin, Holds, AtWork
  <2>2. \/ answer' = answer
        \/ answer' = [r \in Requests |-> IF r \in T(p) THEN [answer[r] EXCEPT !.of = p] ELSE answer[r]]
    BY <1>17 DEF Begin
  <2>3. CASE answer' = answer
    BY <1>6, <2>1, <2>3
  <2>4. CASE answer' = [r \in Requests |-> IF r \in T(p) THEN [answer[r] EXCEPT !.of = p] ELSE answer[r]]
    <3>2. \A r \in Requests : /\ answer'[r].end = answer[r].end
                              /\ answer'[r].of = answer[r].of \/ answer[r].end = "open"
      BY <1>1, <1>11, <2>1, <2>4 DEF Answers
    <3>1. \A r \in Requests : Shown'[r] = Shown[r]
      BY <1>3, <3>2, SeenFacts
    <3> QED BY <2>1, <3>1 DEF Shown
  <2> QED BY <2>2, <2>3, <2>4
<1>18. ASSUME NEW p \in Requests, NEW e \in {"done", "error"}, Running(p), Close(p, e)
       PROVE  \A r \in Requests : answer'[r] = IF r \in T(p) THEN [of |-> p, end |-> e] ELSE answer[r]
  <2>1. AtWork(p)
    BY <1>18 DEF Running, AtWork
  <2>2. \A r \in T(p) : answer[r].of = p
    BY <1>11, <1>18, <2>1
  <2> QED BY <1>1, <1>18, <2>2 DEF Close, Ended, Answers
<1>19. ASSUME NEW p \in Requests, Titled(p) PROVE Promise!Next
  <2>1. Up /\ proc[p].pc = "titling" /\ hist' = hist /\ Running(p) /\ AtWork(p) /\ Close(p, "done")
    BY <1>19 DEF Titled, Running, AtWork
  <2>2. p \in H(SessionOf(p))
    BY <2>1 DEF RepliesInv
  <2>3. \A r \in Requests : answer'[r] = IF r \in T(p) THEN [of |-> p, end |-> "done"] ELSE answer[r]
    BY <1>18, <2>1
  <2>4. T(p) \in SUBSET Requests /\ \A r \in T(p) : answer[r].end = "open" /\ SessionOf(r) = SessionOf(p)
    BY <1>1, <1>11, <2>1
  <2> HIDE DEF T, H
  <2> QED BY <1>8, <2>1, <2>2, <2>3, <2>4
<1>20. ASSUME NEW p \in Requests, NEW e \in {"done", "error"}, Finish(p, e) PROVE Promise!Next
  <2>1. /\ Up /\ proc[p].pc = "asking" /\ Running(p) /\ AtWork(p) /\ Close(p, e)
        /\ hist' = [hist EXCEPT ![SessionOf(p)] = Append(@, p)]
    BY <1>20 DEF Finish, Running, AtWork
  <2>2. p \notin H(SessionOf(p))
    BY <1>10, <2>1
  <2>3. \A r \in Requests : answer'[r] = IF r \in T(p) THEN [of |-> p, end |-> e] ELSE answer[r]
    BY <1>18, <2>1
  <2>4. T(p) \in SUBSET Requests /\ \A r \in T(p) : answer[r].end = "open" /\ SessionOf(r) = SessionOf(p)
    BY <1>1, <1>11, <2>1
  <2> HIDE DEF T, H
  <2> QED BY <1>8, <2>1, <2>2, <2>3, <2>4
<1>21. ASSUME NEW p \in Requests, RecordThenTitle(p) PROVE Promise!Next
  BY <1>9, <1>10, <1>21 DEF RecordThenTitle
<1>22. ASSUME NEW p \in Requests, FinishOther(p)
       PROVE  Promise!Next \/ (answer' = answer /\ hist' = hist)
  <2>1. /\ Up /\ proc[p].pc = "asking" /\ answer' = answer
        /\ hist' = hist \/ hist' = [hist EXCEPT ![SessionOf(p)] = Append(@, p)]
    BY <1>22 DEF FinishOther
  <2>2. p \notin H(SessionOf(p))
    BY <1>10, <2>1
  <2> HIDE DEF H
  <2>3. CASE hist' = [hist EXCEPT ![SessionOf(p)] = Append(@, p)]
    <3>1. p \in Requests /\ answer' = answer /\ p \notin H(SessionOf(p))
          /\ hist' = [hist EXCEPT ![SessionOf(p)] = Append(@, p)]
      BY <2>1, <2>2, <2>3
    <3>2. Promise!Next
      BY <1>9, <3>1
    <3> QED BY <3>2
  <2> QED BY <2>1, <2>3
<1>23. ASSUME NEW r \in Requests,
              Arrive(r) \/ SelfRestart(r) \/ Wake(r) \/ Cleared(r) \/ Token(r) \/ Retry(r)
       PROVE  answer' = answer /\ hist' = hist
  BY <1>23 DEF Arrive, SelfRestart, Wake, Cleared, Token, Retry
<1>24. ASSUME NEW s \in Sessions, Subscribe(s) \/ Unsubscribe(s) PROVE answer' = answer /\ hist' = hist
  BY <1>24 DEF Subscribe, Unsubscribe
<1>25. CASE Drained \/ DrainTimeout \/ Shutdown \/ UNCHANGED vars
  <2>1. answer' = answer /\ hist' = hist
    BY <1>25 DEF Drained, DrainTimeout, Shutdown, vars
  <2> QED BY <1>5, <1>6, <2>1
<1>26. ASSUME NEW r \in Requests, Submit(r) \/ Arrive(r) \/ CancelOne(r) \/ SelfRestart(r)
       PROVE  [Promise!Next]_(Promise!promiseVars)
  BY <1>5, <1>6, <1>13, <1>14, <1>23, <1>26
<1>27. ASSUME NEW p \in Requests, Work(p) \/ Token(p) \/ Retry(p) \/ RecordThenTitle(p)
       PROVE  [Promise!Next]_(Promise!promiseVars)
  BY <1>5, <1>6, <1>16, <1>17, <1>19, <1>20, <1>21, <1>22, <1>23, <1>27 DEF Work
<1>28. ASSUME NEW s \in Sessions, CancelAll(s) \/ Subscribe(s) \/ Unsubscribe(s)
       PROVE  [Promise!Next]_(Promise!promiseVars)
  BY <1>5, <1>6, <1>15, <1>24, <1>28
<1> QED BY <1>25, <1>26, <1>27, <1>28 DEF Next

LEMMA PromiseInvariants == Spec => [](OfInv /\ RepliesInv)
<1>1. ASSUME Init PROVE OfInv /\ RepliesInv
  <2>1. /\ \A r \in Requests : answer[r].of = None /\ proc[r].pc = "none"
        /\ \A s \in Sessions : batch[s] = <<>> /\ \A m \in Ids : reply[s][m] = None
    BY <1>1 DEF Init, Unborn
  <2>2. ToSet(<<>>) = {}
    BY DEF ToSet
  <2> QED BY <2>1, <2>2 DEF OfInv, RepliesInv, AtWork
<1>2. ChatInv /\ OfInv /\ RepliesInv /\ [Next]_vars => (OfInv /\ RepliesInv)'
  BY OfKept, RepliesKept DEF ChatInv
<1> QED BY <1>1, <1>2, ChatInvHolds, PTL DEF Spec

(* A message has one last frame, and the turn that it ends with is in the  *)
(* history of its session by then, whoever cancels, repeats, interrupts or *)
(* restarts what; a history grows by one turn, never by the same again     *)
(* (chat.py, _process_batch; conversation.py, record).                     *)
THEOREM ChatKeepsItsPromise == Spec => KeepsPromise
<1>1. Init => Promise!Init
  <2> SUFFICES ASSUME Init PROVE Promise!Init
    OBVIOUS
  <2>1. cast \in Casts /\ \A r \in Requests : answer[r] = [of |-> None, end |-> "unsent"]
    BY DEF Init
  <2>2. \A r \in Requests : SessionOf(r) \in Sessions
    BY <2>1, CastFacts
  <2>3. Shown = [r \in Requests |-> [of |-> None, end |-> "unsent"]]
    BY <2>1 DEF Shown, Seen
  <2>4. Home \in [Requests -> Sessions]
    BY <2>2 DEF Home
  <2> QED BY <2>3, <2>4 DEF Promise!Init, Init
<1>2. ChatInv /\ OfInv /\ RepliesInv /\ [Next]_vars => [Promise!Next]_(Promise!promiseVars)
  BY PromiseStep
<1> QED BY <1>1, <1>2, ChatInvHolds, PromiseInvariants, PTL DEF Spec, KeepsPromise, Promise!Spec

-----------------------------------------------------------------------------
(***************************************************************************)
(* Why messages are answered.  A message that waits has a processor that   *)
(* serves it, and that processor or one before it in the queue of the lock *)
(* can take a step; each step of a processor lowers its rank, and nothing  *)
(* raises it.  What is left of EveryMessageAnswered is the fairness.       *)
(***************************************************************************)
Serves(p, r) ==
    \/ proc[p].pc = "asleep" /\ SessionOf(p) = SessionOf(r) /\ r \in ToSet(batch[SessionOf(r)])
    \/ AtWork(p) /\ r \in ToSet(proc[p].taken)
(* Wake, Replay or Begin, Finish or FinishOther, Titled.                   *)
CanWork(p) == proc[p].pc = "asleep" \/ Holds(p) \/ Running(p)
SomeoneServes ==
    Up => \A r \in Requests : answer[r].end = "open" =>
             \E p \in Requests :
                /\ Serves(p, r)
                /\ CanWork(p) \/ \E q \in Requests : CanWork(q) /\ LockOf(q) = LockOf(p)

(* A message that waits for its last frame has a processor, and if that    *)
(* one waits, the turn it waits for can go on: no cycle of processors,     *)
(* locks and batches strands a message.                                    *)
THEOREM NoMessageIsStuck == Spec => []SomeoneServes
<1>1. ASSUME ChatInv PROVE SomeoneServes
  <2> SUFFICES ASSUME Up, NEW r \in Requests, answer[r].end = "open"
               PROVE  \E p \in Requests :
                         /\ Serves(p, r)
                         /\ CanWork(p) \/ \E q \in Requests : CanWork(q) /\ LockOf(q) = LockOf(p)
    BY DEF SomeoneServes
  <2>1. TypeOK /\ LockInv /\ Placed(r) /\ BatchHasProcessor /\ SessionOf(r) \in Sessions
    BY <1>1, CastFacts DEF ChatInv, MailInv, OpenInv, TypeOK
  <2>2. CASE r \in ToSet(batch[SessionOf(r)])
    <3>1. batch[SessionOf(r)] # <<>>
      BY <2>2 DEF ToSet
    <3>2. PICK p \in Requests : proc[p].pc = "asleep" /\ SessionOf(p) = SessionOf(r)
      BY <2>1, <3>1 DEF BatchHasProcessor
    <3> QED BY <2>2, <3>2 DEF Serves, CanWork
  <2>3. ASSUME NEW p \in Requests, AtWork(p), r \in ToSet(proc[p].taken)
        PROVE  CanWork(p) \/ \E q \in Requests : CanWork(q) /\ LockOf(q) = LockOf(p)
    <3>1. CASE proc[p].pc # "waiting"
      BY <2>3, <3>1 DEF AtWork, CanWork, Running
    <3>2. CASE proc[p].pc = "waiting"
      <4> DEFINE k == LockOf(p)
                 q == Head(line[k])
      <4>1. k \in Locks /\ line[k] \in Seq(Requests)
        BY <2>1, CastFacts DEF TypeOK
      <4>2. PICK i \in DOMAIN line[k] : line[k][i] = p
        BY <2>1, <3>2 DEF LockInv, InLine
      <4>3. 1 \in DOMAIN line[k] /\ q = line[k][1] /\ q \in Requests
        BY <4>1, <4>2
      <4>4. LockOf(q) = k /\ InLine(q)
        BY <2>1, <4>1, <4>3 DEF LockInv
      <4>5. CanWork(q)
        BY <4>4 DEF InLine, CanWork, Holds, Running
      <4> QED BY <4>3, <4>4, <4>5
    <3> QED BY <3>1, <3>2
  <2> QED BY <2>1, <2>2, <2>3 DEF Placed, Serves
<1> QED BY <1>1, ChatInvHolds, PTL

-----------------------------------------------------------------------------
(* What a processor has used of its turn.                                  *)
UseInv ==
    \A p \in Requests :
       /\ proc[p].tokens <= cast.tokens /\ proc[p].tries < cast.tries
       /\ proc[p].pc \in {"none", "asleep", "waiting"} => proc[p].tries = 0

(* The steps that a processor can still take.                              *)
Left(p) == (cast.tokens - proc[p].tokens) + (cast.tries - proc[p].tries)
Rank(p) ==
    IF ~Up THEN 0
    ELSE CASE proc[p].pc = "none"    -> Left(p) + 6
           [] proc[p].pc = "asleep"  -> Left(p) + 5
           [] proc[p].pc = "waiting" -> Left(p) + 4
           [] proc[p].pc = "asking"  -> Left(p) + 3
           [] proc[p].pc = "titling" -> 2
           [] proc[p].pc = "over"    -> 1
           [] OTHER -> 0

Works(p) == Work(p) \/ Token(p) \/ Retry(p) \/ RecordThenTitle(p)
ProcessorsShorten ==
    [][\A p \in Requests : /\ Rank(p)' <= Rank(p)
                           /\ Works(p) => Rank(p)' < Rank(p)]_vars

LEMMA UseFacts ==
    ASSUME TypeOK, UseInv, NEW p \in Requests
    PROVE  /\ cast.tokens \in Nat /\ cast.tries \in Nat \ {0}
           /\ proc[p].tokens \in Nat /\ proc[p].tries \in Nat
           /\ Left(p) \in Nat /\ proc[p].pc \in Pcs /\ Rank(p) \in Nat
<1>1. cast.tokens \in Nat /\ cast.tries \in Nat \ {0}
  BY ChatConstants DEF TypeOK
<1>2. proc[p].tokens \in Nat /\ proc[p].tries \in Nat /\ proc[p].pc \in Pcs
  BY DEF TypeOK, Processors, Pcs
<1>3. proc[p].tokens <= cast.tokens /\ proc[p].tries < cast.tries
  BY DEF UseInv
<1>4. Left(p) \in Nat
  BY <1>1, <1>2, <1>3 DEF Left
<1>5. Rank(p) \in Nat
  BY <1>2, <1>4 DEF Rank, Pcs
<1> QED BY <1>1, <1>2, <1>4, <1>5

(* The attempts at a turn: one more when it is tried again.                *)
LEMMA TriesStay ==
    ASSUME TypeOK, [Next]_vars, Up', NEW q \in Requests
    PROVE  \/ proc'[q].tries = proc[q].tries
           \/ Retry(q) /\ proc'[q].tries = proc[q].tries + 1
<1>1. proc \in [Requests -> Processors]
  BY DEF TypeOK
<1>2. ASSUME NEW p \in Requests, NEW c, proc' = [proc EXCEPT ![p].pc = c]
      PROVE  proc'[q].tries = proc[q].tries
  BY <1>1, <1>2 DEF Processors
<1>3. CASE proc' = proc
  BY <1>3
<1>4. ASSUME NEW p \in Requests,
             \/ Submit(p) \/ Arrive(p) \/ Replay(p) \/ Titled(p) \/ Cleared(p) \/ FinishOther(p)
             \/ RecordThenTitle(p) \/ \E e \in {"done", "error"} : Finish(p, e)
      PROVE  proc'[q].tries = proc[q].tries
  BY <1>2, <1>3, <1>4 DEF Submit, Arrive, Replay, Titled, Cleared, FinishOther, RecordThenTitle, Finish
<1>5. ASSUME NEW p \in Requests, Wake(p) PROVE proc'[q].tries = proc[q].tries
  <2>1. CASE batch[SessionOf(p)] = <<>>
    BY <1>2, <1>5, <2>1 DEF Wake
  <2>2. CASE batch[SessionOf(p)] # <<>>
    <3>1. proc' = [proc EXCEPT ![p] = [proc[p] EXCEPT !.pc = "waiting", !.taken = batch[SessionOf(p)]]]
      BY <1>1, <1>5, <2>2 DEF Wake
    <3> QED BY <1>1, <3>1 DEF Processors
  <2> QED BY <2>1, <2>2
<1>6. ASSUME NEW p \in Requests, Begin(p) PROVE proc'[q].tries = proc[q].tries
  <2>1. proc' = [proc EXCEPT ![p] = [proc[p] EXCEPT !.pc = "asking", !.seen = Len(hist[SessionOf(p)])]]
    BY <1>1, <1>6 DEF Begin
  <2> QED BY <1>1, <2>1 DEF Processors
<1>7. ASSUME NEW p \in Requests, Token(p) PROVE proc'[q].tries = proc[q].tries
  <2>1. proc' = [proc EXCEPT ![p] = [proc[p] EXCEPT !.tokens = @ + 1]]
    BY <1>1, <1>7 DEF Token
  <2> QED BY <1>1, <2>1 DEF Processors
<1>8. ASSUME NEW p \in Requests, Retry(p)
      PROVE  proc'[q].tries = IF q = p THEN proc[q].tries + 1 ELSE proc[q].tries
  <2>1. proc' = [proc EXCEPT ![p] = [proc[p] EXCEPT !.tries = @ + 1]]
    BY <1>1, <1>8 DEF Retry
  <2> QED BY <1>1, <2>1 DEF Processors
<1>9. ~Shutdown
  BY DEF Shutdown, Up
<1>10. CASE \/ \E r \in Requests : CancelOne(r) \/ SelfRestart(r)
            \/ \E s \in Sessions : CancelAll(s) \/ Subscribe(s) \/ Unsubscribe(s)
            \/ Drained \/ DrainTimeout \/ UNCHANGED vars
  BY <1>3, <1>10 DEF CancelOne, SelfRestart, CancelAll, Subscribe, Unsubscribe, Drained, DrainTimeout, vars
<1>11. ASSUME NEW p \in Requests, Works(p) \/ Submit(p) \/ Arrive(p)
       PROVE  \/ proc'[q].tries = proc[q].tries
              \/ Retry(q) /\ proc'[q].tries = proc[q].tries + 1
  BY <1>4, <1>5, <1>6, <1>7, <1>8, <1>11 DEF Works, Work
<1> QED BY <1>9, <1>10, <1>11 DEF Next, Works

(* How a processor goes on.                                                *)
Onward(p) ==
    \/ proc[p].pc = "none" /\ proc'[p].pc \in {"asleep", "waiting"}
    \/ proc[p].pc = "asleep" /\ proc'[p].pc \in {"waiting", "over"}
    \/ proc[p].pc = "waiting" /\ proc'[p].pc \in {"asking", "over"}
    \/ proc[p].pc = "asking" /\ proc'[p].pc \in {"titling", "over", "gone"}
    \/ proc[p].pc = "titling" /\ proc'[p].pc = "over"
    \/ proc[p].pc = "over" /\ proc'[p].pc = "gone"
Steps(p) ==
    \/ /\ Onward(p) /\ proc'[p].tokens = proc[p].tokens /\ proc'[p].tries = proc[p].tries
    \/ /\ proc[p].pc = "asking" /\ proc'[p].pc = "asking" /\ proc[p].tokens < cast.tokens
       /\ proc'[p].tokens = proc[p].tokens + 1 /\ proc'[p].tries = proc[p].tries
    \/ /\ proc[p].pc = "asking" /\ proc'[p].pc = "asking" /\ proc[p].tries < cast.tries - 1
       /\ proc'[p].tokens = proc[p].tokens /\ proc'[p].tries = proc[p].tries + 1

LEMMA ProcessorSteps ==
    ASSUME TypeOK, LifeInv, UseInv, [Next]_vars, Up', NEW q \in Requests
    PROVE  /\ proc'[q] = proc[q] \/ Steps(q)
           /\ Works(q) => Steps(q)
<1>1. \/ proc'[q].tries = proc[q].tries
      \/ Retry(q) /\ proc'[q].tries = proc[q].tries + 1
  BY TriesStay
<1>2. ASSUME Retry(q) PROVE Steps(q)
  <2>1. /\ proc[q].pc = "asking" /\ proc'[q].pc = "asking" /\ proc'[q].tokens = proc[q].tokens
        /\ proc[q].tries < cast.tries - 1
    BY <1>2, ProcSteps DEF Retry, GoesTo, Goes
  <2>2. proc' = [proc EXCEPT ![q] = [proc[q] EXCEPT !.tries = @ + 1]]
    BY <1>2 DEF Retry, TypeOK
  <2>3. proc'[q].tries = proc[q].tries + 1
    BY <2>2 DEF TypeOK, Processors
  <2> QED BY <2>1, <2>3 DEF Steps
<1>3. ASSUME Token(q) PROVE Steps(q)
  <2>1. /\ proc[q].pc = "asking" /\ proc'[q].pc = "asking" /\ proc'[q].tokens = proc[q].tokens + 1
        /\ proc[q].tokens < cast.tokens
    BY <1>3, ProcSteps DEF Token, Goes
  <2>2. proc'[q].tries = proc[q].tries
    <3>1. proc' = [proc EXCEPT ![q] = [proc[q] EXCEPT !.tokens = @ + 1]]
      BY <1>3 DEF Token, TypeOK
    <3> QED BY <3>1 DEF TypeOK, Processors
  <2> QED BY <2>1, <2>2 DEF Steps
<1>4. ASSUME Work(q) \/ RecordThenTitle(q) \/ Arrive(q)
             \/ (Submit(q) /\ proc' # proc)
      PROVE  Onward(q) /\ proc'[q].tokens = proc[q].tokens
  <2>1. ASSUME Submit(q), proc' # proc PROVE Onward(q) /\ proc'[q].tokens = proc[q].tokens
    <3>1. proc[q].pc = "none"
      BY <2>1 DEF Submit, LifeInv
    <3>2. GoesTo(q, "asleep")
      BY <2>1, ProcSteps
    <3> QED BY <3>1, <3>2 DEF Onward, GoesTo, Goes
  <2>2. ASSUME Arrive(q) PROVE Onward(q) /\ proc'[q].tokens = proc[q].tokens
    <3>1. GoesTo(q, "waiting") /\ proc[q].pc = "none"
      BY <2>2, ProcSteps DEF Arrive
    <3> QED BY <3>1 DEF Onward, GoesTo, Goes
  <2>3. ASSUME Wake(q) PROVE Onward(q) /\ proc'[q].tokens = proc[q].tokens
    <3>1. proc[q].pc = "asleep"
      BY <2>3 DEF Wake
    <3>2. \/ GoesTo(q, "over")
          \/ Goes(q, "waiting", batch[SessionOf(q)], proc[q].tokens, proc[q].seen)
      BY <2>3, ProcSteps
    <3> QED BY <3>1, <3>2 DEF Onward, GoesTo, Goes
  <2>4. ASSUME Replay(q) PROVE Onward(q) /\ proc'[q].tokens = proc[q].tokens
    <3>1. GoesTo(q, "over") /\ proc[q].pc = "waiting"
      BY <2>4, ProcSteps DEF Replay, Holds
    <3> QED BY <3>1 DEF Onward, GoesTo, Goes
  <2>5. ASSUME Begin(q) PROVE Onward(q) /\ proc'[q].tokens = proc[q].tokens
    <3>1. /\ proc[q].pc = "waiting"
          /\ Goes(q, "asking", proc[q].taken, proc[q].tokens, Len(hist[SessionOf(q)]))
      BY <2>5, ProcSteps DEF Begin, Holds
    <3> QED BY <3>1 DEF Onward, Goes
  <2>6. ASSUME RecordThenTitle(q) PROVE Onward(q) /\ proc'[q].tokens = proc[q].tokens
    <3>1. GoesTo(q, "titling") /\ proc[q].pc = "asking"
      BY <2>6, ProcSteps DEF RecordThenTitle
    <3> QED BY <3>1 DEF Onward, GoesTo, Goes
  <2>7. ASSUME Titled(q) \/ \E e \in {"done", "error"} : Finish(q, e)
        PROVE  Onward(q) /\ proc'[q].tokens = proc[q].tokens
    <3>1. GoesTo(q, "over") /\ proc[q].pc \in {"asking", "titling"}
      BY <2>7, ProcSteps DEF Titled, Finish
    <3> QED BY <3>1 DEF Onward, GoesTo, Goes
  <2>8. ASSUME FinishOther(q) \/ Cleared(q) PROVE Onward(q) /\ proc'[q].tokens = proc[q].tokens
    <3>1. GoesTo(q, "gone") /\ proc[q].pc \in {"asking", "over"}
      BY <2>8, ProcSteps DEF FinishOther, Cleared
    <3> QED BY <3>1 DEF Onward, GoesTo, Goes
  <2> QED BY <1>4, <2>1, <2>2, <2>3, <2>4, <2>5, <2>6, <2>7, <2>8 DEF Work
<1>5. ASSUME Work(q) \/ RecordThenTitle(q) \/ Arrive(q) \/ (Submit(q) /\ proc' # proc) PROVE Steps(q)
  <2>1. CASE proc'[q].tries = proc[q].tries
    BY <1>4, <1>5, <2>1 DEF Steps
  <2>2. CASE Retry(q)
    BY <1>2, <2>2
  <2> QED BY <1>1, <2>1, <2>2
<1>6. ASSUME NEW p \in Requests, p # q, Works(p) \/ Submit(p) \/ Arrive(p) PROVE proc'[q] = proc[q]
  <2>1. \/ proc' = proc
        \/ \E c, t, k, n : Goes(p, c, t, k, n)
    BY <1>6, ProcSteps DEF Works, Work, GoesTo
  <2> QED BY <1>6, <2>1 DEF Goes
<1>7. ASSUME \/ \E r \in Requests : CancelOne(r) \/ SelfRestart(r)
             \/ \E s \in Sessions : CancelAll(s) \/ Subscribe(s) \/ Unsubscribe(s)
             \/ Drained \/ DrainTimeout \/ UNCHANGED vars
      PROVE  proc' = proc
  BY <1>7 DEF CancelOne, SelfRestart, CancelAll, Subscribe, Unsubscribe, Drained, DrainTimeout, vars
<1>8. ~Shutdown
  BY DEF Shutdown, Up
<1>9. Works(q) => Steps(q)
  BY <1>2, <1>3, <1>5 DEF Works
<1>10. proc'[q] = proc[q] \/ Steps(q)
  BY <1>2, <1>3, <1>5, <1>6, <1>7, <1>8, <1>9 DEF Next, Works
<1> QED BY <1>9, <1>10

LEMMA RankFalls ==
    ASSUME TypeOK, LifeInv, UseInv, [Next]_vars, NEW p \in Requests
    PROVE  /\ Rank(p)' <= Rank(p)
           /\ Works(p) => Rank(p)' < Rank(p)
<1>1. /\ Left(p) \in Nat /\ Rank(p) \in Nat /\ proc[p].pc \in Pcs
      /\ cast.tokens \in Nat /\ cast.tries \in Nat \ {0}
      /\ proc[p].tokens \in Nat /\ proc[p].tries \in Nat
  BY UseFacts
<1>2. cast' = cast
  BY CastKept
<1>3. CASE ~Up'
  <2>1. Rank(p)' = 0
    BY <1>3 DEF Rank
  <2>2. ~Works(p)
    BY <1>3 DEF Works, Work, Wake, Replay, Begin, Titled, Cleared, FinishOther, Finish, Close, Token,
                Retry, RecordThenTitle, Up, gateVars
  <2> QED BY <1>1, <2>1, <2>2
<1>4. CASE Up'
  <2>1. Up
    BY <1>4, UpKept
  <2>2. ASSUME proc'[p] = proc[p] PROVE Rank(p)' = Rank(p)
    BY <1>2, <1>4, <2>1, <2>2 DEF Rank, Left
  <2>3. ASSUME Steps(p) PROVE Rank(p)' < Rank(p) /\ Rank(p)' <= Rank(p)
    <3> DEFINE L == Left(p)
               L1 == (cast.tokens - proc'[p].tokens) + (cast.tries - proc'[p].tries)
    <3>1. Left(p)' = L1
      BY <1>2 DEF Left
    <3>2. Rank(p)' = CASE proc'[p].pc = "none"    -> L1 + 6
                       [] proc'[p].pc = "asleep"  -> L1 + 5
                       [] proc'[p].pc = "waiting" -> L1 + 4
                       [] proc'[p].pc = "asking"  -> L1 + 3
                       [] proc'[p].pc = "titling" -> 2
                       [] proc'[p].pc = "over"    -> 1
                       [] OTHER -> 0
      BY <1>4, <3>1 DEF Rank
    <3>3. Rank(p) = CASE proc[p].pc = "none"    -> L + 6
                      [] proc[p].pc = "asleep"  -> L + 5
                      [] proc[p].pc = "waiting" -> L + 4
                      [] proc[p].pc = "asking"  -> L + 3
                      [] proc[p].pc = "titling" -> 2
                      [] proc[p].pc = "over"    -> 1
                      [] OTHER -> 0
      BY <2>1 DEF Rank
    <3>4. CASE Onward(p) /\ proc'[p].tokens = proc[p].tokens /\ proc'[p].tries = proc[p].tries
      <4>1. L1 = L
        BY <3>4 DEF Left
      <4>2. L \in Nat
        BY <1>1
      <4> HIDE DEF L, L1
      <4> QED BY <3>2, <3>3, <3>4, <4>1, <4>2 DEF Onward
    <3>5. CASE /\ proc[p].pc = "asking" /\ proc'[p].pc = "asking"
               /\ \/ proc'[p].tokens = proc[p].tokens + 1 /\ proc'[p].tries = proc[p].tries
                  \/ proc'[p].tokens = proc[p].tokens /\ proc'[p].tries = proc[p].tries + 1
      <4>1. L1 = L - 1
        BY <1>1, <3>5 DEF Left
      <4>2. L \in Nat
        BY <1>1
      <4> HIDE DEF L, L1
      <4> QED BY <3>2, <3>3, <3>5, <4>1, <4>2
    <3> QED BY <2>3, <3>4, <3>5 DEF Steps
  <2> QED BY <1>1, <1>4, <2>2, <2>3, ProcessorSteps
<1> QED BY <1>3, <1>4

LEMMA UseKept ==
    ASSUME TypeOK, LifeInv, UseInv, [Next]_vars
    PROVE  UseInv'
<1>1. cast' = cast
  BY CastKept
<1> SUFFICES ASSUME NEW p \in Requests
             PROVE  /\ proc'[p].tokens <= cast.tokens /\ proc'[p].tries < cast.tries
                    /\ proc'[p].pc \in {"none", "asleep", "waiting"} => proc'[p].tries = 0
  BY <1>1 DEF UseInv
<1>2. /\ cast.tokens \in Nat /\ cast.tries \in Nat \ {0}
      /\ proc[p].tokens \in Nat /\ proc[p].tries \in Nat
  BY UseFacts
<1>3. /\ proc[p].tokens <= cast.tokens /\ proc[p].tries < cast.tries
      /\ proc[p].pc \in {"none", "asleep", "waiting"} => proc[p].tries = 0
  BY DEF UseInv
<1>4. CASE Up'
  <2>1. CASE proc'[p] = proc[p]
    BY <1>3, <2>1
  <2>2. CASE Steps(p)
    BY <1>2, <1>3, <2>2 DEF Steps, Onward
  <2> QED BY <1>4, <2>1, <2>2, ProcessorSteps
<1>5. CASE ~Up'
  <2>1. Shutdown \/ ~Up
    BY <1>5 DEF Up, Next, Work, vars, gateVars, Submit, Arrive, CancelOne, SelfRestart, Wake, Replay, Begin,
                Titled, Cleared, FinishOther, Finish, Close, Token, Retry, RecordThenTitle, CancelAll,
                Subscribe, Unsubscribe, Drained, DrainTimeout
  <2>2. CASE Shutdown
    <3>1. proc'[p] = Unborn
      BY <2>2 DEF Shutdown
    <3> QED BY <1>2, <3>1 DEF Unborn
  <2>3. CASE ~Up
    <3>1. proc' = proc
      BY <2>3 DEF Up, Next, Work, vars, Submit, Arrive, CancelOne, SelfRestart, Wake, Replay, Begin,
                  Titled, Cleared, FinishOther, Finish, Token, Retry, RecordThenTitle, CancelAll,
                  Subscribe, Unsubscribe, Drained, DrainTimeout, Shutdown
    <3> QED BY <1>3, <3>1
  <2> QED BY <2>1, <2>2, <2>3
<1> QED BY <1>4, <1>5

LEMMA UseHolds == Spec => []UseInv
<1>1. ASSUME Init PROVE UseInv
  <2>1. \A p \in Requests : proc[p].tokens = 0 /\ proc[p].tries = 0
    BY <1>1 DEF Init, Unborn
  <2>2. cast.tokens \in Nat /\ cast.tries \in Nat \ {0}
    BY <1>1, ChatConstants DEF Init
  <2> QED BY <2>1, <2>2 DEF UseInv
<1>2. ChatInv /\ UseInv /\ [Next]_vars => UseInv'
  BY UseKept DEF ChatInv
<1> QED BY <1>1, <1>2, ChatInvHolds, PTL DEF Spec

(* Whatever the operator, the bus and the other processors do, a processor *)
(* has a number of steps left that its own steps lower and that nothing    *)
(* raises: the attempts and the tokens of a turn are bounded, a turn that  *)
(* is over does not start again, and a shutdown ends them all.             *)
THEOREM ProcessorsRunOut ==
    Spec => [](\A p \in Requests : Rank(p) \in Nat) /\ ProcessorsShorten
<1>1. ChatInv /\ UseInv => \A p \in Requests : Rank(p) \in Nat
  BY UseFacts DEF ChatInv
<1>2. ASSUME ChatInv, UseInv, [Next]_vars
      PROVE  [\A p \in Requests : /\ Rank(p)' <= Rank(p)
                                  /\ Works(p) => Rank(p)' < Rank(p)]_vars
  BY <1>2, RankFalls DEF ChatInv
<1> QED BY <1>1, <1>2, ChatInvHolds, UseHolds, PTL DEF Spec, ProcessorsShorten
=============================================================================
