------------------------ MODULE ParentDelivery_proofs ------------------------
(***************************************************************************)
(* Proofs about ParentDelivery for any subsessions, conversations, limits  *)
(* and interleavings: the chain of reactions is bounded, no outcome is     *)
(* held without a timer, an accepted outcome is recorded once (the         *)
(* refinement of OutcomeDelivery), the user's turn sees it, and the depth  *)
(* is given back.                                                          *)
(*                                                                         *)
(* The depth grows by one each time a batch is drained, and Deliver tests  *)
(* it only when an outcome joins the batch.  Between the two it must not   *)
(* have grown: PendingBelowLimit says so, and holds because a drain, the   *)
(* only step that adds to the depth, leaves the batch empty.               *)
(***************************************************************************)
EXTENDS ParentDelivery, FiniteSetTheorems, TLAPS

PendingBelowLimit == \A c \in Session : pending[c] # <<>> => depth[c] < MaxDepth

IInv == TypeOK /\ DepthBounded /\ PendingHasTimer /\ PendingBelowLimit

(* A drain takes the whole batch, so the depth stays within the limit.     *)
LEMMA DrainEffect ==
    ASSUME IInv, NEW c \in Session, NEW turn \in Turns, Drain(c, turn)
    PROVE  /\ pending' \in [Session -> Seq(Report)] /\ timers' \subseteq Session
           /\ depth' \in [Session -> Nat] /\ consumed' \subseteq Sub
           /\ lock' \in [Session -> Seq(Job)]
           /\ DepthBounded' /\ PendingHasTimer' /\ PendingBelowLimit'
<1>1. pending' = [pending EXCEPT ![c] = <<>>] /\ depth' = [depth EXCEPT ![c] = @ + 1]
  BY DEF Drain
<1>2. depth[c] < MaxDepth
  BY DEF Drain, IInv, PendingBelowLimit
<1>3. [turn |-> turn, batch |-> pending[c]] \in Job
  BY DEF Job, IInv, TypeOK
<1>4. lock' \in [Session -> Seq(Job)]
  BY <1>3 DEF Drain, IInv, TypeOK
<1>5. pending' \in [Session -> Seq(Report)] /\ depth' \in [Session -> Nat]
  BY <1>1 DEF IInv, TypeOK
<1>6. timers' \subseteq Session /\ consumed' \subseteq Sub
  BY DEF Drain, IInv, TypeOK
<1>7. DepthBounded'
  BY <1>1, <1>2, DeliveryConstants DEF DepthBounded, IInv, TypeOK
<1>8. PendingHasTimer'
  BY <1>1 DEF Drain, PendingHasTimer, IInv, TypeOK
<1>9. PendingBelowLimit'
  BY <1>1 DEF PendingBelowLimit, IInv, TypeOK
<1> QED BY <1>4, <1>5, <1>6, <1>7, <1>8, <1>9

(* Scheduling an outcome tests the depth when it adds to the batch.        *)
LEMMA ScheduleEffect ==
    ASSUME IInv, NEW c \in Session, NEW s \in Sub, NEW r \in Report, Schedule(c, s, r)
    PROVE  /\ pending' \in [Session -> Seq(Report)] /\ timers' \subseteq Session
           /\ depth' \in [Session -> Nat] /\ consumed' \subseteq Sub
           /\ starting' \in [Session -> SUBSET Report]
           /\ DepthBounded' /\ PendingHasTimer' /\ PendingBelowLimit'
<1>1. depth' = depth /\ consumed' = consumed
  BY DEF Schedule, deliveryVars
<1>2. DepthBounded' /\ depth' \in [Session -> Nat] /\ consumed' \subseteq Sub
  BY <1>1 DEF DepthBounded, IInv, TypeOK
<1>3. CASE s \in consumed \/ depth[c] >= MaxDepth
  <2>1. pending' = pending /\ timers' = timers
    BY <1>3 DEF Schedule, deliveryVars
  <2>2. starting' \in [Session -> SUBSET Report]
    <3>1. starting' = starting \/ starting' = [starting EXCEPT ![c] = @ \cup {r}]
      BY <1>3 DEF Schedule
    <3>2. starting \in [Session -> SUBSET Report]
      BY DEF IInv, TypeOK
    <3>3. starting[c] \cup {r} \in SUBSET Report
      BY <3>2
    <3> QED BY <3>1, <3>2, <3>3
  <2> QED BY <1>1, <1>2, <2>1, <2>2 DEF PendingHasTimer, PendingBelowLimit, IInv, TypeOK
<1>4. CASE ~(s \in consumed \/ depth[c] >= MaxDepth)
  <2>1. pending' = [pending EXCEPT ![c] = Append(@, r)] /\ timers' = timers \cup {c}
    BY <1>4 DEF Schedule
  <2>2. starting' \in [Session -> SUBSET Report]
    BY <1>4 DEF Schedule, IInv, TypeOK
  <2>3. depth[c] < MaxDepth
    BY <1>4, DeliveryConstants DEF IInv, TypeOK
  <2>4. pending' \in [Session -> Seq(Report)] /\ timers' \subseteq Session
    BY <2>1 DEF IInv, TypeOK
  <2>5. PendingHasTimer'
    BY <2>1 DEF PendingHasTimer, IInv, TypeOK
  <2>6. PendingBelowLimit'
    BY <1>1, <2>1, <2>3 DEF PendingBelowLimit, IInv, TypeOK
  <2> QED BY <1>2, <2>2, <2>4, <2>5, <2>6
<1> QED BY <1>3, <1>4

(* A turn that ends gives the depth back and touches no batch.             *)
LEMMA TurnEndEffect ==
    ASSUME IInv, NEW c \in Session, lock[c] # <<>>, Recording(c), Release(c)
    PROVE  lock' \in [Session -> Seq(Job)] /\ history' \in [Session -> Seq(Report)]
<1>1. Head(lock[c]) \in Job /\ Tail(lock[c]) \in Seq(Job)
  BY DEF IInv, TypeOK
<1>2. Head(lock[c]).batch \in Seq(Report)
  BY <1>1 DEF Job
<1> QED BY <1>1, <1>2 DEF Recording, Release, IInv, TypeOK

LEMMA ReactionEndEffect ==
    ASSUME IInv, NEW c \in Session, NEW turn \in Turns, ReactionEnds(c, turn)
    PROVE  /\ live' = live /\ closeReason' = closeReason /\ made' = made
           /\ inbox' = inbox /\ read' = read
           /\ pending' = pending /\ timers' = timers /\ starting' = starting
           /\ depth' \in [Session -> Nat] /\ consumed' \subseteq Sub
           /\ lock' \in [Session -> Seq(Job)] /\ history' \in [Session -> Seq(Report)]
           /\ DepthBounded' /\ PendingHasTimer' /\ PendingBelowLimit'
<1>1. /\ live' = live /\ closeReason' = closeReason /\ made' = made
      /\ inbox' = inbox /\ read' = read
      /\ pending' = pending /\ timers' = timers /\ starting' = starting
  BY DEF ReactionEnds, recordVars
<1>2. lock[c] # <<>>
  BY DEF ReactionEnds, Holds
<1>3. lock' \in [Session -> Seq(Job)] /\ history' \in [Session -> Seq(Report)]
  BY <1>2, TurnEndEffect DEF ReactionEnds
<1>4. Head(lock[c]).batch \in Seq(Report)
  <2>1. Head(lock[c]) \in Job
    BY <1>2 DEF IInv, TypeOK
  <2> QED BY <2>1 DEF Job
<1>5. consumed' \subseteq Sub
  <2>1. \A r \in Elements(Head(lock[c]).batch) : r[1] \in Sub
    BY <1>4 DEF Elements, Report
  <2> QED BY <2>1 DEF ReactionEnds, IInv, TypeOK
<1>6. \A d \in Nat : DepthAfter(d) \in Nat /\ DepthAfter(d) <= d
  BY DEF DepthAfter
<1>7. depth' = [depth EXCEPT ![c] = DepthAfter(@)]
  BY DEF ReactionEnds
<1>8. depth' \in [Session -> Nat] /\ \A x \in Session : depth'[x] <= depth[x]
  <2>1. depth \in [Session -> Nat] /\ depth[c] \in Nat
    BY DEF IInv, TypeOK
  <2>2. DepthAfter(depth[c]) \in Nat /\ DepthAfter(depth[c]) <= depth[c]
    BY <1>6, <2>1
  <2>3. \A x \in Session : depth'[x] = IF x = c THEN DepthAfter(depth[c]) ELSE depth[x]
    BY <1>7, <2>1
  <2>4. \A x \in Session : depth'[x] \in Nat /\ depth'[x] <= depth[x]
    BY <2>1, <2>2, <2>3
  <2> QED BY <1>7, <2>1, <2>2, <2>4
<1>9. DepthBounded' /\ PendingHasTimer' /\ PendingBelowLimit'
  <2>1. DepthBounded'
    BY <1>8, DeliveryConstants DEF DepthBounded, IInv, TypeOK
  <2>2. PendingHasTimer'
    BY <1>1 DEF PendingHasTimer, IInv
  <2>3. PendingBelowLimit'
    BY <1>1, <1>8, DeliveryConstants DEF PendingBelowLimit, IInv, TypeOK
  <2> QED BY <2>1, <2>2, <2>3
<1> QED BY <1>1, <1>3, <1>5, <1>8, <1>9

(* Every step of the specification keeps the invariant.                    *)
LEMMA InitInv == Init => IInv
<1> SUFFICES ASSUME Init PROVE IInv OBVIOUS
<1>1. TypeOK
  BY DeliveryConstants DEF Init, TypeOK, Reasons, Report
<1>2. DepthBounded /\ PendingHasTimer /\ PendingBelowLimit
  BY DeliveryConstants DEF Init, DepthBounded, PendingHasTimer, PendingBelowLimit
<1> QED BY <1>1, <1>2 DEF IInv

LEMMA DeliverKeeps ==
    ASSUME IInv, NEW s \in Sub, NEW reason \in Reasons, NEW stale \in BOOLEAN,
           Deliver(s, reason, stale)
    PROVE  IInv'
<1> DEFINE r == <<s, made[s] + 1>>
           kept == IF reason \in Terminal THEN [inbox EXCEPT ![s] = {}] ELSE inbox
<1>1. made[s] \in 0..MaxReports /\ made[s] + 1 \in 1..MaxReports
  BY DeliveryConstants DEF Deliver, IInv, TypeOK
<1>2. r \in Report
  BY <1>1 DEF Report
<1>3. live' \subseteq Sub /\ made' \in [Sub -> 0..MaxReports]
  BY <1>1, DeliveryConstants DEF Deliver, IInv, TypeOK
<1>4. closeReason' \in [Sub -> Reasons \cup {"none"}]
  BY DEF Deliver, IInv, TypeOK
<1>5. kept \in [Sub -> SUBSET Report]
  BY DEF IInv, TypeOK
<1>6. inbox' = kept \/ inbox' = [kept EXCEPT ![ParentOf[s]] = @ \cup {r}]
  BY DEF Deliver
<1>7. inbox' \in [Sub -> SUBSET Report]
  BY <1>2, <1>5, <1>6
<1>8. /\ read' = read /\ lock' = lock /\ history' = history
      /\ request' = request /\ awaited' = awaited
  BY DEF Deliver
<1>9. \/ UNCHANGED <<deliveryVars, starting>>
      \/ Schedule(SessionOf[s], s, r)
  BY DEF Deliver
<1>10. CASE UNCHANGED <<deliveryVars, starting>>
  <2>1. /\ pending' = pending /\ timers' = timers /\ depth' = depth
        /\ consumed' = consumed /\ starting' = starting
    BY <1>10 DEF deliveryVars
  <2>2. TypeOK'
    BY <1>3, <1>4, <1>7, <1>8, <2>1 DEF IInv, TypeOK
  <2>3. DepthBounded' /\ PendingHasTimer' /\ PendingBelowLimit'
    BY <2>1 DEF IInv, DepthBounded, PendingHasTimer, PendingBelowLimit
  <2> QED BY <2>2, <2>3 DEF IInv
<1>11. CASE Schedule(SessionOf[s], s, r)
  <2>1. SessionOf[s] \in Session
    BY DeliveryConstants
  <2>2. /\ pending' \in [Session -> Seq(Report)] /\ timers' \subseteq Session
        /\ depth' \in [Session -> Nat] /\ consumed' \subseteq Sub
        /\ starting' \in [Session -> SUBSET Report]
        /\ DepthBounded' /\ PendingHasTimer' /\ PendingBelowLimit'
    BY <1>2, <1>11, <2>1, ScheduleEffect
  <2>3. TypeOK'
    BY <1>3, <1>4, <1>7, <1>8, <2>2 DEF IInv, TypeOK
  <2> QED BY <2>2, <2>3 DEF IInv
<1> QED BY <1>9, <1>10, <1>11

LEMMA ArriveKeeps ==
    ASSUME IInv, NEW c \in Session, Arrive(c)
    PROVE  IInv'
<1>1. /\ live' = live /\ closeReason' = closeReason /\ made' = made
      /\ inbox' = inbox /\ read' = read /\ starting' = starting /\ history' = history
  BY DEF Arrive, recordVars
<1>2. request' \in [Session -> {"none", "flushing", "submitted", "queued"}]
  BY DEF Arrive, IInv, TypeOK
<1>3. awaited' \in [Session -> SUBSET Report]
  <2>1. Elements(pending[c]) \subseteq Report
    BY DEF Elements, IInv, TypeOK
  <2>2. InTurns(c) \subseteq Report
    <3>1. \A i \in DOMAIN lock[c] : lock[c][i] \in Job
      BY DEF IInv, TypeOK
    <3>2. \A job \in Elements(lock[c]) : job.batch \in Seq(Report)
      BY <3>1 DEF Elements, Job
    <3>3. \A job \in Elements(lock[c]) : Elements(job.batch) \subseteq Report
      BY <3>2 DEF Elements
    <3> QED BY <3>3 DEF InTurns
  <2>3. Waiting(c) \subseteq Report
    BY <2>1, <2>2 DEF Waiting, IInv, TypeOK
  <2> QED BY <2>3 DEF Arrive, IInv, TypeOK
<1>4. CASE pending[c] = <<>>
  <2>1. timers' = timers \ {c} /\ pending' = pending /\ depth' = depth
        /\ consumed' = consumed /\ lock' = lock
    BY <1>4 DEF Arrive
  <2>2. TypeOK'
    BY <1>1, <1>2, <1>3, <2>1 DEF IInv, TypeOK
  <2>3. DepthBounded' /\ PendingBelowLimit'
    BY <2>1 DEF IInv, DepthBounded, PendingBelowLimit
  <2>4. PendingHasTimer'
    BY <1>4, <2>1 DEF IInv, PendingHasTimer
  <2> QED BY <2>2, <2>3, <2>4 DEF IInv
<1>5. CASE pending[c] # <<>>
  <2>1. Drain(c, "flush")
    BY <1>5 DEF Arrive
  <2>2. /\ pending' \in [Session -> Seq(Report)] /\ timers' \subseteq Session
        /\ depth' \in [Session -> Nat] /\ consumed' \subseteq Sub
        /\ lock' \in [Session -> Seq(Job)]
        /\ DepthBounded' /\ PendingHasTimer' /\ PendingBelowLimit'
    BY <2>1, DrainEffect DEF Turns
  <2>3. TypeOK'
    BY <1>1, <1>2, <1>3, <2>2 DEF IInv, TypeOK
  <2> QED BY <2>2, <2>3 DEF IInv
<1> QED BY <1>4, <1>5

LEMMA ChatStepKeeps ==
    ASSUME IInv, NEW c \in Session, ChatStep(c)
    PROVE  IInv'
<1>1. CASE TimerFires(c)
  <2>1. /\ live' = live /\ closeReason' = closeReason /\ made' = made
        /\ inbox' = inbox /\ read' = read /\ starting' = starting
        /\ history' = history /\ request' = request /\ awaited' = awaited
    BY <1>1 DEF TimerFires, recordVars
  <2>2. CASE pending[c] = <<>>
    <3>1. timers' = timers \ {c} /\ pending' = pending /\ depth' = depth
          /\ consumed' = consumed /\ lock' = lock
      BY <1>1, <2>2 DEF TimerFires
    <3>2. TypeOK'
      BY <2>1, <3>1 DEF IInv, TypeOK
    <3>3. DepthBounded' /\ PendingBelowLimit'
      BY <3>1 DEF IInv, DepthBounded, PendingBelowLimit
    <3>4. PendingHasTimer'
      BY <2>2, <3>1 DEF IInv, PendingHasTimer
    <3> QED BY <3>2, <3>3, <3>4 DEF IInv
  <2>3. CASE pending[c] # <<>>
    <3>1. Drain(c, "reaction")
      BY <1>1, <2>3 DEF TimerFires
    <3>2. /\ pending' \in [Session -> Seq(Report)] /\ timers' \subseteq Session
          /\ depth' \in [Session -> Nat] /\ consumed' \subseteq Sub
          /\ lock' \in [Session -> Seq(Job)]
          /\ DepthBounded' /\ PendingHasTimer' /\ PendingBelowLimit'
      BY <3>1, DrainEffect DEF Turns
    <3>3. TypeOK'
      BY <2>1, <3>2 DEF IInv, TypeOK
    <3> QED BY <3>2, <3>3 DEF IInv
  <2> QED BY <2>2, <2>3
<1>2. ASSUME NEW r \in Report, PassiveStarts(c, r) PROVE IInv'
  <2>1. [turn |-> "passive", batch |-> <<r>>] \in Job
    BY DEF Job, Turns
  <2>2. lock' \in [Session -> Seq(Job)] /\ starting' \in [Session -> SUBSET Report]
    BY <1>2, <2>1 DEF PassiveStarts, IInv, TypeOK
  <2>3. TypeOK'
    BY <1>2, <2>2 DEF PassiveStarts, recordVars, deliveryVars, IInv, TypeOK
  <2>4. DepthBounded' /\ PendingHasTimer' /\ PendingBelowLimit'
    BY <1>2 DEF PassiveStarts, deliveryVars, IInv, DepthBounded, PendingHasTimer, PendingBelowLimit
  <2> QED BY <2>3, <2>4 DEF IInv
<1>3. ASSUME NEW turn \in {"reaction", "flush"}, ReactionEnds(c, turn),
             request' \in [Session -> {"none", "flushing", "submitted", "queued"}],
             awaited' = awaited
      PROVE  IInv'
  <2>1. turn \in Turns
    BY DEF Turns
  <2>2. TypeOK' /\ DepthBounded' /\ PendingHasTimer' /\ PendingBelowLimit'
    BY <1>3, <2>1, ReactionEndEffect DEF IInv, TypeOK
  <2> QED BY <2>2 DEF IInv
<1>4. CASE BackgroundEnds(c)
  BY <1>3, <1>4 DEF BackgroundEnds, IInv, TypeOK
<1>5. CASE FlushEnds(c)
  BY <1>3, <1>5 DEF FlushEnds, IInv, TypeOK
<1>6. CASE PassiveEnds(c)
  <2>1. lock' \in [Session -> Seq(Job)] /\ history' \in [Session -> Seq(Report)]
    BY <1>6, TurnEndEffect DEF PassiveEnds, Holds
  <2>2. TypeOK'
    BY <1>6, <2>1 DEF PassiveEnds, recordVars, deliveryVars, IInv, TypeOK
  <2>3. DepthBounded' /\ PendingHasTimer' /\ PendingBelowLimit'
    BY <1>6 DEF PassiveEnds, deliveryVars, IInv, DepthBounded, PendingHasTimer, PendingBelowLimit
  <2> QED BY <2>2, <2>3 DEF IInv
<1>7. CASE Submit(c)
  <2>1. [turn |-> "user", batch |-> <<>>] \in Job
    BY DEF Job, Turns
  <2>2. lock' \in [Session -> Seq(Job)]
    BY <1>7, <2>1 DEF Submit, IInv, TypeOK
  <2>3. TypeOK'
    BY <1>7, <2>2 DEF Submit, recordVars, deliveryVars, IInv, TypeOK
  <2>4. DepthBounded' /\ PendingHasTimer' /\ PendingBelowLimit'
    BY <1>7 DEF Submit, deliveryVars, IInv, DepthBounded, PendingHasTimer, PendingBelowLimit
  <2> QED BY <2>3, <2>4 DEF IInv
<1>8. CASE UserTurnEnds(c)
  <2>1. lock' \in [Session -> Seq(Job)]
    BY <1>8 DEF UserTurnEnds, Holds, Release, IInv, TypeOK
  <2>2. TypeOK'
    BY <1>8, <2>1 DEF UserTurnEnds, recordVars, deliveryVars, IInv, TypeOK
  <2>3. DepthBounded' /\ PendingHasTimer' /\ PendingBelowLimit'
    BY <1>8 DEF UserTurnEnds, deliveryVars, IInv, DepthBounded, PendingHasTimer, PendingBelowLimit
  <2> QED BY <2>2, <2>3 DEF IInv
<1> QED BY <1>1, <1>2, <1>4, <1>5, <1>6, <1>7, <1>8 DEF ChatStep

LEMMA StepInv == IInv /\ [Next]_vars => IInv'
<1> SUFFICES ASSUME IInv, [Next]_vars PROVE IInv' OBVIOUS
<1>1. ASSUME NEW s \in Sub, NEW reason \in Reasons, NEW stale \in BOOLEAN,
             Deliver(s, reason, stale)
      PROVE  IInv'
  BY <1>1, DeliverKeeps
<1>2. ASSUME NEW s \in Sub, Resume(s) PROVE IInv'
  <2>1. TypeOK'
    BY <1>2 DEF Resume, deliveryVars, chatVars, IInv, TypeOK
  <2>2. DepthBounded' /\ PendingHasTimer' /\ PendingBelowLimit'
    BY <1>2 DEF Resume, deliveryVars, IInv, DepthBounded, PendingHasTimer, PendingBelowLimit
  <2> QED BY <2>1, <2>2 DEF IInv
<1>3. ASSUME NEW s \in Sub, ReadInbox(s) PROVE IInv'
  <2>1. TypeOK'
    BY <1>3 DEF ReadInbox, deliveryVars, chatVars, IInv, TypeOK
  <2>2. DepthBounded' /\ PendingHasTimer' /\ PendingBelowLimit'
    BY <1>3 DEF ReadInbox, deliveryVars, IInv, DepthBounded, PendingHasTimer, PendingBelowLimit
  <2> QED BY <2>1, <2>2 DEF IInv
<1>4. ASSUME NEW c \in Session, ChatStep(c) PROVE IInv'
  BY <1>4, ChatStepKeeps
<1>5. ASSUME NEW c \in Session, Arrive(c) PROVE IInv'
  BY <1>5, ArriveKeeps
<1>6. CASE UNCHANGED vars
  <2>1. UNCHANGED <<recordVars, deliveryVars, chatVars>>
    BY <1>6 DEF vars
  <2>2. TypeOK'
    BY <2>1 DEF recordVars, deliveryVars, chatVars, IInv, TypeOK
  <2>3. DepthBounded' /\ PendingHasTimer' /\ PendingBelowLimit'
    BY <2>1 DEF deliveryVars, IInv, DepthBounded, PendingHasTimer, PendingBelowLimit
  <2> QED BY <2>2, <2>3 DEF IInv
<1> QED BY <1>1, <1>2, <1>3, <1>4, <1>5, <1>6 DEF Next

LEMMA DeliveryInvariant == Spec => []IInv
<1> QED BY InitInv, StepInv, PTL DEF Spec

(* Every variable of the delivery keeps its type.                          *)
THEOREM DeliveryTypes == Spec => []TypeOK
<1>1. IInv => TypeOK
  BY DEF IInv
<1> QED BY <1>1, DeliveryInvariant, PTL

(* The chain  close, reaction, spawn, close, ...  never nests deeper than  *)
(* _MAX_REACTION_DEPTH, although the guard of _schedule_reaction is tested *)
(* long before the depth is raised.                                        *)
THEOREM ReactionDepthIsBounded == Spec => []DepthBounded
<1>1. IInv => DepthBounded
  BY DEF IInv
<1> QED BY <1>1, DeliveryInvariant, PTL

(* An outcome that is held is held with a timer, whatever cancels timers.  *)
THEOREM HeldOutcomesHaveATimer == Spec => []PendingHasTimer
<1>1. IInv => PendingHasTimer
  BY DEF IInv
<1> QED BY <1>1, DeliveryInvariant, PTL

-----------------------------------------------------------------------------
(* Sequences without repetition, and the batches of the turns in a queue.  *)
Injective(q) == \A i, j \in DOMAIN q : q[i] = q[j] => i = j
BatchesOf(L) == UNION {Elements(job.batch) : job \in Elements(L)}
Apart(L) ==
    \A i, j \in DOMAIN L : i # j => Elements(L[i].batch) \cap Elements(L[j].batch) = {}

LEMMA ElementsOfAppend ==
    ASSUME NEW T, NEW q \in Seq(T), NEW x \in T
    PROVE  /\ Elements(Append(q, x)) = Elements(q) \cup {x}
           /\ Injective(q) /\ x \notin Elements(q) => Injective(Append(q, x))
<1>1. /\ DOMAIN Append(q, x) = (DOMAIN q) \cup {Len(q) + 1} /\ Len(q) + 1 \notin DOMAIN q
      /\ \A i \in DOMAIN q : Append(q, x)[i] = q[i]
      /\ Append(q, x)[Len(q) + 1] = x
  OBVIOUS
<1>2. Elements(Append(q, x)) = Elements(q) \cup {x}
  BY <1>1, Zenon DEF Elements
<1>3. Injective(q) /\ x \notin Elements(q) => Injective(Append(q, x))
  BY <1>1 DEF Elements, Injective
<1> QED BY <1>2, <1>3

LEMMA ElementsOfConcat ==
    ASSUME NEW T, NEW q \in Seq(T), NEW p \in Seq(T)
    PROVE  /\ Elements(q \o p) = Elements(q) \cup Elements(p)
           /\ Injective(q) /\ Injective(p) /\ Elements(q) \cap Elements(p) = {}
                 => Injective(q \o p)
           /\ SubSeq(q \o p, Len(q) + 1, Len(q \o p)) = p
<1>1. /\ q \o p \in Seq(T) /\ Len(q \o p) = Len(q) + Len(p)
      /\ Len(q) \in Nat /\ Len(p) \in Nat
      /\ DOMAIN q = 1..Len(q) /\ DOMAIN p = 1..Len(p) /\ DOMAIN (q \o p) = 1..(Len(q) + Len(p))
      /\ \A i \in 1..Len(q) : (q \o p)[i] = q[i]
      /\ \A i \in 1..Len(p) : (q \o p)[i + Len(q)] = p[i]
      /\ \A i \in (Len(q) + 1)..(Len(q) + Len(p)) : (q \o p)[i] = p[i - Len(q)] /\ i - Len(q) \in 1..Len(p)
  OBVIOUS
<1>2. Elements(q \o p) = Elements(q) \cup Elements(p)
  <2>1. Elements(q \o p) \subseteq Elements(q) \cup Elements(p)
    BY <1>1 DEF Elements
  <2>2. Elements(q) \subseteq Elements(q \o p)
    <3> SUFFICES ASSUME NEW x \in Elements(q) PROVE x \in Elements(q \o p)
      OBVIOUS
    <3>1. PICK i \in 1..Len(q) : q[i] = x
      BY <1>1 DEF Elements
    <3>2. i \in 1..(Len(q) + Len(p)) /\ (q \o p)[i] = x
      BY <1>1, <3>1
    <3> QED BY <1>1, <3>2 DEF Elements
  <2>3. Elements(p) \subseteq Elements(q \o p)
    <3> SUFFICES ASSUME NEW x \in Elements(p) PROVE x \in Elements(q \o p)
      OBVIOUS
    <3>1. \E i \in 1..Len(p) : p[i] = x
      BY <1>1 DEF Elements
    <3> PICK i \in 1..Len(p) : p[i] = x
      BY <3>1
    <3>2. i + Len(q) \in 1..(Len(q) + Len(p)) /\ (q \o p)[i + Len(q)] = x
      BY <1>1, <3>1
    <3> QED BY <1>1, <3>2 DEF Elements
  <2> QED BY <2>1, <2>2, <2>3
<1>3. Injective(q) /\ Injective(p) /\ Elements(q) \cap Elements(p) = {} => Injective(q \o p)
  <2> SUFFICES ASSUME Injective(q), Injective(p), Elements(q) \cap Elements(p) = {},
                      NEW i \in 1..(Len(q) + Len(p)), NEW j \in 1..(Len(q) + Len(p)),
                      (q \o p)[i] = (q \o p)[j]
               PROVE  i = j
    BY <1>1 DEF Injective
  <2>1. CASE i \in 1..Len(q) /\ j \in 1..Len(q)
    BY <1>1, <2>1 DEF Injective
  <2>2. CASE i \notin 1..Len(q) /\ j \notin 1..Len(q)
    <3>1. p[i - Len(q)] = p[j - Len(q)] /\ i - Len(q) \in 1..Len(p) /\ j - Len(q) \in 1..Len(p)
      BY <1>1, <2>2
    <3>2. i - Len(q) = j - Len(q)
      BY <3>1 DEF Injective
    <3> QED BY <3>2
  <2>3. \A k, l \in 1..(Len(q) + Len(p)) :
           k \in 1..Len(q) /\ l \notin 1..Len(q) => (q \o p)[k] # (q \o p)[l]
    <3> SUFFICES ASSUME NEW k \in 1..Len(q), NEW l \in (Len(q) + 1)..(Len(q) + Len(p))
                 PROVE  (q \o p)[k] # (q \o p)[l]
      OBVIOUS
    <3>1. (q \o p)[k] \in Elements(q) /\ (q \o p)[l] \in Elements(p)
      BY <1>1 DEF Elements
    <3> QED BY <3>1
  <2> QED BY <2>1, <2>2, <2>3
<1>4. SubSeq(q \o p, Len(q) + 1, Len(q \o p)) = p
  <2> DEFINE t == SubSeq(q \o p, Len(q) + 1, Len(q \o p))
  <2>1. t = [i \in 1..Len(p) |-> (q \o p)[i + Len(q)]]
    BY <1>1
  <2>2. p = [i \in 1..Len(p) |-> p[i]]
    OBVIOUS
  <2> QED BY <1>1, <2>1, <2>2
<1> QED BY <1>2, <1>3, <1>4

LEMMA QueueOfAppend ==
    ASSUME NEW L \in Seq(Job), NEW job \in Job
    PROVE  /\ BatchesOf(Append(L, job)) = BatchesOf(L) \cup Elements(job.batch)
           /\ Apart(L) /\ Elements(job.batch) \cap BatchesOf(L) = {} => Apart(Append(L, job))
<1>1. Elements(Append(L, job)) = Elements(L) \cup {job}
  BY ElementsOfAppend
<1>2. BatchesOf(Append(L, job)) = BatchesOf(L) \cup Elements(job.batch)
  BY <1>1 DEF BatchesOf
<1>3. \A i \in DOMAIN L : Elements(L[i].batch) \subseteq BatchesOf(L)
  BY DEF BatchesOf, Elements
<1>4. /\ DOMAIN Append(L, job) = (DOMAIN L) \cup {Len(L) + 1}
      /\ \A i \in DOMAIN L : Append(L, job)[i] = L[i]
      /\ Append(L, job)[Len(L) + 1] = job
  OBVIOUS
<1> QED BY <1>2, <1>3, <1>4 DEF Apart

LEMMA QueueOfTail ==
    ASSUME NEW L \in Seq(Job), L # <<>>
    PROVE  /\ BatchesOf(L) = Elements(Head(L).batch) \cup BatchesOf(Tail(L))
           /\ Elements(L) = {Head(L)} \cup Elements(Tail(L))
           /\ Apart(L) => /\ Apart(Tail(L))
                          /\ Elements(Head(L).batch) \cap BatchesOf(Tail(L)) = {}
<1>1. /\ Tail(L) \in Seq(Job) /\ Len(Tail(L)) = Len(L) - 1 /\ Head(L) = L[1] /\ 1 \in DOMAIN L
      /\ \A i \in DOMAIN Tail(L) : Tail(L)[i] = L[i + 1] /\ i + 1 \in DOMAIN L /\ i + 1 # 1
      /\ \A i \in DOMAIN L : i = 1 \/ (i - 1 \in DOMAIN Tail(L) /\ Tail(L)[i - 1] = L[i])
      /\ \A i, j \in DOMAIN Tail(L) : i # j => i + 1 # j + 1
  OBVIOUS
<1>2. Elements(L) = {Head(L)} \cup Elements(Tail(L))
  BY <1>1 DEF Elements
<1>3. BatchesOf(L) = Elements(Head(L).batch) \cup BatchesOf(Tail(L))
  BY <1>2 DEF BatchesOf
<1>4. Apart(L) => Apart(Tail(L))
  BY ZenonT(60), <1>1 DEF Apart
<1>5. Apart(L) => Elements(Head(L).batch) \cap BatchesOf(Tail(L)) = {}
  <2> SUFFICES ASSUME Apart(L), NEW r \in Elements(Head(L).batch), r \in BatchesOf(Tail(L))
               PROVE  FALSE
    OBVIOUS
  <2>0. PICK i \in DOMAIN Tail(L) : r \in Elements(Tail(L)[i].batch)
    BY DEF BatchesOf, Elements
  <2>1. r \in Elements(L[1].batch) \cap Elements(L[i + 1].batch)
    BY <1>1, <2>0
  <2>2. Elements(L[1].batch) \cap Elements(L[i + 1].batch) = {}
    BY <1>1 DEF Apart
  <2> QED BY <2>1, <2>2
<1> QED BY <1>2, <1>3, <1>4, <1>5

-----------------------------------------------------------------------------
(* A report is in one place and there once: the batch, the task of a       *)
(* passive record, one turn that waits for the lock, or the history.       *)
Once(c) ==
    /\ Injective(pending[c]) /\ Injective(history[c]) /\ Apart(lock[c])
    /\ \A job \in Elements(lock[c]) :
          Injective(job.batch) /\ (job.turn = "user" => job.batch = <<>>)
    /\ Elements(pending[c]) \cap starting[c] = {}
    /\ Elements(pending[c]) \cap InTurns(c) = {}
    /\ starting[c] \cap InTurns(c) = {}
    /\ Waiting(c) \cap Recorded(c) = {}

(* It is one that its subsession made, in the subsession's conversation.   *)
WasMade(c) ==
    \A r \in Waiting(c) \cup Recorded(c) : SessionOf[r[1]] = c /\ r[2] <= made[r[1]]

PlacesOK == \A c \in Session : Once(c) /\ WasMade(c)

(* What a step does to the reports of c.                                   *)
Keeps(c) ==
    /\ pending'[c] = pending[c] /\ starting'[c] = starting[c]
    /\ lock'[c] = lock[c] /\ history'[c] = history[c]
Adds(c, r) ==
    /\ lock'[c] = lock[c] /\ history'[c] = history[c]
    /\ \/ pending'[c] = Append(pending[c], r) /\ starting'[c] = starting[c]
       \/ pending'[c] = pending[c] /\ starting'[c] = starting[c] \cup {r}
Queues(c) ==
    /\ history'[c] = history[c]
    /\ \E job \in Job :
          /\ lock'[c] = Append(lock[c], job) /\ (job.turn = "user" => job.batch = <<>>)
          /\ \/ job.batch = pending[c] /\ pending'[c] = <<>> /\ starting'[c] = starting[c]
             \/ \E r \in starting[c] : /\ job.batch = <<r>> /\ starting'[c] = starting[c] \ {r}
                                       /\ pending'[c] = pending[c]
             \/ job.batch = <<>> /\ pending'[c] = pending[c] /\ starting'[c] = starting[c]
Records(c) ==
    /\ pending'[c] = pending[c] /\ starting'[c] = starting[c] /\ lock[c] # <<>>
    /\ lock'[c] = Tail(lock[c]) /\ history'[c] = history[c] \o Head(lock[c]).batch

LEMMA ElementsOfFew ==
    /\ Elements(<<>>) = {}
    /\ Injective(<<>>)
    /\ \A r \in Report : /\ Elements(<<r>>) = {r}
                         /\ Injective(<<r>>)
BY DEF Elements, Injective

LEMMA AddsOnce ==
    ASSUME TypeOK, NEW c \in Session, Once(c), NEW r \in Report, Adds(c, r),
           r \notin Waiting(c) \cup Recorded(c)
    PROVE  Once(c)' /\ Waiting(c)' = Waiting(c) \cup {r} /\ Recorded(c)' = Recorded(c)
<1>1. pending[c] \in Seq(Report)
  BY DEF TypeOK
<1>2. InTurns(c)' = InTurns(c) /\ Recorded(c)' = Recorded(c)
  BY DEF Adds, InTurns, Recorded
<1>3. /\ Injective(history[c])' /\ Apart(lock[c])'
      /\ \A job \in Elements(lock[c])' :
          Injective(job.batch) /\ (job.turn = "user" => job.batch = <<>>)
  BY DEF Once, Adds
<1>4. r \notin Elements(pending[c]) /\ r \notin starting[c] /\ r \notin InTurns(c)
  BY DEF Waiting
<1>5. /\ Injective(pending[c])'
      /\ \/ Elements(pending[c])' = Elements(pending[c]) \cup {r} /\ starting'[c] = starting[c]
         \/ Elements(pending[c])' = Elements(pending[c]) /\ starting'[c] = starting[c] \cup {r}
  <2>1. CASE pending'[c] = Append(pending[c], r) /\ starting'[c] = starting[c]
    <3>1. /\ Elements(pending'[c]) = Elements(pending[c]) \cup {r}
          /\ Injective(pending'[c])
      BY <1>1, <1>4, <2>1, ElementsOfAppend DEF Once
    <3> QED BY <2>1, <3>1
  <2>2. CASE pending'[c] = pending[c] /\ starting'[c] = starting[c] \cup {r}
    BY <2>2 DEF Once
  <2> QED BY <2>1, <2>2 DEF Adds
<1>6. Waiting(c)' = Waiting(c) \cup {r}
  BY <1>2, <1>5 DEF Waiting
<1>7. /\ Elements(pending[c])' \cap starting[c]' = {}
      /\ Elements(pending[c])' \cap InTurns(c)' = {}
      /\ starting[c]' \cap InTurns(c)' = {}
  BY <1>2, <1>4, <1>5 DEF Once
<1>8. Waiting(c)' \cap Recorded(c)' = {}
  BY <1>2, <1>6 DEF Once
<1> QED BY <1>2, <1>3, <1>5, <1>6, <1>7, <1>8 DEF Once

LEMMA QueuesOnce ==
    ASSUME TypeOK, NEW c \in Session, Once(c), Queues(c)
    PROVE  Once(c)' /\ Waiting(c)' = Waiting(c) /\ Recorded(c)' = Recorded(c)
<1>1. pending[c] \in Seq(Report) /\ lock[c] \in Seq(Job) /\ starting[c] \subseteq Report
  BY DEF TypeOK
<1>2. Recorded(c)' = Recorded(c) /\ Injective(history[c])'
  BY DEF Queues, Recorded, Once
<1>3. PICK job \in Job :
          /\ lock'[c] = Append(lock[c], job) /\ (job.turn = "user" => job.batch = <<>>)
          /\ \/ job.batch = pending[c] /\ pending'[c] = <<>> /\ starting'[c] = starting[c]
             \/ \E r \in starting[c] : /\ job.batch = <<r>> /\ starting'[c] = starting[c] \ {r}
                                       /\ pending'[c] = pending[c]
             \/ job.batch = <<>> /\ pending'[c] = pending[c] /\ starting'[c] = starting[c]
  BY DEF Queues
<1>4. InTurns(c) = BatchesOf(lock[c]) /\ InTurns(c)' = BatchesOf(lock'[c])
  BY DEF InTurns, BatchesOf
<1>5. InTurns(c)' = InTurns(c) \cup Elements(job.batch)
  BY <1>1, <1>3, <1>4, QueueOfAppend
<1>6. /\ Injective(job.batch) /\ Injective(pending'[c])
      /\ Elements(job.batch) \cap InTurns(c) = {}
      /\ Elements(pending'[c]) = Elements(pending[c]) \ Elements(job.batch)
      /\ starting'[c] = starting[c] \ Elements(job.batch)
      /\ Elements(job.batch) \subseteq Elements(pending[c]) \cup starting[c]
  <2>1. CASE job.batch = pending[c] /\ pending'[c] = <<>> /\ starting'[c] = starting[c]
    BY <2>1, ElementsOfFew DEF Once
  <2>2. CASE \E r \in starting[c] : /\ job.batch = <<r>> /\ starting'[c] = starting[c] \ {r}
                                    /\ pending'[c] = pending[c]
    <3>1. PICK r \in starting[c] : /\ job.batch = <<r>> /\ starting'[c] = starting[c] \ {r}
                                    /\ pending'[c] = pending[c]
      BY <2>2
    <3>2. Elements(job.batch) = {r} /\ Injective(job.batch)
      BY <1>1, <3>1, ElementsOfFew
    <3> QED BY <3>1, <3>2 DEF Once
  <2>3. CASE job.batch = <<>> /\ pending'[c] = pending[c] /\ starting'[c] = starting[c]
    BY <2>3, ElementsOfFew DEF Once
  <2> QED BY <1>3, <2>1, <2>2, <2>3
<1>7. Apart(lock[c])'
  BY <1>1, <1>3, <1>4, <1>6, QueueOfAppend DEF Once
<1>8. Elements(lock'[c]) = Elements(lock[c]) \cup {job}
  BY <1>1, <1>3, ElementsOfAppend
<1>9. Waiting(c)' = Waiting(c)
  BY <1>5, <1>6 DEF Waiting
<1>10. /\ Elements(pending[c])' \cap starting[c]' = {}
       /\ Elements(pending[c])' \cap InTurns(c)' = {}
       /\ starting[c]' \cap InTurns(c)' = {}
  BY <1>5, <1>6 DEF Once
<1>11. \A j \in Elements(lock[c])' : Injective(j.batch) /\ (j.turn = "user" => j.batch = <<>>)
  BY <1>3, <1>6, <1>8 DEF Once
<1>12. Waiting(c)' \cap Recorded(c)' = {}
  BY <1>2, <1>9 DEF Once
<1> QED BY <1>2, <1>6, <1>7, <1>9, <1>10, <1>11, <1>12 DEF Once

LEMMA RecordsOnce ==
    ASSUME TypeOK, NEW c \in Session, Once(c), Records(c)
    PROVE  LET batch == Head(lock[c]).batch IN
           /\ Once(c)' /\ batch \in Seq(Report) /\ Injective(batch)
           /\ Elements(batch) \subseteq Waiting(c)
           /\ Waiting(c)' = Waiting(c) \ Elements(batch)
           /\ Recorded(c)' = Recorded(c) \cup Elements(batch)
<1> DEFINE batch == Head(lock[c]).batch
<1>1. /\ lock[c] \in Seq(Job) /\ lock[c] # <<>> /\ Head(lock[c]) \in Job
      /\ history[c] \in Seq(Report)
  BY DEF TypeOK, Records
<1>2. batch \in Seq(Report)
  BY <1>1 DEF Job
<1>3. InTurns(c) = BatchesOf(lock[c]) /\ InTurns(c)' = BatchesOf(lock'[c])
  BY DEF InTurns, BatchesOf
<1>4. /\ InTurns(c) = Elements(batch) \cup InTurns(c)'
      /\ Elements(lock[c]) = {Head(lock[c])} \cup Elements(lock'[c])
      /\ Apart(lock'[c]) /\ Elements(batch) \cap InTurns(c)' = {}
  BY <1>1, <1>3, QueueOfTail DEF Once, Records
<1>5. Injective(batch)
  BY <1>4 DEF Once
<1> HIDE DEF batch
<1>6. Elements(batch) \subseteq Waiting(c)
  BY <1>4 DEF Waiting
<1>7. history'[c] = history[c] \o batch
  BY DEF Records, batch
<1>8. Recorded(c)' = Recorded(c) \cup Elements(batch) /\ Injective(history[c])'
  <2>1. Elements(history[c]) \cap Elements(batch) = {}
    BY <1>6 DEF Once, Recorded
  <2> QED BY <1>1, <1>2, <1>5, <1>7, <2>1, ElementsOfConcat DEF Recorded, Once
<1>9. Waiting(c)' = Waiting(c) \ Elements(batch)
  <2>1. Elements(batch) \cap (Elements(pending[c]) \cup starting[c]) = {}
    BY <1>4 DEF Once
  <2> QED BY <1>4, <2>1 DEF Waiting, Records
<1>10. /\ Elements(pending[c])' \cap starting[c]' = {}
       /\ Elements(pending[c])' \cap InTurns(c)' = {}
       /\ starting[c]' \cap InTurns(c)' = {}
       /\ Injective(pending[c])'
  BY <1>4 DEF Once, Records
<1>11. Waiting(c)' \cap Recorded(c)' = {}
  BY <1>8, <1>9 DEF Once
<1>12. \A j \in Elements(lock[c])' : Injective(j.batch) /\ (j.turn = "user" => j.batch = <<>>)
  BY <1>4 DEF Once
<1>13. Once(c)'
  BY <1>4, <1>8, <1>10, <1>11, <1>12 DEF Once
<1> QED BY <1>2, <1>5, <1>6, <1>8, <1>9, <1>13 DEF batch

(* Every step does one of these to one conversation and keeps the others.  *)
OthersKeep(c) == \A d \in Session \ {c} : Keeps(d)
Fresh(c, r) == r \in Report /\ r \notin Waiting(c) \cup Recorded(c)

StepKind ==
    \/ made' = made /\ \A c \in Session : Keeps(c)
    \/ \E c \in Session : made' = made /\ (Queues(c) \/ Records(c)) /\ OthersKeep(c)
    \/ \E s \in Sub :
          /\ made' = [made EXCEPT ![s] = @ + 1]
          /\ \/ \A c \in Session : Keeps(c)
             \/ /\ Adds(SessionOf[s], <<s, made[s] + 1>>) /\ OthersKeep(SessionOf[s])
                /\ <<s, made[s] + 1>> \in Report

LEMMA DeliverKind ==
    ASSUME TypeOK, NEW s \in Sub, NEW reason \in Reasons, NEW stale \in BOOLEAN,
           Deliver(s, reason, stale)
    PROVE  StepKind
<1> DEFINE r == <<s, made[s] + 1>>
<1>1. /\ made' = [made EXCEPT ![s] = @ + 1] /\ made[s] \in 0..MaxReports /\ made[s] < MaxReports
      /\ lock' = lock /\ history' = history
      /\ UNCHANGED <<deliveryVars, starting>> \/ Schedule(SessionOf[s], s, r)
  BY DEF Deliver, TypeOK
<1>2. r \in Report /\ SessionOf[s] \in Session
  BY <1>1, DeliveryConstants DEF Report
<1>3. CASE pending' = pending /\ starting' = starting
  BY <1>1, <1>3 DEF StepKind, Keeps
<1>4. CASE /\ pending' = pending
           /\ starting' = [starting EXCEPT ![SessionOf[s]] = @ \cup {r}]
  <2>1. Adds(SessionOf[s], r) /\ OthersKeep(SessionOf[s])
    BY <1>1, <1>2, <1>4 DEF Adds, OthersKeep, Keeps, TypeOK
  <2> QED BY <1>1, <1>2, <2>1 DEF StepKind
<1>5. CASE /\ pending' = [pending EXCEPT ![SessionOf[s]] = Append(@, r)]
           /\ starting' = starting
  <2>1. Adds(SessionOf[s], r) /\ OthersKeep(SessionOf[s])
    BY <1>1, <1>2, <1>5 DEF Adds, OthersKeep, Keeps, TypeOK
  <2> QED BY <1>1, <1>2, <2>1 DEF StepKind
<1> QED BY <1>1, <1>3, <1>4, <1>5 DEF Schedule, deliveryVars

LEMMA DrainKind ==
    ASSUME TypeOK, NEW c \in Session, NEW turn \in {"reaction", "flush"}, Drain(c, turn),
           starting' = starting, history' = history
    PROVE  Queues(c) /\ OthersKeep(c)
<1> DEFINE job == [turn |-> turn, batch |-> pending[c]]
<1>1. job \in Job /\ job.turn # "user" /\ job.batch = pending[c]
  BY DEF Job, Turns, TypeOK
<1>2. lock'[c] = Append(lock[c], job) /\ pending'[c] = <<>>
  BY DEF Drain, TypeOK
<1>3. Queues(c)
  BY <1>1, <1>2 DEF Queues
<1> QED BY <1>3 DEF OthersKeep, Keeps, Drain, TypeOK

LEMMA RecordKind ==
    ASSUME TypeOK, NEW c \in Session, lock[c] # <<>>, Recording(c), Release(c),
           pending' = pending, starting' = starting
    PROVE  Records(c) /\ OthersKeep(c)
BY DEF Recording, Release, Records, OthersKeep, Keeps, TypeOK

LEMMA ChatStepKind ==
    ASSUME TypeOK, PlacesOK, NEW c \in Session, ChatStep(c)
    PROVE  StepKind
<1>1. CASE TimerFires(c)
  <2>1. CASE pending[c] = <<>>
    BY <1>1, <2>1 DEF TimerFires, recordVars, StepKind, Keeps
  <2>2. CASE pending[c] # <<>>
    BY <1>1, <2>2, DrainKind DEF TimerFires, recordVars, StepKind
  <2> QED BY <2>1, <2>2
<1>2. ASSUME NEW r \in Report, PassiveStarts(c, r) PROVE StepKind
  <2> DEFINE job == [turn |-> "passive", batch |-> <<r>>]
  <2>1. job \in Job /\ job.turn # "user" /\ job.batch = <<r>>
    BY DEF Job, Turns
  <2>2. r \in starting[c] /\ lock'[c] = Append(lock[c], job) /\ starting'[c] = starting[c] \ {r}
        /\ pending' = pending /\ history' = history /\ made' = made
    BY <1>2 DEF PassiveStarts, deliveryVars, recordVars, TypeOK
  <2>3. Queues(c)
    BY <2>1, <2>2 DEF Queues
  <2>4. OthersKeep(c)
    BY <1>2, <2>2 DEF PassiveStarts, OthersKeep, Keeps, TypeOK
  <2> QED BY <2>2, <2>3, <2>4 DEF StepKind
<1>3. CASE BackgroundEnds(c) \/ FlushEnds(c) \/ PassiveEnds(c)
  <2>1. /\ lock[c] # <<>> /\ Recording(c) /\ Release(c) /\ made' = made
        /\ pending' = pending /\ starting' = starting
    BY <1>3 DEF BackgroundEnds, FlushEnds, PassiveEnds, ReactionEnds, Holds, recordVars, deliveryVars
  <2> QED BY <2>1, RecordKind DEF StepKind
<1>4. CASE Submit(c)
  <2> DEFINE job == [turn |-> "user", batch |-> <<>>]
  <2>1. job \in Job /\ job.batch = <<>>
    BY DEF Job, Turns
  <2>2. /\ lock'[c] = Append(lock[c], job) /\ starting' = starting
        /\ pending' = pending /\ history' = history /\ made' = made
    BY <1>4 DEF Submit, deliveryVars, recordVars, TypeOK
  <2>3. Queues(c)
    BY <2>1, <2>2 DEF Queues
  <2>4. OthersKeep(c)
    BY <1>4, <2>2 DEF Submit, OthersKeep, Keeps, TypeOK
  <2> QED BY <2>2, <2>3, <2>4 DEF StepKind
<1>5. CASE UserTurnEnds(c)
  <2>1. /\ lock[c] # <<>> /\ Head(lock[c]).turn = "user" /\ Release(c) /\ made' = made
        /\ pending' = pending /\ starting' = starting /\ history' = history
    BY <1>5 DEF UserTurnEnds, Holds, recordVars, deliveryVars
  <2>2. Head(lock[c]) \in Elements(lock[c])
    BY <2>1, QueueOfTail DEF TypeOK
  <2>3. Head(lock[c]).batch = <<>>
    BY <2>1, <2>2 DEF PlacesOK, Once
  <2>4. history[c] \o <<>> = history[c]
    BY DEF TypeOK
  <2>5. Records(c) /\ OthersKeep(c)
    BY <2>1, <2>3, <2>4 DEF Release, Records, OthersKeep, Keeps, TypeOK
  <2> QED BY <2>1, <2>5 DEF StepKind
<1> QED BY <1>1, <1>2, <1>3, <1>4, <1>5 DEF ChatStep

LEMMA EveryStepKind ==
    ASSUME TypeOK, PlacesOK, [Next]_vars
    PROVE  StepKind
<1>1. ASSUME NEW s \in Sub, Resume(s) \/ ReadInbox(s) PROVE StepKind
  BY <1>1 DEF Resume, ReadInbox, deliveryVars, chatVars, StepKind, Keeps
<1>2. ASSUME NEW c \in Session, Arrive(c) PROVE StepKind
  <2>1. CASE pending[c] = <<>>
    BY <1>2, <2>1 DEF Arrive, recordVars, StepKind, Keeps
  <2>2. CASE pending[c] # <<>>
    BY <1>2, <2>2, DrainKind DEF Arrive, recordVars, StepKind
  <2> QED BY <2>1, <2>2
<1>3. CASE UNCHANGED vars
  BY <1>3 DEF vars, recordVars, deliveryVars, chatVars, StepKind, Keeps
<1> QED BY <1>1, <1>2, <1>3, ChatStepKind, DeliverKind DEF Next

LEMMA KeepsPlaces ==
    ASSUME NEW c \in Session, Keeps(c)
    PROVE  (Once(c) => Once(c)') /\ Waiting(c)' = Waiting(c) /\ Recorded(c)' = Recorded(c)
<1>1. InTurns(c)' = InTurns(c)
  BY DEF Keeps, InTurns
<1>2. Waiting(c)' = Waiting(c) /\ Recorded(c)' = Recorded(c)
  BY <1>1 DEF Keeps, Waiting, Recorded
<1> QED BY <1>1, <1>2 DEF Keeps, Once

LEMMA ReportsTyped ==
    ASSUME TypeOK, NEW c \in Session
    PROVE  Waiting(c) \subseteq Report /\ Recorded(c) \subseteq Report
<1>1. \A q \in Seq(Report) : Elements(q) \subseteq Report
  BY DEF Elements
<1>2. \A job \in Elements(lock[c]) : job.batch \in Seq(Report)
  <2>1. \A i \in DOMAIN lock[c] : lock[c][i] \in Job
    BY DEF TypeOK
  <2> QED BY <2>1 DEF Elements, Job
<1>3. InTurns(c) \subseteq Report
  BY <1>1, <1>2 DEF InTurns
<1> QED BY <1>1, <1>3 DEF Waiting, Recorded, TypeOK

LEMMA NewReportIsFresh ==
    ASSUME TypeOK, PlacesOK, NEW s \in Sub
    PROVE  <<s, made[s] + 1>> \notin Waiting(SessionOf[s]) \cup Recorded(SessionOf[s])
<1>1. made[s] \in Nat /\ SessionOf[s] \in Session
  BY DeliveryConstants DEF TypeOK
<1>2. \A r \in Waiting(SessionOf[s]) \cup Recorded(SessionOf[s]) : r[2] <= made[r[1]]
  BY <1>1 DEF PlacesOK, WasMade
<1> QED BY <1>1, <1>2

(* What StepKind leaves: nothing moved into or out of the waiting reports  *)
(* of d, a new one came, or a batch of them was recorded.                  *)
RecordsBatch(d) ==
    \E batch \in Seq(Report) :
       /\ Injective(batch) /\ Elements(batch) \subseteq Waiting(d)
       /\ Waiting(d)' = Waiting(d) \ Elements(batch)
       /\ Recorded(d)' = Recorded(d) \cup Elements(batch)
       /\ history'[d] = history[d] \o batch
AcceptsNew(d, r) ==
    /\ Fresh(d, r) /\ Waiting(d)' = Waiting(d) \cup {r} /\ history'[d] = history[d]
    /\ Recorded(d)' = Recorded(d)
Quiet(d) == Waiting(d)' = Waiting(d) /\ history'[d] = history[d] /\ Recorded(d)' = Recorded(d)

LEMMA KindEffect ==
    ASSUME TypeOK, PlacesOK, StepKind
    PROVE  /\ \A d \in Session : Once(d)'
           /\ \A s \in Sub : made[s] <= made'[s]
           /\ \/ \A d \in Session : Quiet(d)
              \/ \E c \in Session : RecordsBatch(c) /\ \A d \in Session \ {c} : Quiet(d)
              \/ \E s \in Sub : /\ AcceptsNew(SessionOf[s], <<s, made[s] + 1>>)
                                /\ made'[s] = made[s] + 1
                                /\ \A d \in Session \ {SessionOf[s]} : Quiet(d)
<1>0. \A c \in Session : Keeps(c) => Quiet(c) /\ Once(c)'
  BY KeepsPlaces DEF Keeps, Quiet, PlacesOK
<1>1. \A s \in Sub : made[s] \in Nat /\ SessionOf[s] \in Session
  BY DeliveryConstants DEF TypeOK
<1>2. CASE made' = made /\ \A c \in Session : Keeps(c)
  BY <1>0, <1>1, <1>2
<1>3. ASSUME NEW c \in Session, made' = made, Queues(c), OthersKeep(c)
      PROVE  (\A d \in Session : Once(d)') /\ \A d \in Session : Quiet(d)
  <2>1. Quiet(c) /\ Once(c)'
    BY <1>3, QueuesOnce DEF PlacesOK, Quiet, Queues
  <2> QED BY <1>0, <1>3, <2>1 DEF OthersKeep
<1>4. ASSUME NEW c \in Session, made' = made, Records(c), OthersKeep(c)
      PROVE  /\ \A d \in Session : Once(d)'
             /\ RecordsBatch(c) /\ \A d \in Session \ {c} : Quiet(d)
  <2>1. RecordsBatch(c) /\ Once(c)'
    BY <1>4, RecordsOnce DEF PlacesOK, RecordsBatch, Records
  <2> QED BY <1>0, <1>4, <2>1 DEF OthersKeep
<1>5. ASSUME NEW s \in Sub, made' = [made EXCEPT ![s] = @ + 1]
      PROVE  made'[s] = made[s] + 1 /\ \A x \in Sub : made[x] <= made'[x]
  BY <1>1, <1>5 DEF TypeOK
<1>6. ASSUME NEW s \in Sub, Adds(SessionOf[s], <<s, made[s] + 1>>), OthersKeep(SessionOf[s]),
             <<s, made[s] + 1>> \in Report
      PROVE  /\ \A d \in Session : Once(d)'
             /\ AcceptsNew(SessionOf[s], <<s, made[s] + 1>>)
             /\ \A d \in Session \ {SessionOf[s]} : Quiet(d)
  <2>1. Fresh(SessionOf[s], <<s, made[s] + 1>>)
    BY <1>6, NewReportIsFresh DEF Fresh
  <2>2. AcceptsNew(SessionOf[s], <<s, made[s] + 1>>) /\ Once(SessionOf[s])'
    BY <1>1, <1>6, <2>1, AddsOnce DEF PlacesOK, AcceptsNew, Fresh, Adds
  <2> QED BY <1>0, <1>6, <2>2 DEF OthersKeep
<1>7. CASE \E c \in Session : made' = made /\ (Queues(c) \/ Records(c)) /\ OthersKeep(c)
  BY <1>1, <1>3, <1>4, <1>7
<1>8. CASE \E s \in Sub : made' = [made EXCEPT ![s] = @ + 1] /\ \A c \in Session : Keeps(c)
  BY <1>0, <1>5, <1>8
<1>9. CASE \E s \in Sub :
             /\ made' = [made EXCEPT ![s] = @ + 1]
             /\ Adds(SessionOf[s], <<s, made[s] + 1>>) /\ OthersKeep(SessionOf[s])
             /\ <<s, made[s] + 1>> \in Report
  BY <1>5, <1>6, <1>9
<1> QED BY <1>2, <1>7, <1>8, <1>9 DEF StepKind

LEMMA PlacesStep ==
    ASSUME TypeOK, TypeOK', PlacesOK, [Next]_vars
    PROVE  PlacesOK'
<1>1. StepKind
  BY EveryStepKind
<1>2. \A d \in Session : Once(d)'
  BY <1>1, KindEffect
<1>3. \A s \in Sub : made[s] <= made'[s] /\ made[s] \in Nat /\ made'[s] \in Nat
  BY <1>1, KindEffect DEF TypeOK
<1>4. \A d \in Session : \A r \in Waiting(d) \cup Recorded(d) :
          r[1] \in Sub /\ r[2] \in Nat /\ SessionOf[r[1]] = d /\ r[2] <= made[r[1]]
  BY ReportsTyped DEF PlacesOK, WasMade, Report
<1>5. ASSUME NEW d \in Session,
             Waiting(d)' \cup Recorded(d)' \subseteq Waiting(d) \cup Recorded(d)
      PROVE  WasMade(d)'
  <2>1. \A r \in Waiting(d)' \cup Recorded(d)' : r[2] <= made'[r[1]]
    BY <1>3, <1>4, <1>5
  <2> QED BY <1>4, <1>5, <2>1 DEF WasMade
<1>6. \A d \in Session : Quiet(d) \/ RecordsBatch(d) => WasMade(d)'
  BY <1>5 DEF Quiet, RecordsBatch
<1>7. ASSUME NEW s \in Sub, AcceptsNew(SessionOf[s], <<s, made[s] + 1>>), made'[s] = made[s] + 1
      PROVE  WasMade(SessionOf[s])'
  <2> DEFINE c == SessionOf[s]
  <2>1. c \in Session
    BY DeliveryConstants
  <2>2. \A r \in Waiting(c) \cup Recorded(c) : SessionOf[r[1]] = c /\ r[2] <= made'[r[1]]
    BY <1>3, <1>4, <2>1
  <2>3. SessionOf[<<s, made[s] + 1>>[1]] = c /\ <<s, made[s] + 1>>[2] <= made'[<<s, made[s] + 1>>[1]]
    BY <1>3, <1>7
  <2> HIDE DEF c
  <2>4. Waiting(c)' \cup Recorded(c)' = Waiting(c) \cup Recorded(c) \cup {<<s, made[s] + 1>>}
    BY <1>7 DEF AcceptsNew, c
  <2>5. \A r \in Waiting(c)' \cup Recorded(c)' : SessionOf[r[1]] = c /\ r[2] <= made'[r[1]]
    BY <2>2, <2>3, <2>4
  <2> QED BY <2>5 DEF WasMade, c
<1>8. \A d \in Session : WasMade(d)'
  BY <1>1, <1>6, <1>7, KindEffect
<1> QED BY <1>2, <1>8 DEF PlacesOK

LEMMA InitPlaces == Init => PlacesOK
<1> SUFFICES ASSUME Init, NEW c \in Session PROVE Once(c) /\ WasMade(c)
  BY DEF PlacesOK
<1>1. pending[c] = <<>> /\ history[c] = <<>> /\ lock[c] = <<>> /\ starting[c] = {}
  BY DEF Init
<1>2. Elements(lock[c]) = {} /\ InTurns(c) = {} /\ Apart(lock[c])
  BY <1>1, ElementsOfFew DEF InTurns, Apart
<1>3. Waiting(c) = {} /\ Recorded(c) = {}
  BY <1>1, <1>2, ElementsOfFew DEF Waiting, Recorded
<1> QED BY <1>1, <1>2, <1>3, ElementsOfFew DEF Once, WasMade

LEMMA PlacesInvariant == Spec => []PlacesOK
<1>1. TypeOK /\ TypeOK' /\ PlacesOK /\ [Next]_vars => PlacesOK'
  BY PlacesStep
<1> QED BY <1>1, InitPlaces, DeliveryTypes, PTL DEF Spec

(* The delivery implements its promise: whatever the timer, the requests,  *)
(* the passive records and the turns do, an accepted outcome is recorded   *)
(* in its conversation's history once.                                     *)
LEMMA PromiseStep ==
    ASSUME TypeOK, TypeOK', PlacesOK, [Next]_vars
    PROVE  [Promise!Next]_(Promise!deliveryVars)
<1> DEFINE wait == [c \in Session |-> Waiting(c)]
<1>0. StepKind /\ history \in [Session -> Seq(Report)] /\ history' \in [Session -> Seq(Report)]
  BY EveryStepKind DEF TypeOK
<1>1. CASE \A d \in Session : Quiet(d)
  <2>1. wait' = wait
    BY <1>1 DEF Quiet
  <2>2. history' = history
    BY <1>0, <1>1 DEF Quiet
  <2> QED BY <2>1, <2>2 DEF Promise!deliveryVars
<1>2. ASSUME NEW s \in Sub, AcceptsNew(SessionOf[s], <<s, made[s] + 1>>),
             \A d \in Session \ {SessionOf[s]} : Quiet(d)
      PROVE  Promise!Next
  <2> DEFINE c == SessionOf[s]
             r == <<s, made[s] + 1>>
  <2>1. c \in Session /\ r \in Report /\ r \notin Waiting(c) \cup Recorded(c)
    BY <1>2, DeliveryConstants DEF AcceptsNew, Fresh
  <2>2. \A d \in Session : Waiting(d)' = IF d = c THEN Waiting(d) \cup {r} ELSE Waiting(d)
    BY <1>2 DEF Quiet, AcceptsNew
  <2>3. wait' = [wait EXCEPT ![c] = @ \cup {r}]
    BY <2>1, <2>2
  <2>4. history' = history
    BY <1>0, <1>2 DEF Quiet, AcceptsNew
  <2>5. Promise!Recorded(c) = Recorded(c)
    BY DEF Promise!Recorded, Recorded, Elements
  <2>6. Promise!Accept(c, r)
    BY <2>1, <2>3, <2>4, <2>5 DEF Promise!Accept
  <2> QED BY <2>1, <2>6 DEF Promise!Next
<1>3. ASSUME NEW c \in Session, RecordsBatch(c), \A d \in Session \ {c} : Quiet(d)
      PROVE  Promise!Next
  <2>1. PICK batch \in Seq(Report) :
           /\ Injective(batch) /\ Elements(batch) \subseteq Waiting(c)
           /\ Waiting(c)' = Waiting(c) \ Elements(batch)
           /\ history'[c] = history[c] \o batch
    BY <1>3 DEF RecordsBatch
  <2>2. SubSeq(history'[c], Len(history[c]) + 1, Len(history'[c])) = batch
    BY <1>0, <2>1, ElementsOfConcat
  <2>3. Promise!Added(c) = batch
    BY <2>2 DEF Promise!Added
  <2>4. \A d \in Session : Waiting(d)' = IF d = c THEN Waiting(d) \ Elements(batch) ELSE Waiting(d)
    BY <1>3, <2>1 DEF Quiet
  <2>5. wait' = [wait EXCEPT ![c] = @ \ {batch[i] : i \in DOMAIN batch}]
    BY <2>4 DEF Elements
  <2>6. history' = [history EXCEPT ![c] = @ \o batch]
    BY <1>0, <1>3, <2>1 DEF Quiet
  <2>7. Promise!Record(c, batch)
    BY <2>1, <2>5, <2>6 DEF Promise!Record, Injective, Elements
  <2> QED BY <2>3, <2>7 DEF Promise!Next
<1> QED BY <1>0, <1>1, <1>2, <1>3, KindEffect

THEOREM DeliveryKeepsItsPromise == Spec => ImplementsPromise
<1>1. Init => Promise!Init
  <2> SUFFICES ASSUME Init PROVE Promise!Init OBVIOUS
  <2>1. \A c \in Session : Waiting(c) = {}
    BY ElementsOfFew DEF Init, Waiting, InTurns
  <2> QED BY <2>1 DEF Promise!Init, Init
<1>2. TypeOK /\ TypeOK' /\ PlacesOK /\ [Next]_vars => [Promise!Next]_(Promise!deliveryVars)
  BY PromiseStep
<1> QED BY <1>1, <1>2, DeliveryTypes, PlacesInvariant, PTL DEF Spec, ImplementsPromise, Promise!Spec

-----------------------------------------------------------------------------
(* The user's turn.  A request is at most once in the queue of the lock,   *)
(* as the flush it waits for or as its own turn, and all it awaits is      *)
(* recorded, about to ask for the lock, or in the queue, before its turn   *)
(* once that is in the queue.                                              *)
TurnAt(c, i, turns) == i \in DOMAIN lock[c] /\ lock[c][i].turn \in turns

Before(c, i) == UNION {Elements(lock[c][j].batch) : j \in {k \in DOMAIN lock[c] : k < i}}

RequestOK(c) ==
    /\ \A i, j \in Nat : TurnAt(c, i, {"user", "flush"}) /\ TurnAt(c, j, {"user", "flush"}) => i = j
    /\ \A i \in Nat : TurnAt(c, i, {"user"}) =>
           request[c] = "queued" /\ awaited[c] \subseteq Recorded(c) \cup Before(c, i)
    /\ \A i \in Nat : TurnAt(c, i, {"flush"}) => request[c] = "flushing"
    /\ request[c] \in {"flushing", "submitted"} =>
           awaited[c] \subseteq Recorded(c) \cup starting[c] \cup InTurns(c)

RequestsOK == \A c \in Session : RequestOK(c)

(* The queue of c after a turn joins it, and after the first one leaves.   *)
LEMMA JoinQueue ==
    ASSUME TypeOK, NEW c \in Session, NEW job \in Job, lock'[c] = Append(lock[c], job)
    PROVE  /\ \A i \in Nat, T \in SUBSET Turns : TurnAt(c, i, T)' =>
                 TurnAt(c, i, T) \/ (i = Len(lock[c]) + 1 /\ job.turn \in T)
           /\ \A i \in Nat : i \in DOMAIN lock[c] => Before(c, i)' = Before(c, i)
           /\ \A i \in Nat : i = Len(lock[c]) + 1 => Before(c, i)' = InTurns(c)
           /\ InTurns(c) \subseteq InTurns(c)'
<1>1. /\ DOMAIN lock'[c] = (DOMAIN lock[c]) \cup {Len(lock[c]) + 1}
      /\ \A i \in DOMAIN lock[c] : lock'[c][i] = lock[c][i] /\ i \in Nat /\ i < Len(lock[c]) + 1
      /\ lock'[c][Len(lock[c]) + 1] = job
      /\ Len(lock[c]) \in Nat
  BY DEF TypeOK
<1>2. \A i \in Nat, T \in SUBSET Turns : TurnAt(c, i, T)' =>
          TurnAt(c, i, T) \/ (i = Len(lock[c]) + 1 /\ job.turn \in T)
  BY <1>1 DEF TurnAt
<1>3. \A i \in Nat : i \in DOMAIN lock[c] => Before(c, i)' = Before(c, i)
  <2> TAKE i \in Nat
  <2> HAVE i \in DOMAIN lock[c]
  <2>1. {k \in DOMAIN lock'[c] : k < i} = {k \in DOMAIN lock[c] : k < i}
    BY <1>1
  <2>2. Before(c, i)' = UNION {Elements(lock'[c][j].batch) : j \in {k \in DOMAIN lock[c] : k < i}}
    BY <2>1 DEF Before
  <2> QED BY <1>1, <2>2 DEF Before
<1>4. ASSUME NEW n \in Nat, n = Len(lock[c]) + 1 PROVE Before(c, n)' = InTurns(c)
  <2>1. {k \in DOMAIN lock'[c] : k < n} = DOMAIN lock[c]
    BY <1>1, <1>4
  <2>2. Before(c, n)' = UNION {Elements(lock'[c][j].batch) : j \in DOMAIN lock[c]}
    BY <2>1 DEF Before
  <2> QED BY <1>1, <2>2 DEF InTurns, Elements
<1>5. InTurns(c) \subseteq InTurns(c)'
  BY <1>1 DEF InTurns, Elements
<1> QED BY <1>2, <1>3, <1>4, <1>5

LEMMA LeaveQueue ==
    ASSUME TypeOK, NEW c \in Session, lock[c] # <<>>, lock'[c] = Tail(lock[c])
    PROVE  /\ \A i \in Nat, T \in SUBSET Turns :
                 TurnAt(c, i, T)' => i + 1 # 1 /\ TurnAt(c, i + 1, T)
           /\ \A i \in Nat : i \in DOMAIN lock'[c] =>
                 Before(c, i + 1) \subseteq Elements(Head(lock[c]).batch) \cup Before(c, i)'
           /\ InTurns(c) = Elements(Head(lock[c]).batch) \cup InTurns(c)'
           /\ \A T \in SUBSET Turns : Head(lock[c]).turn \in T => TurnAt(c, 1, T)
           /\ Before(c, 1) = {}
<1>1. /\ lock[c] \in Seq(Job) /\ Head(lock[c]) = lock[c][1] /\ 1 \in DOMAIN lock[c]
      /\ DOMAIN lock[c] = 1..Len(lock[c]) /\ Len(lock[c]) \in Nat
      /\ DOMAIN lock'[c] = 1..(Len(lock[c]) - 1)
      /\ \A i \in DOMAIN lock'[c] : lock'[c][i] = lock[c][i + 1] /\ i + 1 \in DOMAIN lock[c] /\ i + 1 # 1
  BY DEF TypeOK
<1>2. \A i \in Nat, T \in SUBSET Turns : TurnAt(c, i, T)' => i + 1 # 1 /\ TurnAt(c, i + 1, T)
  BY <1>1 DEF TurnAt
<1>3. ASSUME NEW i \in Nat, i \in DOMAIN lock'[c], NEW r \in Before(c, i + 1),
             r \notin Elements(Head(lock[c]).batch)
      PROVE  r \in Before(c, i)'
  <2>1. PICK k \in DOMAIN lock[c] : k < i + 1 /\ r \in Elements(lock[c][k].batch)
    BY DEF Before
  <2>2. k # 1
    BY <1>1, <1>3, <2>1
  <2>3. k - 1 \in DOMAIN lock'[c] /\ k - 1 < i /\ lock'[c][k - 1] = lock[c][k]
    BY <1>1, <1>3, <2>1, <2>2
  <2>4. r \in Elements(lock'[c][k - 1].batch)
    BY <2>1, <2>3
  <2> QED BY <2>3, <2>4 DEF Before
<1>4. InTurns(c) = Elements(Head(lock[c]).batch) \cup InTurns(c)'
  BY <1>1, QueueOfTail DEF InTurns, BatchesOf
<1>5. Before(c, 1) = {}
  BY <1>1 DEF Before
<1>6. \A T \in SUBSET Turns : Head(lock[c]).turn \in T => TurnAt(c, 1, T)
  BY <1>1 DEF TurnAt
<1>7. \A i \in Nat : i \in DOMAIN lock'[c] =>
          Before(c, i + 1) \subseteq Elements(Head(lock[c]).batch) \cup Before(c, i)'
  BY <1>3
<1> QED BY <1>2, <1>4, <1>5, <1>6, <1>7

(* A conversation whose queue does not change and whose request neither.   *)
LEMMA RequestUntouched ==
    ASSUME NEW c \in Session, RequestOK(c), lock'[c] = lock[c], history'[c] = history[c],
           starting[c] \subseteq starting'[c],
           request'[c] = request[c], awaited'[c] = awaited[c]
    PROVE  RequestOK(c)'
<1>1. /\ InTurns(c)' = InTurns(c) /\ Recorded(c)' = Recorded(c)
      /\ \A i \in Nat : Before(c, i)' = Before(c, i)
      /\ \A i \in Nat, T \in SUBSET Turns : TurnAt(c, i, T)' = TurnAt(c, i, T)
  BY DEF InTurns, Recorded, Before, TurnAt
<1>2. \A T \in {{"user"}, {"flush"}, {"user", "flush"}} : T \in SUBSET Turns
  BY DEF Turns
<1> QED BY <1>1, <1>2 DEF RequestOK

(* A turn joins the queue: a reaction or a passive record, the flush of a  *)
(* request that arrives, or the user's turn.                               *)
LEMMA RequestJoins ==
    ASSUME TypeOK, NEW c \in Session, RequestOK(c), NEW job \in Job,
           lock'[c] = Append(lock[c], job), history'[c] = history[c],
           \/ /\ job.turn \notin {"user", "flush"}
              /\ request'[c] = request[c] /\ awaited'[c] = awaited[c]
              /\ starting[c] \subseteq starting'[c] \cup Elements(job.batch)
           \/ /\ job.turn = "flush" /\ request[c] = "none" /\ request'[c] = "flushing"
              /\ starting'[c] = starting[c] /\ job.batch = pending[c]
              /\ awaited'[c] = Waiting(c)
           \/ /\ job.turn = "user" /\ request[c] = "submitted" /\ request'[c] = "queued"
              /\ starting[c] \cap awaited[c] = {} /\ awaited'[c] = awaited[c]
    PROVE  RequestOK(c)'
<1>0. \A T \in {{"user"}, {"flush"}, {"user", "flush"}} : T \in SUBSET Turns
  BY DEF Turns
<1>1. Recorded(c)' = Recorded(c)
  BY DEF Recorded
<1>2. InTurns(c)' = InTurns(c) \cup Elements(job.batch)
  BY QueueOfAppend DEF InTurns, BatchesOf, TypeOK
<1>3. \A i \in Nat : TurnAt(c, i, {"user"}) => i \in DOMAIN lock[c]
  BY DEF TurnAt
<1>4. Len(lock[c]) + 1 \in Nat
  BY DEF TypeOK
<1>5. CASE /\ job.turn \notin {"user", "flush"}
           /\ request'[c] = request[c] /\ awaited'[c] = awaited[c]
           /\ starting[c] \subseteq starting'[c] \cup Elements(job.batch)
  <2>1. \A i \in Nat, T \in {{"user"}, {"flush"}, {"user", "flush"}} : TurnAt(c, i, T)' => TurnAt(c, i, T)
    BY <1>0, <1>5, JoinQueue
  <2>2. \A i \in Nat : TurnAt(c, i, {"user"}) => Before(c, i)' = Before(c, i)
    BY <1>3, JoinQueue
  <2> QED BY <1>1, <1>2, <1>5, <2>1, <2>2 DEF RequestOK
<1>6. CASE /\ job.turn = "flush" /\ request[c] = "none" /\ request'[c] = "flushing"
           /\ starting'[c] = starting[c] /\ job.batch = pending[c]
           /\ awaited'[c] = Waiting(c)
  <2>1. \A i \in Nat : ~TurnAt(c, i, {"user"}) /\ ~TurnAt(c, i, {"flush"})
    BY <1>6 DEF RequestOK
  <2>2. \A i \in Nat : ~TurnAt(c, i, {"user", "flush"})
    BY <2>1 DEF TurnAt
  <2>3. \A i \in Nat : /\ ~TurnAt(c, i, {"user"})'
                       /\ TurnAt(c, i, {"user", "flush"})' => i = Len(lock[c]) + 1
    BY <1>0, <1>6, <2>1, <2>2, JoinQueue
  <2>4. awaited'[c] \subseteq starting'[c] \cup InTurns(c)'
    BY <1>2, <1>6 DEF Waiting
  <2> QED BY <1>6, <2>3, <2>4 DEF RequestOK
<1>7. CASE /\ job.turn = "user" /\ request[c] = "submitted" /\ request'[c] = "queued"
           /\ starting[c] \cap awaited[c] = {} /\ awaited'[c] = awaited[c]
  <2>1. \A i \in Nat : ~TurnAt(c, i, {"user"}) /\ ~TurnAt(c, i, {"flush"})
    BY <1>7 DEF RequestOK
  <2>2. \A i \in Nat : ~TurnAt(c, i, {"user", "flush"})
    BY <2>1 DEF TurnAt
  <2>3. \A i \in Nat : /\ ~TurnAt(c, i, {"flush"})'
                       /\ TurnAt(c, i, {"user", "flush"})' => i = Len(lock[c]) + 1
                       /\ TurnAt(c, i, {"user"})' => i = Len(lock[c]) + 1
    BY <1>0, <1>7, <2>1, <2>2, JoinQueue
  <2>4. awaited'[c] \subseteq Recorded(c)' \cup InTurns(c)
    BY <1>1, <1>7 DEF RequestOK
  <2>5. \A i \in Nat : TurnAt(c, i, {"user"})' => awaited'[c] \subseteq Recorded(c)' \cup Before(c, i)'
    BY <2>3, <2>4, JoinQueue
  <2> QED BY <1>7, <2>3, <2>5 DEF RequestOK
<1> QED BY <1>5, <1>6, <1>7

(* A turn leaves the queue and has recorded its batch.                     *)
LEMMA RequestLeaves ==
    ASSUME TypeOK, NEW c \in Session, Once(c), RequestOK(c), Records(c),
           \/ /\ Head(lock[c]).turn \notin {"user", "flush"}
              /\ request'[c] = request[c] /\ awaited'[c] = awaited[c]
           \/ /\ Head(lock[c]).turn = "flush"
              /\ request'[c] = "submitted" /\ awaited'[c] = awaited[c]
           \/ Head(lock[c]).turn = "user" /\ request'[c] = "none"
    PROVE  RequestOK(c)'
<1> DEFINE batch == Head(lock[c]).batch
<1>0. \A T \in {{"user"}, {"flush"}, {"user", "flush"}} : T \in SUBSET Turns
  BY DEF Turns
<1>1. Recorded(c)' = Recorded(c) \cup Elements(batch)
  BY RecordsOnce
<1>2. /\ \A i \in Nat, T \in SUBSET Turns : TurnAt(c, i, T)' => i + 1 # 1 /\ TurnAt(c, i + 1, T)
      /\ \A i \in Nat : i \in DOMAIN lock'[c] => Before(c, i + 1) \subseteq Elements(batch) \cup Before(c, i)'
      /\ InTurns(c) = Elements(batch) \cup InTurns(c)'
      /\ \A T \in SUBSET Turns : Head(lock[c]).turn \in T => TurnAt(c, 1, T)
  BY LeaveQueue DEF Records
<1> HIDE DEF batch
<1>3. \A i \in Nat : TurnAt(c, i, {"user"})' => i \in DOMAIN lock'[c]
  BY DEF TurnAt
<1>4. \A i, j \in Nat : TurnAt(c, i, {"user", "flush"})' /\ TurnAt(c, j, {"user", "flush"})' => i = j
  <2> SUFFICES ASSUME NEW i \in Nat, NEW j \in Nat,
                      TurnAt(c, i, {"user", "flush"})', TurnAt(c, j, {"user", "flush"})'
               PROVE  i = j
    OBVIOUS
  <2>1. TurnAt(c, i + 1, {"user", "flush"}) /\ TurnAt(c, j + 1, {"user", "flush"})
    BY <1>0, <1>2
  <2>2. i + 1 = j + 1
    BY <2>1 DEF RequestOK
  <2> QED BY <2>2
<1>5. starting'[c] = starting[c]
  BY DEF Records
<1>6. CASE /\ Head(lock[c]).turn \notin {"user", "flush"}
           /\ request'[c] = request[c] /\ awaited'[c] = awaited[c]
  <2>1. \A i \in Nat : TurnAt(c, i, {"user"})' =>
            request'[c] = "queued" /\ awaited'[c] \subseteq Recorded(c)' \cup Before(c, i)'
    <3> SUFFICES ASSUME NEW i \in Nat, TurnAt(c, i, {"user"})'
                 PROVE  request[c] = "queued" /\ awaited[c] \subseteq Recorded(c)' \cup Before(c, i)'
      BY <1>6
    <3>1. i + 1 \in Nat /\ TurnAt(c, i + 1, {"user"}) /\ i \in DOMAIN lock'[c]
      BY <1>0, <1>2, <1>3
    <3>2. request[c] = "queued" /\ awaited[c] \subseteq Recorded(c) \cup Before(c, i + 1)
      BY <3>1 DEF RequestOK
    <3> QED BY <1>1, <1>2, <3>1, <3>2
  <2>2. \A i \in Nat : TurnAt(c, i, {"flush"})' => request'[c] = "flushing"
    BY <1>0, <1>2, <1>6 DEF RequestOK
  <2>3. request'[c] \in {"flushing", "submitted"} =>
            awaited'[c] \subseteq Recorded(c)' \cup starting'[c] \cup InTurns(c)'
    BY <1>1, <1>2, <1>5, <1>6 DEF RequestOK
  <2> QED BY <1>4, <2>1, <2>2, <2>3 DEF RequestOK
<1>7. CASE Head(lock[c]).turn \in {"user", "flush"}
  <2>1. TurnAt(c, 1, {"user", "flush"})
    BY <1>0, <1>2, <1>7
  <2>2. \A i \in Nat : ~TurnAt(c, i, {"user", "flush"})'
    <3> SUFFICES ASSUME NEW i \in Nat, TurnAt(c, i, {"user", "flush"})' PROVE FALSE
      OBVIOUS
    <3>1. i + 1 \in Nat /\ i + 1 # 1 /\ TurnAt(c, i + 1, {"user", "flush"})
      BY <1>0, <1>2
    <3> QED BY <2>1, <3>1 DEF RequestOK
  <2>3. \A i \in Nat : ~TurnAt(c, i, {"user"})' /\ ~TurnAt(c, i, {"flush"})'
    BY <2>2 DEF TurnAt
  <2>4. CASE Head(lock[c]).turn = "flush" /\ request'[c] = "submitted" /\ awaited'[c] = awaited[c]
    <3>1. TurnAt(c, 1, {"flush"})
      BY <1>0, <1>2, <2>4
    <3>2. awaited[c] \subseteq Recorded(c) \cup starting[c] \cup InTurns(c)
      BY <3>1 DEF RequestOK
    <3> QED BY <1>1, <1>2, <1>4, <1>5, <2>3, <2>4, <3>2 DEF RequestOK
  <2>5. CASE Head(lock[c]).turn = "user" /\ request'[c] = "none"
    BY <1>4, <2>3, <2>5 DEF RequestOK
  <2> QED BY <1>7, <2>4, <2>5
<1> QED BY <1>6, <1>7

LEMMA RequestsStep ==
    ASSUME TypeOK, PlacesOK, RequestsOK, [Next]_vars
    PROVE  RequestsOK'
<1>0. \A d \in Session : RequestOK(d) /\ Once(d)
  BY DEF RequestsOK, PlacesOK
<1>1. ASSUME NEW d \in Session, lock'[d] = lock[d], history'[d] = history[d],
             starting[d] \subseteq starting'[d],
             request'[d] = request[d], awaited'[d] = awaited[d]
      PROVE  RequestOK(d)'
  BY <1>0, <1>1, RequestUntouched
<1>2. ASSUME NEW c \in Session, OthersKeep(c), RequestOK(c)',
             \A d \in Session \ {c} : request'[d] = request[d] /\ awaited'[d] = awaited[d]
      PROVE  RequestsOK'
  BY <1>1, <1>2 DEF OthersKeep, Keeps, RequestsOK
<1>3. ASSUME lock' = lock, history' = history, \A d \in Session : starting[d] \subseteq starting'[d],
             request' = request, awaited' = awaited
      PROVE  RequestsOK'
  BY <1>1, <1>3 DEF RequestsOK
<1>4. ASSUME NEW s \in Sub, NEW reason \in Reasons, NEW stale \in BOOLEAN, Deliver(s, reason, stale)
      PROVE  RequestsOK'
  <2>1. /\ lock' = lock /\ history' = history /\ request' = request /\ awaited' = awaited
        /\ UNCHANGED <<deliveryVars, starting>> \/ \E r \in Report : Schedule(SessionOf[s], s, r)
    <3>1. made[s] + 1 \in 1..MaxReports
      BY <1>4, DeliveryConstants DEF Deliver, TypeOK
    <3> QED BY <1>4, <3>1 DEF Deliver, Report
  <2>2. \/ starting' = starting
        \/ \E r \in Report : starting' = [starting EXCEPT ![SessionOf[s]] = @ \cup {r}]
    BY <2>1 DEF Schedule
  <2>3. \A d \in Session : starting[d] \subseteq starting'[d]
    <3>1. SessionOf[s] \in Session /\ starting \in [Session -> SUBSET Report]
      BY DeliveryConstants DEF TypeOK
    <3>2. CASE starting' = starting
      BY <3>2
    <3>3. CASE \E r \in Report : starting' = [starting EXCEPT ![SessionOf[s]] = @ \cup {r}]
      <4>1. PICK r \in Report : starting' = [starting EXCEPT ![SessionOf[s]] = @ \cup {r}]
        BY <3>3
      <4>2. \A d \in Session : starting'[d] = starting[d] \/ starting'[d] = starting[d] \cup {r}
        BY <3>1, <4>1
      <4> QED BY <4>2
    <3> QED BY <2>2, <3>2, <3>3
  <2> QED BY <1>3, <2>1, <2>3
<1>5. ASSUME NEW s \in Sub, Resume(s) \/ ReadInbox(s) PROVE RequestsOK'
  BY <1>3, <1>5 DEF Resume, ReadInbox, chatVars
<1>6. CASE UNCHANGED vars
  BY <1>3, <1>6 DEF vars, chatVars
<1>7. ASSUME NEW c \in Session, Drain(c, "reaction"), starting' = starting, history' = history,
             request' = request, awaited' = awaited
      PROVE  RequestsOK'
  <2> DEFINE job == [turn |-> "reaction", batch |-> pending[c]]
  <2>1. job \in Job /\ job.turn \notin {"user", "flush"}
    BY DEF Job, Turns, TypeOK
  <2>2. lock'[c] = Append(lock[c], job)
    BY <1>7 DEF Drain, TypeOK
  <2>3. RequestOK(c)'
    BY <1>0, <1>7, <2>1, <2>2, RequestJoins
  <2>4. OthersKeep(c)
    BY <1>7, DrainKind
  <2> QED BY <1>2, <1>7, <2>3, <2>4
<1>8. ASSUME NEW c \in Session, Arrive(c) PROVE RequestsOK'
  <2>1. /\ \A d \in Session \ {c} : request'[d] = request[d] /\ awaited'[d] = awaited[d]
        /\ request[c] = "none" /\ awaited'[c] = Waiting(c)
        /\ starting' = starting /\ history' = history
    BY <1>8 DEF Arrive, TypeOK
  <2>2. CASE pending[c] = <<>>
    <3>1. /\ request'[c] = "submitted" /\ pending' = pending /\ lock' = lock
      BY <1>8, <2>2 DEF Arrive, TypeOK
    <3>2. \A i \in Nat : ~TurnAt(c, i, {"user"})' /\ ~TurnAt(c, i, {"flush"})'
      BY <1>0, <2>1, <3>1 DEF RequestOK, TurnAt
    <3>3. \A i \in Nat : ~TurnAt(c, i, {"user", "flush"})'
      BY <3>2 DEF TurnAt
    <3>4. Waiting(c) \subseteq starting'[c] \cup InTurns(c)'
      BY <2>1, <2>2, <3>1, ElementsOfFew DEF Waiting, InTurns
    <3>5. RequestOK(c)'
      BY <2>1, <3>1, <3>2, <3>3, <3>4 DEF RequestOK
    <3>6. OthersKeep(c)
      BY <2>1, <3>1 DEF OthersKeep, Keeps
    <3> QED BY <1>2, <2>1, <3>5, <3>6
  <2>3. CASE pending[c] # <<>>
    <3> DEFINE job == [turn |-> "flush", batch |-> pending[c]]
    <3>1. Drain(c, "flush") /\ request'[c] = "flushing"
      BY <1>8, <2>3 DEF Arrive, TypeOK
    <3>2. job \in Job /\ job.turn = "flush" /\ job.batch = pending[c]
      BY DEF Job, Turns, TypeOK
    <3>3. lock'[c] = Append(lock[c], job)
      BY <3>1 DEF Drain, TypeOK
    <3>4. RequestOK(c)'
      BY <1>0, <2>1, <3>1, <3>2, <3>3, RequestJoins
    <3>5. OthersKeep(c)
      BY <2>1, <3>1, DrainKind
    <3> QED BY <1>2, <2>1, <3>4, <3>5
  <2> QED BY <2>2, <2>3
<1>9. ASSUME NEW c \in Session, TimerFires(c) PROVE RequestsOK'
  <2>1. starting' = starting /\ history' = history /\ request' = request /\ awaited' = awaited
    BY <1>9 DEF TimerFires
  <2>2. CASE pending[c] = <<>>
    <3>1. lock' = lock
      BY <1>9, <2>2 DEF TimerFires
    <3> QED BY <1>3, <2>1, <3>1
  <2>3. CASE pending[c] # <<>>
    <3>1. Drain(c, "reaction")
      BY <1>9, <2>3 DEF TimerFires
    <3> QED BY <1>7, <2>1, <3>1
  <2> QED BY <2>2, <2>3
<1>10. ASSUME NEW c \in Session, NEW r \in Report, PassiveStarts(c, r) PROVE RequestsOK'
  <2> DEFINE job == [turn |-> "passive", batch |-> <<r>>]
  <2>1. job \in Job /\ job.turn \notin {"user", "flush"} /\ Elements(job.batch) = {r}
    BY ElementsOfFew DEF Job, Turns
  <2>2. /\ lock'[c] = Append(lock[c], job) /\ starting'[c] = starting[c] \ {r}
        /\ pending' = pending /\ history' = history /\ request' = request /\ awaited' = awaited
        /\ \A d \in Session \ {c} : lock'[d] = lock[d] /\ starting'[d] = starting[d]
    BY <1>10 DEF PassiveStarts, deliveryVars, TypeOK
  <2>3. RequestOK(c)'
    BY <1>0, <2>1, <2>2, RequestJoins
  <2>4. OthersKeep(c)
    BY <2>2 DEF OthersKeep, Keeps
  <2> QED BY <1>2, <2>2, <2>3, <2>4
<1>11. ASSUME NEW c \in Session, Submit(c) PROVE RequestsOK'
  <2> DEFINE job == [turn |-> "user", batch |-> <<>>]
  <2>1. job \in Job /\ job.turn = "user"
    BY DEF Job, Turns
  <2>2. /\ lock'[c] = Append(lock[c], job) /\ starting' = starting /\ pending' = pending
        /\ history' = history /\ awaited' = awaited
        /\ request[c] = "submitted" /\ request'[c] = "queued" /\ starting[c] \cap awaited[c] = {}
        /\ \A d \in Session \ {c} : lock'[d] = lock[d] /\ request'[d] = request[d]
    BY <1>11 DEF Submit, deliveryVars, TypeOK
  <2>3. RequestOK(c)'
    BY <1>0, <2>1, <2>2, RequestJoins
  <2>4. OthersKeep(c)
    BY <2>2 DEF OthersKeep, Keeps
  <2> QED BY <1>2, <2>2, <2>3, <2>4
<1>12. ASSUME NEW c \in Session, BackgroundEnds(c) \/ PassiveEnds(c) \/ FlushEnds(c) PROVE RequestsOK'
  <2>1. /\ lock[c] # <<>> /\ Recording(c) /\ Release(c) /\ pending' = pending /\ starting' = starting
        /\ awaited' = awaited
        /\ \/ Head(lock[c]).turn \notin {"user", "flush"} /\ request' = request
           \/ Head(lock[c]).turn = "flush" /\ request' = [request EXCEPT ![c] = "submitted"]
    BY <1>12 DEF BackgroundEnds, PassiveEnds, FlushEnds, ReactionEnds, Holds, deliveryVars
  <2>2. Records(c) /\ OthersKeep(c)
    BY <2>1, RecordKind
  <2>3. /\ \/ Head(lock[c]).turn \notin {"user", "flush"} /\ request'[c] = request[c]
           \/ Head(lock[c]).turn = "flush" /\ request'[c] = "submitted"
        /\ \A d \in Session \ {c} : request'[d] = request[d]
    BY <2>1 DEF TypeOK
  <2>4. RequestOK(c)'
    BY <1>0, <2>1, <2>2, <2>3, RequestLeaves
  <2> QED BY <1>2, <2>1, <2>2, <2>3, <2>4
<1>13. ASSUME NEW c \in Session, UserTurnEnds(c) PROVE RequestsOK'
  <2>1. /\ lock[c] # <<>> /\ Head(lock[c]).turn = "user" /\ Release(c)
        /\ pending' = pending /\ starting' = starting /\ history' = history
        /\ request'[c] = "none"
        /\ \A d \in Session \ {c} : request'[d] = request[d] /\ awaited'[d] = awaited[d]
    BY <1>13 DEF UserTurnEnds, Holds, deliveryVars, TypeOK
  <2>2. Head(lock[c]) \in Elements(lock[c])
    BY <2>1, QueueOfTail DEF TypeOK
  <2>3. Head(lock[c]).batch = <<>>
    BY <1>0, <2>1, <2>2 DEF Once
  <2>4. history[c] \o <<>> = history[c]
    BY DEF TypeOK
  <2>5. Records(c) /\ OthersKeep(c)
    BY <2>1, <2>3, <2>4 DEF Release, Records, OthersKeep, Keeps, TypeOK
  <2>6. RequestOK(c)'
    BY <1>0, <2>1, <2>5, RequestLeaves
  <2> QED BY <1>2, <2>1, <2>5, <2>6
<1> QED BY <1>4, <1>5, <1>6, <1>8, <1>9, <1>10, <1>11, <1>12, <1>13 DEF Next, ChatStep

(* The turn that answers the user finds every outcome accepted before the  *)
(* message in the history, through the flush, the passive records and the  *)
(* reactions that were ahead of it.                                        *)
THEOREM UsersSeeOutcomes == Spec => []UserTurnSeesOutcomes
<1>1. Init => RequestsOK
  <2> SUFFICES ASSUME Init, NEW c \in Session PROVE RequestOK(c)
    BY DEF RequestsOK
  <2> QED BY DEF Init, RequestOK, TurnAt
<1>2. TypeOK /\ PlacesOK /\ RequestsOK /\ [Next]_vars => RequestsOK'
  BY RequestsStep
<1>3. TypeOK /\ RequestsOK => UserTurnSeesOutcomes
  <2> SUFFICES ASSUME TypeOK, RequestsOK, NEW c \in Session, Holds(c, "user")
               PROVE  awaited[c] \subseteq Recorded(c)
    BY DEF UserTurnSeesOutcomes
  <2>1. TurnAt(c, 1, {"user"}) /\ Before(c, 1) = {}
    <3>1. 1 \in DOMAIN lock[c] /\ Head(lock[c]) = lock[c][1] /\ DOMAIN lock[c] = 1..Len(lock[c])
          /\ Len(lock[c]) \in Nat
      BY DEF Holds, TypeOK
    <3>2. {k \in DOMAIN lock[c] : k < 1} = {}
      BY <3>1
    <3> QED BY <3>1, <3>2 DEF Holds, TurnAt, Before
  <2> QED BY <2>1 DEF RequestsOK, RequestOK
<1> QED BY <1>1, <1>2, <1>3, DeliveryTypes, PlacesInvariant, PTL DEF Spec

-----------------------------------------------------------------------------
(* The counter of reactions.                                               *)
Reacting == {"reaction", "flush"}

LEMMA FiniteReactions ==
    ASSUME TypeOK, NEW c \in Session
    PROVE  IsFiniteSet(ReactionsOf(c)) /\ Cardinality(ReactionsOf(c)) \in Nat
<1>1. DOMAIN lock[c] = 1..Len(lock[c]) /\ Len(lock[c]) \in Nat
  BY DEF TypeOK
<1>2. IsFiniteSet(DOMAIN lock[c])
  BY <1>1, FS_Interval
<1>3. ReactionsOf(c) \in SUBSET DOMAIN lock[c]
  BY DEF ReactionsOf
<1> QED BY <1>2, <1>3, FS_Subset, FS_CardinalityType

LEMMA ReactionsOfAppend ==
    ASSUME TypeOK, NEW c \in Session, NEW job \in Job, lock'[c] = Append(lock[c], job)
    PROVE  Cardinality(ReactionsOf(c))' =
               Cardinality(ReactionsOf(c)) + IF job.turn \in Reacting THEN 1 ELSE 0
<1> DEFINE n == Len(lock[c]) + 1
<1>1. /\ DOMAIN lock'[c] = (DOMAIN lock[c]) \cup {n} /\ n \notin DOMAIN lock[c]
      /\ \A i \in DOMAIN lock[c] : lock'[c][i] = lock[c][i]
      /\ lock'[c][n] = job
  BY DEF TypeOK
<1> HIDE DEF n
<1>2. ReactionsOf(c)' = IF job.turn \in Reacting THEN ReactionsOf(c) \cup {n} ELSE ReactionsOf(c)
  BY <1>1 DEF ReactionsOf, Reacting
<1>3. n \notin ReactionsOf(c)
  BY <1>1 DEF ReactionsOf
<1>4. IsFiniteSet(ReactionsOf(c)) /\ Cardinality(ReactionsOf(c)) \in Nat
  BY FiniteReactions
<1>5. Cardinality(ReactionsOf(c) \cup {n}) = Cardinality(ReactionsOf(c)) + 1
  BY <1>3, <1>4, FS_AddElement
<1>6. CASE job.turn \in Reacting
  BY <1>2, <1>5, <1>6
<1>7. CASE job.turn \notin Reacting
  BY <1>2, <1>4, <1>7
<1> QED BY <1>6, <1>7

LEMMA ReactionsOfTail ==
    ASSUME TypeOK, NEW c \in Session, lock[c] # <<>>, lock'[c] = Tail(lock[c])
    PROVE  LET one == IF Head(lock[c]).turn \in Reacting THEN 1 ELSE 0 IN
           /\ Cardinality(ReactionsOf(c))' = Cardinality(ReactionsOf(c)) - one
           /\ Cardinality(ReactionsOf(c)) >= one
<1> DEFINE R == ReactionsOf(c) \ {1}
           R1 == ReactionsOf(c)'
           f == [i \in R |-> i - 1]
<1>1. /\ Head(lock[c]) = lock[c][1] /\ 1 \in DOMAIN lock[c]
      /\ DOMAIN lock[c] = 1..Len(lock[c]) /\ Len(lock[c]) \in Nat
      /\ DOMAIN lock'[c] = 1..(Len(lock[c]) - 1)
      /\ \A i \in DOMAIN lock'[c] : lock'[c][i] = lock[c][i + 1] /\ i + 1 \in DOMAIN lock[c] /\ i + 1 # 1
      /\ \A i \in DOMAIN lock[c] : i # 1 => i - 1 \in DOMAIN lock'[c] /\ lock'[c][i - 1] = lock[c][i]
  BY DEF TypeOK
<1>2. R \subseteq Nat /\ R1 \subseteq Nat
  BY <1>1 DEF ReactionsOf
<1>3. /\ \A i \in R : i - 1 \in R1
      /\ \A i \in R1 : i + 1 \in R /\ i = (i + 1) - 1
  <2>1. ASSUME NEW i \in R PROVE i - 1 \in R1
    <3>1. i \in DOMAIN lock[c] /\ i # 1 /\ lock[c][i].turn \in {"reaction", "flush"}
      BY DEF ReactionsOf
    <3>2. i - 1 \in DOMAIN lock'[c] /\ lock'[c][i - 1] = lock[c][i]
      BY <1>1, <3>1
    <3> QED BY <3>1, <3>2 DEF ReactionsOf
  <2>2. ASSUME NEW i \in R1 PROVE i + 1 \in R
    <3>1. i \in DOMAIN lock'[c] /\ lock'[c][i].turn \in {"reaction", "flush"}
      BY DEF ReactionsOf
    <3>2. i + 1 \in DOMAIN lock[c] /\ i + 1 # 1 /\ lock'[c][i] = lock[c][i + 1]
      BY <1>1, <3>1
    <3> QED BY <3>1, <3>2 DEF ReactionsOf
  <2>3. \A i \in R1 : i = (i + 1) - 1
    BY <1>2
  <2> QED BY <2>1, <2>2, <2>3
<1> HIDE DEF R, R1
<1>4. f \in Bijection(R, R1)
  <2>1. f \in [R -> R1]
    BY <1>3
  <2>2. \A i, j \in R : f[i] = f[j] => i = j
    BY <1>2
  <2>3. \A k \in R1 : \E i \in R : f[i] = k
    BY <1>2, <1>3
  <2> QED BY <2>1, <2>2, <2>3 DEF Bijection, Injection, Surjection, IsInjective
<1>5. IsFiniteSet(R) /\ Cardinality(R) = IF 1 \in ReactionsOf(c)
                                         THEN Cardinality(ReactionsOf(c)) - 1
                                         ELSE Cardinality(ReactionsOf(c))
  BY FiniteReactions, FS_RemoveElement DEF R
<1>6. Cardinality(R1) = Cardinality(R) /\ Cardinality(R) \in Nat
  BY <1>4, <1>5, FS_Bijection, FS_CardinalityType DEF ExistsBijection
<1>7. 1 \in ReactionsOf(c) <=> Head(lock[c]).turn \in Reacting
  BY <1>1 DEF ReactionsOf, Reacting
<1>8. Cardinality(ReactionsOf(c)) \in Nat
  BY FiniteReactions
<1> QED BY <1>5, <1>6, <1>7, <1>8 DEF R1

LEMMA CountStep ==
    ASSUME TypeOK, DepthCountsReactions, [Next]_vars
    PROVE  DepthCountsReactions'
<1>0. \A d \in Session : depth[d] = Cardinality(ReactionsOf(d)) /\ depth[d] \in Nat
  BY DEF DepthCountsReactions, TypeOK
<1>1. ASSUME NEW d \in Session, lock'[d] = lock[d], depth'[d] = depth[d]
      PROVE  depth'[d] = Cardinality(ReactionsOf(d))'
  BY <1>0, <1>1 DEF ReactionsOf
<1>2. ASSUME NEW c \in Session, depth'[c] = Cardinality(ReactionsOf(c))',
             \A d \in Session \ {c} : lock'[d] = lock[d] /\ depth'[d] = depth[d]
      PROVE  DepthCountsReactions'
  BY <1>1, <1>2 DEF DepthCountsReactions
<1>3. ASSUME lock' = lock, depth' = depth PROVE DepthCountsReactions'
  BY <1>1, <1>3 DEF DepthCountsReactions
<1>4. ASSUME NEW c \in Session, NEW turn \in Reacting, Drain(c, turn) PROVE DepthCountsReactions'
  <2> DEFINE job == [turn |-> turn, batch |-> pending[c]]
  <2>1. job \in Job /\ job.turn \in Reacting
    BY DEF Job, Turns, TypeOK, Reacting
  <2>2. /\ lock'[c] = Append(lock[c], job) /\ depth'[c] = depth[c] + 1
        /\ \A d \in Session \ {c} : lock'[d] = lock[d] /\ depth'[d] = depth[d]
    BY <1>4 DEF Drain, TypeOK
  <2> HIDE DEF job
  <2>3. depth'[c] = Cardinality(ReactionsOf(c))'
    BY <1>0, <2>1, <2>2, ReactionsOfAppend
  <2> QED BY <1>2, <2>2, <2>3
<1>5. ASSUME NEW c \in Session, NEW job \in Job, job.turn \notin Reacting,
             lock' = [lock EXCEPT ![c] = Append(@, job)], depth' = depth
      PROVE  DepthCountsReactions'
  <2>1. /\ lock'[c] = Append(lock[c], job)
        /\ \A d \in Session \ {c} : lock'[d] = lock[d]
    BY <1>5 DEF TypeOK
  <2>2. depth'[c] = Cardinality(ReactionsOf(c))'
    BY <1>0, <1>5, <2>1, ReactionsOfAppend
  <2> QED BY <1>2, <1>5, <2>1, <2>2
<1>6. ASSUME NEW c \in Session, lock[c] # <<>>, Release(c),
             \/ Head(lock[c]).turn \in Reacting /\ depth' = [depth EXCEPT ![c] = DepthAfter(@)]
             \/ Head(lock[c]).turn \notin Reacting /\ depth' = depth
      PROVE  DepthCountsReactions'
  <2>1. /\ lock'[c] = Tail(lock[c]) /\ \A d \in Session \ {c} : lock'[d] = lock[d] /\ depth'[d] = depth[d]
        /\ \/ Head(lock[c]).turn \in Reacting /\ depth'[c] = DepthAfter(depth[c])
           \/ Head(lock[c]).turn \notin Reacting /\ depth'[c] = depth[c]
    BY <1>6 DEF Release, TypeOK
  <2>2. depth'[c] = Cardinality(ReactionsOf(c))'
    BY <1>0, <1>6, <2>1, ReactionsOfTail DEF DepthAfter
  <2> QED BY <1>2, <2>1, <2>2
<1>7. ASSUME NEW s \in Sub, NEW reason \in Reasons, NEW stale \in BOOLEAN, Deliver(s, reason, stale)
      PROVE  DepthCountsReactions'
  BY <1>3, <1>7 DEF Deliver, Schedule, deliveryVars
<1>8. ASSUME NEW s \in Sub, Resume(s) \/ ReadInbox(s) PROVE DepthCountsReactions'
  BY <1>3, <1>8 DEF Resume, ReadInbox, chatVars, deliveryVars
<1>9. ASSUME NEW c \in Session, Arrive(c) \/ TimerFires(c) PROVE DepthCountsReactions'
  BY <1>3, <1>4, <1>9 DEF Arrive, TimerFires, Reacting
<1>10. ASSUME NEW c \in Session, NEW r \in Report, PassiveStarts(c, r) PROVE DepthCountsReactions'
  <2>1. [turn |-> "passive", batch |-> <<r>>] \in Job
    BY DEF Job, Turns
  <2> QED BY <1>5, <1>10, <2>1 DEF PassiveStarts, deliveryVars, Reacting
<1>11. ASSUME NEW c \in Session, Submit(c) PROVE DepthCountsReactions'
  <2>1. [turn |-> "user", batch |-> <<>>] \in Job
    BY DEF Job, Turns
  <2> QED BY <1>5, <1>11, <2>1 DEF Submit, deliveryVars, Reacting
<1>12. ASSUME NEW c \in Session, BackgroundEnds(c) \/ FlushEnds(c) PROVE DepthCountsReactions'
  BY <1>6, <1>12 DEF BackgroundEnds, FlushEnds, ReactionEnds, Holds, Reacting
<1>13. ASSUME NEW c \in Session, PassiveEnds(c) \/ UserTurnEnds(c) PROVE DepthCountsReactions'
  BY <1>6, <1>13 DEF PassiveEnds, UserTurnEnds, Holds, Reacting, deliveryVars
<1>14. CASE UNCHANGED vars
  BY <1>3, <1>14 DEF vars, chatVars, deliveryVars
<1> QED BY <1>7, <1>8, <1>9, <1>10, <1>11, <1>12, <1>13, <1>14 DEF Next, ChatStep

(* The depth of a conversation is the number of its reaction turns that    *)
(* run or wait: every drain is given back by the turn it started.          *)
THEOREM DepthIsGivenBack == Spec => []DepthCountsReactions
<1>1. Init => DepthCountsReactions
  <2> SUFFICES ASSUME Init, NEW c \in Session PROVE depth[c] = Cardinality(ReactionsOf(c))
    BY DEF DepthCountsReactions
  <2>1. ReactionsOf(c) = {} /\ depth[c] = 0
    BY DEF Init, ReactionsOf
  <2> QED BY <2>1, FS_EmptySet
<1>2. TypeOK /\ DepthCountsReactions /\ [Next]_vars => DepthCountsReactions'
  BY CountStep
<1> QED BY <1>1, <1>2, DeliveryTypes, PTL DEF Spec

(* No conversation has more than MaxDepth reaction turns that run or wait. *)
THEOREM ReactionsStayBounded == Spec => []ReactionsBounded
<1>1. DepthBounded /\ DepthCountsReactions => ReactionsBounded
  BY DEF ReactionsBounded
<1> QED BY <1>1, ReactionDepthIsBounded, DepthIsGivenBack, PTL

-----------------------------------------------------------------------------
(* Nested subsessions.  A periodic parent has no conversation of its own   *)
(* to relay reports to, so they go to the parent's conversation as well.   *)
(* A child that is not periodic itself reports once, when it ends, so that *)
(* the report cannot meet the record of one that was consumed before.      *)
UnderPeriodic(s) ==
    s \notin Periodic /\ TicketOf[s] = NoTicket /\ ParentOf[s] \in Periodic

NestedInv ==
    \A s \in Sub :
        /\ s \in consumed => made[s] >= 1
        /\ UnderPeriodic(s) => /\ s \in live => made[s] = 0
                               /\ \A n \in 1..made[s] : InChat(<<s, n>>)

LEMMA ChatNeverForgets ==
    ASSUME TypeOK, PlacesOK, [Next]_vars, NEW c \in Session
    PROVE  Waiting(c) \cup Recorded(c) \subseteq Waiting(c)' \cup Recorded(c)'
<1>1. StepKind
  BY EveryStepKind
<1>2. Quiet(c) \/ RecordsBatch(c) \/ \E r \in Sub \X Nat : AcceptsNew(c, r)
  <2>1. \A s \in Sub : <<s, made[s] + 1>> \in Sub \X Nat
    BY DEF TypeOK
  <2> QED BY <1>1, <2>1, KindEffect
<1> QED BY <1>2 DEF Quiet, RecordsBatch, AcceptsNew

LEMMA ConsumedStep ==
    ASSUME TypeOK, TypeOK', PlacesOK, NestedInv, [Next]_vars, NEW s \in Sub, s \in consumed'
    PROVE  made'[s] >= 1
<1>1. made[s] \in Nat /\ made'[s] \in Nat /\ made[s] <= made'[s]
  <2>1. StepKind
    BY EveryStepKind
  <2>2. made[s] <= made'[s]
    BY <2>1, KindEffect
  <2> QED BY <2>2 DEF TypeOK
<1>2. CASE s \in consumed
  BY <1>1, <1>2 DEF NestedInv
<1>3. CASE s \notin consumed
  <2>1. \E c \in Session : lock[c] # <<>> /\ \E r \in Elements(Head(lock[c]).batch) : s = r[1]
    <3>1. consumed' # consumed
      BY <1>3
    <3>2. \E c \in Session, turn \in Turns : ReactionEnds(c, turn)
      <4>1. ASSUME NEW c \in Session, ChatStep(c) PROVE \E turn \in Turns : ReactionEnds(c, turn)
        BY <3>1, <4>1 DEF ChatStep, TimerFires, Drain, PassiveStarts, BackgroundEnds, PassiveEnds,
                          FlushEnds, Submit, UserTurnEnds, deliveryVars, Turns
      <4>2. \A x \in Sub, reason \in Reasons, stale \in BOOLEAN : ~Deliver(x, reason, stale)
        BY <3>1 DEF Deliver, Schedule, deliveryVars
      <4>3. \A x \in Sub : ~Resume(x) /\ ~ReadInbox(x)
        BY <3>1 DEF Resume, ReadInbox, deliveryVars
      <4>4. \A c \in Session : ~Arrive(c)
        BY <3>1 DEF Arrive, Drain
      <4> QED BY <3>1, <4>1, <4>2, <4>3, <4>4 DEF Next, vars, deliveryVars
    <3> QED BY <1>3, <3>2 DEF ReactionEnds, Holds
  <2>2. PICK c \in Session : lock[c] # <<>> /\ \E r \in Elements(Head(lock[c]).batch) : s = r[1]
    BY <2>1
  <2>3. PICK r \in Elements(Head(lock[c]).batch) : s = r[1]
    BY <2>2
  <2>4. r \in InTurns(c)
    BY <2>2, <2>3, QueueOfTail DEF InTurns, BatchesOf, TypeOK
  <2>5. r \in Waiting(c)
    BY <2>4 DEF Waiting
  <2>6. r \in Report /\ r[2] <= made[r[1]]
    BY <2>5, ReportsTyped DEF PlacesOK, WasMade
  <2>7. r[2] \in Nat /\ r[2] >= 1 /\ r[2] <= made[s]
    BY <2>3, <2>6, DeliveryConstants DEF Report
  <2> QED BY <1>1, <2>7
<1> QED BY <1>2, <1>3

LEMMA NestedStep ==
    ASSUME TypeOK, TypeOK', PlacesOK, NestedInv, [Next]_vars
    PROVE  NestedInv'
<1>1. \A s \in Sub : s \in consumed' => made'[s] >= 1
  BY ConsumedStep
<1>2. \A s \in Sub : \A n \in 1..made[s] : InChat(<<s, n>>) => InChat(<<s, n>>)'
  <2> TAKE s \in Sub
  <2> TAKE n \in 1..made[s]
  <2> DEFINE c == SessionOf[<<s, n>>[1]]
  <2>1. c \in Session /\ c' = c
    BY DeliveryConstants
  <2> HIDE DEF c
  <2>2. Waiting(c) \cup Recorded(c) \subseteq Waiting(c)' \cup Recorded(c)'
    BY <2>1, ChatNeverForgets
  <2> QED BY <2>2 DEF InChat, c
<1>3. ASSUME NEW s \in Sub, UnderPeriodic(s)
      PROVE  (s \in live' => made'[s] = 0) /\ \A n \in 1..made'[s] : InChat(<<s, n>>)'
  <2>1. (s \in live => made[s] = 0) /\ made[s] \in Nat /\ \A n \in 1..made[s] : InChat(<<s, n>>)
    BY <1>3 DEF NestedInv, TypeOK
  <2>2. CASE made'[s] = made[s] /\ (s \in live' => s \in live)
    BY <1>2, <2>1, <2>2
  <2>3. ASSUME NEW reason \in Reasons, NEW stale \in BOOLEAN, Deliver(s, reason, stale)
        PROVE  (s \in live' => made'[s] = 0) /\ \A n \in 1..made'[s] : InChat(<<s, n>>)'
    <3> DEFINE r == <<s, made[s] + 1>>
    <3>1. s \in live /\ made[s] = 0 /\ made'[s] = 1 /\ s \notin consumed
      BY <2>1, <2>3 DEF Deliver, TypeOK, NestedInv
    <3>2. reason \in Terminal /\ s \notin live'
      <4>1. reason \notin OfMonitors
        BY <1>3, <2>3 DEF Deliver, UnderPeriodic
      <4>2. reason \in Terminal
        BY <4>1 DEF OfMonitors, Reasons
      <4> QED BY <2>3, <4>2 DEF Deliver
    <3>3. ~Suppressed(s, reason, stale) /\ ~ForParentOnly(s)
      <4>1. reason \notin OfMonitors
        BY <1>3, <2>3 DEF Deliver, UnderPeriodic
      <4>2. reason \notin NoNews
        BY <4>1 DEF OfMonitors, Interim, NoNews
      <4> QED BY <1>3, <4>2 DEF Suppressed, DuplicateTerminal, SameTicket, ForParentOnly, UnderPeriodic
    <3>4. Schedule(SessionOf[s], s, r)
      BY <2>3, <3>3 DEF Deliver
    <3>5. SessionOf[s] \in Session /\ r \in Report
      BY <2>3, <3>1, DeliveryConstants DEF Report, Deliver
    <3>6. \/ pending' = [pending EXCEPT ![SessionOf[s]] = Append(@, r)]
          \/ starting' = [starting EXCEPT ![SessionOf[s]] = @ \cup {r}]
      BY <3>1, <3>4 DEF Schedule
    <3>7. r \in Elements(pending'[SessionOf[s]]) \/ r \in starting'[SessionOf[s]]
      <4>1. CASE pending' = [pending EXCEPT ![SessionOf[s]] = Append(@, r)]
        <5>1. pending'[SessionOf[s]] = Append(pending[SessionOf[s]], r)
              /\ pending[SessionOf[s]] \in Seq(Report)
          BY <3>5, <4>1 DEF TypeOK
        <5> QED BY <3>5, <5>1, ElementsOfAppend
      <4>2. CASE starting' = [starting EXCEPT ![SessionOf[s]] = @ \cup {r}]
        BY <3>5, <4>2 DEF TypeOK
      <4> QED BY <3>6, <4>1, <4>2
    <3>8. r \in Waiting(SessionOf[s])'
      BY <3>7 DEF Waiting
    <3>9. r = <<s, 1>> /\ r[1] = s
      BY <3>1
    <3>10. InChat(<<s, 1>>)'
      BY <3>8, <3>9 DEF InChat
    <3> QED BY <3>1, <3>2, <3>10
  <2>4. ASSUME NEW x \in Sub \ {s}, NEW reason \in Reasons, NEW stale \in BOOLEAN, Deliver(x, reason, stale)
        PROVE  made'[s] = made[s] /\ (s \in live' => s \in live)
    BY <2>4 DEF Deliver, TypeOK
  <2>5. CASE made' = made /\ live' = live
    BY <2>2, <2>5
  <2>6. ASSUME NEW c \in Session, ChatStep(c) PROVE made' = made /\ live' = live
    BY <2>6 DEF ChatStep, TimerFires, PassiveStarts, BackgroundEnds, PassiveEnds,
                FlushEnds, Submit, UserTurnEnds, ReactionEnds, recordVars
  <2>7. ASSUME NEW c \in Session, Arrive(c) PROVE made' = made /\ live' = live
    BY <2>7 DEF Arrive, recordVars
  <2>8. ASSUME NEW x \in Sub, Resume(x) \/ ReadInbox(x) PROVE made' = made /\ live' = live
    BY <2>8 DEF Resume, ReadInbox
  <2>9. CASE UNCHANGED vars
    BY <2>5, <2>9 DEF vars, recordVars
  <2> QED BY <2>2, <2>3, <2>4, <2>5, <2>6, <2>7, <2>8, <2>9 DEF Next
<1> QED BY <1>1, <1>3 DEF NestedInv, UnderPeriodic

(* When every nested subsession is an ordinary one under a periodic        *)
(* parent, its report reaches the conversation of the parent for good,     *)
(* even if the parent ends or never reads its inbox.                       *)
THEOREM NestedReportsReachTheChat ==
    ASSUME \A s \in Sub : ParentOf[s] # NoSub => UnderPeriodic(s)
    PROVE  Spec => []NestedReportsAreKept
<1>1. Init => NestedInv
  BY DEF Init, NestedInv
<1>2. TypeOK /\ TypeOK' /\ PlacesOK /\ NestedInv /\ [Next]_vars => NestedInv'
  BY NestedStep
<1>3. NestedInv => NestedReportsAreKept
  BY DEF NestedInv, NestedReportsAreKept
<1> QED BY <1>1, <1>2, <1>3, DeliveryTypes, PlacesInvariant, PTL DEF Spec

-----------------------------------------------------------------------------
(* Accepted reports move on.  Somebody has the next step of each: a timer, *)
(* the task of a passive record, or the turn that holds the lock.          *)
SomebodyHas(c, r) ==
    \/ r \in Elements(pending[c]) /\ c \in timers
    \/ r \in starting[c]
    \/ r \in InTurns(c) /\ \E turn \in Turns : Holds(c, turn)

NoReportIsLeft == \A c \in Session : \A r \in Waiting(c) : SomebodyHas(c, r)

TurnEnds(c) == BackgroundEnds(c) \/ PassiveEnds(c) \/ FlushEnds(c) \/ UserTurnEnds(c)

(* What that step does to it: the timer and the task put it into the line  *)
(* of the lock, and in the line nothing overtakes it, nothing takes it     *)
(* out, and every turn that ends brings it one place nearer to the history.*)
MovesOn(c) ==
    /\ TimerFires(c) => Elements(pending[c]) \subseteq InTurns(c)'
    /\ \A r \in Report : PassiveStarts(c, r) => r \in InTurns(c)'
    /\ \A n \in 0..Len(lock[c]) :
          Before(c, n + 1) \subseteq
             Recorded(c)' \cup (IF TurnEnds(c) THEN Before(c, n)' ELSE Before(c, n + 1)')

ReportsMoveOn == [][\A c \in Session : MovesOn(c)]_vars

LEMMA LineFacts ==
    ASSUME TypeOK, NEW c \in Session
    PROVE  /\ Before(c, 1) = {} /\ Before(c, Len(lock[c]) + 1) = InTurns(c)
           /\ \A n \in Nat : Before(c, n) \subseteq Before(c, n + 1)
           /\ Len(lock[c]) \in Nat /\ DOMAIN lock[c] = 1..Len(lock[c])
<1>1. Len(lock[c]) \in Nat /\ DOMAIN lock[c] = 1..Len(lock[c])
  BY DEF TypeOK
<1>2. {k \in DOMAIN lock[c] : k < 1} = {} /\ {k \in DOMAIN lock[c] : k < Len(lock[c]) + 1} = DOMAIN lock[c]
  BY <1>1
<1>3. Before(c, 1) = {}
  BY <1>2 DEF Before
<1>4. Before(c, Len(lock[c]) + 1) = InTurns(c)
  BY <1>2 DEF Before, InTurns, Elements
<1>5. ASSUME NEW n \in Nat PROVE Before(c, n) \subseteq Before(c, n + 1)
  <2>1. {k \in DOMAIN lock[c] : k < n} \subseteq {k \in DOMAIN lock[c] : k < n + 1}
    BY <1>1
  <2> QED BY <2>1 DEF Before
<1> QED BY <1>1, <1>3, <1>4, <1>5

(* A turn that joins the line is behind all that are in it.                *)
LEMMA LineGrows ==
    ASSUME TypeOK, TypeOK', NEW c \in Session, NEW job \in Job,
           lock'[c] = lock[c] \/ lock'[c] = Append(lock[c], job),
           NEW n \in 0..Len(lock[c])
    PROVE  Before(c, n + 1) \subseteq Before(c, n + 1)'
<1>1. CASE lock'[c] = lock[c]
  BY <1>1 DEF Before
<1>2. CASE lock'[c] = Append(lock[c], job)
  <2>1. n + 1 \in Nat /\ (n + 1 \in DOMAIN lock[c] \/ n + 1 = Len(lock[c]) + 1)
    BY LineFacts
  <2>2. CASE n + 1 \in DOMAIN lock[c]
    BY <1>2, <2>1, <2>2, JoinQueue
  <2>3. CASE n + 1 = Len(lock[c]) + 1
    <3>1. Before(c, n + 1)' = InTurns(c)
      BY <1>2, <2>1, <2>3, JoinQueue
    <3> QED BY <2>3, <3>1, LineFacts
  <2> QED BY <2>1, <2>2, <2>3
<1> QED BY <1>1, <1>2

(* The first turn leaves it with its batch recorded: the rest come nearer. *)
LEMMA LineMoves ==
    ASSUME TypeOK, TypeOK', NEW c \in Session, Records(c), NEW n \in 0..Len(lock[c])
    PROVE  Before(c, n + 1) \subseteq Recorded(c)' \cup Before(c, n)'
<1>1. /\ lock[c] # <<>> /\ lock'[c] = Tail(lock[c])
      /\ history'[c] = history[c] \o Head(lock[c]).batch
  BY DEF Records
<1>2. Head(lock[c]).batch \in Seq(Report) /\ history[c] \in Seq(Report) /\ Len(lock'[c]) = Len(lock[c]) - 1
      /\ DOMAIN lock'[c] = 1..(Len(lock[c]) - 1)
  <2>1. lock[c] \in Seq(Job)
    BY DEF TypeOK
  <2>2. Head(lock[c]) \in Job
    BY <1>1, <2>1
  <2> QED BY <1>1, <2>1, <2>2 DEF Job, TypeOK
<1>3. Elements(Head(lock[c]).batch) \subseteq Recorded(c)'
  <2>1. Elements(history'[c]) = Elements(history[c]) \cup Elements(Head(lock[c]).batch)
    BY <1>1, <1>2, ElementsOfConcat
  <2> QED BY <2>1 DEF Recorded
<1>4. n \in Nat /\ Len(lock[c]) \in Nat /\ n <= Len(lock[c])
  BY LineFacts
<1>5. CASE n = 0
  <2>1. Before(c, n + 1) = {}
    BY <1>5, LineFacts
  <2> QED BY <2>1
<1>6. CASE n \in DOMAIN lock'[c]
  <2>1. Before(c, n + 1) \subseteq Elements(Head(lock[c]).batch) \cup Before(c, n)'
    BY <1>1, <1>4, <1>6, LeaveQueue
  <2> QED BY <1>3, <2>1
<1>7. CASE n = Len(lock[c])
  <2>1. Before(c, n + 1) = InTurns(c)
    BY <1>7, LineFacts
  <2>2. Before(c, n)' = InTurns(c)'
    <3>1. {k \in DOMAIN lock'[c] : k < n} = DOMAIN lock'[c]
      BY <1>2, <1>4, <1>7
    <3>2. Before(c, n)' = UNION {Elements(lock'[c][j].batch) : j \in DOMAIN lock'[c]}
      BY <3>1 DEF Before
    <3> QED BY <3>2 DEF InTurns, Elements
  <2>3. InTurns(c) = Elements(Head(lock[c]).batch) \cup InTurns(c)'
    BY <1>1, LeaveQueue
  <2> QED BY <1>3, <2>1, <2>2, <2>3
<1> QED BY <1>2, <1>4, <1>5, <1>6, <1>7

(* Whatever ends a turn records what it carried.                           *)
LEMMA EndsRecord ==
    ASSUME TypeOK, PlacesOK, NEW c \in Session, TurnEnds(c)
    PROVE  Records(c)
<1>1. CASE BackgroundEnds(c) \/ FlushEnds(c) \/ PassiveEnds(c)
  <2>1. /\ lock[c] # <<>> /\ Recording(c) /\ Release(c)
        /\ pending' = pending /\ starting' = starting
    BY <1>1 DEF BackgroundEnds, FlushEnds, PassiveEnds, ReactionEnds, Holds, deliveryVars
  <2> QED BY <2>1, RecordKind
<1>2. CASE UserTurnEnds(c)
  <2>1. /\ lock[c] # <<>> /\ Head(lock[c]).turn = "user" /\ Release(c)
        /\ pending' = pending /\ starting' = starting /\ history' = history
    BY <1>2 DEF UserTurnEnds, Holds, deliveryVars
  <2>2. Head(lock[c]) \in Elements(lock[c])
    BY <2>1, QueueOfTail DEF TypeOK
  <2>3. Head(lock[c]).batch = <<>>
    BY <2>1, <2>2 DEF PlacesOK, Once
  <2>4. history[c] \o <<>> = history[c]
    BY DEF TypeOK
  <2> QED BY <2>1, <2>3, <2>4 DEF Release, Records, TypeOK
<1> QED BY <1>1, <1>2 DEF TurnEnds

LEMMA EveryStepMovesOn ==
    ASSUME TypeOK, TypeOK', PlacesOK, [Next]_vars, NEW c \in Session
    PROVE  MovesOn(c)
<1>1. ASSUME NEW job \in Job, lock'[c] = Append(lock[c], job)
      PROVE  Elements(job.batch) \subseteq InTurns(c)'
  <2>1. lock[c] \in Seq(Job)
    BY DEF TypeOK
  <2>2. job \in Elements(lock'[c])
    BY <1>1, <2>1, ElementsOfAppend
  <2> QED BY <2>2 DEF InTurns
<1>2. ASSUME TimerFires(c) PROVE Elements(pending[c]) \subseteq InTurns(c)'
  <2>1. CASE pending[c] = <<>>
    BY <2>1, ElementsOfFew
  <2>2. CASE pending[c] # <<>>
    <3> DEFINE job == [turn |-> "reaction", batch |-> pending[c]]
    <3>1. job \in Job /\ job.batch = pending[c]
      BY DEF Job, Turns, TypeOK
    <3>2. lock'[c] = Append(lock[c], job)
      BY <1>2, <2>2 DEF TimerFires, Drain, TypeOK
    <3> QED BY <1>1, <3>1, <3>2
  <2> QED BY <2>1, <2>2
<1>3. ASSUME NEW r \in Report, PassiveStarts(c, r) PROVE r \in InTurns(c)'
  <2> DEFINE job == [turn |-> "passive", batch |-> <<r>>]
  <2>1. job \in Job /\ Elements(job.batch) = {r}
    BY ElementsOfFew DEF Job, Turns
  <2>2. lock'[c] = Append(lock[c], job)
    BY <1>3 DEF PassiveStarts, TypeOK
  <2> QED BY <1>1, <2>1, <2>2
<1>4. ASSUME NEW n \in 0..Len(lock[c])
      PROVE  Before(c, n + 1) \subseteq
                Recorded(c)' \cup (IF TurnEnds(c) THEN Before(c, n)' ELSE Before(c, n + 1)')
  <2>1. CASE TurnEnds(c)
    BY <2>1, EndsRecord, LineMoves
  <2>2. CASE ~TurnEnds(c)
    <3>1. Records(c) \/ \E job \in Job : lock'[c] = lock[c] \/ lock'[c] = Append(lock[c], job)
      <4>1. StepKind
        BY EveryStepKind
      <4>2. Keeps(c) \/ Queues(c) \/ Records(c) \/ \E r : Adds(c, r)
        BY <4>1 DEF StepKind, OthersKeep
      <4>3. [turn |-> "user", batch |-> <<>>] \in Job
        BY DEF Job, Turns
      <4> QED BY <4>2, <4>3 DEF Keeps, Queues, Adds
    <3>2. CASE Records(c)
      <4>1. n \in Nat
        OBVIOUS
      <4>2. Before(c, n)' \subseteq Before(c, n + 1)'
        <5>1. DOMAIN lock'[c] \subseteq Nat
          BY DEF TypeOK
        <5>2. {k \in DOMAIN lock'[c] : k < n} \subseteq {k \in DOMAIN lock'[c] : k < n + 1}
          BY <4>1, <5>1
        <5> QED BY <5>2 DEF Before
      <4> QED BY <2>2, <3>2, <4>2, LineMoves
    <3>3. CASE \E job \in Job : lock'[c] = lock[c] \/ lock'[c] = Append(lock[c], job)
      BY <2>2, <3>3, LineGrows
    <3> QED BY <3>1, <3>2, <3>3
  <2> QED BY <2>1, <2>2
<1> QED BY <1>2, <1>3, <1>4 DEF MovesOn

(* What safety has to say of AcceptedIsRecorded, for any number of reports,*)
(* turns and users' requests: an accepted report always has a step to come,*)
(* and its place in the line of the lock only falls.  What is left to      *)
(* fairness is that timers fire, tasks start and turns end (delivery.py,   *)
(* _schedule_reaction and _react_batched).                                 *)
THEOREM ReportsReachTheHistory == Spec => []NoReportIsLeft /\ ReportsMoveOn
<1>1. ASSUME IInv PROVE NoReportIsLeft
  <2> SUFFICES ASSUME NEW c \in Session, NEW r \in Waiting(c) PROVE SomebodyHas(c, r)
    BY DEF NoReportIsLeft
  <2>1. CASE r \in Elements(pending[c])
    <3>1. pending[c] # <<>>
      BY <2>1, ElementsOfFew
    <3> QED BY <1>1, <2>1, <3>1 DEF IInv, PendingHasTimer, SomebodyHas
  <2>2. CASE r \in InTurns(c)
    <3>1. lock[c] # <<>>
      BY <2>2, ElementsOfFew DEF InTurns
    <3>2. Head(lock[c]) \in Job
      BY <1>1, <3>1 DEF IInv, TypeOK
    <3>3. Head(lock[c]).turn \in Turns
      BY <3>2 DEF Job
    <3> QED BY <2>2, <3>1, <3>3 DEF SomebodyHas, Holds
  <2> QED BY <2>1, <2>2 DEF Waiting, SomebodyHas
<1>2. ASSUME IInv, IInv', PlacesOK, [Next]_vars PROVE [\A c \in Session : MovesOn(c)]_vars
  BY <1>2, EveryStepMovesOn DEF IInv
<1> QED BY <1>1, <1>2, DeliveryInvariant, PlacesInvariant, PTL DEF Spec, ReportsMoveOn
=============================================================================
