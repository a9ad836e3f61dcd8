------------------------------ MODULE ChatTurns ------------------------------
(***************************************************************************)
(* Messages of the operator: MessageCoalescer and RunSerializer            *)
(* (chat/server/routes/chat.py), the live mirror of a turn on the EventBus *)
(* (chat/events.py), the replies kept by message id (idempotency.py) and   *)
(* the drain gate of a self-restart (lifecycle).                           *)
(*                                                                         *)
(* The first message of a batch creates a task, the processor, that sleeps *)
(* through the debounce window, takes the batch, waits for the lock of the *)
(* lock key and runs one turn of the agent for the whole batch.  A         *)
(* processor is named by the message that created it.  The turns that do   *)
(* not come through the coalescer share the locks: a reaction of           *)
(* ParentDelivery and the continuation after a restart.                    *)
(***************************************************************************)
EXTENDS Integers, Sequences, FiniteSets, SequencesExt

CONSTANTS
    Requests,   \* messages posted to /chat, and the turns that are not
    Sessions,
    NoId,       \* a message without a message_id
    None,
    Casts       \* the instances to consider, see cast

ASSUME ChatConstants ==
    /\ None \notin Requests /\ IsFiniteSet(Requests) /\ IsFiniteSet(Sessions)
    /\ \A c \in Casts :
          /\ DOMAIN c.req = Requests /\ c.ears \subseteq Sessions /\ c.gate \in BOOLEAN
          /\ c.tokens \in Nat /\ c.tries \in Nat \ {0}
          /\ \A r \in Requests :
                /\ c.req[r].kind \in {"chat", "reaction", "continuation"}
                /\ c.req[r].session \in Sessions

VARIABLES
    cast,       \* req: request -> its kind, session, lock key and message id,
                \* ears: sessions that are subscribed to, gate: an agent may
                \* ask for a restart, tokens: bound on the tokens of a turn,
                \* tries: attempts at a turn that fails before its first token
    batch,      \* _batches: session -> the messages of its batch, <<>> if none
    proc,       \* the processors, see Unborn
    busy,       \* _processing: sessions marked by a processor
    line,       \* RunSerializer: lock key -> holder and waiters, in order
    answer,     \* request -> its response queue: the turn it hears, the last frame
    reply,      \* MessageIdempotencyStore: session, message id -> turn
    hist,       \* the recorded turns of a session
    current,    \* EventBus._current_turn
    ear,        \* one subscriber of /events per session: "off", "on"
    heard,      \* turn -> the number of its tokens the subscriber has
    restart,    \* "no", "deferred", "issued", "down"
    asker,      \* the turn that asked for the restart
    early       \* history: sessions unmarked while a processor was at work

vars == <<cast, batch, proc, busy, line, answer, reply, hist, current, ear, heard,
          restart, asker, early>>

SessionOf(r) == cast.req[r].session
KindOf(r) == cast.req[r].kind
LockOf(r) == cast.req[r].lock
IdOf(r) == cast.req[r].id
Ids == {c.req[r].id : c \in Casts, r \in Requests} \ {NoId}
Locks == {c.req[r].lock : c \in Casts, r \in Requests}

(* pc: none, asleep (the debounce), waiting (for the lock), asking (the     *)
(* agent streams), titling (the title is generated), over (the task ended,  *)
(* its callback is pending), gone.                                          *)
(* seen: the number of recorded turns when the history was read.            *)
Unborn == [pc |-> "none", taken |-> <<>>, tokens |-> 0, tries |-> 0, seen |-> 0]
AtWork(p) == proc[p].pc \in {"asleep", "waiting", "asking", "titling"}
Running(p) == proc[p].pc \in {"asking", "titling"}
Up == restart # "down"

Init ==
    /\ cast \in Casts
    /\ batch = [s \in Sessions |-> <<>>] /\ busy = {}
    /\ proc = [p \in Requests |-> Unborn]
    /\ line = [k \in Locks |-> <<>>]
    /\ answer = [r \in Requests |-> [of |-> None, end |-> "unsent"]]
    /\ reply = [s \in Sessions |-> [m \in Ids |-> None]]
    /\ hist = [s \in Sessions |-> <<>>]
    /\ current = [s \in Sessions |-> [turn |-> None, parts |-> 0]]
    /\ ear = [s \in Sessions |-> "off"] /\ heard = [p \in Requests |-> 0]
    /\ restart = "no" /\ asker = None /\ early = {}

busVars == <<current, ear, heard>>
gateVars == <<restart, asker>>

-----------------------------------------------------------------------------
(* Messages.                                                               *)

(* MessageCoalescer.submit.                                                *)
Submit(r) ==
    LET s == SessionOf(r) IN
    /\ Up /\ KindOf(r) = "chat" /\ answer[r].end = "unsent"
    /\ answer' = [answer EXCEPT ![r].end = "open"]
    /\ batch' = [batch EXCEPT ![s] = Append(@, r)]
    /\ IF batch[s] = <<>>
       THEN proc' = [proc EXCEPT ![r].pc = "asleep"] /\ busy' = busy \cup {s}
       ELSE UNCHANGED <<proc, busy>>
    /\ UNCHANGED <<cast, line, reply, hist, busVars, gateVars, early>>

(* A reaction turn, or the continuation, asks for its lock.                *)
Arrive(r) ==
    /\ Up /\ KindOf(r) # "chat" /\ proc[r].pc = "none"
    /\ proc' = [proc EXCEPT ![r].pc = "waiting"]
    /\ line' = [line EXCEPT ![LockOf(r)] = Append(@, r)]
    /\ UNCHANGED <<cast, batch, busy, answer, reply, hist, busVars, gateVars, early>>

Ended(q, e) == [r \in Requests |-> IF r \in ToSet(q) THEN [answer[r] EXCEPT !.end = e]
                                                     ELSE answer[r]]

(* cancel_message: one message that still waits in the batch, or all.      *)
CancelOne(r) ==
    LET s == SessionOf(r) IN
    /\ Up /\ IdOf(r) # NoId
    /\ \E i \in DOMAIN batch[s] :
          /\ batch[s][i] = r /\ \A j \in 1..(i - 1) : IdOf(batch[s][j]) # IdOf(r)
          /\ batch' = [batch EXCEPT ![s] = RemoveAt(@, i)]
    /\ answer' = Ended(<<r>>, "done")
    /\ UNCHANGED <<cast, proc, busy, line, reply, hist, busVars, gateVars, early>>

CancelAll(s) ==
    /\ Up /\ batch[s] # <<>>
    /\ batch' = [batch EXCEPT ![s] = <<>>]
    /\ answer' = Ended(batch[s], "done")
    /\ UNCHANGED <<cast, proc, busy, line, reply, hist, busVars, gateVars, early>>

-----------------------------------------------------------------------------
(* Processors: _process_batch.                                             *)

(* The debounce window is over: the batch is popped under the guard.  With *)
(* nothing in it, because it was cancelled, the task is over.              *)
\* Mutant: the batch is read and left where it is.
WakeKeeps(p) ==
    LET s == SessionOf(p) IN
    /\ Up /\ proc[p].pc = "asleep"
    /\ IF batch[s] = <<>>
       THEN proc' = [proc EXCEPT ![p].pc = "over"] /\ UNCHANGED line
       ELSE /\ proc' = [proc EXCEPT ![p].pc = "waiting", ![p].taken = batch[s]]
            /\ line' = [line EXCEPT ![LockOf(p)] = Append(@, p)]
    /\ UNCHANGED <<cast, batch, busy, answer, reply, hist, busVars, gateVars, early>>
Wake(p) ==
    LET s == SessionOf(p) IN
    /\ Up /\ proc[p].pc = "asleep"
    /\ batch' = [batch EXCEPT ![s] = <<>>]
    /\ IF batch[s] = <<>>
       THEN proc' = [proc EXCEPT ![p].pc = "over"] /\ UNCHANGED line
       ELSE /\ proc' = [proc EXCEPT ![p].pc = "waiting", ![p].taken = batch[s]]
            /\ line' = [line EXCEPT ![LockOf(p)] = Append(@, p)]
    /\ UNCHANGED <<cast, busy, answer, reply, hist, busVars, gateVars, early>>

(* asyncio.Lock: the waiters get it in order.                              *)
\* Mutant: the lock is not waited for.
HoldsAny(p) == proc[p].pc = "waiting"
Holds(p) == proc[p].pc = "waiting" /\ Head(line[LockOf(p)]) = p
Released(p) == [line EXCEPT ![LockOf(p)] = Tail(@)]

(* The reply already given to the first message of the batch.              *)
\* Mutant: the idempotency check is left out.
KnownNever(p) == None
Known(p) == LET m == IdOf(Head(proc[p].taken)) IN
            IF m = NoId THEN None ELSE reply[SessionOf(p)][m]

(* The first message was answered before: every message of the batch gets  *)
(* that reply.                                                             *)
\* Mutant: only the message that was checked gets its reply.
ReplayFirst(p) ==
    /\ Up /\ KindOf(p) = "chat" /\ Holds(p) /\ Known(p) # None
    /\ answer' = [r \in Requests |-> IF r = Head(proc[p].taken)
                                     THEN [of |-> Known(p), end |-> "done"]
                                     ELSE answer[r]]
    /\ proc' = [proc EXCEPT ![p].pc = "over"]
    /\ line' = Released(p)
    /\ UNCHANGED <<cast, batch, busy, reply, hist, busVars, gateVars, early>>
Replay(p) ==
    /\ Up /\ KindOf(p) = "chat" /\ Holds(p) /\ Known(p) # None
    /\ answer' = [r \in Requests |-> IF r \in ToSet(proc[p].taken)
                                     THEN [of |-> Known(p), end |-> "done"]
                                     ELSE answer[r]]
    /\ proc' = [proc EXCEPT ![p].pc = "over"]
    /\ line' = Released(p)
    /\ UNCHANGED <<cast, batch, busy, reply, hist, busVars, gateVars, early>>

(* The turn starts: history read, turn announced on the bus.  A reaction   *)
(* and the continuation announce nothing.                                  *)
Begin(p) ==
    LET s == SessionOf(p) IN
    /\ Up /\ Holds(p) /\ (KindOf(p) = "chat" => Known(p) = None)
    /\ proc' = [proc EXCEPT ![p].pc = "asking", ![p].seen = Len(hist[s])]
    /\ IF KindOf(p) = "chat"
       THEN /\ current' = [current EXCEPT ![s] = [turn |-> p, parts |-> 0]]
            /\ answer' = [r \in Requests |-> IF r \in ToSet(proc[p].taken)
                                             THEN [answer[r] EXCEPT !.of = p]
                                             ELSE answer[r]]
       ELSE UNCHANGED <<current, answer>>
    /\ UNCHANGED <<cast, batch, busy, line, reply, hist, ear, heard, gateVars, early>>

(* A token: to the queues of the batch, to the content kept for later      *)
(* subscribers, to the subscribers (EventBus.append_turn_token).           *)
\* Mutant: the content is kept for the first token only.
TokenUnkept(p) ==
    LET s == SessionOf(p) IN
    /\ Up /\ KindOf(p) = "chat" /\ proc[p].pc = "asking" /\ proc[p].tokens < cast.tokens
    /\ proc' = [proc EXCEPT ![p].tokens = @ + 1]
    /\ current' = IF current[s].turn = p /\ current[s].parts = 0
                  THEN [current EXCEPT ![s].parts = @ + 1] ELSE current
    /\ heard' = IF ear[s] = "on" THEN [heard EXCEPT ![p] = @ + 1] ELSE heard
    /\ UNCHANGED <<cast, batch, busy, line, answer, reply, hist, ear, gateVars, early>>
Token(p) ==
    LET s == SessionOf(p) IN
    /\ Up /\ KindOf(p) = "chat" /\ proc[p].pc = "asking" /\ proc[p].tokens < cast.tokens
    /\ proc' = [proc EXCEPT ![p].tokens = @ + 1]
    /\ current' = IF current[s].turn = p THEN [current EXCEPT ![s].parts = @ + 1]
                                         ELSE current
    /\ heard' = IF ear[s] = "on" THEN [heard EXCEPT ![p] = @ + 1] ELSE heard
    /\ UNCHANGED <<cast, batch, busy, line, answer, reply, hist, ear, gateVars, early>>

(* A retryable error before the first token: the turn is tried again.      *)
Retry(p) ==
    /\ Up /\ KindOf(p) = "chat" /\ proc[p].pc = "asking"
    /\ proc[p].tokens = 0 /\ proc[p].tries < cast.tries - 1
    /\ proc' = [proc EXCEPT ![p].tries = @ + 1]
    /\ UNCHANGED <<cast, batch, busy, line, answer, reply, hist, busVars, gateVars, early>>

(* The end of a turn: the ids are marked, the last frame goes to every     *)
(* queue, the bus forgets the turn, the lock is released.                  *)
Marked(p) ==
    LET s == SessionOf(p)
        ids == {IdOf(r) : r \in ToSet(proc[p].taken)} \ {NoId} IN
    [reply EXCEPT ![s] = [m \in Ids |-> IF m \in ids THEN p ELSE @[m]]]
EndTurn(p) == IF current[SessionOf(p)].turn = p
              THEN [current EXCEPT ![SessionOf(p)] = [turn |-> None, parts |-> 0]]
              ELSE current
Close(p, e) ==
    /\ reply' = Marked(p)
    /\ answer' = Ended(proc[p].taken, e)
    /\ current' = EndTurn(p)
    /\ line' = Released(p)
    /\ UNCHANGED <<cast, batch, busy, ear, heard, gateVars, early>>

(* The reply is recorded; the first turn of a session may get a title, and *)
(* the other steps come after the agent has made it.                       *)
RecordThenTitle(p) ==
    LET s == SessionOf(p) IN
    /\ Up /\ KindOf(p) = "chat" /\ proc[p].pc = "asking" /\ hist[s] = <<>>
    /\ hist' = [hist EXCEPT ![s] = Append(@, p)]
    /\ proc' = [proc EXCEPT ![p].pc = "titling"]
    /\ UNCHANGED <<cast, batch, busy, line, answer, reply, busVars, gateVars, early>>

Titled(p) ==
    /\ Up /\ proc[p].pc = "titling"
    /\ proc' = [proc EXCEPT ![p].pc = "over"]
    /\ Close(p, "done") /\ UNCHANGED hist

(* The turn ends with a reply, or with an error that is recorded as one.   *)
Finish(p, e) ==
    LET s == SessionOf(p) IN
    /\ Up /\ KindOf(p) = "chat" /\ proc[p].pc = "asking"
    /\ hist' = [hist EXCEPT ![s] = Append(@, p)]
    /\ proc' = [proc EXCEPT ![p].pc = "over"]
    /\ Close(p, e)

(* A reaction records its outcome, with or without a reply of the agent;   *)
(* the continuation records a reply, or nothing when it failed.            *)
FinishOther(p) ==
    LET s == SessionOf(p) IN
    /\ Up /\ KindOf(p) # "chat" /\ proc[p].pc = "asking"
    /\ hist' \in {[hist EXCEPT ![s] = Append(@, p)]}
                 \cup (IF KindOf(p) = "continuation" THEN {hist} ELSE {})
    /\ proc' = [proc EXCEPT ![p].pc = "gone"]
    /\ line' = Released(p)
    /\ UNCHANGED <<cast, batch, busy, answer, reply, busVars, gateVars, early>>

(* _clear_processing, the done callback: it unmarks the session, whoever   *)
(* else is at work on it.                                                  *)
Cleared(p) ==
    LET s == SessionOf(p) IN
    /\ Up /\ proc[p].pc = "over"
    /\ busy' = busy \ {s}
    /\ proc' = [proc EXCEPT ![p].pc = "gone"]
    /\ early' = IF \E q \in Requests \ {p} : AtWork(q) /\ KindOf(q) = "chat" /\ SessionOf(q) = s
                THEN early \cup {s} ELSE early
    /\ UNCHANGED <<cast, batch, line, answer, reply, hist, busVars, gateVars>>

-----------------------------------------------------------------------------
(* Subscribers of /events.                                                 *)

(* EventBus.subscribe: the view starts with the content of the turn that   *)
(* runs, if one does.                                                      *)
Subscribe(s) ==
    /\ Up /\ ear[s] = "off" /\ s \in cast.ears
    /\ ear' = [ear EXCEPT ![s] = "on"]
    /\ heard' = IF current[s].turn = None THEN heard
                ELSE [heard EXCEPT ![current[s].turn] = current[s].parts]
    /\ UNCHANGED <<cast, batch, proc, busy, line, answer, reply, hist, current, gateVars, early>>

Unsubscribe(s) ==
    /\ Up /\ ear[s] = "on"
    /\ ear' = [ear EXCEPT ![s] = "off"]
    /\ heard' = [p \in Requests |-> IF SessionOf(p) = s THEN 0 ELSE heard[p]]
    /\ UNCHANGED <<cast, batch, proc, busy, line, answer, reply, hist, current, gateVars, early>>

-----------------------------------------------------------------------------
(* The drain gate.                                                         *)

IsBusy(s) == batch[s] # <<>> \/ s \in busy
(* inflight_count: sessions, and the reactions that track themselves.      *)
Inflight == Cardinality({s \in Sessions : IsBusy(s)})
            + Cardinality({p \in Requests : KindOf(p) = "reaction" /\ proc[p].pc = "asking"})

(* _drain_gated_restart, the tool a running turn calls: at once when       *)
(* nothing but the caller is counted.                                      *)
\* Mutant: two turns are not counted as others.
GateLoose(p) == Inflight - 1 <= 1
Gate(p) == Inflight - 1 <= 0
SelfRestart(p) ==
    /\ cast.gate /\ restart = "no" /\ proc[p].pc = "asking"
    /\ asker' = p
    /\ restart' = IF Gate(p) THEN "issued" ELSE "deferred"
    /\ UNCHANGED <<cast, batch, proc, busy, line, answer, reply, hist, busVars, early>>

(* wait_for_drain: a poll finds nothing in flight, or the time is over.    *)
Drained ==
    /\ restart = "deferred" /\ Inflight = 0
    /\ restart' = "issued"
    /\ UNCHANGED <<cast, batch, proc, busy, line, answer, reply, hist, busVars, asker, early>>
DrainTimeout ==
    /\ restart = "deferred" /\ Inflight > 0
    /\ restart' = "issued" /\ asker' = None
    /\ UNCHANGED <<cast, batch, proc, busy, line, answer, reply, hist, busVars, early>>

(* The process ends: MessageCoalescer.close cancels every task, a turn on  *)
(* the bus ends with an error, no queue gets a frame; then all but the     *)
(* recorded turns is lost.                                                 *)
Shutdown ==
    /\ Up /\ restart' = "down"
    /\ proc' = [p \in Requests |-> Unborn]
    /\ line' = [k \in Locks |-> <<>>]
    /\ batch' = [s \in Sessions |-> <<>>] /\ busy' = {} /\ early' = {}
    /\ reply' = [s \in Sessions |-> [m \in Ids |-> None]]
    /\ current' = [s \in Sessions |-> [turn |-> None, parts |-> 0]]
    /\ ear' = [s \in Sessions |-> "off"] /\ heard' = [p \in Requests |-> 0]
    /\ asker' = None
    /\ UNCHANGED <<cast, answer, hist>>

-----------------------------------------------------------------------------
Work(p) == \/ Wake(p) \/ Replay(p) \/ Begin(p) \/ Titled(p) \/ Cleared(p) \/ FinishOther(p)
           \/ \E e \in {"done", "error"} : Finish(p, e)
Next ==
    \/ \E r \in Requests : Submit(r) \/ Arrive(r) \/ CancelOne(r) \/ SelfRestart(r)
    \/ \E p \in Requests : Work(p) \/ Token(p) \/ Retry(p) \/ RecordThenTitle(p)
    \/ \E s \in Sessions : CancelAll(s) \/ Subscribe(s) \/ Unsubscribe(s)
    \/ Drained \/ DrainTimeout \/ Shutdown

Spec == Init /\ [][Next]_vars

(* The event loop runs every task that is ready, and a stream of the agent *)
(* ends or times out.                                                      *)
FairSpec == Spec /\ \A p \in Requests : WF_vars(Work(p))

-----------------------------------------------------------------------------
(* Properties.                                                             *)

Processors ==
    [pc : {"none", "asleep", "waiting", "asking", "titling", "over", "gone"},
     taken : Seq(Requests), tokens : Nat, tries : Nat, seen : Nat]
Answers == [of : Requests \cup {None}, end : {"unsent", "open", "done", "error"}]
Turns == [turn : Requests \cup {None}, parts : Nat]
TypeOK ==
    /\ cast \in Casts
    /\ batch \in [Sessions -> Seq(Requests)] /\ busy \subseteq Sessions
    /\ proc \in [Requests -> Processors] /\ answer \in [Requests -> Answers]
    /\ line \in [Locks -> Seq(Requests)] /\ hist \in [Sessions -> Seq(Requests)]
    /\ reply \in [Sessions -> [Ids -> Requests \cup {None}]]
    /\ current \in [Sessions -> Turns]
    /\ ear \in [Sessions -> {"off", "on"}] /\ heard \in [Requests -> Nat]
    /\ restart \in {"no", "deferred", "issued", "down"} /\ asker \in Requests \cup {None}
    /\ early \subseteq Sessions

(* A message that waits in a batch has a processor asleep that will take   *)
(* it, whatever was cancelled before: the rule "the first of a batch       *)
(* creates the task" (chat.py:230) never strands a message.                *)
BatchHasProcessor ==
    Up => \A s \in Sessions : batch[s] # <<>> =>
             \E p \in Requests : proc[p].pc = "asleep" /\ SessionOf(p) = s

(* A message is in one place: in the batch of its session or taken by one  *)
(* processor at work, never in two and never in none while its response    *)
(* queue waits for the last frame.                                         *)
InOnePlace ==
    Up => \A r \in Requests :
       LET places == Cardinality({s \in Sessions : r \in ToSet(batch[s])})
                     + Cardinality({p \in Requests : AtWork(p) /\ r \in ToSet(proc[p].taken)})
       IN  places = IF answer[r].end = "open" THEN 1 ELSE 0

(* The history a turn read is the history it is recorded on, when all      *)
(* turns of the session use one lock key: no turn is recorded while        *)
(* another one runs, so no reply misses an exchange before it.  (The lock  *)
(* key is the client id when a request has one, chat.py:863.)              *)
OneLock(s) == \A p, q \in Requests :
    SessionOf(p) = s /\ SessionOf(q) = s => LockOf(p) = LockOf(q)
RecordedOnWhatItRead ==
    \A p \in Requests : proc[p].pc = "asking" /\ OneLock(SessionOf(p))
                           => proc[p].seen = Len(hist[SessionOf(p)])

(* A message id that is sent again is not run again.  Two recorded turns   *)
(* of one lock key hold the same id only if the second had it behind       *)
(* another message, a place the check does not look at (chat.py:395).      *)
RunOnce ==
    Up => \A s \in Sessions : \A i, j \in DOMAIN hist[s] :
       LET a == hist[s][i]  b == hist[s][j] IN
       i < j /\ LockOf(a) = LockOf(b) /\ KindOf(a) = "chat" /\ KindOf(b) = "chat"
             /\ IdOf(Head(proc[b].taken)) # NoId
       => \A r \in ToSet(proc[a].taken) : IdOf(r) # IdOf(Head(proc[b].taken))

(* A subscriber that attached while a turn ran, and any other, has all the *)
(* tokens of the turn the bus holds: what it was given at the start and    *)
(* what it got since are the content, without a gap or a repetition.       *)
ResumeIsWhole ==
    \A s \in Sessions : ear[s] = "on" /\ current[s].turn # None
       => heard[current[s].turn] = proc[current[s].turn].tokens

(* A restart that did not run into the time limit is issued when no turn   *)
(* is counted, or at once when the counted turns are all of the session of *)
(* the turn that asked.  Not counted are the continuation and the turns of *)
(* a session whose mark was removed early.                                 *)
Counted(p) == /\ KindOf(p) # "continuation" /\ Running(p)
              /\ KindOf(p) = "chat" => SessionOf(p) \notin early
Issues == restart' = "issued" /\ restart # "issued"
GatedRestart ==
    [][Issues /\ asker' # None =>
          LET running == {p \in Requests : Counted(p)} IN
          \/ restart = "deferred" /\ running = {}
          \/ restart = "no" /\ asker' \notin running
          \/ restart = "no" /\ \A p \in running : SessionOf(p) = SessionOf(asker')]_vars

(* A message that has got its last frame gets no other.                    *)
LastFrameIsLast ==
    [][\A r \in Requests : answer[r].end \in {"done", "error"} => answer'[r] = answer[r]]_vars

(* Every message gets its last frame, whoever cancels what, unless the     *)
(* process ends first.                                                     *)
EveryMessageAnswered ==
    \A r \in Requests : answer[r].end = "open" ~> (answer[r].end # "open" \/ ~Up)

(* What the drain gate is for (drain.py): a restart that did not run into  *)
(* the time limit is issued when no other turn is running.                 *)
RestartCutsNoTurn ==
    [][Issues /\ asker' # None => \A p \in Requests \ {asker'} : ~Running(p)]_vars
=============================================================================
