----------------------------- MODULE ChatPromise -----------------------------
(***************************************************************************)
(* What ChatTurns promises to whoever posts messages, without its batches, *)
(* processors, locks, streams, replies kept by id and restarts: a message  *)
(* gets one last frame, by then the turn it ends is in the history of the  *)
(* session, and a history only grows, by turns that are new to it.         *)
(***************************************************************************)
EXTENDS Sequences

CONSTANTS Request, Session, NoTurn

VARIABLES
    home,      \* Request -> its session, which stays
    frame,     \* Request -> what the client has of it, and the turn that answered
    history    \* Session -> the turns in the order they were recorded

promiseVars == <<home, frame, history>>

Recorded(c) == {history[c][i] : i \in DOMAIN history[c]}

Init ==
    /\ home \in [Request -> Session]
    /\ frame = [r \in Request |-> [of |-> NoTurn, end |-> "unsent"]]
    /\ history = [c \in Session |-> <<>>]

Post(r) ==
    /\ frame[r].end = "unsent"
    /\ frame' = [frame EXCEPT ![r].end = "open"]
    /\ UNCHANGED <<home, history>>

Open(Q) == \A r \in Q : frame[r].end = "open"
LastFrame(Q, t, e) ==
    frame' = [r \in Request |-> IF r \in Q THEN [of |-> t, end |-> e] ELSE frame[r]]

(* Messages that are cancelled end without a turn.                         *)
Cancel(Q) ==
    /\ Open(Q) /\ LastFrame(Q, NoTurn, "done")
    /\ UNCHANGED <<home, history>>

(* A turn is recorded, once and in its own session.                        *)
New(t) == t \notin Recorded(home[t])
Record(t) ==
    /\ New(t)
    /\ history' = [history EXCEPT ![home[t]] = Append(@, t)]
    /\ UNCHANGED <<home, frame>>

(* Messages of the session of a turn end with it, when it was recorded or  *)
(* in the step that records it.                                            *)
Answer(Q, t, e) ==
    /\ Open(Q) /\ \A r \in Q : home[r] = home[t]
    /\ LastFrame(Q, t, e)
    /\ IF New(t) THEN history' = [history EXCEPT ![home[t]] = Append(@, t)]
                 ELSE UNCHANGED history
    /\ UNCHANGED home

Next ==
    \/ \E r \in Request : Post(r) \/ Record(r)
    \/ \E Q \in SUBSET Request :
          \/ Cancel(Q)
          \/ \E t \in Request, e \in {"done", "error"} : Answer(Q, t, e)

Spec == Init /\ [][Next]_promiseVars
=============================================================================
