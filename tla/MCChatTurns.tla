----------------------------- MODULE MCChatTurns -----------------------------
(* Instances of ChatTurns for TLC.                                         *)
EXTENDS ChatTurns

CONSTANTS r1, r2, r3, main, side, m1, m2, client

Chat(session, lock, id) == [kind |-> "chat", session |-> session, lock |-> lock, id |-> id]
Other(kind, session, lock) == [Chat(session, lock, NoId) EXCEPT !.kind = kind]
Cast(x, y, z, ears, tokens, tries, gate) ==
    [req |-> (r1 :> x) @@ (r2 :> y) @@ (r3 :> z), ears |-> ears, tokens |-> tokens,
     tries |-> tries, gate |-> gate]

(* A message, its retry and another one; a reaction beside messages that   *)
(* is subscribed to; two lock keys for one session; two sessions with a    *)
(* restart; a reaction and a continuation under its owner's key.           *)
FiveCasts ==
    {Cast(Chat(main, main, m1), Chat(main, main, m1), Chat(main, main, m2), {}, 0, 1, FALSE),
     Cast(Chat(main, main, m1), Chat(main, main, m2), Other("reaction", main, main), {main}, 2, 3, FALSE),
     Cast(Chat(main, client, m1), Chat(main, main, m1), Other("reaction", main, main), {main}, 1, 1, FALSE),
     Cast(Chat(main, main, NoId), Chat(main, main, NoId), Chat(side, side, NoId), {}, 0, 1, TRUE),
     Cast(Chat(main, main, NoId), Other("reaction", main, main), Other("continuation", side, client), {}, 0, 1, TRUE)}

(* Two sessions, in one of them two messages.                              *)
OneCast == {Cast(Chat(main, main, NoId), Chat(main, main, NoId), Chat(side, side, NoId), {}, 0, 1, TRUE)}
=============================================================================
