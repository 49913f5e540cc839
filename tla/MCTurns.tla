------------------------------ MODULE MCTurns ------------------------------
(* Values for TLC: three turns of one user, on the Web and on Telegram. *)
EXTENDS Turns, TLC

CONSTANTS client, session, tele, teleSession

ThreeTurns == 1 .. 3
WebAndTelegram == {client, session, tele}
Keys == (client :> session) @@ (session :> session) @@ (tele :> teleSession)

User(c) == [chat |-> c, scheduled |-> FALSE]
Job(c) == [chat |-> c, scheduled |-> TRUE]
Of(turns, limit, calls) == [turns |-> turns, limit |-> limit, calls |-> calls]

Bounds ==
  {Of(<<User(client), User(session)>>, 2, {1}),
   Of(<<User(session), Job(session), User(session)>>, 1, {}),
   Of(<<User(tele), Job(tele)>>, 1, {1}),
   Of(<<User(session), User(tele), User(session)>>, 1, {}),
   Of(<<User(tele), User(tele)>>, 1, {}),
   Of(<<Job(tele), User(tele)>>, 1, {}),
   Of(<<User(session), Job(session)>>, 1, {1, 2})}
=============================================================================
