---------------------------- MODULE TurnRegistry ----------------------------
(***************************************************************************)
(* The in-memory registry of running turns (core/turn-cancellation.ts) and *)
(* the nudges queued for them (gateway/steer-store.ts).  Each Map is a     *)
(* function over the keys it holds.  A turn is registered under the chat   *)
(* it came from and, as an alias, under its session's key: a first Web     *)
(* message arrives under the client's id, later ones under the session.    *)
(***************************************************************************)
EXTENDS Integers, Sequences, FiniteSets

CONSTANTS Chats,        \* chat ids messages arrive under
          SessionKey,   \* the key `userId:sessionId` of each chat's session
          SteerMax      \* STEER_MAX_PER_TURN

VARIABLES activeTurns,       \* turn -> its chat, and whether it is aborted
          activeTurnByChat,  \* key -> the turn registered last under it
          pendingByTurn      \* turn -> number of steers not yet read

registryVars == <<activeTurns, activeTurnByChat, pendingByTurn>>

Empty == << >>
With(f, keys, v) == [x \in DOMAIN f \union keys |-> IF x \in keys THEN v ELSE f[x]]
Without(f, gone) == [x \in DOMAIN f \ gone |-> f[x]]
KeysOf(c) == {c, SessionKey[c]}

RegistryInit ==
  activeTurns = Empty /\ activeTurnByChat = Empty /\ pendingByTurn = Empty

RegisterRunningTurn(t, c) ==
  /\ activeTurns' = With(activeTurns, {t}, [chat |-> c, aborted |-> FALSE])
  /\ activeTurnByChat' = With(activeTurnByChat, KeysOf(c), t)
  /\ UNCHANGED pendingByTurn

\* Mutant: the alias under the session's key is forgotten.
OwnKeys_ChatOnly(t) ==
  {k \in {activeTurns[t].chat} \intersect DOMAIN activeTurnByChat : activeTurnByChat[k] = t}

\* Mutant: keys are given up without a look at whose they are now.
OwnKeys_Unguarded(t) == KeysOf(activeTurns[t].chat) \intersect DOMAIN activeTurnByChat

(* A finishing turn gives up the keys that are still its own. *)
OwnKeys(t) ==
  {k \in KeysOf(activeTurns[t].chat) \intersect DOMAIN activeTurnByChat :
     activeTurnByChat[k] = t}

(* The finally block of a turn: expireSteerTurn(), then finishRunningTurn(). *)
FinishRunningTurn(t) ==
  /\ activeTurns' = Without(activeTurns, {t})
  /\ activeTurnByChat' = Without(activeTurnByChat, OwnKeys(t))
  /\ pendingByTurn' = Without(pendingByTurn, {t})

(* getActiveTurnForChat(): the turns, none or one, it can return. *)
ActiveTurnForChat(c) ==
  {t \in DOMAIN activeTurns :
     /\ c \in DOMAIN activeTurnByChat
     /\ activeTurnByChat[c] = t
     /\ ~activeTurns[t].aborted}

(* requestTurnCancellation() of one turn, cancelAllRunningTurns() of all. *)
AbortRegistered(ts) ==
  /\ activeTurns' = [t \in DOMAIN activeTurns |->
                       IF t \in ts THEN [activeTurns[t] EXCEPT !.aborted = TRUE]
                       ELSE activeTurns[t]]
  /\ UNCHANGED <<activeTurnByChat, pendingByTurn>>

SteersOf(t) == IF t \in DOMAIN pendingByTurn THEN pendingByTurn[t] ELSE 0

\* Mutant: the limit on steers is not looked at.
EnqueueSteer_Unlimited(t) ==
  /\ pendingByTurn' = With(pendingByTurn, {t}, SteersOf(t) + 1)
  /\ UNCHANGED <<activeTurns, activeTurnByChat>>

EnqueueSteer(t) ==
  /\ SteersOf(t) < SteerMax
  /\ pendingByTurn' = With(pendingByTurn, {t}, SteersOf(t) + 1)
  /\ UNCHANGED <<activeTurns, activeTurnByChat>>

DrainSteer(t) ==
  /\ t \in DOMAIN pendingByTurn
  /\ pendingByTurn' = Without(pendingByTurn, {t})
  /\ UNCHANGED <<activeTurns, activeTurnByChat>>

(* The maps are gone with the process. *)
RegistryRestart ==
  activeTurns' = Empty /\ activeTurnByChat' = Empty /\ pendingByTurn' = Empty
=============================================================================
