------------------------------- MODULE Turns -------------------------------
(***************************************************************************)
(* One user's turns in one process: the queues in front of the handler     *)
(* (index.ts), the handler of the gateway (gateway/handler.ts) with its    *)
(* sessions in memory, the registry of running turns and their record.     *)
(* Turns are numbered in the order their messages arrive.  The brain is    *)
(* what it answers, asks tools for, and how long it takes.                 *)
(***************************************************************************)
EXTENDS TurnRegistry, TurnRecord

CONSTANTS Scenarios,     \* bound: turns, max_concurrent_sessions_per_user, tool calls
          SendsItself,   \* chats whose channel the handler answers through
          MaxRestarts    \* bound: ends of the process

VARIABLES given,         \* the scenario of this behaviour
          phase,         \* where the handling of a message has got to
          slots,         \* userRunningTurnCount
          slotQueue,     \* userConcurrencyQueues
          controllers,   \* activeTurnControllers: chat -> turn
          sessions,      \* sessions: chat -> session object (by its creator)
          object,        \* the state of each session object
          mine,          \* the session object a turn works on
          reason,        \* why the signal of a turn was aborted
          restarts

queueVars == <<phase, slots, slotQueue, controllers>>
sessionVars == <<sessions, object, mine>>
vars == <<registryVars, recordVars, queueVars, sessionVars, given, reason, restarts>>

ASSUME TurnsAssumption ==
  /\ \A s \in Scenarios :
       /\ s.turns \in Seq([chat : Chats, scheduled : BOOLEAN])
       /\ DOMAIN s.turns \subseteq Turns /\ s.limit \in Nat \ {0} /\ s.calls \subseteq Calls
  /\ SteerMax \in Nat \ {0} /\ MaxRestarts \in Nat
  /\ Turns \subseteq Nat /\ Calls \subseteq Nat /\ NoTurn \notin Turns

Given == DOMAIN given.turns
Chat(t) == given.turns[t].chat
Scheduled(t) == given.turns[t].scheduled
HasOutput(t) == Chat(t) \in SendsItself /\ ~Scheduled(t)

Thinking == {"thinking", "tools", "ending"}
Registered == Thinking \union {"sending"}
HoldsSlot == {"granted", "closing"} \union Registered
Aborted(t) == reason[t] # "none"

Init ==
  /\ RegistryInit /\ RecordInit
  /\ given \in Scenarios
  /\ phase = [t \in Turns |-> "new"]
  /\ slots = 0 /\ slotQueue = <<>> /\ controllers = Empty
  /\ sessions = Empty
  /\ object = [t \in Turns |-> "IDLE"] /\ mine = [t \in Turns |-> NoTurn]
  /\ reason = [t \in Turns |-> "none"]
  /\ restarts = 0

-----------------------------------------------------------------------------
(* In front of the handler.  A chat's turns run one after the other: the    *)
(* tail of its queue is the promise of the turn before.                     *)
Arrives(t) == phase[t] = "new" /\ \A u \in Given : u < t => phase[u] # "new"

HeadOfLine(t) ==
  \A u \in Given : u < t /\ Chat(u) = Chat(t) /\ ~Scheduled(u) => phase[u] = "over"

Arrive(t) ==
  /\ Arrives(t) /\ ~Scheduled(t)
  /\ phase' = [phase EXCEPT ![t] = "line"]
  /\ UNCHANGED <<slots, slotQueue, controllers, sessionVars, registryVars, recordVars,
                 given, reason, restarts>>

AcquireUserTurnSlot(t) ==
  /\ phase[t] = "line" /\ HeadOfLine(t)
  /\ IF slots < given.limit /\ slotQueue = <<>>
     THEN /\ slots' = slots + 1
          /\ phase' = [phase EXCEPT ![t] = "granted"]
          /\ UNCHANGED slotQueue
     ELSE /\ slotQueue' = Append(slotQueue, t)
          /\ phase' = [phase EXCEPT ![t] = "slot"]
          /\ UNCHANGED slots
  /\ UNCHANGED <<controllers, sessionVars, registryVars, recordVars, given, reason, restarts>>

(* A slot goes to the head of its queue, or the count goes down. *)
ReleaseUserTurnSlot ==
  IF slotQueue = <<>>
  THEN slots' = slots - 1 /\ UNCHANGED slotQueue
  ELSE slotQueue' = Tail(slotQueue) /\ UNCHANGED slots

\* Mutant: the turn a slot is passed on to is not resumed.
Resumed_Never(t) == FALSE

\* The turn whose promise a released slot resolves.
Resumed(t) == slotQueue # <<>> /\ t = Head(slotQueue)

(* The finally blocks of executeMessage() and runInChatQueue(). *)
LetGo(t) ==
  IF Scheduled(t)
  THEN phase' = [phase EXCEPT ![t] = "over"] /\ UNCHANGED <<slots, slotQueue, controllers>>
  ELSE /\ ReleaseUserTurnSlot
       /\ controllers' = Without(controllers, {c \in DOMAIN controllers : controllers[c] = t})
       /\ phase' = [u \in Turns |-> IF u = t THEN "over"
                                    ELSE IF Resumed(u) THEN "granted" ELSE phase[u]]

(* The handler has returned; Telegram's status messages are removed first. *)
Returned(t) ==
  IF HasOutput(t)
  THEN phase' = [phase EXCEPT ![t] = "closing"] /\ UNCHANGED <<slots, slotQueue, controllers>>
  ELSE LetGo(t)

CleanupDone(t) ==
  /\ phase[t] = "closing"
  /\ LetGo(t)
  /\ UNCHANGED <<sessionVars, registryVars, recordVars, given, reason, restarts>>

-----------------------------------------------------------------------------
(* The handler.  getOrCreateSession(), the transition to WORKING, and the   *)
(* registration are one step.                                               *)
Session(t) == IF Chat(t) \in DOMAIN sessions THEN sessions[Chat(t)] ELSE t

(* A user's turn has a controller of the caller's from before the handler;  *)
(* a scheduled one brings its job's signal.                                  *)
Controlled(t) == IF Scheduled(t) THEN controllers ELSE With(controllers, {Chat(t)}, t)

WorkOn(t, o) ==
  /\ sessions' = With(sessions, {Chat(t)}, o)
  /\ object' = [object EXCEPT ![o] = "WORKING"]
  /\ mine' = [mine EXCEPT ![t] = o]
  /\ phase' = [phase EXCEPT ![t] = "thinking"]
  /\ controllers' = Controlled(t)
  /\ RegisterRunningTurn(t, Chat(t))
  /\ StartTurnEnvelope(t)
  /\ UNCHANGED <<slots, slotQueue, turnState, caller, call, late>>

(* The turn before is still in flight: told so, and over without a row. *)
RejectBusy(t) ==
  /\ PublishTurnState(t, "CANCELLED", "cancelled")
  /\ IF HasOutput(t)
     THEN /\ phase' = [phase EXCEPT ![t] = "closing"]
          /\ controllers' = Controlled(t)
          /\ UNCHANGED <<slots, slotQueue>>
     ELSE LetGo(t)
  /\ UNCHANGED <<sessionVars, registryVars, caller, call, late>>

Enter(t) ==
  /\ \/ phase[t] = "granted"
     \/ Arrives(t) /\ Scheduled(t)
  /\ IF object[Session(t)] # "WORKING" THEN WorkOn(t, Session(t))
     ELSE IF ActiveTurnForChat(Chat(t)) # {} THEN RejectBusy(t)
     ELSE WorkOn(t, t)
  /\ UNCHANGED <<given, reason, restarts>>

(* The loop reads the steers before each call of the model. *)
DrainSteers(t) ==
  /\ phase[t] = "thinking"
  /\ DrainSteer(t)
  /\ UNCHANGED <<queueVars, sessionVars, recordVars, given, reason, restarts>>

CallTools(t, ks) ==
  /\ phase[t] = "thinking" /\ ~Aborted(t) /\ ~Scheduled(t)
  /\ StartBatch(t, ks)
  /\ phase' = [phase EXCEPT ![t] = "tools"]
  /\ UNCHANGED <<slots, slotQueue, controllers, sessionVars, registryVars, given, reason, restarts>>

(* A call asks when it gets there, also when its turn has gone on without it. *)
Ask(k) ==
  /\ AskApproval(k, Aborted(caller[k]))
  /\ UNCHANGED <<queueVars, sessionVars, registryVars, given, reason, restarts>>

DecideOrTimeOut(k) ==
  /\ WaitEnds(k)
  /\ UNCHANGED <<queueVars, sessionVars, registryVars, given, reason, restarts>>

ToolsDone(t) ==
  /\ phase[t] = "tools" /\ ~Aborted(t)
  /\ Unasked(t) = {} /\ Waiting(t) = {}
  /\ phase' = [phase EXCEPT ![t] = "thinking"]
  /\ UNCHANGED <<slots, slotQueue, controllers, sessionVars, registryVars, recordVars,
                 given, reason, restarts>>

(* The loop's budget ends while tools run: the turn stops looping, the calls *)
(* and their waits go on, their signal is not aborted.                       *)
BudgetElapses(t) ==
  /\ phase[t] = "tools" /\ ~Aborted(t)
  /\ phase' = [phase EXCEPT ![t] = "ending"]
  /\ UNCHANGED <<slots, slotQueue, controllers, sessionVars, registryVars, recordVars,
                 given, reason, restarts>>

-----------------------------------------------------------------------------
(* How the handler ends.                                                     *)
Complete(t) ==
  /\ object' = [object EXCEPT ![mine[t]] = "IDLE"]
  /\ UNCHANGED <<sessions, mine>>
  /\ FinishRunningTurn(t)
  /\ Returned(t)

(* The catch block: whatever session the chat has now is dropped. *)
Catch(t, state, status) ==
  /\ sessions' = Without(sessions, {Chat(t)})
  /\ UNCHANGED <<object, mine>>
  /\ PublishTurnState(t, state, status)
  /\ FinishRunningTurn(t)
  /\ Returned(t)

CatchAbort(t, why) ==
  IF why = "timeout" THEN Catch(t, "FAILED", "failed")
  ELSE Catch(t, "CANCELLED", IF why = "restart" THEN "interrupted" ELSE "cancelled")

(* A refused transition; with the signal aborted it counts as a cancellation. *)
CatchError(t) ==
  IF Aborted(t) THEN CatchAbort(t, "cancel") ELSE Catch(t, "FAILED", "failed")

(* Any other error: one that looks like an abort counts as a cancellation, one *)
(* that speaks of a timeout as a failure, whether the signal is aborted or not. *)
CatchThrown(t) == \E why \in {"cancel", "timeout"} : CatchAbort(t, why)

(* The brain has an answer, and the gate may call the run failed.  With a    *)
(* channel to answer through, the state FAILED is published before the send. *)
BrainAnswers(t, failed) ==
  /\ phase[t] \in {"thinking", "ending"}
  /\ LET end == IF failed THEN "FAILED" ELSE "DONE" IN
     IF HasOutput(t)
     THEN /\ object' = [object EXCEPT ![mine[t]] = "RESPONDING"]
          /\ phase' = [phase EXCEPT ![t] = "sending"]
          /\ IF failed THEN PublishTurnState(t, end, Status[end])
             ELSE UNCHANGED <<turnState, envelope>>
          /\ UNCHANGED <<slots, slotQueue, controllers, sessions, mine, registryVars>>
     ELSE PublishTurnState(t, end, Status[end]) /\ Complete(t)
  /\ UNCHANGED <<caller, call, late, given, reason, restarts>>

SendSettles(t) ==
  /\ phase[t] = "sending"
  /\ IF object[mine[t]] = "RESPONDING"
     THEN PublishTurnState(t, "DONE", "completed") /\ Complete(t)
     ELSE CatchError(t)
  /\ UNCHANGED <<caller, call, late, given, reason, restarts>>

SendFails(t) ==
  /\ phase[t] = "sending"
  /\ CatchThrown(t)
  /\ UNCHANGED <<caller, call, late, given, reason, restarts>>

TurnFails(t) ==
  /\ phase[t] \in {"thinking", "ending"} /\ ~Aborted(t)
  /\ CatchThrown(t)
  /\ UNCHANGED <<caller, call, late, given, reason, restarts>>

AbortSettles(t) ==
  /\ phase[t] \in Thinking /\ Aborted(t)
  /\ CatchAbort(t, reason[t])
  /\ UNCHANGED <<caller, call, late, given, reason, restarts>>

-----------------------------------------------------------------------------
(* From outside.  An abort ends the approval waits of the turn at once; only *)
(* the first reason counts.                                                  *)
Abort(ts, why) ==
  /\ reason' = [t \in Turns |-> IF t \in ts /\ ~Aborted(t) THEN why ELSE reason[t]]
  /\ EndWaits(UNION {Waiting(t) : t \in ts})
  /\ UNCHANGED <<turnState, caller, queueVars, sessionVars, given, restarts>>

(* The Web UI's cancel, by turn or by what is registered for the chat. *)
RequestTurnCancellation(t) ==
  /\ t \in DOMAIN activeTurns /\ ~activeTurns[t].aborted
  /\ AbortRegistered({t})
  /\ Abort({t}, "cancel")

(* /cancel and the turn's timeout, or those of its job, abort the signal of  *)
(* the caller; the registry does not know.                                   *)
AbortFromCaller(t, why) ==
  /\ ~Aborted(t)
  /\ \/ \E c \in DOMAIN controllers : controllers[c] = t
     \/ Scheduled(t) /\ phase[t] \in Registered
  /\ Abort({t}, why)
  /\ UNCHANGED registryVars

DrainActiveTurns ==
  LET ts == DOMAIN activeTurns \union {controllers[c] : c \in DOMAIN controllers} IN
  /\ restarts < MaxRestarts
  /\ \E t \in ts : ~Aborted(t)
  /\ AbortRegistered(ts)
  /\ Abort(ts, "restart")

Steer(c) ==
  /\ \E t \in ActiveTurnForChat(c) : EnqueueSteer(t)
  /\ UNCHANGED <<queueVars, sessionVars, recordVars, given, reason, restarts>>

(* The hourly sweep looks at the time of the last transition only. *)
SweepSession(c) ==
  /\ c \in DOMAIN sessions
  /\ sessions' = Without(sessions, {c})
  /\ UNCHANGED <<object, mine, queueVars, registryVars, recordVars, given, reason, restarts>>

Restart ==
  /\ restarts < MaxRestarts
  /\ restarts' = restarts + 1
  /\ phase' = [t \in Turns |-> IF phase[t] = "new" THEN "new" ELSE "over"]
  /\ slots' = 0 /\ slotQueue' = <<>> /\ controllers' = Empty
  /\ sessions' = Empty
  /\ RegistryRestart /\ RecordRestart
  /\ UNCHANGED <<object, mine, given, reason>>

-----------------------------------------------------------------------------
(* Promises resumed in the same turn of the event loop come before any other *)
(* event: a turn let in, the head of a line, a tool batch that is aborted.    *)
Prompt(t) ==
  \/ phase[t] = "granted"
  \/ phase[t] = "line" /\ HeadOfLine(t)
  \/ phase[t] = "tools" /\ Aborted(t)
Quiet == \A t \in Given : ~Prompt(t)

PromptStep(t) ==
  /\ Prompt(t)
  /\ AcquireUserTurnSlot(t) \/ Enter(t) \/ AbortSettles(t)

(* The steps that take a turn to its end with nobody from outside. *)
OwnStep(t) ==
  \/ Enter(t)
  \/ \E k \in Calls : caller[k] = t /\ (Ask(k) \/ DecideOrTimeOut(k))
  \/ ToolsDone(t)
  \/ \E failed \in BOOLEAN : BrainAnswers(t, failed)
  \/ AbortSettles(t) \/ SendSettles(t) \/ CleanupDone(t)

OtherStep(t) ==
  \/ Arrive(t) \/ DrainSteers(t) \/ BudgetElapses(t)
  \/ \E ks \in SUBSET given.calls : CallTools(t, ks)
  \/ SendFails(t) \/ TurnFails(t)
  \/ RequestTurnCancellation(t)
  \/ \E why \in {"cancel", "timeout"} : AbortFromCaller(t, why)

TurnStep(t) == PromptStep(t) \/ (Quiet /\ OwnStep(t))

Next ==
  \/ \E t \in Given : TurnStep(t) \/ (Quiet /\ OtherStep(t))
  \/ Quiet /\ \E c \in Chats : Steer(c) \/ SweepSession(c)
  \/ Quiet /\ DrainActiveTurns
  \/ Restart

(* Model calls, sends and tools settle (they have timeouts), approval waits  *)
(* time out, resumed promises run; nobody has to write, decide or cancel.    *)
Spec == Init /\ [][Next]_vars /\ \A t \in Turns : WF_vars(t \in Given /\ TurnStep(t))

-----------------------------------------------------------------------------
\* Every variable keeps its shape, and no turn has more steers than it may.
TypeOK ==
  /\ DOMAIN activeTurns \subseteq Turns
  /\ \A t \in DOMAIN activeTurns : activeTurns[t] \in [chat : Chats, aborted : BOOLEAN]
  /\ \A k \in DOMAIN activeTurnByChat : activeTurnByChat[k] \in Turns
  /\ \A t \in DOMAIN pendingByTurn : pendingByTurn[t] \in 1 .. SteerMax
  /\ turnState \in [Turns -> Terminal \union {"open"}]
  /\ envelope \in [Turns -> Open \union {"none", "completed", "failed", "cancelled", "interrupted"}]
  /\ caller \in [Calls -> Turns \union {NoTurn}]
  /\ call \in [Calls -> {"unused", "running", "waiting", "asked"}]
  /\ late \subseteq Turns
  /\ phase \in [Turns -> HoldsSlot \union {"new", "line", "slot", "over"}]
  /\ slots \in 0 .. given.limit /\ slotQueue \in Seq(Turns)
  /\ \A c \in DOMAIN controllers : c \in Chats /\ controllers[c] \in Turns
  /\ \A c \in DOMAIN sessions : c \in Chats /\ sessions[c] \in Turns
  /\ object \in [Turns -> {"IDLE", "WORKING", "RESPONDING"}]
  /\ mine \in [Turns -> Turns \union {NoTurn}]
  /\ reason \in [Turns -> {"none", "cancel", "timeout", "restart"}]
  /\ restarts \in 0 .. MaxRestarts

(* The registry holds the turns the handler has, indexed under their keys;  *)
(* steers and caller-side controllers belong to turns that can still end.   *)
RegistryMatchesTurns ==
  /\ \A t \in Turns : t \in DOMAIN activeTurns <=> phase[t] \in Registered
  /\ \A k \in DOMAIN activeTurnByChat :
       /\ activeTurnByChat[k] \in DOMAIN activeTurns
       /\ k \in KeysOf(Chat(activeTurnByChat[k]))
  /\ DOMAIN pendingByTurn \subseteq DOMAIN activeTurns
  /\ \A t \in Given :
       ~Scheduled(t) /\ phase[t] \in Registered \union {"closing"}
         <=> \E c \in DOMAIN controllers : controllers[c] = t

(* A place is held by every turn let in, all are held while a turn waits,   *)
(* and a turn let in finds no controller of its chat it would replace.      *)
SlotsMatchTurns ==
  /\ slots = Cardinality({t \in Given : ~Scheduled(t) /\ phase[t] \in HoldsSlot})
  /\ slotQueue # <<>> => slots = given.limit
  /\ \A t \in Turns : phase[t] = "slot" <=> \E i \in DOMAIN slotQueue : slotQueue[i] = t
  /\ \A t \in Given : phase[t] = "granted" => Chat(t) \notin DOMAIN controllers

(* A turn at work has its session object to itself, and a chat's session is *)
(* never left WORKING by a turn that has ended.                             *)
SessionsMatchTurns ==
  /\ \A t \in Turns : phase[t] \in Thinking =>
       /\ object[mine[t]] = "WORKING"
       /\ \A u \in Turns \ {t} : phase[u] \in Thinking => mine[u] # mine[t]
  /\ \A c \in DOMAIN sessions : object[sessions[c]] = "WORKING" =>
       \E t \in Turns : phase[t] \in Thinking /\ mine[t] = sessions[c]

\* Whatever way turns end (answered, failed, cancelled by any of four signals,
\* timed out, joined by a scheduled turn, swept or refused), their registration,
\* keys, steers, controllers, slots and session objects go with them and with
\* nobody else's.
NothingLeftBehind == RegistryMatchesTurns /\ SlotsMatchTurns /\ SessionsMatchTurns

\* The envelope tells a reader the truth: a turn the handler has is open on
\* record (or already failed, its answer going out), one that has ended is
\* terminal, and one that says it awaits an approval has a call that waits.
\* The exception the code makes is `late`: a call whose turn went on without
\* it writes the row of an ended turn open again.
EnvelopeTellsTruth ==
  \A t \in Turns :
    /\ phase[t] \in Registered => \/ envelope[t] \in Open
                                  \/ phase[t] = "sending" /\ envelope[t] = "failed"
    /\ phase[t] \in {"closing", "over"} /\ t \notin late => envelope[t] \notin Open
    /\ envelope[t] = "awaiting_approval" => Waiting(t) # {}

\* A key a turn is found by (to cancel it, to steer it, to refuse a second
\* message) goes from it only to a turn that registers, or with its own end:
\* never with the end of a turn that had the key before.
KeysYieldToNewer ==
  [][\A k \in DOMAIN activeTurnByChat :
       LET t == activeTurnByChat[k] IN
         \/ t \notin DOMAIN activeTurns'
         \/ /\ k \in DOMAIN activeTurnByChat'
            /\ activeTurnByChat'[k] = t \/ activeTurnByChat'[k] \notin DOMAIN activeTurns
    ]_vars

\* Every message that arrives is over in the end, through both queues, whatever
\* the turns before it wait for and however they end.
TurnsEnd == \A t \in Turns : phase[t] # "new" ~> phase[t] = "over"
=============================================================================
