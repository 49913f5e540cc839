----------------------------- MODULE TurnsProofs -----------------------------
(***************************************************************************)
(* Turns leave nothing behind, for any number of turns, chats, limits and  *)
(* ends of the process: proofs of the first invariant and of the action    *)
(* property of Turns.                                                      *)
(***************************************************************************)
EXTENDS Turns, FiniteSetTheorems, SequenceTheorems, TLAPS

Phases == HoldsSlot \union {"new", "line", "slot", "over"}

\* What the rest speaks of is there: the scenario, a phase and a session object
\* of each turn.
Shape ==
  /\ given \in Scenarios
  /\ phase \in [Turns -> Phases]
  /\ DOMAIN activeTurns \subseteq Turns
  /\ \A t \in DOMAIN activeTurns : activeTurns[t] \in [chat : Chats, aborted : BOOLEAN]
  /\ object \in [Turns -> {"IDLE", "WORKING", "RESPONDING"}]
  /\ mine \in [Turns -> Turns \union {NoTurn}]

\* Turns arrive in their order; those of a user wait in line and for a place,
\* and one past the line is alone in its chat.
Line ==
  /\ \A t \in Turns : phase[t] # "new" => t \in Given
  /\ \A t \in Given : phase[t] \in {"line", "slot", "granted"} => ~Scheduled(t)
  /\ \A t, u \in Given : u < t /\ phase[t] # "new" => phase[u] # "new"
  /\ \A t, u \in Given :
       /\ u < t /\ Chat(u) = Chat(t) /\ ~Scheduled(u) /\ ~Scheduled(t)
       /\ phase[t] \notin {"new", "line"}
       => phase[u] = "over"

\* Nobody is twice in the queue for a place, and no place is beyond the limit.
InQueue ==
  /\ slotQueue \in Seq(Given)
  /\ \A i \in 1 .. Len(slotQueue) : phase[slotQueue[i]] = "slot"
  /\ \A i, j \in 1 .. Len(slotQueue) : slotQueue[i] = slotQueue[j] => i = j
  /\ \A t \in Turns : phase[t] = "slot" => \E i \in 1 .. Len(slotQueue) : slotQueue[i] = t

Holders == {t \in Given : ~Scheduled(t) /\ phase[t] \in HoldsSlot}
Places ==
  /\ slots \in Nat /\ slots = Cardinality(Holders) /\ slots <= given.limit
  /\ slotQueue # <<>> => slots = given.limit

\* The registry, with the chat each turn is registered under.
Registry ==
  /\ \A t \in Turns : t \in DOMAIN activeTurns <=> phase[t] \in Registered
  /\ \A t \in DOMAIN activeTurns : activeTurns[t].chat = Chat(t)
  /\ \A k \in DOMAIN activeTurnByChat :
       /\ activeTurnByChat[k] \in DOMAIN activeTurns
       /\ k \in KeysOf(Chat(activeTurnByChat[k]))
  /\ DOMAIN pendingByTurn \subseteq DOMAIN activeTurns

\* A chat's controller is that of its user's turn at work.
Controlling == {t \in Given : ~Scheduled(t) /\ phase[t] \in Registered \union {"closing"}}
Controllers ==
  /\ \A c \in DOMAIN controllers :
       Chat(controllers[c]) = c /\ controllers[c] \in Controlling
  /\ \A t \in Controlling : Chat(t) \in DOMAIN controllers /\ controllers[Chat(t)] = t

\* An object is in use in the chat of the turn that created it, not before that
\* turn is in, and WORKING for one turn at a time.
Objects ==
  /\ \A c \in DOMAIN sessions : sessions[c] \in Given /\ Chat(sessions[c]) = c
  /\ \A t \in Turns : phase[t] \in Registered => mine[t] \in Given /\ Chat(mine[t]) = Chat(t)
  /\ \A t \in Turns : phase[t] \in {"new", "line", "slot", "granted"} =>
       (\A c \in DOMAIN sessions : sessions[c] # t) /\ (\A u \in Turns : mine[u] # t)
  /\ SessionsMatchTurns

IInv == Shape /\ Line /\ InQueue /\ Places /\ Registry /\ Controllers /\ Objects

-----------------------------------------------------------------------------
(* The steps, by what they do to these.                                     *)
Entering(t) == phase[t] = "granted" \/ (Arrives(t) /\ Scheduled(t))

Working(t, o) ==
  /\ Entering(t)
  /\ \/ o = t
     \/ Chat(t) \in DOMAIN sessions /\ o = sessions[Chat(t)] /\ object[o] # "WORKING"
  /\ sessions' = With(sessions, {Chat(t)}, o)
  /\ object' = [object EXCEPT ![o] = "WORKING"]
  /\ mine' = [mine EXCEPT ![t] = o]
  /\ phase' = [phase EXCEPT ![t] = "thinking"]
  /\ controllers' = Controlled(t)
  /\ RegisterRunningTurn(t, Chat(t))
  /\ UNCHANGED <<slots, slotQueue>>

Refused(t) ==
  /\ Entering(t)
  /\ \/ LetGo(t)
     \/ /\ ~Scheduled(t)
        /\ phase' = [phase EXCEPT ![t] = "closing"]
        /\ controllers' = Controlled(t)
        /\ UNCHANGED <<slots, slotQueue>>
  /\ UNCHANGED <<sessionVars, registryVars>>

Moving(t, p) ==
  /\ phase[t] \in Thinking /\ p \in Thinking
  /\ phase' = [phase EXCEPT ![t] = p]
  /\ UNCHANGED <<slots, slotQueue, controllers, sessionVars, registryVars>>

Sending(t) ==
  /\ phase[t] \in Thinking
  /\ phase' = [phase EXCEPT ![t] = "sending"]
  /\ object' = [object EXCEPT ![mine[t]] = "RESPONDING"]
  /\ UNCHANGED <<slots, slotQueue, controllers, sessions, mine, registryVars>>

EndingSession(t) ==
  \/ /\ phase[t] \in Thinking \/ object[mine[t]] = "RESPONDING"
     /\ object' = [object EXCEPT ![mine[t]] = "IDLE"]
     /\ UNCHANGED <<sessions, mine>>
  \/ /\ sessions' = Without(sessions, {Chat(t)})
     /\ UNCHANGED <<object, mine>>

Ending(t) ==
  /\ phase[t] \in Registered
  /\ FinishRunningTurn(t)
  /\ Returned(t)
  /\ EndingSession(t)

Closed(t) ==
  /\ phase[t] = "closing"
  /\ LetGo(t)
  /\ UNCHANGED <<sessionVars, registryVars>>

Noting ==
  /\ DOMAIN activeTurns' = DOMAIN activeTurns
  /\ \A t \in DOMAIN activeTurns :
       /\ activeTurns'[t].chat = activeTurns[t].chat
       /\ activeTurns'[t] \in [chat : Chats, aborted : BOOLEAN]
  /\ DOMAIN pendingByTurn' \subseteq DOMAIN pendingByTurn \union DOMAIN activeTurns
  /\ sessions' = sessions \/ \E c \in Chats : sessions' = Without(sessions, {c})
  /\ UNCHANGED <<queueVars, object, mine, activeTurnByChat>>

TurnForm(t) ==
  \/ Arrive(t) \/ AcquireUserTurnSlot(t)
  \/ \E o \in Turns : Working(t, o)
  \/ Refused(t)
  \/ \E p \in Thinking : Moving(t, p)
  \/ Sending(t) \/ Ending(t) \/ Closed(t)

\* Steps for a turn that do not move it.
Reaching(t) ==
  \/ DrainSteers(t) \/ RequestTurnCancellation(t)
  \/ \E why \in {"cancel", "timeout"} : AbortFromCaller(t, why)
  \/ \E k \in Calls : Ask(k) \/ DecideOrTimeOut(k)

Form == (\E t \in Given : TurnForm(t)) \/ Noting \/ Restart

-----------------------------------------------------------------------------
\* The turns of a scenario are numbered from one, finitely many, each with a
\* chat; its limit is positive.
LEMMA Scenario ==
  ASSUME given \in Scenarios
  PROVE  /\ Given \subseteq Turns /\ Given \subseteq Nat /\ IsFiniteSet(Given)
         /\ \A t \in Given : Chat(t) \in Chats /\ Scheduled(t) \in BOOLEAN
         /\ given.limit \in Nat \ {0}
<1>1. /\ given.turns \in Seq([chat : Chats, scheduled : BOOLEAN])
      /\ Given \subseteq Turns /\ Turns \subseteq Nat /\ given.limit \in Nat \ {0}
  BY TurnsAssumption DEF Given
<1>2. /\ Given = 1 .. Len(given.turns) /\ Len(given.turns) \in Nat
      /\ \A t \in 1 .. Len(given.turns) : given.turns[t] \in [chat : Chats, scheduled : BOOLEAN]
  BY <1>1, LenProperties, ElementOfSeq DEF Given
<1>3. IsFiniteSet(Given)
  BY <1>2, FS_Interval
<1> QED
  BY <1>1, <1>2, <1>3 DEF Chat, Scheduled

\* A turn comes in on an object there is.
LEMMA EnterForms ==
  ASSUME IInv, NEW t \in Given, Enter(t)
  PROVE  (\E o \in Turns : Working(t, o)) \/ Refused(t)
<1>1. Entering(t)
  BY DEF Enter, Entering
<1>2. t \in Turns /\ Chat(t) \in Chats
  BY Scenario DEF IInv, Shape
<1>3. CASE object[Session(t)] # "WORKING" /\ WorkOn(t, Session(t))
  <2>1. CASE Chat(t) \in DOMAIN sessions
    <3>1. sessions[Chat(t)] \in Turns
      BY <2>1, Scenario DEF IInv, Shape, Objects
    <3>2. Working(t, sessions[Chat(t)])
      BY <1>1, <1>3, <2>1 DEF Working, Session, WorkOn
    <3> QED
      BY <3>1, <3>2
  <2>2. CASE Chat(t) \notin DOMAIN sessions
    <3>1. Working(t, t)
      BY <1>1, <1>3, <2>2 DEF Working, Session, WorkOn
    <3> QED
      BY <1>2, <3>1
  <2> QED
    BY <2>1, <2>2
<1>4. CASE RejectBusy(t)
  BY <1>1, <1>4 DEF RejectBusy, Refused, HasOutput
<1>5. CASE WorkOn(t, t)
  <2>1. Working(t, t)
    BY <1>1, <1>5 DEF Working, WorkOn
  <2> QED
    BY <1>2, <2>1
<1> QED
  BY <1>3, <1>4, <1>5 DEF Enter

\* However the handler ends, the turn is let go the same way.
LEMMA CatchEnds ==
  ASSUME NEW t, phase[t] \in Registered, NEW state, NEW status, Catch(t, state, status)
  PROVE  Ending(t)
BY DEF Catch, Ending, EndingSession

\* So does an error that is thrown, under an aborted signal or not.
LEMMA ThrownEnds ==
  ASSUME NEW t, phase[t] \in Registered, CatchError(t) \/ CatchThrown(t)
  PROVE  Ending(t)
BY CatchEnds DEF CatchError, CatchThrown, CatchAbort

\* The handler answers through its channel first, or ends.
LEMMA HandlerForms ==
  ASSUME NEW t,
         \/ \E failed \in BOOLEAN : BrainAnswers(t, failed)
         \/ AbortSettles(t) \/ SendSettles(t) \/ SendFails(t) \/ TurnFails(t)
  PROVE  Sending(t) \/ Ending(t)
<1>1. ASSUME NEW failed \in BOOLEAN, BrainAnswers(t, failed) PROVE Sending(t) \/ Ending(t)
  <2>1. phase[t] \in Thinking /\ phase[t] \in Registered
    BY <1>1 DEF BrainAnswers, Thinking, Registered
  <2>2. CASE HasOutput(t)
    BY <1>1, <2>1, <2>2 DEF BrainAnswers, Sending
  <2>3. CASE ~HasOutput(t)
    BY <1>1, <2>1, <2>3 DEF BrainAnswers, Complete, Ending, EndingSession
  <2> QED
    BY <2>2, <2>3
<1>2. CASE AbortSettles(t)
  BY <1>2, CatchEnds DEF AbortSettles, CatchAbort, Registered
<1>3. CASE SendSettles(t)
  <2>1. phase[t] \in Registered
    BY <1>3 DEF SendSettles, Registered
  <2>2. CASE object[mine[t]] = "RESPONDING"
    BY <1>3, <2>1, <2>2 DEF SendSettles, Complete, Ending, EndingSession
  <2>3. CASE object[mine[t]] # "RESPONDING"
    BY <1>3, <2>1, <2>3, ThrownEnds DEF SendSettles
  <2> QED
    BY <2>2, <2>3
<1>4. CASE SendFails(t)
  BY <1>4, ThrownEnds DEF SendFails, Registered
<1>5. CASE TurnFails(t)
  BY <1>5, ThrownEnds DEF TurnFails, Registered, Thinking
<1> QED
  BY <1>1, <1>2, <1>3, <1>4, <1>5

\* Aborts, steers, approvals and the sweep move no turn.
LEMMA OutsideForms ==
  ASSUME IInv,
         \/ \E t \in Given : \/ DrainSteers(t) \/ RequestTurnCancellation(t)
                             \/ \E why \in {"cancel", "timeout"} : AbortFromCaller(t, why)
         \/ \E k \in Calls : Ask(k) \/ DecideOrTimeOut(k)
         \/ \E c \in Chats : Steer(c) \/ SweepSession(c)
         \/ DrainActiveTurns
         \/ UNCHANGED vars
  PROVE  Noting /\ given' = given
<1> USE DEF IInv, Shape, queueVars, sessionVars, registryVars, Noting
<1>0. ASSUME NEW ts, AbortRegistered(ts)
      PROVE  /\ DOMAIN activeTurns' = DOMAIN activeTurns
             /\ \A t \in DOMAIN activeTurns :
                  /\ activeTurns'[t].chat = activeTurns[t].chat
                  /\ activeTurns'[t] \in [chat : Chats, aborted : BOOLEAN]
  <2>1. activeTurns' = [t \in DOMAIN activeTurns |->
                         IF t \in ts THEN [activeTurns[t] EXCEPT !.aborted = TRUE]
                         ELSE activeTurns[t]]
    BY <1>0 DEF AbortRegistered
  <2>2. \A t \in DOMAIN activeTurns :
          /\ [activeTurns[t] EXCEPT !.aborted = TRUE].chat = activeTurns[t].chat
          /\ [activeTurns[t] EXCEPT !.aborted = TRUE] \in [chat : Chats, aborted : BOOLEAN]
    OBVIOUS
  <2> QED
    BY <2>1, <2>2
<1>1. ASSUME NEW t, DrainSteers(t) PROVE Noting /\ given' = given
  BY <1>1 DEF DrainSteers, DrainSteer, Without
<1>2. ASSUME NEW t, RequestTurnCancellation(t) PROVE Noting /\ given' = given
  BY <1>2, <1>0 DEF RequestTurnCancellation, Abort, AbortRegistered
<1>3. ASSUME NEW t, NEW why, AbortFromCaller(t, why) PROVE Noting /\ given' = given
  BY <1>3 DEF AbortFromCaller, Abort
<1>4. ASSUME NEW k, Ask(k) \/ DecideOrTimeOut(k) PROVE Noting /\ given' = given
  BY <1>4 DEF Ask, DecideOrTimeOut
<1>5. ASSUME NEW c, Steer(c) PROVE Noting /\ given' = given
  BY <1>5 DEF Steer, EnqueueSteer, ActiveTurnForChat, With
<1>6. ASSUME NEW c \in Chats, SweepSession(c) PROVE Noting /\ given' = given
  BY <1>6 DEF SweepSession
<1>7. CASE DrainActiveTurns
  BY <1>7, <1>0 DEF DrainActiveTurns, Abort, AbortRegistered
<1>8. CASE UNCHANGED vars
  BY <1>8 DEF vars
<1> QED
  BY <1>1, <1>2, <1>3, <1>4, <1>5, <1>6, <1>7, <1>8

\* Every step of a turn has one of the forms, or reaches it from
\* outside.
LEMMA MovingForms ==
  ASSUME IInv, NEW t \in Given, TurnStep(t) \/ OtherStep(t)
  PROVE  (TurnForm(t) /\ UNCHANGED <<given, reason, restarts>>) \/ Reaching(t)
<1>1. CASE Arrive(t) \/ AcquireUserTurnSlot(t)
  BY <1>1 DEF TurnForm, Arrive, AcquireUserTurnSlot
<1>2. CASE Enter(t)
  BY <1>2, EnterForms DEF TurnForm, Enter
<1>3. CASE Reaching(t)
  BY <1>3
<1>4. CASE ToolsDone(t)
  <2>1. Moving(t, "thinking")
    BY <1>4 DEF ToolsDone, Moving, Thinking
  <2> QED
    BY <1>4, <2>1 DEF TurnForm, ToolsDone, Thinking
<1>5. CASE BudgetElapses(t)
  <2>1. Moving(t, "ending")
    BY <1>5 DEF BudgetElapses, Moving, Thinking
  <2> QED
    BY <1>5, <2>1 DEF TurnForm, BudgetElapses, Thinking
<1>6. CASE \E ks \in SUBSET given.calls : CallTools(t, ks)
  <2>1. Moving(t, "tools") /\ UNCHANGED <<given, reason, restarts>>
    BY <1>6 DEF CallTools, Moving, Thinking
  <2> QED
    BY <2>1 DEF TurnForm, Thinking
<1>7. CASE \/ \E failed \in BOOLEAN : BrainAnswers(t, failed)
           \/ AbortSettles(t) \/ SendSettles(t) \/ SendFails(t) \/ TurnFails(t)
  <2>1. UNCHANGED <<given, reason, restarts>>
    BY <1>7 DEF BrainAnswers, AbortSettles, SendSettles, SendFails, TurnFails
  <2> QED
    BY <1>7, <2>1, HandlerForms DEF TurnForm
<1>8. CASE CleanupDone(t)
  BY <1>8 DEF TurnForm, CleanupDone, Closed
<1> QED
  BY <1>1, <1>2, <1>3, <1>4, <1>5, <1>6, <1>7, <1>8
  DEF TurnStep, PromptStep, OwnStep, OtherStep, Reaching

\* What reaches a turn from outside moves none.
LEMMA TurnForms ==
  ASSUME IInv, NEW t \in Given, TurnStep(t) \/ OtherStep(t)
  PROVE  (TurnForm(t) \/ Noting) /\ given' = given
BY MovingForms, OutsideForms DEF Reaching

\* Every step is a turn's, leaves the turns where they are, or ends the process.
LEMMA StepForms ==
  ASSUME IInv, [Next]_vars
  PROVE  Form /\ given' = given
<1>1. ASSUME NEW t \in Given, TurnStep(t) \/ OtherStep(t) PROVE Form /\ given' = given
  BY <1>1, TurnForms DEF Form
<1>2. CASE (\E c \in Chats : Steer(c) \/ SweepSession(c)) \/ DrainActiveTurns \/ UNCHANGED vars
  BY <1>2, OutsideForms DEF Form
<1>3. CASE Restart
  BY <1>3 DEF Restart, Form
<1> QED
  BY <1>1, <1>2, <1>3 DEF Next

-----------------------------------------------------------------------------
(* What the steps do to phases, places and controllers.                     *)

\* The turn that steps goes forward; of the others one may get a place.
Forward(t) ==
  /\ phase' \in [Turns -> Phases]
  /\ \A u \in Turns \ {t} : \/ phase'[u] = phase[u]
                            \/ phase[u] = "slot" /\ phase'[u] = "granted"
  /\ phase'[t] # "new"
  /\ phase'[t] \in {"line", "slot", "granted"} => ~Scheduled(t)
  /\ phase[t] = "new" => Arrives(t)
  /\ phase[t] \in {"new", "line"} /\ phase'[t] \notin {"new", "line"} /\ ~Scheduled(t)
       => HeadOfLine(t)
  /\ phase[t] = "over" => phase'[t] = "over"

\* Turns that go forward keep their order.
LEMMA LineKept ==
  ASSUME Shape, Line, given' = given, NEW t \in Given, Forward(t)
  PROVE  Line'
<1> USE DEF Given, Chat, Scheduled
<1>0. Given \subseteq Turns /\ Given \subseteq Nat
  BY Scenario DEF Shape
<1>1. (\A u \in Turns : phase[u] # "new" => u \in Given)'
  BY DEF Line, Forward
<1>2. (\A u \in Given : phase[u] \in {"line", "slot", "granted"} => ~Scheduled(u))'
  BY <1>0 DEF Line, Forward
<1>3. (\A u, v \in Given : v < u /\ phase[u] # "new" => phase[v] # "new")'
  <2> SUFFICES ASSUME NEW u \in Given, NEW v \in Given, v < u, phase'[u] # "new"
               PROVE  phase'[v] # "new"
    OBVIOUS
  <2>1. phase[u] # "new" => phase[v] # "new"
    BY DEF Line
  <2>2. CASE phase[u] # "new"
    BY <1>0, <2>1, <2>2 DEF Forward
  <2>3. CASE phase[u] = "new"
    BY <1>0, <2>3 DEF Forward, Arrives
  <2> QED
    BY <2>2, <2>3
<1>4. (\A u, v \in Given :
         /\ v < u /\ Chat(v) = Chat(u) /\ ~Scheduled(v) /\ ~Scheduled(u)
         /\ phase[u] \notin {"new", "line"}
         => phase[v] = "over")'
  <2> SUFFICES ASSUME NEW u \in Given, NEW v \in Given,
                      v < u, Chat(v) = Chat(u), ~Scheduled(v), ~Scheduled(u),
                      phase'[u] \notin {"new", "line"}
               PROVE  phase'[v] = "over"
    OBVIOUS
  <2>1. phase[u] \notin {"new", "line"} => phase[v] = "over"
    BY DEF Line
  <2>2. phase[v] = "over"
    <3>1. CASE phase[u] \notin {"new", "line"}
      BY <2>1, <3>1
    <3>2. CASE phase[u] \in {"new", "line"}
      <4>1. u = t
        BY <1>0, <3>2 DEF Forward
      <4> QED
        BY <3>2, <4>1 DEF Forward, HeadOfLine
    <3> QED
      BY <3>1, <3>2
  <2> QED
    BY <1>0, <2>2 DEF Forward
<1> QED
  BY <1>1, <1>2, <1>3, <1>4 DEF Line

\* Who has a place and who waits for one stays the same.
SamePlaces ==
  /\ UNCHANGED <<slots, slotQueue>>
  /\ \A u \in Turns : phase'[u] = "slot" <=> phase[u] = "slot"
  /\ \A u \in Given : ~Scheduled(u) => (phase'[u] \in HoldsSlot <=> phase[u] \in HoldsSlot)

\* The books of the places stay right where nobody takes or leaves one.
LEMMA PlacesKept ==
  ASSUME Shape, InQueue, Places, given' = given, SamePlaces
  PROVE  InQueue' /\ Places'
<1> USE DEF SamePlaces
<1>0. Given' = Given /\ Given \subseteq Turns
  BY Scenario DEF Given, Shape
<1>1. Holders' = Holders
  BY <1>0 DEF Holders, Scheduled, HoldsSlot, Registered, Thinking
<1>2. InQueue'
  BY <1>0, ElementOfSeq DEF InQueue
<1>3. Places'
  BY <1>1 DEF Places
<1> QED
  BY <1>2, <1>3

\* A turn past the line gets a place, or the end of the queue.
LEMMA PlaceTaken ==
  ASSUME IInv, given' = given, NEW t \in Given, AcquireUserTurnSlot(t)
  PROVE  Forward(t) /\ InQueue' /\ Places'
<1> USE DEF IInv
<1>0. /\ Given' = Given /\ Given \subseteq Turns /\ t \in Turns /\ IsFiniteSet(Given)
      /\ given.limit \in Nat \ {0}
  BY Scenario DEF Given, Shape
<1>1. phase[t] = "line" /\ ~Scheduled(t) /\ HeadOfLine(t)
  BY DEF AcquireUserTurnSlot, Line
<1>2. IsFiniteSet(Holders) /\ t \notin Holders
  BY <1>0, <1>1, FS_Subset DEF Holders, HoldsSlot, Registered, Thinking
<1>3. CASE slots < given.limit /\ slotQueue = <<>>
  <2>1. /\ slots' = slots + 1 /\ slotQueue' = slotQueue
        /\ phase' = [phase EXCEPT ![t] = "granted"]
    BY <1>3 DEF AcquireUserTurnSlot
  <2>2. Forward(t)
    BY <1>0, <1>1, <2>1 DEF Forward, Shape, Phases, HoldsSlot
  <2>3. InQueue'
    BY <1>0, <1>1, <1>3, <2>1 DEF InQueue, Shape
  <2>4. Holders' = Holders \union {t}
    BY <1>0, <1>1, <2>1 DEF Holders, Scheduled, HoldsSlot, Shape
  <2>5. Places'
    <3>1. Cardinality(Holders') = Cardinality(Holders) + 1
      BY <1>2, <2>4, FS_AddElement
    <3>2. slots' = slots + 1 /\ slotQueue' = <<>> /\ slots < given.limit
      BY <1>3, <2>1
    <3> QED
      BY <1>0, <3>1, <3>2 DEF Places
  <2> QED
    BY <2>2, <2>3, <2>5
<1>4. CASE ~(slots < given.limit /\ slotQueue = <<>>)
  <2>1. /\ slots' = slots /\ slotQueue' = Append(slotQueue, t)
        /\ phase' = [phase EXCEPT ![t] = "slot"]
    BY <1>4 DEF AcquireUserTurnSlot
  <2>2. Forward(t)
    BY <1>0, <1>1, <2>1 DEF Forward, Shape, Phases
  <2>3. InQueue'
    <3>1. /\ slotQueue \in Seq(Given) /\ slotQueue' \in Seq(Given)
          /\ Len(slotQueue') = Len(slotQueue) + 1 /\ slotQueue'[Len(slotQueue) + 1] = t
          /\ \A i \in 1 .. Len(slotQueue) : slotQueue'[i] = slotQueue[i]
          /\ Len(slotQueue) \in Nat
      BY <2>1, AppendProperties, LenProperties DEF InQueue
    <3>2. \A i \in 1 .. Len(slotQueue) : slotQueue[i] # t /\ slotQueue[i] \in Turns
      BY <1>0, <1>1, <3>1, ElementOfSeq DEF InQueue
    <3>3. \A i \in 1 .. Len(slotQueue') : i \in 1 .. Len(slotQueue) \/ i = Len(slotQueue) + 1
      BY <3>1
    <3>4. (\A i \in 1 .. Len(slotQueue) : phase[slotQueue[i]] = "slot")'
      BY <1>0, <2>1, <3>1, <3>2, <3>3 DEF InQueue, Shape
    <3>5. (\A i, j \in 1 .. Len(slotQueue) : slotQueue[i] = slotQueue[j] => i = j)'
      BY <3>1, <3>2, <3>3 DEF InQueue
    <3>6. (\A u \in Turns : phase[u] = "slot" => \E i \in 1 .. Len(slotQueue) : slotQueue[i] = u)'
      <4> SUFFICES ASSUME NEW u \in Turns, phase'[u] = "slot"
                   PROVE  \E i \in 1 .. Len(slotQueue') : slotQueue'[i] = u
        OBVIOUS
      <4>1. CASE u = t
        BY <3>1, <4>1
      <4>2. CASE u # t
        <5>1. phase[u] = "slot"
          BY <2>1, <4>2 DEF Shape
        <5>2. PICK i \in 1 .. Len(slotQueue) : slotQueue[i] = u
          BY <5>1 DEF InQueue
        <5> QED
          BY <3>1, <5>2
      <4> QED
        BY <4>1, <4>2
    <3> QED
      BY <1>0, <3>1, <3>4, <3>5, <3>6 DEF InQueue
  <2>4. Holders' = Holders
    BY <1>0, <1>1, <2>1 DEF Holders, Scheduled, HoldsSlot, Registered, Thinking, Shape
  <2>5. slots = given.limit
    BY <1>0, <1>4 DEF Places
  <2>6. Places'
    BY <2>1, <2>4, <2>5 DEF Places
  <2> QED
    BY <2>2, <2>3, <2>6
<1> QED
  BY <1>3, <1>4

\* The controllers of a turn, and no others, go with it.
Uncontrolled(t) ==
  \A c : /\ c \in DOMAIN controllers' <=> c \in DOMAIN controllers /\ controllers[c] # t
         /\ c \in DOMAIN controllers' => controllers'[c] = controllers[c]

\* A turn that is let go is over, and its place is passed on or given up.
LEMMA PlaceLetGo ==
  ASSUME IInv, given' = given, NEW t \in Given, LetGo(t),
         phase[t] \in HoldsSlot \/ Entering(t)
  PROVE  /\ phase'[t] = "over" /\ Forward(t)
         /\ InQueue' /\ Places' /\ Uncontrolled(t)
<1> USE DEF IInv
<1>0. /\ Given' = Given /\ Given \subseteq Turns /\ t \in Turns /\ IsFiniteSet(Given)
      /\ given.limit \in Nat \ {0}
  BY Scenario DEF Given, Shape
<1>1. phase[t] \notin {"line", "slot", "over"} /\ (phase[t] = "new" => Arrives(t) /\ Scheduled(t))
  BY DEF Entering, Arrives, HoldsSlot, Registered, Thinking
<1>2. IsFiniteSet(Holders) /\ Cardinality(Holders) \in Nat
  <2>1. Holders \subseteq Given
    BY DEF Holders
  <2> QED
    BY <1>0, <2>1, FS_Subset, FS_CardinalityType
<1>3. CASE Scheduled(t)
  <2>1. phase' = [phase EXCEPT ![t] = "over"] /\ UNCHANGED <<slots, slotQueue, controllers>>
    BY <1>3 DEF LetGo
  <2>2. phase'[t] = "over" /\ Forward(t)
    BY <1>0, <1>1, <1>3, <2>1 DEF Forward, Shape, Phases
  <2>3. SamePlaces
    BY <1>0, <1>1, <1>3, <2>1 DEF SamePlaces, Shape
  <2>4. Uncontrolled(t)
    BY <1>3, <2>1 DEF Uncontrolled, Controllers, Controlling
  <2> QED
    BY <2>2, <2>3, <2>4, PlacesKept
<1>4. CASE ~Scheduled(t)
  <2>1. /\ ReleaseUserTurnSlot
        /\ controllers' = Without(controllers, {c \in DOMAIN controllers : controllers[c] = t})
        /\ phase' = [u \in Turns |-> IF u = t THEN "over"
                                     ELSE IF Resumed(u) THEN "granted" ELSE phase[u]]
    BY <1>4 DEF LetGo
  <2>2. Uncontrolled(t)
    BY <2>1 DEF Uncontrolled, Without
  <2>3. t \in Holders
    BY <1>1, <1>4 DEF Holders, Entering, HoldsSlot
  <2>4. CASE slotQueue = <<>>
    <3>1. /\ slots' = slots - 1 /\ slotQueue' = slotQueue
          /\ phase' = [phase EXCEPT ![t] = "over"]
      BY <2>1, <2>4 DEF ReleaseUserTurnSlot, Resumed, Shape
    <3>2. phase'[t] = "over" /\ Forward(t)
      BY <1>0, <1>1, <1>4, <3>1 DEF Forward, Shape, Phases
    <3>3. InQueue'
      BY <1>0, <2>4, <3>1 DEF InQueue, Shape
    <3>4. Holders' = Holders \ {t}
      BY <1>0, <3>1 DEF Holders, Scheduled, HoldsSlot, Registered, Thinking, Shape
    <3>5. /\ Cardinality(Holders') = Cardinality(Holders) - 1
          /\ Cardinality(Holders') \in Nat
      BY <1>2, <2>3, <3>4, FS_RemoveElement, FS_CardinalityType
    <3>6. Places'
      BY <1>0, <1>2, <2>4, <3>1, <3>5 DEF Places
    <3> QED
      BY <2>2, <3>2, <3>3, <3>6
  <2>5. CASE slotQueue # <<>>
    <3> DEFINE h == Head(slotQueue)
    <3>1. /\ slotQueue \in Seq(Given) /\ Len(slotQueue) \in Nat \ {0}
          /\ h = slotQueue[1] /\ h \in Given /\ phase[h] = "slot"
      BY <2>5, EmptySeq, HeadTailProperties, ElementOfSeq DEF InQueue
    <3>2. h # t /\ ~Scheduled(h) /\ h \in Turns
      BY <1>0, <1>1, <3>1 DEF Line
    <3>3. /\ slots' = slots /\ slotQueue' = Tail(slotQueue)
          /\ \A u \in Turns : phase'[u] = IF u = t THEN "over"
                                          ELSE IF u = h THEN "granted" ELSE phase[u]
          /\ phase' \in [Turns -> Phases]
      <4>1. slots' = slots /\ slotQueue' = Tail(slotQueue)
        BY <2>1, <2>5 DEF ReleaseUserTurnSlot
      <4>2. \A u \in Turns : phase'[u] = IF u = t THEN "over"
                                         ELSE IF u = h THEN "granted" ELSE phase[u]
        <5>1. \A u : Resumed(u) <=> u = h
          BY <2>5 DEF Resumed
        <5> HIDE DEF h
        <5> QED
          BY <2>1, <5>1
      <4>3. \A u \in Turns : phase'[u] \in Phases
        BY <4>2 DEF Shape, Phases, HoldsSlot
      <4>4. phase' = [u \in Turns |-> phase'[u]]
        BY <2>1
      <4> QED
        BY <4>1, <4>2, <4>3, <4>4
    <3>4. phase'[t] = "over" /\ Forward(t)
      BY <1>0, <1>1, <1>4, <3>1, <3>2, <3>3 DEF Forward
    <3>5. /\ slotQueue' \in Seq(Given) /\ Len(slotQueue') = Len(slotQueue) - 1
          /\ \A i \in 1 .. Len(slotQueue') : slotQueue'[i] = slotQueue[i + 1]
      BY <2>5, <3>1, <3>3, HeadTailProperties
    <3>6. \A i \in 1 .. Len(slotQueue') :
            /\ i + 1 \in 1 .. Len(slotQueue) /\ i + 1 # 1
            /\ slotQueue'[i] \in Turns /\ phase[slotQueue'[i]] = "slot"
            /\ slotQueue'[i] # t /\ slotQueue'[i] # h
      <4> SUFFICES ASSUME NEW i \in 1 .. Len(slotQueue')
                   PROVE  /\ i + 1 \in 1 .. Len(slotQueue) /\ i + 1 # 1
                          /\ slotQueue'[i] \in Turns /\ phase[slotQueue'[i]] = "slot"
                          /\ slotQueue'[i] # t /\ slotQueue'[i] # h
        OBVIOUS
      <4>1. i + 1 \in 1 .. Len(slotQueue) /\ i + 1 # 1 /\ 1 \in 1 .. Len(slotQueue)
        BY <3>1, <3>5
      <4>2. slotQueue'[i] = slotQueue[i + 1] /\ slotQueue[i + 1] \in Given
        BY <3>1, <3>5, <4>1, ElementOfSeq
      <4>3. phase[slotQueue[i + 1]] = "slot" /\ slotQueue[i + 1] # slotQueue[1]
        BY <4>1 DEF InQueue
      <4> QED
        BY <1>0, <1>1, <3>1, <4>1, <4>2, <4>3
    <3>7. InQueue'
      <4>1. (\A i \in 1 .. Len(slotQueue) : phase[slotQueue[i]] = "slot")'
        BY <3>3, <3>6
      <4>2. (\A i, j \in 1 .. Len(slotQueue) : slotQueue[i] = slotQueue[j] => i = j)'
        <5> SUFFICES ASSUME NEW i \in 1 .. Len(slotQueue'), NEW j \in 1 .. Len(slotQueue'),
                            slotQueue'[i] = slotQueue'[j]
                     PROVE  i = j
          OBVIOUS
        <5>1. i + 1 \in 1 .. Len(slotQueue) /\ j + 1 \in 1 .. Len(slotQueue)
          BY <3>6
        <5>2. slotQueue[i + 1] = slotQueue[j + 1]
          BY <3>5
        <5>3. i + 1 = j + 1
          BY <5>1, <5>2 DEF InQueue
        <5> QED
          BY <3>1, <3>5, <5>3
      <4>3. (\A u \in Turns : phase[u] = "slot" => \E i \in 1 .. Len(slotQueue) : slotQueue[i] = u)'
        <5> SUFFICES ASSUME NEW u \in Turns, phase'[u] = "slot"
                     PROVE  \E i \in 1 .. Len(slotQueue') : slotQueue'[i] = u
          OBVIOUS
        <5>1. u # t /\ u # h /\ phase[u] = "slot"
          BY <3>3
        <5>2. PICK i \in 1 .. Len(slotQueue) : slotQueue[i] = u
          BY <5>1 DEF InQueue
        <5>3. i - 1 \in 1 .. Len(slotQueue') /\ (i - 1) + 1 = i
          BY <3>1, <3>5, <5>1, <5>2
        <5> QED
          BY <3>5, <5>2, <5>3
      <4> QED
        BY <1>0, <3>5, <4>1, <4>2, <4>3 DEF InQueue
    <3>8. Holders' = (Holders \ {t}) \union {h}
      <4>1. h \notin Holders
        BY <3>1 DEF Holders, HoldsSlot, Registered, Thinking
      <4> HIDE DEF h
      <4>2. \A u \in Given : u \in Holders' <=> u = h \/ (u \in Holders /\ u # t)
        BY <1>0, <3>1, <3>2, <3>3 DEF Holders, Scheduled, HoldsSlot, Registered, Thinking
      <4>3. Holders' \subseteq Given /\ Holders \subseteq Given
        BY <1>0 DEF Holders
      <4> QED
        BY <3>1, <4>2, <4>3
    <3>9. Cardinality(Holders') = Cardinality(Holders)
      <4>1. h \notin Holders \ {t}
        BY <3>1 DEF Holders, HoldsSlot, Registered, Thinking
      <4>2. IsFiniteSet(Holders \ {t}) /\ Cardinality(Holders \ {t}) = Cardinality(Holders) - 1
        BY <1>2, <2>3, FS_RemoveElement
      <4>3. Cardinality((Holders \ {t}) \union {h}) = Cardinality(Holders \ {t}) + 1
        BY <4>1, <4>2, FS_AddElement
      <4> QED
        BY <1>2, <3>8, <4>2, <4>3
    <3>10. Places'
      BY <2>5, <3>3, <3>9 DEF Places
    <3> QED
      BY <2>2, <3>4, <3>7, <3>10
  <2> QED
    BY <2>4, <2>5
<1> QED
  BY <1>3, <1>4

\* Every step of a turn takes it forward and keeps the books of its places.
LEMMA QueueKept ==
  ASSUME IInv, given' = given, NEW t \in Given, TurnForm(t)
  PROVE  Forward(t) /\ InQueue' /\ Places'
<1> USE DEF IInv
<1>0. Given \subseteq Turns /\ t \in Turns
  BY Scenario DEF Shape
<1> DEFINE Steps(p) == phase' = [phase EXCEPT ![t] = p] /\ UNCHANGED <<slots, slotQueue>>
<1>1. CASE Arrive(t)
  <2>1. Steps("line") /\ Arrives(t) /\ ~Scheduled(t)
    BY <1>1 DEF Arrive
  <2>2. Forward(t) /\ SamePlaces
    BY <1>0, <2>1 DEF Forward, SamePlaces, Shape, Phases, HoldsSlot, Registered, Thinking, Arrives
  <2> QED
    BY <2>2, PlacesKept
<1>2. CASE AcquireUserTurnSlot(t)
  BY <1>2, PlaceTaken
<1>3. ASSUME Entering(t), NEW p \in {"thinking", "closing"}, Steps(p),
             p = "closing" => ~Scheduled(t)
      PROVE  Forward(t) /\ InQueue' /\ Places'
  <2>1. Forward(t)
    BY <1>0, <1>3 DEF Forward, Entering, Arrives, Shape, Phases, HoldsSlot, Registered, Thinking
  <2>2. SamePlaces
    BY <1>0, <1>3 DEF SamePlaces, Entering, Arrives, Shape, HoldsSlot, Registered, Thinking
  <2> QED
    BY <2>1, <2>2, PlacesKept
<1>4. ASSUME phase[t] \in Registered, NEW p \in Registered \union {"closing"}, Steps(p)
      PROVE  Forward(t) /\ InQueue' /\ Places'
  <2>1. Forward(t)
    BY <1>0, <1>4 DEF Forward, Shape, Phases, HoldsSlot, Registered, Thinking
  <2>2. SamePlaces
    BY <1>0, <1>4 DEF SamePlaces, Shape, HoldsSlot, Registered, Thinking
  <2> QED
    BY <2>1, <2>2, PlacesKept
<1>5. CASE \E o \in Turns : Working(t, o)
  BY <1>3, <1>5 DEF Working
<1>6. CASE Refused(t)
  BY <1>3, <1>6, PlaceLetGo DEF Refused
<1>7. CASE (\E p \in Thinking : Moving(t, p)) \/ Sending(t)
  BY <1>4, <1>7 DEF Moving, Sending, Registered
<1>8. CASE Ending(t)
  BY <1>4, <1>8, PlaceLetGo DEF Ending, Returned, HoldsSlot
<1>9. CASE Closed(t)
  BY <1>9, PlaceLetGo DEF Closed, HoldsSlot
<1> QED
  BY <1>1, <1>2, <1>5, <1>6, <1>7, <1>8, <1>9 DEF TurnForm

-----------------------------------------------------------------------------
(* Controllers.                                                             *)

SameControl ==
  /\ controllers' = controllers
  /\ \A u \in Given : ~Scheduled(u) =>
       (phase'[u] \in Registered \union {"closing"} <=> phase[u] \in Registered \union {"closing"})

\* Controllers stay right where nobody gets or loses one.
LEMMA ControlSame ==
  ASSUME Controllers, given' = given, SameControl
  PROVE  Controllers'
BY DEF Controllers, Controlling, SameControl, Given, Chat, Scheduled

\* A turn comes in when its chat's turn before is over, so its controller
\* replaces nobody's.
LEMMA ControlTaken ==
  ASSUME IInv, given' = given, NEW t \in Given, Entering(t),
         controllers' = Controlled(t),
         NEW p \in {"thinking", "closing"}, phase' = [phase EXCEPT ![t] = p]
  PROVE  Controllers'
<1> USE DEF IInv
<1>0. Given \subseteq Turns /\ Given \subseteq Nat /\ t \in Turns
  BY Scenario DEF Shape
<1>1. CASE Scheduled(t)
  <2>1. SameControl
    BY <1>0, <1>1 DEF SameControl, Controlled, Shape
  <2> QED
    BY <2>1, ControlSame
<1>2. CASE ~Scheduled(t)
  <2>1. phase[t] = "granted" /\ controllers' = With(controllers, {Chat(t)}, t)
    BY <1>2 DEF Entering, Controlled
  <2>2. \A u \in Given : u # t /\ Chat(u) = Chat(t) => u \notin Controlling
    <3> SUFFICES ASSUME NEW u \in Given, u # t, Chat(u) = Chat(t), u \in Controlling
                 PROVE  FALSE
      OBVIOUS
    <3>1. ~Scheduled(u) /\ phase[u] \notin {"new", "line", "over"}
      BY DEF Controlling, Registered, Thinking
    <3>2. u < t \/ t < u
      BY <1>0
    <3> QED
      BY <1>2, <2>1, <3>1, <3>2 DEF Line
  <2>3. Controlling' = Controlling \union {t} /\ Controlling \subseteq Given
    BY <1>0, <1>2, <2>1 DEF Controlling, Scheduled, Shape, Registered, Thinking, Given
  <2>4. /\ Chat(t) \in DOMAIN controllers' /\ controllers'[Chat(t)] = t
        /\ \A c : c # Chat(t) => /\ c \in DOMAIN controllers' <=> c \in DOMAIN controllers
                                 /\ c \in DOMAIN controllers => controllers'[c] = controllers[c]
        /\ \A c \in DOMAIN controllers' : c = Chat(t) \/ c \in DOMAIN controllers
    BY <2>1 DEF With
  <2>5. (\A c \in DOMAIN controllers :
           Chat(controllers[c]) = c /\ controllers[c] \in Controlling)'
    <3> SUFFICES ASSUME NEW c \in DOMAIN controllers'
                 PROVE  Chat(controllers'[c]) = c /\ controllers'[c] \in Controlling'
      BY DEF Given, Chat, Controlling, Scheduled
    <3>1. CASE c = Chat(t)
      BY <2>3, <2>4, <3>1
    <3>2. CASE c # Chat(t)
      BY <2>3, <2>4, <3>2 DEF Controllers
    <3> QED
      BY <3>1, <3>2
  <2>6. (\A u \in Controlling : Chat(u) \in DOMAIN controllers /\ controllers[Chat(u)] = u)'
    <3> SUFFICES ASSUME NEW u \in Controlling'
                 PROVE  Chat(u) \in DOMAIN controllers' /\ controllers'[Chat(u)] = u
      BY DEF Given, Chat
    <3>1. CASE u = t
      BY <2>4, <3>1
    <3>2. CASE u # t
      BY <2>2, <2>3, <2>4, <3>2 DEF Controllers
    <3> QED
      BY <3>1, <3>2
  <2> QED
    BY <2>5, <2>6 DEF Controllers
<1> QED
  BY <1>1, <1>2

\* A turn that is let go has no controller, and the others keep theirs.
LEMMA ControlLetGo ==
  ASSUME IInv, given' = given, NEW t \in Given, Forward(t), phase'[t] = "over", Uncontrolled(t)
  PROVE  Controllers'
<1> USE DEF IInv
<1>0. Given \subseteq Turns /\ t \in Turns
  BY Scenario DEF Shape
<1>1. Controlling' = Controlling \ {t} /\ Controlling \subseteq Given
  BY <1>0 DEF Controlling, Scheduled, Forward, Registered, Thinking, Given
<1>2. (\A c \in DOMAIN controllers :
         Chat(controllers[c]) = c /\ controllers[c] \in Controlling)'
  <2> SUFFICES ASSUME NEW c \in DOMAIN controllers'
               PROVE  Chat(controllers'[c]) = c /\ controllers'[c] \in Controlling'
    BY DEF Given, Chat, Controlling, Scheduled
  <2> QED
    BY <1>1 DEF Controllers, Uncontrolled
<1>3. (\A u \in Controlling : Chat(u) \in DOMAIN controllers /\ controllers[Chat(u)] = u)'
  <2> SUFFICES ASSUME NEW u \in Controlling'
               PROVE  Chat(u) \in DOMAIN controllers' /\ controllers'[Chat(u)] = u
    BY DEF Given, Chat
  <2> QED
    BY <1>1 DEF Controllers, Uncontrolled
<1> QED
  BY <1>2, <1>3 DEF Controllers

\* Every step of a turn keeps the controllers right.
LEMMA ControllersKept ==
  ASSUME IInv, given' = given, NEW t \in Given, TurnForm(t)
  PROVE  Controllers'
<1> USE DEF IInv
<1>0. Given \subseteq Turns /\ t \in Turns /\ Forward(t)
  BY Scenario, QueueKept DEF Shape
<1>1. CASE Arrive(t) \/ AcquireUserTurnSlot(t)
  <2>1. SameControl
    BY <1>0, <1>1 DEF SameControl, Arrive, Arrives, AcquireUserTurnSlot, Shape, Registered, Thinking
  <2> QED
    BY <2>1, ControlSame
<1>2. CASE \E o \in Turns : Working(t, o)
  BY <1>2, ControlTaken DEF Working
<1>3. ASSUME LetGo(t), phase[t] \in HoldsSlot \/ Entering(t) PROVE Controllers'
  BY <1>3, PlaceLetGo, ControlLetGo
<1>4. CASE Refused(t)
  BY <1>3, <1>4, ControlTaken DEF Refused
<1>5. ASSUME phase[t] \in Registered, NEW p \in Registered \union {"closing"},
             phase' = [phase EXCEPT ![t] = p], controllers' = controllers
      PROVE  Controllers'
  <2>1. SameControl
    BY <1>0, <1>5 DEF SameControl, Shape
  <2> QED
    BY <2>1, ControlSame
<1>6. CASE (\E p \in Thinking : Moving(t, p)) \/ Sending(t)
  BY <1>5, <1>6 DEF Moving, Sending, Registered
<1>7. CASE Ending(t)
  BY <1>3, <1>5, <1>7 DEF Ending, Returned, HoldsSlot
<1>8. CASE Closed(t)
  BY <1>3, <1>8 DEF Closed, HoldsSlot
<1> QED
  BY <1>1, <1>2, <1>4, <1>6, <1>7, <1>8 DEF TurnForm

-----------------------------------------------------------------------------
(* The registry.                                                            *)

\* Of whom the registry says nothing new.
SameRegistered == \A u \in Turns : phase'[u] \in Registered <=> phase[u] \in Registered

\* The registry stays right where nobody is registered or finished.
LEMMA RegistrySame ==
  ASSUME Registry, given' = given, SameRegistered, UNCHANGED registryVars
  PROVE  Registry'
BY DEF Registry, SameRegistered, registryVars, Chat

\* A turn that comes in is registered under its chat and its session.
LEMMA RegistryTaken ==
  ASSUME IInv, given' = given, NEW t \in Given, RegisterRunningTurn(t, Chat(t)),
         phase' = [phase EXCEPT ![t] = "thinking"]
  PROVE  Registry'
<1> USE DEF IInv
<1>0. t \in Turns
  BY Scenario DEF Shape
<1>1. /\ DOMAIN activeTurns' = DOMAIN activeTurns \union {t}
      /\ activeTurns'[t].chat = Chat(t)
      /\ \A u \in DOMAIN activeTurns' : u # t => activeTurns'[u] = activeTurns[u]
  BY DEF RegisterRunningTurn, With
<1>2. /\ DOMAIN activeTurnByChat' = DOMAIN activeTurnByChat \union KeysOf(Chat(t))
      /\ \A k \in DOMAIN activeTurnByChat' :
           activeTurnByChat'[k] = IF k \in KeysOf(Chat(t)) THEN t ELSE activeTurnByChat[k]
  BY DEF RegisterRunningTurn, With
<1>3. (\A u \in Turns : u \in DOMAIN activeTurns <=> phase[u] \in Registered)'
  BY <1>0, <1>1 DEF Registry, Shape, Registered, Thinking
<1>4. (\A u \in DOMAIN activeTurns : activeTurns[u].chat = Chat(u))'
  <2> SUFFICES ASSUME NEW u \in DOMAIN activeTurns' PROVE activeTurns'[u].chat = Chat(u)
    BY DEF Chat
  <2> QED
    BY <1>1 DEF Registry
<1>5. (\A k \in DOMAIN activeTurnByChat :
         /\ activeTurnByChat[k] \in DOMAIN activeTurns
         /\ k \in KeysOf(Chat(activeTurnByChat[k])))'
  <2> SUFFICES ASSUME NEW k \in DOMAIN activeTurnByChat'
               PROVE  /\ activeTurnByChat'[k] \in DOMAIN activeTurns'
                      /\ k \in KeysOf(Chat(activeTurnByChat'[k]))
    BY DEF Chat, KeysOf
  <2> QED
    BY <1>1, <1>2 DEF Registry
<1>6. (DOMAIN pendingByTurn \subseteq DOMAIN activeTurns)'
  BY <1>1 DEF Registry, RegisterRunningTurn
<1> QED
  BY <1>3, <1>4, <1>5, <1>6 DEF Registry

\* A turn that ends takes its registration, its keys and its steers with it.
LEMMA RegistryFinished ==
  ASSUME IInv, given' = given, NEW t \in Given, FinishRunningTurn(t),
         phase[t] \in Registered, Forward(t), phase'[t] \notin Registered
  PROVE  Registry'
<1> USE DEF IInv
<1>0. t \in Turns /\ t \in DOMAIN activeTurns
  BY Scenario DEF Shape, Registry
<1>1. /\ DOMAIN activeTurns' = DOMAIN activeTurns \ {t}
      /\ \A u \in DOMAIN activeTurns' : activeTurns'[u] = activeTurns[u]
      /\ DOMAIN pendingByTurn' = DOMAIN pendingByTurn \ {t}
      /\ DOMAIN activeTurnByChat' = DOMAIN activeTurnByChat \ OwnKeys(t)
      /\ \A k \in DOMAIN activeTurnByChat' : activeTurnByChat'[k] = activeTurnByChat[k]
  BY DEF FinishRunningTurn, Without
<1>2. \A k \in DOMAIN activeTurnByChat' : activeTurnByChat[k] # t
  BY <1>0, <1>1 DEF OwnKeys, Registry
<1>3. (\A u \in Turns : u \in DOMAIN activeTurns <=> phase[u] \in Registered)'
  BY <1>0, <1>1 DEF Registry, Forward, Registered, Thinking
<1>4. (\A u \in DOMAIN activeTurns : activeTurns[u].chat = Chat(u))'
  <2> SUFFICES ASSUME NEW u \in DOMAIN activeTurns' PROVE activeTurns'[u].chat = Chat(u)
    BY DEF Chat
  <2> QED
    BY <1>1 DEF Registry
<1>5. (\A k \in DOMAIN activeTurnByChat :
         /\ activeTurnByChat[k] \in DOMAIN activeTurns
         /\ k \in KeysOf(Chat(activeTurnByChat[k])))'
  <2> SUFFICES ASSUME NEW k \in DOMAIN activeTurnByChat'
               PROVE  /\ activeTurnByChat'[k] \in DOMAIN activeTurns'
                      /\ k \in KeysOf(Chat(activeTurnByChat'[k]))
    BY DEF Chat, KeysOf
  <2> QED
    BY <1>1, <1>2 DEF Registry
<1>6. (DOMAIN pendingByTurn \subseteq DOMAIN activeTurns)'
  BY <1>1 DEF Registry
<1> QED
  BY <1>3, <1>4, <1>5, <1>6 DEF Registry

\* A turn that returns from the handler is registered no more.
LEMMA ReturnedIsOut ==
  ASSUME IInv, given' = given, NEW t \in Given, Ending(t)
  PROVE  phase'[t] \in {"closing", "over"}
<1>1. CASE phase' = [phase EXCEPT ![t] = "closing"]
  BY <1>1, Scenario DEF IInv, Shape
<1>2. CASE LetGo(t)
  BY <1>2, PlaceLetGo DEF Ending, HoldsSlot
<1> QED
  BY <1>1, <1>2 DEF Ending, Returned

\* The other steps of a turn leave the registry and whom it holds.
LEMMA OtherSteps ==
  ASSUME IInv, given' = given, NEW t \in Given, TurnForm(t),
         ~Ending(t), \A o \in Turns : ~Working(t, o)
  PROVE  SameRegistered /\ UNCHANGED registryVars
<1> USE DEF IInv
<1>0. t \in Turns /\ Forward(t)
  BY Scenario, QueueKept DEF Shape
<1>1. CASE Arrive(t) \/ AcquireUserTurnSlot(t)
  <2>1. phase[t] \notin Registered /\ phase'[t] \notin Registered
    BY <1>0, <1>1 DEF Arrive, Arrives, AcquireUserTurnSlot, Shape, Registered, Thinking
  <2> QED
    BY <1>0, <1>1, <2>1 DEF Arrive, AcquireUserTurnSlot, Forward, SameRegistered, Registered, Thinking
<1>2. CASE Refused(t) \/ Closed(t)
  <2>1. phase[t] \notin Registered
    BY <1>2 DEF Refused, Closed, Entering, Arrives, Registered, Thinking
  <2>2. phase'[t] \in {"closing", "over"}
    BY <1>0, <1>2, PlaceLetGo DEF Refused, Closed, HoldsSlot, Shape
  <2> QED
    BY <1>0, <1>2, <2>1, <2>2 DEF Refused, Closed, Forward, SameRegistered, Registered, Thinking
<1>3. CASE (\E p \in Thinking : Moving(t, p)) \/ Sending(t)
  <2>1. phase[t] \in Registered /\ phase'[t] \in Registered
    BY <1>0, <1>3 DEF Moving, Sending, Shape, Registered, Thinking
  <2> QED
    BY <1>0, <1>3, <2>1 DEF Moving, Sending, Forward, SameRegistered, Registered, Thinking
<1> QED
  BY <1>1, <1>2, <1>3 DEF TurnForm

\* Every step of a turn keeps the registry right.
LEMMA RegistryKept ==
  ASSUME IInv, given' = given, NEW t \in Given, TurnForm(t)
  PROVE  Registry'
<1>1. CASE \E o \in Turns : Working(t, o)
  BY <1>1, RegistryTaken DEF Working
<1>2. CASE Ending(t)
  BY <1>2, RegistryFinished, ReturnedIsOut, QueueKept DEF Ending, Registered, Thinking
<1>3. CASE ~Ending(t) /\ \A o \in Turns : ~Working(t, o)
  BY <1>3, OtherSteps, RegistrySame DEF IInv
<1> QED
  BY <1>1, <1>2, <1>3

\* Every step of a turn keeps the shapes.
LEMMA ShapeKept ==
  ASSUME IInv, given' = given, NEW t \in Given, TurnForm(t)
  PROVE  Shape'
<1> USE DEF IInv
<1>0. t \in Turns /\ Chat(t) \in Chats /\ Given \subseteq Turns
  BY Scenario DEF Shape
<1>1. phase' \in [Turns -> Phases] /\ given' \in Scenarios
  BY QueueKept DEF Forward, Shape
<1>2. /\ DOMAIN activeTurns' \subseteq Turns
      /\ \A u \in DOMAIN activeTurns' : activeTurns'[u] \in [chat : Chats, aborted : BOOLEAN]
  <2>1. CASE \E o \in Turns : Working(t, o)
    BY <1>0, <2>1 DEF Working, RegisterRunningTurn, With, Shape
  <2>2. CASE Ending(t)
    BY <2>2 DEF Ending, FinishRunningTurn, Without, Shape
  <2>3. CASE ~Ending(t) /\ \A o \in Turns : ~Working(t, o)
    BY <2>3, OtherSteps DEF registryVars, Shape
  <2> QED
    BY <2>1, <2>2, <2>3
<1>3. /\ object' \in [Turns -> {"IDLE", "WORKING", "RESPONDING"}]
      /\ mine' \in [Turns -> Turns \union {NoTurn}]
  BY DEF TurnForm, Arrive, AcquireUserTurnSlot, Working, Refused, Moving, Sending, Ending,
         EndingSession, Closed, sessionVars, Shape
<1> QED
  BY <1>1, <1>2, <1>3 DEF Shape

-----------------------------------------------------------------------------
(* Session objects.                                                         *)
Outside == {"new", "line", "slot", "granted"}

SameUse ==
  /\ UNCHANGED sessionVars
  /\ \A u \in Turns : /\ phase'[u] \in Thinking <=> phase[u] \in Thinking
                      /\ phase'[u] \in Registered <=> phase[u] \in Registered
                      /\ phase'[u] \in Outside => phase[u] \in Outside

\* Objects stay right where none changes hands.
LEMMA ObjectsSame ==
  ASSUME Objects, given' = given, SameUse
  PROVE  Objects'
BY DEF Objects, SessionsMatchTurns, SameUse, sessionVars, Given, Chat, Outside

\* A turn comes in on an object nobody works on, its chat's or its own.
LEMMA ObjectTaken ==
  ASSUME IInv, given' = given, NEW t \in Given, NEW o \in Turns, Working(t, o)
  PROVE  Objects'
<1> USE DEF IInv
<1>0. t \in Turns /\ Given \subseteq Turns
  BY Scenario DEF Shape
<1>1. phase[t] \in Outside
  BY DEF Working, Entering, Arrives, Outside
<1>2. /\ \A c \in DOMAIN sessions : sessions[c] # t
      /\ \A u \in Turns : mine[u] # t
  BY <1>0, <1>1 DEF Objects, Outside
<1>3. /\ o \in Given /\ Chat(o) = Chat(t) /\ (o = t \/ object[o] # "WORKING")
      /\ o # t => Chat(t) \in DOMAIN sessions /\ o = sessions[Chat(t)]
  BY DEF Working, Objects
<1>4. /\ phase'[t] = "thinking" /\ mine'[t] = o /\ object'[o] = "WORKING"
      /\ \A u \in Turns \ {t} : phase'[u] = phase[u] /\ mine'[u] = mine[u]
      /\ \A x \in Turns \ {o} : object'[x] = object[x]
      /\ Chat(t) \in DOMAIN sessions' /\ sessions'[Chat(t)] = o
      /\ \A c \in DOMAIN sessions' : c # Chat(t) => c \in DOMAIN sessions /\ sessions'[c] = sessions[c]
  BY <1>0 DEF Working, With, Shape
<1>5. (\A c \in DOMAIN sessions : sessions[c] \in Given /\ Chat(sessions[c]) = c)'
  <2> SUFFICES ASSUME NEW c \in DOMAIN sessions'
               PROVE  sessions'[c] \in Given /\ Chat(sessions'[c]) = c
    BY DEF Given, Chat
  <2> QED
    BY <1>3, <1>4 DEF Objects
<1>6. (\A u \in Turns : phase[u] \in Registered => mine[u] \in Given /\ Chat(mine[u]) = Chat(u))'
  <2> SUFFICES ASSUME NEW u \in Turns, phase'[u] \in Registered
               PROVE  mine'[u] \in Given /\ Chat(mine'[u]) = Chat(u)
    BY DEF Given, Chat
  <2> QED
    BY <1>3, <1>4 DEF Objects
<1>7. (\A u \in Turns : phase[u] \in Outside =>
         (\A c \in DOMAIN sessions : sessions[c] # u) /\ (\A v \in Turns : mine[v] # u))'
  <2> SUFFICES ASSUME NEW u \in Turns, phase'[u] \in Outside
               PROVE  (\A c \in DOMAIN sessions' : sessions'[c] # u) /\ (\A v \in Turns : mine'[v] # u)
    OBVIOUS
  <2>1. u # t /\ phase[u] \in Outside
    BY <1>0, <1>4 DEF Outside
  <2>2. (\A c \in DOMAIN sessions : sessions[c] # u) /\ (\A v \in Turns : mine[v] # u) /\ u # o
    BY <1>3, <2>1 DEF Objects, Outside
  <2> QED
    BY <1>4, <2>2
<1>8. \A u \in Turns \ {t} : phase[u] \in Thinking => mine[u] # o /\ mine[u] \in Turns
  <2> SUFFICES ASSUME NEW u \in Turns \ {t}, phase[u] \in Thinking
               PROVE  mine[u] # o /\ mine[u] \in Turns
    OBVIOUS
  <2>1. object[mine[u]] = "WORKING" /\ mine[u] \in Turns
    BY <1>0 DEF Objects, SessionsMatchTurns, Registered
  <2> QED
    BY <1>2, <1>3, <2>1
<1>9. (\A u \in Turns : phase[u] \in Thinking =>
         /\ object[mine[u]] = "WORKING"
         /\ \A v \in Turns \ {u} : phase[v] \in Thinking => mine[v] # mine[u])'
  <2> SUFFICES ASSUME NEW u \in Turns, phase'[u] \in Thinking
               PROVE  /\ object'[mine'[u]] = "WORKING"
                      /\ \A v \in Turns \ {u} : phase'[v] \in Thinking => mine'[v] # mine'[u]
    OBVIOUS
  <2>1. CASE u = t
    BY <1>4, <1>8, <2>1
  <2>2. CASE u # t
    <3>1. /\ phase[u] \in Thinking /\ mine'[u] = mine[u] /\ mine[u] # o /\ mine[u] \in Turns
          /\ object[mine[u]] = "WORKING"
          /\ \A v \in Turns \ {u} : phase[v] \in Thinking => mine[v] # mine[u]
      BY <1>4, <1>8, <2>2 DEF Objects, SessionsMatchTurns
    <3> QED
      BY <1>4, <2>2, <3>1
  <2> QED
    BY <2>1, <2>2
<1>10. (\A c \in DOMAIN sessions : object[sessions[c]] = "WORKING" =>
          \E u \in Turns : phase[u] \in Thinking /\ mine[u] = sessions[c])'
  <2> SUFFICES ASSUME NEW c \in DOMAIN sessions', object'[sessions'[c]] = "WORKING"
               PROVE  \E u \in Turns : phase'[u] \in Thinking /\ mine'[u] = sessions'[c]
    OBVIOUS
  <2>1. CASE c = Chat(t)
    BY <1>0, <1>4, <2>1 DEF Thinking
  <2>2. CASE c # Chat(t)
    <3>1. /\ c \in DOMAIN sessions /\ sessions'[c] = sessions[c] /\ sessions[c] # o
          /\ sessions[c] \in Turns
      BY <1>0, <1>3, <1>4, <2>2 DEF Objects
    <3>2. PICK u \in Turns : phase[u] \in Thinking /\ mine[u] = sessions[c]
      BY <1>4, <3>1 DEF Objects, SessionsMatchTurns
    <3>3. u # t
      BY <1>1, <3>2 DEF Outside, Thinking
    <3> QED
      BY <1>4, <3>1, <3>2, <3>3
  <2> QED
    BY <2>1, <2>2
<1> QED
  BY <1>5, <1>6, <1>7, <1>9, <1>10 DEF Objects, SessionsMatchTurns, Outside

\* What a turn that no longer works leaves is not WORKING, or out of the chat.
\* `Quits` is that of an answer on its way out, and of the three ends.
Quits(t) ==
  /\ mine' = mine /\ mine[t] \in Turns
  /\ phase'[t] \notin Thinking \union Outside
  /\ phase'[t] \in Registered => phase[t] \in Registered
  /\ \/ /\ phase[t] \in Thinking \/ object[mine[t]] # "WORKING"
        /\ \E s \in {"IDLE", "RESPONDING"} : object' = [object EXCEPT ![mine[t]] = s]
        /\ sessions' = sessions
     \/ object' = object /\ sessions' = Without(sessions, {Chat(t)})

\* A turn that quits leaves its chat no object that says WORKING.
LEMMA ObjectQuit ==
  ASSUME IInv, given' = given, NEW t \in Given, phase[t] \in Registered, Forward(t), Quits(t)
  PROVE  Objects'
<1> USE DEF IInv
<1>0. t \in Turns /\ Given \subseteq Turns
  BY Scenario DEF Shape
<1>1. /\ \A u \in Turns : phase'[u] \in Thinking => u # t /\ phase[u] \in Thinking
      /\ \A u \in Turns : phase[u] \in Thinking /\ u # t => phase'[u] \in Thinking
      /\ \A u \in Turns : phase'[u] \in Registered => phase[u] \in Registered
      /\ \A u \in Turns : phase'[u] \in Outside => phase[u] \in Outside
  BY <1>0 DEF Quits, Forward, Thinking, Registered, Outside
<1>2. \A c \in DOMAIN sessions' : c \in DOMAIN sessions /\ sessions'[c] = sessions[c]
  BY DEF Quits, Without
<1>3. \A u \in Turns : phase[u] \in Registered =>
        mine[u] \in Turns /\ mine[u] \in Given /\ Chat(mine[u]) = Chat(u)
  BY <1>0 DEF Objects
<1>4. (\A c \in DOMAIN sessions : sessions[c] \in Given /\ Chat(sessions[c]) = c)'
  BY <1>2 DEF Objects, Given, Chat
<1>5. (\A u \in Turns : phase[u] \in Registered => mine[u] \in Given /\ Chat(mine[u]) = Chat(u))'
  BY <1>1, <1>3 DEF Quits, Given, Chat
<1>6. (\A u \in Turns : phase[u] \in Outside =>
         (\A c \in DOMAIN sessions : sessions[c] # u) /\ (\A v \in Turns : mine[v] # u))'
  BY <1>1, <1>2 DEF Quits, Objects, Outside
<1>7. (\A u \in Turns : phase[u] \in Thinking =>
         /\ object[mine[u]] = "WORKING"
         /\ \A v \in Turns \ {u} : phase[v] \in Thinking => mine[v] # mine[u])'
  <2> SUFFICES ASSUME NEW u \in Turns, phase'[u] \in Thinking
               PROVE  /\ object'[mine[u]] = "WORKING"
                      /\ \A v \in Turns \ {u} : phase'[v] \in Thinking => mine[v] # mine[u]
    BY DEF Quits
  <2>1. u # t /\ phase[u] \in Thinking /\ object[mine[u]] = "WORKING" /\ mine[u] \in Turns
    BY <1>1, <1>3 DEF Objects, SessionsMatchTurns, Registered
  <2>2. \A v \in Turns \ {u} : phase'[v] \in Thinking => mine[v] # mine[u]
    BY <1>1, <2>1 DEF Objects, SessionsMatchTurns
  <2>3. phase[t] \in Thinking => mine[u] # mine[t]
    BY <1>0, <2>1 DEF Objects, SessionsMatchTurns
  <2>4. object'[mine[u]] = "WORKING"
    BY <2>1, <2>3 DEF Quits, Shape
  <2> QED
    BY <2>2, <2>4
<1>8. (\A c \in DOMAIN sessions : object[sessions[c]] = "WORKING" =>
         \E u \in Turns : phase[u] \in Thinking /\ mine[u] = sessions[c])'
  <2> SUFFICES ASSUME NEW c \in DOMAIN sessions', object'[sessions'[c]] = "WORKING"
               PROVE  \E u \in Turns : phase'[u] \in Thinking /\ mine'[u] = sessions'[c]
    OBVIOUS
  <2>1. /\ c \in DOMAIN sessions /\ sessions'[c] = sessions[c] /\ sessions[c] \in Turns
        /\ Chat(sessions[c]) = c
    BY <1>0, <1>2 DEF Objects
  <2>2. /\ object[sessions[c]] = "WORKING"
        /\ sessions[c] # mine[t] \/ c # Chat(t)
    BY <2>1 DEF Quits, Shape, Without
  <2>3. PICK u \in Turns : phase[u] \in Thinking /\ mine[u] = sessions[c]
    BY <2>1, <2>2 DEF Objects, SessionsMatchTurns
  <2>4. u # t
    <3>1. Chat(mine[u]) = Chat(u)
      BY <1>3, <2>3 DEF Registered
    <3> QED
      BY <2>1, <2>2, <2>3, <3>1
  <2> QED
    BY <1>1, <2>1, <2>3, <2>4 DEF Quits
<1> QED
  BY <1>4, <1>5, <1>6, <1>7, <1>8 DEF Objects, SessionsMatchTurns, Outside

\* Every step of a turn keeps the objects right.
LEMMA ObjectsKept ==
  ASSUME IInv, given' = given, NEW t \in Given, TurnForm(t)
  PROVE  Objects'
<1> USE DEF IInv
<1>0. t \in Turns /\ Forward(t) /\ Given \subseteq Turns
  BY Scenario, QueueKept DEF Shape
<1>1. CASE \E o \in Turns : Working(t, o)
  BY <1>1, ObjectTaken
<1>2. CASE Sending(t)
  <2>1. phase[t] \in Registered /\ mine[t] \in Turns /\ phase'[t] = "sending"
    BY <1>0, <1>2 DEF Sending, Registered, Objects, Shape
  <2>2. Quits(t)
    BY <1>2, <2>1 DEF Sending, Quits, Registered, Thinking, Outside
  <2> QED
    BY <1>0, <2>1, <2>2, ObjectQuit
<1>3. CASE Ending(t)
  <2>1. phase[t] \in Registered /\ mine[t] \in Turns /\ phase'[t] \in {"closing", "over"}
    BY <1>0, <1>3, ReturnedIsOut DEF Ending, Objects
  <2>2. Quits(t)
    BY <1>3, <2>1 DEF Ending, EndingSession, Quits, Registered, Thinking, Outside
  <2> QED
    BY <1>0, <2>1, <2>2, ObjectQuit
<1>4. CASE ~Sending(t) /\ ~Ending(t) /\ \A o \in Turns : ~Working(t, o)
  <2>1. SameRegistered
    BY <1>4, OtherSteps
  <2>2. UNCHANGED sessionVars
    BY <1>4 DEF TurnForm, Arrive, AcquireUserTurnSlot, Refused, Moving, Closed
  <2>3. /\ phase'[t] \in Thinking <=> phase[t] \in Thinking
        /\ phase'[t] \in Outside => phase[t] \in Outside
    <3>1. CASE Arrive(t) \/ AcquireUserTurnSlot(t)
      BY <1>0, <3>1 DEF Arrive, Arrives, AcquireUserTurnSlot, Shape, Thinking, Outside
    <3>2. CASE Refused(t) \/ Closed(t)
      BY <1>0, <3>2, PlaceLetGo DEF Refused, Closed, Entering, Arrives, HoldsSlot, Shape,
                                    Thinking, Outside
    <3>3. CASE \E p \in Thinking : Moving(t, p)
      BY <1>0, <3>3 DEF Moving, Shape, Thinking, Outside
    <3> QED
      BY <1>4, <3>1, <3>2, <3>3 DEF TurnForm
  <2>4. SameUse
    BY <1>0, <2>1, <2>2, <2>3 DEF SameUse, SameRegistered, Forward, Thinking, Outside
  <2> QED
    BY <2>4, ObjectsSame
<1> QED
  BY <1>1, <1>2, <1>3, <1>4

-----------------------------------------------------------------------------
(* The other steps, and the invariant.                                      *)

\* So do steps that move no turn, a swept session included.
LEMMA NotingKeeps ==
  ASSUME IInv, given' = given, Noting
  PROVE  IInv'
<1> USE DEF IInv, Noting, queueVars
<1>1. Given' = Given /\ SamePlaces /\ SameControl
  BY DEF Given, SamePlaces, SameControl
<1>2. Shape'
  BY DEF Shape
<1>3. Line'
  BY <1>1 DEF Line, Chat, Scheduled
<1>4. InQueue' /\ Places' /\ Controllers'
  BY <1>1, PlacesKept, ControlSame
<1>5. Registry'
  BY DEF Registry, Chat
<1>6. Objects'
  <2>1. \A c \in DOMAIN sessions' : c \in DOMAIN sessions /\ sessions'[c] = sessions[c]
    BY DEF Without
  <2> QED
    BY <1>1, <2>1 DEF Objects, SessionsMatchTurns, Chat
<1> QED
  BY <1>2, <1>3, <1>4, <1>5, <1>6

\* The end of the process leaves turns that are new or over, and empty maps.
LEMMA RestartKeeps ==
  ASSUME IInv, Restart
  PROVE  IInv'
<1> USE DEF IInv
<1>0. /\ given' = given /\ Given' = Given /\ Given \subseteq Turns /\ given.limit \in Nat \ {0}
  BY Scenario DEF Restart, Given, Shape
<1>1. /\ phase' \in [Turns -> {"new", "over"}]
      /\ \A t \in Turns : phase'[t] = "new" <=> phase[t] = "new"
  BY DEF Restart
<1>2. /\ slots' = 0 /\ slotQueue' = <<>>
      /\ DOMAIN controllers' = {} /\ DOMAIN sessions' = {} /\ DOMAIN activeTurns' = {}
      /\ DOMAIN activeTurnByChat' = {} /\ DOMAIN pendingByTurn' = {}
      /\ object' = object /\ mine' = mine
  BY DEF Restart, RegistryRestart, Empty
<1>3. Shape'
  BY <1>0, <1>1, <1>2 DEF Shape, Phases
<1>4. Line'
  BY <1>0, <1>1 DEF Line, Chat, Scheduled
<1>5. InQueue'
  BY <1>1, <1>2 DEF InQueue
<1>6. Places'
  <2>1. Holders' = {}
    BY <1>0, <1>1 DEF Holders, HoldsSlot, Registered, Thinking
  <2> QED
    BY <1>0, <1>2, <2>1, FS_EmptySet DEF Places
<1>7. Registry' /\ Controllers'
  BY <1>0, <1>1, <1>2 DEF Registry, Controllers, Controlling, Registered, Thinking
<1>8. Objects'
  BY <1>1, <1>2 DEF Objects, SessionsMatchTurns, Registered, Thinking
<1> QED
  BY <1>3, <1>4, <1>5, <1>6, <1>7, <1>8

\* At the start nobody is in and nothing is held.
LEMMA InitKeeps == Init => IInv
<1> SUFFICES ASSUME Init PROVE IInv
  OBVIOUS
<1>0. /\ given \in Scenarios /\ phase \in [Turns -> {"new"}] /\ slots = 0 /\ slotQueue = <<>>
      /\ DOMAIN controllers = {} /\ DOMAIN sessions = {} /\ DOMAIN activeTurns = {}
      /\ DOMAIN activeTurnByChat = {} /\ DOMAIN pendingByTurn = {}
      /\ object \in [Turns -> {"IDLE"}] /\ mine \in [Turns -> {NoTurn}]
  BY DEF Init, RegistryInit, Empty
<1>1. Given \subseteq Turns /\ given.limit \in Nat \ {0} /\ NoTurn \notin Turns
  BY <1>0, Scenario, TurnsAssumption
<1>2. Shape
  BY <1>0 DEF Shape, Phases
<1>3. Line /\ InQueue
  BY <1>0, <1>1 DEF Line, InQueue
<1>4. Places
  <2>1. Holders = {}
    BY <1>0, <1>1 DEF Holders, HoldsSlot, Registered, Thinking
  <2> QED
    BY <1>0, <1>1, <2>1, FS_EmptySet DEF Places
<1>5. Registry /\ Controllers
  BY <1>0, <1>1 DEF Registry, Controllers, Controlling, Registered, Thinking
<1>6. Objects
  BY <1>0, <1>1 DEF Objects, SessionsMatchTurns, Registered, Thinking
<1> QED
  BY <1>2, <1>3, <1>4, <1>5, <1>6 DEF IInv

\* The invariant is inductive.
LEMMA StepKeeps == IInv /\ [Next]_vars => IInv'
<1> SUFFICES ASSUME IInv, [Next]_vars PROVE IInv'
  OBVIOUS
<1>1. Form /\ given' = given
  BY StepForms
<1>2. ASSUME NEW t \in Given, TurnForm(t) PROVE IInv'
  <2>1. Forward(t) /\ InQueue' /\ Places'
    BY <1>1, <1>2, QueueKept
  <2>2. Line'
    BY <1>1, <2>1, LineKept DEF IInv
  <2>3. Shape' /\ Registry' /\ Controllers' /\ Objects'
    BY <1>1, <1>2, ShapeKept, RegistryKept, ControllersKept, ObjectsKept
  <2> QED
    BY <2>1, <2>2, <2>3 DEF IInv
<1> QED
  BY <1>1, <1>2, NotingKeeps, RestartKeeps DEF Form

\* It holds from the start and in every step.
LEMMA Invariant == Spec => []IInv
BY InitKeeps, StepKeeps, PTL DEF Spec

-----------------------------------------------------------------------------
\* What it says of each part.
LEMMA RegistryTells == IInv => RegistryMatchesTurns
<1> SUFFICES ASSUME IInv PROVE RegistryMatchesTurns
  OBVIOUS
<1>1. \A t \in Given :
        ~Scheduled(t) /\ phase[t] \in Registered \union {"closing"}
          <=> \E c \in DOMAIN controllers : controllers[c] = t
  BY DEF IInv, Controllers, Controlling
<1> QED
  BY <1>1 DEF IInv, Registry, RegistryMatchesTurns

\* Places are held by the turns let in, and a turn let in finds no controller.
LEMMA SlotsTell == IInv => SlotsMatchTurns
<1> SUFFICES ASSUME IInv PROVE SlotsMatchTurns
  OBVIOUS
<1> USE DEF IInv
<1>0. Given \subseteq Nat
  BY Scenario DEF Shape
<1>1. slots = Cardinality({t \in Given : ~Scheduled(t) /\ phase[t] \in HoldsSlot})
  BY DEF Places, Holders
<1>2. \A t \in Turns : phase[t] = "slot" <=> \E i \in DOMAIN slotQueue : slotQueue[i] = t
  <2>1. DOMAIN slotQueue = 1 .. Len(slotQueue)
    BY LenProperties DEF InQueue
  <2> QED
    BY <2>1 DEF InQueue
<1>3. \A t \in Given : phase[t] = "granted" => Chat(t) \notin DOMAIN controllers
  <2> SUFFICES ASSUME NEW t \in Given, phase[t] = "granted", Chat(t) \in DOMAIN controllers
               PROVE  FALSE
    OBVIOUS
  <2> DEFINE u == controllers[Chat(t)]
  <2>1. /\ u \in Given /\ Chat(u) = Chat(t) /\ ~Scheduled(u) /\ ~Scheduled(t)
        /\ phase[u] \in Registered \union {"closing"}
    BY DEF Controllers, Controlling, Line
  <2> HIDE DEF u
  <2>2. u < t \/ t < u
    BY <1>0, <2>1 DEF Registered, Thinking
  <2> QED
    BY <2>1, <2>2 DEF Line, Registered, Thinking
<1> QED
  BY <1>1, <1>2, <1>3 DEF Places, SlotsMatchTurns

\* Turns leave nothing behind: whatever ends a turn, the registry, its keys and
\* steers (core/turn-cancellation.ts, gateway/steer-store.ts), the places and the
\* controllers of index.ts, and the sessions of the handler are those of the
\* turns under way, and nobody waits while a place is free.
THEOREM NothingIsLeftBehind == Spec => []NothingLeftBehind
<1>1. IInv => NothingLeftBehind
  BY RegistryTells, SlotsTell DEF NothingLeftBehind, IInv, Objects
<1> QED
  BY <1>1, Invariant, PTL

\* A key a running turn is found by is taken from it by a turn that registers, or
\* given up at its own end (finishRunningTurn()'s look at whose the key is).
THEOREM KeysGoToNewer == Spec => KeysYieldToNewer
<1> DEFINE Yields ==
      \A k \in DOMAIN activeTurnByChat :
        LET t == activeTurnByChat[k] IN
          \/ t \notin DOMAIN activeTurns'
          \/ /\ k \in DOMAIN activeTurnByChat'
             /\ activeTurnByChat'[k] = t \/ activeTurnByChat'[k] \notin DOMAIN activeTurns
<1>1. ASSUME IInv, [Next]_vars PROVE Yields
  <2>1. Form /\ given' = given
    BY <1>1, StepForms
  <2>2. ASSUME NEW t \in Given, NEW o \in Turns, Working(t, o) PROVE Yields
    <3>1. t \in Turns /\ phase[t] \notin Registered
      BY <1>1, <2>2, Scenario DEF IInv, Shape, Working, Entering, Arrives, Registered, Thinking
    <3>2. t \notin DOMAIN activeTurns
      BY <1>1, <3>1 DEF IInv, Registry
    <3> QED
      BY <2>2, <3>2 DEF Working, RegisterRunningTurn, With
  <2>3. ASSUME NEW t \in Given, Ending(t) PROVE Yields
    BY <2>3 DEF Ending, FinishRunningTurn, Without, OwnKeys
  <2>4. ASSUME NEW t \in Given, TurnForm(t), ~Ending(t), \A o \in Turns : ~Working(t, o)
        PROVE  Yields
    <3>1. UNCHANGED registryVars
      BY <1>1, <2>1, <2>4, OtherSteps
    <3> QED
      BY <3>1 DEF registryVars
  <2>5. CASE Noting
    BY <2>5 DEF Noting
  <2>6. CASE Restart
    BY <2>6 DEF Restart, RegistryRestart, Empty
  <2> QED
    BY <2>1, <2>2, <2>3, <2>4, <2>5, <2>6 DEF Form
<1>2. IInv /\ [Next]_vars => [Yields]_vars
  BY <1>1
<1> QED
  BY <1>2, Invariant, PTL DEF Spec, KeysYieldToNewer
=============================================================================
