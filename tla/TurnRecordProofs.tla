-------------------------- MODULE TurnRecordProofs --------------------------
(***************************************************************************)
(* What is on record of a turn is true of it, for any number of turns and  *)
(* tool calls: proofs of the types and of the record's invariant, on the   *)
(* invariant of TurnsProofs.                                               *)
(***************************************************************************)
EXTENDS TurnsProofs

Statuses == Open \union {"none", "completed", "failed", "cancelled", "interrupted"}

\* Steers, reasons and ends of the process, which no other part looks at.
Aside ==
  /\ \A t \in DOMAIN pendingByTurn : pendingByTurn[t] \in 1 .. SteerMax
  /\ reason \in [Turns -> {"none", "cancel", "timeout", "restart"}]
  /\ restarts \in 0 .. MaxRestarts

RecordShape ==
  /\ turnState \in [Turns -> Terminal \union {"open"}]
  /\ envelope \in [Turns -> Statuses]
  /\ caller \in [Calls -> Turns \union {NoTurn}]
  /\ call \in [Calls -> {"unused", "running", "waiting", "asked"}]
  /\ late \subseteq Turns

\* Nothing is on record of a turn that is not in; one at work is open, or its
\* failure is out before its answer; one that is out is closed, but for a wait.
RecordOutside ==
  \A t \in Turns : phase[t] \in Outside => turnState[t] = "open" /\ envelope[t] = "none"
RecordAtWork ==
  \A t \in Turns : phase[t] \in Registered =>
    \/ turnState[t] = "open" /\ envelope[t] \in Open
    \/ /\ phase[t] = "sending" /\ turnState[t] = "FAILED"
       /\ envelope[t] = "failed" \/ (envelope[t] \in Open /\ t \in late)
RecordOut ==
  \A t \in Turns : phase[t] \in {"closing", "over"} /\ t \notin late => envelope[t] \notin Open

\* A call that still runs is of a turn that is at work or has a terminal state.
CallsOfTurns ==
  \A k \in Calls : call[k] \in {"running", "waiting"} =>
    /\ caller[k] \in Turns
    /\ phase[caller[k]] \in Registered \/ turnState[caller[k]] \in Terminal
AwaitingWaits == \A t \in Turns : envelope[t] = "awaiting_approval" => Waiting(t) # {}

Truth == RecordOutside /\ RecordAtWork /\ RecordOut /\ CallsOfTurns /\ AwaitingWaits

RInv == IInv /\ Aside /\ RecordShape /\ Truth

-----------------------------------------------------------------------------
(* The steps, by what they write on record.                                 *)
Started(t) ==
  /\ phase[t] \in Outside /\ phase'[t] = "thinking"
  /\ StartTurnEnvelope(t)
  /\ UNCHANGED <<turnState, caller, call, late>>

Ended(t) ==
  /\ phase[t] \in Outside \union Registered /\ phase'[t] \in {"closing", "over"}
  /\ \E state \in Terminal, status \in Statuses \ (Open \union {"none"}) :
       PublishTurnState(t, state, status)
  /\ UNCHANGED <<caller, call, late>>

Answered(t) ==
  /\ phase[t] \in Thinking /\ phase'[t] = "sending"
  /\ \/ UNCHANGED <<turnState, envelope>>
     \/ PublishTurnState(t, "FAILED", "failed")
  /\ UNCHANGED <<caller, call, late>>

Batched(t) ==
  /\ phase[t] \in Thinking /\ phase'[t] \in Thinking
  /\ \E ks \in SUBSET Calls : StartBatch(t, ks)

Idle(t) ==
  /\ \/ phase[t] \in Outside /\ phase'[t] \in Outside
     \/ phase[t] \in Thinking /\ phase'[t] \in Thinking
     \/ phase[t] = "closing" /\ phase'[t] = "over"
  /\ UNCHANGED recordVars

\* Of the other turns one may get a place.
Others(t) == \A u \in Turns \ {t} : \/ phase'[u] = phase[u]
                                    \/ phase[u] \in Outside /\ phase'[u] \in Outside

RecordTurn(t) == Started(t) \/ Ended(t) \/ Answered(t) \/ Batched(t) \/ Idle(t)

RecordAside ==
  /\ UNCHANGED <<phase, turnState, caller>>
  /\ \/ UNCHANGED <<envelope, call, late>>
     \/ \E k \in Calls, aborted \in BOOLEAN : AskApproval(k, aborted)
     \/ \E ks \in SUBSET {k \in Calls : call[k] = "waiting"} : EndWaits(ks)

-----------------------------------------------------------------------------
\* A turn that comes in gets a row, or is refused with a terminal state.
LEMMA EnterRecord ==
  ASSUME IInv, NEW t \in Given, Enter(t)
  PROVE  Started(t) \/ Ended(t)
<1> USE DEF IInv
<1>0. t \in Turns /\ phase[t] \in Outside
  BY Scenario DEF Shape, Enter, Arrives, Outside
<1>1. ASSUME NEW o, WorkOn(t, o) PROVE Started(t)
  BY <1>0, <1>1 DEF WorkOn, Started, Shape
<1>2. CASE RejectBusy(t)
  <2>1. phase'[t] \in {"closing", "over"}
    <3>1. CASE HasOutput(t)
      BY <1>0, <1>2, <3>1 DEF RejectBusy, Shape
    <3>2. CASE ~HasOutput(t)
      <4>1. LetGo(t) /\ Entering(t) /\ given' = given
        BY <1>2, <3>2 DEF RejectBusy, Enter, Entering
      <4> QED
        BY <4>1, PlaceLetGo
    <3> QED
      BY <3>1, <3>2
  <2>2. PublishTurnState(t, "CANCELLED", "cancelled") /\ UNCHANGED <<caller, call, late>>
    BY <1>2 DEF RejectBusy
  <2> QED
    BY <1>0, <2>1, <2>2 DEF Ended, Terminal, Statuses, Open
<1> QED
  BY <1>1, <1>2 DEF Enter

\* Every end of the handler publishes a terminal state.
LEMMA CatchRecord ==
  ASSUME IInv, given' = given, NEW t \in Given, phase[t] \in Registered,
         NEW state \in Terminal, NEW status \in Statuses \ (Open \union {"none"}),
         Catch(t, state, status), UNCHANGED <<caller, call, late>>
  PROVE  Ended(t)
<1>1. phase'[t] \in {"closing", "over"}
  BY CatchEnds, ReturnedIsOut
<1> QED
  BY <1>1 DEF Catch, Ended

\* Also an abort, whatever its reason.
LEMMA AbortRecord ==
  ASSUME IInv, given' = given, NEW t \in Given, phase[t] \in Registered, NEW why,
         CatchAbort(t, why), UNCHANGED <<caller, call, late>>
  PROVE  Ended(t)
<1>1. /\ "FAILED" \in Terminal /\ "CANCELLED" \in Terminal
      /\ {"failed", "cancelled", "interrupted"} \subseteq Statuses \ (Open \union {"none"})
  BY DEF Terminal, Statuses, Open
<1> QED
  BY <1>1, CatchRecord DEF CatchAbort

\* Also an error that is thrown.
LEMMA ThrownRecord ==
  ASSUME IInv, given' = given, NEW t \in Given, phase[t] \in Registered,
         CatchError(t) \/ CatchThrown(t), UNCHANGED <<caller, call, late>>
  PROVE  Ended(t)
<1>1. "FAILED" \in Terminal /\ "failed" \in Statuses \ (Open \union {"none"})
  BY DEF Terminal, Statuses, Open
<1> QED
  BY <1>1, CatchRecord, AbortRecord DEF CatchError, CatchThrown

\* Also an answer that is out.
LEMMA CompleteRecord ==
  ASSUME IInv, given' = given, NEW t \in Given,
         phase[t] \in Thinking \/ (phase[t] = "sending" /\ object[mine[t]] = "RESPONDING"),
         NEW state \in {"FAILED", "DONE"},
         PublishTurnState(t, state, Status[state]), Complete(t), UNCHANGED <<caller, call, late>>
  PROVE  Ended(t)
<1>1. phase[t] \in Registered /\ Ending(t)
  BY DEF Complete, Ending, EndingSession, Registered
<1>2. phase'[t] \in {"closing", "over"}
  BY <1>1, ReturnedIsOut
<1>3. state \in Terminal /\ Status[state] \in Statuses \ (Open \union {"none"})
  BY DEF Terminal, Statuses, Open, Status
<1> QED
  BY <1>1, <1>2, <1>3 DEF Ended

\* The handler answers through its channel first, or publishes its end.
LEMMA HandlerRecord ==
  ASSUME IInv, NEW t \in Given,
         \/ \E failed \in BOOLEAN : BrainAnswers(t, failed)
         \/ AbortSettles(t) \/ SendSettles(t) \/ SendFails(t) \/ TurnFails(t)
  PROVE  Answered(t) \/ Ended(t)
<1>0. /\ given' = given /\ UNCHANGED <<caller, call, late>> /\ t \in Turns
  BY Scenario DEF BrainAnswers, AbortSettles, SendSettles, SendFails, TurnFails, IInv, Shape
<1>1. ASSUME NEW failed \in BOOLEAN, BrainAnswers(t, failed) PROVE Answered(t) \/ Ended(t)
  <2>1. phase[t] \in Thinking
    BY <1>1 DEF BrainAnswers, Thinking
  <2>2. CASE HasOutput(t)
    <3>1. phase'[t] = "sending"
      BY <1>0, <1>1, <2>2 DEF BrainAnswers, IInv, Shape
    <3>2. CASE failed
      BY <1>0, <1>1, <2>1, <2>2, <3>1, <3>2 DEF BrainAnswers, Answered, Status
    <3>3. CASE ~failed
      BY <1>0, <1>1, <2>1, <2>2, <3>1, <3>3 DEF BrainAnswers, Answered
    <3> QED
      BY <3>2, <3>3
  <2>3. CASE ~HasOutput(t)
    <3>1. PICK state \in {"FAILED", "DONE"} :
            PublishTurnState(t, state, Status[state]) /\ Complete(t)
      BY <1>1, <2>3 DEF BrainAnswers
    <3> QED
      BY <1>0, <2>1, <3>1, CompleteRecord
  <2> QED
    BY <2>2, <2>3
<1>2. CASE AbortSettles(t)
  BY <1>0, <1>2, AbortRecord DEF AbortSettles, Registered
<1>3. CASE SendSettles(t)
  <2>1. phase[t] \in Registered
    BY <1>3 DEF SendSettles, Registered
  <2>2. CASE object[mine[t]] = "RESPONDING"
    <3>1. PublishTurnState(t, "DONE", Status["DONE"]) /\ Complete(t) /\ phase[t] = "sending"
      BY <1>3, <2>2 DEF SendSettles, Status
    <3> QED
      BY <1>0, <2>2, <3>1, CompleteRecord
  <2>3. CASE object[mine[t]] # "RESPONDING"
    BY <1>0, <1>3, <2>1, <2>3, ThrownRecord DEF SendSettles
  <2> QED
    BY <2>2, <2>3
<1>4. CASE SendFails(t)
  BY <1>0, <1>4, ThrownRecord DEF SendFails, Registered
<1>5. CASE TurnFails(t)
  BY <1>0, <1>5, ThrownRecord DEF TurnFails, Registered, Thinking
<1> QED
  BY <1>1, <1>2, <1>3, <1>4, <1>5

\* What comes from outside writes by ending waits, or not at all.
LEMMA OutsideRecord ==
  ASSUME \/ \E t \in Given : \/ DrainSteers(t) \/ RequestTurnCancellation(t)
                             \/ \E why \in {"cancel", "timeout"} : AbortFromCaller(t, why)
         \/ \E k \in Calls : Ask(k) \/ DecideOrTimeOut(k)
         \/ \E c \in Chats : Steer(c) \/ SweepSession(c)
         \/ DrainActiveTurns
         \/ UNCHANGED vars
  PROVE  RecordAside
<1> USE DEF queueVars, recordVars
<1>1. ASSUME NEW ts, NEW why, Abort(ts, why) PROVE RecordAside
  <2>1. UNION {Waiting(t) : t \in ts} \in SUBSET {k \in Calls : call[k] = "waiting"}
    BY DEF Waiting
  <2> QED
    BY <1>1, <2>1 DEF Abort, RecordAside
<1>2. ASSUME NEW k \in Calls, Ask(k) PROVE RecordAside
  <2>1. AskApproval(k, Aborted(caller[k])) /\ Aborted(caller[k]) \in BOOLEAN
    BY <1>2 DEF Ask, Aborted
  <2> QED
    BY <1>2, <2>1 DEF Ask, AskApproval, RecordAside
<1>3. ASSUME NEW k \in Calls, DecideOrTimeOut(k) PROVE RecordAside
  <2>1. {k} \in SUBSET {j \in Calls : call[j] = "waiting"} /\ EndWaits({k})
    BY <1>3 DEF DecideOrTimeOut, WaitEnds
  <2> QED
    BY <1>3, <2>1 DEF DecideOrTimeOut, WaitEnds, RecordAside
<1>4. ASSUME NEW t, DrainSteers(t) PROVE RecordAside
  BY <1>4 DEF DrainSteers, RecordAside
<1>5. ASSUME NEW c, Steer(c) \/ SweepSession(c) PROVE RecordAside
  BY <1>5 DEF Steer, SweepSession, RecordAside
<1>6. CASE UNCHANGED vars
  BY <1>6 DEF vars, RecordAside
<1> QED
  BY <1>1, <1>2, <1>3, <1>4, <1>5, <1>6
  DEF RequestTurnCancellation, AbortFromCaller, DrainActiveTurns

\* Every step writes for one turn, by its waits, or with the end of the process.
LEMMA RecordForms ==
  ASSUME IInv, [Next]_vars
  PROVE  (\E t \in Given : Others(t) /\ RecordTurn(t)) \/ RecordAside \/ Restart
<1> USE DEF IInv
<1>1. ASSUME NEW t \in Given, TurnStep(t) \/ OtherStep(t)
      PROVE  RecordTurn(t) \/ RecordAside
  <2>0. t \in Turns
    BY Scenario DEF Shape
  <2>1. CASE Arrive(t) \/ AcquireUserTurnSlot(t)
    BY <2>0, <2>1 DEF Arrive, Arrives, AcquireUserTurnSlot, Shape, RecordTurn, Idle, Outside
  <2>2. CASE Enter(t)
    BY <2>2, EnterRecord DEF RecordTurn
  <2>3. CASE ToolsDone(t) \/ BudgetElapses(t)
    BY <2>0, <2>3 DEF ToolsDone, BudgetElapses, Shape, RecordTurn, Idle, Thinking
  <2>4. CASE \E ks \in SUBSET given.calls : CallTools(t, ks)
    <3>1. given.calls \subseteq Calls
      BY TurnsAssumption DEF Shape
    <3> QED
      BY <2>0, <2>4, <3>1 DEF CallTools, Shape, RecordTurn, Batched, Thinking
  <2>5. CASE \/ \E failed \in BOOLEAN : BrainAnswers(t, failed)
             \/ AbortSettles(t) \/ SendSettles(t) \/ SendFails(t) \/ TurnFails(t)
    BY <2>5, HandlerRecord DEF RecordTurn
  <2>6. CASE CleanupDone(t)
    <3>1. phase'[t] = "over"
      BY <2>6, PlaceLetGo DEF CleanupDone, HoldsSlot
    <3> QED
      BY <2>6, <3>1 DEF CleanupDone, RecordTurn, Idle
  <2>7. CASE \/ DrainSteers(t) \/ RequestTurnCancellation(t)
             \/ \E why \in {"cancel", "timeout"} : AbortFromCaller(t, why)
             \/ \E k \in Calls : Ask(k) \/ DecideOrTimeOut(k)
    BY <2>7, OutsideRecord
  <2> QED
    BY <1>1, <2>1, <2>2, <2>3, <2>4, <2>5, <2>6, <2>7
    DEF TurnStep, PromptStep, OwnStep, OtherStep
<1>2. ASSUME NEW t \in Given, TurnStep(t) \/ OtherStep(t)
      PROVE  Others(t)
  <2>1. CASE TurnForm(t)
    <3>1. Forward(t)
      BY <1>2, <2>1, TurnForms, QueueKept
    <3> QED
      BY <3>1 DEF Forward, Others, Outside
  <2>2. CASE Noting
    BY <2>2 DEF Noting, queueVars, Others
  <2> QED
    BY <1>2, <2>1, <2>2, TurnForms
<1> QED
  BY <1>1, <1>2, OutsideRecord DEF Next

-----------------------------------------------------------------------------
(* The record's shape.                                                      *)
LEMMA PublishShape ==
  ASSUME RecordShape, NEW t \in Turns, NEW state \in Terminal, NEW status \in Statuses,
         PublishTurnState(t, state, status)
  PROVE  /\ turnState' \in [Turns -> Terminal \union {"open"}]
         /\ envelope' \in [Turns -> Statuses]
<1>1. CASE PublishAccepted(t, state)
  BY <1>1 DEF PublishTurnState, RecordShape
<1>2. CASE ~PublishAccepted(t, state)
  BY <1>2 DEF PublishTurnState, RecordShape
<1> QED
  BY <1>1, <1>2

\* A wait's write keeps the rows' shape.
LEMMA StatusShape ==
  ASSUME RecordShape, NEW ts \in SUBSET Turns, NEW status \in Statuses, SetStatus(ts, status)
  PROVE  envelope' \in [Turns -> Statuses] /\ late' \subseteq Turns
BY DEF SetStatus, RecordShape

\* Every step keeps the record's shape.
LEMMA RecordShapeKept ==
  ASSUME RInv, [Next]_vars
  PROVE  RecordShape'
<1> USE DEF RInv
<1>1. ASSUME NEW t \in Given, RecordTurn(t) PROVE RecordShape'
  <2>0. t \in Turns /\ "active" \in Statuses /\ "failed" \in Statuses /\ "FAILED" \in Terminal
    BY Scenario DEF IInv, Shape, Statuses, Open, Terminal
  <2>1. CASE Started(t)
    BY <2>0, <2>1 DEF Started, StartTurnEnvelope, RecordShape
  <2>2. CASE Ended(t)
    BY <2>0, <2>2, PublishShape DEF Ended, RecordShape
  <2>3. CASE Answered(t)
    BY <2>0, <2>3, PublishShape DEF Answered, RecordShape
  <2>4. CASE Batched(t)
    BY <2>0, <2>4 DEF Batched, StartBatch, RecordShape
  <2>5. CASE Idle(t)
    BY <2>5 DEF Idle, recordVars, RecordShape
  <2> QED
    BY <1>1, <2>1, <2>2, <2>3, <2>4, <2>5 DEF RecordTurn
<1>2. CASE RecordAside
  <2>0. {"active", "awaiting_approval"} \subseteq Statuses
    BY DEF Statuses, Open
  <2>1. CASE UNCHANGED <<envelope, call, late>>
    BY <1>2, <2>1 DEF RecordAside, RecordShape
  <2>2. ASSUME NEW k \in Calls, NEW aborted \in BOOLEAN, AskApproval(k, aborted)
        PROVE  RecordShape'
    <3>1. {caller[k]} \in SUBSET Turns
      BY <2>2 DEF AskApproval, Truth, CallsOfTurns
    <3>2. envelope' \in [Turns -> Statuses] /\ late' \subseteq Turns
      BY <2>0, <2>2, <3>1, StatusShape DEF AskApproval
    <3>3. call' \in [Calls -> {"unused", "running", "waiting", "asked"}]
      BY <2>2 DEF AskApproval, RecordShape
    <3> QED
      BY <1>2, <3>2, <3>3 DEF RecordAside, RecordShape
  <2>3. ASSUME NEW ks \in SUBSET {k \in Calls : call[k] = "waiting"}, EndWaits(ks)
        PROVE  RecordShape'
    <3>1. {caller[k] : k \in ks} \in SUBSET Turns
      BY <2>3 DEF Truth, CallsOfTurns
    <3>2. envelope' \in [Turns -> Statuses] /\ late' \subseteq Turns
      BY <2>0, <2>3, <3>1, StatusShape DEF EndWaits
    <3>3. call' \in [Calls -> {"unused", "running", "waiting", "asked"}]
      BY <2>3 DEF EndWaits, RecordShape
    <3> QED
      BY <1>2, <3>2, <3>3 DEF RecordAside, RecordShape
  <2> QED
    BY <1>2, <2>1, <2>2, <2>3 DEF RecordAside
<1>3. CASE Restart
  BY <1>3 DEF Restart, RecordRestart, RecordShape, Statuses
<1> QED
  BY <1>1, <1>2, <1>3, RecordForms

-----------------------------------------------------------------------------
(* Its truth.                                                               *)

\* What a terminal state does to the row: closed, unless the turn had another.
LEMMA Published ==
  ASSUME RecordShape, NEW t \in Turns, NEW state \in Terminal,
         NEW status \in Statuses \ (Open \union {"none"}), PublishTurnState(t, state, status)
  PROVE  /\ \A u \in Turns \ {t} : turnState'[u] = turnState[u] /\ envelope'[u] = envelope[u]
         /\ turnState'[t] \in Terminal
         /\ turnState[t] \in {"open", state} => /\ turnState'[t] = state
                                                /\ envelope[t] # "none" => envelope'[t] = status
                                                /\ envelope'[t] \notin Open
         /\ turnState[t] \notin {"open", state} => envelope'[t] = envelope[t]
<1>1. CASE PublishAccepted(t, state)
  BY <1>1 DEF PublishTurnState, PublishAccepted, RecordShape, Statuses, Open
<1>2. CASE ~PublishAccepted(t, state)
  BY <1>2 DEF PublishTurnState, PublishAccepted, RecordShape
<1> QED
  BY <1>1, <1>2

\* A step of a turn that leaves the calls alone, and the row of the others.
LEMMA TurnTruth ==
  ASSUME RInv, NEW t \in Turns, Others(t), phase' \in [Turns -> Phases],
         UNCHANGED <<caller, call, late>>, phase'[t] \notin Outside,
         \A u \in Turns \ {t} : turnState'[u] = turnState[u] /\ envelope'[u] = envelope[u],
         phase'[t] \in Registered =>
           \/ turnState'[t] = "open" /\ envelope'[t] \in Open
           \/ /\ phase'[t] = "sending" /\ turnState'[t] = "FAILED"
              /\ envelope'[t] = "failed" \/ (envelope'[t] \in Open /\ t \in late),
         phase'[t] \in {"closing", "over"} =>
           /\ turnState'[t] \in Terminal \/ (phase[t] = "closing" /\ turnState'[t] = turnState[t])
           /\ t \in late \/ envelope'[t] \notin Open,
         envelope'[t] = "awaiting_approval" => envelope[t] = "awaiting_approval"
  PROVE  Truth'
<1> USE DEF RInv, Truth
<1>1. \A u \in Turns \ {t} : /\ phase'[u] \in Registered <=> phase[u] \in Registered
                             /\ phase'[u] \in Outside => phase[u] \in Outside
                             /\ phase'[u] \notin Outside => phase'[u] = phase[u]
  BY DEF Others, Outside, Registered, Thinking
<1>2. RecordOutside'
  BY <1>1 DEF RecordOutside
<1>3. RecordAtWork'
  BY <1>1 DEF RecordAtWork, Outside, Registered, Thinking
<1>4. RecordOut'
  BY <1>1 DEF RecordOut, Outside
<1>5. CallsOfTurns'
  <2> SUFFICES ASSUME NEW k \in Calls, call[k] \in {"running", "waiting"}
               PROVE  /\ caller[k] \in Turns
                      /\ phase'[caller[k]] \in Registered \/ turnState'[caller[k]] \in Terminal
    BY DEF CallsOfTurns
  <2>1. /\ caller[k] \in Turns
        /\ phase[caller[k]] \in Registered \/ turnState[caller[k]] \in Terminal
    BY DEF CallsOfTurns
  <2>2. CASE caller[k] # t
    BY <1>1, <2>1, <2>2
  <2>3. CASE caller[k] = t
    <3>1. phase'[t] \in Registered \union {"closing", "over"}
      BY DEF Phases, HoldsSlot, Outside
    <3> QED
      BY <2>1, <2>3, <3>1 DEF Registered, Thinking
  <2> QED
    BY <2>2, <2>3
<1>6. AwaitingWaits'
  BY DEF AwaitingWaits, Waiting
<1> QED
  BY <1>2, <1>3, <1>4, <1>5, <1>6

\* A tool batch makes its calls the calls of a turn at work.
LEMMA BatchTruth ==
  ASSUME RInv, NEW t \in Turns, Others(t), Batched(t)
  PROVE  Truth'
<1> USE DEF RInv, Truth
<1>1. PICK ks \in SUBSET Calls : StartBatch(t, ks)
  BY DEF Batched
<1>2. /\ \A k \in ks : call[k] = "unused" /\ call'[k] = "running" /\ caller'[k] = t
      /\ \A k \in Calls \ ks : call'[k] = call[k] /\ caller'[k] = caller[k]
      /\ UNCHANGED <<turnState, envelope, late>>
  BY <1>1 DEF StartBatch
<1>3. /\ \A u \in Turns : /\ phase'[u] \in Registered <=> phase[u] \in Registered
                          /\ phase'[u] \in Outside => phase[u] \in Outside
                          /\ phase'[u] \in {"closing", "over"} => phase[u] \in {"closing", "over"}
                          /\ phase'[u] = "sending" <=> phase[u] = "sending"
      /\ phase'[t] \in Registered
  BY DEF Batched, Others, Outside, Registered, Thinking
<1>4. RecordOutside' /\ RecordAtWork' /\ RecordOut'
  BY <1>2, <1>3 DEF RecordOutside, RecordAtWork, RecordOut
<1>5. CallsOfTurns'
  BY <1>2, <1>3 DEF CallsOfTurns
<1>6. AwaitingWaits'
  <2>1. \A u \in Turns : Waiting(u) \subseteq Waiting(u)'
    BY <1>2 DEF Waiting
  <2> QED
    BY <1>2, <2>1 DEF AwaitingWaits
<1> QED
  BY <1>4, <1>5, <1>6

\* Every step of a turn keeps its record true.
LEMMA TurnTruthKept ==
  ASSUME RInv, NEW t \in Turns, Others(t), RecordTurn(t), phase' \in [Turns -> Phases]
  PROVE  Truth'
<1> USE DEF RInv
<1>1. CASE Started(t)
  <2>1. /\ turnState' = turnState /\ turnState[t] = "open"
        /\ envelope'[t] = "active" /\ \A u \in Turns \ {t} : envelope'[u] = envelope[u]
    BY <1>1 DEF Started, StartTurnEnvelope, RecordShape, Truth, RecordOutside
  <2> QED
    BY <1>1, <2>1, TurnTruth DEF Started, Outside, Open
<1>2. CASE Ended(t)
  <2>1. PICK state \in Terminal, status \in Statuses \ (Open \union {"none"}) :
          PublishTurnState(t, state, status)
    BY <1>2 DEF Ended
  <2>2. /\ \A u \in Turns \ {t} : turnState'[u] = turnState[u] /\ envelope'[u] = envelope[u]
        /\ turnState'[t] \in Terminal
        /\ turnState[t] \in {"open", state} => envelope'[t] \notin Open
        /\ turnState[t] \notin {"open", state} => envelope'[t] = envelope[t]
    BY <2>1, Published
  <2>3. turnState[t] \notin {"open", state} => t \in late \/ envelope[t] \notin Open
    <3>1. phase[t] \in Outside => turnState[t] = "open"
      BY DEF Truth, RecordOutside
    <3>2. phase[t] \in Registered /\ turnState[t] # "open" => t \in late \/ envelope[t] = "failed"
      BY DEF Truth, RecordAtWork
    <3> QED
      BY <1>2, <3>1, <3>2 DEF Ended, Open
  <2>4. envelope'[t] = "awaiting_approval" => envelope[t] = "awaiting_approval"
    BY <2>2 DEF Open
  <2>5. phase'[t] \notin Outside /\ phase'[t] \notin Registered /\ UNCHANGED <<caller, call, late>>
    BY <1>2 DEF Ended, Outside, Registered, Thinking
  <2>6. t \in late \/ envelope'[t] \notin Open
    BY <2>2, <2>3
  <2> QED
    BY <2>2, <2>4, <2>5, <2>6, TurnTruth
<1>3. CASE Answered(t)
  <2>1. turnState[t] = "open" /\ envelope[t] \in Open /\ phase'[t] = "sending"
    BY <1>3 DEF Answered, Truth, RecordAtWork, Registered, Thinking
  <2>2. CASE UNCHANGED <<turnState, envelope>>
    BY <1>3, <2>1, <2>2, TurnTruth DEF Answered, Outside
  <2>3. CASE PublishTurnState(t, "FAILED", "failed")
    <3>1. "FAILED" \in Terminal /\ "failed" \in Statuses \ (Open \union {"none"})
      BY DEF Terminal, Statuses, Open
    <3>2. /\ \A u \in Turns \ {t} : turnState'[u] = turnState[u] /\ envelope'[u] = envelope[u]
          /\ turnState'[t] = "FAILED" /\ envelope'[t] = "failed"
      BY <2>1, <2>3, <3>1, Published DEF Open
    <3> QED
      BY <1>3, <2>1, <3>2, TurnTruth DEF Answered, Outside
  <2> QED
    BY <1>3, <2>2, <2>3 DEF Answered
<1>4. CASE Batched(t)
  BY <1>4, BatchTruth
<1>5. CASE Idle(t)
  <2>1. UNCHANGED <<turnState, envelope, caller, call, late>>
    BY <1>5 DEF Idle, recordVars
  <2>2. CASE phase[t] \in Outside /\ phase'[t] \in Outside
    <3>1. \A u \in Turns : \/ phase'[u] = phase[u]
                           \/ phase[u] \in Outside /\ phase'[u] \in Outside
      BY <2>2 DEF Others
    <3>2. \A u \in Turns : /\ phase'[u] \in Registered <=> phase[u] \in Registered
                           /\ phase'[u] \in Outside <=> phase[u] \in Outside
                           /\ phase'[u] \notin Outside => phase'[u] = phase[u]
      BY <3>1 DEF Outside, Registered, Thinking
    <3>3. RecordOutside' /\ RecordAtWork' /\ RecordOut'
      BY <2>1, <3>2 DEF Truth, RecordOutside, RecordAtWork, RecordOut, Outside, Registered, Thinking
    <3>4. CallsOfTurns' /\ AwaitingWaits'
      BY <2>1, <3>2 DEF Truth, CallsOfTurns, AwaitingWaits, Waiting
    <3> QED
      BY <3>3, <3>4 DEF Truth
  <2>3. CASE phase[t] \in Thinking /\ phase'[t] \in Thinking
    <3>1. turnState[t] = "open" /\ envelope[t] \in Open
      BY <2>3 DEF Truth, RecordAtWork, Registered, Thinking
    <3> QED
      BY <2>1, <2>3, <3>1, TurnTruth DEF Outside, Thinking
  <2>4. CASE phase[t] = "closing" /\ phase'[t] = "over"
    <3>1. t \in late \/ envelope[t] \notin Open
      BY <2>4 DEF Truth, RecordOut
    <3> QED
      BY <2>1, <2>4, <3>1, TurnTruth DEF Outside, Registered, Thinking
  <2> QED
    BY <1>5, <2>2, <2>3, <2>4 DEF Idle
<1> QED
  BY <1>1, <1>2, <1>3, <1>4, <1>5 DEF RecordTurn

\* A wait that begins or ends writes rows of turns at work, or of ones that have
\* a terminal state and are then on the list of late ones.
LEMMA WaitTruth ==
  ASSUME RInv, UNCHANGED <<phase, turnState, caller>>,
         NEW ts \in SUBSET Turns, NEW status \in Open, SetStatus(ts, status),
         \A t \in ts : phase[t] \in Registered \/ turnState[t] \in Terminal,
         \A k \in Calls : call'[k] \in {"running", "waiting"} => call[k] \in {"running", "waiting"},
         \A k \in Calls : call[k] = "waiting" /\ caller[k] \notin ts => call'[k] = "waiting",
         status = "awaiting_approval" => \A t \in ts : Waiting(t)' # {}
  PROVE  Truth'
<1> USE DEF RInv, Truth
<1>1. /\ \A t \in Turns : envelope'[t] = IF t \in ts THEN status ELSE envelope[t]
      /\ late \subseteq late' /\ \A t \in ts : turnState[t] \in Terminal => t \in late'
  BY DEF SetStatus
<1>2. RecordOutside'
  <2>1. \A t \in ts : phase[t] \notin Outside
    BY DEF RecordOutside, Outside, Terminal, Registered, Thinking
  <2> QED
    BY <1>1, <2>1 DEF RecordOutside
<1>3. RecordAtWork'
  <2> SUFFICES ASSUME NEW t \in Turns, phase[t] \in Registered
               PROVE  \/ turnState[t] = "open" /\ envelope'[t] \in Open
                      \/ /\ phase[t] = "sending" /\ turnState[t] = "FAILED"
                         /\ envelope'[t] = "failed" \/ (envelope'[t] \in Open /\ t \in late')
    BY DEF RecordAtWork
  <2>1. CASE t \notin ts
    BY <1>1, <2>1 DEF RecordAtWork
  <2>2. CASE t \in ts
    BY <1>1, <2>2 DEF RecordAtWork, Terminal
  <2> QED
    BY <2>1, <2>2
<1>4. RecordOut'
  BY <1>1 DEF RecordOut, Registered, Thinking
<1>5. CallsOfTurns'
  BY DEF CallsOfTurns
<1>6. AwaitingWaits'
  <2> SUFFICES ASSUME NEW t \in Turns, envelope'[t] = "awaiting_approval"
               PROVE  Waiting(t)' # {}
    BY DEF AwaitingWaits
  <2>1. CASE t \in ts
    BY <1>1, <2>1
  <2>2. CASE t \notin ts
    <3>1. PICK k \in Calls : call[k] = "waiting" /\ caller[k] = t
      BY <1>1, <2>2 DEF AwaitingWaits, Waiting
    <3> QED
      BY <2>2, <3>1 DEF Waiting
  <2> QED
    BY <2>1, <2>2
<1> QED
  BY <1>2, <1>3, <1>4, <1>5, <1>6

\* A call that asks, and waits that end, keep it true.
LEMMA AsideTruth ==
  ASSUME RInv, RecordAside
  PROVE  Truth'
<1> USE DEF RInv
<1>1. CASE UNCHANGED <<envelope, call, late>>
  BY <1>1 DEF RecordAside, Truth, RecordOutside, RecordAtWork, RecordOut, CallsOfTurns,
              AwaitingWaits, Waiting
<1>2. ASSUME NEW k \in Calls, NEW aborted \in BOOLEAN, AskApproval(k, aborted)
      PROVE  Truth'
  <2>1. /\ caller[k] \in Turns
        /\ phase[caller[k]] \in Registered \/ turnState[caller[k]] \in Terminal
    BY <1>2 DEF AskApproval, Truth, CallsOfTurns
  <2>2. CASE aborted
    <3>1. /\ SetStatus({caller[k]}, "active")
          /\ call' = [call EXCEPT ![k] = "asked"]
      BY <1>2, <2>2 DEF AskApproval
    <3> QED
      BY <2>1, <3>1, WaitTruth DEF RecordAside, RecordShape, Open
  <2>3. CASE ~aborted
    <3>1. /\ SetStatus({caller[k]}, "awaiting_approval")
          /\ call' = [call EXCEPT ![k] = "waiting"] /\ call[k] = "running"
      BY <1>2, <2>3 DEF AskApproval
    <3>2. Waiting(caller[k])' # {}
      BY <3>1 DEF Waiting, RecordAside, RecordShape
    <3> QED
      BY <2>1, <3>1, <3>2, WaitTruth DEF RecordAside, RecordShape, Open
  <2> QED
    BY <2>2, <2>3
<1>3. ASSUME NEW ks \in SUBSET {k \in Calls : call[k] = "waiting"}, EndWaits(ks)
      PROVE  Truth'
  <2> DEFINE ts == {caller[k] : k \in ks}
  <2>1. \A t \in ts : t \in Turns /\ (phase[t] \in Registered \/ turnState[t] \in Terminal)
    BY <1>3 DEF Truth, CallsOfTurns
  <2>2. SetStatus(ts, "active")
    BY <1>3 DEF EndWaits
  <2>3. /\ \A k \in Calls : call'[k] \in {"running", "waiting"} => call[k] \in {"running", "waiting"}
        /\ \A k \in Calls : call[k] = "waiting" /\ caller[k] \notin ts => call'[k] = "waiting"
    BY <1>3 DEF EndWaits
  <2> HIDE DEF ts
  <2> QED
    BY <2>1, <2>2, <2>3, WaitTruth DEF RecordAside, Open
<1> QED
  BY <1>1, <1>2, <1>3 DEF RecordAside

\* The end of the process closes every row and leaves no wait.
LEMMA RestartTruth ==
  ASSUME RInv, Restart
  PROVE  Truth'
<1>1. /\ \A t \in Turns : phase'[t] = IF phase[t] = "new" THEN "new" ELSE "over"
      /\ \A t \in Turns : envelope'[t] = IF envelope[t] \in Open THEN "interrupted" ELSE envelope[t]
      /\ \A k \in Calls : call'[k] \in {"unused", "asked"}
      /\ turnState' = turnState
  BY DEF Restart, RecordRestart
<1> QED
  BY <1>1 DEF RInv, Truth, RecordOutside, RecordAtWork, RecordOut, CallsOfTurns, AwaitingWaits,
              Outside, Registered, Thinking, Open

-----------------------------------------------------------------------------
(* Steers, reasons and ends of the process.                                 *)

\* The handler's steps take a turn's steers away or leave them.
LEMMA SteersOnlyGo ==
  ASSUME NEW t, RegisterRunningTurn(t, Chat(t)) \/ FinishRunningTurn(t) \/ UNCHANGED registryVars
  PROVE  /\ DOMAIN pendingByTurn' \subseteq DOMAIN pendingByTurn
         /\ \A u \in DOMAIN pendingByTurn' : pendingByTurn'[u] = pendingByTurn[u]
BY DEF RegisterRunningTurn, FinishRunningTurn, Without, registryVars

\* An abort gives a reason where there was none.
LEMMA AbortAside ==
  ASSUME Aside, NEW ts, NEW why \in {"cancel", "timeout", "restart"}, Abort(ts, why),
         UNCHANGED pendingByTurn
  PROVE  Aside'
<1>1. reason' \in [Turns -> {"none", "cancel", "timeout", "restart"}]
  BY DEF Abort, Aside
<1> QED
  BY <1>1 DEF Abort, Aside

\* Every step keeps the number of steers within its limit.
LEMMA AsideKept ==
  ASSUME RInv, [Next]_vars
  PROVE  Aside'
<1> USE DEF RInv
<1>1. ASSUME NEW t \in Given, TurnForm(t), UNCHANGED <<reason, restarts>> PROVE Aside'
  <2>1. RegisterRunningTurn(t, Chat(t)) \/ FinishRunningTurn(t) \/ UNCHANGED registryVars
    BY <1>1 DEF TurnForm, Arrive, AcquireUserTurnSlot, Working, Refused, Moving, Sending, Ending, Closed
  <2> QED
    BY <1>1, <2>1, SteersOnlyGo DEF Aside
<1>2. ASSUME NEW t \in Given, TurnStep(t) \/ OtherStep(t) PROVE Aside'
  <2>1. CASE DrainSteers(t)
    BY <2>1 DEF DrainSteers, DrainSteer, Without, Aside
  <2>2. CASE RequestTurnCancellation(t)
    BY <2>2, AbortAside DEF RequestTurnCancellation, AbortRegistered
  <2>3. ASSUME NEW why \in {"cancel", "timeout"}, AbortFromCaller(t, why) PROVE Aside'
    BY <2>3, AbortAside DEF AbortFromCaller, registryVars
  <2>4. CASE \E k \in Calls : Ask(k) \/ DecideOrTimeOut(k)
    BY <2>4 DEF Ask, DecideOrTimeOut, registryVars, Aside
  <2> QED
    BY <1>1, <1>2, <2>1, <2>2, <2>3, <2>4, MovingForms DEF Reaching
<1>3. ASSUME NEW c, Steer(c) PROVE Aside'
  <2>1. PICK t : EnqueueSteer(t) /\ UNCHANGED <<reason, restarts>>
    BY <1>3 DEF Steer
  <2>2. SteersOf(t) \in Int /\ SteersOf(t) >= 0
    BY TurnsAssumption DEF SteersOf, Aside
  <2>3. \A u \in DOMAIN pendingByTurn' : pendingByTurn'[u] \in 1 .. SteerMax
    BY <2>1, <2>2, TurnsAssumption DEF EnqueueSteer, With, Aside
  <2> QED
    BY <2>1, <2>3 DEF Aside
<1>4. ASSUME NEW c, SweepSession(c) PROVE Aside'
  BY <1>4 DEF SweepSession, registryVars, Aside
<1>5. CASE DrainActiveTurns
  BY <1>5, AbortAside DEF DrainActiveTurns, AbortRegistered
<1>6. CASE Restart
  BY <1>6, TurnsAssumption DEF Restart, RegistryRestart, Empty, Aside
<1>7. CASE UNCHANGED vars
  BY <1>7 DEF vars, registryVars, Aside
<1> QED
  BY <1>2, <1>3, <1>4, <1>5, <1>6, <1>7 DEF Next

-----------------------------------------------------------------------------
(* The invariant.                                                           *)
LEMMA RecordInitKeeps == Init => RInv
<1> SUFFICES ASSUME Init PROVE RInv
  OBVIOUS
<1>1. IInv
  BY InitKeeps
<1>2. Aside
  BY TurnsAssumption DEF Init, RegistryInit, Empty, Aside
<1>3. RecordShape
  BY DEF Init, RecordInit, RecordShape, Statuses
<1>4. Truth
  BY DEF Init, RecordInit, Truth, RecordOutside, RecordAtWork, RecordOut, CallsOfTurns,
         AwaitingWaits, Registered, Thinking
<1> QED
  BY <1>1, <1>2, <1>3, <1>4 DEF RInv

\* The invariant is inductive.
LEMMA RecordStepKeeps == RInv /\ [Next]_vars => RInv'
<1> SUFFICES ASSUME RInv, [Next]_vars PROVE RInv'
  OBVIOUS
<1>1. IInv'
  BY StepKeeps DEF RInv
<1>2. Aside' /\ RecordShape'
  BY AsideKept, RecordShapeKept
<1>3. Truth'
  <2>1. ASSUME NEW t \in Given, Others(t), RecordTurn(t) PROVE Truth'
    <3>1. t \in Turns /\ phase' \in [Turns -> Phases]
      BY <1>1, Scenario DEF RInv, IInv, Shape
    <3> QED
      BY <2>1, <3>1, TurnTruthKept
  <2> QED
    BY <2>1, AsideTruth, RestartTruth, RecordForms DEF RInv
<1> QED
  BY <1>1, <1>2, <1>3 DEF RInv

\* It holds from the start and in every step.
LEMMA RecordInvariant == Spec => []RInv
BY RecordInitKeeps, RecordStepKeeps, PTL DEF Spec

\* The variables keep their shapes: the record's, the queue's and the registry's.
THEOREM TurnsTypeCorrect == Spec => []TypeOK
<1>1. RInv => TypeOK
  <2> SUFFICES ASSUME RInv PROVE TypeOK
    OBVIOUS
  <2> USE DEF RInv, IInv
  <2>0. Given \subseteq Turns /\ \A t \in Given : Chat(t) \in Chats
    BY Scenario DEF Shape
  <2>1. /\ DOMAIN activeTurns \subseteq Turns
        /\ \A t \in DOMAIN activeTurns : activeTurns[t] \in [chat : Chats, aborted : BOOLEAN]
        /\ phase \in [Turns -> HoldsSlot \union {"new", "line", "slot", "over"}]
        /\ object \in [Turns -> {"IDLE", "WORKING", "RESPONDING"}]
        /\ mine \in [Turns -> Turns \union {NoTurn}]
    BY DEF Shape, Phases
  <2>2. \A k \in DOMAIN activeTurnByChat : activeTurnByChat[k] \in Turns
    BY <2>1 DEF Registry
  <2>3. slots \in 0 .. given.limit /\ slotQueue \in Seq(Turns)
    <3>1. given.limit \in Nat
      BY Scenario DEF Shape
    <3>2. slotQueue \in Seq(Turns)
      BY <2>0, SeqMonotonic DEF InQueue
    <3> QED
      BY <3>1, <3>2 DEF Places
  <2>4. \A c \in DOMAIN controllers : c \in Chats /\ controllers[c] \in Turns
    BY <2>0 DEF Controllers, Controlling
  <2>5. \A c \in DOMAIN sessions : c \in Chats /\ sessions[c] \in Turns
    BY <2>0 DEF Objects
  <2> QED
    BY <2>1, <2>2, <2>3, <2>4, <2>5 DEF TypeOK, Aside, RecordShape, Statuses
<1> QED
  BY <1>1, RecordInvariant, PTL

\* The row a reader (the UI, recovery) sees tells the truth of a turn: its writers,
\* publishTurnState() and the approval waits, go each by their own look at the turn.
THEOREM RecordTellsTruth == Spec => []EnvelopeTellsTruth
<1>1. RInv => EnvelopeTellsTruth
  <2> SUFFICES ASSUME RInv, NEW t \in Turns
               PROVE  /\ phase[t] \in Registered => \/ envelope[t] \in Open
                                                    \/ phase[t] = "sending" /\ envelope[t] = "failed"
                      /\ phase[t] \in {"closing", "over"} /\ t \notin late => envelope[t] \notin Open
                      /\ envelope[t] = "awaiting_approval" => Waiting(t) # {}
    BY DEF EnvelopeTellsTruth
  <2> QED
    BY DEF RInv, Truth, RecordAtWork, RecordOut, AwaitingWaits
<1> QED
  BY <1>1, RecordInvariant, PTL
=============================================================================
