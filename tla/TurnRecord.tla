----------------------------- MODULE TurnRecord -----------------------------
(***************************************************************************)
(* What is on record of a turn: its control state (core/turn-control.ts),  *)
(* its durable envelope (memory/turn-envelopes.ts), and the approvals its  *)
(* tool calls wait for (security/gates.ts, security/approval-wait.ts,      *)
(* tools/executor.ts), which write the envelope from their side.           *)
(***************************************************************************)
EXTENDS Integers, FiniteSets

CONSTANTS Turns, Calls, NoTurn

VARIABLES turnState,  \* "open", or the terminal state of the turn control
          envelope,   \* the row's status, "none" without a row
          caller,     \* the turn that makes a tool call
          call,       \* "unused", "running", "waiting" for a decision, "asked"
          late        \* auxiliary: turns whose row a wait wrote after their end

recordVars == <<turnState, envelope, caller, call, late>>

Terminal == {"DONE", "FAILED", "CANCELLED"}
Status == [DONE |-> "completed", FAILED |-> "failed", CANCELLED |-> "cancelled"]
Open == {"active", "awaiting_approval"}

Waiting(t) == {k \in Calls : call[k] = "waiting" /\ caller[k] = t}

RecordInit ==
  /\ turnState = [t \in Turns |-> "open"]
  /\ envelope = [t \in Turns |-> "none"]
  /\ caller = [k \in Calls |-> NoTurn]
  /\ call = [k \in Calls |-> "unused"]
  /\ late = {}

StartTurnEnvelope(t) == envelope' = [envelope EXCEPT ![t] = "active"]

(* A terminal state accepts itself again and refuses every other. *)
PublishAccepted(t, state) == turnState[t] \in {"open", state}

(* publishTurnState() with a terminal state: a refused transition is ignored,
   the row follows an accepted one if there is a row. *)
PublishTurnState(t, state, status) ==
  IF PublishAccepted(t, state)
  THEN /\ turnState' = [turnState EXCEPT ![t] = state]
       /\ envelope' = [envelope EXCEPT ![t] = IF @ = "none" THEN @ ELSE status]
  ELSE UNCHANGED <<turnState, envelope>>

(* waitForApprovalDecisionForTurn() writes the row with no look at the turn. *)
SetStatus(ts, status) ==
  /\ envelope' = [t \in Turns |-> IF t \in ts THEN status ELSE envelope[t]]
  /\ late' = late \union {t \in ts : turnState[t] \in Terminal}

\* Mutant: the row is left as the wait has set it.
EndWaits_RowLeft(ks) ==
  /\ call' = [k \in Calls |-> IF k \in ks THEN "asked" ELSE call[k]]
  /\ UNCHANGED <<envelope, late>>

(* The waits of some calls end, each with the turn's row set to active. *)
EndWaits(ks) ==
  /\ call' = [k \in Calls |-> IF k \in ks THEN "asked" ELSE call[k]]
  /\ SetStatus({caller[k] : k \in ks}, "active")

(* The turn's tool batch starts, with calls that will each need an approval; *)
(* calls are numbered in the order they are made.                            *)
StartBatch(t, ks) ==
  /\ ks # {} /\ \A k \in ks : call[k] = "unused"
  /\ \A k \in ks, j \in Calls : j < k => j \in ks \/ call[j] # "unused"
  /\ call' = [k \in Calls |-> IF k \in ks THEN "running" ELSE call[k]]
  /\ caller' = [k \in Calls |-> IF k \in ks THEN t ELSE caller[k]]
  /\ UNCHANGED <<turnState, envelope, late>>

Unasked(t) == {k \in Calls : call[k] = "running" /\ caller[k] = t}

(* A call asks: under an aborted signal its wait is over as it begins. *)
AskApproval(k, aborted) ==
  /\ call[k] = "running"
  /\ call' = [call EXCEPT ![k] = IF aborted THEN "asked" ELSE "waiting"]
  /\ SetStatus({caller[k]}, IF aborted THEN "active" ELSE "awaiting_approval")
  /\ UNCHANGED <<turnState, caller>>

(* approveRequest(), rejectRequest() or the timeout of the wait.  The request *)
(* outlives a wait that timed out; its decision then reaches nobody.          *)
WaitEnds(k) ==
  /\ call[k] = "waiting"
  /\ EndWaits({k})
  /\ UNCHANGED <<turnState, caller>>

(* terminalizeStaleActiveTurns() at boot; waits and calls die unsettled. *)
RecordRestart ==
  /\ envelope' = [t \in Turns |-> IF envelope[t] \in Open THEN "interrupted" ELSE envelope[t]]
  /\ call' = [k \in Calls |-> IF call[k] = "unused" THEN "unused" ELSE "asked"]
  /\ UNCHANGED <<turnState, caller, late>>
=============================================================================
