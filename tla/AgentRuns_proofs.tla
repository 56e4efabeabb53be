---------------------------- MODULE AgentRuns_proofs ---------------------------
(***************************************************************************)
(* The agent product for any number of messages, attempts and limits.      *)
(*                                                                         *)
(* Four writers move the rows of one message: the coordinator, the reaper, *)
(* the lease and the report of Nekro.  Rows says the five ways a step can  *)
(* do that, and the rest is argued from them.  SettledTogether is not      *)
(* inductive alone: between its two commits the coordinator must find the  *)
(* intent it goes on from (Intended).  The limit of a conversation needs   *)
(* the admission lock (Admission): one message counted and not inserted,   *)
(* and room for it.  The budget needs that a loop exists only for a run    *)
(* that is over (Budgeted), so that the planner adds no attempt under a    *)
(* continuation.  And a text goes out once because an intent, once handed  *)
(* out, is never to be handed out again, whatever is lost (Held).          *)
(***************************************************************************)
EXTENDS AgentRuns, FiniteSetTheorems, SequenceTheorems, TLAPS

LEMMA Bounds ==
    /\ MaxTime \in Nat /\ MaxFaults \in Nat /\ MaxConcurrent \in Nat /\ MaxConcurrent > 0
    /\ MaxAttempts \in Nat /\ MaxAttempts > 0
    /\ InteractionLife \in Nat /\ RunLife \in Nat /\ LeaseLife \in Nat
    /\ OutcomesUsed \subseteq Outcomes
    /\ None \notin Steps /\ None \notin Sending
BY LimitsAssumption, MaxAttemptsAssumption, OutcomesUsedAssumption, NothingHeldAssumption

-------------------------------------------------------------------------------
(* Types.                                                                  *)

LEMMA MovesTyped ==
    ASSUME TypeOK, NEW m \in Messages, NEW to, Move(m, to)
    PROVE  interactions' \in [Messages -> InteractionStates]
BY DEF TypeOK, Move, LegalMove, InteractionStates, Active, Settled

LEMMA FinishTyped ==
    ASSUME TypeOK, NEW m \in Messages, NEW outcome, NEW from \in {"pending", "leased"},
           CanFinish(m, from, outcome), Finish(m, outcome)
    PROVE  /\ interactions' \in [Messages -> InteractionStates]
           /\ intents' \in [Messages -> Intents]
<1>1. outcome \in Settled
  BY DEF CanFinish, LegalDelivery, LegalMove, Settled
<1>2. interactions' \in [Messages -> InteractionStates]
  BY <1>1 DEF TypeOK, Finish, InteractionStates
<1>3. PICK old \in Intents : old = intents[m]
  BY DEF TypeOK
<1>4. old.events < 3 /\ old.events \in 0 .. 3
  BY <1>3 DEF CanFinish, EventFree, Intents
<1>5. PICK new : new = [old EXCEPT !.state = outcome, !.events = old.events + 1]
  OBVIOUS
<1>6. new = [state |-> outcome, until |-> old.until, events |-> old.events + 1]
  BY <1>5 DEF Intents
<1>7. new \in Intents
  BY <1>1, <1>4, <1>6 DEF Intents
<1>8. intents' = [intents EXCEPT ![m] = new]
  BY <1>3, <1>5 DEF Finish
<1> QED
  BY <1>2, <1>7, <1>8 DEF TypeOK

LEMMA CoordinateTyped ==
    ASSUME TypeOK, NEW m \in Messages, Coordinate(m)
    PROVE  TypeOK'
<1>1. CASE ExpireInteraction(m) \/ FailInteraction(m) \/ StartContinuation(m)
  BY <1>1, MovesTyped DEF TypeOK, ExpireInteraction, FailInteraction, StartContinuation, planVars
<1>2. CASE CreateRun(m)
  <2>1. now + RunLife \in Int /\ <<>> \in Seq(Outcomes)
    BY Bounds DEF TypeOK
  <2>2. [state |-> "context_ready", reports |-> <<>>, deadline |-> now + RunLife] \in Runs
    BY <2>1 DEF Runs, RunStates
  <2>3. runs' \in [Messages -> Runs]
    BY <1>2, <2>2 DEF CreateRun, TypeOK
  <2>4. step' \in Steps
    BY <1>2 DEF CreateRun, StepTo, Steps
  <2> QED
    BY <1>2, <2>3, <2>4 DEF TypeOK, CreateRun
<1>3. CASE StartPlanning(m) \/ AwaitTool(m) \/ AwaitDelivery(m)
  <2>1. interactions' \in [Messages -> InteractionStates]
    BY <1>3, MovesTyped DEF StartPlanning, AwaitTool, AwaitDelivery, TypeOK
  <2> QED
    BY <1>3, <2>1 DEF TypeOK, StartPlanning, AwaitTool, AwaitDelivery, planVars
<1>4. CASE DispatchRun(m) \/ DispatchLoop(m)
  BY <1>4 DEF TypeOK, DispatchRun, DispatchLoop, coreVars, planVars
<1>5. CASE PromoteProposal(m)
  <2>1. invocations' \in [Messages -> Invocations] /\ step' \in Steps
    <3>1. CASE loops[m].state # "none"
      <4>1. UNCHANGED invocations /\ step' = [of |-> m, at |-> "promoted", queued |-> FALSE]
        BY <1>5, <3>1 DEF PromoteProposal, StepTo
      <4> QED
        BY <4>1 DEF TypeOK, Steps
    <3>2. CASE loops[m].state = "none"
      <4>1. PICK state \in {"queued", "failed"} :
              /\ invocations' = [invocations EXCEPT ![m] = InvocationFor(m, state)]
              /\ step' = [of |-> m, at |-> "invoked", queued |-> invocations'[m].state = "queued"]
        BY <1>5, <3>2 DEF PromoteProposal
      <4>2. InvocationFor(m, state) \in Invocations
        BY DEF InvocationFor, Invocations, InvocationStates, TypeOK
      <4>3. (invocations'[m].state = "queued") \in BOOLEAN
        OBVIOUS
      <4> QED
        BY <4>1, <4>2, <4>3 DEF TypeOK, Steps
    <3> QED
      BY <3>1, <3>2
  <2> QED
    BY <1>5, <2>1 DEF TypeOK, PromoteProposal
<1>6. CASE RecordLoop(m)
  <2>1. PICK state \in {"tool_pending", "failed"} : loops' = [loops EXCEPT ![m].state = state]
    BY <1>6 DEF RecordLoop
  <2>2. loops' \in [Messages -> Loops]
    BY <2>1 DEF TypeOK, Loops, LoopStates
  <2>3. step' \in Steps
    BY <1>6 DEF RecordLoop, StepTo, Steps
  <2> QED
    BY <1>6, <2>2, <2>3 DEF TypeOK, RecordLoop
<1>7. CASE CreateIntent(m)
  <2>1. [state |-> "pending", until |-> due[m], events |-> 1] \in Intents
    BY DEF TypeOK, Intents
  <2>2. intents' \in [Messages -> Intents] /\ step' \in Steps
    BY <1>7, <2>1 DEF TypeOK, CreateIntent, StepTo, Steps
  <2> QED
    BY <1>7, <2>2 DEF TypeOK, CreateIntent, planVars
<1> QED
  BY <1>1, <1>2, <1>3, <1>4, <1>5, <1>6, <1>7 DEF Coordinate

\* A continuation completes only within the budget.
LEMMA ContinuationFacts ==
    ASSUME TypeOK, NEW m \in Messages, NEW outcome
    PROVE  /\ ContinuationState(m, outcome) \in {"budget_exhausted", "complete", "result_ready", "failed"}
           /\ ContinuationState(m, outcome) = "complete" => NextAttempt(m) <= MaxAttempts
           /\ NextAttempt(m) = Len(runs[m].reports) + Len(loops[m].reports) + 1
           /\ Len(runs[m].reports) \in Nat /\ Len(loops[m].reports) \in Nat
<1>1. runs[m] \in Runs /\ loops[m] \in Loops
  BY DEF TypeOK
<1>2. Len(runs[m].reports) \in Nat /\ Len(loops[m].reports) \in Nat
  BY <1>1, LenProperties DEF Runs, Loops
<1>3. NextAttempt(m) \in Nat /\ runs[m].deadline \in Int /\ now \in Int /\ MaxAttempts \in Nat
  BY <1>1, <1>2, Bounds DEF NextAttempt, TypeOK, Runs
<1>4. CASE outcome = "costly" \/ NextAttempt(m) > MaxAttempts \/ now > runs[m].deadline
  <2>1. ~(outcome = "answer" /\ NextAttempt(m) <= MaxAttempts /\ now <= runs[m].deadline)
    BY <1>3, <1>4
  <2> QED
    BY <1>2, <1>4, <2>1 DEF ContinuationState, NextAttempt
<1>5. CASE ~(outcome = "costly" \/ NextAttempt(m) > MaxAttempts \/ now > runs[m].deadline)
  BY <1>2, <1>5 DEF ContinuationState, NextAttempt
<1> QED
  BY <1>4, <1>5

LEMMA WorkTyped ==
    ASSUME TypeOK, NEW m \in Messages, Work(m)
    PROVE  TypeOK'
<1>1. ASSUME NEW outcome \in OutcomesUsed, ReportAttempt(m, outcome)
      PROVE  TypeOK'
  <2>1. PICK old \in Runs : old = runs[m]
    BY DEF TypeOK
  <2>2. PICK state : state = AttemptState(m, outcome)
    OBVIOUS
  <2>3. PICK reports \in Seq(Outcomes) : reports = Append(old.reports, outcome)
    <3>1. old.reports \in Seq(Outcomes) /\ outcome \in Outcomes
      BY Bounds DEF Runs
    <3> QED
      BY <3>1, AppendProperties
  <2>4. PICK new : new = [old EXCEPT !.state = state, !.reports = reports]
    OBVIOUS
  <2>5. new = [state |-> state, reports |-> reports, deadline |-> old.deadline]
    BY <2>4 DEF Runs
  <2>6. CASE runs' = [runs EXCEPT ![m] = new] /\ LegalReport(runs[m], runs'[m])
    <3>1. runs'[m] = new
      BY <2>6 DEF TypeOK
    <3>2. state \in RunStates
      BY <2>5, <2>6, <3>1 DEF LegalReport, RunStates
    <3>3. new \in Runs
      BY <2>5, <3>2 DEF Runs
    <3> QED
      BY <1>1, <2>6, <3>3 DEF TypeOK, ReportAttempt
  <2>7. CASE runs' = runs
    BY <1>1, <2>7 DEF TypeOK, ReportAttempt
  <2> QED
    BY <1>1, <2>1, <2>2, <2>3, <2>4, <2>6, <2>7 DEF ReportAttempt
<1>2. ASSUME NEW outcome \in OutcomesUsed, ReportContinuation(m, outcome)
      PROVE  TypeOK'
  <2>1. PICK old \in Loops : old = loops[m]
    BY DEF TypeOK
  <2>2. PICK state : state = ContinuationState(m, outcome)
    OBVIOUS
  <2>3. PICK reports \in Seq(Outcomes) : reports = Append(old.reports, outcome)
    <3>1. old.reports \in Seq(Outcomes) /\ outcome \in Outcomes
      BY Bounds DEF Loops
    <3> QED
      BY <3>1, AppendProperties
  <2>5. PICK new : new = [state |-> state, reports |-> reports]
    OBVIOUS
  <2>6. state \in LoopStates
    BY <2>2, ContinuationFacts DEF LoopStates
  <2>7. new \in Loops
    BY <2>5, <2>6 DEF Loops
  <2>8. loops' = [loops EXCEPT ![m] = new] \/ loops' = loops
    BY <1>2, <2>1, <2>2, <2>3, <2>5 DEF ReportContinuation
  <2> QED
    BY <1>2, <2>7, <2>8 DEF TypeOK, ReportContinuation
<1>3. CASE ToolEnds(m)
  BY <1>3 DEF TypeOK, ToolEnds, Invocations, InvocationStates
<1>4. CASE RefreshLoop(m)
  <2>1. PICK state \in {"result_ready", "budget_exhausted", "failed"} :
          loops' = [loops EXCEPT ![m].state = state]
    BY <1>4 DEF RefreshLoop
  <2> QED
    BY <1>4, <2>1 DEF TypeOK, RefreshLoop, Loops, LoopStates
<1> QED
  BY <1>1, <1>2, <1>3, <1>4 DEF Work

LEMMA DeliverTyped ==
    ASSUME TypeOK, Deliver
    PROVE  TypeOK'
<1>1. CASE ReadDue
  <2>1. \A m \in Messages : Due(m) => intents[m].state \in {"pending", "leased"}
    BY DEF Due
  <2>2. reaping' \subseteq [of : Messages, from : {"pending", "leased"}]
    BY <1>1, <2>1 DEF ReadDue
  <2> QED
    BY <1>1, <2>2 DEF TypeOK, ReadDue, planVars
<1>2. ASSUME NEW m \in Messages, NEW from \in {"pending", "leased"}, ReapIntent(m, from)
      PROVE  TypeOK'
  <2>1. /\ interactions' \in [Messages -> InteractionStates]
        /\ intents' \in [Messages -> Intents]
    <3>1. CASE CanFinish(m, from, ReapOutcome(from))
      BY <1>2, <3>1, FinishTyped DEF ReapIntent
    <3>2. CASE ~CanFinish(m, from, ReapOutcome(from))
      BY <1>2, <3>2 DEF ReapIntent, TypeOK
    <3> QED
      BY <3>1, <3>2
  <2>2. reaping' \subseteq reaping
    BY <1>2 DEF ReapIntent
  <2> QED
    BY <1>2, <2>1, <2>2 DEF TypeOK, ReapIntent, planVars
<1>3. ASSUME NEW m \in Messages, NEW answered \in BOOLEAN, LeaseIntent(m, answered)
      PROVE  TypeOK'
  <2>1. [state |-> "leased", until |-> now + LeaseLife, events |-> 2] \in Intents
    <3>1. now + LeaseLife \in Int
      BY Bounds DEF TypeOK
    <3> QED
      BY <3>1 DEF Intents
  <2>2. intents' \in [Messages -> Intents]
    BY <1>3, <2>1 DEF LeaseIntent, TypeOK
  <2>3. sender' \in Sending \cup {None} /\ faults' \in 0 .. MaxFaults
    <3>1. CASE answered
      BY <1>3, <3>1 DEF LeaseIntent, TypeOK, Sending
    <3>2. CASE ~answered
      BY <1>3, <3>2, Bounds DEF LeaseIntent, TypeOK
    <3> QED
      BY <3>1, <3>2
  <2> QED
    BY <1>3, <2>2, <2>3 DEF TypeOK, LeaseIntent, planVars
<1>4. ASSUME NEW goes \in BOOLEAN, NEW outcome \in {"succeeded", "failed", "ambiguous"},
             SendText(goes, outcome)
      PROVE  TypeOK'
  <2>1. sender \in Sending
    BY <1>4 DEF SendText, TypeOK
  <2>2. sender' \in Sending /\ sent' \subseteq Messages
    BY <1>4, <2>1 DEF SendText, TypeOK, Sending
  <2> QED
    BY <1>4, <2>2 DEF TypeOK, SendText, coreVars, planVars
<1>5. CASE CompleteDelivery
  <2>1. sender \in Sending
    BY <1>5 DEF CompleteDelivery, TypeOK
  <2>2. PICK m \in Messages : m = sender.of
    BY <2>1 DEF Sending
  <2>3. PICK outcome : outcome = sender.outcome
    OBVIOUS
  <2>4. /\ interactions' \in [Messages -> InteractionStates]
        /\ intents' \in [Messages -> Intents]
    <3>1. CASE CanFinish(m, "leased", outcome)
      BY <1>5, <2>2, <2>3, <3>1, FinishTyped DEF CompleteDelivery
    <3>2. CASE ~CanFinish(m, "leased", outcome)
      BY <1>5, <2>2, <2>3, <3>2 DEF CompleteDelivery, TypeOK
    <3> QED
      BY <3>1, <3>2
  <2> QED
    BY <1>5, <2>4 DEF TypeOK, CompleteDelivery, planVars
<1> QED
  BY <1>1, <1>2, <1>3, <1>4, <1>5 DEF Deliver

LEMMA OtherTyped ==
    ASSUME TypeOK,
           \/ \E m \in Messages : CountLimits(m) \/ AcceptInteraction(m) \/ LoseCall(m)
           \/ Tick \/ RestartCore \/ LoseSender
    PROVE  TypeOK'
<1>1. ASSUME NEW m \in Messages, CountLimits(m)
      PROVE  TypeOK'
  BY <1>1 DEF TypeOK, CountLimits, planVars
<1>2. ASSUME NEW m \in Messages, AcceptInteraction(m)
      PROVE  TypeOK'
  <2>1. now + InteractionLife \in Int
    BY Bounds DEF TypeOK
  <2> QED
    BY <1>2, <2>1 DEF TypeOK, AcceptInteraction, planVars, InteractionStates, Active
<1>3. ASSUME NEW m \in Messages, LoseCall(m)
      PROVE  TypeOK'
  <2>1. faults' \in 0 .. MaxFaults
    BY <1>3, Bounds DEF LoseCall, Fault, TypeOK
  <2> QED
    BY <1>3, <2>1 DEF TypeOK, LoseCall, Fault, coreVars, planVars
<1>4. CASE Tick
  <2>1. now' \in 0 .. MaxTime
    BY <1>4, Bounds DEF Tick, TypeOK
  <2> QED
    BY <1>4, <2>1 DEF TypeOK, Tick, coreVars, planVars
<1>5. CASE RestartCore
  <2>1. faults' \in 0 .. MaxFaults
    BY <1>5, Bounds DEF RestartCore, Fault, TypeOK
  <2> QED
    BY <1>5, <2>1 DEF TypeOK, RestartCore, Fault, planVars
<1>6. CASE LoseSender
  <2>1. faults' \in 0 .. MaxFaults
    BY <1>6, Bounds DEF LoseSender, Fault, TypeOK
  <2> QED
    BY <1>6, <2>1 DEF TypeOK, LoseSender, Fault, coreVars, planVars
<1> QED
  BY <1>1, <1>2, <1>3, <1>4, <1>5, <1>6

LEMMA NextTyped ==
    ASSUME TypeOK, [Next]_vars
    PROVE  TypeOK'
<1>1. CASE UNCHANGED vars
  BY <1>1 DEF TypeOK, vars, coreVars, planVars
<1>2. CASE Next
  BY <1>2, CoordinateTyped, WorkTyped, DeliverTyped, OtherTyped DEF Next
<1> QED
  BY <1>1, <1>2

LEMMA InitTyped == Init => TypeOK
BY Bounds DEF Init, TypeOK, InteractionStates, Runs, RunStates, NoRun, Invocations,
   InvocationStates, NoInvocation, Loops, LoopStates, NoLoop, Intents, NoIntent

\* Every variable keeps its type.
THEOREM TypeCorrect == Spec => []TypeOK
BY InitTyped, NextTyped, PTL DEF Spec

-------------------------------------------------------------------------------
(* How the rows of a message move: a step does one of these to them.       *)

Same(m) == interactions'[m] = interactions[m] /\ intents'[m] = intents[m]

\* A transition of the coordinator, which settles only what has no delivery to wait for.
Coordinated(m) ==
    /\ LegalMove(interactions[m], interactions'[m]) /\ interactions[m] # "delivery_pending"
    /\ interactions'[m] = "delivery_pending" => At(m, "intent")
    /\ intents'[m] = intents[m]

Accepted(m) ==
    /\ m \in admitting /\ admitting' = admitting \ {m}
    /\ interactions'[m] = "accepted" /\ intents'[m] = intents[m]

\* The intent is created and handed out while its interaction waits.
Prepared(m) ==
    /\ interactions'[m] = interactions[m]
    /\ \/ /\ intents[m].state = "none" /\ intents'[m].state = "pending" /\ TextReady(m)
       \/ /\ intents[m].state = "pending" /\ intents'[m].state = "leased"

Finished(m) ==
    /\ intents[m].state \in {"pending", "leased"} /\ intents'[m].state \in Settled
    /\ LegalMove(interactions[m], intents'[m].state)
    /\ interactions'[m] = intents'[m].state

Row(m) == Same(m) \/ Coordinated(m) \/ Accepted(m) \/ Prepared(m) \/ Finished(m)

LEMMA MoveRow ==
    ASSUME TypeOK, NEW m \in Messages, NEW to, Move(m, to), UNCHANGED intents,
           interactions[m] # "delivery_pending", to = "delivery_pending" => At(m, "intent"),
           NEW x \in Messages
    PROVE  Row(x)
<1>1. interactions' = [interactions EXCEPT ![m] = to] /\ LegalMove(interactions[m], to)
  BY DEF Move
<1>2. CASE x = m
  <2>1. interactions'[m] = to
    BY <1>1 DEF TypeOK
  <2> QED
    BY <1>1, <1>2, <2>1 DEF Row, Coordinated
<1>3. CASE x # m
  BY <1>1, <1>3 DEF Row, Same, TypeOK
<1> QED
  BY <1>2, <1>3

LEMMA FinishRow ==
    ASSUME TypeOK, NEW m \in Messages, NEW from, NEW outcome, CanFinish(m, from, outcome),
           Finish(m, outcome), NEW x \in Messages
    PROVE  Row(x)
<1>1. /\ LegalDelivery(intents[m].state, outcome) /\ LegalMove(interactions[m], outcome)
      /\ interactions' = [interactions EXCEPT ![m] = outcome]
  BY DEF CanFinish, Finish
<1>2. PICK new : new = [intents[m] EXCEPT !.state = outcome, !.events = intents[m].events + 1]
  OBVIOUS
<1>3. intents' = [intents EXCEPT ![m] = new]
  BY <1>2 DEF Finish
<1>4. CASE x = m
  <2>1. interactions'[m] = outcome /\ intents'[m] = new
    BY <1>1, <1>3 DEF TypeOK
  <2>2. new.state = outcome
    BY <1>2 DEF TypeOK, Intents
  <2>3. outcome \in Settled /\ intents[m].state \in {"pending", "leased"}
    BY <1>1 DEF LegalDelivery, LegalMove, Settled
  <2> QED
    BY <1>1, <1>4, <2>1, <2>2, <2>3 DEF Row, Finished
<1>5. CASE x # m
  BY <1>1, <1>3, <1>5 DEF Row, Same, TypeOK
<1> QED
  BY <1>4, <1>5

LEMMA CoordinateRow ==
    ASSUME TypeOK, NEW m \in Messages, Coordinate(m), NEW x \in Messages
    PROVE  Row(x)
<1>1. CASE ExpireInteraction(m)
  <2>1. Move(m, "expired") /\ interactions[m] # "delivery_pending" /\ UNCHANGED intents
    BY <1>1 DEF ExpireInteraction
  <2> QED
    BY <2>1, MoveRow
<1>2. CASE FailInteraction(m)
  <2>1. Move(m, "failed") /\ interactions[m] # "delivery_pending" /\ UNCHANGED intents
    BY <1>2 DEF FailInteraction, Takes
  <2> QED
    BY <2>1, MoveRow
<1>3. CASE StartPlanning(m)
  <2>1. Move(m, "planning") /\ interactions[m] # "delivery_pending" /\ UNCHANGED intents
    BY <1>3 DEF StartPlanning, Move, LegalMove, Settled
  <2> QED
    BY <2>1, MoveRow
<1>4. CASE AwaitTool(m)
  <2>1. Move(m, "tool_pending") /\ interactions[m] # "delivery_pending" /\ UNCHANGED intents
    BY <1>4 DEF AwaitTool, Move, LegalMove, Settled
  <2> QED
    BY <2>1, MoveRow
<1>5. CASE StartContinuation(m)
  <2>1. Move(m, "continuing") /\ interactions[m] # "delivery_pending" /\ UNCHANGED intents
    BY <1>5 DEF StartContinuation, Takes
  <2> QED
    BY <2>1, MoveRow
<1>6. CASE AwaitDelivery(m)
  <2>1. CASE LegalMove(interactions[m], "delivery_pending")
    <3>1. /\ Move(m, "delivery_pending") /\ interactions[m] # "delivery_pending"
          /\ UNCHANGED intents /\ At(m, "intent")
      BY <1>6, <2>1 DEF AwaitDelivery, LegalMove, Settled
    <3> QED
      BY <3>1, MoveRow
  <2>2. CASE ~LegalMove(interactions[m], "delivery_pending")
    BY <1>6, <2>2 DEF AwaitDelivery, Row, Same
  <2> QED
    BY <2>1, <2>2
<1>7. CASE CreateRun(m) \/ DispatchRun(m) \/ PromoteProposal(m) \/ RecordLoop(m) \/ DispatchLoop(m)
  BY <1>7 DEF CreateRun, DispatchRun, PromoteProposal, RecordLoop, DispatchLoop, coreVars, Row, Same
<1>8. CASE CreateIntent(m)
  <2>1. CASE intents[m].state = "none"
    <3>1. intents' = [intents EXCEPT ![m] = [state |-> "pending", until |-> due[m], events |-> 1]]
      BY <1>8, <2>1 DEF CreateIntent
    <3>2. intents'[m].state = "pending" /\ \A y \in Messages \ {m} : intents'[y] = intents[y]
      BY <3>1 DEF TypeOK
    <3> QED
      BY <1>8, <2>1, <3>2 DEF CreateIntent, Row, Same, Prepared
  <2>2. CASE intents[m].state # "none"
    BY <1>8, <2>2 DEF CreateIntent, Row, Same
  <2> QED
    BY <2>1, <2>2
<1> QED
  BY <1>1, <1>2, <1>3, <1>4, <1>5, <1>6, <1>7, <1>8 DEF Coordinate

LEMMA DeliverRow ==
    ASSUME TypeOK, Deliver, NEW x \in Messages
    PROVE  Row(x)
<1>1. CASE ReadDue
  BY <1>1 DEF ReadDue, Row, Same
<1>2. ASSUME NEW m \in Messages, NEW from \in {"pending", "leased"}, ReapIntent(m, from)
      PROVE  Row(x)
  <2>1. CASE CanFinish(m, from, ReapOutcome(from))
    BY <1>2, <2>1, FinishRow DEF ReapIntent
  <2>2. CASE ~CanFinish(m, from, ReapOutcome(from))
    BY <1>2, <2>2 DEF ReapIntent, Row, Same
  <2> QED
    BY <2>1, <2>2
<1>3. ASSUME NEW m \in Messages, NEW answered \in BOOLEAN, LeaseIntent(m, answered)
      PROVE  Row(x)
  <2>1. intents' = [intents EXCEPT ![m] = [state |-> "leased", until |-> now + LeaseLife, events |-> 2]]
    BY <1>3 DEF LeaseIntent
  <2>2. intents'[m].state = "leased" /\ \A y \in Messages \ {m} : intents'[y] = intents[y]
    BY <2>1 DEF TypeOK
  <2> QED
    BY <1>3, <2>2 DEF LeaseIntent, Leasable, Row, Same, Prepared
<1>4. ASSUME NEW goes \in BOOLEAN, NEW outcome \in {"succeeded", "failed", "ambiguous"},
             SendText(goes, outcome)
      PROVE  Row(x)
  BY <1>4 DEF SendText, coreVars, Row, Same
<1>5. CASE CompleteDelivery
  <2>1. sender \in Sending
    BY <1>5 DEF CompleteDelivery, TypeOK
  <2>2. PICK m \in Messages : m = sender.of
    BY <2>1 DEF Sending
  <2>3. PICK outcome : outcome = sender.outcome
    OBVIOUS
  <2>4. CASE CanFinish(m, "leased", outcome)
    BY <1>5, <2>2, <2>3, <2>4, FinishRow DEF CompleteDelivery
  <2>5. CASE ~CanFinish(m, "leased", outcome)
    BY <1>5, <2>2, <2>3, <2>5 DEF CompleteDelivery, Row, Same
  <2> QED
    BY <2>4, <2>5
<1> QED
  BY <1>1, <1>2, <1>3, <1>4, <1>5 DEF Deliver

\* The rows of every message move in one of the five ways.
LEMMA Rows ==
    ASSUME TypeOK, [Next]_vars, NEW x \in Messages
    PROVE  Row(x)
<1>1. CASE UNCHANGED vars
  BY <1>1 DEF vars, coreVars, Row, Same
<1>2. ASSUME NEW m \in Messages, AcceptInteraction(m)
      PROVE  Row(x)
  BY <1>2 DEF AcceptInteraction, Row, Same, Accepted, TypeOK
<1>3. ASSUME NEW m \in Messages, CountLimits(m) \/ Work(m) \/ LoseCall(m)
      PROVE  Row(x)
  BY <1>3 DEF CountLimits, Work, ReportAttempt, ReportContinuation, ToolEnds, RefreshLoop, LoseCall,
              coreVars, Row, Same
<1>4. CASE Tick \/ RestartCore \/ LoseSender
  BY <1>4 DEF Tick, RestartCore, LoseSender, coreVars, Row, Same
<1> QED
  BY <1>1, <1>2, <1>3, <1>4, CoordinateRow, DeliverRow DEF Next

-------------------------------------------------------------------------------
(* The inductive invariant.                                                *)

\* Who counts the limits holds the conversation's lock until it has inserted.
Admission ==
    /\ \A m, x \in admitting : m = x
    /\ \A m \in admitting : interactions[m] = "none"
    /\ IsFiniteSet(ActiveMessages)
    /\ Cardinality(ActiveMessages) <= MaxConcurrent
    /\ admitting # {} => Cardinality(ActiveMessages) < MaxConcurrent

\* The coordinator lets an interaction wait only for an intent it has committed.
Intended == \A m \in Messages : At(m, "intent") => intents[m].state # "none"

\* What is held or sent was handed out, and what is reported as sent was.
HandedOut(m) == intents[m].state \notin {"none", "pending"}
Held ==
    /\ sender # None => /\ HandedOut(sender.of)
                        /\ sender.outcome = "succeeded" => sender.of \in sent
    /\ \A m \in sent : HandedOut(m)

\* A tool is called for a run that is over, and a text takes both budgets together.
Budgeted(m) ==
    /\ invocations[m].made <= 1
    /\ Len(runs[m].reports) <= MaxAttempts
    /\ (loops[m].state # "none" \/ At(m, "invoked")) => runs[m].state = "shadow_complete"
    /\ loops[m].state = "complete" => Len(runs[m].reports) + Len(loops[m].reports) <= MaxAttempts

Invariants ==
    /\ TypeOK /\ Admission /\ Intended /\ Held /\ SettledTogether
    /\ \A m \in Messages : Budgeted(m)

\* Where the coordinator stands after a step.
LEMMA Places ==
    ASSUME TypeOK, [Next]_vars, NEW m \in Messages
    PROVE  /\ At(m, "intent")' => At(m, "intent") \/ CreateIntent(m)
           /\ At(m, "invoked")' => At(m, "invoked") \/ PromoteProposal(m)
<1>1. CASE UNCHANGED vars
  BY <1>1 DEF vars, coreVars, At
<1>2. ASSUME NEW x \in Messages, Coordinate(x)
      PROVE  /\ At(m, "intent")' => At(m, "intent") \/ CreateIntent(m)
             /\ At(m, "invoked")' => At(m, "invoked") \/ PromoteProposal(m)
  <2>1. CASE UNCHANGED step \/ step' = None
    BY <2>1 DEF At
  <2>2. CASE CreateRun(x) \/ RecordLoop(x)
    BY <2>2 DEF CreateRun, RecordLoop, StepTo, At
  <2>3. CASE CreateIntent(x)
    BY <2>3 DEF CreateIntent, StepTo, At
  <2>4. CASE PromoteProposal(x)
    <3>1. \E place \in {"promoted", "invoked"} : \E queued : step' = [of |-> x, at |-> place, queued |-> queued]
      BY <2>4 DEF PromoteProposal, StepTo
    <3> QED
      BY <2>4, <3>1 DEF At
  <2> QED
    BY <1>2, <2>1, <2>2, <2>3, <2>4 DEF Coordinate, ExpireInteraction, FailInteraction, StartPlanning,
       DispatchRun, AwaitTool, StartContinuation, DispatchLoop, AwaitDelivery, coreVars
<1>3. ASSUME NEW x \in Messages, CountLimits(x) \/ AcceptInteraction(x) \/ Work(x) \/ LoseCall(x)
      PROVE  UNCHANGED step
  BY <1>3 DEF CountLimits, AcceptInteraction, Work, ReportAttempt, ReportContinuation, ToolEnds,
              RefreshLoop, LoseCall, coreVars
<1>4. ASSUME Deliver \/ Tick \/ LoseSender
      PROVE  UNCHANGED step
  BY <1>4 DEF Deliver, ReadDue, ReapIntent, LeaseIntent, SendText, CompleteDelivery, Tick, LoseSender, coreVars
<1>5. CASE RestartCore
  BY <1>5 DEF RestartCore, At
<1>6. UNCHANGED step => /\ At(m, "intent")' => At(m, "intent")
                        /\ At(m, "invoked")' => At(m, "invoked")
  BY DEF At
<1> QED
  BY <1>1, <1>2, <1>3, <1>4, <1>5, <1>6 DEF Next

LEMMA IntendedSafe ==
    ASSUME TypeOK, Intended, [Next]_vars
    PROVE  Intended'
<1> SUFFICES ASSUME NEW m \in Messages, At(m, "intent")'
             PROVE  intents'[m].state # "none"
  BY DEF Intended
<1>1. CASE At(m, "intent")
  <2>1. intents[m].state # "none"
    BY <1>1 DEF Intended
  <2>2. Row(m)
    BY Rows
  <2> QED
    BY <2>1, <2>2 DEF Row, Same, Coordinated, Accepted, Prepared, Finished, Settled
<1>2. CASE CreateIntent(m)
  BY <1>2 DEF CreateIntent, TypeOK
<1> QED
  BY <1>1, <1>2, Places

LEMMA TogetherSafe ==
    ASSUME TypeOK, Admission, Intended, SettledTogether, [Next]_vars
    PROVE  SettledTogether'
<1> SUFFICES ASSUME NEW m \in Messages
             PROVE  /\ intents'[m].state \in Settled => interactions'[m] = intents'[m].state
                    /\ interactions'[m] = "delivery_pending" => intents'[m].state \in {"pending", "leased"}
                    /\ interactions'[m] \in {"succeeded", "ambiguous"} => intents'[m].state = interactions'[m]
  BY DEF SettledTogether
<1>1. /\ intents[m].state \in Settled => interactions[m] = intents[m].state
      /\ interactions[m] = "delivery_pending" => intents[m].state \in {"pending", "leased"}
      /\ interactions[m] \in {"succeeded", "ambiguous"} => intents[m].state = interactions[m]
  BY DEF SettledTogether
<1>2. Row(m)
  BY Rows
<1>3. CASE Same(m) \/ Prepared(m)
  BY <1>1, <1>3 DEF Same, Prepared, Settled
<1>4. CASE Coordinated(m)
  <2>1. interactions[m] \notin Settled
    BY <1>4 DEF Coordinated, LegalMove, Settled
  <2>2. intents[m].state \notin Settled
    BY <1>1, <2>1
  <2>3. interactions'[m] \notin {"succeeded", "ambiguous"}
    BY <1>4 DEF Coordinated, LegalMove
  <2>4. interactions'[m] = "delivery_pending" => intents[m].state # "none"
    BY <1>4 DEF Coordinated, Intended
  <2>5. intents[m].state \in {"none", "pending", "leased"} \cup Settled
    BY DEF TypeOK, Intents
  <2> QED
    BY <1>4, <2>2, <2>3, <2>4, <2>5 DEF Coordinated
<1>5. CASE Accepted(m)
  <2>1. interactions[m] = "none"
    BY <1>5 DEF Accepted, Admission
  <2> QED
    BY <1>1, <1>5, <2>1 DEF Accepted, Settled
<1>6. CASE Finished(m)
  BY <1>6 DEF Finished, Settled
<1> QED
  BY <1>2, <1>3, <1>4, <1>5, <1>6 DEF Row

LEMMA AdmissionSafe ==
    ASSUME TypeOK, Admission, [Next]_vars
    PROVE  Admission'
<1>1. \A m \in Messages : Row(m)
  BY Rows
<1>2. \A m \in Messages : interactions'[m] \in Active => interactions[m] \in Active \/ Accepted(m)
  BY <1>1 DEF Row, Same, Coordinated, Prepared, Finished, LegalMove, Active, Settled
<1>3. \A m \in Messages : interactions[m] = "none" => interactions'[m] = "none" \/ Accepted(m)
  BY <1>1 DEF Row, Same, Coordinated, Prepared, Finished, LegalMove
<1>4. Cardinality(ActiveMessages) \in Nat /\ MaxConcurrent \in Nat
  BY Bounds, FS_CardinalityType DEF Admission
<1>5. ASSUME NEW m \in Messages, Accepted(m)
      PROVE  Admission'
  <2>1. admitting' = {} /\ Cardinality(ActiveMessages) < MaxConcurrent
    BY <1>5 DEF Accepted, Admission
  <2>2. ActiveMessages' \in SUBSET (ActiveMessages \cup {m})
    BY <1>2, <1>5 DEF ActiveMessages, Accepted, Admission
  <2>3. /\ IsFiniteSet(ActiveMessages \cup {m})
        /\ Cardinality(ActiveMessages \cup {m}) <= Cardinality(ActiveMessages) + 1
    <3>1. IsFiniteSet(ActiveMessages)
      BY DEF Admission
    <3>2. PICK count \in Nat : count = Cardinality(ActiveMessages)
      BY <1>4
    <3>3. PICK union : union = ActiveMessages \cup {m}
      OBVIOUS
    <3>4. /\ IsFiniteSet(union)
          /\ Cardinality(union) = IF m \in ActiveMessages THEN count ELSE count + 1
      BY <3>1, <3>2, <3>3, FS_AddElement
    <3> QED
      BY <3>2, <3>3, <3>4
  <2>4. /\ IsFiniteSet(ActiveMessages')
        /\ Cardinality(ActiveMessages') <= Cardinality(ActiveMessages \cup {m})
    BY <2>2, <2>3, FS_Subset
  <2>5. Cardinality(ActiveMessages') \in Nat /\ Cardinality(ActiveMessages \cup {m}) \in Nat
    BY <2>3, <2>4, FS_CardinalityType
  <2>6. Cardinality(ActiveMessages') <= MaxConcurrent
    BY <1>4, <2>1, <2>3, <2>4, <2>5
  <2> QED
    BY <2>1, <2>4, <2>6 DEF Admission
<1>6. ASSUME \A m \in Messages : ~Accepted(m)
      PROVE  Admission'
  <2>1. ActiveMessages' \in SUBSET ActiveMessages
    BY <1>2, <1>6 DEF ActiveMessages
  <2>2. /\ IsFiniteSet(ActiveMessages')
        /\ Cardinality(ActiveMessages') <= Cardinality(ActiveMessages)
        /\ Cardinality(ActiveMessages') \in Nat
    BY <2>1, FS_Subset, FS_CardinalityType DEF Admission
  <2>3. CASE admitting' \subseteq admitting
    BY <1>3, <1>4, <1>6, <2>2, <2>3 DEF Admission, TypeOK
  <2>4. ASSUME NEW m \in Messages, CountLimits(m)
        PROVE  Admission'
    BY <1>3, <1>4, <1>6, <2>2, <2>4 DEF Admission, CountLimits, LockFree, Admissible
  <2>5. admitting' \subseteq admitting \/ \E m \in Messages : CountLimits(m)
    BY DEF Next, vars, coreVars, planVars, AcceptInteraction, Coordinate, ExpireInteraction,
       FailInteraction, CreateRun, StartPlanning, DispatchRun, PromoteProposal, RecordLoop,
       AwaitTool, StartContinuation, DispatchLoop, CreateIntent, AwaitDelivery, Work,
       ReportAttempt, ReportContinuation, ToolEnds, RefreshLoop, Deliver, ReadDue, ReapIntent,
       LeaseIntent, SendText, CompleteDelivery, Tick, RestartCore, LoseSender, LoseCall
  <2> QED
    BY <2>3, <2>4, <2>5
<1> QED
  BY <1>5, <1>6

\* An intent that was handed out is never to be handed out again.
LEMMA HandedOutStays ==
    ASSUME TypeOK, [Next]_vars, NEW m \in Messages, HandedOut(m)
    PROVE  HandedOut(m)'
<1>1. Row(m)
  BY Rows
<1> QED
  BY <1>1 DEF Row, Same, Coordinated, Accepted, Prepared, Finished, HandedOut, Settled

\* What Nekro's loop does: it takes a lease, sends or gives up, reports, or is lost.
Loop ==
    \/ UNCHANGED <<sender, sent>>
    \/ \E m \in Messages : /\ LeaseIntent(m, TRUE) /\ UNCHANGED sent
                           /\ sender' = [of |-> m, outcome |-> "unsent"]
    \/ \E goes \in BOOLEAN, outcome \in {"succeeded", "failed", "ambiguous"} : SendText(goes, outcome)
    \/ sender # None /\ sender' = None /\ UNCHANGED sent

LEMMA LoopSteps ==
    ASSUME [Next]_vars
    PROVE  Loop
<1>1. ASSUME UNCHANGED vars \/ Tick \/ RestartCore
      PROVE  UNCHANGED <<sender, sent>>
  BY <1>1 DEF vars, Tick, RestartCore, Fault
<1>2. ASSUME NEW m \in Messages, CountLimits(m) \/ AcceptInteraction(m) \/ Coordinate(m)
      PROVE  UNCHANGED <<sender, sent>>
  BY <1>2 DEF CountLimits, AcceptInteraction, Coordinate, ExpireInteraction, FailInteraction,
       CreateRun, StartPlanning, DispatchRun, PromoteProposal, RecordLoop, AwaitTool,
       StartContinuation, DispatchLoop, CreateIntent, AwaitDelivery
<1>3. ASSUME NEW m \in Messages, Work(m) \/ LoseCall(m)
      PROVE  UNCHANGED <<sender, sent>>
  BY <1>3 DEF Work, ReportAttempt, ReportContinuation, ToolEnds, RefreshLoop, LoseCall, Fault
<1>4. ASSUME NEW m \in Messages, NEW answered \in BOOLEAN, LeaseIntent(m, answered)
      PROVE  Loop
  <2>1. CASE answered
    <3>1. answered = TRUE
      BY <2>1
    <3> QED
      BY <1>4, <3>1 DEF LeaseIntent, Loop
  <2>2. CASE ~answered
    BY <1>4, <2>2 DEF LeaseIntent, Loop
  <2> QED
    BY <2>1, <2>2
<1>5. CASE ReadDue \/ \E m \in Messages, from \in {"pending", "leased"} : ReapIntent(m, from)
  BY <1>5 DEF ReadDue, ReapIntent, Loop
<1>6. CASE CompleteDelivery \/ LoseSender
  BY <1>6 DEF CompleteDelivery, LoseSender, Fault, Loop
<1>7. CASE \E goes \in BOOLEAN, outcome \in {"succeeded", "failed", "ambiguous"} : SendText(goes, outcome)
  BY <1>7 DEF Loop
<1>8. CASE Deliver
  BY <1>4, <1>5, <1>6, <1>7, <1>8 DEF Deliver
<1>9. ASSUME UNCHANGED <<sender, sent>>
      PROVE  Loop
  BY <1>9 DEF Loop
<1> QED
  BY <1>1, <1>2, <1>3, <1>6, <1>8, <1>9 DEF Next

LEMMA HeldSafe ==
    ASSUME TypeOK, Held, [Next]_vars
    PROVE  Held'
<1>1. CASE UNCHANGED <<sender, sent>>
  <2>1. sender # None => sender.of \in Messages
    BY DEF TypeOK, Sending
  <2>2. sender # None => HandedOut(sender.of)'
    <3> SUFFICES ASSUME sender # None
                 PROVE  HandedOut(sender.of)'
      OBVIOUS
    <3>1. PICK m \in Messages : m = sender.of
      BY <2>1
    <3>2. HandedOut(m)'
      BY <3>1, HandedOutStays DEF Held
    <3> QED
      BY <1>1, <3>1, <3>2
  <2>3. \A m \in sent : HandedOut(m)'
    BY HandedOutStays DEF Held, TypeOK
  <2> QED
    BY <1>1, <2>2, <2>3 DEF Held
<1>2. ASSUME NEW m \in Messages, LeaseIntent(m, TRUE), UNCHANGED sent,
             sender' = [of |-> m, outcome |-> "unsent"]
      PROVE  Held'
  <2>1. intents' = [intents EXCEPT ![m] = [state |-> "leased", until |-> now + LeaseLife, events |-> 2]]
    BY <1>2 DEF LeaseIntent
  <2>2. HandedOut(m)'
    BY <2>1 DEF HandedOut, TypeOK
  <2>3. \A x \in sent : HandedOut(x)'
    BY HandedOutStays DEF Held, TypeOK
  <2>4. sender'.of = m /\ sender'.outcome = "unsent"
    BY <1>2
  <2> QED
    BY <1>2, <2>2, <2>3, <2>4 DEF Held
<1>3. ASSUME NEW goes \in BOOLEAN, NEW outcome \in {"succeeded", "failed", "ambiguous"},
             SendText(goes, outcome)
      PROVE  Held'
  <2>1. sender \in Sending /\ sender # None
    BY <1>3 DEF SendText, TypeOK
  <2>2. PICK m \in Messages : m = sender.of
    BY <2>1 DEF Sending
  <2>3. HandedOut(m)'
    BY <2>1, <2>2, HandedOutStays DEF Held
  <2>4. sender'.of = m /\ sender'.outcome = outcome
    BY <1>3, <2>1, <2>2 DEF SendText, Sending
  <2>5. sent' = IF goes THEN sent \cup {m} ELSE sent
    BY <1>3, <2>2 DEF SendText
  <2>6. \A x \in sent' : HandedOut(x)'
    BY <2>3, <2>5, HandedOutStays DEF Held, TypeOK
  <2>7. outcome = "succeeded" => m \in sent'
    BY <1>3, <2>5 DEF SendText
  <2> QED
    BY <2>3, <2>4, <2>6, <2>7 DEF Held
<1>4. CASE sender' = None /\ UNCHANGED sent
  <2>1. \A m \in sent : HandedOut(m)'
    BY HandedOutStays DEF Held, TypeOK
  <2> QED
    BY <1>4, <2>1 DEF Held
<1> QED
  BY <1>1, <1>2, <1>3, <1>4, LoopSteps DEF Loop

\* A step that is not about planning leaves what a plan consists of.
LEMMA PlanKept ==
    ASSUME [Next]_vars,
           \A x \in Messages : ~CreateRun(x) /\ ~PromoteProposal(x) /\ ~RecordLoop(x) /\ ~Work(x)
    PROVE  UNCHANGED planVars
<1>1. ASSUME NEW x \in Messages, Coordinate(x)
      PROVE  UNCHANGED planVars
  BY <1>1 DEF Coordinate, ExpireInteraction, FailInteraction, StartPlanning, DispatchRun, AwaitTool,
       StartContinuation, DispatchLoop, CreateIntent, AwaitDelivery, coreVars, planVars
<1>2. ASSUME NEW x \in Messages, CountLimits(x) \/ AcceptInteraction(x) \/ LoseCall(x)
      PROVE  UNCHANGED planVars
  BY <1>2 DEF CountLimits, AcceptInteraction, LoseCall, coreVars, planVars
<1>3. ASSUME Deliver
      PROVE  UNCHANGED planVars
  BY <1>3 DEF Deliver, ReadDue, ReapIntent, LeaseIntent, SendText, CompleteDelivery, coreVars, planVars
<1>4. ASSUME UNCHANGED vars \/ Tick \/ RestartCore \/ LoseSender
      PROVE  UNCHANGED planVars
  BY <1>4 DEF vars, Tick, RestartCore, LoseSender, coreVars, planVars
<1> QED
  BY <1>1, <1>2, <1>3, <1>4 DEF Next

LEMMA BudgetedSafe ==
    ASSUME TypeOK, [Next]_vars, NEW m \in Messages, Budgeted(m)
    PROVE  Budgeted(m)'
<1>1. /\ runs \in [Messages -> Runs] /\ loops \in [Messages -> Loops]
      /\ invocations \in [Messages -> Invocations]
  BY DEF TypeOK
<1>2. At(m, "invoked")' => At(m, "invoked") \/ PromoteProposal(m)
  BY Places
<1>3. PromoteProposal(m) => runs[m].state = "shadow_complete"
  BY DEF PromoteProposal, ProposesTool
<1>4. /\ Len(runs[m].reports) \in Nat /\ Len(loops[m].reports) \in Nat
      /\ MaxAttempts \in Nat /\ MaxAttempts > 0
  BY ContinuationFacts, Bounds
<1>5. ASSUME runs'[m] = runs[m], invocations'[m] = invocations[m], loops'[m] = loops[m]
      PROVE  Budgeted(m)'
  BY <1>2, <1>3, <1>5 DEF Budgeted
<1>6. ASSUME NEW x \in Messages, CreateRun(x)
      PROVE  Budgeted(m)'
  <2>1. CASE x # m \/ runs[m].state # "none"
    BY <1>1, <1>5, <1>6, <2>1 DEF CreateRun
  <2>2. CASE x = m /\ runs[m].state = "none"
    <3>1. runs'[m] = [state |-> "context_ready", reports |-> <<>>, deadline |-> now + RunLife]
      BY <1>1, <1>6, <2>2 DEF CreateRun
    <3>2. Len(runs'[m].reports) = 0
      BY <3>1
    <3>3. loops'[m].state = "none" /\ ~At(m, "invoked")' /\ invocations' = invocations
      BY <1>6, <2>2 DEF CreateRun, StepTo, At, Budgeted
    <3> QED
      BY <1>4, <3>2, <3>3 DEF Budgeted
  <2> QED
    BY <2>1, <2>2
<1>7. ASSUME NEW x \in Messages, PromoteProposal(x)
      PROVE  Budgeted(m)'
  <2>1. runs' = runs /\ loops' = loops
    BY <1>7 DEF PromoteProposal
  <2>2. invocations'[m].made <= 1
    <3>1. CASE UNCHANGED invocations
      BY <3>1 DEF Budgeted
    <3>2. ASSUME NEW state, invocations' = [invocations EXCEPT ![x] = InvocationFor(x, state)]
          PROVE  invocations'[m].made <= 1
      BY <1>1, <3>2 DEF Budgeted, InvocationFor
    <3> QED
      BY <1>7, <3>1, <3>2 DEF PromoteProposal
  <2> QED
    BY <1>2, <1>3, <2>1, <2>2 DEF Budgeted
<1>8. ASSUME NEW x \in Messages, RecordLoop(x)
      PROVE  Budgeted(m)'
  <2>1. PICK state \in {"tool_pending", "failed"} : loops' = [loops EXCEPT ![x].state = state]
    BY <1>8 DEF RecordLoop
  <2>2. runs' = runs /\ invocations' = invocations /\ ~At(m, "invoked")' /\ At(x, "invoked")
    BY <1>8 DEF RecordLoop, StepTo, At
  <2>3. CASE x = m
    <3>1. loops'[m].state = state /\ loops'[m].reports = loops[m].reports
      BY <1>1, <2>1, <2>3 DEF Loops
    <3> QED
      BY <2>2, <2>3, <3>1 DEF Budgeted
  <2>4. CASE x # m
    BY <1>1, <1>5, <2>1, <2>2, <2>4
  <2> QED
    BY <2>3, <2>4
<1>9. ASSUME NEW x \in Messages, NEW outcome \in OutcomesUsed, ReportAttempt(x, outcome)
      PROVE  Budgeted(m)'
  <2>1. loops' = loops /\ invocations' = invocations /\ (At(m, "invoked")' => At(m, "invoked"))
    BY <1>9 DEF ReportAttempt, At
  <2>2. CASE x # m \/ runs' = runs
    BY <1>1, <1>5, <1>9, <2>1, <2>2 DEF ReportAttempt
  <2>3. CASE x = m /\ runs' # runs
    <3>1. /\ runs[m].state = "context_ready" /\ Len(runs[m].reports) < MaxAttempts
          /\ LegalReport(runs[m], runs'[m])
      BY <1>9, <2>3 DEF ReportAttempt
    <3>2. loops[m].state = "none" /\ ~At(m, "invoked")
      BY <3>1 DEF Budgeted
    <3>3. Len(runs'[m].reports) = Len(runs[m].reports) + 1
      BY <3>1 DEF LegalReport
    <3>4. Len(runs'[m].reports) <= MaxAttempts
      BY <1>4, <3>1, <3>3
    <3> QED
      BY <2>1, <3>2, <3>4 DEF Budgeted
  <2> QED
    BY <2>2, <2>3
<1>10. ASSUME NEW x \in Messages, NEW outcome \in OutcomesUsed, ReportContinuation(x, outcome)
       PROVE  Budgeted(m)'
  <2>1. runs' = runs /\ invocations' = invocations /\ (At(m, "invoked")' => At(m, "invoked"))
    BY <1>10 DEF ReportContinuation, At
  <2>2. CASE x # m \/ loops' = loops
    BY <1>1, <1>5, <1>10, <2>1, <2>2 DEF ReportContinuation
  <2>3. CASE x = m /\ loops' # loops
    <3>1. /\ loops[m].state = "result_ready"
          /\ loops' = [loops EXCEPT ![m] = [state |-> ContinuationState(m, outcome),
                                            reports |-> Append(loops[m].reports, outcome)]]
      BY <1>10, <2>3 DEF ReportContinuation
    <3>2. /\ loops'[m].state = ContinuationState(m, outcome)
          /\ loops'[m].reports = Append(loops[m].reports, outcome)
      BY <1>1, <3>1
    <3>3. Len(loops'[m].reports) = Len(loops[m].reports) + 1
      <4>1. loops[m].reports \in Seq(Outcomes) /\ outcome \in Outcomes
        BY <1>1, Bounds DEF Loops
      <4> QED
        BY <3>2, <4>1, AppendProperties
    <3>4. loops'[m].state = "complete" => Len(runs[m].reports) + Len(loops'[m].reports) <= MaxAttempts
      <4>1. loops'[m].state = "complete" => NextAttempt(m) <= MaxAttempts
        BY <3>2, ContinuationFacts
      <4>2. NextAttempt(m) = Len(runs[m].reports) + Len(loops[m].reports) + 1
        BY ContinuationFacts
      <4>3. /\ Len(runs[m].reports) \in Nat /\ Len(loops[m].reports) \in Nat
            /\ Len(loops'[m].reports) \in Nat
        <5>1. runs[m].reports \in Seq(Outcomes) /\ loops[m].reports \in Seq(Outcomes)
          BY <1>1, Bounds DEF Runs, Loops
        <5> QED
          BY <3>3, <5>1, LenProperties
      <4>4. Len(runs[m].reports) + Len(loops'[m].reports) = NextAttempt(m)
        <5>1. PICK a \in Nat, b \in Nat : a = Len(runs[m].reports) /\ b = Len(loops[m].reports)
          BY <4>3
        <5>2. Len(loops'[m].reports) = b + 1
          BY <3>3, <5>1
        <5>3. NextAttempt(m) = a + b + 1
          BY <4>2, <5>1
        <5>4. a + (b + 1) = a + b + 1
          OBVIOUS
        <5> QED
          BY <5>1, <5>2, <5>3, <5>4
      <4> QED
        BY <4>1, <4>4
    <3>5. runs[m].state = "shadow_complete"
      BY <3>1 DEF Budgeted
    <3> QED
      BY <2>1, <3>4, <3>5 DEF Budgeted
  <2> QED
    BY <2>2, <2>3
<1>11. ASSUME NEW x \in Messages, ToolEnds(x)
       PROVE  Budgeted(m)'
  <2>1. PICK state : invocations' = [invocations EXCEPT ![x].state = state]
    BY <1>11 DEF ToolEnds
  <2>2. invocations'[m].made = invocations[m].made
    BY <1>1, <2>1 DEF Invocations
  <2>3. runs' = runs /\ loops' = loops /\ (At(m, "invoked")' => At(m, "invoked"))
    BY <1>11 DEF ToolEnds, At
  <2> QED
    BY <2>2, <2>3 DEF Budgeted
<1>12. ASSUME NEW x \in Messages, RefreshLoop(x)
       PROVE  Budgeted(m)'
  <2>1. PICK state \in {"result_ready", "budget_exhausted", "failed"} :
          loops' = [loops EXCEPT ![x].state = state]
    BY <1>12 DEF RefreshLoop
  <2>2. runs' = runs /\ invocations' = invocations /\ (At(m, "invoked")' => At(m, "invoked"))
    BY <1>12 DEF RefreshLoop, At
  <2>3. CASE x = m
    <3>1. loops'[m].state = state /\ loops[m].state = "tool_pending"
      BY <1>1, <1>12, <2>1, <2>3 DEF Loops, RefreshLoop
    <3> QED
      BY <2>2, <3>1 DEF Budgeted
  <2>4. CASE x # m
    BY <1>1, <1>5, <2>1, <2>2, <2>4
  <2> QED
    BY <2>3, <2>4
<1>13. CASE \E x \in Messages : CreateRun(x) \/ PromoteProposal(x) \/ RecordLoop(x) \/ Work(x)
  BY <1>6, <1>7, <1>8, <1>9, <1>10, <1>11, <1>12, <1>13 DEF Work
<1>14. CASE \A x \in Messages : ~CreateRun(x) /\ ~PromoteProposal(x) /\ ~RecordLoop(x) /\ ~Work(x)
  <2>1. UNCHANGED planVars
    BY <1>14, PlanKept
  <2> QED
    BY <1>5, <2>1 DEF planVars
<1> QED
  BY <1>13, <1>14

-------------------------------------------------------------------------------

LEMMA InitSafe == Init => Invariants
<1> SUFFICES ASSUME Init
             PROVE  Invariants
  OBVIOUS
<1>1. TypeOK
  BY InitTyped
<1>2. Admission
  <2>1. ActiveMessages = {}
    BY DEF Init, ActiveMessages, Active
  <2> QED
    BY <2>1, FS_EmptySet, Bounds DEF Init, Admission
<1>3. Intended /\ Held
  BY DEF Init, Intended, Held, At
<1>4. SettledTogether
  BY DEF Init, SettledTogether, NoIntent, Settled
<1>5. ASSUME NEW m \in Messages
      PROVE  Budgeted(m)
  <2>1. /\ invocations[m] = NoInvocation /\ runs[m] = NoRun /\ loops[m] = NoLoop /\ step = None
    BY DEF Init
  <2> QED
    BY <2>1, Bounds DEF Budgeted, NoInvocation, NoRun, NoLoop, At
<1> QED
  BY <1>1, <1>2, <1>3, <1>4, <1>5 DEF Invariants

LEMMA NextSafe == Invariants /\ [Next]_vars => Invariants'
BY NextTyped, AdmissionSafe, IntendedSafe, HeldSafe, TogetherSafe, BudgetedSafe DEF Invariants

\* The inductive invariant holds in every reachable state.
THEOREM Invariant == Spec => []Invariants
BY InitSafe, NextSafe, PTL DEF Spec

\* An intent and its interaction are settled alike, whoever writes them
\* (agent_delivery_service.py).
THEOREM AlwaysSettledTogether == Spec => []SettledTogether
<1>1. Invariants => SettledTogether
  BY DEF Invariants
<1> QED
  BY <1>1, Invariant, PTL

\* The limits of a conversation, of its tool call and of its model calls hold.
THEOREM AlwaysWithinLimits == Spec => []WithinLimits
<1>1. Invariants => WithinLimits
  BY DEF Invariants, Admission, Budgeted, WithinLimits, AdmittedWithinLimits, OneToolCall, ModelWithinBudget
<1> QED
  BY <1>1, Invariant, PTL

-------------------------------------------------------------------------------
(* The promise of a delivery.                                              *)

permitted == {m \in Messages : sender = [of |-> m, outcome |-> "unsent"]}
confirmed == {m \in Messages : intents[m].state = "succeeded"}

\* Who holds an unsent text may send it, and nobody else.
Permits == permitted = IF sender # None /\ sender.outcome = "unsent" THEN {sender.of} ELSE {}

LEMMA OnePermit == TypeOK => Permits
<1> SUFFICES ASSUME TypeOK
             PROVE  Permits
  OBVIOUS
<1>1. CASE sender = None
  <2>1. \A m \in Messages : [of |-> m, outcome |-> "unsent"] \in Sending
    BY DEF Sending
  <2> QED
    BY <1>1, <2>1, Bounds DEF permitted, Permits
<1>2. CASE sender # None
  <2>1. sender \in Sending
    BY <1>2 DEF TypeOK
  <2>2. sender = [of |-> sender.of, outcome |-> sender.outcome] /\ sender.of \in Messages
    BY <2>1 DEF Sending
  <2> QED
    BY <1>2, <2>2 DEF permitted, Permits
<1> QED
  BY <1>1, <1>2

\* What is recorded as delivered changes only by the report of who sent it.
LEMMA OneConfirmation ==
    ASSUME TypeOK, Held, [Next]_vars, ~CompleteDelivery
    PROVE  confirmed' = confirmed
<1> SUFFICES ASSUME NEW m \in Messages
             PROVE  intents'[m].state = "succeeded" <=> intents[m].state = "succeeded"
  BY DEF confirmed
<1>1. Row(m)
  BY Rows
<1>2. CASE Same(m) \/ Coordinated(m) \/ Accepted(m) \/ Prepared(m)
  BY <1>2 DEF Same, Coordinated, Accepted, Prepared
<1>3. CASE Finished(m) /\ intents'[m] # intents[m]
  <2>1. ASSUME NEW x \in Messages, NEW from \in {"pending", "leased"}, ReapIntent(x, from)
        PROVE  intents'[m].state # "succeeded"
    <3>1. CASE CanFinish(x, from, ReapOutcome(from))
      <4>1. PICK new : /\ new = [intents[x] EXCEPT !.state = ReapOutcome(from),
                                                   !.events = intents[x].events + 1]
                       /\ intents' = [intents EXCEPT ![x] = new]
        BY <2>1, <3>1 DEF ReapIntent, Finish
      <4>2. new.state = ReapOutcome(from)
        BY <4>1 DEF TypeOK, Intents
      <4>3. m = x
        BY <1>3, <4>1 DEF TypeOK
      <4> QED
        BY <4>1, <4>2, <4>3 DEF TypeOK, ReapOutcome
    <3>2. CASE ~CanFinish(x, from, ReapOutcome(from))
      BY <1>3, <2>1, <3>2 DEF ReapIntent
    <3> QED
      BY <3>1, <3>2
  <2>2. ASSUME NEW x \in Messages, Coordinate(x) \/ LoseCall(x) \/ Work(x) \/ CountLimits(x)
                                   \/ AcceptInteraction(x)
        PROVE  intents'[m] = intents[m] \/ intents'[m].state = "pending"
    <3>1. CASE CreateIntent(x)
      BY <3>1 DEF CreateIntent, TypeOK
    <3>2. CASE Coordinate(x) /\ ~CreateIntent(x)
      BY <3>2 DEF Coordinate, ExpireInteraction, FailInteraction, CreateRun, StartPlanning, DispatchRun,
         PromoteProposal, RecordLoop, AwaitTool, StartContinuation, DispatchLoop, AwaitDelivery, coreVars
    <3>3. CASE LoseCall(x) \/ CountLimits(x) \/ AcceptInteraction(x)
      BY <3>3 DEF LoseCall, CountLimits, AcceptInteraction, coreVars
    <3>4. CASE Work(x)
      BY <3>4 DEF Work, ReportAttempt, ReportContinuation, ToolEnds, RefreshLoop
    <3> QED
      BY <2>2, <3>1, <3>2, <3>3, <3>4
  <2>3. ASSUME NEW x \in Messages, NEW answered \in BOOLEAN, LeaseIntent(x, answered)
        PROVE  intents'[m] = intents[m] \/ intents'[m].state = "leased"
    BY <2>3 DEF LeaseIntent, TypeOK
  <2>4. ASSUME \/ UNCHANGED vars \/ Tick \/ RestartCore \/ LoseSender \/ ReadDue
               \/ \E goes \in BOOLEAN, outcome \in {"succeeded", "failed", "ambiguous"} : SendText(goes, outcome)
        PROVE  intents' = intents
    BY <2>4 DEF vars, coreVars, Tick, RestartCore, LoseSender, ReadDue, SendText
  <2>5. intents'[m] = intents[m] \/ intents'[m].state # "succeeded"
    BY <2>1, <2>2, <2>3, <2>4 DEF Next, Deliver
  <2> QED
    BY <1>3, <2>5 DEF Finished
<1>4. CASE intents'[m] = intents[m]
  BY <1>4
<1> QED
  BY <1>1, <1>2, <1>3, <1>4 DEF Row


\* A lease is a permit, sending or giving up uses it, a report confirms what was sent.
LEMMA PromiseKept ==
    ASSUME TypeOK, TypeOK', Held, [Next]_vars
    PROVE  [Delivery!Next]_(Delivery!vars)
<1> SUFFICES Delivery!Next \/ UNCHANGED Delivery!vars
  OBVIOUS
<1>1. permitted = IF sender # None /\ sender.outcome = "unsent" THEN {sender.of} ELSE {}
  BY OnePermit DEF Permits
<1>2. permitted' = IF sender' # None /\ sender'.outcome = "unsent" THEN {sender'.of} ELSE {}
  <2>1. (TypeOK => Permits)'
    BY OnePermit, PTL
  <2> QED
    BY <2>1 DEF Permits
<1>3. sender # None => sender.of \in Messages
  BY DEF TypeOK, Sending
<1>4. CASE CompleteDelivery
  <2>1. permitted = {} /\ permitted' = {} /\ sent' = sent
    BY <1>1, <1>2, <1>4 DEF CompleteDelivery
  <2>2. CASE intents' = intents
    <3>1. confirmed' = confirmed
      BY <2>2 DEF confirmed
    <3> QED
      BY <2>1, <3>1 DEF Delivery!vars, permitted, confirmed
  <2>3. CASE CanFinish(sender.of, "leased", sender.outcome) /\ Finish(sender.of, sender.outcome)
    <3>1. PICK n \in Messages : n = sender.of
      BY <1>3, <1>4 DEF CompleteDelivery
    <3>2. intents'[n].state = sender.outcome /\ intents[n].state # "succeeded"
      <4>1. PICK new : /\ new = [intents[n] EXCEPT !.state = sender.outcome,
                                                   !.events = intents[n].events + 1]
                       /\ intents' = [intents EXCEPT ![n] = new]
        BY <2>3, <3>1 DEF Finish
      <4>2. new.state = sender.outcome
        BY <4>1 DEF TypeOK, Intents
      <4>3. intents'[n] = new
        BY <4>1 DEF TypeOK
      <4>4. intents[n].state # "succeeded"
        BY <2>3, <3>1 DEF CanFinish, LegalDelivery, Settled
      <4> QED
        BY <4>2, <4>3, <4>4
    <3>3. \A m \in Messages : m # n => intents'[m] = intents[m]
      BY <2>3, <3>1 DEF Finish, TypeOK
    <3>4. CASE sender.outcome = "succeeded"
      <4>1. n \in sent
        BY <1>4, <3>1, <3>4 DEF Held, CompleteDelivery
      <4>2. confirmed' = confirmed \cup {n}
        BY <3>2, <3>3, <3>4 DEF confirmed
      <4>3. Delivery!Confirm(n)
        BY <2>1, <4>1, <4>2 DEF Delivery!Confirm, permitted, confirmed
      <4> QED
        BY <4>3 DEF Delivery!Next
    <3>5. CASE sender.outcome # "succeeded"
      <4>1. confirmed' = confirmed
        BY <3>2, <3>3, <3>5 DEF confirmed
      <4> QED
        BY <2>1, <4>1 DEF Delivery!vars, permitted, confirmed
    <3> QED
      BY <3>4, <3>5
  <2> QED
    BY <1>4, <2>2, <2>3 DEF CompleteDelivery
<1>5. CASE ~CompleteDelivery
  <2>1. confirmed' = confirmed
    BY <1>5, OneConfirmation
  <2>2. CASE UNCHANGED <<sender, sent>>
    <3>1. permitted' = permitted
      BY <2>2 DEF permitted
    <3> QED
      BY <2>1, <2>2, <3>1 DEF Delivery!vars, permitted, confirmed
  <2>3. ASSUME NEW m \in Messages, LeaseIntent(m, TRUE), UNCHANGED sent,
               sender' = [of |-> m, outcome |-> "unsent"]
        PROVE  Delivery!Permit(m)
    <3>1. sender = None /\ m \notin sent
      BY <2>3 DEF LeaseIntent, Leasable, Held, HandedOut, Settled
    <3>2. [of |-> m, outcome |-> "unsent"] \in Sending
      BY DEF Sending
    <3>3. sender' # None /\ sender'.of = m /\ sender'.outcome = "unsent"
      BY <2>3, <3>2, Bounds
    <3>4. permitted = {} /\ permitted' = {m}
      BY <1>1, <1>2, <3>1, <3>3
    <3> QED
      BY <2>1, <2>3, <3>1, <3>4 DEF Delivery!Permit, permitted, confirmed
  <2>4. ASSUME NEW goes \in BOOLEAN, NEW outcome \in {"succeeded", "failed", "ambiguous"},
               SendText(goes, outcome)
        PROVE  Delivery!Next
    <3> PICK n \in Messages : n = sender.of
      BY <1>3, <2>4 DEF SendText
    <3>1. sender # None /\ permitted = {n}
      BY <1>1, <2>4 DEF SendText
    <3>2. sender' = [sender EXCEPT !.outcome = outcome]
      BY <2>4 DEF SendText
    <3>3. sender'.outcome = outcome
      BY <3>1, <3>2 DEF TypeOK, Sending
    <3>4. permitted' = {}
      BY <1>2, <3>3
    <3>5. sent' = sent \cup {n} \/ sent' = sent
      BY <2>4 DEF SendText
    <3>6. Delivery!Send(n) \/ Delivery!GiveUp(n)
      BY <2>1, <3>1, <3>4, <3>5 DEF Delivery!Send, Delivery!GiveUp, permitted, confirmed
    <3> QED
      BY <3>6 DEF Delivery!Next
  <2>5. CASE sender # None /\ sender' = None /\ UNCHANGED sent
    <3>1. permitted' = {}
      BY <1>2, <2>5
    <3>2. CASE sender.outcome = "unsent"
      <4>1. PICK n \in Messages : permitted = {n}
        BY <1>1, <1>3, <2>5, <3>2
      <4>2. Delivery!GiveUp(n)
        BY <2>1, <2>5, <3>1, <4>1 DEF Delivery!GiveUp, permitted, confirmed
      <4> QED
        BY <4>2 DEF Delivery!Next
    <3>3. CASE sender.outcome # "unsent"
      <4>1. permitted = {}
        BY <1>1, <3>3
      <4> QED
        BY <2>1, <2>5, <3>1, <4>1 DEF Delivery!vars, permitted, confirmed
    <3> QED
      BY <3>2, <3>3
  <2>6. CASE \E goes \in BOOLEAN, outcome \in {"succeeded", "failed", "ambiguous"} : SendText(goes, outcome)
    BY <2>4, <2>6
  <2>7. CASE \E m \in Messages : /\ LeaseIntent(m, TRUE) /\ UNCHANGED sent
                                 /\ sender' = [of |-> m, outcome |-> "unsent"]
    BY <2>3, <2>7 DEF Delivery!Next
  <2> QED
    BY <2>2, <2>5, <2>6, <2>7, LoopSteps DEF Loop
<1> QED
  BY <1>4, <1>5

\* "Sent, but the completion is lost: ambiguous, never sent again": leasing and
\* Nekro's delivery loop implement a delivery at most once, whatever is lost or
\* restarted (agent_delivery_service.py, superlily_bridge/agent_delivery.py).
THEOREM DeliversAtMostOnce == Spec => AnswersAtMostOnce
<1>1. Init => Delivery!Init
  <2> SUFFICES ASSUME Init
               PROVE  Delivery!Init
    OBVIOUS
  <2>1. permitted = {}
    BY InitTyped, OnePermit DEF Init, Permits
  <2>2. confirmed = {}
    BY DEF Init, confirmed, NoIntent
  <2> QED
    BY <2>1, <2>2 DEF Init, Delivery!Init, permitted, confirmed
<1>2. Invariants /\ Invariants' /\ [Next]_vars => [Delivery!Next]_(Delivery!vars)
  BY PromiseKept DEF Invariants
<1> QED
  BY <1>1, <1>2, Invariant, PTL DEF Spec, AnswersAtMostOnce, Delivery!Spec
===============================================================================
