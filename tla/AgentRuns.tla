-------------------------------- MODULE AgentRuns --------------------------------
(***************************************************************************)
(* The agent product: Core accepts an addressed message, plans it with one *)
(* model provider, calls one tool for it at most, and has Nekro send one   *)
(* text.  Core's coordinator advances the interactions one after another;  *)
(* most of its steps are two or three commits, between which the provider, *)
(* the deliverer and the reaper go on, and Core may be restarted.          *)
(***************************************************************************)
EXTENDS AgentRows, FiniteSets

CONSTANTS
    MaxConcurrent,    \* agent_max_concurrent_per_conversation
    MaxPerWindow,     \* agent_max_interactions_per_window
    RateWindow,       \* agent_rate_window_seconds
    MaxPerDay,        \* agent_max_interactions_per_day
    DayLength,        \* of a day, by the clock of the database
    InteractionLife,  \* agent_delivery_deadline_seconds
    RunLife,          \* budget.max_wall_time_ms
    LeaseLife,        \* agent_delivery_lease_seconds
    OutcomesUsed,     \* bound: what a model call may end with
    MaxTime,          \* bound: the clock stops there
    MaxFaults         \* bound: restarts and lost messages

ASSUME OutcomesUsedAssumption == OutcomesUsed \subseteq Outcomes
ASSUME LimitsAssumption ==
    /\ {MaxConcurrent, MaxPerWindow, MaxPerDay, DayLength} \subseteq Nat \ {0}
    /\ {RateWindow, InteractionLife, RunLife, LeaseLife, MaxTime, MaxFaults} \subseteq Nat

VARIABLES
    now,
    faults,
    admitting,     \* messages found within the limits, not yet inserted
    interactions,  \* [Messages -> InteractionStates]
    due,           \* the deadline of an interaction
    runs,          \* [Messages -> Runs]
    invocations,   \* [Messages -> Invocations]
    loops,         \* [Messages -> Loops]
    intents,       \* [Messages -> Intents]
    step,          \* where the coordinator is between two commits
    calls,         \* the model call a provider has in flight for a message
    reaping,       \* the intents a reaper found due, as it read them
    sender,        \* what Nekro's delivery loop holds
    sent           \* messages whose text went out

planVars == <<runs, invocations, loops>>
coreVars == <<admitting, interactions, due, runs, invocations, loops, intents, step, reaping>>
vars == <<now, faults, coreVars, calls, sender, sent>>

Steps == [of : Messages, at : {"run", "invoked", "promoted", "intent"}, queued : BOOLEAN]
Sending == [of : Messages, outcome : {"unsent", "succeeded", "failed", "ambiguous"}]

ASSUME NothingHeldAssumption == None \notin Steps \cup Sending

Init ==
    /\ now = 0 /\ faults = 0
    /\ admitting = {} /\ reaping = {} /\ sent = {}
    /\ interactions = [m \in Messages |-> "none"]
    /\ due = [m \in Messages |-> 0]
    /\ runs = [m \in Messages |-> NoRun]
    /\ invocations = [m \in Messages |-> NoInvocation]
    /\ loops = [m \in Messages |-> NoLoop]
    /\ intents = [m \in Messages |-> NoIntent]
    /\ step = None /\ sender = None
    /\ calls = [m \in Messages |-> None]

--------------------------------------------------------------------------------
(* Admission: the conversation's advisory lock is held from the counts to  *)
(* the commit.  A duplicate of an accepted message gets that interaction;  *)
(* a message over a limit is not accepted, and may be posted again.        *)

ActiveMessages == {m \in Messages : interactions[m] \in Active}

CreatedSince(time) ==
    {m \in Messages : interactions[m] # "none" /\ due[m] - InteractionLife >= time}
Recent == CreatedSince(now - RateWindow)
Today == CreatedSince(DayLength * (now \div DayLength))

LockFree == admitting = {}

Admissible ==
    /\ Cardinality(ActiveMessages) < MaxConcurrent
    /\ Cardinality(Recent) < MaxPerWindow
    /\ Cardinality(Today) < MaxPerDay

CountLimits(m) ==
    /\ LockFree /\ m \notin admitting
    /\ interactions[m] = "none" /\ Admissible
    /\ admitting' = admitting \cup {m}
    /\ UNCHANGED <<now, faults, interactions, due, planVars, intents, step, reaping, calls, sender, sent>>

AcceptInteraction(m) ==
    /\ m \in admitting
    /\ admitting' = admitting \ {m}
    /\ interactions' = [interactions EXCEPT ![m] = "accepted"]
    /\ due' = [due EXCEPT ![m] = now + InteractionLife]
    /\ UNCHANGED <<now, faults, planVars, intents, step, reaping, calls, sender, sent>>

--------------------------------------------------------------------------------
(* The coordinator, between passes (step = None) or inside one message.    *)

Expired(m) == now >= due[m]

\* The state the coordinator found when it took the message up.
Takes(m, states) == step = None /\ interactions[m] \in states /\ ~Expired(m)

\* One _transition: the move must be legal, and its event has a number of its own.
Move(m, to) ==
    /\ LegalMove(interactions[m], to)
    /\ interactions' = [interactions EXCEPT ![m] = to]

At(m, place) == step # None /\ step.of = m /\ step.at = place
StepTo(m, place) == step' = [of |-> m, at |-> place, queued |-> FALSE]

ExpireInteraction(m) ==
    /\ step = None /\ Expired(m)
    /\ interactions[m] \in Active \ {"delivery_pending"}
    /\ Move(m, "expired")
    /\ UNCHANGED <<now, faults, admitting, due, planVars, intents, step, reaping, calls, sender, sent>>

\* The configured model profile is not registered.
FailInteraction(m) ==
    /\ Takes(m, {"accepted"})
    /\ Move(m, "failed")
    /\ UNCHANGED <<now, faults, admitting, due, planVars, intents, step, reaping, calls, sender, sent>>

\* create_agent_run under the key of the interaction: after a restart the run
\* is found again.
CreateRun(m) ==
    /\ Takes(m, {"accepted"})
    /\ IF runs[m].state = "none"
       THEN runs' = [runs EXCEPT ![m] =
                [state |-> "context_ready", reports |-> <<>>, deadline |-> now + RunLife]]
       ELSE UNCHANGED runs
    /\ StepTo(m, "run")
    /\ UNCHANGED <<now, faults, admitting, interactions, due, invocations, loops, intents,
                   reaping, calls, sender, sent>>

StartPlanning(m) ==
    /\ At(m, "run")
    /\ Move(m, "planning")
    /\ step' = None
    /\ UNCHANGED <<now, faults, admitting, due, planVars, intents, reaping, calls, sender, sent>>

\* The provider has one call per target in flight; its request for the frozen
\* input is refused when the run left context_ready or is past its deadline.
DispatchRun(m) ==
    /\ Takes(m, {"planning"})
    /\ runs[m].state = "context_ready" /\ now < runs[m].deadline
    /\ calls[m] = None
    /\ calls' = [calls EXCEPT ![m] = "run"]
    /\ UNCHANGED <<now, faults, coreVars, sender, sent>>

DispatchLoop(m) ==
    /\ Takes(m, {"continuing"})
    /\ loops[m].state = "result_ready" /\ calls[m] = None
    /\ calls' = [calls EXCEPT ![m] = "tool_loop"]
    /\ UNCHANGED <<now, faults, coreVars, sender, sent>>

ProposesTool(m) ==
    /\ runs[m].state = "shadow_complete"
    /\ runs[m].reports[Len(runs[m].reports)] = "tool"

\* The invocation is created under a key made of the run and the proposal, so
\* that a repeated promotion gets the one that exists.
InvocationFor(m, state) ==
    IF invocations[m].made > 0 THEN invocations[m] ELSE [state |-> state, made |-> 1]

\* promote_wolfram_proposal: a loop that exists is returned as it is, else the
\* invocation is created, queued or refused, in a commit of its own.
PromoteProposal(m) ==
    /\ Takes(m, {"planning"}) /\ ProposesTool(m)
    /\ IF loops[m].state # "none"
       THEN StepTo(m, "promoted") /\ UNCHANGED invocations
       ELSE \E state \in {"queued", "failed"} :
              /\ invocations' = [invocations EXCEPT ![m] = InvocationFor(m, state)]
              /\ step' = [of |-> m, at |-> "invoked",
                          queued |-> invocations'[m].state = "queued"]
    /\ UNCHANGED <<now, faults, admitting, interactions, due, runs, loops, intents,
                   reaping, calls, sender, sent>>

\* The loop row, by the state the invocation had when it was created or found.
RecordLoop(m) ==
    /\ At(m, "invoked")
    /\ loops' = [loops EXCEPT ![m].state = IF step.queued THEN "tool_pending" ELSE "failed"]
    /\ StepTo(m, "promoted")
    /\ UNCHANGED <<now, faults, admitting, interactions, due, runs, invocations, intents,
                   reaping, calls, sender, sent>>

AwaitTool(m) ==
    /\ At(m, "promoted") /\ loops[m].state = "tool_pending"
    /\ Move(m, "tool_pending")
    /\ step' = None
    /\ UNCHANGED <<now, faults, admitting, due, planVars, intents, reaping, calls, sender, sent>>

StartContinuation(m) ==
    /\ Takes(m, {"tool_pending"}) /\ loops[m].state = "result_ready"
    /\ Move(m, "continuing")
    /\ UNCHANGED <<now, faults, admitting, due, planVars, intents, step, reaping, calls, sender, sent>>

\* The text is known: the answer, or a generic receipt of a failure.
TextReady(m) ==
    \/ At(m, "promoted") /\ loops[m].state # "tool_pending"
    \/ /\ Takes(m, {"planning"})
       /\ runs[m].state \in RunStates \ {"none", "context_ready"} /\ ~ProposesTool(m)
    \/ /\ Takes(m, {"tool_pending", "continuing"})
       /\ loops[m].state \in {"complete", "failed", "budget_exhausted"}

\* _create_delivery commits the intent before the interaction moves.
CreateIntent(m) ==
    /\ TextReady(m)
    /\ IF intents[m].state = "none"
       THEN intents' = [intents EXCEPT ![m] = [state |-> "pending", until |-> due[m], events |-> 1]]
       ELSE UNCHANGED intents
    /\ StepTo(m, "intent")
    /\ UNCHANGED <<now, faults, admitting, interactions, due, planVars, reaping, calls, sender, sent>>

\* A reaper or a deliverer may have settled both since: the move is refused, and
\* the coordinator goes on to the next one.
AwaitDelivery(m) ==
    /\ At(m, "intent")
    /\ IF LegalMove(interactions[m], "delivery_pending")
       THEN Move(m, "delivery_pending")
       ELSE UNCHANGED interactions
    /\ step' = None
    /\ UNCHANGED <<now, faults, admitting, due, planVars, intents, reaping, calls, sender, sent>>

Coordinate(m) ==
    \/ ExpireInteraction(m) \/ FailInteraction(m)
    \/ CreateRun(m) \/ StartPlanning(m) \/ DispatchRun(m)
    \/ PromoteProposal(m) \/ RecordLoop(m) \/ AwaitTool(m)
    \/ StartContinuation(m) \/ DispatchLoop(m)
    \/ CreateIntent(m) \/ AwaitDelivery(m)

--------------------------------------------------------------------------------
(* The model provider and the tool.                                        *)

\* record_agent_attempt.
AttemptState(m, outcome) ==
    CASE outcome = "costly" \/ now > runs[m].deadline -> "budget_exhausted"
      [] outcome \in {"answer", "tool"} /\ now <= runs[m].deadline -> "shadow_complete"
      [] OTHER -> IF Len(runs[m].reports) + 1 < MaxAttempts THEN "context_ready"
                  ELSE IF outcome = "timed_out" THEN "timed_out" ELSE "failed"

ReportAttempt(m, outcome) ==
    /\ calls[m] = "run"
    /\ calls' = [calls EXCEPT ![m] = None]
    /\ IF /\ ~KeyReused(runs[m].reports, outcome)
          /\ runs[m].state = "context_ready" /\ Len(runs[m].reports) < MaxAttempts
       THEN /\ runs' = [runs EXCEPT ![m] = [@ EXCEPT !.state = AttemptState(m, outcome),
                                                    !.reports = Append(runs[m].reports, outcome)]]
            /\ LegalReport(runs[m], runs'[m])
       ELSE UNCHANGED runs
    /\ UNCHANGED <<now, faults, admitting, interactions, due, invocations, loops, intents,
                   step, reaping, sender, sent>>

\* Slip: a continuation starts its count anew.
NextContinuation(m) == Len(loops[m].reports) + 1

\* The number of model calls reported for a message, the new one included.
NextAttempt(m) == Len(runs[m].reports) + Len(loops[m].reports) + 1

\* record_continuation.
ContinuationState(m, outcome) ==
    CASE \/ outcome = "costly" \/ NextAttempt(m) > MaxAttempts
         \/ now > runs[m].deadline -> "budget_exhausted"
      [] outcome = "answer" /\ NextAttempt(m) <= MaxAttempts /\ now <= runs[m].deadline -> "complete"
      [] OTHER -> IF NextAttempt(m) < MaxAttempts THEN "result_ready" ELSE "failed"

\* A proposal of one more tool call is refused, as is a key used before.
ReportContinuation(m, outcome) ==
    /\ calls[m] = "tool_loop"
    /\ calls' = [calls EXCEPT ![m] = None]
    /\ IF /\ ~KeyReused(loops[m].reports, outcome) /\ outcome # "tool"
          /\ loops[m].state = "result_ready"
       THEN loops' = [loops EXCEPT ![m] = [state |-> ContinuationState(m, outcome),
                                           reports |-> Append(loops[m].reports, outcome)]]
       ELSE UNCHANGED loops
    /\ UNCHANGED <<now, faults, admitting, interactions, due, runs, invocations, intents,
                   step, reaping, sender, sent>>

\* The tool execution protocol, seen from here.
ToolEnds(m) ==
    /\ invocations[m].state = "queued"
    /\ \E state \in {"succeeded", "failed"} : invocations' = [invocations EXCEPT ![m].state = state]
    /\ UNCHANGED <<now, faults, admitting, interactions, due, runs, loops, intents, step, reaping,
                   calls, sender, sent>>

\* refresh_agent_tool_loop, by whoever looks at the loop; a result may be
\* larger than the budget.
RefreshLoop(m) ==
    /\ loops[m].state = "tool_pending" /\ invocations[m].state \in {"succeeded", "failed"}
    /\ \E state \in IF invocations[m].state = "succeeded"
                    THEN {"result_ready", "budget_exhausted"} ELSE {"failed"} :
          loops' = [loops EXCEPT ![m].state = state]
    /\ UNCHANGED <<now, faults, admitting, interactions, due, runs, invocations, intents, step,
                   reaping, calls, sender, sent>>

Work(m) ==
    \/ \E outcome \in OutcomesUsed : ReportAttempt(m, outcome) \/ ReportContinuation(m, outcome)
    \/ ToolEnds(m) \/ RefreshLoop(m)

--------------------------------------------------------------------------------
(* Delivery.                                                               *)

Due(m) ==
    \/ intents[m].state = "leased" /\ now >= intents[m].until
    \/ intents[m].state = "pending" /\ now >= intents[m].until

\* _finish_delivery: the intent and its interaction in one commit; the loser of
\* two of them fails on the number of its event, and a move a trigger refuses
\* takes the other one with it.
CanFinish(m, from, outcome) ==
    /\ EventFree(intents[m], from)
    /\ LegalDelivery(intents[m].state, outcome)
    /\ LegalMove(interactions[m], outcome)

\* Slip: the interaction follows in a commit of its own.
FinishAlone(m, outcome) ==
    /\ intents' = [intents EXCEPT ![m] = [@ EXCEPT !.state = outcome, !.events = intents[m].events + 1]]
    /\ UNCHANGED interactions

Finish(m, outcome) ==
    /\ intents' = [intents EXCEPT ![m] = [@ EXCEPT !.state = outcome, !.events = intents[m].events + 1]]
    /\ interactions' = [interactions EXCEPT ![m] = outcome]

\* What a reaper makes of an intent it read in state "from".
ReapOutcome(from) == IF from = "leased" THEN "ambiguous" ELSE "expired"

\* reap_agent_deliveries reads all that is due, then finishes one by one.
ReadDue ==
    /\ reaping = {}
    /\ reaping' = {[of |-> m, from |-> intents[m].state] : m \in {x \in Messages : Due(x)}}
    /\ reaping' # {}
    /\ UNCHANGED <<now, faults, admitting, interactions, due, planVars, intents, step,
                   calls, sender, sent>>

ReapIntent(m, from) ==
    /\ [of |-> m, from |-> from] \in reaping
    /\ IF CanFinish(m, from, ReapOutcome(from))
       THEN /\ Finish(m, ReapOutcome(from))
            /\ reaping' = reaping \ {[of |-> m, from |-> from]}
       ELSE /\ reaping' = {}
            /\ UNCHANGED <<intents, interactions>>
    /\ UNCHANGED <<now, faults, admitting, due, planVars, step, calls, sender, sent>>

\* Slip: a lease whose answer was lost is handed out again.
LeasableAgain(m) == intents[m].state \in {"pending", "leased"}

\* A lease first reaps, and fails with it; then an intent is handed out, under
\* fence 1, once.  The answer may be lost on its way to Nekro.
Leasable(m) == intents[m].state = "pending"

LeaseIntent(m, answered) ==
    /\ sender = None
    /\ \A x \in Messages : ~Due(x)
    /\ Leasable(m)
    /\ intents' = [intents EXCEPT ![m] = [state |-> "leased", until |-> now + LeaseLife, events |-> 2]]
    /\ IF answered
       THEN sender' = [of |-> m, outcome |-> "unsent"] /\ UNCHANGED faults
       ELSE faults < MaxFaults /\ faults' = faults + 1 /\ UNCHANGED sender
    /\ UNCHANGED <<now, admitting, interactions, due, planVars, step, reaping, calls, sent>>

\* The platform call may raise, or its receipt may not come, after it sent.
SendText(goes, outcome) ==
    /\ sender # None /\ sender.outcome = "unsent"
    /\ goes \/ outcome # "succeeded"
    /\ sent' = IF goes THEN sent \cup {sender.of} ELSE sent
    /\ sender' = [sender EXCEPT !.outcome = outcome]
    /\ UNCHANGED <<now, faults, coreVars, calls>>

\* Nekro reports once; a report that is refused is not repeated.
CompleteDelivery ==
    /\ sender # None /\ sender.outcome # "unsent"
    /\ sender' = None
    /\ IF CanFinish(sender.of, "leased", sender.outcome)
       THEN Finish(sender.of, sender.outcome)
       ELSE UNCHANGED <<intents, interactions>>
    /\ UNCHANGED <<now, faults, admitting, due, planVars, step, reaping, calls, sent>>

Deliver ==
    \/ ReadDue
    \/ \E m \in Messages, from \in {"pending", "leased"} : ReapIntent(m, from)
    \/ \E m \in Messages, answered \in BOOLEAN : LeaseIntent(m, answered)
    \/ \E goes \in BOOLEAN, outcome \in {"succeeded", "failed", "ambiguous"} : SendText(goes, outcome)
    \/ CompleteDelivery

--------------------------------------------------------------------------------
Tick ==
    /\ now < MaxTime
    /\ now' = now + 1
    /\ UNCHANGED <<faults, coreVars, calls, sender, sent>>

Fault == faults < MaxFaults /\ faults' = faults + 1 /\ UNCHANGED <<now, sent>>

\* Open transactions are rolled back; the rows stay.
RestartCore ==
    /\ Fault
    /\ step # None \/ reaping # {} \/ admitting # {}
    /\ step' = None /\ reaping' = {} /\ admitting' = {}
    /\ UNCHANGED <<interactions, due, planVars, intents, calls, sender>>

\* A provider is restarted, or its report is lost.
LoseCall(m) ==
    /\ Fault /\ calls[m] # None
    /\ calls' = [calls EXCEPT ![m] = None]
    /\ UNCHANGED <<coreVars, sender>>

\* Nekro is restarted, or its report is lost.
LoseSender ==
    /\ Fault /\ sender # None
    /\ sender' = None
    /\ UNCHANGED <<coreVars, calls>>

Next ==
    \/ \E m \in Messages : CountLimits(m) \/ AcceptInteraction(m) \/ Coordinate(m) \/ Work(m)
    \/ Deliver
    \/ Tick \/ RestartCore \/ LoseSender
    \/ \E m \in Messages : LoseCall(m)

Spec == Init /\ [][Next]_vars

--------------------------------------------------------------------------------
(* Properties.                                                             *)

\* The rows are of their types, and what a step between two commits goes on
\* from has been committed.
TypeOK ==
    /\ now \in 0 .. MaxTime /\ faults \in 0 .. MaxFaults
    /\ admitting \subseteq Messages /\ sent \subseteq Messages
    /\ interactions \in [Messages -> InteractionStates]
    /\ due \in [Messages -> Int]
    /\ runs \in [Messages -> Runs]
    /\ invocations \in [Messages -> Invocations]
    /\ loops \in [Messages -> Loops]
    /\ intents \in [Messages -> Intents]
    /\ step \in Steps \cup {None}
    /\ calls \in [Messages -> {"run", "tool_loop", None}]
    /\ reaping \subseteq [of : Messages, from : {"pending", "leased"}]
    /\ sender \in Sending \cup {None}

\* A delivery and its interaction never tell different stories, although the
\* coordinator, a stale reaper and a late report of Nekro write them, and although
\* an intent can be leased before its interaction waits for it: both are settled
\* alike, and no interaction waits for a delivery that is over.
SettledTogether ==
    \A m \in Messages :
        /\ intents[m].state \in Settled => interactions[m] = intents[m].state
        /\ interactions[m] = "delivery_pending" => intents[m].state \in {"pending", "leased"}
        /\ interactions[m] \in {"succeeded", "ambiguous"} => intents[m].state = interactions[m]

\* However admissions interleave, a conversation has no more than its number of
\* unfinished interactions.
AdmittedWithinLimits == Cardinality(ActiveMessages) <= MaxConcurrent

\* However often promotion is repeated after a restart, one call of a tool.
OneToolCall == \A m \in Messages : invocations[m].made <= 1

\* The planner's attempts and the continuation's share one budget: no text of a
\* model is used that took more.
ModelWithinBudget ==
    \A m \in Messages :
        /\ Len(runs[m].reports) <= MaxAttempts
        /\ loops[m].state = "complete" => Len(runs[m].reports) + Len(loops[m].reports) <= MaxAttempts

\* The limits an interaction is admitted and worked on under.
WithinLimits == AdmittedWithinLimits /\ OneToolCall /\ ModelWithinBudget

\* What delivery promises: Nekro sends a text at most once, whatever is lost or
\* restarted, and only a text that was sent is recorded as delivered.
Delivery == INSTANCE AtMostOnceDelivery WITH
    Answers <- Messages,
    permitted <- {m \in Messages : sender = [of |-> m, outcome |-> "unsent"]},
    sent <- sent,
    confirmed <- {m \in Messages : intents[m].state = "succeeded"}

\* "Sent, but the completion is lost: ambiguous, never sent again": the leases
\* of Core and the delivery loop of Nekro keep that promise.
AnswersAtMostOnce == Delivery!Spec
=================================================================================
