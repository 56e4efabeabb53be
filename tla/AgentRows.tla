-------------------------------- MODULE AgentRows --------------------------------
(***************************************************************************)
(* The rows an addressed message becomes: the interaction, its planner run *)
(* with one row per reported model attempt, the loop of its one tool call, *)
(* and the text to deliver.  What the database accepts of them is here;    *)
(* the handlers that write them are in AgentRuns.                          *)
(***************************************************************************)
EXTENDS Integers, Sequences

CONSTANTS
    Messages,     \* source events addressed to the bot in one conversation
    MaxAttempts,  \* budget.max_model_attempts
    None

ASSUME MaxAttemptsAssumption == MaxAttempts \in Nat \ {0}
ASSUME NoneAssumption == None \notin Messages

Settled == {"succeeded", "failed", "ambiguous", "expired"}
Active == {"accepted", "planning", "tool_pending", "continuing", "delivery_pending"}

Failures == {"provider_error", "invalid_output", "timed_out"}

\* "answer": a proposal without a valid tool call; "tool": one with a valid
\* call; "costly": one whose usage exceeds a budget of the run.
Outcomes == {"answer", "tool", "costly"} \cup Failures

InteractionStates == {"none"} \cup Active \cup Settled

\* model_running is entered and left in the commit of one report.
RunStates == {"none", "context_ready", "shadow_complete", "failed", "timed_out", "budget_exhausted"}
LoopStates == {"none", "tool_pending", "result_ready", "complete", "failed", "budget_exhausted"}
InvocationStates == {"none", "queued", "succeeded", "failed"}

Runs == [state : RunStates, reports : Seq(Outcomes), deadline : Int]
Loops == [state : LoopStates, reports : Seq(Outcomes)]
Invocations == [state : InvocationStates, made : Nat]

\* An intent has one event per state it went through.
Intents == [state : {"none", "pending", "leased"} \cup Settled, until : Int, events : 0 .. 3]

NoRun == [state |-> "none", reports |-> <<>>, deadline |-> 0]
NoLoop == [state |-> "none", reports |-> <<>>]
NoInvocation == [state |-> "none", made |-> 0]
NoIntent == [state |-> "none", until |-> 0, events |-> 0]

\* agent_interactions_state_guard.
LegalMove(from, to) ==
    \/ from = "accepted" /\ to \in {"planning", "failed", "expired"}
    \/ from = "planning" /\ to \in {"tool_pending", "delivery_pending", "failed", "expired"}
    \/ from = "tool_pending" /\ to \in {"continuing", "delivery_pending", "failed", "expired"}
    \/ from = "continuing" /\ to \in {"delivery_pending", "failed", "expired"}
    \/ from = "delivery_pending" /\ to \in Settled

\* agent_text_delivery_intents_state_guard.
LegalDelivery(from, to) ==
    \/ from = "pending" /\ to \in {"leased", "expired"}
    \/ from = "leased" /\ to \in {"succeeded", "failed", "ambiguous"}

\* The event a move of an intent appends is its second or its third one, and
\* the sequence number of an event is unique.
EventFree(intent, from) == intent.events < (IF from = "pending" THEN 2 ELSE 3)

\* agent_runs_state_guard, over the two moves of one report.
LegalReport(run, next) ==
    /\ run.state = "context_ready"
    /\ next.state \in {"context_ready", "shadow_complete", "failed", "timed_out", "budget_exhausted"}
    /\ Len(next.reports) = Len(run.reports) + 1

\* The key of a report is a hash of the target and of the raw output, which is
\* empty when the model cannot be reached: such a report reuses the key of an
\* earlier one, with other time stamps, and is refused.
KeyReused(reports, outcome) ==
    \E k \in DOMAIN reports : reports[k] = outcome /\ outcome = "timed_out"
=================================================================================
