---------------------------- MODULE ToolExecution ----------------------------
(***************************************************************************)
(* The tool invocation ledger and its execution protocol: callers create,  *)
(* confirm and cancel invocations; providers pull leases and report with   *)
(* the fence and secret of their attempt; two reapers close what expired.  *)
(*                                                                         *)
(* Each handler is one database transaction.  It takes its time stamp when *)
(* it begins and then waits for row locks, so it acts at "now" with a      *)
(* stamp that may be older.  A handler that reads what it decides on under *)
(* the locks it holds until commit is one action.  The lease also reads    *)
(* rows it does not lock, so it is two: LeaseBegin and LeaseCommit.        *)
(* Evidence rows (transitions, attempt events) are not kept: a request     *)
(* that is rejected changes only them and is a stuttering step here.       *)
(***************************************************************************)
EXTENDS RolloutAuthority, InvocationLifecycle, FiniteSets

CONSTANTS
    Invocations,    \* the invocations callers may propose, by idempotency key
    ScopeOf,        \* [Invocations -> Scopes]
    Attempts,       \* bound: the attempt rows that may be inserted
    RetrySafe,      \* the tools whose retry_policy is "retry_safe"
    ToolLimit,      \* [Tools -> descriptor.concurrency_limit]
    ProviderLimit,  \* [Providers -> max_concurrency of its heartbeat]
    RateRequests,   \* descriptor.rate_limit.requests, scope "tool"
    RateWindow,     \* descriptor.rate_limit.window_seconds
    Timeout,        \* descriptor.timeout_ms
    LeaseSeconds,   \* settings.tool_lease_seconds
    ConfirmSeconds, \* settings.tool_confirmation_seconds
    MaxLag,         \* bound: how old a stamp may be when the locks are granted
    Horizon         \* bound: the clock stops here

ASSUME ExecutionAssumption ==
    /\ None \notin Invocations
    /\ ScopeOf \in [Invocations -> Scopes]
    /\ IsFiniteSet(Attempts)
    /\ RetrySafe \subseteq Tools
    /\ ToolLimit \in [Tools -> Nat]
    /\ ProviderLimit \in [Providers -> Nat]
    /\ {RateRequests, RateWindow, Timeout, LeaseSeconds, ConfirmSeconds,
        MaxLag, Horizon} \subseteq Nat

VARIABLES
    now,           \* the database clock
    invocations,   \* [Invocations -> InvocationRecord]
    confirmations, \* [Invocations -> state of the confirmation row]
    attempts,      \* [Attempts -> AttemptRecord]
    leases,        \* [Providers -> the lease transaction that locks the row]
    held,          \* attempts whose lease response, with the secret, arrived
    nextPass       \* the pass the reaper loop runs next

ledgerVars == <<invocations, confirmations, attempts>>
vars == <<now, invocations, confirmations, attempts, leases, held, nextPass,
          authorityVars>>

InvocationRecord == [state : InvocationStates,
                     plan : Plans \cup {None},  \* rollout_plan_id
                     version : Nat,             \* its version in policy_snapshot
                     canary : BOOLEAN,          \* execution_mode = "canary"
                     queueCreated : BOOLEAN,    \* policy_snapshot.queue_created
                     created : Nat,
                     deadline : Nat]
AttemptRecord == [state : AttemptStates,
                  inv : Invocations \cup {None},
                  provider : Providers \cup {None},
                  fence : Nat,
                  deadline : Nat,
                  expires : Nat]
ConfirmationStates == {"none", "pending", "consumed", "rejected", "expired"}

NoInvocation == [state |-> "none", plan |-> None, version |-> 0, canary |-> FALSE,
                 queueCreated |-> FALSE, created |-> 0, deadline |-> 0]
NoAttempt == [state |-> "none", inv |-> None, provider |-> None,
              fence |-> 0, deadline |-> 0, expires |-> 0]
NoLease == [inv |-> None, rows |-> {}, stamp |-> 0]

TypeOK ==
    /\ AuthorityTypeOK
    /\ now \in Nat
    /\ invocations \in [Invocations -> InvocationRecord]
    /\ confirmations \in [Invocations -> ConfirmationStates]
    /\ attempts \in [Attempts -> AttemptRecord]
    /\ leases \in [Providers -> [inv : Invocations \cup {None},
                                 rows : SUBSET Invocations, stamp : Nat]]
    /\ held \subseteq Attempts
    /\ nextPass \in {"attempts", "invocations"}

Init ==
    /\ AuthorityInit
    /\ now = 0
    /\ invocations = [i \in Invocations |-> NoInvocation]
    /\ confirmations = [i \in Invocations |-> "none"]
    /\ attempts = [a \in Attempts |-> NoAttempt]
    /\ leases = [v \in Providers |-> NoLease]
    /\ held = {}
    /\ nextPass = "attempts"

-------------------------------------------------------------------------------
(* Reading the ledger.                                                     *)

Earlier(x, y) == IF x <= y THEN x ELSE y

\* CURRENT_TIMESTAMP of a transaction that is granted its locks now.
Stamps == {t \in 0 .. now : now - t <= MaxLag}

ToolOf(i) == ScopeTool[ScopeOf[i]]
ProviderOf(i) == PlanItem[invocations[i].plan][ScopeOf[i]]
StateOf(i) == invocations[i].state

Live(a) == attempts[a].state \in LiveAttemptStates
AttemptsOf(i) == {a \in Attempts : attempts[a].inv = i}
LiveOn(v) == {a \in Attempts : Live(a) /\ attempts[a].provider = v}
LiveOf(tool) == {a \in Attempts : Live(a) /\ ToolOf(attempts[a].inv) = tool}

\* Slip: the fence counts live attempts only, so a retry reuses it.
LiveFence(i) == 1 + Cardinality({a \in AttemptsOf(i) : Live(a)})

\* fence = max(fencing_token) + 1, the first being 1.
NextFence(i) ==
    CHOOSE f \in 1 .. Cardinality(Attempts) + 1 :
        /\ \A a \in AttemptsOf(i) : attempts[a].fence < f
        /\ f > 1 => \E a \in AttemptsOf(i) : attempts[a].fence = f - 1

\* Rows a lease transaction in flight has locked; others wait for it, and
\* SKIP LOCKED readers pass over them.
Leasing(v) == leases[v].inv # None
RowLocked(i) == \E v \in Providers : i \in leases[v].rows
\* Slip: the lease reads the plan without FOR UPDATE.
PlanNeverLocked(p) == FALSE

PlanLocked(p) ==
    \E v \in Providers : Leasing(v) /\ invocations[leases[v].inv].plan = p

SetState(i, state) == invocations' = [invocations EXCEPT ![i].state = state]

-------------------------------------------------------------------------------
(* create_tool_invocation.  "view" is what the reads outside the plan lock *)
(* showed: a reason that refuses in every mode, a registry that finds the  *)
(* runtime ineligible, authority that moved since the plan was reviewed,   *)
(* or none of these.  Those reads may be stale, so "eligible" is possible  *)
(* even after the authority moved.  A repeated key returns the stored row. *)

Views == {"eligible", "ineligible", "drifted", "refused"}

MatchingPlan(i, t) ==
    IF settings.mode = "canary" /\ \E p \in Plans :
          PlanInForce(p, t) /\ PlanItem[p][ScopeOf[i]] # None
    THEN CHOOSE p \in Plans : PlanInForce(p, t) /\ PlanItem[p][ScopeOf[i]] # None
    ELSE None

\* Slip: one request too many.
RateExceededByOne(tool, self, t) ==
    Cardinality({j \in Invocations \ {self} :
        /\ ToolOf(j) = tool
        /\ invocations[j].canary
        /\ StateOf(j) \notin {"none", "rejected", "recorded_only"}
        /\ invocations[j].created + RateWindow >= t}) > RateRequests

\* Both callers count with the tool's descriptor; self is excluded on approval.
RateExceeded(tool, self, t) ==
    Cardinality({j \in Invocations \ {self} :
        /\ ToolOf(j) = tool
        /\ invocations[j].canary
        /\ StateOf(j) \notin {"none", "rejected", "recorded_only"}
        /\ invocations[j].created + RateWindow >= t}) >= RateRequests

Creating(i, t, view) ==
    /\ StateOf(i) = "none"
    /\ settings.mode # "off"
    /\ ~PlanLocked(MatchingPlan(i, t))
    /\ view = "drifted" => MatchingPlan(i, t) # None /\
          LET p == MatchingPlan(i, t) IN
             ~(DescriptorInForce(ToolOf(i)) /\ ProviderInForce(PlanItem[p][ScopeOf[i]]))

\* Reasons to fall back to a record without a queue entry.
Fallback(i, t, view) ==
    \/ settings.mode = "ledger_only"
    \/ MatchingPlan(i, t) = None
    \/ view = "drifted"
    \/ settings.stop

Insert(i, t, state, canary, deadline) ==
    LET p == MatchingPlan(i, t) IN
    /\ invocations' = [invocations EXCEPT ![i] =
          [state |-> state, plan |-> p,
           version |-> IF p = None THEN 0 ELSE plans[p].version,
           canary |-> canary, queueCreated |-> state = "queued",
           created |-> t, deadline |-> deadline]]
    /\ UNCHANGED <<now, attempts, leases, held, nextPass, descriptors, providers, settings, operations>>

Passes(i, t, view) ==
    /\ Creating(i, t, view)
    /\ view = "eligible"
    /\ ~Fallback(i, t, view)
    /\ ~RateExceeded(ToolOf(i), i, t)

RejectProposal(i, t, view) ==
    /\ Creating(i, t, view)
    /\ \/ view = "refused"
       \/ /\ ~Fallback(i, t, view)
          /\ view = "ineligible" \/ RateExceeded(ToolOf(i), i, t)
    /\ Insert(i, t, "rejected", ~Fallback(i, t, view), t + Timeout)
    /\ UNCHANGED <<confirmations, plans>>

RecordOnly(i, t, view) ==
    /\ Creating(i, t, view)
    /\ view # "refused"
    /\ \/ Fallback(i, t, view)
       \/ /\ Passes(i, t, view)
          /\ ToolOf(i) \notin ConfirmTools
          /\ ~QuotaLeft(MatchingPlan(i, t))
    /\ Insert(i, t, "recorded_only", FALSE, t + Timeout)
    /\ UNCHANGED <<confirmations, plans>>

\* The challenge consumes no quota; it expires with the plan at the latest.
RequireConfirmation(i, t, view) ==
    /\ Passes(i, t, view)
    /\ ToolOf(i) \in ConfirmTools
    /\ Insert(i, t, "awaiting_confirmation", TRUE,
              Earlier(t + ConfirmSeconds, PlanExpires[MatchingPlan(i, t)]))
    /\ confirmations' = [confirmations EXCEPT ![i] = "pending"]
    /\ UNCHANGED plans

QueueProposal(i, t, view) ==
    /\ Passes(i, t, view)
    /\ ToolOf(i) \notin ConfirmTools
    /\ QuotaLeft(MatchingPlan(i, t))
    /\ Consume(MatchingPlan(i, t))
    /\ Insert(i, t, "queued", TRUE, t + Timeout)
    /\ UNCHANGED confirmations

-------------------------------------------------------------------------------
(* decide_tool_confirmation: approve, reject, or find the challenge over.  *)

Close(i, invocationState, confirmationState) ==
    /\ SetState(i, invocationState)
    /\ confirmations' = [confirmations EXCEPT ![i] = confirmationState]
    /\ UNCHANGED <<now, attempts, leases, held, nextPass, authorityVars>>

Deciding(i) ==
    /\ StateOf(i) = "awaiting_confirmation"
    /\ confirmations[i] = "pending"

DecideTooLate(i, t) ==
    /\ Deciding(i)
    /\ invocations[i].deadline <= t
    /\ Close(i, "expired", "expired")

RejectConfirmation(i, t) ==
    /\ Deciding(i)
    /\ invocations[i].deadline > t
    /\ Close(i, "rejected", "rejected")

\* Approval locks plan, descriptor and provider and checks everything again.
StillAuthorised(i, t) ==
    /\ CanExecute
    /\ invocations[i].canary
    /\ PlanInForce(invocations[i].plan, t)
    /\ PlanUnchanged(invocations[i].plan, invocations[i].version)
    /\ DescriptorInForce(ToolOf(i))
    /\ ProviderInForce(ProviderOf(i))
    /\ ~RateExceeded(ToolOf(i), i, t)

Approving(i, t) ==
    /\ Deciding(i)
    /\ invocations[i].deadline > t
    /\ ~PlanLocked(invocations[i].plan)
    /\ ~Leasing(ProviderOf(i))

\* "healthy" is the registry's answer about the provider's runtime.
RefuseApproval(i, t, healthy) ==
    /\ Approving(i, t)
    /\ ~StillAuthorised(i, t) \/ ~healthy \/ ~QuotaLeft(invocations[i].plan)
    /\ Close(i, "rejected", "rejected")

Approve(i, t) ==
    /\ Approving(i, t)
    /\ StillAuthorised(i, t)
    /\ QuotaLeft(invocations[i].plan)
    /\ Consume(invocations[i].plan)
    /\ invocations' = [invocations EXCEPT
          ![i].state = "queued",
          ![i].deadline = Earlier(t + Timeout, PlanExpires[invocations[i].plan])]
    /\ confirmations' = [confirmations EXCEPT ![i] = "consumed"]
    /\ UNCHANGED <<now, attempts, leases, held, nextPass, descriptors, providers, settings, operations>>

-------------------------------------------------------------------------------
(* cancel_tool_invocation.                                                 *)

\* Slip: the confirmation row is left pending.
CancelOpenOnly(i) ==
    /\ StateOf(i) \in OpenStates
    /\ ~RowLocked(i)
    /\ Close(i, "cancelled", confirmations[i])

CancelOpen(i) ==
    /\ StateOf(i) \in OpenStates
    /\ ~RowLocked(i)
    /\ Close(i, "cancelled",
             IF StateOf(i) = "awaiting_confirmation" THEN "rejected"
                                                     ELSE confirmations[i])

RequestCancel(i) ==
    /\ StateOf(i) \in {"leased", "running"}
    /\ Close(i, "cancel_requested", confirmations[i])

-------------------------------------------------------------------------------
(* lease_tool_execution.                                                   *)

\* Slip: the plan's lifecycle is checked but not its version.
LeasableUnderNewPlan(i, t) ==
    /\ invocations[i].canary
    /\ PlanInForce(invocations[i].plan, t)
    /\ ProviderInForce(ProviderOf(i))
    /\ DescriptorInForce(ToolOf(i))

\* Everything a candidate must satisfy.  The provider, candidate and plan rows
\* are locked; the descriptor row and the attempts counted are only read.
Leasable(i, t) ==
    /\ invocations[i].canary
    /\ PlanInForce(invocations[i].plan, t)
    /\ PlanUnchanged(invocations[i].plan, invocations[i].version)
    /\ ProviderInForce(ProviderOf(i))
    /\ DescriptorInForce(ToolOf(i))
    /\ Cardinality(LiveOn(ProviderOf(i))) < ProviderLimit[ProviderOf(i)]
    /\ Cardinality(LiveOf(ToolOf(i))) < ToolLimit[ToolOf(i)]

\* SKIP LOCKED: rows another lease holds are not candidates.
Candidates(v, t) ==
    {i \in Invocations : /\ StateOf(i) = "queued"
                         /\ ProviderOf(i) = v
                         /\ invocations[i].deadline > t
                         /\ ~RowLocked(i)}

\* Any candidate may be the first to pass: an older one can fail on its
\* runtime, credential or reported load, which this module does not keep.
LeaseBegin(v, i, t) ==
    /\ CanExecute
    /\ ~Leasing(v)
    /\ providers[v].lifecycle = "active"
    /\ i \in Candidates(v, t)
    /\ ~PlanLocked(invocations[i].plan)
    /\ Leasable(i, t)
    /\ leases' = [leases EXCEPT ![v] =
          [inv |-> i, rows |-> Candidates(v, t), stamp |-> t]]
    /\ UNCHANGED <<now, ledgerVars, held, nextPass, authorityVars>>

\* The partial unique index admits one live attempt per invocation.
LeaseCommit(v, a, arrives) ==
    LET i == leases[v].inv
        deadline == invocations[i].deadline IN
    /\ Leasing(v)
    /\ attempts[a].state = "none"
    /\ \A b \in AttemptsOf(i) : ~Live(b)
    /\ attempts' = [attempts EXCEPT ![a] =
          [state |-> "leased", inv |-> i, provider |-> v, fence |-> NextFence(i),
           deadline |-> deadline,
           expires |-> Earlier(deadline, leases[v].stamp + LeaseSeconds)]]
    /\ SetState(i, "leased")
    /\ leases' = [leases EXCEPT ![v] = NoLease]
    /\ held' = IF arrives THEN held \cup {a} ELSE held
    /\ UNCHANGED <<now, confirmations, nextPass, authorityVars>>

\* A constraint, a lost connection or a crash rolls the transaction back.
LeaseAbort(v) ==
    /\ Leasing(v)
    /\ leases' = [leases EXCEPT ![v] = NoLease]
    /\ UNCHANGED <<now, ledgerVars, held, nextPass, authorityVars>>

-------------------------------------------------------------------------------
(* Reports of a provider.  It must present the fence and secret of an      *)
(* attempt whose lease response it received; a report may be late, or a    *)
(* retry of one that was already applied.                                  *)

\* Slip: only the invocation's state is looked at, not the attempt's.
ProofOfAnyAttempt(a, t, attemptStates, invocationStates) ==
    /\ a \in held
    /\ StateOf(attempts[a].inv) \in invocationStates
    /\ attempts[a].deadline >= t

ProofAccepted(a, t, attemptStates, invocationStates) ==
    /\ a \in held
    /\ attempts[a].state \in attemptStates
    /\ StateOf(attempts[a].inv) \in invocationStates
    /\ attempts[a].expires >= t
    /\ attempts[a].deadline >= t

SetAttempt(a, state) == attempts' = [attempts EXCEPT ![a].state = state]
OnlyTheRun == UNCHANGED <<now, confirmations, leases, held, nextPass, authorityVars>>

Start(a, t) ==
    /\ ProofAccepted(a, t, {"leased"}, {"leased"})
    /\ SetState(attempts[a].inv, "running")
    /\ SetAttempt(a, "running")
    /\ OnlyTheRun

\* "over": the usage the provider reports exceeds a limit of the descriptor.
Heartbeat(a, t, over) ==
    /\ ProofAccepted(a, t, {"running"}, {"running", "cancel_requested"})
    /\ attempts' = [attempts EXCEPT
          ![a].expires = Earlier(attempts[a].deadline, t + LeaseSeconds)]
    /\ IF over THEN SetState(attempts[a].inv, "cancel_requested")
               ELSE UNCHANGED invocations
    /\ OnlyTheRun

Finish(a, attemptState, invocationState) ==
    /\ SetAttempt(a, attemptState)
    /\ SetState(attempts[a].inv, invocationState)
    /\ OnlyTheRun

\* Slip: a result that met a cancel request is taken as it is.
CompleteAnyway(a, t, valid) ==
    /\ ProofAccepted(a, t, {"running"}, {"running", "cancel_requested"})
    /\ IF valid THEN Finish(a, "succeeded", "succeeded")
                ELSE Finish(a, "failed", "failed")

\* "valid": output schema, artifacts and budget all pass.  A result that met a
\* cancel request is never taken for a success, nor for a plain failure.
Complete(a, t, valid) ==
    /\ ProofAccepted(a, t, {"running"}, {"running", "cancel_requested"})
    /\ IF StateOf(attempts[a].inv) = "cancel_requested"
       THEN Finish(a, "unknown_completion", "unknown_completion")
       ELSE IF valid THEN Finish(a, "succeeded", "succeeded")
                     ELSE Finish(a, "failed", "failed")

\* "stopped": the provider answers with error_code "cancelled".
Fail(a, t, stopped) ==
    /\ ProofAccepted(a, t, {"leased", "running"}, {"running", "cancel_requested"})
    /\ IF StateOf(attempts[a].inv) # "cancel_requested"
       THEN Finish(a, "failed", "failed")
       ELSE IF stopped THEN Finish(a, "cancelled", "cancelled")
                       ELSE Finish(a, "unknown_completion", "unknown_completion")

-------------------------------------------------------------------------------
(* The reaper loop of Core, in canary mode only: a pass over attempts and  *)
(* then a pass over invocations, each one transaction with its own stamp.  *)

AfterExpiry(i, t) ==
    IF StateOf(i) \in {"leased", "running"}
    THEN IF ToolOf(i) \notin RetrySafe THEN "unknown_completion"
         ELSE IF invocations[i].deadline > t THEN "queued" ELSE "timed_out"
    ELSE IF StateOf(i) = "cancel_requested" THEN "unknown_completion"
    ELSE StateOf(i)

\* SKIP LOCKED: an attempt some report has just locked is left for the next
\* loop.  (A secret must have been received to lock it.)
ReapAttempts(t, skipped) ==
    LET expired == {a \in Attempts \ skipped : Live(a) /\ attempts[a].expires <= t} IN
    /\ settings.mode = "canary"
    /\ nextPass = "attempts"
    /\ attempts' = [a \in Attempts |->
          IF a \in expired THEN [attempts[a] EXCEPT !.state = "lease_expired"]
                           ELSE attempts[a]]
    /\ invocations' = [i \in Invocations |->
          IF \E a \in expired : attempts[a].inv = i
          THEN [invocations[i] EXCEPT !.state = AfterExpiry(i, t)]
          ELSE invocations[i]]
    /\ nextPass' = "invocations"
    /\ UNCHANGED <<now, confirmations, leases, held, authorityVars>>

\* What the second pass makes of an overdue invocation.  An attempt that is
\* still live is left to the other pass.
AfterDeadline(i) ==
    CASE StateOf(i) = "awaiting_confirmation" -> "expired"
      [] StateOf(i) = "queued" -> "timed_out"
      [] StateOf(i) = "proposed" -> "rejected"
      [] OTHER -> "unknown_completion"

\* Slip: the pass looks only for invocations a provider holds.
OverdueHeld(i) == StateOf(i) \in HeldStates /\ invocations[i].deadline <= now

Overdue(i) ==
    /\ StateOf(i) \notin TerminalStates \cup {"none"}
    /\ invocations[i].deadline <= now
    /\ ~RowLocked(i)

\* SKIP LOCKED again: this pass waits for nothing, so its stamp is current.
ReapInvocations ==
    LET overdue == {i \in Invocations : Overdue(i)} IN
    /\ settings.mode = "canary"
    /\ nextPass = "invocations"
    /\ \A i \in overdue : StateOf(i) = "awaiting_confirmation" =>
          confirmations[i] = "pending"
    /\ invocations' = [i \in Invocations |->
          IF i \in overdue THEN [invocations[i] EXCEPT !.state = AfterDeadline(i)]
                           ELSE invocations[i]]
    /\ confirmations' = [i \in Invocations |->
          IF i \in overdue /\ StateOf(i) = "awaiting_confirmation"
          THEN "expired" ELSE confirmations[i]]
    /\ nextPass' = "attempts"
    /\ UNCHANGED <<now, attempts, leases, held, authorityVars>>

-------------------------------------------------------------------------------
(* Lifecycle mutations wait for the rows a lease transaction has locked.   *)
(* The lease does not lock the descriptor, so its mutations do not wait.   *)

OnlyAuthority == UNCHANGED <<now, ledgerVars, leases, held, nextPass>>

Operate ==
    \/ \E p \in Plans : /\ ~PlanLocked(p)
                        /\ PausePlan(p) \/ \E t \in Stamps : ActivatePlan(p, t)
                        /\ OnlyAuthority
    \/ \E v \in Providers : /\ ~Leasing(v)
                            /\ QuarantineProvider(v) \/ RestoreProvider(v)
                            /\ OnlyAuthority
    \/ \E tool \in Tools : /\ SuspendDescriptor(tool) \/ ReactivateDescriptor(tool)
                           /\ OnlyAuthority

\* The process that restarts takes its open transactions with it.
Restart ==
    /\ \E mode \in {"off", "ledger_only", "canary"}, stop \in BOOLEAN :
          Reconfigure(mode, stop)
    /\ leases' = [v \in Providers |-> NoLease]
    /\ nextPass' = "attempts"
    /\ UNCHANGED <<now, ledgerVars, held>>

Tick ==
    /\ now < Horizon
    /\ now' = now + 1
    /\ UNCHANGED <<ledgerVars, leases, held, nextPass, authorityVars>>

-------------------------------------------------------------------------------

Call(i, t) ==
    \/ \E view \in Views : \/ RejectProposal(i, t, view)
                           \/ RecordOnly(i, t, view)
                           \/ RequireConfirmation(i, t, view)
                           \/ QueueProposal(i, t, view)
    \/ DecideTooLate(i, t)
    \/ RejectConfirmation(i, t)
    \/ \E healthy \in BOOLEAN : RefuseApproval(i, t, healthy)
    \/ Approve(i, t)
    \/ CancelOpen(i)
    \/ RequestCancel(i)

Report(a, t) ==
    \/ Start(a, t)
    \/ \E over \in BOOLEAN : Heartbeat(a, t, over)
    \/ \E valid \in BOOLEAN : Complete(a, t, valid)
    \/ \E stopped \in BOOLEAN : Fail(a, t, stopped)

Lease(v) ==
    \/ \E i \in Invocations, t \in Stamps : LeaseBegin(v, i, t)
    \/ \E a \in Attempts, arrives \in BOOLEAN : LeaseCommit(v, a, arrives)
    \/ LeaseAbort(v)

Next ==
    \/ \E i \in Invocations, t \in Stamps : Call(i, t)
    \/ \E v \in Providers : Lease(v)
    \/ \E a \in Attempts, t \in Stamps : Report(a, t)
    \/ \E t \in Stamps, skipped \in SUBSET held : ReapAttempts(t, skipped)
    \/ ReapInvocations
    \/ Operate
    \/ Restart
    \/ Tick

Spec == Init /\ [][Next]_vars

-------------------------------------------------------------------------------
(* Fairness: in canary mode the reaper loop keeps running and no attempt   *)
(* row is found locked by every one of its passes; an open transaction     *)
(* ends; time passes.  Nothing is asked of callers or providers, who may   *)
(* never be heard of again.                                                *)

Fairness ==
    /\ WF_vars(Tick)
    /\ \A v \in Providers : WF_vars(LeaseAbort(v))
    /\ WF_vars(\E t \in Stamps, skipped \in SUBSET held : ReapAttempts(t, skipped))
    /\ SF_vars(ReapAttempts(now, {}))
    /\ WF_vars(ReapInvocations)

FairSpec == Spec /\ Fairness

-------------------------------------------------------------------------------
(* Properties.                                                             *)

\* An attempt row and its invocation row, moved by different handlers and by
\* two reapers, never contradict each other: only one attempt of an invocation
\* is live, it carries the highest fence, a queued invocation has none, and an
\* invocation that is leased or running has one in that very state.
AttemptsAgree ==
    /\ \A a \in Attempts : Live(a) =>
          /\ StateOf(attempts[a].inv) \in
                {attempts[a].state, "cancel_requested", "unknown_completion"}
          /\ \A b \in AttemptsOf(attempts[a].inv) \ {a} :
                ~Live(b) /\ attempts[b].fence < attempts[a].fence
    /\ \A i \in Invocations : StateOf(i) \in {"leased", "running"} =>
          \E a \in AttemptsOf(i) : attempts[a].state = StateOf(i)

\* The plan counter is exactly the number of invocations that were ever queued
\* under the plan, directly or by an approval, and stays within the quota.
QuotaExact ==
    \A p \in Plans :
        /\ plans[p].consumed <= MaxInvocations[p]
        /\ plans[p].consumed = Cardinality({i \in Invocations :
              /\ invocations[i].plan = p
              /\ invocations[i].queueCreated \/ confirmations[i] = "consumed"})

\* Concurrent leases of several providers together respect the tool's
\* concurrency limit, though each counts live attempts without locking them.
ConcurrencyWithinLimits ==
    /\ \A tool \in Tools : Cardinality(LiveOf(tool)) <= ToolLimit[tool]
    /\ \A v \in Providers : Cardinality(LiveOn(v)) <= ProviderLimit[v]

\* No window of RateWindow holds more admitted invocations of a tool than its
\* rate limit, although stamps reach the ledger out of order.
RateWithinLimit ==
    \A tool \in Tools, i \in Invocations :
        Cardinality({j \in Invocations :
            /\ ToolOf(j) = tool /\ invocations[j].canary
            /\ StateOf(j) \notin {"none", "rejected", "recorded_only"}
            /\ invocations[j].created
                 \in invocations[i].created .. invocations[i].created + RateWindow})
        <= RateRequests

\* A challenge is open exactly as long as its invocation waits for it, and an
\* invocation that needs one is queued only by consuming it.
ConfirmationAgrees ==
    \A i \in Invocations :
        /\ confirmations[i] = "pending" <=> StateOf(i) = "awaiting_confirmation"
        /\ ToolOf(i) \in ConfirmTools /\
             StateOf(i) \in {"queued", "succeeded"} \cup HeldStates
           => confirmations[i] = "consumed"

\* An attempt appears only while its plan is active at the version the
\* invocation recorded, its provider active, and execution switched on.
LeaseNeedsAuthority ==
    [][\A a \in Attempts : attempts[a].state = "none" /\ attempts'[a].state # "none" =>
          LET i == attempts'[a].inv IN
          /\ CanExecute
          /\ plans[invocations[i].plan].lifecycle = "active"
          /\ PlanUnchanged(invocations[i].plan, invocations[i].version)
          /\ ProviderInForce(attempts'[a].provider)]_vars

\* The outcome of an execution comes from the attempt with the highest fence,
\* live until that step: a stale provider never decides it.
OutcomeFromNewestAttempt ==
    [][\A i \in Invocations :
          StateOf(i)' # StateOf(i) /\ StateOf(i)' \in {"succeeded", "failed"} =>
             \E a \in AttemptsOf(i) :
                /\ Live(a)
                /\ attempts'[a].state = StateOf(i)'
                /\ \A b \in AttemptsOf(i) : attempts[b].fence <= attempts[a].fence]_vars

\* While Core stays in canary mode every invocation ends, and every attempt
\* gives back its place under the concurrency limits, though no caller or
\* provider ever speaks again.
EverythingEnds ==
    /\ \A i \in Invocations :
          StateOf(i) # "none" ~> \/ StateOf(i) \in TerminalStates
                                 \/ settings.mode # "canary"
    /\ \A a \in Attempts : Live(a) ~> ~Live(a) \/ settings.mode # "canary"

\* The protocol implements the promise of ToolLedger: the phase and outcome of
\* an invocation are read off its state, its handouts off its attempt rows.
PhaseOf(state) ==
    CASE state = "none" -> "absent"
      [] state \in OpenStates -> "waiting"
      [] state \in {"leased", "running", "lease_expired"} -> "executing"
      [] state = "cancel_requested" -> "stopping"
      [] state \in TerminalStates -> "settled"

Ledger == INSTANCE ToolLedger WITH
    Repeatable <- {i \in Invocations : ToolOf(i) \in RetrySafe},
    phase <- [i \in Invocations |-> PhaseOf(StateOf(i))],
    handouts <- [i \in Invocations |-> Cardinality(AttemptsOf(i))],
    outcome <- [i \in Invocations |->
                   IF StateOf(i) \in TerminalStates THEN StateOf(i) ELSE "none"]

KeepsThePromise == Ledger!Spec

\* PHASE3B_EXECUTION.md: a retry_safe execution whose lease is lost ends as
\* timed_out, never as unknown_completion, unless a cancel was requested.
RetrySafeTimesOut ==
    [][\A i \in Invocations :
          /\ ToolOf(i) \in RetrySafe
          /\ StateOf(i) \in {"leased", "running"}
          => StateOf(i)' # "unknown_completion"]_vars

\* PHASE3B_EXECUTION.md: suspending the descriptor stops every new lease.
SuspensionStopsLease ==
    [][\A a \in Attempts : attempts[a].state = "none" /\ attempts'[a].state # "none" =>
          DescriptorInForce(ToolOf(attempts'[a].inv))]_vars
=============================================================================
