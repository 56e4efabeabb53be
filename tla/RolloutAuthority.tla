--------------------------- MODULE RolloutAuthority ---------------------------
(***************************************************************************)
(* The authority an invocation runs under, as Core's database keeps it:    *)
(* the lifecycle and resource_version of each Git-reviewed rollout plan    *)
(* with its invocation counter, of each tool descriptor and of each        *)
(* provider, together with the two process settings that stop execution.   *)
(*                                                                         *)
(* The lifecycle actions are the accepted outcome of the three control     *)
(* plane mutations.  Each changes its own row under FOR UPDATE and moves   *)
(* resource_version by one; a rejected mutation changes none of these      *)
(* rows.  Which rows a transaction in flight has locked is not known here: *)
(* the module that composes this one adds that guard.                      *)
(***************************************************************************)
EXTENDS Integers

CONSTANTS
    Plans,          \* rollout plans
    Tools,          \* exact descriptor versions
    Providers,      \* registered providers
    None,           \* absence of a plan or a provider
    Scopes,         \* exact targets: a tool in one conversation for one caller
    ScopeTool,      \* [Scopes -> Tools]
    ConfirmTools,   \* the tools whose descriptor asks for a human confirmation
    PlanItem,       \* [Plans -> [Scopes -> provider of the item, or None]]
    PlanExpires,    \* [Plans -> expires_at]; every window starts at time 0
    MaxInvocations, \* [Plans -> max_invocations], the quota
    ActiveAtStart,  \* the plan the operators had activated before time 0, or None
    MaxOperations   \* bound: how often operators act, on a row or on settings

ASSUME AuthorityAssumption ==
    /\ None \notin Plans \cup Providers
    /\ ScopeTool \in [Scopes -> Tools]
    /\ ConfirmTools \subseteq Tools
    /\ PlanItem \in [Plans -> [Scopes -> Providers \cup {None}]]
    /\ PlanExpires \in [Plans -> Nat]
    /\ MaxInvocations \in [Plans -> Nat]
    /\ ActiveAtStart \in Plans \cup {None}
    /\ MaxOperations \in Nat

VARIABLES
    plans,       \* [Plans -> [lifecycle, version, consumed]]
    descriptors, \* [Tools -> [lifecycle, version]]
    providers,   \* [Providers -> [lifecycle, version]]
    settings,    \* [mode, stop]: tool_execution_mode, tool_global_stop
    operations   \* how often operators acted, counted for the bound only

authorityVars == <<plans, descriptors, providers, settings, operations>>

\* The version at which the plan items were reviewed: a plan names the exact
\* resource_version of the descriptor and of the provider it relies on.
Reviewed == 1

PlanRecord == [lifecycle : {"reviewed", "active", "paused"},
               version : Nat, consumed : Nat]
DescriptorRecord == [lifecycle : {"active", "suspended"}, version : Nat]
ProviderRecord == [lifecycle : {"active", "quarantined"}, version : Nat]
SettingsRecord == [mode : {"off", "ledger_only", "canary"}, stop : BOOLEAN]

AuthorityTypeOK ==
    /\ plans \in [Plans -> PlanRecord]
    /\ descriptors \in [Tools -> DescriptorRecord]
    /\ providers \in [Providers -> ProviderRecord]
    /\ settings \in SettingsRecord
    /\ operations \in Nat

AuthorityInit ==
    /\ plans = [p \in Plans |->
          [lifecycle |-> IF p = ActiveAtStart THEN "active" ELSE "reviewed",
           version   |-> IF p = ActiveAtStart THEN Reviewed + 1 ELSE Reviewed,
           consumed  |-> 0]]
    /\ descriptors = [t \in Tools |-> [lifecycle |-> "active", version |-> Reviewed]]
    /\ providers = [v \in Providers |-> [lifecycle |-> "active", version |-> Reviewed]]
    /\ settings = [mode |-> "canary", stop |-> FALSE]
    /\ operations = 0

-------------------------------------------------------------------------------
(* What the rows say at this moment.                                       *)

CanExecute == settings.mode = "canary" /\ ~settings.stop

PlanInForce(p, t) == plans[p].lifecycle = "active" /\ t < PlanExpires[p]

\* The lease and the approval compare the plan with the version the
\* invocation recorded in its policy snapshot.
PlanUnchanged(p, snapshot) == plans[p].version = snapshot

DescriptorInForce(tool) ==
    descriptors[tool].lifecycle = "active" /\ descriptors[tool].version = Reviewed

ProviderInForce(v) ==
    providers[v].lifecycle = "active" /\ providers[v].version = Reviewed

\* A slip the runs must notice: a quota off by one.
QuotaLeftOrMet(p) == plans[p].consumed <= MaxInvocations[p]

\* consume_rollout_invocation: one UPDATE with the quota in its WHERE.
QuotaLeft(p) == plans[p].consumed < MaxInvocations[p]
Consume(p) == plans' = [plans EXCEPT ![p].consumed = @ + 1]

-------------------------------------------------------------------------------
(* Accepted lifecycle mutations.                                           *)

Operation == operations < MaxOperations /\ operations' = operations + 1

Move(row, to) == [row EXCEPT !.lifecycle = to, !.version = @ + 1]

\* reviewed -> active and paused -> active.  The preview's blockers are
\* recomputed under the plan lock; that no other plan is active is read
\* without a common lock, and the partial unique index on lifecycle decides.
ActivatePlan(p, t) ==
    /\ plans[p].lifecycle \in {"reviewed", "paused"}
    /\ Operation
    /\ CanExecute
    /\ t < PlanExpires[p]
    /\ QuotaLeft(p)
    /\ \A q \in Plans \ {p} : plans[q].lifecycle # "active"
    /\ \A s \in Scopes : PlanItem[p][s] # None =>
          /\ DescriptorInForce(ScopeTool[s])
          /\ ProviderInForce(PlanItem[p][s])
          /\ ScopeTool[s] \notin ConfirmTools
    /\ plans' = [plans EXCEPT ![p] = Move(@, "active")]
    /\ UNCHANGED <<descriptors, providers, settings>>

PausePlan(p) ==
    /\ plans[p].lifecycle = "active"
    /\ Operation
    /\ plans' = [plans EXCEPT ![p] = Move(@, "paused")]
    /\ UNCHANGED <<descriptors, providers, settings>>

SuspendDescriptor(tool) ==
    /\ descriptors[tool].lifecycle = "active"
    /\ Operation
    /\ descriptors' = [descriptors EXCEPT ![tool] = Move(@, "suspended")]
    /\ UNCHANGED <<plans, providers, settings>>

ReactivateDescriptor(tool) ==
    /\ descriptors[tool].lifecycle = "suspended"
    /\ Operation
    /\ descriptors' = [descriptors EXCEPT ![tool] = Move(@, "active")]
    /\ UNCHANGED <<plans, providers, settings>>

QuarantineProvider(v) ==
    /\ providers[v].lifecycle = "active"
    /\ Operation
    /\ providers' = [providers EXCEPT ![v] = Move(@, "quarantined")]
    /\ UNCHANGED <<plans, descriptors, settings>>

RestoreProvider(v) ==
    /\ providers[v].lifecycle = "quarantined"
    /\ Operation
    /\ providers' = [providers EXCEPT ![v] = Move(@, "active")]
    /\ UNCHANGED <<plans, descriptors, settings>>

\* Core is restarted with other settings (they are read from the environment).
Reconfigure(mode, stop) ==
    /\ Operation
    /\ <<mode, stop>> # <<settings.mode, settings.stop>>
    /\ settings' = [mode |-> mode, stop |-> stop]
    /\ UNCHANGED <<plans, descriptors, providers>>

-------------------------------------------------------------------------------
\* At most one plan is in force.  The plan row lock stands for a global lock on
\* leasing only because of this: the tool concurrency limit and the rate limit
\* are counted with no other lock held (rollout_mutations.py, models.py:1397).
OneActivePlan ==
    \A p, q \in Plans :
        plans[p].lifecycle = "active" /\ plans[q].lifecycle = "active" => p = q
=============================================================================
