------------------------------ MODULE ControlRows ------------------------------
(***************************************************************************)
(* The rows the control plane changes and the facts it reads before it     *)
(* does: the lifecycle and resource_version of rollout plans, tool         *)
(* descriptors and providers, the latest report of every provider, the     *)
(* quota a plan has used, and the process settings.  From these a preview  *)
(* derives its evidence: everything its hash covers, as one value.         *)
(***************************************************************************)
EXTENDS Integers, FiniteSets

CONSTANTS
    Plans,            \* rollout plans
    Descriptors,      \* tool descriptors
    Providers,        \* tool providers
    Items,            \* [Plans -> set of <<descriptor, provider>>], the plan items
    SelectedBy,       \* [Descriptors -> providers its provider_selector names]
    LifecycleAtStart, \* [Targets -> lifecycle]
    PlanExpires,      \* [Plans -> expires_at]; every window starts at time 0
    MaxInvocations,   \* max_invocations of every plan
    ReportLife        \* provider_heartbeat_stale_seconds, provider_inventory_stale_seconds

Targets == Plans \cup Descriptors \cup Providers

ASSUME RowsAssumption ==
    /\ Plans \cap Descriptors = {} /\ Plans \cap Providers = {}
    /\ Descriptors \cap Providers = {}
    /\ Items \in [Plans -> SUBSET (Descriptors \X Providers)]
    /\ SelectedBy \in [Descriptors -> SUBSET Providers]
    /\ LifecycleAtStart \in [Targets -> {"reviewed", "active", "paused", "suspended", "quarantined"}]
    /\ \A p, q \in Plans : LifecycleAtStart[p] = "active" /\ LifecycleAtStart[q] = "active" => p = q
    /\ PlanExpires \in [Plans -> Nat]
    /\ MaxInvocations \in Nat /\ ReportLife \in Nat

VARIABLES
    rows,     \* [Targets -> [lifecycle, version]]
    used,     \* [Plans -> consumed_invocations]
    reports,  \* [Providers -> [at, healthy]]: latest inventory and heartbeat
    settings  \* [mode, stop]: tool_execution_mode, tool_global_stop

rowVars == <<rows, used, reports, settings>>

Lifecycles == {"reviewed", "active", "paused", "suspended", "quarantined"}
Modes == {"off", "ledger_only", "canary"}

RowsTypeOK ==
    /\ rows \in [Targets -> [lifecycle : Lifecycles, version : Nat]]
    /\ used \in [Plans -> Nat]
    /\ reports \in [Providers -> [at : Nat, healthy : BOOLEAN]]
    /\ settings \in [mode : Modes, stop : BOOLEAN]

\* Importing a plan or a descriptor inserts it reviewed, registering a provider
\* inserts it active, each at version 1; the mutations below lead on from there.
VersionAtStart(t) ==
    CASE LifecycleAtStart[t] = "reviewed" -> 1
      [] LifecycleAtStart[t] = "active" -> IF t \in Providers THEN 1 ELSE 2
      [] LifecycleAtStart[t] = "quarantined" -> 2
      [] OTHER -> 3

RowsInit ==
    /\ rows = [t \in Targets |-> [lifecycle |-> LifecycleAtStart[t],
                                  version   |-> VersionAtStart(t)]]
    /\ used = [p \in Plans |-> 0]
    /\ reports = [v \in Providers |-> [at |-> 0, healthy |-> TRUE]]
    /\ settings = [mode |-> "canary", stop |-> FALSE]

-------------------------------------------------------------------------------
(* Which transitions exist, and what the database lets a writer do.        *)

PlanTransitions == {<<"reviewed", "active">>, <<"active", "paused">>, <<"paused", "active">>}
DescriptorTransitions ==
    {<<"reviewed", "active">>, <<"active", "suspended">>, <<"suspended", "active">>}
ProviderTransitions == {<<"active", "quarantined">>, <<"quarantined", "active">>}

\* Slip: any change that is one.
AnyTransition(t, from, to) == from # to

LegalTransition(t, from, to) ==
    <<from, to>> \in (IF t \in Plans THEN PlanTransitions
                      ELSE IF t \in Descriptors THEN DescriptorTransitions
                      ELSE ProviderTransitions)

\* The values a preview of this target can ask for.
DesiredOf(t) ==
    {"active", IF t \in Plans THEN "paused"
               ELSE IF t \in Descriptors THEN "suspended" ELSE "quarantined"}

\* The row triggers: the version moves by one, together with a listed change
\* of the lifecycle, or the UPDATE is aborted.  `applied' is the evidence event
\* the trigger looks up: <<target, version, from, to>>.
PlanGuard(t, old, new, applied) ==
    new # old =>
        /\ new.lifecycle # old.lifecycle
        /\ new.version = old.version + 1
        /\ <<old.lifecycle, new.lifecycle>> \in PlanTransitions
        /\ <<t, new.version, old.lifecycle, new.lifecycle>> \in applied

DescriptorGuard(t, old, new, applied) ==
    new # old =>
        /\ new.version = old.version + 1
        /\ <<old.lifecycle, new.lifecycle>> \in DescriptorTransitions
        /\ <<t, new.version, old.lifecycle, new.lifecycle>> \in applied

ProviderGuard(t, old, new, applied) ==
    new # old =>
        /\ new.version = old.version + 1
        /\ <<old.lifecycle, new.lifecycle>> \in ProviderTransitions
        /\ <<t, new.version, old.lifecycle, new.lifecycle>> \in applied

\* The counter moves by one and is never reset.
CounterGuard(old, new) == new # old => new = old + 1

\* Mutations, previews, login attempts and audit events are append-only.
EvidenceGuard(old, new) == old \subseteq new

\* uq_tool_rollout_single_active, a partial unique index.
OtherActivePlan(p) == \E q \in Plans \ {p} : rows[q].lifecycle = "active"

-------------------------------------------------------------------------------
(* What a preview reads, at the stamp of its transaction.                  *)

Stale(v, stamp) == stamp - reports[v].at > ReportLife

ReportBlockers(v, stamp) ==
    {b \in {"report_stale", "provider_unhealthy"} :
        IF b = "report_stale" THEN Stale(v, stamp) ELSE ~reports[v].healthy}

ProviderToolReasons(v, stamp) ==
    ReportBlockers(v, stamp) \cup
    (IF rows[v].lifecycle = "quarantined" THEN {"provider_quarantined"} ELSE {})

SettingReasons ==
    (IF settings.mode = "off" THEN {"execution_off"} ELSE {}) \cup
    (IF settings.stop THEN {"global_stop"} ELSE {})

\* Why the tool may not run now, were each provider's reasons as given.
EffectiveReasons(d, reasonsOf) ==
    (IF rows[d].lifecycle # "active" THEN {"inactive_descriptor"} ELSE {})
    \cup (IF SelectedBy[d] = {} THEN {"provider_missing"}
          ELSE IF \E v \in SelectedBy[d] : reasonsOf[v] = {} THEN {}
          ELSE UNION {reasonsOf[v] : v \in SelectedBy[d]})
    \cup SettingReasons

RegistryReasons(d, stamp) ==
    [v \in SelectedBy[d] |-> ProviderToolReasons(v, stamp)]

\* A tool of a quarantined provider as it would be with the change made.
ImpactOn(d, v, to, stamp) ==
    LET before == RegistryReasons(d, stamp)
        after  == [before EXCEPT ![v] =
                      IF to = "quarantined" THEN @ \cup {"provider_quarantined"}
                      ELSE @ \ {"provider_quarantined"}]
    IN [before |-> EffectiveReasons(d, before), after |-> EffectiveReasons(d, after)]

\* The versions a plan item names: those the rows had when it was reviewed.
ExpectedVersion(t) == IF t \in Descriptors THEN 2 ELSE 1

ItemBlockers(d, v, stamp) ==
    (IF rows[d].lifecycle # "active" THEN {"descriptor_not_active"} ELSE {})
    \cup (IF rows[d].version # ExpectedVersion(d) THEN {"descriptor_resource_version_mismatch"} ELSE {})
    \cup (IF rows[v].lifecycle # "active" THEN {"provider_not_active"} ELSE {})
    \cup (IF rows[v].version # ExpectedVersion(v) THEN {"provider_resource_version_mismatch"} ELSE {})
    \cup ReportBlockers(v, stamp)

PlanBlockers(p, to, stamp) ==
    (IF LegalTransition(p, rows[p].lifecycle, to) THEN {} ELSE {"illegal_lifecycle_transition"})
    \cup (IF to # "active" THEN {}
          ELSE (IF settings.mode # "canary" THEN {"execution_ceiling_not_canary"} ELSE {})
               \cup (IF settings.stop THEN {"global_stop"} ELSE {})
               \cup (IF stamp >= PlanExpires[p] THEN {"plan_expired"} ELSE {})
               \cup (IF used[p] >= MaxInvocations THEN {"invocation_limit_exhausted"} ELSE {})
               \cup (IF OtherActivePlan(p) THEN {"another_plan_active"} ELSE {})
               \cup UNION {ItemBlockers(i[1], i[2], stamp) : i \in Items[p]})

DescriptorBlockers(d, to, stamp) ==
    (IF LegalTransition(d, rows[d].lifecycle, to) THEN {} ELSE {"transition_not_allowed"})
    \cup (IF to # "active" THEN {}
          ELSE SettingReasons \cup
               (IF SelectedBy[d] = {} THEN {"provider_missing"}
                ELSE IF \E v \in SelectedBy[d] : ProviderToolReasons(v, stamp) = {} THEN {}
                ELSE UNION {ProviderToolReasons(v, stamp) : v \in SelectedBy[d]}))

ProviderBlockers(v, to, stamp) ==
    (IF LegalTransition(v, rows[v].lifecycle, to) THEN {} ELSE {"transition_not_allowed"})
    \cup (IF to = "active" THEN ReportBlockers(v, stamp) ELSE {})

\* What the canonical preview of each kind holds.  The times of the reports are
\* in the plan's and the provider's, not in the descriptor's.
PlanEvidence(p, to, stamp) ==
    [before   |-> <<rows[p], used[p]>>,
     settings |-> settings,
     blockers |-> PlanBlockers(p, to, stamp),
     items    |-> IF to # "active" THEN {}
                  ELSE {<<i, rows[i[1]].version, rows[i[2]].version, reports[i[2]],
                          ItemBlockers(i[1], i[2], stamp)>> : i \in Items[p]}]

DescriptorEvidence(d, to, stamp) ==
    [before   |-> <<rows[d], EffectiveReasons(d, RegistryReasons(d, stamp))>>,
     settings |-> settings,
     blockers |-> DescriptorBlockers(d, to, stamp),
     runtime  |-> {<<v, ProviderToolReasons(v, stamp), reports[v].healthy>> : v \in SelectedBy[d]}]

ProviderEvidence(v, to, stamp) ==
    [before   |-> rows[v],
     blockers |-> ProviderBlockers(v, to, stamp),
     runtime  |-> <<reports[v], Stale(v, stamp)>>,
     impacts  |-> {<<d, ImpactOn(d, v, to, stamp)>> : d \in {e \in Descriptors : v \in SelectedBy[e]}}]

Evidence(t, to, stamp) ==
    IF t \in Plans THEN PlanEvidence(t, to, stamp)
    ELSE IF t \in Descriptors THEN DescriptorEvidence(t, to, stamp)
    ELSE ProviderEvidence(t, to, stamp)

-------------------------------------------------------------------------------
(* What changes the facts besides the mutations.                           *)

\* ingest_provider_inventory and ingest_provider_heartbeat: a newer report.
Report(v, healthy, now) ==
    /\ reports' = [reports EXCEPT ![v] = [at |-> now, healthy |-> healthy]]
    /\ reports' # reports
    /\ UNCHANGED <<rows, used, settings>>

\* An invocation admitted under an active plan uses one of its quota.
UseQuota(p) ==
    /\ rows[p].lifecycle = "active" /\ used[p] < MaxInvocations
    /\ used' = [used EXCEPT ![p] = @ + 1]
    /\ UNCHANGED <<rows, reports, settings>>

\* Core restarted with other settings.
Reconfigure(to) ==
    /\ to # settings
    /\ settings' = to
    /\ UNCHANGED <<rows, used, reports>>
===============================================================================
