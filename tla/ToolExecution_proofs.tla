------------------------- MODULE ToolExecution_proofs -------------------------
(***************************************************************************)
(* Proofs about ToolExecution, for every value of its constants.           *)
(*                                                                         *)
(* The inductive invariant says, beside the types, what each transaction   *)
(* relies on: which rows an open lease has locked, that a live attempt and *)
(* its invocation are in matching states, that only one attempt of an      *)
(* invocation is live, and that the fences of an invocation number its     *)
(* attempts from 1 without a gap.  The second part proves from it what the *)
(* protocol guarantees to the people around it: a challenge and its        *)
(* invocation agree, the quota of a plan is counted exactly, rates and     *)
(* limits hold, nothing is leased without authority, only the newest       *)
(* attempt decides an outcome, and the protocol implements ToolLedger.     *)
(***************************************************************************)
EXTENDS ToolExecution, FiniteSetTheorems, TLAPS

\* The rows an open lease transaction holds are still queued, its own choice is
\* among them, and no two transactions hold the same row.
LeasesHold ==
    /\ \A v \in Providers : Leasing(v) => leases[v].inv \in leases[v].rows
    /\ \A v \in Providers : \A i \in leases[v].rows : StateOf(i) = "queued"
    /\ \A v, w \in Providers : \A i \in leases[v].rows : i \in leases[w].rows => v = w

\* A live attempt belongs to an invocation that knows of it.
LiveMatches ==
    \A a \in Attempts : Live(a) =>
        /\ attempts[a].inv \in Invocations
        /\ StateOf(attempts[a].inv) \in
              {attempts[a].state, "cancel_requested", "unknown_completion"}

\* A row not inserted yet belongs to no invocation.
Unused == \A a \in Attempts : attempts[a].state = "none" => attempts[a].inv = None

\* Only one attempt of an invocation is live, and it has the highest fence.
OneLive ==
    \A a, b \in Attempts :
        Live(a) /\ b # a /\ attempts[b].inv = attempts[a].inv =>
            ~Live(b) /\ attempts[b].fence < attempts[a].fence

\* An invocation that is leased or running has an attempt in that state.
Served ==
    \A i \in Invocations : StateOf(i) \in {"leased", "running"} =>
        \E a \in AttemptsOf(i) : attempts[a].state = StateOf(i)

\* The fences of an invocation are bounded by the number of its attempts, and
\* the bound is reached.
FencesCount ==
    \A i \in Invocations :
        /\ \A a \in AttemptsOf(i) : attempts[a].fence \in 1 .. Cardinality(AttemptsOf(i))
        /\ AttemptsOf(i) # {} =>
              \E a \in AttemptsOf(i) : attempts[a].fence = Cardinality(AttemptsOf(i))

\* An invocation that may run was admitted under a plan.
CanaryHasPlan == \A i \in Invocations : invocations[i].canary => invocations[i].plan \in Plans

LedgerInv == /\ LeasesHold /\ LiveMatches /\ Unused /\ OneLive
             /\ Served /\ FencesCount /\ CanaryHasPlan
IInv == TypeOK /\ LedgerInv

-------------------------------------------------------------------------------
(* Operators.                                                              *)

\* The earlier of two times is a time no later than either.
LEMMA EarlierType ==
    ASSUME NEW x \in Nat, NEW y \in Nat
    PROVE  Earlier(x, y) \in Nat
BY DEF Earlier

\* A stamp is a time that has come.
LEMMA StampType ==
    ASSUME TypeOK, NEW t \in Stamps
    PROVE  t \in Nat
BY DEF TypeOK, Stamps

\* matching_active_rollout returns an active plan with an item for the scope.
LEMMA MatchingPlanType ==
    ASSUME NEW i \in Invocations, NEW t
    PROVE  /\ MatchingPlan(i, t) \in Plans \cup {None}
           /\ MatchingPlan(i, t) # None => MatchingPlan(i, t) \in Plans
BY AuthorityAssumption DEF MatchingPlan

\* What max(fencing_token) + 1 amounts to: one more than the attempts so far.
LEMMA NextFenceIsCount ==
    ASSUME TypeOK, FencesCount, NEW i \in Invocations
    PROVE  /\ Cardinality(AttemptsOf(i)) \in Nat
           /\ NextFence(i) = Cardinality(AttemptsOf(i)) + 1
<1> DEFINE n == Cardinality(AttemptsOf(i))
           N == Cardinality(Attempts)
<1>1. IsFiniteSet(Attempts)
  BY ExecutionAssumption
<1>2. AttemptsOf(i) \subseteq Attempts
  BY DEF AttemptsOf
<1>3. n \in Nat /\ N \in Nat /\ n <= N /\ IsFiniteSet(AttemptsOf(i))
  BY <1>1, <1>2, FS_Subset, FS_CardinalityType
<1>4. AttemptsOf(i) = {} <=> n = 0
  BY <1>3, FS_EmptySet
<1>5. \A a \in AttemptsOf(i) : attempts[a].fence \in 1 .. n
  BY DEF FencesCount
<1>6. n > 0 => \E a \in AttemptsOf(i) : attempts[a].fence = n
  BY <1>3, <1>4 DEF FencesCount
<1> DEFINE Fits(f) == /\ \A a \in AttemptsOf(i) : attempts[a].fence < f
                      /\ f > 1 => \E a \in AttemptsOf(i) : attempts[a].fence = f - 1
<1>7. n + 1 \in 1 .. N + 1 /\ Fits(n + 1)
  <2>1. n + 1 \in 1 .. N + 1
    BY <1>3
  <2>2. \A a \in AttemptsOf(i) : attempts[a].fence < n + 1
    BY <1>3, <1>5
  <2>3. n + 1 > 1 => \E a \in AttemptsOf(i) : attempts[a].fence = (n + 1) - 1
    BY <1>3, <1>6
  <2> QED
    BY <2>1, <2>2, <2>3
<1>8. ASSUME NEW f \in 1 .. N + 1, Fits(f)
      PROVE  f = n + 1
  <2>1. CASE n = 0
    BY <1>3, <1>4, <1>8, <2>1
  <2>2. CASE n > 0
    <3>1. f > n
      BY <1>3, <1>6, <1>8, <2>2
    <3>2. PICK a \in AttemptsOf(i) : attempts[a].fence = f - 1
      BY <1>3, <1>8, <2>2, <3>1
    <3> QED
      BY <1>3, <1>5, <3>1, <3>2
  <2> QED
    BY <1>3, <2>1, <2>2
<1>9. NextFence(i) = CHOOSE f \in 1 .. N + 1 : Fits(f)
  BY DEF NextFence
<1> HIDE DEF n, N, Fits
<1>10. NextFence(i) = n + 1
  BY <1>7, <1>8, <1>9
<1> QED
  BY <1>3, <1>10 DEF n

-------------------------------------------------------------------------------
(* Type correctness, one lemma per group of actions.                       *)

\* A lifecycle move keeps the record types of the three authority rows.
LEMMA MoveTypes ==
    /\ \A r \in PlanRecord, to \in {"active", "paused"} : Move(r, to) \in PlanRecord
    /\ \A r \in DescriptorRecord, to \in {"active", "suspended"} :
          Move(r, to) \in DescriptorRecord
    /\ \A r \in ProviderRecord, to \in {"active", "quarantined"} :
          Move(r, to) \in ProviderRecord
<1>1. ASSUME NEW r \in PlanRecord, NEW to \in {"active", "paused"}
      PROVE  Move(r, to) \in PlanRecord
  <2> DEFINE q == [r EXCEPT !.lifecycle = to]
  <2>1. q \in PlanRecord /\ q.version = r.version
    BY DEF PlanRecord
  <2>2. [q EXCEPT !.version = q.version + 1] \in PlanRecord
    <3> HIDE DEF q
    <3> QED
      BY <2>1 DEF PlanRecord
  <2>3. Move(r, to) = [q EXCEPT !.version = q.version + 1]
    BY <2>1 DEF Move, PlanRecord
  <2> QED
    BY <2>2, <2>3
<1>2. ASSUME NEW r \in DescriptorRecord, NEW to \in {"active", "suspended"}
      PROVE  Move(r, to) \in DescriptorRecord
  <2> DEFINE q == [r EXCEPT !.lifecycle = to]
  <2>1. q \in DescriptorRecord /\ q.version = r.version
    BY DEF DescriptorRecord
  <2>2. [q EXCEPT !.version = q.version + 1] \in DescriptorRecord
    <3> HIDE DEF q
    <3> QED
      BY <2>1 DEF DescriptorRecord
  <2>3. Move(r, to) = [q EXCEPT !.version = q.version + 1]
    BY <2>1 DEF Move, DescriptorRecord
  <2> QED
    BY <2>2, <2>3
<1>3. ASSUME NEW r \in ProviderRecord, NEW to \in {"active", "quarantined"}
      PROVE  Move(r, to) \in ProviderRecord
  <2> DEFINE q == [r EXCEPT !.lifecycle = to]
  <2>1. q \in ProviderRecord /\ q.version = r.version
    BY DEF ProviderRecord
  <2>2. [q EXCEPT !.version = q.version + 1] \in ProviderRecord
    <3> HIDE DEF q
    <3> QED
      BY <2>1 DEF ProviderRecord
  <2>3. Move(r, to) = [q EXCEPT !.version = q.version + 1]
    BY <2>1 DEF Move, ProviderRecord
  <2> QED
    BY <2>2, <2>3
<1> QED
  BY <1>1, <1>2, <1>3

\* Every accepted mutation, and the consumption of a quota, keeps the types.
LEMMA AuthorityTypes ==
    ASSUME AuthorityTypeOK,
           \/ \E p \in Plans, t \in Nat : ActivatePlan(p, t)
           \/ \E p \in Plans : PausePlan(p)
           \/ \E tool \in Tools : SuspendDescriptor(tool) \/ ReactivateDescriptor(tool)
           \/ \E v \in Providers : QuarantineProvider(v) \/ RestoreProvider(v)
           \/ \E mode \in {"off", "ledger_only", "canary"}, stop \in BOOLEAN :
                 Reconfigure(mode, stop)
           \/ /\ \E p \in Plans : Consume(p)
              /\ UNCHANGED <<descriptors, providers, settings, operations>>
           \/ UNCHANGED authorityVars
    PROVE  AuthorityTypeOK'
<1> USE DEF AuthorityTypeOK
<1>1. ASSUME NEW p \in Plans, NEW t \in Nat, ActivatePlan(p, t)
      PROVE  AuthorityTypeOK'
  BY <1>1, MoveTypes DEF ActivatePlan, Operation
<1>2. ASSUME NEW p \in Plans, PausePlan(p)
      PROVE  AuthorityTypeOK'
  BY <1>2, MoveTypes DEF PausePlan, Operation
<1>3. ASSUME NEW tool \in Tools, SuspendDescriptor(tool) \/ ReactivateDescriptor(tool)
      PROVE  AuthorityTypeOK'
  BY <1>3, MoveTypes DEF SuspendDescriptor, ReactivateDescriptor, Operation
<1>4. ASSUME NEW v \in Providers, QuarantineProvider(v) \/ RestoreProvider(v)
      PROVE  AuthorityTypeOK'
  BY <1>4, MoveTypes DEF QuarantineProvider, RestoreProvider, Operation
<1>5. ASSUME NEW mode \in {"off", "ledger_only", "canary"}, NEW stop \in BOOLEAN,
             Reconfigure(mode, stop)
      PROVE  AuthorityTypeOK'
  BY <1>5 DEF Reconfigure, Operation, SettingsRecord
<1>6. ASSUME NEW p \in Plans, Consume(p),
             UNCHANGED <<descriptors, providers, settings, operations>>
      PROVE  AuthorityTypeOK'
  BY <1>6 DEF Consume, PlanRecord
<1>7. CASE UNCHANGED authorityVars
  BY <1>7 DEF authorityVars
<1> QED
  BY <1>1, <1>2, <1>3, <1>4, <1>5, <1>6, <1>7

\* Changing the record of one invocation.
LEMMA InvocationType ==
    ASSUME TypeOK, NEW i \in Invocations, NEW r \in InvocationRecord,
           invocations' = [invocations EXCEPT ![i] = r]
    PROVE  /\ invocations' \in [Invocations -> InvocationRecord]
           /\ invocations'[i] = r
           /\ \A j \in Invocations \ {i} : invocations'[j] = invocations[j]
BY DEF TypeOK

\* append_invocation_transition changes the state of one row and nothing else.
LEMMA SetStateRecord ==
    ASSUME TypeOK, NEW i \in Invocations, NEW s \in InvocationStates, SetState(i, s)
    PROVE  \E r \in InvocationRecord :
              /\ r.state = s
              /\ r.canary = invocations[i].canary
              /\ r.plan = invocations[i].plan
              /\ invocations' = [invocations EXCEPT ![i] = r]
<1> DEFINE r == [invocations[i] EXCEPT !.state = s]
<1>1. /\ r \in InvocationRecord
      /\ r.state = s
      /\ r.canary = invocations[i].canary
      /\ r.plan = invocations[i].plan
  BY DEF TypeOK, InvocationRecord
<1>2. invocations' = [invocations EXCEPT ![i] = r]
  BY DEF SetState
<1> QED
  BY <1>1, <1>2

-------------------------------------------------------------------------------
(* Preservation of the ledger invariant.                                   *)

\* The empty ledger satisfies the invariant.
LEMMA InitLedger == Init => IInv
<1> SUFFICES ASSUME Init PROVE IInv
  OBVIOUS
<1>1. AuthorityTypeOK
  <2>1. plans \in [Plans -> PlanRecord]
    BY DEF Init, AuthorityInit, PlanRecord, Reviewed
  <2>2. descriptors \in [Tools -> DescriptorRecord]
    BY DEF Init, AuthorityInit, DescriptorRecord, Reviewed
  <2>3. providers \in [Providers -> ProviderRecord]
    BY DEF Init, AuthorityInit, ProviderRecord, Reviewed
  <2> QED
    BY <2>1, <2>2, <2>3
    DEF Init, AuthorityInit, AuthorityTypeOK, SettingsRecord
<1>2. invocations \in [Invocations -> InvocationRecord]
  <2>1. NoInvocation \in InvocationRecord
    BY DEF NoInvocation, InvocationRecord, InvocationStates
  <2> QED
    BY <2>1 DEF Init
<1>3. attempts \in [Attempts -> AttemptRecord]
  <2>1. NoAttempt \in AttemptRecord
    BY DEF NoAttempt, AttemptRecord, AttemptStates
  <2> QED
    BY <2>1 DEF Init
<1>4. leases \in [Providers -> [inv : Invocations \cup {None},
                                rows : SUBSET Invocations, stamp : Nat]]
  BY DEF Init, NoLease
<1>5. TypeOK
  BY <1>1, <1>2, <1>3, <1>4 DEF TypeOK, Init, ConfirmationStates
<1>6. \A a \in Attempts : ~Live(a) /\ attempts[a].inv = None
  BY DEF Init, NoAttempt, Live, LiveAttemptStates
<1>7. \A v \in Providers : ~Leasing(v) /\ leases[v].rows = {}
  BY DEF Init, NoLease, Leasing
<1>8. \A i \in Invocations : StateOf(i) = "none" /\ AttemptsOf(i) = {}
  BY <1>6, ExecutionAssumption DEF Init, NoInvocation, StateOf, AttemptsOf
<1>9. CanaryHasPlan
  BY DEF CanaryHasPlan, Init, NoInvocation
<1>10. LedgerInv
  BY <1>6, <1>7, <1>8, <1>9
  DEF LedgerInv, LeasesHold, LiveMatches, Unused, OneLive, Served, FencesCount
<1> QED
  BY <1>5, <1>10 DEF IInv

\* Every step but the two of a lease: no attempt appears or revives, no row is
\* locked that was not, and each live attempt still agrees with its invocation.
LEMMA KeepsLedger ==
    ASSUME IInv,
           \A v \in Providers : leases'[v] = leases[v] \/ leases'[v] = NoLease,
           \A a \in Attempts : /\ attempts'[a].inv = attempts[a].inv
                               /\ attempts'[a].fence = attempts[a].fence
                               /\ attempts'[a].state = "none" => attempts[a].state = "none"
                               /\ Live(a)' => Live(a),
           \A i \in Invocations : \A v \in Providers :
               StateOf(i)' # "queued" => i \notin leases'[v].rows,
           \A a \in Attempts : Live(a)' =>
               StateOf(attempts[a].inv)' \in
                   {attempts'[a].state, "cancel_requested", "unknown_completion"},
           \A i \in Invocations : StateOf(i)' \in {"leased", "running"} =>
               \E a \in AttemptsOf(i) : attempts'[a].state = StateOf(i)',
           CanaryHasPlan'
    PROVE  LedgerInv'
<1>1. \A i \in Invocations : AttemptsOf(i)' = AttemptsOf(i)
  BY DEF AttemptsOf
<1>2. \A v \in Providers :
         /\ leases'[v].inv # None => leases[v].inv # None /\ leases'[v] = leases[v]
         /\ leases'[v].rows \subseteq leases[v].rows
  BY DEF NoLease, IInv, TypeOK
<1>3. LeasesHold'
  <2>1. \A v \in Providers : Leasing(v)' => leases'[v].inv \in leases'[v].rows
    BY <1>2 DEF IInv, LedgerInv, LeasesHold, Leasing
  <2>2. \A v \in Providers : \A i \in leases'[v].rows : StateOf(i)' = "queued"
    BY <1>2 DEF IInv, TypeOK
  <2>3. \A v, w \in Providers : \A i \in leases'[v].rows : i \in leases'[w].rows => v = w
    BY <1>2 DEF IInv, LedgerInv, LeasesHold
  <2> QED
    BY <2>1, <2>2, <2>3 DEF LeasesHold
<1>4. LiveMatches'
  BY Zenon DEF IInv, LedgerInv, LiveMatches, StateOf
<1>5. OneLive' /\ Unused'
  BY DEF IInv, LedgerInv, OneLive, Unused
<1>6. Served'
  BY <1>1 DEF Served
<1>7. FencesCount'
  <2> SUFFICES ASSUME NEW i \in Invocations
               PROVE  /\ \A a \in AttemptsOf(i) :
                            attempts'[a].fence \in 1 .. Cardinality(AttemptsOf(i))
                      /\ AttemptsOf(i) # {} => \E a \in AttemptsOf(i) :
                            attempts'[a].fence = Cardinality(AttemptsOf(i))
    BY <1>1 DEF FencesCount
  <2>1. \A a \in AttemptsOf(i) : attempts'[a].fence = attempts[a].fence
    BY DEF AttemptsOf
  <2> QED
    BY <2>1 DEF IInv, LedgerInv, FencesCount
<1> QED
  BY <1>3, <1>4, <1>5, <1>6, <1>7 DEF LedgerInv

\* A step that moves one invocation and no attempt, or none at all.
LEMMA InvocationStep ==
    ASSUME IInv, NEW i \in Invocations, NEW r \in InvocationRecord,
           invocations' = [invocations EXCEPT ![i] = r],
           confirmations' \in [Invocations -> ConfirmationStates],
           UNCHANGED <<now, attempts, leases, held, nextPass>>,
           AuthorityTypeOK',
           StateOf(i) = "queued" => ~RowLocked(i),
           r.state \notin {"leased", "running"},
           r.canary => r.plan \in Plans,
           StateOf(i) \in OpenStates \cup {"none"} \/ r.state = "cancel_requested"
    PROVE  IInv'
<1>1. /\ invocations' \in [Invocations -> InvocationRecord]
      /\ invocations'[i] = r
      /\ \A j \in Invocations \ {i} : invocations'[j] = invocations[j]
  BY InvocationType DEF IInv
<1>2. TypeOK'
  BY <1>1 DEF IInv, TypeOK
<1>3. /\ \A j \in Invocations : StateOf(j)' # StateOf(j) => j = i
      /\ StateOf(i)' = r.state
  BY <1>1 DEF StateOf
<1>4. \A a \in Attempts : Live(a)' <=> Live(a)
  BY DEF Live
<1>5. \A a \in Attempts : Live(a) =>
         /\ attempts[a].inv \in Invocations
         /\ StateOf(attempts[a].inv) \in
              {attempts[a].state, "cancel_requested", "unknown_completion"}
         /\ attempts[a].state \in {"leased", "running"}
  BY DEF IInv, LedgerInv, LiveMatches, Live, LiveAttemptStates
<1>6. \A j \in Invocations : \A v \in Providers :
         StateOf(j)' # "queued" => j \notin leases'[v].rows
  <2> SUFFICES ASSUME NEW j \in Invocations, NEW v \in Providers,
                      j \in leases[v].rows
               PROVE  StateOf(j)' = "queued"
    OBVIOUS
  <2>1. StateOf(j) = "queued" /\ RowLocked(j)
    BY DEF IInv, LedgerInv, LeasesHold, RowLocked
  <2> QED
    BY <1>3, <2>1
<1>7. \A a \in Attempts : Live(a)' =>
         StateOf(attempts[a].inv)' \in
             {attempts'[a].state, "cancel_requested", "unknown_completion"}
  BY <1>3, <1>4, <1>5 DEF OpenStates
<1>8. \A j \in Invocations : StateOf(j)' \in {"leased", "running"} =>
         \E a \in AttemptsOf(j) : attempts'[a].state = StateOf(j)'
  BY <1>3 DEF IInv, LedgerInv, Served
<1>9. CanaryHasPlan'
  BY <1>1 DEF IInv, LedgerInv, CanaryHasPlan
<1>10. LedgerInv'
  BY <1>4, <1>6, <1>7, <1>8, <1>9, KeepsLedger
<1> QED
  BY <1>2, <1>10 DEF IInv

\* The same for the steps that only set the state.
LEMMA StateStep ==
    ASSUME IInv, NEW i \in Invocations, NEW s \in InvocationStates \ {"leased", "running"},
           SetState(i, s),
           confirmations' \in [Invocations -> ConfirmationStates],
           UNCHANGED <<now, attempts, leases, held, nextPass, authorityVars>>,
           StateOf(i) = "queued" => ~RowLocked(i),
           StateOf(i) \in OpenStates \cup {"none"} \/ s = "cancel_requested"
    PROVE  IInv'
<1>1. PICK r \in InvocationRecord :
         /\ r.state = s
         /\ r.canary = invocations[i].canary
         /\ r.plan = invocations[i].plan
         /\ invocations' = [invocations EXCEPT ![i] = r]
  BY SetStateRecord DEF IInv
<1>2. AuthorityTypeOK'
  BY AuthorityTypes DEF IInv, TypeOK
<1>3. r.canary => r.plan \in Plans
  BY <1>1 DEF IInv, LedgerInv, CanaryHasPlan
<1> QED
  BY <1>1, <1>2, <1>3, InvocationStep

\* create_tool_invocation, whatever it decides.
LEMMA CreateStep ==
    ASSUME IInv, NEW i \in Invocations, NEW t \in Stamps, NEW view \in Views,
           \/ RejectProposal(i, t, view)
           \/ RecordOnly(i, t, view)
           \/ RequireConfirmation(i, t, view)
           \/ QueueProposal(i, t, view)
    PROVE  IInv'
<1> DEFINE p == MatchingPlan(i, t)
<1>1. t \in Nat
  BY StampType DEF IInv
<1>2. StateOf(i) = "none"
  BY DEF RejectProposal, RecordOnly, RequireConfirmation, QueueProposal, Passes, Creating
<1>3. p \in Plans \cup {None} /\ (p # None => p \in Plans)
  BY MatchingPlanType
<1>4. ASSUME NEW s \in {"rejected", "recorded_only", "awaiting_confirmation", "queued"},
             NEW canary \in BOOLEAN, NEW deadline \in Nat, Insert(i, t, s, canary, deadline),
             confirmations' \in [Invocations -> ConfirmationStates],
             AuthorityTypeOK', canary => p # None
      PROVE  IInv'
  <2> DEFINE r == [state |-> s, plan |-> p,
                   version |-> IF p = None THEN 0 ELSE plans[p].version,
                   canary |-> canary, queueCreated |-> s = "queued",
                   created |-> t, deadline |-> deadline]
  <2>1. (IF p = None THEN 0 ELSE plans[p].version) \in Nat
    BY <1>3 DEF IInv, TypeOK, AuthorityTypeOK, PlanRecord
  <2>2. r \in InvocationRecord
    <3> HIDE DEF p
    <3> QED
      BY <1>1, <1>3, <2>1
      DEF InvocationRecord, InvocationStates, OpenStates, TerminalStates
  <2>3. invocations' = [invocations EXCEPT ![i] = r]
    BY <1>4 DEF Insert
  <2>4. UNCHANGED <<now, attempts, leases, held, nextPass>>
    BY <1>4 DEF Insert
  <2>5. r.state = s /\ (r.canary => r.plan \in Plans)
    BY <1>3, <1>4
  <2> HIDE DEF r
  <2> QED
    BY <1>2, <1>4, <2>2, <2>3, <2>4, <2>5, InvocationStep
<1>5. Timeout \in Nat /\ ConfirmSeconds \in Nat /\ t + Timeout \in Nat
  BY <1>1, ExecutionAssumption
<1>6. CASE RejectProposal(i, t, view)
  <2>1. /\ Insert(i, t, "rejected", ~Fallback(i, t, view), t + Timeout)
        /\ UNCHANGED <<confirmations, plans>>
    BY <1>6 DEF RejectProposal
  <2>2. AuthorityTypeOK' /\ confirmations' \in [Invocations -> ConfirmationStates]
    BY <2>1, AuthorityTypes DEF IInv, TypeOK, Insert, authorityVars
  <2>3. (~Fallback(i, t, view)) \in BOOLEAN /\ (~Fallback(i, t, view) => p # None)
    BY DEF Fallback
  <2> QED
    BY <1>4, <1>5, <2>1, <2>2, <2>3
<1>7. CASE RecordOnly(i, t, view)
  <2>1. /\ Insert(i, t, "recorded_only", FALSE, t + Timeout)
        /\ UNCHANGED <<confirmations, plans>>
    BY <1>7 DEF RecordOnly
  <2>2. AuthorityTypeOK' /\ confirmations' \in [Invocations -> ConfirmationStates]
    BY <2>1, AuthorityTypes DEF IInv, TypeOK, Insert, authorityVars
  <2>3. /\ FALSE \in BOOLEAN
        /\ "recorded_only" \in {"rejected", "recorded_only", "awaiting_confirmation", "queued"}
    OBVIOUS
  <2>4. Insert(i, t, "recorded_only", FALSE, t + Timeout)
    BY <2>1
  <2> QED
    BY <1>4, <1>5, <2>2, <2>3, <2>4
<1>8. CASE RequireConfirmation(i, t, view)
  <2> DEFINE d == Earlier(t + ConfirmSeconds, PlanExpires[p])
  <2>1. /\ Insert(i, t, "awaiting_confirmation", TRUE, d)
        /\ confirmations' = [confirmations EXCEPT ![i] = "pending"]
        /\ UNCHANGED plans
        /\ p # None
    BY <1>8 DEF RequireConfirmation, Passes, Fallback
  <2>2. d \in Nat
    <3> HIDE DEF p
    <3>1. PlanExpires[p] \in Nat /\ t + ConfirmSeconds \in Nat
      BY <1>1, <1>3, <1>5, <2>1, AuthorityAssumption
    <3> QED
      BY <3>1, EarlierType
  <2>3. AuthorityTypeOK' /\ confirmations' \in [Invocations -> ConfirmationStates]
    BY <2>1, AuthorityTypes DEF IInv, TypeOK, Insert, authorityVars, ConfirmationStates
  <2> QED
    BY <1>4, <2>1, <2>2, <2>3
<1>9. CASE QueueProposal(i, t, view)
  <2>1. /\ Insert(i, t, "queued", TRUE, t + Timeout)
        /\ Consume(p)
        /\ UNCHANGED confirmations
        /\ p # None
    BY <1>9 DEF QueueProposal, Passes, Fallback
  <2>2. AuthorityTypeOK'
    BY <1>3, <2>1, AuthorityTypes DEF IInv, TypeOK, Insert
  <2>3. confirmations' \in [Invocations -> ConfirmationStates]
    BY <2>1 DEF IInv, TypeOK
  <2> QED
    BY <1>4, <1>5, <2>1, <2>2, <2>3
<1> QED
  BY <1>6, <1>7, <1>8, <1>9

\* decide_tool_confirmation and cancel_tool_invocation.
LEMMA DecideStep ==
    ASSUME IInv, NEW i \in Invocations, NEW t \in Stamps, NEW healthy \in BOOLEAN,
           \/ DecideTooLate(i, t)
           \/ RejectConfirmation(i, t)
           \/ RefuseApproval(i, t, healthy)
           \/ CancelOpen(i)
           \/ RequestCancel(i)
    PROVE  IInv'
<1>1. ASSUME NEW s \in InvocationStates \ {"leased", "running"},
             NEW c \in ConfirmationStates, Close(i, s, c),
             StateOf(i) = "queued" => ~RowLocked(i),
             StateOf(i) \in OpenStates \cup {"none"} \/ s = "cancel_requested"
      PROVE  IInv'
  <2>1. confirmations' \in [Invocations -> ConfirmationStates]
    BY <1>1 DEF Close, IInv, TypeOK
  <2>2. SetState(i, s) /\ UNCHANGED <<now, attempts, leases, held, nextPass, authorityVars>>
    BY <1>1 DEF Close
  <2> QED
    BY <1>1, <2>1, <2>2, StateStep
<1> USE DEF InvocationStates, OpenStates, HeldStates, TerminalStates, ConfirmationStates
<1>2. CASE DecideTooLate(i, t)
  BY <1>1, <1>2 DEF DecideTooLate, Deciding
<1>3. CASE RejectConfirmation(i, t)
  BY <1>1, <1>3 DEF RejectConfirmation, Deciding
<1>4. CASE RefuseApproval(i, t, healthy)
  BY <1>1, <1>4 DEF RefuseApproval, Approving, Deciding
<1>5. CASE CancelOpen(i)
  <2>1. confirmations[i] \in ConfirmationStates
    BY DEF IInv, TypeOK
  <2> QED
    BY <1>1, <1>5, <2>1 DEF CancelOpen
<1>6. CASE RequestCancel(i)
  <2>1. confirmations[i] \in ConfirmationStates
    BY DEF IInv, TypeOK
  <2> QED
    BY <1>1, <1>6, <2>1 DEF RequestCancel
<1> QED
  BY <1>2, <1>3, <1>4, <1>5, <1>6

\* An approval needs an active plan, so its invocation has one.
LEMMA ApproveStep ==
    ASSUME IInv, NEW i \in Invocations, NEW t \in Stamps, Approve(i, t)
    PROVE  IInv'
<1> DEFINE p == invocations[i].plan
           d == Earlier(t + Timeout, PlanExpires[p])
           q == [invocations[i] EXCEPT !.state = "queued"]
           r == [q EXCEPT !.deadline = d]
<1>1. p \in Plans
  BY DEF Approve, StillAuthorised, IInv, LedgerInv, CanaryHasPlan
<1>2. d \in Nat
  <2> HIDE DEF p
  <2>1. t \in Nat
    BY StampType DEF IInv
  <2>2. PlanExpires[p] \in Nat /\ t + Timeout \in Nat
    BY <1>1, <2>1, AuthorityAssumption, ExecutionAssumption
  <2> QED
    BY <2>2, EarlierType
<1>3. q \in InvocationRecord /\ q.state = "queued" /\ q.plan = p
  BY DEF IInv, TypeOK, InvocationRecord, InvocationStates, OpenStates
<1>4. r \in InvocationRecord /\ r.state = "queued" /\ r.plan = p
  <2> HIDE DEF p, d, q
  <2> QED
    BY <1>2, <1>3 DEF InvocationRecord
<1>5. invocations' = [invocations EXCEPT ![i] = r]
  <2>1. invocations' = [invocations EXCEPT ![i].state = "queued", ![i].deadline = d]
    BY DEF Approve
  <2> QED
    BY <2>1 DEF IInv, TypeOK, InvocationRecord
<1>6. /\ UNCHANGED <<now, attempts, leases, held, nextPass>>
      /\ UNCHANGED <<descriptors, providers, settings, operations>>
      /\ Consume(p)
      /\ confirmations' = [confirmations EXCEPT ![i] = "consumed"]
      /\ StateOf(i) = "awaiting_confirmation"
  BY DEF Approve, Approving, Deciding
<1>7. AuthorityTypeOK'
  <2> HIDE DEF p
  <2> QED
    BY <1>1, <1>6, AuthorityTypes DEF IInv, TypeOK
<1>8. confirmations' \in [Invocations -> ConfirmationStates]
  BY <1>6 DEF IInv, TypeOK, ConfirmationStates
<1>9. \A x \in InvocationRecord :
         /\ x.state = "queued" /\ x.plan \in Plans
         /\ invocations' = [invocations EXCEPT ![i] = x]
         => IInv'
  BY <1>6, <1>7, <1>8, InvocationStep DEF OpenStates
<1> QED
  BY <1>1, <1>4, <1>5, <1>9

\* A report changes the attempt it proves and perhaps the state of its invocation.
LEMMA ReportApplied ==
    ASSUME IInv, NEW a \in Attempts, Live(a),
           NEW r \in AttemptRecord, attempts' = [attempts EXCEPT ![a] = r],
           r.inv = attempts[a].inv, r.fence = attempts[a].fence, r.state # "none",
           NEW s \in InvocationStates, SetState(attempts[a].inv, s),
           OnlyTheRun,
           r.state \in LiveAttemptStates => s \in {r.state, "cancel_requested"},
           s \in {"leased", "running"} => r.state = s
    PROVE  IInv'
<1> DEFINE i == attempts[a].inv
<1>1. /\ i \in Invocations
      /\ StateOf(i) \in {"leased", "running", "cancel_requested", "unknown_completion"}
  BY DEF IInv, LedgerInv, LiveMatches, Live, LiveAttemptStates
<1>2. PICK x \in InvocationRecord :
         /\ x.state = s
         /\ x.canary = invocations[i].canary
         /\ x.plan = invocations[i].plan
         /\ invocations' = [invocations EXCEPT ![i] = x]
  BY <1>1, SetStateRecord DEF IInv
<1>3. /\ invocations' \in [Invocations -> InvocationRecord]
      /\ invocations'[i] = x
      /\ \A j \in Invocations \ {i} : invocations'[j] = invocations[j]
  BY <1>1, <1>2, InvocationType DEF IInv
<1>4. /\ attempts' \in [Attempts -> AttemptRecord]
      /\ attempts'[a] = r
      /\ \A b \in Attempts \ {a} : attempts'[b] = attempts[b]
  BY DEF IInv, TypeOK
<1>5. AuthorityTypeOK'
  BY AuthorityTypes DEF IInv, TypeOK, OnlyTheRun
<1>6. TypeOK'
  BY <1>3, <1>4, <1>5 DEF IInv, TypeOK, OnlyTheRun
<1>7. /\ \A j \in Invocations : StateOf(j)' # StateOf(j) => j = i
      /\ StateOf(i)' = s
  BY <1>2, <1>3 DEF StateOf
<1>8. \A b \in Attempts : /\ attempts'[b].inv = attempts[b].inv
                          /\ attempts'[b].fence = attempts[b].fence
                          /\ attempts'[b].state = "none" => attempts[b].state = "none"
                          /\ Live(b)' => Live(b)
  BY <1>4 DEF Live
<1>9. \A v \in Providers : leases'[v] = leases[v]
  BY DEF OnlyTheRun
<1>10. \A j \in Invocations : \A v \in Providers :
          StateOf(j)' # "queued" => j \notin leases'[v].rows
  BY <1>1, <1>7, <1>9 DEF IInv, LedgerInv, LeasesHold
<1>11. \A b \in Attempts : Live(b)' =>
          StateOf(attempts[b].inv)' \in
              {attempts'[b].state, "cancel_requested", "unknown_completion"}
  <2> SUFFICES ASSUME NEW b \in Attempts, Live(b)'
               PROVE  StateOf(attempts[b].inv)' \in
                        {attempts'[b].state, "cancel_requested", "unknown_completion"}
    OBVIOUS
  <2>1. CASE b = a
    BY <1>4, <1>7, <2>1 DEF Live
  <2>2. CASE b # a
    <3>1. attempts[b].inv # i
      BY <1>8, <2>2 DEF IInv, LedgerInv, OneLive
    <3>2. /\ attempts[b].inv \in Invocations
          /\ StateOf(attempts[b].inv) \in
               {attempts[b].state, "cancel_requested", "unknown_completion"}
      BY <1>8 DEF IInv, LedgerInv, LiveMatches
    <3> QED
      BY <1>4, <1>7, <2>2, <3>1, <3>2
  <2> QED
    BY <2>1, <2>2
<1>12. \A j \in Invocations : StateOf(j)' \in {"leased", "running"} =>
          \E b \in AttemptsOf(j) : attempts'[b].state = StateOf(j)'
  <2> SUFFICES ASSUME NEW j \in Invocations, StateOf(j)' \in {"leased", "running"}
               PROVE  \E b \in AttemptsOf(j) : attempts'[b].state = StateOf(j)'
    OBVIOUS
  <2>1. CASE j = i
    <3>1. a \in AttemptsOf(j)
      BY <2>1 DEF AttemptsOf
    <3> QED
      BY <1>4, <1>7, <2>1, <3>1
  <2>2. CASE j # i
    <3>1. PICK b \in AttemptsOf(j) : attempts[b].state = StateOf(j)
      BY <1>7, <2>2 DEF IInv, LedgerInv, Served
    <3>2. b \in Attempts /\ b # a
      BY <2>2 DEF AttemptsOf
    <3> QED
      BY <1>4, <1>7, <2>2, <3>1, <3>2
  <2> QED
    BY <2>1, <2>2
<1>13. CanaryHasPlan'
  BY <1>2, <1>3 DEF IInv, LedgerInv, CanaryHasPlan
<1>14. LedgerInv'
  BY <1>8, <1>9, <1>10, <1>11, <1>12, <1>13, KeepsLedger
<1> QED
  BY <1>6, <1>14 DEF IInv

\* start, heartbeat, complete and fail.
LEMMA ReportStep ==
    ASSUME IInv, NEW a \in Attempts, NEW t \in Stamps, Report(a, t)
    PROVE  IInv'
<1> USE DEF InvocationStates, HeldStates, TerminalStates, LiveAttemptStates
<1>1. \A s \in {"leased", "running", "succeeded", "failed", "cancelled", "unknown_completion"} :
        SetAttempt(a, s) => \E r \in AttemptRecord :
            /\ r.state = s
            /\ r.inv = attempts[a].inv
            /\ r.fence = attempts[a].fence
            /\ attempts' = [attempts EXCEPT ![a] = r]
  <2> TAKE s \in {"leased", "running", "succeeded", "failed", "cancelled", "unknown_completion"}
  <2> DEFINE r == [attempts[a] EXCEPT !.state = s]
  <2>1. /\ r \in AttemptRecord
        /\ r.state = s
        /\ r.inv = attempts[a].inv
        /\ r.fence = attempts[a].fence
    BY DEF IInv, TypeOK, AttemptRecord, AttemptStates
  <2>2. SetAttempt(a, s) => attempts' = [attempts EXCEPT ![a] = r]
    BY DEF SetAttempt
  <2> HIDE DEF r
  <2> QED
    BY <2>1, <2>2
<1>2. ASSUME NEW s \in {"succeeded", "failed", "cancelled", "unknown_completion"},
             Live(a), Finish(a, s, s)
      PROVE  IInv'
  <2>1. PICK r \in AttemptRecord :
            /\ r.state = s
            /\ r.inv = attempts[a].inv
            /\ r.fence = attempts[a].fence
            /\ attempts' = [attempts EXCEPT ![a] = r]
    BY <1>1, <1>2 DEF Finish
  <2>2. SetState(attempts[a].inv, s) /\ OnlyTheRun
    BY <1>2 DEF Finish
  <2> QED
    BY <1>2, <2>1, <2>2, ReportApplied
<1>3. CASE Start(a, t)
  <2>1. PICK r \in AttemptRecord :
            /\ r.state = "running"
            /\ r.inv = attempts[a].inv
            /\ r.fence = attempts[a].fence
            /\ attempts' = [attempts EXCEPT ![a] = r]
    BY <1>1, <1>3 DEF Start
  <2>2. SetState(attempts[a].inv, "running") /\ OnlyTheRun /\ Live(a)
    BY <1>3 DEF Start, ProofAccepted, Live
  <2> QED
    BY <2>1, <2>2, ReportApplied
<1>4. ASSUME NEW over \in BOOLEAN, Heartbeat(a, t, over)
      PROVE  IInv'
  <2> DEFINE e == Earlier(attempts[a].deadline, t + LeaseSeconds)
             r == [attempts[a] EXCEPT !.expires = e]
             i == attempts[a].inv
  <2>1. /\ attempts[a].state = "running"
        /\ StateOf(i) \in {"running", "cancel_requested"}
        /\ Live(a)
        /\ OnlyTheRun
        /\ attempts' = [attempts EXCEPT ![a].expires = e]
        /\ IF over THEN SetState(i, "cancel_requested") ELSE UNCHANGED invocations
    BY <1>4 DEF Heartbeat, ProofAccepted, Live
  <2>2. e \in Nat
    <3>1. attempts[a].deadline \in Nat /\ t + LeaseSeconds \in Nat
      BY StampType, ExecutionAssumption DEF IInv, TypeOK, AttemptRecord
    <3> QED
      BY <3>1, EarlierType
  <2>3. /\ r \in AttemptRecord
        /\ r.state = "running"
        /\ r.inv = attempts[a].inv
        /\ r.fence = attempts[a].fence
        /\ attempts' = [attempts EXCEPT ![a] = r]
    <3> HIDE DEF e
    <3> QED
      BY <2>1, <2>2 DEF IInv, TypeOK, AttemptRecord
  <2>4. i \in Invocations
    BY <2>1 DEF IInv, LedgerInv, LiveMatches
  <2>5. \E s \in {"running", "cancel_requested"} : SetState(i, s)
    <3>1. CASE over
      BY <2>1, <3>1
    <3>2. CASE ~over
      <4>1. invocations' = [invocations EXCEPT ![i].state = StateOf(i)]
        BY <2>1, <2>4, <3>2 DEF StateOf, IInv, TypeOK, InvocationRecord
      <4> QED
        BY <2>1, <4>1 DEF SetState
    <3> QED
      BY <3>1, <3>2
  <2> HIDE DEF r
  <2> QED
    BY <2>1, <2>3, <2>5, ReportApplied
<1>5. ASSUME NEW valid \in BOOLEAN, Complete(a, t, valid)
      PROVE  IInv'
  <2>1. Live(a)
    BY <1>5 DEF Complete, ProofAccepted, Live
  <2>2. \E s \in {"succeeded", "failed", "unknown_completion"} : Finish(a, s, s)
    BY <1>5 DEF Complete
  <2> QED
    BY <1>2, <2>1, <2>2
<1>6. ASSUME NEW stopped \in BOOLEAN, Fail(a, t, stopped)
      PROVE  IInv'
  <2>1. Live(a)
    BY <1>6 DEF Fail, ProofAccepted, Live
  <2>2. \E s \in {"failed", "cancelled", "unknown_completion"} : Finish(a, s, s)
    BY <1>6 DEF Fail
  <2> QED
    BY <1>2, <2>1, <2>2
<1> QED
  BY <1>3, <1>4, <1>5, <1>6 DEF Report

\* reap_expired_attempts: an invocation with an expired attempt has no other
\* live one, and leaves "leased" and "running".
LEMMA ReapAttemptsStep ==
    ASSUME IInv, NEW t \in Stamps, NEW skipped \in SUBSET held, ReapAttempts(t, skipped)
    PROVE  IInv'
<1> DEFINE expired == {a \in Attempts \ skipped : Live(a) /\ attempts[a].expires <= t}
           Hit(i) == \E a \in expired : attempts[a].inv = i
<1>1. /\ attempts' = [a \in Attempts |->
            IF a \in expired THEN [attempts[a] EXCEPT !.state = "lease_expired"]
                             ELSE attempts[a]]
      /\ invocations' = [i \in Invocations |->
            IF Hit(i) THEN [invocations[i] EXCEPT !.state = AfterExpiry(i, t)]
                      ELSE invocations[i]]
      /\ nextPass' = "invocations"
      /\ UNCHANGED <<now, confirmations, leases, held, authorityVars>>
  BY DEF ReapAttempts
<1>2. \A a \in expired : a \in Attempts /\ Live(a)
  OBVIOUS
<1> HIDE DEF expired
<1>3. \A a \in Attempts :
         /\ attempts'[a] \in AttemptRecord
         /\ attempts'[a].inv = attempts[a].inv
         /\ attempts'[a].fence = attempts[a].fence
         /\ a \in expired => attempts'[a].state = "lease_expired"
         /\ a \notin expired => attempts'[a] = attempts[a]
  BY <1>1 DEF IInv, TypeOK, AttemptRecord, AttemptStates
<1>4. \A a \in expired : ~Live(a)' /\ Live(a)
  BY <1>2, <1>3 DEF Live, LiveAttemptStates
<1>5. \A i \in Invocations : AfterExpiry(i, t) \in InvocationStates
  BY DEF AfterExpiry, IInv, TypeOK, InvocationRecord, InvocationStates, OpenStates,
         TerminalStates, StateOf
<1>6. \A i \in Invocations :
         /\ invocations'[i] \in InvocationRecord
         /\ invocations'[i].canary = invocations[i].canary
         /\ invocations'[i].plan = invocations[i].plan
         /\ Hit(i) => StateOf(i)' = AfterExpiry(i, t)
         /\ ~Hit(i) => StateOf(i)' = StateOf(i)
  <2> TAKE i \in Invocations
  <2> DEFINE r == [invocations[i] EXCEPT !.state = AfterExpiry(i, t)]
  <2>1. /\ r \in InvocationRecord
        /\ r.canary = invocations[i].canary
        /\ r.plan = invocations[i].plan
        /\ r.state = AfterExpiry(i, t)
    BY <1>5 DEF IInv, TypeOK, InvocationRecord
  <2>2. invocations'[i] = IF Hit(i) THEN r ELSE invocations[i]
    BY <1>1
  <2> HIDE DEF r, Hit
  <2> QED
    BY <2>1, <2>2 DEF IInv, TypeOK, StateOf
<1>7. TypeOK'
  <2>1. attempts' \in [Attempts -> AttemptRecord]
    BY <1>1, <1>3
  <2>2. invocations' \in [Invocations -> InvocationRecord]
    BY <1>1, <1>6
  <2>3. AuthorityTypeOK'
    BY <1>1, AuthorityTypes DEF IInv, TypeOK
  <2> QED
    BY <1>1, <2>1, <2>2, <2>3 DEF IInv, TypeOK
<1>8. \A i \in Invocations : Hit(i) =>
         /\ StateOf(i) # "queued"
         /\ StateOf(i)' \notin {"leased", "running"}
         /\ \A b \in Attempts : attempts[b].inv = i => ~Live(b)'
  <2> SUFFICES ASSUME NEW i \in Invocations, NEW a \in expired, attempts[a].inv = i
               PROVE  /\ StateOf(i) # "queued"
                      /\ StateOf(i)' \notin {"leased", "running"}
                      /\ \A b \in Attempts : attempts[b].inv = i => ~Live(b)'
    OBVIOUS
  <2>1. StateOf(i) \in {"leased", "running", "cancel_requested", "unknown_completion"}
    BY <1>2 DEF IInv, LedgerInv, LiveMatches, Live, LiveAttemptStates
  <2>2. StateOf(i)' \notin {"leased", "running"}
    <3>1. StateOf(i)' = AfterExpiry(i, t)
      BY <1>6
    <3> QED
      BY <2>1, <3>1 DEF AfterExpiry
  <2>3. \A b \in Attempts : attempts[b].inv = i => ~Live(b)'
    BY <1>2, <1>3, <1>4 DEF IInv, LedgerInv, OneLive, Live
  <2> QED
    BY <2>1, <2>2, <2>3
<1>9. \A a \in Attempts : Live(a)' =>
         /\ Live(a)
         /\ attempts'[a].state = attempts[a].state
         /\ StateOf(attempts[a].inv)' = StateOf(attempts[a].inv)
  <2> SUFFICES ASSUME NEW a \in Attempts, Live(a)'
               PROVE  /\ Live(a)
                      /\ attempts'[a].state = attempts[a].state
                      /\ StateOf(attempts[a].inv)' = StateOf(attempts[a].inv)
    OBVIOUS
  <2>1. a \notin expired
    BY <1>4
  <2>2. Live(a) /\ attempts'[a].state = attempts[a].state
    BY <1>3, <2>1 DEF Live
  <2>3. attempts[a].inv \in Invocations
    BY <2>2 DEF IInv, LedgerInv, LiveMatches
  <2>4. ~Hit(attempts[a].inv)
    BY <1>8, <2>3
  <2>5. StateOf(attempts[a].inv)' = StateOf(attempts[a].inv)
    <3> HIDE DEF Hit
    <3> QED
      BY <1>3, <1>6, <2>3, <2>4
  <2> QED
    BY <2>2, <2>5
<1>10. \A i \in Invocations : StateOf(i)' \in {"leased", "running"} =>
          \E a \in AttemptsOf(i) : attempts'[a].state = StateOf(i)'
  <2> SUFFICES ASSUME NEW i \in Invocations, StateOf(i)' \in {"leased", "running"}
               PROVE  \E a \in AttemptsOf(i) : attempts'[a].state = StateOf(i)'
    OBVIOUS
  <2>1. ~Hit(i) /\ StateOf(i)' = StateOf(i)
    BY <1>6, <1>8
  <2>2. PICK a \in AttemptsOf(i) : attempts[a].state = StateOf(i)
    BY <2>1 DEF IInv, LedgerInv, Served
  <2>3. a \in Attempts /\ a \notin expired
    BY <2>1 DEF AttemptsOf
  <2> QED
    BY <1>3, <2>1, <2>2, <2>3
<1>11. \A i \in Invocations : \A v \in Providers :
          StateOf(i)' # "queued" => i \notin leases'[v].rows
  BY <1>1, <1>6, <1>8 DEF IInv, LedgerInv, LeasesHold
<1>12. CanaryHasPlan'
  BY <1>6 DEF IInv, LedgerInv, CanaryHasPlan
<1>13. \A a \in Attempts : Live(a)' =>
          StateOf(attempts[a].inv)' \in
              {attempts'[a].state, "cancel_requested", "unknown_completion"}
  BY <1>9 DEF IInv, LedgerInv, LiveMatches
<1>14. LedgerInv'
  BY <1>1, <1>3, <1>9, <1>10, <1>11, <1>12, <1>13, KeepsLedger
<1> QED
  BY <1>7, <1>14 DEF IInv

\* reap_expired_invocations: no row a lease has locked is touched, and an
\* invocation with a live attempt becomes unknown_completion.
LEMMA ReapInvocationsStep ==
    ASSUME IInv, ReapInvocations
    PROVE  IInv'
<1>1. \A i \in Invocations : AfterDeadline(i) \in InvocationStates \ {"leased", "running"}
  BY DEF AfterDeadline, InvocationStates, OpenStates, TerminalStates, HeldStates
<1>2. \A i \in Invocations :
         /\ invocations'[i] \in InvocationRecord
         /\ invocations'[i].canary = invocations[i].canary
         /\ invocations'[i].plan = invocations[i].plan
         /\ Overdue(i) => StateOf(i)' = AfterDeadline(i)
         /\ ~Overdue(i) => StateOf(i)' = StateOf(i)
  <2> TAKE i \in Invocations
  <2> DEFINE r == [invocations[i] EXCEPT !.state = AfterDeadline(i)]
  <2>1. /\ r \in InvocationRecord
        /\ r.canary = invocations[i].canary
        /\ r.plan = invocations[i].plan
        /\ r.state = AfterDeadline(i)
    BY <1>1 DEF IInv, TypeOK, InvocationRecord
  <2>2. invocations'[i] = IF Overdue(i) THEN r ELSE invocations[i]
    BY DEF ReapInvocations
  <2> HIDE DEF r
  <2> QED
    BY <2>1, <2>2 DEF IInv, TypeOK, StateOf
<1>3. TypeOK'
  <2>1. invocations' \in [Invocations -> InvocationRecord]
    BY <1>2 DEF ReapInvocations
  <2>2. confirmations' \in [Invocations -> ConfirmationStates]
    BY DEF ReapInvocations, IInv, TypeOK, ConfirmationStates
  <2>3. AuthorityTypeOK'
    BY AuthorityTypes DEF ReapInvocations, IInv, TypeOK
  <2> QED
    BY <2>1, <2>2, <2>3 DEF ReapInvocations, IInv, TypeOK
<1>4. UNCHANGED <<attempts, leases>>
  BY DEF ReapInvocations
<1>5. \A a \in Attempts : Live(a)' =>
         StateOf(attempts[a].inv)' \in
             {attempts'[a].state, "cancel_requested", "unknown_completion"}
  <2> SUFFICES ASSUME NEW a \in Attempts, Live(a), NEW i, i = attempts[a].inv
               PROVE  StateOf(i)' \in
                        {attempts[a].state, "cancel_requested", "unknown_completion"}
    BY <1>4 DEF Live
  <2>1. /\ i \in Invocations
        /\ StateOf(i) \in {attempts[a].state, "cancel_requested", "unknown_completion"}
        /\ StateOf(i) \in {"leased", "running", "cancel_requested", "unknown_completion"}
    BY DEF IInv, LedgerInv, LiveMatches, Live, LiveAttemptStates
  <2>2. CASE Overdue(i)
    <3>1. AfterDeadline(i) = "unknown_completion"
      BY <2>1 DEF AfterDeadline
    <3> QED
      BY <1>2, <2>1, <2>2, <3>1
  <2>3. CASE ~Overdue(i)
    BY <1>2, <2>1, <2>3
  <2> QED
    BY <2>2, <2>3
<1>6. \A i \in Invocations : StateOf(i)' \in {"leased", "running"} =>
         \E a \in AttemptsOf(i) : attempts'[a].state = StateOf(i)'
  BY <1>1, <1>2, <1>4 DEF IInv, LedgerInv, Served
<1>7. \A i \in Invocations : \A v \in Providers :
         StateOf(i)' # "queued" => i \notin leases'[v].rows
  BY <1>2, <1>4 DEF IInv, LedgerInv, LeasesHold, Overdue, RowLocked
<1>8. CanaryHasPlan'
  BY <1>2 DEF IInv, LedgerInv, CanaryHasPlan
<1>9. \A a \in Attempts : /\ attempts'[a].inv = attempts[a].inv
                          /\ attempts'[a].fence = attempts[a].fence
                          /\ attempts'[a].state = "none" => attempts[a].state = "none"
                          /\ Live(a)' => Live(a)
  BY <1>4 DEF Live
<1>10. LedgerInv'
  BY <1>4, <1>5, <1>6, <1>7, <1>8, <1>9, KeepsLedger
<1> QED
  BY <1>3, <1>10 DEF IInv

\* Control plane, restart, clock, a lease rolled back, stuttering: the ledger
\* rows stay and locks are at most released.
LEMMA OtherStep ==
    ASSUME IInv,
           Operate \/ Restart \/ Tick \/ (\E v \in Providers : LeaseAbort(v)) \/ UNCHANGED vars
    PROVE  IInv'
<1>1. AuthorityTypeOK'
  <2>1. CASE Operate
    <3>1. \A t \in Stamps : t \in Nat
      BY StampType DEF IInv
    <3>2. \/ \E p \in Plans, t \in Nat : ActivatePlan(p, t)
          \/ \E p \in Plans : PausePlan(p)
          \/ \E tool \in Tools : SuspendDescriptor(tool) \/ ReactivateDescriptor(tool)
          \/ \E v \in Providers : QuarantineProvider(v) \/ RestoreProvider(v)
      BY <2>1, <3>1 DEF Operate
    <3> QED
      BY <3>2, AuthorityTypes DEF IInv, TypeOK
  <2>2. CASE Restart
    BY <2>2, AuthorityTypes DEF Restart, IInv, TypeOK
  <2>3. CASE Tick \/ (\E v \in Providers : LeaseAbort(v)) \/ UNCHANGED vars
    BY <2>3, AuthorityTypes DEF Tick, LeaseAbort, vars, IInv, TypeOK
  <2> QED
    BY <2>1, <2>2, <2>3
<1>2. /\ UNCHANGED ledgerVars /\ held' = held
      /\ now' = now \/ now' = now + 1
      /\ nextPass' \in {nextPass, "attempts"}
      /\ \A v \in Providers : leases'[v] = leases[v] \/ leases'[v] = NoLease
      /\ \/ leases' = leases
         \/ leases' = [v \in Providers |-> NoLease]
         \/ \E v \in Providers : leases' = [leases EXCEPT ![v] = NoLease]
  BY DEF Operate, OnlyAuthority, Restart, Tick, LeaseAbort, vars, ledgerVars, IInv, TypeOK
<1>3. TypeOK'
  <2>1. NoLease \in [inv : Invocations \cup {None}, rows : SUBSET Invocations, stamp : Nat]
    BY DEF NoLease
  <2>2. now' \in Nat /\ nextPass' \in {"attempts", "invocations"}
    BY <1>2 DEF IInv, TypeOK
  <2> QED
    BY <1>1, <1>2, <2>1, <2>2 DEF IInv, TypeOK, ledgerVars
<1>4. UNCHANGED <<invocations, attempts>>
  BY <1>2 DEF ledgerVars
<1>5. \A i \in Invocations : \A v \in Providers :
         StateOf(i)' # "queued" => i \notin leases'[v].rows
  BY <1>2, <1>4 DEF IInv, LedgerInv, LeasesHold, StateOf, NoLease
<1>6. LedgerInv'
  <2>1. \A a \in Attempts : Live(a)' <=> Live(a)
    BY <1>4 DEF Live
  <2>2. \A i : StateOf(i)' = StateOf(i)
    BY <1>4 DEF StateOf
  <2>3. CanaryHasPlan'
    BY <1>4 DEF IInv, LedgerInv, CanaryHasPlan
  <2>4. \A a \in Attempts : Live(a)' =>
           StateOf(attempts[a].inv)' \in
               {attempts'[a].state, "cancel_requested", "unknown_completion"}
    BY <1>4, <2>1, <2>2 DEF IInv, LedgerInv, LiveMatches
  <2>5. \A i \in Invocations : StateOf(i)' \in {"leased", "running"} =>
           \E a \in AttemptsOf(i) : attempts'[a].state = StateOf(i)'
    BY <1>4, <2>2 DEF IInv, LedgerInv, Served
  <2> QED
    BY <1>2, <1>4, <1>5, <2>1, <2>3, <2>4, <2>5, KeepsLedger
<1> QED
  BY <1>3, <1>6 DEF IInv

-------------------------------------------------------------------------------
(* The lease.                                                              *)

\* The candidates of a lease are queued and locked by no other lease.
LEMMA LeaseBeginStep ==
    ASSUME IInv, NEW v \in Providers, NEW i \in Invocations, NEW t \in Stamps,
           LeaseBegin(v, i, t)
    PROVE  IInv'
<1> DEFINE rows == Candidates(v, t)
           l == [inv |-> i, rows |-> rows, stamp |-> t]
<1>1. /\ leases' = [leases EXCEPT ![v] = l]
      /\ UNCHANGED <<now, ledgerVars, held, nextPass, authorityVars>>
      /\ i \in rows
  BY DEF LeaseBegin
<1>2. \A j \in rows : j \in Invocations /\ StateOf(j) = "queued" /\ ~RowLocked(j)
  BY DEF Candidates
<1> HIDE DEF rows
<1>3. l \in [inv : Invocations \cup {None}, rows : SUBSET Invocations, stamp : Nat]
  BY <1>2, StampType DEF IInv
<1>4. /\ leases'[v].inv = i
      /\ leases'[v].rows = rows
      /\ \A w \in Providers \ {v} : leases'[w] = leases[w]
  BY <1>1 DEF IInv, TypeOK
<1>5. UNCHANGED <<invocations, attempts>>
  BY <1>1 DEF ledgerVars
<1>6. TypeOK'
  <2>1. AuthorityTypeOK'
    BY <1>1, AuthorityTypes DEF IInv, TypeOK
  <2> HIDE DEF l
  <2> QED
    BY <1>1, <1>3, <2>1 DEF IInv, TypeOK, ledgerVars
<1>7. LeasesHold'
  <2>1. \A w \in Providers : Leasing(w)' => leases'[w].inv \in leases'[w].rows
    BY <1>1, <1>4 DEF IInv, LedgerInv, LeasesHold, Leasing
  <2>2. \A w \in Providers : \A j \in leases'[w].rows : StateOf(j)' = "queued"
    BY <1>2, <1>4, <1>5 DEF IInv, LedgerInv, LeasesHold, StateOf
  <2>3. \A w, x \in Providers : \A j \in leases'[w].rows : j \in leases'[x].rows => w = x
    BY <1>2, <1>4 DEF IInv, LedgerInv, LeasesHold, RowLocked
  <2> QED
    BY <2>1, <2>2, <2>3 DEF LeasesHold
<1>8. (LiveMatches /\ Unused /\ OneLive /\ Served /\ FencesCount /\ CanaryHasPlan)'
  <2>1. (LiveMatches /\ Unused /\ OneLive)'
    BY <1>5 DEF IInv, LedgerInv, LiveMatches, Unused, OneLive, Live, StateOf
  <2>2. (Served /\ CanaryHasPlan)'
    BY <1>5 DEF IInv, LedgerInv, Served, CanaryHasPlan, AttemptsOf, StateOf
  <2>3. FencesCount'
    <3>1. \A j \in Invocations : AttemptsOf(j)' = AttemptsOf(j)
      BY <1>5 DEF AttemptsOf
    <3> QED
      BY <1>5, <3>1 DEF IInv, LedgerInv, FencesCount
  <2> QED
    BY <2>1, <2>2, <2>3
<1> QED
  BY <1>6, <1>7, <1>8 DEF IInv, LedgerInv

\* The new attempt has a fence above all others of its invocation, which no
\* live attempt serves.
LEMMA LeaseCommitStep ==
    ASSUME IInv, NEW v \in Providers, NEW a \in Attempts, NEW arrives \in BOOLEAN,
           LeaseCommit(v, a, arrives)
    PROVE  IInv'
<1>1. PICK i \in Invocations : /\ i = leases[v].inv
                              /\ i \in leases[v].rows
                              /\ StateOf(i) = "queued"
  BY DEF LeaseCommit, IInv, LedgerInv, LeasesHold, TypeOK, Leasing
<1> DEFINE n == Cardinality(AttemptsOf(i))
           r == [state |-> "leased", inv |-> i, provider |-> v, fence |-> NextFence(i),
                 deadline |-> invocations[i].deadline,
                 expires |-> Earlier(invocations[i].deadline, leases[v].stamp + LeaseSeconds)]
<1>2. /\ attempts[a].state = "none"
      /\ \A b \in AttemptsOf(i) : ~Live(b)
      /\ attempts' = [attempts EXCEPT ![a] = r]
      /\ SetState(i, "leased")
      /\ leases' = [leases EXCEPT ![v] = NoLease]
      /\ held' = held \/ held' = held \cup {a}
      /\ UNCHANGED <<now, confirmations, nextPass, authorityVars>>
  BY <1>1 DEF LeaseCommit
<1>3. n \in Nat /\ NextFence(i) = n + 1
  BY NextFenceIsCount DEF IInv, LedgerInv
<1>4. r \in AttemptRecord
  <2>1. invocations[i].deadline \in Nat /\ leases[v].stamp + LeaseSeconds \in Nat
    BY ExecutionAssumption DEF IInv, TypeOK, InvocationRecord
  <2>2. r.expires \in Nat
    BY <2>1, EarlierType
  <2>3. r.fence \in Nat
    BY <1>3
  <2> QED
    BY <2>1, <2>2, <2>3 DEF AttemptRecord, AttemptStates, LiveAttemptStates
<1>5. r.state = "leased" /\ r.inv = i /\ r.fence = n + 1
  BY <1>3
<1> HIDE DEF r, n
<1>6. PICK x \in InvocationRecord :
         /\ x.state = "leased"
         /\ x.canary = invocations[i].canary
         /\ x.plan = invocations[i].plan
         /\ invocations' = [invocations EXCEPT ![i] = x]
  <2>1. "leased" \in InvocationStates
    BY DEF InvocationStates, HeldStates
  <2> QED
    BY <1>2, <2>1, SetStateRecord DEF IInv
<1>7. /\ invocations' \in [Invocations -> InvocationRecord]
      /\ invocations'[i] = x
      /\ \A j \in Invocations \ {i} : invocations'[j] = invocations[j]
  BY <1>6, InvocationType DEF IInv
<1>8. /\ attempts' \in [Attempts -> AttemptRecord]
      /\ attempts'[a] = r
      /\ \A b \in Attempts \ {a} : attempts'[b] = attempts[b]
  BY <1>2, <1>4 DEF IInv, TypeOK
<1>9. /\ \A j \in Invocations : StateOf(j)' # StateOf(j) => j = i
      /\ StateOf(i)' = "leased"
  BY <1>6, <1>7 DEF StateOf
<1>10. \A w \in Providers : leases'[w] = IF w = v THEN NoLease ELSE leases[w]
  BY <1>2 DEF IInv, TypeOK
<1>11. TypeOK'
  <2>1. AuthorityTypeOK'
    BY <1>2, AuthorityTypes DEF IInv, TypeOK
  <2>2. NoLease \in [inv : Invocations \cup {None}, rows : SUBSET Invocations, stamp : Nat]
    BY DEF NoLease
  <2> QED
    BY <1>2, <1>7, <1>8, <2>1, <2>2 DEF IInv, TypeOK
<1>12. LeasesHold'
  <2>1. \A w \in Providers : Leasing(w)' => leases'[w].inv \in leases'[w].rows
    BY <1>10 DEF IInv, LedgerInv, LeasesHold, Leasing, NoLease
  <2>2. \A w \in Providers : \A j \in leases'[w].rows : StateOf(j)' = "queued"
    <3> SUFFICES ASSUME NEW w \in Providers, w # v, NEW j \in leases[w].rows
                 PROVE  StateOf(j)' = "queued"
      BY <1>10 DEF NoLease
    <3>1. j # i /\ StateOf(j) = "queued" /\ j \in Invocations
      BY <1>1 DEF IInv, TypeOK, LedgerInv, LeasesHold
    <3> QED
      BY <1>9, <3>1
  <2>3. \A w, y \in Providers : \A j \in leases'[w].rows : j \in leases'[y].rows => w = y
    BY <1>10 DEF IInv, LedgerInv, LeasesHold, NoLease
  <2> QED
    BY <2>1, <2>2, <2>3 DEF LeasesHold
<1>13. Live(a)' /\ ~Live(a) /\ \A b \in Attempts \ {a} : Live(b)' <=> Live(b)
  BY <1>2, <1>5, <1>8 DEF Live, LiveAttemptStates
<1>14. \A b \in Attempts \ {a} : Live(b) => attempts[b].inv # i
  BY <1>2 DEF AttemptsOf
<1>15. LiveMatches'
  <2> SUFFICES ASSUME NEW b \in Attempts, Live(b)'
               PROVE  /\ attempts'[b].inv \in Invocations
                      /\ invocations'[attempts'[b].inv].state \in
                           {attempts'[b].state, "cancel_requested", "unknown_completion"}
    BY DEF LiveMatches, StateOf
  <2>1. CASE b = a
    BY <1>5, <1>6, <1>7, <1>8, <2>1
  <2>2. CASE b # a
    <3>1. /\ attempts'[b] = attempts[b]
          /\ Live(b)
          /\ attempts[b].inv \in Invocations \ {i}
          /\ invocations[attempts[b].inv].state \in
               {attempts[b].state, "cancel_requested", "unknown_completion"}
      BY <1>8, <1>13, <1>14, <2>2 DEF IInv, LedgerInv, LiveMatches, StateOf
    <3> QED
      BY <1>7, <3>1
  <2> QED
    BY <2>1, <2>2
<1>16. Unused'
  BY <1>5, <1>8 DEF IInv, LedgerInv, Unused
<1>17. attempts[a].inv = None
  BY <1>2 DEF IInv, LedgerInv, Unused
<1>18. a \notin AttemptsOf(i) /\ AttemptsOf(i)' = AttemptsOf(i) \cup {a}
  BY <1>5, <1>8, <1>17, ExecutionAssumption DEF AttemptsOf
<1>19. \A j \in Invocations \ {i} : AttemptsOf(j)' = AttemptsOf(j) /\ a \notin AttemptsOf(j)
  BY <1>5, <1>8, <1>17, ExecutionAssumption DEF AttemptsOf
<1>20. IsFiniteSet(AttemptsOf(i)) /\ Cardinality(AttemptsOf(i))' = n + 1
  <2>1. IsFiniteSet(AttemptsOf(i))
    BY FS_Subset, ExecutionAssumption DEF AttemptsOf
  <2>2. Cardinality(AttemptsOf(i) \cup {a}) = Cardinality(AttemptsOf(i)) + 1
    BY <1>18, <2>1, FS_AddElement
  <2> QED
    BY <1>18, <2>1, <2>2 DEF n
<1>21. \A b \in AttemptsOf(i) : b \in Attempts \ {a} /\ attempts[b].fence \in 1 .. n
  BY <1>18 DEF IInv, LedgerInv, FencesCount, AttemptsOf, n
<1>22. OneLive'
  <2> SUFFICES ASSUME NEW b \in Attempts, NEW c \in Attempts, Live(b)', c # b,
                      attempts'[c].inv = attempts'[b].inv
               PROVE  /\ ~Live(c)'
                      /\ attempts'[c].fence < attempts'[b].fence
    BY DEF OneLive
  <2>1. CASE b = a
    <3>1. c \in AttemptsOf(i)
      BY <1>5, <1>8, <2>1 DEF AttemptsOf
    <3> QED
      BY <1>2, <1>3, <1>5, <1>8, <1>13, <1>21, <2>1, <3>1
  <2>2. CASE c = a
    BY <1>5, <1>8, <1>13, <1>14, <2>2
  <2>3. CASE b # a /\ c # a
    BY <1>8, <1>13, <2>3 DEF IInv, LedgerInv, OneLive
  <2> QED
    BY <2>1, <2>2, <2>3
<1>23. Served'
  <2> SUFFICES ASSUME NEW j \in Invocations, StateOf(j)' \in {"leased", "running"}
               PROVE  \E b \in AttemptsOf(j)' : attempts'[b].state = StateOf(j)'
    BY DEF Served
  <2>1. CASE j = i
    BY <1>5, <1>8, <1>9, <1>18, <2>1
  <2>2. CASE j # i
    <3>1. PICK b \in AttemptsOf(j) : attempts[b].state = StateOf(j)
      BY <1>9, <2>2 DEF IInv, LedgerInv, Served
    <3>2. b \in Attempts \ {a}
      BY <1>19, <2>2 DEF AttemptsOf
    <3> QED
      BY <1>8, <1>9, <1>19, <2>2, <3>1, <3>2
  <2> QED
    BY <2>1, <2>2
<1>24. FencesCount'
  <2> SUFFICES ASSUME NEW j \in Invocations
               PROVE  /\ \A b \in AttemptsOf(j)' :
                            attempts'[b].fence \in 1 .. Cardinality(AttemptsOf(j))'
                      /\ AttemptsOf(j)' # {} => \E b \in AttemptsOf(j)' :
                            attempts'[b].fence = Cardinality(AttemptsOf(j))'
    BY DEF FencesCount
  <2>1. CASE j = i
    <3>1. \A b \in AttemptsOf(i) : attempts'[b].fence \in 1 .. n
      BY <1>8, <1>21
    <3>2. attempts'[a].fence = n + 1
      BY <1>5, <1>8
    <3>3. Cardinality(AttemptsOf(j))' = n + 1 /\ AttemptsOf(j)' = AttemptsOf(i) \cup {a}
      BY <1>18, <1>20, <2>1
    <3> HIDE DEF n
    <3> QED
      BY <1>3, <3>1, <3>2, <3>3
  <2>2. CASE j # i
    <3>1. AttemptsOf(j)' = AttemptsOf(j)
      BY <1>19, <2>2
    <3>2. \A b \in AttemptsOf(j) : attempts'[b] = attempts[b]
      BY <1>8, <1>19, <2>2 DEF AttemptsOf
    <3> QED
      BY <3>1, <3>2 DEF IInv, LedgerInv, FencesCount
  <2> QED
    BY <2>1, <2>2
<1>25. CanaryHasPlan'
  BY <1>6, <1>7 DEF IInv, LedgerInv, CanaryHasPlan
<1> QED
  BY <1>11, <1>12, <1>15, <1>16, <1>22, <1>23, <1>24, <1>25 DEF IInv, LedgerInv

-------------------------------------------------------------------------------
(* Theorems.                                                               *)

\* Every handler, reaper pass, operation and restart preserves the invariant.
LEMMA InvariantStep == IInv /\ [Next]_vars => IInv'
<1> SUFFICES ASSUME IInv, [Next]_vars PROVE IInv'
  OBVIOUS
<1>1. ASSUME NEW i \in Invocations, NEW t \in Stamps, Call(i, t) PROVE IInv'
  BY <1>1, CreateStep, DecideStep, ApproveStep DEF Call
<1>2. ASSUME NEW v \in Providers, Lease(v) PROVE IInv'
  BY <1>2, LeaseBeginStep, LeaseCommitStep, OtherStep DEF Lease
<1>3. ASSUME NEW a \in Attempts, NEW t \in Stamps, Report(a, t) PROVE IInv'
  BY <1>3, ReportStep
<1>4. ASSUME NEW t \in Stamps, NEW skipped \in SUBSET held, ReapAttempts(t, skipped)
      PROVE  IInv'
  BY <1>4, ReapAttemptsStep
<1>5. CASE ReapInvocations
  BY <1>5, ReapInvocationsStep
<1>6. CASE Operate \/ Restart \/ Tick \/ UNCHANGED vars
  BY <1>6, OtherStep
<1> QED
  BY <1>1, <1>2, <1>3, <1>4, <1>5, <1>6 DEF Next

\* The rows of the ledger fit together in every reachable state: leases in
\* flight hold queued rows, live attempts are their invocation's newest, fences
\* count the attempts, and an admitted invocation names its plan.
THEOREM Invariant == Spec => []IInv
<1> QED
  BY InitLedger, InvariantStep, PTL DEF Spec

\* Type correctness of the ledger, for any number of invocations, providers,
\* plans and attempts.
THEOREM TypeCorrect == Spec => []TypeOK
<1>1. IInv => TypeOK
  BY DEF IInv
<1> QED
  BY <1>1, Invariant, PTL

\* Attempt rows and invocation rows never contradict each other: at most one
\* live attempt per invocation, above all earlier fences, in a matching state.
THEOREM AttemptsAlwaysAgree == Spec => []AttemptsAgree
<1>1. IInv => AttemptsAgree
  BY DEF IInv, LedgerInv, LiveMatches, OneLive, Served, AttemptsAgree, AttemptsOf
<1> QED
  BY <1>1, Invariant, PTL

-------------------------------------------------------------------------------
(* What the protocol guarantees.                                           *)

\* What a step may do to one invocation and its challenge.
Kept(i) == /\ invocations'[i].plan = invocations[i].plan
           /\ invocations'[i].version = invocations[i].version
           /\ invocations'[i].queueCreated = invocations[i].queueCreated
           /\ invocations'[i].canary = invocations[i].canary
           /\ invocations'[i].created = invocations[i].created

Stays(i) == /\ Kept(i)
            /\ StateOf(i)' = StateOf(i)
            /\ confirmations'[i] = confirmations[i]

TurnedAway(i) == /\ StateOf(i) = "none"
                 /\ StateOf(i)' \in {"rejected", "recorded_only"}
                 /\ confirmations'[i] = confirmations[i]
                 /\ ~invocations'[i].queueCreated

\* It is inserted within the rate limit, as of its stamp.
Within(i) == /\ invocations'[i].created \in Nat
             /\ ~RateExceeded(ToolOf(i), i, invocations'[i].created)
             /\ \A j \in Invocations \ {i} : Stays(j)

Challenged(i) == /\ StateOf(i) = "none"
                 /\ Within(i)
                 /\ StateOf(i)' = "awaiting_confirmation"
                 /\ confirmations'[i] = "pending"
                 /\ ~invocations'[i].queueCreated

Closed(i) == /\ Kept(i)
             /\ StateOf(i) = "awaiting_confirmation"
             /\ StateOf(i)' \in {"expired", "rejected", "cancelled"}
             /\ confirmations'[i] \in {"expired", "rejected"}

Running == {"queued"} \cup HeldStates

Advances(i) == /\ Kept(i)
               /\ StateOf(i) \notin {"none", "awaiting_confirmation"} \cup TerminalStates
               /\ StateOf(i)' \notin {"none", "awaiting_confirmation"}
               /\ StateOf(i)' \in {"succeeded"} \cup Running => StateOf(i) \in Running
               /\ confirmations'[i] = confirmations[i]

Admitted(i) == /\ StateOf(i) = "none"
               /\ Within(i)
               /\ StateOf(i)' = "queued"
               /\ ToolOf(i) \notin ConfirmTools
               /\ confirmations'[i] = confirmations[i]
               /\ invocations'[i].queueCreated

Approved(i) == /\ Kept(i)
               /\ StateOf(i) = "awaiting_confirmation"
               /\ confirmations[i] = "pending"
               /\ StateOf(i)' = "queued"
               /\ confirmations'[i] = "consumed"

\* A step that uses no quota, and one that uses one place for one invocation.
Quiet ==
    /\ \A p \in Plans : plans'[p].consumed = plans[p].consumed
    /\ \A i \in Invocations :
          Stays(i) \/ TurnedAway(i) \/ Challenged(i) \/ Closed(i) \/ Advances(i)

Uses(i) ==
    /\ Admitted(i) \/ Approved(i)
    /\ invocations'[i].plan \in Plans
    /\ QuotaLeft(invocations'[i].plan)
    /\ Consume(invocations'[i].plan)
    /\ UNCHANGED <<descriptors, providers, settings>>
    /\ \A j \in Invocations \ {i} : Stays(j)

-------------------------------------------------------------------------------
(* The steps, in these terms.                                              *)

\* A transition moves the state of one row.
LEMMA SetStateKeeps ==
    ASSUME TypeOK, NEW i \in Invocations, NEW s, SetState(i, s)
    PROVE  /\ StateOf(i)' = s
           /\ Kept(i)
           /\ \A j \in Invocations \ {i} : invocations'[j] = invocations[j]
BY DEF SetState, TypeOK, InvocationRecord, StateOf, Kept

\* A row that is not touched stays.
LEMMA UntouchedStays ==
    ASSUME NEW i \in Invocations, invocations'[i] = invocations[i],
           confirmations'[i] = confirmations[i]
    PROVE  Stays(i)
BY DEF Stays, Kept, StateOf

\* Creation inserts a row that was not there.
LEMMA CreateMoves ==
    ASSUME IInv, NEW i \in Invocations, NEW t \in Stamps, NEW view \in Views,
           \/ RejectProposal(i, t, view)
           \/ RecordOnly(i, t, view)
           \/ RequireConfirmation(i, t, view)
           \/ QueueProposal(i, t, view)
    PROVE  Quiet \/ Uses(i)
<1>7. t \in Nat
  BY StampType DEF IInv
<1>1. StateOf(i) = "none"
  BY DEF RejectProposal, RecordOnly, RequireConfirmation, QueueProposal, Passes, Creating
<1>2. ASSUME NEW s, NEW canary, NEW d, Insert(i, t, s, canary, d)
      PROVE  /\ StateOf(i)' = s
             /\ invocations'[i].plan = MatchingPlan(i, t)
             /\ invocations'[i].queueCreated = (s = "queued")
             /\ invocations'[i].created = t
             /\ \A j \in Invocations \ {i} : invocations'[j] = invocations[j]
  BY <1>2 DEF Insert, IInv, TypeOK, StateOf
<1>3. ASSUME \A j \in Invocations \ {i} : /\ invocations'[j] = invocations[j]
                                          /\ confirmations'[j] = confirmations[j]
      PROVE  \A j \in Invocations \ {i} : Stays(j)
  BY <1>3, UntouchedStays
<1>4. CASE RejectProposal(i, t, view) \/ RecordOnly(i, t, view)
  <2>1. PICK s \in {"rejected", "recorded_only"} :
           /\ \E canary, d : Insert(i, t, s, canary, d)
           /\ UNCHANGED <<confirmations, plans>>
    BY <1>4 DEF RejectProposal, RecordOnly
  <2>2. TurnedAway(i)
    BY <1>1, <1>2, <2>1 DEF TurnedAway
  <2>3. \A j \in Invocations \ {i} : Stays(j)
    BY <1>2, <1>3, <2>1
  <2> QED
    BY <2>1, <2>2, <2>3 DEF Quiet
<1>5. CASE RequireConfirmation(i, t, view)
  <2>1. /\ Insert(i, t, "awaiting_confirmation", TRUE,
                  Earlier(t + ConfirmSeconds, PlanExpires[MatchingPlan(i, t)]))
        /\ confirmations' = [confirmations EXCEPT ![i] = "pending"]
        /\ UNCHANGED plans
        /\ ~RateExceeded(ToolOf(i), i, t)
    BY <1>5 DEF RequireConfirmation, Passes
  <2>2. Challenged(i)
    <3>0. PICK d : Insert(i, t, "awaiting_confirmation", TRUE, d)
      BY <2>1
    <3>1. StateOf(i)' = "awaiting_confirmation" /\ ~invocations'[i].queueCreated
      BY <1>2, <3>0
    <3>2. confirmations'[i] = "pending"
      BY <2>1 DEF IInv, TypeOK
    <3>3. \A j \in Invocations \ {i} : Stays(j)
      BY <1>2, <1>3, <2>1 DEF IInv, TypeOK
    <3>4. Within(i)
      BY <1>7, <1>2, <2>1, <3>3 DEF Within
    <3> QED
      BY <1>1, <3>1, <3>2, <3>4 DEF Challenged
  <2> QED
    BY <2>1, <2>2 DEF Quiet, Challenged, Within
<1>6. CASE QueueProposal(i, t, view)
  <2>1. /\ Insert(i, t, "queued", TRUE, t + Timeout)
        /\ ToolOf(i) \notin ConfirmTools
        /\ QuotaLeft(MatchingPlan(i, t))
        /\ Consume(MatchingPlan(i, t))
        /\ UNCHANGED confirmations
        /\ MatchingPlan(i, t) \in Plans
        /\ ~RateExceeded(ToolOf(i), i, t)
    BY <1>6, MatchingPlanType DEF QueueProposal, Passes, Fallback
  <2>3. \A j \in Invocations \ {i} : Stays(j)
    BY <1>2, <1>3, <2>1
  <2>2. Admitted(i) /\ invocations'[i].plan = MatchingPlan(i, t)
    BY <1>7, <1>1, <1>2, <2>1, <2>3 DEF Admitted, Within
  <2>4. UNCHANGED <<descriptors, providers, settings>>
    BY <2>1 DEF Insert
  <2> QED
    BY <2>1, <2>2, <2>3, <2>4 DEF Uses
<1> QED
  BY <1>4, <1>5, <1>6

\* Decisions and cancels move one row and its challenge.
LEMMA DecideMoves ==
    ASSUME IInv, NEW i \in Invocations, NEW t \in Stamps,
           \/ DecideTooLate(i, t)
           \/ RejectConfirmation(i, t)
           \/ \E healthy \in BOOLEAN : RefuseApproval(i, t, healthy)
           \/ CancelOpen(i)
           \/ RequestCancel(i)
    PROVE  Quiet
<1>1. ASSUME NEW s, NEW c, Close(i, s, c)
      PROVE  /\ StateOf(i)' = s /\ Kept(i) /\ confirmations'[i] = c
             /\ \A j \in Invocations \ {i} : Stays(j)
             /\ \A p \in Plans : plans'[p].consumed = plans[p].consumed
  <2>1. SetState(i, s) /\ confirmations' = [confirmations EXCEPT ![i] = c] /\ plans' = plans
    BY <1>1 DEF Close, authorityVars
  <2>2. /\ StateOf(i)' = s /\ Kept(i)
        /\ \A j \in Invocations \ {i} : invocations'[j] = invocations[j]
    BY <2>1, SetStateKeeps DEF IInv
  <2>3. confirmations'[i] = c
        /\ \A j \in Invocations \ {i} : confirmations'[j] = confirmations[j]
    BY <2>1 DEF IInv, TypeOK
  <2> QED
    BY <2>1, <2>2, <2>3, UntouchedStays
<1>2. CASE StateOf(i) = "awaiting_confirmation"
  <2>1. \E s \in {"expired", "rejected", "cancelled"}, c \in {"expired", "rejected"} :
           Close(i, s, c)
    BY <1>2 DEF DecideTooLate, RejectConfirmation, RefuseApproval, CancelOpen, RequestCancel
  <2> QED
    BY <1>1, <1>2, <2>1 DEF Quiet, Closed
<1>3. CASE StateOf(i) # "awaiting_confirmation"
  <2>1. CASE CancelOpen(i)
    <3>1. StateOf(i) \in OpenStates \ {"awaiting_confirmation"}
          /\ Close(i, "cancelled", confirmations[i])
      BY <1>3, <2>1 DEF CancelOpen
    <3>2. Advances(i)
      BY <1>1, <3>1 DEF Advances, Running, HeldStates, OpenStates, TerminalStates
    <3> QED
      BY <1>1, <3>1, <3>2 DEF Quiet
  <2>2. CASE RequestCancel(i)
    <3>1. StateOf(i) \in {"leased", "running"}
          /\ Close(i, "cancel_requested", confirmations[i])
      BY <2>2 DEF RequestCancel
    <3>2. Advances(i)
      BY <1>1, <3>1 DEF Advances, Running, HeldStates, TerminalStates
    <3> QED
      BY <1>1, <3>1, <3>2 DEF Quiet
  <2> QED
    BY <1>3, <2>1, <2>2 DEF DecideTooLate, RejectConfirmation, RefuseApproval, Approving, Deciding
<1> QED
  BY <1>2, <1>3

\* An approval uses one place of the plan the invocation was admitted under.
LEMMA ApproveMoves ==
    ASSUME IInv, NEW i \in Invocations, NEW t \in Stamps, Approve(i, t)
    PROVE  Uses(i)
<1> DEFINE p == invocations[i].plan
           d == Earlier(t + Timeout, PlanExpires[p])
<1>1. /\ StateOf(i) = "awaiting_confirmation"
      /\ confirmations[i] = "pending"
      /\ p \in Plans
      /\ QuotaLeft(p) /\ Consume(p)
      /\ invocations' = [invocations EXCEPT ![i].state = "queued", ![i].deadline = d]
      /\ confirmations' = [confirmations EXCEPT ![i] = "consumed"]
      /\ UNCHANGED <<descriptors, providers, settings>>
  BY DEF Approve, Approving, Deciding, StillAuthorised, IInv, LedgerInv, CanaryHasPlan
<1>2. /\ StateOf(i)' = "queued" /\ Kept(i)
      /\ \A j \in Invocations \ {i} : invocations'[j] = invocations[j]
  <2> DEFINE q == [invocations[i] EXCEPT !.state = "queued"]
             r == [q EXCEPT !.deadline = d]
  <2>1. /\ q.state = "queued" /\ q.plan = p /\ q.version = invocations[i].version
        /\ q.queueCreated = invocations[i].queueCreated
        /\ q.canary = invocations[i].canary /\ q.created = invocations[i].created
        /\ DOMAIN q = {"state", "plan", "version", "canary", "queueCreated", "created", "deadline"}
    BY DEF IInv, TypeOK, InvocationRecord
  <2>2. /\ r.state = "queued" /\ r.plan = p /\ r.version = invocations[i].version
        /\ r.queueCreated = invocations[i].queueCreated
        /\ r.canary = invocations[i].canary /\ r.created = invocations[i].created
    <3> HIDE DEF q, p, d
    <3> QED
      BY <2>1
  <2>3. invocations' = [invocations EXCEPT ![i] = r]
    BY <1>1 DEF IInv, TypeOK, InvocationRecord
  <2> HIDE DEF r, d
  <2> QED
    BY <2>2, <2>3 DEF IInv, TypeOK, StateOf, Kept
<1>3. confirmations'[i] = "consumed"
      /\ \A j \in Invocations \ {i} : confirmations'[j] = confirmations[j]
  BY <1>1 DEF IInv, TypeOK
<1>4. invocations'[i].plan = p
  BY <1>2 DEF Kept
<1>5. Approved(i) /\ \A j \in Invocations \ {i} : Stays(j)
  BY <1>1, <1>2, <1>3, UntouchedStays DEF Approved
<1> HIDE DEF p
<1> QED
  BY <1>1, <1>4, <1>5 DEF Uses

\* The steps that move one invocation between the queue and its outcome.
LEMMA AdvanceOne ==
    ASSUME IInv, NEW i \in Invocations, StateOf(i) \in Running,
           NEW s \in Running \cup TerminalStates, SetState(i, s),
           UNCHANGED <<confirmations, plans>>
    PROVE  Quiet
<1>1. /\ StateOf(i)' = s /\ Kept(i)
      /\ \A j \in Invocations \ {i} : invocations'[j] = invocations[j]
  BY SetStateKeeps DEF IInv
<1>2. Advances(i)
  BY <1>1 DEF Advances, Running, HeldStates, TerminalStates
<1>3. \A j \in Invocations \ {i} : Stays(j)
  BY <1>1, UntouchedStays
<1> QED
  BY <1>2, <1>3 DEF Quiet

\* Reports: only a proof that matches the row, of an invocation that runs.
LEMMA ReportMoves ==
    ASSUME IInv, NEW a \in Attempts, NEW t \in Stamps, Report(a, t)
    PROVE  Quiet
<1> DEFINE i == attempts[a].inv
<1>1. Live(a) /\ StateOf(i) \in {"leased", "running", "cancel_requested"}
  BY DEF Report, Start, Heartbeat, Complete, Fail, ProofAccepted, Live, LiveAttemptStates
<1>2. i \in Invocations
  BY <1>1 DEF IInv, LedgerInv, LiveMatches
<1>3. UNCHANGED <<confirmations, plans>>
  BY DEF Report, Start, Heartbeat, Complete, Fail, Finish, OnlyTheRun, authorityVars
<1>4. invocations' = invocations
      \/ \E s \in {"running", "cancel_requested", "succeeded", "failed", "cancelled",
                   "unknown_completion"} : SetState(i, s)
  BY DEF Report, Start, Heartbeat, Complete, Fail, Finish
<1> HIDE DEF i
<1>5. StateOf(i) \in Running
  BY <1>1 DEF Running, HeldStates
<1>6. {"running", "cancel_requested", "succeeded", "failed", "cancelled",
       "unknown_completion"} \subseteq Running \cup TerminalStates
  BY DEF Running, HeldStates, TerminalStates
<1>7. CASE invocations' = invocations
  BY <1>3, <1>7, UntouchedStays DEF Quiet
<1>8. ASSUME NEW s \in {"running", "cancel_requested", "succeeded", "failed", "cancelled",
                        "unknown_completion"}, SetState(i, s)
      PROVE  Quiet
  BY <1>2, <1>3, <1>5, <1>6, <1>8, AdvanceOne
<1> QED
  BY <1>4, <1>7, <1>8

\* What the first pass makes of an invocation.
LEMMA ExpiryMoves ==
    ASSUME IInv, NEW i \in Invocations, NEW t
    PROVE  \/ AfterExpiry(i, t) = StateOf(i)
           \/ /\ StateOf(i) \in {"leased", "running", "cancel_requested"}
              /\ AfterExpiry(i, t) \in {"queued", "timed_out", "unknown_completion"}
BY DEF AfterExpiry

\* Both passes of the reaper.
LEMMA ReaperMoves ==
    ASSUME IInv,
           \/ \E t \in Stamps, skipped \in SUBSET held : ReapAttempts(t, skipped)
           \/ ReapInvocations
    PROVE  Quiet
<1>1. plans' = plans
  BY DEF ReapAttempts, ReapInvocations, authorityVars
<1>2. ASSUME NEW t \in Stamps, NEW skipped \in SUBSET held, ReapAttempts(t, skipped),
             NEW i \in Invocations
      PROVE  Stays(i) \/ Advances(i)
  <2>1. confirmations' = confirmations
    BY <1>2 DEF ReapAttempts
  <2>2. invocations'[i] = invocations[i]
        \/ invocations'[i] = [invocations[i] EXCEPT !.state = AfterExpiry(i, t)]
    BY <1>2 DEF ReapAttempts
  <2>3. CASE invocations'[i] = invocations[i]
    BY <2>1, <2>3, UntouchedStays
  <2>4. CASE invocations'[i] = [invocations[i] EXCEPT !.state = AfterExpiry(i, t)]
    <3>1. StateOf(i)' = AfterExpiry(i, t) /\ Kept(i)
      BY <2>4 DEF IInv, TypeOK, InvocationRecord, StateOf, Kept
    <3> QED
      BY <2>1, <3>1, ExpiryMoves DEF Stays, Advances, Running, HeldStates, TerminalStates
  <2> QED
    BY <2>2, <2>3, <2>4
<1>3. ASSUME ReapInvocations, NEW i \in Invocations
      PROVE  Stays(i) \/ Closed(i) \/ Advances(i)
  <2>1. CASE ~Overdue(i)
    <3>1. invocations'[i] = invocations[i] /\ confirmations'[i] = confirmations[i]
      BY <1>3, <2>1 DEF ReapInvocations
    <3> QED
      BY <3>1, UntouchedStays
  <2>2. CASE Overdue(i)
    <3>1. /\ invocations'[i] = [invocations[i] EXCEPT !.state = AfterDeadline(i)]
          /\ confirmations'[i] = IF StateOf(i) = "awaiting_confirmation"
                                 THEN "expired" ELSE confirmations[i]
      BY <1>3, <2>2 DEF ReapInvocations
    <3>2. StateOf(i)' = AfterDeadline(i) /\ Kept(i)
      BY <3>1 DEF IInv, TypeOK, InvocationRecord, StateOf, Kept
    <3>3. CASE StateOf(i) = "awaiting_confirmation"
      BY <3>1, <3>2, <3>3 DEF AfterDeadline, Closed
    <3>4. CASE StateOf(i) # "awaiting_confirmation"
      <4>1. StateOf(i) \notin TerminalStates \cup {"none"} /\ AfterDeadline(i) \in {"timed_out", "rejected", "unknown_completion"}
        BY <2>2, <3>4 DEF Overdue, AfterDeadline
      <4> QED
        BY <3>1, <3>2, <3>4, <4>1 DEF Advances, Running, HeldStates
    <3> QED
      BY <3>3, <3>4
  <2> QED
    BY <2>1, <2>2
<1> QED
  BY <1>1, <1>2, <1>3 DEF Quiet

\* The rest: leases, operators, a restart, the clock.
LEMMA OtherMoves ==
    ASSUME IInv,
           (\E v \in Providers : Lease(v)) \/ Operate \/ Restart \/ Tick \/ UNCHANGED vars
    PROVE  Quiet
<1>1. CASE invocations' = invocations /\ confirmations' = confirmations
           /\ \A p \in Plans : plans'[p].consumed = plans[p].consumed
  BY <1>1, UntouchedStays DEF Quiet
<1>2. ASSUME NEW v \in Providers, NEW a \in Attempts, NEW arrives \in BOOLEAN,
             LeaseCommit(v, a, arrives)
      PROVE  Quiet
  <2>1. PICK i \in Invocations : /\ i = leases[v].inv
                                /\ StateOf(i) = "queued"
    BY <1>2 DEF LeaseCommit, IInv, LedgerInv, LeasesHold, TypeOK, Leasing
  <2>2. SetState(i, "leased") /\ UNCHANGED <<confirmations, plans>>
    BY <1>2, <2>1 DEF LeaseCommit, authorityVars
  <2>3. StateOf(i) \in Running /\ "leased" \in Running \cup TerminalStates
    BY <2>1 DEF Running, HeldStates
  <2> QED
    BY <2>2, <2>3, AdvanceOne
<1>3. ASSUME (\E v \in Providers, i \in Invocations, t \in Stamps : LeaseBegin(v, i, t))
             \/ (\E v \in Providers : LeaseAbort(v)) \/ Restart \/ Tick \/ UNCHANGED vars
      PROVE  Quiet
  BY <1>1, <1>3 DEF LeaseBegin, LeaseAbort, Restart, Reconfigure, Tick, vars, ledgerVars, authorityVars
<1>4. CASE Operate
  <2>1. invocations' = invocations /\ confirmations' = confirmations
    BY <1>4 DEF Operate, OnlyAuthority, ledgerVars
  <2>2. plans' = plans \/ \E p \in Plans, to \in {"active", "paused"} :
                             plans' = [plans EXCEPT ![p] = Move(@, to)]
    BY <1>4 DEF Operate, PausePlan, ActivatePlan, QuarantineProvider, RestoreProvider,
                SuspendDescriptor, ReactivateDescriptor
  <2>3. \A r \in PlanRecord, to \in {"active", "paused"} : Move(r, to).consumed = r.consumed
    BY DEF Move, PlanRecord
  <2>4. \A p \in Plans : plans'[p].consumed = plans[p].consumed
    BY <2>2, <2>3 DEF IInv, TypeOK, AuthorityTypeOK
  <2> QED
    BY <1>1, <2>1, <2>4
<1> QED
  BY <1>2, <1>3, <1>4 DEF Lease

\* Every step uses one place of a quota or none.
LEMMA Moves == IInv /\ [Next]_vars => Quiet \/ \E i \in Invocations : Uses(i)
<1> SUFFICES ASSUME IInv, [Next]_vars PROVE Quiet \/ \E i \in Invocations : Uses(i)
  OBVIOUS
<1>1. ASSUME NEW i \in Invocations, NEW t \in Stamps, Call(i, t)
      PROVE  Quiet \/ Uses(i)
  BY <1>1, CreateMoves, DecideMoves, ApproveMoves DEF Call
<1>2. ASSUME NEW a \in Attempts, NEW t \in Stamps, Report(a, t) PROVE Quiet
  BY <1>2, ReportMoves
<1> QED
  BY <1>1, <1>2, ReaperMoves, OtherMoves DEF Next

-------------------------------------------------------------------------------
(* A challenge and its invocation.                                         *)

\* No step lets a challenge and its invocation disagree.
LEMMA ConfirmationStep == IInv /\ ConfirmationAgrees /\ [Next]_vars => ConfirmationAgrees'
<1> SUFFICES ASSUME IInv, ConfirmationAgrees, [Next]_vars, NEW i \in Invocations
             PROVE  /\ confirmations'[i] = "pending" <=> StateOf(i)' = "awaiting_confirmation"
                    /\ ToolOf(i) \in ConfirmTools /\
                         StateOf(i)' \in {"queued", "succeeded"} \cup HeldStates
                       => confirmations'[i] = "consumed"
  BY DEF ConfirmationAgrees, ToolOf, StateOf
<1>1. /\ confirmations[i] = "pending" <=> StateOf(i) = "awaiting_confirmation"
      /\ ToolOf(i) \in ConfirmTools /\
           StateOf(i) \in {"queued", "succeeded"} \cup HeldStates
         => confirmations[i] = "consumed"
  BY DEF ConfirmationAgrees
<1>2. \/ Stays(i) \/ TurnedAway(i) \/ Challenged(i) \/ Closed(i) \/ Advances(i)
      \/ Admitted(i) \/ Approved(i)
  BY Moves DEF Quiet, Uses
<1> QED
  BY <1>1, <1>2 DEF Stays, TurnedAway, Challenged, Closed, Advances, Admitted, Approved,
                    Running, HeldStates

\* An approved invocation has consumed its challenge, an open challenge is that
\* of a waiting invocation, whichever handlers and passes of the reaper meet.
THEOREM ConfirmationAlwaysAgrees == Spec => []ConfirmationAgrees
<1>1. Init => ConfirmationAgrees
  BY DEF Init, NoInvocation, StateOf, ConfirmationAgrees, HeldStates
<1> QED
  BY <1>1, ConfirmationStep, Invariant, PTL DEF Spec

-------------------------------------------------------------------------------
(* The quota.                                                              *)

Places(p) == {i \in Invocations :
                 /\ invocations[i].plan = p
                 /\ invocations[i].queueCreated \/ confirmations[i] = "consumed"}

\* An invocation that is not queued yet has used no place, and the places of a
\* plan are counted.
QuotaInv ==
    /\ ConfirmationAgrees
    /\ \A i \in Invocations : StateOf(i) \in {"none", "awaiting_confirmation"} =>
          ~invocations[i].queueCreated /\ confirmations[i] # "consumed"
    /\ \A p \in Plans : /\ IsFiniteSet(Places(p))
                        /\ plans[p].consumed = Cardinality(Places(p))
                        /\ plans[p].consumed <= MaxInvocations[p]

\* A step that uses no place leaves the places as they are.
LEMMA QuietPlaces ==
    ASSUME IInv, QuotaInv, Quiet, NEW p \in Plans
    PROVE  Places(p)' = Places(p)
<1>1. ASSUME NEW i \in Invocations
      PROVE  (i \in Places(p))' <=> i \in Places(p)
  <2>1. CASE Kept(i) /\ (confirmations'[i] = "consumed" <=> confirmations[i] = "consumed")
    BY <2>1 DEF Kept, Places
  <2>2. CASE TurnedAway(i) \/ Challenged(i)
    <3>1. StateOf(i) = "none" /\ ~invocations'[i].queueCreated
          /\ (confirmations'[i] = confirmations[i] \/ confirmations'[i] = "pending")
      BY <2>2 DEF TurnedAway, Challenged
    <3> QED
      BY <3>1 DEF QuotaInv, Places
  <2>3. CASE Closed(i)
    BY <2>1, <2>3 DEF Closed, QuotaInv
  <2> QED
    BY <2>1, <2>2, <2>3 DEF Quiet, Stays, Advances
<1> QED
  BY <1>1 DEF Places

\* A step that uses a place adds its invocation to those of one plan.
LEMMA UsesPlaces ==
    ASSUME IInv, QuotaInv, NEW i \in Invocations, Uses(i), NEW p \in Plans
    PROVE  IF p = invocations'[i].plan
           THEN i \notin Places(p) /\ Places(p)' = Places(p) \cup {i}
           ELSE Places(p)' = Places(p)
<1>1. \A j \in Invocations \ {i} : (j \in Places(p))' <=> j \in Places(p)
  BY DEF Uses, Stays, Kept, Places
<1>2. i \notin Places(p)
  BY DEF Uses, Admitted, Approved, QuotaInv, Places
<1>3. invocations'[i].queueCreated \/ confirmations'[i] = "consumed"
  BY DEF Uses, Admitted, Approved
<1>4. (i \in Places(p))' <=> invocations'[i].plan = p
  BY <1>3 DEF Places
<1> QED
  BY <1>1, <1>2, <1>4 DEF Places

\* The counter of a plan is the number of invocations ever queued under it, and
\* never exceeds the quota, however many proposals and approvals race.
THEOREM QuotaAlwaysExact == Spec => []QuotaExact
<1>1. Init => QuotaInv
  <2> SUFFICES ASSUME Init PROVE QuotaInv
    OBVIOUS
  <2>1. ConfirmationAgrees
    BY DEF Init, NoInvocation, StateOf, ConfirmationAgrees, HeldStates
  <2>2. \A i \in Invocations : ~invocations[i].queueCreated /\ confirmations[i] = "none"
    BY DEF Init, NoInvocation
  <2>3. \A p \in Plans : Places(p) = {}
    BY <2>2 DEF Places
  <2>4. \A p \in Plans : plans[p].consumed = 0
    BY DEF Init, AuthorityInit
  <2>5. IsFiniteSet({}) /\ Cardinality({}) = 0
    BY FS_EmptySet
  <2>6. \A p \in Plans : 0 <= MaxInvocations[p]
    BY AuthorityAssumption
  <2>7. \A p \in Plans : /\ IsFiniteSet(Places(p))
                         /\ plans[p].consumed = Cardinality(Places(p))
                         /\ plans[p].consumed <= MaxInvocations[p]
    BY <2>3, <2>4, <2>5, <2>6
  <2> QED
    BY <2>1, <2>2, <2>7 DEF QuotaInv
<1>2. IInv /\ QuotaInv /\ [Next]_vars => QuotaInv'
  <2> SUFFICES ASSUME IInv, QuotaInv, [Next]_vars PROVE QuotaInv'
    OBVIOUS
  <2>1. ConfirmationAgrees'
    BY ConfirmationStep DEF QuotaInv
  <2>2. ASSUME NEW i \in Invocations, StateOf(i)' \in {"none", "awaiting_confirmation"}
        PROVE  ~invocations'[i].queueCreated /\ confirmations'[i] # "consumed"
    <3>1. \/ Stays(i) \/ TurnedAway(i) \/ Challenged(i) \/ Closed(i) \/ Advances(i)
          \/ Admitted(i) \/ Approved(i)
      BY Moves DEF Quiet, Uses
    <3>2. Stays(i) \/ Challenged(i)
      BY <2>2, <3>1 DEF TurnedAway, Closed, Advances, Admitted, Approved
    <3> QED
      BY <2>2, <3>2 DEF Stays, Kept, Challenged, QuotaInv
  <2>3. ASSUME NEW p \in Plans
        PROVE  /\ IsFiniteSet(Places(p)')
               /\ plans'[p].consumed = Cardinality(Places(p)')
               /\ plans'[p].consumed <= MaxInvocations[p]
    <3>1. CASE Quiet
      BY <3>1, QuietPlaces DEF Quiet, QuotaInv
    <3>2. ASSUME NEW i \in Invocations, Uses(i)
          PROVE  /\ IsFiniteSet(Places(p)')
                 /\ plans'[p].consumed = Cardinality(Places(p)')
                 /\ plans'[p].consumed <= MaxInvocations[p]
      <4>1. CASE p = invocations'[i].plan
        <5>1. plans'[p].consumed = plans[p].consumed + 1 /\ QuotaLeft(p)
          BY <3>2, <4>1 DEF Uses, Consume, IInv, TypeOK, AuthorityTypeOK, PlanRecord
        <5>2. plans[p].consumed \in Nat /\ MaxInvocations[p] \in Nat
          BY AuthorityAssumption DEF IInv, TypeOK, AuthorityTypeOK, PlanRecord
        <5>3. i \notin Places(p) /\ Places(p)' = Places(p) \cup {i}
          BY <3>2, <4>1, UsesPlaces
        <5>4. IsFiniteSet(Places(p)') /\ Cardinality(Places(p)') = Cardinality(Places(p)) + 1
          BY <5>3, FS_AddElement DEF QuotaInv
        <5> QED
          BY <5>1, <5>2, <5>4 DEF QuotaInv, QuotaLeft
      <4>2. CASE p # invocations'[i].plan
        <5>1. plans'[p].consumed = plans[p].consumed
          BY <3>2, <4>2 DEF Uses, Consume, IInv, TypeOK, AuthorityTypeOK
        <5>2. Places(p)' = Places(p)
          BY <3>2, <4>2, UsesPlaces
        <5> QED
          BY <5>1, <5>2 DEF QuotaInv
      <4> QED
        BY <4>1, <4>2
    <3> QED
      BY <3>1, <3>2, Moves
  <2> QED
    BY <2>1, <2>2, <2>3 DEF QuotaInv, StateOf
<1>3. QuotaInv => QuotaExact
  BY DEF QuotaInv, QuotaExact, Places
<1> QED
  BY <1>1, <1>2, <1>3, Invariant, PTL DEF Spec

-------------------------------------------------------------------------------
(* Authority.                                                              *)

\* While a lease is being taken, what it relies on holds: the rows it locked do
\* not move, and a restart ends it.
LeaseHasAuthority ==
    \A v \in Providers : Leasing(v) =>
        LET p == invocations[leases[v].inv].plan IN
        /\ CanExecute
        /\ p \in Plans
        /\ plans[p].lifecycle = "active"
        /\ PlanUnchanged(p, invocations[leases[v].inv].version)
        /\ ProviderInForce(v)

\* Operators and restarts respect the locks of a lease.
LEMMA AuthorityMoves ==
    ASSUME IInv, [Next]_vars
    PROVE  \/ \A v \in Providers : ~Leasing(v)'
           \/ /\ settings' = settings
              /\ \A p \in Plans : PlanLocked(p) =>
                    /\ plans'[p].lifecycle = plans[p].lifecycle
                    /\ plans'[p].version = plans[p].version
              /\ \A v \in Providers : Leasing(v) => providers'[v] = providers[v]
<1> DEFINE Respected ==
              /\ settings' = settings
              /\ \A p \in Plans : PlanLocked(p) =>
                    /\ plans'[p].lifecycle = plans[p].lifecycle
                    /\ plans'[p].version = plans[p].version
              /\ \A v \in Providers : Leasing(v) => providers'[v] = providers[v]
<1>1. CASE UNCHANGED <<plans, providers, settings>>
  BY <1>1
<1>2. ASSUME NEW p \in Plans, Consume(p), UNCHANGED <<providers, settings>>
      PROVE  Respected
  <2>1. \A q \in Plans : /\ plans'[q].lifecycle = plans[q].lifecycle
                         /\ plans'[q].version = plans[q].version
    BY <1>2 DEF Consume, IInv, TypeOK, AuthorityTypeOK, PlanRecord
  <2> QED
    BY <1>2, <2>1
<1>3. ASSUME NEW i \in Invocations, NEW t \in Stamps, Call(i, t)
      PROVE  Respected
  <2>1. CASE UNCHANGED <<plans, providers, settings>>
    BY <1>1, <2>1
  <2>2. CASE Approve(i, t)
    <3>1. Uses(i)
      BY <2>2, ApproveMoves
    <3> QED
      BY <1>2, <3>1 DEF Uses
  <2>3. ASSUME NEW view \in Views, QueueProposal(i, t, view)
        PROVE  Respected
    <3>1. /\ MatchingPlan(i, t) \in Plans
          /\ Consume(MatchingPlan(i, t))
          /\ UNCHANGED <<providers, settings>>
      BY <2>3, MatchingPlanType DEF QueueProposal, Passes, Fallback, Insert
    <3> QED
      BY <1>2, <3>1
  <2>4. ASSUME NEW view \in Views,
               RejectProposal(i, t, view) \/ RecordOnly(i, t, view)
                 \/ RequireConfirmation(i, t, view)
        PROVE  UNCHANGED <<plans, providers, settings>>
    BY <2>4 DEF RejectProposal, RecordOnly, RequireConfirmation, Insert
  <2>5. ASSUME DecideTooLate(i, t) \/ RejectConfirmation(i, t) \/ CancelOpen(i)
                 \/ RequestCancel(i) \/ (\E healthy \in BOOLEAN : RefuseApproval(i, t, healthy))
        PROVE  UNCHANGED <<plans, providers, settings>>
    BY <2>5 DEF DecideTooLate, RejectConfirmation, CancelOpen, RequestCancel,
                RefuseApproval, Close, authorityVars
  <2> QED
    BY <1>3, <2>1, <2>2, <2>3, <2>4, <2>5 DEF Call
<1>4. CASE Operate
  <2>1. settings' = settings
    BY <1>4 DEF Operate, PausePlan, ActivatePlan, QuarantineProvider, RestoreProvider,
                SuspendDescriptor, ReactivateDescriptor
  <2>2. plans' = plans \/ \E p \in Plans : /\ ~PlanLocked(p)
                                           /\ \A q \in Plans \ {p} : plans'[q] = plans[q]
    BY <1>4 DEF Operate, PausePlan, ActivatePlan, QuarantineProvider, RestoreProvider,
                SuspendDescriptor, ReactivateDescriptor, IInv, TypeOK, AuthorityTypeOK
  <2>3. providers' = providers
        \/ \E v \in Providers : /\ ~Leasing(v)
                                /\ \A w \in Providers \ {v} : providers'[w] = providers[w]
    BY <1>4 DEF Operate, PausePlan, ActivatePlan, QuarantineProvider, RestoreProvider,
                SuspendDescriptor, ReactivateDescriptor, IInv, TypeOK, AuthorityTypeOK
  <2> QED
    BY <2>1, <2>2, <2>3
<1>5. CASE Restart
  BY <1>5 DEF Restart, Leasing, NoLease
<1>6. CASE (\E v \in Providers : Lease(v)) \/ ReapInvocations \/ Tick \/ UNCHANGED vars
           \/ (\E a \in Attempts, t \in Stamps : Report(a, t))
           \/ (\E t \in Stamps, skipped \in SUBSET held : ReapAttempts(t, skipped))
  <2>1. UNCHANGED <<plans, providers, settings>>
    BY <1>6 DEF Lease, LeaseBegin, LeaseCommit, LeaseAbort, Report, Start, Heartbeat, Complete,
                Fail, Finish, OnlyTheRun, ReapAttempts, ReapInvocations, Tick, vars, authorityVars
  <2> QED
    BY <1>1, <2>1
<1> QED
  BY <1>3, <1>4, <1>5, <1>6 DEF Next

\* A lease is begun, goes on or ends.
LEMMA LeaseMoves ==
    ASSUME IInv, [Next]_vars, NEW v \in Providers
    PROVE  \/ leases'[v] = leases[v] \/ leases'[v] = NoLease
           \/ \E i \in Invocations, t \in Stamps : LeaseBegin(v, i, t)
<1>1. ASSUME NEW w \in Providers, Lease(w)
      PROVE  \/ leases'[v] = leases[v] \/ leases'[v] = NoLease
             \/ \E i \in Invocations, t \in Stamps : LeaseBegin(v, i, t)
  <2>1. CASE w = v
    BY <1>1, <2>1 DEF Lease, LeaseCommit, LeaseAbort, IInv, TypeOK
  <2>2. CASE w # v
    BY <1>1, <2>2 DEF Lease, LeaseBegin, LeaseCommit, LeaseAbort, IInv, TypeOK
  <2> QED
    BY <2>1, <2>2
<1>2. CASE Restart
  BY <1>2 DEF Restart
<1>3. ASSUME NEW i \in Invocations, NEW t \in Stamps, Call(i, t)
      PROVE  leases' = leases
  BY <1>3 DEF Call, RejectProposal, RecordOnly, RequireConfirmation, QueueProposal, Insert,
              DecideTooLate, RejectConfirmation, CancelOpen, RequestCancel, RefuseApproval,
              Close, Approve
<1>4. CASE Operate \/ ReapInvocations \/ Tick \/ UNCHANGED vars
           \/ (\E a \in Attempts, t \in Stamps : Report(a, t))
           \/ (\E t \in Stamps, skipped \in SUBSET held : ReapAttempts(t, skipped))
  BY <1>4 DEF Operate, OnlyAuthority, Report, Start, Heartbeat, Complete, Fail, Finish,
              OnlyTheRun, ReapAttempts, ReapInvocations, Tick, vars
<1> QED
  BY <1>1, <1>2, <1>3, <1>4 DEF Next

\* The authority of a lease lasts until it ends.
LEMMA LeaseAuthorityStep == IInv /\ LeaseHasAuthority /\ [Next]_vars => LeaseHasAuthority'
<1> SUFFICES ASSUME IInv, LeaseHasAuthority, [Next]_vars, NEW v \in Providers, Leasing(v)'
             PROVE  /\ CanExecute'
                    /\ invocations'[leases'[v].inv].plan \in Plans
                    /\ plans'[invocations'[leases'[v].inv].plan].lifecycle = "active"
                    /\ plans'[invocations'[leases'[v].inv].plan].version
                         = invocations'[leases'[v].inv].version
                    /\ ProviderInForce(v)'
  BY DEF LeaseHasAuthority, PlanUnchanged
<1>1. CASE \E i \in Invocations, t \in Stamps : LeaseBegin(v, i, t)
  <2>1. PICK i \in Invocations, t \in Stamps : LeaseBegin(v, i, t)
    BY <1>1
  <2>2. /\ leases'[v].inv = i
        /\ UNCHANGED <<invocations, plans, providers, settings>>
    BY <2>1 DEF LeaseBegin, ledgerVars, authorityVars, IInv, TypeOK
  <2>3. /\ CanExecute /\ ProviderInForce(v)
        /\ invocations[i].plan \in Plans
        /\ plans[invocations[i].plan].lifecycle = "active"
        /\ plans[invocations[i].plan].version = invocations[i].version
    BY <2>1 DEF LeaseBegin, Leasable, Candidates, PlanInForce, PlanUnchanged,
                IInv, LedgerInv, CanaryHasPlan
  <2> QED
    BY <2>2, <2>3 DEF CanExecute, ProviderInForce
<1>2. CASE leases'[v] = leases[v]
  <2> DEFINE i == leases[v].inv
             p == invocations[i].plan
  <2>1. Leasing(v) /\ i \in Invocations /\ StateOf(i) = "queued"
    BY <1>2 DEF Leasing, IInv, LedgerInv, LeasesHold, TypeOK
  <2>2. Stays(i) \/ Advances(i)
    BY <2>1, Moves DEF Quiet, Uses, TurnedAway, Challenged, Closed, Admitted, Approved
  <2>3. invocations'[i].plan = p /\ invocations'[i].version = invocations[i].version
    BY <2>2 DEF Stays, Advances, Kept
  <2>4. /\ CanExecute /\ p \in Plans /\ plans[p].lifecycle = "active"
        /\ plans[p].version = invocations[i].version /\ ProviderInForce(v)
    BY <2>1 DEF LeaseHasAuthority, PlanUnchanged
  <2>5. PlanLocked(p)
    BY <2>1 DEF PlanLocked
  <2>6. /\ settings' = settings
        /\ plans'[p].lifecycle = plans[p].lifecycle
        /\ plans'[p].version = plans[p].version
        /\ providers'[v] = providers[v]
    BY <2>1, <2>4, <2>5, AuthorityMoves
  <2>7. leases'[v].inv = i
    BY <1>2
  <2> HIDE DEF i, p
  <2> QED
    BY <2>3, <2>4, <2>6, <2>7 DEF CanExecute, ProviderInForce
<1>3. CASE leases'[v] = NoLease
  BY <1>3 DEF Leasing, NoLease
<1> QED
  BY <1>1, <1>2, <1>3, LeaseMoves

\* An attempt row appears by a commit of a lease only.
LEMMA AttemptAppears ==
    ASSUME IInv, [Next]_vars, NEW a \in Attempts,
           attempts[a].state = "none", attempts'[a].state # "none"
    PROVE  \E v \in Providers, arrives \in BOOLEAN : LeaseCommit(v, a, arrives)
<1>1. ASSUME NEW b \in Attempts, NEW t \in Stamps, Report(b, t)
      PROVE  attempts'[a] = attempts[a]
  <2>1. b # a
    BY <1>1 DEF Report, Start, Heartbeat, Complete, Fail, ProofAccepted
  <2> QED
    BY <1>1, <2>1 DEF Report, Start, Heartbeat, Complete, Fail, Finish, SetAttempt, IInv, TypeOK
<1>2. ASSUME NEW t \in Stamps, NEW skipped \in SUBSET held, ReapAttempts(t, skipped)
      PROVE  attempts'[a] = attempts[a]
  BY <1>2 DEF ReapAttempts, Live, LiveAttemptStates
<1>3. ASSUME NEW i \in Invocations, NEW t \in Stamps, Call(i, t)
      PROVE  attempts' = attempts
  BY <1>3 DEF Call, RejectProposal, RecordOnly, RequireConfirmation, QueueProposal, Insert,
              DecideTooLate, RejectConfirmation, CancelOpen, RequestCancel, RefuseApproval,
              Close, Approve
<1>4. ASSUME ReapInvocations \/ Operate \/ Restart \/ Tick \/ UNCHANGED vars
      PROVE  attempts' = attempts
  BY <1>4 DEF ReapInvocations, Operate, OnlyAuthority, Restart, Tick, ledgerVars, vars
<1>5. ASSUME NEW v \in Providers, Lease(v)
      PROVE  attempts'[a] = attempts[a] \/ \E arrives \in BOOLEAN : LeaseCommit(v, a, arrives)
  BY <1>5 DEF Lease, LeaseBegin, LeaseCommit, LeaseAbort, ledgerVars, IInv, TypeOK
<1> QED
  BY <1>1, <1>2, <1>3, <1>4, <1>5 DEF Next

\* Nothing is handed out without authority: when the attempt appears the plan is
\* active at the version recorded, the provider active and execution on, although
\* the lease checked all this before, and operators acted meanwhile.
THEOREM LeaseAlwaysHasAuthority == Spec => LeaseNeedsAuthority
<1>1. Init => LeaseHasAuthority
  BY DEF Init, LeaseHasAuthority, Leasing, NoLease
<1> DEFINE Authorised == \A a \in Attempts :
              attempts[a].state = "none" /\ attempts'[a].state # "none" =>
              LET i == attempts'[a].inv IN
              /\ CanExecute
              /\ plans[invocations[i].plan].lifecycle = "active"
              /\ PlanUnchanged(invocations[i].plan, invocations[i].version)
              /\ ProviderInForce(attempts'[a].provider)
<1>2. IInv /\ LeaseHasAuthority /\ [Next]_vars => Authorised
  <2> SUFFICES ASSUME IInv, LeaseHasAuthority, [Next]_vars, NEW a \in Attempts,
                      attempts[a].state = "none", attempts'[a].state # "none"
               PROVE  LET i == attempts'[a].inv IN
                      /\ CanExecute
                      /\ plans[invocations[i].plan].lifecycle = "active"
                      /\ PlanUnchanged(invocations[i].plan, invocations[i].version)
                      /\ ProviderInForce(attempts'[a].provider)
    OBVIOUS
  <2>1. PICK v \in Providers, arrives \in BOOLEAN : LeaseCommit(v, a, arrives)
    BY AttemptAppears
  <2>2. Leasing(v) /\ attempts'[a].inv = leases[v].inv /\ attempts'[a].provider = v
    BY <2>1 DEF LeaseCommit, IInv, TypeOK
  <2> QED
    BY <2>2 DEF LeaseHasAuthority
<1>3. IInv /\ LeaseHasAuthority /\ [Next]_vars => [Authorised]_vars
  BY <1>2
<1> QED
  BY <1>1, <1>3, LeaseAuthorityStep, Invariant, PTL DEF Spec, LeaseNeedsAuthority

-------------------------------------------------------------------------------
(* The outcome.                                                            *)

\* Only a report that is proved by a live attempt makes a success or a failure.
LEMMA OutcomeMoves ==
    ASSUME IInv, [Next]_vars, NEW i \in Invocations,
           StateOf(i)' # StateOf(i), StateOf(i)' \in {"succeeded", "failed"}
    PROVE  \E a \in AttemptsOf(i) : Live(a) /\ attempts'[a].state = StateOf(i)'
<1>1. ASSUME NEW a \in Attempts, NEW t \in Stamps, Report(a, t)
      PROVE  a \in AttemptsOf(i) /\ Live(a) /\ attempts'[a].state = StateOf(i)'
  <2>1. Live(a)
    BY <1>1 DEF Report, Start, Heartbeat, Complete, Fail, ProofAccepted, Live, LiveAttemptStates
  <2> PICK j \in Invocations : j = attempts[a].inv
    BY <2>1 DEF IInv, LedgerInv, LiveMatches
  <2>2. \/ invocations' = invocations
        \/ \E s \in {"running", "cancel_requested"} : SetState(j, s)
        \/ \E s \in {"succeeded", "failed", "cancelled", "unknown_completion"} : Finish(a, s, s)
    BY <1>1 DEF Report, Start, Heartbeat, Complete, Fail
  <2>3. \A s : SetState(j, s) => StateOf(j)' = s /\ \A k \in Invocations \ {j} :
                                                      invocations'[k] = invocations[k]
    BY <2>1, SetStateKeeps DEF IInv
  <2>4. \A s : Finish(a, s, s) => SetState(j, s) /\ attempts'[a].state = s
    BY DEF Finish, SetAttempt, IInv, TypeOK, AttemptRecord
  <2>5. j = i
    <3>1. invocations' # invocations
      BY DEF StateOf
    <3>2. \E s : SetState(j, s)
      BY <2>2, <2>4, <3>1
    <3> QED
      BY <2>3, <3>2 DEF StateOf
  <2>6. \E s : Finish(a, s, s)
    BY <2>2, <2>3, <2>5 DEF StateOf
  <2>7. attempts'[a].state = StateOf(i)'
    BY <2>3, <2>4, <2>5, <2>6
  <2> QED
    BY <2>1, <2>5, <2>7 DEF AttemptsOf
<1>2. ASSUME NEW k \in Invocations, NEW t \in Stamps, Call(k, t) PROVE FALSE
  <2>1. Quiet \/ Uses(k)
    BY <1>2, CreateMoves, DecideMoves, ApproveMoves DEF Call
  <2>2. Advances(i)
    BY <2>1 DEF Quiet, Uses, Stays, TurnedAway, Challenged, Closed, Admitted, Approved
  <2>3. ~Stays(i) /\ StateOf(i) \notin {"none", "awaiting_confirmation"}
    BY <2>2 DEF Advances, Stays
  <2>4. CASE CancelOpen(k) \/ RequestCancel(k)
    <3>1. \E s \in {"cancelled", "cancel_requested"} : SetState(k, s)
      BY <2>4 DEF CancelOpen, RequestCancel, Close
    <3> QED
      BY <3>1, SetStateKeeps DEF IInv, StateOf
  <2>5. CASE ~(CancelOpen(k) \/ RequestCancel(k))
    <3>1. /\ StateOf(k) \in {"none", "awaiting_confirmation"}
          /\ \A j \in Invocations \ {k} : invocations'[j] = invocations[j]
      BY <1>2, <2>5 DEF Call, RejectProposal, RecordOnly, RequireConfirmation, QueueProposal,
              Passes, Creating, Insert, DecideTooLate, RejectConfirmation, RefuseApproval,
              Approving, Deciding, Close, SetState, Approve, IInv, TypeOK
    <3> QED
      BY <2>3, <3>1 DEF StateOf
  <2> QED
    BY <2>4, <2>5
<1>3. ASSUME NEW t \in Stamps, NEW skipped \in SUBSET held, ReapAttempts(t, skipped)
      PROVE  FALSE
  <2>1. invocations'[i] = invocations[i]
        \/ invocations'[i] = [invocations[i] EXCEPT !.state = AfterExpiry(i, t)]
    BY <1>3 DEF ReapAttempts
  <2>2. StateOf(i)' = AfterExpiry(i, t)
    BY <2>1 DEF IInv, TypeOK, InvocationRecord, StateOf
  <2> QED
    BY <2>2, ExpiryMoves
<1>4. CASE ReapInvocations
  <2>1. invocations'[i] = invocations[i]
        \/ invocations'[i] = [invocations[i] EXCEPT !.state = AfterDeadline(i)]
    BY <1>4 DEF ReapInvocations
  <2>2. StateOf(i)' = AfterDeadline(i)
    BY <2>1 DEF IInv, TypeOK, InvocationRecord, StateOf
  <2> QED
    BY <2>2 DEF AfterDeadline
<1>5. ASSUME NEW v \in Providers, Lease(v) PROVE FALSE
  <2>1. invocations' = invocations \/ SetState(leases[v].inv, "leased")
    BY <1>5 DEF Lease, LeaseBegin, LeaseCommit, LeaseAbort, ledgerVars
  <2>2. SetState(leases[v].inv, "leased") /\ leases[v].inv \in Invocations
    <3>1. Leasing(v)
      BY <1>5, <2>1 DEF Lease, LeaseBegin, LeaseCommit, LeaseAbort, ledgerVars, StateOf
    <3> QED
      BY <2>1, <3>1 DEF Leasing, StateOf, IInv, TypeOK
  <2> QED
    BY <2>2, SetStateKeeps DEF IInv, StateOf
<1>6. CASE Operate \/ Restart \/ Tick \/ UNCHANGED vars
  <2>1. invocations' = invocations
    BY <1>6 DEF Operate, OnlyAuthority, Restart, Tick, ledgerVars, vars
  <2> QED
    BY <2>1 DEF StateOf
<1> QED
  BY <1>1, <1>2, <1>3, <1>4, <1>5, <1>6 DEF Next

\* A success or a failure is the report of the attempt with the highest fence,
\* live until then: no late, repeated or stale report decides an outcome.
THEOREM NewestAttemptDecides == Spec => OutcomeFromNewestAttempt
<1> DEFINE FromNewest == \A i \in Invocations :
              StateOf(i)' # StateOf(i) /\ StateOf(i)' \in {"succeeded", "failed"} =>
                 \E a \in AttemptsOf(i) :
                    /\ Live(a)
                    /\ attempts'[a].state = StateOf(i)'
                    /\ \A b \in AttemptsOf(i) : attempts[b].fence <= attempts[a].fence
<1>1. IInv /\ [Next]_vars => FromNewest
  <2> SUFFICES ASSUME IInv, [Next]_vars, NEW i \in Invocations,
                      StateOf(i)' # StateOf(i), StateOf(i)' \in {"succeeded", "failed"}
               PROVE  \E a \in AttemptsOf(i) :
                         /\ Live(a)
                         /\ attempts'[a].state = StateOf(i)'
                         /\ \A b \in AttemptsOf(i) : attempts[b].fence <= attempts[a].fence
    OBVIOUS
  <2>1. PICK a \in AttemptsOf(i) : Live(a) /\ attempts'[a].state = StateOf(i)'
    BY OutcomeMoves
  <2>2. \A b \in AttemptsOf(i) : attempts[b].fence \in Nat
    BY DEF AttemptsOf, IInv, TypeOK, AttemptRecord
  <2>3. \A b \in AttemptsOf(i) : attempts[b].fence <= attempts[a].fence
    BY <2>1, <2>2 DEF AttemptsOf, IInv, LedgerInv, OneLive
  <2> QED
    BY <2>1, <2>3
<1>2. IInv /\ [Next]_vars => [FromNewest]_vars
  BY <1>1
<1> QED
  BY <1>2, Invariant, PTL DEF Spec, OutcomeFromNewestAttempt

-------------------------------------------------------------------------------
(* The rate limit.                                                         *)

Counted(j) == /\ invocations[j].canary
              /\ StateOf(j) \notin {"none", "rejected", "recorded_only"}

InWindow(tool, c) == {j \in Invocations :
                        /\ ToolOf(j) = tool /\ Counted(j)
                        /\ invocations[j].created \in c .. c + RateWindow}

\* What counts towards a limit is finite, and no window, whether or not it
\* begins with an invocation, holds too much.
RateInv ==
    /\ IsFiniteSet({j \in Invocations : Counted(j)})
    /\ \A tool \in Tools, c \in Nat : Cardinality(InWindow(tool, c)) <= RateRequests

\* Only what was inserted within the limit begins to count.
LEMMA CountedMoves ==
    ASSUME IInv, [Next]_vars
    PROVE  \/ \E i \in Invocations : StateOf(i) = "none" /\ Within(i)
           \/ \A j \in Invocations :
                 Counted(j)' => Counted(j) /\ invocations'[j].created = invocations[j].created
<1> SUFFICES ASSUME \A i \in Invocations : ~(StateOf(i) = "none" /\ Within(i)),
                    NEW j \in Invocations, Counted(j)'
             PROVE  Counted(j) /\ invocations'[j].created = invocations[j].created
  OBVIOUS
<1>1. /\ ~Challenged(j) /\ ~Admitted(j)
  BY DEF Challenged, Admitted
<1>2. Stays(j) \/ TurnedAway(j) \/ Closed(j) \/ Advances(j) \/ Approved(j)
  <2>1. CASE Quiet
    BY <1>1, <2>1 DEF Quiet
  <2>2. ASSUME NEW i \in Invocations, Uses(i) PROVE Stays(j) \/ Approved(j)
    BY <1>1, <2>2 DEF Uses
  <2> QED
    BY <2>1, <2>2, Moves
<1> QED
  BY <1>2 DEF Counted, Stays, Kept, TurnedAway, Closed, Advances, Approved, TerminalStates

\* An insertion within the limit keeps every window within it.
LEMMA InsertedWithin ==
    ASSUME IInv, RateInv, NEW i \in Invocations, StateOf(i) = "none", Within(i)
    PROVE  RateInv'
<1> DEFINE C == {j \in Invocations : Counted(j)}
           t == invocations'[i].created
           Recent == {j \in Invocations \ {i} :
                        /\ ToolOf(j) = ToolOf(i)
                        /\ invocations[j].canary
                        /\ StateOf(j) \notin {"none", "rejected", "recorded_only"}
                        /\ invocations[j].created + RateWindow >= t}
<1>1. /\ \A j \in Invocations \ {i} : /\ Counted(j)' <=> Counted(j)
                                      /\ invocations'[j].created = invocations[j].created
      /\ t \in Nat
      /\ ~(Cardinality(Recent) >= RateRequests)
      /\ RateRequests \in Nat /\ RateWindow \in Nat
      /\ \A j \in Invocations : invocations[j].created \in Nat
  <2>1. /\ \A j \in Invocations \ {i} : Stays(j)
        /\ t \in Nat
        /\ ~(Cardinality(Recent) >= RateRequests)
    BY DEF Within, RateExceeded
  <2>2. /\ RateRequests \in Nat /\ RateWindow \in Nat
        /\ \A j \in Invocations : invocations[j].created \in Nat
    BY ExecutionAssumption DEF IInv, TypeOK, InvocationRecord
  <2> QED
    BY <2>1, <2>2 DEF Stays, Kept, Counted
<1>2. IsFiniteSet(C) /\ Recent \subseteq C
  BY DEF RateInv, Counted
<1>3. IsFiniteSet(Recent) /\ Cardinality(Recent) \in Nat
  BY <1>2, FS_Subset, FS_CardinalityType
<1>4. {j \in Invocations : Counted(j)'} \subseteq C \cup {i}
  BY <1>1
<1>5. IsFiniteSet({j \in Invocations : Counted(j)'})
  BY <1>2, <1>4, FS_Subset, FS_AddElement
<1>6. ASSUME NEW tool \in Tools, NEW c \in Nat
      PROVE  Cardinality(InWindow(tool, c)') <= RateRequests
  <2> DEFINE W == InWindow(tool, c)
             V == InWindow(tool, c)'
  <2>1. \A j \in Invocations \ {i} : j \in V <=> j \in W
    BY <1>1 DEF InWindow, ToolOf
  <2>2. W \subseteq C /\ V \subseteq Invocations /\ i \notin W
    BY DEF InWindow, Counted
  <2>3. Cardinality(W) <= RateRequests
    BY DEF RateInv
  <2>4. IsFiniteSet(W) /\ Cardinality(W) \in Nat
    BY <1>2, <2>2, FS_Subset, FS_CardinalityType
  <2>5. CASE i \notin V
    <3>1. V = W
      BY <2>1, <2>2, <2>5 DEF InWindow
    <3> QED
      BY <2>3, <3>1
  <2>6. CASE i \in V
    <3>1. ToolOf(i) = tool /\ t \in c .. c + RateWindow
      BY <2>6 DEF InWindow, ToolOf
    <3>2. W \subseteq Recent
      BY <1>1, <2>2, <3>1 DEF InWindow, Counted
    <3>3. V = W \cup {i}
      <4>1. W \subseteq Invocations
        BY DEF InWindow
      <4> HIDE DEF V, W
      <4> QED
        BY <2>1, <2>2, <2>6, <4>1
    <3>4. Cardinality(W) <= Cardinality(Recent)
      BY <1>3, <3>2, FS_Subset
    <3>5. Cardinality(W \cup {i}) = Cardinality(W) + 1
      BY <2>2, <2>4, FS_AddElement
    <3>6. Cardinality(V) <= RateRequests
      <4> HIDE DEF V, W, Recent
      <4> QED
        BY <1>1, <1>3, <2>4, <3>3, <3>4, <3>5
    <3> QED
      BY <3>6
  <2> QED
    BY <2>5, <2>6
<1> QED
  BY <1>5, <1>6 DEF RateInv

\* A step that inserts nothing leaves no window with more than it had.
LEMMA NothingInserted ==
    ASSUME IInv, RateInv,
           \A j \in Invocations :
              Counted(j)' => Counted(j) /\ invocations'[j].created = invocations[j].created
    PROVE  RateInv'
<1>1. IsFiniteSet({j \in Invocations : Counted(j)})
  BY DEF RateInv
<1>2. {j \in Invocations : Counted(j)'} \subseteq {j \in Invocations : Counted(j)}
  OBVIOUS
<1>3. IsFiniteSet({j \in Invocations : Counted(j)'})
  BY <1>1, <1>2, FS_Subset
<1>4. ASSUME NEW tool \in Tools, NEW c \in Nat
      PROVE  Cardinality(InWindow(tool, c)') <= RateRequests
  <2> DEFINE n == Cardinality(InWindow(tool, c))
             m == Cardinality(InWindow(tool, c)')
  <2>1. InWindow(tool, c)' \subseteq InWindow(tool, c)
    BY DEF InWindow, ToolOf
  <2>2. InWindow(tool, c) \subseteq {j \in Invocations : Counted(j)}
    BY DEF InWindow
  <2>3. IsFiniteSet(InWindow(tool, c)) /\ n <= RateRequests
    BY <1>1, <2>2, FS_Subset DEF RateInv
  <2>4. m <= n
    BY <2>1, <2>3, FS_Subset
  <2>5. IsFiniteSet(InWindow(tool, c)')
    BY <2>1, <2>3, FS_Subset
  <2>6. m \in Nat /\ n \in Nat
    BY <2>3, <2>5, FS_CardinalityType
  <2>7. RateRequests \in Nat
    BY ExecutionAssumption
  <2>8. m <= RateRequests
    <3> HIDE DEF m, n
    <3> QED
      BY <2>3, <2>4, <2>6, <2>7
  <2> QED
    BY <2>8
<1> QED
  BY <1>3, <1>4 DEF RateInv

\* No window holds more admitted invocations of a tool than its rate limit,
\* though their stamps reach the ledger out of order.
THEOREM RateAlwaysWithinLimit == Spec => []RateWithinLimit
<1>1. Init => RateInv
  <2> SUFFICES ASSUME Init PROVE RateInv
    OBVIOUS
  <2>1. \A j \in Invocations : ~Counted(j)
    BY DEF Init, NoInvocation, Counted
  <2>2. {j \in Invocations : Counted(j)} = {} /\ \A tool, c : InWindow(tool, c) = {}
    BY <2>1 DEF InWindow
  <2>3. IsFiniteSet({}) /\ Cardinality({}) = 0 /\ RateRequests \in Nat
    BY FS_EmptySet, ExecutionAssumption
  <2> QED
    BY <2>2, <2>3 DEF RateInv
<1>2. IInv /\ RateInv /\ [Next]_vars => RateInv'
  BY CountedMoves, InsertedWithin, NothingInserted
<1>3. IInv /\ RateInv => RateWithinLimit
  <2> SUFFICES ASSUME IInv, RateInv, NEW tool \in Tools, NEW i \in Invocations
               PROVE  Cardinality(InWindow(tool, invocations[i].created)) <= RateRequests
    BY DEF RateWithinLimit, InWindow, Counted
  <2>1. invocations[i].created \in Nat
    BY DEF IInv, TypeOK, InvocationRecord
  <2> QED
    BY <2>1 DEF RateInv
<1> QED
  BY <1>1, <1>2, <1>3, Invariant, PTL DEF Spec

-------------------------------------------------------------------------------
(* The concurrency limits.                                                 *)

\* The lease that is open has found room for one attempt more, and it is the
\* only one: two leases would hold the one active plan.
ConcurrencyInv ==
    /\ OneActivePlan
    /\ LeaseHasAuthority
    /\ \A v, w \in Providers : Leasing(v) /\ Leasing(w) => v = w
    /\ ConcurrencyWithinLimits
    /\ \A v \in Providers : Leasing(v) =>
          /\ Cardinality(LiveOf(ToolOf(leases[v].inv))) < ToolLimit[ToolOf(leases[v].inv)]
          /\ Cardinality(LiveOn(v)) < ProviderLimit[v]

\* A plan becomes active only while no other is.
LEMMA PlanMoves ==
    ASSUME IInv, [Next]_vars, NEW p \in Plans,
           plans'[p].lifecycle = "active", plans[p].lifecycle # "active",
           NEW q \in Plans \ {p}
    PROVE  plans'[q].lifecycle # "active"
<1>1. ASSUME NEW r \in Plans, Consume(r) PROVE FALSE
  BY <1>1 DEF Consume, IInv, TypeOK, AuthorityTypeOK, PlanRecord
<1>2. ASSUME NEW i \in Invocations, NEW t \in Stamps, Call(i, t) PROVE FALSE
  <2>1. CASE plans' = plans
    BY <2>1
  <2>2. CASE Approve(i, t)
    BY <1>1, <2>2, ApproveMoves DEF Uses
  <2>3. ASSUME NEW view \in Views, QueueProposal(i, t, view) PROVE FALSE
    BY <1>1, <2>3, MatchingPlanType DEF QueueProposal, Passes, Fallback
  <2>4. ASSUME NEW view \in Views,
               RejectProposal(i, t, view) \/ RecordOnly(i, t, view)
                 \/ RequireConfirmation(i, t, view)
        PROVE  plans' = plans
    BY <2>4 DEF RejectProposal, RecordOnly, RequireConfirmation
  <2>5. ASSUME DecideTooLate(i, t) \/ RejectConfirmation(i, t) \/ CancelOpen(i)
                 \/ RequestCancel(i) \/ (\E healthy \in BOOLEAN : RefuseApproval(i, t, healthy))
        PROVE  plans' = plans
    BY <2>5 DEF DecideTooLate, RejectConfirmation, CancelOpen, RequestCancel,
                RefuseApproval, Close, authorityVars
  <2> QED
    BY <1>2, <2>1, <2>2, <2>3, <2>4, <2>5 DEF Call
<1>3. CASE Operate
  <2>1. CASE \E r \in Plans, t \in Stamps : ActivatePlan(r, t)
    <3>1. PICK r \in Plans, t \in Stamps : ActivatePlan(r, t)
      BY <2>1
    <3>2. \A x \in Plans \ {r} : plans'[x] = plans[x] /\ plans[x].lifecycle # "active"
      BY <3>1 DEF ActivatePlan, IInv, TypeOK, AuthorityTypeOK
    <3> QED
      BY <3>2
  <2>2. ASSUME NEW r \in Plans, PausePlan(r) PROVE FALSE
    BY <2>2 DEF PausePlan, Move, IInv, TypeOK, AuthorityTypeOK, PlanRecord
  <2>3. CASE plans' = plans
    BY <2>3
  <2> QED
    BY <1>3, <2>1, <2>2, <2>3 DEF Operate, QuarantineProvider, RestoreProvider,
                                  SuspendDescriptor, ReactivateDescriptor
<1>4. CASE (\E v \in Providers : Lease(v)) \/ ReapInvocations \/ Restart \/ Tick \/ UNCHANGED vars
           \/ (\E a \in Attempts, t \in Stamps : Report(a, t))
           \/ (\E t \in Stamps, skipped \in SUBSET held : ReapAttempts(t, skipped))
  BY <1>4 DEF Lease, LeaseBegin, LeaseCommit, LeaseAbort, Report, Start, Heartbeat, Complete,
              Fail, Finish, OnlyTheRun, ReapAttempts, ReapInvocations, Restart, Reconfigure,
              Tick, vars, authorityVars
<1> QED
  BY <1>2, <1>3, <1>4 DEF Next

\* An attempt begins to live by the commit of a lease, and keeps what it is for.
LEMMA LiveMoves ==
    ASSUME IInv, [Next]_vars, NEW a \in Attempts, Live(a)'
    PROVE  \/ /\ Live(a)
              /\ attempts'[a].inv = attempts[a].inv
              /\ attempts'[a].provider = attempts[a].provider
           \/ \E v \in Providers, arrives \in BOOLEAN : LeaseCommit(v, a, arrives)
<1>1. CASE attempts'[a] = attempts[a]
  BY <1>1 DEF Live
<1>2. ASSUME NEW b \in Attempts, NEW t \in Stamps, Report(b, t), attempts'[a] # attempts[a]
      PROVE  /\ Live(a)
             /\ attempts'[a].inv = attempts[a].inv
             /\ attempts'[a].provider = attempts[a].provider
  <2>1. Live(b)
    BY <1>2 DEF Report, Start, Heartbeat, Complete, Fail, ProofAccepted, Live, LiveAttemptStates
  <2>2. (\E s : SetAttempt(b, s)) \/ \E x : attempts' = [attempts EXCEPT ![b].expires = x]
    BY <1>2 DEF Report, Start, Heartbeat, Complete, Fail, Finish
  <2> QED
    BY <1>2, <2>1, <2>2 DEF SetAttempt, IInv, TypeOK, AttemptRecord
<1>3. ASSUME NEW t \in Stamps, NEW skipped \in SUBSET held, ReapAttempts(t, skipped)
      PROVE  attempts'[a] = attempts[a]
  <2>1. \/ attempts'[a] = attempts[a]
        \/ attempts'[a] = [attempts[a] EXCEPT !.state = "lease_expired"]
    BY <1>3 DEF ReapAttempts
  <2> QED
    BY <2>1 DEF Live, LiveAttemptStates, IInv, TypeOK, AttemptRecord
<1>4. ASSUME NEW i \in Invocations, NEW t \in Stamps, Call(i, t)
      PROVE  attempts' = attempts
  BY <1>4 DEF Call, RejectProposal, RecordOnly, RequireConfirmation, QueueProposal, Insert,
              DecideTooLate, RejectConfirmation, CancelOpen, RequestCancel, RefuseApproval,
              Close, Approve
<1>5. ASSUME ReapInvocations \/ Operate \/ Restart \/ Tick \/ UNCHANGED vars
      PROVE  attempts' = attempts
  BY <1>5 DEF ReapInvocations, Operate, OnlyAuthority, Restart, Tick, ledgerVars, vars
<1>6. ASSUME NEW v \in Providers, Lease(v)
      PROVE  attempts'[a] = attempts[a] \/ \E arrives \in BOOLEAN : LeaseCommit(v, a, arrives)
  BY <1>6 DEF Lease, LeaseBegin, LeaseCommit, LeaseAbort, ledgerVars, IInv, TypeOK
<1> QED
  BY <1>1, <1>2, <1>3, <1>4, <1>5, <1>6 DEF Next

\* Fewer stay within a limit, and room for one is room for one.
LEMMA RoomKept ==
    ASSUME NEW S \in SUBSET Attempts, NEW T \in SUBSET S, NEW n \in Nat
    PROVE  /\ Cardinality(S) <= n => Cardinality(T) <= n
           /\ Cardinality(S) < n => Cardinality(T) < n
<1>1. IsFiniteSet(S) /\ IsFiniteSet(T) /\ Cardinality(T) <= Cardinality(S)
  BY ExecutionAssumption, FS_Subset
<1>2. Cardinality(S) \in Nat /\ Cardinality(T) \in Nat
  BY <1>1, FS_CardinalityType
<1> QED
  BY <1>1, <1>2

LEMMA RoomUsed ==
    ASSUME NEW S \in SUBSET Attempts, NEW a \in Attempts, NEW T \in SUBSET (S \cup {a}),
           NEW n \in Nat, Cardinality(S) < n
    PROVE  Cardinality(T) <= n
<1>1. IsFiniteSet(S)
  BY ExecutionAssumption, FS_Subset
<1>2. /\ IsFiniteSet(S \cup {a})
      /\ Cardinality(S \cup {a}) = IF a \in S THEN Cardinality(S) ELSE Cardinality(S) + 1
  BY <1>1, FS_AddElement
<1>3. Cardinality(S) \in Nat
  BY <1>1, FS_CardinalityType
<1>4. Cardinality(S \cup {a}) <= n
  BY <1>2, <1>3
<1> QED
  BY <1>4, RoomKept

\* Without a commit of a lease, fewer attempts are live.
LEMMA LiveShrinks ==
    ASSUME IInv, [Next]_vars,
           ~ \E v \in Providers, a \in Attempts, arrives \in BOOLEAN : LeaseCommit(v, a, arrives)
    PROVE  /\ \A tool \in Tools : LiveOf(tool)' \subseteq LiveOf(tool)
           /\ \A v \in Providers : LiveOn(v)' \subseteq LiveOn(v)
<1>1. \A a \in Attempts : Live(a)' => /\ Live(a)
                                     /\ attempts'[a].inv = attempts[a].inv
                                     /\ attempts'[a].provider = attempts[a].provider
  BY LiveMoves
<1> QED
  BY <1>1 DEF LiveOf, LiveOn, ToolOf

\* A commit of a lease adds its attempt, to its tool and its provider only.
LEMMA LiveGrows ==
    ASSUME IInv, NEW v \in Providers, NEW a \in Attempts, NEW arrives \in BOOLEAN,
           LeaseCommit(v, a, arrives)
    PROVE  /\ \A tool \in Tools : LiveOf(tool)' \subseteq
                 IF ToolOf(leases[v].inv) = tool THEN LiveOf(tool) \cup {a} ELSE LiveOf(tool)
           /\ \A w \in Providers : LiveOn(w)' \subseteq
                 IF v = w THEN LiveOn(w) \cup {a} ELSE LiveOn(w)
<1>1. /\ attempts'[a].inv = leases[v].inv /\ attempts'[a].provider = v
      /\ \A b \in Attempts \ {a} : attempts'[b] = attempts[b]
  BY DEF LeaseCommit, IInv, TypeOK
<1> QED
  BY <1>1 DEF LiveOf, LiveOn, ToolOf, Live

\* Two leases would need two active plans, or the lock of one plan twice.
LEMMA OneLease ==
    ASSUME IInv, ConcurrencyInv, [Next]_vars,
           NEW v \in Providers, NEW w \in Providers, Leasing(v)', Leasing(w)'
    PROVE  v = w
<1>1. ASSUME NEW x \in Providers, NEW y \in Providers, x # y, Leasing(y)',
             NEW i \in Invocations, NEW t \in Stamps, LeaseBegin(x, i, t)
      PROVE  FALSE
  <2>1. Leasing(y)
    BY <1>1 DEF LeaseBegin, IInv, TypeOK, Leasing
  <2>2. /\ invocations[i].plan \in Plans /\ plans[invocations[i].plan].lifecycle = "active"
        /\ ~PlanLocked(invocations[i].plan)
    BY <1>1 DEF LeaseBegin, Leasable, PlanInForce, IInv, LedgerInv, CanaryHasPlan
  <2>3. /\ invocations[leases[y].inv].plan \in Plans
        /\ plans[invocations[leases[y].inv].plan].lifecycle = "active"
    BY <2>1 DEF ConcurrencyInv, LeaseHasAuthority
  <2>4. invocations[leases[y].inv].plan = invocations[i].plan
    BY <2>2, <2>3 DEF ConcurrencyInv, OneActivePlan
  <2> QED
    BY <2>1, <2>2, <2>4 DEF PlanLocked
<1>2. \A x \in Providers : Leasing(x)' =>
         Leasing(x) \/ \E i \in Invocations, t \in Stamps : LeaseBegin(x, i, t)
  BY LeaseMoves DEF Leasing, NoLease
<1>3. CASE Leasing(v) /\ Leasing(w)
  BY <1>3 DEF ConcurrencyInv
<1> QED
  BY <1>1, <1>2, <1>3

\* What is live stays within the limits, and an open lease keeps its room.
LEMMA LimitsStep ==
    ASSUME IInv, ConcurrencyInv, [Next]_vars
    PROVE  /\ ConcurrencyWithinLimits'
           /\ \A v \in Providers : Leasing(v)' =>
                /\ leases'[v].inv \in Invocations
                /\ \A i \in Invocations : leases'[v].inv = i =>
                     Cardinality(LiveOf(ToolOf(i))') < ToolLimit[ToolOf(i)]
                /\ Cardinality(LiveOn(v)') < ProviderLimit[v]
<1>1. /\ \A tool \in Tools : LiveOf(tool) \in SUBSET Attempts /\ LiveOf(tool)' \in SUBSET Attempts
      /\ \A v \in Providers : LiveOn(v) \in SUBSET Attempts /\ LiveOn(v)' \in SUBSET Attempts
  BY DEF LiveOf, LiveOn
<1>2. /\ \A tool \in Tools : ToolLimit[tool] \in Nat
      /\ \A v \in Providers : ProviderLimit[v] \in Nat
      /\ \A i \in Invocations : ToolOf(i) \in Tools
  BY ExecutionAssumption, AuthorityAssumption DEF ToolOf
<1>3. /\ \A tool \in Tools : Cardinality(LiveOf(tool)) <= ToolLimit[tool]
      /\ \A v \in Providers : Cardinality(LiveOn(v)) <= ProviderLimit[v]
      /\ \A v \in Providers : Leasing(v) =>
            /\ leases[v].inv \in Invocations
            /\ Cardinality(LiveOf(ToolOf(leases[v].inv))) < ToolLimit[ToolOf(leases[v].inv)]
            /\ Cardinality(LiveOn(v)) < ProviderLimit[v]
  BY DEF ConcurrencyInv, ConcurrencyWithinLimits, IInv, TypeOK, Leasing
<1>4. ASSUME NEW v \in Providers, NEW a \in Attempts, NEW arrives \in BOOLEAN,
             LeaseCommit(v, a, arrives)
      PROVE  /\ ConcurrencyWithinLimits'
             /\ \A w \in Providers : ~Leasing(w)'
  <2>1. Leasing(v)
    BY <1>4 DEF LeaseCommit
  <2>2. ASSUME NEW tool \in Tools PROVE Cardinality(LiveOf(tool)') <= ToolLimit[tool]
    <3>1. CASE ToolOf(leases[v].inv) = tool
      <4>1. LiveOf(tool)' \subseteq LiveOf(tool) \cup {a}
        BY <1>4, <3>1, LiveGrows
      <4> QED
        BY <1>1, <1>2, <1>3, <2>1, <3>1, <4>1, RoomUsed
    <3>2. CASE ToolOf(leases[v].inv) # tool
      <4>1. LiveOf(tool)' \subseteq LiveOf(tool)
        BY <1>4, <3>2, LiveGrows
      <4> QED
        BY <1>1, <1>2, <1>3, <4>1, RoomKept
    <3> QED
      BY <3>1, <3>2
  <2>3. ASSUME NEW w \in Providers PROVE Cardinality(LiveOn(w)') <= ProviderLimit[w]
    <3>1. CASE v = w
      <4>1. LiveOn(w)' \subseteq LiveOn(w) \cup {a}
        BY <1>4, <3>1, LiveGrows
      <4> QED
        BY <1>1, <1>2, <1>3, <2>1, <3>1, <4>1, RoomUsed
    <3>2. CASE v # w
      <4>1. LiveOn(w)' \subseteq LiveOn(w)
        BY <1>4, <3>2, LiveGrows
      <4> QED
        BY <1>1, <1>2, <1>3, <4>1, RoomKept
    <3> QED
      BY <3>1, <3>2
  <2>4. ASSUME NEW w \in Providers, Leasing(w)' PROVE FALSE
    <3>1. Leasing(w) /\ w # v
      BY <1>4, <2>4 DEF LeaseCommit, Leasing, NoLease, IInv, TypeOK
    <3> QED
      BY <2>1, <3>1 DEF ConcurrencyInv
  <2> QED
    BY <2>2, <2>3, <2>4 DEF ConcurrencyWithinLimits
<1>5. CASE ~ \E v \in Providers, a \in Attempts, arrives \in BOOLEAN : LeaseCommit(v, a, arrives)
  <2>1. /\ \A tool \in Tools : LiveOf(tool)' \subseteq LiveOf(tool)
        /\ \A v \in Providers : LiveOn(v)' \subseteq LiveOn(v)
    BY <1>5, LiveShrinks
  <2>2. ASSUME NEW tool \in Tools PROVE Cardinality(LiveOf(tool)') <= ToolLimit[tool]
    BY <1>1, <1>2, <1>3, <2>1, RoomKept
  <2>3. ASSUME NEW v \in Providers PROVE Cardinality(LiveOn(v)') <= ProviderLimit[v]
    BY <1>1, <1>2, <1>3, <2>1, RoomKept
  <2>4. ASSUME NEW v \in Providers, Leasing(v)'
        PROVE  /\ leases'[v].inv \in Invocations
               /\ Cardinality(LiveOf(ToolOf(leases'[v].inv))) < ToolLimit[ToolOf(leases'[v].inv)]
               /\ Cardinality(LiveOn(v)) < ProviderLimit[v]
    <3>1. CASE leases'[v] = leases[v]
      BY <1>3, <2>4, <3>1 DEF Leasing
    <3>2. ASSUME NEW i \in Invocations, NEW t \in Stamps, LeaseBegin(v, i, t)
          PROVE  /\ leases'[v].inv = i
                 /\ Cardinality(LiveOf(ToolOf(i))) < ToolLimit[ToolOf(i)]
                 /\ Cardinality(LiveOn(v)) < ProviderLimit[v]
      <4>1. leases'[v].inv = i /\ ProviderOf(i) = v
        BY <3>2 DEF LeaseBegin, Candidates, IInv, TypeOK
      <4> QED
        BY <3>2, <4>1 DEF LeaseBegin, Leasable
    <3>3. CASE leases'[v] = NoLease
      BY <2>4, <3>3 DEF Leasing, NoLease
    <3> QED
      BY <3>1, <3>2, <3>3, LeaseMoves
  <2>5. ASSUME NEW v \in Providers, Leasing(v)'
        PROVE  /\ leases'[v].inv \in Invocations
               /\ \A i \in Invocations : leases'[v].inv = i =>
                     Cardinality(LiveOf(ToolOf(i))') < ToolLimit[ToolOf(i)]
               /\ Cardinality(LiveOn(v)') < ProviderLimit[v]
    <3>1. ASSUME NEW i \in Invocations, leases'[v].inv = i
          PROVE  Cardinality(LiveOf(ToolOf(i))') < ToolLimit[ToolOf(i)]
      <4>1. Cardinality(LiveOf(ToolOf(i))) < ToolLimit[ToolOf(i)] /\ ToolOf(i) \in Tools
        BY <1>2, <2>4, <2>5, <3>1
      <4> QED
        BY <1>1, <1>2, <2>1, <4>1, RoomKept
    <3>2. Cardinality(LiveOn(v)') < ProviderLimit[v]
      BY <1>1, <1>2, <2>1, <2>4, <2>5, RoomKept
    <3> QED
      BY <2>4, <2>5, <3>1, <3>2
  <2> QED
    BY <2>2, <2>3, <2>5 DEF ConcurrencyWithinLimits
<1> QED
  BY <1>4, <1>5

\* Concurrent leases of several providers respect the limits of the tool and of
\* each provider, though each counts live attempts it does not lock: the lock of
\* the one active plan orders them.
THEOREM ConcurrencyAlwaysWithinLimits == Spec => []ConcurrencyWithinLimits
<1>1. Init => ConcurrencyInv
  <2> SUFFICES ASSUME Init PROVE ConcurrencyInv
    OBVIOUS
  <2>1. OneActivePlan
    BY DEF Init, AuthorityInit, OneActivePlan
  <2>2. \A v \in Providers : ~Leasing(v)
    BY DEF Init, Leasing, NoLease
  <2>3. (\A tool \in Tools : LiveOf(tool) = {}) /\ \A v \in Providers : LiveOn(v) = {}
    BY DEF Init, NoAttempt, LiveOf, LiveOn, Live, LiveAttemptStates
  <2>4. ConcurrencyWithinLimits
    BY <2>3, FS_EmptySet, ExecutionAssumption DEF ConcurrencyWithinLimits
  <2> QED
    BY <2>1, <2>2, <2>4 DEF ConcurrencyInv, LeaseHasAuthority
<1>2. IInv /\ ConcurrencyInv /\ [Next]_vars => ConcurrencyInv'
  <2> SUFFICES ASSUME IInv, ConcurrencyInv, [Next]_vars PROVE ConcurrencyInv'
    OBVIOUS
  <2>1. OneActivePlan'
    <3> SUFFICES ASSUME NEW p \in Plans, NEW q \in Plans, p # q,
                        plans'[p].lifecycle = "active", plans'[q].lifecycle = "active"
                 PROVE  FALSE
      BY DEF OneActivePlan
    <3> QED
      BY PlanMoves DEF ConcurrencyInv, OneActivePlan
  <2>2. LeaseHasAuthority'
    BY LeaseAuthorityStep DEF ConcurrencyInv
  <2>3. \A v, w \in Providers : Leasing(v)' /\ Leasing(w)' => v = w
    BY OneLease
  <2>4. ASSUME NEW v \in Providers, Leasing(v)'
        PROVE  /\ Cardinality(LiveOf(ToolOf(leases[v].inv)))' < ToolLimit[ToolOf(leases[v].inv)']
               /\ Cardinality(LiveOn(v))' < ProviderLimit[v]
    <3>1. PICK i \in Invocations : i = leases'[v].inv
      BY <2>4, LimitsStep
    <3>2. /\ Cardinality(LiveOf(ToolOf(i))') < ToolLimit[ToolOf(i)]
          /\ Cardinality(LiveOn(v)') < ProviderLimit[v]
      BY <2>4, <3>1, LimitsStep
    <3> QED
      BY <3>1, <3>2 DEF LiveOf, ToolOf
  <2>5. ConcurrencyWithinLimits'
    BY LimitsStep
  <2> QED
    BY <2>1, <2>2, <2>3, <2>4, <2>5 DEF ConcurrencyInv
<1>3. ConcurrencyInv => ConcurrencyWithinLimits
  BY DEF ConcurrencyInv
<1> QED
  BY <1>1, <1>2, <1>3, Invariant, PTL DEF Spec

-------------------------------------------------------------------------------
(* The promise.  Every step of the protocol is a step of ToolLedger: what a *)
(* step makes of the state of each invocation decides which one.           *)

Resting(i) == \/ StateOf(i)' = StateOf(i)
              \/ {StateOf(i), StateOf(i)'} \subseteq OpenStates
              \/ {StateOf(i), StateOf(i)'} \subseteq {"leased", "running"}
Submitted(i) == /\ StateOf(i) = "none"
                /\ StateOf(i)' \in OpenStates \cup {"rejected", "recorded_only"}
Stopped(i) == /\ StateOf(i) \in {"leased", "running"}
              /\ StateOf(i)' = "cancel_requested"
Returned(i) == /\ StateOf(i) \in {"leased", "running"}
               /\ ToolOf(i) \in RetrySafe
               /\ StateOf(i)' = "queued"
Over(i) == \/ /\ StateOf(i) \in OpenStates
              /\ StateOf(i)' \in {"rejected", "cancelled", "expired", "timed_out"}
           \/ /\ StateOf(i) \in {"leased", "running", "lease_expired"}
              /\ StateOf(i)' \in {"succeeded", "failed", "timed_out", "unknown_completion"}
           \/ /\ StateOf(i) = "cancel_requested"
              /\ StateOf(i)' \in {"cancelled", "unknown_completion"}

\* Only the state of i moves.
Alone(i) == \A j \in Invocations \ {i} : StateOf(j)' = StateOf(j)

\* A step that hands nothing out: one invocation is taken up or asked to stop,
\* or some rest and the others are taken back or end.
HandsNothingOut ==
    /\ \A i \in Invocations : AttemptsOf(i)' = AttemptsOf(i)
    /\ \/ \E i \in Invocations : (Submitted(i) \/ Stopped(i)) /\ Alone(i)
       \/ \A i \in Invocations : Resting(i) \/ Returned(i) \/ Over(i)

\* An invocation that waits was handed out before only if that is repeatable.
WaitingRepeats ==
    \A i \in Invocations : StateOf(i) \in OpenStates \cup {"none"} /\ AttemptsOf(i) # {} =>
        ToolOf(i) \in RetrySafe

\* Callers.
LEMMA CallSteps ==
    ASSUME IInv, NEW i \in Invocations, NEW t \in Stamps, Call(i, t)
    PROVE  Alone(i) /\ (Submitted(i) \/ Stopped(i) \/ Resting(i) \/ Over(i))
<1>1. ASSUME NEW s, NEW canary, NEW d, Insert(i, t, s, canary, d)
      PROVE  StateOf(i)' = s /\ Alone(i)
  BY <1>1 DEF Insert, IInv, TypeOK, StateOf, Alone
<1>2. ASSUME NEW s, SetState(i, s)
      PROVE  StateOf(i)' = s /\ Alone(i)
  BY <1>2, SetStateKeeps DEF IInv, StateOf, Alone
<1>3. ASSUME NEW view \in Views,
             \/ RejectProposal(i, t, view) \/ RecordOnly(i, t, view)
             \/ RequireConfirmation(i, t, view) \/ QueueProposal(i, t, view)
      PROVE  Alone(i) /\ Submitted(i)
  <2>1. StateOf(i) = "none"
    BY <1>3 DEF RejectProposal, RecordOnly, RequireConfirmation, QueueProposal, Passes, Creating
  <2>2. \E s \in {"rejected", "recorded_only", "awaiting_confirmation", "queued"} : \E canary, d :
           Insert(i, t, s, canary, d)
    BY <1>3 DEF RejectProposal, RecordOnly, RequireConfirmation, QueueProposal
  <2> QED
    BY <1>1, <2>1, <2>2 DEF Submitted, OpenStates
<1>4. ASSUME DecideTooLate(i, t) \/ RejectConfirmation(i, t) \/ CancelOpen(i)
               \/ (\E healthy \in BOOLEAN : RefuseApproval(i, t, healthy))
      PROVE  Alone(i) /\ Over(i)
  <2>1. StateOf(i) \in OpenStates
    BY <1>4 DEF DecideTooLate, RejectConfirmation, CancelOpen, RefuseApproval, Approving,
                Deciding, OpenStates
  <2>2. \E s \in {"rejected", "cancelled", "expired"} : SetState(i, s)
    BY <1>4 DEF DecideTooLate, RejectConfirmation, CancelOpen, RefuseApproval, Close
  <2> QED
    BY <1>2, <2>1, <2>2 DEF Over
<1>5. CASE RequestCancel(i)
  BY <1>2, <1>5 DEF RequestCancel, Close, Stopped
<1>6. CASE Approve(i, t)
  <2>1. Approved(i) /\ \A j \in Invocations \ {i} : invocations'[j] = invocations[j]
    <3>1. \A j \in Invocations \ {i} : invocations'[j] = invocations[j]
      BY <1>6 DEF Approve, IInv, TypeOK
    <3>2. StateOf(i) = "awaiting_confirmation" /\ Uses(i)
      BY <1>6, ApproveMoves DEF Approve, Approving, Deciding
    <3> QED
      BY <3>1, <3>2 DEF Uses, Admitted
  <2> QED
    BY <2>1 DEF Approved, Resting, OpenStates, Alone, StateOf
<1> QED
  BY <1>3, <1>4, <1>5, <1>6 DEF Call

\* Providers.
LEMMA ReportSteps ==
    ASSUME IInv, NEW a \in Attempts, NEW t \in Stamps, Report(a, t)
    PROVE  HandsNothingOut
<1>1. Live(a)
  BY DEF Report, Start, Heartbeat, Complete, Fail, ProofAccepted, Live, LiveAttemptStates
<1>2. PICK i \in Invocations : i = attempts[a].inv
  BY <1>1 DEF IInv, LedgerInv, LiveMatches
<1>3. \A b \in Attempts : attempts'[b].inv = attempts[b].inv
  BY DEF Report, Start, Heartbeat, Complete, Fail, Finish, SetAttempt, IInv, TypeOK, AttemptRecord
<1>4. \A j \in Invocations : AttemptsOf(j)' = AttemptsOf(j)
  BY <1>3 DEF AttemptsOf
<1>5. \/ invocations' = invocations
      \/ StateOf(i) = "leased" /\ SetState(i, "running")
      \/ /\ StateOf(i) \in {"running", "cancel_requested"}
         /\ \/ SetState(i, "cancel_requested")
            \/ StateOf(i) = "cancel_requested"
               /\ \E s \in {"cancelled", "unknown_completion"} : SetState(i, s)
            \/ StateOf(i) # "cancel_requested" /\ \E s \in {"succeeded", "failed"} : SetState(i, s)
  BY <1>2 DEF Report, Start, Heartbeat, Complete, Fail, Finish, ProofAccepted
<1>6. ASSUME NEW s, SetState(i, s)
      PROVE  StateOf(i)' = s /\ Alone(i)
  BY <1>6, SetStateKeeps DEF IInv, StateOf, Alone
<1>7. \/ \A j \in Invocations : StateOf(j)' = StateOf(j)
      \/ Alone(i) /\ (Resting(i) \/ Stopped(i) \/ Over(i))
  BY <1>5, <1>6 DEF Resting, Stopped, Over, StateOf
<1>8. Alone(i) => \A j \in Invocations \ {i} : Resting(j)
  BY DEF Alone, Resting
<1> QED
  BY <1>4, <1>7, <1>8 DEF HandsNothingOut, Resting

\* The reaper: its first pass may take several back or end them, its second pass
\* may end several.
LEMMA ReaperSteps ==
    ASSUME IInv,
           \/ \E t \in Stamps, skipped \in SUBSET held : ReapAttempts(t, skipped)
           \/ ReapInvocations
    PROVE  HandsNothingOut
<1>1. ASSUME NEW t \in Stamps, NEW skipped \in SUBSET held, ReapAttempts(t, skipped)
      PROVE  HandsNothingOut
  <2>1. \A b \in Attempts : attempts'[b].inv = attempts[b].inv
    BY <1>1 DEF ReapAttempts, IInv, TypeOK, AttemptRecord
  <2>2. ASSUME NEW i \in Invocations
        PROVE  Resting(i) \/ Returned(i) \/ Over(i)
    <3>1. invocations'[i] = invocations[i]
          \/ invocations'[i] = [invocations[i] EXCEPT !.state = AfterExpiry(i, t)]
      BY <1>1 DEF ReapAttempts
    <3>2. StateOf(i)' = StateOf(i) \/ StateOf(i)' = AfterExpiry(i, t)
      BY <3>1 DEF IInv, TypeOK, InvocationRecord, StateOf
    <3>3. CASE StateOf(i) \in {"leased", "running"}
      BY <3>2, <3>3 DEF AfterExpiry, Resting, Returned, Over
    <3>4. CASE StateOf(i) \notin {"leased", "running"}
      BY <3>2, <3>4 DEF AfterExpiry, Resting, Over
    <3> QED
      BY <3>3, <3>4
  <2> QED
    BY <2>1, <2>2 DEF HandsNothingOut, AttemptsOf
<1>2. CASE ReapInvocations
  <2>1. attempts' = attempts
    BY <1>2 DEF ReapInvocations
  <2>2. ASSUME NEW i \in Invocations
        PROVE  Resting(i) \/ Over(i)
    <3>1. CASE ~Overdue(i)
      <4>1. StateOf(i)' = StateOf(i)
        BY <1>2, <3>1 DEF ReapInvocations, StateOf
      <4> QED
        BY <4>1 DEF Resting
    <3>2. CASE Overdue(i)
      <4>1. invocations'[i] = [invocations[i] EXCEPT !.state = AfterDeadline(i)]
        BY <1>2, <3>2 DEF ReapInvocations
      <4>2. StateOf(i)' = AfterDeadline(i)
        BY <4>1 DEF IInv, TypeOK, InvocationRecord, StateOf
      <4>3. StateOf(i) \in OpenStates \cup HeldStates
        BY <3>2 DEF Overdue, IInv, TypeOK, InvocationRecord, InvocationStates, StateOf
      <4>4. CASE StateOf(i) \in OpenStates
        BY <4>2, <4>4 DEF AfterDeadline, OpenStates, Over
      <4>5. CASE StateOf(i) \in HeldStates
        BY <4>2, <4>5 DEF AfterDeadline, HeldStates, Over
      <4> QED
        BY <4>3, <4>4, <4>5
    <3> QED
      BY <3>1, <3>2
  <2> QED
    BY <2>1, <2>2 DEF HandsNothingOut, AttemptsOf
<1> QED
  BY <1>1, <1>2

\* Every step but the commit of a lease hands nothing out.
LEMMA LedgerSteps ==
    ASSUME IInv, [Next]_vars
    PROVE  \/ HandsNothingOut
           \/ \E v \in Providers, a \in Attempts, arrives \in BOOLEAN : LeaseCommit(v, a, arrives)
<1>1. ASSUME NEW i \in Invocations, NEW t \in Stamps, Call(i, t)
      PROVE  HandsNothingOut
  <2>1. attempts' = attempts
    BY <1>1 DEF Call, RejectProposal, RecordOnly, RequireConfirmation, QueueProposal, Insert,
                DecideTooLate, RejectConfirmation, CancelOpen, RequestCancel, RefuseApproval,
                Close, Approve
  <2>2. Alone(i) => \A j \in Invocations \ {i} : Resting(j)
    BY DEF Alone, Resting
  <2> QED
    BY <1>1, <2>1, <2>2, CallSteps DEF HandsNothingOut, AttemptsOf
<1>2. CASE Operate \/ Restart \/ Tick \/ UNCHANGED vars
           \/ (\E v \in Providers, i \in Invocations, t \in Stamps : LeaseBegin(v, i, t))
           \/ (\E v \in Providers : LeaseAbort(v))
  <2>1. invocations' = invocations /\ attempts' = attempts
    BY <1>2 DEF Operate, OnlyAuthority, Restart, Tick, LeaseBegin, LeaseAbort, ledgerVars, vars
  <2> QED
    BY <2>1 DEF HandsNothingOut, Resting, AttemptsOf, StateOf
<1> QED
  BY <1>1, <1>2, ReportSteps, ReaperSteps DEF Next, Lease

\* The commit of a lease hands out one queued invocation.
LEMMA CommitHandsOut ==
    ASSUME IInv, NEW v \in Providers, NEW a \in Attempts, NEW arrives \in BOOLEAN,
           LeaseCommit(v, a, arrives)
    PROVE  \E i \in Invocations :
              /\ StateOf(i) = "queued"
              /\ StateOf(i)' = "leased"
              /\ Alone(i)
              /\ Cardinality(AttemptsOf(i)') = Cardinality(AttemptsOf(i)) + 1
              /\ \A j \in Invocations \ {i} : AttemptsOf(j)' = AttemptsOf(j)
<1>1. PICK i \in Invocations : i = leases[v].inv /\ StateOf(i) = "queued"
  BY DEF LeaseCommit, IInv, LedgerInv, LeasesHold, TypeOK, Leasing
<1>2. StateOf(i)' = "leased" /\ Alone(i)
  <2>1. SetState(i, "leased")
    BY <1>1 DEF LeaseCommit
  <2> QED
    BY <2>1, SetStateKeeps DEF IInv, StateOf, Alone
<1>3. /\ attempts[a].inv = None
      /\ attempts'[a].inv = i
      /\ \A b \in Attempts \ {a} : attempts'[b] = attempts[b]
  BY <1>1 DEF LeaseCommit, IInv, LedgerInv, Unused, TypeOK
<1>4. None \notin Invocations
  BY ExecutionAssumption
<1>5. AttemptsOf(i)' = AttemptsOf(i) \cup {a} /\ a \notin AttemptsOf(i)
  BY <1>3, <1>4 DEF AttemptsOf
<1>6. \A j \in Invocations \ {i} : AttemptsOf(j)' = AttemptsOf(j)
  BY <1>3, <1>4 DEF AttemptsOf
<1>7. IsFiniteSet(AttemptsOf(i))
  BY ExecutionAssumption, FS_Subset DEF AttemptsOf
<1>8. Cardinality(AttemptsOf(i) \cup {a}) = Cardinality(AttemptsOf(i)) + 1
  BY <1>5, <1>7, FS_AddElement
<1> QED
  BY <1>1, <1>2, <1>5, <1>6, <1>8

\* What waits may be handed out.
LEMMA WaitingStep == IInv /\ WaitingRepeats /\ [Next]_vars => WaitingRepeats'
<1> SUFFICES ASSUME IInv, WaitingRepeats, [Next]_vars, NEW i \in Invocations,
                    StateOf(i)' \in OpenStates \cup {"none"}, AttemptsOf(i)' # {}
             PROVE  ToolOf(i) \in RetrySafe
  BY DEF WaitingRepeats, ToolOf
<1>1. CASE HandsNothingOut
  <2>1. AttemptsOf(i) # {}
    BY <1>1 DEF HandsNothingOut
  <2>2. StateOf(i) \in OpenStates \cup {"none"} \/ Returned(i)
    BY <1>1 DEF HandsNothingOut, Submitted, Stopped, Alone, Resting, Over, OpenStates
  <2> QED
    BY <2>1, <2>2 DEF WaitingRepeats, Returned
<1>2. ASSUME NEW v \in Providers, NEW a \in Attempts, NEW arrives \in BOOLEAN,
             LeaseCommit(v, a, arrives)
      PROVE  ToolOf(i) \in RetrySafe
  <2>1. StateOf(i) = StateOf(i)' /\ AttemptsOf(i)' = AttemptsOf(i)
    BY <1>2, CommitHandsOut DEF Alone, OpenStates
  <2> QED
    BY <2>1 DEF WaitingRepeats
<1> QED
  BY <1>1, <1>2, LedgerSteps

\* The phase and outcome a state stands for.
OutcomeOf(state) == IF state \in TerminalStates THEN state ELSE "none"

LEMMA PhasesOfStates ==
    /\ PhaseOf("none") = "absent"
    /\ \A s \in OpenStates : PhaseOf(s) = "waiting"
    /\ \A s \in {"leased", "running", "lease_expired"} : PhaseOf(s) = "executing"
    /\ PhaseOf("cancel_requested") = "stopping"
    /\ \A s \in TerminalStates : PhaseOf(s) = "settled"
BY DEF PhaseOf, OpenStates, TerminalStates

\* How the relations of ToolLedger read here.
LEMMA LedgerReads ==
    ASSUME NEW i \in Invocations
    PROVE  /\ \A p : Ledger!Enters(i, p) <=>
                 /\ PhaseOf(StateOf(i)') = p
                 /\ Cardinality(AttemptsOf(i)') = Cardinality(AttemptsOf(i))
                 /\ OutcomeOf(StateOf(i)') = OutcomeOf(StateOf(i))
           /\ \A o : Ledger!Settles(i, o) <=>
                 /\ PhaseOf(StateOf(i)') = "settled"
                 /\ Cardinality(AttemptsOf(i)') = Cardinality(AttemptsOf(i))
                 /\ OutcomeOf(StateOf(i)') = o
           /\ Ledger!HandOut(i) <=>
                 /\ PhaseOf(StateOf(i)) = "waiting"
                 /\ Cardinality(AttemptsOf(i)) > 0 => ToolOf(i) \in RetrySafe
                 /\ PhaseOf(StateOf(i)') = "executing"
                 /\ Cardinality(AttemptsOf(i)') = Cardinality(AttemptsOf(i)) + 1
                 /\ OutcomeOf(StateOf(i)') = OutcomeOf(StateOf(i))
           /\ Ledger!Submit(i) <=>
                 /\ PhaseOf(StateOf(i)) = "absent"
                 /\ Ledger!Enters(i, "waiting") \/ \E o \in Ledger!Refusals : Ledger!Settles(i, o)
           /\ Ledger!TakeBack(i) <=>
                 /\ PhaseOf(StateOf(i)) = "executing"
                 /\ ToolOf(i) \in RetrySafe
                 /\ Ledger!Enters(i, "waiting")
           /\ Ledger!AskToStop(i) <=>
                 /\ PhaseOf(StateOf(i)) = "executing"
                 /\ Ledger!Enters(i, "stopping")
           /\ Ledger!Conclude(i) <=>
                 \/ /\ PhaseOf(StateOf(i)) = "waiting"
                    /\ \E o \in Ledger!NeverRun : Ledger!Settles(i, o)
                 \/ /\ PhaseOf(StateOf(i)) = "executing"
                    /\ \E o \in Ledger!RunEnded : Ledger!Settles(i, o)
                 \/ /\ PhaseOf(StateOf(i)) = "stopping"
                    /\ \E o \in Ledger!StopEnded : Ledger!Settles(i, o)
           /\ Ledger!Stays(i) <=> Ledger!Enters(i, PhaseOf(StateOf(i)))
<1>1. \A p : Ledger!Enters(i, p) <=>
         /\ PhaseOf(StateOf(i)') = p
         /\ Cardinality(AttemptsOf(i)') = Cardinality(AttemptsOf(i))
         /\ OutcomeOf(StateOf(i)') = OutcomeOf(StateOf(i))
  BY DEF Ledger!Enters, OutcomeOf
<1>2. \A o : Ledger!Settles(i, o) <=>
         /\ PhaseOf(StateOf(i)') = "settled"
         /\ Cardinality(AttemptsOf(i)') = Cardinality(AttemptsOf(i))
         /\ OutcomeOf(StateOf(i)') = o
  BY DEF Ledger!Settles, OutcomeOf
<1>3. Ledger!HandOut(i) <=>
         /\ PhaseOf(StateOf(i)) = "waiting"
         /\ Cardinality(AttemptsOf(i)) > 0 => ToolOf(i) \in RetrySafe
         /\ PhaseOf(StateOf(i)') = "executing"
         /\ Cardinality(AttemptsOf(i)') = Cardinality(AttemptsOf(i)) + 1
         /\ OutcomeOf(StateOf(i)') = OutcomeOf(StateOf(i))
  BY DEF Ledger!HandOut, OutcomeOf
<1>4. Ledger!Submit(i) <=>
         /\ PhaseOf(StateOf(i)) = "absent"
         /\ Ledger!Enters(i, "waiting") \/ \E o \in Ledger!Refusals : Ledger!Settles(i, o)
  BY DEF Ledger!Submit
<1>5. Ledger!TakeBack(i) <=>
         /\ PhaseOf(StateOf(i)) = "executing"
         /\ ToolOf(i) \in RetrySafe
         /\ Ledger!Enters(i, "waiting")
  BY DEF Ledger!TakeBack
<1>6. Ledger!AskToStop(i) <=>
         /\ PhaseOf(StateOf(i)) = "executing"
         /\ Ledger!Enters(i, "stopping")
  BY DEF Ledger!AskToStop
<1>7. Ledger!Conclude(i) <=>
         \/ /\ PhaseOf(StateOf(i)) = "waiting"
            /\ \E o \in Ledger!NeverRun : Ledger!Settles(i, o)
         \/ /\ PhaseOf(StateOf(i)) = "executing"
            /\ \E o \in Ledger!RunEnded : Ledger!Settles(i, o)
         \/ /\ PhaseOf(StateOf(i)) = "stopping"
            /\ \E o \in Ledger!StopEnded : Ledger!Settles(i, o)
  BY DEF Ledger!Conclude
<1>8. Ledger!Stays(i) <=> Ledger!Enters(i, PhaseOf(StateOf(i)))
  BY DEF Ledger!Stays
<1> QED
  BY <1>1, <1>2, <1>3, <1>4, <1>5, <1>6, <1>7, <1>8

\* What rests, is taken back, or ends.
LEMMA OneMaps ==
    ASSUME NEW i \in Invocations, AttemptsOf(i)' = AttemptsOf(i)
    PROVE  /\ StateOf(i)' = StateOf(i) => Ledger!Stays(i)
           /\ Resting(i) => Ledger!Stays(i)
           /\ Returned(i) => Ledger!TakeBack(i)
           /\ Over(i) => Ledger!Conclude(i)
           /\ Submitted(i) => Ledger!Submit(i)
           /\ Stopped(i) => Ledger!AskToStop(i)
<1>1. Cardinality(AttemptsOf(i)') = Cardinality(AttemptsOf(i))
  OBVIOUS
<1>2. \A s \in OpenStates \cup HeldStates \cup {"none"} : OutcomeOf(s) = "none"
  BY DEF OutcomeOf, OpenStates, HeldStates, TerminalStates
<1>3. \A s \in TerminalStates : OutcomeOf(s) = s
  BY DEF OutcomeOf
<1>4. StateOf(i)' = StateOf(i) => Ledger!Stays(i)
  BY <1>1, LedgerReads
<1>5. Resting(i) => Ledger!Stays(i)
  <2>1. CASE {StateOf(i), StateOf(i)'} \subseteq OpenStates
    BY <1>1, <1>2, <2>1, LedgerReads, PhasesOfStates
  <2>2. CASE {StateOf(i), StateOf(i)'} \subseteq {"leased", "running"}
    BY <1>1, <1>2, <2>2, LedgerReads, PhasesOfStates DEF HeldStates
  <2> QED
    BY <1>4, <2>1, <2>2 DEF Resting
<1>6. Returned(i) => Ledger!TakeBack(i)
  BY <1>1, <1>2, LedgerReads, PhasesOfStates DEF Returned, OpenStates, HeldStates
<1>7. Over(i) => Ledger!Conclude(i)
  <2>1. ASSUME StateOf(i)' \in TerminalStates
        PROVE  Ledger!Settles(i, StateOf(i)')
    BY <1>1, <1>3, <2>1, LedgerReads, PhasesOfStates
  <2>2. CASE StateOf(i) \in OpenStates
    <3>1. Over(i) => StateOf(i)' \in Ledger!NeverRun \cap TerminalStates
      BY <2>2 DEF Over, OpenStates, TerminalStates, Ledger!NeverRun
    <3> QED
      BY <2>1, <2>2, <3>1, LedgerReads, PhasesOfStates
  <2>3. CASE StateOf(i) \in {"leased", "running", "lease_expired"}
    <3>1. Over(i) => StateOf(i)' \in Ledger!RunEnded \cap TerminalStates
      BY <2>3 DEF Over, OpenStates, TerminalStates, Ledger!RunEnded
    <3> QED
      BY <2>1, <2>3, <3>1, LedgerReads, PhasesOfStates
  <2>4. CASE StateOf(i) = "cancel_requested"
    <3>1. Over(i) => StateOf(i)' \in Ledger!StopEnded \cap TerminalStates
      BY <2>4 DEF Over, OpenStates, TerminalStates, Ledger!StopEnded
    <3> QED
      BY <2>1, <2>4, <3>1, LedgerReads, PhasesOfStates
  <2> QED
    BY <2>2, <2>3, <2>4 DEF Over
<1>8. Submitted(i) => Ledger!Submit(i)
  <2>1. CASE StateOf(i)' \in OpenStates
    BY <1>1, <1>2, <2>1, LedgerReads, PhasesOfStates DEF Submitted
  <2>2. CASE StateOf(i)' \in {"rejected", "recorded_only"}
    <3>1. StateOf(i)' \in TerminalStates /\ StateOf(i)' \in Ledger!Refusals
      BY <2>2 DEF TerminalStates, Ledger!Refusals
    <3>2. Ledger!Settles(i, StateOf(i)')
      BY <1>1, <1>3, <3>1, LedgerReads, PhasesOfStates
    <3> QED
      BY <3>1, <3>2, LedgerReads, PhasesOfStates DEF Submitted
  <2> QED
    BY <2>1, <2>2 DEF Submitted
<1>9. Stopped(i) => Ledger!AskToStop(i)
  BY <1>1, <1>2, LedgerReads, PhasesOfStates DEF Stopped, HeldStates
<1> QED
  BY <1>4, <1>5, <1>6, <1>7, <1>8, <1>9

\* The ledger's values have their types in every state of the protocol.
LEMMA LedgerTyped == TypeOK => Ledger!TypeOK
<1> SUFFICES ASSUME TypeOK PROVE Ledger!TypeOK
  OBVIOUS
<1>1. ASSUME NEW i \in Invocations
      PROVE  /\ PhaseOf(StateOf(i)) \in Ledger!Phases
             /\ Cardinality(AttemptsOf(i)) \in Nat
             /\ (IF StateOf(i) \in TerminalStates THEN StateOf(i) ELSE "none") \in Ledger!Outcomes
  <2>1. StateOf(i) \in InvocationStates
    BY DEF TypeOK, InvocationRecord, StateOf
  <2>2. PhaseOf(StateOf(i)) \in Ledger!Phases
    BY <2>1, PhasesOfStates DEF InvocationStates, HeldStates, Ledger!Phases
  <2>3. IsFiniteSet(AttemptsOf(i))
    BY ExecutionAssumption, FS_Subset DEF AttemptsOf
  <2>4. Cardinality(AttemptsOf(i)) \in Nat
    BY <2>3, FS_CardinalityType
  <2>5. TerminalStates \cup {"none"} \subseteq Ledger!Outcomes
    BY DEF TerminalStates, Ledger!Outcomes, Ledger!Refusals, Ledger!NeverRun, Ledger!RunEnded,
           Ledger!StopEnded
  <2> QED
    BY <2>2, <2>4, <2>5
<1> QED
  BY <1>1 DEF Ledger!TypeOK

\* The protocol keeps the promise of its ledger, with any number of providers,
\* retries and restarts: an invocation is handed out again only if its tool may
\* be repeated, and what it settles on is what its phase allows, once.
THEOREM ImplementsLedger == Spec => KeepsThePromise
<1>1. Init => Ledger!Init
  <2> SUFFICES ASSUME Init PROVE Ledger!Init
    OBVIOUS
  <2>1. ASSUME NEW i \in Invocations
        PROVE  StateOf(i) = "none" /\ AttemptsOf(i) = {}
    BY ExecutionAssumption DEF Init, NoInvocation, NoAttempt, StateOf, AttemptsOf
  <2>2. "none" \notin TerminalStates
    BY DEF TerminalStates
  <2> QED
    BY <2>1, <2>2, PhasesOfStates, FS_EmptySet DEF Ledger!Init
<1>2. Init => WaitingRepeats
  BY ExecutionAssumption DEF Init, NoAttempt, AttemptsOf, WaitingRepeats
<1>3. IInv /\ IInv' /\ WaitingRepeats /\ [Next]_vars => Ledger!Next
  <2> SUFFICES ASSUME IInv, IInv', WaitingRepeats, [Next]_vars PROVE Ledger!Next
    OBVIOUS
  <2>1. Ledger!TypeOK'
    <3>1. (TypeOK => Ledger!TypeOK)'
      BY LedgerTyped, PTL
    <3> QED
      BY <3>1 DEF IInv
  <2>2. CASE HandsNothingOut
    <3>1. ASSUME NEW i \in Invocations, Submitted(i) \/ Stopped(i), Alone(i)
          PROVE  /\ Ledger!Submit(i) \/ Ledger!AskToStop(i)
                 /\ \A j \in Invocations \ {i} : Ledger!Stays(j)
      BY <2>2, <3>1, OneMaps DEF HandsNothingOut, Alone
    <3>2. ASSUME \A i \in Invocations : Resting(i) \/ Returned(i) \/ Over(i)
          PROVE  \A i \in Invocations :
                    Ledger!Stays(i) \/ Ledger!TakeBack(i) \/ Ledger!Conclude(i)
      BY <2>2, <3>2, OneMaps DEF HandsNothingOut
    <3> QED
      BY <2>1, <2>2, <3>1, <3>2 DEF HandsNothingOut, Ledger!Next
  <2>3. ASSUME NEW v \in Providers, NEW a \in Attempts, NEW arrives \in BOOLEAN,
               LeaseCommit(v, a, arrives)
        PROVE  Ledger!Next
    <3>1. PICK i \in Invocations :
             /\ StateOf(i) = "queued"
             /\ StateOf(i)' = "leased"
             /\ Alone(i)
             /\ Cardinality(AttemptsOf(i)') = Cardinality(AttemptsOf(i)) + 1
             /\ \A j \in Invocations \ {i} : AttemptsOf(j)' = AttemptsOf(j)
      BY <2>3, CommitHandsOut
    <3>2. Cardinality(AttemptsOf(i)) > 0 => ToolOf(i) \in RetrySafe
      <4>1. Cardinality(AttemptsOf(i)) > 0 => AttemptsOf(i) # {}
        BY FS_EmptySet
      <4> QED
        BY <3>1, <4>1 DEF WaitingRepeats, OpenStates
    <3>3. /\ PhaseOf(StateOf(i)) = "waiting"
          /\ PhaseOf(StateOf(i)') = "executing"
          /\ OutcomeOf(StateOf(i)') = OutcomeOf(StateOf(i))
      BY <3>1, PhasesOfStates DEF OpenStates, OutcomeOf, TerminalStates
    <3>4. Ledger!HandOut(i)
      BY <3>1, <3>2, <3>3, LedgerReads
    <3>5. \A j \in Invocations \ {i} : Ledger!Stays(j)
      BY <3>1, OneMaps DEF Alone
    <3> QED
      BY <2>1, <3>4, <3>5 DEF Ledger!Next
  <2> QED
    BY <2>2, <2>3, LedgerSteps
<1>4. IInv /\ IInv' /\ WaitingRepeats /\ [Next]_vars => [Ledger!Next]_(Ledger!vars)
  BY <1>3
<1> QED
  BY <1>1, <1>2, <1>4, WaitingStep, Invariant, PTL DEF Spec, KeepsThePromise, Ledger!Spec
===============================================================================
