---------------------------- MODULE ControlMutations ---------------------------
(***************************************************************************)
(* How operators change the rows of ControlRows: a session previews one    *)
(* change, the preview is stored with its evidence, and an apply request   *)
(* names the preview and an idempotency key.  An apply runs in steps that  *)
(* interleave with every other request: authentication and the checks of   *)
(* the stored preview without a lock, then SELECT FOR UPDATE of the target *)
(* and the evidence computed again, then one commit of row, lifecycle      *)
(* event and ledger entry, or of a rejection.  The three handlers (plans,  *)
(* descriptors, providers) have one shape; they differ in role, evidence   *)
(* and in what a pause forgives.                                           *)
(*                                                                         *)
(* Left out: the refusals that write only an audit event (rate limits,     *)
(* wrong role, an expired reauthentication), which change nothing here.    *)
(***************************************************************************)
EXTENDS ControlRows, Sequences

CONSTANTS
    Operators,      \* configured control operators
    Role,           \* [Operators -> role]
    Sessions,       \* control plane sessions that may ever exist
    Keys,           \* idempotency keys the operators choose from
    Requests,       \* apply requests being served at one time
    Asked,          \* bound: the <<target, lifecycle>> operators ask previews of
    Restarts,       \* the settings Core may be restarted with
    None,           \* no operator, session, key or preview
    SessionLife,    \* control_session_seconds
    ReauthLife,     \* control_reauth_seconds
    PreviewLife,    \* control_preview_seconds
    MaxTime,        \* bound: the clock stops there
    MaxPreviews,    \* bound: previews ever created
    MaxDisturbances \* bound: steps other than logins, previews and applies

ASSUME MutationsAssumption ==
    /\ Role \in [Operators -> {"operator", "break_glass", "reviewer", "security_admin"}]
    /\ {SessionLife, ReauthLife, PreviewLife, MaxTime, MaxPreviews, MaxDisturbances}
          \subseteq Nat
    /\ Asked \subseteq Targets \X Lifecycles /\ \A c \in Asked : c[2] \in DesiredOf(c[1])
    /\ Restarts \subseteq [mode : Modes, stop : BOOLEAN]
    /\ None \notin Nat \cup Operators \cup Sessions \cup Keys

VARIABLES
    now,          \* database time
    sessions,     \* [Sessions -> [state, operator, version, held, expires, reauthed]]
    previews,     \* sequence of stored previews; a preview's id is its index
    requests,     \* [Requests -> [stage, locked, session, key, preview, stamp, reason]]
    ledger,       \* control_plane_mutations, a set of entries
    answers,      \* what apply answered: [entry, key, preview, operator]
    disturbances \* counted for the bound only

vars == <<rowVars, now, sessions, previews, requests, ledger, answers, disturbances>>
mutationVars == <<previews, requests, ledger, answers>>

-------------------------------------------------------------------------------
(* Sessions (control_plane.py).  The CSRF token rotates with the version,  *)
(* so a tab can write only while the version it last received is current.  *)

NoSession == [state |-> "absent", operator |-> None, version |-> 0, held |-> 0,
              expires |-> 0, reauthed |-> 0]

Usable(s) ==
    /\ sessions[s].state = "live"
    /\ now < sessions[s].expires
    /\ sessions[s].held = sessions[s].version

Disturbance == disturbances < MaxDisturbances /\ disturbances' = disturbances + 1

Login(s, op) ==
    /\ sessions[s].state = "absent"
    /\ sessions' = [sessions EXCEPT ![s] =
          [state |-> "live", operator |-> op, version |-> 1, held |-> 1,
           expires |-> now + SessionLife, reauthed |-> now]]
    /\ UNCHANGED <<rowVars, now, mutationVars, disturbances>>

\* The response may be lost after the commit: the tab keeps the old token.
Reauthenticate(s) ==
    /\ Usable(s)
    /\ \E held \in {sessions[s].version, sessions[s].version + 1} :
          sessions' = [sessions EXCEPT ![s].version = @ + 1,
                                       ![s].held = held,
                                       ![s].reauthed = now]
    /\ Disturbance
    /\ UNCHANGED <<rowVars, now, mutationVars>>

Logout(s) ==
    /\ Usable(s)
    /\ sessions' = [sessions EXCEPT ![s].state = "revoked", ![s].version = @ + 1]
    /\ Disturbance
    /\ UNCHANGED <<rowVars, now, mutationVars>>

\* The role each kind of mutation asks for; break_glass may only pause.
MayMovePlan(s, to) ==
    LET role == Role[sessions[s].operator]
    IN role = "operator" \/ (role = "break_glass" /\ to = "paused")
MayMoveDescriptor(s) == Role[sessions[s].operator] = "reviewer"
MayMoveProvider(s) == Role[sessions[s].operator] = "security_admin"

Fresh(s) == now < sessions[s].reauthed + ReauthLife

-------------------------------------------------------------------------------
(* Previews.                                                               *)

StorePreview(s, t, to) ==
    /\ Len(previews) < MaxPreviews
    /\ previews' = Append(previews,
          [session |-> s, target |-> t, to |-> to, version |-> rows[t].version,
           evidence |-> Evidence(t, to, now), expires |-> now + PreviewLife])
    /\ UNCHANGED <<rowVars, now, sessions, requests, ledger, answers, disturbances>>

PreviewPlan(s, p, to) == Usable(s) /\ MayMovePlan(s, to) /\ StorePreview(s, p, to)
PreviewDescriptor(s, d, to) == Usable(s) /\ MayMoveDescriptor(s) /\ StorePreview(s, d, to)
PreviewProvider(s, v, to) == Usable(s) /\ MayMoveProvider(s) /\ StorePreview(s, v, to)

-------------------------------------------------------------------------------
(* The ledger: one entry per operator, operation and key.                  *)

Operation(t) == IF t \in Plans THEN "plan" ELSE IF t \in Descriptors THEN "descriptor" ELSE "provider"

SameKey(e, op, operation, key) ==
    e.operator = op /\ e.operation = operation /\ e.key = key

Stored(op, operation, key) == {e \in ledger : SameKey(e, op, operation, key)}

Accepted == {e \in ledger : e.outcome = "accepted"}

\* The lifecycle events, inserted with the accepted entries.
Events == {<<e.target, e.version + 1, e.from, e.to>> : e \in Accepted}

\* The request of a handler, read off its preview.
Target(r) == previews[requests[r].preview].target
Desired(r) == previews[requests[r].preview].to
Caller(r) == sessions[requests[r].session].operator
NoPrevious(r) == {}  \* slip: the key is not unique
Previous(r) == Stored(Caller(r), Operation(Target(r)), requests[r].key)

Entry(r, outcome, reason) ==
    [operator |-> Caller(r), operation |-> Operation(Target(r)), key |-> requests[r].key,
     preview |-> requests[r].preview, target |-> Target(r), outcome |-> outcome,
     reason |-> reason, version |-> previews[requests[r].preview].version,
     from |-> IF outcome = "accepted" THEN rows[Target(r)].lifecycle ELSE "none",
     to |-> Desired(r)]

Answer(e, op, key, p) == [entry |-> e, operator |-> op, key |-> key, preview |-> p]

Idle == [stage |-> "idle", locked |-> FALSE, session |-> None, key |-> None,
         preview |-> None, stamp |-> 0, reason |-> "none"]

Ended(r) == requests' = [requests EXCEPT ![r] = Idle]

Refused(r, reason, locked) ==
    requests' = [requests EXCEPT ![r].stage = "refuse", ![r].reason = reason,
                                 ![r].locked = locked]

\* An idempotency conflict: 409 and an audit event, nothing stored.
Replay(e, p) == answers' = IF e.preview = p THEN answers \cup {Answer(e, e.operator, e.key, p)}
                           ELSE answers

-------------------------------------------------------------------------------
(* Apply.                                                                  *)

\* After authentication: the stored entry of this key, then the stored preview.
Serve(r, s, key, p) ==
    LET v == previews[p]
        op == sessions[s].operator
        stored == Stored(op, Operation(v.target), key)
        go(stage, reason) ==
            requests' = [requests EXCEPT ![r] =
                [stage |-> stage, locked |-> FALSE, session |-> s, key |-> key,
                 preview |-> p, stamp |-> now, reason |-> reason]]
    IN /\ requests[r].stage = "idle"
       /\ \/ /\ stored # {}
             /\ \E e \in stored : Replay(e, p)
             /\ answers' # answers
             /\ UNCHANGED requests
          \/ /\ stored = {}
             /\ IF v.session # s THEN go("refuse", "preview_invalid")
                ELSE IF v.expires <= now THEN go("refuse", "preview_expired")
                ELSE go("lock", "none")
             /\ UNCHANGED answers
       /\ UNCHANGED <<rowVars, now, sessions, previews, ledger, disturbances>>

ApplyPlan(r, s, key, p) ==
    /\ previews[p].target \in Plans
    /\ Usable(s) /\ MayMovePlan(s, previews[p].to) /\ Fresh(s)
    /\ Serve(r, s, key, p)

ApplyDescriptor(r, s, key, p) ==
    /\ previews[p].target \in Descriptors
    /\ Usable(s) /\ MayMoveDescriptor(s) /\ Fresh(s)
    /\ Serve(r, s, key, p)

ApplyProvider(r, s, key, p) ==
    /\ previews[p].target \in Providers
    /\ Usable(s) /\ MayMoveProvider(s) /\ Fresh(s)
    /\ Serve(r, s, key, p)

Unlocked(t) == \A q \in Requests : requests[q].locked => Target(q) # t

\* Slip: the version the operator saw is not compared.
DecideAnyVersion(r, tolerated) ==
    LET v == previews[requests[r].preview]
        current == Evidence(v.target, v.to, requests[r].stamp)
    IN /\ Unlocked(v.target)
       /\ IF current # v.evidence /\ ~tolerated THEN Refused(r, "preview_stale", TRUE)
          ELSE IF current.blockers # {} THEN Refused(r, "preview_not_applicable", TRUE)
          ELSE requests' = [requests EXCEPT ![r].stage = "commit", ![r].locked = TRUE]
       /\ UNCHANGED <<rowVars, now, sessions, previews, ledger, answers, disturbances>>

\* SELECT FOR UPDATE, and the evidence computed again under the lock.
Decide(r, tolerated) ==
    LET v == previews[requests[r].preview]
        current == Evidence(v.target, v.to, requests[r].stamp)
    IN /\ Unlocked(v.target)
       /\ IF rows[v.target].version # v.version THEN Refused(r, "resource_version_conflict", TRUE)
          ELSE IF current # v.evidence /\ ~tolerated THEN Refused(r, "preview_stale", TRUE)
          ELSE IF current.blockers # {} THEN Refused(r, "preview_not_applicable", TRUE)
          ELSE requests' = [requests EXCEPT ![r].stage = "commit", ![r].locked = TRUE]
       /\ UNCHANGED <<rowVars, now, sessions, previews, ledger, answers, disturbances>>

\* Slip: a pause is as strict as an activation.
LockPlanStrictly(r) ==
    requests[r].stage = "lock" /\ Target(r) \in Plans /\ Decide(r, FALSE)

\* Only a pause is accepted on evidence that has drifted.
LockPlan(r) ==
    requests[r].stage = "lock" /\ Target(r) \in Plans /\ Decide(r, Desired(r) = "paused")
LockDescriptor(r) ==
    requests[r].stage = "lock" /\ Target(r) \in Descriptors /\ Decide(r, FALSE)
LockProvider(r) ==
    requests[r].stage = "lock" /\ Target(r) \in Providers /\ Decide(r, FALSE)

\* Slip: the row is committed before the ledger entry, and Core dies in between.
WriteRowFirst(r, conflict) ==
    /\ rows' = [rows EXCEPT ![Target(r)] = [lifecycle |-> Desired(r), version |-> @.version + 1]]
    /\ Ended(r)
    /\ UNCHANGED <<used, reports, settings, now, sessions, previews, ledger, answers, disturbances>>

\* Row, lifecycle event and ledger entry in one commit.  A violated constraint
\* is found out at the write: the transaction is rolled back, with its lock, and
\* another one records the rejection.  The row is locked, so the UPDATE matches.
Write(r, conflict) ==
    /\ IF conflict
       THEN /\ Refused(r, "resource_version_conflict", FALSE)
            /\ UNCHANGED <<rows, ledger, answers>>
       ELSE LET e == Entry(r, "accepted", "lifecycle_changed")
            IN /\ rows' = [rows EXCEPT ![Target(r)] =
                     [lifecycle |-> Desired(r), version |-> @.version + 1]]
               /\ ledger' = ledger \cup {e}
               /\ answers' = answers \cup {Answer(e, Caller(r), e.key, e.preview)}
               /\ Ended(r)
    /\ UNCHANGED <<used, reports, settings, now, sessions, previews, disturbances>>

\* Slip: no unique index over the active plan.
CommitPlanUnindexed(r) ==
    requests[r].stage = "commit" /\ Target(r) \in Plans /\ Write(r, Previous(r) # {})

\* The unique key of the ledger, and for a plan the single active one.
CommitPlan(r) ==
    /\ requests[r].stage = "commit" /\ Target(r) \in Plans
    /\ Write(r, \/ Previous(r) # {}
                \/ Desired(r) = "active" /\ OtherActivePlan(Target(r)))
CommitDescriptor(r) ==
    requests[r].stage = "commit" /\ Target(r) \in Descriptors /\ Write(r, Previous(r) # {})
CommitProvider(r) ==
    requests[r].stage = "commit" /\ Target(r) \in Providers /\ Write(r, Previous(r) # {})

\* _record_rejection; when the key has been used meanwhile, the entry under it
\* answers, or the request is a conflict that stores nothing.
RecordRejection(r) ==
    /\ \/ /\ Previous(r) = {}
          /\ LET e == Entry(r, "rejected", requests[r].reason)
             IN /\ ledger' = ledger \cup {e}
                /\ answers' = answers \cup {Answer(e, Caller(r), e.key, e.preview)}
       \/ /\ \E e \in Previous(r) : Replay(e, requests[r].preview)
          /\ UNCHANGED ledger
    /\ Ended(r)
    /\ UNCHANGED <<rowVars, now, sessions, previews, disturbances>>

RejectPlan(r) == requests[r].stage = "refuse" /\ Target(r) \in Plans /\ RecordRejection(r)
RejectDescriptor(r) ==
    requests[r].stage = "refuse" /\ Target(r) \in Descriptors /\ RecordRejection(r)
RejectProvider(r) ==
    requests[r].stage = "refuse" /\ Target(r) \in Providers /\ RecordRejection(r)

-------------------------------------------------------------------------------
(* Core restarts; the clock; the facts.                                    *)

Crash ==
    /\ \E r \in Requests : requests[r].stage # "idle"
    /\ requests' = [r \in Requests |-> Idle]
    /\ Disturbance
    /\ UNCHANGED <<rowVars, now, sessions, previews, ledger, answers>>

Tick ==
    /\ now < MaxTime
    /\ now' = now + 1
    /\ Disturbance
    /\ UNCHANGED <<rowVars, sessions, mutationVars>>

Drift ==
    /\ Disturbance
    /\ \/ \E v \in Providers, healthy \in BOOLEAN : Report(v, healthy, now)
       \/ \E p \in Plans : UseQuota(p)
       \/ \E to \in Restarts : Reconfigure(to)
    /\ UNCHANGED <<now, sessions, mutationVars>>

Init ==
    /\ RowsInit
    /\ now = 0
    /\ sessions = [s \in Sessions |-> NoSession]
    /\ previews = <<>>
    /\ requests = [r \in Requests |-> Idle]
    /\ ledger = {} /\ answers = {}
    /\ disturbances = 0

Next ==
    \/ \E s \in Sessions :
          (\E op \in Operators : Login(s, op)) \/ Reauthenticate(s) \/ Logout(s)
    \/ \E s \in Sessions, c \in Asked :
          \/ c[1] \in Plans /\ PreviewPlan(s, c[1], c[2])
          \/ c[1] \in Descriptors /\ PreviewDescriptor(s, c[1], c[2])
          \/ c[1] \in Providers /\ PreviewProvider(s, c[1], c[2])
    \/ \E r \in Requests, s \in Sessions, k \in Keys, p \in DOMAIN previews :
          ApplyPlan(r, s, k, p) \/ ApplyDescriptor(r, s, k, p) \/ ApplyProvider(r, s, k, p)
    \/ \E r \in Requests :
          \/ LockPlan(r) \/ LockDescriptor(r) \/ LockProvider(r)
          \/ CommitPlan(r) \/ CommitDescriptor(r) \/ CommitProvider(r)
          \/ RejectPlan(r) \/ RejectDescriptor(r) \/ RejectProvider(r)
    \/ Crash \/ Tick \/ Drift

Spec == Init /\ [][Next]_vars

-------------------------------------------------------------------------------
(* Properties.                                                             *)

RequestRecord ==
    [stage : {"idle", "lock", "commit", "refuse"}, locked : BOOLEAN,
     session : Sessions \cup {None}, key : Keys \cup {None}, preview : Nat \cup {None},
     stamp : Nat, reason : {"none", "preview_invalid", "preview_expired", "preview_stale",
                            "preview_not_applicable", "resource_version_conflict"}]

\* Types, and that a request in progress names a stored preview.
TypeOK ==
    /\ RowsTypeOK
    /\ {now, disturbances} \subseteq Nat
    /\ \A s \in Sessions : /\ sessions[s].state \in {"absent", "live", "revoked"}
                           /\ sessions[s].held <= sessions[s].version
    /\ requests \in [Requests -> RequestRecord]
    /\ \A r \in Requests : requests[r].stage \in {"idle", "lock"} => ~requests[r].locked
    /\ \A r \in Requests : requests[r].stage # "idle" =>
          /\ requests[r].preview \in DOMAIN previews
          /\ requests[r].session \in Sessions
          /\ requests[r].key \in Keys
    /\ \A e \in ledger : e.preview \in DOMAIN previews

\* However often a request is sent under one key, by one tab or by several, at
\* the same time or after a crash, every answer it gets is about the one entry
\* stored for it (rollout_mutations.py:584-685, 704-725, 899-918).
OneAnswerPerKey ==
    \A a, b \in answers :
        /\ a.operator = b.operator /\ a.entry.operation = b.entry.operation
        /\ a.key = b.key /\ a.preview = b.preview
        => a.entry = b.entry

\* A row is where its accepted mutations lead, one after the other without a
\* gap or a lost update: each expected the version the one before it left, and
\* found the lifecycle the one before it set.
LedgerExplainsRows ==
    \A t \in Targets :
        LET applied == {e \in Accepted : e.target = t}
        IN /\ {e.version : e \in applied} = VersionAtStart(t) .. (rows[t].version - 1)
           /\ \A e, f \in applied :
                 /\ e.version = f.version => e = f
                 /\ f.version = e.version + 1 => f.from = e.to
           /\ \A e \in applied : e.version = VersionAtStart(t) => e.from = LifecycleAtStart[t]
           /\ rows[t].lifecycle =
                 IF applied = {} THEN LifecycleAtStart[t]
                 ELSE (CHOOSE e \in applied : e.version = rows[t].version - 1).to

OneActivePlan ==
    \A p, q \in Plans :
        rows[p].lifecycle = "active" /\ rows[q].lifecycle = "active" => p = q

\* What the database enforces, nothing has to be refused for: every change of a
\* row is one its trigger lets through, with the lifecycle event it asks for, the
\* counter only counts and the ledger only grows; and at most one plan is active,
\* although each activation looks for another active plan under the lock of its
\* own row only (models.py:1397).
RowsKeepTheConstraints ==
    [][/\ OneActivePlan'
       /\ \A p \in Plans : /\ PlanGuard(p, rows[p], rows'[p], Events')
                           /\ CounterGuard(used[p], used'[p])
       /\ \A d \in Descriptors : DescriptorGuard(d, rows[d], rows'[d], Events')
       /\ \A v \in Providers : ProviderGuard(v, rows[v], rows'[v], Events')
       /\ EvidenceGuard(ledger, ledger')]_vars

\* The stop button: a pause whose preview found nothing against it is turned away
\* only by its own expiry, by a preview of another session, or because the plan
\* itself has changed since; no report, quota, setting or other mutation can
\* make its evidence stale (rollout_mutations.py:782-801).
PauseSurvivesDrift ==
    \A e \in ledger :
        /\ e.outcome = "rejected" /\ e.to = "paused"
        /\ previews[e.preview].evidence.blockers = {}
        => \/ e.reason \in {"preview_invalid", "preview_expired"}
           \/ e.reason = "resource_version_conflict" /\ rows[e.target].version > e.version

\* The control plane is an at-most-once compare-and-set register.
Names == Operators \X {"plan", "descriptor", "provider"} \X Keys

Decision(e) ==
    LET name == <<e.operator, e.operation, e.key>>
    IN IF e.outcome = "rejected" THEN [name |-> name, outcome |-> "refused"]
       ELSE [name |-> name, outcome |-> "applied", target |-> e.target,
             seen |-> e.version, to |-> e.to]

Register == INSTANCE MutationRegister WITH row <- rows, decided <- {Decision(e) : e \in ledger}

ImplementsRegister == Register!Spec
===============================================================================
