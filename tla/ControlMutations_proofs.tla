------------------------- MODULE ControlMutations_proofs ------------------------
(***************************************************************************)
(* What the control plane guarantees for any number of operators,          *)
(* sessions, requests, plans, descriptors, providers and keys.             *)
(*                                                                         *)
(* None of the properties is inductive by itself, because a request        *)
(* carries what it decided in one step to the next.  The invariant says    *)
(* what a decided request may rely on: its target is locked, so the        *)
(* version it compared is still the row's and its transition still legal;  *)
(* and why a refused one was refused, until the refusal is stored.         *)
(***************************************************************************)
EXTENDS ControlMutations, SequenceTheorems, TLAPS


\* Sessions, previews and requests: who asks, and for what.
SessionRecord ==
    [state : {"absent", "live", "revoked"}, operator : Operators \cup {None},
     version : Nat, held : Nat, expires : Nat, reauthed : Nat]

Types ==
    /\ RowsTypeOK
    /\ now \in Nat
    /\ sessions \in [Sessions -> SessionRecord]
    /\ previews \in Seq({previews[i] : i \in DOMAIN previews})
    /\ requests \in [Requests -> RequestRecord]

SessionsKnown == \A s \in Sessions : sessions[s].state # "absent" => sessions[s].operator \in Operators

\* A preview asks for something its target can become.  It saw a version the row
\* has had; if nothing was against a pause, the plan was active then.
PreviewStands(v) ==
    /\ v.target \in Targets /\ v.to \in DesiredOf(v.target)
    /\ v.version \in Nat /\ v.version <= rows[v.target].version
    /\ v.to = "paused" /\ v.evidence.blockers = {} /\ v.version = rows[v.target].version
          => rows[v.target].lifecycle = "active"
PreviewsStand == \A i \in DOMAIN previews : PreviewStands(previews[i])

NamesAll(r) ==
    requests[r].stage # "idle" =>
        /\ requests[r].preview \in DOMAIN previews
        /\ requests[r].session \in Sessions
        /\ sessions[requests[r].session].state # "absent"
        /\ requests[r].key \in Keys

\* Only a request that has decided holds a lock, and no other holds the same.
LocksLate(r) ==
    /\ requests[r].stage = "commit" => requests[r].locked
    /\ requests[r].locked => requests[r].stage \in {"commit", "refuse"}
LocksExclude ==
    \A r, q \in Requests :
        requests[r].locked /\ requests[q].locked /\ Target(r) = Target(q) => r = q

\* What was decided under the lock still holds.
DecisionStands(r) ==
    requests[r].stage = "commit" =>
        /\ rows[Target(r)].version = previews[requests[r].preview].version
        /\ LegalTransition(Target(r), rows[Target(r)].lifecycle, Desired(r))

\* A pause with nothing against it is refused only for one of these reasons.
PauseRefused(r) ==
    \/ requests[r].reason \in {"preview_invalid", "preview_expired"}
    \/ /\ requests[r].reason = "resource_version_conflict"
       /\ \/ rows[Target(r)].version > previews[requests[r].preview].version
          \/ Previous(r) # {}
RefusalStands(r) ==
    /\ requests[r].stage = "refuse" /\ Desired(r) = "paused"
    /\ previews[requests[r].preview].evidence.blockers = {}
    => PauseRefused(r)

RequestStands(r) == NamesAll(r) /\ LocksLate(r) /\ DecisionStands(r) /\ RefusalStands(r)
RequestsStand == \A r \in Requests : RequestStands(r)

\* An entry is about its preview and there is one for every name.
EntryStands(e) ==
    /\ e.operator \in Operators /\ e.key \in Keys
    /\ e.preview \in DOMAIN previews
    /\ e.target = previews[e.preview].target /\ e.to = previews[e.preview].to
    /\ e.version = previews[e.preview].version
    /\ e.operation = Operation(e.target)
EntriesStand == \A e \in ledger : EntryStands(e)
OneEntryPerName == \A e, f \in ledger : SameKey(e, f.operator, f.operation, f.key) => e = f

AnswerStands(a) == a.entry \in ledger /\ a.operator = a.entry.operator /\ a.key = a.entry.key
AnswersStand == \A a \in answers : AnswerStands(a)

\* LedgerExplainsRows, of every entry that could have led to the row.
Led(t) == {e \in Accepted : e.target = t}
RowExplained(t) ==
    /\ VersionAtStart(t) <= rows[t].version
    /\ {e.version : e \in Led(t)} = VersionAtStart(t) .. (rows[t].version - 1)
    /\ \A e, f \in Led(t) : /\ e.version = f.version => e = f
                            /\ f.version = e.version + 1 => f.from = e.to
    /\ \A e \in Led(t) : /\ e.version = VersionAtStart(t) => e.from = LifecycleAtStart[t]
                         /\ e.version = rows[t].version - 1 => rows[t].lifecycle = e.to
    /\ rows[t].version = VersionAtStart(t) => rows[t].lifecycle = LifecycleAtStart[t]
RowsExplained == \A t \in Targets : RowExplained(t)

Invariants ==
    /\ Types /\ SessionsKnown /\ PreviewsStand /\ RequestsStand /\ LocksExclude
    /\ EntriesStand /\ OneEntryPerName /\ AnswersStand /\ RowsExplained
    /\ PauseSurvivesDrift /\ OneActivePlan

-------------------------------------------------------------------------------
(* What every step leaves: previews and sessions stay who they are, and a row *)
(* that changes gets a later version.                                        *)

Grows ==
    /\ \A i \in DOMAIN previews : i \in DOMAIN previews' /\ previews'[i] = previews[i]
    /\ \A s \in Sessions : sessions[s].state # "absent" =>
          /\ sessions'[s].state # "absent"
          /\ sessions'[s].operator = sessions[s].operator
    /\ ledger \subseteq ledger'
    /\ \A t \in Targets : rows'[t] = rows[t] \/ rows'[t].version > rows[t].version

\* What a request is about does not change.
LEMMA SameRequest ==
    ASSUME Grows, NEW r \in Requests, NamesAll(r), requests[r].stage # "idle",
           requests'[r].preview = requests[r].preview,
           requests'[r].session = requests[r].session, requests'[r].key = requests[r].key
    PROVE  /\ NamesAll(r)'
           /\ Target(r)' = Target(r) /\ Desired(r)' = Desired(r) /\ Caller(r)' = Caller(r)
           /\ previews'[requests'[r].preview] = previews[requests[r].preview]
           /\ Previous(r) \subseteq Previous(r)'
<1>1. /\ previews'[requests'[r].preview] = previews[requests[r].preview]
      /\ requests'[r].preview \in DOMAIN previews'
  BY DEF Grows, NamesAll
<1>2. /\ sessions'[requests'[r].session].operator = sessions[requests[r].session].operator
      /\ sessions'[requests'[r].session].state # "absent"
  BY DEF Grows, NamesAll
<1>3. NamesAll(r)'
  BY <1>1, <1>2 DEF NamesAll
<1>4. Target(r)' = Target(r) /\ Desired(r)' = Desired(r) /\ Caller(r)' = Caller(r)
  BY <1>1, <1>2 DEF Target, Desired, Caller
<1>5. Operation(Target(r))' = Operation(Target(r))
  BY <1>4 DEF Operation
<1>6. Previous(r) \subseteq Previous(r)'
  BY <1>4, <1>5 DEF Previous, Stored, SameKey, Grows
<1> QED
  BY <1>1, <1>3, <1>4, <1>6

\* A request that does not move still stands, unless its target is changed.
LEMMA OthersStand ==
    ASSUME Types, Types', Grows, PreviewsStand, NEW r \in Requests, RequestStands(r),
           \/ /\ requests'[r] = requests[r]
              /\ requests[r].stage = "commit" => rows'[Target(r)] = rows[Target(r)]
           \/ requests'[r] = Idle
    PROVE  RequestStands(r)'
<1>1. CASE requests'[r] = Idle
  BY <1>1 DEF RequestStands, NamesAll, LocksLate, DecisionStands, RefusalStands, Idle
<1>2. CASE /\ requests'[r] = requests[r] /\ requests[r].stage = "idle"
  BY <1>2 DEF RequestStands, NamesAll, LocksLate, DecisionStands, RefusalStands
<1>3. CASE /\ requests'[r] = requests[r] /\ requests[r].stage # "idle"
           /\ requests[r].stage = "commit" => rows'[Target(r)] = rows[Target(r)]
  <2>1. /\ NamesAll(r)'
        /\ Target(r)' = Target(r) /\ Desired(r)' = Desired(r) /\ Caller(r)' = Caller(r)
        /\ previews'[requests'[r].preview] = previews[requests[r].preview]
        /\ Previous(r) \subseteq Previous(r)'
    BY <1>3, SameRequest DEF RequestStands
  <2>2. LocksLate(r)'
    BY <1>3 DEF RequestStands, LocksLate
  <2>3. DecisionStands(r)'
    BY <1>3, <2>1 DEF RequestStands, DecisionStands
  <2>4. Target(r) \in Targets
    BY <1>3 DEF RequestStands, NamesAll, PreviewsStand, PreviewStands, Target
  <2>5. /\ rows'[Target(r)] = rows[Target(r)] \/ rows'[Target(r)].version > rows[Target(r)].version
        /\ rows[Target(r)].version \in Nat /\ rows'[Target(r)].version \in Nat
        /\ previews[requests[r].preview].version \in Nat
    BY <1>3, <2>4 DEF Grows, Types, RowsTypeOK, RequestStands, NamesAll, PreviewsStand, PreviewStands
  <2>6. RefusalStands(r)'
    BY <1>3, <2>1, <2>5 DEF RequestStands, RefusalStands, PauseRefused
  <2> QED
    BY <2>1, <2>2, <2>3, <2>6 DEF RequestStands
<1> QED
  BY <1>1, <1>2, <1>3

\* Stored previews stand whatever happens to the rows.
LEMMA PreviewsStay ==
    ASSUME Types, Types', Grows, NEW i \in DOMAIN previews, PreviewStands(previews[i])
    PROVE  PreviewStands(previews[i])'
<1>1. previews'[i] = previews[i]
  BY DEF Grows
<1>2. PICK v : v = previews[i]
  OBVIOUS
<1>3. v.target \in Targets
  BY <1>2 DEF PreviewStands
<1>4. /\ rows'[v.target] = rows[v.target] \/ rows'[v.target].version > rows[v.target].version
      /\ rows[v.target].version \in Nat /\ rows'[v.target].version \in Nat
  BY <1>3 DEF Grows, Types, RowsTypeOK
<1> QED
  BY <1>1, <1>2, <1>4 DEF PreviewStands

\* Entries stay about their previews.
LEMMA EntriesStay ==
    ASSUME Grows, NEW e, EntryStands(e)
    PROVE  EntryStands(e)'
BY DEF EntryStands, Grows

\* The accepted entries lead to the rows as long as neither changes.
LEMMA RowsStay ==
    ASSUME RowsExplained, rows' = rows, Accepted' = Accepted
    PROVE  RowsExplained'
BY DEF RowsExplained, RowExplained, Led

\* A pause turned away stays turned away for the same reason.
PauseWell(e) ==
    /\ e.outcome = "rejected" /\ e.to = "paused"
    /\ previews[e.preview].evidence.blockers = {}
    => \/ e.reason \in {"preview_invalid", "preview_expired"}
       \/ e.reason = "resource_version_conflict" /\ rows[e.target].version > e.version

LEMMA PausesStay ==
    ASSUME Types, Types', Grows, PreviewsStand, NEW e, EntryStands(e), PauseWell(e)
    PROVE  PauseWell(e)'
<1>1. e.preview \in DOMAIN previews /\ previews'[e.preview] = previews[e.preview]
  BY DEF EntryStands, Grows
<1>2. e.target \in Targets /\ e.version \in Nat
  BY <1>1 DEF EntryStands, PreviewsStand, PreviewStands
<1>3. /\ rows'[e.target] = rows[e.target] \/ rows'[e.target].version > rows[e.target].version
      /\ rows[e.target].version \in Nat /\ rows'[e.target].version \in Nat
  BY <1>2 DEF Grows, Types, RowsTypeOK
<1> QED
  BY <1>1, <1>2, <1>3 DEF PauseWell

\* A step that decides nothing: the register and the answers stay as they are,
\* and no request moves but to be forgotten.
LEMMA QuietStep ==
    ASSUME Invariants, Types', Grows, SessionsKnown', PreviewsStand',
           rows' = rows, ledger' = ledger,
           \A a \in answers' \ answers : AnswerStands(a),
           \A r \in Requests : requests'[r] = requests[r] \/ requests'[r] = Idle
    PROVE  Invariants'
<1>1. RequestsStand'
  <2> SUFFICES ASSUME NEW r \in Requests PROVE RequestStands(r)'
    BY DEF RequestsStand
  <2> QED
    BY OthersStand DEF Invariants, RequestsStand
<1>2. LocksExclude'
  <2> SUFFICES ASSUME NEW r \in Requests, NEW q \in Requests,
                      requests'[r].locked, requests'[q].locked, Target(r)' = Target(q)'
               PROVE  r = q
    BY DEF LocksExclude
  <2>1. requests'[r] = requests[r] /\ requests'[q] = requests[q]
    BY DEF Idle
  <2>2. requests[r].stage # "idle" /\ requests[q].stage # "idle"
    BY <2>1 DEF Invariants, RequestsStand, RequestStands, LocksLate
  <2>3. Target(r)' = Target(r) /\ Target(q)' = Target(q)
    BY <2>1, <2>2, SameRequest DEF Invariants, RequestsStand, RequestStands
  <2> QED
    BY <2>1, <2>3 DEF Invariants, LocksExclude
<1>3. EntriesStand' /\ OneEntryPerName' /\ AnswersStand'
  BY EntriesStay DEF Invariants, EntriesStand, OneEntryPerName, AnswersStand, AnswerStands, SameKey
<1>4. RowsExplained'
  BY RowsStay DEF Invariants, Accepted
<1>5. PauseSurvivesDrift'
  <2> SUFFICES ASSUME NEW e \in ledger' PROVE PauseWell(e)'
    BY DEF PauseSurvivesDrift, PauseWell
  <2>1. e \in ledger /\ EntryStands(e) /\ PauseWell(e)
    BY DEF Invariants, EntriesStand, PauseSurvivesDrift, PauseWell
  <2> QED
    BY <2>1, PausesStay DEF Invariants
<1>6. OneActivePlan'
  BY DEF Invariants, OneActivePlan
<1> QED
  BY <1>1, <1>2, <1>3, <1>4, <1>5, <1>6 DEF Invariants


-------------------------------------------------------------------------------
(* Sessions, previews, crashes, the clock and the facts.                     *)

USE DEF mutationVars, rowVars

\* Of a step that leaves the previews alone.
LEMMA SamePreviews ==
    ASSUME Types, Types', Grows, PreviewsStand, previews' = previews
    PROVE  PreviewsStand'
BY PreviewsStay DEF PreviewsStand

\* A session with one field changed.
LEMMA SessionField ==
    ASSUME NEW old \in SessionRecord, NEW n \in Nat
    PROVE  /\ [old EXCEPT !.version = n] \in SessionRecord
           /\ [old EXCEPT !.version = n].state = old.state
           /\ [old EXCEPT !.version = n].operator = old.operator
           /\ [old EXCEPT !.held = n] \in SessionRecord
           /\ [old EXCEPT !.held = n].state = old.state
           /\ [old EXCEPT !.held = n].operator = old.operator
           /\ [old EXCEPT !.reauthed = n] \in SessionRecord
           /\ [old EXCEPT !.reauthed = n].state = old.state
           /\ [old EXCEPT !.reauthed = n].operator = old.operator
           /\ [old EXCEPT !.state = "revoked"] \in SessionRecord
           /\ [old EXCEPT !.state = "revoked"].state = "revoked"
           /\ [old EXCEPT !.state = "revoked"].operator = old.operator
BY DEF SessionRecord

LEMMA SessionSteps ==
    ASSUME Invariants, NEW s \in Sessions,
           \/ \E op \in Operators : Login(s, op)
           \/ Reauthenticate(s)
           \/ Logout(s)
    PROVE  Invariants'
<1> USE DEF Invariants
<1>1. /\ UNCHANGED <<rows, used, reports, settings, now, previews, requests, ledger, answers>>
      /\ \E x : /\ sessions' = [sessions EXCEPT ![s] = x]
                /\ x \in SessionRecord /\ x.state # "absent" /\ x.operator \in Operators
                /\ sessions[s].state # "absent" => x.operator = sessions[s].operator
  <2>1. CASE \E op \in Operators : Login(s, op)
    <3>1. PICK op \in Operators : Login(s, op)
      BY <2>1
    <3> DEFINE x == [state |-> "live", operator |-> op, version |-> 1, held |-> 1,
                     expires |-> now + SessionLife, reauthed |-> now]
    <3>2. x \in SessionRecord /\ x.state = "live" /\ x.operator = op
      BY MutationsAssumption DEF Types, SessionRecord
    <3>3. /\ sessions[s].state = "absent" /\ sessions' = [sessions EXCEPT ![s] = x]
          /\ UNCHANGED <<rows, used, reports, settings, now, previews, requests, ledger, answers>>
      BY <3>1 DEF Login
    <3> HIDE DEF x
    <3> QED
      BY <3>2, <3>3
  <2>2. CASE Reauthenticate(s)
    <3>1. PICK held \in {sessions[s].version, sessions[s].version + 1} :
             sessions' = [sessions EXCEPT ![s].version = @ + 1, ![s].held = held,
                                          ![s].reauthed = now]
      BY <2>2 DEF Reauthenticate
    <3>2. sessions[s] \in SessionRecord /\ sessions[s].state = "live"
      BY <2>2 DEF Reauthenticate, Usable, Types
    <3>3. held \in Nat
      BY <3>2 DEF SessionRecord
    <3> DEFINE x == [sessions[s] EXCEPT !.version = @ + 1, !.held = held, !.reauthed = now]
    <3>4. /\ x \in SessionRecord /\ x.state = sessions[s].state
          /\ x.operator = sessions[s].operator
      <4> PICK old \in SessionRecord : old = sessions[s]
        BY <3>2
      <4>1. PICK next \in Nat : next = old.version + 1
        BY DEF SessionRecord
      <4> DEFINE one == [old EXCEPT !.version = next]
      <4> DEFINE two == [one EXCEPT !.held = held]
      <4>2. one \in SessionRecord /\ one.state = old.state /\ one.operator = old.operator
        BY SessionField
      <4>3. two \in SessionRecord /\ two.state = old.state /\ two.operator = old.operator
        <5> HIDE DEF one
        <5> QED
          BY <3>3, <4>2, SessionField
      <4>4. /\ [two EXCEPT !.reauthed = now] \in SessionRecord
            /\ [two EXCEPT !.reauthed = now].state = old.state
            /\ [two EXCEPT !.reauthed = now].operator = old.operator
        <5> HIDE DEF two
        <5> QED
          BY <4>3, SessionField DEF Types
      <4>5. x = [two EXCEPT !.reauthed = now]
        BY <4>1, <4>2, <4>3
      <4> HIDE DEF x
      <4> QED
        BY <4>1, <4>4, <4>5
    <3>5. sessions' = [sessions EXCEPT ![s] = x]
      BY <3>1, <3>2 DEF Types
    <3>6. sessions[s].operator \in Operators
      BY <3>2 DEF SessionsKnown
    <3> HIDE DEF x
    <3> QED
      BY <2>2, <3>2, <3>4, <3>5, <3>6 DEF Reauthenticate
  <2>3. CASE Logout(s)
    <3>1. sessions' = [sessions EXCEPT ![s].state = "revoked", ![s].version = @ + 1]
      BY <2>3 DEF Logout
    <3>2. sessions[s] \in SessionRecord /\ sessions[s].state = "live"
      BY <2>3 DEF Logout, Usable, Types
    <3> DEFINE x == [sessions[s] EXCEPT !.state = "revoked", !.version = @ + 1]
    <3>4. x \in SessionRecord /\ x.state = "revoked" /\ x.operator = sessions[s].operator
      <4> PICK old \in SessionRecord : old = sessions[s]
        BY <3>2
      <4>1. PICK next \in Nat : next = old.version + 1
        BY DEF SessionRecord
      <4>2. PICK one : /\ one = [old EXCEPT !.state = "revoked"] /\ one \in SessionRecord
                       /\ one.state = "revoked" /\ one.operator = old.operator
        BY SessionField
      <4>3. /\ [one EXCEPT !.version = next] \in SessionRecord
            /\ [one EXCEPT !.version = next].state = "revoked"
            /\ [one EXCEPT !.version = next].operator = old.operator
        BY <4>2, SessionField
      <4>4. x = [one EXCEPT !.version = next]
        BY <4>1, <4>2
      <4> HIDE DEF x
      <4> QED
        BY <4>1, <4>3, <4>4
    <3>5. sessions' = [sessions EXCEPT ![s] = x]
      BY <3>1, <3>2 DEF Types
    <3>6. sessions[s].operator \in Operators
      BY <3>2 DEF SessionsKnown
    <3> HIDE DEF x
    <3> QED
      BY <2>3, <3>2, <3>4, <3>5, <3>6 DEF Logout
  <2> QED
    BY <2>1, <2>2, <2>3
<1>2. PICK x : /\ sessions' = [sessions EXCEPT ![s] = x]
               /\ x \in SessionRecord /\ x.state # "absent" /\ x.operator \in Operators
               /\ sessions[s].state # "absent" => x.operator = sessions[s].operator
  BY <1>1
<1>3. Types'
  BY <1>1, <1>2 DEF Types, RowsTypeOK
<1>4. Grows
  BY <1>1, <1>2 DEF Grows, Types
<1>5. SessionsKnown'
  BY <1>2 DEF SessionsKnown, Types
<1>6. PreviewsStand'
  BY <1>1, <1>3, <1>4, SamePreviews
<1> QED
  BY <1>1, <1>3, <1>4, <1>5, <1>6, QuietStep

\* Appending to the sequence of previews.
LEMMA Appended ==
    ASSUME NEW seq, seq \in Seq({seq[i] : i \in DOMAIN seq}), NEW v, NEW longer,
           longer = Append(seq, v)
    PROVE  /\ longer \in Seq({longer[i] : i \in DOMAIN longer})
           /\ \A i \in DOMAIN seq : i \in DOMAIN longer /\ longer[i] = seq[i]
           /\ \A i \in DOMAIN longer : i \in DOMAIN seq \/ longer[i] = v
<1> DEFINE S == {seq[i] : i \in DOMAIN seq} \cup {v}
<1>1. seq \in Seq(S)
  BY SeqMonotonic
<1> HIDE DEF S
<1>2. v \in S
  BY DEF S
<1>3. longer \in Seq(S) /\ Len(longer) = Len(seq) + 1 /\ Len(seq) \in Nat
  BY <1>1, <1>2
<1>4. /\ DOMAIN seq = 1..Len(seq) /\ DOMAIN longer = 1..(Len(seq) + 1)
      /\ \A i \in 1..Len(seq) : longer[i] = seq[i]
      /\ longer[Len(seq) + 1] = v
  BY <1>1, <1>2, <1>3
<1> DEFINE T == {longer[i] : i \in DOMAIN longer}
<1>5. longer \in [1..Len(longer) -> T]
  BY <1>3, <1>4, LenProperties
<1>6. longer \in Seq(T)
  <2>1. PICK n \in Nat : n = Len(longer)
    BY <1>3
  <2> HIDE DEF T
  <2>2. longer \in [1..n -> T]
    BY <1>5, <2>1
  <2>3. longer \in UNION {[1..m -> T] : m \in Nat}
    BY <2>2
  <2> QED
    BY <2>3, SeqDef, Zenon
<1> QED
  BY <1>3, <1>4, <1>6

\* Nothing is against a pause only if the plan is active.
LEMMA PauseEvidence ==
    ASSUME NEW t \in Targets, "paused" \in DesiredOf(t), NEW stamp
    PROVE  /\ t \in Plans
           /\ Evidence(t, "paused", stamp).blockers = {} <=> rows[t].lifecycle = "active"
<1>1. t \in Plans
  BY DEF DesiredOf
<1>2. Evidence(t, "paused", stamp).blockers = PlanBlockers(t, "paused", stamp)
  BY <1>1 DEF Evidence, PlanEvidence
<1>3. LegalTransition(t, rows[t].lifecycle, "paused") <=> rows[t].lifecycle = "active"
  BY <1>1 DEF LegalTransition, PlanTransitions
<1> QED
  BY <1>1, <1>2, <1>3 DEF PlanBlockers

LEMMA PreviewStep ==
    ASSUME Invariants, NEW s \in Sessions, NEW t \in Targets, NEW to \in DesiredOf(t),
           StorePreview(s, t, to)
    PROVE  Invariants'
<1> USE DEF Invariants
<1> DEFINE v == [session |-> s, target |-> t, to |-> to, version |-> rows[t].version,
                 evidence |-> Evidence(t, to, now), expires |-> now + PreviewLife]
<1>1. /\ UNCHANGED <<rows, used, reports, settings, now, sessions, requests, ledger, answers>>
      /\ previews' = Append(previews, v)
  BY DEF StorePreview
<1>2. /\ previews' \in Seq({previews'[i] : i \in DOMAIN previews'})
      /\ \A i \in DOMAIN previews : i \in DOMAIN previews' /\ previews'[i] = previews[i]
      /\ \A i \in DOMAIN previews' : i \in DOMAIN previews \/ previews'[i] = v
  <2>1. previews \in Seq({previews[i] : i \in DOMAIN previews})
    BY DEF Types
  <2> HIDE DEF v
  <2> QED
    BY <1>1, <2>1, Appended
<1>3. Types'
  BY <1>1, <1>2 DEF Types, RowsTypeOK
<1>4. Grows
  BY <1>1, <1>2 DEF Grows
<1>5. PICK w : w = v
  OBVIOUS
<1>6. PreviewStands(w)'
  <2>1. rows[t].version \in Nat
    BY DEF Types, RowsTypeOK
  <2>2. /\ v.target = t /\ v.to = to /\ v.version = rows[t].version
        /\ v.evidence = Evidence(t, to, now)
    OBVIOUS
  <2>3. to = "paused" /\ v.evidence.blockers = {} => rows[t].lifecycle = "active"
    BY <2>2, PauseEvidence
  <2> HIDE DEF v
  <2> QED
    BY <1>1, <1>5, <2>1, <2>2, <2>3 DEF PreviewStands
<1>7. PreviewsStand'
  <2> SUFFICES ASSUME NEW i \in DOMAIN previews' PROVE PreviewStands(previews[i])'
    BY DEF PreviewsStand
  <2>1. CASE i \in DOMAIN previews
    BY <1>3, <1>4, <2>1, PreviewsStay DEF PreviewsStand
  <2>2. CASE previews'[i] = w
    BY <1>6, <2>2 DEF PreviewStands
  <2> HIDE DEF v
  <2> QED
    BY <1>2, <1>5, <2>1, <2>2
<1>8. SessionsKnown'
  BY <1>1 DEF SessionsKnown
<1> QED
  BY <1>1, <1>3, <1>4, <1>7, <1>8, QuietStep

LEMMA IdleTyped == Idle \in RequestRecord
BY MutationsAssumption DEF Idle, RequestRecord

LEMMA CrashStep ==
    ASSUME Invariants, Crash
    PROVE  Invariants'
<1> USE DEF Invariants
<1>1. /\ UNCHANGED <<rows, used, reports, settings, now, sessions, previews, ledger, answers>>
      /\ requests' = [r \in Requests |-> Idle]
  BY DEF Crash
<1>2. Types'
  BY <1>1, IdleTyped DEF Types, RowsTypeOK
<1>3. Grows
  BY <1>1 DEF Grows
<1>4. PreviewsStand' /\ SessionsKnown'
  BY <1>1, <1>2, <1>3, SamePreviews DEF SessionsKnown
<1> QED
  BY <1>1, <1>2, <1>3, <1>4, QuietStep

LEMMA FactSteps ==
    ASSUME Invariants, Tick \/ Drift
    PROVE  Invariants'
<1> USE DEF Invariants
<1>1. /\ UNCHANGED <<rows, sessions, previews, requests, ledger, answers>>
      /\ now' \in Nat /\ used' \in [Plans -> Nat]
      /\ reports' \in [Providers -> [at : Nat, healthy : BOOLEAN]]
      /\ settings' \in [mode : Modes, stop : BOOLEAN]
  <2>1. CASE Tick
    BY <2>1 DEF Tick, Types, RowsTypeOK
  <2>2. CASE Disturbance /\ (\E v \in Providers, healthy \in BOOLEAN : Report(v, healthy, now))
             /\ UNCHANGED <<now, sessions, mutationVars>>
    BY <2>2 DEF Report, Types, RowsTypeOK
  <2>3. CASE Disturbance /\ (\E p \in Plans : UseQuota(p)) /\ UNCHANGED <<now, sessions, mutationVars>>
    BY <2>3 DEF UseQuota, Types, RowsTypeOK
  <2>4. CASE Disturbance /\ (\E to \in Restarts : Reconfigure(to))
             /\ UNCHANGED <<now, sessions, mutationVars>>
    BY <2>4, MutationsAssumption DEF Reconfigure, Types, RowsTypeOK
  <2> QED
    BY <2>1, <2>2, <2>3, <2>4 DEF Drift
<1>2. Types'
  BY <1>1 DEF Types, RowsTypeOK
<1>3. Grows
  BY <1>1 DEF Grows
<1>4. PreviewsStand' /\ SessionsKnown'
  BY <1>1, <1>2, <1>3, SamePreviews DEF SessionsKnown
<1> QED
  BY <1>1, <1>2, <1>3, <1>4, QuietStep

-------------------------------------------------------------------------------
(* Requests.                                                                 *)

\* Only r moves, and if it has a lock then on a target nobody else has locked.
LEMMA LocksStay ==
    ASSUME RequestsStand, LocksExclude, Grows, NEW r \in Requests,
           \A q \in Requests \ {r} : requests'[q] = requests[q],
           requests'[r].locked =>
              \A q \in Requests \ {r} : requests[q].locked => Target(q) # Target(r)'
    PROVE  LocksExclude'
<1> SUFFICES ASSUME NEW u \in Requests, NEW w \in Requests, u # w,
                    requests'[u].locked, requests'[w].locked, Target(u)' = Target(w)'
             PROVE  FALSE
  BY DEF LocksExclude
<1>1. \A q \in Requests \ {r} :
         requests'[q].locked => requests[q].locked /\ Target(q)' = Target(q)
  <2> SUFFICES ASSUME NEW q \in Requests \ {r}, requests'[q].locked
               PROVE  requests[q].locked /\ Target(q)' = Target(q)
    OBVIOUS
  <2>1. requests'[q] = requests[q] /\ requests[q].stage # "idle"
    BY DEF RequestsStand, RequestStands, LocksLate
  <2> QED
    BY <2>1, SameRequest DEF RequestsStand, RequestStands
<1>2. CASE u # r /\ w # r
  BY <1>1, <1>2 DEF LocksExclude
<1>3. CASE u = r
  BY <1>1, <1>3
<1>4. CASE w = r
  BY <1>1, <1>4
<1> QED
  BY <1>2, <1>3, <1>4

\* A step of one request that stores and answers nothing.
LEMMA RequestStep ==
    ASSUME Invariants, Types', NEW r \in Requests,
           UNCHANGED <<rows, sessions, previews, ledger, answers>>,
           \A q \in Requests \ {r} : requests'[q] = requests[q],
           RequestStands(r)',
           requests'[r].locked =>
              \A q \in Requests \ {r} : requests[q].locked => Target(q) # Target(r)'
    PROVE  Invariants'
<1> USE DEF Invariants
<1>1. Grows
  BY DEF Grows
<1>2. RequestsStand'
  <2> SUFFICES ASSUME NEW q \in Requests PROVE RequestStands(q)'
    BY DEF RequestsStand
  <2>1. CASE q # r
    BY <1>1, <2>1, OthersStand DEF RequestsStand
  <2> QED
    BY <2>1
<1>3. LocksExclude'
  BY <1>1, LocksStay
<1>4. SessionsKnown' /\ PreviewsStand'
  BY <1>1, SamePreviews DEF SessionsKnown
<1>5. EntriesStand' /\ OneEntryPerName' /\ AnswersStand'
  BY <1>1, EntriesStay DEF EntriesStand, OneEntryPerName, AnswersStand, AnswerStands, SameKey
<1>6. RowsExplained'
  BY RowsStay DEF Accepted
<1>7. PauseSurvivesDrift'
  <2> SUFFICES ASSUME NEW e \in ledger' PROVE PauseWell(e)'
    BY DEF PauseSurvivesDrift, PauseWell
  <2>1. e \in ledger /\ EntryStands(e) /\ PauseWell(e)
    BY DEF EntriesStand, PauseSurvivesDrift, PauseWell
  <2> QED
    BY <1>1, <2>1, PausesStay
<1>8. OneActivePlan'
  BY DEF OneActivePlan
<1> QED
  BY <1>2, <1>3, <1>4, <1>5, <1>6, <1>7, <1>8

LEMMA ServeStep ==
    ASSUME Invariants, NEW r \in Requests, NEW s \in Sessions, NEW key \in Keys,
           NEW p \in DOMAIN previews, Usable(s), Serve(r, s, key, p)
    PROVE  Invariants'
<1> USE DEF Invariants
<1>1. /\ UNCHANGED <<rows, used, reports, settings, now, sessions, previews, ledger>>
      /\ requests[r].stage = "idle"
  BY DEF Serve
<1>2. CASE \E e \in ledger : Replay(e, p) /\ UNCHANGED requests
  <2>1. \A a \in answers' \ answers : AnswerStands(a)
    BY <1>2 DEF Replay, Answer, AnswerStands
  <2>2. Types'
    BY <1>1, <1>2 DEF Types, RowsTypeOK
  <2>3. Grows
    BY <1>1 DEF Grows
  <2>4. SessionsKnown' /\ PreviewsStand'
    BY <1>1, <2>2, <2>3, SamePreviews DEF SessionsKnown
  <2> QED
    BY <1>1, <1>2, <2>1, <2>2, <2>3, <2>4, QuietStep
<1>3. CASE \E stage \in {"lock", "refuse"}, reason \in {"none", "preview_invalid", "preview_expired"} :
              /\ requests' = [requests EXCEPT ![r] =
                    [stage |-> stage, locked |-> FALSE, session |-> s, key |-> key,
                     preview |-> p, stamp |-> now, reason |-> reason]]
              /\ stage = "refuse" => reason # "none"
              /\ UNCHANGED answers
  <2>1. PICK stage \in {"lock", "refuse"}, reason \in {"none", "preview_invalid", "preview_expired"} :
              /\ requests' = [requests EXCEPT ![r] =
                    [stage |-> stage, locked |-> FALSE, session |-> s, key |-> key,
                     preview |-> p, stamp |-> now, reason |-> reason]]
              /\ stage = "refuse" => reason # "none"
              /\ UNCHANGED answers
    BY <1>3
  <2> DEFINE x == [stage |-> stage, locked |-> FALSE, session |-> s, key |-> key,
                   preview |-> p, stamp |-> now, reason |-> reason]
  <2>2. requests' = [requests EXCEPT ![r] = x]
    BY <2>1
  <2>3. p \in Nat
    BY LenProperties DEF Types
  <2>4. x \in RequestRecord
    BY <2>3 DEF RequestRecord, Types
  <2>5. Types'
    <3> HIDE DEF x
    <3> QED
      BY <1>1, <2>2, <2>4 DEF Types, RowsTypeOK
  <2>6. requests'[r] = x /\ \A q \in Requests \ {r} : requests'[q] = requests[q]
    BY <2>2 DEF Types
  <2>7. sessions[s].state # "absent"
    BY DEF Usable
  <2>8. RequestStands(r)'
    <3>1. /\ requests'[r].stage = stage /\ ~requests'[r].locked /\ requests'[r].session = s
          /\ requests'[r].key = key /\ requests'[r].preview = p /\ requests'[r].reason = reason
      BY <2>6
    <3>2. NamesAll(r)' /\ LocksLate(r)' /\ DecisionStands(r)'
      BY <1>1, <2>7, <3>1 DEF NamesAll, LocksLate, DecisionStands
    <3>3. RefusalStands(r)'
      BY <2>1, <3>1 DEF RefusalStands, PauseRefused
    <3> QED
      BY <3>2, <3>3 DEF RequestStands
  <2>9. ~requests'[r].locked
    BY <2>6
  <2> HIDE DEF x
  <2> QED
    BY <1>1, <2>1, <2>5, <2>6, <2>8, <2>9, RequestStep
<1>4. \/ \E e \in ledger : Replay(e, p) /\ UNCHANGED requests
      \/ \E stage \in {"lock", "refuse"}, reason \in {"none", "preview_invalid", "preview_expired"} :
              /\ requests' = [requests EXCEPT ![r] =
                    [stage |-> stage, locked |-> FALSE, session |-> s, key |-> key,
                     preview |-> p, stamp |-> now, reason |-> reason]]
              /\ stage = "refuse" => reason # "none"
              /\ UNCHANGED answers
  BY DEF Serve, Stored
<1> QED
  BY <1>2, <1>3, <1>4

\* Without blockers the transition is legal.
LEMMA NothingAgainst ==
    ASSUME NEW t \in Targets, NEW to, NEW stamp, Evidence(t, to, stamp).blockers = {}
    PROVE  LegalTransition(t, rows[t].lifecycle, to)
<1>1. CASE t \in Plans
  BY <1>1 DEF Evidence, PlanEvidence, PlanBlockers
<1>2. CASE t \notin Plans /\ t \in Descriptors
  BY <1>2 DEF Evidence, DescriptorEvidence, DescriptorBlockers
<1>3. CASE t \notin Plans /\ t \notin Descriptors
  BY <1>3 DEF Evidence, ProviderEvidence, ProviderBlockers
<1> QED
  BY <1>1, <1>2, <1>3

\* Refusing a request.
LEMMA RefusedRecord ==
    ASSUME Types, NEW r \in Requests, NEW locked \in BOOLEAN,
           NEW reason \in {"preview_stale", "preview_not_applicable", "resource_version_conflict"},
           Refused(r, reason, locked)
    PROVE  /\ requests' \in [Requests -> RequestRecord]
           /\ requests'[r].stage = "refuse" /\ requests'[r].reason = reason
           /\ requests'[r].locked = locked
           /\ requests'[r].preview = requests[r].preview
           /\ requests'[r].session = requests[r].session
           /\ requests'[r].key = requests[r].key
           /\ \A q \in Requests \ {r} : requests'[q] = requests[q]
<1> PICK old \in RequestRecord : old = requests[r]
  BY DEF Types
<1> DEFINE one == [old EXCEPT !.stage = "refuse"]
<1> DEFINE two == [one EXCEPT !.reason = reason]
<1> DEFINE new == [two EXCEPT !.locked = locked]
<1>1. /\ one \in RequestRecord /\ one.stage = "refuse" /\ one.preview = old.preview
      /\ one.session = old.session /\ one.key = old.key
  BY DEF RequestRecord
<1>2. /\ two \in RequestRecord /\ two.stage = "refuse" /\ two.preview = old.preview
      /\ two.session = old.session /\ two.key = old.key /\ two.reason = reason
  <2> HIDE DEF one
  <2> QED
    BY <1>1 DEF RequestRecord
<1>3. /\ new \in RequestRecord /\ new.stage = "refuse" /\ new.preview = old.preview
      /\ new.session = old.session /\ new.key = old.key /\ new.reason = reason
      /\ new.locked = locked
  <2> HIDE DEF two
  <2> QED
    BY <1>2 DEF RequestRecord
<1>4. requests' = [requests EXCEPT ![r] = new]
  BY DEF Refused, Types
<1> HIDE DEF new
<1> QED
  BY <1>3, <1>4 DEF Types

\* Letting it go on to its commit.
LEMMA LetThrough ==
    ASSUME Types, NEW r \in Requests,
           requests' = [requests EXCEPT ![r].stage = "commit", ![r].locked = TRUE]
    PROVE  /\ requests' \in [Requests -> RequestRecord]
           /\ requests'[r].stage = "commit" /\ requests'[r].locked
           /\ requests'[r].preview = requests[r].preview
           /\ requests'[r].session = requests[r].session
           /\ requests'[r].key = requests[r].key
           /\ \A q \in Requests \ {r} : requests'[q] = requests[q]
<1> PICK old \in RequestRecord : old = requests[r]
  BY DEF Types
<1> DEFINE one == [old EXCEPT !.stage = "commit"]
<1> DEFINE new == [one EXCEPT !.locked = TRUE]
<1>1. /\ one \in RequestRecord /\ one.stage = "commit" /\ one.preview = old.preview
      /\ one.session = old.session /\ one.key = old.key
  BY DEF RequestRecord
<1>2. /\ new \in RequestRecord /\ new.stage = "commit" /\ new.preview = old.preview
      /\ new.session = old.session /\ new.key = old.key /\ new.locked
  <2> HIDE DEF one
  <2> QED
    BY <1>1 DEF RequestRecord
<1>3. requests' = [requests EXCEPT ![r] = new]
  BY DEF Types
<1> HIDE DEF new
<1> QED
  BY <1>2, <1>3 DEF Types

LEMMA DecideStep ==
    ASSUME Invariants, NEW r \in Requests, NEW tolerated \in BOOLEAN,
           requests[r].stage = "lock", Decide(r, tolerated),
           Desired(r) = "paused" => tolerated
    PROVE  Invariants'
<1> USE DEF Invariants
<1> DEFINE v == previews[requests[r].preview]
           current == Evidence(v.target, v.to, requests[r].stamp)
<1>1. /\ UNCHANGED <<rows, used, reports, settings, now, sessions, previews, ledger, answers>>
      /\ Unlocked(Target(r))
  BY DEF Decide, Target
<1>2. NamesAll(r) /\ ~requests[r].locked
  BY DEF RequestsStand, RequestStands, LocksLate
<1>3. requests[r].preview \in DOMAIN previews /\ PreviewStands(v)
  BY <1>2 DEF NamesAll, PreviewsStand
<1>4. /\ Target(r) = v.target /\ Desired(r) = v.to
      /\ v.target \in Targets /\ v.to \in DesiredOf(v.target)
      /\ v.version \in Nat /\ rows[v.target].version \in Nat
      /\ v.version <= rows[v.target].version
  BY <1>3 DEF Target, Desired, PreviewStands, Types, RowsTypeOK
\* What the move of r has to keep.
<1>5. ASSUME requests' \in [Requests -> RequestRecord],
             requests'[r].stage \in {"commit", "refuse"}, requests'[r].locked,
             requests'[r].preview = requests[r].preview,
             requests'[r].session = requests[r].session,
             requests'[r].key = requests[r].key,
             \A q \in Requests \ {r} : requests'[q] = requests[q],
             requests'[r].stage = "commit" =>
                /\ rows[v.target].version = v.version
                /\ LegalTransition(v.target, rows[v.target].lifecycle, v.to),
             requests'[r].stage = "refuse" /\ v.to = "paused" /\ v.evidence.blockers = {}
                => /\ requests'[r].reason = "resource_version_conflict"
                   /\ rows[v.target].version > v.version
      PROVE  Invariants'
  <2>1. Types'
    BY <1>1, <1>5 DEF Types, RowsTypeOK
  <2>2. Grows
    BY <1>1 DEF Grows
  <2>3. /\ NamesAll(r)'
        /\ Target(r)' = Target(r) /\ Desired(r)' = Desired(r)
        /\ previews'[requests'[r].preview] = previews[requests[r].preview]
    BY <1>2, <1>5, <2>2, SameRequest
  <2>4. LocksLate(r)'
    BY <1>5 DEF LocksLate
  <2>5. DecisionStands(r)'
    BY <1>1, <1>4, <1>5, <2>3 DEF DecisionStands, LegalTransition
  <2>6. RefusalStands(r)'
    BY <1>1, <1>4, <1>5, <2>3 DEF RefusalStands, PauseRefused
  <2>7. \A q \in Requests \ {r} : requests[q].locked => Target(q) # Target(r)'
    BY <1>1, <2>3 DEF Unlocked
  <2> QED
    BY <1>1, <1>5, <2>1, <2>3, <2>4, <2>5, <2>6, <2>7, RequestStep DEF RequestStands
<1>6. CASE rows[v.target].version # v.version
  <2>1. Refused(r, "resource_version_conflict", TRUE)
    BY <1>6 DEF Decide
  <2>2. rows[v.target].version > v.version
    BY <1>4, <1>6
  <2> HIDE DEF v, current
  <2> QED
    BY <1>5, <2>1, <2>2, RefusedRecord
<1>7. CASE rows[v.target].version = v.version /\ current # v.evidence /\ ~tolerated
  <2>1. Refused(r, "preview_stale", TRUE)
    BY <1>7 DEF Decide
  <2>2. v.to # "paused"
    BY <1>4, <1>7
  <2> HIDE DEF v, current
  <2> QED
    BY <1>5, <2>1, <2>2, RefusedRecord
<1>8. CASE /\ rows[v.target].version = v.version /\ ~(current # v.evidence /\ ~tolerated)
           /\ current.blockers # {}
  <2>1. Refused(r, "preview_not_applicable", TRUE)
    BY <1>8 DEF Decide
  <2>2. ~(v.to = "paused" /\ v.evidence.blockers = {})
    <3> SUFFICES ASSUME v.to = "paused", v.evidence.blockers = {} PROVE FALSE
      OBVIOUS
    <3>1. rows[v.target].lifecycle = "active"
      BY <1>3, <1>8 DEF PreviewStands
    <3>2. "paused" \in DesiredOf(v.target) /\ v.target \in Targets
      BY <1>4
    <3>3. Evidence(v.target, "paused", requests[r].stamp).blockers = {}
      BY <3>1, <3>2, PauseEvidence
    <3> QED
      BY <1>8, <3>3
  <2> HIDE DEF v, current
  <2> QED
    BY <1>5, <2>1, <2>2, RefusedRecord
<1>9. CASE /\ rows[v.target].version = v.version /\ ~(current # v.evidence /\ ~tolerated)
           /\ current.blockers = {}
  <2>1. requests' = [requests EXCEPT ![r].stage = "commit", ![r].locked = TRUE]
    BY <1>9 DEF Decide
  <2>2. LegalTransition(v.target, rows[v.target].lifecycle, v.to)
    BY <1>4, <1>9, NothingAgainst
  <2> HIDE DEF v, current
  <2> QED
    BY <1>5, <1>9, <2>1, <2>2, LetThrough
<1> QED
  BY <1>6, <1>7, <1>8, <1>9

\* What a request in progress is about.
LEMMA RequestFacts ==
    ASSUME Invariants, NEW r \in Requests, requests[r].stage # "idle"
    PROVE  /\ requests[r].preview \in DOMAIN previews
           /\ PreviewStands(previews[requests[r].preview])
           /\ Target(r) \in Targets /\ Desired(r) \in DesiredOf(Target(r))
           /\ previews[requests[r].preview].version \in Nat
           /\ rows[Target(r)].version \in Nat
           /\ Caller(r) \in Operators /\ requests[r].key \in Keys
<1> USE DEF Invariants
<1>1. NamesAll(r)
  BY DEF RequestsStand, RequestStands
<1>2. requests[r].preview \in DOMAIN previews /\ PreviewStands(previews[requests[r].preview])
  BY <1>1 DEF NamesAll, PreviewsStand
<1>3. Caller(r) \in Operators
  BY <1>1 DEF NamesAll, SessionsKnown, Caller
<1> QED
  BY <1>1, <1>2, <1>3 DEF NamesAll, PreviewStands, Target, Desired, Types, RowsTypeOK

\* The ledger with one entry more, under a name of its own.
LEMMA EntryAdded ==
    ASSUME Invariants, Grows, previews' = previews, NEW r \in Requests, requests[r].stage # "idle",
           Previous(r) = {},
           NEW outcome, NEW reason, NEW e, e = Entry(r, outcome, reason),
           ledger' = ledger \cup {e},
           answers' = answers \cup {Answer(e, Caller(r), e.key, e.preview)}
    PROVE  EntriesStand' /\ OneEntryPerName' /\ AnswersStand'
<1> USE DEF Invariants
<1>1. /\ e.operator = Caller(r) /\ e.operation = Operation(Target(r)) /\ e.key = requests[r].key
      /\ e.preview = requests[r].preview /\ e.target = Target(r) /\ e.to = Desired(r)
      /\ e.version = previews[requests[r].preview].version
  BY DEF Entry
<1>2. EntryStands(e)
  BY <1>1, RequestFacts DEF EntryStands, Target, Desired
<1>3. EntriesStand'
  BY <1>2, EntriesStay DEF EntriesStand
<1>4. \A f \in ledger : ~SameKey(f, e.operator, e.operation, e.key)
  BY <1>1 DEF Previous, Stored
<1>5. OneEntryPerName'
  BY <1>4 DEF OneEntryPerName, SameKey
<1>6. AnswersStand'
  BY <1>1 DEF AnswersStand, AnswerStands, Answer
<1> QED
  BY <1>3, <1>5, <1>6

LEMMA RejectStep ==
    ASSUME Invariants, NEW r \in Requests, requests[r].stage = "refuse", RecordRejection(r)
    PROVE  Invariants'
<1> USE DEF Invariants
<1>1. /\ UNCHANGED <<rows, used, reports, settings, now, sessions, previews>>
      /\ requests' = [requests EXCEPT ![r] = Idle]
  BY DEF RecordRejection, Ended
<1>2. /\ requests'[r] = Idle /\ \A q \in Requests \ {r} : requests'[q] = requests[q]
      /\ Types'
  BY <1>1, IdleTyped DEF Types, RowsTypeOK
<1>3. CASE (\E e \in Previous(r) : Replay(e, requests[r].preview)) /\ UNCHANGED ledger
  <2>1. \A a \in answers' \ answers : AnswerStands(a)
    BY <1>3 DEF Replay, Answer, AnswerStands, Previous, Stored
  <2>2. Grows
    BY <1>1, <1>3 DEF Grows
  <2>3. SessionsKnown' /\ PreviewsStand'
    BY <1>1, <1>2, <2>2, SamePreviews DEF SessionsKnown
  <2> QED
    BY <1>1, <1>2, <1>3, <2>1, <2>2, <2>3, QuietStep
<1>4. CASE /\ Previous(r) = {}
           /\ LET e == Entry(r, "rejected", requests[r].reason)
              IN /\ ledger' = ledger \cup {e}
                 /\ answers' = answers \cup {Answer(e, Caller(r), e.key, e.preview)}
  <2>1. PICK e : /\ e = Entry(r, "rejected", requests[r].reason)
                 /\ ledger' = ledger \cup {e}
                 /\ answers' = answers \cup {Answer(e, Caller(r), e.key, e.preview)}
    BY <1>4
  <2>2. Grows
    BY <1>1, <2>1 DEF Grows
  <2>3. SessionsKnown' /\ PreviewsStand'
    BY <1>1, <1>2, <2>2, SamePreviews DEF SessionsKnown
  <2>4. RequestsStand'
    <3> SUFFICES ASSUME NEW q \in Requests PROVE RequestStands(q)'
      BY DEF RequestsStand
    <3> QED
      BY <1>1, <1>2, <2>2, OthersStand DEF RequestsStand
  <2>5. LocksExclude'
    BY <1>2, <2>2, LocksStay DEF Idle
  <2>6. EntriesStand' /\ OneEntryPerName' /\ AnswersStand'
    BY <1>1, <1>4, <2>1, <2>2, EntryAdded
  <2>7. e.outcome = "rejected" /\ EntryStands(e)'
    <3>1. EntryStands(e)'
      BY <2>1, <2>6 DEF EntriesStand
    <3> QED
      BY <2>1, <3>1 DEF Entry
  <2>8. RowsExplained'
    BY <1>1, <2>1, <2>7, RowsStay DEF Accepted
  <2>9. PauseWell(e)
    <3>1. /\ e.to = Desired(r) /\ e.preview = requests[r].preview /\ e.target = Target(r)
          /\ e.reason = requests[r].reason
          /\ e.version = previews[requests[r].preview].version
      BY <2>1 DEF Entry
    <3>2. RefusalStands(r)
      BY DEF RequestsStand, RequestStands
    <3> QED
      BY <1>4, <3>1, <3>2 DEF PauseWell, RefusalStands, PauseRefused
  <2>10. PauseSurvivesDrift'
    <3> SUFFICES ASSUME NEW f \in ledger' PROVE PauseWell(f)'
      BY DEF PauseSurvivesDrift, PauseWell
    <3>1. CASE f \in ledger
      BY <1>2, <2>2, <3>1, PausesStay DEF EntriesStand, PauseSurvivesDrift, PauseWell
    <3>2. CASE f = e
      BY <1>1, <2>9, <3>2 DEF PauseWell
    <3> QED
      BY <2>1, <3>1, <3>2
  <2>11. OneActivePlan'
    BY <1>1 DEF OneActivePlan
  <2> QED
    BY <1>2, <2>3, <2>4, <2>5, <2>6, <2>8, <2>10, <2>11
<1> QED
  BY <1>3, <1>4 DEF RecordRejection

\* The entry of an applied change is the next of its row.
LEMMA RowMoved ==
    ASSUME Types, RowsExplained, NEW t \in Targets, NEW e,
           e.target = t, e.version = rows[t].version, e.from = rows[t].lifecycle,
           Accepted' = Accepted \cup {e},
           rows' = [rows EXCEPT ![t] = [lifecycle |-> e.to, version |-> rows[t].version + 1]]
    PROVE  RowsExplained'
<1>1. rows[t].version \in Nat /\ VersionAtStart(t) \in Nat /\ VersionAtStart(t) <= rows[t].version
  BY DEF Types, RowsTypeOK, RowsExplained, RowExplained, VersionAtStart
<1>2. rows'[t] = [lifecycle |-> e.to, version |-> rows[t].version + 1]
  BY DEF Types, RowsTypeOK
<1>3. \A u \in Targets \ {t} : rows'[u] = rows[u] /\ Led(u)' = Led(u)
  BY DEF Types, RowsTypeOK, Led
<1>4. \A u \in Targets \ {t} : RowExplained(u)'
  <2> SUFFICES ASSUME NEW u \in Targets \ {t} PROVE RowExplained(u)'
    OBVIOUS
  <2> QED
    BY <1>3 DEF RowsExplained, RowExplained
<1>5. Led(t)' = Led(t) \cup {e}
  BY DEF Led
<1>6. RowExplained(t)
  BY DEF RowsExplained
<1>7. \A f \in Led(t) : f.version \in VersionAtStart(t) .. (rows[t].version - 1)
  BY <1>6 DEF RowExplained
<1>8. {f.version : f \in Led(t)'} = VersionAtStart(t) .. (rows'[t].version - 1)
  <2>1. {f.version : f \in Led(t)'} = (VersionAtStart(t) .. (rows[t].version - 1)) \cup {rows[t].version}
    BY <1>5, <1>6 DEF RowExplained
  <2> QED
    BY <1>1, <1>2, <2>1
<1>9. \A f, g \in Led(t)' : /\ f.version = g.version => f = g
                            /\ g.version = f.version + 1 => g.from = f.to
  <2>1. ASSUME NEW f \in Led(t)
        PROVE  f.version # rows[t].version /\ rows[t].version + 1 # f.version
               /\ (rows[t].version = f.version + 1 => rows[t].lifecycle = f.to)
    <3>1. f.version \in VersionAtStart(t) .. (rows[t].version - 1)
      BY <1>7
    <3>2. f.version = rows[t].version - 1 => rows[t].lifecycle = f.to
      BY <1>6 DEF RowExplained
    <3> QED
      BY <1>1, <3>1, <3>2
  <2>2. rows[t].version # rows[t].version + 1
    BY <1>1
  <2> QED
    BY <1>5, <1>6, <2>1, <2>2 DEF RowExplained
<1>10. \A f \in Led(t)' : /\ f.version = VersionAtStart(t) => f.from = LifecycleAtStart[t]
                          /\ f.version = rows'[t].version - 1 => rows'[t].lifecycle = f.to
  <2>1. ASSUME NEW f \in Led(t)
        PROVE  /\ f.version = VersionAtStart(t) => f.from = LifecycleAtStart[t]
               /\ f.version # rows'[t].version - 1
    <3>1. f.version \in VersionAtStart(t) .. (rows[t].version - 1)
      BY <1>7
    <3>2. f.version = VersionAtStart(t) => f.from = LifecycleAtStart[t]
      BY <1>6 DEF RowExplained
    <3> QED
      BY <1>1, <1>2, <3>1, <3>2
  <2>2. e.version = VersionAtStart(t) => e.from = LifecycleAtStart[t]
    BY <1>6 DEF RowExplained
  <2>3. rows'[t].lifecycle = e.to
    BY <1>2
  <2> QED
    BY <1>5, <2>1, <2>2, <2>3
<1>11. VersionAtStart(t) <= rows'[t].version /\ rows'[t].version # VersionAtStart(t)
  BY <1>1, <1>2
<1>12. RowExplained(t)'
  BY <1>8, <1>9, <1>10, <1>11 DEF RowExplained
<1> QED
  BY <1>4, <1>12 DEF RowsExplained

LEMMA WriteStep ==
    ASSUME Invariants, NEW r \in Requests, NEW conflict \in BOOLEAN,
           requests[r].stage = "commit", Write(r, conflict),
           Previous(r) # {} => conflict,
           conflict => Previous(r) # {} \/ Desired(r) = "active",
           Target(r) \in Plans /\ Desired(r) = "active" /\ OtherActivePlan(Target(r)) => conflict
    PROVE  Invariants'
<1> USE DEF Invariants
<1>1. UNCHANGED <<used, reports, settings, now, sessions, previews>>
  BY DEF Write
<1>2. /\ Target(r) \in Targets /\ Desired(r) \in DesiredOf(Target(r))
      /\ previews[requests[r].preview].version \in Nat
      /\ rows[Target(r)].version \in Nat
  BY RequestFacts
<1>3. DecisionStands(r) /\ LocksLate(r) /\ NamesAll(r)
  BY DEF RequestsStand, RequestStands
<1>4. CASE conflict
  <2>1. Refused(r, "resource_version_conflict", FALSE) /\ UNCHANGED <<rows, ledger, answers>>
    BY <1>4 DEF Write
  <2>2. /\ requests' \in [Requests -> RequestRecord]
        /\ requests'[r].stage = "refuse" /\ requests'[r].reason = "resource_version_conflict"
        /\ ~requests'[r].locked
        /\ requests'[r].preview = requests[r].preview
        /\ requests'[r].session = requests[r].session
        /\ requests'[r].key = requests[r].key
        /\ \A q \in Requests \ {r} : requests'[q] = requests[q]
    BY <2>1, RefusedRecord
  <2>3. Types'
    BY <1>1, <2>1, <2>2 DEF Types, RowsTypeOK
  <2>4. Grows
    BY <1>1, <2>1 DEF Grows
  <2>5. /\ NamesAll(r)' /\ Desired(r)' = Desired(r)
        /\ Previous(r) \subseteq Previous(r)'
    BY <1>3, <2>2, <2>4, SameRequest
  <2>6. LocksLate(r)' /\ DecisionStands(r)'
    BY <2>2 DEF LocksLate, DecisionStands
  <2>7. RefusalStands(r)'
    <3>1. Desired(r)' = "paused" => Previous(r)' # {}
      BY <1>4, <2>5
    <3> QED
      BY <2>2, <3>1 DEF RefusalStands, PauseRefused
  <2> QED
    BY <1>1, <2>1, <2>2, <2>3, <2>5, <2>6, <2>7, RequestStep DEF RequestStands
<1>5. CASE ~conflict
  <2>1. PICK e : /\ e = Entry(r, "accepted", "lifecycle_changed")
                 /\ rows' = [rows EXCEPT ![Target(r)] =
                        [lifecycle |-> Desired(r), version |-> @.version + 1]]
                 /\ ledger' = ledger \cup {e}
                 /\ answers' = answers \cup {Answer(e, Caller(r), e.key, e.preview)}
                 /\ requests' = [requests EXCEPT ![r] = Idle]
    BY <1>5 DEF Write, Ended
  <2>2. PICK t \in Targets : t = Target(r)
    BY <1>2
  <2>3. Desired(r) \in Lifecycles
    BY <1>2 DEF DesiredOf, Lifecycles
  <2>4. /\ rows' = [rows EXCEPT ![t] = [lifecycle |-> Desired(r), version |-> rows[t].version + 1]]
        /\ rows'[t] = [lifecycle |-> Desired(r), version |-> rows[t].version + 1]
        /\ \A u \in Targets \ {t} : rows'[u] = rows[u]
    BY <2>1, <2>2 DEF Types, RowsTypeOK
  <2>5. rows' \in [Targets -> [lifecycle : Lifecycles, version : Nat]]
    BY <1>2, <2>2, <2>3, <2>4 DEF Types, RowsTypeOK
  <2>6. /\ requests'[r] = Idle /\ \A q \in Requests \ {r} : requests'[q] = requests[q]
        /\ requests' \in [Requests -> RequestRecord]
    BY <2>1, IdleTyped DEF Types
  <2>7. Types'
    BY <1>1, <2>5, <2>6 DEF Types, RowsTypeOK
  <2>8. Grows
    <3>1. rows'[t].version > rows[t].version
      BY <1>2, <2>2, <2>4
    <3> QED
      BY <1>1, <2>1, <2>4, <3>1 DEF Grows
  <2>9. SessionsKnown' /\ PreviewsStand'
    BY <1>1, <2>7, <2>8, SamePreviews DEF SessionsKnown
  <2>10. RequestsStand'
    <3> SUFFICES ASSUME NEW q \in Requests PROVE RequestStands(q)'
      BY DEF RequestsStand
    <3>1. CASE q = r
      BY <2>6, <2>7, <2>8, <3>1, OthersStand DEF RequestsStand
    <3>2. CASE q # r
      <4>1. requests[q].stage = "commit" => Target(q) # t
        BY <1>3, <2>2, <3>2 DEF LocksExclude, RequestsStand, RequestStands, LocksLate
      <4>2. requests[q].stage = "commit" => Target(q) \in Targets
        BY RequestFacts
      <4>3. requests[q].stage = "commit" => rows'[Target(q)] = rows[Target(q)]
        BY <2>4, <4>1, <4>2
      <4> QED
        BY <2>6, <2>7, <2>8, <3>2, <4>3, OthersStand DEF RequestsStand
    <3> QED
      BY <3>1, <3>2
  <2>11. LocksExclude'
    BY <2>6, <2>8, LocksStay DEF Idle
  <2>12. EntriesStand' /\ OneEntryPerName' /\ AnswersStand'
    BY <1>1, <1>5, <2>1, <2>8, EntryAdded
  <2>13. /\ e.outcome = "accepted" /\ e.target = t /\ e.to = Desired(r)
         /\ e.from = rows[t].lifecycle /\ e.version = rows[t].version
    BY <1>3, <2>1, <2>2 DEF Entry, DecisionStands
  <2>14. RowsExplained'
    <3>1. Accepted' = Accepted \cup {e}
      BY <2>1, <2>13 DEF Accepted
    <3> QED
      BY <2>2, <2>4, <2>13, <3>1, RowMoved
  <2>15. PauseSurvivesDrift'
    <3> SUFFICES ASSUME NEW f \in ledger' PROVE PauseWell(f)'
      BY DEF PauseSurvivesDrift, PauseWell
    <3>1. CASE f \in ledger
      BY <2>7, <2>8, <3>1, PausesStay DEF EntriesStand, PauseSurvivesDrift, PauseWell
    <3>2. CASE f = e
      BY <2>13, <3>2 DEF PauseWell
    <3> QED
      BY <2>1, <3>1, <3>2
  <2>16. OneActivePlan'
    <3> SUFFICES ASSUME NEW p \in Plans, NEW q \in Plans, p # q,
                        rows'[p].lifecycle = "active", rows'[q].lifecycle = "active"
                 PROVE  FALSE
      BY DEF OneActivePlan
    <3>1. p \in Targets /\ q \in Targets
      BY DEF Targets
    <3>2. CASE p # t /\ q # t
      BY <2>4, <3>1, <3>2 DEF OneActivePlan
    <3>3. CASE p = t \/ q = t
      <4>1. Desired(r) = "active" /\ t \in Plans /\ OtherActivePlan(t)
        BY <2>4, <3>1, <3>3 DEF OtherActivePlan
      <4> QED
        BY <1>5, <2>2, <4>1
    <3> QED
      BY <3>2, <3>3
  <2> QED
    BY <2>7, <2>9, <2>10, <2>11, <2>12, <2>14, <2>15, <2>16
<1> QED
  BY <1>4, <1>5

LEMMA ApplyStep ==
    ASSUME Invariants, NEW r \in Requests, NEW s \in Sessions, NEW k \in Keys,
           NEW p \in DOMAIN previews,
           ApplyPlan(r, s, k, p) \/ ApplyDescriptor(r, s, k, p) \/ ApplyProvider(r, s, k, p)
    PROVE  Invariants'
<1>1. Usable(s) /\ Serve(r, s, k, p)
  BY DEF ApplyPlan, ApplyDescriptor, ApplyProvider
<1> QED
  BY <1>1, ServeStep

LEMMA LockStep ==
    ASSUME Invariants, NEW r \in Requests, LockPlan(r) \/ LockDescriptor(r) \/ LockProvider(r)
    PROVE  Invariants'
<1>1. requests[r].stage = "lock"
  BY DEF LockPlan, LockDescriptor, LockProvider
<1>2. Desired(r) \in DesiredOf(Target(r))
  BY <1>1, RequestFacts
<1>3. CASE LockPlan(r)
  BY <1>1, <1>3, DecideStep DEF LockPlan
<1>4. CASE LockDescriptor(r) \/ LockProvider(r)
  <2>1. Decide(r, FALSE) /\ Target(r) \notin Plans
    BY <1>4, RowsAssumption DEF LockDescriptor, LockProvider
  <2>2. Desired(r) # "paused"
    BY <1>2, <2>1 DEF DesiredOf
  <2> QED
    BY <1>1, <2>1, <2>2, DecideStep
<1> QED
  BY <1>3, <1>4

\* The write every commit step is.
CommitWrites(r, conflict) ==
    /\ requests[r].stage = "commit" /\ Write(r, conflict)
    /\ Previous(r) # {} => conflict
    /\ conflict => Previous(r) # {} \/ Desired(r) = "active"
    /\ Target(r) \in Plans /\ Desired(r) = "active" /\ OtherActivePlan(Target(r)) => conflict

LEMMA CommitIsWrite ==
    ASSUME NEW r \in Requests, CommitPlan(r) \/ CommitDescriptor(r) \/ CommitProvider(r)
    PROVE  \E conflict \in BOOLEAN : CommitWrites(r, conflict)
<1>1. CASE CommitPlan(r)
  <2> DEFINE conflict == \/ Previous(r) # {}
                         \/ Desired(r) = "active" /\ OtherActivePlan(Target(r))
  <2>1. conflict \in BOOLEAN
    OBVIOUS
  <2>2. requests[r].stage = "commit" /\ Write(r, conflict)
    BY <1>1 DEF CommitPlan
  <2>3. CommitWrites(r, conflict)
    BY <2>2 DEF CommitWrites
  <2> HIDE DEF conflict
  <2> QED
    BY <2>1, <2>3
<1>2. CASE CommitDescriptor(r) \/ CommitProvider(r)
  <2> DEFINE conflict == Previous(r) # {}
  <2>1. conflict \in BOOLEAN
    OBVIOUS
  <2>2. requests[r].stage = "commit" /\ Write(r, conflict) /\ Target(r) \notin Plans
    BY <1>2, RowsAssumption DEF CommitDescriptor, CommitProvider
  <2>3. CommitWrites(r, conflict)
    BY <2>2 DEF CommitWrites
  <2> HIDE DEF conflict
  <2> QED
    BY <2>1, <2>3
<1> QED
  BY <1>1, <1>2

LEMMA Initially == Init => Invariants
<1> SUFFICES ASSUME Init PROVE Invariants
  OBVIOUS
<1>1. /\ requests = [r \in Requests |-> Idle] /\ previews = <<>> /\ ledger = {} /\ answers = {}
      /\ sessions = [s \in Sessions |-> NoSession] /\ now = 0 /\ RowsInit
  BY DEF Init
<1>2. \A t \in Targets : /\ rows[t].lifecycle = LifecycleAtStart[t]
                         /\ rows[t].version = VersionAtStart(t)
                         /\ VersionAtStart(t) \in Nat
  BY <1>1 DEF RowsInit, VersionAtStart
<1>3. rows \in [Targets -> [lifecycle : Lifecycles, version : Nat]]
  BY <1>1, <1>2, RowsAssumption DEF RowsInit, Lifecycles
<1>4. RowsTypeOK
  BY <1>1, <1>3 DEF RowsTypeOK, RowsInit, Modes
<1>5. sessions \in [Sessions -> SessionRecord]
  BY <1>1 DEF NoSession, SessionRecord
<1>6. previews \in Seq({previews[i] : i \in DOMAIN previews})
  BY <1>1
<1>7. requests \in [Requests -> RequestRecord]
  BY <1>1, IdleTyped
<1>8. Types
  BY <1>1, <1>4, <1>5, <1>6, <1>7 DEF Types
<1>9. SessionsKnown /\ PreviewsStand
  BY <1>1 DEF SessionsKnown, NoSession, PreviewsStand
<1>10. RequestsStand /\ LocksExclude
  BY <1>1 DEF RequestsStand, RequestStands, NamesAll, LocksLate, DecisionStands, RefusalStands,
              LocksExclude, Idle
<1>11. EntriesStand /\ OneEntryPerName /\ AnswersStand /\ PauseSurvivesDrift
  BY <1>1 DEF EntriesStand, OneEntryPerName, AnswersStand, PauseSurvivesDrift
<1>12. RowsExplained
  <2> SUFFICES ASSUME NEW t \in Targets PROVE RowExplained(t)
    BY DEF RowsExplained
  <2>1. Led(t) = {}
    BY <1>1 DEF Led, Accepted
  <2>2. VersionAtStart(t) .. (rows[t].version - 1) = {}
    BY <1>2
  <2>3. VersionAtStart(t) <= rows[t].version
    BY <1>2
  <2> QED
    BY <1>2, <2>1, <2>2, <2>3 DEF RowExplained
<1>13. OneActivePlan
  BY <1>2, RowsAssumption DEF OneActivePlan, Targets
<1> QED
  BY <1>8, <1>9, <1>10, <1>11, <1>12, <1>13 DEF Invariants

\* An operator asks only for what the target can become.
LEMMA AskedFacts ==
    ASSUME NEW c \in Asked
    PROVE  c[1] \in Targets /\ c[2] \in DesiredOf(c[1])
BY MutationsAssumption

LEMMA Step == Invariants /\ [Next]_vars => Invariants'
<1> SUFFICES ASSUME Invariants, [Next]_vars PROVE Invariants'
  OBVIOUS
<1>1. CASE UNCHANGED vars
  <2>1. /\ UNCHANGED <<rows, used, reports, settings, now, sessions, previews, requests,
                       ledger, answers>>
    BY <1>1 DEF vars
  <2>2. Types'
    BY <2>1 DEF Invariants, Types, RowsTypeOK
  <2>3. Grows
    BY <2>1 DEF Grows
  <2>4. SessionsKnown' /\ PreviewsStand'
    BY <2>1, <2>2, <2>3, SamePreviews DEF Invariants, SessionsKnown
  <2> QED
    BY <2>1, <2>2, <2>3, <2>4, QuietStep
<1>2. CASE \E s \in Sessions : (\E op \in Operators : Login(s, op)) \/ Reauthenticate(s) \/ Logout(s)
  BY <1>2, SessionSteps
<1>3. CASE \E s \in Sessions, c \in Asked :
              \/ c[1] \in Plans /\ PreviewPlan(s, c[1], c[2])
              \/ c[1] \in Descriptors /\ PreviewDescriptor(s, c[1], c[2])
              \/ c[1] \in Providers /\ PreviewProvider(s, c[1], c[2])
  <2>1. PICK s \in Sessions, c \in Asked : StorePreview(s, c[1], c[2])
    BY <1>3 DEF PreviewPlan, PreviewDescriptor, PreviewProvider
  <2>2. c[1] \in Targets /\ c[2] \in DesiredOf(c[1])
    BY AskedFacts
  <2> QED
    BY <2>1, <2>2, PreviewStep
<1>4. CASE \E r \in Requests, s \in Sessions, k \in Keys, p \in DOMAIN previews :
              ApplyPlan(r, s, k, p) \/ ApplyDescriptor(r, s, k, p) \/ ApplyProvider(r, s, k, p)
  BY <1>4, ApplyStep
<1>5. CASE \E r \in Requests : LockPlan(r) \/ LockDescriptor(r) \/ LockProvider(r)
  BY <1>5, LockStep
<1>6. CASE \E r \in Requests : CommitPlan(r) \/ CommitDescriptor(r) \/ CommitProvider(r)
  <2>1. PICK r \in Requests, conflict \in BOOLEAN : CommitWrites(r, conflict)
    BY <1>6, CommitIsWrite
  <2> QED
    BY <2>1, WriteStep DEF CommitWrites
<1>7. CASE \E r \in Requests : RejectPlan(r) \/ RejectDescriptor(r) \/ RejectProvider(r)
  BY <1>7, RejectStep DEF RejectPlan, RejectDescriptor, RejectProvider
<1>8. CASE Crash
  BY <1>8, CrashStep
<1>9. CASE Tick \/ Drift
  BY <1>9, FactSteps
<1> QED
  BY <1>1, <1>2, <1>3, <1>4, <1>5, <1>6, <1>7, <1>8, <1>9 DEF Next

\* The inductive invariant holds in every reachable state.
THEOREM Invariant == Spec => []Invariants
BY Initially, Step, PTL DEF Spec

-------------------------------------------------------------------------------
(* What follows from it.                                                     *)

\* Every answer given under a name is about the one entry stored for it: answers
\* quote entries of the ledger, which has one for every operator, operation and
\* key (rollout_mutations.py:584-685, 899-918).
THEOREM EveryKeyHasOneAnswer == Spec => []OneAnswerPerKey
<1>1. Invariants => OneAnswerPerKey
  BY DEF Invariants, AnswersStand, AnswerStands, OneEntryPerName, SameKey, OneAnswerPerKey
<1> QED
  BY <1>1, Invariant, PTL

\* No update of a row is lost or made up: its version and lifecycle are those its
\* accepted mutations lead to, one after the other (rollout_mutations.py:762-897).
THEOREM LedgerAlwaysExplainsRows == Spec => []LedgerExplainsRows
<1>1. Invariants => LedgerExplainsRows
  <2> SUFFICES ASSUME Invariants, NEW t \in Targets
               PROVE  /\ {e.version : e \in Led(t)} = VersionAtStart(t) .. (rows[t].version - 1)
                      /\ \A e, f \in Led(t) :
                            /\ e.version = f.version => e = f
                            /\ f.version = e.version + 1 => f.from = e.to
                      /\ \A e \in Led(t) : e.version = VersionAtStart(t) => e.from = LifecycleAtStart[t]
                      /\ rows[t].lifecycle =
                            IF Led(t) = {} THEN LifecycleAtStart[t]
                            ELSE (CHOOSE e \in Led(t) : e.version = rows[t].version - 1).to
    BY DEF LedgerExplainsRows, Led
  <2>1. RowExplained(t) /\ rows[t].version \in Nat /\ VersionAtStart(t) \in Nat
    BY DEF Invariants, RowsExplained, Types, RowsTypeOK, VersionAtStart
  <2>2. Led(t) = {} => rows[t].lifecycle = LifecycleAtStart[t]
    <3> SUFFICES ASSUME Led(t) = {} PROVE rows[t].version = VersionAtStart(t)
      BY <2>1 DEF RowExplained
    <3>1. VersionAtStart(t) .. (rows[t].version - 1) = {}
      BY <2>1 DEF RowExplained
    <3> QED
      BY <2>1, <3>1 DEF RowExplained
  <2>3. Led(t) # {} => \E e \in Led(t) : e.version = rows[t].version - 1
    <3> SUFFICES ASSUME NEW f \in Led(t) PROVE \E e \in Led(t) : e.version = rows[t].version - 1
      OBVIOUS
    <3>1. f.version \in VersionAtStart(t) .. (rows[t].version - 1)
      BY <2>1 DEF RowExplained
    <3>2. rows[t].version - 1 \in VersionAtStart(t) .. (rows[t].version - 1)
      BY <2>1, <3>1
    <3> QED
      BY <2>1, <3>2 DEF RowExplained
  <2>4. Led(t) # {} => rows[t].lifecycle = (CHOOSE e \in Led(t) : e.version = rows[t].version - 1).to
    BY <2>1, <2>3 DEF RowExplained
  <2> QED
    BY <2>1, <2>2, <2>4 DEF RowExplained, Led
<1> QED
  BY <1>1, Invariant, PTL

\* A pause with nothing against it is not turned away for drifted evidence, by
\* whatever reports, quota, settings and mutations came between
\* (rollout_mutations.py:782-801).
THEOREM PauseAlwaysSurvivesDrift == Spec => []PauseSurvivesDrift
<1>1. Invariants => PauseSurvivesDrift
  BY DEF Invariants
<1> QED
  BY <1>1, Invariant, PTL

-------------------------------------------------------------------------------
(* The steps the database and MutationRegister see.                          *)

\* Nothing is decided and no row changes.
Silent == rows' = rows /\ ledger' = ledger

\* A request is applied: row and entry in one step.
AppliedBy(r) ==
    /\ requests[r].stage = "commit" /\ Previous(r) = {}
    /\ Target(r) \in Plans /\ Desired(r) = "active" => ~OtherActivePlan(Target(r))
    /\ rows' = [rows EXCEPT ![Target(r)] =
          [lifecycle |-> Desired(r), version |-> rows[Target(r)].version + 1]]
    /\ ledger' = ledger \cup {Entry(r, "accepted", "lifecycle_changed")}

\* A refusal is stored.
RefusedBy(r) ==
    /\ requests[r].stage = "refuse" /\ Previous(r) = {}
    /\ rows' = rows
    /\ ledger' = ledger \cup {Entry(r, "rejected", requests[r].reason)}

Counts == \A p \in Plans : CounterGuard(used[p], used'[p])

LEMMA Kinds ==
    ASSUME Types, [Next]_vars
    PROVE  /\ Counts
           /\ Silent \/ \E r \in Requests : AppliedBy(r) \/ RefusedBy(r)
<1>1. CASE UNCHANGED vars
  BY <1>1 DEF vars, Silent, Counts, CounterGuard
<1>2. CASE \E s \in Sessions : (\E op \in Operators : Login(s, op)) \/ Reauthenticate(s) \/ Logout(s)
  BY <1>2 DEF Login, Reauthenticate, Logout, Silent, Counts, CounterGuard
<1>3. CASE \E s \in Sessions, c \in Asked :
              \/ c[1] \in Plans /\ PreviewPlan(s, c[1], c[2])
              \/ c[1] \in Descriptors /\ PreviewDescriptor(s, c[1], c[2])
              \/ c[1] \in Providers /\ PreviewProvider(s, c[1], c[2])
  BY <1>3 DEF PreviewPlan, PreviewDescriptor, PreviewProvider, StorePreview, Silent, Counts, CounterGuard
<1>4. CASE \E r \in Requests, s \in Sessions, k \in Keys, p \in DOMAIN previews :
              ApplyPlan(r, s, k, p) \/ ApplyDescriptor(r, s, k, p) \/ ApplyProvider(r, s, k, p)
  <2>1. PICK r \in Requests, s \in Sessions, k \in Keys, p \in DOMAIN previews : Serve(r, s, k, p)
    BY <1>4 DEF ApplyPlan, ApplyDescriptor, ApplyProvider
  <2> QED
    BY <2>1 DEF Serve, Silent, Counts, CounterGuard
<1>5. CASE \E r \in Requests : LockPlan(r) \/ LockDescriptor(r) \/ LockProvider(r)
  <2>1. PICK r \in Requests, tolerated \in BOOLEAN : Decide(r, tolerated)
    BY <1>5 DEF LockPlan, LockDescriptor, LockProvider
  <2> QED
    BY <2>1 DEF Decide, Silent, Counts, CounterGuard
<1>6. CASE \E r \in Requests : CommitPlan(r) \/ CommitDescriptor(r) \/ CommitProvider(r)
  <2>1. PICK r \in Requests, conflict \in BOOLEAN : CommitWrites(r, conflict)
    BY <1>6, CommitIsWrite
  <2>2. Counts
    BY <2>1 DEF CommitWrites, Write, Counts, CounterGuard
  <2>3. CASE conflict
    BY <2>1, <2>2, <2>3 DEF CommitWrites, Write, Silent
  <2>4. CASE ~conflict
    <3>1. AppliedBy(r)
      BY <2>1, <2>4 DEF CommitWrites, Write, AppliedBy
    <3> QED
      BY <2>2, <3>1
  <2> QED
    BY <2>3, <2>4
<1>7. CASE \E r \in Requests : RejectPlan(r) \/ RejectDescriptor(r) \/ RejectProvider(r)
  <2>1. PICK r \in Requests : requests[r].stage = "refuse" /\ RecordRejection(r)
    BY <1>7 DEF RejectPlan, RejectDescriptor, RejectProvider
  <2>2. Counts
    BY <2>1 DEF RecordRejection, Counts, CounterGuard
  <2>3. Silent \/ RefusedBy(r)
    BY <2>1 DEF RecordRejection, Silent, RefusedBy
  <2> QED
    BY <2>2, <2>3
<1>8. CASE Crash
  BY <1>8 DEF Crash, Silent, Counts, CounterGuard
<1>9. CASE Tick
  BY <1>9 DEF Tick, Silent, Counts, CounterGuard
<1>10. CASE Drift
  <2>1. Silent
    BY <1>10 DEF Drift, Report, UseQuota, Reconfigure, Silent
  <2>2. used' = used \/ \E p \in Plans : used' = [used EXCEPT ![p] = @ + 1]
    BY <1>10 DEF Drift, Report, UseQuota, Reconfigure
  <2>3. Counts
    BY <2>2 DEF Counts, CounterGuard, Types, RowsTypeOK
  <2> QED
    BY <2>1, <2>3
<1> QED
  BY <1>1, <1>2, <1>3, <1>4, <1>5, <1>6, <1>7, <1>8, <1>9, <1>10 DEF Next

\* What the triggers ask of a change of one row.
LEMMA TriggersPass ==
    ASSUME Invariants, NEW r \in Requests, AppliedBy(r), NEW t \in Targets
    PROVE  /\ t \in Plans => PlanGuard(t, rows[t], rows'[t], Events')
           /\ t \in Descriptors => DescriptorGuard(t, rows[t], rows'[t], Events')
           /\ t \in Providers => ProviderGuard(t, rows[t], rows'[t], Events')
<1> USE DEF Invariants
<1> DEFINE e == Entry(r, "accepted", "lifecycle_changed")
<1>1. CASE t # Target(r)
  <2>1. rows'[t] = rows[t]
    BY <1>1 DEF AppliedBy, Types, RowsTypeOK
  <2> QED
    BY <2>1 DEF PlanGuard, DescriptorGuard, ProviderGuard
<1>2. CASE t = Target(r)
  <2>1. DecisionStands(r)
    BY DEF RequestsStand, RequestStands
  <2>2. /\ rows[t].version = previews[requests[r].preview].version
        /\ LegalTransition(t, rows[t].lifecycle, Desired(r))
    BY <1>2, <2>1 DEF DecisionStands, AppliedBy
  <2>3. /\ rows'[t].lifecycle = Desired(r) /\ rows'[t].version = rows[t].version + 1
    BY <1>2 DEF AppliedBy, Types, RowsTypeOK
  <2>4. /\ e.outcome = "accepted" /\ e.target = t /\ e.version = rows[t].version
        /\ e.from = rows[t].lifecycle /\ e.to = Desired(r)
    BY <1>2, <2>2 DEF Entry
  <2>5. <<t, rows[t].version + 1, rows[t].lifecycle, Desired(r)>> \in Events'
    <3>1. e \in Accepted'
      <4>1. e \in ledger'
        BY DEF AppliedBy
      <4> HIDE DEF e
      <4> QED
        BY <2>4, <4>1 DEF Accepted
    <3> HIDE DEF e
    <3> QED
      BY <2>4, <3>1 DEF Events
  <2>6. <<t, rows'[t].version, rows[t].lifecycle, rows'[t].lifecycle>> \in Events'
    BY <2>3, <2>5
  <2>7. t \in Plans => PlanGuard(t, rows[t], rows'[t], Events')
    BY <2>2, <2>3, <2>6 DEF PlanGuard, LegalTransition, PlanTransitions
  <2>8. t \in Descriptors => DescriptorGuard(t, rows[t], rows'[t], Events')
    BY <2>2, <2>3, <2>6, RowsAssumption DEF DescriptorGuard, LegalTransition
  <2>9. t \in Providers => ProviderGuard(t, rows[t], rows'[t], Events')
    BY <2>2, <2>3, <2>6, RowsAssumption DEF ProviderGuard, LegalTransition
  <2> QED
    BY <2>7, <2>8, <2>9
<1> QED
  BY <1>1, <1>2

\* Every change of a row is one its trigger lets through, counters only count, the
\* ledger only grows and at most one plan is active: no write of an apply is ever
\* aborted for a constraint it did not look at (models.py:1397).
THEOREM RowsAlwaysKeepTheConstraints == Spec => RowsKeepTheConstraints
<1> DEFINE Constraints ==
              /\ OneActivePlan'
              /\ \A p \in Plans : /\ PlanGuard(p, rows[p], rows'[p], Events')
                                  /\ CounterGuard(used[p], used'[p])
              /\ \A d \in Descriptors : DescriptorGuard(d, rows[d], rows'[d], Events')
              /\ \A v \in Providers : ProviderGuard(v, rows[v], rows'[v], Events')
              /\ EvidenceGuard(ledger, ledger')
<1>1. Invariants /\ Invariants' /\ [Next]_vars => Constraints
  <2> SUFFICES ASSUME Invariants, Invariants', [Next]_vars PROVE Constraints
    OBVIOUS
  <2>1. Counts /\ (Silent \/ \E r \in Requests : AppliedBy(r) \/ RefusedBy(r))
    BY Kinds DEF Invariants
  <2>2. OneActivePlan'
    BY DEF Invariants
  <2>3. EvidenceGuard(ledger, ledger')
    BY <2>1 DEF Silent, AppliedBy, RefusedBy, EvidenceGuard
  <2>4. CASE rows' = rows
    BY <2>1, <2>2, <2>3, <2>4 DEF Counts, PlanGuard, DescriptorGuard, ProviderGuard
  <2>5. CASE \E r \in Requests : AppliedBy(r)
    <3>1. PICK r \in Requests : AppliedBy(r)
      BY <2>5
    <3>2. \A t \in Targets : /\ t \in Plans => PlanGuard(t, rows[t], rows'[t], Events')
                             /\ t \in Descriptors => DescriptorGuard(t, rows[t], rows'[t], Events')
                             /\ t \in Providers => ProviderGuard(t, rows[t], rows'[t], Events')
      BY <3>1, TriggersPass
    <3> QED
      BY <2>1, <2>2, <2>3, <3>2 DEF Counts, Targets
  <2> QED
    BY <2>1, <2>4, <2>5 DEF Silent, RefusedBy
<1>2. RowsKeepTheConstraints <=> [][Constraints]_vars
  BY DEF RowsKeepTheConstraints
<1> HIDE DEF Constraints
<1> QED
  BY <1>1, <1>2, Invariant, PTL DEF Spec

-------------------------------------------------------------------------------
(* The register.                                                             *)

Decided == {Decision(e) : e \in ledger}

\* What is stored under a free name decides it.
LEMMA Decides ==
    ASSUME Invariants, NEW r \in Requests, requests[r].stage # "idle", Previous(r) = {}
    PROVE  /\ <<Caller(r), Operation(Target(r)), requests[r].key>> \in Names
           /\ \A d \in Decided : d.name # <<Caller(r), Operation(Target(r)), requests[r].key>>
<1>1. <<Caller(r), Operation(Target(r)), requests[r].key>> \in Names
  BY RequestFacts DEF Names, Operation
<1>2. \A e \in ledger : ~SameKey(e, Caller(r), Operation(Target(r)), requests[r].key)
  BY DEF Previous, Stored
<1>3. \A e \in ledger : Decision(e).name = <<e.operator, e.operation, e.key>>
  BY DEF Decision
<1> QED
  BY <1>1, <1>2, <1>3 DEF Decided, SameKey

LEMMA RegisterStep ==
    ASSUME Invariants, [Next]_vars
    PROVE  [Register!Next]_(Register!vars)
<1> USE DEF Invariants
<1>1. CASE Silent
  BY <1>1 DEF Silent, Register!vars, Decision
<1>2. ASSUME NEW r \in Requests, AppliedBy(r) PROVE Register!Next
  <2> DEFINE n == <<Caller(r), Operation(Target(r)), requests[r].key>>
  <2>1. PICK e : e = Entry(r, "accepted", "lifecycle_changed")
    OBVIOUS
  <2>2. requests[r].stage # "idle" /\ Previous(r) = {} /\ ledger' = ledger \cup {e}
    BY <1>2, <2>1 DEF AppliedBy
  <2>3. n \in Names /\ \A d \in Decided : d.name # n
    BY <2>2, Decides
  <2>4. Target(r) \in Targets /\ Desired(r) \in Lifecycles
    BY <2>2, RequestFacts DEF DesiredOf, Lifecycles
  <2>5. rows[Target(r)].version = previews[requests[r].preview].version
    BY <1>2 DEF AppliedBy, RequestsStand, RequestStands, DecisionStands
  <2>6. Decision(e) = [name |-> n, outcome |-> "applied", target |-> Target(r),
                       seen |-> rows[Target(r)].version, to |-> Desired(r)]
    BY <2>1, <2>5 DEF Entry, Decision
  <2>7. Decided' = Decided \cup {Decision(e)}
    BY <2>2 DEF Decided, Decision
  <2>8. Decision(e).name = n
    BY <2>6
  <2>9. Decided' # Decided
    BY <2>3, <2>7, <2>8
  <2> HIDE DEF n
  <2>10. Register!CompareAndSet(n, Target(r), rows[Target(r)].version, Desired(r))
    BY <1>2, <2>3, <2>6, <2>7
       DEF AppliedBy, Register!CompareAndSet, Register!Open, Register!Applied, Decided
  <2> QED
    BY <2>3, <2>4, <2>9, <2>10 DEF Register!Next, Decided
<1>3. ASSUME NEW r \in Requests, RefusedBy(r) PROVE Register!Next
  <2> DEFINE n == <<Caller(r), Operation(Target(r)), requests[r].key>>
  <2>1. PICK e : e = Entry(r, "rejected", requests[r].reason)
    OBVIOUS
  <2>2. requests[r].stage # "idle" /\ Previous(r) = {} /\ ledger' = ledger \cup {e}
    BY <1>3, <2>1 DEF RefusedBy
  <2>3. n \in Names /\ \A d \in Decided : d.name # n
    BY <2>2, Decides
  <2>4. Decision(e) = [name |-> n, outcome |-> "refused"]
    BY <2>1 DEF Entry, Decision
  <2>5. Decided' = Decided \cup {Decision(e)}
    BY <2>2 DEF Decided, Decision
  <2>6. Decision(e).name = n
    BY <2>4
  <2>7. Decided' # Decided
    BY <2>3, <2>5, <2>6
  <2> HIDE DEF n
  <2>8. Register!Refuse(n)
    BY <1>3, <2>3, <2>4, <2>5
       DEF RefusedBy, Register!Refuse, Register!Open, Register!Refusal, Decided
  <2> QED
    BY <2>3, <2>7, <2>8 DEF Register!Next, Decided
<1> QED
  BY <1>1, <1>2, <1>3, Kinds

\* The control plane implements MutationRegister: every key is decided once, and
\* an applied one compares the version the operator saw and sets the row at once.
THEOREM Refinement == Spec => ImplementsRegister
<1>1. Invariants /\ Init => Register!Init
  BY DEF Invariants, Types, RowsTypeOK, Init, Register!Init
<1>2. Init => Invariants
  BY Initially
<1> QED
  BY <1>1, <1>2, RegisterStep, Invariant, PTL DEF Spec, ImplementsRegister, Register!Spec
===============================================================================
