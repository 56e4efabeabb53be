--------------------------- MODULE EventClaims_proofs ---------------------------
(***************************************************************************)
(* Proofs about EventClaims: types, the cover of an enforced allow, and    *)
(* the refinement of SpeakingFloor, for any number of bots, attempts,      *)
(* revisions and restarts.                                                 *)
(***************************************************************************)
EXTENDS EventClaims, TLAPS

Attempts == 1 .. MaxAttempts

\* How often a bridge may ask.
LEMMA AttemptLimits ==
    /\ MaxAttempts \in Nat \ {0}
    /\ \A x \in Instances : ClaimAttempts[x] \in Nat /\ ClaimAttempts[x] <= MaxAttempts
<1>1. MaxAttempts \in Nat \ {0} /\ ClaimAttempts \in [Instances -> 1 .. MaxAttempts]
  BY ClaimAssumption
<1> QED
  BY <1>1

\* A request holds the lock of the message alone, for a claim not yet recorded.
LockExcludes ==
    /\ \A x \in Instances, k \in Attempts :
          requests[x][k].phase = "locked" => ~Claimed(x)
    /\ \A x, y \in Instances, k, j \in Attempts :
          requests[x][k].phase = "locked" /\ requests[y][j].phase = "locked"
          => x = y /\ k = j

\* A bridge that was told of a denial, and one that is armed, has that denial
\* on record, and an armed one has not answered.
DenialsStand ==
    /\ \A x \in Instances, k \in Attempts :
          requests[x][k].phase = "denied" => Denied(x)
    /\ \A x \in Instances : bridge[x] = "armed" => Denied(x) /\ x \notin sent

\* Only an armed bridge has acknowledged.
AcksAreArmed == \A x \in Instances : claims[x].acked => bridge[x] = "armed"

\* An owner has the acknowledgement of every observer it counted, and is alone.
OwnersAcked ==
    /\ \A x \in Instances : Owner(x) =>
          claims[x].peers # {} /\ \A y \in claims[x].peers : claims[y].acked
    /\ \A x, y \in Instances : Owner(x) /\ Owner(y) => x = y

\* A bridge that waits has begun an attempt.
AttemptBegun == \A x \in Instances : bridge[x] = "asking" => attempt[x] \in Attempts

ClaimInv == LockExcludes /\ DenialsStand /\ AcksAreArmed /\ OwnersAcked /\ AttemptBegun
IInv == TypeOK /\ ClaimInv

-------------------------------------------------------------------------------

\* Before the message is heard nothing is claimed.
LEMMA InitClaims == Init => IInv
<1> SUFFICES ASSUME Init PROVE IInv
  OBVIOUS
<1> USE ClaimAssumption DEF Init
<1>1. TypeOK
  BY DEF TypeOK, NoClaim, Request, ClaimRecord, RequestRecord, Actions, Decisions,
         Running, Answered, BridgeStates, Modes
<1>2. LockExcludes
  BY DEF LockExcludes, Request, Attempts
<1>3. DenialsStand
  BY DEF DenialsStand, Request, Attempts
<1>4. AcksAreArmed
  BY DEF AcksAreArmed, NoClaim
<1>5. OwnersAcked
  BY DEF OwnersAcked, Owner, NoClaim
<1>6. AttemptBegun
  BY DEF AttemptBegun
<1> QED
  BY <1>1, <1>2, <1>3, <1>4, <1>5, <1>6 DEF IInv, ClaimInv

\* A request record with a phase only.
LEMMA RequestType ==
    ASSUME NEW p \in {"none", "dead"} \cup Running \cup Answered
    PROVE  Request(p) \in RequestRecord /\ Request(p).phase = p
BY DEF Request, RequestRecord, Actions, Decisions

\* Steps of Core that move one request and record no claim.  Only Lock makes
\* it hold the lock, only a recorded denial is answered as one.
LEMMA RequestStep ==
    ASSUME IInv, NEW x \in Instances, NEW k \in Attempts, NEW r \in RequestRecord,
           requests' = [requests EXCEPT ![x][k] = r],
           r.phase = "denied" => Denied(x),
           r.phase = "locked" => /\ ~Claimed(x)
                                 /\ \A y \in Instances, j \in Attempts :
                                       requests[y][j].phase # "locked",
           observed' \subseteq Instances, decision' \in Decisions,
           UNCHANGED <<claims, bridge, attempt, sent, mode, revisions, restarts>>
    PROVE  IInv'
<1> USE DEF IInv, ClaimInv
<1>1. \A y \in Instances, j \in Attempts :
         requests'[y][j] = IF y = x /\ j = k THEN r ELSE requests[y][j]
  BY DEF TypeOK, Attempts
<1>2. TypeOK'
  BY DEF TypeOK, Attempts
<1>3. LockExcludes'
  BY <1>1 DEF LockExcludes, Claimed
<1>4. DenialsStand'
  BY <1>1 DEF DenialsStand, Denied
<1>5. AcksAreArmed' /\ OwnersAcked' /\ AttemptBegun'
  BY DEF AcksAreArmed, OwnersAcked, Owner, AttemptBegun
<1> QED
  BY <1>2, <1>3, <1>4, <1>5

\* Ingestion keeps the types of the observations and the decision.
LEMMA IngestType ==
    ASSUME TypeOK, NEW x \in Instances, Ingest(x)
    PROVE  observed' \subseteq Instances /\ decision' \in Decisions
BY ClaimAssumption DEF Ingest, TypeOK, Decisions

\* The phases of a request before its claim is committed.
LEMMA ServeStep ==
    ASSUME IInv, NEW x \in Instances, NEW k \in Attempts,
           Arrive(x, k) \/ (\E sound \in BOOLEAN : Decide(x, k, sound))
             \/ Lock(x, k) \/ Abort(x, k)
    PROVE  IInv'
<1>1. requests[x][k] \in RequestRecord
  BY DEF IInv, TypeOK, Attempts
<1>2. /\ Recorded(x) \in RequestRecord
      /\ Recorded(x).phase # "locked"
      /\ Recorded(x).phase = "denied" => Denied(x)
  BY RequestType DEF Recorded, Running, Answered
<1>3. CASE Arrive(x, k)
  <2> DEFINE r == IF Claimed(x) THEN Recorded(x)
                  ELSE Request(IF mode = "outside" THEN "passed" ELSE "deciding")
  <2>1. r \in RequestRecord /\ (r.phase = "denied" => Denied(x)) /\ r.phase # "locked"
    BY <1>2, RequestType DEF Running, Answered
  <2>2. requests' = [requests EXCEPT ![x][k] = r]
    BY <1>3 DEF Arrive
  <2>3. observed' \subseteq Instances /\ decision' \in Decisions
    BY <1>3, IngestType DEF Arrive, IInv
  <2> HIDE DEF r
  <2> QED
    BY <1>3, <2>1, <2>2, <2>3, RequestStep DEF Arrive, OnlyRequests
<1>4. ASSUME NEW sound \in BOOLEAN, Decide(x, k, sound) PROVE IInv'
  <2> DEFINE r == [requests[x][k] EXCEPT
                      !.phase = "locking", !.action = Evaluate(x, sound), !.by = decision,
                      !.enforced = mode = "enforce" /\ Evaluate(x, sound) # "abstain"]
  <2>1. Evaluate(x, sound) \in Actions /\ decision \in Decisions
    BY DEF Evaluate, Actions, IInv, TypeOK
  <2>2. (mode = "enforce" /\ Evaluate(x, sound) # "abstain") \in BOOLEAN
    OBVIOUS
  <2>3. r \in RequestRecord /\ r.phase = "locking"
    BY <1>1, <2>1, <2>2 DEF RequestRecord, Running
  <2>4. requests' = [requests EXCEPT ![x][k] = r]
    BY <1>4 DEF Decide
  <2> HIDE DEF r
  <2> QED
    BY <1>4, <2>1, <2>3, <2>4, RequestStep DEF Decide, OnlyRequests, IInv, TypeOK
<1>5. CASE Lock(x, k)
  <2> DEFINE q == requests[x][k]
             held == [q EXCEPT !.phase = "locked",
                               !.peers = IF q.action = "allow" /\ q.enforced
                                         THEN observed \ {x} ELSE {}]
             r == IF Claimed(x) THEN Recorded(x) ELSE held
  <2>1. held \in RequestRecord /\ held.phase = "locked"
    BY <1>1 DEF RequestRecord, Running, IInv, TypeOK
  <2>2. r \in RequestRecord /\ (r.phase = "denied" => Denied(x))
        /\ (r.phase = "locked" => ~Claimed(x))
    BY <1>2, <2>1
  <2>3. requests' = [requests EXCEPT ![x][k] = r]
    BY <1>5 DEF Lock
  <2>4. \A y \in Instances, j \in Attempts : requests[y][j].phase # "locked"
    BY <1>5 DEF Lock, Attempts
  <2> HIDE DEF r
  <2> QED
    BY <1>5, <2>2, <2>3, <2>4, RequestStep DEF Lock, OnlyRequests, IInv, TypeOK
<1>6. CASE Abort(x, k)
  <2>1. Request("dead") \in RequestRecord /\ Request("dead").phase = "dead"
    BY RequestType
  <2> QED
    BY <1>6, <2>1, RequestStep DEF Abort, OnlyRequests, IInv, TypeOK
<1> QED
  BY <1>3, <1>4, <1>5, <1>6

\* What a request that holds the lock records: an enforced allow only over
\* acknowledgements, and only without another owner.
LEMMA VerdictFacts ==
    ASSUME TypeOK, NEW x \in Instances, NEW k \in Attempts
    PROVE  LET v == Verdict(x, k) IN
           /\ v \in ClaimRecord
           /\ ~v.acked
           /\ v.action # "none"
           /\ v.action = "allow" /\ v.enforced =>
                 /\ v.peers # {}
                 /\ \A y \in v.peers : claims[y].acked
                 /\ \A y \in Instances \ {x} : ~Owner(y)
<1> DEFINE r == requests[x][k]
           fails == r.action = "allow" /\ r.enforced /\ ~Covered(x, k)
<1>1. r \in RequestRecord
  BY DEF TypeOK, Attempts
<1>2. r.enforced \in BOOLEAN /\ fails \in BOOLEAN
  BY <1>1 DEF RequestRecord
<1>3. (r.enforced /\ ~fails) \in BOOLEAN
  BY <1>2
<1>4. Verdict(x, k) = [action |-> IF fails THEN "abstain" ELSE r.action,
                       enforced |-> r.enforced /\ ~fails,
                       by |-> r.by, peers |-> r.peers, acked |-> FALSE]
  BY DEF Verdict
<1>5. r.action \in Actions /\ r.by \in Decisions /\ r.peers \in SUBSET Instances
  BY <1>1 DEF RequestRecord
<1>6. Verdict(x, k) \in ClaimRecord /\ ~Verdict(x, k).acked /\ Verdict(x, k).action # "none"
  <2> HIDE DEF r, fails
  <2> QED
    BY <1>2, <1>3, <1>4, <1>5 DEF ClaimRecord, Actions
<1>7. ASSUME Verdict(x, k).action = "allow", Verdict(x, k).enforced
      PROVE  Covered(x, k) /\ Verdict(x, k).peers = r.peers
  <2>1. r.action = "allow" /\ r.enforced /\ ~fails /\ Verdict(x, k).peers = r.peers
    <3> HIDE DEF r, fails
    <3> QED
      BY <1>2, <1>3, <1>4, <1>7
  <2> QED
    BY <2>1
<1>8. ASSUME Verdict(x, k).action = "allow", Verdict(x, k).enforced
      PROVE  /\ Verdict(x, k).peers # {}
             /\ \A y \in Verdict(x, k).peers : claims[y].acked
             /\ \A y \in Instances \ {x} : ~Owner(y)
  BY <1>7, <1>8 DEF Covered
<1> HIDE DEF r, fails
<1> QED
  BY <1>6, <1>8

\* Recording a claim.
LEMMA CommitStep ==
    ASSUME IInv, NEW x \in Instances, NEW k \in Attempts, Commit(x, k)
    PROVE  IInv'
<1> DEFINE v == Verdict(x, k)
           p == IF v.action = "deny" /\ v.enforced THEN "denied" ELSE "passed"
<1> USE DEF IInv, ClaimInv
<1>1. /\ v \in ClaimRecord /\ ~v.acked /\ v.action # "none"
      /\ v.action = "allow" /\ v.enforced =>
            /\ v.peers # {}
            /\ \A y \in v.peers : claims[y].acked
            /\ \A y \in Instances \ {x} : ~Owner(y)
  BY VerdictFacts
<1>2. Request(p) \in RequestRecord /\ Request(p).phase = p
  BY RequestType DEF Running, Answered
<1>3. /\ claims' = [claims EXCEPT ![x] = v]
      /\ requests' = [requests EXCEPT ![x][k] = Request(p)]
      /\ requests[x][k].phase = "locked"
      /\ UNCHANGED <<observed, decision, bridge, attempt, sent, mode, revisions, restarts>>
  BY DEF Commit
<1> HIDE DEF v
<1>4. \A y \in Instances : claims'[y] = IF y = x THEN v ELSE claims[y]
  BY <1>3 DEF TypeOK
<1>5. \A y \in Instances, j \in Attempts :
         requests'[y][j].phase = IF y = x /\ j = k THEN p ELSE requests[y][j].phase
  BY <1>2, <1>3 DEF TypeOK, Attempts
<1>6. ~Claimed(x) /\ ~Owner(x) /\ ~Denied(x) /\ ~claims[x].acked /\ bridge[x] # "armed"
  BY <1>3 DEF LockExcludes, DenialsStand, AcksAreArmed, Claimed, Owner, Denied, Attempts
<1>7. TypeOK'
  BY <1>1, <1>2, <1>3 DEF TypeOK, Attempts
<1>8. LockExcludes'
  <2>1. ASSUME NEW y \in Instances, NEW j \in Attempts, requests'[y][j].phase = "locked"
        PROVE  requests[y][j].phase = "locked" /\ y # x
    BY <1>3, <1>5, <2>1 DEF LockExcludes
  <2>2. \A y \in Instances, j \in Attempts : requests'[y][j].phase # "locked"
    BY <1>3, <2>1 DEF LockExcludes
  <2> QED
    BY <2>2 DEF LockExcludes
<1>9. DenialsStand'
  <2>1. \A y \in Instances : Denied(y) => Denied(y)'
    BY <1>4, <1>6 DEF Denied
  <2>2. p = "denied" => Denied(x)'
    BY <1>4 DEF Denied
  <2> QED
    BY <1>3, <1>5, <2>1, <2>2 DEF DenialsStand
<1>10. AcksAreArmed'
  BY <1>1, <1>3, <1>4 DEF AcksAreArmed
<1>11. OwnersAcked'
  <2>1. \A y \in Instances : claims[y].acked => claims'[y].acked
    BY <1>4, <1>6
  <2>2. \A y \in Instances : Owner(y)' =>
           IF y = x THEN v.action = "allow" /\ v.enforced ELSE Owner(y)
    BY <1>4 DEF Owner
  <2>3. \A y \in Instances : Owner(y)' => claims'[y].peers \subseteq Instances
    BY <1>7 DEF TypeOK, ClaimRecord
  <2>4. ASSUME NEW y \in Instances, Owner(y)'
        PROVE  claims'[y].peers # {} /\ \A z \in claims'[y].peers : claims'[z].acked
    BY <1>1, <1>4, <2>1, <2>2, <2>3, <2>4 DEF OwnersAcked
  <2>5. \A y, z \in Instances : Owner(y)' /\ Owner(z)' => y = z
    BY <1>1, <2>2 DEF OwnersAcked
  <2> QED
    BY <2>4, <2>5 DEF OwnersAcked
<1>12. AttemptBegun'
  BY <1>3 DEF AttemptBegun
<1> QED
  BY <1>7, <1>8, <1>9, <1>10, <1>11, <1>12

\* The acknowledgement of an installed guard.
LEMMA AcknowledgeStep ==
    ASSUME IInv, NEW x \in Instances, Acknowledge(x)
    PROVE  IInv'
<1> USE DEF IInv, ClaimInv
<1>1. \A y \in Instances :
         /\ claims'[y].action = claims[y].action /\ claims'[y].enforced = claims[y].enforced
         /\ claims'[y].peers = claims[y].peers
         /\ claims'[y].acked = IF y = x THEN TRUE ELSE claims[y].acked
  BY DEF Acknowledge, TypeOK, ClaimRecord
<1>2. TypeOK'
  BY DEF Acknowledge, TypeOK, ClaimRecord
<1>3. \A y \in Instances : /\ Claimed(y)' <=> Claimed(y)
                           /\ Denied(y)' <=> Denied(y)
                           /\ Owner(y)' <=> Owner(y)
  BY <1>1 DEF Claimed, Denied, Owner
<1>4. LockExcludes' /\ DenialsStand' /\ AcksAreArmed' /\ AttemptBegun'
  BY <1>1, <1>3 DEF LockExcludes, DenialsStand, AcksAreArmed, AttemptBegun, Acknowledge
<1>5. OwnersAcked'
  <2>1. \A y \in Instances : claims[y].peers \subseteq Instances
    BY DEF TypeOK, ClaimRecord
  <2> QED
    BY <1>1, <1>3, <2>1 DEF OwnersAcked
<1> QED
  BY <1>2, <1>4, <1>5

\* A restart ends the requests in progress.
LEMMA RestartStep ==
    ASSUME IInv, NEW m \in ModesUsed, Restart(m)
    PROVE  IInv'
<1> USE DEF IInv, ClaimInv
<1>1. Request("dead") \in RequestRecord /\ Request("dead").phase = "dead"
  BY RequestType
<1>2. \A y \in Instances, j \in Attempts :
         requests'[y][j] = IF requests[y][j].phase \in Running
                           THEN Request("dead") ELSE requests[y][j]
  BY DEF Restart, Attempts
<1>3. requests' \in [Instances -> [Attempts -> RequestRecord]]
  BY <1>1, <1>2 DEF Restart, TypeOK, Attempts
<1>4. TypeOK'
  BY <1>3, ClaimAssumption DEF Restart, TypeOK, Modes, Attempts
<1>5. LockExcludes'
  BY <1>1, <1>2 DEF LockExcludes, Running
<1>6. DenialsStand'
  BY <1>1, <1>2 DEF DenialsStand, Denied, Restart
<1>7. AcksAreArmed' /\ OwnersAcked' /\ AttemptBegun'
  BY DEF AcksAreArmed, OwnersAcked, Owner, AttemptBegun, Restart
<1> QED
  BY <1>4, <1>5, <1>6, <1>7

\* The bridge's own steps.  Only the answer to a claim arms it, and an armed
\* bridge neither answers the message nor leaves that state.
LEMMA BridgeStep ==
    ASSUME IInv, NEW x \in Instances,
           Hear(x) \/ AskAgain(x) \/ FailOpen(x) \/ Speak(x) \/ Report(x)
             \/ (\E attached \in BOOLEAN : Receive(x, attached))
    PROVE  IInv'
<1> USE DEF IInv, ClaimInv
<1>1. UNCHANGED <<claims, requests, mode, restarts>>
  BY DEF Hear, AskAgain, FailOpen, Speak, Report, Receive, OnlyBridge
<1>2. TypeOK'
  <2>1. CASE Report(x)
    BY <2>1, IngestType DEF Report, TypeOK
  <2>2. CASE Hear(x)
    <3>1. bridge' \in [Instances -> BridgeStates]
      BY <2>2 DEF Hear, Turn, TypeOK, BridgeStates
    <3>2. attempt' \in [Instances -> 0 .. MaxAttempts]
      <4>1. 1 \in 0 .. MaxAttempts
        BY AttemptLimits
      <4> QED
        BY <2>2, <4>1 DEF Hear, TypeOK
    <3> QED
      BY <2>2, <3>1, <3>2 DEF Hear, OnlyBridge, TypeOK
  <2>3. CASE AskAgain(x)
    BY <2>3, AttemptLimits DEF AskAgain, OnlyBridge, TypeOK
  <2>4. CASE FailOpen(x) \/ Speak(x)
    BY <2>4 DEF FailOpen, Speak, Turn, OnlyBridge, TypeOK, BridgeStates
  <2>5. ASSUME NEW b \in BOOLEAN, Receive(x, b) PROVE TypeOK'
    BY <2>5 DEF Receive, Turn, OnlyBridge, TypeOK, BridgeStates
  <2> QED
    BY <2>1, <2>2, <2>3, <2>4, <2>5
<1>3. LockExcludes' /\ OwnersAcked'
  BY <1>1 DEF LockExcludes, OwnersAcked, Claimed, Owner
<1>4. \A y \in Instances : bridge[y] = "armed" => bridge'[y] = "armed" /\ y \notin sent'
  BY DEF Hear, AskAgain, FailOpen, Speak, Report, Receive, OnlyBridge, Turn, TypeOK, DenialsStand
<1>5. \A y \in Instances : bridge'[y] = "armed" /\ bridge[y] # "armed" =>
         Denied(y) /\ y \notin sent'
  <2>1. CASE \E b \in BOOLEAN : Receive(x, b)
    <3> PICK b \in BOOLEAN : Receive(x, b)
      BY <2>1
    <3>1. ASSUME bridge'[x] = "armed"
          PROVE  /\ requests[x][attempt[x]].phase = "denied"
                 /\ x \notin sent'
      BY <3>1 DEF Receive, Turn, Authoritative, Answered, TypeOK, OnlyBridge
    <3>2. attempt[x] \in Attempts
      BY DEF Receive, AttemptBegun
    <3> QED
      BY <3>1, <3>2 DEF DenialsStand, Receive, Turn, TypeOK
  <2>2. CASE Hear(x) \/ AskAgain(x) \/ FailOpen(x) \/ Speak(x) \/ Report(x)
    BY <2>2 DEF Hear, AskAgain, FailOpen, Speak, Report, Turn, TypeOK
  <2> QED
    BY <2>1, <2>2
<1>6. DenialsStand' /\ AcksAreArmed'
  BY <1>1, <1>4, <1>5 DEF DenialsStand, AcksAreArmed, Denied
<1>7. AttemptBegun'
  <2>1. CASE Hear(x)
    BY <2>1, AttemptLimits DEF Hear, Turn, OnlyBridge, TypeOK, AttemptBegun, Attempts
  <2>2. CASE AskAgain(x)
    BY <2>2, AttemptLimits DEF AskAgain, OnlyBridge, TypeOK, AttemptBegun, Attempts
  <2>3. CASE FailOpen(x) \/ Speak(x) \/ Report(x)
    BY <2>3 DEF FailOpen, Speak, Report, Turn, OnlyBridge, TypeOK, AttemptBegun
  <2>4. ASSUME NEW b \in BOOLEAN, Receive(x, b) PROVE AttemptBegun'
    BY <2>4 DEF Receive, Turn, OnlyBridge, TypeOK, AttemptBegun
  <2> QED
    BY <2>1, <2>2, <2>3, <2>4
<1> QED
  BY <1>2, <1>3, <1>6, <1>7

-------------------------------------------------------------------------------
(* Theorems.                                                               *)

\* Every step of Core and of the bridges preserves the invariant.
LEMMA InvariantStep == IInv /\ [Next]_vars => IInv'
<1> SUFFICES ASSUME IInv, [Next]_vars PROVE IInv'
  OBVIOUS
<1>1. ASSUME NEW x \in Instances, NEW k \in Attempts, Serve(x, k) PROVE IInv'
  BY <1>1, ServeStep, CommitStep DEF Serve
<1>2. ASSUME NEW x \in Instances, Handle(x) PROVE IInv'
  BY <1>2, BridgeStep, AcknowledgeStep DEF Handle
<1>3. CASE Revise
  BY <1>3, ClaimAssumption
     DEF Revise, IInv, ClaimInv, TypeOK, Decisions, LockExcludes, DenialsStand,
         AcksAreArmed, OwnersAcked, AttemptBegun, Claimed, Denied, Owner
<1>4. ASSUME NEW m \in ModesUsed, Restart(m) PROVE IInv'
  BY <1>4, RestartStep
<1>5. CASE UNCHANGED vars
  BY <1>5 DEF vars, IInv, ClaimInv, TypeOK, LockExcludes, DenialsStand,
              AcksAreArmed, OwnersAcked, AttemptBegun, Claimed, Denied, Owner
<1> QED
  BY <1>1, <1>2, <1>3, <1>4, <1>5 DEF Next, Attempts

\* Claims, requests and bridges fit together in every reachable state.
THEOREM Invariant == Spec => []IInv
<1> QED
  BY InitClaims, InvariantStep, PTL DEF Spec

\* Type correctness, for any number of bots and attempts.
THEOREM TypeCorrect == Spec => []TypeOK
<1>1. IInv => TypeOK
  BY DEF IInv
<1> QED
  BY <1>1, Invariant, PTL

\* Under an enforced allow every observer that was counted has its guard
\* installed and has not answered, however many bots there are and whatever
\* the policy, the network and the restarts of Core do.
THEOREM OwnerAlwaysCovered == Spec => []OwnerCovered
<1>1. IInv => OwnerCovered
  <2> SUFFICES ASSUME IInv, NEW x \in Instances, Owner(x)
               PROVE  /\ claims[x].peers # {}
                      /\ \A y \in claims[x].peers : bridge[y] = "armed" /\ y \notin sent
    BY DEF OwnerCovered
  <2>1. claims[x].peers \subseteq Instances
    BY DEF IInv, TypeOK, ClaimRecord
  <2> QED
    BY <2>1 DEF IInv, ClaimInv, OwnersAcked, AcksAreArmed, DenialsStand
<1> QED
  BY <1>1, Invariant, PTL

-------------------------------------------------------------------------------
(* Silence.                                                                *)

\* A bridge keeps its bot silent only on a recorded denial, and no bot is denied
\* by a decision for that bot itself.
DeniedForOthers ==
    /\ \A x \in Instances : bridge[x] = "muted" => Denied(x)
    /\ \A x \in Instances : claims[x].action = "deny" => claims[x].by # x
    /\ \A x \in Instances, k \in Attempts :
          requests[x][k].action = "deny" => requests[x][k].by # x

\* Steps of Core that move one request and record no claim.
LEMMA RequestSilence ==
    ASSUME TypeOK, DeniedForOthers, NEW x \in Instances, NEW k \in Attempts,
           NEW r \in RequestRecord, requests' = [requests EXCEPT ![x][k] = r],
           r.action = "deny" => r.by # x,
           UNCHANGED <<claims, bridge>>
    PROVE  DeniedForOthers'
<1>1. \A y \in Instances, j \in Attempts :
         requests'[y][j] = IF y = x /\ j = k THEN r ELSE requests[y][j]
  BY DEF TypeOK, Attempts
<1> QED
  BY <1>1 DEF DeniedForOthers, Denied

\* A record with a phase only denies nothing.
LEMMA PlainRequest ==
    ASSUME NEW p \in {"none", "dead"} \cup Running \cup Answered
    PROVE  Request(p) \in RequestRecord /\ Request(p).action = "abstain"
BY DEF Request, RequestRecord, Actions, Decisions

\* The evaluation never denies the bot it decided for, and what it found stays
\* with the request while it waits for the lock.
LEMMA ServeSilence ==
    ASSUME TypeOK, DeniedForOthers, NEW x \in Instances, NEW k \in Attempts,
           Arrive(x, k) \/ (\E sound \in BOOLEAN : Decide(x, k, sound))
             \/ Lock(x, k) \/ Abort(x, k)
    PROVE  DeniedForOthers'
<1> DEFINE q == requests[x][k]
<1>1. q \in RequestRecord /\ (q.action = "deny" => q.by # x)
  BY DEF TypeOK, DeniedForOthers, Attempts
<1>2. Recorded(x) \in RequestRecord /\ Recorded(x).action = "abstain"
  BY PlainRequest DEF Recorded, Answered
<1>3. CASE Arrive(x, k)
  <2> DEFINE r == IF Claimed(x) THEN Recorded(x)
                  ELSE Request(IF mode = "outside" THEN "passed" ELSE "deciding")
  <2>1. r \in RequestRecord /\ (r.action = "deny" => r.by # x)
    BY <1>2, PlainRequest DEF Running, Answered
  <2>2. requests' = [requests EXCEPT ![x][k] = r]
    BY <1>3 DEF Arrive
  <2> HIDE DEF r
  <2> QED
    BY <1>3, <2>1, <2>2, RequestSilence DEF Arrive, OnlyRequests
<1>4. ASSUME NEW sound \in BOOLEAN, Decide(x, k, sound) PROVE DeniedForOthers'
  <2> DEFINE act == Evaluate(x, sound)
             r == [q EXCEPT !.phase = "locking", !.action = act, !.by = decision,
                            !.enforced = mode = "enforce" /\ act # "abstain"]
  <2>1. act \in Actions /\ decision \in Decisions
        /\ (mode = "enforce" /\ act # "abstain") \in BOOLEAN
    BY DEF Evaluate, Actions, TypeOK
  <2>2. act = "deny" => decision # x
    BY ClaimAssumption DEF Evaluate
  <2>3. requests' = [requests EXCEPT ![x][k] = r]
    BY <1>4 DEF Decide
  <2> HIDE DEF act
  <2>4. r \in RequestRecord /\ r.action = act /\ r.by = decision
    BY <1>1, <2>1 DEF RequestRecord, Running
  <2>5. r.action = "deny" => r.by # x
    BY <2>2, <2>4
  <2>6. UNCHANGED <<claims, bridge>>
    BY <1>4 DEF Decide, OnlyRequests
  <2> HIDE DEF r
  <2> QED
    BY <2>3, <2>4, <2>5, <2>6, RequestSilence
<1>5. CASE Lock(x, k)
  <2> DEFINE held == [q EXCEPT !.phase = "locked",
                               !.peers = IF q.action = "allow" /\ q.enforced
                                         THEN observed \ {x} ELSE {}]
             r == IF Claimed(x) THEN Recorded(x) ELSE held
  <2>1. held \in RequestRecord /\ held.action = q.action /\ held.by = q.by
    BY <1>1 DEF RequestRecord, Running, TypeOK
  <2>2. r \in RequestRecord /\ (r.action = "deny" => r.by # x)
    BY <1>1, <1>2, <2>1
  <2>3. requests' = [requests EXCEPT ![x][k] = r]
    BY <1>5 DEF Lock
  <2> HIDE DEF r
  <2> QED
    BY <1>5, <2>2, <2>3, RequestSilence DEF Lock, OnlyRequests
<1>6. CASE Abort(x, k)
  <2>1. Request("dead") \in RequestRecord /\ Request("dead").action = "abstain"
    BY PlainRequest
  <2> QED
    BY <1>6, <2>1, RequestSilence DEF Abort, OnlyRequests
<1> QED
  BY <1>3, <1>4, <1>5, <1>6

\* Recording a claim: an uncovered allow becomes an abstention, never a denial.
LEMMA CommitSilence ==
    ASSUME IInv, DeniedForOthers, NEW x \in Instances, NEW k \in Attempts, Commit(x, k)
    PROVE  DeniedForOthers'
<1> DEFINE v == Verdict(x, k)
           p == IF v.action = "deny" /\ v.enforced THEN "denied" ELSE "passed"
<1>1. requests[x][k].action = "deny" => requests[x][k].by # x
  BY DEF DeniedForOthers
<1>2. v.action = "deny" => v.by # x
  BY <1>1 DEF Verdict
<1>3. Request(p) \in RequestRecord /\ Request(p).action = "abstain"
  BY PlainRequest DEF Answered
<1>4. /\ claims' = [claims EXCEPT ![x] = v]
      /\ requests' = [requests EXCEPT ![x][k] = Request(p)]
      /\ requests[x][k].phase = "locked"
      /\ bridge' = bridge
  BY DEF Commit
<1> HIDE DEF v
<1>5. \A y \in Instances : claims'[y] = IF y = x THEN v ELSE claims[y]
  BY <1>4 DEF IInv, TypeOK
<1>6. \A y \in Instances, j \in Attempts :
         requests'[y][j] = IF y = x /\ j = k THEN Request(p) ELSE requests[y][j]
  BY <1>4 DEF IInv, TypeOK, Attempts
<1>7. ~Denied(x)
  BY <1>4 DEF IInv, ClaimInv, LockExcludes, Claimed, Denied
<1>8. \A y \in Instances : bridge'[y] = "muted" => Denied(y)'
  BY <1>4, <1>5, <1>7 DEF DeniedForOthers, Denied
<1>9. \A y \in Instances : claims'[y].action = "deny" => claims'[y].by # y
  BY <1>2, <1>5 DEF DeniedForOthers
<1>10. \A y \in Instances, j \in Attempts :
          requests'[y][j].action = "deny" => requests'[y][j].by # y
  BY <1>3, <1>6 DEF DeniedForOthers
<1> QED
  BY <1>8, <1>9, <1>10 DEF DeniedForOthers

\* The steps of a bridge: it falls silent only on an answer that is a denial.
LEMMA HandleSilence ==
    ASSUME IInv, DeniedForOthers, NEW x \in Instances, Handle(x)
    PROVE  DeniedForOthers'
<1>1. requests' = requests
  BY DEF Handle, Hear, AskAgain, FailOpen, Receive, Speak, Report, Acknowledge, OnlyBridge
<1>2. \A y \in Instances : /\ claims'[y].action = claims[y].action
                           /\ claims'[y].by = claims[y].by
                           /\ claims'[y].enforced = claims[y].enforced
  <2>1. CASE Acknowledge(x)
    BY <2>1 DEF Acknowledge, IInv, TypeOK, ClaimRecord
  <2>2. CASE ~Acknowledge(x)
    BY <2>2 DEF Handle, Hear, AskAgain, FailOpen, Receive, Speak, Report, OnlyBridge
  <2> QED
    BY <2>1, <2>2
<1>3. \A y \in Instances : bridge'[y] = "muted" => Denied(y)
  <2>1. ASSUME NEW attached \in BOOLEAN, Receive(x, attached)
        PROVE  \A y \in Instances : bridge'[y] = "muted" => Denied(y)
    <3>1. attempt[x] \in Attempts /\ requests[x][attempt[x]].phase \in Answered
      BY <2>1 DEF Receive, IInv, ClaimInv, AttemptBegun
    <3>2. \A y \in Instances : bridge'[y] = IF y = x
             THEN IF requests[x][attempt[x]].phase = "passed" THEN "free"
                  ELSE IF Authoritative(x) /\ attached THEN "armed" ELSE "muted"
             ELSE bridge[y]
      BY <2>1 DEF Receive, Turn, IInv, TypeOK
    <3>3. bridge'[x] = "muted" => Denied(x)
      BY <3>1, <3>2 DEF IInv, ClaimInv, DenialsStand, Answered
    <3> QED
      BY <3>2, <3>3 DEF DeniedForOthers
  <2>2. CASE Hear(x) \/ AskAgain(x) \/ FailOpen(x) \/ Speak(x) \/ Report(x) \/ Acknowledge(x)
    BY <2>2 DEF Hear, AskAgain, FailOpen, Speak, Report, Acknowledge, Turn,
                IInv, TypeOK, DeniedForOthers
  <2> QED
    BY <2>1, <2>2 DEF Handle
<1> QED
  BY <1>1, <1>2, <1>3 DEF DeniedForOthers, Denied

\* Every step keeps the reasons of the denials.
LEMMA SilenceStep == IInv /\ DeniedForOthers /\ [Next]_vars => DeniedForOthers'
<1> SUFFICES ASSUME IInv, DeniedForOthers, [Next]_vars PROVE DeniedForOthers'
  OBVIOUS
<1>1. ASSUME NEW x \in Instances, NEW k \in Attempts, Serve(x, k) PROVE DeniedForOthers'
  BY <1>1, ServeSilence, CommitSilence DEF Serve, IInv
<1>2. ASSUME NEW x \in Instances, Handle(x) PROVE DeniedForOthers'
  BY <1>2, HandleSilence
<1>3. CASE Revise
  BY <1>3 DEF Revise, DeniedForOthers, Denied
<1>4. ASSUME NEW m \in ModesUsed, Restart(m) PROVE DeniedForOthers'
  <2>1. Request("dead").action = "abstain"
    BY PlainRequest
  <2>2. \A y \in Instances, j \in Attempts :
           requests'[y][j] = IF requests[y][j].phase \in Running
                             THEN Request("dead") ELSE requests[y][j]
    BY <1>4 DEF Restart, Attempts
  <2> QED
    BY <1>4, <2>1, <2>2 DEF Restart, DeniedForOthers, Denied
<1>5. CASE UNCHANGED vars
  BY <1>5 DEF vars, DeniedForOthers, Denied
<1> QED
  BY <1>1, <1>2, <1>3, <1>4, <1>5 DEF Next, Attempts

\* When every bot that saw the message is kept silent, the policy wanted silence,
\* or decided differently for two of them, or chose a bot that has not seen it:
\* coordination alone never silences a message, for any number of bots.
THEOREM SilenceAlwaysHasAReason == Spec => []SilenceHasAReason
<1>1. Init => DeniedForOthers
  BY DEF Init, DeniedForOthers, NoClaim, Request, Attempts
<1>2. IInv /\ DeniedForOthers => SilenceHasAReason
  <2> SUFFICES ASSUME IInv, DeniedForOthers,
                      \A x \in observed : bridge[x] \in {"muted", "armed"},
                      \A x, y \in observed : claims[x].by = claims[y].by,
                      NEW x \in observed, claims[x].by \in observed
               PROVE  FALSE
    BY DEF SilenceHasAReason
  <2> DEFINE z == claims[x].by
  <2>1. z \in observed /\ z \in Instances
    BY DEF IInv, TypeOK
  <2>2. claims[z].by = z
    BY <2>1
  <2>3. Denied(z)
    BY <2>1 DEF DeniedForOthers, IInv, ClaimInv, DenialsStand
  <2> QED
    BY <2>1, <2>2, <2>3 DEF DeniedForOthers, Denied
<1> QED
  BY <1>1, <1>2, SilenceStep, Invariant, PTL DEF Spec

-------------------------------------------------------------------------------
(* The refinement.                                                         *)

\* The holder of the floor is the owner, and there is no other.
HolderOwns == /\ \A x \in Instances : Owner(x) <=> Holder = x
              /\ Holder = None <=> \A x \in Instances : ~Owner(x)

\* It is, in every state of the invariant.
LEMMA HolderIsOwner == IInv => HolderOwns
BY ClaimAssumption DEF IInv, ClaimInv, OwnersAcked, Holder, HolderOwns

\* Recording a claim gives the floor, on acknowledged denials, or leaves it.
LEMMA CommitFloor ==
    ASSUME IInv, IInv', NEW x \in Instances, NEW k \in Attempts, Commit(x, k)
    PROVE  Floor!Grant(x) \/ UNCHANGED <<Vowed, sent, Holder>>
<1> DEFINE v == Verdict(x, k)
<1>1. /\ v \in ClaimRecord
      /\ v.action = "allow" /\ v.enforced =>
            /\ v.peers # {}
            /\ \A y \in v.peers : claims[y].acked
            /\ \A y \in Instances \ {x} : ~Owner(y)
  BY VerdictFacts DEF IInv
<1>2. /\ claims' = [claims EXCEPT ![x] = v]
      /\ requests[x][k].phase = "locked"
      /\ UNCHANGED <<bridge, sent>>
  BY DEF Commit
<1> HIDE DEF v
<1>3. \A y \in Instances : claims'[y] = IF y = x THEN v ELSE claims[y]
  BY <1>2 DEF IInv, TypeOK
<1>4. ~Claimed(x) /\ ~Owner(x) /\ x \notin Vowed
  BY <1>2 DEF IInv, ClaimInv, LockExcludes, DenialsStand, Claimed, Denied, Owner, Vowed
<1>5. Vowed' = Vowed /\ sent' = sent
  BY <1>2 DEF Vowed
<1>6. CASE v.action = "allow" /\ v.enforced
  <2>1. Holder = None
    BY <1>1, <1>4, <1>6, HolderIsOwner DEF HolderOwns
  <2>2. Owner(x)'
    BY <1>3, <1>6 DEF Owner
  <2>3. HolderOwns'
    BY HolderIsOwner, PTL
  <2>4. Holder' = x
    BY <2>2, <2>3 DEF HolderOwns
  <2>5. Vowed # {}
    BY <1>1, <1>6 DEF IInv, ClaimInv, AcksAreArmed, Vowed, ClaimRecord
  <2> QED
    BY <1>4, <1>5, <2>1, <2>4, <2>5 DEF Floor!Grant
<1>7. CASE ~(v.action = "allow" /\ v.enforced)
  <2>1. \A y \in Instances : Owner(y)' <=> Owner(y)
    BY <1>3, <1>4, <1>7 DEF Owner
  <2>2. Holder' = Holder
    BY <2>1 DEF Holder
  <2> QED
    BY <1>5, <2>2
<1> QED
  BY <1>6, <1>7

\* The steps of a bridge: only the answer to a claim can be a vow, and only a
\* bot that made none answers the message.
LEMMA HandleFloor ==
    ASSUME IInv, IInv', NEW x \in Instances, Handle(x)
    PROVE  Floor!Vow(x) \/ Floor!Speak(x) \/ UNCHANGED <<Vowed, sent, Holder>>
<1>1. Holder' = Holder
  <2>1. \A y \in Instances : Owner(y)' <=> Owner(y)
    <3>1. CASE Acknowledge(x)
      BY <3>1 DEF Acknowledge, Owner, IInv, TypeOK, ClaimRecord
    <3>2. CASE ~Acknowledge(x)
      BY <3>2 DEF Handle, Hear, AskAgain, FailOpen, Receive, Speak, Report, OnlyBridge, Owner
    <3> QED
      BY <3>1, <3>2
  <2> QED
    BY <2>1 DEF Holder
<1>2. CASE Speak(x)
  <2>1. x \notin Vowed /\ Vowed' = Vowed /\ sent' = sent \cup {x}
    BY <1>2 DEF Speak, Vowed
  <2> QED
    BY <1>1, <2>1 DEF Floor!Speak
<1>3. ASSUME NEW attached \in BOOLEAN, Receive(x, attached)
      PROVE  Floor!Vow(x) \/ UNCHANGED <<Vowed, sent, Holder>>
  <2>1. bridge[x] = "asking" /\ sent' = sent
        /\ \A y \in Instances \ {x} : bridge'[y] = bridge[y]
    BY <1>3 DEF Receive, Turn, IInv, TypeOK
  <2>2. CASE bridge'[x] = "armed"
    <3>1. Vowed' = Vowed \cup {x}
      BY <2>1, <2>2 DEF Vowed
    <3>2. x \notin sent /\ Denied(x)'
      BY <2>1, <2>2 DEF IInv, ClaimInv, DenialsStand
    <3>3. ~Owner(x)
      BY <1>3, <3>2 DEF Receive, OnlyBridge, Denied, Owner
    <3>4. Holder # x
      BY <3>3, HolderIsOwner DEF HolderOwns
    <3> QED
      BY <1>1, <2>1, <3>1, <3>2, <3>4 DEF Floor!Vow
  <2>3. CASE bridge'[x] # "armed"
    BY <1>1, <2>1, <2>3 DEF Vowed
  <2> QED
    BY <2>2, <2>3
<1>4. CASE Hear(x) \/ AskAgain(x) \/ FailOpen(x) \/ Report(x) \/ Acknowledge(x)
  <2>1. sent' = sent
    BY <1>4 DEF Hear, AskAgain, FailOpen, Report, Acknowledge
  <2>2. \A y \in Instances : bridge'[y] = "armed" <=> bridge[y] = "armed"
    BY <1>4 DEF Hear, AskAgain, FailOpen, Report, Acknowledge, Turn, IInv, TypeOK
  <2>3. Vowed' = Vowed
    BY <2>2 DEF Vowed
  <2> QED
    BY <1>1, <2>1, <2>3
<1> QED
  BY <1>2, <1>3, <1>4 DEF Handle

\* Every step is a step of SpeakingFloor or changes nothing of it.
LEMMA FloorStep == IInv /\ IInv' /\ [Next]_vars => [Floor!Next]_(Floor!vars)
<1> SUFFICES ASSUME IInv, IInv', [Next]_vars
             PROVE  Floor!Next \/ UNCHANGED <<Vowed, sent, Holder>>
  BY DEF Floor!vars
<1>1. ASSUME UNCHANGED <<claims, bridge, sent>>
      PROVE  UNCHANGED <<Vowed, sent, Holder>>
  BY <1>1 DEF Vowed, Holder, Owner
<1>2. ASSUME NEW x \in Instances, NEW k \in Attempts, Serve(x, k)
      PROVE  Floor!Next \/ UNCHANGED <<Vowed, sent, Holder>>
  <2>1. CASE Commit(x, k)
    BY <2>1, CommitFloor DEF Floor!Next
  <2>2. CASE ~Commit(x, k)
    BY <1>1, <1>2, <2>2 DEF Serve, Arrive, Decide, Lock, Abort, OnlyRequests
  <2> QED
    BY <2>1, <2>2
<1>3. ASSUME NEW x \in Instances, Handle(x)
      PROVE  Floor!Next \/ UNCHANGED <<Vowed, sent, Holder>>
  BY <1>3, HandleFloor DEF Floor!Next
<1>4. CASE Revise \/ \E m \in ModesUsed : Restart(m)
  BY <1>1, <1>4 DEF Revise, Restart
<1>5. CASE UNCHANGED vars
  BY <1>1, <1>5 DEF vars
<1> QED
  BY <1>2, <1>3, <1>4, <1>5 DEF Next, Attempts

\* The claim protocol keeps the promise of SpeakingFloor.
THEOREM Refinement == Spec => KeepsTheFloor
<1>1. Init => Floor!Init
  BY DEF Init, Floor!Init, Vowed, Holder, Owner, NoClaim
<1> QED
  BY <1>1, FloorStep, Invariant, PTL DEF Spec, KeepsTheFloor, Floor!Spec
================================================================================
