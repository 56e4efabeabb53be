------------------------------ MODULE EventClaims ------------------------------
(***************************************************************************)
(* Who may answer one message that several bots saw.  The bridge in each   *)
(* bot reports its observation and asks Core for a claim; Core evaluates   *)
(* the canonical decision and answers allow, deny or abstain.  A bot that  *)
(* is denied installs a send guard and acknowledges it; an allow is        *)
(* enforced only over acknowledged denials.  Whatever fails leaves the bot *)
(* free to answer, as it would without Core.                               *)
(*                                                                         *)
(* The claims of different messages do not meet, so one message is enough. *)
(* A claim request runs through several transactions of Core and waits in  *)
(* between for other bots; the bridge may time out and send it again while *)
(* the first is still running.                                             *)
(***************************************************************************)
EXTENDS Naturals, FiniteSets

CONSTANTS
    Instances,     \* the bots
    None,          \* no bot
    ClaimEnabled,  \* the bots whose bridge asks for claims
    Early,         \* those in which another plugin may answer before the bridge
    Required,      \* settings.claim_required_observations
    MaxAttempts,   \* the most attempts a bridge is configured with
    ClaimAttempts, \* [Instances -> claim_attempts of its bridge]
    Targets,       \* the decisions the policy may reach
    ModesUsed,     \* the claim modes Core is configured with
    MaxRevisions,  \* bound: recomputations without a new observation
    MaxRestarts    \* bound: how often Core restarts

NoTarget == "nobody"    \* no actionable decision
Silence == "everybody"  \* reply_to_other_observed: deny every bot

ASSUME ClaimAssumption ==
    /\ {None, NoTarget, Silence} \cap Instances = {}
    /\ ClaimEnabled \subseteq Instances
    /\ Early \subseteq Instances
    /\ Required \in Nat
    /\ MaxAttempts \in Nat \ {0}
    /\ ClaimAttempts \in [Instances -> 1 .. MaxAttempts]
    /\ Targets \subseteq Instances \cup {NoTarget, Silence}
    /\ ModesUsed \subseteq {"off", "shadow", "outside", "enforce"}
    /\ {MaxRevisions, MaxRestarts} \subseteq Nat

VARIABLES
    observed,   \* instances with an observation row for the message
    decision,   \* the target of its decision row
    claims,     \* [Instances -> its claim row]
    requests,   \* [Instances -> [1 .. MaxAttempts -> request in Core]]
    bridge,     \* [Instances -> where the bridge stands with the message]
    attempt,    \* [Instances -> attempts at a claim]
    sent,       \* instances that answered the message
    mode,       \* what settings.claim_mode means for this conversation
    revisions, restarts   \* counted for the bounds only

vars == <<observed, decision, claims, requests, bridge, attempt, sent, mode,
          revisions, restarts>>

Decisions == Instances \cup {NoTarget, Silence}
Actions == {"allow", "deny", "abstain"}
\* "outside": claim_observe_only_outside_canary, in a conversation outside.
Modes == {"off", "shadow", "outside", "enforce"}
ClaimRecord == [action : Actions \cup {"none"}, enforced : BOOLEAN,
                by : Decisions, peers : SUBSET Instances, acked : BOOLEAN]
Running == {"deciding", "locking", "locked"}
Answered == {"denied", "passed"}
RequestRecord == [phase : {"none", "dead"} \cup Running \cup Answered,
                  action : Actions, enforced : BOOLEAN,
                  by : Decisions, peers : SUBSET Instances]
BridgeStates == {"idle", "asking", "free", "muted", "armed"}

NoClaim == [action |-> "none", enforced |-> FALSE, by |-> NoTarget,
            peers |-> {}, acked |-> FALSE]
Request(phase) == [phase |-> phase, action |-> "abstain", enforced |-> FALSE,
                   by |-> NoTarget, peers |-> {}]

TypeOK ==
    /\ observed \subseteq Instances
    /\ decision \in Decisions
    /\ claims \in [Instances -> ClaimRecord]
    /\ requests \in [Instances -> [1 .. MaxAttempts -> RequestRecord]]
    /\ bridge \in [Instances -> BridgeStates]
    /\ attempt \in [Instances -> 0 .. MaxAttempts]
    /\ sent \subseteq Instances
    /\ mode \in Modes
    /\ revisions \in Nat
    /\ restarts \in Nat

Init ==
    /\ observed = {}
    /\ decision = NoTarget
    /\ claims = [x \in Instances |-> NoClaim]
    /\ requests = [x \in Instances |-> [k \in 1 .. MaxAttempts |-> Request("none")]]
    /\ bridge = [x \in Instances |-> "idle"]
    /\ attempt = [x \in Instances |-> 0]
    /\ sent = {}
    /\ mode \in ModesUsed
    /\ revisions = 0
    /\ restarts = 0

Denied(x) == claims[x].action = "deny" /\ claims[x].enforced
Owner(x) == claims[x].action = "allow" /\ claims[x].enforced
Claimed(x) == claims[x].action # "none"

-------------------------------------------------------------------------------
(* Core: observations and the decision.  What the policy makes of the      *)
(* observations, the command registry and resolved replies is not kept: a  *)
(* recomputation may reach any decision in Targets.                        *)

\* ingest_event inserts the observation and recomputes the decision in one
\* transaction; an observation that is already there changes nothing.
Ingest(x) ==
    IF x \in observed
    THEN UNCHANGED <<observed, decision>>
    ELSE observed' = observed \cup {x} /\ decision' \in Targets

\* The spool delivers the event by itself: before, after or without a claim.
Report(x) ==
    /\ bridge[x] # "idle"
    /\ x \notin observed
    /\ Ingest(x)
    /\ UNCHANGED <<claims, requests, bridge, attempt, sent, mode, revisions, restarts>>

\* A late response, a resolved reply link, or a claim that found no decision.
Revise ==
    /\ observed # {}
    /\ revisions < MaxRevisions
    /\ decision' \in Targets
    /\ revisions' = revisions + 1
    /\ UNCHANGED <<observed, claims, requests, bridge, attempt, sent, mode, restarts>>

-------------------------------------------------------------------------------
(* Core: evaluate_event_claim.                                             *)

OnlyRequests == UNCHANGED <<claims, bridge, attempt, sent, mode, revisions, restarts>>

\* The response when the claim was recorded before.
Recorded(x) == Request(IF Denied(x) THEN "denied" ELSE "passed")

\* A request arrives, perhaps after the bridge gave it up.
Arrive(x, k) ==
    /\ k <= attempt[x]
    /\ requests[x][k].phase = "none"
    /\ Ingest(x)
    /\ requests' = [requests EXCEPT ![x][k] =
          IF Claimed(x) THEN Recorded(x)
          ELSE Request(IF mode = "outside" THEN "passed" ELSE "deciding")]
    /\ OnlyRequests

\* evaluate_claim.  "sound": identity, confidence, registry, command, reply
\* route and the target's heartbeat, as far as the decision asks for them.  It
\* is FALSE, too, when the bounded wait for other observers ended too early:
\* observers are never lost, so a count that was enough still is.
Evaluate(x, sound) ==
    IF mode = "off" \/ ~sound \/ decision = NoTarget THEN "abstain"
    ELSE IF decision = Silence THEN "deny"
    ELSE IF Cardinality(observed) < Required THEN "abstain"
    ELSE IF decision = x THEN "allow" ELSE "deny"

Decide(x, k, sound) ==
    LET action == Evaluate(x, sound) IN
    /\ requests[x][k].phase = "deciding"
    /\ requests' = [requests EXCEPT ![x][k] =
          [@ EXCEPT !.phase = "locking", !.action = action, !.by = decision,
                    !.enforced = mode = "enforce" /\ action # "abstain"]]
    /\ OnlyRequests
    /\ UNCHANGED <<observed, decision>>

\* The advisory lock of the message.  Under it, for an enforced allow, the
\* other observers are read first.
Lock(x, k) ==
    LET r == requests[x][k] IN
    /\ requests[x][k].phase = "locking"
    /\ \A y \in Instances, j \in 1 .. MaxAttempts : requests[y][j].phase # "locked"
    /\ requests' = [requests EXCEPT ![x][k] =
          IF Claimed(x) THEN Recorded(x)
          ELSE [r EXCEPT !.phase = "locked",
                         !.peers = IF r.action = "allow" /\ r.enforced
                                   THEN observed \ {x} ELSE {}]]
    /\ OnlyRequests
    /\ UNCHANGED <<observed, decision>>

\* Slip: a committed denial is enough, acknowledged or not.
CoveredByDenial(x, k) ==
    /\ requests[x][k].peers # {}
    /\ \A y \in requests[x][k].peers : Denied(y)
    /\ \A y \in Instances \ {x} : ~Owner(y)

\* An allow needs the acknowledged denial of every observer that was read,
\* of one at least, and no other owner.
Covered(x, k) ==
    /\ requests[x][k].peers # {}
    /\ \A y \in requests[x][k].peers : Denied(y) /\ claims[y].acked
    /\ \A y \in Instances \ {x} : ~Owner(y)

\* Slip: a bot that does not get the floor is denied.
DenyUncovered(x, k) ==
    LET r == requests[x][k] IN
    [action |-> IF r.action = "allow" /\ r.enforced /\ ~Covered(x, k)
                THEN "deny" ELSE r.action,
     enforced |-> r.enforced, by |-> r.by, peers |-> r.peers, acked |-> FALSE]

\* The claim a request that holds the lock will record.
Verdict(x, k) ==
    LET r == requests[x][k]
        fails == r.action = "allow" /\ r.enforced /\ ~Covered(x, k) IN
    [action |-> IF fails THEN "abstain" ELSE r.action,
     enforced |-> r.enforced /\ ~fails,
     by |-> r.by, peers |-> r.peers, acked |-> FALSE]

Commit(x, k) ==
    /\ requests[x][k].phase = "locked"
    /\ claims' = [claims EXCEPT ![x] = Verdict(x, k)]
    /\ requests' = [requests EXCEPT ![x][k] = Request(
          IF Verdict(x, k).action = "deny" /\ Verdict(x, k).enforced
          THEN "denied" ELSE "passed")]
    /\ UNCHANGED <<observed, decision, bridge, attempt, sent, mode, revisions, restarts>>

\* A request that fails takes its transaction with it.  One that fails before
\* it holds the lock is one that goes no further.
Abort(x, k) ==
    /\ requests[x][k].phase = "locked"
    /\ requests' = [requests EXCEPT ![x][k] = Request("dead")]
    /\ OnlyRequests
    /\ UNCHANGED <<observed, decision>>

\* acknowledge_event_claim; a repetition changes nothing.
Acknowledge(x) ==
    /\ bridge[x] = "armed"
    /\ Denied(x)
    /\ ~claims[x].acked
    /\ claims' = [claims EXCEPT ![x].acked = TRUE]
    /\ UNCHANGED <<observed, decision, requests, bridge, attempt, sent, mode,
                   revisions, restarts>>

\* Core restarts, perhaps with another claim mode.
Restart(m) ==
    /\ restarts < MaxRestarts
    /\ restarts' = restarts + 1
    /\ mode' = m
    /\ requests' = [x \in Instances |-> [k \in 1 .. MaxAttempts |->
          IF requests[x][k].phase \in Running
          THEN Request("dead") ELSE requests[x][k]]]
    /\ UNCHANGED <<observed, decision, claims, bridge, attempt, sent, revisions>>

-------------------------------------------------------------------------------
(* The bridges.                                                            *)

Turn(x, state) == bridge' = [bridge EXCEPT ![x] = state]
OnlyBridge == UNCHANGED <<observed, decision, claims, requests, mode,
                          revisions, restarts>>

Hear(x) ==
    /\ bridge[x] = "idle"
    /\ IF x \in ClaimEnabled
       THEN Turn(x, "asking") /\ attempt' = [attempt EXCEPT ![x] = 1]
       ELSE Turn(x, "free") /\ UNCHANGED attempt
    /\ UNCHANGED sent
    /\ OnlyBridge

\* The attempt timed out or failed: the bridge asks again.
AskAgain(x) ==
    /\ bridge[x] = "asking"
    /\ attempt[x] < ClaimAttempts[x]
    /\ attempt' = [attempt EXCEPT ![x] = @ + 1]
    /\ UNCHANGED <<bridge, sent>>
    /\ OnlyBridge

\* Slip: the bridge waits for the answer of its last attempt.
NeverGivesUp(x) ==
    /\ bridge[x] = "asking"
    /\ attempt[x] > ClaimAttempts[x]
    /\ Turn(x, "free")
    /\ UNCHANGED <<attempt, sent>>
    /\ OnlyBridge

\* It was the last one, or the failure is not one to repeat: the bot goes on
\* without Core.
FailOpen(x) ==
    /\ bridge[x] = "asking"
    /\ Turn(x, "free")
    /\ UNCHANGED <<attempt, sent>>
    /\ OnlyBridge

\* Slip: the guard is acknowledged although the bot had answered already.
MayCertify(x) == TRUE

\* Only a guard that was there before any answer may be acknowledged.
Authoritative(x) == x \notin sent

\* The answer to the current attempt; an earlier one is not read any more.
\* "attached": the message is still the event the bot is handling.
Receive(x, attached) ==
    /\ bridge[x] = "asking"
    /\ requests[x][attempt[x]].phase \in Answered
    /\ Turn(x, IF requests[x][attempt[x]].phase = "passed" THEN "free"
               ELSE IF Authoritative(x) /\ attached THEN "armed" ELSE "muted")
    /\ UNCHANGED <<attempt, sent>>
    /\ OnlyBridge

Speak(x) ==
    /\ bridge[x] = "free" \/ (bridge[x] = "asking" /\ x \in Early)
    /\ x \notin sent
    /\ sent' = sent \cup {x}
    /\ UNCHANGED <<bridge, attempt>>
    /\ OnlyBridge

-------------------------------------------------------------------------------

Serve(x, k) ==
    \/ Arrive(x, k)
    \/ \E sound \in BOOLEAN : Decide(x, k, sound)
    \/ Lock(x, k)
    \/ Commit(x, k)
    \/ Abort(x, k)

Handle(x) ==
    \/ Hear(x)
    \/ AskAgain(x)
    \/ FailOpen(x)
    \/ \E attached \in BOOLEAN : Receive(x, attached)
    \/ Speak(x)
    \/ Report(x)
    \/ Acknowledge(x)

Next ==
    \/ \E x \in Instances, k \in 1 .. MaxAttempts : Serve(x, k)
    \/ \E x \in Instances : Handle(x)
    \/ Revise
    \/ \E m \in ModesUsed : Restart(m)

Spec == Init /\ [][Next]_vars

\* A bridge's own timeouts run; nothing is asked of Core or of the network.
FairSpec == Spec /\ \A x \in Instances : WF_vars(AskAgain(x) \/ FailOpen(x))

-------------------------------------------------------------------------------
(* Properties.                                                             *)

\* CONTRACTS.md, "a committed deny without an acknowledgement is insufficient":
\* under an enforced allow none of the observers it counted has answered, and
\* each has its guard installed, so none of them ever will.
OwnerCovered ==
    \A x \in Instances : Owner(x) =>
        /\ claims[x].peers # {}
        /\ \A y \in claims[x].peers : bridge[y] = "armed" /\ y \notin sent

\* Coordination does not silence a message.  When every observer is muted, the
\* policy wanted that, or it changed its mind between two claims, or the bot it
\* chose has not seen the message.
SilenceHasAReason ==
    observed # {} /\ (\A x \in observed : bridge[x] \in {"muted", "armed"}) =>
        \/ \E x \in observed : claims[x].by = Silence
        \/ \E x, y \in observed : claims[x].by # claims[y].by
        \/ \A x \in observed : claims[x].by \notin observed

\* ACCEPTANCE.md, "a Core outage/timeout leaves both bots on their existing
\* behavior": every bot that saw the message stops waiting for Core.
StopsWaiting == \A x \in Instances : bridge[x] = "asking" ~> bridge[x] # "asking"

\* The protocol keeps the promise of SpeakingFloor: an acknowledgeable guard
\* is a vow, an enforced allow is the floor.
Vowed == {x \in Instances : bridge[x] = "armed"}
Holder == IF \E x \in Instances : Owner(x)
          THEN CHOOSE x \in Instances : Owner(x) ELSE None

Floor == INSTANCE SpeakingFloor WITH quiet <- Vowed, spoke <- sent, owner <- Holder

KeepsTheFloor == Floor!Spec

\* CONTRACTS.md: an allow is enforced only after all other instances observed
\* on that source have acknowledged their enforced deny claims.
AllowAfterEveryAck ==
    [][\A x \in Instances : ~Owner(x) /\ Owner(x)' =>
          \A y \in observed \ {x} : Denied(y) /\ claims[y].acked]_vars
================================================================================
