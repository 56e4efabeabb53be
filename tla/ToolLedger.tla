------------------------------ MODULE ToolLedger ------------------------------
(***************************************************************************)
(* What the tool ledger promises a caller, without leases, clocks, plans   *)
(* or providers.  An invocation is accepted or refused, is handed out for  *)
(* execution, may be handed out again only if that is safe, may be asked   *)
(* to stop, and settles once on an outcome it can justify.  One is taken   *)
(* up at a time; several may end, or be taken back, together.              *)
(***************************************************************************)
EXTENDS Naturals

CONSTANTS Invocations,
          Repeatable     \* the invocations that may be handed out again

VARIABLES phase,         \* [Invocations -> Phases]
          handouts,      \* [Invocations -> how often it was handed out]
          outcome        \* [Invocations -> Outcomes]

vars == <<phase, handouts, outcome>>

Phases == {"absent", "waiting", "executing", "stopping", "settled"}
Refusals == {"rejected", "recorded_only"}
NeverRun == {"rejected", "cancelled", "expired", "timed_out"}
RunEnded == {"succeeded", "failed", "timed_out", "unknown_completion"}
StopEnded == {"cancelled", "unknown_completion"}
Outcomes == {"none"} \cup Refusals \cup NeverRun \cup RunEnded \cup StopEnded

TypeOK ==
    /\ phase \in [Invocations -> Phases]
    /\ handouts \in [Invocations -> Nat]
    /\ outcome \in [Invocations -> Outcomes]

Init ==
    /\ phase = [i \in Invocations |-> "absent"]
    /\ handouts = [i \in Invocations |-> 0]
    /\ outcome = [i \in Invocations |-> "none"]

\* What may become of one invocation.
Enters(i, p) ==
    phase'[i] = p /\ handouts'[i] = handouts[i] /\ outcome'[i] = outcome[i]

Settles(i, o) ==
    phase'[i] = "settled" /\ handouts'[i] = handouts[i] /\ outcome'[i] = o

Stays(i) == Enters(i, phase[i])

Submit(i) ==
    /\ phase[i] = "absent"
    /\ Enters(i, "waiting") \/ \E o \in Refusals : Settles(i, o)

HandOut(i) ==
    /\ phase[i] = "waiting"
    /\ handouts[i] > 0 => i \in Repeatable
    /\ phase'[i] = "executing"
    /\ handouts'[i] = handouts[i] + 1
    /\ outcome'[i] = outcome[i]

TakeBack(i) ==
    /\ phase[i] = "executing"
    /\ i \in Repeatable
    /\ Enters(i, "waiting")

AskToStop(i) ==
    /\ phase[i] = "executing"
    /\ Enters(i, "stopping")

Conclude(i) ==
    \/ phase[i] = "waiting" /\ \E o \in NeverRun : Settles(i, o)
    \/ phase[i] = "executing" /\ \E o \in RunEnded : Settles(i, o)
    \/ phase[i] = "stopping" /\ \E o \in StopEnded : Settles(i, o)

Next ==
    /\ TypeOK'
    /\ \/ \E i \in Invocations :
             /\ Submit(i) \/ HandOut(i) \/ AskToStop(i)
             /\ \A j \in Invocations \ {i} : Stays(j)
       \/ \A i \in Invocations : Stays(i) \/ TakeBack(i) \/ Conclude(i)

Spec == Init /\ [][Next]_vars
===============================================================================
