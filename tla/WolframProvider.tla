----------------------------- MODULE WolframProvider ---------------------------
(***************************************************************************)
(* The Wolfram provider: a persistent worker, outside this repository, is  *)
(* asked over a Unix socket.  Closing the connection does not stop it, so  *)
(* an execution that is given up may go on, and no cancellation is ever    *)
(* acknowledged.                                                           *)
(***************************************************************************)
EXTENDS ProviderJob

\* The bound is computed before start is sent and counts from its answer.
WolframSeconds(a) == Max({0, Least(Timeout, rows[a].deadline - now - Margin)})

WolframCanStart(a) ==
    /\ rows[a].expires - now > Margin
    /\ rows[a].deadline - now > Margin

WolframReporter == kind = "wolfram" /\ ~executes /\ Reports
WolframRegistry == kind = "wolfram" /\ executes /\ Reports
WolframPolls == kind = "wolfram" /\ AsksForWork

WolframTakes ==
    LET a == calls["main"].attempt
    IN Takes("wolfram", WolframCanStart(a) /\ WolframSeconds(a) >= 1, WolframSeconds(a))
WolframGivesUp == GivesUp("wolfram")
WolframRuns == Runs("wolfram", job.limit, "running")
WolframBeats == Beats("wolfram")
WolframGoesOn == GoesOn("wolfram")

\* Mutant: giving up the connection is taken for the end of the execution.
WolframAcknowledges ==
    /\ Is("wolfram", "run") /\ Answered("main", "beat") /\ Reply("main") # "ok"
    /\ IF Reply("main") = "cancel"
       THEN Report("cancelled")
       ELSE Drop
    /\ UNCHANGED <<now, rows, kind, executes, up, inventory, works, late, faults>>

\* Nobody waits for the worker any more; it may go on.
WolframAbandons ==
    /\ Is("wolfram", "run") /\ Answered("main", "beat") /\ Reply("main") # "ok"
    /\ Drop
    /\ UNCHANGED <<now, rows, kind, executes, up, inventory, works, late, faults>>

\* The limit has come, or the connection broke.
WolframUnanswered ==
    /\ Waits("wolfram")
    /\ Ends("failure")
    /\ UNCHANGED <<now, rows, kind, executes, up, inventory, works, calls, late, faults>>

\* The worker is done, whether or not somebody still waits for it.
WolframWorkerEnds(a) ==
    /\ kind = "wolfram" /\ works[a] = "running"
    /\ Begin(a, "none")
    /\ IF Waits("wolfram") /\ Working = a
       THEN \E result \in {"success", "failure"} : Ends(result)
       ELSE UNCHANGED job
    /\ UNCHANGED <<now, rows, kind, executes, up, inventory, calls, late, faults>>

WolframFinishes == Finishes("wolfram")
WolframCloses == Closes("wolfram")

WolframStep ==
    \/ WolframReporter \/ WolframRegistry
    \/ WolframPolls \/ WolframTakes \/ WolframGivesUp \/ WolframRuns
    \/ WolframBeats \/ WolframGoesOn \/ WolframAbandons \/ WolframUnanswered
    \/ WolframFinishes \/ WolframCloses
===============================================================================
