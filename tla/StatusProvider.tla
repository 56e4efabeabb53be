----------------------------- MODULE StatusProvider ----------------------------
(***************************************************************************)
(* The status provider: one child process per execution, killed before     *)
(* anything is reported, and the only provider that may acknowledge a      *)
(* cancellation.                                                           *)
(***************************************************************************)
EXTENDS ProviderJob

\* Mutant: the lease's own end is forgotten: only deadline and descriptor bound the child.
StopAtDeadline(a) == rows[a].deadline

\* _remaining_execution_seconds: the first lease bounds the whole execution.
AbsoluteStop(a) == Least(rows[a].deadline, rows[a].expires)
StatusSeconds(stop) == Max({0, Least(Timeout, stop - now - Margin)})

StatusReporter == kind = "status" /\ ~executes /\ Reports
StatusRegistry == kind = "status" /\ executes /\ Reports
StatusPolls == kind = "status" /\ AsksForWork

StatusTakes ==
    LET a == calls["main"].attempt
    IN Takes("status", StatusSeconds(AbsoluteStop(a)) > 0, AbsoluteStop(a))
StatusGivesUp == GivesUp("status")

\* The child starts only when time is left after the answer to start.
StatusRuns ==
    /\ Is("status", "start") /\ StatusSeconds(job.limit) > 0
    /\ Runs("status", StatusSeconds(job.limit), "running")
StatusStartsTooLate ==
    /\ Is("status", "start") /\ Answered("main", "start") /\ Reply("main") = "ok"
    /\ StatusSeconds(job.limit) = 0
    /\ Ends("failure")
    /\ Forget("main")
    /\ UNCHANGED <<now, rows, kind, executes, up, inventory, works, late, faults>>

\* SIGTERM, then SIGKILL: when _stop returns the child is gone.
StopChild == works' = [works EXCEPT ![Working] = IF @ = "running" THEN "none" ELSE @]

\* _exchange returned: the child's answer decodes to a result or to a failure.
ChildEnds ==
    /\ Waits("status")
    /\ Begin(Working, "none")
    /\ \E result \in {"success", "failure"} : Ends(result)
    /\ UNCHANGED <<now, rows, kind, executes, up, inventory, calls, late, faults>>

ChildTimesOut ==
    /\ Waits("status") /\ now >= job.limit
    /\ StopChild
    /\ Ends("failure")
    /\ UNCHANGED <<now, rows, kind, executes, up, inventory, calls, late, faults>>

StatusBeats == Beats("status")
StatusGoesOn == GoesOn("status")

\* The heartbeat failed or was refused: the child is stopped, nothing is reported.
StatusAbandons ==
    /\ Is("status", "run") /\ Answered("main", "beat") /\ Reply("main") \in {"error", "refused"}
    /\ StopChild
    /\ Drop
    /\ UNCHANGED <<now, rows, kind, executes, up, inventory, late, faults>>

\* The child is stopped first, then the cancellation is acknowledged.
StatusCancels ==
    /\ Is("status", "run") /\ Answered("main", "beat") /\ Reply("main") = "cancel"
    /\ StopChild
    /\ Report("cancelled")
    /\ UNCHANGED <<now, rows, kind, executes, up, inventory, late, faults>>

\* SIGINT cancels the task that runs the executor: it stops its child and ends.
StatusInterrupted ==
    /\ kind = "status" /\ up
    /\ works' = [a \in Works |-> IF works[a] = "running" THEN "none" ELSE works[a]]
    /\ GoesDown

StatusFinishes == Finishes("status")
StatusCloses == Closes("status")

StatusStep ==
    \/ StatusReporter \/ StatusRegistry
    \/ StatusPolls \/ StatusTakes \/ StatusGivesUp \/ StatusRuns \/ StatusStartsTooLate
    \/ StatusBeats \/ StatusGoesOn \/ StatusAbandons \/ StatusCancels
    \/ ChildEnds \/ ChildTimesOut \/ StatusFinishes \/ StatusCloses

\* A child that outlives its supervisor writes to a closed pipe and ends.
OrphanEnds ==
    /\ \E a \in Attempts : works[a] = "orphan" /\ Begin(a, "none")
    /\ UNCHANGED <<now, rows, kind, executes, up, inventory, job, calls, late, faults>>
===============================================================================
