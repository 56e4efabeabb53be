------------------------------- MODULE ProviderJob -----------------------------
(***************************************************************************)
(* The steps the three executors share, each named by the provider that    *)
(* takes it in StatusProvider, WolframProvider and LatexProvider: one pass *)
(* of run_executor after its lease request, up to the return of            *)
(* _execute_lease.                                                         *)
(***************************************************************************)
EXTENDS ProviderClient

Is(k, stage) == kind = k /\ up /\ job.stage = stage
Working == job.attempt
HasResult == job.result # None

\* return from _execute_lease; main is free for the next pass.
Drop == job' = NoJob /\ Forget("main")
Begin(work, state) == works' = [works EXCEPT ![work] = state]

\* A lease that does not match what was reported, or leaves no time, is left to expire.
\* What the provider computed from the lease before start stays with the job.
Takes(k, enough, limit) ==
    /\ Is(k, "none") /\ Answered("main", "lease")
    /\ \/ /\ Reply("main") = "ok" /\ enough
          /\ job' = JobAt(calls["main"].attempt, "start", limit, None)
          /\ Send("main", "start", calls["main"].attempt)
       \/ Drop
    /\ UNCHANGED <<now, rows, kind, executes, up, inventory, works, late, faults>>

\* start was refused, or is ambiguous.
GivesUp(k) ==
    /\ Is(k, "start") /\ Answered("main", "start") /\ Reply("main") # "ok"
    /\ Drop
    /\ UNCHANGED <<now, rows, kind, executes, up, inventory, works, late, faults>>

Runs(k, seconds, state) ==
    /\ Is(k, "start") /\ Answered("main", "start") /\ Reply("main") = "ok"
    /\ job' = JobAt(Working, "run", now + seconds, None)
    /\ Begin(Working, state)
    /\ Forget("main")
    /\ UNCHANGED <<now, rows, kind, executes, up, inventory, late, faults>>

\* How long the loop waits between two heartbeats is left open.
Beats(k) ==
    /\ Is(k, "run") /\ Idle("main") /\ ~HasResult
    /\ Send("main", "beat", Working)
    /\ UNCHANGED <<now, rows, kind, executes, up, inventory, job, works, late, faults>>

GoesOn(k) ==
    /\ Is(k, "run") /\ Answered("main", "beat") /\ Reply("main") = "ok"
    /\ Forget("main")
    /\ UNCHANGED <<now, rows, kind, executes, up, inventory, job, works, late, faults>>

\* The answer to the last report decides nothing any more.
Closes(k) ==
    /\ Is(k, "finish") /\ calls["main"].at = "answered"
    /\ Drop
    /\ UNCHANGED <<now, rows, kind, executes, up, inventory, works, late, faults>>

\* The task that waits for the work, and ends at the limit at the latest (see Tick).
Waits(k) == Is(k, "run") /\ ~HasResult
Ends(result) == job' = JobAt(Working, "run", 0, result)

\* The task has ended: its result is reported, or stored first.
Report(operation) ==
    /\ job' = JobAt(Working, "finish", 0, None)
    /\ Send("main", operation, Working)

Finishes(k) ==
    /\ Is(k, "run") /\ Idle("main") /\ HasResult
    /\ Report(IF job.result = "success" THEN "complete" ELSE "fail")
    /\ UNCHANGED <<now, rows, kind, executes, up, inventory, works, late, faults>>
===============================================================================
