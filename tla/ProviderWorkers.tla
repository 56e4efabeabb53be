----------------------------- MODULE ProviderWorkers ---------------------------
(***************************************************************************)
(* One provider process against Core: its loop, its child or worker, its   *)
(* requests, Core's answers, cancellations, expiries, the stop and the     *)
(* restart of the process.                                                 *)
(***************************************************************************)
EXTENDS StatusProvider, WolframProvider, LatexProvider

Init ==
    /\ now = 0 /\ late = {} /\ faults = 0
    /\ rows = [a \in Attempts |-> NoRow]
    /\ kind \in Kinds /\ executes \in BOOLEAN
    /\ up = TRUE /\ inventory = FALSE /\ job = NoJob
    /\ works = [w \in Works |-> "none"]
    /\ calls = [slot \in Slots |-> NoCall]

\* The process is killed.  A status child is orphaned; a worker does not notice.
Killed ==
    /\ up
    /\ works' = [w \in Works |-> IF kind = "status" /\ works[w] = "running"
                                 THEN "orphan" ELSE works[w]]
    /\ GoesDown

Restarts ==
    /\ ~up /\ up' = TRUE
    /\ UNCHANGED <<now, rows, kind, executes, inventory, job, works, calls, late, faults>>

\* The provider's own timers are prompt: the clock waits for an execution at its limit.
Tick ==
    /\ now < MaxTime
    /\ ~(up /\ job.stage = "run" /\ ~HasResult /\ now >= job.limit)
    /\ now' = now + 1
    /\ UNCHANGED <<rows, kind, executes, up, inventory, job, works, calls, late, faults>>

Core ==
    \/ \E slot \in Slots : ServeLease(slot) \/ Serve(slot) \/ Fails(slot)
    \/ ServeLate
    \/ \E a \in Attempts : RequestCancel(a) \/ Reap(a)

Next ==
    \/ StatusStep \/ WolframStep \/ LatexStep \/ KeeperStep
    \/ \E a \in Attempts : WolframWorkerEnds(a)
    \/ \E w \in Works : RenderStarts(w) \/ RenderEnds(w)
    \/ DocumentAsked \/ OrphanEnds
    \/ Core
    \/ StatusInterrupted \/ Killed \/ Restarts \/ Tick

Spec == Init /\ [][Next]_vars

\* A call is answered or times out; a process takes what came back, ends at its limit,
\* polls again and is restarted; time passes.
Settles(slot) == calls[slot].at = "sent" /\ (ServeLease(slot) \/ Serve(slot) \/ Fails(slot))

FairSpec ==
    /\ Spec
    /\ WF_vars(StatusStep \/ WolframStep \/ LatexStep \/ Restarts)
    /\ WF_vars(KeeperHears)
    /\ WF_vars(ChildTimesOut \/ WolframUnanswered \/ LatexUnanswered)
    /\ \A slot \in Slots : WF_vars(Settles(slot))
    /\ WF_vars(Tick)

-------------------------------------------------------------------------------
(* Properties.                                                             *)

\* "cancelled" tells the user that nothing runs any more: no child, no render, no
\* evaluation of that attempt goes on, started or waiting, not even after a restart.
CancelledMeansStopped ==
    \A a \in Attempts : rows[a].state = "cancelled" => works[a] = "none"

\* A provider tells Core it has room for one execution and is idle when it asks for
\* work.  A status child runs only under an attempt Core still counts, and never beside
\* another one; the LaTeX worker renders one thing at a time.
CapacityHonest ==
    /\ kind # "wolfram" => Cardinality({w \in Works : works[w] = "running"}) <= 1
    /\ kind = "status" =>
         \A a \in Attempts : works[a] = "running" => Live(a) /\ Working = a

\* Whatever Core, the worker or the network does, the loop comes back to its top.
Returns == []<>AtTop
===============================================================================
