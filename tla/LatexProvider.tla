------------------------------ MODULE LatexProvider ----------------------------
(***************************************************************************)
(* The LaTeX provider: a worker process renders one request at a time, for *)
(* leases and for Core's documents; the picture is stored as an artifact   *)
(* while a second task keeps the lease alive.                              *)
(***************************************************************************)
EXTENDS ProviderJob

LatexSeconds(a) == Max({0, Least(Timeout, rows[a].deadline - now - Margin)})

LatexCanStart(a) ==
    /\ rows[a].expires - now > Margin
    /\ rows[a].deadline - now > Margin

LatexReporter == kind = "latex" /\ ~executes /\ Reports
LatexRegistry == kind = "latex" /\ executes /\ Reports
LatexPolls == kind = "latex" /\ AsksForWork

LatexTakes ==
    LET a == calls["main"].attempt
    IN Takes("latex", LatexCanStart(a) /\ LatexSeconds(a) >= 1, LatexSeconds(a))
LatexGivesUp == GivesUp("latex")
LatexRuns == Runs("latex", job.limit, "queued")
LatexBeats == Beats("latex")
LatexGoesOn == GoesOn("latex")

LatexAbandons ==
    /\ Is("latex", "run") /\ Answered("main", "beat") /\ Reply("main") # "ok"
    /\ Drop
    /\ UNCHANGED <<now, rows, kind, executes, up, inventory, works, late, faults>>

LatexUnanswered ==
    /\ Waits("latex")
    /\ Ends("failure")
    /\ UNCHANGED <<now, rows, kind, executes, up, inventory, works, calls, late, faults>>

-------------------------------------------------------------------------------
(* The worker.  A handler waits for the lock and renders even when the     *)
(* client has closed its connection.                                       *)

RenderLockFree == \A w \in Works : works[w] # "running"

\* document_gateway: Core's documents come over the same socket.
DocumentAsked ==
    /\ kind = "latex" /\ works[Document] = "none"
    /\ Begin(Document, "queued")
    /\ UNCHANGED <<now, rows, kind, executes, up, inventory, job, calls, late, faults>>

RenderStarts(w) ==
    /\ kind = "latex" /\ works[w] = "queued"
    /\ RenderLockFree
    /\ Begin(w, "running")
    /\ UNCHANGED <<now, rows, kind, executes, up, inventory, job, calls, late, faults>>

RenderEnds(w) ==
    /\ kind = "latex" /\ works[w] = "running"
    /\ Begin(w, "none")
    /\ IF Waits("latex") /\ Working = w
       THEN \E result \in {"success", "failure"} : Ends(result)
       ELSE UNCHANGED job
    /\ UNCHANGED <<now, rows, kind, executes, up, inventory, calls, late, faults>>

-------------------------------------------------------------------------------
(* _store_artifact: reserve, upload, finalize, with _artifact_lease_keeper *)
(* beside it.                                                              *)

LatexFinishes ==
    \/ job.result = "failure" /\ Finishes("latex")
    \/ /\ Is("latex", "run") /\ Idle("main") /\ job.result = "success"
       /\ job' = [job EXCEPT !.stage = "store"]
       /\ Send("main", "reserve", Working)
       /\ UNCHANGED <<now, rows, kind, executes, up, inventory, works, late, faults>>

Storing == Is("latex", "store") /\ calls["main"].at = "answered"
NextStep == IF calls["main"].op = "reserve" THEN "upload" ELSE "finalize"

\* A lease found lost stops the next step, but no longer what comes after finalize.
StoresOn ==
    /\ Storing /\ Reply("main") = "ok" /\ ~job.lost /\ calls["main"].op # "finalize"
    /\ Send("main", NextStep, Working)
    /\ UNCHANGED <<now, rows, kind, executes, up, inventory, job, works, late, faults>>

\* The finally clause: the keeper is told to stop and waited for.
StoreEnds ==
    /\ Storing
    /\ \/ /\ Reply("main") # "ok" \/ (job.lost /\ calls["main"].op # "finalize")
          /\ job' = JobAt(Working, "close", 0, "failure")
       \/ /\ Reply("main") = "ok" /\ calls["main"].op = "finalize"
          /\ job' = JobAt(Working, "close", 0, job.result)
    /\ Forget("main")
    /\ UNCHANGED <<now, rows, kind, executes, up, inventory, works, late, faults>>

\* Mutant: the keeper keeps beating while the finally clause waits for it.
KeeperNeverStops ==
    /\ job.stage \in {"store", "close"} /\ up /\ kind = "latex"
    /\ Idle("keeper") /\ ~job.lost
    /\ Send("keeper", "beat", Working)
    /\ UNCHANGED <<now, rows, kind, executes, up, inventory, job, works, late, faults>>

KeeperBeats ==
    /\ Is("latex", "store") /\ Idle("keeper") /\ ~job.lost
    /\ Send("keeper", "beat", Working)
    /\ UNCHANGED <<now, rows, kind, executes, up, inventory, job, works, late, faults>>

KeeperHears ==
    /\ kind = "latex" /\ up /\ Answered("keeper", "beat")
    /\ job' = [job EXCEPT !.lost = @ \/ (job.stage = "store" /\ Reply("keeper") # "ok")]
    /\ Forget("keeper")
    /\ UNCHANGED <<now, rows, kind, executes, up, inventory, works, late, faults>>

\* The keeper has ended: complete names the artifact, or nothing is reported.
LatexReports ==
    /\ Is("latex", "close") /\ Idle("keeper")
    /\ \/ /\ job.result = "success"
          /\ Report("complete")
       \/ job.result = "failure" /\ Drop
    /\ UNCHANGED <<now, rows, kind, executes, up, inventory, works, late, faults>>
LatexCloses == Closes("latex")

LatexStep ==
    \/ LatexReporter \/ LatexRegistry
    \/ LatexPolls \/ LatexTakes \/ LatexGivesUp \/ LatexRuns
    \/ LatexBeats \/ LatexGoesOn \/ LatexAbandons \/ LatexUnanswered
    \/ LatexFinishes \/ StoresOn \/ StoreEnds \/ LatexReports \/ LatexCloses
KeeperStep == KeeperBeats \/ KeeperHears
===============================================================================
