----------------------------- MODULE ProviderClient ----------------------------
(***************************************************************************)
(* provider_sdk: the execution client, which sends a request once and      *)
(* calls every failure ambiguous, and the registry client, which repeats a *)
(* report.  A request that timed out may still reach Core, much later.     *)
(***************************************************************************)
EXTENDS ProviderRows

Idle(slot) == calls[slot].at = "idle"
Answered(slot, op) == calls[slot].at = "answered" /\ calls[slot].op = op
Reply(slot) == calls[slot].reply
Open(op, a) == [op |-> op, attempt |-> a, at |-> "sent", reply |-> None]

\* What a process step does to its own slot: send a request, or take the answer.
Send(slot, op, a) == calls' = [calls EXCEPT ![slot] = Open(op, a)]
Forget(slot) == calls' = [calls EXCEPT ![slot] = NoCall]

Returned(slot, a, reply) ==
    calls' = [calls EXCEPT ![slot] =
        [op |-> calls[slot].op, attempt |-> a, at |-> "answered", reply |-> reply]]

-------------------------------------------------------------------------------
(* Core answers a request; the answer may be lost.                         *)

ServeLease(slot) ==
    /\ calls[slot].at = "sent" /\ calls[slot].op = "lease"
    /\ \/ \E a \in Attempts, reply \in {"ok", "error"} : Leases(a) /\ Returned(slot, a, reply)
       \/ Returned(slot, 0, "nothing") /\ UNCHANGED rows
    /\ UNCHANGED <<now, kind, executes, up, inventory, job, works, late, faults>>

Serve(slot) ==
    /\ calls[slot].at = "sent" /\ calls[slot].op # "lease"
    /\ LET a == calls[slot].attempt
           answer == Answer(calls[slot].op, rows[a])
       IN /\ rows' = [rows EXCEPT ![a] = answer.row]
          /\ \E reply \in {answer.reply, "error"} : Returned(slot, a, reply)
    /\ UNCHANGED <<now, kind, executes, up, inventory, job, works, late, faults>>

\* The client raises ProviderExecutionError: no connection, a timeout, a broken answer.
\* The request is lost or still on its way, where it matters if it can change a row.
Matters(c) == c.op # "lease" => c.op \notin Steps /\ Live(c.attempt)
Arrives(c) == Matters(c) /\ late' = late \cup {[op |-> c.op, attempt |-> c.attempt]}

Fails(slot) ==
    /\ calls[slot].at = "sent"
    /\ \/ UNCHANGED <<late, faults>>
       \/ /\ Arrives(calls[slot])
          /\ faults < MaxFaults /\ faults' = faults + 1
    /\ Returned(slot, calls[slot].attempt, "error")
    /\ UNCHANGED <<now, rows, kind, executes, up, inventory, job, works>>

ServeLate ==
    /\ \E m \in late :
         /\ late' = late \ {m}
         /\ IF m.op = "lease" THEN \E a \in Attempts : Leases(a)
            ELSE rows' = [rows EXCEPT ![m.attempt] = Answer(m.op, @).row]
    /\ UNCHANGED <<now, kind, executes, up, inventory, job, works, calls, faults>>

InFlight == {calls[slot] : slot \in {s \in Slots : calls[s].at = "sent"}}

\* The process ends with its job; what it has sent may still arrive.
GoesDown ==
    /\ up' = FALSE /\ inventory' = FALSE /\ job' = NoJob
    /\ calls' = [slot \in Slots |-> NoCall]
    /\ UNCHANGED late \/ \E c \in InFlight : Arrives(c)
    /\ faults < MaxFaults /\ faults' = faults + 1
    /\ UNCHANGED <<now, rows, kind, executes>>

-------------------------------------------------------------------------------
(* The registry client.  After its retries it knows that Core has the      *)
(* inventory, or tries again in the next pass; heartbeats follow it.       *)

AtTop == up /\ job.stage = "none" /\ Idle("main")

Reports ==
    /\ AtTop
    /\ inventory' = TRUE
    /\ UNCHANGED <<now, rows, kind, executes, up, job, works, calls, late, faults>>

\* An idle pass of run_executor ends in a request for work, if Core knows the inventory.
AsksForWork ==
    /\ AtTop /\ executes /\ inventory
    /\ Send("main", "lease", 0)
    /\ UNCHANGED <<now, rows, kind, executes, up, inventory, job, works, late, faults>>
===============================================================================
