------------------------------ MODULE ProviderRows -----------------------------
(***************************************************************************)
(* What one provider process meets: the attempts Core keeps for it, the    *)
(* answers of Core's execution handlers, and its own job.  ToolExecution   *)
(* has the handlers in full, with a provider that does anything; here they *)
(* are reduced to what a provider can observe, and the provider is exact.  *)
(***************************************************************************)
EXTENDS Integers, FiniteSets, FiniteSetsExt

CONSTANTS
    None,
    MaxAttempts,    \* attempts Core may hand to this provider
    Document,       \* a document Core asks the LaTeX worker to render
    Kinds,          \* providers to choose from: "status", "wolfram", "latex"
    LeaseSeconds,   \* length of a lease
    Budgets,        \* seconds an invocation may have left when it is leased
    Timeout,        \* timeout_ms of the descriptor
    Margin,         \* what a provider keeps for its last report (0.25 s, 0.5 s)
    MaxTime, MaxFaults  \* bounds: clock; late requests and stops of the process

ASSUME ProviderAssumption ==
    /\ Document \notin Nat /\ None \notin Nat
    /\ Kinds \subseteq {"status", "wolfram", "latex"}
    /\ {LeaseSeconds, Timeout, Margin} \subseteq Nat \ {0}
    /\ {MaxAttempts, MaxTime, MaxFaults} \subseteq Nat
    /\ Budgets \subseteq Nat \ {0}

VARIABLES
    now,       \* Core's clock and the provider's (they run on one host)
    rows,      \* [Attempts -> attempt with its invocation]
    kind,      \* which provider runs
    executes,  \* run_executor rather than run_reporter
    up,        \* the provider's process
    inventory, \* the process knows the hash of an inventory Core has
    job,       \* the lease the process works on
    works,     \* [Works -> what the child or the worker does for it]
    calls,     \* [Slots -> a request of the process and what came back]
    late,      \* requests whose sender has given up and Core has not served
    faults     \* counted for the bound only

vars == <<now, rows, kind, executes, up, inventory, job, works, calls,
          late, faults>>

Attempts == 1..MaxAttempts
Works == Attempts \cup {Document}
Slots == {"main", "keeper"}
Steps == {"reserve", "upload", "finalize"}

NoRow == [state |-> "none", cancel |-> FALSE, expires |-> 0, deadline |-> 0]
JobAt(a, stage, limit, result) ==
    [attempt |-> a, stage |-> stage, limit |-> limit, result |-> result, lost |-> FALSE]
NoJob == JobAt(None, "none", 0, None)
NoCall == [op |-> None, attempt |-> None, at |-> "idle", reply |-> None]

\* succeeded, failed, unknown_completion and lease_expired are one to a provider.
Over(state) == [state |-> state, cancel |-> FALSE, expires |-> 0, deadline |-> 0]

-------------------------------------------------------------------------------
(* Core's side.  A proof that is late, fenced off or of a finished attempt *)
(* is refused; each handler is one transaction.                            *)

Live(a) == rows[a].state \in {"leased", "running"}
Valid(r) == now < r.expires /\ now < r.deadline
Least(x, y) == Min({x, y})

Started(r) == IF r.state = "leased" /\ ~r.cancel /\ Valid(r)
              THEN [row |-> [r EXCEPT !.state = "running"], reply |-> "ok"]
              ELSE [row |-> r, reply |-> "refused"]

Beaten(r) == IF r.state = "running" /\ Valid(r)
             THEN [row |-> [r EXCEPT !.expires = Least(r.deadline, now + LeaseSeconds)],
                   reply |-> IF r.cancel THEN "cancel" ELSE "ok"]
             ELSE [row |-> r, reply |-> "refused"]

Completed(r) == IF r.state = "running" /\ Valid(r)
                THEN [row |-> Over("over"), reply |-> "ok"]
                ELSE [row |-> r, reply |-> "refused"]

Failed(r, cancelled) ==
    IF Valid(r) /\ (r.state = "running" \/ (r.state = "leased" /\ r.cancel))
    THEN [row |-> Over(IF r.cancel /\ cancelled THEN "cancelled" ELSE "over"), reply |-> "ok"]
    ELSE [row |-> r, reply |-> "refused"]

Stored(r) == [row |-> r, reply |-> IF r.state = "running" /\ ~r.cancel /\ Valid(r)
                                   THEN "ok" ELSE "refused"]

Answer(op, r) ==
    CASE op = "start" -> Started(r)
      [] op = "beat" -> Beaten(r)
      [] op = "complete" -> Completed(r)
      [] op = "fail" -> Failed(r, FALSE)
      [] op = "cancelled" -> Failed(r, TRUE)
      [] OTHER -> Stored(r)

\* A lease goes to a provider with no live attempt.  Whether its heartbeat is fresh and
\* healthy, and whether there is work, is left open: Core may answer "nothing".
Leases(a) ==
    /\ \A b \in Attempts : ~Live(b)
    /\ rows[a].state = "none" /\ \A b \in 1 .. a - 1 : rows[b].state # "none"
    /\ now + Max(Budgets) <= MaxTime
    /\ \E budget \in Budgets :
         rows' = [rows EXCEPT ![a] = [state |-> "leased", cancel |-> FALSE,
                     expires |-> now + Least(budget, LeaseSeconds), deadline |-> now + budget]]

RequestCancel(a) ==
    /\ Live(a) /\ ~rows[a].cancel
    /\ rows' = [rows EXCEPT ![a].cancel = TRUE]
    /\ UNCHANGED <<now, kind, executes, up, inventory, job, works, calls, late, faults>>

Reap(a) ==
    /\ Live(a) /\ now >= rows[a].expires
    /\ rows' = [rows EXCEPT ![a] = Over("over")]
    /\ UNCHANGED <<now, kind, executes, up, inventory, job, works, calls, late, faults>>
===============================================================================
