------------------------- MODULE InvocationLifecycle -------------------------
(***************************************************************************)
(* The contract of a tool invocation: the states of a ledger row, the      *)
(* events that move it, and the transitions validate_invocation_transition *)
(* accepts.  Every change of an invocation's state in Core goes through    *)
(* append_invocation_transition, which raises when the pair is not listed. *)
(***************************************************************************)

\* States of ToolInvocation.state.  "none" stands for a row not inserted yet.
OpenStates == {"proposed", "awaiting_confirmation", "queued"}
HeldStates == {"leased", "running", "cancel_requested", "lease_expired"}
TerminalStates == {"rejected", "recorded_only", "succeeded", "failed",
                   "timed_out", "cancelled", "unknown_completion", "expired"}
InvocationStates == {"none"} \cup OpenStates \cup HeldStates \cup TerminalStates

\* States of ToolAttempt.state, and those the partial unique index covers.
LiveAttemptStates == {"leased", "running"}
AttemptStates == LiveAttemptStates \cup
    {"none", "succeeded", "failed", "cancelled", "lease_expired", "unknown_completion"}

\* The transition table: what each event requires and where it leads.
EventTable == [
    propose              |-> [from |-> {"none"}, to |-> "proposed"],
    reject               |-> [from |-> {"proposed", "awaiting_confirmation"},
                              to   |-> "rejected"],
    record_only          |-> [from |-> {"proposed"}, to |-> "recorded_only"],
    require_confirmation |-> [from |-> {"proposed"}, to |-> "awaiting_confirmation"],
    confirm              |-> [from |-> {"awaiting_confirmation"}, to |-> "queued"],
    confirmation_expire  |-> [from |-> {"awaiting_confirmation"}, to |-> "expired"],
    queue                |-> [from |-> {"proposed"}, to |-> "queued"],
    lease                |-> [from |-> {"queued"}, to |-> "leased"],
    start                |-> [from |-> {"leased"}, to |-> "running"],
    complete_success     |-> [from |-> {"running"}, to |-> "succeeded"],
    complete_failure     |-> [from |-> {"running"}, to |-> "failed"],
    request_cancel       |-> [from |-> {"leased", "running"}, to |-> "cancel_requested"],
    cancel               |-> [from |-> OpenStates \cup {"cancel_requested"},
                              to   |-> "cancelled"],
    lease_expire         |-> [from |-> {"leased", "running"}, to |-> "lease_expired"],
    timeout              |-> [from |-> {"queued", "leased", "running", "lease_expired"},
                              to   |-> "timed_out"],
    unknown_completion   |-> [from |-> HeldStates, to |-> "unknown_completion"],
    requeue              |-> [from |-> {"lease_expired"}, to |-> "queued"]]

Legal(event, from, to) ==
    /\ from \in EventTable[event].from
    /\ to = EventTable[event].to

\* One listed event, or two that one transaction appends: creation proposes
\* and then decides, the lease reaper expires and then settles or requeues.
LegalMove(from, to) ==
    \/ \E e \in DOMAIN EventTable : Legal(e, from, to)
    \/ \E e, f \in DOMAIN EventTable :
          \E mid \in {"proposed", "lease_expired"} :
             Legal(e, from, mid) /\ Legal(f, mid, to)
=============================================================================
