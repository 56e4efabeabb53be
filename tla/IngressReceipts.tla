----------------------------- MODULE IngressReceipts -----------------------------
(***************************************************************************)
(* What Core keeps of one bridge's numbered records: a receipt for each    *)
(* event, and for each spool how far its sequences are complete.  The      *)
(* advisory lock of the spool is held until the transaction commits, so    *)
(* the ingestion of a record is one step.                                  *)
(***************************************************************************)
EXTENDS SpoolRecords

VARIABLES
    receipts,   \* [Keys -> the record the event's receipt is bound to, or None]
    watermark   \* [Spools -> highest_contiguous_sequence, highest_seen_sequence]

CoreTypeOK ==
    /\ receipts \in [Keys -> Record \cup {None}]
    /\ watermark \in [Spools -> [contiguous : Nat, seen : Nat]]

CoreInit ==
    /\ receipts = [k \in Keys |-> None]
    /\ watermark = [s \in Spools |-> [contiguous |-> 0, seen |-> 0]]

Stored == {receipts[k] : k \in Keys} \ {None}

\* The sequences of spool s that have a receipt.
Received(s) == {r.sequence : r \in {q \in Stored : q.spool = s}}

Bigger(m, n) == IF m >= n THEN m ELSE n

\* Slip: only the sequence that arrives is counted.
OneFurther(low, S, top) == IF low + 1 \in S THEN low + 1 ELSE low

\* The end of the run of sequences that follows low in S.
EndOfRun(low, S, top) ==
    CHOOSE n \in low .. top : low + 1 .. n \subseteq S /\ n + 1 \notin S

\* _advance_collector_watermark, in the transaction that inserts r.
Advance(r) ==
    LET old == watermark[r.spool]
        all == Received(r.spool) \cup {r.sequence}
        top == Bigger(old.seen, r.sequence) IN
    watermark' = [watermark EXCEPT ![r.spool] =
        [contiguous |-> IF r.sequence > old.contiguous
                        THEN EndOfRun(old.contiguous, all, top) ELSE old.contiguous,
         seen |-> top]]

\* Neither the event nor the sequence is bound yet.
Fresh(r) ==
    /\ receipts[r.key] = None
    /\ \A q \in Stored : q.spool = r.spool => q.sequence # r.sequence

\* ingest_event and _ensure_ingress_receipt.  A record that is not fresh changes
\* nothing: it repeats its receipt, or it is a conflict.
Ingest(r) ==
    IF Fresh(r)
    THEN receipts' = [receipts EXCEPT ![r.key] = r] /\ Advance(r)
    ELSE UNCHANGED <<receipts, watermark>>

\* The response: a receipt that matches the record, or status 409.
Confirmed(r) == receipts[r.key] = r
================================================================================
