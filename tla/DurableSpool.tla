------------------------------ MODULE DurableSpool ------------------------------
(***************************************************************************)
(* The file in which a bridge keeps the events it has captured until Core  *)
(* has confirmed them.  One lock covers each operation and each commits    *)
(* with a full sync, so an operation is one step and survives a crash.     *)
(***************************************************************************)
EXTENDS SpoolRecords

VARIABLES
    spool,     \* spool_meta.spool_id
    next,      \* spool_meta.next_sequence
    identity,  \* spool_identities: the record a key was bound to, for ever
    row        \* spool_records.state; a pending row is "due" or "waiting",
               \* by its next_attempt_at

disk == <<spool, next, identity, row>>

RowStates == {"none", "due", "waiting", "committed", "quarantined"}

DiskTypeOK ==
    /\ spool \in Spools
    /\ next \in Nat \ {0}
    /\ identity \in [Keys -> Record \cup {None}]
    /\ row \in [Keys -> RowStates]

NoIdentity == [k \in Keys |-> None]
NoRow == [k \in Keys |-> "none"]

DiskInit ==
    /\ spool = 1
    /\ next = 1
    /\ identity = NoIdentity
    /\ row = NoRow

Pending == {k \in Keys : row[k] \in {"due", "waiting"}}

-------------------------------------------------------------------------------

\* Slip: compaction drops whatever is not pending.
CompactedTooFar(rows, old) ==
    [k \in Keys |-> IF k \in old /\ rows[k] \in {"committed", "quarantined"}
                    THEN "none" ELSE rows[k]]

\* compact: committed rows beyond the retention time are deleted, at most once
\* a minute; "old" is what it finds.  Identities stay.
Compacted(rows, old) ==
    [k \in Keys |-> IF k \in old /\ rows[k] = "committed" THEN "none" ELSE rows[k]]

\* Slip: the next sequence is computed from the rows that are left.
SequenceAfterRows ==
    1 + CHOOSE n \in 0 .. next :
          /\ \A k \in Keys : row[k] # "none" => identity[k].sequence <= n
          /\ n = 0 \/ \E k \in Keys : row[k] # "none" /\ identity[k].sequence = n

NextSequence == next

NewRecord(k, c) ==
    [key |-> k, content |-> c, spool |-> spool, sequence |-> NextSequence]

\* append_event for a key that is not known yet.  Compaction comes first and
\* is not undone when the quota rejects the record.
Append(k, c, old) ==
    /\ identity[k] = None
    /\ identity' = [identity EXCEPT ![k] = NewRecord(k, c)]
    /\ row' = [Compacted(row, old) EXCEPT ![k] = "due"]
    /\ next' = NextSequence + 1
    /\ UNCHANGED spool

RejectForQuota(k, old) ==
    /\ identity[k] = None
    /\ row' = Compacted(row, old)
    /\ UNCHANGED <<spool, next, identity>>

\* append_event for a known key gives the record it was bound to, whether its
\* row is still there or not; another content is refused.
Known(k, c) == identity[k] # None /\ identity[k].content = c

\* acknowledge, with a receipt that matches the record.  A row that is no
\* longer pending is left alone: committed or compacted it was settled before,
\* quarantined it makes the call fail.
Acknowledge(k, old) ==
    /\ row' = IF k \in Pending
              THEN Compacted([row EXCEPT ![k] = "committed"], old) ELSE row
    /\ UNCHANGED <<spool, next, identity>>

Retry(k) ==
    /\ row' = IF k \in Pending THEN [row EXCEPT ![k] = "waiting"] ELSE row
    /\ UNCHANGED <<spool, next, identity>>

Quarantine(k) ==
    /\ row' = IF k \in Pending THEN [row EXCEPT ![k] = "quarantined"] ELSE row
    /\ UNCHANGED <<spool, next, identity>>

\* next_pending sets aside the rows at the head that fail verification
\* ("spoiled", and due) and then looks at the next one only.
HeadOfQueue(spoiled) ==
    /\ \A k \in spoiled : row[k] = "due"
    /\ \A k \in spoiled, j \in Pending \ spoiled :
          identity[k].sequence < identity[j].sequence

WithoutSpoiled(spoiled) ==
    [k \in Keys |-> IF k \in spoiled THEN "quarantined" ELSE row[k]]

\* It returns the record of k ...
NextPendingIs(k, spoiled) ==
    /\ HeadOfQueue(spoiled)
    /\ k \notin spoiled
    /\ row[k] = "due"
    /\ \A j \in Pending \ spoiled : identity[k].sequence <= identity[j].sequence
    /\ row' = WithoutSpoiled(spoiled)
    /\ UNCHANGED <<spool, next, identity>>

\* ... or nothing: the head waits for its next attempt, or there is no row, and
\* then it compacts.
NothingPending(spoiled, old) ==
    /\ HeadOfQueue(spoiled)
    /\ \/ /\ Pending \subseteq spoiled
          /\ row' = Compacted(WithoutSpoiled(spoiled), old)
       \/ /\ \E k \in Pending \ spoiled :
                /\ row[k] = "waiting"
                /\ \A j \in Pending \ spoiled :
                      identity[k].sequence <= identity[j].sequence
          /\ row' = WithoutSpoiled(spoiled)
    /\ UNCHANGED <<spool, next, identity>>

\* The time of the next attempt comes.
BecomeDue(k) ==
    /\ row[k] = "waiting"
    /\ row' = [row EXCEPT ![k] = "due"]
    /\ UNCHANGED <<spool, next, identity>>

\* Slip: the new file goes on under the id of the old one.
StartAnewUnderOldId ==
    /\ next # 1
    /\ next' = 1
    /\ identity' = NoIdentity
    /\ row' = NoRow
    /\ UNCHANGED spool

\* open: any error of the database sets the file aside, and what it holds with
\* it; a new one is made under a new id.
StartAnew ==
    /\ spool < MaxSpools
    /\ spool' = spool + 1
    /\ next' = 1
    /\ identity' = NoIdentity
    /\ row' = NoRow
================================================================================
