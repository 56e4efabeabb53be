------------------------------ MODULE ArchiveImport ----------------------------
(***************************************************************************)
(* apply_archive_import: reads the export line by line, writes chunks and  *)
(* checkpoints, and finally compares the counts with the manifest.  Each   *)
(* statement or transaction is a step of its own; the process may be       *)
(* killed between any two, run again, and run beside another one.          *)
(***************************************************************************)
EXTENDS ArchiveRows

VARIABLES
    importers   \* [Importers -> local state of one process of the command]

vars == <<lines, identities, batch, importers>>

Stages == {"off", "opened", "reading", "written", "closing", "counting", "reconciling",
           "verifying", "completing", "analyzing", "failing"}
NoCounts == [imported |-> 0, rejected |-> 0]
Off == [stage |-> "off", scope |-> None, scopes |-> NoScopes, last |-> 0,
        selected |-> 0, unledgered |-> 0, chunk |-> {}, counts |-> NoCounts]

TypeOK ==
    /\ lines \in Files
    /\ identities \in [Ids -> IdentityStates]
    /\ batch \in [status : {"none", "running", "completed", "failed"},
                  imported : Nat, rejected : Nat,
                  scopes : [Scopes -> Checkpoint \cup {None}]]
    /\ importers \in [Importers -> [stage : Stages, scope : Scopes \cup {None},
                        scopes : [Scopes -> Checkpoint \cup {None}],
                        last : Nat, selected : Nat, unledgered : Nat,
                        chunk : SUBSET Nat, counts : [imported : Nat, rejected : Nat]]]

\* A snapshot may overlap one imported before: those identities carry another hash.
Init ==
    /\ lines \in Files
    /\ \E earlier \in SUBSET Overlap :
         identities = [id \in Ids |-> IF id \in earlier THEN "foreign" ELSE "none"]
    /\ batch = NoBatch
    /\ importers = [p \in Importers |-> Off]

Local(p) == importers[p]
At(p, stage) == importers[p].stage = stage
Becomes(p, local) == importers' = [importers EXCEPT ![p] = local]
Goes(p, stage) == Becomes(p, [Local(p) EXCEPT !.stage = stage])
Stops(p) == Becomes(p, Off)
Raises(p) == Becomes(p, [Off EXCEPT !.stage = "failing"])

-------------------------------------------------------------------------------
(* _ensure_batch and the checkpoint it returns.  A scope found completed   *)
(* is not imported again.                                                  *)

Resumed(scope, prior) ==
    [Off EXCEPT !.stage = "opened", !.scope = scope, !.scopes = batch.scopes,
                !.last = prior.last, !.selected = prior.selected,
                !.unledgered = prior.unledgered]
Fresh == [status |-> "running", last |-> 0, selected |-> 0, unledgered |-> 0]
Prior(scope) == IF batch.scopes[scope] = None THEN Fresh ELSE batch.scopes[scope]

Open(p, scope) ==
    /\ At(p, "off")
    /\ batch' = [batch EXCEPT !.status = IF @ = "none" THEN "running" ELSE @]
    /\ IF Prior(scope).status = "completed" THEN UNCHANGED importers
       ELSE Becomes(p, Resumed(scope, Prior(scope)))
    /\ UNCHANGED <<lines, identities>>

MarkRunning(p) ==
    /\ At(p, "opened")
    /\ batch' = [batch EXCEPT !.status = "running"]
    /\ Goes(p, "reading")
    /\ UNCHANGED <<lines, identities>>

-------------------------------------------------------------------------------
(* The loop over the lines.                                                *)

SampleFull(p) == Local(p).scope = Sample /\ Local(p).selected >= SampleRows
ChunkFull(p) == Cardinality(Local(p).chunk) >= ChunkSize
Reads(p, n) ==
    /\ At(p, "reading") /\ ~ChunkFull(p) /\ ~SampleFull(p)
    /\ n = Local(p).last + 1 /\ n \in DOMAIN lines

Skips(p, n) ==
    /\ Reads(p, n)
    /\ \/ lines[n].kind = "late"
       \/ lines[n].kind # "refused" /\ ~Includes(Local(p).scope, n)
       \/ lines[n].kind \in {"refused", "unmapped"} /\ Local(p).scope # Full
    /\ Becomes(p, [Local(p) EXCEPT !.last = n])
    /\ UNCHANGED <<lines, identities, batch>>

\* Slip: the checkpoint is saved as the chunk fills, before the chunk is written.
TakesAndSaves(p, n) ==
    /\ Reads(p, n) /\ Selected(Local(p).scope, n)
    /\ Becomes(p, [Local(p) EXCEPT !.last = n, !.selected = @ + 1, !.chunk = @ \cup {n}])
    /\ batch' = [batch EXCEPT !.scopes[Local(p).scope] =
          [status |-> "running", last |-> n, selected |-> Local(p).selected + 1,
           unledgered |-> Local(p).unledgered]]
    /\ UNCHANGED <<lines, identities>>

Takes(p, n) ==
    /\ Reads(p, n) /\ Selected(Local(p).scope, n)
    /\ Becomes(p, [Local(p) EXCEPT !.last = n, !.selected = @ + 1, !.chunk = @ \cup {n}])
    /\ UNCHANGED <<lines, identities, batch>>

\* _record_rejection: one row of the ledger, or for a line without a key a local count.
Refuses(p, n) ==
    /\ Reads(p, n) /\ Local(p).scope = Full /\ lines[n].kind \in {"refused", "unmapped"}
    /\ Becomes(p, [Local(p) EXCEPT !.last = n,
                      !.unledgered = IF lines[n].id = None THEN @ + 1 ELSE @])
    /\ IF lines[n].id # None /\ IdentityOf(n) = "none"
       THEN /\ identities' = [identities EXCEPT ![lines[n].id] = "rejected"]
            /\ batch' = [batch EXCEPT !.rejected = @ + 1]
       ELSE UNCHANGED <<identities, batch>>
    /\ UNCHANGED lines

\* _write_chunk: identities and messages of the chunk in one transaction, which fails
\* as a whole when one of them was rejected or came with another snapshot.
Conflict(p) == \E n \in Local(p).chunk : IdentityOf(n) \notin {"none", "imported"}
\* Slip: a repeated chunk is counted again.
NewOrRepeated(p) == Local(p).chunk
New(p) == {n \in Local(p).chunk : IdentityOf(n) = "none"}
Writes(p) ==
    /\ identities' = [id \in Ids |-> IF \E n \in Local(p).chunk : lines[n].id = id
                                     THEN "imported" ELSE identities[id]]
    /\ batch' = [batch EXCEPT !.imported = @ + Cardinality(New(p))]

AtEnd(p) == SampleFull(p) \/ Local(p).last + 1 \notin DOMAIN lines

Flush(p) ==
    /\ At(p, "reading") /\ (ChunkFull(p) \/ AtEnd(p))
    /\ ~Conflict(p)
    /\ Writes(p)
    /\ Becomes(p, [Local(p) EXCEPT !.chunk = {},
                      !.stage = IF ChunkFull(p) THEN "written" ELSE "closing"])
    /\ UNCHANGED lines

FlushFails(p) ==
    /\ At(p, "reading") /\ (ChunkFull(p) \/ AtEnd(p))
    /\ Conflict(p)
    /\ Raises(p)
    /\ UNCHANGED <<lines, identities, batch>>

-------------------------------------------------------------------------------
(* _update_checkpoint writes the dictionary the process read when it       *)
(* opened the batch, with its own scope replaced.                          *)

Progress(p, status) == [status |-> status, last |-> Local(p).last,
                        selected |-> Local(p).selected, unledgered |-> Local(p).unledgered]
Updated(p, status) == [Local(p).scopes EXCEPT ![Local(p).scope] = Progress(p, status)]

SaveProgress(p) ==
    /\ At(p, "written")
    /\ batch' = [batch EXCEPT !.scopes = Updated(p, "running")]
    /\ Becomes(p, [Local(p) EXCEPT !.scopes = Updated(p, "running"), !.stage = "reading"])
    /\ UNCHANGED <<lines, identities>>

CloseScope(p) ==
    /\ At(p, "closing")
    /\ batch' = [batch EXCEPT !.scopes = Updated(p, "completed")]
    /\ Becomes(p, [Off EXCEPT !.stage = "counting", !.scope = Local(p).scope,
                     !.selected = Local(p).selected, !.unledgered = Local(p).unledgered])
    /\ UNCHANGED <<lines, identities>>

\* _reconcile_batch_counts is one statement: it counts in its snapshot, waits for the
\* batch row if another process holds it, and then writes what it counted before.
TakeCounts(p) ==
    /\ At(p, "counting")
    /\ Becomes(p, [Local(p) EXCEPT !.stage = "reconciling",
                      !.counts = [imported |-> Count("imported"),
                                  rejected |-> Count("rejected") + Local(p).unledgered]])
    /\ UNCHANGED <<lines, identities, batch>>

\* Only the full scope goes on from here.
Reconcile(p) ==
    /\ At(p, "reconciling")
    /\ batch' = [batch EXCEPT !.imported = Local(p).counts.imported,
                              !.rejected = Local(p).counts.rejected]
    /\ IF Local(p).scope = Full
       THEN Becomes(p, [Local(p) EXCEPT !.stage = "verifying", !.counts = NoCounts])
       ELSE Stops(p)
    /\ UNCHANGED <<lines, identities>>

\* Slip: the lines read are compared, not the rows written.
ReadAsTheManifest(p) == Local(p).selected = Eligible
AsTheManifest(p) ==
    /\ Local(p).selected = Eligible
    /\ batch.imported = Eligible
    /\ batch.rejected = Rejected

Verify(p) ==
    /\ At(p, "verifying")
    /\ IF AsTheManifest(p) THEN Becomes(p, [Off EXCEPT !.stage = "completing"]) ELSE Raises(p)
    /\ UNCHANGED <<lines, identities, batch>>

CompleteBatch(p) ==
    /\ At(p, "completing")
    /\ batch' = [batch EXCEPT !.status = "completed"]
    /\ Becomes(p, [Off EXCEPT !.stage = "analyzing"])
    /\ UNCHANGED <<lines, identities>>

\* The ANALYZE after the batch was completed; when it fails, the handler below still
\* marks the batch failed.
Analyze(p) ==
    /\ At(p, "analyzing")
    /\ Stops(p)
    /\ UNCHANGED <<lines, identities, batch>>

\* The exception handler; a statement may also fail on its own.
Fail(p) ==
    /\ At(p, "failing")
    /\ batch' = [batch EXCEPT !.status = "failed"]
    /\ Stops(p)
    /\ UNCHANGED <<lines, identities>>

StatementFails(p) ==
    /\ ~At(p, "off") /\ ~At(p, "failing")
    /\ Raises(p)
    /\ UNCHANGED <<lines, identities, batch>>

Killed(p) ==
    /\ ~At(p, "off")
    /\ Stops(p)
    /\ UNCHANGED <<lines, identities, batch>>

Import(p) ==
    \/ MarkRunning(p)
    \/ \E n \in DOMAIN lines : Skips(p, n) \/ Takes(p, n) \/ Refuses(p, n)
    \/ Flush(p) \/ FlushFails(p) \/ SaveProgress(p) \/ CloseScope(p)
    \/ TakeCounts(p) \/ Reconcile(p) \/ Verify(p) \/ CompleteBatch(p) \/ Analyze(p)
    \/ Fail(p)

Next == \E p \in Importers :
    \/ \E scope \in Scopes : Open(p, scope)
    \/ Import(p) \/ StatementFails(p) \/ Killed(p)

Spec == Init /\ [][Next]_vars

-------------------------------------------------------------------------------
(* Properties.                                                             *)

\* A checkpoint never runs ahead of the rows: whatever was killed, run again or run
\* beside it, every selected line up to its last line is in the archive, so that a run
\* that resumes there misses nothing.
CheckpointCovers ==
    \A scope \in Scopes : batch.scopes[scope] # None =>
        \A n \in DOMAIN lines :
            (n <= batch.scopes[scope].last /\ Selected(scope, n)) => IdentityOf(n) = "imported"

\* The counts an operator sees never claim what the ledger does not hold, after any number
\* of repeated chunks, restarts and processes side by side: a batch counts no identity
\* twice and no keyless refusal twice, a checkpoint counts each selected line once.
KeylessRefusals == {n \in DOMAIN lines : lines[n].kind = "refused" /\ lines[n].id = None}
CountsNeverAhead ==
    /\ batch.imported <= Count("imported")
    /\ batch.rejected <= Count("rejected") + Cardinality(KeylessRefusals)
    /\ \A scope \in Scopes : batch.scopes[scope] # None =>
         batch.scopes[scope].selected =
            Cardinality({n \in DOMAIN lines : n <= batch.scopes[scope].last /\ Selected(scope, n)})

\* With one process at a time the batch counts exactly the imported rows of the ledger;
\* beside another one a count taken before that one's chunk may be written after it.
CountsExact == batch.imported = Count("imported")

\* A completed batch is the whole export: every eligible line is in the archive and
\* every refused line that has a key is in the ledger.
CompletedMeansAll ==
    batch.status = "completed" =>
        \A n \in DOMAIN lines :
            /\ lines[n].kind \in {"good", "unmapped"} => IdentityOf(n) = "imported"
            /\ (lines[n].kind = "refused" /\ lines[n].id # None) => IdentityOf(n) = "rejected"
===============================================================================
