------------------------------- MODULE ArchiveRows -----------------------------
(***************************************************************************)
(* A frozen export of old messages, one JSON object per line, and the      *)
(* archive tables its import writes: the batch of the snapshot, with a     *)
(* checkpoint per scope, and the identity of every source row.             *)
(***************************************************************************)
EXTENDS Integers, FiniteSets

CONSTANTS
    None,
    Ids,         \* primary keys of source rows
    Months, Talks,  \* what a month and a sample import select by
    Files,       \* the exports to import, as sequences of lines
    Overlap,     \* keys another snapshot may have brought in before
    Full, Sample,   \* the scopes beside the months
    Scopes,         \* the scopes somebody imports
    SampleTalk, SampleRows,  \* --conversation-key, --max-rows
    Importers,   \* processes of the command
    ChunkSize

\* "good", at or after the cutover ("late"), refused by the normalizer, or normalized
\* but without a conversation it can be mapped to ("unmapped").
Line == [kind : {"good", "late", "refused", "unmapped"}, id : Ids \cup {None},
         month : Months, talk : Talks]

\* Only a refused line may lack a key; duplicate keys of normalized lines are refused
\* by apply before it opens a connection.
Exported(file) ==
    /\ file \in [1..Cardinality(DOMAIN file) -> Line]
    /\ \A n \in DOMAIN file : file[n].id = None => file[n].kind = "refused"
    /\ \A m, n \in DOMAIN file :
         (m # n /\ file[m].id = file[n].id) => "refused" \in {file[m].kind, file[n].kind}

ASSUME ArchiveAssumption ==
    /\ \A file \in Files : IsFiniteSet(DOMAIN file) /\ Exported(file)
    /\ IsFiniteSet(Ids) /\ Overlap \subseteq Ids
    /\ None \notin Ids \cup Scopes \cup Importers
    /\ Scopes \subseteq {Full, Sample} \cup Months
    /\ Full # Sample /\ {Full, Sample} \cap Months = {}
    /\ ChunkSize \in Nat \ {0} /\ SampleRows \in Nat \ {0}

VARIABLES
    lines,       \* the export, verified against its manifest
    identities,  \* [Ids -> state of source_message_identities]
    batch        \* the import_batches row: [status, imported, rejected, scopes]

IdentityStates == {"none", "imported", "rejected", "foreign"}
Checkpoint == [status : {"running", "completed"}, last : Nat, selected : Nat, unledgered : Nat]
NoScopes == [s \in Scopes |-> None]
NoBatch == [status |-> "none", imported |-> 0, rejected |-> 0, scopes |-> NoScopes]

-------------------------------------------------------------------------------
(* What the manifest counts (dry_run_legacy_rows).  A line that will turn  *)
(* out unmappable counts as eligible: only the import looks that far.      *)

LinesOf(kinds) == {n \in DOMAIN lines : lines[n].kind \in kinds}
Eligible == Cardinality(LinesOf({"good", "unmapped"}))
Rejected == Cardinality(LinesOf({"refused"}))

\* ImportSelection.includes, for a line before the cutover.  A sample is also cut off
\* at its row limit, by the loop itself.
Includes(scope, n) ==
    CASE scope = Full -> TRUE
      [] scope = Sample -> lines[n].talk = SampleTalk
      [] OTHER -> lines[n].month = scope

\* The lines a scope imports.
Selected(scope, n) == lines[n].kind = "good" /\ Includes(scope, n)
IdentityOf(n) == identities[lines[n].id]

Count(state) == Cardinality({id \in Ids : identities[id] = state})
===============================================================================
