------------------------------ MODULE ArtifactStore -----------------------------
(***************************************************************************)
(* The artifact store of Core: quarantine files, one per artifact, objects *)
(* named by the digest of their content, and one file lock per digest.     *)
(* Tool artifacts and render artifacts keep rows of their own that point   *)
(* to objects; several rows may point to one.  A process or a crash stops  *)
(* between any two calls into the store, and no row changes with a file.   *)
(***************************************************************************)
EXTENDS Integers, FiniteSets

CONSTANTS
    Artifacts,     \* tool artifacts, by the provider's idempotency key
    Renders,       \* render artifact rows that may be inserted
    Digests,       \* contents
    None,          \* no digest, file, holder or time
    OrphanGrace,   \* artifact_orphan_grace_seconds
    MaxTime        \* bound: the clock stops there

Keys == Artifacts \cup Renders

ASSUME StoreAssumption ==
    /\ Artifacts \cap Renders = {} /\ IsFiniteSet(Keys)
    /\ None \notin Keys \cup Digests \cup Nat /\ "cleaner" \notin Keys \cup {None}
    /\ None \notin [digest : Digests \cup {None}, at : Nat]
    /\ OrphanGrace \in Nat /\ MaxTime \in Nat

VARIABLES
    now,         \* database and file system clock
    quarantine,  \* [Keys -> None or [digest, at]]: quarantine/<id>.part
    objects,     \* [Digests -> None or the mtime of objects/sha256/...]
    holder,      \* [Digests -> who holds the file lock of the digest, or None]
    artifacts,   \* tool_artifacts
    renders      \* render_artifacts

storeVars == <<now, quarantine, objects, holder>>
fileVars == <<quarantine, objects>>

\* A file still being written has no digest yet.
File == [digest : Digests \cup {None}, at : Nat]

StoreTypeOK ==
    /\ now \in Nat
    /\ quarantine \in [Keys -> File \cup {None}]
    /\ objects \in [Digests -> Nat \cup {None}]
    /\ holder \in [Digests -> Keys \cup {"cleaner", None}]

StoreInit ==
    /\ now = 0
    /\ quarantine = [k \in Keys |-> None]
    /\ objects = [d \in Digests |-> None]
    /\ holder = [d \in Digests |-> None]

-------------------------------------------------------------------------------
(* Files.                                                                  *)

Exists(d) == objects[d] # None

\* write_quarantine: O_EXCL creates the file, the chunks follow, a reader of the
\* finished file computes digest and dimensions.
Opened == [digest |-> None, at |-> now]
Written(d) == [digest |-> d, at |-> now]
Put(k, file) == quarantine' = [quarantine EXCEPT ![k] = file]

\* finalize links the quarantine file, which keeps its mtime, unless an object
\* with the same content is there already.
Link(k, d) ==
    objects' = [objects EXCEPT ![d] = IF @ = None THEN quarantine[k].at ELSE @]

Remove(d) == objects' = [objects EXCEPT ![d] = None]

\* remove_if_older looks at the file again.
RemoveIfOlder(d) ==
    objects' = [objects EXCEPT ![d] = IF @ = None \/ @ + OrphanGrace > now THEN @ ELSE None]

-------------------------------------------------------------------------------
(* Locks and rows.                                                         *)

Free(d) == holder[d] = None
Acquire(d, who) == holder' = [holder EXCEPT ![d] = who]
Release(d) == holder' = [holder EXCEPT ![d] = None]

NoArtifact == [state |-> "none", digest |-> None, expires |-> 0,
               finalized |-> None, referenced |-> None, deleted |-> FALSE]
NoRender == [present |-> FALSE, digest |-> None, attempt |-> 0, doc |-> None,
             window |-> 0, expires |-> 0, deleted |-> FALSE]

\* Rows that keep an object: counted by every cleaner under the digest lock.
LiveArtifacts(d) ==
    {b \in Artifacts : /\ artifacts[b].digest = d
                       /\ artifacts[b].state \in {"uploading", "finalized"}
                       /\ ~artifacts[b].deleted}

LiveRenders(d) ==
    {r \in Renders : /\ renders[r].present /\ renders[r].digest = d
                     /\ renders[r].expires > now
                     /\ ~renders[r].deleted}

Unclaimed(d, self) == LiveArtifacts(d) \ {self} = {} /\ LiveRenders(d) \ {self} = {}
===============================================================================
