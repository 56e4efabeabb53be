------------------------------ MODULE ToolArtifacts -----------------------------
(***************************************************************************)
(* Artifacts of tool executions: a provider reserves a row, uploads into   *)
(* quarantine, asks Core to finalize and names the artifact when it        *)
(* completes its attempt; a reaper cleans rows and files.  A handler that  *)
(* holds its row locks from its first read to its commit is one action     *)
(* where it touches no file, and several where a crash between a file call *)
(* and the commit would show: upload, finalize and the reaper.             *)
(*                                                                         *)
(* An attempt is reduced to what the artifact handlers read of it:         *)
(* running, past its lease or deadline but not reaped, or over.            *)
(***************************************************************************)
EXTENDS ArtifactStore

CONSTANTS
    Attempts,        \* attempts that are running when the behaviour starts
    AttemptOf,       \* [Artifacts -> Attempts]
    MaxCount,        \* artifact_policy.max_count
    ReservationTTL,  \* artifact_policy.reservation_ttl_seconds
    Retention,       \* result_retention_seconds
    MaxFaults        \* bound: crashes, dropped calls and theme changes together

ASSUME ToolArtifactsAssumption ==
    /\ AttemptOf \in [Artifacts -> Attempts]
    /\ {MaxCount, ReservationTTL, Retention, MaxFaults} \subseteq Nat

VARIABLES
    attempts,    \* [Attempts -> "running", "lapsed", "succeeded" or "failed"]
    uploads,     \* [Artifacts -> stage of the one upload its secret allows]
    finalizing,  \* [Artifacts -> stage of a finalize request]
    reaper,      \* [stage, items, removed, digest]: reap_expired_artifacts
    faults       \* counted for the bound only

toolVars == <<attempts, uploads, finalizing, reaper, faults>>

ArtifactRecord ==
    [state : {"none", "reserved", "uploading", "finalized", "rejected", "expired"},
     digest : Digests \cup {None}, expires : Nat, finalized : Nat \cup {None},
     referenced : Nat \cup {None}, deleted : BOOLEAN]
AtRest == [stage |-> "idle", items |-> {}, removed |-> {}, digest |-> None]

ToolTypeOK ==
    /\ artifacts \in [Artifacts -> ArtifactRecord]
    /\ attempts \in [Attempts -> {"running", "lapsed", "succeeded", "failed"}]
    /\ uploads \in [Artifacts -> {"idle", "begun", "open", "written", "refused"}]
    /\ finalizing \in [Artifacts -> {"idle", "locked", "linked", "moved"}]
    /\ reaper \in [stage : {"idle", "expiring", "cleaning", "removing", "orphan"},
                   items : SUBSET Artifacts, removed : SUBSET Artifacts,
                   digest : Digests \cup {None}]
    /\ faults \in Nat

ToolInit ==
    /\ artifacts = [a \in Artifacts |-> NoArtifact]
    /\ attempts = [t \in Attempts |-> "running"]
    /\ uploads = [a \in Artifacts |-> "idle"]
    /\ finalizing = [a \in Artifacts |-> "idle"]
    /\ reaper = AtRest
    /\ faults = 0

-------------------------------------------------------------------------------
(* Row locks.  finalize holds attempt and artifact from its checks to its  *)
(* commit; the reaper the rows it is about to expire (with their attempts) *)
(* or the one it cleans.                                                   *)

RowFree(a) ==
    /\ finalizing[a] = "idle"
    /\ ~(reaper.stage \in {"expiring", "cleaning"} /\ a \in reaper.items)

AttemptFree(t) ==
    \A a \in Artifacts : AttemptOf[a] = t =>
        /\ finalizing[a] = "idle"
        /\ ~(reaper.stage = "expiring" /\ a \in reaper.items)

Held(a) == AttemptFree(AttemptOf[a]) /\ RowFree(a)

Over(a) == attempts[AttemptOf[a]] \in {"succeeded", "failed"}
StateOf(a) == artifacts[a].state
Change(a, state) == artifacts' = [artifacts EXCEPT ![a].state = state]
Reject(a) ==
    artifacts' = [artifacts EXCEPT ![a].state =
                     IF @ \in {"reserved", "uploading"} THEN "rejected" ELSE @]

\* The update trigger of tool_artifacts: one event per update, each from its own
\* state, once, and touching only its own columns.
Recorded(old, new) ==
    \/ old.state = "reserved" /\ new = [old EXCEPT !.state = "uploading"]
    \/ old.state = "uploading" /\ old.digest = None /\ new = [old EXCEPT !.digest = new.digest]
    \/ old.state = "uploading" /\ new = [old EXCEPT !.state = "finalized", !.finalized = now]
    \/ old.state = "finalized" /\ old.referenced = None /\ new = [old EXCEPT !.referenced = now]
    \/ old.state \in {"reserved", "uploading"} /\ new = [old EXCEPT !.state = "rejected"]
    \/ ~old.deleted /\ new = [old EXCEPT !.deleted = TRUE]

\* Only an expiry is two updates, the second for the file it removed.
Accepted(old, new) ==
    \/ old.state = "none" \/ Recorded(old, new)
    \/ /\ old.state \in {"reserved", "uploading"}
       /\ new \in {[old EXCEPT !.state = "expired"],
                   [old EXCEPT !.state = "expired", !.deleted = TRUE]}

-------------------------------------------------------------------------------
(* reserve_tool_artifact.  A repeated key answers from the stored row.     *)

LiveOf(t) == {a \in Artifacts : /\ AttemptOf[a] = t
                                /\ StateOf(a) \notin {"none", "rejected", "expired"}}

Reserve(a) ==
    /\ StateOf(a) = "none"
    /\ attempts[AttemptOf[a]] = "running" /\ Held(a)
    /\ \A b \in LiveOf(AttemptOf[a]) : RowFree(b)
    /\ Cardinality(LiveOf(AttemptOf[a])) < MaxCount
    /\ artifacts' = [artifacts EXCEPT ![a] =
          [NoArtifact EXCEPT !.state = "reserved", !.expires = now + ReservationTTL]]
    /\ UNCHANGED <<storeVars, renders, toolVars>>

-------------------------------------------------------------------------------
(* upload_tool_artifact.  The secret works while the row is reserved.      *)

Authorised(a) == attempts[AttemptOf[a]] = "running" /\ artifacts[a].expires > now

UploadBegin(a) ==
    /\ StateOf(a) = "reserved" /\ Held(a)
    /\ IF Authorised(a)
       THEN Change(a, "uploading") /\ uploads' = [uploads EXCEPT ![a] = "begun"]
       ELSE Change(a, "rejected") /\ UNCHANGED uploads
    /\ UNCHANGED <<storeVars, renders, attempts, finalizing, reaper, faults>>

UploadOpen(a) ==
    /\ uploads[a] = "begun"
    /\ Put(a, Opened)
    /\ uploads' = [uploads EXCEPT ![a] = "open"]
    /\ UNCHANGED <<now, objects, holder, artifacts, renders, attempts, finalizing, reaper, faults>>

\* The reaper may have unlinked the file meanwhile: the inspection then fails in
\* a way the handler does not catch.
UploadWrite(a) ==
    /\ uploads[a] = "open"
    /\ IF quarantine[a] = None
       THEN uploads' = [uploads EXCEPT ![a] = "idle"] /\ UNCHANGED quarantine
       ELSE /\ uploads' = [uploads EXCEPT ![a] = "written"]
            /\ \E d \in Digests : Put(a, Written(d))
    /\ UNCHANGED <<now, objects, holder, artifacts, renders, attempts, finalizing, reaper, faults>>

\* Too large, not a PNG, wrong length: the file is removed and the row rejected.
UploadFail(a) ==
    /\ uploads[a] = "open"
    /\ Put(a, None)
    /\ uploads' = [uploads EXCEPT ![a] = "refused"]
    /\ UNCHANGED <<now, objects, holder, artifacts, renders, attempts, finalizing, reaper, faults>>

UploadRejected(a) ==
    /\ uploads[a] = "refused" /\ Held(a)
    /\ Reject(a)
    /\ uploads' = [uploads EXCEPT ![a] = "idle"]
    /\ UNCHANGED <<storeVars, renders, attempts, finalizing, reaper, faults>>

\* The second transaction: the row may have been expired, the attempt may be
\* over, or the content is not what the reservation declared.
UploadDone(a, asDeclared) ==
    /\ uploads[a] = "written" /\ Held(a)
    /\ uploads' = [uploads EXCEPT ![a] = "idle"]
    /\ IF StateOf(a) = "uploading" /\ Authorised(a) /\ asDeclared
       THEN /\ artifacts' = [artifacts EXCEPT ![a].digest = quarantine[a].digest]
            /\ UNCHANGED quarantine
       ELSE Put(a, None) /\ Reject(a)
    /\ UNCHANGED <<now, objects, holder, renders, attempts, finalizing, reaper, faults>>

-------------------------------------------------------------------------------
(* finalize_tool_artifact: the object appears before the row says so.      *)

\* Slip: the file is linked and the row committed without the digest lock.
FinalizeUnlocked(a) ==
    /\ StateOf(a) = "uploading" /\ artifacts[a].digest # None
    /\ attempts[AttemptOf[a]] = "running" /\ Held(a) /\ artifacts[a].expires > now
    /\ finalizing' = [finalizing EXCEPT ![a] = "locked"]
    /\ UNCHANGED <<storeVars, artifacts, renders, attempts, uploads, reaper, faults>>

FinalizeBegin(a) ==
    /\ StateOf(a) = "uploading" /\ artifacts[a].digest # None
    /\ attempts[AttemptOf[a]] = "running" /\ Held(a) /\ artifacts[a].expires > now
    /\ Free(artifacts[a].digest)
    /\ Acquire(artifacts[a].digest, a)
    /\ finalizing' = [finalizing EXCEPT ![a] = "locked"]
    /\ UNCHANGED <<now, fileVars, artifacts, renders, attempts, uploads, reaper, faults>>

\* After the reservation's end the row is rejected; its file stays.
FinalizeTooLate(a) ==
    /\ StateOf(a) \in {"reserved", "uploading"} /\ artifacts[a].expires <= now
    /\ attempts[AttemptOf[a]] = "running" /\ Held(a)
    /\ Reject(a)
    /\ UNCHANGED <<storeVars, renders, toolVars>>

\* A crash may have left the file unlinked and the row as it was.
FinalizeMissing(a) ==
    /\ finalizing[a] = "locked" /\ quarantine[a] = None
    /\ Reject(a)
    /\ finalizing' = [finalizing EXCEPT ![a] = "idle"]
    /\ Release(artifacts[a].digest)
    /\ UNCHANGED <<now, fileVars, renders, attempts, uploads, reaper, faults>>

FinalizeLink(a) ==
    /\ finalizing[a] = "locked" /\ quarantine[a] # None
    /\ Link(a, artifacts[a].digest)
    /\ finalizing' = [finalizing EXCEPT ![a] = "linked"]
    /\ UNCHANGED <<now, quarantine, holder, artifacts, renders, attempts, uploads, reaper, faults>>

FinalizeUnlink(a) ==
    /\ finalizing[a] = "linked"
    /\ Put(a, None)
    /\ finalizing' = [finalizing EXCEPT ![a] = "moved"]
    /\ UNCHANGED <<now, objects, holder, artifacts, renders, attempts, uploads, reaper, faults>>

FinalizeCommit(a) ==
    /\ finalizing[a] = "moved"
    /\ artifacts' = [artifacts EXCEPT ![a] =
          [artifacts[a] EXCEPT !.state = "finalized", !.finalized = now]]
    /\ finalizing' = [finalizing EXCEPT ![a] = "idle"]
    /\ Release(artifacts[a].digest)
    /\ UNCHANGED <<now, fileVars, renders, attempts, uploads, reaper, faults>>

-------------------------------------------------------------------------------
(* The attempt.  validate_and_reference_artifacts is the part of a         *)
(* completion that reads artifacts: it is valid if every one it names is   *)
(* finalized for this attempt and has its object; it marks all or none.    *)

Referable(t, refs) ==
    \A a \in refs : /\ AttemptOf[a] = t
                    /\ StateOf(a) = "finalized" /\ ~artifacts[a].deleted
                    /\ Exists(artifacts[a].digest)

\* Slip: those that are valid are marked, whatever becomes of the others.
CompleteSome(t, refs) ==
    /\ attempts[t] = "running" /\ AttemptFree(t) /\ \A a \in refs : RowFree(a)
    /\ attempts' = [attempts EXCEPT ![t] = IF Referable(t, refs) THEN "succeeded" ELSE "failed"]
    /\ artifacts' = [a \in Artifacts |->
          IF a \in refs /\ Referable(t, {a}) THEN [artifacts[a] EXCEPT !.referenced = now]
                                             ELSE artifacts[a]]
    /\ UNCHANGED <<storeVars, renders, uploads, finalizing, reaper, faults>>

Complete(t, refs) ==
    /\ attempts[t] = "running" /\ AttemptFree(t) /\ \A a \in refs : RowFree(a)
    /\ IF Referable(t, refs)
       THEN /\ attempts' = [attempts EXCEPT ![t] = "succeeded"]
            /\ artifacts' = [a \in Artifacts |->
                  IF a \in refs THEN [artifacts[a] EXCEPT !.referenced = now] ELSE artifacts[a]]
       ELSE attempts' = [attempts EXCEPT ![t] = "failed"] /\ UNCHANGED artifacts
    /\ UNCHANGED <<storeVars, renders, uploads, finalizing, reaper, faults>>

\* Its lease or its deadline passes, which no row shows.
Lapse(t) ==
    /\ attempts[t] = "running"
    /\ attempts' = [attempts EXCEPT ![t] = "lapsed"]
    /\ UNCHANGED <<storeVars, artifacts, renders, uploads, finalizing, reaper, faults>>

\* The reaper of attempts, a failure report, a cancel.
EndAttempt(t) ==
    /\ attempts[t] \in {"running", "lapsed"} /\ AttemptFree(t)
    /\ attempts' = [attempts EXCEPT ![t] = "failed"]
    /\ UNCHANGED <<storeVars, artifacts, renders, uploads, finalizing, reaper, faults>>

-------------------------------------------------------------------------------
(* reap_expired_artifacts, in three passes.  The handler takes its time    *)
(* once; a later time only makes it clean more, so each step uses "now".   *)

\* Slip: the attempt is not locked, so a finalize in progress is not waited for.
ExpireUnlocked(a) ==
    /\ reaper.stage \in {"idle", "expiring"} /\ a \notin reaper.items
    /\ StateOf(a) \in {"reserved", "uploading"} /\ artifacts[a].expires <= now
    /\ reaper' = [reaper EXCEPT !.stage = "expiring", !.items = @ \cup {a},
                     !.removed = IF quarantine[a] = None THEN @ ELSE @ \cup {a}]
    /\ Put(a, None)
    /\ UNCHANGED <<now, objects, holder, artifacts, renders, attempts, uploads, finalizing, faults>>

\* Pass 1: one transaction for all candidates; files go before it commits.
ExpireNext(a) ==
    /\ reaper.stage \in {"idle", "expiring"} /\ a \notin reaper.items
    /\ StateOf(a) \in {"reserved", "uploading"} /\ artifacts[a].expires <= now
    /\ \A b \in Artifacts : AttemptOf[b] = AttemptOf[a] => finalizing[b] = "idle"
    /\ reaper' = [reaper EXCEPT !.stage = "expiring", !.items = @ \cup {a},
                     !.removed = IF quarantine[a] = None THEN @ ELSE @ \cup {a}]
    /\ Put(a, None)
    /\ UNCHANGED <<now, objects, holder, artifacts, renders, attempts, uploads, finalizing, faults>>

ExpireCommit ==
    /\ reaper.stage = "expiring"
    /\ artifacts' = [a \in Artifacts |->
          IF a \notin reaper.items THEN artifacts[a]
          ELSE [artifacts[a] EXCEPT !.state = "expired", !.deleted = a \in reaper.removed]]
    /\ reaper' = AtRest
    /\ UNCHANGED <<storeVars, renders, attempts, uploads, finalizing, faults>>

\* Pass 2: what no one may ask for any more.
Disposable(a) ==
    /\ StateOf(a) = "finalized" /\ ~artifacts[a].deleted
    /\ IF artifacts[a].referenced # None
       THEN artifacts[a].referenced + Retention <= now
       ELSE Over(a) /\ artifacts[a].finalized + OrphanGrace <= now

\* The blockers are counted under the digest lock, before the commit.
CleanBegin(a) ==
    /\ reaper.stage = "idle" /\ RowFree(a) /\ Disposable(a)
    /\ Free(artifacts[a].digest)
    /\ Acquire(artifacts[a].digest, "cleaner")
    /\ reaper' = [stage |-> "cleaning", items |-> {a}, digest |-> artifacts[a].digest,
                  removed |-> IF Unclaimed(artifacts[a].digest, a) THEN {a} ELSE {}]
    /\ UNCHANGED <<now, fileVars, artifacts, renders, attempts, uploads, finalizing, faults>>

CleanCommit ==
    /\ reaper.stage = "cleaning"
    /\ artifacts' = [a \in Artifacts |->
          IF a \in reaper.items THEN [artifacts[a] EXCEPT !.deleted = TRUE] ELSE artifacts[a]]
    /\ reaper' = [reaper EXCEPT !.stage = "removing"]
    /\ UNCHANGED <<storeVars, renders, attempts, uploads, finalizing, faults>>

CleanRemove ==
    /\ reaper.stage = "removing"
    /\ IF reaper.removed # {} THEN Remove(reaper.digest) ELSE UNCHANGED objects
    /\ Release(reaper.digest)
    /\ reaper' = AtRest
    /\ UNCHANGED <<now, quarantine, artifacts, renders, attempts, uploads, finalizing, faults>>

\* Pass 3: objects no row names.  The list of names is read before the lock; it
\* only leaves objects for a later call.
OrphanBegin(d) ==
    /\ reaper.stage = "idle" /\ Exists(d) /\ objects[d] + OrphanGrace <= now
    /\ Free(d) /\ Unclaimed(d, None)
    /\ Acquire(d, "cleaner")
    /\ reaper' = [AtRest EXCEPT !.stage = "orphan", !.digest = d]
    /\ UNCHANGED <<now, fileVars, artifacts, renders, attempts, uploads, finalizing, faults>>

OrphanRemove ==
    /\ reaper.stage = "orphan"
    /\ RemoveIfOlder(reaper.digest)
    /\ Release(reaper.digest)
    /\ reaper' = AtRest
    /\ UNCHANGED <<now, quarantine, artifacts, renders, attempts, uploads, finalizing, faults>>

-------------------------------------------------------------------------------
(* Core stops: transactions roll back, file locks go, files stay.          *)

Fault == faults < MaxFaults /\ faults' = faults + 1

StopTools ==
    /\ Fault
    /\ uploads' = [a \in Artifacts |-> "idle"]
    /\ finalizing' = [a \in Artifacts |-> "idle"]
    /\ reaper' = AtRest
    /\ holder' = [d \in Digests |-> None]
    /\ UNCHANGED <<now, fileVars, artifacts, renders, attempts>>

Tick ==
    /\ now < MaxTime
    /\ now' = now + 1
    /\ UNCHANGED <<fileVars, holder, artifacts, renders, toolVars>>

Upload(a) ==
    \/ UploadBegin(a) \/ UploadOpen(a) \/ UploadWrite(a)
    \/ UploadFail(a) \/ UploadRejected(a)
    \/ \E asDeclared \in BOOLEAN : UploadDone(a, asDeclared)

Finalize(a) ==
    \/ FinalizeBegin(a) \/ FinalizeTooLate(a) \/ FinalizeMissing(a)
    \/ FinalizeLink(a) \/ FinalizeUnlink(a) \/ FinalizeCommit(a)

Reap ==
    \/ \E a \in Artifacts : ExpireNext(a) \/ CleanBegin(a)
    \/ ExpireCommit \/ CleanCommit \/ CleanRemove \/ OrphanRemove
    \/ \E d \in Digests : OrphanBegin(d)

ToolNext ==
    \/ \E a \in Artifacts : Reserve(a) \/ Upload(a) \/ Finalize(a)
    \/ \E t \in Attempts : \/ \E refs \in SUBSET Artifacts : Complete(t, refs)
                           \/ Lapse(t) \/ EndAttempt(t)
    \/ Reap
===============================================================================
