------------------------- MODULE RenderDelivery_proofs --------------------------
(***************************************************************************)
(* The shared artifact store, rendering and delivery for any number of     *)
(* artifacts, rows, digests, documents and calls.                          *)
(*                                                                         *)
(* The invariant has three parts.  StoreInv: whoever works on a digest has *)
(* its file lock (Locks); a row that is marked, being finalized or in the  *)
(* reaper's hands is what its holder takes it for (MarkSound,              *)
(* ContentSound, ReaperSound); and whoever has found under the lock that   *)
(* nothing keeps an object is still right when he removes it (Cleared).    *)
(* RenderInv: a call that publishes has the running attempt of its         *)
(* document, alone (CallSound, Exclusive), only the last attempt runs      *)
(* (TriesSound), and a row is of an attempt that is over (RowSound).       *)
(* DeliveryInv: one call at a time may send a document, one that was not   *)
(* sent (OneMay, Permitted), and the second key is used only when the      *)
(* first was used up without a sending (KeysSound).                        *)
(***************************************************************************)
EXTENDS RenderDelivery, SequenceTheorems, TLAPS

CallStages == {"idle", "asking", "rendering", "failing", "publishing", "linked", "passing",
               "received", "permitted", "sent"}
CallRecord == [stage : CallStages, doc : Documents \cup {None}, key : IntentKeys,
               retried : BOOLEAN, attempt : Nat, row : Renders \cup {None},
               digest : Digests \cup {None}, outcome : Outcomes \cup {"none"}]
TryRecord == [state : Tried, lease : Nat, window : Nat]
RenderRecord == [present : BOOLEAN, digest : Digests \cup {None}, attempt : Nat,
                 doc : Documents \cup {None}, window : Nat \cup {None}, expires : Nat,
                 deleted : BOOLEAN]
IntentRecord == [status : {"none", "pending"} \cup Outcomes, row : Renders \cup {None},
                 deadline : Nat]

RenderTyped ==
    /\ window \in Nat
    /\ documents \in [Documents -> {"none", "pending", "succeeded", "failed"}]
    /\ tries \in [Documents -> Seq(TryRecord)]
    /\ calls \in [Calls -> CallRecord]
    /\ renders \in [Renders -> RenderRecord]
    /\ deleting \in [Renders -> {"idle", "last", "shared", "removing"}]
    /\ intents \in [Documents \X IntentKeys -> IntentRecord]
    /\ sends \in [Documents -> Nat]

-------------------------------------------------------------------------------
(* The store.                                                              *)

\* Who holds the file lock of a digest is at work on it, and only he.
Locks ==
    /\ \A x \in Digests :
          /\ \A k \in Artifacts : holder[x] = k <=> finalizing[k] # "idle" /\ artifacts[k].digest = x
          /\ \A r \in Renders : holder[x] = r <=> deleting[r] # "idle" /\ renders[r].digest = x
          /\ holder[x] = "cleaner" <=> reaper.digest = x
    /\ reaper.stage \in {"cleaning", "removing", "orphan"} <=> reaper.digest # None

\* An upload works on a row without a digest, and finds its file as long as the
\* reservation lasts.
UploadSound(a) ==
    /\ StateOf(a) = "reserved" => artifacts[a].digest = None
    /\ uploads[a] # "idle" => StateOf(a) # "none" /\ artifacts[a].digest = None
    /\ uploads[a] = "written" /\ StateOf(a) = "uploading" /\ artifacts[a].expires > now
          => quarantine[a] # None

\* Finalize works on a row that is being uploaded; once it has linked the file
\* the object is there, and so it is for a row that is finalized and not deleted.
ContentSound(a) ==
    /\ finalizing[a] # "idle" => StateOf(a) = "uploading" /\ artifacts[a].digest # None
    /\ finalizing[a] \in {"linked", "moved"} => Exists(artifacts[a].digest)
    /\ StateOf(a) = "finalized" =>
          artifacts[a].digest # None /\ (artifacts[a].deleted \/ Exists(artifacts[a].digest))

\* What a completion named belongs to its success and outlives the retention.
MarkSound(a) ==
    /\ artifacts[a].referenced # None =>
          /\ StateOf(a) = "finalized" /\ attempts[AttemptOf[a]] = "succeeded"
          /\ artifacts[a].deleted => artifacts[a].referenced + Retention <= now
    /\ artifacts[a].deleted => StateOf(a) \in {"finalized", "expired"}

\* The rows the reaper holds are what it took them for.
ReaperSound ==
    /\ reaper.stage = "idle" => reaper.items = {}
    /\ reaper.stage = "expiring" => \A a \in reaper.items :
          StateOf(a) \in {"reserved", "uploading"} /\ finalizing[a] = "idle"
    /\ reaper.stage = "cleaning" =>
          /\ \E a \in Artifacts : reaper.items = {a}
          /\ \A a \in reaper.items :
                /\ StateOf(a) = "finalized" /\ ~artifacts[a].deleted
                /\ artifacts[a].digest = reaper.digest
                /\ artifacts[a].referenced # None => artifacts[a].referenced + Retention <= now

\* Who has found, under the lock, that no row keeps an object is still right.
Removes(x) ==
    \/ /\ reaper.digest = x
       /\ reaper.stage = "orphan" \/ reaper.removed # {}
    \/ \E r \in Renders : deleting[r] \in {"last", "removing"} /\ renders[r].digest = x
Kept(a, x) == StateOf(a) = "finalized" /\ ~artifacts[a].deleted /\ artifacts[a].digest = x
Cleared ==
    \A x \in Digests, a \in Artifacts :
        Removes(x) /\ Kept(a, x) => reaper.stage = "cleaning" /\ a \in reaper.items

StoreInv ==
    /\ StoreTypeOK /\ ToolTypeOK /\ Locks /\ ReaperSound /\ Cleared
    /\ \A a \in Artifacts : UploadSound(a) /\ ContentSound(a) /\ MarkSound(a)

-------------------------------------------------------------------------------
(* Attempts and rows.                                                      *)

Publishing == {"publishing", "linked", "passing"}
Answered == {"received", "permitted", "sent"}

\* A call that renders has an attempt of its document; one that publishes has
\* the running one; the row of an answered call is there.
CallSound(c) ==
    /\ ~At(c, "idle") => DocOf(c) \in Documents
    /\ calls[c].stage \in {"rendering", "failing", "publishing", "linked"} =>
          calls[c].attempt \in DOMAIN tries[DocOf(c)] /\ SourceOf[DocOf(c)] = None
    /\ calls[c].stage \in {"publishing", "linked"} => Running(DocOf(c), calls[c].attempt)
    /\ At(c, "linked") => calls[c].row \in Renders /\ ~renders[calls[c].row].present
    /\ At(c, "passing") =>
          /\ SourceOf[DocOf(c)] # None
          /\ artifacts[SourceOf[DocOf(c)]].referenced # None
    /\ calls[c].stage \in Answered => calls[c].row \in Renders /\ renders[calls[c].row].present

\* The record's lock admits one publication, and new rows are new.
Exclusive ==
    \A c, e \in Calls : c # e =>
        /\ calls[c].stage \in Publishing /\ calls[e].stage \in Publishing => DocOf(c) # DocOf(e)
        /\ At(c, "linked") /\ At(e, "linked") => calls[c].row # calls[e].row

\* Only the last attempt runs, and none of a document that is passed through.
TriesSound(d) == \A n \in DOMAIN tries[d] : Running(d, n) => n = Len(tries[d]) /\ SourceOf[d] = None

\* A row came from an attempt that is over.
RowSound(r) ==
    /\ renders[r].present =>
          /\ renders[r].doc \in Documents
          /\ renders[r].attempt \in DOMAIN tries[renders[r].doc]
          /\ ~Running(renders[r].doc, renders[r].attempt)
    /\ deleting[r] # "idle" => renders[r].present

RenderInv ==
    /\ RenderTyped /\ Exclusive
    /\ \A c \in Calls : CallSound(c)
    /\ \A d \in Documents : TriesSound(d)
    /\ \A r \in Renders : RowSound(r)

-------------------------------------------------------------------------------
(* Delivery.                                                               *)

May(c) == calls[c].stage \in {"permitted", "sent"}

\* One call at a time may send a document, under a recorded intent, and has not
\* sent it before.
Permitted(c) ==
    May(c) =>
        /\ intents[Name(c)].status # "none"
        /\ At(c, "permitted") \/ calls[c].outcome = "expired" => sends[DocOf(c)] = 0
        /\ At(c, "sent") => calls[c].outcome \in Outcomes
        /\ At(c, "sent") /\ calls[c].outcome = "succeeded" => sends[DocOf(c)] > 0
OneMay == \A c, e \in Calls : May(c) /\ May(e) /\ DocOf(c) = DocOf(e) => c = e

\* The second key is used only when the first was used up without a sending.
Renewed(d) ==
    \/ \E c \in Calls : DocOf(c) = d /\ calls[c].key = "renewal"
    \/ intents[<<d, "renewal">>].status # "none"
KeysSound(d) ==
    /\ Renewed(d) => /\ intents[<<d, "first">>].status # "none"
                     /\ \A c \in Calls : May(c) /\ DocOf(c) = d => calls[c].key = "renewal"
                     /\ intents[<<d, "renewal">>].status = "none" => sends[d] = 0
    /\ intents[<<d, "first">>].status = "none" => sends[d] = 0
    /\ \A k \in IntentKeys : intents[<<d, k>>].status = "succeeded" => sends[d] > 0

DeliveryInv ==
    /\ OneMay
    /\ \A c \in Calls : Permitted(c)
    /\ \A d \in Documents : KeysSound(d)

IInv == StoreInv /\ RenderInv /\ DeliveryInv
-------------------------------------------------------------------------------
(* Tool steps keep the types.                                              *)

States == {"none", "reserved", "uploading", "finalized", "rejected", "expired"}

\* Rows the handlers write are rows.
LEMMA TimedRow ==
    ASSUME NEW row \in ArtifactRecord, NEW n \in Nat
    PROVE /\ [row EXCEPT !.state = "finalized", !.finalized = n] \in ArtifactRecord
          /\ [row EXCEPT !.state = "reserved", !.expires = n] \in ArtifactRecord
<1>1. /\ [row EXCEPT !.state = "finalized"] \in ArtifactRecord
      /\ [row EXCEPT !.state = "reserved"] \in ArtifactRecord
  BY SMT DEF ArtifactRecord
<1>2. [row EXCEPT !.state = "finalized", !.finalized = n] \in ArtifactRecord
  <2>1. PICK mid \in ArtifactRecord : mid = [row EXCEPT !.state = "finalized"]
    BY <1>1
  <2>2. [mid EXCEPT !.finalized = n] \in ArtifactRecord
    BY SMT DEF ArtifactRecord
  <2> QED
    BY <2>1, <2>2
<1>3. [row EXCEPT !.state = "reserved", !.expires = n] \in ArtifactRecord
  <2>1. PICK mid \in ArtifactRecord : mid = [row EXCEPT !.state = "reserved"]
    BY <1>1
  <2>2. [mid EXCEPT !.expires = n] \in ArtifactRecord
    BY SMT DEF ArtifactRecord
  <2> QED
    BY <2>1, <2>2
<1> QED
  BY <1>2, <1>3

\* A row marked deleted is a row.
LEMMA DeletedRow ==
    ASSUME NEW row \in ArtifactRecord, NEW b \in BOOLEAN
    PROVE /\ [row EXCEPT !.deleted = b] \in ArtifactRecord
          /\ [row EXCEPT !.state = "expired", !.deleted = b] \in ArtifactRecord
<1>0. [row EXCEPT !.state = "expired"] \in ArtifactRecord
  BY SMT DEF ArtifactRecord
<1>1. PICK mid \in ArtifactRecord : mid = [row EXCEPT !.state = "expired"]
  BY <1>0
<1>2. [row EXCEPT !.deleted = b] \in ArtifactRecord /\ [mid EXCEPT !.deleted = b] \in ArtifactRecord
  BY SMT DEF ArtifactRecord
<1> QED
  BY <1>1, <1>2

\* What the first pass of the reaper leaves of a row.
LEMMA ExpiredRow ==
    ASSUME ExpireCommit, ToolTypeOK, NEW k \in Artifacts
    PROVE /\ k \notin reaper.items => artifacts'[k] = artifacts[k]
          /\ k \in reaper.items => artifacts'[k].state = "expired"
          /\ artifacts'[k].digest = artifacts[k].digest
          /\ artifacts'[k].referenced = artifacts[k].referenced
<1>1. artifacts[k] \in ArtifactRecord
  BY DEF ToolTypeOK
<1>2. CASE k \notin reaper.items
  BY <1>2, Zenon DEF ExpireCommit
<1>3. CASE k \in reaper.items
  <2>1. artifacts'[k] = [artifacts[k] EXCEPT !.state = "expired", !.deleted = k \in reaper.removed]
    BY <1>3, Zenon DEF ExpireCommit
  <2>2. PICK b : b = (k \in reaper.removed)
    OBVIOUS
  <2>3. artifacts'[k] = [artifacts[k] EXCEPT !.state = "expired", !.deleted = b]
    BY <2>1, <2>2, Zenon
  <2> QED
    BY <1>1, <1>3, <2>3, SMT DEF ArtifactRecord
<1> QED
  BY <1>2, <1>3

\* A row in another state is a row.
LEMMA StateRow ==
    ASSUME NEW old \in ArtifactRecord, NEW s \in States
    PROVE  \E row \in ArtifactRecord : row = [old EXCEPT !.state = s]
<1>1. PICK row : row = [old EXCEPT !.state = s]
  OBVIOUS
<1>2. row \in ArtifactRecord
  BY <1>1, SMT DEF ArtifactRecord, States
<1> QED
  BY <1>1, <1>2

\* What a step of the tools does to the rows.
LEMMA RowSteps ==
    ASSUME StoreTypeOK, ToolTypeOK, ToolNext, \A a \in Artifacts : UploadSound(a)
    PROVE \A a \in Artifacts : artifacts'[a] \in ArtifactRecord
<1> SUFFICES ASSUME NEW k \in Artifacts PROVE artifacts'[k] \in ArtifactRecord
  OBVIOUS
<1> USE StoreAssumption DEF StoreTypeOK, ToolTypeOK, States
<1>0. artifacts[k] \in ArtifactRecord
  OBVIOUS
<1>r. ASSUME NEW a \in Artifacts, Reject(a) PROVE artifacts'[k] \in ArtifactRecord
  <2>1. PICK s \in States : s = IF artifacts[a].state \in {"reserved", "uploading"} THEN "rejected" ELSE artifacts[a].state
    BY SMT DEF ArtifactRecord
  <2>2. artifacts' = [artifacts EXCEPT ![a].state = s]
    BY <1>r, <2>1 DEF Reject
  <2>3. PICK old \in ArtifactRecord : old = artifacts[a]
    OBVIOUS
  <2>4. PICK row \in ArtifactRecord : row = [old EXCEPT !.state = s]
    BY StateRow
  <2>5. artifacts' = [artifacts EXCEPT ![a] = row]
    BY <2>2, <2>3, <2>4
  <2> QED
    BY <1>0, <2>5
<1>1. ASSUME NEW a \in Artifacts, Reserve(a) PROVE artifacts'[k] \in ArtifactRecord
  <2>1. PICK e \in Nat : e = now + ReservationTTL
    BY ToolArtifactsAssumption
  <2>2. artifacts' = [artifacts EXCEPT ![a] = [NoArtifact EXCEPT !.state = "reserved", !.expires = e]]
    BY <1>1, <2>1 DEF Reserve
  <2>3. NoArtifact \in ArtifactRecord
    BY SMT DEF NoArtifact, ArtifactRecord
  <2>4. PICK row \in ArtifactRecord : row = [NoArtifact EXCEPT !.state = "reserved", !.expires = e]
    BY <2>3, TimedRow
  <2> QED
    BY <1>0, <2>2, <2>4
<1>2. ASSUME NEW a \in Artifacts, UploadBegin(a) PROVE artifacts'[k] \in ArtifactRecord
  BY <1>0, <1>2, SMT DEF UploadBegin, Change, Authorised, ArtifactRecord
<1>3. ASSUME NEW a \in Artifacts, UploadRejected(a) PROVE artifacts'[k] \in ArtifactRecord
  BY <1>3, <1>r DEF UploadRejected
<1>4. ASSUME NEW a \in Artifacts, NEW u \in BOOLEAN, UploadDone(a, u)
      PROVE artifacts'[k] \in ArtifactRecord
  <2>1. CASE Reject(a)
    BY <2>1, <1>r
  <2>2. CASE ~Reject(a)
    <3>1. /\ uploads[a] = "written" /\ StateOf(a) = "uploading" /\ artifacts[a].expires > now
          /\ artifacts' = [artifacts EXCEPT ![a].digest = quarantine[a].digest]
      BY <1>4, <2>2 DEF UploadDone, Authorised
    <3>2. PICK x \in Digests \cup {None} : x = quarantine[a].digest
      <4>1. quarantine[a] # None
        BY <3>1 DEF UploadSound
      <4>2. quarantine[a] \in File
        BY <4>1 DEF Keys
      <4> QED
        BY <4>2 DEF File
    <3>3. artifacts' = [artifacts EXCEPT ![a].digest = x]
      BY <3>1, <3>2
    <3> QED
      BY <1>0, <3>3, SMT DEF ArtifactRecord
  <2> QED
    BY <2>1, <2>2
<1>5. ASSUME NEW a \in Artifacts, FinalizeTooLate(a) PROVE artifacts'[k] \in ArtifactRecord
  BY <1>5, <1>r DEF FinalizeTooLate
<1>6. ASSUME NEW a \in Artifacts, FinalizeMissing(a) PROVE artifacts'[k] \in ArtifactRecord
  BY <1>6, <1>r DEF FinalizeMissing
<1>7. ASSUME NEW a \in Artifacts, FinalizeCommit(a) PROVE artifacts'[k] \in ArtifactRecord
  <2>1. artifacts' = [artifacts EXCEPT ![a] = [artifacts[a] EXCEPT !.state = "finalized", !.finalized = now]]
    BY <1>7 DEF FinalizeCommit
  <2>2. PICK row \in ArtifactRecord : row = [artifacts[a] EXCEPT !.state = "finalized", !.finalized = now]
    BY TimedRow
  <2> QED
    BY <1>0, <2>1, <2>2
<1>8. ASSUME NEW t \in Attempts, NEW refs \in SUBSET Artifacts, Complete(t, refs)
      PROVE artifacts'[k] \in ArtifactRecord
  <2>1. artifacts'[k] = artifacts[k] \/ artifacts'[k] = [artifacts[k] EXCEPT !.referenced = now]
    BY <1>8 DEF Complete
  <2> QED
    BY <1>0, <2>1, SMT DEF ArtifactRecord
<1>9. ASSUME ExpireCommit PROVE artifacts'[k] \in ArtifactRecord
  <2>1. \/ artifacts'[k] = artifacts[k]
        \/ artifacts'[k] = [artifacts[k] EXCEPT !.state = "expired", !.deleted = k \in reaper.removed]
    BY <1>9, Zenon DEF ExpireCommit
  <2>2. (k \in reaper.removed) \in BOOLEAN
    OBVIOUS
  <2>3. PICK row \in ArtifactRecord : row = [artifacts[k] EXCEPT !.state = "expired", !.deleted = k \in reaper.removed]
    BY <1>0, <2>2, DeletedRow, Zenon
  <2> QED
    BY <1>0, <2>1, <2>3, Zenon
<1>10. ASSUME CleanCommit PROVE artifacts'[k] \in ArtifactRecord
  <2>1. artifacts'[k] = artifacts[k] \/ artifacts'[k] = [artifacts[k] EXCEPT !.deleted = TRUE]
    BY <1>10 DEF CleanCommit
  <2> QED
    BY <1>0, <2>1, DeletedRow, Zenon
<1>11. ASSUME UNCHANGED artifacts PROVE artifacts'[k] \in ArtifactRecord
  BY <1>0, <1>11
<1>12. ASSUME NEW a \in Artifacts, \/ UploadOpen(a) \/ UploadWrite(a) \/ UploadFail(a)
                                    \/ FinalizeBegin(a) \/ FinalizeLink(a) \/ FinalizeUnlink(a)
                                    \/ ExpireNext(a) \/ CleanBegin(a)
       PROVE  UNCHANGED artifacts
  BY <1>12 DEF UploadOpen, UploadWrite, UploadFail, FinalizeBegin, FinalizeLink, FinalizeUnlink,
     ExpireNext, CleanBegin
<1>13. ASSUME NEW t \in Attempts, Lapse(t) \/ EndAttempt(t) PROVE UNCHANGED artifacts
  BY <1>13 DEF Lapse, EndAttempt
<1>14. ASSUME CleanRemove \/ OrphanRemove \/ \E d \in Digests : OrphanBegin(d)
       PROVE UNCHANGED artifacts
  BY <1>14 DEF CleanRemove, OrphanRemove, OrphanBegin
<1> HIDE StoreAssumption DEF StoreTypeOK, ToolTypeOK, States
<1>15. ASSUME NEW a \in Artifacts, Upload(a) PROVE artifacts'[k] \in ArtifactRecord
  BY <1>2, <1>3, <1>4, <1>11, <1>12, <1>15, Zenon DEF Upload
<1>16. ASSUME NEW a \in Artifacts, Finalize(a) PROVE artifacts'[k] \in ArtifactRecord
  BY <1>5, <1>6, <1>7, <1>11, <1>12, <1>16, Zenon DEF Finalize
<1>17. ASSUME Reap PROVE artifacts'[k] \in ArtifactRecord
  BY <1>9, <1>10, <1>11, <1>12, <1>14, <1>17, Zenon DEF Reap
<1> QED
  BY <1>1, <1>8, <1>11, <1>13, <1>15, <1>16, <1>17, Zenon DEF ToolNext
Reapers == [stage : {"idle", "expiring", "cleaning", "removing", "orphan"},
            items : SUBSET Artifacts, removed : SUBSET Artifacts, digest : Digests \cup {None}]

\* What the reaper becomes is a reaper.
LEMMA ReapersStayTyped ==
    ASSUME NEW r \in Reapers, NEW i \in SUBSET Artifacts, NEW m \in SUBSET Artifacts
    PROVE /\ [r EXCEPT !.stage = "expiring", !.items = i, !.removed = m] \in Reapers
          /\ [r EXCEPT !.stage = "removing"] \in Reapers
          /\ AtRest \in Reapers
          /\ \A x \in Digests : [AtRest EXCEPT !.stage = "orphan", !.digest = x] \in Reapers
<1>1. AtRest \in Reapers
  BY DEF AtRest, Reapers
<1>2. [r EXCEPT !.stage = "expiring"] \in Reapers /\ [r EXCEPT !.stage = "removing"] \in Reapers
      /\ [AtRest EXCEPT !.stage = "orphan"] \in Reapers
  BY SMT DEF Reapers, AtRest
<1>4. [r EXCEPT !.stage = "expiring", !.items = i, !.removed = m] \in Reapers
  <2>1. PICK q \in Reapers : q = [r EXCEPT !.stage = "expiring"]
    BY <1>2
  <2>2. [q EXCEPT !.items = i] \in Reapers
    BY SMT DEF Reapers
  <2>3. PICK p \in Reapers : p = [q EXCEPT !.items = i]
    BY <2>2
  <2>4. [p EXCEPT !.removed = m] \in Reapers
    BY SMT DEF Reapers
  <2> QED
    BY <2>1, <2>3, <2>4
<1>5. ASSUME NEW x \in Digests PROVE [AtRest EXCEPT !.stage = "orphan", !.digest = x] \in Reapers
  <2>1. PICK q \in Reapers : q = [AtRest EXCEPT !.stage = "orphan"]
    BY <1>2
  <2>2. [q EXCEPT !.digest = x] \in Reapers
    BY SMT DEF Reapers
  <2> QED
    BY <2>1, <2>2
<1> QED
  BY <1>1, <1>2, <1>4, <1>5

\* The steps of the tools keep the types.
LEMMA ToolStepsTyped ==
    ASSUME StoreTypeOK, ToolTypeOK, ToolNext,
           \A a \in Artifacts : UploadSound(a) /\ ContentSound(a), Locks
    PROVE (StoreTypeOK /\ ToolTypeOK)'
<1> USE StoreAssumption DEF StoreTypeOK, Keys, Acquire, Release, Free, storeVars, fileVars, toolVars
<1> DEFINE Rows == artifacts' = [k \in Artifacts |-> artifacts'[k]]
           Runs == /\ attempts' \in [Attempts -> {"running", "lapsed", "succeeded", "failed"}]
                   /\ uploads' \in [Artifacts -> {"idle", "begun", "open", "written", "refused"}]
                   /\ finalizing' \in [Artifacts -> {"idle", "locked", "linked", "moved"}]
                   /\ faults' \in Nat
           Good == Rows /\ StoreTypeOK' /\ Runs /\ reaper' \in Reapers
<1>0. /\ artifacts = [k \in Artifacts |-> artifacts[k]]
      /\ \A k \in Artifacts : artifacts[k].digest \in Digests \cup {None}
      /\ attempts \in [Attempts -> {"running", "lapsed", "succeeded", "failed"}]
      /\ uploads \in [Artifacts -> {"idle", "begun", "open", "written", "refused"}]
      /\ finalizing \in [Artifacts -> {"idle", "locked", "linked", "moved"}]
      /\ faults \in Nat /\ reaper \in Reapers
  BY DEF ToolTypeOK, ArtifactRecord, Reapers
<1>1. ASSUME NEW a \in Artifacts, Reserve(a) \/ FinalizeTooLate(a) PROVE Good
  BY <1>0, <1>1, SMT DEF Reserve, FinalizeTooLate, Reject
<1>2. ASSUME NEW a \in Artifacts, UploadBegin(a) PROVE Good
  BY <1>0, <1>2, SMT DEF UploadBegin, Change
<1>3. ASSUME NEW a \in Artifacts, UploadOpen(a) \/ UploadFail(a) PROVE Good
  BY <1>0, <1>3, SMT DEF UploadOpen, UploadFail, Put, Opened, File
<1>4. ASSUME NEW a \in Artifacts, UploadWrite(a) PROVE Good
  BY <1>0, <1>4, SMT DEF UploadWrite, Put, Written, File
<1>5. ASSUME NEW a \in Artifacts, UploadRejected(a) PROVE Good
  BY <1>0, <1>5, SMT DEF UploadRejected, Reject
<1>6. ASSUME NEW a \in Artifacts, NEW u \in BOOLEAN, UploadDone(a, u) PROVE Good
  BY <1>0, <1>6, SMT DEF UploadDone, Reject, Put
<1>7. ASSUME NEW a \in Artifacts, FinalizeBegin(a) PROVE Good
  BY <1>0, <1>7, SMT DEF FinalizeBegin
<1>8. ASSUME NEW a \in Artifacts, FinalizeMissing(a) PROVE Good
  <2>1. holder' \in [Digests -> Keys \cup {"cleaner", None}]
    BY <1>0, <1>8 DEF FinalizeMissing
  <2>2. Rows
    BY <1>0, <1>8 DEF FinalizeMissing, Reject
  <2> QED
    BY <1>0, <1>8, <2>1, <2>2 DEF FinalizeMissing
<1>9. ASSUME NEW a \in Artifacts, FinalizeLink(a) PROVE Good
  <2>1. quarantine[a].at \in Nat
    BY <1>9 DEF FinalizeLink, File
  <2> QED
    BY <1>0, <1>9, <2>1 DEF FinalizeLink, Link
<1>10. ASSUME NEW a \in Artifacts, FinalizeUnlink(a) PROVE Good
  BY <1>0, <1>10, SMT DEF FinalizeUnlink, Put
<1>11. ASSUME NEW a \in Artifacts, FinalizeCommit(a) PROVE Good
  <2>1. holder' \in [Digests -> Keys \cup {"cleaner", None}]
    BY <1>0, <1>11 DEF FinalizeCommit
  <2>2. Rows
    BY <1>0, <1>11 DEF FinalizeCommit
  <2>3. UNCHANGED <<now, fileVars, attempts, uploads, reaper, faults>>
        /\ finalizing' = [finalizing EXCEPT ![a] = "idle"]
    BY <1>11 DEF FinalizeCommit
  <2> QED
    BY <1>0, <2>1, <2>2, <2>3
<1>12. ASSUME NEW t \in Attempts, NEW refs \in SUBSET Artifacts, Complete(t, refs) PROVE Good
  BY <1>0, <1>12, SMT DEF Complete
<1>13. ASSUME NEW t \in Attempts, Lapse(t) \/ EndAttempt(t) PROVE Good
  BY <1>0, <1>13, SMT DEF Lapse, EndAttempt
<1>14. ASSUME NEW a \in Artifacts, ExpireNext(a) PROVE Good
  <2>1. PICK i \in SUBSET Artifacts : i = reaper.items \cup {a}
    BY <1>0 DEF Reapers
  <2>2. PICK m \in SUBSET Artifacts : m = IF quarantine[a] = None THEN reaper.removed ELSE reaper.removed \cup {a}
    BY <1>0 DEF Reapers
  <2>3. reaper' = [reaper EXCEPT !.stage = "expiring", !.items = i, !.removed = m]
    BY <1>14, <2>1, <2>2 DEF ExpireNext
  <2>4. reaper' \in Reapers
    BY <1>0, <2>3, ReapersStayTyped, Zenon
  <2> QED
    BY <1>0, <1>14, <2>4 DEF ExpireNext, Put
<1>15. ASSUME NEW a \in Artifacts, CleanBegin(a) PROVE Good
  <2>1. PICK x \in Digests \cup {None} : x = artifacts[a].digest
    BY <1>0
  <2>2. PICK m \in SUBSET Artifacts : m = IF Unclaimed(artifacts[a].digest, a) THEN {a} ELSE {}
    OBVIOUS
  <2>3. reaper' = [stage |-> "cleaning", items |-> {a}, removed |-> m, digest |-> x]
    BY <1>15, <2>1, <2>2 DEF CleanBegin
  <2>4. reaper' \in Reapers
    BY <2>3, SMT DEF Reapers
  <2> QED
    BY <1>0, <1>15, <2>4 DEF CleanBegin
<1>16. ASSUME ExpireCommit PROVE Good
  <2>1. Rows
    BY <1>16, Zenon DEF ExpireCommit
  <2>2. UNCHANGED <<storeVars, attempts, uploads, finalizing, faults>> /\ reaper' = AtRest
    BY <1>16, Zenon DEF ExpireCommit
  <2>3. AtRest \in Reapers
    BY SMT DEF AtRest, Reapers
  <2> QED
    BY <1>0, <2>1, <2>2, <2>3
<1>17. ASSUME CleanCommit PROVE Good
  BY <1>0, <1>17, SMT DEF CleanCommit, Reapers
<1>18. ASSUME CleanRemove PROVE Good
  <2>1. reaper' = AtRest
    BY <1>18 DEF CleanRemove
  <2>2. reaper' \in Reapers
    BY <2>1, SMT DEF Reapers, AtRest
  <2> QED
    BY <1>0, <1>18, <2>2 DEF CleanRemove, Remove
<1>19. ASSUME NEW x \in Digests, OrphanBegin(x) PROVE Good
  <2>1. reaper' = [AtRest EXCEPT !.stage = "orphan", !.digest = x]
    BY <1>19 DEF OrphanBegin
  <2>2. reaper' \in Reapers
    BY <1>0, <2>1, ReapersStayTyped, Zenon
  <2> QED
    BY <1>0, <1>19, <2>2 DEF OrphanBegin
<1>20. ASSUME OrphanRemove PROVE Good
  <2>1. reaper' = AtRest
    BY <1>20 DEF OrphanRemove
  <2>2. reaper' \in Reapers
    BY <2>1, SMT DEF Reapers, AtRest
  <2> QED
    BY <1>0, <1>20, <2>2 DEF OrphanRemove, RemoveIfOlder
<1> HIDE DEF Good
<1>21. Good
  BY <1>1, <1>2, <1>3, <1>4, <1>5, <1>6, <1>7, <1>8, <1>9, <1>10, <1>11, <1>12, <1>13, <1>14, <1>15,
     <1>16, <1>17, <1>18, <1>19, <1>20, Zenon
  DEF ToolNext, Upload, Finalize, Reap
<1> QED
  BY <1>21, RowSteps DEF Good, ToolTypeOK, Reapers
-------------------------------------------------------------------------------
(* Tool steps keep the store sound.                                        *)

\* The lock of a digest changes hands with the stage of its holder.
LEMMA LocksKept ==
    ASSUME StoreInv, RenderTyped, ToolNext, UNCHANGED renderVars
    PROVE Locks'
<1> USE StoreAssumption DEF StoreInv, StoreTypeOK, ToolTypeOK, RenderTyped, ArtifactRecord,
        RenderRecord, File, Keys,
        StateOf, storeVars, toolVars, fileVars, renderVars, Acquire, Release, Free, AtRest, Locks,
        ContentSound, UploadSound
<1>1. ASSUME NEW a \in Artifacts, Reserve(a) \/ FinalizeTooLate(a) PROVE Locks'
  BY <1>1, SMT DEF Reserve, NoArtifact, Held, RowFree, FinalizeTooLate, Reject
<1>2. ASSUME NEW a \in Artifacts, Upload(a) PROVE Locks'
  BY <1>2, SMT DEF Upload, UploadBegin, Change, UploadOpen, UploadWrite, UploadFail,
     UploadRejected, Reject,
                   UploadDone, Authorised, Held, RowFree
<1>3. ASSUME NEW a \in Artifacts, FinalizeBegin(a) PROVE Locks'
  BY <1>3, SMT DEF FinalizeBegin, Held, RowFree
<1>4. ASSUME NEW a \in Artifacts, FinalizeMissing(a) PROVE Locks'
  BY <1>4, SMT DEF FinalizeMissing, Reject
<1>13. ASSUME NEW a \in Artifacts, FinalizeCommit(a) PROVE Locks'
  BY <1>13, SMT DEF FinalizeCommit
<1>5. ASSUME NEW a \in Artifacts, FinalizeLink(a) \/ FinalizeUnlink(a) PROVE Locks'
  BY <1>5, SMT DEF FinalizeLink, FinalizeUnlink
<1>6. ASSUME NEW t \in Attempts, NEW refs \in SUBSET Artifacts, Complete(t, refs) PROVE Locks'
  BY <1>6, SMT DEF Complete, Referable, AttemptFree, RowFree
<1>7. ASSUME NEW t \in Attempts, Lapse(t) \/ EndAttempt(t) PROVE Locks'
  BY <1>7, SMT DEF Lapse, EndAttempt
<1>8. ASSUME NEW a \in Artifacts, ExpireNext(a) PROVE Locks'
  BY <1>8, SMT DEF ExpireNext
<1>14. ASSUME NEW a \in Artifacts, CleanBegin(a) PROVE Locks'
  BY <1>14, SMT DEF CleanBegin, Disposable
<1>9. ASSUME ExpireCommit PROVE Locks'
  <2>1. \A k \in Artifacts : artifacts'[k].digest = artifacts[k].digest
    BY <1>9, ExpiredRow
  <2>2. UNCHANGED <<storeVars, renders, finalizing>> /\ reaper' = AtRest /\ reaper.stage = "expiring"
    BY <1>9, Zenon DEF ExpireCommit
  <2> QED
    BY <2>1, <2>2, SMT
<1>10. ASSUME CleanCommit PROVE Locks'
  BY <1>10, SMT DEF CleanCommit
<1>15. ASSUME CleanRemove PROVE Locks'
  BY <1>15, SMT DEF CleanRemove
<1>11. ASSUME NEW x \in Digests, OrphanBegin(x) PROVE Locks'
  BY <1>11, SMT DEF OrphanBegin
<1>12. ASSUME OrphanRemove PROVE Locks'
  BY <1>12, SMT DEF OrphanRemove
<1> HIDE DEF Locks
<1> QED
  BY <1>1, <1>2, <1>3, <1>4, <1>5, <1>6, <1>7, <1>8, <1>9, <1>10, <1>11, <1>12, <1>13, <1>14,
     <1>15, Zenon DEF ToolNext, Finalize, Reap

\* A row that someone works on does not change under him.
LEMMA RowsKeptSound ==
    ASSUME StoreInv, ToolNext, NEW k \in Artifacts
    PROVE UploadSound(k)' /\ ContentSound(k)' /\ MarkSound(k)'
<1> DEFINE Sound == UploadSound(k)' /\ ContentSound(k)' /\ MarkSound(k)'
<1> SUFFICES Sound
  OBVIOUS
<1> USE StoreAssumption, ToolArtifactsAssumption DEF StoreInv, StoreTypeOK, ToolTypeOK,
        ArtifactRecord, File, Keys,
        StateOf, Exists, storeVars, toolVars, fileVars, Acquire, Release, Free, AtRest,
        UploadSound, ContentSound, MarkSound,
        Locks, ReaperSound, Cleared, Removes, Kept
<1>1. ASSUME NEW a \in Artifacts, Reserve(a) PROVE Sound
  BY <1>1, SMT DEF Reserve, NoArtifact, Held, AttemptFree, RowFree
<1>2. ASSUME NEW a \in Artifacts, UploadBegin(a) PROVE Sound
  <2>1. CASE Authorised(a)
    <3>1. /\ artifacts' = [artifacts EXCEPT ![a].state = "uploading"] /\ StateOf(a) = "reserved"
          /\ uploads' = [uploads EXCEPT ![a] = "begun"]
          /\ finalizing[a] = "idle"
          /\ UNCHANGED <<storeVars, renders, attempts, finalizing, reaper, faults>>
      BY <1>2, <2>1, Zenon DEF UploadBegin, Change, Held, RowFree
    <3> QED
      BY <3>1, SMT
  <2>2. CASE ~Authorised(a)
    BY <1>2, <2>2, SMT DEF UploadBegin, Change, Held, RowFree
  <2> QED
    BY <2>1, <2>2
<1>3. ASSUME NEW a \in Artifacts, UploadOpen(a) PROVE Sound
  BY <1>3, SMT DEF UploadOpen, Put, Opened
<1>4. ASSUME NEW a \in Artifacts, UploadWrite(a) PROVE Sound
  BY <1>4, SMT DEF UploadWrite, Put, Written
<1>5. ASSUME NEW a \in Artifacts, UploadFail(a) PROVE Sound
  BY <1>5, SMT DEF UploadFail, Put
<1>6. ASSUME NEW a \in Artifacts, UploadRejected(a) PROVE Sound
  BY <1>6, SMT DEF UploadRejected, Reject, Held, AttemptFree, RowFree
<1>7. ASSUME NEW a \in Artifacts, NEW u \in BOOLEAN, UploadDone(a, u) PROVE Sound
  <2>1. CASE StateOf(a) = "uploading" /\ Authorised(a) /\ u
    <3>1. /\ artifacts' = [artifacts EXCEPT ![a].digest = quarantine[a].digest]
          /\ uploads' = [uploads EXCEPT ![a] = "idle"] /\ finalizing[a] = "idle"
          /\ UNCHANGED <<storeVars, attempts, finalizing, reaper>>
      BY <1>7, <2>1, Zenon DEF UploadDone, Held, RowFree
    <3> QED
      BY <2>1, <3>1, SMT
  <2>2. CASE ~(StateOf(a) = "uploading" /\ Authorised(a) /\ u)
    <3>1. /\ uploads' = [uploads EXCEPT ![a] = "idle"] /\ Put(a, None) /\ Reject(a)
          /\ finalizing[a] = "idle"
          /\ UNCHANGED <<now, objects, holder, renders, attempts, finalizing, reaper, faults>>
      BY <1>7, <2>2, Zenon DEF UploadDone, Held, RowFree
    <3> QED
      BY <3>1, SMT DEF Put, Reject
  <2> QED
    BY <2>1, <2>2
<1>8. ASSUME NEW a \in Artifacts, FinalizeBegin(a) PROVE Sound
  BY <1>8, SMT DEF FinalizeBegin, Held, AttemptFree, RowFree
<1>9. ASSUME NEW a \in Artifacts, FinalizeTooLate(a) PROVE Sound
  BY <1>9, SMT DEF FinalizeTooLate, Reject, Held, AttemptFree, RowFree
<1>10. ASSUME NEW a \in Artifacts, FinalizeMissing(a) PROVE Sound
  BY <1>10, SMT DEF FinalizeMissing, Reject
<1>11. ASSUME NEW a \in Artifacts, FinalizeLink(a) PROVE Sound
  BY <1>11, SMT DEF FinalizeLink, Link
<1>12. ASSUME NEW a \in Artifacts, FinalizeUnlink(a) PROVE Sound
  BY <1>12, SMT DEF FinalizeUnlink, Put
<1>13. ASSUME NEW a \in Artifacts, FinalizeCommit(a) PROVE Sound
  BY <1>13, SMT DEF FinalizeCommit
<1>14. ASSUME NEW t \in Attempts, NEW refs \in SUBSET Artifacts, Complete(t, refs) PROVE Sound
  <2>1. UNCHANGED <<storeVars, renders, uploads, finalizing, reaper, faults>> /\ attempts[t] = "running"
    BY <1>14, Zenon DEF Complete
  <2>2. CASE UNCHANGED artifacts /\ attempts' = [attempts EXCEPT ![t] = "failed"]
    BY <2>1, <2>2, SMT
  <2>3. CASE Referable(t, refs) /\ attempts' = [attempts EXCEPT ![t] = "succeeded"]
    <3>1. \/ artifacts'[k] = artifacts[k]
          \/ /\ artifacts'[k] = [artifacts[k] EXCEPT !.referenced = now]
             /\ AttemptOf[k] = t /\ StateOf(k) = "finalized" /\ ~artifacts[k].deleted
      BY <1>14, <2>3, SMT DEF Complete, Referable
    <3> QED
      BY <2>1, <2>3, <3>1, SMT
  <2> QED
    BY <1>14, <2>2, <2>3, Zenon DEF Complete
<1>15. ASSUME NEW t \in Attempts, Lapse(t) PROVE Sound
  BY <1>15, SMT DEF Lapse
<1>16. ASSUME NEW t \in Attempts, EndAttempt(t) PROVE Sound
  BY <1>16, SMT DEF EndAttempt
<1>17. ASSUME NEW a \in Artifacts, ExpireNext(a) PROVE Sound
  BY <1>17, SMT DEF ExpireNext, Put
<1>18. ASSUME NEW a \in Artifacts, CleanBegin(a) PROVE Sound
  BY <1>18, SMT DEF CleanBegin, Disposable, Unclaimed, LiveArtifacts
<1>19. ASSUME ExpireCommit PROVE Sound
  <2>1. UNCHANGED <<storeVars, attempts, uploads, finalizing>> /\ reaper.stage = "expiring"
    BY <1>19, Zenon DEF ExpireCommit
  <2>2. CASE k \notin reaper.items
    BY <1>19, <2>1, <2>2, ExpiredRow, SMT
  <2>3. CASE k \in reaper.items
    BY <1>19, <2>1, <2>3, ExpiredRow, SMT
  <2> QED
    BY <2>2, <2>3
<1>20. ASSUME CleanCommit PROVE Sound
  BY <1>20, SMT DEF CleanCommit
<1>21. ASSUME CleanRemove PROVE Sound
  BY <1>21, SMT DEF CleanRemove, Remove
<1>22. ASSUME NEW x \in Digests, OrphanBegin(x) PROVE Sound
  BY <1>22, SMT DEF OrphanBegin, Unclaimed, LiveArtifacts
<1>23. ASSUME OrphanRemove PROVE Sound
  BY <1>23, SMT DEF OrphanRemove, RemoveIfOlder
<1> HIDE StoreAssumption, ToolArtifactsAssumption DEF Sound, StoreInv, StoreTypeOK, ToolTypeOK,
        ArtifactRecord, File, Keys,
        StateOf, Exists, storeVars, toolVars, fileVars, Acquire, Release, Free, AtRest,
        UploadSound, ContentSound, MarkSound,
        Locks, ReaperSound, Cleared, Removes, Kept
<1> QED
  BY <1>1, <1>2, <1>3, <1>4, <1>5, <1>6, <1>7, <1>8, <1>9, <1>10, <1>11, <1>12, <1>13, <1>14,
     <1>15, <1>16, <1>17, <1>18, <1>19, <1>20, <1>21, <1>22, <1>23, Zenon
  DEF ToolNext, Upload, Finalize, Reap

\* No step of another takes a row out of the reaper's hands.
LEMMA ReaperKept ==
    ASSUME StoreInv, ToolNext
    PROVE ReaperSound'
<1> USE StoreAssumption, ToolArtifactsAssumption DEF StoreInv, StoreTypeOK, ToolTypeOK,
        ArtifactRecord, File, Keys,
        StateOf, Exists, storeVars, toolVars, fileVars, Acquire, Release, Free, AtRest,
        UploadSound, ContentSound, MarkSound, ReaperSound, Locks
<1>1. ASSUME NEW a \in Artifacts, Reserve(a) PROVE ReaperSound'
  BY <1>1, SMT DEF Reserve, NoArtifact, Held, AttemptFree, RowFree
<1>2. ASSUME NEW a \in Artifacts, UploadBegin(a) PROVE ReaperSound'
  <2>1. /\ \E s \in {"uploading", "rejected"} : artifacts' = [artifacts EXCEPT ![a].state = s]
        /\ StateOf(a) = "reserved" /\ ~(reaper.stage \in {"expiring", "cleaning"} /\ a \in reaper.items)
        /\ UNCHANGED <<storeVars, finalizing, reaper>>
    BY <1>2, Zenon DEF UploadBegin, Change, Held, RowFree
  <2> QED
    BY <2>1, SMT
<1>3. ASSUME NEW a \in Artifacts, UploadOpen(a) PROVE ReaperSound'
  BY <1>3, SMT DEF UploadOpen, Put, Opened
<1>4. ASSUME NEW a \in Artifacts, UploadWrite(a) PROVE ReaperSound'
  BY <1>4, SMT DEF UploadWrite, Put, Written
<1>5. ASSUME NEW a \in Artifacts, UploadFail(a) PROVE ReaperSound'
  BY <1>5, SMT DEF UploadFail, Put
<1>6. ASSUME NEW a \in Artifacts, UploadRejected(a) PROVE ReaperSound'
  BY <1>6, SMT DEF UploadRejected, Reject, Held, AttemptFree, RowFree
<1>7. ASSUME NEW a \in Artifacts, NEW u \in BOOLEAN, UploadDone(a, u) PROVE ReaperSound'
  <2>1. /\ UNCHANGED <<now, finalizing, reaper>>
        /\ ~(reaper.stage \in {"expiring", "cleaning"} /\ a \in reaper.items)
        /\ \A k \in Artifacts \ {a} : artifacts'[k] = artifacts[k]
    BY <1>7, SMT DEF UploadDone, Held, RowFree, Reject
  <2> QED
    BY <2>1, SMT
<1>8. ASSUME NEW a \in Artifacts, FinalizeBegin(a) PROVE ReaperSound'
  BY <1>8, SMT DEF FinalizeBegin, Held, AttemptFree, RowFree
<1>9. ASSUME NEW a \in Artifacts, FinalizeTooLate(a) PROVE ReaperSound'
  BY <1>9, SMT DEF FinalizeTooLate, Reject, Held, AttemptFree, RowFree
<1>10. ASSUME NEW a \in Artifacts, FinalizeMissing(a) PROVE ReaperSound'
  BY <1>10, SMT DEF FinalizeMissing, Reject
<1>11. ASSUME NEW a \in Artifacts, FinalizeLink(a) PROVE ReaperSound'
  BY <1>11, SMT DEF FinalizeLink, Link
<1>12. ASSUME NEW a \in Artifacts, FinalizeUnlink(a) PROVE ReaperSound'
  BY <1>12, SMT DEF FinalizeUnlink, Put
<1>13. ASSUME NEW a \in Artifacts, FinalizeCommit(a) PROVE ReaperSound'
  BY <1>13, SMT DEF FinalizeCommit
<1>14. ASSUME NEW t \in Attempts, NEW refs \in SUBSET Artifacts, Complete(t, refs)
       PROVE ReaperSound'
  BY <1>14, SMT DEF Complete, Referable, AttemptFree, RowFree
<1>15. ASSUME NEW t \in Attempts, Lapse(t) PROVE ReaperSound'
  BY <1>15, SMT DEF Lapse
<1>16. ASSUME NEW t \in Attempts, EndAttempt(t) PROVE ReaperSound'
  BY <1>16, SMT DEF EndAttempt
<1>17. ASSUME NEW a \in Artifacts, ExpireNext(a) PROVE ReaperSound'
  <2>1. /\ UNCHANGED <<now, artifacts, finalizing>>
        /\ reaper'.stage = "expiring" /\ reaper'.items = reaper.items \cup {a} /\ reaper'.digest = reaper.digest
        /\ StateOf(a) \in {"reserved", "uploading"} /\ finalizing[a] = "idle"
        /\ reaper.stage \in {"idle", "expiring"} /\ (reaper.stage = "idle" => reaper.items = {})
    BY <1>17, SMT DEF ExpireNext
  <2> QED
    BY <2>1, SMT
<1>18. ASSUME NEW a \in Artifacts, CleanBegin(a) PROVE ReaperSound'
  BY <1>18, SMT DEF CleanBegin, Disposable, Unclaimed, LiveArtifacts
<1>19. ASSUME ExpireCommit PROVE ReaperSound'
  <2>1. reaper' = AtRest
    BY <1>19, Zenon DEF ExpireCommit
  <2> QED
    BY <2>1, SMT
<1>20. ASSUME CleanCommit PROVE ReaperSound'
  BY <1>20, SMT DEF CleanCommit
<1>21. ASSUME CleanRemove PROVE ReaperSound'
  BY <1>21, SMT DEF CleanRemove, Remove
<1>22. ASSUME NEW x \in Digests, OrphanBegin(x) PROVE ReaperSound'
  BY <1>22, SMT DEF OrphanBegin, Unclaimed, LiveArtifacts
<1>23. ASSUME OrphanRemove PROVE ReaperSound'
  BY <1>23, SMT DEF OrphanRemove, RemoveIfOlder
<1> HIDE StoreAssumption, ToolArtifactsAssumption DEF ReaperSound, StoreInv, StoreTypeOK,
        ToolTypeOK, ArtifactRecord, File, Keys,
        StateOf, Exists, storeVars, toolVars, fileVars, Acquire, Release, Free, AtRest,
        UploadSound, ContentSound, MarkSound, ReaperSound, Locks
<1> QED
  BY <1>1, <1>2, <1>3, <1>4, <1>5, <1>6, <1>7, <1>8, <1>9, <1>10, <1>11, <1>12, <1>13, <1>14,
     <1>15, <1>16, <1>17, <1>18, <1>19, <1>20, <1>21, <1>22, <1>23, Zenon
  DEF ToolNext, Upload, Finalize, Reap

\* Only a finalize that holds the lock makes a row keep an object.
LEMMA NewlyKept ==
    ASSUME StoreInv, ToolNext, NEW k \in Artifacts, NEW y \in Digests
    PROVE Kept(k, y)' => Kept(k, y) \/ (finalizing[k] = "moved" /\ artifacts[k].digest = y)
<1> DEFINE NoneNew == Kept(k, y)' => Kept(k, y) \/ (finalizing[k] = "moved" /\ artifacts[k].digest = y)
<1> SUFFICES NoneNew
  OBVIOUS
<1> USE StoreAssumption, ToolArtifactsAssumption DEF StoreInv, StoreTypeOK, ToolTypeOK,
        ArtifactRecord, File, Keys,
        StateOf, Exists, storeVars, toolVars, fileVars, Acquire, Release, Free, AtRest, Kept
<1>1. ASSUME NEW a \in Artifacts, Reserve(a) PROVE NoneNew
  BY <1>1, SMT DEF Reserve, NoArtifact, Held, AttemptFree, RowFree
<1>2. ASSUME NEW a \in Artifacts, UploadBegin(a) PROVE NoneNew
  <2>1. \E s \in {"uploading", "rejected"} : artifacts' = [artifacts EXCEPT ![a].state = s]
    BY <1>2, Zenon DEF UploadBegin, Change
  <2> QED
    BY <2>1, SMT
<1>3. ASSUME NEW a \in Artifacts, UploadOpen(a) PROVE NoneNew
  BY <1>3, SMT DEF UploadOpen, Put, Opened
<1>4. ASSUME NEW a \in Artifacts, UploadWrite(a) PROVE NoneNew
  BY <1>4, SMT DEF UploadWrite, Put, Written
<1>5. ASSUME NEW a \in Artifacts, UploadFail(a) PROVE NoneNew
  BY <1>5, SMT DEF UploadFail, Put
<1>6. ASSUME NEW a \in Artifacts, UploadRejected(a) PROVE NoneNew
  <2>1. Reject(a)
    BY <1>6 DEF UploadRejected
  <2> QED
    BY <2>1, SMT DEF Reject
<1>7. ASSUME NEW a \in Artifacts, NEW u \in BOOLEAN, UploadDone(a, u) PROVE NoneNew
  <2>1. CASE StateOf(a) = "uploading" /\ artifacts' = [artifacts EXCEPT ![a].digest = quarantine[a].digest]
    BY <2>1, SMT
  <2>2. CASE Reject(a)
    BY <2>2, SMT DEF Reject
  <2> QED
    BY <1>7, <2>1, <2>2, Zenon DEF UploadDone
<1>8. ASSUME NEW a \in Artifacts, FinalizeBegin(a) PROVE NoneNew
  BY <1>8, SMT DEF FinalizeBegin, Held, AttemptFree, RowFree
<1>9. ASSUME NEW a \in Artifacts, FinalizeTooLate(a) PROVE NoneNew
  <2>1. Reject(a)
    BY <1>9 DEF FinalizeTooLate
  <2> QED
    BY <2>1, SMT DEF Reject
<1>10. ASSUME NEW a \in Artifacts, FinalizeMissing(a) PROVE NoneNew
  <2>1. Reject(a)
    BY <1>10 DEF FinalizeMissing
  <2> QED
    BY <2>1, SMT DEF Reject
<1>11. ASSUME NEW a \in Artifacts, FinalizeLink(a) PROVE NoneNew
  BY <1>11, SMT DEF FinalizeLink, Link
<1>12. ASSUME NEW a \in Artifacts, FinalizeUnlink(a) PROVE NoneNew
  BY <1>12, SMT DEF FinalizeUnlink, Put
<1>13. ASSUME NEW a \in Artifacts, FinalizeCommit(a) PROVE NoneNew
  BY <1>13, SMT DEF FinalizeCommit
<1>14. ASSUME NEW t \in Attempts, NEW refs \in SUBSET Artifacts, Complete(t, refs) PROVE NoneNew
  <2>1. \/ artifacts'[k] = artifacts[k]
        \/ artifacts'[k] = [artifacts[k] EXCEPT !.referenced = now]
    BY <1>14, SMT DEF Complete
  <2> QED
    BY <2>1, SMT
<1>15. ASSUME NEW t \in Attempts, Lapse(t) PROVE NoneNew
  BY <1>15, SMT DEF Lapse
<1>16. ASSUME NEW t \in Attempts, EndAttempt(t) PROVE NoneNew
  BY <1>16, SMT DEF EndAttempt
<1>17. ASSUME NEW a \in Artifacts, ExpireNext(a) PROVE NoneNew
  BY <1>17, SMT DEF ExpireNext, Put
<1>18. ASSUME NEW a \in Artifacts, CleanBegin(a) PROVE NoneNew
  BY <1>18, SMT DEF CleanBegin, Disposable, Unclaimed, LiveArtifacts
<1>19. ASSUME ExpireCommit PROVE NoneNew
  BY <1>19, ExpiredRow
<1>20. ASSUME CleanCommit PROVE NoneNew
  BY <1>20, SMT DEF CleanCommit
<1>21. ASSUME CleanRemove PROVE NoneNew
  BY <1>21, SMT DEF CleanRemove, Remove
<1>22. ASSUME NEW x \in Digests, OrphanBegin(x) PROVE NoneNew
  BY <1>22, SMT DEF OrphanBegin, Unclaimed, LiveArtifacts
<1>23. ASSUME OrphanRemove PROVE NoneNew
  BY <1>23, SMT DEF OrphanRemove, RemoveIfOlder
<1> HIDE StoreAssumption, ToolArtifactsAssumption DEF NoneNew, StoreInv, StoreTypeOK, ToolTypeOK,
        ArtifactRecord, File, Keys,
        StateOf, Exists, storeVars, toolVars, fileVars, Acquire, Release, Free, AtRest, Kept
<1> QED
  BY <1>1, <1>2, <1>3, <1>4, <1>5, <1>6, <1>7, <1>8, <1>9, <1>10, <1>11, <1>12, <1>13, <1>14,
     <1>15, <1>16, <1>17, <1>18, <1>19, <1>20, <1>21, <1>22, <1>23, Zenon
  DEF ToolNext, Upload, Finalize, Reap

\* Who is about to remove an object holds its lock.
LEMMA RemovesUnderLock ==
    ASSUME StoreInv, RenderTyped, NEW x \in Digests, Removes(x)
    PROVE holder[x] = "cleaner" \/ holder[x] \in Renders
<1>1. CASE reaper.digest = x
  BY <1>1 DEF StoreInv, Locks
<1>2. CASE \E r \in Renders : deleting[r] \in {"last", "removing"} /\ renders[r].digest = x
  BY <1>2, SMT DEF StoreInv, Locks
<1> QED
  BY <1>1, <1>2 DEF Removes

\* No step of the tools makes a row keep an object that is about to be removed.
LEMMA NoneKeptLate ==
    ASSUME StoreInv, RenderTyped, ToolNext, NEW k \in Artifacts, NEW x \in Digests, Removes(x), Kept(k, x)'
    PROVE Kept(k, x)
<1>1. CASE finalizing[k] = "moved" /\ artifacts[k].digest = x
  <2>1. holder[x] = k
    BY <1>1 DEF StoreInv, Locks
  <2>2. k # "cleaner" /\ k \notin Renders
    BY StoreAssumption DEF Keys
  <2> QED
    BY <2>1, <2>2, RemovesUnderLock
<1> QED
  BY <1>1, NewlyKept

\* Only the reaper moves the reaper, and no tool step renders.
LEMMA OnlyReapReaps ==
    ASSUME ToolNext
    PROVE Reap \/ UNCHANGED <<renders, reaper>>
<1>1. ASSUME NEW a \in Artifacts, Reserve(a) \/ Upload(a) PROVE UNCHANGED <<renders, reaper>>
  BY <1>1 DEF Reserve, Upload, UploadBegin, UploadOpen, UploadWrite, UploadFail, UploadRejected,
     UploadDone, toolVars
<1>2. ASSUME NEW a \in Artifacts, Finalize(a) PROVE UNCHANGED <<renders, reaper>>
  BY <1>2 DEF Finalize, FinalizeBegin, FinalizeTooLate, FinalizeMissing, FinalizeLink,
     FinalizeUnlink,
              FinalizeCommit, toolVars
<1>3. ASSUME NEW t \in Attempts, NEW refs \in SUBSET Artifacts, Complete(t, refs)
      PROVE UNCHANGED <<renders, reaper>>
  BY <1>3 DEF Complete
<1>4. ASSUME NEW t \in Attempts, Lapse(t) \/ EndAttempt(t) PROVE UNCHANGED <<renders, reaper>>
  BY <1>4 DEF Lapse, EndAttempt
<1> QED
  BY <1>1, <1>2, <1>3, <1>4, Zenon DEF ToolNext

\* What was cleared for removal stays so.
LEMMA ClearedKept ==
    ASSUME StoreInv, RenderTyped, ToolNext, UNCHANGED renderVars
    PROVE Cleared'
<1> SUFFICES ASSUME NEW x \in Digests, NEW k \in Artifacts, Removes(x)', Kept(k, x)'
             PROVE reaper'.stage = "cleaning" /\ k \in reaper'.items
  BY DEF Cleared
<1> USE StoreAssumption DEF Free, AtRest, Keys
<1>1. Removes(x) => reaper.stage = "cleaning" /\ k \in reaper.items
  BY NoneKeptLate DEF StoreInv, Cleared
<1>2. Kept(k, x) \/ (finalizing[k] = "moved" /\ artifacts[k].digest = x)
  BY NewlyKept
<1>3. reaper.digest \in Digests \cup {None} /\ x # None
  BY DEF StoreInv, ToolTypeOK
<1>4. CASE UNCHANGED <<renders, reaper>>
  <2>1. Removes(x)
    BY <1>4 DEF Removes, renderVars
  <2> QED
    BY <1>1, <1>4, <2>1
<1>5. ASSUME NEW a \in Artifacts, ExpireNext(a) PROVE FALSE
  <2>1. reaper.stage \in {"idle", "expiring"} /\ reaper'.stage = "expiring" /\ reaper'.digest = reaper.digest
        /\ UNCHANGED renders
    BY <1>5, SMT DEF ExpireNext, StoreInv, ToolTypeOK
  <2>2. reaper.digest = None
    BY <1>3, <2>1 DEF StoreInv, Locks
  <2>3. Removes(x)
    BY <1>3, <2>1, <2>2 DEF Removes, renderVars
  <2> QED
    BY <1>1, <2>1, <2>3
<1>6. ASSUME NEW a \in Artifacts, CleanBegin(a)
      PROVE reaper'.stage = "cleaning" /\ k \in reaper'.items
  <2>1. /\ reaper.stage = "idle" /\ UNCHANGED <<artifacts, renders>>
        /\ reaper' = [stage |-> "cleaning", items |-> {a}, digest |-> artifacts[a].digest,
                      removed |-> IF Unclaimed(artifacts[a].digest, a) THEN {a} ELSE {}]
    BY <1>6 DEF CleanBegin
  <2>2. ~Removes(x)
    BY <1>1, <2>1
  <2>3. artifacts[a].digest = x /\ Unclaimed(x, a)
    BY <2>1, <2>2 DEF Removes, renderVars
  <2>4. k \in LiveArtifacts(x)
    BY <2>1 DEF Kept, StateOf, LiveArtifacts
  <2> QED
    BY <2>1, <2>3, <2>4 DEF Unclaimed
<1>7. ASSUME NEW d \in Digests, OrphanBegin(d) PROVE FALSE
  <2>1. /\ reaper.stage = "idle" /\ UNCHANGED <<artifacts, renders>> /\ Unclaimed(d, None)
        /\ reaper' = [AtRest EXCEPT !.stage = "orphan", !.digest = d]
    BY <1>7 DEF OrphanBegin
  <2>2. ~Removes(x)
    BY <1>1, <2>1
  <2>3. reaper'.digest = d /\ d = x
    BY <2>1, <2>2 DEF Removes, renderVars
  <2>4. k \in LiveArtifacts(x)
    BY <2>1 DEF Kept, StateOf, LiveArtifacts
  <2> QED
    BY <2>1, <2>3, <2>4 DEF Unclaimed
<1>8. ASSUME CleanCommit PROVE FALSE
  <2>1. reaper.stage = "cleaning" /\ UNCHANGED renders /\ reaper'.removed = reaper.removed /\ reaper'.digest = reaper.digest
        /\ reaper'.stage = "removing"
    BY <1>8, SMT DEF CleanCommit, StoreInv, ToolTypeOK
  <2>2. Removes(x)
    BY <2>1 DEF Removes, renderVars
  <2>3. artifacts'[k] = [artifacts[k] EXCEPT !.deleted = TRUE]
    BY <1>1, <1>8, <2>2 DEF CleanCommit
  <2> QED
    BY <2>3 DEF Kept, StoreInv, ToolTypeOK, ArtifactRecord
<1>9. ASSUME ExpireCommit \/ CleanRemove \/ OrphanRemove PROVE FALSE
  <2>1. UNCHANGED renders /\ reaper' = AtRest /\ reaper.stage # "cleaning"
    BY <1>9, Zenon DEF ExpireCommit, CleanRemove, OrphanRemove
  <2>2. Removes(x)
    BY <1>3, <2>1 DEF Removes, renderVars
  <2> QED
    BY <1>1, <2>1, <2>2
<1> QED
  BY <1>4, <1>5, <1>6, <1>7, <1>8, <1>9, OnlyReapReaps, Zenon DEF Reap

\* A mark of a completion is never taken back.
LEMMA ReferencesStay ==
    ASSUME StoreInv, ToolNext, NEW k \in Artifacts
    PROVE artifacts[k].referenced # None => artifacts'[k].referenced # None
<1> DEFINE Stays == artifacts[k].referenced # None => artifacts'[k].referenced # None
<1> SUFFICES Stays
  OBVIOUS
<1> USE StoreAssumption, ToolArtifactsAssumption DEF StoreInv, StoreTypeOK, ToolTypeOK,
        ArtifactRecord, File, Keys,
        StateOf, Exists, storeVars, toolVars, fileVars, Acquire, Release, Free, AtRest, MarkSound
<1>1. ASSUME NEW a \in Artifacts, Reserve(a) PROVE Stays
  BY <1>1, SMT DEF Reserve, NoArtifact, Held, AttemptFree, RowFree
<1>2. ASSUME NEW a \in Artifacts, UploadBegin(a) PROVE Stays
  <2>1. \E s \in {"uploading", "rejected"} : artifacts' = [artifacts EXCEPT ![a].state = s]
    BY <1>2, Zenon DEF UploadBegin, Change
  <2> QED
    BY <2>1, SMT
<1>3. ASSUME NEW a \in Artifacts, UploadOpen(a) PROVE Stays
  BY <1>3, SMT DEF UploadOpen, Put, Opened
<1>4. ASSUME NEW a \in Artifacts, UploadWrite(a) PROVE Stays
  BY <1>4, SMT DEF UploadWrite, Put, Written
<1>5. ASSUME NEW a \in Artifacts, UploadFail(a) PROVE Stays
  BY <1>5, SMT DEF UploadFail, Put
<1>6. ASSUME NEW a \in Artifacts, UploadRejected(a) PROVE Stays
  <2>1. Reject(a)
    BY <1>6 DEF UploadRejected
  <2> QED
    BY <2>1, SMT DEF Reject
<1>7. ASSUME NEW a \in Artifacts, NEW u \in BOOLEAN, UploadDone(a, u) PROVE Stays
  <2>1. CASE StateOf(a) = "uploading" /\ artifacts' = [artifacts EXCEPT ![a].digest = quarantine[a].digest]
    BY <2>1, SMT
  <2>2. CASE Reject(a)
    BY <2>2, SMT DEF Reject
  <2> QED
    BY <1>7, <2>1, <2>2, Zenon DEF UploadDone
<1>8. ASSUME NEW a \in Artifacts, FinalizeBegin(a) PROVE Stays
  BY <1>8, SMT DEF FinalizeBegin, Held, AttemptFree, RowFree
<1>9. ASSUME NEW a \in Artifacts, FinalizeTooLate(a) PROVE Stays
  <2>1. Reject(a)
    BY <1>9 DEF FinalizeTooLate
  <2> QED
    BY <2>1, SMT DEF Reject
<1>10. ASSUME NEW a \in Artifacts, FinalizeMissing(a) PROVE Stays
  <2>1. Reject(a)
    BY <1>10 DEF FinalizeMissing
  <2> QED
    BY <2>1, SMT DEF Reject
<1>11. ASSUME NEW a \in Artifacts, FinalizeLink(a) PROVE Stays
  BY <1>11, SMT DEF FinalizeLink, Link
<1>12. ASSUME NEW a \in Artifacts, FinalizeUnlink(a) PROVE Stays
  BY <1>12, SMT DEF FinalizeUnlink, Put
<1>13. ASSUME NEW a \in Artifacts, FinalizeCommit(a) PROVE Stays
  BY <1>13, SMT DEF FinalizeCommit
<1>14. ASSUME NEW t \in Attempts, NEW refs \in SUBSET Artifacts, Complete(t, refs) PROVE Stays
  <2>1. \/ artifacts'[k] = artifacts[k]
        \/ artifacts'[k] = [artifacts[k] EXCEPT !.referenced = now]
    BY <1>14, SMT DEF Complete
  <2> QED
    BY <2>1, SMT
<1>15. ASSUME NEW t \in Attempts, Lapse(t) PROVE Stays
  BY <1>15, SMT DEF Lapse
<1>16. ASSUME NEW t \in Attempts, EndAttempt(t) PROVE Stays
  BY <1>16, SMT DEF EndAttempt
<1>17. ASSUME NEW a \in Artifacts, ExpireNext(a) PROVE Stays
  BY <1>17, SMT DEF ExpireNext, Put
<1>18. ASSUME NEW a \in Artifacts, CleanBegin(a) PROVE Stays
  BY <1>18, SMT DEF CleanBegin, Disposable, Unclaimed, LiveArtifacts
<1>19. ASSUME ExpireCommit PROVE Stays
  BY <1>19, ExpiredRow
<1>20. ASSUME CleanCommit PROVE Stays
  BY <1>20, SMT DEF CleanCommit
<1>21. ASSUME CleanRemove PROVE Stays
  BY <1>21, SMT DEF CleanRemove, Remove
<1>22. ASSUME NEW x \in Digests, OrphanBegin(x) PROVE Stays
  BY <1>22, SMT DEF OrphanBegin, Unclaimed, LiveArtifacts
<1>23. ASSUME OrphanRemove PROVE Stays
  BY <1>23, SMT DEF OrphanRemove, RemoveIfOlder
<1> HIDE StoreAssumption, ToolArtifactsAssumption DEF Stays, StoreInv, StoreTypeOK, ToolTypeOK,
        ArtifactRecord, File, Keys,
        StateOf, Exists, storeVars, toolVars, fileVars, Acquire, Release, Free, AtRest, MarkSound
<1> QED
  BY <1>1, <1>2, <1>3, <1>4, <1>5, <1>6, <1>7, <1>8, <1>9, <1>10, <1>11, <1>12, <1>13, <1>14,
     <1>15, <1>16, <1>17, <1>18, <1>19, <1>20, <1>21, <1>22, <1>23, Zenon
  DEF ToolNext, Upload, Finalize, Reap
LEMMA StoreToolStep ==
    ASSUME StoreInv, RenderTyped, ToolNext, UNCHANGED renderVars
    PROVE StoreInv'
<1>1. (StoreTypeOK /\ ToolTypeOK)'
  BY ToolStepsTyped DEF StoreInv
<1>2. Locks'
  BY LocksKept
<1>3. ReaperSound'
  BY ReaperKept
<1>4. Cleared'
  BY ClearedKept
<1>5. \A a \in Artifacts : UploadSound(a)' /\ ContentSound(a)' /\ MarkSound(a)'
  BY RowsKeptSound
<1> QED
  BY <1>1, <1>2, <1>3, <1>4, <1>5 DEF StoreInv

\* Steps that only add objects, pass time, or write rows no deletion holds.
Quiet ==
    /\ UNCHANGED <<quarantine, holder, artifacts, attempts, uploads, finalizing, reaper, deleting>>
    /\ now' \in Nat /\ now <= now' /\ faults' \in Nat
    /\ objects' \in [Digests -> Nat \cup {None}] /\ \A x \in Digests : Exists(x) => Exists(x)'
    /\ \A r \in Renders : deleting[r] # "idle" => renders'[r] = renders[r]

\* Such steps keep the store sound.
LEMMA StoreQuietStep ==
    ASSUME StoreInv, RenderTyped, Quiet
    PROVE StoreInv'
<1> USE StoreAssumption, ToolArtifactsAssumption DEF Quiet
<1>1. (StoreTypeOK /\ ToolTypeOK)'
  BY DEF StoreInv, StoreTypeOK, ToolTypeOK
<1>2. Locks'
  BY DEF StoreInv, Locks
<1>3. ASSUME NEW a \in Artifacts, artifacts[a].referenced # None, artifacts[a].referenced + Retention <= now
      PROVE artifacts[a].referenced + Retention <= now'
  <2>1. PICK n \in Nat : n = artifacts[a].referenced
    BY <1>3 DEF StoreInv, ToolTypeOK, ArtifactRecord
  <2> QED
    BY <1>3, <2>1 DEF StoreInv, StoreTypeOK
<1>4. ReaperSound'
  BY <1>3, SMT DEF StoreInv, ReaperSound, ToolTypeOK, StateOf
<1>5. Cleared'
  <2>1. \A x \in Digests : Removes(x)' => Removes(x)
    BY DEF Removes
  <2>2. \A x \in Digests, a \in Artifacts : Kept(a, x)' = Kept(a, x)
    BY DEF Kept, StateOf
  <2> QED
    BY <2>1, <2>2 DEF StoreInv, Cleared
<1>6. ASSUME NEW a \in Artifacts PROVE UploadSound(a)' /\ ContentSound(a)' /\ MarkSound(a)'
  <2>1. UploadSound(a) /\ ContentSound(a) /\ MarkSound(a)
    BY DEF StoreInv
  <2>2. artifacts[a].expires \in Nat /\ now \in Nat
    BY DEF StoreInv, ToolTypeOK, StoreTypeOK, ArtifactRecord
  <2>3. UploadSound(a)'
    BY <2>1, <2>2 DEF UploadSound, StateOf
  <2>4. ContentSound(a)'
    <3>1. artifacts[a].digest \in Digests \cup {None}
      BY DEF StoreInv, ToolTypeOK, ArtifactRecord
    <3>2. finalizing[a] \in {"linked", "moved"} => finalizing[a] # "idle"
      OBVIOUS
    <3>3. ASSUME artifacts[a].digest # None, Exists(artifacts[a].digest)
          PROVE Exists(artifacts[a].digest)'
      BY <3>1, <3>3
    <3> QED
      BY <2>1, <3>1, <3>2, <3>3 DEF ContentSound, StateOf
  <2>5. MarkSound(a)'
    BY <1>3, <2>1 DEF MarkSound, StateOf
  <2> QED
    BY <2>3, <2>4, <2>5
<1> QED
  BY <1>1, <1>2, <1>4, <1>5, <1>6 DEF StoreInv

\* A deletion of a rendered row: it counts the others under the lock.
LEMMA StoreDeleteStep ==
    ASSUME StoreInv, RenderTyped, NEW r \in Renders, Delete(r)
    PROVE StoreInv'
<1> USE StoreAssumption DEF StoreInv, StoreTypeOK, RenderTyped, Keys, storeVars, fileVars, toolVars
<1>0. ToolTypeOK' /\ ReaperSound' /\ UNCHANGED <<now, quarantine, artifacts, toolVars>>
  BY DEF Delete, DeleteBegin, DeleteCommit, DeleteRemove, ToolTypeOK, ReaperSound, StateOf
<1>1. \A a \in Artifacts : artifacts[a].digest \in Digests \cup {None}
  BY DEF ToolTypeOK, ArtifactRecord
<1>2. ASSUME NEW a \in Artifacts PROVE UploadSound(a)' /\ MarkSound(a)'
  BY <1>0 DEF UploadSound, MarkSound, StateOf
<1>3. CASE DeleteBegin(r)
  <2>1. /\ Free(renders[r].digest) /\ Acquire(renders[r].digest, r) /\ renders[r].present /\ deleting[r] = "idle"
        /\ deleting' = [deleting EXCEPT ![r] = IF Unclaimed(renders[r].digest, r) THEN "last" ELSE "shared"]
        /\ UNCHANGED <<objects, renders>>
    BY <1>3 DEF DeleteBegin
  <2>2. StoreTypeOK' /\ Locks'
    <3>1. PICK y \in Digests \cup {None} : y = renders[r].digest
      BY DEF RenderRecord
    <3>2. holder[y] = None /\ holder' = [holder EXCEPT ![y] = r]
      BY <2>1, <3>1 DEF Free, Acquire
    <3>3. StoreTypeOK'
      BY <1>0, <2>1, <3>2
    <3>4. Locks'
      BY <1>0, <2>1, <3>1, <3>2, SMT DEF Locks
    <3> QED
      BY <3>3, <3>4
  <2>3. Cleared'
    <3> SUFFICES ASSUME NEW x \in Digests, NEW k \in Artifacts, Removes(x)', Kept(k, x)'
                 PROVE reaper'.stage = "cleaning" /\ k \in reaper'.items
      BY DEF Cleared
    <3>1. Kept(k, x)
      BY <1>0 DEF Kept, StateOf
    <3>2. CASE Removes(x)
      BY <1>0, <3>1, <3>2 DEF Cleared
    <3>3. CASE ~Removes(x)
      <4>1. renders[r].digest = x /\ Unclaimed(x, r)
        BY <1>0, <2>1, <3>3 DEF Removes
      <4>2. k \in LiveArtifacts(x) /\ k # r
        BY <3>1 DEF Kept, StateOf, LiveArtifacts
      <4> QED
        BY <4>1, <4>2 DEF Unclaimed
    <3> QED
      BY <3>2, <3>3
  <2>4. ASSUME NEW a \in Artifacts PROVE ContentSound(a)'
    BY <1>0, <2>1 DEF ContentSound, StateOf, Exists
  <2> QED
    BY <1>0, <1>2, <2>2, <2>3, <2>4
<1>4. CASE DeleteCommit(r)
  <2>1. /\ deleting[r] \in {"last", "shared"} /\ renders' = [renders EXCEPT ![r].deleted = TRUE]
        /\ UNCHANGED objects
        /\ \/ deleting[r] = "last" /\ deleting' = [deleting EXCEPT ![r] = "removing"] /\ UNCHANGED holder
           \/ deleting[r] # "last" /\ deleting' = [deleting EXCEPT ![r] = "idle"] /\ Release(renders[r].digest)
    BY <1>4 DEF DeleteCommit
  <2>2. \A q \in Renders : renders'[q].digest = renders[q].digest
    BY <2>1 DEF RenderRecord
  <2>3. StoreTypeOK'
    BY <1>0, <2>1, SMT DEF Release, RenderRecord
  <2>4. Locks'
    BY <1>0, <2>1, <2>2, SMT DEF Locks, Release
  <2>5. Cleared'
    <3>1. \A x \in Digests : Removes(x)' => Removes(x)
      BY <1>0, <2>1, <2>2 DEF Removes
    <3>2. \A x \in Digests, k \in Artifacts : Kept(k, x)' => Kept(k, x)
      BY <1>0 DEF Kept, StateOf
    <3> QED
      BY <1>0, <3>1, <3>2 DEF Cleared
  <2>6. ASSUME NEW a \in Artifacts PROVE ContentSound(a)'
    BY <1>0, <2>1 DEF ContentSound, StateOf, Exists
  <2> QED
    BY <1>0, <1>2, <2>3, <2>4, <2>5, <2>6
<1>5. CASE DeleteRemove(r)
  <2> DEFINE y == renders[r].digest
  <2>1. /\ deleting[r] = "removing" /\ objects' = [objects EXCEPT ![y] = None] /\ Release(y)
        /\ deleting' = [deleting EXCEPT ![r] = "idle"] /\ UNCHANGED renders
    BY <1>5 DEF DeleteRemove, Remove
  <2>2. y \in Digests \cup {None}
    BY DEF RenderRecord
  <2>3. StoreTypeOK'
    <3>1. holder' \in [Digests -> Keys \cup {"cleaner", None}]
      BY <2>1 DEF Release
    <3>2. objects' \in [Digests -> Nat \cup {None}]
      BY <2>1
    <3> QED
      BY <1>0, <3>1, <3>2
  <2>4. Locks'
    BY <1>0, <2>1, <2>2, SMT DEF Locks, Release
  <2>5. Cleared'
    <3>1. \A x \in Digests : Removes(x)' => Removes(x)
      BY <1>0, <2>1 DEF Removes
    <3>2. \A x \in Digests, k \in Artifacts : Kept(k, x)' => Kept(k, x)
      BY <1>0 DEF Kept, StateOf
    <3> QED
      BY <1>0, <3>1, <3>2 DEF Cleared
  <2>6. ASSUME NEW a \in Artifacts PROVE ContentSound(a)'
    <3>1. ContentSound(a)
      OBVIOUS
    <3>2. ASSUME artifacts[a].digest \in Digests, artifacts[a].digest # y, Exists(artifacts[a].digest)
          PROVE Exists(artifacts[a].digest)'
      BY <1>0, <2>1, <3>2 DEF Exists
    <3>3. y \in Digests => holder[y] = r
      BY <2>1 DEF Locks
    <3>4. finalizing[a] # "idle" => artifacts[a].digest # y
      BY <2>2, <3>1, <3>3 DEF Locks, ContentSound
    <3>5. StateOf(a) = "finalized" /\ ~artifacts[a].deleted => artifacts[a].digest # y
      <4> SUFFICES ASSUME StateOf(a) = "finalized", ~artifacts[a].deleted, artifacts[a].digest = y
                   PROVE FALSE
        OBVIOUS
      <4>1. y \in Digests
        BY <1>1, <3>1 DEF ContentSound
      <4>2. Removes(y) /\ Kept(a, y)
        BY <2>1 DEF Removes, Kept
      <4>3. reaper.stage = "cleaning" /\ a \in reaper.items
        BY <4>1, <4>2 DEF Cleared
      <4>4. reaper.digest = y
        BY <4>3 DEF ReaperSound
      <4>5. holder[y] = "cleaner"
        BY <4>1, <4>4 DEF Locks
      <4> QED
        BY <3>3, <4>1, <4>5
    <3> QED
      BY <1>0, <1>1, <3>1, <3>2, <3>4, <3>5 DEF ContentSound, StateOf
  <2> QED
    BY <1>0, <1>2, <2>3, <2>4, <2>5, <2>6
<1> QED
  BY <1>3, <1>4, <1>5 DEF Delete

\* After a crash nobody holds a lock and nobody is at work.
LEMMA StoreCrashStep ==
    ASSUME StoreInv, RenderTyped, Crash
    PROVE StoreInv'
<1> USE StoreAssumption DEF StoreInv, Crash, StopTools, Fault, fileVars, Keys
<1>1. /\ UNCHANGED <<now, quarantine, objects, artifacts, renders, attempts>>
      /\ uploads' = [a \in Artifacts |-> "idle"] /\ finalizing' = [a \in Artifacts |-> "idle"]
      /\ reaper' = AtRest /\ holder' = [d \in Digests |-> None] /\ deleting' = [r \in Renders |-> "idle"]
      /\ faults' = faults + 1
  OBVIOUS
<1>2. AtRest \in Reapers
  BY SMT DEF AtRest, Reapers
<1>3. (StoreTypeOK /\ ToolTypeOK)'
  BY <1>1, <1>2 DEF StoreTypeOK, ToolTypeOK, Reapers
<1>4. Locks' /\ ReaperSound'
  BY <1>1 DEF Locks, ReaperSound, AtRest
<1>5. Cleared'
  BY <1>1 DEF Cleared, Removes, AtRest
<1>6. ASSUME NEW a \in Artifacts PROVE UploadSound(a)' /\ ContentSound(a)' /\ MarkSound(a)'
  BY <1>1, SMT DEF UploadSound, ContentSound, MarkSound, StateOf, Exists
<1> QED
  BY <1>3, <1>4, <1>5, <1>6
-------------------------------------------------------------------------------
(* What a call turns into, and what becomes of its attempt.                *)

\* One call moves on, with its document and key; the rest of it is named.
Goes(c, new) ==
    /\ calls' = [calls EXCEPT ![c] = new] /\ new \in CallRecord
    /\ new.doc = DocOf(c) /\ new.key = calls[c].key

\* A call that only moves to another stage.
LEMMA Moves ==
    ASSUME RenderTyped, NEW c \in Calls, NEW s \in CallStages, Move(c, s)
    PROVE \E new : /\ Goes(c, new) /\ new.stage = s
                   /\ new.attempt = calls[c].attempt /\ new.row = calls[c].row /\ new.outcome = calls[c].outcome
<1>1. calls[c] \in CallRecord
  BY DEF RenderTyped
<1>2. PICK new : new = [calls[c] EXCEPT !.stage = s]
  OBVIOUS
<1>3. new \in CallRecord /\ new.stage = s /\ new.doc = DocOf(c) /\ new.key = calls[c].key
      /\ new.attempt = calls[c].attempt /\ new.row = calls[c].row /\ new.outcome = calls[c].outcome
  BY <1>1, <1>2, SMT DEF CallRecord, DocOf
<1> QED
  BY <1>2, <1>3 DEF Move, Turns, Goes

\* The changes of two or three fields.
LEMMA Receives ==
    ASSUME RenderTyped, NEW c \in Calls, NEW r \in Renders,
           Turns(c, [calls[c] EXCEPT !.stage = "received", !.row = r])
    PROVE \E new : /\ Goes(c, new) /\ new.stage = "received" /\ new.row = r
<1>1. calls[c] \in CallRecord
  BY DEF RenderTyped
<1>2. PICK mid \in CallRecord : mid = [calls[c] EXCEPT !.stage = "received"]
  <2>1. [calls[c] EXCEPT !.stage = "received"] \in CallRecord
    BY <1>1, SMT DEF CallRecord, CallStages
  <2> QED
    BY <2>1
<1>3. PICK new \in CallRecord : new = [mid EXCEPT !.row = r]
  <2>1. [mid EXCEPT !.row = r] \in CallRecord
    BY SMT DEF CallRecord
  <2> QED
    BY <2>1
<1>4. new.doc = DocOf(c) /\ new.key = calls[c].key /\ new.stage = "received" /\ new.row = r
  BY <1>1, <1>2, <1>3, SMT DEF CallRecord, DocOf
<1>5. calls' = [calls EXCEPT ![c] = new]
  BY <1>2, <1>3 DEF Turns
<1> QED
  BY <1>4, <1>5 DEF Goes

\* A call that gets its attempt.
LEMMA StartsRendering ==
    ASSUME RenderTyped, NEW c \in Calls, NEW n \in Nat,
           Turns(c, [calls[c] EXCEPT !.stage = "rendering", !.attempt = n])
    PROVE \E new : /\ Goes(c, new) /\ new.stage = "rendering" /\ new.attempt = n
<1>1. calls[c] \in CallRecord
  BY DEF RenderTyped
<1>2. PICK mid \in CallRecord : mid = [calls[c] EXCEPT !.stage = "rendering"]
  <2>1. [calls[c] EXCEPT !.stage = "rendering"] \in CallRecord
    BY <1>1, SMT DEF CallRecord, CallStages
  <2> QED
    BY <2>1
<1>3. PICK new \in CallRecord : new = [mid EXCEPT !.attempt = n]
  <2>1. [mid EXCEPT !.attempt = n] \in CallRecord
    BY SMT DEF CallRecord
  <2> QED
    BY <2>1
<1>4. new.doc = DocOf(c) /\ new.key = calls[c].key /\ new.stage = "rendering" /\ new.attempt = n
  BY <1>1, <1>2, <1>3, SMT DEF CallRecord, DocOf
<1>5. calls' = [calls EXCEPT ![c] = new]
  BY <1>2, <1>3 DEF Turns
<1> QED
  BY <1>4, <1>5 DEF Goes

\* A call that has linked its file.
LEMMA Links ==
    ASSUME RenderTyped, NEW c \in Calls, NEW r \in Renders, NEW x \in Digests,
           Turns(c, [calls[c] EXCEPT !.stage = "linked", !.row = r, !.digest = x])
    PROVE \E new : /\ Goes(c, new) /\ new.stage = "linked" /\ new.row = r /\ new.attempt = calls[c].attempt
<1>1. calls[c] \in CallRecord
  BY DEF RenderTyped
<1>2. PICK mid \in CallRecord : mid = [calls[c] EXCEPT !.stage = "linked"]
  <2>1. [calls[c] EXCEPT !.stage = "linked"] \in CallRecord
    BY <1>1, SMT DEF CallRecord, CallStages
  <2> QED
    BY <2>1
<1>3. PICK next \in CallRecord : next = [mid EXCEPT !.row = r]
  <2>1. [mid EXCEPT !.row = r] \in CallRecord
    BY SMT DEF CallRecord
  <2> QED
    BY <2>1
<1>4. PICK new \in CallRecord : new = [next EXCEPT !.digest = x]
  <2>1. [next EXCEPT !.digest = x] \in CallRecord
    BY SMT DEF CallRecord
  <2> QED
    BY <2>1
<1>5. new.doc = DocOf(c) /\ new.key = calls[c].key /\ new.stage = "linked" /\ new.row = r /\ new.attempt = calls[c].attempt
  BY <1>1, <1>2, <1>3, <1>4, SMT DEF CallRecord, DocOf
<1>6. calls' = [calls EXCEPT ![c] = new]
  BY <1>2, <1>3, <1>4 DEF Turns
<1> QED
  BY <1>5, <1>6 DEF Goes

\* A call that has sent, or tried to.
LEMMA Sends ==
    ASSUME RenderTyped, NEW c \in Calls, NEW o \in Outcomes,
           Turns(c, [calls[c] EXCEPT !.stage = "sent", !.outcome = o])
    PROVE \E new : /\ Goes(c, new) /\ new.stage = "sent" /\ new.outcome = o /\ new.row = calls[c].row
<1>1. calls[c] \in CallRecord
  BY DEF RenderTyped
<1>2. PICK mid \in CallRecord : mid = [calls[c] EXCEPT !.stage = "sent"]
  <2>1. [calls[c] EXCEPT !.stage = "sent"] \in CallRecord
    BY <1>1, SMT DEF CallRecord, CallStages
  <2> QED
    BY <2>1
<1>3. PICK new \in CallRecord : new = [mid EXCEPT !.outcome = o]
  <2>1. [mid EXCEPT !.outcome = o] \in CallRecord
    BY SMT DEF CallRecord
  <2> QED
    BY <2>1
<1>4. new.doc = DocOf(c) /\ new.key = calls[c].key /\ new.stage = "sent" /\ new.outcome = o /\ new.row = calls[c].row
  BY <1>1, <1>2, <1>3, SMT DEF CallRecord, DocOf
<1>5. calls' = [calls EXCEPT ![c] = new]
  BY <1>2, <1>3 DEF Turns
<1> QED
  BY <1>4, <1>5 DEF Goes

\* A call that found its artifact expired.
LEMMA AsksAgain ==
    ASSUME RenderTyped, NEW c \in Calls, NEW b \in BOOLEAN,
           Turns(c, [calls[c] EXCEPT !.stage = "asking", !.retried = b, !.row = None])
    PROVE \E new : /\ Goes(c, new) /\ new.stage = "asking"
<1>1. calls[c] \in CallRecord
  BY DEF RenderTyped
<1>2. PICK mid \in CallRecord : mid = [calls[c] EXCEPT !.stage = "asking"]
  <2>1. [calls[c] EXCEPT !.stage = "asking"] \in CallRecord
    BY <1>1, SMT DEF CallRecord, CallStages
  <2> QED
    BY <2>1
<1>3. PICK next \in CallRecord : next = [mid EXCEPT !.retried = b]
  <2>1. [mid EXCEPT !.retried = b] \in CallRecord
    BY SMT DEF CallRecord
  <2> QED
    BY <2>1
<1>4. PICK new \in CallRecord : new = [next EXCEPT !.row = None]
  <2>1. [next EXCEPT !.row = None] \in CallRecord
    BY SMT DEF CallRecord
  <2> QED
    BY <2>1
<1>5. new.doc = DocOf(c) /\ new.key = calls[c].key /\ new.stage = "asking"
  BY <1>1, <1>2, <1>3, <1>4, SMT DEF CallRecord, DocOf
<1>6. calls' = [calls EXCEPT ![c] = new]
  BY <1>2, <1>3, <1>4 DEF Turns
<1> QED
  BY <1>5, <1>6 DEF Goes

\* A call that starts again after its window ended.
LEMMA AsksAnew ==
    ASSUME RenderTyped, NEW c \in Calls, Turns(c, [calls[c] EXCEPT !.stage = "asking", !.row = None])
    PROVE \E new : Goes(c, new) /\ new.stage = "asking"
<1>1. calls[c] \in CallRecord
  BY DEF RenderTyped
<1>2. PICK mid \in CallRecord : mid = [calls[c] EXCEPT !.stage = "asking"]
  <2>1. [calls[c] EXCEPT !.stage = "asking"] \in CallRecord
    BY <1>1, SMT DEF CallRecord, CallStages
  <2> QED
    BY <2>1
<1>3. PICK new \in CallRecord : new = [mid EXCEPT !.row = None]
  <2>1. [mid EXCEPT !.row = None] \in CallRecord
    BY SMT DEF CallRecord
  <2> QED
    BY <2>1
<1>4. new.doc = DocOf(c) /\ new.key = calls[c].key /\ new.stage = "asking"
  BY <1>1, <1>2, <1>3, SMT DEF CallRecord, DocOf
<1>5. calls' = [calls EXCEPT ![c] = new]
  BY <1>2, <1>3 DEF Turns
<1> QED
  BY <1>4, <1>5 DEF Goes

\* A call that is over, one that begins, and one that begins again.
LEMMA FreshCalls ==
    /\ Idle \in CallRecord /\ Idle.stage = "idle" /\ Idle.key = "first" /\ Idle.doc = None
    /\ \A d \in Documents : \E new \in CallRecord :
          /\ new = [Idle EXCEPT !.stage = "asking", !.doc = d]
          /\ new.stage = "asking" /\ new.doc = d /\ new.key = "first"
    /\ \A d \in Documents : \E new \in CallRecord :
          /\ new = [Idle EXCEPT !.stage = "asking", !.doc = d, !.key = "renewal", !.retried = TRUE]
          /\ new.stage = "asking" /\ new.doc = d /\ new.key = "renewal"
<1>1. Idle \in CallRecord /\ Idle.stage = "idle" /\ Idle.key = "first" /\ Idle.doc = None
  BY SMT DEF Idle, CallRecord, CallStages, IntentKeys
<1>2. ASSUME NEW d \in Documents
      PROVE \E new \in CallRecord :
          /\ new = [Idle EXCEPT !.stage = "asking", !.doc = d]
          /\ new.stage = "asking" /\ new.doc = d /\ new.key = "first"
  <2>1. PICK mid : mid = [Idle EXCEPT !.stage = "asking"]
    OBVIOUS
  <2>2. mid \in CallRecord /\ mid.stage = "asking" /\ mid.key = "first"
    BY <1>1, <2>1, SMT DEF CallRecord, CallStages
  <2>3. PICK new : new = [mid EXCEPT !.doc = d]
    OBVIOUS
  <2>4. new \in CallRecord /\ new.stage = "asking" /\ new.doc = d /\ new.key = "first"
    BY <2>2, <2>3, SMT DEF CallRecord
  <2>5. new = [Idle EXCEPT !.stage = "asking", !.doc = d]
    BY <2>1, <2>3
  <2> QED
    BY <2>4, <2>5
<1>3. ASSUME NEW d \in Documents
      PROVE \E new \in CallRecord :
          /\ new = [Idle EXCEPT !.stage = "asking", !.doc = d, !.key = "renewal", !.retried = TRUE]
          /\ new.stage = "asking" /\ new.doc = d /\ new.key = "renewal"
  <2>1. PICK mid \in CallRecord : mid = [Idle EXCEPT !.stage = "asking", !.doc = d] /\ mid.stage = "asking" /\ mid.doc = d
    BY <1>2
  <2>2. [mid EXCEPT !.key = "renewal"] \in CallRecord
    BY SMT DEF CallRecord, IntentKeys
  <2>3. PICK next \in CallRecord : next = [mid EXCEPT !.key = "renewal"]
    BY <2>2
  <2>4. PICK b \in BOOLEAN : b = TRUE
    OBVIOUS
  <2>7. [next EXCEPT !.retried = b] \in CallRecord
    BY SMT DEF CallRecord
  <2>8. PICK new \in CallRecord : new = [next EXCEPT !.retried = b]
    BY <2>7
  <2>5. new.stage = "asking" /\ new.doc = d /\ new.key = "renewal"
    BY <2>1, <2>3, <2>8, SMT DEF CallRecord
  <2>6. new = [Idle EXCEPT !.stage = "asking", !.doc = d, !.key = "renewal", !.retried = TRUE]
    BY <2>1, <2>3, <2>4, <2>8
  <2> QED
    BY <2>5, <2>6
<1> QED
  BY <1>1, <1>2, <1>3

\* A call that begins, on its own.
LEMMA AskedCall ==
    ASSUME NEW d \in Documents
    PROVE  \E new \in CallRecord :
               /\ new = [Idle EXCEPT !.stage = "asking", !.doc = d]
               /\ new.stage = "asking" /\ new.doc = d /\ new.key = "first"
BY FreshCalls

\* An attempt that ends: the others are as they were.
LEMMA SetTryEffect ==
    ASSUME RenderTyped, NEW d \in Documents, NEW n \in DOMAIN tries[d], NEW s \in Tried \ {"running"}, SetTry(d, n, s)
    PROVE /\ tries' \in [Documents -> Seq(TryRecord)]
          /\ \A e \in Documents : DOMAIN tries'[e] = DOMAIN tries[e] /\ Len(tries'[e]) = Len(tries[e])
          /\ \A e \in Documents : \A m : Running(e, m)' <=> Running(e, m) /\ ~(e = d /\ m = n)
<1>1. tries[d] \in Seq(TryRecord) /\ tries[d][n] \in TryRecord
  BY DEF RenderTyped
<1>2. PICK try \in TryRecord : try = [tries[d][n] EXCEPT !.state = s]
  <2>1. [tries[d][n] EXCEPT !.state = s] \in TryRecord
    BY <1>1, SMT DEF TryRecord, Tried
  <2> QED
    BY <2>1
<1>3. try.state = s
  BY <1>1, <1>2, SMT DEF TryRecord
<1>4. PICK new : new = [tries[d] EXCEPT ![n] = try]
  OBVIOUS
<1>5. new \in Seq(TryRecord) /\ Len(new) = Len(tries[d]) /\ DOMAIN new = DOMAIN tries[d]
      /\ \A m \in DOMAIN tries[d] : new[m] = IF m = n THEN try ELSE tries[d][m]
  BY <1>1, <1>4, ExceptSeq
<1>6. tries' = [tries EXCEPT ![d] = new]
  BY <1>2, <1>4 DEF SetTry
<1>7. tries'[d] = new /\ \A e \in Documents \ {d} : tries'[e] = tries[e]
  BY <1>6 DEF RenderTyped
<1>8. tries' \in [Documents -> Seq(TryRecord)]
  BY <1>5, <1>6 DEF RenderTyped
<1>9. \A e \in Documents : DOMAIN tries'[e] = DOMAIN tries[e] /\ Len(tries'[e]) = Len(tries[e])
  BY <1>5, <1>7
<1>10. ASSUME NEW e \in Documents, NEW m PROVE Running(e, m)' <=> Running(e, m) /\ ~(e = d /\ m = n)
  <2>1. CASE e # d
    BY <1>7, <2>1 DEF Running
  <2>2. CASE e = d
    BY <1>3, <1>5, <1>7, <2>2 DEF Running
  <2> QED
    BY <2>1, <2>2
<1> QED
  BY <1>8, <1>9, <1>10

\* An attempt that is added is the last one, and the only one that may run.
Adds(d, old, try) == tries' = [tries EXCEPT ![d] = Append(old, try)]
Added(d, old, try) ==
    /\ tries' \in [Documents -> Seq(TryRecord)]
    /\ \A e \in Documents : DOMAIN tries[e] \subseteq DOMAIN tries'[e]
    /\ Len(tries'[d]) = Len(tries[d]) + 1 /\ Len(tries[d]) + 1 \in DOMAIN tries'[d]
    /\ \A e \in Documents \ {d} : tries'[e] = tries[e]
    /\ \A m : Running(d, m)' <=> \/ m = Len(tries[d]) + 1 /\ try.state = "running"
                                 \/ m \in DOMAIN tries[d] /\ old[m].state = "running"
LEMMA AddedTry ==
    ASSUME RenderTyped, NEW d \in Documents, NEW old \in Seq(TryRecord), NEW try \in TryRecord,
           Len(old) = Len(tries[d]), Adds(d, old, try)
    PROVE Added(d, old, try)
<1> USE DEF Adds
<1>1. tries[d] \in Seq(TryRecord) /\ DOMAIN tries[d] = 1 .. Len(tries[d]) /\ DOMAIN old = 1 .. Len(old)
      /\ Len(old) \in Nat
  BY LenProperties DEF RenderTyped
<1>2. PICK new : new = Append(old, try)
  OBVIOUS
<1>3. new \in Seq(TryRecord) /\ Len(new) = Len(old) + 1 /\ DOMAIN new = 1 .. Len(old) + 1
      /\ new[Len(old) + 1] = try /\ \A m \in 1 .. Len(old) : new[m] = old[m]
  BY <1>1, <1>2, AppendProperties, LenProperties
<1>4. tries'[d] = new /\ \A e \in Documents \ {d} : tries'[e] = tries[e]
  BY <1>2 DEF RenderTyped
<1>5. tries' \in [Documents -> Seq(TryRecord)]
  BY <1>2, <1>3 DEF RenderTyped
<1>6. \A e \in Documents : DOMAIN tries[e] \subseteq DOMAIN tries'[e]
  BY <1>1, <1>3, <1>4
<1>7. Len(tries'[d]) = Len(tries[d]) + 1 /\ Len(tries[d]) + 1 \in DOMAIN tries'[d]
  BY <1>1, <1>3, <1>4
<1>8. ASSUME NEW m
      PROVE Running(d, m)' <=> \/ m = Len(tries[d]) + 1 /\ try.state = "running"
                               \/ m \in DOMAIN tries[d] /\ old[m].state = "running"
  <2>1. Running(d, m)' <=> m \in 1 .. Len(old) + 1 /\ new[m].state = "running"
    BY <1>3, <1>4 DEF Running
  <2> QED
    BY <1>1, <1>3, <2>1
<1> QED
  BY <1>4, <1>5, <1>6, <1>7, <1>8 DEF Added

\* Abandoned attempts do not run.
LEMMA AbandonedRunsNot ==
    ASSUME RenderTyped, NEW d \in Documents
    PROVE Abandoned(d) \in Seq(TryRecord) /\ Len(Abandoned(d)) = Len(tries[d])
          /\ \A m \in DOMAIN tries[d] : Abandoned(d)[m].state # "running"
<1>1. PICK k \in Nat : tries[d] \in [1 .. k -> TryRecord] /\ DOMAIN tries[d] = 1 .. k /\ Len(tries[d]) = k
  <2>1. tries[d] \in Seq(TryRecord)
    BY DEF RenderTyped
  <2> QED
    BY <2>1, LenProperties
<1>2. ASSUME NEW m \in 1 .. k
      PROVE Abandoned(d)[m] \in TryRecord /\ Abandoned(d)[m].state # "running"
  <2>1. tries[d][m] \in TryRecord
    BY <1>1
  <2>2. CASE Running(d, m)
    <3>1. PICK try : try = [tries[d][m] EXCEPT !.state = "abandoned"]
      OBVIOUS
    <3>2. try \in TryRecord /\ try.state = "abandoned"
      BY <2>1, <3>1, SMT DEF TryRecord, Tried
    <3>3. Abandoned(d)[m] = try
      BY <1>1, <2>2, <3>1 DEF Abandoned
    <3> QED
      BY <3>2, <3>3
  <2>3. CASE ~Running(d, m)
    BY <1>1, <2>1, <2>3 DEF Abandoned, Running
  <2> QED
    BY <2>2, <2>3
<1>3. Abandoned(d) = [m \in 1 .. k |-> Abandoned(d)[m]]
  BY <1>1 DEF Abandoned
<1>4. Abandoned(d) \in [1 .. k -> TryRecord]
  BY <1>2, <1>3
<1>5. Abandoned(d) \in Seq(TryRecord) /\ Len(Abandoned(d)) = k
  BY <1>4, LenProperties, SMT
<1> QED
  BY <1>1, <1>2, <1>5
-------------------------------------------------------------------------------
(* Attempts and rows: one step.                                            *)

\* A call that is not part of a step keeps what it relies on.
LEMMA OtherCall ==
    ASSUME NEW e, CallSound(e), calls'[e] = calls[e],
           \A d \in Documents : DOMAIN tries[d] \subseteq DOMAIN tries'[d],
           calls[e].stage \in {"publishing", "linked"} => Running(DocOf(e), calls[e].attempt)',
           At(e, "linked") => ~renders'[calls[e].row].present,
           \A r \in Renders : renders[r].present => renders'[r].present,
           \A a \in Artifacts : artifacts[a].referenced # None => artifacts'[a].referenced # None
    PROVE CallSound(e)'
<1>1. DocOf(e)' = DocOf(e) /\ calls'[e] = calls[e]
  BY DEF DocOf
<1>2. ~At(e, "idle") => DocOf(e) \in Documents
  BY DEF CallSound
<1>3. calls[e].stage \in {"rendering", "failing", "publishing", "linked"} =>
          calls[e].attempt \in DOMAIN tries'[DocOf(e)] /\ SourceOf[DocOf(e)] = None
  BY <1>2 DEF CallSound, At
<1>4. At(e, "passing") => /\ SourceOf[DocOf(e)] # None
                          /\ artifacts'[SourceOf[DocOf(e)]].referenced # None
  BY <1>2, RenderAssumption DEF CallSound, At
<1>5. calls[e].stage \in Answered => calls[e].row \in Renders /\ renders'[calls[e].row].present
  BY DEF CallSound
<1>6. calls[e].stage \in {"publishing", "linked"} => Running(DocOf(e), calls[e].attempt)'
  OBVIOUS
<1>7. At(e, "linked") => calls[e].row \in Renders /\ ~renders'[calls[e].row].present
  BY DEF CallSound
<1>8. calls'[e].stage \in {"publishing", "linked"} => Running(DocOf(e), calls[e].attempt)'
  BY <1>1, <1>6
<1> QED
  BY <1>1, <1>2, <1>3, <1>4, <1>5, <1>7, <1>8 DEF CallSound, At, Running, DocOf

\* A step of one call keeps the invariant when what it does to attempts and rows
\* is sound and it takes the record's lock, or a row, only while it is free.
LEMMA CallStep ==
    ASSUME RenderInv, RenderTyped', NEW c \in Calls,
           \A e \in Calls \ {c} : calls'[e] = calls[e],
           \A a \in Artifacts : artifacts[a].referenced # None => artifacts'[a].referenced # None,
           \A d \in Documents : DOMAIN tries[d] \subseteq DOMAIN tries'[d],
           \A e \in Calls \ {c} : calls[e].stage \in {"publishing", "linked"} =>
                                     Running(DocOf(e), calls[e].attempt)',
           \A e \in Calls \ {c} : At(e, "linked") => ~renders'[calls[e].row].present,
           \A r \in Renders : renders[r].present => renders'[r].present,
           \A d \in Documents : TriesSound(d)', \A r \in Renders : RowSound(r)',
           CallSound(c)',
           calls'[c].stage \in Publishing =>
               \/ calls[c].stage \in Publishing /\ calls'[c].doc = calls[c].doc
               \/ RecordFree(calls'[c].doc),
           calls'[c].stage = "linked" =>
               \/ calls[c].stage = "linked" /\ calls'[c].row = calls[c].row
               \/ \A e \in Calls : calls[e].row # calls'[c].row
    PROVE RenderInv'
<1>1. \A e \in Calls : CallSound(e)'
  BY OtherCall DEF RenderInv
<1>2. Exclusive'
  <2> SUFFICES ASSUME NEW e \in Calls \ {c}
               PROVE /\ calls'[c].stage \in Publishing /\ calls[e].stage \in Publishing
                           => calls'[c].doc # calls[e].doc
                     /\ calls'[c].stage = "linked" /\ calls[e].stage = "linked" => calls'[c].row # calls[e].row
    BY DEF RenderInv, Exclusive, DocOf, At
  <2> QED
    BY DEF RenderInv, Exclusive, RecordFree, DocOf, At, Publishing
<1> QED
  BY <1>1, <1>2 DEF RenderInv

\* Most steps change one call and nothing a call, an attempt or a row relies on.
LEMMA OnlyCallStep ==
    ASSUME RenderInv, RenderTyped', NEW c \in Calls,
           \A e \in Calls \ {c} : calls'[e] = calls[e],
           UNCHANGED <<tries, renders, deleting, artifacts>>,
           CallSound(c)',
           calls'[c].stage \in Publishing =>
               \/ calls[c].stage \in Publishing /\ calls'[c].doc = calls[c].doc
               \/ RecordFree(calls'[c].doc),
           calls'[c].stage = "linked" =>
               \/ calls[c].stage = "linked" /\ calls'[c].row = calls[c].row
               \/ \A e \in Calls : calls[e].row # calls'[c].row
    PROVE RenderInv'
<1>1. \A d \in Documents : \A m : Running(d, m)' = Running(d, m)
  BY DEF Running
<1>2. \A e \in Calls \ {c} : CallSound(e)
  BY DEF RenderInv
<1>3. \A e \in Calls \ {c} : /\ calls[e].stage \in {"publishing", "linked"} => Running(DocOf(e), calls[e].attempt)'
                             /\ At(e, "linked") => ~renders'[calls[e].row].present
  <2> SUFFICES ASSUME NEW e \in Calls \ {c}
               PROVE /\ calls[e].stage \in {"publishing", "linked"} => Running(DocOf(e), calls[e].attempt)'
                     /\ At(e, "linked") => ~renders'[calls[e].row].present
    OBVIOUS
  <2>1. calls[e].stage \in {"publishing", "linked"} => Running(DocOf(e), calls[e].attempt)
    BY <1>2 DEF CallSound
  <2>2. At(e, "linked") => ~renders[calls[e].row].present
    BY <1>2 DEF CallSound
  <2> QED
    BY <2>1, <2>2 DEF Running, DocOf
<1>4. \A d \in Documents : TriesSound(d)'
  BY DEF RenderInv, TriesSound, Running
<1>5. \A r \in Renders : RowSound(r)'
  BY DEF RenderInv, RowSound, Running
<1> QED
  BY <1>3, <1>4, <1>5, CallStep

\* The other calls do not move.
LEMMA Turned ==
    ASSUME RenderTyped, NEW c \in Calls, NEW new \in CallRecord, calls' = [calls EXCEPT ![c] = new]
    PROVE calls' \in [Calls -> CallRecord] /\ calls'[c] = new /\ \A e \in Calls \ {c} : calls'[e] = calls[e]
BY DEF RenderTyped

\* A call that ends relies on nothing.
LEMMA DropStep ==
    ASSUME RenderInv, NEW c \in Calls, Drop(c),
           UNCHANGED <<window, documents, tries, renders, deleting, artifacts, intents, sends>>
    PROVE RenderInv'
<1>1. calls' = [calls EXCEPT ![c] = Idle]
  BY DEF Drop, Turns
<1>2. /\ calls' \in [Calls -> CallRecord] /\ calls'[c] = Idle
      /\ \A e \in Calls \ {c} : calls'[e] = calls[e]
  BY <1>1, FreshCalls, Turned DEF RenderInv
<1>3. RenderTyped'
  BY <1>2 DEF RenderInv, RenderTyped
<1>4. CallSound(c)' /\ calls'[c].stage \notin Publishing
  BY <1>2, FreshCalls DEF CallSound, At, Publishing, Answered
<1> QED
  BY <1>2, <1>3, <1>4, FreshCalls, OnlyCallStep

\* A new call relies on nothing but its document.
LEMMA AskStep ==
    ASSUME RenderInv, NEW c \in Calls, NEW d \in Documents, Ask(c, d)
    PROVE RenderInv'
<1>1. PICK new \in CallRecord : /\ new.stage = "asking" /\ new.doc = d
                                /\ calls' = [calls EXCEPT ![c] = new]
  <2>1. PICK new \in CallRecord : /\ new = [Idle EXCEPT !.stage = "asking", !.doc = d]
                                  /\ new.stage = "asking" /\ new.doc = d /\ new.key = "first"
    BY AskedCall
  <2>2. calls' = [calls EXCEPT ![c] = [Idle EXCEPT !.stage = "asking", !.doc = d]]
    BY DEF Ask, Turns
  <2>3. calls' = [calls EXCEPT ![c] = new]
    BY <2>1, <2>2
  <2> QED
    BY <2>1, <2>3
<1>2. UNCHANGED <<window, documents, tries, renders, deleting, artifacts, intents, sends>>
  BY DEF Ask, OnlyCalls
<1>3. /\ calls' \in [Calls -> CallRecord] /\ calls'[c] = new
      /\ \A e \in Calls \ {c} : calls'[e] = calls[e]
  BY <1>1, Turned DEF RenderInv
<1>4. RenderTyped'
  BY <1>2, <1>3 DEF RenderInv, RenderTyped
<1>5. CallSound(c)' /\ calls'[c].stage \notin Publishing
  BY <1>1, <1>3 DEF CallSound, At, DocOf, Publishing, Answered
<1> QED
  BY <1>1, <1>2, <1>3, <1>4, <1>5, OnlyCallStep

\* A reused row is there.
LEMMA ReuseStep ==
    ASSUME RenderInv, NEW c \in Calls, Reuse(c)
    PROVE RenderInv'
<1>1. PICK r \in Renders : renders[r].present /\ Turns(c, [calls[c] EXCEPT !.stage = "received", !.row = r])
  BY DEF Reuse, Reusable
<1>2. PICK new : Goes(c, new) /\ new.stage = "received" /\ new.row = r
  BY <1>1, Receives DEF RenderInv
<1>3. UNCHANGED <<window, documents, tries, renders, deleting, artifacts, intents, sends>> /\ At(c, "asking")
  BY DEF Reuse, OnlyCalls
<1>4. /\ calls' \in [Calls -> CallRecord] /\ calls'[c] = new
      /\ \A e \in Calls \ {c} : calls'[e] = calls[e]
  BY <1>2, Turned DEF RenderInv, Goes
<1>5. RenderTyped'
  BY <1>3, <1>4 DEF RenderInv, RenderTyped
<1>6. DocOf(c) \in Documents
  BY <1>3 DEF RenderInv, CallSound, At
<1>7. CallSound(c)' /\ calls'[c].stage \notin Publishing
  BY <1>1, <1>2, <1>3, <1>4, <1>6 DEF CallSound, At, DocOf, Goes, Publishing, Answered
<1> QED
  BY <1>2, <1>3, <1>4, <1>5, <1>7, OnlyCallStep

\* The fence: the attempt runs and the record is free.
LEMMA PublishBeginStep ==
    ASSUME RenderInv, NEW c \in Calls, PublishBegin(c)
    PROVE RenderInv'
<1>1. PICK new : /\ Goes(c, new) /\ new.stage = "publishing" /\ new.attempt = calls[c].attempt
  BY Moves DEF PublishBegin, RenderInv, CallStages
<1>2. UNCHANGED <<window, documents, tries, renders, deleting, artifacts, intents, sends>>
      /\ At(c, "rendering") /\ RecordFree(DocOf(c)) /\ Running(DocOf(c), calls[c].attempt)
  BY DEF PublishBegin, OnlyCalls
<1>3. /\ calls' \in [Calls -> CallRecord] /\ calls'[c] = new
      /\ \A e \in Calls \ {c} : calls'[e] = calls[e]
  BY <1>1, Turned DEF RenderInv, Goes
<1>4. RenderTyped'
  BY <1>2, <1>3 DEF RenderInv, RenderTyped
<1>5. DocOf(c) \in Documents /\ calls[c].attempt \in DOMAIN tries[DocOf(c)] /\ SourceOf[DocOf(c)] = None
  BY <1>2 DEF RenderInv, CallSound, At
<1>6. CallSound(c)'
  BY <1>1, <1>2, <1>3, <1>5 DEF CallSound, At, DocOf, Running, Goes, Answered
<1> QED
  BY <1>1, <1>2, <1>3, <1>4, <1>6, OnlyCallStep DEF Goes

\* A pass-through found the mark of a completion.
LEMMA PassBeginStep ==
    ASSUME RenderInv, NEW c \in Calls, PassBegin(c)
    PROVE RenderInv'
<1>1. PICK new : /\ Goes(c, new) /\ new.stage = "passing"
  BY Moves DEF PassBegin, RenderInv, CallStages
<1>2. UNCHANGED <<window, documents, tries, renders, deleting, artifacts, intents, sends>>
      /\ At(c, "asking") /\ RecordFree(DocOf(c)) /\ SourceOf[DocOf(c)] # None
      /\ artifacts[SourceOf[DocOf(c)]].referenced # None
  BY DEF PassBegin, OnlyCalls
<1>3. /\ calls' \in [Calls -> CallRecord] /\ calls'[c] = new
      /\ \A e \in Calls \ {c} : calls'[e] = calls[e]
  BY <1>1, Turned DEF RenderInv, Goes
<1>4. RenderTyped'
  BY <1>2, <1>3 DEF RenderInv, RenderTyped
<1>5. DocOf(c) \in Documents
  BY <1>2 DEF RenderInv, CallSound, At
<1>6. CallSound(c)'
  BY <1>1, <1>2, <1>3, <1>5 DEF CallSound, At, DocOf, Goes, Answered
<1> QED
  BY <1>1, <1>2, <1>3, <1>4, <1>6, OnlyCallStep DEF Goes

\* A failed rendering is marked in a later step.
LEMMA RenderFailsStep ==
    ASSUME RenderInv, NEW c \in Calls, RenderFails(c)
    PROVE RenderInv'
<1>0. UNCHANGED <<window, documents, tries, renders, deleting, artifacts, intents, sends>> /\ At(c, "rendering")
  BY DEF RenderFails, OnlyCalls
<1>a. CASE Drop(c)
  BY <1>a, <1>0, DropStep
<1>b. CASE Move(c, "failing")
  <2>1. PICK new : /\ Goes(c, new) /\ new.stage = "failing" /\ new.attempt = calls[c].attempt
    BY <1>b, Moves DEF RenderInv, CallStages
  <2>2. /\ calls' \in [Calls -> CallRecord] /\ calls'[c] = new
        /\ \A e \in Calls \ {c} : calls'[e] = calls[e]
    BY <2>1, Turned DEF RenderInv, Goes
  <2>3. RenderTyped'
    BY <1>0, <2>2 DEF RenderInv, RenderTyped
  <2>4. DocOf(c) \in Documents /\ calls[c].attempt \in DOMAIN tries[DocOf(c)] /\ SourceOf[DocOf(c)] = None
    BY <1>0 DEF RenderInv, CallSound, At
  <2>5. CallSound(c)' /\ calls'[c].stage \notin Publishing
    BY <1>0, <2>1, <2>2, <2>4 DEF CallSound, At, DocOf, Goes, Answered, Publishing
  <2> QED
    BY <1>0, <2>1, <2>2, <2>3, <2>5, OnlyCallStep
<1> QED
  BY <1>a, <1>b DEF RenderFails

\* The row to be inserted is new.
LEMMA PublishFileStep ==
    ASSUME RenderInv, NEW c \in Calls, NEW r \in Renders, NEW x \in Digests, PublishFile(c, r, x)
    PROVE RenderInv'
<1>1. PICK new : Goes(c, new) /\ new.stage = "linked" /\ new.row = r /\ new.attempt = calls[c].attempt
  BY Links DEF PublishFile, RenderInv
<1>2. UNCHANGED <<window, documents, tries, renders, deleting, artifacts, intents, sends>>
      /\ At(c, "publishing") /\ FreshRow(r)
  BY DEF PublishFile
<1>3. /\ calls' \in [Calls -> CallRecord] /\ calls'[c] = new
      /\ \A e \in Calls \ {c} : calls'[e] = calls[e]
  BY <1>1, Turned DEF RenderInv, Goes
<1>4. RenderTyped'
  BY <1>2, <1>3 DEF RenderInv, RenderTyped
<1>5. /\ DocOf(c) \in Documents /\ calls[c].attempt \in DOMAIN tries[DocOf(c)] /\ SourceOf[DocOf(c)] = None
      /\ Running(DocOf(c), calls[c].attempt)
  BY <1>2 DEF RenderInv, CallSound, At
<1>6. CallSound(c)'
  BY <1>1, <1>2, <1>3, <1>5 DEF CallSound, At, DocOf, Goes, Running, Answered, FreshRow
<1> QED
  BY <1>1, <1>2, <1>3, <1>4, <1>6, OnlyCallStep DEF Goes, FreshRow, At, DocOf, Publishing

\* An attempt ends failed: nobody else publishes its document.
LEMMA FailedTry ==
    ASSUME RenderInv, NEW c \in Calls, NEW new \in CallRecord, new.stage \in {"idle", "asking"},
           new.stage = "asking" => new.doc = DocOf(c),
           calls[c].stage \in {"rendering", "failing", "publishing", "linked"},
           calls' = [calls EXCEPT ![c] = new],
           SetTry(DocOf(c), calls[c].attempt, "failed"),
           documents' = [documents EXCEPT ![DocOf(c)] = "failed"],
           calls[c].stage \in Publishing \/ RecordFree(DocOf(c)),
           UNCHANGED <<window, renders, deleting, artifacts, intents, sends>>
    PROVE RenderInv'
<1> DEFINE d == DocOf(c)  n == calls[c].attempt
<1>1. d \in Documents /\ n \in DOMAIN tries[d]
  BY DEF RenderInv, CallSound, At
<1>2. /\ tries' \in [Documents -> Seq(TryRecord)]
      /\ \A e \in Documents : DOMAIN tries'[e] = DOMAIN tries[e] /\ Len(tries'[e]) = Len(tries[e])
      /\ \A e \in Documents : \A m : Running(e, m)' <=> Running(e, m) /\ ~(e = d /\ m = n)
  BY <1>1, SetTryEffect DEF RenderInv, Tried
<1>3. /\ calls' \in [Calls -> CallRecord] /\ calls'[c] = new
      /\ \A e \in Calls \ {c} : calls'[e] = calls[e]
  BY Turned DEF RenderInv
<1>4. RenderTyped'
  BY <1>2, <1>3 DEF RenderInv, RenderTyped
<1>5. CallSound(c)'
  BY <1>1, <1>3 DEF CallSound, At, DocOf, Answered
<1>6. ASSUME NEW e \in Calls \ {c}, calls[e].stage \in {"publishing", "linked"}
      PROVE Running(DocOf(e), calls[e].attempt)'
  <2>1. DocOf(e) # d
    BY <1>6 DEF RenderInv, Exclusive, RecordFree, Publishing
  <2>2. Running(DocOf(e), calls[e].attempt) /\ DocOf(e) \in Documents
    BY <1>6 DEF RenderInv, CallSound, At
  <2>3. PICK m, x : m = calls[e].attempt /\ x = DocOf(e)
    OBVIOUS
  <2>4. Running(x, m)'
    BY <1>2, <2>1, <2>2, <2>3
  <2> QED
    BY <1>3, <2>3, <2>4 DEF DocOf
<1>7. ASSUME NEW e \in Calls \ {c}, At(e, "linked") PROVE ~renders'[calls[e].row].present
  BY <1>7 DEF RenderInv, CallSound
<1>8. \A x \in Documents : TriesSound(x)'
  BY <1>2 DEF RenderInv, TriesSound
<1>9. \A r \in Renders : RowSound(r)'
  <2> SUFFICES ASSUME NEW r \in Renders PROVE RowSound(r)'
    OBVIOUS
  <2>1. PICK row, x, m : row = renders[r] /\ x = row.doc /\ m = row.attempt
    OBVIOUS
  <2>2. RowSound(r) /\ renders'[r] = row
    BY <2>1 DEF RenderInv
  <2>3. row.present => x \in Documents /\ m \in DOMAIN tries[x] /\ ~Running(x, m)
    BY <2>1, <2>2 DEF RowSound
  <2>4. row.present => x \in Documents /\ m \in DOMAIN tries'[x] /\ ~Running(x, m)'
    BY <1>2, <2>3
  <2> QED
    BY <2>1, <2>2, <2>4 DEF RowSound
<1> QED
  BY <1>2, <1>3, <1>4, <1>5, <1>6, <1>7, <1>8, <1>9, CallStep DEF Publishing

\* The window changed: the attempt failed and the call asks again.
LEMMA ThemeChangedStep ==
    ASSUME RenderInv, NEW c \in Calls, ThemeChanged(c)
    PROVE RenderInv'
<1>1. PICK new : Goes(c, new) /\ new.stage = "asking"
  BY AsksAnew DEF ThemeChanged, RenderInv
<1> QED
  BY <1>1, FailedTry DEF ThemeChanged, Goes, At, Publishing

\* The renderer failed.
LEMMA MarkFailedStep ==
    ASSUME RenderInv, NEW c \in Calls, MarkFailed(c)
    PROVE RenderInv'
BY FreshCalls, FailedTry DEF MarkFailed, Drop, Turns, At

\* The store refused the file.
LEMMA PublishFailsStep ==
    ASSUME RenderInv, NEW c \in Calls, PublishFails(c)
    PROVE RenderInv'
BY FreshCalls, FailedTry DEF PublishFails, Drop, Turns, Publishing

\* A new attempt: the ones before it do not run any more, and no row is theirs.
LEMMA BeginAttemptStep ==
    ASSUME RenderInv, StoreInv, NEW c \in Calls, BeginAttempt(c)
    PROVE RenderInv'
<1>1. PICK d \in Documents, n \in Nat : d = DocOf(c) /\ n = Len(tries[d]) + 1
  <2>1. DocOf(c) \in Documents
    BY DEF RenderInv, CallSound, BeginAttempt, At
  <2>2. Len(tries[DocOf(c)]) \in Nat
    BY <2>1, LenProperties DEF RenderInv, RenderTyped
  <2> QED
    BY <2>1, <2>2
<1>2. PICK try \in TryRecord : /\ try.state = "running"
                               /\ tries' = [tries EXCEPT ![d] = Append(Abandoned(d), try)]
  <2>1. PICK l \in Nat : l = now + RenderLease
    BY RenderAssumption DEF StoreInv, StoreTypeOK
  <2>2. PICK try : try = [state |-> "running", lease |-> l, window |-> window]
    OBVIOUS
  <2>3. try \in TryRecord /\ try.state = "running"
    BY <2>2 DEF TryRecord, Tried, RenderInv, RenderTyped
  <2> QED
    BY <1>1, <2>1, <2>2, <2>3 DEF BeginAttempt
<1>3. PICK new : Goes(c, new) /\ new.stage = "rendering" /\ new.attempt = n
  <2>1. Turns(c, [calls[c] EXCEPT !.stage = "rendering", !.attempt = n])
    BY <1>1 DEF BeginAttempt
  <2> QED
    BY <2>1, StartsRendering DEF RenderInv
<1>4. /\ UNCHANGED <<window, renders, deleting, artifacts, intents, sends>>
      /\ documents' = [documents EXCEPT ![d] = "pending"]
      /\ RecordFree(d) /\ SourceOf[d] = None
  BY <1>1 DEF BeginAttempt
<1>5. /\ calls' \in [Calls -> CallRecord] /\ calls'[c] = new
      /\ \A e \in Calls \ {c} : calls'[e] = calls[e]
  BY <1>3, Turned DEF RenderInv, Goes
<1>6. /\ tries' \in [Documents -> Seq(TryRecord)]
      /\ \A e \in Documents : DOMAIN tries[e] \subseteq DOMAIN tries'[e]
      /\ Len(tries'[d]) = n /\ n \in DOMAIN tries'[d]
      /\ \A e \in Documents \ {d} : tries'[e] = tries[e]
      /\ \A m : Running(d, m)' <=> m = n
  <2>1. PICK old \in Seq(TryRecord) : /\ old = Abandoned(d) /\ Len(old) = Len(tries[d])
                                      /\ \A m \in DOMAIN tries[d] : old[m].state # "running"
    BY AbandonedRunsNot DEF RenderInv
  <2>2. tries' = [tries EXCEPT ![d] = Append(old, try)]
    BY <1>2, <2>1
  <2>3. RenderTyped /\ Len(old) = Len(tries[d])
    BY <2>1 DEF RenderInv
  <2>4. Added(d, old, try)
    BY <1>1, <1>2, <2>2, <2>3, AddedTry DEF Adds
  <2>5. ASSUME NEW m PROVE Running(d, m)' <=> m = n
    BY <1>1, <1>2, <2>1, <2>4 DEF Added
  <2> QED
    BY <1>1, <2>4, <2>5 DEF Added
<1>7. RenderTyped'
  BY <1>4, <1>5, <1>6 DEF RenderInv, RenderTyped
<1>8. CallSound(c)'
  BY <1>1, <1>3, <1>4, <1>5, <1>6 DEF CallSound, At, DocOf, Goes, Answered
<1>9. ASSUME NEW e \in Calls \ {c}, calls[e].stage \in {"publishing", "linked"}
      PROVE Running(DocOf(e), calls[e].attempt)'
  <2>1. DocOf(e) # d
    BY <1>4, <1>9 DEF RecordFree
  <2>2. Running(DocOf(e), calls[e].attempt) /\ DocOf(e) \in Documents
    BY <1>9 DEF RenderInv, CallSound, At
  <2>3. tries'[DocOf(e)] = tries[DocOf(e)]
    BY <1>6, <2>1, <2>2
  <2> QED
    BY <1>5, <2>2, <2>3 DEF DocOf, Running
<1>10. ASSUME NEW e \in Calls \ {c}, At(e, "linked") PROVE ~renders'[calls[e].row].present
  BY <1>4, <1>10 DEF RenderInv, CallSound
<1>11. \A x \in Documents : TriesSound(x)'
  BY <1>4, <1>6 DEF RenderInv, TriesSound, Running
<1>12. \A r \in Renders : RowSound(r)'
  <2> SUFFICES ASSUME NEW r \in Renders PROVE RowSound(r)'
    OBVIOUS
  <2>1. PICK row, x, m : row = renders[r] /\ x = row.doc /\ m = row.attempt
    OBVIOUS
  <2>2. RowSound(r) /\ renders'[r] = row
    BY <1>4, <2>1 DEF RenderInv
  <2>3. row.present => x \in Documents /\ m \in DOMAIN tries[x] /\ ~Running(x, m)
    BY <2>1, <2>2 DEF RowSound
  <2>4. row.present /\ x = d => m # n
    <3>1. DOMAIN tries[d] = 1 .. Len(tries[d]) /\ Len(tries[d]) \in Nat
      BY LenProperties DEF RenderInv, RenderTyped
    <3> QED
      BY <1>1, <2>3, <3>1
  <2>5. row.present => x \in Documents /\ m \in DOMAIN tries'[x] /\ ~Running(x, m)'
    BY <1>6, <2>3, <2>4 DEF Running
  <2> QED
    BY <1>4, <2>1, <2>2, <2>5 DEF RowSound
<1> QED
  BY <1>3, <1>4, <1>5, <1>6, <1>7, <1>8, <1>9, <1>10, <1>11, <1>12, CallStep DEF Publishing

\* A row is inserted: it is new, and the attempt it came from is over and last.
LEMMA PublishCommitStep ==
    ASSUME RenderInv, StoreInv, NEW c \in Calls, PublishCommit(c)
    PROVE RenderInv'
<1>1. PICK d, n, r : d = DocOf(c) /\ n = calls[c].attempt /\ r = calls[c].row
  OBVIOUS
<1>2. /\ At(c, "linked") /\ d \in Documents /\ n \in DOMAIN tries[d] /\ SourceOf[d] = None
      /\ Running(d, n) /\ r \in Renders /\ ~renders[r].present
  BY <1>1 DEF PublishCommit, RenderInv, CallSound, At
<1>3. PICK row : /\ row.present /\ row.doc = d /\ row.attempt = n /\ row \in RenderRecord
                 /\ renders' = [renders EXCEPT ![r] = row]
  <2>1. PICK w \in Nat, x \in Digests \cup {None}, e \in Nat :
            w = tries[d][n].window /\ x = calls[c].digest /\ e = now + RenderTTL
    <3>1. tries[d] \in Seq(TryRecord)
      BY <1>2 DEF RenderInv, RenderTyped
    <3>2. tries[d][n] \in TryRecord
      BY <1>2, <3>1, ElementOfSeq, LenProperties
    <3>3. tries[d][n].window \in Nat
      BY <3>2 DEF TryRecord
    <3>4. calls[c].digest \in Digests \cup {None}
      BY DEF RenderInv, RenderTyped, CallRecord
    <3>5. now + RenderTTL \in Nat
      BY RenderAssumption DEF StoreInv, StoreTypeOK
    <3> QED
      BY <3>3, <3>4, <3>5
  <2>2. PICK row : row = [present |-> TRUE, digest |-> x, doc |-> d, attempt |-> n, window |-> w,
                          expires |-> e, deleted |-> FALSE]
    OBVIOUS
  <2>3. n \in Nat
    BY <1>1 DEF RenderInv, RenderTyped, CallRecord
  <2>4. row.present /\ row.doc = d /\ row.attempt = n /\ row \in RenderRecord
    BY <1>2, <2>2, <2>3 DEF RenderRecord
  <2> QED
    BY <1>1, <2>1, <2>2, <2>4 DEF PublishCommit
<1>4. /\ tries' \in [Documents -> Seq(TryRecord)]
      /\ \A e \in Documents : DOMAIN tries'[e] = DOMAIN tries[e] /\ Len(tries'[e]) = Len(tries[e])
      /\ \A e \in Documents : \A m : Running(e, m)' <=> Running(e, m) /\ ~(e = d /\ m = n)
  <2>1. SetTry(d, n, "succeeded")
    BY <1>1 DEF PublishCommit
  <2> QED
    BY <1>2, <2>1, SetTryEffect DEF RenderInv, Tried
<1>5. PICK new : Goes(c, new) /\ new.stage = "received" /\ new.row = r
  BY <1>1, Moves DEF PublishCommit, RenderInv, CallStages
<1>6. /\ UNCHANGED <<window, deleting, artifacts, intents, sends>>
      /\ documents' = [documents EXCEPT ![d] = "succeeded"]
  BY <1>1 DEF PublishCommit
<1>7. /\ calls' \in [Calls -> CallRecord] /\ calls'[c] = new
      /\ \A e \in Calls \ {c} : calls'[e] = calls[e]
  BY <1>5, Turned DEF RenderInv, Goes
<1>8. renders'[r] = row /\ \A q \in Renders \ {r} : renders'[q] = renders[q]
  BY <1>2, <1>3 DEF RenderInv, RenderTyped
<1>9. RenderTyped'
  BY <1>3, <1>4, <1>6, <1>7 DEF RenderInv, RenderTyped
<1>10. CallSound(c)'
  BY <1>1, <1>2, <1>3, <1>5, <1>7, <1>8 DEF CallSound, At, DocOf, Goes, Answered
<1>11. ASSUME NEW e \in Calls \ {c}, calls[e].stage \in {"publishing", "linked"}
       PROVE Running(DocOf(e), calls[e].attempt)'
  <2>1. DocOf(e) # d
    BY <1>1, <1>2, <1>11 DEF RenderInv, Exclusive, Publishing, At
  <2>2. Running(DocOf(e), calls[e].attempt) /\ DocOf(e) \in Documents
    BY <1>11 DEF RenderInv, CallSound, At
  <2>3. PICK m, x : m = calls[e].attempt /\ x = DocOf(e)
    OBVIOUS
  <2>4. Running(x, m)'
    BY <1>4, <2>1, <2>2, <2>3
  <2> QED
    BY <1>7, <2>3, <2>4 DEF DocOf
<1>12. ASSUME NEW e \in Calls \ {c}, At(e, "linked") PROVE ~renders'[calls[e].row].present
  <2>1. calls[e].row \in Renders /\ ~renders[calls[e].row].present /\ calls[e].row # r
    BY <1>1, <1>2, <1>12 DEF RenderInv, CallSound, Exclusive
  <2> QED
    BY <1>8, <2>1
<1>13. \A x \in Documents : TriesSound(x)'
  BY <1>4 DEF RenderInv, TriesSound
<1>14. ASSUME NEW q \in Renders PROVE RowSound(q)'
  <2>1. CASE q = r
    <3>1. ~Running(d, n)' /\ n \in DOMAIN tries'[d]
      BY <1>2, <1>4
    <3>2. deleting[r] = "idle"
      BY <1>2 DEF RenderInv, RowSound
    <3> QED
      BY <1>2, <1>3, <1>6, <1>8, <2>1, <3>1, <3>2 DEF RowSound
  <2>2. CASE q # r
    <3>1. PICK old, x, m : old = renders[q] /\ x = old.doc /\ m = old.attempt
      OBVIOUS
    <3>2. RowSound(q) /\ renders'[q] = old
      BY <1>8, <2>2, <3>1 DEF RenderInv
    <3>3. old.present => x \in Documents /\ m \in DOMAIN tries[x] /\ ~Running(x, m)
      BY <3>1, <3>2 DEF RowSound
    <3>4. old.present => x \in Documents /\ m \in DOMAIN tries'[x] /\ ~Running(x, m)'
      BY <1>4, <3>3
    <3> QED
      BY <1>6, <3>1, <3>2, <3>4 DEF RowSound
  <2> QED
    BY <2>1, <2>2
<1>15. \A q \in Renders : renders[q].present => renders'[q].present
  BY <1>3, <1>8
<1> QED
  BY <1>4, <1>5, <1>6, <1>7, <1>9, <1>10, <1>11, <1>12, <1>13, <1>14, <1>15, CallStep DEF Publishing

\* A pass-through adds an attempt that is over, and its row.
LEMMA PassCommitStep ==
    ASSUME RenderInv, StoreInv, NEW c \in Calls, NEW r \in Renders, PassCommit(c, r)
    PROVE RenderInv'
<1>1. PICK d, n : d = DocOf(c) /\ n = Len(tries[d]) + 1
  OBVIOUS
<1>2. /\ At(c, "passing") /\ d \in Documents /\ SourceOf[d] \in Artifacts
      /\ artifacts[SourceOf[d]].referenced # None /\ FreshRow(r)
  BY <1>1, RenderAssumption DEF PassCommit, RenderInv, CallSound, At
<1>3. DOMAIN tries[d] = 1 .. Len(tries[d]) /\ Len(tries[d]) \in Nat /\ n \in Nat
  BY <1>1, <1>2, LenProperties DEF RenderInv, RenderTyped
<1>4. PICK row : /\ row.present /\ row.doc = d /\ row.attempt = n /\ row \in RenderRecord
                 /\ renders' = [renders EXCEPT ![r] = row]
  <2>1. artifacts[SourceOf[d]] \in ArtifactRecord
    BY <1>2 DEF StoreInv, ToolTypeOK
  <2>2. PICK x \in Digests \cup {None}, m \in Nat : x = artifacts[SourceOf[d]].digest /\ m = artifacts[SourceOf[d]].referenced
    BY <1>2, <2>1 DEF ArtifactRecord
  <2>3. PICK k \in Nat, e \in Nat : k = m + Retention /\ e = now + RenderTTL
    BY ToolArtifactsAssumption, RenderAssumption DEF StoreInv, StoreTypeOK
  <2>4. PICK f \in Nat : f = IF k < e THEN k ELSE e
    OBVIOUS
  <2>5. PICK row : row = [present |-> TRUE, digest |-> x, doc |-> d, attempt |-> n, window |-> None,
                          deleted |-> FALSE, expires |-> f]
    OBVIOUS
  <2>6. row.present /\ row.doc = d /\ row.attempt = n /\ row \in RenderRecord
    BY <1>2, <1>3, <2>5 DEF RenderRecord
  <2> QED
    BY <1>1, <2>2, <2>3, <2>4, <2>5, <2>6 DEF PassCommit
<1>5. PICK try \in TryRecord : try.state # "running" /\ tries' = [tries EXCEPT ![d] = Append(tries[d], try)]
  <2>1. PICK try : try = [state |-> "succeeded", lease |-> now, window |-> window]
    OBVIOUS
  <2>2. try \in TryRecord /\ try.state # "running"
    BY <2>1 DEF TryRecord, Tried, RenderInv, RenderTyped, StoreInv, StoreTypeOK
  <2> QED
    BY <1>1, <2>1, <2>2 DEF PassCommit
<1>6. /\ tries' \in [Documents -> Seq(TryRecord)]
      /\ \A e \in Documents : DOMAIN tries[e] \subseteq DOMAIN tries'[e]
      /\ Len(tries'[d]) = n /\ n \in DOMAIN tries'[d]
      /\ \A e \in Documents \ {d} : tries'[e] = tries[e]
      /\ \A m : Running(d, m)' <=> Running(d, m)
  <2>1. PICK old \in Seq(TryRecord) : old = tries[d]
    BY <1>2 DEF RenderInv, RenderTyped
  <2>2. tries' = [tries EXCEPT ![d] = Append(old, try)]
    BY <1>5, <2>1
  <2>3. RenderTyped /\ Len(old) = Len(tries[d])
    BY <2>1 DEF RenderInv
  <2>4. Added(d, old, try)
    BY <1>1, <1>2, <2>2, <2>3, AddedTry DEF Adds
  <2>5. ASSUME NEW m PROVE Running(d, m)' <=> Running(d, m)
    BY <1>5, <2>1, <2>4 DEF Added, Running
  <2> QED
    BY <1>1, <2>4, <2>5 DEF Added
<1>7. \A e \in Documents : \A m : Running(e, m)' <=> Running(e, m)
  BY <1>6 DEF Running
<1>8. PICK new : Goes(c, new) /\ new.stage = "received" /\ new.row = r
  BY Receives DEF PassCommit, RenderInv
<1>9. /\ UNCHANGED <<window, deleting, artifacts, intents, sends>>
      /\ documents' = [documents EXCEPT ![d] = "succeeded"]
  BY <1>1 DEF PassCommit
<1>10. /\ calls' \in [Calls -> CallRecord] /\ calls'[c] = new
       /\ \A e \in Calls \ {c} : calls'[e] = calls[e]
  BY <1>8, Turned DEF RenderInv, Goes
<1>11. renders'[r] = row /\ \A q \in Renders \ {r} : renders'[q] = renders[q]
  BY <1>4 DEF RenderInv, RenderTyped
<1>12. RenderTyped'
  BY <1>4, <1>6, <1>9, <1>10 DEF RenderInv, RenderTyped
<1>13. CallSound(c)'
  BY <1>1, <1>2, <1>4, <1>8, <1>10, <1>11 DEF CallSound, At, DocOf, Goes, Answered
<1>14. ASSUME NEW e \in Calls \ {c}, calls[e].stage \in {"publishing", "linked"}
       PROVE Running(DocOf(e), calls[e].attempt)'
  <2>1. Running(DocOf(e), calls[e].attempt) /\ DocOf(e) \in Documents
    BY <1>14 DEF RenderInv, CallSound, At
  <2>2. PICK m, x : m = calls[e].attempt /\ x = DocOf(e)
    OBVIOUS
  <2>3. Running(x, m)'
    BY <1>7, <2>1, <2>2
  <2> QED
    BY <1>10, <2>2, <2>3 DEF DocOf
<1>15. ASSUME NEW e \in Calls \ {c}, At(e, "linked") PROVE ~renders'[calls[e].row].present
  <2>1. calls[e].row \in Renders /\ ~renders[calls[e].row].present /\ calls[e].row # r
    BY <1>2, <1>15 DEF RenderInv, CallSound, FreshRow
  <2> QED
    BY <1>11, <2>1
<1>16. \A x \in Documents : TriesSound(x)'
  <2> SUFFICES ASSUME NEW x \in Documents, NEW m, Running(x, m)'
               PROVE m = Len(tries'[x]) /\ SourceOf[x] = None
    BY DEF TriesSound
  <2>1. Running(x, m)
    BY <1>7
  <2>2. m = Len(tries[x]) /\ SourceOf[x] = None
    BY <2>1 DEF RenderInv, TriesSound, Running
  <2>3. x # d
    BY <1>2, <2>2, StoreAssumption DEF Keys
  <2> QED
    BY <1>6, <2>2, <2>3
<1>17. ASSUME NEW q \in Renders PROVE RowSound(q)'
  <2>1. CASE q = r
    <3>1. ~Running(d, n)
      BY <1>1, <1>3 DEF Running
    <3>2. deleting[r] = "idle"
      BY <1>2 DEF RenderInv, RowSound, FreshRow
    <3>3. ~Running(d, n)' /\ n \in DOMAIN tries'[d]
      BY <1>2, <1>6, <3>1
    <3> QED
      BY <1>2, <1>4, <1>9, <1>11, <2>1, <3>2, <3>3 DEF RowSound
  <2>2. CASE q # r
    <3>1. PICK old, x, m : old = renders[q] /\ x = old.doc /\ m = old.attempt
      OBVIOUS
    <3>2. RowSound(q) /\ renders'[q] = old
      BY <1>11, <2>2, <3>1 DEF RenderInv
    <3>3. old.present => x \in Documents /\ m \in DOMAIN tries[x] /\ ~Running(x, m)
      BY <3>1, <3>2 DEF RowSound
    <3>4. old.present => x \in Documents /\ m \in DOMAIN tries'[x] /\ ~Running(x, m)'
      BY <1>6, <1>7, <3>3
    <3> QED
      BY <1>9, <3>1, <3>2, <3>4 DEF RowSound
  <2> QED
    BY <2>1, <2>2
<1>18. \A q \in Renders : renders[q].present => renders'[q].present
  BY <1>4, <1>11
<1> QED
  BY <1>6, <1>8, <1>9, <1>10, <1>12, <1>13, <1>14, <1>15, <1>16, <1>17, <1>18,
     CallStep DEF Publishing
-------------------------------------------------------------------------------
(* The steps that deliver, delete, stop, or touch the store only.          *)

\* Together: a step of a submission keeps attempts and rows sound.
LEMMA SubmitStep ==
    ASSUME RenderInv, StoreInv, NEW c \in Calls, Submit(c)
    PROVE RenderInv'
<1>1. CASE \E d \in Documents : Ask(c, d)
  BY <1>1, AskStep
<1>2. CASE Refuse(c)
  BY <1>2, DropStep DEF Refuse, OnlyCalls
<1>3. CASE Superseded(c)
  BY <1>3, DropStep DEF Superseded, OnlyCalls
<1>4. CASE \E r \in Renders : PassCommit(c, r)
  BY <1>4, PassCommitStep
<1>5. CASE \E r \in Renders, x \in Digests : PublishFile(c, r, x)
  BY <1>5, PublishFileStep
<1> QED
  BY <1>1, <1>2, <1>3, <1>4, <1>5, ReuseStep, BeginAttemptStep, PassBeginStep, PublishBeginStep,
     ThemeChangedStep, RenderFailsStep, MarkFailedStep, PublishCommitStep,
     PublishFailsStep DEF Submit

\* A delivery step turns one call and writes its intent, or counts a message.
LEMMA DeliverStep ==
    ASSUME RenderInv, RenderTyped', NEW c \in Calls, NEW new, Goes(c, new),
           new.stage \in {"permitted", "sent"} => new.row = calls[c].row /\ calls[c].stage \in Answered,
           new.stage \in {"asking", "permitted", "sent"}, DocOf(c) \in Documents,
           UNCHANGED <<tries, renders, deleting, artifacts>>
    PROVE RenderInv'
<1>1. calls'[c] = new /\ \A e \in Calls \ {c} : calls'[e] = calls[e]
  BY Turned DEF RenderInv, Goes
<1>2. CallSound(c)
  BY DEF RenderInv
<1>3. CallSound(c)'
  BY <1>1, <1>2 DEF CallSound, At, DocOf, Goes, Publishing, Answered
<1> QED
  BY <1>1, <1>3, OnlyCallStep DEF Publishing

\* An intent is created.
LEMMA PermitStep ==
    ASSUME RenderInv, StoreInv, NEW c \in Calls, Permit(c)
    PROVE RenderInv'
<1>1. PICK new : Goes(c, new) /\ new.stage = "permitted" /\ new.row = calls[c].row
  BY Moves DEF Permit, RenderInv, CallStages
<1>2. CallSound(c) /\ At(c, "received") /\ calls[c] \in CallRecord
  BY DEF RenderInv, Permit, RenderTyped
<1>3. DocOf(c) \in Documents /\ calls[c].row \in Renders
  BY <1>2 DEF CallSound, At, Answered
<1>4. PICK l \in Nat : l = IF renders[calls[c].row].expires < now + IntentSeconds THEN renders[calls[c].row].expires
                           ELSE now + IntentSeconds
  <2>1. renders[calls[c].row].expires \in Nat
    BY <1>3 DEF RenderInv, RenderTyped, RenderRecord
  <2>2. now + IntentSeconds \in Nat
    BY RenderAssumption DEF StoreInv, StoreTypeOK
  <2> QED
    BY <2>1, <2>2
<1>5. PICK i : i = [status |-> "pending", row |-> calls[c].row, deadline |-> l]
  OBVIOUS
<1>6. i \in IntentRecord
  BY <1>3, <1>5 DEF IntentRecord
<1>7. intents' = [intents EXCEPT ![Name(c)] = i] /\ UNCHANGED <<window, documents, tries, renders, deleting, artifacts, sends>>
  BY <1>4, <1>5 DEF Permit, OnlyIntents
<1>8. calls' \in [Calls -> CallRecord]
  BY <1>1, Turned DEF RenderInv, Goes
<1>9. RenderTyped'
  BY <1>6, <1>7, <1>8 DEF RenderInv, RenderTyped
<1> QED
  BY <1>1, <1>2, <1>3, <1>7, <1>9, DeliverStep DEF At, Answered

\* The change of an intent's status.
LEMMA Rewritten ==
    ASSUME RenderTyped, NEW i \in Documents \X IntentKeys, NEW s \in {"none", "pending"} \cup Outcomes,
           intents' = [intents EXCEPT ![i].status = s]
    PROVE /\ intents' \in [Documents \X IntentKeys -> IntentRecord]
          /\ intents'[i].status = s /\ \A j \in Documents \X IntentKeys : j # i => intents'[j] = intents[j]
<1>1. intents[i] \in IntentRecord
  BY DEF RenderTyped
<1>2. PICK new : new = [intents[i] EXCEPT !.status = s]
  OBVIOUS
<1>3. new \in IntentRecord /\ new.status = s
  BY <1>1, <1>2, SMT DEF IntentRecord
<1>4. intents' = [intents EXCEPT ![i] = new]
  BY <1>2
<1> QED
  BY <1>3, <1>4 DEF RenderTyped

\* A repeated key: the status of the intent, and the call ends.
LEMMA SuppressStep ==
    ASSUME RenderInv, NEW c \in Calls, Suppress(c)
    PROVE /\ RenderInv' /\ DocOf(c) \in Documents
          /\ \E s \in {"none", "pending"} \cup Outcomes :
                /\ intents' = [intents EXCEPT ![Name(c)].status = s]
                /\ s = "succeeded" <=> intents[Name(c)].status = "succeeded"
                /\ s # "none"
<1>1. At(c, "received") /\ intents[Name(c)].status # "none" /\ Drop(c) /\ UNCHANGED <<window, documents, tries, renders, deleting, artifacts, sends>>
  BY DEF Suppress, OnlyIntents
<1>2. DocOf(c) \in Documents /\ Name(c) \in Documents \X IntentKeys
  BY <1>1 DEF RenderInv, CallSound, At, RenderTyped, CallRecord, Name, DocOf
<1>3. intents[Name(c)].status \in {"none", "pending"} \cup Outcomes
  BY <1>2 DEF RenderInv, RenderTyped, IntentRecord
<1>4. PICK s \in {"none", "pending"} \cup Outcomes :
          /\ s = IF intents[Name(c)].status = "pending" /\ intents[Name(c)].row = calls[c].row /\ intents[Name(c)].deadline <= now
                 THEN "ambiguous" ELSE intents[Name(c)].status
  BY <1>3 DEF Outcomes
<1>5. intents' = [intents EXCEPT ![Name(c)].status = s]
  BY <1>4 DEF Suppress
<1>6. calls' \in [Calls -> CallRecord] /\ calls'[c] = Idle /\ \A e \in Calls \ {c} : calls'[e] = calls[e]
  BY <1>1, FreshCalls, Turned DEF RenderInv, Drop, Turns
<1>7. RenderTyped'
  BY <1>1, <1>2, <1>5, <1>6, Rewritten DEF RenderInv, RenderTyped
<1>8. CallSound(c)'
  BY <1>6, FreshCalls DEF CallSound, At, Publishing, Answered
<1>9. RenderInv'
  BY <1>1, <1>6, <1>7, <1>8, FreshCalls, OnlyCallStep DEF Publishing
<1> QED
  BY <1>1, <1>2, <1>4, <1>5, <1>9

\* The artifact expired before an intent was created.
LEMMA TooLateStep ==
    ASSUME RenderInv, NEW c \in Calls, TooLate(c)
    PROVE RenderInv'
<1>1. UNCHANGED <<window, documents, tries, renders, deleting, artifacts, intents, sends>> /\ At(c, "received")
  BY DEF TooLate, OnlyCalls
<1>2. CASE Drop(c)
  BY <1>1, <1>2, DropStep
<1>3. CASE Turns(c, [calls[c] EXCEPT !.stage = "asking", !.retried = TRUE, !.row = None])
  <2>1. PICK b \in BOOLEAN : b = TRUE
    OBVIOUS
  <2>2. PICK new : Goes(c, new) /\ new.stage = "asking"
    BY <1>3, <2>1, AsksAgain DEF RenderInv
  <2>3. calls' \in [Calls -> CallRecord]
    BY <2>2, Turned DEF RenderInv, Goes
  <2>4. RenderTyped' /\ DocOf(c) \in Documents
    BY <1>1, <2>3 DEF RenderInv, RenderTyped, CallSound, At
  <2> QED
    BY <1>1, <2>2, <2>4, DeliverStep
<1> QED
  BY <1>2, <1>3 DEF TooLate

\* A sending writes no row.
LEMMA SendStep ==
    ASSUME RenderInv, NEW c \in Calls, NEW o \in Outcomes, NEW b \in BOOLEAN, Send(c, o, b)
    PROVE RenderInv'
<1>1. PICK new : Goes(c, new) /\ new.stage = "sent" /\ new.row = calls[c].row
  BY Sends DEF Send, RenderInv
<1>2. UNCHANGED <<window, documents, tries, renders, deleting, artifacts, intents>> /\ At(c, "permitted")
  BY DEF Send
<1>3. calls' \in [Calls -> CallRecord] /\ DocOf(c) \in Documents
  BY <1>1, <1>2, Turned DEF RenderInv, Goes, CallSound, At
<1>4. PICK n \in Nat : n = IF b THEN sends[DocOf(c)] + 1 ELSE sends[DocOf(c)]
  BY <1>3 DEF RenderInv, RenderTyped
<1>5. sends' = [sends EXCEPT ![DocOf(c)] = n]
  BY <1>4 DEF Send
<1>6. RenderTyped'
  BY <1>2, <1>3, <1>5 DEF RenderInv, RenderTyped
<1> QED
  BY <1>1, <1>2, <1>3, <1>6, DeliverStep DEF At, Answered

\* The status a report leaves, and what becomes of the call.
LEMMA ReportStep ==
    ASSUME RenderInv, NEW c \in Calls, Report(c), calls[c].outcome \in Outcomes
    PROVE /\ RenderInv' /\ DocOf(c) \in Documents
          /\ \E s \in {"none", "pending"} \cup Outcomes :
                /\ intents' = [intents EXCEPT ![Name(c)].status = s]
                /\ s = "succeeded" => intents[Name(c)].status = "succeeded" \/ calls[c].outcome = "succeeded"
                /\ intents[Name(c)].status = "succeeded" => s = "succeeded"
                /\ s = "none" => intents[Name(c)].status = "none"
<1>1. At(c, "sent") /\ UNCHANGED <<window, documents, tries, renders, deleting, artifacts, sends>>
  BY DEF Report, OnlyIntents
<1>2. DocOf(c) \in Documents /\ Name(c) \in Documents \X IntentKeys
  BY <1>1 DEF RenderInv, CallSound, At, RenderTyped, CallRecord, Name, DocOf
<1>3. intents[Name(c)].status \in {"none", "pending"} \cup Outcomes
  BY <1>2 DEF RenderInv, RenderTyped, IntentRecord
<1>4. PICK s \in {"none", "pending"} \cup Outcomes :
          s = IF intents[Name(c)].status # "pending" THEN intents[Name(c)].status
              ELSE IF calls[c].outcome = "expired" THEN "failed" ELSE calls[c].outcome
  BY <1>3 DEF Outcomes
<1>5. intents' = [intents EXCEPT ![Name(c)].status = s]
  BY <1>4 DEF Report
<1>6. s # "none" \/ intents[Name(c)].status = "none"
  BY <1>4 DEF Outcomes
<1>7. PICK new \in CallRecord : /\ calls' = [calls EXCEPT ![c] = new] /\ new.stage \in {"asking", "idle"}
                                /\ new.stage = "asking" => new.doc = DocOf(c)
  <2>1. CASE Drop(c)
    BY <2>1, FreshCalls DEF Drop, Turns
  <2>2. CASE Turns(c, [Idle EXCEPT !.stage = "asking", !.doc = DocOf(c), !.key = "renewal", !.retried = TRUE])
    <3>1. PICK d \in Documents : d = DocOf(c)
      BY <1>2
    <3>2. PICK new \in CallRecord :
              /\ new = [Idle EXCEPT !.stage = "asking", !.doc = d, !.key = "renewal", !.retried = TRUE]
              /\ new.stage = "asking" /\ new.doc = d
      BY FreshCalls
    <3>3. calls' = [calls EXCEPT ![c] = new]
      BY <2>2, <3>1, <3>2 DEF Turns
    <3> QED
      BY <3>1, <3>2, <3>3
  <2> QED
    BY <2>1, <2>2 DEF Report
<1>8. calls' \in [Calls -> CallRecord] /\ calls'[c] = new /\ \A e \in Calls \ {c} : calls'[e] = calls[e]
  BY <1>7, Turned DEF RenderInv
<1>9. RenderTyped'
  BY <1>1, <1>2, <1>5, <1>8, Rewritten DEF RenderInv, RenderTyped
<1>10. CallSound(c)'
  BY <1>2, <1>7, <1>8 DEF CallSound, At, DocOf, Publishing, Answered
<1>11. RenderInv'
  BY <1>1, <1>7, <1>8, <1>9, <1>10, OnlyCallStep DEF Publishing
<1> QED
  BY <1>2, <1>4, <1>5, <1>6, <1>11

\* Steps of the store, and time, change nothing of the rendering but what a
\* pass-through waits for, and that for good.
LEMMA StoreOnlyStep ==
    ASSUME RenderInv, StoreInv, UNCHANGED <<renders, renderVars>>,
           \A a \in Artifacts : artifacts[a].referenced # None => artifacts'[a].referenced # None
    PROVE RenderInv'
<1>1. UNCHANGED <<window, documents, tries, calls, renders, deleting, intents, sends>>
  BY DEF renderVars
<1>2. RenderTyped' /\ Exclusive'
  BY <1>1 DEF RenderInv, RenderTyped, Exclusive, At, DocOf
<1>3. ASSUME NEW c \in Calls PROVE CallSound(c)'
  <2>1. CallSound(c) /\ (calls[c].stage \in {"publishing", "linked"} => Running(DocOf(c), calls[c].attempt)')
        /\ (At(c, "linked") => ~renders'[calls[c].row].present)
    <3>1. CallSound(c)
      BY DEF RenderInv
    <3> QED
      BY <1>1, <3>1 DEF CallSound, Running, DocOf
  <2> QED
    BY <1>1, <2>1, OtherCall
<1>4. \A d \in Documents : TriesSound(d)'
  BY <1>1 DEF RenderInv, TriesSound, Running
<1>5. \A r \in Renders : RowSound(r)'
  BY <1>1 DEF RenderInv, RowSound, Running
<1> QED
  BY <1>2, <1>3, <1>4, <1>5 DEF RenderInv

\* The steps of the tools leave the rendered rows alone.
LEMMA ToolsRenderNothing ==
    ASSUME ToolNext
    PROVE UNCHANGED renders
<1>1. CASE UNCHANGED <<renders, reaper>>
  BY <1>1
<1>2. CASE Reap
  BY <1>2 DEF Reap, ExpireNext, CleanBegin, ExpireCommit, CleanCommit, CleanRemove, OrphanRemove,
     OrphanBegin
<1> QED
  BY <1>1, <1>2, OnlyReapReaps

\* A deletion marks a row and never takes one away.
LEMMA DeleteStep ==
    ASSUME RenderInv, NEW r \in Renders, Delete(r)
    PROVE RenderInv'
<1>1. UNCHANGED <<window, documents, tries, calls, intents, sends, artifacts>>
  BY DEF Delete, DeleteBegin, DeleteCommit, DeleteRemove
<1>2. /\ renders' \in [Renders -> RenderRecord]
      /\ \A q \in Renders : /\ renders'[q].present = renders[q].present
                            /\ renders'[q].doc = renders[q].doc /\ renders'[q].attempt = renders[q].attempt
  <2>1. renders' = renders \/ renders' = [renders EXCEPT ![r].deleted = TRUE]
    BY DEF Delete, DeleteBegin, DeleteCommit, DeleteRemove
  <2>2. renders \in [Renders -> RenderRecord]
    BY DEF RenderInv, RenderTyped
  <2>3. CASE renders' = renders
    BY <2>2, <2>3
  <2>4. CASE renders' = [renders EXCEPT ![r].deleted = TRUE]
    <3>1. PICK row : row = [renders[r] EXCEPT !.deleted = TRUE]
      OBVIOUS
    <3>2. /\ row \in RenderRecord /\ row.present = renders[r].present
          /\ row.doc = renders[r].doc /\ row.attempt = renders[r].attempt
      BY <2>2, <3>1 DEF RenderRecord
    <3>3. renders' = [renders EXCEPT ![r] = row]
      BY <2>4, <3>1
    <3> QED
      BY <2>2, <3>2, <3>3
  <2> QED
    BY <2>1, <2>3, <2>4
<1>3. /\ deleting' \in [Renders -> {"idle", "last", "shared", "removing"}]
      /\ \A q \in Renders : deleting'[q] # "idle" => deleting[q] # "idle" \/ renders[q].present
  BY DEF Delete, DeleteBegin, DeleteCommit, DeleteRemove, RenderInv, RenderTyped
<1>4. RenderTyped' /\ Exclusive'
  BY <1>1, <1>2, <1>3 DEF RenderInv, RenderTyped, Exclusive, At, DocOf
<1>5. ASSUME NEW c \in Calls PROVE CallSound(c)'
  <2>1. CallSound(c)
    BY DEF RenderInv
  <2>2. calls[c].row \in Renders => renders'[calls[c].row].present = renders[calls[c].row].present
    BY <1>2
  <2>3. At(c, "linked") => ~renders'[calls[c].row].present
    BY <2>1, <2>2 DEF CallSound
  <2>4. calls[c].stage \in {"publishing", "linked"} => Running(DocOf(c), calls[c].attempt)'
    BY <1>1, <2>1 DEF CallSound, Running, DocOf
  <2> QED
    BY <1>1, <1>2, <2>1, <2>3, <2>4, OtherCall
<1>6. \A d \in Documents : TriesSound(d)'
  BY <1>1 DEF RenderInv, TriesSound, Running
<1>7. ASSUME NEW q \in Renders PROVE RowSound(q)'
  <2>1. RowSound(q)
    BY DEF RenderInv
  <2>2. PICK d, m : d = renders[q].doc /\ m = renders[q].attempt
    OBVIOUS
  <2>3. Running(d, m)' <=> Running(d, m)
    BY <1>1 DEF Running
  <2>4. renders[q].present => d \in Documents /\ m \in DOMAIN tries[d] /\ ~Running(d, m)
    BY <2>1, <2>2 DEF RowSound
  <2>5. renders'[q].doc = d /\ renders'[q].attempt = m /\ renders'[q].present = renders[q].present
    BY <1>2, <2>2
  <2>6. deleting'[q] # "idle" => renders'[q].present
    BY <1>3, <2>1, <2>5 DEF RowSound
  <2>7. renders'[q].present => d \in Documents /\ m \in DOMAIN tries'[d] /\ ~Running(d, m)'
    BY <1>1, <2>3, <2>4, <2>5
  <2> QED
    BY <2>5, <2>6, <2>7 DEF RowSound
<1> QED
  BY <1>4, <1>5, <1>6, <1>7 DEF RenderInv

\* Core stops: the calls it served begin anew.
LEMMA CrashStep ==
    ASSUME RenderInv, Crash
    PROVE RenderInv'
<1>1. /\ UNCHANGED <<window, documents, tries, renders, intents, sends, artifacts>>
      /\ deleting' = [r \in Renders |-> "idle"]
      /\ calls' = [c \in Calls |-> IF calls[c].stage \in Served THEN Idle ELSE calls[c]]
  BY DEF Crash, StopTools
<1>2. /\ calls' \in [Calls -> CallRecord]
      /\ \A c \in Calls : \/ calls'[c] = Idle
                          \/ calls'[c] = calls[c] /\ calls[c].stage \notin Served
  BY <1>1, FreshCalls DEF RenderInv, RenderTyped
<1>3. RenderTyped'
  BY <1>1, <1>2 DEF RenderInv, RenderTyped
<1>4. Exclusive'
  <2>1. \A c \in Calls : calls'[c].stage \in Publishing => calls'[c] = calls[c]
    BY <1>2, FreshCalls DEF Publishing
  <2>2. \A c \in Calls : At(c, "linked")' => calls'[c].stage \in Publishing
    BY DEF At, Publishing
  <2>3. Exclusive
    BY DEF RenderInv
  <2> QED
    BY <2>1, <2>2, <2>3 DEF Exclusive, DocOf, At
<1>5. ASSUME NEW c \in Calls PROVE CallSound(c)'
  <2>1. CASE calls'[c] = Idle
    BY <2>1, FreshCalls DEF CallSound, At, Publishing, Answered
  <2>2. CASE calls'[c] = calls[c] /\ calls[c].stage \notin Served
    <3>1. CallSound(c)
      BY DEF RenderInv
    <3>2. /\ calls[c].stage \in {"publishing", "linked"} => Running(DocOf(c), calls[c].attempt)'
          /\ At(c, "linked") => ~renders'[calls[c].row].present
      BY <2>2 DEF Served, At
    <3> QED
      BY <1>1, <2>2, <3>1, <3>2, OtherCall
  <2> QED
    BY <1>2, <2>1, <2>2
<1>6. \A d \in Documents : TriesSound(d)'
  BY <1>1 DEF RenderInv, TriesSound, Running
<1>7. \A r \in Renders : RowSound(r)'
  BY <1>1 DEF RenderInv, RowSound, Running
<1> QED
  BY <1>3, <1>4, <1>5, <1>6, <1>7 DEF RenderInv

\* The theme window is no part of what calls rely on.
LEMMA ChangeWindowStep ==
    ASSUME RenderInv, ChangeWindow
    PROVE RenderInv'
<1>1. UNCHANGED <<documents, tries, calls, renders, deleting, intents, sends, artifacts>> /\ window' \in Nat
  BY DEF ChangeWindow, RenderInv, RenderTyped
<1> QED
  BY <1>1 DEF RenderInv, RenderTyped, Exclusive, CallSound, TriesSound, RowSound, Running, At, DocOf
-------------------------------------------------------------------------------
(* Delivery: one step.                                                     *)

Status(x, q) == intents[<<x, q>>].status

\* The invariant of delivery, by document and key.
LEMMA Named ==
    ASSUME RenderInv, NEW c \in Calls
    PROVE /\ calls[c].key \in IntentKeys
          /\ intents[Name(c)].status = Status(DocOf(c), calls[c].key)
          /\ ~At(c, "idle") => DocOf(c) \in Documents
BY DEF RenderInv, RenderTyped, CallRecord, Name, Status, CallSound

\* Calls that lose their permission, or never had one, and statuses that only go
\* on, keep it.
StillCalls ==
    \A e \in Calls :
        \/ calls'[e] = calls[e]
        \/ /\ ~May(e)'
           /\ calls'[e].key = "renewal" => calls[e].key = "renewal" /\ calls'[e].doc = calls[e].doc
StillIntents ==
    \A x \in Documents : \A q \in IntentKeys :
        /\ Status(x, q)' = "none" <=> Status(x, q) = "none"
        /\ Status(x, q)' = "succeeded" => Status(x, q) = "succeeded" \/ sends[x] > 0

\* Such a step keeps the rule of the second key.
LEMMA StillKeys ==
    ASSUME DeliveryInv, StillCalls, StillIntents, NEW x \in Documents, sends'[x] = sends[x]
    PROVE KeysSound(x)'
<1>1. KeysSound(x)
  BY DEF DeliveryInv
<1>2. Renewed(x)' => Renewed(x)
  BY DEF Renewed, StillCalls, StillIntents, Status, IntentKeys, DocOf
<1>3. \A e \in Calls : May(e)' => May(e) /\ calls'[e] = calls[e]
  BY DEF StillCalls, May
<1> QED
  BY <1>1, <1>2, <1>3 DEF KeysSound, StillIntents, Status, IntentKeys, DocOf

\* Such a step keeps the invariant of delivery.
LEMMA StillDelivery ==
    ASSUME DeliveryInv, RenderInv, StillCalls, StillIntents, UNCHANGED sends
    PROVE DeliveryInv'
<1>1. \A e \in Calls : May(e)' => May(e) /\ calls'[e] = calls[e]
  BY DEF StillCalls, May
<1>2. OneMay'
  BY <1>1 DEF DeliveryInv, OneMay, DocOf
<1>3. ASSUME NEW e \in Calls PROVE Permitted(e)'
  <2> SUFFICES ASSUME May(e)' PROVE Permitted(e)'
    BY DEF Permitted
  <2>1. May(e) /\ calls'[e] = calls[e] /\ Permitted(e)
    BY <1>1 DEF DeliveryInv
  <2>2. DocOf(e) \in Documents /\ calls[e].key \in IntentKeys /\ Status(DocOf(e), calls[e].key) # "none"
    BY <2>1, Named DEF Permitted, May, At
  <2>3. PICK x \in Documents, q \in IntentKeys : x = DocOf(e) /\ q = calls[e].key
    BY <2>2
  <2>4. Status(x, q)' # "none"
    BY <2>2, <2>3 DEF StillIntents
  <2>5. intents'[<<DocOf(e), calls[e].key>>].status # "none"
    BY <2>3, <2>4 DEF Status
  <2> QED
    BY <2>1, <2>5 DEF Permitted, Name, DocOf, At
<1>4. \A x \in Documents : KeysSound(x)'
  BY StillKeys
<1> QED
  BY <1>2, <1>3, <1>4 DEF DeliveryInv

\* One call that goes on without a permission.
TurnsStill(c) ==
    \E new \in CallRecord :
        /\ calls' = [calls EXCEPT ![c] = new] /\ new.stage \notin {"permitted", "sent"}
        /\ new.key = "renewal" => calls[c].key = "renewal" /\ new.doc = calls[c].doc

\* One such call, the others as they were.
LEMMA TurnedStill ==
    ASSUME RenderTyped, NEW c \in Calls, TurnsStill(c)
    PROVE StillCalls
<1>1. PICK new \in CallRecord :
          /\ calls' = [calls EXCEPT ![c] = new] /\ new.stage \notin {"permitted", "sent"}
          /\ new.key = "renewal" => calls[c].key = "renewal" /\ new.doc = calls[c].doc
  BY DEF TurnsStill
<1>2. calls'[c] = new /\ \A e \in Calls \ {c} : calls'[e] = calls[e]
  BY <1>1 DEF RenderTyped
<1> QED
  BY <1>1, <1>2 DEF StillCalls, May

\* A call that goes on under its key.
LEMMA GoneStill ==
    ASSUME RenderTyped, NEW c \in Calls, NEW new, Goes(c, new), new.stage \notin {"permitted", "sent"}
    PROVE TurnsStill(c)
BY DEF Goes, TurnsStill, DocOf

\* A call that ends.
LEMMA DroppedStill ==
    ASSUME RenderTyped, NEW c \in Calls, Drop(c)
    PROVE TurnsStill(c)
BY FreshCalls DEF Drop, Turns, TurnsStill

\* No step of a submission is about an intent or a message.
LEMMA SubmitStill ==
    ASSUME RenderInv, NEW c \in Calls, Submit(c)
    PROVE TurnsStill(c) /\ UNCHANGED <<intents, sends>>
<1> DEFINE Still == TurnsStill(c) /\ UNCHANGED <<intents, sends>>
<1>0. RenderTyped
  BY DEF RenderInv
<1>1. ASSUME NEW d \in Documents, Ask(c, d) PROVE Still
  <2>1. PICK new \in CallRecord : /\ new = [Idle EXCEPT !.stage = "asking", !.doc = d]
                                  /\ new.stage = "asking" /\ new.doc = d /\ new.key = "first"
    BY AskedCall
  <2>2. calls' = [calls EXCEPT ![c] = new] /\ UNCHANGED <<intents, sends>>
    BY <1>1, <2>1 DEF Ask, Turns, OnlyCalls
  <2> QED
    BY <2>1, <2>2 DEF TurnsStill
<1>2. ASSUME NEW r \in Renders, NEW x \in Digests, PublishFile(c, r, x) PROVE Still
  BY <1>0, <1>2, Links, GoneStill DEF PublishFile
<1>3. ASSUME NEW r \in Renders, PassCommit(c, r) PROVE Still
  BY <1>0, <1>3, Receives, GoneStill DEF PassCommit
<1>4. ASSUME Reuse(c) PROVE Still
  <2>1. PICK r \in Renders : Turns(c, [calls[c] EXCEPT !.stage = "received", !.row = r])
    BY <1>4 DEF Reuse, Reusable
  <2> QED
    BY <1>0, <1>4, <2>1, Receives, GoneStill DEF Reuse, OnlyCalls
<1>5. ASSUME BeginAttempt(c) PROVE Still
  <2>1. DocOf(c) \in Documents
    BY <1>5 DEF RenderInv, CallSound, BeginAttempt, At
  <2>2. PICK n \in Nat : n = Len(tries[DocOf(c)]) + 1
    BY <1>0, <2>1, LenProperties DEF RenderTyped
  <2>3. Turns(c, [calls[c] EXCEPT !.stage = "rendering", !.attempt = n]) /\ UNCHANGED <<intents, sends>>
    BY <1>5, <2>2 DEF BeginAttempt
  <2> QED
    BY <1>0, <2>3, StartsRendering, GoneStill
<1>6. ASSUME NEW s \in CallStages \ {"permitted", "sent"}, Move(c, s), UNCHANGED <<intents,
             sends>>
      PROVE Still
  BY <1>0, <1>6, Moves, GoneStill
<1>7. ASSUME PassBegin(c) PROVE Still
  BY <1>6, <1>7 DEF PassBegin, CallStages, OnlyCalls
<1>8. ASSUME PublishBegin(c) PROVE Still
  BY <1>6, <1>8 DEF PublishBegin, CallStages, OnlyCalls
<1>9. ASSUME ThemeChanged(c) PROVE Still
  BY <1>0, <1>9, AsksAnew, GoneStill DEF ThemeChanged
<1>10. ASSUME PublishCommit(c) PROVE Still
  BY <1>6, <1>10 DEF PublishCommit, CallStages
<1>11. ASSUME RenderFails(c) PROVE Still
  BY <1>0, <1>6, <1>11, DroppedStill DEF RenderFails, CallStages, OnlyCalls
<1>12. ASSUME Refuse(c) \/ Superseded(c) PROVE Still
  BY <1>0, <1>12, DroppedStill DEF Refuse, Superseded, OnlyCalls
<1>13. ASSUME MarkFailed(c) \/ PublishFails(c) PROVE Still
  BY <1>0, <1>13, DroppedStill DEF MarkFailed, PublishFails
<1> HIDE DEF Still
<1>14. Still
  BY <1>1, <1>2, <1>3, <1>4, <1>5, <1>7, <1>8, <1>9, <1>10, <1>11, <1>12, <1>13, Zenon DEF Submit
<1> QED
  BY <1>14 DEF Still

\* A permission: the document was never sent, and nobody else may send it.
LEMMA PermitsOnce ==
    ASSUME RenderInv, DeliveryInv, NEW c \in Calls, ~At(c, "idle"), intents[Name(c)].status = "none"
    PROVE /\ sends[DocOf(c)] = 0
          /\ \A e \in Calls : May(e) => DocOf(e) # DocOf(c)
          /\ Renewed(DocOf(c)) => calls[c].key = "renewal"
<1>1. PICK d \in Documents, k \in IntentKeys : d = DocOf(c) /\ k = calls[c].key
  BY Named
<1>2. Status(d, k) = "none" /\ KeysSound(d)
  BY <1>1, Named DEF DeliveryInv
<1>3. k = "renewal" => Renewed(d)
  BY <1>1 DEF Renewed
<1>4. sends[d] = 0 /\ (Renewed(d) => k = "renewal")
  BY <1>2, <1>3 DEF KeysSound, Status, IntentKeys
<1>5. ASSUME NEW e \in Calls, May(e), DocOf(e) = d PROVE FALSE
  <2>1. Permitted(e) /\ calls[e].key \in IntentKeys /\ Status(d, calls[e].key) # "none"
    BY <1>5, Named DEF DeliveryInv, Permitted
  <2>2. calls[e].key # k
    BY <1>2, <2>1
  <2>3. calls[e].key = "renewal" => Renewed(d)
    BY <1>5 DEF Renewed
  <2>4. Renewed(d) => calls[e].key = "renewal"
    BY <1>2, <1>5 DEF KeysSound
  <2> QED
    BY <1>3, <1>4, <2>1, <2>2, <2>3, <2>4 DEF IntentKeys
<1> QED
  BY <1>1, <1>4, <1>5

\* The new intent is the only one under which the document may go out.
LEMMA PermitDelivers ==
    ASSUME RenderInv, DeliveryInv, NEW c \in Calls, Permit(c)
    PROVE DeliveryInv'
<1>0. At(c, "received") /\ intents[Name(c)].status = "none" /\ UNCHANGED sends
  BY DEF Permit, OnlyIntents
<1>1. PICK d \in Documents, k \in IntentKeys : d = DocOf(c) /\ k = calls[c].key
  BY <1>0, Named DEF At
<1>2. /\ sends[d] = 0 /\ \A e \in Calls : May(e) => DocOf(e) # d
      /\ Renewed(d) => k = "renewal"
  BY <1>0, <1>1, PermitsOnce DEF At
<1>3. PICK new : Goes(c, new) /\ new.stage = "permitted"
  BY Moves DEF Permit, RenderInv, CallStages
<1>4. /\ calls'[c].stage = "permitted" /\ calls'[c].doc = d /\ calls'[c].key = k
      /\ \A e \in Calls \ {c} : calls'[e] = calls[e]
  <2>1. calls'[c] = new /\ \A e \in Calls \ {c} : calls'[e] = calls[e]
    BY <1>3, Turned DEF Goes, RenderInv
  <2> QED
    BY <1>1, <1>3, <2>1 DEF Goes
<1>5. \A x \in Documents : \A q \in IntentKeys :
          Status(x, q)' = IF x = d /\ q = k THEN "pending" ELSE Status(x, q)
  <2>1. intents \in [Documents \X IntentKeys -> IntentRecord]
    BY DEF RenderInv, RenderTyped
  <2>2. PICK i : i.status = "pending" /\ intents' = [intents EXCEPT ![<<d, k>>] = i]
    <3>1. PICK l : intents' = [intents EXCEPT ![<<d, k>>] =
                                 [status |-> "pending", row |-> calls[c].row, deadline |-> l]]
      BY <1>1 DEF Permit, Name
    <3> QED
      BY <3>1
  <2> QED
    BY <2>1, <2>2 DEF Status
<1>6. \A e \in Calls : Permitted(e) /\ (May(e)' <=> May(e) \/ e = c)
  BY <1>0, <1>4 DEF DeliveryInv, May, At
<1>7. OneMay'
  BY <1>1, <1>2, <1>4, <1>6 DEF DeliveryInv, OneMay, DocOf
<1>8. ASSUME NEW e \in Calls PROVE Permitted(e)'
  <2>1. CASE e = c
    BY <1>0, <1>1, <1>2, <1>4, <1>5, <2>1 DEF Permitted, Name, DocOf, Status, At
  <2>2. CASE e # c /\ May(e)
    <3>1. PICK x \in Documents, q \in IntentKeys : x = DocOf(e) /\ q = calls[e].key
      BY <2>2, Named DEF May, At
    <3>2. Status(x, q) # "none" /\ Status(x, q)' # "none"
      BY <1>5, <1>6, <2>2, <3>1 DEF Permitted, Name, Status
    <3> QED
      BY <1>0, <1>4, <1>6, <2>2, <3>1, <3>2 DEF Permitted, Name, DocOf, Status, At
  <2>3. CASE e # c /\ ~May(e)
    BY <1>6, <2>3 DEF Permitted
  <2> QED
    BY <2>1, <2>2, <2>3
<1>9. ASSUME NEW x \in Documents PROVE KeysSound(x)'
  <2>1. KeysSound(x)
    BY DEF DeliveryInv
  <2>2. \A e \in Calls : calls'[e].key = calls[e].key /\ calls'[e].doc = calls[e].doc
    BY <1>1, <1>4 DEF DocOf
  <2>3. Renewed(x)' => Renewed(x)
    BY <1>1, <1>5, <2>2 DEF Renewed, Status, IntentKeys, DocOf
  <2>4. \A q \in IntentKeys : Status(x, q)' = "none" => Status(x, q) = "none"
    BY <1>5
  <2>5. Status(x, "first") # "none" => Status(x, "first")' # "none"
    BY <1>5 DEF IntentKeys
  <2>6. ASSUME Renewed(x), NEW e \in Calls, May(e)', calls'[e].doc = x
        PROVE calls'[e].key = "renewal"
    BY <1>1, <1>2, <1>4, <1>6, <2>1, <2>6 DEF KeysSound, DocOf
  <2>7. \A q \in IntentKeys : Status(x, q)' = "succeeded" => Status(x, q) = "succeeded"
    BY <1>5
  <2> QED
    BY <1>0, <2>1, <2>3, <2>4, <2>5, <2>6, <2>7 DEF KeysSound, Status, IntentKeys, DocOf
<1> QED
  BY <1>7, <1>8, <1>9 DEF DeliveryInv

\* The sender uses up his permission.
LEMMA SendDelivers ==
    ASSUME RenderInv, DeliveryInv, NEW c \in Calls, NEW o \in Outcomes, NEW b \in BOOLEAN, Send(c, o, b)
    PROVE DeliveryInv'
<1>0. At(c, "permitted") /\ UNCHANGED intents
  BY DEF Send
<1>1. PICK d \in Documents, k \in IntentKeys : d = DocOf(c) /\ k = calls[c].key
  BY <1>0, Named DEF At
<1>2. /\ sends[d] = 0 /\ \A e \in Calls \ {c} : May(e) => DocOf(e) # d
      /\ Status(d, k) # "none"
  BY <1>0, <1>1, Named DEF DeliveryInv, OneMay, Permitted, May, At
<1>3. PICK new : Goes(c, new) /\ new.stage = "sent" /\ new.outcome = o
  <2>1. At(c, "permitted") /\ Turns(c, [calls[c] EXCEPT !.stage = "sent", !.outcome = o])
    BY DEF Send
  <2>2. RenderTyped
    BY DEF RenderInv
  <2>3. \E new : /\ Goes(c, new) /\ new.stage = "sent" /\ new.outcome = o /\ new.row = calls[c].row
    BY <2>1, <2>2, Sends
  <2> QED
    BY <2>3
<1>4. /\ calls'[c].stage = "sent" /\ calls'[c].doc = d /\ calls'[c].key = k /\ calls'[c].outcome = o
      /\ \A e \in Calls \ {c} : calls'[e] = calls[e]
  <2>1. calls'[c] = new /\ \A e \in Calls \ {c} : calls'[e] = calls[e]
    BY <1>3, Turned DEF Goes, RenderInv
  <2> QED
    BY <1>1, <1>3, <2>1 DEF Goes
<1>5. /\ \A x \in Documents \ {d} : sends'[x] = sends[x]
      /\ o = "expired" => sends'[d] = 0
      /\ o = "succeeded" => sends'[d] > 0
      /\ sends'[d] \in Nat
  <2>1. sends \in [Documents -> Nat]
    BY DEF RenderInv, RenderTyped
  <2>2. PICK n \in Nat : n = IF b THEN sends[d] + 1 ELSE sends[d]
    BY <2>1
  <2>3. sends' = [sends EXCEPT ![d] = n]
    BY <1>1, <2>2 DEF Send
  <2>4. (o = "expired" => ~b) /\ (o = "succeeded" => b)
    BY DEF Send
  <2> QED
    BY <1>2, <2>1, <2>2, <2>3, <2>4
<1>6. \A e \in Calls : Permitted(e) /\ (May(e)' <=> May(e))
  BY <1>0, <1>4 DEF DeliveryInv, May, At
<1>7. OneMay'
  BY <1>1, <1>4, <1>6 DEF DeliveryInv, OneMay, DocOf
<1>8. ASSUME NEW e \in Calls PROVE Permitted(e)'
  <2>1. CASE e = c
    BY <1>0, <1>1, <1>2, <1>4, <1>5, <2>1 DEF Permitted, Name, DocOf, Status, At
  <2>2. CASE e # c /\ May(e)
    <3>1. PICK x \in Documents : x = DocOf(e)
      BY <2>2, Named DEF May, At
    <3>2. sends'[x] = sends[x]
      BY <1>2, <1>5, <2>2, <3>1
    <3> QED
      BY <1>0, <1>4, <1>6, <2>2, <3>1, <3>2 DEF Permitted, Name, DocOf, At
  <2>3. CASE e # c /\ ~May(e)
    BY <1>6, <2>3 DEF Permitted
  <2> QED
    BY <2>1, <2>2, <2>3
<1>9. ASSUME NEW x \in Documents PROVE KeysSound(x)'
  <2>1. KeysSound(x)
    BY DEF DeliveryInv
  <2>2. \A e \in Calls : calls'[e].key = calls[e].key /\ calls'[e].doc = calls[e].doc /\ (May(e)' <=> May(e))
    BY <1>1, <1>4, <1>6 DEF DocOf
  <2>3. Renewed(x)' <=> Renewed(x)
    BY <1>0, <2>2 DEF Renewed, DocOf
  <2>4. CASE x # d
    <3>1. sends'[x] = sends[x]
      BY <1>5, <2>4
    <3> QED
      BY <1>0, <2>1, <2>2, <2>3, <3>1 DEF KeysSound, DocOf
  <2>5. CASE x = d
    <3>1. May(c) /\ (k = "renewal" => Renewed(d)) /\ (Renewed(d) => k = "renewal")
      BY <1>0, <1>1, <2>1, <2>5 DEF May, At, Renewed, KeysSound
    <3>2. Status(d, "first") # "none" /\ (Renewed(d) => Status(d, "renewal") # "none")
      BY <1>2, <2>1, <2>5, <3>1 DEF KeysSound, Status, IntentKeys
    <3>3. \A q \in IntentKeys : Status(d, q) # "succeeded"
      BY <1>2, <2>1, <2>5 DEF KeysSound, Status
    <3> QED
      BY <1>0, <2>1, <2>2, <2>3, <2>5, <3>2, <3>3 DEF KeysSound, Status, DocOf
  <2> QED
    BY <2>4, <2>5
<1> QED
  BY <1>7, <1>8, <1>9 DEF DeliveryInv

\* A repeated key permits nothing.
LEMMA SuppressDelivers ==
    ASSUME RenderInv, DeliveryInv, NEW c \in Calls, Suppress(c)
    PROVE DeliveryInv'
<1>1. At(c, "received") /\ intents[Name(c)].status # "none" /\ Drop(c) /\ UNCHANGED sends
  BY DEF Suppress, OnlyIntents
<1>2. PICK d \in Documents, k \in IntentKeys : d = DocOf(c) /\ k = calls[c].key
  BY <1>1, Named DEF At
<1>3. PICK s \in {"none", "pending"} \cup Outcomes :
          /\ intents' = [intents EXCEPT ![Name(c)].status = s]
          /\ s = "succeeded" <=> intents[Name(c)].status = "succeeded"
          /\ s # "none"
  BY SuppressStep
<1>4. /\ Status(d, k)' = s
      /\ \A x \in Documents : \A q \in IntentKeys : ~(x = d /\ q = k) => Status(x, q)' = Status(x, q)
  BY <1>2, <1>3, Rewritten DEF RenderInv, Name, Status
<1>5. StillIntents
  BY <1>1, <1>2, <1>3, <1>4 DEF StillIntents, Status, Name
<1>6. StillCalls
  BY <1>1, DroppedStill, TurnedStill DEF RenderInv
<1> QED
  BY <1>1, <1>5, <1>6, StillDelivery

\* What was not sent because it had expired is asked for under the second key.
LEMMA ReportDelivers ==
    ASSUME RenderInv, DeliveryInv, NEW c \in Calls, Report(c)
    PROVE DeliveryInv'
<1>1. At(c, "sent") /\ UNCHANGED sends
  BY DEF Report, OnlyIntents
<1>2. PICK d \in Documents, k \in IntentKeys : d = DocOf(c) /\ k = calls[c].key
  BY <1>1, Named DEF At
<1>3. /\ May(c) /\ calls[c].outcome \in Outcomes /\ Status(d, k) # "none" /\ KeysSound(d)
      /\ calls[c].outcome = "expired" => sends[d] = 0
      /\ calls[c].outcome = "succeeded" => sends[d] > 0
      /\ \A e \in Calls \ {c} : May(e) => DocOf(e) # d
  BY <1>1, <1>2, Named DEF DeliveryInv, Permitted, OneMay, May, At
<1>4. PICK s \in {"none", "pending"} \cup Outcomes :
          /\ intents' = [intents EXCEPT ![Name(c)].status = s]
          /\ s = "succeeded" => intents[Name(c)].status = "succeeded" \/ calls[c].outcome = "succeeded"
          /\ s = "none" => intents[Name(c)].status = "none"
  BY <1>3, ReportStep
<1>5. /\ Status(d, k)' = s
      /\ \A x \in Documents : \A q \in IntentKeys : ~(x = d /\ q = k) => Status(x, q)' = Status(x, q)
  BY <1>2, <1>4, Rewritten DEF RenderInv, Name, Status
<1>6. StillIntents
  BY <1>2, <1>3, <1>4, <1>5 DEF StillIntents, Status, Name
<1>7. CASE Drop(c)
  <2>1. StillCalls
    BY <1>7, DroppedStill, TurnedStill DEF RenderInv
  <2> QED
    BY <1>1, <1>6, <2>1, StillDelivery
<1>8. CASE /\ Turns(c, [Idle EXCEPT !.stage = "asking", !.doc = DocOf(c), !.key = "renewal", !.retried = TRUE])
           /\ calls[c].outcome = "expired"
  <2>1. PICK new \in CallRecord : /\ new = [Idle EXCEPT !.stage = "asking", !.doc = d, !.key = "renewal", !.retried = TRUE]
                                  /\ new.stage = "asking" /\ new.doc = d /\ new.key = "renewal"
    BY FreshCalls
  <2>2. calls'[c] = new /\ \A e \in Calls \ {c} : calls'[e] = calls[e]
    BY <1>2, <1>8, <2>1 DEF Turns, RenderInv, RenderTyped
  <2>3. sends[d] = 0 /\ (Renewed(d) => k = "renewal")
    BY <1>2, <1>3, <1>8 DEF KeysSound
  <2>4. \A e \in Calls : May(e)' => e # c /\ May(e) /\ calls'[e] = calls[e]
    BY <2>1, <2>2 DEF May
  <2>5. OneMay'
    BY <2>4 DEF DeliveryInv, OneMay, DocOf
  <2>6. ASSUME NEW e \in Calls, May(e)' PROVE Permitted(e)'
    <3>1. Permitted(e) /\ May(e) /\ calls'[e] = calls[e]
      BY <2>4, <2>6 DEF DeliveryInv
    <3>2. PICK x \in Documents, q \in IntentKeys : x = DocOf(e) /\ q = calls[e].key
      BY <3>1, Named DEF May, At
    <3>3. Status(x, q) # "none" /\ Status(x, q)' # "none"
      BY <1>6, <3>1, <3>2 DEF StillIntents, Permitted, Name, Status
    <3> QED
      BY <1>1, <3>1, <3>2, <3>3 DEF Permitted, Name, DocOf, Status, At
  <2>7. ASSUME NEW x \in Documents PROVE KeysSound(x)'
    <3>1. KeysSound(x)
      BY DEF DeliveryInv
    <3>2. CASE x # d
      <4>1. Renewed(x)' => Renewed(x)
        <5>1. Status(x, "renewal")' = Status(x, "renewal")
          BY <1>5, <3>2 DEF IntentKeys
        <5>2. \A e \in Calls : DocOf(e)' = x => DocOf(e) = x /\ calls'[e] = calls[e]
          BY <2>1, <2>2, <3>2 DEF DocOf
        <5> QED
          BY <5>1, <5>2 DEF Renewed, Status
      <4>2. \A q \in IntentKeys : Status(x, q)' = Status(x, q)
        BY <1>5, <3>2
      <4> QED
        BY <1>1, <2>4, <3>1, <4>1, <4>2 DEF KeysSound, Status, IntentKeys, DocOf
    <3>3. CASE x = d
      <4>1. Status(d, "first") # "none"
        <5>1. k = "renewal" => Renewed(d)
          BY <1>2 DEF Renewed
        <5> QED
          BY <1>3, <5>1 DEF KeysSound, Status, IntentKeys
      <4>2. Status(d, "first")' # "none"
        BY <1>6, <4>1 DEF StillIntents, IntentKeys
      <4>3. \A e \in Calls : May(e)' => calls'[e].doc # d
        BY <1>3, <2>4 DEF DocOf
      <4>4. \A q \in IntentKeys : Status(d, q)' # "succeeded"
        BY <1>6, <2>3, <3>1, <3>3 DEF StillIntents, KeysSound, Status
      <4> QED
        BY <1>1, <2>3, <3>3, <4>2, <4>3, <4>4 DEF KeysSound, Status, DocOf
    <3> QED
      BY <3>2, <3>3
  <2> QED
    BY <2>5, <2>6, <2>7 DEF DeliveryInv, Permitted
<1> QED
  BY <1>7, <1>8 DEF Report

\* Nothing was permitted before it was too late.
LEMMA TooLateStill ==
    ASSUME RenderInv, NEW c \in Calls, TooLate(c)
    PROVE TurnsStill(c) /\ UNCHANGED <<intents, sends>>
<1>1. UNCHANGED <<intents, sends>> /\ RenderTyped
  BY DEF TooLate, OnlyCalls, RenderInv
<1>2. CASE Drop(c)
  BY <1>1, <1>2, DroppedStill
<1>3. CASE Turns(c, [calls[c] EXCEPT !.stage = "asking", !.retried = TRUE, !.row = None])
  <2>1. PICK b \in BOOLEAN : b = TRUE
    OBVIOUS
  <2>2. PICK new : Goes(c, new) /\ new.stage = "asking"
    BY <1>1, <1>3, <2>1, AsksAgain
  <2> QED
    BY <1>1, <2>2, GoneStill
<1> QED
  BY <1>2, <1>3 DEF TooLate

\* No intent is written.
LEMMA UnchangedIntents ==
    ASSUME UNCHANGED intents
    PROVE StillIntents
BY DEF StillIntents, Status

\* Every step keeps the invariant of delivery.
LEMMA DeliveryStep ==
    ASSUME RenderInv, DeliveryInv, Next
    PROVE DeliveryInv'
<1>0. RenderTyped
  BY DEF RenderInv
<1>1. ASSUME UNCHANGED renderVars PROVE DeliveryInv'
  BY <1>1, StillDelivery, UnchangedIntents DEF renderVars, StillCalls
<1>2. ASSUME NEW c \in Calls, TurnsStill(c), UNCHANGED <<intents, sends>> PROVE DeliveryInv'
  BY <1>0, <1>2, TurnedStill, UnchangedIntents, StillDelivery
<1>3. ASSUME NEW c \in Calls, Submit(c) PROVE DeliveryInv'
  BY <1>2, <1>3, SubmitStill
<1>4. ASSUME NEW c \in Calls, Deliver(c) PROVE DeliveryInv'
  BY <1>2, <1>4, PermitDelivers, SuppressDelivers, TooLateStill, ReportDelivers,
     SendDelivers DEF Deliver
<1>5. ASSUME NEW c \in Calls, Abandon(c) PROVE DeliveryInv'
  BY <1>0, <1>2, <1>5, DroppedStill DEF Abandon
<1>6. ASSUME NEW r \in Renders, Delete(r) PROVE DeliveryInv'
  <2>1. UNCHANGED <<calls, intents, sends>>
    BY <1>6 DEF Delete, DeleteBegin, DeleteCommit, DeleteRemove
  <2> QED
    BY <2>1, StillDelivery, UnchangedIntents DEF StillCalls
<1>7. ASSUME ChangeWindow PROVE DeliveryInv'
  BY <1>7, StillDelivery, UnchangedIntents DEF StillCalls, ChangeWindow
<1>8. ASSUME Crash PROVE DeliveryInv'
  <2>1. /\ UNCHANGED <<intents, sends>>
        /\ \A e \in Calls : calls'[e] = Idle \/ calls'[e] = calls[e]
    BY <1>8 DEF Crash
  <2>2. StillCalls
    BY <2>1, FreshCalls DEF StillCalls, May
  <2> QED
    BY <2>1, <2>2, StillDelivery, UnchangedIntents
<1> QED
  BY <1>1, <1>3, <1>4, <1>5, <1>6, <1>7, <1>8, Zenon DEF Next
-------------------------------------------------------------------------------
(* The invariant.                                                          *)

\* What a call does to the store, a publication at most adds an object.
LEMMA CallsQuiet ==
    ASSUME StoreInv, RenderInv, NEW c \in Calls, Submit(c) \/ Deliver(c) \/ Abandon(c)
    PROVE Quiet
<1> DEFINE Files == UNCHANGED <<now, quarantine, holder, artifacts, attempts, uploads, finalizing, reaper, deleting>>
<1>0. /\ now \in Nat /\ faults \in Nat /\ objects \in [Digests -> Nat \cup {None}] /\ None \notin Nat
      /\ renders \in [Renders -> RenderRecord]
  BY StoreAssumption DEF StoreInv, StoreTypeOK, ToolTypeOK, RenderInv, RenderTyped
<1>1. ASSUME Files, UNCHANGED <<objects, renders>>, faults' \in Nat PROVE Quiet
  BY <1>0, <1>1 DEF Quiet, Exists
<1>2. ASSUME NEW r \in Renders, NEW x \in Digests, PublishFile(c, r, x) PROVE Quiet
  <2>1. Files /\ UNCHANGED <<faults, renders>>
    BY <1>2 DEF PublishFile, toolVars
  <2>2. objects' = [objects EXCEPT ![x] = IF @ = None THEN now ELSE @]
    BY <1>2 DEF PublishFile
  <2>3. objects' \in [Digests -> Nat \cup {None}] /\ \A y \in Digests : Exists(y) => Exists(y)'
    BY <1>0, <2>2 DEF Exists
  <2> QED
    BY <1>0, <2>1, <2>3 DEF Quiet
<1>3. ASSUME NEW r \in Renders, deleting[r] = "idle", \E row : renders' = [renders EXCEPT ![r] = row],
             Files, UNCHANGED <<objects, faults>>
      PROVE Quiet
  BY <1>0, <1>3 DEF Quiet, Exists
<1>4. ASSUME NEW r \in Renders, PassCommit(c, r) PROVE Quiet
  <2>1. deleting[r] = "idle"
    BY <1>4 DEF PassCommit, FreshRow, RenderInv, RowSound
  <2>2. Files /\ UNCHANGED <<objects, faults>> /\ \E row : renders' = [renders EXCEPT ![r] = row]
    BY <1>4 DEF PassCommit, storeVars, toolVars
  <2> QED
    BY <1>3, <2>1, <2>2
<1>5. ASSUME PublishCommit(c) PROVE Quiet
  <2>1. PICK r \in Renders : r = calls[c].row /\ deleting[r] = "idle"
    BY <1>5 DEF PublishCommit, RenderInv, CallSound, RowSound, At
  <2>2. Files /\ UNCHANGED <<objects, faults>> /\ \E row : renders' = [renders EXCEPT ![r] = row]
    BY <1>5, <2>1 DEF PublishCommit, storeVars, toolVars
  <2> QED
    BY <1>3, <2>1, <2>2
<1>6. ASSUME OnlyCalls \/ OnlyIntents PROVE Quiet
  BY <1>0, <1>1, <1>6 DEF OnlyCalls, OnlyIntents, storeVars, toolVars
<1>7. ASSUME UNCHANGED <<storeVars, renders, artifacts, toolVars, deleting>> PROVE Quiet
  BY <1>0, <1>1, <1>7 DEF storeVars, toolVars
<1>8. ASSUME Submit(c) PROVE Quiet
  <2>1. ASSUME BeginAttempt(c) \/ ThemeChanged(c) \/ MarkFailed(c) \/ PublishFails(c) PROVE Quiet
    BY <1>7, <2>1 DEF BeginAttempt, ThemeChanged, MarkFailed, PublishFails
  <2>2. ASSUME \/ (\E d \in Documents : Ask(c, d)) \/ Reuse(c) \/ Refuse(c) \/ PassBegin(c) \/ PublishBegin(c)
               \/ Superseded(c) \/ RenderFails(c)
        PROVE Quiet
    BY <1>6, <2>2 DEF Ask, Reuse, Refuse, PassBegin, PublishBegin, Superseded, RenderFails
  <2> QED
    BY <1>2, <1>4, <1>5, <1>8, <2>1, <2>2, Zenon DEF Submit
<1>9. ASSUME Deliver(c) PROVE Quiet
  <2>1. ASSUME NEW o \in Outcomes, NEW b \in BOOLEAN, Send(c, o, b) PROVE Quiet
    BY <1>7, <2>1 DEF Send
  <2>2. ASSUME Permit(c) \/ Suppress(c) \/ TooLate(c) \/ Report(c) PROVE Quiet
    BY <1>6, <2>2 DEF Permit, Suppress, TooLate, Report
  <2> QED
    BY <1>9, <2>1, <2>2, Zenon DEF Deliver
<1>10. ASSUME Abandon(c) PROVE Quiet
  BY <1>0, <1>1, <1>10 DEF Abandon, Fault, storeVars
<1> QED
  BY <1>8, <1>9, <1>10

\* Time and the theme window touch no file and no row.
LEMMA TimeQuiet ==
    ASSUME StoreInv, (Tick /\ UNCHANGED renderVars) \/ ChangeWindow
    PROVE Quiet
<1>0. now \in Nat /\ faults \in Nat /\ objects \in [Digests -> Nat \cup {None}]
  BY DEF StoreInv, StoreTypeOK, ToolTypeOK
<1>1. CASE Tick /\ UNCHANGED renderVars
  BY <1>0, <1>1 DEF Quiet, Tick, renderVars, fileVars, toolVars, Exists
<1>2. CASE ChangeWindow
  BY <1>0, <1>2 DEF Quiet, ChangeWindow, Fault, storeVars, Exists
<1> QED
  BY <1>1, <1>2

\* Every step keeps the store sound.
LEMMA StoreStep ==
    ASSUME IInv, Next
    PROVE StoreInv'
<1>0. StoreInv /\ RenderInv /\ RenderTyped
  BY DEF IInv, RenderInv
<1>1. CASE ToolNext /\ UNCHANGED renderVars
  BY <1>0, <1>1, StoreToolStep
<1>2. ASSUME NEW c \in Calls, Submit(c) \/ Deliver(c) \/ Abandon(c) PROVE StoreInv'
  BY <1>0, <1>2, CallsQuiet, StoreQuietStep
<1>3. ASSUME NEW r \in Renders, Delete(r) PROVE StoreInv'
  BY <1>0, <1>3, StoreDeleteStep
<1>4. CASE (Tick /\ UNCHANGED renderVars) \/ ChangeWindow
  BY <1>0, <1>4, TimeQuiet, StoreQuietStep
<1>5. CASE Crash
  BY <1>0, <1>5, StoreCrashStep
<1> QED
  BY <1>1, <1>2, <1>3, <1>4, <1>5, Zenon DEF Next

\* Every step keeps attempts and rows sound.
LEMMA RenderStep ==
    ASSUME IInv, Next
    PROVE RenderInv'
<1>0. StoreInv /\ RenderInv /\ DeliveryInv
  BY DEF IInv
<1>1. CASE ToolNext /\ UNCHANGED renderVars
  BY <1>0, <1>1, StoreOnlyStep, ReferencesStay, ToolsRenderNothing
<1>2. CASE Tick /\ UNCHANGED renderVars
  <2>1. UNCHANGED <<renders, artifacts, renderVars>>
    BY <1>2 DEF Tick
  <2> QED
    BY <1>0, <2>1, StoreOnlyStep
<1>3. ASSUME NEW c \in Calls, Submit(c) PROVE RenderInv'
  BY <1>0, <1>3, SubmitStep
<1>4. ASSUME NEW c \in Calls, Deliver(c) PROVE RenderInv'
  <2>1. ASSUME Report(c) PROVE RenderInv'
    <3>1. calls[c].outcome \in Outcomes
      BY <1>0, <2>1 DEF Report, DeliveryInv, Permitted, May, At
    <3> QED
      BY <1>0, <2>1, <3>1, ReportStep
  <2> QED
    BY <1>0, <1>4, <2>1, PermitStep, SuppressStep, TooLateStep, SendStep DEF Deliver
<1>5. ASSUME NEW c \in Calls, Abandon(c) PROVE RenderInv'
  BY <1>0, <1>5, DropStep DEF Abandon
<1>6. ASSUME NEW r \in Renders, Delete(r) PROVE RenderInv'
  BY <1>0, <1>6, DeleteStep
<1>7. ASSUME ChangeWindow \/ Crash PROVE RenderInv'
  BY <1>0, <1>7, ChangeWindowStep, CrashStep
<1> QED
  BY <1>1, <1>2, <1>3, <1>4, <1>5, <1>6, <1>7, Zenon DEF Next

\* The invariant holds at the start.
LEMMA StartsSound ==
    ASSUME Init
    PROVE IInv
<1> USE DEF Init, StoreInit, ToolInit, RenderInit
<1>1. StoreTypeOK /\ ToolTypeOK
  <2>1. NoArtifact \in ArtifactRecord /\ AtRest \in Reapers
    BY SMT DEF NoArtifact, ArtifactRecord, AtRest, Reapers
  <2> QED
    BY <2>1 DEF StoreTypeOK, ToolTypeOK, Reapers
<1>2. Locks /\ ReaperSound /\ Cleared
  BY StoreAssumption DEF Locks, ReaperSound, Cleared, Removes, AtRest, Keys
<1>3. \A a \in Artifacts : UploadSound(a) /\ ContentSound(a) /\ MarkSound(a)
  BY DEF UploadSound, ContentSound, MarkSound, NoArtifact, StateOf
<1>4. RenderTyped
  <2>1. NoRender \in RenderRecord /\ NoIntent \in IntentRecord
    BY SMT DEF NoRender, RenderRecord, NoIntent, IntentRecord
  <2>2. <<>> \in Seq(TryRecord)
    OBVIOUS
  <2> QED
    BY <2>1, <2>2, FreshCalls DEF RenderTyped
<1>5. Exclusive /\ \A c \in Calls : CallSound(c)
  BY FreshCalls DEF Exclusive, CallSound, Publishing, Answered, At
<1>6. \A d \in Documents : TriesSound(d)
  BY DEF TriesSound, Running
<1>7. \A r \in Renders : RowSound(r)
  BY DEF RowSound, NoRender
<1>8. OneMay /\ \A c \in Calls : Permitted(c)
  BY FreshCalls DEF OneMay, Permitted, May
<1>9. ASSUME NEW d \in Documents PROVE KeysSound(d)
  <2>1. ~Renewed(d) /\ \A k \in IntentKeys : intents[<<d, k>>].status = "none"
    BY FreshCalls DEF Renewed, NoIntent, IntentKeys
  <2> QED
    BY <2>1 DEF KeysSound
<1> QED
  BY <1>1, <1>2, <1>3, <1>4, <1>5, <1>6, <1>7, <1>8, <1>9 DEF IInv, StoreInv, RenderInv, DeliveryInv

\* The inductive invariant: the store, the attempts and rows, and the permits
\* agree after every step (tool_artifact_service.py, render_service.py).
THEOREM StaysSound == Spec => []IInv
<1>1. Init => IInv
  BY StartsSound
<1>2. IInv /\ [Next]_vars => IInv'
  <2> SUFFICES ASSUME IInv, Next \/ UNCHANGED vars PROVE IInv'
    OBVIOUS
  <2>1. CASE Next
    BY <2>1, StoreStep, RenderStep, DeliveryStep DEF IInv
  <2>2. CASE UNCHANGED vars
    <3>1. UNCHANGED <<storeVars, artifacts, renders, toolVars, renderVars>>
      BY <2>2 DEF vars
    <3>2. Quiet
      BY <3>1 DEF Quiet, IInv, StoreInv, StoreTypeOK, ToolTypeOK, storeVars, toolVars, renderVars,
         Exists
    <3>3. StoreInv'
      BY <3>2, StoreQuietStep DEF IInv, RenderInv
    <3>4. RenderInv'
      BY <3>1, StoreOnlyStep DEF IInv
    <3>5. DeliveryInv'
      BY <3>1, StillDelivery, UnchangedIntents DEF IInv, renderVars, StillCalls
    <3> QED
      BY <3>3, <3>4, <3>5 DEF IInv
  <2> QED
    BY <2>1, <2>2
<1> QED
  BY <1>1, <1>2, PTL DEF Spec

-------------------------------------------------------------------------------
(* Types and contents.                                                     *)

\* Types, what rows point to, and that whoever works on a digest, and nobody
\* else, holds its lock.
THEOREM Typed == Spec => []TypeOK
<1>1. IInv => TypeOK
  <2> SUFFICES ASSUME IInv PROVE TypeOK
    OBVIOUS
  <2>1. StoreTypeOK /\ ToolTypeOK /\ Locks /\ RenderInv /\ RenderTyped
    BY DEF IInv, StoreInv, RenderInv
  <2>2. ASSUME NEW d \in Documents, NEW n \in DOMAIN tries[d] PROVE tries[d][n].state \in Tried
    <3>1. tries[d] \in Seq(TryRecord)
      BY <2>1 DEF RenderTyped
    <3>2. tries[d][n] \in TryRecord
      BY <3>1, ElementOfSeq, LenProperties
    <3> QED
      BY <3>2 DEF TryRecord
  <2>3. \A c \in Calls : calls[c].stage \in {"received", "permitted", "sent"} => renders[calls[c].row].present
    BY <2>1 DEF RenderInv, CallSound, Answered
  <2> QED
    BY <2>1, <2>2, <2>3 DEF TypeOK, Locks, RenderTyped, RenderInv, RowSound
<1> QED
  BY <1>1, StaysSound, PTL

\* The object of a finalized artifact is there until the row is marked deleted,
\* and for the whole retention of one a completion named, whoever shares it and
\* wherever Core stopped (tool_artifact_service.py, reap_expired_artifacts).
THEOREM KeepsToolContent == Spec => []ToolContentKept
<1>1. IInv => ToolContentKept
  <2> SUFFICES ASSUME IInv, NEW a \in Artifacts,
                      \/ StateOf(a) = "finalized" /\ ~artifacts[a].deleted
                      \/ artifacts[a].referenced # None /\ artifacts[a].referenced + Retention > now
               PROVE Exists(artifacts[a].digest)
    BY DEF ToolContentKept
  <2>1. ContentSound(a) /\ MarkSound(a) /\ artifacts[a] \in ArtifactRecord /\ now \in Nat
    BY DEF IInv, StoreInv, StoreTypeOK, ToolTypeOK
  <2>2. StateOf(a) = "finalized" /\ ~artifacts[a].deleted
    <3> SUFFICES ASSUME artifacts[a].referenced # None, artifacts[a].referenced + Retention > now
                 PROVE StateOf(a) = "finalized" /\ ~artifacts[a].deleted
      OBVIOUS
    <3>1. PICK m \in Nat : m = artifacts[a].referenced
      BY <2>1 DEF ArtifactRecord
    <3> QED
      BY <2>1, <3>1, ToolArtifactsAssumption DEF MarkSound
  <2> QED
    BY <2>1, <2>2 DEF ContentSound
<1> QED
  BY <1>1, StaysSound, PTL

-------------------------------------------------------------------------------
(* Marks.                                                                  *)

\* An update a handler asks for is one the trigger takes.
LEMMA AcceptedRows ==
    ASSUME StoreInv, ToolNext, NEW k \in Artifacts
    PROVE artifacts'[k] = artifacts[k] \/ Accepted(artifacts[k], artifacts'[k])
<1> DEFINE Fine == artifacts'[k] = artifacts[k] \/ Accepted(artifacts[k], artifacts'[k])
<1> SUFFICES Fine
  OBVIOUS
<1>0. artifacts \in [Artifacts -> ArtifactRecord] /\ artifacts[k] \in ArtifactRecord
  BY DEF StoreInv, ToolTypeOK
<1>r. ASSUME NEW a \in Artifacts, Reject(a) PROVE Fine
  <2>1. CASE a = k /\ artifacts[a].state \in {"reserved", "uploading"}
    <3>1. artifacts'[k] = [artifacts[k] EXCEPT !.state = "rejected"]
      BY <1>0, <1>r, <2>1 DEF Reject
    <3> QED
      BY <2>1, <3>1 DEF Accepted, Recorded
  <2>2. CASE a # k
    BY <1>0, <1>r, <2>2 DEF Reject
  <2>3. CASE a = k /\ artifacts[a].state \notin {"reserved", "uploading"}
    <3>1. artifacts'[k] = [artifacts[k] EXCEPT !.state = artifacts[k].state]
      BY <1>0, <1>r, <2>3 DEF Reject
    <3>2. artifacts'[k] = artifacts[k]
      BY <1>0, <3>1, SMT DEF ArtifactRecord
    <3> QED
      BY <3>2
  <2> QED
    BY <2>1, <2>2, <2>3
<1>1. ASSUME NEW a \in Artifacts, Reserve(a) PROVE Fine
  BY <1>0, <1>1 DEF Reserve, Accepted, StateOf
<1>2. ASSUME NEW a \in Artifacts, UploadBegin(a) PROVE Fine
  <2>1. StateOf(a) = "reserved" /\ (Change(a, "uploading") \/ Change(a, "rejected"))
    BY <1>2 DEF UploadBegin
  <2>2. CASE a # k
    BY <1>0, <2>1, <2>2 DEF Change
  <2>3. CASE a = k
    <3>1. \/ artifacts'[k] = [artifacts[k] EXCEPT !.state = "uploading"]
          \/ artifacts'[k] = [artifacts[k] EXCEPT !.state = "rejected"]
      BY <1>0, <2>1, <2>3 DEF Change
    <3> QED
      BY <2>1, <2>3, <3>1 DEF Accepted, Recorded, StateOf
  <2> QED
    BY <2>2, <2>3
<1>3. ASSUME NEW a \in Artifacts, UploadRejected(a) PROVE Fine
  BY <1>3, <1>r DEF UploadRejected
<1>4. ASSUME NEW a \in Artifacts, NEW u \in BOOLEAN, UploadDone(a, u) PROVE Fine
  <2>1. CASE Reject(a)
    BY <2>1, <1>r
  <2>2. CASE ~Reject(a)
    <3>1. /\ uploads[a] = "written" /\ StateOf(a) = "uploading"
          /\ artifacts' = [artifacts EXCEPT ![a].digest = quarantine[a].digest]
      BY <1>4, <2>2 DEF UploadDone
    <3>2. CASE a # k
      BY <1>0, <3>1, <3>2
    <3>3. CASE a = k
      <4>1. artifacts'[k] = [artifacts[k] EXCEPT !.digest = quarantine[k].digest]
        BY <1>0, <3>1, <3>3
      <4>2. artifacts'[k].digest = quarantine[k].digest
        BY <1>0, <4>1 DEF ArtifactRecord
      <4>3. artifacts[k].digest = None
        BY <3>1, <3>3 DEF StoreInv, UploadSound
      <4> QED
        BY <3>1, <3>3, <4>1, <4>2, <4>3 DEF Accepted, Recorded, StateOf
    <3> QED
      BY <3>2, <3>3
  <2> QED
    BY <2>1, <2>2
<1>5. ASSUME NEW a \in Artifacts, FinalizeTooLate(a) PROVE Fine
  BY <1>5, <1>r DEF FinalizeTooLate
<1>6. ASSUME NEW a \in Artifacts, FinalizeMissing(a) PROVE Fine
  BY <1>6, <1>r DEF FinalizeMissing
<1>7. ASSUME NEW a \in Artifacts, FinalizeCommit(a) PROVE Fine
  <2>1. artifacts' = [artifacts EXCEPT ![a] = [artifacts[a] EXCEPT !.state = "finalized", !.finalized = now]]
    BY <1>7 DEF FinalizeCommit
  <2>2. StateOf(a) = "uploading"
    BY <1>7 DEF FinalizeCommit, StoreInv, ContentSound
  <2> QED
    BY <1>0, <2>1, <2>2, Zenon DEF Accepted, Recorded, StateOf
<1>8. ASSUME NEW t \in Attempts, NEW refs \in SUBSET Artifacts, Complete(t, refs) PROVE Fine
  <2>1. CASE artifacts'[k] = artifacts[k]
    BY <2>1
  <2>2. CASE artifacts'[k] # artifacts[k]
    <3>1. k \in refs /\ Referable(t, refs) /\ attempts[t] = "running"
          /\ artifacts'[k] = [artifacts[k] EXCEPT !.referenced = now]
      BY <1>8, <2>2 DEF Complete
    <3>2. AttemptOf[k] = t /\ StateOf(k) = "finalized"
      BY <3>1 DEF Referable
    <3>3. artifacts[k].referenced = None
      BY <3>1, <3>2 DEF StoreInv, MarkSound
    <3> QED
      BY <3>1, <3>2, <3>3 DEF Accepted, Recorded, StateOf
  <2> QED
    BY <2>1, <2>2
<1>9. ASSUME ExpireCommit PROVE Fine
  <2>1. CASE k \notin reaper.items
    BY <1>9, <2>1, Zenon DEF ExpireCommit
  <2>2. CASE k \in reaper.items
    <3>1. artifacts'[k] = [artifacts[k] EXCEPT !.state = "expired", !.deleted = k \in reaper.removed]
      BY <1>9, <2>2, Zenon DEF ExpireCommit
    <3>2. artifacts[k].state \in {"reserved", "uploading"}
      BY <1>9, <2>2 DEF ExpireCommit, StoreInv, ReaperSound, StateOf
    <3>3. CASE k \in reaper.removed
      <4>1. artifacts'[k] = [artifacts[k] EXCEPT !.state = "expired", !.deleted = TRUE]
        <5>1. (k \in reaper.removed) = TRUE
          BY <3>3
        <5> QED
          BY <3>1, <5>1, Zenon
      <4> QED
        BY <3>2, <4>1, Zenon DEF Accepted
    <3>4. CASE k \notin reaper.removed
      <4>1. artifacts'[k] = [artifacts[k] EXCEPT !.state = "expired", !.deleted = FALSE]
        <5>1. (k \in reaper.removed) = FALSE
          BY <3>4
        <5> QED
          BY <3>1, <5>1, Zenon
      <4>2. PICK mid : mid = [artifacts[k] EXCEPT !.state = "expired"]
        OBVIOUS
      <4>3. artifacts[k].deleted = FALSE
        BY <1>0, <3>2 DEF StoreInv, MarkSound, StateOf, ArtifactRecord
      <4>4. mid \in ArtifactRecord /\ mid.deleted = FALSE
        BY <1>0, <4>2, <4>3, SMT DEF ArtifactRecord
      <4>5. artifacts'[k] = [mid EXCEPT !.deleted = FALSE]
        BY <4>1, <4>2
      <4>6. artifacts'[k] = mid
        BY <4>4, <4>5, SMT DEF ArtifactRecord
      <4> QED
        BY <3>2, <4>2, <4>6, Zenon DEF Accepted
    <3> QED
      BY <3>3, <3>4
  <2> QED
    BY <2>1, <2>2
<1>10. ASSUME CleanCommit PROVE Fine
  <2>1. artifacts'[k] = artifacts[k] \/ (k \in reaper.items /\ artifacts'[k] = [artifacts[k] EXCEPT !.deleted = TRUE])
    BY <1>10 DEF CleanCommit
  <2>2. k \in reaper.items => ~artifacts[k].deleted
    BY <1>10 DEF CleanCommit, StoreInv, ReaperSound
  <2> QED
    BY <2>1, <2>2, Zenon DEF Accepted, Recorded
<1>11. ASSUME UNCHANGED artifacts PROVE Fine
  BY <1>11
<1>12. ASSUME NEW a \in Artifacts, \/ UploadOpen(a) \/ UploadWrite(a) \/ UploadFail(a)
                                    \/ FinalizeBegin(a) \/ FinalizeLink(a) \/ FinalizeUnlink(a)
                                    \/ ExpireNext(a) \/ CleanBegin(a)
       PROVE  UNCHANGED artifacts
  BY <1>12 DEF UploadOpen, UploadWrite, UploadFail, FinalizeBegin, FinalizeLink, FinalizeUnlink,
     ExpireNext, CleanBegin
<1>13. ASSUME NEW t \in Attempts, Lapse(t) \/ EndAttempt(t) PROVE UNCHANGED artifacts
  BY <1>13 DEF Lapse, EndAttempt
<1>14. ASSUME CleanRemove \/ OrphanRemove \/ \E d \in Digests : OrphanBegin(d)
       PROVE UNCHANGED artifacts
  BY <1>14 DEF CleanRemove, OrphanRemove, OrphanBegin
<1> HIDE DEF Fine
<1>15. ASSUME NEW a \in Artifacts, Upload(a) PROVE Fine
  BY <1>2, <1>3, <1>4, <1>11, <1>12, <1>15, Zenon DEF Upload
<1>16. ASSUME NEW a \in Artifacts, Finalize(a) PROVE Fine
  BY <1>5, <1>6, <1>7, <1>11, <1>12, <1>16, Zenon DEF Finalize
<1>17. ASSUME Reap PROVE Fine
  BY <1>9, <1>10, <1>11, <1>12, <1>14, <1>17, Zenon DEF Reap
<1> QED
  BY <1>1, <1>8, <1>11, <1>13, <1>15, <1>16, <1>17, Zenon DEF ToolNext

\* Only the tools change tool artifacts.
LEMMA OthersMarkNothing ==
    ASSUME Next
    PROVE ToolNext \/ UNCHANGED artifacts
<1>1. ASSUME NEW c \in Calls, Submit(c) PROVE UNCHANGED artifacts
  BY <1>1 DEF Submit, Ask, Reuse, Refuse, BeginAttempt, PassBegin, PublishBegin, Superseded,
     ThemeChanged,
              RenderFails, MarkFailed, PublishCommit, PublishFails, PassCommit, PublishFile,
              OnlyCalls
<1>2. ASSUME NEW c \in Calls, Deliver(c) \/ Abandon(c) PROVE UNCHANGED artifacts
  BY <1>2 DEF Deliver, Permit, Suppress, TooLate, Report, Send, Abandon, OnlyCalls, OnlyIntents
<1>3. ASSUME NEW r \in Renders, Delete(r) PROVE UNCHANGED artifacts
  BY <1>3 DEF Delete, DeleteBegin, DeleteCommit, DeleteRemove
<1>4. ASSUME Tick \/ ChangeWindow \/ Crash PROVE UNCHANGED artifacts
  BY <1>4 DEF Tick, ChangeWindow, Crash, StopTools
<1> QED
  BY <1>1, <1>2, <1>3, <1>4, Zenon DEF Next

\* A completion marks all the artifacts it names or none, and no handler asks for
\* an update the trigger of the table aborts, although files are written between
\* its decision and its commit (tool_execution_service.py:765-875).
THEOREM HonestMarks == Spec => MarksAreHonest
<1> DEFINE Honest == /\ ReferencedBySuccess'
                     /\ \A a \in Artifacts :
                           artifacts'[a] # artifacts[a] => Accepted(artifacts[a], artifacts'[a])
<1>1. IInv => ReferencedBySuccess
  BY DEF IInv, StoreInv, MarkSound, ReferencedBySuccess
<1>2. ASSUME IInv, IInv', [Next]_vars PROVE Honest
  <2>1. ReferencedBySuccess'
    <3>1. (IInv => ReferencedBySuccess)'
      BY <1>1, PTL
    <3> QED
      BY <1>2, <3>1
  <2>2. CASE Next
    BY <1>2, <2>1, <2>2, OthersMarkNothing, AcceptedRows DEF IInv
  <2>3. CASE UNCHANGED vars
    BY <2>1, <2>3 DEF vars
  <2> QED
    BY <1>2, <2>2, <2>3
<1>3. IInv /\ IInv' /\ [Next]_vars => [Honest]_vars
  BY <1>2
<1> HIDE DEF Honest
<1>4. Spec => [][Honest]_vars
  BY <1>3, StaysSound, PTL DEF Spec
<1> QED
  BY <1>4 DEF Honest, MarksAreHonest

-------------------------------------------------------------------------------
(* Publication.                                                            *)

\* A new row is of the last attempt, none runs, and the rows before it are of
\* attempts before it.
Fences(r) ==
    ~renders[r].present /\ renders'[r].present =>
        LET d == renders'[r].doc  n == renders'[r].attempt IN
        /\ n = Len(tries'[d])
        /\ \A m \in DOMAIN tries'[d] : tries'[d][m].state # "running"
        /\ \A q \in Renders : renders[q].present /\ renders[q].doc = d => renders[q].attempt < n

\* What makes a new row a fenced one.
LEMMA FencesRow ==
    ASSUME RenderInv, NEW r \in Renders, NEW d \in Documents, NEW n \in Nat, NEW k \in Renders, NEW row,
           renders' = [renders EXCEPT ![k] = row], row.doc = d, row.attempt = n,
           n = Len(tries'[d]), \A m : ~Running(d, m)',
           \A m \in DOMAIN tries[d] : ~Running(d, m) => m < n
    PROVE Fences(r)
<1>1. CASE r # k
  BY <1>1 DEF RenderInv, RenderTyped, Fences
<1>2. CASE r = k
  <2>1. renders'[r] = row
    BY <1>2 DEF RenderInv, RenderTyped
  <2>2. \A m \in DOMAIN tries'[d] : tries'[d][m].state # "running"
    BY DEF Running
  <2>3. ASSUME NEW q \in Renders, renders[q].present, renders[q].doc = d
        PROVE renders[q].attempt < n
    BY <2>3 DEF RenderInv, RowSound
  <2> QED
    BY <2>1, <2>2, <2>3 DEF Fences
<1> QED
  BY <1>1, <1>2

\* A rendered row is of the attempt that was running.
LEMMA PublishFences ==
    ASSUME RenderInv, StoreInv, NEW c \in Calls, PublishCommit(c), NEW r \in Renders
    PROVE Fences(r)
<1>1. PICK d, n, k : d = DocOf(c) /\ n = calls[c].attempt /\ k = calls[c].row
  OBVIOUS
<1>2. d \in Documents /\ n \in DOMAIN tries[d] /\ Running(d, n) /\ k \in Renders
  BY <1>1 DEF PublishCommit, RenderInv, CallSound, At
<1>3. n = Len(tries[d]) /\ DOMAIN tries[d] = 1 .. n /\ n \in Nat
  BY <1>2, LenProperties DEF RenderInv, RenderTyped, TriesSound
<1>4. PICK row : row.doc = d /\ row.attempt = n /\ renders' = [renders EXCEPT ![k] = row]
  BY <1>1 DEF PublishCommit
<1>5. /\ Len(tries'[d]) = n
      /\ \A m : Running(d, m)' <=> Running(d, m) /\ m # n
  <2>1. SetTry(d, n, "succeeded")
    BY <1>1 DEF PublishCommit
  <2>2. /\ \A e \in Documents : DOMAIN tries'[e] = DOMAIN tries[e] /\ Len(tries'[e]) = Len(tries[e])
        /\ \A e \in Documents : \A m : Running(e, m)' <=> Running(e, m) /\ ~(e = d /\ m = n)
    BY <1>2, <2>1, SetTryEffect DEF RenderInv, Tried
  <2> QED
    BY <1>2, <1>3, <2>2
<1>6. \A m : ~Running(d, m)'
  BY <1>2, <1>3, <1>5 DEF RenderInv, TriesSound, Running
<1>7. \A m \in DOMAIN tries[d] : ~Running(d, m) => m < n
  BY <1>2, <1>3
<1> QED
  BY <1>2, <1>3, <1>4, <1>5, <1>6, <1>7, FencesRow

\* A row passed through is of an attempt of its own.
LEMMA PassFences ==
    ASSUME RenderInv, StoreInv, NEW c \in Calls, NEW k \in Renders, PassCommit(c, k), NEW r \in Renders
    PROVE Fences(r)
<1>1. PICK d, n : d = DocOf(c) /\ n = Len(tries[d]) + 1
  OBVIOUS
<1>2. d \in Documents /\ SourceOf[d] # None
  BY <1>1 DEF PassCommit, RenderInv, CallSound, At
<1>3. DOMAIN tries[d] = 1 .. Len(tries[d]) /\ Len(tries[d]) \in Nat /\ n \in Nat /\ tries[d] \in Seq(TryRecord)
  BY <1>1, <1>2, LenProperties DEF RenderInv, RenderTyped
<1>4. PICK row : row.doc = d /\ row.attempt = n /\ renders' = [renders EXCEPT ![k] = row]
  <2>1. PICK x, f : renders' = [renders EXCEPT ![k] = [present |-> TRUE, digest |-> x, doc |-> d, attempt |-> n,
                                                       window |-> None, deleted |-> FALSE, expires |-> f]]
    BY <1>1 DEF PassCommit
  <2> QED
    BY <2>1
<1>5. PICK try \in TryRecord : try.state # "running" /\ tries' = [tries EXCEPT ![d] = Append(tries[d], try)]
  <2>1. PICK try : try = [state |-> "succeeded", lease |-> now, window |-> window]
    OBVIOUS
  <2>2. try \in TryRecord /\ try.state # "running"
    BY <2>1 DEF TryRecord, Tried, RenderInv, RenderTyped, StoreInv, StoreTypeOK
  <2> QED
    BY <1>1, <2>1, <2>2 DEF PassCommit
<1>6. PICK old \in Seq(TryRecord) : old = tries[d]
  BY <1>3
<1>7. Added(d, old, try)
  <2>1. RenderTyped /\ Len(old) = Len(tries[d]) /\ tries' = [tries EXCEPT ![d] = Append(old, try)]
    BY <1>5, <1>6 DEF RenderInv
  <2> QED
    BY <1>2, <2>1, AddedTry DEF Adds
<1>8. \A m : ~Running(d, m)
  BY <1>2 DEF RenderInv, TriesSound, Running
<1>9. Len(tries'[d]) = n /\ \A m : ~Running(d, m)'
  BY <1>1, <1>5, <1>6, <1>7, <1>8 DEF Added, Running
<1>10. \A m \in DOMAIN tries[d] : ~Running(d, m) => m < n
  BY <1>1, <1>3
<1> QED
  BY <1>2, <1>3, <1>4, <1>9, <1>10, FencesRow

\* The steps that insert no row.
LEMMA OthersInsertNothing ==
    ASSUME RenderInv, Next, NEW r \in Renders, renders'[r].present, ~renders[r].present
    PROVE \E c \in Calls : PublishCommit(c) \/ \E k \in Renders : PassCommit(c, k)
<1> DEFINE Inserts == \E c \in Calls : PublishCommit(c) \/ \E k \in Renders : PassCommit(c, k)
<1>0. ~UNCHANGED renders
  OBVIOUS
<1>1. ASSUME NEW c \in Calls, Submit(c) PROVE Inserts
  <2>1. ASSUME \/ (\E d \in Documents : Ask(c, d)) \/ Reuse(c) \/ Refuse(c) \/ BeginAttempt(c) \/ PassBegin(c)
               \/ PublishBegin(c) \/ Superseded(c) \/ ThemeChanged(c) \/ RenderFails(c) \/ MarkFailed(c)
               \/ PublishFails(c) \/ \E k \in Renders, x \in Digests : PublishFile(c, k, x)
        PROVE UNCHANGED renders
    BY <2>1 DEF Ask, Reuse, Refuse, BeginAttempt, PassBegin, PublishBegin, Superseded, ThemeChanged,
                RenderFails, MarkFailed, PublishFails, PublishFile, OnlyCalls
  <2>2. PublishCommit(c) \/ \E k \in Renders : PassCommit(c, k)
    BY <1>0, <1>1, <2>1, Zenon DEF Submit
  <2> QED
    BY <2>2
<1>2. ASSUME NEW c \in Calls, Deliver(c) \/ Abandon(c) PROVE UNCHANGED renders
  BY <1>2 DEF Deliver, Permit, Suppress, TooLate, Report, Send, Abandon, OnlyCalls, OnlyIntents
<1>3. ASSUME NEW k \in Renders, Delete(k) PROVE FALSE
  <2>1. renders' = renders \/ renders' = [renders EXCEPT ![k].deleted = TRUE]
    BY <1>3 DEF Delete, DeleteBegin, DeleteCommit, DeleteRemove
  <2>2. renders'[r] = renders[r] \/ renders'[r] = [renders[r] EXCEPT !.deleted = TRUE]
    BY <2>1 DEF RenderInv, RenderTyped
  <2>3. renders[r] \in RenderRecord
    BY DEF RenderInv, RenderTyped
  <2> QED
    BY <2>2, <2>3, SMT DEF RenderRecord
<1>4. ASSUME Tick \/ ChangeWindow \/ Crash \/ ToolNext PROVE UNCHANGED renders
  BY <1>4, ToolsRenderNothing DEF Tick, ChangeWindow, Crash, StopTools
<1> HIDE DEF Inserts
<1>5. Inserts
  BY <1>0, <1>1, <1>2, <1>3, <1>4, Zenon DEF Next
<1> QED
  BY <1>5 DEF Inserts

\* Only the newest attempt publishes: when a row appears no attempt runs, none is
\* newer, and earlier rows came from earlier attempts, although a renderer may
\* answer after its lease (render_service.py:394-424).
THEOREM FencesPublication == Spec => FencedPublication
<1> DEFINE Fenced == \A r \in Renders : ~renders[r].present /\ renders'[r].present =>
          LET d == renders'[r].doc  n == renders'[r].attempt IN
          /\ n = Len(tries'[d])
          /\ \A m \in DOMAIN tries'[d] : tries'[d][m].state # "running"
          /\ \A q \in Renders : renders[q].present /\ renders[q].doc = d => renders[q].attempt < n
<1>1. ASSUME IInv, [Next]_vars PROVE Fenced
  <2> SUFFICES ASSUME NEW r \in Renders PROVE Fences(r)
    BY DEF Fences
  <2>1. CASE UNCHANGED vars
    BY <2>1 DEF vars, Fences
  <2>2. CASE Next
    <3>1. CASE ~renders[r].present /\ renders'[r].present
      BY <1>1, <2>2, <3>1, OthersInsertNothing, PublishFences, PassFences DEF IInv
    <3>2. CASE ~(~renders[r].present /\ renders'[r].present)
      BY <3>2 DEF Fences
    <3> QED
      BY <3>1, <3>2
  <2> QED
    BY <1>1, <2>1, <2>2
<1>2. IInv /\ [Next]_vars => [Fenced]_vars
  BY <1>1
<1> HIDE DEF Fenced
<1>3. Spec => [][Fenced]_vars
  BY <1>2, StaysSound, PTL DEF Spec
<1> QED
  BY <1>3 DEF Fenced, FencedPublication

-------------------------------------------------------------------------------
(* At most one delivery.                                                   *)

permitted == {d \in Documents : \E c \in Calls : DocOf(c) = d /\ At(c, "permitted")}
sent == {d \in Documents : sends[d] > 0}
confirmed == {d \in Documents : \E k \in IntentKeys : intents[<<d, k>>].status = "succeeded"}

\* One call's turn gives a permission, or takes it back.
LEMMA PermitsTurn ==
    ASSUME OneMay, NEW c \in Calls, \A e \in Calls \ {c} : calls'[e] = calls[e],
           calls'[c].stage # "permitted"
    PROVE permitted' = IF At(c, "permitted") THEN permitted \ {DocOf(c)} ELSE permitted
<1>1. CASE At(c, "permitted")
  <2>1. \A e \in Calls \ {c} : At(e, "permitted") => DocOf(e) # DocOf(c)
    BY <1>1 DEF OneMay, May, At
  <2>2. ASSUME NEW d \in Documents
        PROVE (\E e \in Calls : calls'[e].doc = d /\ calls'[e].stage = "permitted")
              <=> (\E e \in Calls : DocOf(e) = d /\ At(e, "permitted")) /\ d # DocOf(c)
    BY <1>1, <2>1 DEF DocOf, At
  <2> QED
    BY <1>1, <2>2 DEF permitted, DocOf, At
<1>2. CASE ~At(c, "permitted")
  <2>1. ASSUME NEW d \in Documents
        PROVE (\E e \in Calls : calls'[e].doc = d /\ calls'[e].stage = "permitted")
              <=> (\E e \in Calls : DocOf(e) = d /\ At(e, "permitted"))
    BY <1>2 DEF DocOf, At
  <2> QED
    BY <1>2, <2>1 DEF permitted, DocOf, At
<1> QED
  BY <1>1, <1>2

\* A step that is about no intent and no message gives a permission back or is
\* none of the abstract delivery's.
LEMMA GivesUp ==
    ASSUME RenderInv, DeliveryInv, NEW c \in Calls, TurnsStill(c), UNCHANGED <<intents, sends>>
    PROVE Delivery!Next \/ UNCHANGED Delivery!vars
<1>1. calls'[c].stage # "permitted" /\ \A e \in Calls \ {c} : calls'[e] = calls[e]
  BY DEF TurnsStill, RenderInv, RenderTyped
<1>2. permitted' = IF At(c, "permitted") THEN permitted \ {DocOf(c)} ELSE permitted
  BY <1>1, PermitsTurn DEF DeliveryInv
<1>3. sent' = sent /\ confirmed' = confirmed
  BY DEF sent, confirmed
<1>4. CASE At(c, "permitted")
  <2>1. PICK d \in Documents : d = DocOf(c)
    BY <1>4, Named DEF At
  <2>2. d \in permitted /\ permitted' = permitted \ {d}
    BY <1>2, <1>4, <2>1 DEF permitted
  <2>3. Delivery!GiveUp(d)
    BY <1>3, <2>2 DEF Delivery!GiveUp, permitted, sent, confirmed
  <2> QED
    BY <2>3 DEF Delivery!Next
<1>5. CASE ~At(c, "permitted")
  BY <1>2, <1>3, <1>5 DEF Delivery!vars, permitted, sent, confirmed
<1> QED
  BY <1>4, <1>5

\* Nobody is permitted anything new.
LEMMA CallsAsTheyWere ==
    ASSUME UNCHANGED <<intents, sends>>,
           \A e \in Calls : \/ calls'[e] = calls[e]
                            \/ calls[e].stage # "permitted" /\ calls'[e].stage # "permitted"
    PROVE UNCHANGED Delivery!vars
<1>1. permitted' = permitted
  BY DEF permitted, DocOf, At
<1>2. sent' = sent /\ confirmed' = confirmed
  BY DEF sent, confirmed
<1> QED
  BY <1>1, <1>2 DEF Delivery!vars, permitted, sent, confirmed

\* Permit is the abstract Permit.
LEMMA PermitPromises ==
    ASSUME RenderInv, DeliveryInv, NEW c \in Calls, Permit(c)
    PROVE Delivery!Next
<1>0. At(c, "received") /\ intents[Name(c)].status = "none" /\ UNCHANGED sends
  BY DEF Permit, OnlyIntents
<1>1. PICK d \in Documents, k \in IntentKeys : d = DocOf(c) /\ k = calls[c].key
  BY <1>0, Named DEF At
<1>2. sends[d] = 0 /\ \A e \in Calls : May(e) => DocOf(e) # d
  BY <1>0, <1>1, PermitsOnce DEF At
<1>3. PICK new : Goes(c, new) /\ new.stage = "permitted"
  BY Moves DEF Permit, RenderInv, CallStages
<1>4. calls'[c] = new /\ \A e \in Calls \ {c} : calls'[e] = calls[e]
  BY <1>3, Turned DEF Goes, RenderInv
<1>5. permitted' = permitted \cup {d}
  <2>1. ASSUME NEW x \in Documents
        PROVE (\E e \in Calls : calls'[e].doc = x /\ calls'[e].stage = "permitted")
              <=> (\E e \in Calls : DocOf(e) = x /\ At(e, "permitted")) \/ x = d
    BY <1>0, <1>1, <1>3, <1>4 DEF Goes, DocOf, At
  <2> QED
    BY <2>1 DEF permitted, DocOf, At
<1>6. d \notin permitted \cup sent
  BY <1>2 DEF permitted, sent, May, At
<1>7. sent' = sent
  BY <1>0 DEF sent
<1>8. confirmed' = confirmed
  <2>1. intents \in [Documents \X IntentKeys -> IntentRecord]
    BY DEF RenderInv, RenderTyped
  <2>2. PICK i : i.status = "pending" /\ intents' = [intents EXCEPT ![<<d, k>>] = i]
    <3>1. PICK l : intents' = [intents EXCEPT ![<<d, k>>] =
                                 [status |-> "pending", row |-> calls[c].row, deadline |-> l]]
      BY <1>1 DEF Permit, Name
    <3> QED
      BY <3>1
  <2>3. \A x \in Documents : \A q \in IntentKeys :
            intents'[<<x, q>>].status = "succeeded" <=> intents[<<x, q>>].status = "succeeded"
    BY <1>0, <1>1, <2>1, <2>2 DEF Name
  <2> QED
    BY <2>3 DEF confirmed
<1>9. Delivery!Permit(d)
  BY <1>5, <1>6, <1>7, <1>8 DEF Delivery!Permit, permitted, sent, confirmed
<1> QED
  BY <1>9 DEF Delivery!Next

\* Send is the abstract Send, or GiveUp when the platform did not take it.
LEMMA SendPromises ==
    ASSUME RenderInv, DeliveryInv, NEW c \in Calls, NEW o \in Outcomes, NEW b \in BOOLEAN, Send(c, o, b)
    PROVE Delivery!Next
<1>0. At(c, "permitted") /\ UNCHANGED intents
  BY DEF Send
<1>1. PICK d \in Documents : d = DocOf(c)
  BY <1>0, Named DEF At
<1>2. PICK new : Goes(c, new) /\ new.stage = "sent"
  BY Sends DEF Send, RenderInv
<1>3. calls'[c] = new /\ \A e \in Calls \ {c} : calls'[e] = calls[e]
  BY <1>2, Turned DEF Goes, RenderInv
<1>4. d \in permitted /\ permitted' = permitted \ {d}
  <2>1. permitted' = IF At(c, "permitted") THEN permitted \ {DocOf(c)} ELSE permitted
    BY <1>2, <1>3, PermitsTurn DEF DeliveryInv
  <2> QED
    BY <1>0, <1>1, <2>1 DEF permitted
<1>5. confirmed' = confirmed
  BY <1>0 DEF confirmed
<1>6. sent' = IF b THEN sent \cup {d} ELSE sent
  <2>1. sends \in [Documents -> Nat]
    BY DEF RenderInv, RenderTyped
  <2>2. PICK n \in Nat : n = IF b THEN sends[d] + 1 ELSE sends[d]
    BY <2>1
  <2>3. sends' = [sends EXCEPT ![d] = n]
    BY <1>1, <2>2 DEF Send
  <2>4. \A x \in Documents : sends'[x] > 0 <=> sends[x] > 0 \/ (b /\ x = d)
    BY <2>1, <2>2, <2>3
  <2> QED
    BY <2>4 DEF sent
<1>7. Delivery!Send(d) \/ Delivery!GiveUp(d)
  BY <1>4, <1>5, <1>6 DEF Delivery!Send, Delivery!GiveUp, permitted, sent, confirmed
<1> QED
  BY <1>7 DEF Delivery!Next

\* A report of success is the abstract Confirm.
LEMMA AnswersPromise ==
    ASSUME RenderInv, DeliveryInv, NEW c \in Calls, Suppress(c) \/ Report(c)
    PROVE Delivery!Next \/ UNCHANGED Delivery!vars
<1>0. (At(c, "received") \/ At(c, "sent")) /\ UNCHANGED sends
  BY DEF Suppress, Report, OnlyIntents
<1>1. PICK d \in Documents, k \in IntentKeys : d = DocOf(c) /\ k = calls[c].key
  BY <1>0, Named DEF At
<1>2. At(c, "sent") => calls[c].outcome \in Outcomes /\ (calls[c].outcome = "succeeded" => sends[d] > 0)
  BY <1>1 DEF DeliveryInv, Permitted, May, At
<1>3. PICK s \in {"none", "pending"} \cup Outcomes :
          /\ intents' = [intents EXCEPT ![Name(c)].status = s]
          /\ intents[Name(c)].status = "succeeded" => s = "succeeded"
          /\ s = "succeeded" => intents[Name(c)].status = "succeeded" \/ sends[d] > 0
  <2>1. CASE Suppress(c)
    BY <2>1, SuppressStep
  <2>2. CASE Report(c)
    <3>1. At(c, "sent")
      BY <2>2 DEF Report
    <3> QED
      BY <1>2, <2>2, <3>1, ReportStep
  <2> QED
    BY <2>1, <2>2
<1>4. /\ Status(d, k)' = s /\ Status(d, k) = intents[Name(c)].status
      /\ \A x \in Documents : \A q \in IntentKeys : ~(x = d /\ q = k) => Status(x, q)' = Status(x, q)
  BY <1>1, <1>3, Rewritten DEF RenderInv, Name, Status
<1>5. confirmed' = confirmed \/ (d \in sent /\ confirmed' = confirmed \cup {d})
  <2>1. CASE s = "succeeded" /\ Status(d, k) # "succeeded"
    <3>1. d \in sent
      BY <1>3, <1>4, <2>1 DEF sent
    <3>2. \A x \in Documents : (\E q \in IntentKeys : Status(x, q)' = "succeeded")
              <=> (\E q \in IntentKeys : Status(x, q) = "succeeded") \/ x = d
      BY <1>1, <1>4, <2>1
    <3> QED
      BY <3>1, <3>2 DEF confirmed, Status
  <2>2. CASE ~(s = "succeeded" /\ Status(d, k) # "succeeded")
    <3>1. \A x \in Documents : \A q \in IntentKeys : Status(x, q)' = "succeeded" <=> Status(x, q) = "succeeded"
      BY <1>3, <1>4, <2>2
    <3> QED
      BY <3>1 DEF confirmed, Status
  <2> QED
    BY <2>1, <2>2
<1>6. permitted' = permitted /\ sent' = sent
  <2>1. PICK new : calls' = [calls EXCEPT ![c] = new] /\ new.stage # "permitted"
    <3>1. CASE Drop(c)
      BY <3>1, FreshCalls DEF Drop, Turns
    <3>2. CASE Turns(c, [Idle EXCEPT !.stage = "asking", !.doc = DocOf(c), !.key = "renewal", !.retried = TRUE])
      <4>1. PICK new \in CallRecord :
                /\ new = [Idle EXCEPT !.stage = "asking", !.doc = d, !.key = "renewal", !.retried = TRUE]
                /\ new.stage = "asking"
        BY FreshCalls
      <4>2. calls' = [calls EXCEPT ![c] = new]
        BY <1>1, <3>2, <4>1 DEF Turns
      <4> QED
        BY <4>1, <4>2
    <3> QED
      BY <3>1, <3>2 DEF Suppress, Report
  <2>2. calls'[c].stage # "permitted" /\ \A e \in Calls \ {c} : calls'[e] = calls[e]
    BY <2>1 DEF RenderInv, RenderTyped
  <2>3. permitted' = IF At(c, "permitted") THEN permitted \ {DocOf(c)} ELSE permitted
    BY <2>2, PermitsTurn DEF DeliveryInv
  <2> QED
    BY <1>0, <2>3 DEF sent, At
<1>7. Delivery!Confirm(d) \/ UNCHANGED Delivery!vars
  BY <1>5, <1>6 DEF Delivery!Confirm, Delivery!vars, permitted, sent, confirmed
<1> QED
  BY <1>7 DEF Delivery!Next

\* Every step is one of the abstract delivery, or none.
LEMMA PromiseKept ==
    ASSUME RenderInv, DeliveryInv, Next
    PROVE Delivery!Next \/ UNCHANGED Delivery!vars
<1> DEFINE Promised == Delivery!Next \/ UNCHANGED Delivery!vars
<1> SUFFICES Promised
  OBVIOUS
<1>0. RenderTyped
  BY DEF RenderInv
<1>1. ASSUME UNCHANGED renderVars PROVE Promised
  BY <1>1, CallsAsTheyWere DEF renderVars
<1>2. ASSUME NEW c \in Calls, Submit(c) PROVE Promised
  BY <1>2, SubmitStill, GivesUp
<1>3. ASSUME NEW c \in Calls, Deliver(c) PROVE Promised
  <2>1. ASSUME TooLate(c) PROVE Promised
    BY <2>1, TooLateStill, GivesUp
  <2>2. ASSUME Suppress(c) \/ Report(c) PROVE Promised
    BY <2>2, AnswersPromise
  <2>3. ASSUME NEW o \in Outcomes, NEW b \in BOOLEAN, Send(c, o, b) PROVE Promised
    BY <2>3, SendPromises
  <2>4. ASSUME Permit(c) PROVE Promised
    BY <2>4, PermitPromises
  <2> HIDE DEF Promised
  <2> QED
    BY <1>3, <2>1, <2>2, <2>3, <2>4, Zenon DEF Deliver
<1>4. ASSUME NEW c \in Calls, Abandon(c) PROVE Promised
  <2>1. TurnsStill(c) /\ UNCHANGED <<intents, sends>>
    BY <1>0, <1>4, DroppedStill DEF Abandon
  <2> QED
    BY <2>1, GivesUp
<1>5. ASSUME NEW r \in Renders, Delete(r) PROVE Promised
  <2>1. UNCHANGED <<calls, intents, sends>>
    BY <1>5 DEF Delete, DeleteBegin, DeleteCommit, DeleteRemove
  <2> QED
    BY <2>1, CallsAsTheyWere
<1>6. ASSUME ChangeWindow PROVE Promised
  BY <1>6, CallsAsTheyWere DEF ChangeWindow
<1>7. ASSUME Crash PROVE Promised
  <2>1. UNCHANGED <<intents, sends>> /\ \A e \in Calls : IF calls[e].stage \in Served THEN calls'[e] = Idle ELSE calls'[e] = calls[e]
    BY <1>7 DEF Crash
  <2> QED
    BY <2>1, FreshCalls, CallsAsTheyWere DEF Served
<1> HIDE DEF Promised
<1> QED
  BY <1>1, <1>2, <1>3, <1>4, <1>5, <1>6, <1>7, Zenon DEF Next

\* A document goes out at most once, whatever is asked again, given up, reported
\* late or lost, under both keys and by all calls: rendering and delivery
\* implement the delivery at most once (create_delivery_intent,
\* complete_delivery_intent, and render_document of the bridge).
THEOREM DocumentsDeliveredAtMostOnce == Spec => DeliversAtMostOnce
<1>1. Init => Delivery!Init
  <2> SUFFICES ASSUME Init PROVE Delivery!Init
    OBVIOUS
  <2>1. permitted = {}
    BY FreshCalls DEF Init, RenderInit, permitted, At
  <2>2. sent = {} /\ confirmed = {}
    BY DEF Init, RenderInit, sent, confirmed, NoIntent, IntentKeys
  <2> QED
    BY <2>1, <2>2 DEF Delivery!Init, permitted, sent, confirmed
<1>2. IInv /\ [Next]_vars => [Delivery!Next]_(Delivery!vars)
  <2> SUFFICES ASSUME IInv, Next \/ UNCHANGED vars PROVE Delivery!Next \/ UNCHANGED Delivery!vars
    OBVIOUS
  <2>1. CASE Next
    BY <2>1, PromiseKept DEF IInv
  <2>2. CASE UNCHANGED vars
    BY <2>2, CallsAsTheyWere DEF vars, renderVars
  <2> QED
    BY <2>1, <2>2
<1> QED
  BY <1>1, <1>2, StaysSound, PTL DEF Spec, DeliversAtMostOnce, Delivery!Spec
===============================================================================
