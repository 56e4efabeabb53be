----------------------------- MODULE RenderDelivery -----------------------------
(***************************************************************************)
(* Documents rendered by Core and delivered by a bridge, on the store the  *)
(* tool artifacts use.  A call of the bridge asks for a document under a   *)
(* stable key; Core reuses a live artifact or runs one fenced render       *)
(* attempt, publishes the image and plans its delivery; the call then asks *)
(* for an intent, which permits one sending, fetches the image, sends it   *)
(* and reports.  Calls repeat and overlap, bridge and Core may stop, the   *)
(* theme window may change, artifacts expire or are deleted.               *)
(***************************************************************************)
EXTENDS ToolArtifacts, Sequences

CONSTANTS
    Documents,      \* documents, by instance and idempotency key
    SourceOf,       \* [Documents -> the tool artifact it passes through, or None]
    Calls,          \* calls of the bridge being served at one time
    RenderLease,    \* render_timeout_seconds + 10
    RenderTTL,      \* render_artifact_ttl_seconds
    IntentSeconds,  \* render_delivery_intent_seconds
    MaxAttempts,    \* bound: render attempts of one document
    MaxWindows      \* bound: changes of the theme window

ASSUME RenderAssumption ==
    /\ None \notin Documents \cup Calls
    /\ SourceOf \in [Documents -> Artifacts \cup {None}]
    /\ {RenderLease, RenderTTL, IntentSeconds, MaxAttempts, MaxWindows} \subseteq Nat

VARIABLES
    window,    \* theme_window(now).key
    documents, \* [Documents -> status of render_documents]
    tries,     \* [Documents -> sequence of render_attempts]
    calls,     \* [Calls -> [stage, doc, key, retried, attempt, row, digest, outcome]]
    deleting,  \* [Renders -> stage of a deletion]
    intents,   \* [Documents \X IntentKeys -> [status, row, deadline]]
    sends      \* [Documents -> messages the platform took]

renderVars == <<window, documents, tries, calls, deleting, intents, sends>>
vars == <<storeVars, artifacts, renders, toolVars, renderVars>>

\* nekro-delivery:<key>, and the same with :theme-renewal.
IntentKeys == {"first", "renewal"}

OnlyCalls == UNCHANGED <<storeVars, artifacts, renders, toolVars, window, documents,
                         tries, deleting, intents, sends>>
OnlyIntents == UNCHANGED <<storeVars, artifacts, renders, toolVars, window, documents,
                           tries, deleting, sends>>

Idle == [stage |-> "idle", doc |-> None, key |-> "first", retried |-> FALSE,
         attempt |-> 0, row |-> None, digest |-> None, outcome |-> "none"]
NoIntent == [status |-> "none", row |-> None, deadline |-> 0]

At(c, stage) == calls[c].stage = stage
DocOf(c) == calls[c].doc
Turns(c, call) == calls' = [calls EXCEPT ![c] = call]
Move(c, stage) == Turns(c, [calls[c] EXCEPT !.stage = stage])
Drop(c) == Turns(c, Idle)

\* The render_documents row is locked by a publication until it commits.
RecordFree(d) ==
    \A c \in Calls : DocOf(c) = d => calls[c].stage \notin {"publishing", "linked", "passing"}

RenderInit ==
    /\ renders = [r \in Renders |-> NoRender]
    /\ window = 0
    /\ documents = [d \in Documents |-> "none"]
    /\ tries = [d \in Documents |-> <<>>]
    /\ calls = [c \in Calls |-> Idle]
    /\ deleting = [r \in Renders |-> "idle"]
    /\ intents = [i \in Documents \X IntentKeys |-> NoIntent]
    /\ sends = [d \in Documents |-> 0]

-------------------------------------------------------------------------------
(* submit_render_document.                                                 *)

\* A row of this document made from the same inputs, whose object is there.
Reusable(d) ==
    {r \in Renders : /\ renders[r].present /\ renders[r].doc = d
                     /\ renders[r].expires > now /\ ~renders[r].deleted
                     /\ renders[r].window = IF SourceOf[d] = None THEN window ELSE None
                     /\ Exists(renders[r].digest)}

Running(d, n) == n \in DOMAIN tries[d] /\ tries[d][n].state = "running"
Leased(d) == Running(d, Len(tries[d])) /\ tries[d][Len(tries[d])].lease > now

Ask(c, d) ==
    /\ At(c, "idle")
    /\ Turns(c, [Idle EXCEPT !.stage = "asking", !.doc = d])
    /\ OnlyCalls

Reuse(c) ==
    /\ At(c, "asking") /\ RecordFree(DocOf(c))
    /\ \E r \in Reusable(DocOf(c)) :
          Turns(c, [calls[c] EXCEPT !.stage = "received", !.row = r])
    /\ OnlyCalls

\* render_in_progress.
Refuse(c) ==
    /\ At(c, "asking") /\ RecordFree(DocOf(c))
    /\ Reusable(DocOf(c)) = {} /\ Leased(DocOf(c))
    /\ Drop(c)
    /\ OnlyCalls

\* An attempt whose lease is over is abandoned for a new one.
Abandoned(d) ==
    [n \in DOMAIN tries[d] |-> IF Running(d, n) THEN [tries[d][n] EXCEPT !.state = "abandoned"]
                                                ELSE tries[d][n]]

BeginAttempt(c) ==
    LET d == DocOf(c) IN
    /\ At(c, "asking") /\ RecordFree(d)
    /\ SourceOf[d] = None
    /\ Reusable(d) = {} /\ ~Leased(d)
    /\ Len(tries[d]) < MaxAttempts
    /\ tries' = [tries EXCEPT ![d] =
          Append(Abandoned(d), [state |-> "running", lease |-> now + RenderLease, window |-> window])]
    /\ documents' = [documents EXCEPT ![d] = "pending"]
    /\ Turns(c, [calls[c] EXCEPT !.stage = "rendering", !.attempt = Len(tries[d]) + 1])
    /\ UNCHANGED <<storeVars, artifacts, renders, toolVars, window, deleting, intents, sends>>

SetTry(d, n, state) ==
    tries' = [tries EXCEPT ![d] = [tries[d] EXCEPT ![n] = [tries[d][n] EXCEPT !.state = state]]]

\* Slip: the attempt's state is not read again after the renderer answered.
PublishStale(c) ==
    /\ At(c, "rendering") /\ RecordFree(DocOf(c))
    /\ tries[DocOf(c)][calls[c].attempt].window = window
    /\ Move(c, "publishing")
    /\ OnlyCalls

\* The renderer answered: the record is locked and the fence checked.
PublishBegin(c) ==
    LET d == DocOf(c)  n == calls[c].attempt IN
    /\ At(c, "rendering") /\ RecordFree(d)
    /\ Running(d, n) /\ n = Len(tries[d])
    /\ tries[d][n].window = window
    /\ Move(c, "publishing")
    /\ OnlyCalls

Superseded(c) ==
    /\ At(c, "rendering") /\ RecordFree(DocOf(c))
    /\ ~Running(DocOf(c), calls[c].attempt) \/ calls[c].attempt # Len(tries[DocOf(c)])
    /\ Drop(c)
    /\ OnlyCalls

\* render_theme_changed, seen before or after the file was linked, is tried again
\* from the beginning (the code does so once; a call that gives up instead is
\* RenderFails or PublishFails).
ThemeChanged(c) ==
    LET d == DocOf(c)  n == calls[c].attempt IN
    /\ \/ At(c, "rendering") /\ RecordFree(d) /\ Running(d, n) /\ n = Len(tries[d])
       \/ At(c, "linked")
    /\ tries[d][n].window # window
    /\ SetTry(d, n, "failed")
    /\ documents' = [documents EXCEPT ![d] = "failed"]
    /\ Turns(c, [calls[c] EXCEPT !.stage = "asking", !.row = None])
    /\ UNCHANGED <<storeVars, artifacts, renders, toolVars, window, deleting, intents, sends>>

\* The renderer failed.  _mark_attempt_failed reads the attempt without a lock
\* and writes it and the record in a later statement.
RenderFails(c) ==
    /\ At(c, "rendering")
    /\ IF Running(DocOf(c), calls[c].attempt) THEN Move(c, "failing") ELSE Drop(c)
    /\ OnlyCalls

MarkFailed(c) ==
    /\ At(c, "failing") /\ RecordFree(DocOf(c))
    /\ SetTry(DocOf(c), calls[c].attempt, "failed")
    /\ documents' = [documents EXCEPT ![DocOf(c)] = "failed"]
    /\ Drop(c)
    /\ UNCHANGED <<storeVars, artifacts, renders, toolVars, window, deleting, intents, sends>>

\* The id of a new row is random: no other call is about to insert it.
FreshRow(r) == ~renders[r].present /\ \A e \in Calls : calls[e].row # r

\* Quarantine file, link and unlink; the digest lock is not taken.
PublishFile(c, r, x) ==
    /\ At(c, "publishing") /\ FreshRow(r)
    /\ objects' = [objects EXCEPT ![x] = IF @ = None THEN now ELSE @]
    /\ Turns(c, [calls[c] EXCEPT !.stage = "linked", !.row = r, !.digest = x])
    /\ UNCHANGED <<now, quarantine, holder, artifacts, renders, toolVars, window, documents,
                   tries, deleting, intents, sends>>

\* The store refuses the file, or the window ended: the object may stay.
PublishFails(c) ==
    /\ calls[c].stage \in {"publishing", "linked"}
    /\ SetTry(DocOf(c), calls[c].attempt, "failed")
    /\ documents' = [documents EXCEPT ![DocOf(c)] = "failed"]
    /\ Drop(c)
    /\ UNCHANGED <<storeVars, artifacts, renders, toolVars, window, deleting, intents, sends>>

\* The window may still end between the reading of the clock and the commit.
PublishCommit(c) ==
    LET d == DocOf(c)  r == calls[c].row IN
    /\ At(c, "linked")
    /\ renders' = [renders EXCEPT ![r] =
          [present |-> TRUE, digest |-> calls[c].digest, doc |-> d, attempt |-> calls[c].attempt,
           window |-> tries[d][calls[c].attempt].window,
           expires |-> now + RenderTTL, deleted |-> FALSE]]
    /\ SetTry(d, calls[c].attempt, "succeeded")
    /\ documents' = [documents EXCEPT ![d] = "succeeded"]
    /\ Move(c, "received")
    /\ UNCHANGED <<storeVars, artifacts, toolVars, window, deleting, intents, sends>>

\* submit_passthrough_render_document: the bytes of a tool result, no renderer.
\* The source row and its object are read without their locks.
PassBegin(c) ==
    LET source == SourceOf[DocOf(c)] IN
    /\ At(c, "asking") /\ RecordFree(DocOf(c)) /\ source # None
    /\ Reusable(DocOf(c)) = {}
    /\ Len(tries[DocOf(c)]) < MaxAttempts
    /\ attempts[AttemptOf[source]] = "succeeded"
    /\ StateOf(source) = "finalized" /\ ~artifacts[source].deleted
    /\ artifacts[source].referenced # None /\ artifacts[source].referenced + Retention > now
    /\ Exists(artifacts[source].digest)
    /\ Move(c, "passing")
    /\ OnlyCalls

\* The row lives as long as its source is retained, and no longer.
PassCommit(c, r) ==
    LET d == DocOf(c)  source == SourceOf[d]
        kept == artifacts[source].referenced + Retention IN
    /\ At(c, "passing") /\ FreshRow(r)
    /\ renders' = [renders EXCEPT ![r] =
          [present |-> TRUE, digest |-> artifacts[source].digest, doc |-> d,
           attempt |-> Len(tries[d]) + 1, window |-> None, deleted |-> FALSE,
           expires |-> IF kept < now + RenderTTL THEN kept ELSE now + RenderTTL]]
    /\ tries' = [tries EXCEPT ![d] =
          Append(@, [state |-> "succeeded", lease |-> now, window |-> window])]
    /\ documents' = [documents EXCEPT ![d] = "succeeded"]
    /\ Turns(c, [calls[c] EXCEPT !.stage = "received", !.row = r])
    /\ UNCHANGED <<storeVars, artifacts, toolVars, window, deleting, intents, sends>>

-------------------------------------------------------------------------------
(* delete_render_artifact_content.                                         *)

DeleteBegin(r) ==
    /\ deleting[r] = "idle" /\ renders[r].present /\ ~renders[r].deleted
    /\ Free(renders[r].digest)
    /\ Acquire(renders[r].digest, r)
    /\ deleting' = [deleting EXCEPT ![r] =
          IF Unclaimed(renders[r].digest, r) THEN "last" ELSE "shared"]
    /\ UNCHANGED <<now, fileVars, artifacts, renders, toolVars, window, documents, tries,
                   calls, intents, sends>>

DeleteCommit(r) ==
    /\ deleting[r] \in {"last", "shared"}
    /\ renders' = [renders EXCEPT ![r].deleted = TRUE]
    /\ IF deleting[r] = "last"
       THEN deleting' = [deleting EXCEPT ![r] = "removing"] /\ UNCHANGED holder
       ELSE deleting' = [deleting EXCEPT ![r] = "idle"] /\ Release(renders[r].digest)
    /\ UNCHANGED <<now, fileVars, artifacts, toolVars, window, documents, tries,
                   calls, intents, sends>>

DeleteRemove(r) ==
    /\ deleting[r] = "removing"
    /\ Remove(renders[r].digest) /\ Release(renders[r].digest)
    /\ deleting' = [deleting EXCEPT ![r] = "idle"]
    /\ UNCHANGED <<now, quarantine, artifacts, renders, toolVars, window, documents, tries,
                   calls, intents, sends>>

-------------------------------------------------------------------------------
(* create_delivery_intent and complete_delivery_intent.                    *)

Name(c) == <<DocOf(c), calls[c].key>>
Expired(r) == renders[r].expires <= now
OtherWindow(r) == renders[r].window # None /\ renders[r].window # window

\* Slip: a pending intent is given out again once its deadline is over.
PermitAgain(c) ==
    LET r == calls[c].row IN
    /\ At(c, "received")
    /\ intents[Name(c)].status = "none"
       \/ (intents[Name(c)].status = "pending" /\ intents[Name(c)].deadline <= now)
    /\ ~Expired(r) /\ ~OtherWindow(r)
    /\ intents' = [intents EXCEPT ![Name(c)] =
          [status |-> "pending", row |-> r, deadline |-> now + IntentSeconds]]
    /\ Move(c, "permitted")
    /\ OnlyIntents

\* The unique key admits one; its creator may send.
Permit(c) ==
    LET r == calls[c].row IN
    /\ At(c, "received")
    /\ intents[Name(c)].status = "none"
    /\ ~Expired(r) /\ ~OtherWindow(r)
    /\ intents' = [intents EXCEPT ![Name(c)] =
          [status |-> "pending", row |-> r,
           deadline |-> IF renders[r].expires < now + IntentSeconds THEN renders[r].expires
                        ELSE now + IntentSeconds]]
    /\ Move(c, "permitted")
    /\ OnlyIntents

\* A repeated key never sends; an overdue one is written off as ambiguous.
Suppress(c) ==
    LET i == Name(c) IN
    /\ At(c, "received") /\ intents[i].status # "none"
    /\ intents' = [intents EXCEPT ![i].status =
          IF @ = "pending" /\ intents[i].row = calls[c].row /\ intents[i].deadline <= now
          THEN "ambiguous" ELSE @]
    /\ Drop(c)
    /\ OnlyIntents

\* artifact_expired: the call begins again, once, under the same key.
TooLate(c) ==
    /\ At(c, "received")
    /\ intents[Name(c)].status = "none"
    /\ Expired(calls[c].row) \/ OtherWindow(calls[c].row)
    /\ IF calls[c].retried THEN Drop(c)
       ELSE Turns(c, [calls[c] EXCEPT !.stage = "asking", !.retried = TRUE, !.row = None])
    /\ OnlyCalls

Outcomes == {"succeeded", "failed", "ambiguous", "expired"}

\* get_render_artifact, then the adapter; or the text of the plan, which needs no
\* artifact and does not look at the window.  The platform may take the message
\* and the bridge not learn of it, or be told that it failed.
Send(c, outcome, taken) ==
    LET r == calls[c].row
        fetched == ~Expired(r) /\ ~renders[r].deleted /\ Exists(renders[r].digest)
        image == /\ outcome = "expired" <=> Expired(r)
                 /\ ~fetched => outcome \in {"expired", "failed"}
                 /\ taken => fetched
        text == outcome # "expired" IN
    /\ At(c, "permitted")
    /\ image \/ text
    /\ outcome = "expired" => ~taken
    /\ outcome = "succeeded" => taken
    /\ sends' = [sends EXCEPT ![DocOf(c)] = IF taken THEN @ + 1 ELSE @]
    /\ Turns(c, [calls[c] EXCEPT !.stage = "sent", !.outcome = outcome])
    /\ UNCHANGED <<storeVars, artifacts, renders, toolVars, window, documents, tries,
                   deleting, intents>>

\* The completion of a pending intent; another one conflicts.  What was never
\* sent because the artifact had expired is asked for again under a second key.
Report(c) ==
    LET i == Name(c)
        expired == calls[c].outcome = "expired" IN
    /\ At(c, "sent")
    /\ intents' = [intents EXCEPT ![i].status =
          IF @ # "pending" THEN @ ELSE IF expired THEN "failed" ELSE calls[c].outcome]
    /\ IF intents[i].status = "pending" /\ expired /\ ~calls[c].retried
       THEN Turns(c, [Idle EXCEPT !.stage = "asking", !.doc = DocOf(c),
                                  !.key = "renewal", !.retried = TRUE])
       ELSE Drop(c)
    /\ OnlyIntents

-------------------------------------------------------------------------------
(* Faults, time, and the whole system.                                     *)

\* The bridge stops, or a request or its response is lost.
Abandon(c) ==
    /\ calls[c].stage \in {"asking", "received", "permitted", "sent"}
    /\ Fault
    /\ Drop(c)
    /\ UNCHANGED <<storeVars, artifacts, renders, attempts, uploads, finalizing, reaper, window, documents, tries,
                   deleting, intents, sends>>

Served == {"rendering", "failing", "publishing", "linked", "passing"}

Crash ==
    /\ StopTools
    /\ calls' = [c \in Calls |-> IF calls[c].stage \in Served THEN Idle ELSE calls[c]]
    /\ deleting' = [r \in Renders |-> "idle"]
    /\ UNCHANGED <<window, documents, tries, intents, sends>>

ChangeWindow ==
    /\ window < MaxWindows /\ Fault
    /\ window' = window + 1
    /\ UNCHANGED <<storeVars, artifacts, renders, attempts, uploads, finalizing, reaper, documents, tries, calls,
                   deleting, intents, sends>>

Submit(c) ==
    \/ \E d \in Documents : Ask(c, d)
    \/ Reuse(c) \/ Refuse(c) \/ BeginAttempt(c) \/ PassBegin(c)
    \/ PublishBegin(c) \/ Superseded(c) \/ ThemeChanged(c)
    \/ RenderFails(c) \/ MarkFailed(c) \/ PublishCommit(c) \/ PublishFails(c)
    \/ \E r \in Renders : PassCommit(c, r) \/ \E x \in Digests : PublishFile(c, r, x)

Deliver(c) ==
    \/ Permit(c) \/ Suppress(c) \/ TooLate(c) \/ Report(c)
    \/ \E outcome \in Outcomes, taken \in BOOLEAN : Send(c, outcome, taken)

Delete(r) == DeleteBegin(r) \/ DeleteCommit(r) \/ DeleteRemove(r)

Init == StoreInit /\ ToolInit /\ RenderInit

Next ==
    \/ ToolNext /\ UNCHANGED renderVars
    \/ Tick /\ UNCHANGED renderVars
    \/ \E c \in Calls : Submit(c) \/ Deliver(c) \/ Abandon(c)
    \/ \E r \in Renders : Delete(r)
    \/ ChangeWindow \/ Crash

Spec == Init /\ [][Next]_vars

-------------------------------------------------------------------------------
(* Properties.                                                             *)

Tried == {"running", "succeeded", "failed", "abandoned"}

\* Types, what the rows point to, and who holds a digest: whoever is between the
\* two ends of finalize or of a deletion, and nobody after a failure.
TypeOK ==
    /\ StoreTypeOK /\ ToolTypeOK
    /\ \A x \in Digests :
          /\ \A k \in Artifacts : holder[x] = k <=> finalizing[k] # "idle" /\ artifacts[k].digest = x
          /\ \A r \in Renders : holder[x] = r <=> deleting[r] # "idle" /\ renders[r].digest = x
          /\ holder[x] = "cleaner" <=> reaper.digest = x
    /\ documents \in [Documents -> {"none", "pending", "succeeded", "failed"}]
    /\ \A d \in Documents, n \in 1 .. MaxAttempts :
          n \in DOMAIN tries[d] => tries[d][n].state \in Tried
    /\ \A c \in Calls : calls[c].stage \in {"received", "permitted", "sent"} =>
          renders[calls[c].row].present
    /\ \A r \in Renders : renders[r].present =>
          /\ renders[r].doc \in Documents
          /\ renders[r].attempt \in DOMAIN tries[renders[r].doc]

\* "The database succeeded but the file is missing" does not happen to a tool
\* artifact (ADR 0012, 11): from its finalization until it is marked deleted, and
\* for the whole retention of one a completion named, the object is there,
\* whoever shares it and wherever Core stopped (tool_artifact_service.py:719-767,
\* 979-1012).
ToolContentKept ==
    \A a \in Artifacts :
        \/ StateOf(a) = "finalized" /\ ~artifacts[a].deleted
        \/ artifacts[a].referenced # None /\ artifacts[a].referenced + Retention > now
        => Exists(artifacts[a].digest)

ReferencedBySuccess ==
    \A a \in Artifacts : artifacts[a].referenced # None =>
        /\ attempts[AttemptOf[a]] = "succeeded"
        /\ StateOf(a) = "finalized"

\* A completion marks all the artifacts it names or, when one fails its checks and
\* the attempt ends failed, none (tool_execution_service.py:765-875); and no handler
\* asks for an update of an artifact the trigger aborts: what it decided on has not
\* changed when it commits, although files are written in between.
MarksAreHonest ==
    [][/\ ReferencedBySuccess'
       /\ \A a \in Artifacts :
             artifacts'[a] # artifacts[a] => Accepted(artifacts[a], artifacts'[a])]_vars

\* Only the newest attempt publishes: when a row appears no attempt runs, none is
\* newer, and earlier rows of the document came from earlier attempts, although a
\* renderer may answer after its lease and the record is locked late
\* (render_service.py:394-424, uq_render_attempts_one_running).
FencedPublication ==
    [][\A r \in Renders : ~renders[r].present /\ renders'[r].present =>
          LET d == renders'[r].doc  n == renders'[r].attempt IN
          /\ n = Len(tries'[d])
          /\ \A m \in DOMAIN tries'[d] : tries'[d][m].state # "running"
          /\ \A q \in Renders : renders[q].present /\ renders[q].doc = d => renders[q].attempt < n
      ]_vars

\* The delivery of a document, under both keys and by all calls, is the delivery
\* AtMostOnceDelivery promises.
Delivery == INSTANCE AtMostOnceDelivery WITH
    Answers   <- Documents,
    permitted <- {d \in Documents : \E c \in Calls : DocOf(c) = d /\ At(c, "permitted")},
    sent      <- {d \in Documents : sends[d] > 0},
    confirmed <- {d \in Documents : \E k \in IntentKeys : intents[<<d, k>>].status = "succeeded"}

DeliversAtMostOnce == Delivery!Spec

\* docs/PHASE4_RENDER_DOCUMENT.md:45-47: bytes are removed when the last row that
\* names them is gone.
RenderContentKept ==
    \A r \in Renders : renders[r].present /\ ~renders[r].deleted /\ renders[r].expires > now
        => Exists(renders[r].digest)
===============================================================================
