------------------------------ MODULE EventDelivery ------------------------------
(***************************************************************************)
(* One bridge delivers its events to Core.  Every event is captured in the *)
(* spool before it is sent.  The replay worker posts the pending records   *)
(* in order, one at a time; a claim posts the record of its own event at   *)
(* once, next to the worker.  Requests may be lost, late or repeated and   *)
(* answers may not come; the bridge may stop at any point and find its     *)
(* file damaged when it starts again.                                      *)
(***************************************************************************)
EXTENDS DurableSpool, IngressReceipts

CONSTANT StartOutcomes  \* how a start of the bridge may find its spool

ASSUME StartAssumption == StartOutcomes \subseteq {"opened", "damaged", "failed"}

VARIABLES
    reporter,  \* where the bridge's reporter stands, see ReporterStates
    worker,    \* the record _run_spool has posted and not settled, or None
    claiming,  \* the keys for which request_claim is running
    sent,      \* the records ever posted; a post stays in the network
    arrived    \* those that Core has worked on at least once

core == <<receipts, watermark>>
vars == <<disk, core, reporter, worker, claiming, sent, arrived>>

\* The replay task runs or waits for its restart; _spool_start_error is set in
\* the last two: "blind" while the task still runs, "stopped" when it does not.
ReporterStates == {"running", "restarting", "blind", "stopped"}
Captures == reporter \in {"running", "restarting"}
Replays == reporter \in {"running", "blind"}

TypeOK ==
    /\ DiskTypeOK
    /\ CoreTypeOK
    /\ reporter \in ReporterStates
    /\ worker \in Record \cup {None}
    /\ claiming \subseteq Keys
    /\ sent \subseteq Record
    /\ arrived \subseteq sent

Init ==
    /\ DiskInit
    /\ CoreInit
    /\ reporter = "running"
    /\ worker = None
    /\ claiming = {}
    /\ sent = {}
    /\ arrived = {}

-------------------------------------------------------------------------------
(* Capture.                                                                *)

\* enqueue.  An event that is known already is left as it is.
Enqueue(k, c, old) ==
    /\ Captures
    /\ Append(k, c, old)
    /\ UNCHANGED <<core, reporter, worker, claiming, sent, arrived>>

\* The quota is used up: neither a report nor a claim goes on.
Reject(k, old) ==
    /\ Captures
    /\ RejectForQuota(k, old)
    /\ UNCHANGED <<core, reporter, worker, claiming, sent, arrived>>

\* request_claim captures the event, or finds it captured, and posts it.
Claim(k, c, old) ==
    /\ Captures
    /\ k \notin claiming
    /\ claiming' = claiming \cup {k}
    /\ \/ /\ Append(k, c, old)
          /\ sent' = sent \cup {NewRecord(k, c)}
       \/ /\ Known(k, c)
          /\ sent' = sent \cup {identity[k]}
          /\ UNCHANGED disk
    /\ UNCHANGED <<core, reporter, worker, arrived>>

-------------------------------------------------------------------------------
(* Answers to a claim.  Its retries post the same record again, and nothing *)
(* but the claim ends when it gives up or is refused.                      *)

ClaimAnswered(k, old) ==
    /\ k \in claiming
    /\ identity[k] \in arrived
    /\ Confirmed(identity[k])
    /\ Acknowledge(k, old)
    /\ claiming' = claiming \ {k}
    /\ UNCHANGED <<core, reporter, worker, sent, arrived>>

ClaimEnds(k) ==
    /\ k \in claiming
    /\ claiming' = claiming \ {k}
    /\ UNCHANGED <<disk, core, reporter, worker, sent, arrived>>

-------------------------------------------------------------------------------
(* _run_spool.                                                             *)

Post(k, spoiled) ==
    /\ Replays
    /\ worker = None
    /\ k \in Pending
    /\ NextPendingIs(k, spoiled)
    /\ worker' = identity[k]
    /\ sent' = sent \cup {identity[k]}
    /\ UNCHANGED <<core, reporter, claiming, arrived>>

Idle(spoiled, old) ==
    /\ Replays
    /\ worker = None
    /\ NothingPending(spoiled, old)
    /\ UNCHANGED <<core, reporter, worker, claiming, sent, arrived>>

Settle == worker' = None /\ UNCHANGED <<core, reporter, claiming, sent, arrived>>

\* Slip: any answer of Core settles the record.
AnswerIsReceipt(old) ==
    /\ worker \in arrived
    /\ Acknowledge(worker.key, old)
    /\ Settle

WorkerReceipt(old) ==
    /\ worker \in arrived
    /\ Confirmed(worker)
    /\ Acknowledge(worker.key, old)
    /\ Settle

\* Slip: a conflict is tried again like a failure.
ConflictIsRetried ==
    /\ worker \in arrived
    /\ ~Confirmed(worker)
    /\ Retry(worker.key)
    /\ Settle

\* 409: the record is set aside.
WorkerConflict ==
    /\ worker \in arrived
    /\ ~Confirmed(worker)
    /\ Quarantine(worker.key)
    /\ Settle

\* Another status 4xx, from authentication or validation; Core did nothing.
WorkerRefused ==
    /\ worker # None
    /\ Quarantine(worker.key)
    /\ Settle

\* A timeout, 429, 5xx or an unreadable answer, whatever Core has done.
WorkerFails ==
    /\ worker # None
    /\ Retry(worker.key)
    /\ Settle

TimePasses(k) ==
    /\ BecomeDue(k)
    /\ UNCHANGED <<core, reporter, worker, claiming, sent, arrived>>

-------------------------------------------------------------------------------
(* Core, and the bridge's process.                                         *)

Arrive(r) ==
    /\ r \in sent
    /\ Ingest(r)
    /\ arrived' = arrived \cup {r}
    /\ UNCHANGED <<disk, reporter, worker, claiming, sent>>

\* An error of the database while the worker settles a record, or waits, ends
\* its task; a task that ends is started again after a second ...
WorkerExits ==
    /\ Replays
    /\ reporter' = IF reporter = "running" THEN "restarting" ELSE "stopped"
    /\ worker' = None
    /\ UNCHANGED <<disk, core, claiming, sent, arrived>>

RestartWorker ==
    /\ reporter = "restarting"
    /\ reporter' = "running"
    /\ UNCHANGED <<disk, core, worker, claiming, sent, arrived>>

\* ... unless spool_status has met an error: it is kept as _spool_start_error,
\* which ends all capture, and the restart of the task, until the next start.
StatusFails ==
    /\ Captures
    /\ reporter' = IF reporter = "running" THEN "blind" ELSE "stopped"
    /\ UNCHANGED <<disk, core, worker, claiming, sent, arrived>>

\* stop or a crash, and start, which opens the file, or makes a new one, or can
\* do neither.
Restart(outcome) ==
    /\ worker' = None
    /\ claiming' = {}
    /\ reporter' = IF outcome = "failed" THEN "stopped" ELSE "running"
    /\ IF outcome = "damaged" THEN StartAnew ELSE UNCHANGED disk
    /\ UNCHANGED <<core, sent, arrived>>

Capture(k) == \E old \in SUBSET Keys :
    \/ \E c \in Contents : Enqueue(k, c, old) \/ Claim(k, c, old)
    \/ Reject(k, old)

Answer(k) ==
    \/ \E old \in SUBSET Keys : ClaimAnswered(k, old)
    \/ ClaimEnds(k)

Poll == \E spoiled \in SUBSET Keys :
    \/ \E k \in Keys : Post(k, spoiled)
    \/ \E old \in SUBSET Keys : Idle(spoiled, old)

Answered == (\E old \in SUBSET Keys : WorkerReceipt(old)) \/ WorkerConflict

Next ==
    \/ \E k \in Keys : Capture(k) \/ Answer(k) \/ TimePasses(k)
    \/ Poll
    \/ Answered
    \/ WorkerRefused
    \/ WorkerFails
    \/ \E r \in sent : Arrive(r)
    \/ WorkerExits
    \/ RestartWorker
    \/ StatusFails
    \/ \E outcome \in StartOutcomes : Restart(outcome)

Spec == Init /\ [][Next]_vars

\* The clock of the worker runs, its task is started again, and neither its
\* loop nor the posting of a record fails every time.
FairSpec ==
    /\ Spec
    /\ SF_vars(Poll)
    /\ WF_vars(RestartWorker)
    /\ \A k \in Keys : WF_vars(TimePasses(k))
    /\ WF_vars(\E r \in sent : r \notin arrived /\ Arrive(r))
    /\ SF_vars(Answered)

-------------------------------------------------------------------------------
(* Properties.                                                             *)

\* C0D_ACCEPTANCE.md, "delete or compact only records covered by a matching
\* Core commit receipt": a number the file has given is still in it, or is
\* stored under exactly this binding.
NothingLost ==
    \A k \in Keys : identity[k] # None =>
        row[k] \in {"due", "waiting", "quarantined"} \/ Confirmed(identity[k])

\* "Restart replay preserves spool_id, sequence and record hash exactly": by
\* whatever path, and however often, the records a bridge sends under one key,
\* or under one sequence, of a spool are one record.
OneBinding ==
    \A q, r \in sent : q.spool = r.spool /\ (q.key = r.key \/ q.sequence = r.sequence)
                          => q = r

\* A record is refused for its binding only when the event has come in from
\* another file of the bridge: before or after one was damaged and replaced.
ConflictHasACause ==
    \A r \in arrived : ~Confirmed(r) =>
        receipts[r.key] # None /\ receipts[r.key].spool # r.spool

\* CONTRACTS.md, "the spool's highest-seen/contiguous sequence": records come
\* out of order, and still the mark ends exactly where the first gap begins.
WatermarkExact ==
    \A s \in Spools :
        /\ 1 .. watermark[s].contiguous \subseteq Received(s)
        /\ watermark[s].contiguous + 1 \notin Received(s)
        /\ \A n \in Received(s) : n <= watermark[s].seen
        /\ watermark[s].seen \in Received(s) \cup {0}

\* No record stays at the head of the queue for ever: once Core answers, what
\* was captured is confirmed or set aside, unless an error of spool_status has
\* disabled the spool.
Drains == \A k \in Keys : k \in Pending /\ Captures ~> k \notin Pending \/ ~Captures

\* reporter.py, "A transient SQLite error must not silently kill the replay task":
\* a task that has ended is started again.
ReplayResumes == ~Replays ~> Replays

\* The delivery implements EventOutbox: a record is held while its row is
\* pending or set aside, and offered when it is first sent.
InHand == {k \in Keys : row[k] \in {"due", "waiting", "quarantined"}}
HeldRecords == {identity[k] : k \in InHand}

Outbox == INSTANCE EventOutbox WITH
    held <- HeldRecords, offered <- sent, stored <- Stored

DeliversAsPromised == Outbox!Spec
================================================================================
