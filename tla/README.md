# Superlily: formal models

Superlily is a coordination core ("Core", FastAPI over PostgreSQL) for several
chat bots. Bridges inside the bots report what they see and may ask Core who is
to answer; tool providers pull work from Core; an agent product answers
addressed messages with a model and at most one tool; operators steer all of it
through a control plane. This directory holds TLA+ models of its protocols, the
TLC runs that check them on small instances, and theorems checked by TLAPS.

    tlc -workers 2 -config tool_retry.cfg MCToolExecution     # one run
    tlapm ToolExecution_proofs.tla                            # the proofs of one module

Paths below are relative to the repository; `core/` is
`apps/core/src/superlily_core/`.

## 1. Inventory

| Part | State it keeps | Operations | Hard behaviour | What makes it correct |
|---|---|---|---|---|
| Invocation ledger (`core/tool_invocation_service.py`) | `ToolInvocation`, `ToolConfirmation`, plan counter | create, approve / reject, cancel, reap | proposals, approvals and the reaper race; stamps older than locks | exact quota; rate limit; challenge and invocation agree |
| Execution protocol (`core/tool_execution_service.py`) | `ToolAttempt`: fence, secret, lease, deadline | lease, start, heartbeat, complete, fail, reap | concurrent leases, lost responses, late and repeated reports, retry | one live attempt per invocation; only the newest decides; limits; no retry of side effects; everything ends |
| Authority (`core/rollout_service.py`, `core/*_mutations.py`) | lifecycle and `resource_version` of plans, descriptors, providers; two settings | activate, pause, suspend, reactivate, quarantine, restore, reconfigure | rows change between a check and its use | no lease without authority; one active plan |
| Control plane (`core/control_plane.py`, `core/*_mutations.py`) | sessions, previews with evidence, the ledger of mutations | log in, preview, apply, replay | the same key twice, stale previews, races on one target, a crash between decision and commit | one answer per key; no lost update; a pause is not turned away by drift |
| Event claims (`core/service.py` 2109-2593, `core/claims.py`) | observations, decisions, `EventClaim` | observe, claim, acknowledge | several bridges see one message at different times; lost answers | an exclusive answer needs the acknowledged denial of every observer counted |
| Ingress receipts (`core/service.py` 1598-1793) | a receipt per event, a watermark per spool | ingest a record, answer its receipt or 409 | duplicates, reordering, gaps filled late, another spool | one binding per event and per sequence; the contiguous mark ends at the first gap |
| Ingestion (`core/service.py`, `core/correlation.py`, `core/decisions.py`) | source events, observations, links, platform actions, decisions | ingest an event, a response | transactions that do not see each other; history beside live delivery; references in either order | decisions are those of the policy on all that is stored; references meet their targets; one message is one source |
| Bridge spool and reporter (`bridges/*/spool.py`, `reporter.py`) | SQLite rows, identities and a sequence; one worker | capture, next, acknowledge, retry, quarantine, compact, open | crash between capture, send and acknowledgement; a claim beside the worker; damage | no captured record is forgotten before Core has it; nothing blocks the queue for ever |
| Tool artifacts (`core/tool_artifact_service.py`, `core/artifact_store.py`) | artifact rows; quarantine and object files named by digest | reserve, upload, finalize, reference, expire, clean up | file and row change in two systems; content shared between rows | what a tool artifact claims is kept; a completion marks all it references or nothing |
| Rendering and delivery (`core/render_service.py`, bridge delivery) | renders, fenced attempts, delivery intents | submit, render, publish, pass through, delete, permit, send, report | overlapping calls, expired attempts, a theme that changes, a stop after the sending | only the newest attempt publishes; a document is sent at most once |
| Agent product (`core/agent_product_service.py`, `agent_run_service.py`, `agent_tool_loop_service.py`) | interaction, run and attempts, tool loop, delivery intent | admit, plan, promote, continue, deliver, reap | two or three commits per step; restarts; late reports; the reaper beside Nekro | limits and budget hold; delivery and interaction are settled alike; a text is sent at most once |
| Providers (`packages/provider_sdk`, `apps/{status,wolfram,latex}_provider`) | the current lease, a child or worker, an artifact | poll, start, heartbeat, cancel, report | late requests, cancellation, a worker that goes on, kill and restart | who acknowledges a cancellation has stopped; one thing runs at a time; the loop comes back |
| History import (`core/history_archive_import.py`) | batch, checkpoint per scope, identity ledger | import a scope, reconcile, verify | killed between two commits, run again, run twice at once | a checkpoint never runs ahead of the rows; counts never run ahead either, and are exact with one process; a completed batch is the whole export |
| Registry (`core/tool_registry_service.py`) | descriptors, providers, reports | import, register, report | stale reports | what a preview reads of it (`ControlRows`) |
| The rest | media, directory, audit, routes, adapters, migrations, deployment | see `PROJECT.json` | data conversion and I/O | |

**Interaction.** A caller (a bridge or the agent loop) *creates* an invocation;
creation reads the registry and the authority and, with a quota slot, queues
it. A provider *leases* the oldest invocation it may run, which reads the same
authority again, and gets the fence and the only copy of a lease secret. It
reports with both, and stores pictures as artifacts on the way. The reaper loop
in Core (`core/app.py:61`) ends what nobody reports on. Operators change the
authority rows through the control plane. Bridges spool what they see; Core
ingests it, correlates the observations of several bots and recomputes its
decisions, on which claims are evaluated. All of them meet only in the database
(and the artifact store), through row and advisory locks, partial unique indexes
and time stamps taken at the beginning of each transaction. PostgreSQL runs at
its default isolation, READ COMMITTED (`core/database.py:12` sets nothing else),
so a transaction that waited for a lock sees rows newer than its time stamp, and
a row it did not lock may have moved when it commits.

`PROJECT.json` lists the hazards at the line where each bites, with the property
that would notice it.

## 2. Plan

In order of importance. All blocks are modelled and checked; the theorems to
follow are at the end.

1. `InvocationLifecycle`, `RolloutAuthority`, `ToolExecution` (composes both),
   abstract `ToolLedger`.
2. `EventClaims`, abstract `SpeakingFloor`.
3. `DurableSpool` in the bridge and `IngressReceipts` in Core, composed by
   `EventDelivery`; abstract `EventOutbox`.
4. `ControlRows`, `ControlMutations`, abstract `MutationRegister`.
5. `ArtifactStore`, `ToolArtifacts`, and `RenderDelivery` on top of them;
   the provider processes (`ProviderWorkers`).
6. `AgentRows`, `AgentRuns`; abstract `AtMostOnceDelivery`, which rendering
   implements, too.
7. `EventRows`, `EventCorrelation`; `ArchiveRows`, `ArchiveImport`.

Proved: every block, with all safety properties of their runs and their refinements.

## 3. What is modelled

### 3.1 Modules

`InvocationLifecycle` is the contract: invocation and attempt states and the
transition table of `packages/contracts/.../tool_invocation.py:67`, including
moves that one transaction makes in two listed steps.

`RolloutAuthority` has one record per plan (`lifecycle`, `version`, `consumed`),
descriptor and provider, and the two settings. Its actions are the accepted
lifecycle mutations. `Scopes` stands for what a plan item is matched by: tool,
conversation, caller. Every plan item was reviewed at version 1 of its
descriptor and provider (`Reviewed`), so any later move of either row makes the
item stale for good, as in the code.

`ToolExecution` composes them with the ledger:

| Code | Model |
|---|---|
| `create_tool_invocation` | `RejectProposal`, `RecordOnly`, `RequireConfirmation`, `QueueProposal` |
| `decide_tool_confirmation` | `DecideTooLate`, `RejectConfirmation`, `RefuseApproval`, `Approve` |
| `cancel_tool_invocation` | `CancelOpen`, `RequestCancel` |
| `lease_tool_execution` | `LeaseBegin`, `LeaseCommit`, `LeaseAbort` |
| `start` / `heartbeat` / `complete` / `fail_tool_execution` | `Start`, `Heartbeat`, `Complete`, `Fail` |
| `reap_expired_attempts`, `reap_expired_invocations` | `ReapAttempts`, `ReapInvocations` |
| lifecycle mutations, a restart with other settings | `Operate`, `Restart` |

How transactions are modelled:

* A handler that decides on rows it holds locked until commit is one action.
  `lease_tool_execution` decides on the descriptor and on counts of attempts it
  has not locked, so it is two: `LeaseBegin` decides, `LeaseCommit` inserts the
  attempt, and anything not locked may happen between. `leases[v]` records the
  locks it holds: the provider row, the candidate rows (`rows`), the plan row of
  the invocation chosen. The code also keeps the plan rows of candidates it
  passed over; leaving them unlocked allows more interleavings, not fewer.
* `database_now` is `CURRENT_TIMESTAMP`, fixed when the transaction begins.
  Each handler has a stamp `t` from `Stamps`, up to `MaxLag` before `now`.
* `SKIP LOCKED` readers pass over `RowLocked` rows; `FOR UPDATE` readers wait,
  i.e. are not enabled.
* Creation reads registry and authority without locks before it takes the plan
  row; its parameter `view` may therefore be `"eligible"` although authority
  moved meanwhile. The registry's own answer (inventory, heartbeat, load) is a
  free choice: it depends on reports this module does not keep.
* A lease response may be lost (`arrives`); only attempts in `held` are ever
  reported on, and any report may come late or again. A rejected report writes
  an evidence row only, which is not kept: it is a stuttering step.
* The slips (`...Never...`, `...Anyway` and the like) are operators no action
  uses; each is a plausible bug that a property is known to notice.

`ActiveAtStart` is the plan in force at time 0. An activation refuses tools
whose descriptor asks for confirmation (`core/rollout_mutations.py:294`), so the
confirmation flow is reachable in the code only under a plan row made active by
other means, as the repository's own tests do; the constant stands for that.

`ToolLedger` is the abstract specification: five phases, a count of handouts and
an outcome, no clock and no providers. `KeepsThePromise` says `ToolExecution`
implements it under the mapping at the end of that module. Callers move one
invocation at a time; a pass of the reaper may take back or end several at once, so
one step of the ledger may too.

`EventClaims` models one message: the claims of two messages share no row and
no lock. Core and the bridges interleave freely. `Targets` is whom the policy may
want, one bot, the other or nobody (`Silence`); `ClaimAttempts` how often each
bridge asks.

| Code | Model |
|---|---|
| `ingest_event` | `Ingest`, within `Report` (the spool) and `Arrive` (a claim) |
| `recompute_event_decision` after a late response or a resolved link | `Revise` |
| `evaluate_event_claim` up to the first lookup and the canary exit | `Arrive` |
| its wait for observers, `evaluate_claim`, `enforced` | `Decide`, `Evaluate` |
| its advisory lock, second lookup, reading of the observers | `Lock` |
| acknowledgements, owner conflict, the inserted row | `Covered`, `Verdict`, `Commit`, `Abort` |
| `acknowledge_event_claim` | `Acknowledge` |
| `observe_user_message` / `observe_event` in the bridges | `Hear`, `Receive` |
| `request_claim`: another attempt, giving up | `AskAgain`, `FailOpen` |
| `_install_claim_suppression` | `Authoritative`, within `Receive` |
| a reply of the bot, or the send guard that drops it | `Speak` |

* A request is split where another transaction can act: after ingestion, after
  the evaluation (which reads a decision that may move), after the observers are
  read. The acknowledgements are read a moment before the commit; an
  acknowledgement that arrives in between commutes with the commit.
* The two bounded waits (`_coalesce_claim_observations` and the loop before the
  lock) change no state. A wait that ended without enough observers is an
  evaluation with `sound = FALSE`.
* The policy behind a decision (commands, replies, summons) is a free choice
  from `Targets` at every recomputation: what is shown does not depend on it.
  A decision row that a claim has to create itself is a `Revise`.
* The claim modes are what they mean for this conversation: `"enforce"` is
  `enforce` or `canary` inside its scope, `"shadow"` records without enforcing
  (also `canary` outside), `"outside"` is
  `claim_observe_only_outside_canary`. A restart may change the mode.
* A bridge that is `"armed"` has a guard it may acknowledge, `"muted"` one it
  may not: it had answered already, or the message is not the event in hand.
  `Early` are the bots in which another plugin runs before the bridge.
* An attempt that is given up leaves its request in Core, which may arrive,
  run and commit later. A request that never arrives, or fails before the lock,
  simply takes no further step.

`SpeakingFloor` is the abstract specification: vows of silence, answers, and a
floor that is given once, to a bot without a vow, on somebody else's. Under
`KeepsTheFloor`, `"armed"` is the vow and an enforced allow the floor.

`SpoolRecords` names the records, `DurableSpool` is the file of one bridge,
`IngressReceipts` what Core keeps of it, and `EventDelivery` composes them with
the reporter of the bridge.

| Code | Model |
|---|---|
| `append_event` | `Append`, `RejectForQuota`, `Known` |
| `next_pending`, `_verify_record` | `NextPendingIs`, `NothingPending` |
| `acknowledge`, `retry`, `quarantine`, `compact` | `Acknowledge`, `Retry`, `Quarantine`, `Compacted` |
| `open` on a damaged file | `StartAnew` |
| `enqueue`, `request_claim` | `Enqueue`, `Reject`, `Claim`, `ClaimAnswered`, `ClaimEnds` |
| `_run_spool` | `Post`, `Idle`, `WorkerReceipt`, `WorkerConflict`, `WorkerRefused`, `WorkerFails` |
| end and restart of its task, `spool_status` | `WorkerExits`, `RestartWorker`, `StatusFails` |
| `start`, `stop`, a crash | `Restart` |
| `ingest_event`, `_ensure_ingress_receipt`, `_advance_collector_watermark` | `Arrive`, `Ingest`, `Advance` |

* Each operation of the spool holds its lock and commits with a full sync: it is
  one step, and what it wrote survives a crash. Compaction is part of a capture,
  an acknowledgement or an empty poll; which of the committed rows are old enough
  is the parameter `old`. Rows that fail verification are the parameter `spoiled`.
* `identity` is the table that outlives compaction. Since the record of a key is
  fixed there, it stands for the payload of the row, too.
* `sent` is the network: a record once sent may reach Core at any later time, any
  number of times, also after a restart. Whether a request was lost, or only its
  answer, is whether `Arrive` comes before `WorkerFails`. The retries of a claim
  send nothing new. Two requests with one record get the same answer, so the
  answer to either is read from what Core keeps.
* Ingestion is one step: the advisory lock of the spool is held until the
  transaction commits (PostgreSQL).
* A conflict is status 409. `WorkerRefused` is every other status 4xx but 429:
  authentication or validation failed, and Core did nothing.
* A file that is set aside is not read again; its identity counts as a new spool.

`EventOutbox` is the abstract specification: records in hand, offered, stored. A
record leaves the bridge's hands only when it is stored, or all of them do when
the file is lost, and Core stores one record of an event and one under a number.

`ControlRows` has the rows an operator changes (lifecycle and version of plans,
descriptors and providers), the reports of providers, the settings, and the
evidence a preview derives from them. `ControlMutations` has the requests:

| Code | Model |
|---|---|
| log in, reauthenticate, log out | `Login`, `Reauthenticate`, `Logout` |
| `preview_*_mutation` | `PreviewPlan`, `PreviewDescriptor`, `PreviewProvider` |
| `apply_*_mutation` up to the target row | `ApplyPlan`, `ApplyDescriptor`, `ApplyProvider` |
| `SELECT ... FOR UPDATE`, the evidence computed again | `LockPlan`, `LockDescriptor`, `LockProvider` |
| the commit of row, event and ledger entry | `CommitPlan`, `CommitDescriptor`, `CommitProvider` |
| `_record_rejection` | `RejectPlan`, `RejectDescriptor`, `RejectProvider` |
| reports, quota use, other settings; a stop of Core | `Drift`, `Crash` |

* An apply request is three transactions' worth of steps, each interleaved with
  all others: authentication and the checks of the stored preview without a
  lock, the lock with the recomputed evidence, one commit.
* Evidence is one value: whatever its hash covers. Two previews have the same
  evidence exactly if everything hashed is equal.
* The partial unique index (`one active plan`) is in `CommitPlan`: a commit that
  would violate it raises and stores nothing.
* A setting changes only with a restart (`Restarts` names the instances in which
  it does). `MaxDisturbances` bounds drift and stops.

`MutationRegister` is the abstract specification: each key is decided once, and
an applied one compares the version the operator saw and changes the row in the
same instant.

`ArtifactStore` is the file system behind artifacts: quarantine files, objects
named by digest, one file lock per digest. `ToolArtifacts` and `RenderDelivery`
are the two users of it.

| Code | Model |
|---|---|
| `reserve_artifact` | `Reserve` |
| `upload_artifact`: lock, open, write, commit or abort | `UploadBegin`, `UploadOpen`, `UploadWrite`, `UploadFail`, `UploadRejected`, `UploadDone` |
| `finalize_artifact`: digest lock, link, unlink, commit | `FinalizeBegin`, `FinalizeTooLate`, `FinalizeMissing`, `FinalizeLink`, `FinalizeUnlink`, `FinalizeCommit` |
| references of a completion | `Complete` |
| the three passes of the reaper | `ExpireNext`, `ExpireCommit`; `CleanBegin`, `CleanCommit`, `CleanRemove`; `OrphanBegin`, `OrphanRemove` |
| the attempt behind an artifact | `Lapse`, `EndAttempt` |
| `submit_render`: reuse, refuse, a fenced attempt | `Ask`, `Reuse`, `Refuse`, `BeginAttempt` |
| publication | `PublishBegin`, `PublishFile`, `PublishFails`, `PublishCommit`, `Superseded`, `ThemeChanged`, `RenderFails`, `MarkFailed` |
| `tool-artifact-passthrough-v1` | `PassBegin`, `PassCommit` |
| deletion | `DeleteBegin`, `DeleteCommit`, `DeleteRemove` |
| delivery intents; the bridge sends and reports | `Permit`, `Suppress`, `TooLate`, `Send`, `Report`, `Abandon` |
| Core or bridge stop; a theme window begins | `Crash`, `Abandon`, `ChangeWindow` |

* A file call and the commit beside it are two steps, so Core may stop between
  them; a handler that touches no file is one action.
* Contents are digests (`Digests`). Inspection of a PNG is its verdict. The
  grace of the orphan pass is `OrphanGrace`, compared with the age of the file.
* The id of a row is a new UUID in the code; here a row is taken from `Renders` when
  it is made, one that is neither there nor about to be inserted (`FreshRow`).

`AtMostOnceDelivery` is the abstract specification of both deliveries: a permit
is used up by sending, given back, or lost with its holder; nothing is permitted
again that was sent.

`AgentRows` has the rows of one addressed message and what the database accepts
of them (triggers, unique keys), `AgentRuns` the handlers.

| Code | Model |
|---|---|
| admission under the conversation's advisory lock | `CountLimits`, `AcceptInteraction` |
| one pass of the coordinator over a message | `ExpireInteraction`, `FailInteraction`, `CreateRun`, `StartPlanning`, `DispatchRun`, `AwaitTool`, `StartContinuation`, `DispatchLoop` |
| `promote_wolfram_proposal` | `PromoteProposal`, `RecordLoop` |
| `_create_delivery` | `CreateIntent`, `AwaitDelivery` |
| `record_agent_attempt`, `record_continuation` | `ReportAttempt`, `ReportContinuation` |
| the tool ledger, `refresh_agent_tool_loop` | `ToolEnds`, `RefreshLoop` |
| `reap_agent_deliveries`, lease, completion | `ReadDue`, `ReapIntent`, `LeaseIntent`, `CompleteDelivery` |
| Nekro's delivery loop | `SendText`, within `LeaseIntent` and `CompleteDelivery` |
| stops and lost messages | `RestartCore`, `LoseCall`, `LoseSender` |

* The coordinator is one process (`step` says between which two commits it is);
  the reaper, the providers and Nekro run beside it.
* A move is `LegalMove`, the table of the trigger; a second event with a number
  that is taken is `EventFree`, the unique key. Either aborts both rows.
* What a model returns is its outcome: an answer, a proposal of a tool, nothing
  in time, something else, or more than the budget (`costly`).

The provider modules have one process against Core. `ProviderRows` is what a
provider can observe of Core's execution handlers (`ToolExecution` has them in
full, with a provider that may do anything), `ProviderClient` the SDK,
`ProviderJob` the steps the executors share, `StatusProvider`,
`WolframProvider` and `LatexProvider` the three programs, `ProviderWorkers`
their composition. Action names say what the program does: `...Polls`,
`...Takes`, `...Runs`, `...Beats`, `...GoesOn`, `...Finishes`, `...Closes`;
`Status...`, `Wolfram...`, `Latex...` are the steps of one program only, such as
`StatusCancels`, the one acknowledgement of a cancellation, or `KeeperBeats`, the
second task that keeps a lease while a picture is stored.

* A request that timed out may reach Core later (`ServeLate`).
* Assumed: the clock waits for a local timer that has run out; a child dies at
  once when it is killed; a heartbeat may come at any time; whether Core has a
  lease to give is a free choice. A status provider that is killed leaves its
  child behind (`OrphanEnds`).

`EventRows` has the rows of ingestion and the functions over them: which
observations are one message, what a reference means, what the policy decides.
`EventCorrelation` has the transactions:

| Code | Model |
|---|---|
| `ingest_event`, `ingest_response` up to the first read | `Begins`, `Look` |
| a live delivery takes over a row of the history | `Enliven` |
| the inserts and resolved references | `Insert`, `Report` |
| the unique key of a message | `Clash` |
| `recompute_event_decision` under the decision's lock | `Recompute` |
| commit, rollback | `Commit`, `Abort` |

* A transaction sees what is committed and its own writes; it waits for the
  advisory locks of the message, the row lock of its bot and those of decisions.
* Assumed: both bots are registered before. The command registry behind the
  policy is fixed; a text is reduced to what the policy tells apart; both kinds
  of mention are "summons".
* What native identities the platform gives is in `TimedIdentities` and
  `OneMessagePerIdentity`; no action uses them, one theorem does (section 4). A
  short message id may be of several messages.

`ArchiveRows` has the export and the archive tables, `ArchiveImport` the process:

| Code | Model |
|---|---|
| the batch row, the checkpoint of a scope | `Open`, `MarkRunning` |
| the loop over the lines | `Skips`, `Takes`, `Refuses` |
| a chunk | `Flush`, `FlushFails` |
| the checkpoint of the chunk | `SaveProgress` |
| the end of the scope | `CloseScope` |
| `_reconcile_batch_counts`: the snapshot of the statement, the row it writes | `TakeCounts`, `Reconcile` |
| comparison with the manifest, the batch completed, `ANALYZE` | `Verify`, `CompleteBatch`, `Analyze` |
| failures, kills | `Fail`, `StatementFails`, `Killed` |

* `Importers` are processes that run at the same time; each keeps its own copy of
  the dictionary of scopes, as the code does, and writes it back as a whole.
* `UPDATE ... FROM (SELECT count(*))` at READ COMMITTED counts in the snapshot the
  statement began with; if another process has the batch row in an open chunk, it
  waits and then writes those counts. So other processes may move between
  `TakeCounts` and `Reconcile`.

### 3.2 Runs

| Run | Question | Instance |
|---|---|---|
| `tool_concurrency` | do unlocked counts keep the limits | 2 invocations in 2 conversations, 2 providers, 1 plan, 2 attempts, tool limit 1, provider limit 2, 1 operation, clock 0..2, lag 1 |
| `tool_retry` | late reports, retry, lost responses, both reapers, stops; does everything end; is `ToolLedger` implemented | 1 `retry_safe` invocation, 2 attempts, 1 plan, 2 operations, lease 1, deadline 3, clock 0..4, with fairness |
| `tool_confirmation` | quota, rate and challenge under races | 2 invocations, quota 1, rate 1 per window, 1 attempt, clock 0..3 |
| `claims` | who is silent, and why; retries, late answers, fail-open, a decision that changes; does every bot go on; is `SpeakingFloor` implemented | 2 bots, one asks twice, either or nobody the target, 1 change of mind, enforced, 1 restart, with fairness |
| `spool_delivery` | is a record ever lost, rebound, or refused without cause; where does the watermark end; does the queue drain; is `EventOutbox` implemented | 2 events, a file damaged once, any restarts, with fairness |
| `control_apply` | keys, lost updates, drift, triggers; is `MutationRegister` implemented | 2 plans, a descriptor, a provider; 3 operators, 2 sessions, 2 requests, 2 keys, 2 previews, clock 0..1, 1 disturbance |
| `artifact_content` | is content deleted that is claimed; are marks honest | 2 artifacts of one attempt with one content, a document passed through, clock 0..2, 1 crash |
| `render_delivery` | who publishes; is `AtMostOnceDelivery` implemented | 2 calls for 1 document, 2 attempts, 2 renders, 1 change of theme, clock 0..2, 1 crash |
| `agents` | limits, budget, settlement; is `AtMostOnceDelivery` implemented | 2 messages of one conversation that takes one at a time and two a day, 2 model attempts, clock 0..2, 1 stop or loss |
| `provider_worker` | cancellation, capacity; does the loop come back | each of 3 programs, 2 leases of 2, budget 3, clock 0..5, 1 stop or late request, with fairness |
| `history_import` | checkpoints, counts that go stale, completion | 2 processes, 3 exports of up to 3 identities, 3 scopes, chunks of 1, killed and rerun without bound |
| `event_ingest` | decisions, references, one source per message | 8 events of 2 bots and a report, two of them under one short id, 2 transactions at a time, 1 cut off |

All runs hold, and between them they take every step of every module.

Bounds. What the code bounds is a parameter; bounds of the models are `Horizon`,
`MaxTime`, `Attempts`, `MaxOperations`, `MaxLag`, `MaxFaults`, `MaxRestarts`,
`MaxRevisions`, `MaxDisturbances`, `MaxPreviews`, `MaxAborts`, `MaxSpools`,
`MaxCount`, `MaxWindows` and the sets of model values. Two attempts are what a
retry needs; two
providers and two invocations are what a race for the last place needs, since
each property relates at most two of either. The clocks run past every deadline,
lease and expiry of their instance, so each timeout happens both before and after
every other event. One operation between any two steps is what a stale check
needs; two allow pause and reactivation of a plan, and leaving canary mode and
returning.

For claims, two bots are an owner and an observer it counted, two attempts what
overlapping requests of one bot need. The target may be either bot or nobody and
the policy may change its mind, so that each bot can be denied in favour of the
other: the case `SilenceHasAReason` is about. One required observer, which
`core/settings.py:299` allows, lets an owner be found at any point; with two, the
evaluations that abstain for want of observers are among those `sound = FALSE`
abstains in. Shadow mode and messages outside the canary deny nobody and are left
to the theorems, as is a third bot: these are for any bots, modes and targets.
For the spool, two events are what order, reuse of a
number and head-of-line blocking need; one content is enough since a record is a
key with its content and two keys conflict already; two files are a record of the
first that arrives after the same event came from the second. For the control
plane two requests race on one row, on two rows of one index, and with one key.
For artifacts two rows with one content are what sharing needs, and a clock of
two passes each of their deadlines. For the agent product the limit of one makes
the second message the race for the last place, and one fault is enough to
separate any two commits; the daily limit is a guard that cannot bind with two
messages. For ingestion the events are a user's message, live and
from the history; the bot's answer to it; the user's reply to that, from both bots
with clocks apart and from the history, and its recall; and a message that uses an
identity again: each reference can arrive before and after its target. Message and
answer have one short id, so that a reference may be ambiguous. All packets carry
the platform's time; the window of nearness for those without
(`core/service.py:731-745`) is a case of the theorems only. For the
import the three exports are an ordinary one, one in which a refused row carries
another row's key, and one with a row that has no conversation.

`CHECK_DEADLOCK FALSE`: with all work settled, at the horizon and with no fault
left, these systems have nothing to do; `spool_delivery` always has a restart, so
there deadlock is checked. In `event_ingest` two transactions may also wait for
each other's decision locks, which PostgreSQL ends by aborting one; the model has
`Abort` at any step and leaves the pair standing.

Fairness in `spool_delivery`: the worker polls, its clock runs, its task is started
again after a second, what was sent arrives, and neither the loop nor the posting
of a record fails every time it is tried (strong fairness of `Poll` and
`Answered`): retries go on for ever with at most a minute between them. Nothing
is assumed of `spool_status` (the property excepts a reporter it has disabled)
nor of restarts.

Fairness in `claims` is of the bridge's own time-outs only
(`claim_timeout_seconds` on every attempt, a bounded `for` over the attempts):
Core, the network and acknowledgements may stop for ever.

Fairness in `tool_retry`: time passes (`Tick`), an open lease transaction ends at
least by aborting, and the reaper loop keeps running in canary mode: a `while
True` that catches every exception (`core/app.py:61`). `ReapAttempts` passes over
rows that a report has just locked; that some pass with a current stamp finds none
of them locked is a strong fairness condition, justified because a lock is held
for one short transaction. Nothing is assumed of callers, providers or operators.

Fairness in `provider_worker`: the program takes its next step, hears the answer its
second task waits for and is started again when it was killed; its local timers run
out (`ChildTimesOut`, `WolframUnanswered`, `LatexUnanswered`); a request that is open
gets an answer or its time-out (`Settles`), which the HTTP client's own timeout
ensures; time passes. Core need not answer anything in particular, and nothing is
assumed of the worker behind a program.

### 3.3 Statements of documents that do not hold

Each is a property of its module that no run keeps; the configuration named,
changed as said, makes TLC show the counterexample.

* `RetrySafeTimesOut` (`docs/PHASE3B_EXECUTION.md:45`: a `retry_safe` execution
  whose deadline has passed ends as `timed_out`; `tool_retry.cfg` with `Timeout =
  1`, `MaxOperations = 0`). The two passes of the reaper are transactions with
  their own stamps. If the deadline falls between them, the attempt pass finds a
  lease that has not expired, and the invocation pass finds an overdue invocation
  that is still `leased` or `running` and ends it as `unknown_completion`
  (`core/tool_invocation_service.py:1441`). Conservative, but not what the table
  says. The attempt stays live until the next attempt pass; `AttemptsAgree`
  allows exactly that.
* `SuspensionStopsLease` (`docs/PHASE3B_EXECUTION.md:97`: each of the switches
  stops every new lease; `tool_retry.cfg` with `MaxOperations = 1`). The lease
  reads the descriptor without a lock (`core/tool_execution_service.py:311`). A
  suspension accepted after the read and before the commit does not prevent the
  lease. The other three switches do: plan and provider are locked
  (`LeaseNeedsAuthority`), and the settings change only with a restart, which ends
  the transaction.
* `AllowAfterEveryAck` (`docs/CONTRACTS.md:210`: an allow is enforced only after
  all other observers acknowledged; `claims.cfg` with `Instances = {lily, nekro,
  third}`, `MaxAttempts = 1`, `ClaimAttempts` one for each, no revision or restart).
  The observers of a message are read under the lock of the claim
  (`core/service.py:2498`), but observations are inserted under the lock of the
  correlation fingerprint (`core/service.py:1815`). One that commits between that
  read and the commit of the allow is not counted, and its bot may answer beside
  the owner. What does hold is `OwnerCovered`: every observer that was counted is
  silent for good. `KeepsTheFloor` states no more than that.
* `ReplayResumes` (`bridges/lily_nonebot/lily_core_bridge/reporter.py:437`: an
  error must not end the replay task for good; `spool_delivery.cfg` with `Keys =
  {a}`, `MaxSpools = 1`, `StartOutcomes = {"opened"}`). The replay task guards
  `next_pending` against errors, and a task that ends otherwise is started again.
  But `spool_status`, which runs with every heartbeat, keeps any error it meets in
  `_spool_start_error` (`reporter.py:305`). From then on events are not captured
  and a task that ends is not restarted, until the bridge itself is. Records
  already captured stay in the file; `NothingLost` holds throughout.
* `RenderContentKept` (`docs/PHASE4_RENDER_DOCUMENT.md:45-47`: an object is removed
  when the last reference to it is gone; `render_delivery.cfg` with `OrphanGrace =
  3`). A render links its file and commits its row without the lock of the digest
  (`core/render_service.py:443`). A deletion or a cleanup of the same content,
  between the two, finds no row that claims the object and removes it. Tool
  artifacts take that lock: `ToolContentKept` holds.

Found while modelling, contradicted by no property that is run:

* Agent product: `_create_delivery` commits the intent before the interaction
  moves. If Core stops in between and the deadline passes, the interaction
  expires and the intent can never be settled; every pass of the reaper, and with
  it every lease of any conversation, then fails on the trigger.
  `SettledTogether` is about rows that do get settled.
* Agent product: the idempotency key of a model report is a hash of target and raw
  output (`apps/model_provider/src/superlily_model_provider/main.py:83-90`). Two
  attempts without output share it, the second is refused, and the coordinator
  dispatches again until the deadline of the run instead of counting an attempt,
  as `docs/PHASE5_AGENT_RUN.md` has it (`KeyReused`).
* History import: a scope is check-pointed as completed before the comparison with
  the manifest and before the batch is. Stopped there, every rerun answers
  "completed" while the batch stays running or failed. A sample or a month run
  after a full one sets it back to running for good, and its reconciliation drops
  rejections without a key. A refused row that shares an identity, or a row that
  is eligible but cannot be mapped, keeps the batch from ever completing, against
  `docs/HISTORY_UNIFICATION.md:215` and `docs/DEVELOPMENT.md:175-176`. Two
  importers overwrite each other's dictionary of scopes, and one that reconciles
  while another has a chunk open overwrites what that chunk adds, so that the batch
  counts fewer rows than the ledger has (`core/history_archive_import.py:927-943`)
  and the comparison fails. All of these err on the safe side: `CountsNeverAhead`,
  `CompletedMeansAll`.
* Ingestion: a live delivery that takes over a row of the history does not lock
  that row when the bot has heard a later event; a report stored meanwhile keeps no
  source, against `docs/C0H_QQ_HISTORY_RECOVERY.md:88-89`. `ReferencesMeet` excepts
  it. An observation of the history adds links beside another bot's live one
  without a recomputation (`FromHistory` in `DecisionsCurrent`).
* Ingestion: a reply is resolved by its own time when it is stored and by that of
  its source when it is tried again, and only a retry that finds one message
  recomputes the decision (`core/service.py:1475-1482`). If two bots' clocks
  disagree about the reply, and its short id is of several messages of which one
  clock sees fewer than the other, the reference changes between "ambiguous" and "unresolved" and the decision
  stays (`Torn` in `DecisionsCurrent`). `resolve_pending_links`
  (`core/service.py:1427`) recomputes at any change.

## 4. What is proved

Every theorem is for all values of the constants that satisfy the named
assumptions of the modules: those say of what type a constant is, that a special
value (`None`, a key that is no record) is not among the ordinary ones, and where
counting needs it that a set is finite. TLC evaluates each of them in the runs.
The inductive invariants were checked with TLC on the instances of the runs before
they were proved.

Each proof module classifies the steps of its specification once (the lemmas named
in *italics*), and argues invariants, action properties and refinements from the
classes.

### `ToolExecution_proofs`: `Invariant`, `TypeCorrect`, `AttemptsAlwaysAgree`

`AttemptsAgree` is not inductive. That a lease inserts at most one live attempt
follows only because the candidate is still `queued` at commit, and a queued
invocation has no live attempt; it is still queued because every other handler
waits for the row the lease has locked. So `IInv` adds:

| Part | Says |
|---|---|
| `LeasesHold` | an open lease has locked its invocation, which is `queued`; no two leases share a row |
| `LiveMatches` | the state of a live attempt fits its invocation's |
| `Unused` | an unused attempt row is blank, a used one names its invocation |
| `OneLive` | a live attempt has the highest fence of its invocation |
| `Served` | a leased or running invocation has an attempt in that state |
| `FencesCount` | the fences of an invocation are bounded by the number of its attempts, and the bound is reached, so `NextFence` is defined and new |
| `CanaryHasPlan` | an admitted invocation names its plan |

The second part of the module proves what the protocol owes the people around it:
`ConfirmationAlwaysAgrees`, `QuotaAlwaysExact`, `RateAlwaysWithinLimit`,
`ConcurrencyAlwaysWithinLimits`, `LeaseAlwaysHasAuthority`, `NewestAttemptDecides`,
`ImplementsLedger`.
*Moves* shows that a step is `Quiet` (no invocation takes a place in a plan) or
`Uses(i)` one.

* The counter of a plan is the number of invocations with a place in it
  (`QuotaInv`): a place is taken and counted under the lock of the plan.
* A lease has authority at its commit (`LeaseHasAuthority`) because plan and
  provider are locked from the check on.
* For the rate, `RateInv` bounds what any window up to now contains, as counted by
  stamps that may be older than the commit.
* For the limits, `ConcurrencyInv`: live attempts under a tool belong to the one
  active plan, an open lease holds that plan, so the count it made only falls
  until it commits, and one more fits.
* For the refinement of `ToolLedger`, *LedgerSteps* shows that only the commit of a
  lease hands an invocation out; what every other step makes of each state (rest,
  submitted, stopped, returned, over) decides its step there. `WaitingRepeats` is
  the guard of a handout: what waits and was handed out before may be repeated.

### `EventClaims_proofs`: `Invariant`, `TypeCorrect`, `OwnerAlwaysCovered`, `SilenceAlwaysHasAReason`, `Refinement`

That a counted observer is silent follows from three facts about different
processes, none inductive alone: Core counts only acknowledgements, a bridge
acknowledges only when armed, and it is armed only by a denial that is on record
and before any answer. So `IInv` consists of:

| Part | Says |
|---|---|
| `LockExcludes` | one request at a time holds the lock, for a bot without a claim |
| `DenialsStand` | a request answered with a denial, and an armed bridge, has it on record; an armed bot has not answered |
| `AcksAreArmed` | only an armed bridge has acknowledged |
| `OwnersAcked` | an owner's counted observers have acknowledged; there is one owner |
| `AttemptBegun` | a bridge that waits has begun an attempt |

`SilenceAlwaysHasAReason` adds `DeniedForOthers`: what was denied, was denied by a
decision for another bot, in the row and on its way there. For the refinement of
`SpeakingFloor`, *HandleFloor* shows that the steps of a bridge are vows, answers
or stutters, *CommitFloor* that a commit gives the floor or stutters;
`HolderIsOwner` makes the `CHOOSE` of the mapping unique.

### `Events_proofs`

**Spool**: `Invariant`, `TypeCorrect`, `NothingIsLost`, `BindingsArePermanent`,
`ConflictsHaveACause`, `WatermarkIsExact`, `Refinement`. `IInv` is the conjunction of the four invariants of the run with

| Part | Says |
|---|---|
| `FileBinds` | the records of a file carry its id and numbers below the next one, all different |
| `RowsBound` | a row has an identity |
| `SentFromFile` | what was sent from this file is what it keeps; nothing was sent from a later one |
| `BusyWithSent` | worker and claims are busy with records sent from this file |
| `StoredArrived` | Core keeps only what arrived, under its own key |

`RowsMove` says what a step that captures nothing may do to the rows; *SpoolMoves*
shows it of every operation of the spool. `RunEnds` shows that the `CHOOSE` in
`EndOfRun` has a value, which is what makes the watermark exact. `Refinement` is
that of `EventOutbox`.

**Ingestion**: `IngestInvariant`, `ReferencesAlwaysMeet`, `SourceIsAlwaysMessage`,
`DecisionsAlwaysCurrent`. What a transaction has looked up it uses later, while
others commit; so the invariants say what an open one may still rely on.

| Part | Says |
|---|---|
| `IngestInv` | |
| `Exclusive` | no lock is held twice |
| `GoodDb` | one source for one strong identity, keys of a bot apart; a reference means what is stored, an answer its trigger |
| `Standing` | what an open transaction found, or did not find, under its locks is so until it commits, and what it wrote adds to the tables without contradicting them (`Adds`, `Revives`, `Reports`) |
| `SourceInv` | |
| `OneSource` | packets with one number and one time have one source, and no others; a bot has one of them |
| `Timely` | a row the live delivery took over keeps its time |
| `Placed` | what is about to be stored fits in |
| `DecisionInv` | |
| `Right` | the decision about each source is what the policy says of all that is stored, unless nobody acts on it, history is involved, or it is `Torn` |
| `Settling` | for each source an open transaction has still to decide it, or has decided it under its lock, or changes nothing the decision depends on |

`Settling` is the reason why decisions do not overtake each other: of two
transactions that change what one decision depends on, the second waits for the
lock of that decision and reads what the first has committed.

`ReferencesMeet` and `DecisionsCurrent` hold for any packets: short message ids may
collide (`core/service.py:1056` expects it of NapCat) and numbers may repeat. An id
of several messages makes a reference ambiguous, and a retry that finds it so does
not recompute the decision. That is no omission as long as its status was the
same before: *SameStatus* shows that a reply tried again after one insertion either
finds one message, which does recompute, or has the status it had. It fails only
where the two clocks a reply is resolved by see different sets of several
messages, which is `Torn` (section 3). `SourceIsAlwaysMessage` needs of the packets
what the platform and its adapters keep to and Core does not check (`EventRows`;
TLC evaluates `SteadyInstance` for the instance of the run):

| Hypothesis | Without it |
|---|---|
| `TimedIdentities`: a number comes with the platform's time | an observation without a time joins a source by nearness alone, and the timed one of the same bot, stored later, gets another source |
| `OneMessagePerIdentity`: a number at a time is one message | a message that reaches a bot under two message ids is stored twice |

### `ControlMutations_proofs`: `Invariant`, `EveryKeyHasOneAnswer`, `LedgerAlwaysExplainsRows`, `PauseAlwaysSurvivesDrift`, `RowsAlwaysKeepTheConstraints`, `Refinement`

A request carries what it decided in one step to the next; so the invariant says
what a decided request may rely on.

| Part | Says |
|---|---|
| `LocksExclude`, `LocksLate` | a target has one lock holder, and only a request past its checks is one |
| `DecisionStands` | the version a decided request compared is still the row's, and its transition still legal |
| `RefusalStands` | a refused request still has the reason it was refused for |
| `PreviewsStand` | a preview is what its session may ask, with the evidence of its moment |
| `OneEntryPerName`, `EntriesStand` | one entry of the ledger for a key, and a refusal of a pause in it has a cause |
| `AnswersStand` | an answer is about the entry of its key |
| `RowsExplained` | the accepted entries of a target are consecutive versions that end at its row |

*Kinds* shows that a step is `Silent`, `AppliedBy(r)` or `RefusedBy(r)`, which gives
the action property about the triggers and the refinement of `MutationRegister`.

### `ArchiveImport_proofs`: `Invariant`, `CheckpointAlwaysCovers`, `CountedInvariant`, `CountsStayBehind`, `CountsAlwaysExact`, `CompletedAlwaysMeansAll`

What the batch says is not inductive: a process writes back what it has read and
counted on its own, the whole dictionary of scopes at once. So the same is said of
each process's dictionary, and of its position in the export, where the lines of
its chunk may still be missing (`ScopesCovered`, `Positions`). On top of that
`Counted` says that what a process has counted is what its scope selects of the
lines it has passed, that identities in the ledger come from lines, and that the
batch, and each count a process has taken and not yet written, is at most what the
ledger and the lines without a key have: rows are only added, so a count stays
behind however late it is written. `CountsStayBehind` and
`CompletedAlwaysMeansAll` follow, for any number of processes: equal counts leave
nothing out. That counts are equal to the ledger's is true for one process only, and
`CountsAlwaysExact` assumes it: nothing moves between its snapshot and its write.

### `AgentRuns_proofs`: `TypeCorrect`, `Invariant`, `AlwaysSettledTogether`, `AlwaysWithinLimits`, `DeliversAtMostOnce`

*Rows* shows that a step moves intent and interaction of a message in one of five
ways: not at all, the interaction alone by a legal move (`Coordinated`), admission,
a new or leased intent, or both to one settled state.

| Part | Says |
|---|---|
| `Admission` | at most one message is counted and not yet inserted, and there is room for it |
| `Intended` | who is about to let an interaction wait finds an intent |
| `Held` | what Nekro holds or sent was handed out, which no intent is twice; what it will report as sent was |
| `Budgeted` | a loop exists only for a run that is over, so planner and continuation never add attempts at once |

The refinement of `AtMostOnceDelivery` maps the permit to the text Nekro holds
unsent: *LoopSteps* are lease (a permit), send or give up, report or loss, and
*OneConfirmation* shows that nothing else confirms.

### `RenderDelivery_proofs`: `StaysSound`, `Typed`, `KeepsToolContent`, `HonestMarks`, `FencesPublication`, `DocumentsDeliveredAtMostOnce`

Here what one process found must last while it touches files, and other processes
share the object and the rows. `IInv` has three parts.

| Part | Says |
|---|---|
| `StoreInv` | |
| `Locks` | whoever works on a digest has its file lock, and only he |
| `UploadSound`, `ContentSound`, `MarkSound` | the file, the object and the mark that the state of an artifact and the progress of its handler promise are there |
| `ReaperSound` | the rows the reaper holds are still what it took them for |
| `Cleared` | who found, under the lock, that no artifact keeps the object, is right until he removes it |
| `RenderInv` | |
| `CallSound` | a call that renders has an attempt of its document, one that publishes the running one; the row of an answered call is there |
| `Exclusive` | one publication of a document at a time, and new rows are new |
| `TriesSound`, `RowSound` | only the last attempt runs; a row comes from one that is over |
| `DeliveryInv` | |
| `OneMay`, `Permitted` | one call at a time may send a document, under a recorded intent, and it was not sent |
| `KeysSound` | the second key is used only when the first was used up without a sending |

`Cleared` is the reason why the digest lock is enough for artifacts. Renders are
published without it, so the same cannot be said of them: that is
`RenderContentKept`, which does not hold (section 3). Each part is kept by steps of
its own lemmas: *StoreStep* and *StoreQuietStep*, *RenderStep*, *DeliveryStep*. The
bound on time is a guard of the clock, and no proof uses it.

### `ProviderWorkers_proofs`: `Invariant`, `CancelledAlwaysMeansStopped`, `CapacityAlwaysHonest`

What a provider has told Core may be served much later, so the invariant is about
requests that were sent (`Sent`), answered or given up, as much as about the job.

| Part | Says |
|---|---|
| `RowsSound` | a lease ends by the deadline and within `LeaseSeconds`, so that a heartbeat never shortens one |
| `LeaseSound` | for an attempt that was not leased, or whose lease is just answered, nothing was begun and nothing sent that ends it |
| `ClosingSound`, `CancelledSound` | who sent the last report is finishing; if it acknowledged a cancellation, its work has ended, and so it is when Core has recorded it |
| `StatusSound` | a child runs for the current job only, and its limit, with the margin, lies before the end of the lease Core keeps; before the start that holds as long as time is left |
| `LatexSound` | one thing is rendered |

*RestsKeeps* is the common part: a step that begins no work and sends no last report
keeps what is said of requests, whatever it does to job, calls and rows within
bounds (`Rests`). *CoreKeeps* adds what Core may do to a row, from *AnswerRow*. That
`Margin` is not 0 is needed: a child whose limit is the end of its lease would run
while Core may already count the attempt as over.

### Only model-checked

Every invariant and action property of the runs, and every refinement, is proved,
one of ingestion under the hypotheses above.
Out of the prover's reach: liveness under fairness (`EverythingEnds`, `StopsWaiting`, `Drains`, `Returns`) and `ENABLED`.

## 5. What is left out

Of claims: the guard of a denied message expires (an hour, 16384 entries) or
ends with the handling of the event, here it does not; observations recovered
from history, which enter without a decision; the agent interaction that Nekro
may start instead of answering itself.

Of the spool: sizes and the quota as a number (a rejection may happen at any
capture), the 60 seconds between compactions, counters, the in-memory queue of
telemetry that is not events. Of receipts: the additional ones of history packets
that repeat a stored message, and events without a spool record.

Of the control plane: refusals that write only an audit row (rate limits, a wrong
role or password); the import of plans. Of artifacts and rendering: byte and pixel
budgets, the upload secret, events; what `plan_render_delivery` decides, a pure
function of document and capabilities. Of the agent product: contexts and
proposals as data, the import of profiles, the fallback route, exact sums of
tokens and costs. Of providers: the model provider's idle server
(`model_provider/server.py`) and what a report of inventory contains.

Of providers also: the half and three quarters of a second a child gets less than
the lease (`main.py:410-415`) are one `Margin`; a child that is told to stop stops
at once (`executor.py:173-183` may wait half a second). Of rendering: the time
`submit_render` compares is read before it waits for the row of the record
(`core/render_service.py:332`), in the model when it has the lock; how many
retries a change of theme allows is left free.

Of ingestion: replays of a capture, an action or an API call that contradict what
is stored (`core/service.py:578-655`); metadata of several observations of a row
merge in the code (`core/service.py:474-481`), here the packet last accepted counts;
the three names of a message's number are one; the 422 for an ambiguous trigger
(`core/service.py:2009-2058`), which cannot occur since the keys of a bot are apart;
a trigger in another conversation is refused, and the instance has one.
Also left out: `resolve_pending_links`, the maintenance pass (`core/routes.py:894`),
which takes its locks in another order and may deadlock with ingestion;
`ingest_heartbeat`, which reads the previous heartbeat before it locks its row, so
that an older one may overwrite a newer; a clash of the unique key in
`_validate_existing_observation`, which is answered 500 and sent again; media,
names and platform-API rows; the limits of 10 and 100 candidates. The upsert of a
bot's row locks it on PostgreSQL even when nothing changes, and is modelled so;
SQLite, which the tests use, has one writer.

Data that no property tells apart: inputs, outputs, hashes, usage, policy checks
whose inputs cannot change here, evidence and transition rows. SQLite has no `SKIP
LOCKED` either; its behaviours are among those modelled. The lock order of approval
and lease (invocation, plan, descriptor, provider against provider, invocation,
plan) can deadlock; the database aborts one, which is `LeaseAbort`, and the order
itself is not kept. The components not modelled, with the reason for each, are in
`PROJECT.json`.
