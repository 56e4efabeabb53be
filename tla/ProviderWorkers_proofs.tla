------------------------- MODULE ProviderWorkers_proofs -------------------------
(***************************************************************************)
(* Proofs about ProviderWorkers: types, that an acknowledged cancellation  *)
(* means nothing runs, and that a provider never does more than it told    *)
(* Core, for any number of attempts, any lease, budget and margin, and     *)
(* any number of stops, lost answers and late requests.                    *)
(***************************************************************************)
EXTENDS ProviderWorkers, FiniteSetTheorems, TLAPS

Closing == {"complete", "fail", "cancelled"}
Operations == {"lease", "start", "beat"} \cup Closing \cup Steps
MaybeAttempt == Nat \cup {None}

RowSet == [state : {"none", "leased", "running", "cancelled", "over"},
           cancel : BOOLEAN, expires : Nat, deadline : Nat]
JobSet == [attempt : MaybeAttempt,
           stage : {"none", "start", "run", "store", "close", "finish"},
           limit : Int, result : {None, "success", "failure"}, lost : BOOLEAN]
CallSet == [op : Operations \cup {None}, attempt : MaybeAttempt,
            at : {"idle", "sent", "answered"},
            reply : {None, "ok", "error", "nothing", "refused", "cancel"}]
LateSet == [op : Operations, attempt : MaybeAttempt]

Typed ==
    /\ now \in Nat /\ kind \in Kinds /\ up \in BOOLEAN
    /\ rows \in [Attempts -> RowSet]
    /\ job \in JobSet
    /\ works \in [Works -> {"none", "queued", "running", "orphan"}]
    /\ calls \in [Slots -> CallSet]
    /\ late \subseteq LateSet

\* A request Core may still serve.
Sent(op, a) ==
    \/ \E slot \in Slots :
         calls[slot].at = "sent" /\ calls[slot].op = op /\ calls[slot].attempt = a
    \/ \E m \in late : m.op = op /\ m.attempt = a

\* A live attempt has no lease beyond its deadline, nor one longer than LeaseSeconds from
\* now: a heartbeat never takes time away.
RowSound(r) ==
    IF r.state \in {"leased", "running"}
    THEN r.expires <= r.deadline /\ r.expires <= now + LeaseSeconds
    ELSE r.expires = 0
RowsSound == \A a \in Attempts : RowSound(rows[a])

RequestsSound ==
    /\ \A slot \in Slots : calls[slot].at = "sent" =>
         /\ calls[slot].op \in Operations
         /\ calls[slot].op # "lease" => calls[slot].attempt \in Attempts
    /\ \A m \in late : m.op # "lease" => m.attempt \in Attempts

JobSound == job.stage # "none" => up /\ Working \in Attempts

\* Nothing was done for the attempt, and nothing that would end it is under way.
Untouched(a) ==
    /\ works[a] = "none" /\ Working # a /\ rows[a].state # "cancelled"
    /\ \A op \in Closing : ~Sent(op, a)

Granted(c) == c.at = "answered" /\ c.op = "lease" /\ c.reply = "ok"
Fresh(a) == a \in Attempts /\ rows[a].state # "none" /\ Untouched(a)
LeaseSound ==
    /\ \A a \in Attempts : rows[a].state = "none" => Untouched(a)
    /\ Granted(calls["main"]) => Fresh(calls["main"].attempt)

\* Who has sent the last report of an attempt does nothing more for it; who acknowledged
\* the cancellation has no work left that runs.
ClosingSound ==
    \A op \in Closing, a \in Attempts : Sent(op, a) =>
        /\ Working = a => job.stage = "finish"
        /\ op = "cancelled" => works[a] = "none"
CancelledSound ==
    \A a \in Attempts : rows[a].state = "cancelled" =>
        works[a] = "none" /\ (Working = a => job.stage = "finish")

\* The status provider: the lease that bounds the execution is still there while time is
\* left, and a child runs within it.
Covers(a) == Live(a) /\ job.limit <= rows[a].expires
WithinLease(w) ==
    /\ w \in Attempts /\ w = Working /\ job.stage = "run" /\ ~HasResult
    /\ Live(w) /\ job.limit + Margin <= rows[w].expires /\ now <= job.limit
ChildSound ==
    /\ job.stage = "start" => works[Working] = "none" /\ (now < job.limit => Covers(Working))
    /\ job.stage = "run" => works[Working] \in {"none", "running"}
    /\ \A w \in Works : works[w] = "running" => WithinLease(w)
StatusSound == kind = "status" => ChildSound

OneRenders == \A v, w \in Works : works[v] = "running" /\ works[w] = "running" => v = w
LatexSound == kind = "latex" => OneRenders

IInv ==
    /\ Typed /\ RowsSound /\ RequestsSound /\ JobSound
    /\ LeaseSound /\ ClosingSound /\ CancelledSound
    /\ StatusSound /\ LatexSound

-------------------------------------------------------------------------------
(* Operators.                                                              *)

LEMMA LeastIs ==
    ASSUME NEW x \in Int, NEW y \in Int
    PROVE  Least(x, y) = IF x <= y THEN x ELSE y
<1>1. Least(x, y) \in {x, y} /\ \A z \in {x, y} : Least(x, y) <= z
  <2>1. \E m \in {x, y} : \A z \in {x, y} : m <= z
    <3>1. CASE x <= y
      BY <3>1
    <3>2. CASE y <= x
      BY <3>2
    <3> QED
      BY <3>1, <3>2
  <2> QED
    BY <2>1 DEF Least, Min
<1> QED
  BY <1>1

LEMMA AboveZeroIs ==
    ASSUME NEW x \in Int
    PROVE  Max({0, x}) = IF x <= 0 THEN 0 ELSE x
<1>1. Max({0, x}) \in {0, x} /\ \A z \in {0, x} : Max({0, x}) >= z
  <2>1. \E m \in {0, x} : \A z \in {0, x} : m >= z
    <3>1. CASE x <= 0
      BY <3>1
    <3>2. CASE 0 <= x
      BY <3>2
    <3> QED
      BY <3>1, <3>2
  <2> QED
    BY <2>1 DEF Max
<1> QED
  BY <1>1

\* What an answer of Core may make of a row: only the acknowledgement of a cancellation
\* makes it cancelled, and only a last report ends it.
LiveRow(r) == r.state \in {"leased", "running"}
RowMoves(r, s) ==
    /\ s \in RowSet
    /\ s.state = "none" => r.state = "none"
    /\ RowSound(r) => RowSound(s)

LEMMA AnswerRow ==
    ASSUME NEW r \in RowSet, NEW op, now \in Nat, RowSound(r)
    PROVE  /\ RowMoves(r, Answer(op, r).row)
           /\ Answer(op, r).row.state = "cancelled" => r.state = "cancelled" \/ op = "cancelled"
           /\ op \notin Closing /\ LiveRow(r) =>
                LiveRow(Answer(op, r).row) /\ r.expires <= Answer(op, r).row.expires
<1>1. CASE op = "start"
  BY <1>1 DEF Answer, Started, RowMoves, RowSound, LiveRow, RowSet
<1>2. CASE op = "beat"
  <2>1. CASE r.state = "running" /\ Valid(r)
    <3>1. LeaseSeconds \in Nat /\ r.deadline \in Nat /\ r.expires \in Nat
      BY ProviderAssumption DEF RowSet
    <3>2. PICK e \in Nat : /\ e = Least(r.deadline, now + LeaseSeconds)
                           /\ e <= r.deadline /\ e <= now + LeaseSeconds
                           /\ e = r.deadline \/ e = now + LeaseSeconds
      BY <3>1, LeastIs
    <3>3. Answer(op, r).row = [r EXCEPT !.expires = e]
      BY <1>2, <2>1, <3>2 DEF Answer, Beaten
    <3>4. r.expires <= e
      BY <2>1, <3>1, <3>2 DEF RowSound
    <3> QED
      BY <1>2, <2>1, <3>1, <3>2, <3>3, <3>4 DEF RowMoves, RowSound, LiveRow, RowSet
  <2>2. CASE ~(r.state = "running" /\ Valid(r))
    BY <1>2, <2>2 DEF Answer, Beaten, RowMoves, RowSound, LiveRow, RowSet
  <2> QED
    BY <2>1, <2>2
<1>3. CASE op \in Closing
  BY <1>3 DEF Answer, Completed, Failed, Over, Closing, RowMoves, RowSound, LiveRow, RowSet
<1>4. CASE op \notin {"start", "beat"} \cup Closing
  <2>1. Answer(op, r) = Stored(r)
    BY <1>4 DEF Answer, Closing
  <2>2. Answer(op, r).row = r
    BY <2>1 DEF Stored
  <2> QED
    BY <1>4, <2>2 DEF RowMoves, RowSet
<1> QED
  BY <1>1, <1>2, <1>3, <1>4

-------------------------------------------------------------------------------
(* Steps.  Rests: what every part of the invariant but the child's needs of *)
(* a step that sends no last report and starts no work of an attempt.       *)

RowsRest ==
    \A a \in Attempts :
        /\ RowMoves(rows[a], rows'[a])
        /\ rows'[a].state = "cancelled" => rows[a].state = "cancelled" \/ Sent("cancelled", a)

\* Work of an attempt is not begun.
WorksRest == \A a \in Attempts : works[a] = "none" => works'[a] = "none"

JobRests ==
    \/ Working' \notin Attempts
    \/ Working' = Working /\ (job.stage = "finish" => job'.stage = "finish")

SentRests == \A op \in Closing, a \in Attempts : Sent(op, a)' => Sent(op, a)

GrantRests ==
    Granted(calls'["main"]) =>
        \/ calls'["main"] = calls["main"]
        \/ /\ calls'["main"].attempt \in Attempts
           /\ rows[calls'["main"].attempt].state = "none"
           /\ rows'[calls'["main"].attempt].state # "none"

Rests == RowsRest /\ WorksRest /\ JobRests /\ SentRests /\ GrantRests

LEMMA UntouchedRests ==
    ASSUME RowsRest, WorksRest, JobRests, SentRests, NEW a \in Attempts, Untouched(a)
    PROVE  Untouched(a)'
<1>1. \A op \in Closing : ~Sent(op, a)
  BY DEF Untouched
<1>2. \A op \in Closing : ~Sent(op, a)'
  BY <1>1 DEF SentRests
<1>3. rows'[a].state # "cancelled"
  BY <1>1 DEF RowsRest, Untouched, Closing
<1>4. works'[a] = "none" /\ Working' # a
  BY DEF Untouched, WorksRest, JobRests
<1> QED
  BY <1>2, <1>3, <1>4 DEF Untouched

LEMMA RestsKeeps ==
    ASSUME IInv, Rests
    PROVE  LeaseSound' /\ ClosingSound' /\ CancelledSound'
<1>1. LeaseSound'
  <2>1. ASSUME NEW a \in Attempts, rows'[a].state = "none" PROVE Untouched(a)'
    <3>1. rows[a].state = "none"
      BY <2>1 DEF Rests, RowsRest, RowMoves
    <3>2. Untouched(a)
      BY <3>1 DEF IInv, LeaseSound
    <3> QED
      BY <3>2, UntouchedRests DEF Rests
  <2>2. ASSUME Granted(calls'["main"]) PROVE Fresh(calls["main"].attempt)'
    <3>1. PICK a \in Attempts : /\ a = calls'["main"].attempt /\ Untouched(a)
                               /\ rows'[a].state # "none"
      BY <2>2 DEF Rests, GrantRests, IInv, LeaseSound, Fresh, RowsRest, RowMoves
    <3>2. Untouched(a)'
      BY <3>1, UntouchedRests DEF Rests
    <3> QED
      BY <3>1, <3>2 DEF Fresh, Untouched, Sent
  <2> QED
    BY <2>1, <2>2 DEF LeaseSound
<1>2. ClosingSound'
  <2> SUFFICES ASSUME NEW op \in Closing, NEW a \in Attempts, Sent(op, a)'
               PROVE  /\ Working' = a => job'.stage = "finish"
                      /\ op = "cancelled" => works'[a] = "none"
    BY DEF ClosingSound
  <2>1. Sent(op, a)
    BY DEF Rests, SentRests
  <2> QED
    BY <2>1 DEF IInv, ClosingSound, Rests, JobRests, WorksRest
<1>3. CancelledSound'
  <2> SUFFICES ASSUME NEW a \in Attempts, rows'[a].state = "cancelled"
               PROVE  works'[a] = "none" /\ (Working' = a => job'.stage = "finish")
    BY DEF CancelledSound
  <2>1. rows[a].state = "cancelled" \/ Sent("cancelled", a)
    BY DEF Rests, RowsRest
  <2>2. works[a] = "none" /\ (Working = a => job.stage = "finish")
    BY <2>1 DEF IInv, ClosingSound, CancelledSound, Closing
  <2> QED
    BY <2>2 DEF Rests, JobRests, WorksRest
<1> QED
  BY <1>1, <1>2, <1>3

LEMMA RowsStay ==
    ASSUME IInv, UNCHANGED <<now, rows>>
    PROVE  RowsRest /\ RowsSound' /\ rows' \in [Attempts -> RowSet]
BY DEF IInv, Typed, RowsRest, RowMoves, RowsSound, RowSound

\* The three parts of a step of the provider: its requests, its work, its job.
CallsKeep ==
    /\ calls' \in [Slots -> CallSet] /\ late' \subseteq LateSet
    /\ RequestsSound' /\ SentRests /\ GrantRests
WorksKeep ==
    /\ works' \in [Works -> {"none", "queued", "running", "orphan"}]
    /\ WorksRest /\ LatexSound'
JobKeeps == job' \in JobSet /\ up' \in BOOLEAN /\ JobSound' /\ JobRests

LEMMA Process ==
    ASSUME IInv, UNCHANGED <<now, rows, kind>>, CallsKeep, WorksKeep, JobKeeps, StatusSound'
    PROVE  IInv'
<1>1. RowsRest /\ RowsSound' /\ rows' \in [Attempts -> RowSet]
  BY RowsStay
<1>2. Rests
  BY <1>1 DEF Rests, CallsKeep, WorksKeep, JobKeeps
<1>3. LeaseSound' /\ ClosingSound' /\ CancelledSound'
  BY <1>2, RestsKeeps
<1>4. Typed'
  BY <1>1 DEF IInv, Typed, CallsKeep, WorksKeep, JobKeeps
<1> QED
  BY <1>1, <1>3, <1>4 DEF IInv, CallsKeep, WorksKeep, JobKeeps

LEMMA CallsStay == ASSUME IInv, UNCHANGED <<calls, late>> PROVE CallsKeep
BY DEF IInv, Typed, CallsKeep, RequestsSound, SentRests, Sent, GrantRests

LEMMA CallsSend ==
    ASSUME IInv, NEW slot \in Slots, NEW op \in Operations \ Closing, NEW a \in MaybeAttempt,
           op # "lease" => a \in Attempts, Send(slot, op, a), UNCHANGED late
    PROVE  CallsKeep
<1>1. /\ calls' = [calls EXCEPT ![slot] = [op |-> op, attempt |-> a, at |-> "sent", reply |-> None]]
      /\ calls \in [Slots -> CallSet] /\ late \subseteq LateSet /\ RequestsSound
  BY DEF Send, Open, IInv, Typed
<1>2. calls'[slot] = [op |-> op, attempt |-> a, at |-> "sent", reply |-> None]
      /\ \A s \in Slots : s # slot => calls'[s] = calls[s]
  BY <1>1
<1>3. calls'[slot] \in CallSet
  BY <1>2 DEF CallSet
<1>4. calls' \in [Slots -> CallSet]
  BY <1>1, <1>3
<1>5. RequestsSound'
  BY <1>1, <1>2 DEF RequestsSound
<1>6. SentRests
  BY <1>2 DEF SentRests, Sent
<1>7. GrantRests
  BY <1>2 DEF GrantRests, Granted, Slots
<1> QED
  BY <1>1, <1>4, <1>5, <1>6, <1>7 DEF CallsKeep

LEMMA CallsForget ==
    ASSUME IInv, NEW slot \in Slots, Forget(slot), UNCHANGED late
    PROVE  CallsKeep
<1>1. /\ calls' = [calls EXCEPT ![slot] = [op |-> None, attempt |-> None, at |-> "idle", reply |-> None]]
      /\ calls \in [Slots -> CallSet] /\ late \subseteq LateSet /\ RequestsSound
  BY DEF Forget, NoCall, IInv, Typed
<1>2. calls'[slot] = [op |-> None, attempt |-> None, at |-> "idle", reply |-> None]
      /\ \A s \in Slots : s # slot => calls'[s] = calls[s]
  BY <1>1
<1>3. calls'[slot] \in CallSet
  BY <1>2 DEF CallSet, MaybeAttempt
<1>4. calls' \in [Slots -> CallSet]
  BY <1>1, <1>3
<1>5. RequestsSound'
  BY <1>1, <1>2 DEF RequestsSound
<1>6. SentRests
  BY <1>2 DEF SentRests, Sent
<1>7. GrantRests
  BY <1>2 DEF GrantRests, Granted, Slots
<1> QED
  BY <1>1, <1>4, <1>5, <1>6, <1>7 DEF CallsKeep

LEMMA WorksStay == ASSUME IInv, UNCHANGED <<kind, works>> PROVE WorksKeep
BY DEF IInv, Typed, WorksKeep, WorksRest, LatexSound, OneRenders

\* Work ends, or is left to itself.
LEMMA WorksEnd ==
    ASSUME IInv, UNCHANGED kind, works' \in [Works -> {"none", "queued", "running", "orphan"}],
           \A w \in Works : \/ works'[w] = works[w]
                            \/ works'[w] = "none"
                            \/ works'[w] = "orphan" /\ works[w] = "running"
    PROVE  WorksKeep
<1>1. WorksRest
  BY DEF WorksRest, Works
<1>2. LatexSound'
  BY DEF IInv, LatexSound, OneRenders
<1> QED
  BY <1>1, <1>2 DEF WorksKeep

LEMMA JobStays == ASSUME IInv, UNCHANGED <<job, up>> PROVE JobKeeps
BY DEF IInv, Typed, JobKeeps, JobSound, JobRests, Working

LEMMA NoJobIs == NoJob \in JobSet /\ NoJob.attempt = None /\ NoJob.stage = "none"
BY DEF NoJob, JobAt, JobSet, MaybeAttempt

LEMMA NoneIsNoAttempt == None \notin Attempts /\ Document \notin Attempts
BY ProviderAssumption DEF Attempts

LEMMA JobDrops == ASSUME IInv, job' = NoJob, up' \in BOOLEAN PROVE JobKeeps
BY NoJobIs, NoneIsNoAttempt DEF JobKeeps, JobSound, JobRests, Working

LEMMA JobGoesOn ==
    ASSUME IInv, up, UNCHANGED up, job.stage # "none", job' \in JobSet, Working' = Working,
           job.stage = "finish" => job'.stage = "finish"
    PROVE  JobKeeps
BY DEF IInv, Typed, JobKeeps, JobSound, JobRests

\* A status child runs only for an attempt at the stage "run".
LEMMA NoChild ==
    ASSUME IInv, kind = "status", job.stage # "run", NEW w \in Works
    PROVE  works[w] # "running"
BY DEF IInv, StatusSound, ChildSound, WithinLease

LEMMA StatusStays ==
    ASSUME IInv, UNCHANGED <<now, rows, kind, job, works>>
    PROVE  StatusSound'
BY DEF IInv, StatusSound, ChildSound, WithinLease, Covers, Live, HasResult, Working

\* Without a job at work there is no child.
LEMMA StatusRests ==
    ASSUME kind' = "status" => /\ job'.stage \notin {"start", "run"}
                               /\ \A w \in Works : works'[w] # "running"
    PROVE  StatusSound'
BY DEF StatusSound, ChildSound

-------------------------------------------------------------------------------
(* The steps the executors share.                                          *)

LEMMA JobTypes ==
    ASSUME IInv
    PROVE  /\ job.attempt \in MaybeAttempt /\ job.limit \in Int /\ now \in Nat
           /\ job.result \in {None, "success", "failure"} /\ job.lost \in BOOLEAN
           /\ Attempts \subseteq Nat /\ Attempts \subseteq MaybeAttempt /\ Attempts \subseteq Works
           /\ job.stage # "none" => Working \in Attempts
BY DEF IInv, Typed, JobSet, JobSound, Attempts, MaybeAttempt, Works

LEMMA ReportsKeeps == ASSUME IInv, Reports PROVE IInv'
<1>1. UNCHANGED <<now, rows, kind, up, job, works, calls, late>>
  BY DEF Reports
<1> QED
  BY <1>1, CallsStay, WorksStay, JobStays, StatusStays, Process

LEMMA AsksKeeps == ASSUME IInv, AsksForWork PROVE IInv'
<1>1. UNCHANGED <<now, rows, kind, up, job, works, late>> /\ Send("main", "lease", 0)
  BY DEF AsksForWork
<1>2. CallsKeep
  BY <1>1, CallsSend DEF Slots, Operations, Closing, MaybeAttempt
<1> QED
  BY <1>1, <1>2, WorksStay, JobStays, StatusStays, Process

LEMMA DropKeeps ==
    ASSUME IInv, Drop, UNCHANGED <<now, rows, kind, up, late>>, WorksKeep,
           kind = "status" => \A w \in Works : works'[w] # "running"
    PROVE  IInv'
<1>1. CallsKeep
  BY CallsForget DEF Drop, Slots
<1>2. JobKeeps
  BY JobDrops DEF Drop, IInv, Typed
<1>3. StatusSound'
  BY StatusRests, NoJobIs DEF Drop
<1> QED
  BY <1>1, <1>2, <1>3, Process

LEMMA JobAtIs ==
    ASSUME NEW a \in Attempts, NEW stage \in {"start", "run", "close", "finish"},
           NEW limit \in Int, NEW result \in {None, "success", "failure"}
    PROVE  /\ JobAt(a, stage, limit, result) \in JobSet
           /\ JobAt(a, stage, limit, result).attempt = a
           /\ JobAt(a, stage, limit, result).stage = stage
           /\ JobAt(a, stage, limit, result).limit = limit
           /\ JobAt(a, stage, limit, result).result = result
BY DEF JobAt, JobSet, MaybeAttempt, Attempts

\* The lease of a status execution is still there as long as its stop lies ahead.
LeaseCovers(a, limit) ==
    now < limit => Live(a) /\ limit <= rows[a].expires

\* The lease is left to expire.
LEMMA PassesKeeps ==
    ASSUME IInv, Drop, job.stage = "none", UNCHANGED <<now, rows, kind, up, works, late>>
    PROVE  IInv'
<1>1. kind = "status" => \A w \in Works : works'[w] # "running"
  BY NoChild
<1> QED
  BY <1>1, WorksStay, DropKeeps

LEMMA TakesKeeps ==
    ASSUME IInv, NEW k, NEW limit \in Int, Takes(k, TRUE, limit),
           k = "status" => LeaseCovers(calls["main"].attempt, limit)
    PROVE  IInv'
<1>1. /\ UNCHANGED <<now, rows, kind, up, works, late>>
      /\ up /\ kind = k /\ job.stage = "none"
  BY DEF Takes, Is
<1>2. CASE Drop
  BY <1>1, <1>2, PassesKeeps
<1>3. CASE ~Drop
  <2>1. PICK a : a = calls["main"].attempt
    OBVIOUS
  <2>2. /\ Granted(calls["main"])
        /\ job' = JobAt(a, "start", limit, None) /\ Send("main", "start", a)
    BY <1>3, <2>1 DEF Takes, Granted, Answered, Reply
  <2>3. a \in Attempts /\ rows[a].state # "none" /\ Untouched(a)
    BY <2>1, <2>2 DEF IInv, LeaseSound, Fresh
  <2>4. job' \in JobSet /\ Working' = a /\ job'.stage = "start" /\ job'.limit = limit
        /\ a \in MaybeAttempt
    BY <2>2, <2>3, JobAtIs DEF Working, MaybeAttempt, Attempts
  <2>5. CallsKeep
    BY <1>1, <2>2, <2>3, <2>4, CallsSend DEF Slots, Operations, Closing
  <2>6. Typed' /\ RequestsSound' /\ RowsSound'
    BY <1>1, <2>4, <2>5, RowsStay DEF CallsKeep, IInv, Typed
  <2>7. JobSound'
    BY <1>1, <2>3, <2>4 DEF JobSound
  <2>8. calls'["main"].at = "sent"
    BY <2>2 DEF Send, Open, IInv, Typed, Slots
  <2>9. LeaseSound'
    <3>1. ASSUME NEW b \in Attempts, rows'[b].state = "none" PROVE Untouched(b)'
      <4>1. Untouched(b) /\ b # a
        BY <1>1, <2>3, <3>1 DEF IInv, LeaseSound
      <4>2. \A op \in Closing : ~Sent(op, b)'
        BY <2>5, <4>1 DEF CallsKeep, SentRests, Untouched
      <4> QED
        BY <1>1, <2>4, <4>1, <4>2 DEF Untouched
    <3> QED
      BY <2>8, <3>1 DEF LeaseSound, Granted
  <2>10. ClosingSound'
    <3> SUFFICES ASSUME NEW op \in Closing, NEW b \in Attempts, Sent(op, b)'
                 PROVE  /\ Working' = b => job'.stage = "finish"
                        /\ op = "cancelled" => works'[b] = "none"
      BY DEF ClosingSound
    <3>1. Sent(op, b)
      BY <2>5 DEF CallsKeep, SentRests
    <3>2. b # a
      BY <2>3, <3>1 DEF Untouched
    <3> QED
      BY <1>1, <2>4, <3>1, <3>2 DEF IInv, ClosingSound
  <2>11. CancelledSound'
    BY <1>1, <2>3, <2>4 DEF IInv, CancelledSound, Untouched
  <2>12. StatusSound'
    <3> SUFFICES ASSUME kind = "status" PROVE ChildSound'
      BY <1>1 DEF StatusSound
    <3>1. \A w \in Works : works'[w] # "running"
      BY <1>1, NoChild
    <3>2. works'[a] = "none" /\ LeaseCovers(a, limit)
      BY <1>1, <2>1, <2>2, <2>3 DEF Untouched
    <3> QED
      BY <1>1, <2>4, <3>1, <3>2 DEF ChildSound, Covers, Live, LeaseCovers, Working
  <2>13. LatexSound'
    BY <1>1 DEF IInv, LatexSound, OneRenders
  <2> QED
    BY <2>6, <2>7, <2>9, <2>10, <2>11, <2>12, <2>13 DEF IInv
<1> QED
  BY <1>2, <1>3

LEMMA GivesUpKeeps == ASSUME IInv, NEW k, GivesUp(k) \/ Closes(k) PROVE IInv'
<1>1. /\ UNCHANGED <<now, rows, kind, up, works, late>> /\ Drop
      /\ job.stage \in {"start", "finish"}
  BY DEF GivesUp, Closes, Is
<1>2. kind = "status" => \A w \in Works : works'[w] # "running"
  BY <1>1, NoChild
<1> QED
  BY <1>1, <1>2, WorksStay, DropKeeps

LEMMA BeatsKeeps == ASSUME IInv, NEW k, Beats(k) \/ GoesOn(k) PROVE IInv'
<1>1. UNCHANGED <<now, rows, kind, up, job, works, late>>
  BY DEF Beats, GoesOn
<1>2. CallsKeep
  <2>1. CASE Beats(k)
    <3>1. Send("main", "beat", Working) /\ Working \in Attempts /\ Working \in MaybeAttempt
      BY <2>1, JobTypes DEF Beats, Is
    <3> QED
      BY <1>1, <3>1, CallsSend DEF Slots, Operations, Closing
  <2>2. CASE GoesOn(k)
    BY <1>1, <2>2, CallsForget DEF GoesOn, Slots
  <2> QED
    BY <2>1, <2>2
<1> QED
  BY <1>1, <1>2, WorksStay, JobStays, StatusStays, Process

LEMMA RunsKeeps ==
    ASSUME IInv, NEW k, NEW seconds \in Int, NEW state \in {"running", "queued"},
           Runs(k, seconds, state),
           k = "status" => /\ state = "running" /\ now < job.limit
                           /\ 0 <= seconds /\ now + seconds + Margin <= job.limit,
           k = "latex" => state = "queued"
    PROVE  IInv'
<1>1. PICK a : a = job.attempt
  OBVIOUS
<1>2. /\ UNCHANGED <<now, rows, kind, up, late>> /\ Forget("main")
      /\ kind = k /\ up /\ job.stage = "start"
      /\ job' = JobAt(a, "run", now + seconds, None)
      /\ works' = [works EXCEPT ![a] = state]
  BY <1>1 DEF Runs, Is, Begin, Working
<1>3. a \in Attempts /\ a \in Works /\ now + seconds \in Int /\ Margin \in Int /\ job.limit \in Int
  BY <1>1, <1>2, JobTypes, ProviderAssumption DEF Working
<1>4. job' \in JobSet /\ job'.attempt = a /\ job'.stage = "run" /\ job'.limit = now + seconds
      /\ job'.result = None
  BY <1>2, <1>3, JobAtIs
<1>5. /\ works' \in [Works -> {"none", "queued", "running", "orphan"}]
      /\ works'[a] = state /\ \A w \in Works : w # a => works'[w] = works[w]
  BY <1>2, <1>3 DEF IInv, Typed
<1>6. CallsKeep
  BY <1>2, CallsForget DEF Slots
<1>7. Typed' /\ RequestsSound' /\ RowsSound'
  BY <1>2, <1>4, <1>5, <1>6, RowsStay DEF CallsKeep, IInv, Typed
<1>8. JobSound'
  BY <1>2, <1>3, <1>4 DEF JobSound, Working
<1>9. calls'["main"].at = "idle"
  BY <1>2 DEF Forget, NoCall, IInv, Typed, Slots
<1>10. LeaseSound'
  <2>1. ASSUME NEW b \in Attempts, rows'[b].state = "none" PROVE Untouched(b)'
    <3>1. Untouched(b) /\ b # a
      BY <1>1, <1>2, <2>1 DEF IInv, LeaseSound, Untouched, Working
    <3>2. \A op \in Closing : ~Sent(op, b)'
      BY <1>6, <3>1 DEF CallsKeep, SentRests, Untouched
    <3> QED
      BY <1>2, <1>4, <1>5, <3>1, <3>2 DEF Untouched, Working, Works
  <2> QED
    BY <1>9, <2>1 DEF LeaseSound, Granted
<1>11. ClosingSound'
  <2> SUFFICES ASSUME NEW op \in Closing, NEW b \in Attempts, Sent(op, b)'
               PROVE  /\ Working' = b => job'.stage = "finish"
                      /\ op = "cancelled" => works'[b] = "none"
    BY DEF ClosingSound
  <2>1. Sent(op, b)
    BY <1>6 DEF CallsKeep, SentRests
  <2>2. b # a
    BY <1>1, <1>2, <2>1 DEF IInv, ClosingSound, Working
  <2> QED
    BY <1>4, <1>5, <2>1, <2>2 DEF IInv, ClosingSound, Working, Works
<1>12. CancelledSound'
  BY <1>1, <1>2, <1>4, <1>5 DEF IInv, CancelledSound, Working, Works
<1>13. StatusSound'
  <2> SUFFICES ASSUME kind = "status" PROVE ChildSound'
    BY <1>2 DEF StatusSound
  <2>1. \A w \in Works : works[w] # "running"
    BY <1>2, NoChild
  <2>2. Live(a) /\ job.limit <= rows[a].expires /\ rows[a].expires \in Int
    BY <1>1, <1>2, <1>3 DEF IInv, Typed, StatusSound, ChildSound, Covers, Working, RowSet
  <2>3. now + seconds + Margin <= rows[a].expires /\ now <= now + seconds
    BY <1>2, <1>3, <2>2, JobTypes
  <2>4. \A w \in Works : works'[w] = "running" => w = a
    BY <1>5, <2>1
  <2>5. WithinLease(a)'
    BY <1>2, <1>3, <1>4, <2>2, <2>3 DEF WithinLease, Live, Working, HasResult
  <2> QED
    BY <1>2, <1>4, <1>5, <2>4, <2>5 DEF ChildSound, Working
<1>14. LatexSound'
  BY <1>2, <1>5 DEF IInv, LatexSound, OneRenders
<1> QED
  BY <1>7, <1>8, <1>10, <1>11, <1>12, <1>13, <1>14 DEF IInv

LEMMA ReportKeeps ==
    ASSUME IInv, up, job.stage \in {"run", "close"}, NEW op \in Closing, Report(op),
           UNCHANGED <<now, rows, kind, up, late>>, WorksKeep,
           op = "cancelled" => works'[Working] = "none",
           kind = "status" => \A w \in Works : works'[w] # "running"
    PROVE  IInv'
<1>1. PICK a : a = job.attempt
  OBVIOUS
<1>2. a \in Attempts /\ a \in MaybeAttempt
  BY <1>1, JobTypes DEF Working
<1>3. job' = JobAt(a, "finish", 0, None)
      /\ calls' = [calls EXCEPT !["main"] = [op |-> op, attempt |-> a, at |-> "sent", reply |-> None]]
  BY <1>1 DEF Report, Send, Open, Working
<1>4. job' \in JobSet /\ job'.attempt = a /\ job'.stage = "finish"
  BY <1>2, <1>3, JobAtIs
<1>5. /\ calls \in [Slots -> CallSet] /\ late \subseteq LateSet /\ "main" \in Slots
      /\ calls'["main"] = [op |-> op, attempt |-> a, at |-> "sent", reply |-> None]
      /\ \A s \in Slots : s # "main" => calls'[s] = calls[s]
  BY <1>3 DEF IInv, Typed, Slots
<1>6. op \in Operations /\ op # "lease"
  BY DEF Operations, Closing
<1>7. calls'["main"] \in CallSet
  BY <1>2, <1>5, <1>6 DEF CallSet
<1>8. calls' \in [Slots -> CallSet]
  BY <1>3, <1>5, <1>7
<1>9. RequestsSound'
  BY <1>2, <1>5, <1>6 DEF IInv, RequestsSound
<1>10. Typed' /\ RowsSound'
  BY <1>4, <1>8, RowsStay DEF IInv, Typed, WorksKeep
<1>11. \A o \in Closing, b \in Attempts : Sent(o, b)' => Sent(o, b) \/ (o = op /\ b = a)
  BY <1>5 DEF Sent
<1>12. JobSound'
  BY <1>2, <1>4 DEF JobSound, Working
<1>13. LeaseSound'
  <2>1. ASSUME NEW b \in Attempts, rows'[b].state = "none" PROVE Untouched(b)'
    <3>1. Untouched(b) /\ b # a
      BY <1>1, <2>1 DEF IInv, LeaseSound, Untouched, Working
    <3>2. \A o \in Closing : ~Sent(o, b)'
      BY <1>11, <3>1 DEF Untouched
    <3> QED
      BY <1>4, <3>1, <3>2 DEF Untouched, Working, WorksKeep, WorksRest
  <2> QED
    BY <1>5, <2>1 DEF LeaseSound, Granted
<1>14. ClosingSound'
  <2> SUFFICES ASSUME NEW o \in Closing, NEW b \in Attempts, Sent(o, b)'
               PROVE  o = "cancelled" => works'[b] = "none"
    BY <1>4 DEF ClosingSound
  <2>1. CASE Sent(o, b)
    BY <2>1 DEF IInv, ClosingSound, WorksKeep, WorksRest
  <2>2. CASE o = op /\ b = a
    BY <1>1, <2>2 DEF Working
  <2> QED
    BY <1>11, <2>1, <2>2
<1>15. CancelledSound'
  BY <1>4 DEF IInv, CancelledSound, WorksKeep, WorksRest
<1>16. StatusSound'
  BY <1>4, StatusRests
<1> QED
  BY <1>9, <1>10, <1>12, <1>13, <1>14, <1>15, <1>16 DEF IInv, WorksKeep

LEMMA FinishesKeeps == ASSUME IInv, NEW k, Finishes(k) PROVE IInv'
<1>1. /\ UNCHANGED <<now, rows, kind, up, works, late>>
      /\ up /\ job.stage = "run" /\ HasResult
  BY DEF Finishes, Is
<1>2. PICK op \in {"complete", "fail"} : Report(op)
  BY DEF Finishes
<1>3. op \in Closing /\ op # "cancelled"
  BY <1>2 DEF Closing
<1>4. kind = "status" => \A w \in Works : works'[w] # "running"
  BY <1>1 DEF IInv, StatusSound, ChildSound, WithinLease
<1> QED
  BY <1>1, <1>2, <1>3, <1>4, WorksStay, ReportKeeps

-------------------------------------------------------------------------------
(* The status provider.                                                    *)

LEMMA SecondsAre ==
    ASSUME NEW left \in Int
    PROVE  /\ Max({0, Least(Timeout, left)}) \in Nat
           /\ Max({0, Least(Timeout, left)}) > 0 => Max({0, Least(Timeout, left)}) <= left
<1>1. Timeout \in Int
  BY ProviderAssumption
<1>2. PICK x \in Int : x = Least(Timeout, left) /\ x <= left
  BY <1>1, LeastIs
<1>3. Max({0, x}) = IF x <= 0 THEN 0 ELSE x
  BY AboveZeroIs
<1> QED
  BY <1>2, <1>3

LEMMA StatusTakesKeeps == ASSUME IInv, StatusTakes PROVE IInv'
<1>1. PICK a : a = calls["main"].attempt
  OBVIOUS
<1>2. CASE Granted(calls["main"]) /\ StatusSeconds(AbsoluteStop(a)) > 0
  <2>1. a \in Attempts /\ rows[a] \in RowSet /\ RowSound(rows[a])
    BY <1>1, <1>2 DEF IInv, LeaseSound, Fresh, RowsSound, Typed
  <2>2. rows[a].deadline \in Nat /\ rows[a].expires \in Nat
    BY <2>1 DEF RowSet
  <2>3. PICK limit \in Int : limit = AbsoluteStop(a) /\ limit <= rows[a].expires
    BY <2>2, LeastIs DEF AbsoluteStop
  <2>4. Takes("status", TRUE, limit)
    BY <1>1, <1>2, <2>3 DEF StatusTakes, Takes
  <2>5. LeaseCovers(calls["main"].attempt, limit)
    BY <1>1, <2>1, <2>2, <2>3, JobTypes DEF LeaseCovers, Live, RowSound
  <2> QED
    BY <2>4, <2>5, TakesKeeps
<1>3. CASE ~(Granted(calls["main"]) /\ StatusSeconds(AbsoluteStop(a)) > 0)
  <2>1. /\ Drop /\ job.stage = "none" /\ UNCHANGED <<now, rows, kind, up, works, late>>
    BY <1>1, <1>3 DEF StatusTakes, Takes, Granted, Answered, Reply, Is
  <2> QED
    BY <2>1, PassesKeeps
<1> QED
  BY <1>2, <1>3

LEMMA StatusRunsKeeps == ASSUME IInv, StatusRuns PROVE IInv'
<1>1. job.limit \in Int /\ now \in Int /\ Margin \in Nat /\ Margin > 0
  BY JobTypes, ProviderAssumption
<1>2. PICK seconds \in Nat : /\ seconds = StatusSeconds(job.limit)
                             /\ seconds > 0 => seconds <= job.limit - now - Margin
  BY <1>1, SecondsAre DEF StatusSeconds
<1>3. Runs("status", seconds, "running") /\ seconds > 0
  BY <1>2 DEF StatusRuns, Runs
<1>4. now < job.limit /\ 0 <= seconds /\ now + seconds + Margin <= job.limit
  BY <1>1, <1>2, <1>3
<1> QED
  BY <1>3, <1>4, RunsKeeps

\* A step that ends the wait at the stage "run": nothing of the attempt runs any more.
LEMMA EndsKeeps ==
    ASSUME IInv, up, job.stage \in {"start", "run"}, NEW result \in {"success", "failure"},
           Ends(result), UNCHANGED <<now, rows, kind, up>>, CallsKeep, WorksKeep,
           kind = "status" => /\ works'[Working] = "none"
                              /\ \A w \in Works : works'[w] # "running"
    PROVE  IInv'
<1>1. PICK a : a = job.attempt
  OBVIOUS
<1>2. a \in Attempts /\ job' = JobAt(a, "run", 0, result)
  BY <1>1, JobTypes DEF Working, Ends
<1>3. job' \in JobSet /\ job'.attempt = a /\ job'.stage = "run"
  BY <1>2, JobAtIs
<1>4. JobKeeps
  BY <1>1, <1>3, JobGoesOn DEF Working
<1>5. StatusSound'
  BY <1>1, <1>3 DEF StatusSound, ChildSound, Working
<1> QED
  BY <1>4, <1>5, Process

LEMMA StartsTooLateKeeps == ASSUME IInv, StatusStartsTooLate PROVE IInv'
<1>1. /\ UNCHANGED <<now, rows, kind, up, works, late>>
      /\ up /\ job.stage = "start" /\ kind = "status" /\ Ends("failure") /\ Forget("main")
  BY DEF StatusStartsTooLate, Is
<1>2. CallsKeep
  BY <1>1, CallsForget DEF Slots
<1>3. works[Working] = "none" /\ \A w \in Works : works[w] # "running"
  BY <1>1, NoChild DEF IInv, StatusSound, ChildSound
<1> QED
  BY <1>1, <1>2, <1>3, WorksStay, EndsKeeps

\* Where the child of the attempt is stopped or has ended, none runs.
LEMMA ChildStops ==
    ASSUME IInv, kind = "status", job.stage = "run", UNCHANGED kind,
           StopChild \/ Begin(Working, "none")
    PROVE  /\ WorksKeep /\ works'[Working] = "none"
           /\ \A w \in Works : works'[w] # "running"
<1>1. Working \in Works /\ works \in [Works -> {"none", "queued", "running", "orphan"}]
  BY JobTypes DEF IInv, Typed
<1>2. works[Working] \in {"none", "running"}
      /\ \A w \in Works : works[w] = "running" => w = Working
  BY DEF IInv, StatusSound, ChildSound, WithinLease
<1>3. works' = [works EXCEPT ![Working] = "none"]
  BY <1>1, <1>2 DEF StopChild, Begin
<1>4. works' \in [Works -> {"none", "queued", "running", "orphan"}] /\ works'[Working] = "none"
      /\ \A w \in Works : w # Working => works'[w] = works[w]
  BY <1>1, <1>3
<1>5. WorksKeep
  BY <1>4, WorksEnd
<1> QED
  BY <1>2, <1>4, <1>5

LEMMA ChildEndsKeeps == ASSUME IInv, ChildEnds \/ ChildTimesOut PROVE IInv'
<1>1. /\ UNCHANGED <<now, rows, kind, up, calls, late>>
      /\ up /\ job.stage = "run" /\ kind = "status"
      /\ StopChild \/ Begin(Working, "none")
  BY DEF ChildEnds, ChildTimesOut, Waits, Is
<1>2. PICK result \in {"success", "failure"} : Ends(result)
  BY DEF ChildEnds, ChildTimesOut
<1> QED
  BY <1>1, <1>2, CallsStay, ChildStops, EndsKeeps

LEMMA StatusAbandonsKeeps == ASSUME IInv, StatusAbandons PROVE IInv'
<1>1. /\ UNCHANGED <<now, rows, kind, up, late>>
      /\ job.stage = "run" /\ kind = "status" /\ StopChild /\ Drop
  BY DEF StatusAbandons, Is
<1> QED
  BY <1>1, ChildStops, DropKeeps

LEMMA StatusCancelsKeeps == ASSUME IInv, StatusCancels PROVE IInv'
<1>1. /\ UNCHANGED <<now, rows, kind, up, late>>
      /\ up /\ job.stage = "run" /\ kind = "status" /\ StopChild /\ Report("cancelled")
  BY DEF StatusCancels, Is
<1>2. "cancelled" \in Closing
  BY DEF Closing
<1> QED
  BY <1>1, <1>2, ChildStops, ReportKeeps

\* The process ends: what it has sent may still arrive.
LEMMA GoesDownKeeps ==
    ASSUME IInv, GoesDown, WorksKeep, kind = "status" => \A w \in Works : works'[w] # "running"
    PROVE  IInv'
<1>1. /\ UNCHANGED <<now, rows, kind>> /\ job' = NoJob /\ up' = FALSE
      /\ calls' = [slot \in Slots |-> [op |-> None, attempt |-> None, at |-> "idle", reply |-> None]]
  BY DEF GoesDown, NoCall
<1>2. calls' \in [Slots -> CallSet] /\ \A slot \in Slots : calls'[slot].at = "idle"
  BY <1>1 DEF CallSet, MaybeAttempt
<1>3. \A m \in late' : m \in late \/ \E slot \in Slots :
         calls[slot].at = "sent" /\ m = [op |-> calls[slot].op, attempt |-> calls[slot].attempt]
  BY DEF GoesDown, Arrives, InFlight
<1>4. late' \subseteq LateSet
  BY <1>3 DEF IInv, Typed, RequestsSound, CallSet, LateSet
<1>5. RequestsSound'
  BY <1>2, <1>3 DEF IInv, RequestsSound
<1>6. SentRests
  BY <1>2, <1>3 DEF SentRests, Sent
<1>7. CallsKeep
  BY <1>2, <1>4, <1>5, <1>6 DEF CallsKeep, GrantRests, Granted, Slots
<1>8. StatusSound'
  BY <1>1, StatusRests, NoJobIs
<1> QED
  BY <1>1, <1>7, <1>8, JobDrops, Process

LEMMA InterruptedKeeps == ASSUME IInv, StatusInterrupted PROVE IInv'
<1>1. GoesDown /\ kind = "status" /\ UNCHANGED kind
      /\ works' = [a \in Works |-> IF works[a] = "running" THEN "none" ELSE works[a]]
  BY DEF StatusInterrupted, GoesDown
<1>2. works' \in [Works -> {"none", "queued", "running", "orphan"}]
      /\ \A w \in Works : works'[w] = "none" \/ (works'[w] = works[w] /\ works'[w] # "running")
  BY <1>1 DEF IInv, Typed
<1>3. WorksKeep
  BY <1>1, <1>2, WorksEnd
<1> QED
  BY <1>1, <1>2, <1>3, GoesDownKeeps

LEMMA KilledKeeps == ASSUME IInv, Killed PROVE IInv'
<1>1. GoesDown /\ UNCHANGED kind
      /\ works' = [w \in Works |-> IF kind = "status" /\ works[w] = "running"
                                   THEN "orphan" ELSE works[w]]
  BY DEF Killed, GoesDown
<1>2. works' \in [Works -> {"none", "queued", "running", "orphan"}]
      /\ \A w \in Works : \/ works'[w] = works[w] /\ (kind = "status" => works'[w] # "running")
                          \/ works'[w] = "orphan" /\ works[w] = "running"
  BY <1>1 DEF IInv, Typed
<1>3. WorksKeep
  BY <1>1, <1>2, WorksEnd
<1> QED
  BY <1>1, <1>2, <1>3, GoesDownKeeps

LEMMA OrphanEndsKeeps == ASSUME IInv, OrphanEnds PROVE IInv'
<1>1. PICK a \in Attempts : works[a] = "orphan" /\ works' = [works EXCEPT ![a] = "none"]
  BY DEF OrphanEnds, Begin
<1>2. UNCHANGED <<now, rows, kind, up, job, calls, late>>
  BY DEF OrphanEnds
<1>3. works' \in [Works -> {"none", "queued", "running", "orphan"}] /\ a \in Works
      /\ works'[a] = "none" /\ \A w \in Works : w # a => works'[w] = works[w]
  BY <1>1, JobTypes DEF IInv, Typed
<1>4. WorksKeep
  BY <1>2, <1>3, WorksEnd
<1>5. StatusSound'
  <2> SUFFICES ASSUME kind = "status" PROVE ChildSound'
    BY <1>2 DEF StatusSound
  <2>1. ChildSound
    BY DEF IInv, StatusSound
  <2>2. \A w \in Works : works'[w] = "running" => works[w] = "running"
    BY <1>3
  <2>3. job.stage # "none" => Working \in Works
    BY JobTypes
  <2> QED
    BY <1>2, <1>3, <2>1, <2>2, <2>3
    DEF ChildSound, WithinLease, Covers, Live, HasResult, Working
<1> QED
  BY <1>2, <1>4, <1>5, CallsStay, JobStays, Process

-------------------------------------------------------------------------------
(* The Wolfram and LaTeX providers.                                        *)

LEMMA WolframTakesKeeps == ASSUME IInv, WolframTakes PROVE IInv'
<1>1. PICK a : a = calls["main"].attempt
  OBVIOUS
<1>2. CASE Granted(calls["main"]) /\ WolframSeconds(a) >= 1 /\ WolframCanStart(a)
  <2>1. a \in Attempts /\ rows[a] \in RowSet
    BY <1>1, <1>2 DEF IInv, LeaseSound, Fresh, Typed
  <2>2. rows[a].deadline - now - Margin \in Int
    BY <2>1, JobTypes, ProviderAssumption DEF RowSet
  <2>3. PICK limit \in Int : limit = WolframSeconds(a)
    BY <2>2, SecondsAre DEF WolframSeconds
  <2>4. Takes("wolfram", TRUE, limit)
    BY <1>1, <1>2, <2>3 DEF WolframTakes, Takes
  <2> QED
    BY <2>4, TakesKeeps
<1>3. CASE ~(Granted(calls["main"]) /\ WolframSeconds(a) >= 1 /\ WolframCanStart(a))
  <2>1. /\ Drop /\ job.stage = "none" /\ UNCHANGED <<now, rows, kind, up, works, late>>
    BY <1>1, <1>3 DEF WolframTakes, Takes, Granted, Answered, Reply, Is
  <2> QED
    BY <2>1, PassesKeeps
<1> QED
  BY <1>2, <1>3

LEMMA LatexTakesKeeps == ASSUME IInv, LatexTakes PROVE IInv'
<1>1. PICK a : a = calls["main"].attempt
  OBVIOUS
<1>2. CASE Granted(calls["main"]) /\ LatexSeconds(a) >= 1 /\ LatexCanStart(a)
  <2>1. a \in Attempts /\ rows[a] \in RowSet
    BY <1>1, <1>2 DEF IInv, LeaseSound, Fresh, Typed
  <2>2. rows[a].deadline - now - Margin \in Int
    BY <2>1, JobTypes, ProviderAssumption DEF RowSet
  <2>3. PICK limit \in Int : limit = LatexSeconds(a)
    BY <2>2, SecondsAre DEF LatexSeconds
  <2>4. Takes("latex", TRUE, limit)
    BY <1>1, <1>2, <2>3 DEF LatexTakes, Takes
  <2> QED
    BY <2>4, TakesKeeps
<1>3. CASE ~(Granted(calls["main"]) /\ LatexSeconds(a) >= 1 /\ LatexCanStart(a))
  <2>1. /\ Drop /\ job.stage = "none" /\ UNCHANGED <<now, rows, kind, up, works, late>>
    BY <1>1, <1>3 DEF LatexTakes, Takes, Granted, Answered, Reply, Is
  <2> QED
    BY <2>1, PassesKeeps
<1> QED
  BY <1>2, <1>3

LEMMA OtherRunsKeeps == ASSUME IInv, WolframRuns \/ LatexRuns PROVE IInv'
<1>1. PICK limit \in Int : limit = job.limit
  BY JobTypes
<1>2. CASE Runs("wolfram", limit, "running")
  BY <1>2, RunsKeeps
<1>3. CASE Runs("latex", limit, "queued")
  BY <1>3, RunsKeeps
<1> QED
  BY <1>1, <1>2, <1>3 DEF WolframRuns, LatexRuns, Runs

LEMMA OtherAbandonsKeeps == ASSUME IInv, WolframAbandons \/ LatexAbandons PROVE IInv'
<1>1. UNCHANGED <<now, rows, kind, up, works, late>> /\ Drop /\ kind # "status"
  BY DEF WolframAbandons, LatexAbandons, Is
<1> QED
  BY <1>1, WorksStay, DropKeeps

LEMMA UnansweredKeeps == ASSUME IInv, WolframUnanswered \/ LatexUnanswered PROVE IInv'
<1>1. /\ UNCHANGED <<now, rows, kind, up, works, calls, late>>
      /\ up /\ job.stage = "run" /\ kind # "status" /\ Ends("failure")
  BY DEF WolframUnanswered, LatexUnanswered, Waits, Is
<1> QED
  BY <1>1, CallsStay, WorksStay, EndsKeeps

\* A worker is done with what it ran, whoever waits for it.
LEMMA WorkerEndsKeeps ==
    ASSUME IInv, NEW w \in Works, WolframWorkerEnds(w) \/ RenderEnds(w)
    PROVE  IInv'
<1>1. /\ UNCHANGED <<now, rows, kind, up, calls, late>>
      /\ kind # "status" /\ works' = [works EXCEPT ![w] = "none"]
  BY DEF WolframWorkerEnds, RenderEnds, Begin
<1>2. WorksKeep
  <2>1. works' \in [Works -> {"none", "queued", "running", "orphan"}]
        /\ \A v \in Works : works'[v] = works[v] \/ works'[v] = "none"
    BY <1>1 DEF IInv, Typed
  <2> QED
    BY <1>1, <2>1, WorksEnd
<1>3. \/ UNCHANGED job
      \/ up /\ job.stage = "run" /\ \E result \in {"success", "failure"} : Ends(result)
  BY DEF WolframWorkerEnds, RenderEnds, Waits, Is
<1>4. CASE UNCHANGED job
  <2>1. StatusSound'
    BY <1>1 DEF StatusSound
  <2> QED
    BY <1>1, <1>2, <1>4, <2>1, CallsStay, JobStays, Process
<1>5. CASE up /\ job.stage = "run" /\ \E result \in {"success", "failure"} : Ends(result)
  BY <1>1, <1>2, <1>5, CallsStay, EndsKeeps
<1> QED
  BY <1>3, <1>4, <1>5

\* The LaTeX worker: one thing waits, one is rendered.
LEMMA RenderKeeps ==
    ASSUME IInv, DocumentAsked \/ (\E w \in Works : RenderStarts(w))
    PROVE  IInv'
<1>1. UNCHANGED <<now, rows, kind, up, job, calls, late>> /\ kind = "latex"
  BY DEF DocumentAsked, RenderStarts
<1>2. Document \in Works /\ Document \notin Attempts
      /\ works \in [Works -> {"none", "queued", "running", "orphan"}]
  BY NoneIsNoAttempt DEF Works, IInv, Typed
<1>3. WorksKeep
  <2>1. CASE DocumentAsked
    <3>1. works' = [works EXCEPT ![Document] = "queued"]
      BY <2>1 DEF DocumentAsked, Begin
    <3>2. works' \in [Works -> {"none", "queued", "running", "orphan"}]
          /\ \A w \in Works : w # Document => works'[w] = works[w]
      BY <1>2, <3>1
    <3>3. WorksRest
      BY <1>2, <3>2 DEF WorksRest, Works
    <3>4. LatexSound'
      BY <1>1, <1>2, <3>1 DEF IInv, LatexSound, OneRenders
    <3> QED
      BY <3>2, <3>3, <3>4 DEF WorksKeep
  <2>2. ASSUME NEW w \in Works, RenderStarts(w) PROVE WorksKeep
    <3>1. works' = [works EXCEPT ![w] = "running"] /\ works[w] = "queued" /\ RenderLockFree
      BY <2>2 DEF RenderStarts, Begin
    <3>2. works' \in [Works -> {"none", "queued", "running", "orphan"}]
          /\ \A v \in Works : v # w => works'[v] = works[v]
      BY <1>2, <3>1
    <3>3. WorksRest
      BY <3>1, <3>2 DEF WorksRest, Works
    <3>4. \A v \in Works : works'[v] = "running" => v = w
      BY <3>1, <3>2 DEF RenderLockFree
    <3> QED
      BY <3>2, <3>3, <3>4 DEF WorksKeep, LatexSound, OneRenders
  <2> QED
    BY <2>1, <2>2
<1>4. StatusSound'
  BY <1>1 DEF StatusSound
<1> QED
  BY <1>1, <1>3, <1>4, CallsStay, JobStays, Process

\* A step of the LaTeX process that keeps its work and its attempt.
LEMMA LatexJobKeeps ==
    ASSUME IInv, kind = "latex", up, job.stage # "none", CallsKeep,
           UNCHANGED <<now, rows, kind, up, works>>,
           job' \in JobSet, Working' = Working, job'.stage # "none",
           job.stage = "finish" => job'.stage = "finish"
    PROVE  IInv'
<1>1. StatusSound'
  BY DEF StatusSound
<1> QED
  BY <1>1, WorksStay, JobGoesOn, Process

LEMMA LatexFinishesKeeps == ASSUME IInv, LatexFinishes PROVE IInv'
<1>1. CASE Finishes("latex")
  BY <1>1, FinishesKeeps
<1>2. CASE ~Finishes("latex")
  <2>1. /\ UNCHANGED <<now, rows, kind, up, works, late>>
        /\ kind = "latex" /\ up /\ job.stage = "run"
        /\ job' = [job EXCEPT !.stage = "store"] /\ Send("main", "reserve", Working)
    BY <1>2 DEF LatexFinishes, Is
  <2>2. Working \in Attempts /\ Working \in MaybeAttempt
    BY <2>1, JobTypes
  <2>3. CallsKeep
    BY <2>1, <2>2, CallsSend DEF Slots, Operations, Closing, Steps
  <2>4. job' \in JobSet /\ Working' = Working /\ job'.stage = "store"
    BY <2>1 DEF IInv, Typed, JobSet, Working
  <2> QED
    BY <2>1, <2>3, <2>4, LatexJobKeeps
<1> QED
  BY <1>1, <1>2

LEMMA StoresOnKeeps == ASSUME IInv, StoresOn \/ KeeperBeats PROVE IInv'
<1>1. /\ UNCHANGED <<now, rows, kind, up, works, job, late>>
      /\ kind = "latex" /\ up /\ job.stage = "store"
  BY DEF StoresOn, KeeperBeats, Storing, Is
<1>2. PICK slot \in Slots, op \in {"upload", "finalize", "beat"} : Send(slot, op, Working)
  BY DEF StoresOn, KeeperBeats, NextStep, Slots
<1>3. Working \in Attempts /\ Working \in MaybeAttempt
  BY <1>1, JobTypes
<1>4. CallsKeep
  BY <1>1, <1>2, <1>3, CallsSend DEF Operations, Closing, Steps
<1> QED
  BY <1>1, <1>4, WorksStay, JobStays, StatusStays, Process

LEMMA StoreEndsKeeps == ASSUME IInv, StoreEnds PROVE IInv'
<1>1. PICK a : a = job.attempt
  OBVIOUS
<1>2. /\ UNCHANGED <<now, rows, kind, up, works, late>>
      /\ kind = "latex" /\ up /\ job.stage = "store" /\ Forget("main")
  BY DEF StoreEnds, Storing, Is
<1>3. a \in Attempts
  BY <1>1, <1>2, JobTypes DEF Working
<1>4. PICK result \in {None, "success", "failure"} : job' = JobAt(a, "close", 0, result)
  BY <1>1, JobTypes DEF StoreEnds, Working
<1>5. job' \in JobSet /\ Working' = Working /\ job'.stage = "close"
  BY <1>1, <1>3, <1>4, JobAtIs DEF Working
<1>6. CallsKeep
  BY <1>2, CallsForget DEF Slots
<1> QED
  BY <1>2, <1>5, <1>6, LatexJobKeeps

LEMMA KeeperHearsKeeps == ASSUME IInv, KeeperHears PROVE IInv'
<1>1. /\ UNCHANGED <<now, rows, kind, up, works, late>>
      /\ kind = "latex" /\ up /\ Forget("keeper")
  BY DEF KeeperHears
<1>2. PICK lost \in BOOLEAN : job' = [job EXCEPT !.lost = lost]
  BY JobTypes DEF KeeperHears
<1>3. job' \in JobSet /\ Working' = Working /\ job'.stage = job.stage
  BY <1>2 DEF IInv, Typed, JobSet, Working
<1>4. CallsKeep
  BY <1>1, CallsForget DEF Slots
<1>5. JobKeeps
  BY <1>1, <1>3 DEF IInv, Typed, JobKeeps, JobSound, JobRests
<1>6. StatusSound'
  BY <1>1 DEF StatusSound
<1> QED
  BY <1>1, <1>4, <1>5, <1>6, WorksStay, Process

LEMMA LatexReportsKeeps == ASSUME IInv, LatexReports PROVE IInv'
<1>1. /\ UNCHANGED <<now, rows, kind, up, works, late>>
      /\ kind = "latex" /\ up /\ job.stage = "close"
      /\ Report("complete") \/ Drop
  BY DEF LatexReports, Is
<1>2. "complete" \in Closing /\ "complete" # "cancelled" /\ kind # "status"
  BY <1>1 DEF Closing
<1> QED
  BY <1>1, <1>2, WorksStay, ReportKeeps, DropKeeps

-------------------------------------------------------------------------------
(* Core.  A live attempt that is not out of time stays live, and its lease *)
(* never shrinks, until a last report is served.                           *)

RowsLive ==
    \A a \in Attempts :
        Live(a) /\ now < rows[a].expires /\ (\A op \in Closing : ~Sent(op, a)) =>
            LiveRow(rows'[a]) /\ rows[a].expires <= rows'[a].expires

LEMMA CoreKeeps ==
    ASSUME IInv, UNCHANGED <<now, kind, up, job, works>>, CallsKeep,
           rows' \in [Attempts -> RowSet], RowsRest, RowsLive
    PROVE  IInv'
<1>1. WorksKeep /\ JobKeeps
  BY WorksStay, JobStays
<1>2. Rests
  BY <1>1 DEF Rests, CallsKeep, WorksKeep, JobKeeps
<1>3. LeaseSound' /\ ClosingSound' /\ CancelledSound'
  BY <1>2, RestsKeeps
<1>4. RowsSound'
  BY DEF IInv, RowsSound, RowSound, RowsRest, RowMoves
<1>5. Typed'
  BY <1>1 DEF IInv, Typed, CallsKeep, WorksKeep, JobKeeps
<1>6. StatusSound'
  <2> SUFFICES ASSUME kind = "status" PROVE ChildSound'
    BY DEF StatusSound
  <2>1. ChildSound /\ Margin \in Nat /\ Margin > 0 /\ job.limit \in Int /\ now \in Nat
    BY JobTypes, ProviderAssumption DEF IInv, StatusSound
  <2>2. ASSUME job.stage \in {"start", "run"}, Covers(Working), now < rows[Working].expires
        PROVE  /\ Working \in Attempts /\ LiveRow(rows'[Working])
               /\ rows[Working].expires <= rows'[Working].expires
               /\ rows[Working].expires \in Nat /\ rows'[Working].expires \in Nat
    <3>1. PICK a \in Attempts : a = Working
      BY <2>2, JobTypes
    <3>2. \A op \in Closing : ~Sent(op, a)
      BY <2>2, <3>1 DEF IInv, ClosingSound
    <3>3. rows[a] \in RowSet /\ rows'[a] \in RowSet
      BY <3>1 DEF IInv, Typed
    <3> QED
      BY <2>2, <3>1, <3>2, <3>3 DEF RowsLive, Covers, RowSet
  <2>3. ASSUME job.stage = "start", now < job.limit PROVE Covers(Working)'
    <3>1. Covers(Working) /\ Working \in Attempts
      BY <2>1, <2>3, JobTypes DEF ChildSound
    <3>2. rows[Working].expires \in Nat
      BY <3>1 DEF IInv, Typed, RowSet
    <3>3. now < rows[Working].expires
      BY <2>1, <2>3, <3>1, <3>2 DEF Covers
    <3> QED
      BY <2>1, <2>2, <2>3, <3>1, <3>3 DEF Covers, Live, LiveRow, Working
  <2>4. ASSUME NEW w \in Works, works[w] = "running" PROVE WithinLease(w)'
    <3>1. WithinLease(w)
      BY <2>1, <2>4 DEF ChildSound
    <3>2. rows[w].expires \in Nat
      BY <3>1 DEF WithinLease, IInv, Typed, RowSet
    <3>3. now < rows[Working].expires /\ Covers(Working)
      BY <2>1, <3>1, <3>2 DEF WithinLease, Covers
    <3> QED
      BY <2>1, <2>2, <3>1, <3>3 DEF WithinLease, Live, LiveRow, Working, HasResult
  <2> QED
    BY <2>1, <2>3, <2>4 DEF ChildSound, Working
<1> QED
  BY <1>1, <1>3, <1>4, <1>5, <1>6 DEF IInv, CallsKeep, WorksKeep, JobKeeps

LEMMA CallsReturn ==
    ASSUME IInv, NEW slot \in Slots, calls[slot].at = "sent", NEW a \in MaybeAttempt,
           NEW reply \in {"ok", "error", "nothing", "refused", "cancel"}, Returned(slot, a, reply),
           \A m \in late' : m \in late
                \/ m = [op |-> calls[slot].op, attempt |-> calls[slot].attempt],
           Granted(calls'["main"]) => calls'["main"] = calls["main"] \/ GrantRests
    PROVE  CallsKeep
<1>1. PICK op : op = calls[slot].op
  OBVIOUS
<1>2. /\ calls \in [Slots -> CallSet] /\ RequestsSound /\ late \subseteq LateSet
      /\ op \in Operations
      /\ calls' = [calls EXCEPT ![slot] = [op |-> op, attempt |-> a, at |-> "answered", reply |-> reply]]
  BY <1>1 DEF IInv, Typed, RequestsSound, Returned
<1>3. calls'[slot] = [op |-> op, attempt |-> a, at |-> "answered", reply |-> reply]
      /\ \A s \in Slots : s # slot => calls'[s] = calls[s]
  BY <1>2
<1>4. calls'[slot] \in CallSet
  BY <1>2, <1>3 DEF CallSet
<1>5. calls' \in [Slots -> CallSet]
  BY <1>2, <1>4
<1>6. late' \subseteq LateSet
  BY <1>1, <1>2 DEF LateSet, CallSet
<1>7. RequestsSound'
  BY <1>1, <1>2, <1>3 DEF RequestsSound
<1>8. SentRests
  BY <1>1, <1>3 DEF SentRests, Sent
<1> QED
  BY <1>5, <1>6, <1>7, <1>8 DEF CallsKeep, GrantRests

LEMMA FailsKeeps == ASSUME IInv, NEW slot \in Slots, Fails(slot) PROVE IInv'
<1>1. PICK a : a = calls[slot].attempt
  OBVIOUS
<1>2. /\ UNCHANGED <<now, rows, kind, up, job, works>> /\ calls[slot].at = "sent"
      /\ Returned(slot, a, "error") /\ a \in MaybeAttempt
  BY <1>1 DEF Fails, IInv, Typed, CallSet
<1>3. \A m \in late' : m \in late
         \/ m = [op |-> calls[slot].op, attempt |-> calls[slot].attempt]
  BY DEF Fails, Arrives
<1>4. Granted(calls'["main"]) => calls'["main"] = calls["main"]
  BY <1>2 DEF Returned, Granted, IInv, Typed, Slots
<1>5. CallsKeep
  BY <1>2, <1>3, <1>4, CallsReturn
<1> QED
  BY <1>2, <1>5, WorksStay, JobStays, StatusStays, Process

\* A lease is given for an attempt that nothing was done for.
LEMMA LeasesKeeps ==
    ASSUME IInv, UNCHANGED now, NEW a \in Attempts, Leases(a)
    PROVE  /\ rows' \in [Attempts -> RowSet] /\ RowsRest /\ RowsLive
           /\ rows[a].state = "none" /\ rows'[a].state # "none"
<1>1. PICK budget \in Budgets :
         rows' = [rows EXCEPT ![a] = [state |-> "leased", cancel |-> FALSE,
                     expires |-> now + Least(budget, LeaseSeconds), deadline |-> now + budget]]
  BY DEF Leases
<1>2. budget \in Nat /\ LeaseSeconds \in Nat /\ now \in Nat
  BY ProviderAssumption, JobTypes
<1>3. PICK length \in Nat : /\ length = Least(budget, LeaseSeconds)
                            /\ length <= budget /\ length <= LeaseSeconds
  BY <1>2, LeastIs
<1>4. /\ rows \in [Attempts -> RowSet] /\ rows[a].state = "none"
      /\ rows' = [rows EXCEPT ![a] = [state |-> "leased", cancel |-> FALSE,
                     expires |-> now + length, deadline |-> now + budget]]
  BY <1>1, <1>3 DEF Leases, IInv, Typed
<1>5. rows'[a] = [state |-> "leased", cancel |-> FALSE,
                     expires |-> now + length, deadline |-> now + budget]
      /\ \A b \in Attempts : b # a => rows'[b] = rows[b]
  BY <1>4
<1>6. rows'[a] \in RowSet
  BY <1>2, <1>5 DEF RowSet
<1>7. RowSound(rows'[a])
  BY <1>2, <1>3, <1>5 DEF RowSound
<1>8. rows' \in [Attempts -> RowSet]
  BY <1>4, <1>6
<1>9. RowsRest
  BY <1>4, <1>5, <1>6, <1>7 DEF RowsRest, RowMoves
<1>10. RowsLive
  BY <1>4, <1>5 DEF RowsLive, Live, LiveRow, RowSet
<1> QED
  BY <1>4, <1>5, <1>8, <1>9, <1>10

LEMMA ServeLeaseKeeps == ASSUME IInv, NEW slot \in Slots, ServeLease(slot) PROVE IInv'
<1>1. UNCHANGED <<now, kind, up, job, works, late>> /\ calls[slot].at = "sent"
  BY DEF ServeLease
<1>2. ASSUME NEW a \in Attempts, NEW reply \in {"ok", "error"}, Leases(a), Returned(slot, a, reply)
      PROVE  IInv'
  <2>1. rows' \in [Attempts -> RowSet] /\ RowsRest /\ RowsLive
        /\ rows[a].state = "none" /\ rows'[a].state # "none"
    BY <1>1, <1>2, LeasesKeeps
  <2>2. Granted(calls'["main"]) => calls'["main"] = calls["main"] \/ GrantRests
    BY <1>2, <2>1 DEF Returned, GrantRests, IInv, Typed, Slots
  <2>3. CallsKeep
    BY <1>1, <1>2, <2>2, JobTypes, CallsReturn
  <2> QED
    BY <1>1, <2>1, <2>3, CoreKeeps
<1>3. CASE Returned(slot, 0, "nothing") /\ UNCHANGED rows
  <2>1. Granted(calls'["main"]) => calls'["main"] = calls["main"]
    BY <1>3 DEF Returned, Granted, IInv, Typed, Slots
  <2>2. CallsKeep
    BY <1>1, <1>3, <2>1, CallsReturn DEF MaybeAttempt
  <2> QED
    BY <1>1, <1>3, <2>2, WorksStay, JobStays, StatusStays, Process
<1> QED
  BY <1>2, <1>3 DEF ServeLease

\* A request that was sent is served, now or late.
LEMMA ServedRow ==
    ASSUME IInv, NEW op, NEW a \in Attempts, Sent(op, a), UNCHANGED now,
           rows' = [rows EXCEPT ![a] = Answer(op, rows[a]).row]
    PROVE  rows' \in [Attempts -> RowSet] /\ RowsRest /\ RowsLive
<1>1. rows \in [Attempts -> RowSet] /\ now \in Nat /\ RowSound(rows[a])
  BY DEF IInv, Typed, RowsSound
<1>2. PICK s : s = Answer(op, rows[a]).row
  OBVIOUS
<1>3. /\ RowMoves(rows[a], s)
      /\ s.state = "cancelled" => rows[a].state = "cancelled" \/ op = "cancelled"
      /\ op \notin Closing /\ LiveRow(rows[a]) => LiveRow(s) /\ rows[a].expires <= s.expires
  BY <1>1, <1>2, AnswerRow
<1>4. rows'[a] = s /\ \A b \in Attempts : b # a => rows'[b] = rows[b]
  BY <1>1, <1>2
<1>5. rows' \in [Attempts -> RowSet]
  BY <1>1, <1>2, <1>3 DEF RowMoves
<1>6. RowsRest
  BY <1>1, <1>3, <1>4 DEF RowsRest, RowMoves
<1>7. RowsLive
  <2> SUFFICES ASSUME NEW b \in Attempts, Live(b), \A o \in Closing : ~Sent(o, b)
               PROVE  LiveRow(rows'[b]) /\ rows[b].expires <= rows'[b].expires
    BY DEF RowsLive
  <2>1. CASE b = a
    BY <1>3, <1>4, <2>1 DEF Live, LiveRow
  <2>2. CASE b # a
    BY <1>1, <1>4, <2>2 DEF Live, LiveRow, RowSet
  <2> QED
    BY <2>1, <2>2
<1> QED
  BY <1>5, <1>6, <1>7

LEMMA ServeKeeps == ASSUME IInv, NEW slot \in Slots, Serve(slot) PROVE IInv'
<1>1. PICK a, op : a = calls[slot].attempt /\ op = calls[slot].op
  OBVIOUS
<1>2. /\ UNCHANGED <<now, kind, up, job, works, late>> /\ calls[slot].at = "sent" /\ op # "lease"
      /\ rows' = [rows EXCEPT ![a] = Answer(op, rows[a]).row]
  BY <1>1 DEF Serve
<1>3. a \in Attempts /\ a \in MaybeAttempt /\ Sent(op, a)
  BY <1>1, <1>2, JobTypes DEF IInv, RequestsSound, Sent
<1>4. Answer(op, rows[a]).reply \in {"ok", "refused", "cancel"}
  BY DEF Answer, Started, Beaten, Completed, Failed, Stored
<1>5. PICK reply \in {"ok", "error", "nothing", "refused", "cancel"} : Returned(slot, a, reply)
  BY <1>1, <1>4 DEF Serve
<1>6. Granted(calls'["main"]) => calls'["main"] = calls["main"]
  BY <1>1, <1>2, <1>5 DEF Returned, Granted, IInv, Typed, Slots
<1>7. CallsKeep
  BY <1>2, <1>3, <1>5, <1>6, CallsReturn
<1> QED
  BY <1>2, <1>3, <1>7, ServedRow, CoreKeeps

LEMMA ServeLateKeeps == ASSUME IInv, ServeLate PROVE IInv'
<1>1. PICK m \in late : /\ late' = late \ {m}
                        /\ IF m.op = "lease" THEN \E a \in Attempts : Leases(a)
                           ELSE rows' = [rows EXCEPT ![m.attempt] = Answer(m.op, @).row]
  BY DEF ServeLate
<1>2. UNCHANGED <<now, kind, up, job, works, calls>>
  BY DEF ServeLate
<1>3. CallsKeep
  BY <1>1, <1>2 DEF IInv, Typed, CallsKeep, RequestsSound, SentRests, Sent, GrantRests
<1>4. rows' \in [Attempts -> RowSet] /\ RowsRest /\ RowsLive
  <2>1. CASE m.op = "lease"
    BY <1>1, <1>2, <2>1, LeasesKeeps
  <2>2. CASE m.op # "lease"
    <3>1. PICK a, op : a = m.attempt /\ op = m.op
      OBVIOUS
    <3>2. a \in Attempts /\ Sent(op, a)
      BY <2>2, <3>1 DEF IInv, RequestsSound, Sent
    <3>3. rows' = [rows EXCEPT ![a] = Answer(op, rows[a]).row]
      BY <1>1, <2>2, <3>1
    <3> QED
      BY <1>2, <3>2, <3>3, ServedRow
  <2> QED
    BY <2>1, <2>2
<1> QED
  BY <1>2, <1>3, <1>4, CoreKeeps

LEMMA CancelReapKeeps ==
    ASSUME IInv, NEW a \in Attempts, RequestCancel(a) \/ Reap(a)
    PROVE  IInv'
<1>1. UNCHANGED <<now, kind, up, job, works, calls, late>> /\ Live(a)
  BY DEF RequestCancel, Reap
<1>2. rows \in [Attempts -> RowSet] /\ RowSound(rows[a]) /\ now \in Nat
  BY DEF IInv, Typed, RowsSound
<1>3. PICK s : /\ rows' = [rows EXCEPT ![a] = s]
               /\ \/ s = [rows[a] EXCEPT !.cancel = TRUE]
                  \/ s = Over("over") /\ now >= rows[a].expires
  BY DEF RequestCancel, Reap
<1>4. /\ s \in RowSet /\ RowMoves(rows[a], s) /\ s.state # "cancelled"
      /\ now < rows[a].expires => LiveRow(s) /\ rows[a].expires <= s.expires
  <2>1. rows[a] \in RowSet /\ LiveRow(rows[a]) /\ rows[a].expires \in Nat
    BY <1>1, <1>2 DEF Live, LiveRow, RowSet
  <2>2. CASE s = [rows[a] EXCEPT !.cancel = TRUE]
    <3>1. s \in RowSet /\ s.state = rows[a].state /\ s.expires = rows[a].expires
          /\ s.deadline = rows[a].deadline
      BY <2>1, <2>2 DEF RowSet
    <3> QED
      BY <2>1, <3>1 DEF RowMoves, RowSound, LiveRow
  <2>3. CASE s = Over("over") /\ now >= rows[a].expires
    <3>1. s \in RowSet /\ s.state = "over" /\ s.expires = 0
      BY <2>3 DEF RowSet, Over
    <3> QED
      BY <1>2, <2>1, <2>3, <3>1 DEF RowMoves, RowSound
  <2> QED
    BY <1>3, <2>2, <2>3
<1>5. rows'[a] = s /\ \A b \in Attempts : b # a => rows'[b] = rows[b]
  BY <1>2, <1>3
<1>6. rows' \in [Attempts -> RowSet]
  BY <1>2, <1>3, <1>4
<1>7. RowsRest
  BY <1>2, <1>4, <1>5 DEF RowsRest, RowMoves
<1>8. RowsLive
  BY <1>2, <1>4, <1>5 DEF RowsLive, Live, LiveRow, RowSet
<1> QED
  BY <1>1, <1>6, <1>7, <1>8, CallsStay, CoreKeeps

-------------------------------------------------------------------------------
(* The process starts again; time passes; every step.                      *)

LEMMA RestartsKeeps == ASSUME IInv, Restarts PROVE IInv'
<1>1. UNCHANGED <<now, rows, kind, job, works, calls, late>> /\ up' = TRUE
  BY DEF Restarts
<1>2. JobKeeps
  BY <1>1 DEF IInv, Typed, JobKeeps, JobSound, JobRests, Working
<1> QED
  BY <1>1, <1>2, CallsStay, WorksStay, StatusStays, Process

\* The clock waits for an execution at its limit, so a child never outlives its lease.
LEMMA TickKeeps == ASSUME IInv, Tick PROVE IInv'
<1>1. /\ UNCHANGED <<rows, kind, up, job, works, calls, late>> /\ now' = now + 1
      /\ ~(up /\ job.stage = "run" /\ ~HasResult /\ now >= job.limit)
  BY DEF Tick
<1>2. now \in Nat /\ now' \in Nat /\ job.limit \in Int /\ LeaseSeconds \in Nat
  BY <1>1, JobTypes, ProviderAssumption
<1>3. Typed' /\ RequestsSound' /\ JobSound' /\ ClosingSound' /\ CancelledSound' /\ LatexSound'
  BY <1>1, <1>2 DEF IInv, Typed, RequestsSound, JobSound, ClosingSound, CancelledSound, LatexSound,
                    OneRenders, Sent, Working
<1>4. LeaseSound'
  BY <1>1 DEF IInv, LeaseSound, Fresh, Untouched, Granted, Sent, Working
<1>5. RowsSound'
  <2>1. \A a \in Attempts : rows[a].expires \in Nat
    BY DEF IInv, Typed, RowSet
  <2> QED
    BY <1>1, <1>2, <2>1 DEF IInv, RowsSound, RowSound
<1>6. StatusSound'
  <2> SUFFICES ASSUME kind = "status" PROVE ChildSound'
    BY <1>1 DEF StatusSound
  <2>1. ChildSound
    BY DEF IInv, StatusSound
  <2>2. ASSUME NEW w \in Works, works[w] = "running" PROVE WithinLease(w)'
    <3>1. WithinLease(w) /\ up
      BY <2>1, <2>2 DEF ChildSound, WithinLease, IInv, JobSound
    <3>2. now' <= job.limit
      BY <1>1, <1>2, <3>1 DEF WithinLease
    <3> QED
      BY <1>1, <3>1, <3>2 DEF WithinLease, Live, Working, HasResult
  <2>3. job.stage = "start" /\ now' < job.limit => Covers(Working)
    BY <1>1, <1>2, <2>1 DEF ChildSound
  <2> QED
    BY <1>1, <2>1, <2>2, <2>3 DEF ChildSound, Covers, Live, Working
<1> QED
  BY <1>3, <1>4, <1>5, <1>6 DEF IInv

LEMMA InitSound == Init => IInv
<1> SUFFICES ASSUME Init PROVE IInv
  OBVIOUS
<1>1. /\ now = 0 /\ late = {} /\ kind \in Kinds /\ up = TRUE
      /\ rows = [a \in Attempts |-> [state |-> "none", cancel |-> FALSE,
                                     expires |-> 0, deadline |-> 0]]
      /\ works = [w \in Works |-> "none"]
      /\ calls = [slot \in Slots |-> [op |-> None, attempt |-> None, at |-> "idle", reply |-> None]]
  BY DEF Init, NoRow, NoCall
<1>2. job \in JobSet /\ job.attempt = None /\ job.stage = "none" /\ None \notin Attempts
  BY NoJobIs, NoneIsNoAttempt DEF Init
<1>3. rows \in [Attempts -> RowSet] /\ \A a \in Attempts : rows[a].state = "none" /\ rows[a].expires = 0
  BY <1>1 DEF RowSet
<1>4. calls \in [Slots -> CallSet] /\ \A slot \in Slots : calls[slot].at = "idle"
  BY <1>1 DEF CallSet, MaybeAttempt
<1>5. works \in [Works -> {"none", "queued", "running", "orphan"}]
      /\ \A w \in Works : works[w] = "none"
  BY <1>1
<1>6. Typed
  BY <1>1, <1>2, <1>3, <1>4, <1>5 DEF Typed
<1>7. RowsSound /\ RequestsSound /\ JobSound
  BY <1>1, <1>2, <1>3, <1>4 DEF RowsSound, RowSound, RequestsSound, JobSound
<1>8. \A op, a : ~Sent(op, a)
  BY <1>1, <1>4 DEF Sent
<1>9. LeaseSound /\ ClosingSound /\ CancelledSound
  BY <1>2, <1>3, <1>4, <1>5, <1>8
  DEF LeaseSound, Untouched, Granted, ClosingSound, CancelledSound, Working, Works, Slots
<1>10. StatusSound /\ LatexSound
  BY <1>2, <1>5 DEF StatusSound, ChildSound, LatexSound, OneRenders
<1> QED
  BY <1>6, <1>7, <1>9, <1>10 DEF IInv

LEMMA StatusKeeps == ASSUME IInv, StatusStep PROVE IInv'
<1>1. CASE StatusReporter \/ StatusRegistry \/ StatusPolls
  BY <1>1, ReportsKeeps, AsksKeeps DEF StatusReporter, StatusRegistry, StatusPolls
<1>2. CASE StatusGivesUp \/ StatusCloses \/ StatusBeats \/ StatusGoesOn \/ StatusFinishes
  BY <1>2, GivesUpKeeps, BeatsKeeps, FinishesKeeps
  DEF StatusGivesUp, StatusCloses, StatusBeats, StatusGoesOn, StatusFinishes
<1>3. CASE StatusTakes \/ StatusRuns \/ StatusStartsTooLate
  BY <1>3, StatusTakesKeeps, StatusRunsKeeps, StartsTooLateKeeps
<1>4. CASE StatusAbandons \/ StatusCancels \/ ChildEnds \/ ChildTimesOut
  BY <1>4, StatusAbandonsKeeps, StatusCancelsKeeps, ChildEndsKeeps
<1> QED
  BY <1>1, <1>2, <1>3, <1>4 DEF StatusStep

LEMMA WolframKeeps == ASSUME IInv, WolframStep PROVE IInv'
<1>1. CASE WolframReporter \/ WolframRegistry \/ WolframPolls
  BY <1>1, ReportsKeeps, AsksKeeps DEF WolframReporter, WolframRegistry, WolframPolls
<1>2. CASE WolframGivesUp \/ WolframCloses \/ WolframBeats \/ WolframGoesOn \/ WolframFinishes
  BY <1>2, GivesUpKeeps, BeatsKeeps, FinishesKeeps
  DEF WolframGivesUp, WolframCloses, WolframBeats, WolframGoesOn, WolframFinishes
<1>3. CASE WolframTakes \/ WolframRuns \/ WolframAbandons \/ WolframUnanswered
  BY <1>3, WolframTakesKeeps, OtherRunsKeeps, OtherAbandonsKeeps, UnansweredKeeps
<1> QED
  BY <1>1, <1>2, <1>3 DEF WolframStep

LEMMA LatexKeeps == ASSUME IInv, LatexStep \/ KeeperStep PROVE IInv'
<1>1. CASE LatexReporter \/ LatexRegistry \/ LatexPolls
  BY <1>1, ReportsKeeps, AsksKeeps DEF LatexReporter, LatexRegistry, LatexPolls
<1>2. CASE LatexGivesUp \/ LatexCloses \/ LatexBeats \/ LatexGoesOn
  BY <1>2, GivesUpKeeps, BeatsKeeps DEF LatexGivesUp, LatexCloses, LatexBeats, LatexGoesOn
<1>3. CASE LatexTakes \/ LatexRuns \/ LatexAbandons \/ LatexUnanswered
  BY <1>3, LatexTakesKeeps, OtherRunsKeeps, OtherAbandonsKeeps, UnansweredKeeps
<1>4. CASE LatexFinishes \/ StoresOn \/ StoreEnds \/ LatexReports \/ KeeperStep
  BY <1>4, LatexFinishesKeeps, StoresOnKeeps, StoreEndsKeeps, LatexReportsKeeps, KeeperHearsKeeps
  DEF KeeperStep
<1> QED
  BY <1>1, <1>2, <1>3, <1>4 DEF LatexStep

LEMMA StutterKeeps == ASSUME IInv, UNCHANGED vars PROVE IInv'
<1>1. UNCHANGED <<now, rows, kind, up, job, works, calls, late>>
  BY DEF vars
<1> QED
  BY <1>1, CallsStay, WorksStay, JobStays, StatusStays, Process

LEMMA StepSound == IInv /\ [Next]_vars => IInv'
<1> SUFFICES ASSUME IInv, [Next]_vars PROVE IInv'
  OBVIOUS
<1>1. CASE StatusStep \/ WolframStep \/ LatexStep \/ KeeperStep
  BY <1>1, StatusKeeps, WolframKeeps, LatexKeeps
<1>2. CASE \/ \E a \in Attempts : WolframWorkerEnds(a)
           \/ \E w \in Works : RenderStarts(w) \/ RenderEnds(w)
           \/ DocumentAsked \/ OrphanEnds
  BY <1>2, WorkerEndsKeeps, RenderKeeps, OrphanEndsKeeps DEF Works
<1>3. CASE Core
  BY <1>3, ServeLeaseKeeps, ServeKeeps, FailsKeeps, ServeLateKeeps, CancelReapKeeps DEF Core
<1>4. CASE StatusInterrupted \/ Killed \/ Restarts \/ Tick
  BY <1>4, InterruptedKeeps, KilledKeeps, RestartsKeeps, TickKeeps
<1>5. CASE UNCHANGED vars
  BY <1>5, StutterKeeps
<1> QED
  BY <1>1, <1>2, <1>3, <1>4, <1>5 DEF Next

-------------------------------------------------------------------------------
(* Theorems.                                                               *)

\* Types; leases that only grow until a last report; a last report is the end of the job
\* (ClosingSound); a status child runs within the first lease of its attempt (StatusSound).
THEOREM Invariant == Spec => []IInv
BY InitSound, StepSound, PTL DEF Spec

\* What Core shows as cancelled has no child, render or evaluation any more, whatever was
\* lost, delayed, killed or restarted: the acknowledgement is sent after the child is gone,
\* and no attempt is leased twice.
THEOREM CancelledAlwaysMeansStopped == Spec => []CancelledMeansStopped
<1>1. IInv => CancelledMeansStopped
  BY DEF IInv, CancelledSound, CancelledMeansStopped
<1> QED
  BY <1>1, Invariant, PTL

LEMMA AtMostOneCounts ==
    ASSUME NEW S, \A v, w \in S : v = w
    PROVE  Cardinality(S) <= 1
<1>1. CASE S = {}
  <2>1. Cardinality({}) = 0
    BY FS_EmptySet
  <2> QED
    BY <1>1, <2>1
<1>2. ASSUME NEW w \in S PROVE Cardinality(S) <= 1
  <2>1. S = {w}
    BY <1>2
  <2>2. Cardinality({w}) = 1
    BY FS_Singleton
  <2> QED
    BY <2>1, <2>2
<1> QED
  BY <1>1, <1>2

\* A provider never runs more than the one execution it has told Core of; a status child
\* runs only under a live attempt, and never beside another child.
THEOREM CapacityAlwaysHonest == Spec => []CapacityHonest
<1>1. IInv => CapacityHonest
  <2> SUFFICES ASSUME IInv PROVE CapacityHonest
    OBVIOUS
  <2>1. ASSUME kind # "wolfram" PROVE Cardinality({w \in Works : works[w] = "running"}) <= 1
    <3>1. kind \in {"status", "latex"}
      BY <2>1, ProviderAssumption DEF IInv, Typed
    <3>2. \A v, w \in {u \in Works : works[u] = "running"} : v = w
      BY <3>1 DEF IInv, StatusSound, ChildSound, WithinLease, LatexSound, OneRenders
    <3> QED
      BY <3>2, AtMostOneCounts
  <2>2. ASSUME kind = "status", NEW a \in Attempts, works[a] = "running"
        PROVE  Live(a) /\ Working = a
    BY <2>2 DEF IInv, StatusSound, ChildSound, WithinLease, Works
  <2> QED
    BY <2>1, <2>2 DEF CapacityHonest
<1> QED
  BY <1>1, Invariant, PTL
================================================================================
