------------------------------ MODULE Events_proofs ------------------------------
(***************************************************************************)
(* Proofs about the way of an event.                                       *)
(*                                                                         *)
(* EventDelivery, from the bridge to the receipt: types, that no captured  *)
(* record is lost, one binding per key and sequence, the cause of          *)
(* conflicts, the watermark, and the refinement of EventOutbox, for any    *)
(* set of events and contents and any number of damaged files and          *)
(* restarts.                                                               *)
(*                                                                         *)
(* EventCorrelation, what Core stores of it beside everything else: that   *)
(* references meet their targets, that a source is a message, and that the *)
(* decisions are current, for any packets and reports, any number of       *)
(* copies, connections and transactions that fail.                         *)
(***************************************************************************)
EXTENDS EventCorrelation, EventDelivery, WellFoundedInduction, TLAPS

Held == {"due", "waiting", "quarantined"}

\* The records of this file carry its id, and numbers below the next one that
\* no two of them share.
FileBinds ==
    /\ \A k \in Keys : identity[k] # None =>
          /\ identity[k].key = k
          /\ identity[k].spool = spool
          /\ identity[k].sequence < next
    /\ \A j, k \in Keys :
          identity[j] # None /\ identity[k] # None
          /\ identity[j].sequence = identity[k].sequence => j = k

\* A row belongs to an identity.
RowsBound == \A k \in Keys : row[k] # "none" => identity[k] # None

\* What was sent from this file is what it keeps.
SentFromFile ==
    \A r \in sent : r.spool <= spool /\ (r.spool = spool => identity[r.key] = r)

\* The worker and the claims are busy with records that were sent from this file.
BusyWithSent ==
    /\ worker # None => worker \in sent /\ worker.spool = spool
    /\ \A k \in claiming : identity[k] # None /\ identity[k] \in sent

\* Core keeps only what arrived, each record under its key.
StoredArrived ==
    \A k \in Keys : receipts[k] # None => receipts[k] \in arrived /\ receipts[k].key = k

DeliveryInv ==
    FileBinds /\ RowsBound /\ SentFromFile /\ BusyWithSent /\ StoredArrived
    /\ NothingLost /\ OneBinding /\ ConflictHasACause /\ WatermarkExact

IInv == TypeOK /\ DeliveryInv

-------------------------------------------------------------------------------
(* The watermark.                                                          *)

\* Below a bound of S some run of sequences ends.
LEMMA RunEnds ==
    ASSUME NEW low \in Nat, NEW S, NEW top \in Nat, low <= top,
           \A n \in S : n \in Nat /\ n <= top
    PROVE  /\ EndOfRun(low, S, top) \in low .. top
           /\ low + 1 .. EndOfRun(low, S, top) \subseteq S
           /\ EndOfRun(low, S, top) + 1 \notin S
<1> DEFINE Gaps == {n \in Nat : low <= n /\ n + 1 \notin S}
<1>1. top \in Gaps
  <2>1. top + 1 \notin S
    OBVIOUS
  <2> QED
    BY <2>1
<1>2. PICK m \in Gaps : \A n \in Gaps : m <= n
  <2> HIDE DEF Gaps
  <2>1. Gaps \subseteq Nat
    BY DEF Gaps
  <2>2. PICK m \in Gaps : \A n \in Gaps : <<n, m>> \notin OpToRel(<, Nat)
    BY <1>1, <2>1, WFMin, NatLessThanWellFounded, Zenon
  <2>3. \A n \in Gaps : ~ (n < m)
    BY <2>1, <2>2 DEF OpToRel
  <2> QED
    BY <2>1, <2>3
<1>3. m \in low .. top
  BY <1>1, <1>2
<1>4. ASSUME NEW i \in low + 1 .. m
      PROVE  i \in S
  <2>1. i - 1 \in Nat /\ low <= i - 1 /\ i - 1 < m
    BY <1>3
  <2>2. i - 1 \notin Gaps
    BY <1>2, <1>3, <2>1
  <2>3. (i - 1) + 1 = i
    BY <1>3
  <2> QED
    BY <2>1, <2>2, <2>3
<1>5. m + 1 \notin S /\ low + 1 .. m \subseteq S
  BY <1>2, <1>4
<1> QED
  BY <1>3, <1>5 DEF EndOfRun

-------------------------------------------------------------------------------
(* Types.                                                                  *)

\* The file is empty and Core has no receipt.
LEMMA InitType == Init => TypeOK
<1> SUFFICES ASSUME Init PROVE TypeOK
  OBVIOUS
<1>1. 1 \in Spools
  BY SpoolAssumption DEF Spools
<1> QED
  BY <1>1 DEF Init, DiskInit, NoIdentity, NoRow, CoreInit, TypeOK, ReporterStates, DiskTypeOK, RowStates, CoreTypeOK

\* A record that is captured has its type.
LEMMA NewRecordType ==
    ASSUME TypeOK, NEW k \in Keys, NEW c \in Contents
    PROVE  NewRecord(k, c) \in Record
BY DEF TypeOK, DiskTypeOK, NewRecord, NextSequence, Record

\* Every row keeps one of the states.
LEMMA RowTypes ==
    ASSUME TypeOK, NEW S, NEW old, NEW k \in Keys
    PROVE  /\ Compacted(row, old) \in [Keys -> RowStates]
           /\ WithoutSpoiled(S) \in [Keys -> RowStates]
           /\ Compacted(WithoutSpoiled(S), old) \in [Keys -> RowStates]
           /\ Compacted([row EXCEPT ![k] = "committed"], old) \in [Keys -> RowStates]
BY DEF TypeOK, DiskTypeOK, RowStates, Compacted, WithoutSpoiled

\* The steps of the spool keep the types of what is on disk.
LEMMA DiskTypes ==
    ASSUME TypeOK, NEW k \in Keys, NEW c \in Contents, NEW S, NEW old,
           \/ Append(k, c, old) \/ RejectForQuota(k, old) \/ Acknowledge(k, old)
           \/ Retry(k) \/ Quarantine(k) \/ NextPendingIs(k, S)
           \/ NothingPending(S, old) \/ BecomeDue(k) \/ StartAnew \/ UNCHANGED disk
    PROVE  DiskTypeOK'
<1> USE RowTypes DEF DiskTypeOK
<1>0. DiskTypeOK
  BY DEF TypeOK
<1>1. CASE Append(k, c, old)
  <2>1. next' \in Nat \ {0} /\ spool' \in Spools
    BY <1>0, <1>1 DEF Append, NextSequence
  <2>2. identity' \in [Keys -> Record \cup {None}]
    BY <1>0, <1>1, NewRecordType DEF Append
  <2>3. row' \in [Keys -> RowStates]
    BY <1>0, <1>1 DEF Append, RowStates
  <2> QED
    BY <2>1, <2>2, <2>3
<1>2. CASE RejectForQuota(k, old)
  BY <1>0, <1>2 DEF RejectForQuota
<1>3. CASE Acknowledge(k, old)
  BY <1>0, <1>3 DEF Acknowledge
<1>4. CASE Retry(k) \/ Quarantine(k) \/ BecomeDue(k)
  BY <1>0, <1>4 DEF Retry, Quarantine, BecomeDue, RowStates
<1>5. CASE NextPendingIs(k, S)
  BY <1>0, <1>5 DEF NextPendingIs
<1>6. CASE NothingPending(S, old)
  <2>1. row' = Compacted(WithoutSpoiled(S), old) \/ row' = WithoutSpoiled(S)
    BY <1>6 DEF NothingPending
  <2>2. UNCHANGED <<spool, next, identity>>
    BY <1>6 DEF NothingPending
  <2>3. row' \in [Keys -> RowStates]
    BY <1>0, <2>1 DEF Compacted, WithoutSpoiled, RowStates
  <2> QED
    BY <1>0, <2>2, <2>3
<1>7. CASE StartAnew
  <2>1. spool' \in Spools
    BY <1>0, <1>7, SpoolAssumption DEF StartAnew, Spools
  <2>2. identity' \in [Keys -> Record \cup {None}] /\ row' \in [Keys -> RowStates]
    BY <1>7 DEF StartAnew, NoIdentity, NoRow, RowStates
  <2> QED
    BY <1>7, <2>1, <2>2 DEF StartAnew
<1>8. CASE UNCHANGED disk
  BY <1>0, <1>8 DEF disk
<1> QED
  BY <1>1, <1>2, <1>3, <1>4, <1>5, <1>6, <1>7, <1>8

\* The stored records and their sequences are what their names say.
LEMMA StoredTypes ==
    ASSUME CoreTypeOK
    PROVE  Stored \subseteq Record /\ \A s \in Spools : Received(s) \subseteq Nat \ {0}
BY DEF CoreTypeOK, Stored, Received, Record

\* A record that is fresh is added to the stored ones.
LEMMA Inserted ==
    ASSUME CoreTypeOK, NEW r \in Record, Fresh(r),
           receipts' = [receipts EXCEPT ![r.key] = r]
    PROVE  /\ Stored' = Stored \cup {r}
           /\ Received(r.spool)' = Received(r.spool) \cup {r.sequence}
           /\ \A s \in Spools \ {r.spool} : Received(s)' = Received(s)
           /\ r.sequence \notin Received(r.spool)
<1>1. r.key \in Keys /\ r.spool \in Spools /\ receipts[r.key] = None /\ r # None
  BY NoneIsNoRecord DEF Record, Fresh
<1>2. Stored' = Stored \cup {r}
  BY <1>1 DEF CoreTypeOK, Stored
<1>3. r.sequence \notin Received(r.spool)
  BY DEF Fresh, Received
<1> QED
  BY <1>2, <1>3 DEF Received

\* An exact watermark never claims more than was seen.
LEMMA ContiguousSeen ==
    ASSUME CoreTypeOK, WatermarkExact, NEW s \in Spools
    PROVE  watermark[s].contiguous <= watermark[s].seen
<1>1. watermark[s].contiguous \in Nat /\ watermark[s].seen \in Nat
  BY DEF CoreTypeOK
<1>2. CASE watermark[s].contiguous = 0
  BY <1>1, <1>2
<1>3. CASE watermark[s].contiguous # 0
  <2>1. watermark[s].contiguous \in 1 .. watermark[s].contiguous
    BY <1>1, <1>3
  <2> QED
    BY <2>1 DEF WatermarkExact
<1> QED
  BY <1>2, <1>3

\* The ingestion of any record leaves Core's tables typed and its watermarks exact.
LEMMA IngestExact ==
    ASSUME CoreTypeOK, WatermarkExact, NEW r \in Record, Ingest(r)
    PROVE  CoreTypeOK' /\ WatermarkExact'
<1>1. CASE ~Fresh(r)
  BY <1>1 DEF Ingest, CoreTypeOK, WatermarkExact, Received, Stored
<1>2. CASE Fresh(r)
  <2> DEFINE s == r.spool
             n == r.sequence
             mark == watermark[s]
             all == Received(s) \cup {n}
             top == Bigger(mark.seen, n)
             end == IF n > mark.contiguous
                    THEN EndOfRun(mark.contiguous, all, top) ELSE mark.contiguous
  <2>1. receipts' = [receipts EXCEPT ![r.key] = r] /\ Advance(r)
    BY <1>2 DEF Ingest
  <2>2. r.key \in Keys /\ s \in Spools /\ n \in Nat \ {0}
    BY DEF Record
  <2>3. mark.contiguous \in Nat /\ mark.seen \in Nat /\ mark.contiguous <= mark.seen
    BY <2>2, ContiguousSeen DEF CoreTypeOK
  <2>4. Received(s)' = all /\ (\A t \in Spools \ {s} : Received(t)' = Received(t))
        /\ n \notin Received(s)
    BY <1>2, <2>1, Inserted
  <2>5. /\ 1 .. mark.contiguous \subseteq Received(s)
        /\ \A i \in Received(s) : i <= mark.seen
        /\ mark.seen \in Received(s) \cup {0}
    BY <2>2 DEF WatermarkExact
  <2>6. top \in Nat /\ mark.seen <= top /\ n <= top /\ top \in {mark.seen, n}
    BY <2>2, <2>3 DEF Bigger
  <2>7. Received(s) \subseteq Nat \ {0}
    BY <2>2, StoredTypes
  <2>8. n > mark.contiguous
    <3>1. n \notin 1 .. mark.contiguous
      BY <2>4, <2>5
    <3> QED
      BY <2>2, <2>3, <3>1
  <2>9. /\ end \in mark.contiguous .. top
        /\ mark.contiguous + 1 .. end \subseteq all
        /\ end + 1 \notin all
    <3>1. \A i \in all : i \in Nat /\ i <= top
      BY <2>2, <2>3, <2>5, <2>6, <2>7
    <3>2. mark.contiguous <= top
      BY <2>3, <2>6
    <3> HIDE DEF all, top, mark
    <3> QED
      BY <2>3, <2>6, <2>8, <3>1, <3>2, RunEnds
  <2>10. watermark' = [watermark EXCEPT ![s] = [contiguous |-> end, seen |-> top]]
    BY <2>1 DEF Advance
  <2> HIDE DEF end, top, all
  <2>11. CoreTypeOK'
    <3>1. receipts' \in [Keys -> Record \cup {None}]
      BY <2>1, <2>2 DEF CoreTypeOK
    <3>2. end \in Nat
      BY <2>3, <2>6, <2>9
    <3>3. watermark' \in [Spools -> [contiguous : Nat, seen : Nat]]
      BY <2>2, <2>6, <2>10, <3>2 DEF CoreTypeOK
    <3> QED
      BY <3>1, <3>3 DEF CoreTypeOK
  <2>12. ASSUME NEW t \in Spools
         PROVE  /\ 1 .. watermark'[t].contiguous \subseteq Received(t)'
                /\ watermark'[t].contiguous + 1 \notin Received(t)'
                /\ \A i \in Received(t)' : i <= watermark'[t].seen
                /\ watermark'[t].seen \in Received(t)' \cup {0}
    <3>1. CASE t # s
      <4>1. watermark'[t] = watermark[t] /\ Received(t)' = Received(t)
        BY <2>4, <2>10, <3>1 DEF CoreTypeOK
      <4> QED
        BY <4>1 DEF WatermarkExact
    <3>2. CASE t = s
      <4>1. watermark'[t].contiguous = end /\ watermark'[t].seen = top
        BY <2>2, <2>10, <3>2 DEF CoreTypeOK
      <4>2. 1 .. end \subseteq all
        <5>1. ASSUME NEW i \in 1 .. end PROVE i \in all
          <6>1. CASE i <= mark.contiguous
            BY <2>5, <6>1, <2>3, <2>6, <2>9 DEF all
          <6>2. CASE ~ (i <= mark.contiguous)
            BY <2>3, <2>6, <2>9, <6>2
          <6> QED
            BY <6>1, <6>2
        <5> QED
          BY <5>1
      <4>3. \A i \in all : i <= top
        BY <2>2, <2>3, <2>5, <2>6, <2>7 DEF all
      <4>4. top \in all \cup {0}
        BY <2>5, <2>6 DEF all
      <4> QED
        BY <2>4, <2>9, <3>2, <4>1, <4>2, <4>3, <4>4
    <3> QED
      BY <3>1, <3>2
  <2> QED
    BY <2>11, <2>12 DEF WatermarkExact
<1> QED
  BY <1>1, <1>2

-------------------------------------------------------------------------------
(* The invariant, by the kinds of steps: one that moves rows only, one that *)
(* captures a record, the arrival of a record, and a restart.              *)

\* What a step that moves rows only may do: no row appears, none comes back to
\* the hands of the bridge, and none leaves them unless Core has confirmed it.
RowsMove ==
    /\ UNCHANGED <<spool, next, identity, core, arrived>>
    /\ row' \in [Keys -> RowStates]
    /\ \A k \in Keys :
          /\ row'[k] # "none" => row[k] # "none"
          /\ row'[k] \in Held => row[k] \in Held
          /\ row[k] \in Held => row'[k] \in Held \/ Confirmed(identity[k])

\* A record of this file may be sent again, and the worker and the claims may
\* turn to a record that was sent.
Busy ==
    /\ sent \subseteq sent'
    /\ \A r \in sent' \ sent : \E k \in Keys : r = identity[k] /\ r # None
    /\ worker' \in {worker, None} \cup {r \in sent' : r.spool = spool}
    /\ claiming' \subseteq Keys
    /\ reporter' \in ReporterStates
    /\ \A k \in claiming' \ claiming : identity[k] # None /\ identity[k] \in sent'

\* The core of the argument for a step in which no record is captured.
LEMMA RowsStep == IInv /\ RowsMove /\ Busy => IInv'
<1> SUFFICES ASSUME IInv, RowsMove, Busy PROVE IInv'
  OBVIOUS
<1> USE DEF IInv, DeliveryInv
<1>1. UNCHANGED <<spool, next, identity, receipts, watermark, arrived>>
  BY DEF RowsMove, core
<1>2. \A r \in sent' : r \in Record /\ r.spool <= spool /\ (r.spool = spool => identity[r.key] = r)
  <2>1. \A k \in Keys : identity[k] # None =>
          identity[k] \in Record /\ identity[k].key = k /\ identity[k].spool = spool
    BY DEF FileBinds, TypeOK, DiskTypeOK
  <2>2. spool \in Nat
    BY SpoolAssumption DEF TypeOK, DiskTypeOK, Spools
  <2>3. ASSUME NEW r \in sent', r \notin sent
        PROVE  r \in Record /\ r.spool <= spool /\ (r.spool = spool => identity[r.key] = r)
    BY <2>1, <2>2, <2>3 DEF Busy
  <2> QED
    BY <2>3 DEF SentFromFile, TypeOK
<1>3. TypeOK'
  <2>1. DiskTypeOK' /\ CoreTypeOK'
    BY <1>1 DEF RowsMove, TypeOK, DiskTypeOK, CoreTypeOK
  <2>2. worker' \in Record \cup {None} /\ claiming' \subseteq Keys /\ reporter' \in ReporterStates
    BY <1>2 DEF Busy, TypeOK
  <2>3. sent' \subseteq Record /\ arrived' \subseteq sent'
    BY <1>1, <1>2 DEF Busy, TypeOK
  <2> QED
    BY <2>1, <2>2, <2>3 DEF TypeOK
<1>4. FileBinds' /\ StoredArrived' /\ ConflictHasACause' /\ WatermarkExact'
  BY <1>1 DEF FileBinds, StoredArrived, ConflictHasACause, Confirmed, WatermarkExact,
              Received, Stored
<1>5. RowsBound'
  BY <1>1 DEF RowsBound, RowsMove
<1>6. SentFromFile'
  BY <1>1, <1>2 DEF SentFromFile
<1>7. BusyWithSent'
  BY <1>1 DEF BusyWithSent, Busy
<1>8. NothingLost'
  BY <1>1 DEF NothingLost, RowsMove, Held, Confirmed
<1>9. OneBinding'
  <2>1. ASSUME NEW q \in sent', NEW r \in sent', q.spool = r.spool,
               q.key = r.key \/ q.sequence = r.sequence
        PROVE  q = r
    <3>1. CASE q.spool = spool
      <4>1. identity[q.key] = q /\ identity[r.key] = r /\ q.key \in Keys /\ r.key \in Keys
            /\ q # None /\ r # None
        BY <1>2, <2>1, <3>1, NoneIsNoRecord DEF Record
      <4> QED
        BY <2>1, <4>1 DEF FileBinds
    <3>2. CASE q.spool # spool
      <4>1. q \in sent /\ r \in sent
        BY <2>1, <3>2 DEF Busy, FileBinds
      <4> QED
        BY <2>1, <4>1 DEF OneBinding
    <3> QED
      BY <3>1, <3>2
  <2> QED
    BY <2>1 DEF OneBinding
<1> QED
  BY <1>3, <1>4, <1>5, <1>6, <1>7, <1>8, <1>9

\* Each operation of the spool that numbers nothing moves rows as it may.
LEMMA SpoolMoves ==
    ASSUME IInv, UNCHANGED <<core, arrived>>, NEW k, NEW S, NEW old,
           \/ k \in Keys /\ (RejectForQuota(k, old) \/ Retry(k) \/ Quarantine(k)
                            \/ BecomeDue(k))
           \/ k \in Keys /\ Acknowledge(k, old) /\ Confirmed(identity[k])
           \/ NextPendingIs(k, S) \/ NothingPending(S, old) \/ UNCHANGED disk
    PROVE  RowsMove /\ \A j \in Keys \ {k} : row[j] \in Held <=> row'[j] \in Held
<1>0. row \in [Keys -> RowStates] /\ NothingLost /\ RowsBound
  BY DEF IInv, DeliveryInv, TypeOK, DiskTypeOK
<1> USE DEF RowStates, Held
<1>1. /\ UNCHANGED <<spool, next, identity>>
      /\ row' \in [Keys -> RowStates]
      /\ \A j \in Keys : row'[j] # "none" => row[j] # "none"
      /\ \A j \in Keys : row'[j] \in Held => row[j] \in Held
      /\ \A j \in Keys : row[j] \in Held => row'[j] \in Held \/ (j = k /\ Confirmed(identity[j]))
  <2>1. CASE k \in Keys /\ RejectForQuota(k, old)
    BY <1>0, <2>1 DEF RejectForQuota, Compacted
  <2>2. CASE k \in Keys /\ Acknowledge(k, old) /\ Confirmed(identity[k])
    BY <1>0, <2>2 DEF Acknowledge, Compacted, Pending
  <2>3. CASE k \in Keys /\ (Retry(k) \/ Quarantine(k) \/ BecomeDue(k))
    BY <1>0, <2>3 DEF Retry, Quarantine, BecomeDue, Pending
  <2>4. CASE NextPendingIs(k, S)
    BY <1>0, <2>4 DEF NextPendingIs, HeadOfQueue, WithoutSpoiled
  <2>5. CASE NothingPending(S, old)
    <3>1. \A j \in S : row[j] = "due"
      BY <2>5 DEF NothingPending, HeadOfQueue
    <3>2. row' = Compacted(WithoutSpoiled(S), old) \/ row' = WithoutSpoiled(S)
      BY <2>5 DEF NothingPending
    <3>3. UNCHANGED <<spool, next, identity>>
      BY <2>5 DEF NothingPending
    <3>4. CASE row' = WithoutSpoiled(S)
      BY <1>0, <3>1, <3>3, <3>4 DEF WithoutSpoiled
    <3>5. CASE row' = Compacted(WithoutSpoiled(S), old)
      BY <1>0, <3>1, <3>3, <3>5 DEF WithoutSpoiled, Compacted
    <3> QED
      BY <3>2, <3>4, <3>5
  <2>6. CASE UNCHANGED disk
    BY <1>0, <2>6 DEF disk
  <2> QED
    BY <2>1, <2>2, <2>3, <2>4, <2>5, <2>6
<1> QED
  BY <1>1 DEF RowsMove

\* Whatever a step does without capturing, receiving at Core or losing the file
\* preserves the invariant.
LEMMA QuietStep ==
    ASSUME IInv, NEW k, NEW S, NEW old,
           \/ k \in Keys /\ (Reject(k, old) \/ ClaimAnswered(k, old) \/ ClaimEnds(k)
                            \/ Post(k, S) \/ TimePasses(k))
           \/ Idle(S, old) \/ WorkerReceipt(old) \/ WorkerConflict
           \/ WorkerRefused \/ WorkerFails \/ WorkerExits \/ RestartWorker
           \/ StatusFails \/ Restart("opened") \/ Restart("failed") \/ UNCHANGED vars
    PROVE  IInv'
<1>0. TypeOK /\ BusyWithSent /\ SentFromFile /\ FileBinds /\ RowsBound
  BY DEF IInv, DeliveryInv
<1>1. CASE \/ k \in Keys /\ (Reject(k, old) \/ ClaimEnds(k) \/ TimePasses(k))
           \/ Idle(S, old) \/ WorkerExits \/ RestartWorker \/ StatusFails
           \/ Restart("opened") \/ Restart("failed") \/ UNCHANGED vars
  <2>1. RowsMove
    BY <1>1, SpoolMoves DEF Reject, ClaimEnds, Idle, TimePasses, WorkerExits, RestartWorker,
                            StatusFails, Restart, vars, core
  <2>2. sent' = sent /\ worker' \in {worker, None} /\ claiming' \subseteq claiming
        /\ reporter' \in ReporterStates
    BY <1>0, <1>1 DEF Reject, ClaimEnds, Idle, TimePasses, WorkerExits, RestartWorker,
                     StatusFails, Restart, vars, TypeOK, ReporterStates
  <2> QED
    BY <1>0, <2>1, <2>2, RowsStep DEF Busy, TypeOK
<1>2. CASE k \in Keys /\ ClaimAnswered(k, old)
  <2>1. RowsMove
    BY <1>2, SpoolMoves DEF ClaimAnswered
  <2> QED
    BY <1>0, <1>2, <2>1, RowsStep DEF ClaimAnswered, Busy, TypeOK
<1>3. CASE k \in Keys /\ Post(k, S)
  <2>1. RowsMove
    BY <1>3, SpoolMoves DEF Post
  <2>2. identity[k] # None /\ identity[k].spool = spool
    BY <1>0, <1>3 DEF Post, RowsBound, Pending, FileBinds
  <2> QED
    BY <1>0, <1>3, <2>1, <2>2, RowsStep DEF Post, Busy, TypeOK
<1>4. CASE WorkerReceipt(old) \/ WorkerConflict \/ WorkerRefused \/ WorkerFails
  <2>1. worker # None
    BY <1>0, <1>4, NoneIsNoRecord
       DEF TypeOK, WorkerReceipt, WorkerConflict, WorkerRefused, WorkerFails
  <2>2. worker.key \in Keys /\ identity[worker.key] = worker
    BY <1>0, <2>1 DEF TypeOK, BusyWithSent, SentFromFile, Record
  <2>3. RowsMove
    BY <1>4, <2>2, SpoolMoves
       DEF WorkerReceipt, WorkerConflict, WorkerRefused, WorkerFails, Settle
  <2>4. worker' = None /\ sent' = sent /\ claiming' = claiming /\ reporter' = reporter
    BY <1>4 DEF WorkerReceipt, WorkerConflict, WorkerRefused, WorkerFails, Settle
  <2> QED
    BY <1>0, <2>3, <2>4, RowsStep DEF Busy, TypeOK
<1> QED
  BY <1>1, <1>2, <1>3, <1>4

\* A capture draws a number that no record of the file has.
LEMMA CaptureStep ==
    ASSUME IInv, NEW k \in Keys, NEW c \in Contents, NEW old,
           Append(k, c, old), UNCHANGED <<core, reporter, worker, arrived>>,
           sent' \in {sent, sent \cup {NewRecord(k, c)}},
           claiming' \in {claiming, claiming \cup {k}},
           claiming' # claiming => NewRecord(k, c) \in sent'
    PROVE  IInv'
<1> USE DEF IInv, DeliveryInv
<1> DEFINE r == NewRecord(k, c)
<1>1. /\ identity[k] = None
      /\ identity' = [identity EXCEPT ![k] = r]
      /\ spool' = spool /\ next' = next + 1
      /\ row' = [Compacted(row, old) EXCEPT ![k] = "due"]
      /\ UNCHANGED <<receipts, watermark, reporter, worker, arrived>>
  BY DEF Append, NextSequence, core
<1>2. r \in Record /\ r.key = k /\ r.spool = spool /\ r.sequence = next
      /\ next \in Nat \ {0} /\ r # None
  BY NewRecordType, NoneIsNoRecord DEF NewRecord, NextSequence, TypeOK, DiskTypeOK
<1>3. identity'[k] = r /\ \A j \in Keys \ {k} : identity'[j] = identity[j]
  BY <1>1 DEF TypeOK, DiskTypeOK
<1>4. row'[k] = "due" /\ \A j \in Keys \ {k} :
         row'[j] = row[j] \/ (row[j] = "committed" /\ row'[j] = "none")
  BY <1>1 DEF TypeOK, DiskTypeOK, Compacted
<1>5. \A q \in sent : /\ q \in Record
                      /\ q.spool = spool => identity[q.key] = q /\ q.key \in Keys \ {k}
  BY <1>1, NoneIsNoRecord DEF SentFromFile, TypeOK, Record
<1> HIDE DEF r
<1>6. sent' \in {sent, sent \cup {r}} /\ (claiming' # claiming => r \in sent')
  BY DEF r
<1>7. TypeOK'
  <2>1. DiskTypeOK'
    BY DiskTypes
  <2> QED
    BY <1>1, <1>2, <1>6, <2>1 DEF TypeOK, CoreTypeOK
<1>8. FileBinds'
  <2>1. \A j \in Keys : identity[j] # None => identity[j].sequence \in Nat /\ identity[j].sequence < next
    BY DEF FileBinds, TypeOK, DiskTypeOK, Record
  <2>2. \A j \in Keys : identity'[j] # None =>
           /\ identity'[j].key = j /\ identity'[j].spool = spool'
           /\ identity'[j].sequence < next'
    BY <1>1, <1>2, <1>3, <2>1 DEF FileBinds
  <2>3. \A j \in Keys \ {k} : identity'[j] # None => identity'[j].sequence # r.sequence
    BY <1>2, <1>3, <2>1
  <2>4. \A i, j \in Keys : identity'[i] # None /\ identity'[j] # None
           /\ identity'[i].sequence = identity'[j].sequence => i = j
    BY <1>3, <2>3 DEF FileBinds
  <2> QED
    BY <2>2, <2>4 DEF FileBinds
<1>9. RowsBound'
  BY <1>2, <1>3, <1>4 DEF RowsBound
<1>10. SentFromFile'
  <2>1. spool \in Nat
    BY DEF TypeOK, DiskTypeOK, Spools
  <2> QED
    BY <1>1, <1>2, <1>3, <1>5, <1>6, <2>1 DEF SentFromFile
<1>11. BusyWithSent'
  BY <1>1, <1>2, <1>3, <1>6 DEF BusyWithSent
<1>12. StoredArrived' /\ ConflictHasACause' /\ WatermarkExact'
  BY <1>1 DEF StoredArrived, ConflictHasACause, Confirmed, WatermarkExact, Received, Stored
<1>13. NothingLost'
  BY <1>1, <1>3, <1>4 DEF NothingLost, Confirmed
<1>14. OneBinding'
  <2>1. ASSUME NEW q \in sent, q.spool = r.spool
        PROVE  q.key # r.key /\ q.sequence # r.sequence
    <3>1. identity[q.key] = q /\ q.key \in Keys \ {k} /\ q # None
      BY <1>2, <1>5, <2>1, NoneIsNoRecord
    <3>2. q.sequence < next /\ q.sequence \in Nat
      BY <1>5, <3>1 DEF FileBinds, Record
    <3> QED
      BY <1>2, <3>1, <3>2
  <2> QED
    BY <1>6, <2>1 DEF OneBinding
<1> QED
  BY <1>7, <1>8, <1>9, <1>10, <1>11, <1>12, <1>13, <1>14

\* Core refuses a record only if the event is stored from another file: a record
\* of the same file with its key or its number would be the record itself.
LEMMA ArriveStep ==
    ASSUME IInv, NEW r \in sent, Arrive(r)
    PROVE  IInv'
<1> USE DEF IInv, DeliveryInv
<1>1. UNCHANGED <<disk, reporter, worker, claiming, sent>> /\ Ingest(r) /\ arrived' = arrived \cup {r}
  BY DEF Arrive
<1>2. r \in Record /\ r.key \in Keys /\ r # None
  BY NoneIsNoRecord DEF TypeOK, Record
<1>3. CoreTypeOK /\ CoreTypeOK' /\ WatermarkExact'
  BY <1>1, <1>2, IngestExact DEF TypeOK
<1>4. TypeOK'
  <2>1. DiskTypeOK'
    BY <1>1 DEF TypeOK, DiskTypeOK, disk
  <2> QED
    BY <1>1, <1>3, <2>1 DEF TypeOK
<1>5. FileBinds' /\ RowsBound' /\ SentFromFile' /\ BusyWithSent' /\ OneBinding'
  BY <1>1 DEF disk, FileBinds, RowsBound, SentFromFile, BusyWithSent, OneBinding
<1>6. \A j \in Keys : receipts[j] # None => receipts'[j] = receipts[j]
  BY <1>1, <1>2 DEF Ingest, Fresh, TypeOK, CoreTypeOK
<1>7. StoredArrived'
  BY <1>1, <1>2, <1>3 DEF StoredArrived, Ingest, CoreTypeOK
<1>8. NothingLost'
  <2>1. \A j \in Keys : identity[j] # None => identity[j].key = j
    BY DEF FileBinds
  <2> QED
    BY <1>1, <1>6, <2>1 DEF disk, NothingLost, Confirmed
<1>9. ConflictHasACause'
  <2>1. ASSUME NEW q \in arrived, ~ (receipts'[q.key] = q)
        PROVE  receipts'[q.key] # None /\ receipts'[q.key].spool # q.spool
    <3>1. q.key \in Keys /\ q # None
      BY NoneIsNoRecord DEF TypeOK, Record
    <3>2. receipts[q.key] # q
      BY <1>6, <2>1, <3>1
    <3> QED
      BY <1>6, <3>1, <3>2 DEF ConflictHasACause, Confirmed
  <2>2. ASSUME ~ (receipts'[r.key] = r)
        PROVE  receipts'[r.key] # None /\ receipts'[r.key].spool # r.spool
    <3>1. ~Fresh(r)
      BY <1>1, <1>2, <1>3, <2>2 DEF Ingest, CoreTypeOK
    <3>2. receipts' = receipts
      BY <1>1, <3>1 DEF Ingest
    <3>3. CASE receipts[r.key] # None
      <4>1. receipts[r.key] \in sent /\ receipts[r.key].key = r.key
        BY <1>2, <3>3 DEF StoredArrived, TypeOK
      <4> QED
        BY <2>2, <3>2, <3>3, <4>1 DEF OneBinding
    <3>4. CASE receipts[r.key] = None
      <4>1. PICK j \in Keys : receipts[j] # None /\ receipts[j].spool = r.spool
                              /\ receipts[j].sequence = r.sequence
        BY <3>1, <3>4 DEF Fresh, Stored
      <4>2. receipts[j] \in sent /\ receipts[j].key = j
        BY <4>1 DEF StoredArrived, TypeOK
      <4>3. receipts[j] = r
        BY <4>1, <4>2 DEF OneBinding
      <4> QED
        BY <3>4, <4>1, <4>2, <4>3
    <3> QED
      BY <3>3, <3>4
  <2> QED
    BY <1>1, <2>1, <2>2 DEF ConflictHasACause, Confirmed
<1> QED
  BY <1>3, <1>4, <1>5, <1>7, <1>8, <1>9

\* A file made anew has bound nothing, and what was sent came from older ones.
LEMMA DamageStep == IInv /\ Restart("damaged") => IInv'
<1> SUFFICES ASSUME IInv, Restart("damaged") PROVE IInv'
  OBVIOUS
<1> USE DEF IInv, DeliveryInv
<1>1. /\ StartAnew /\ worker' = None /\ claiming' = {} /\ reporter' = "running"
      /\ UNCHANGED <<receipts, watermark, sent, arrived>>
  BY DEF Restart, core
<1>2. TypeOK'
  <2>1. spool' \in Spools
    BY <1>1, SpoolAssumption DEF TypeOK, DiskTypeOK, StartAnew, Spools
  <2>2. DiskTypeOK'
    BY <1>1, <2>1 DEF StartAnew, DiskTypeOK, NoIdentity, NoRow, RowStates
  <2> QED
    BY <1>1, <2>2 DEF TypeOK, CoreTypeOK, ReporterStates
<1>3. \A k \in Keys : identity'[k] = None /\ row'[k] = "none"
  BY <1>1 DEF StartAnew, NoIdentity, NoRow
<1>4. FileBinds' /\ RowsBound' /\ NothingLost'
  BY <1>3 DEF FileBinds, RowsBound, NothingLost
<1>5. SentFromFile'
  <2>1. spool' = spool + 1 /\ spool \in Nat
    BY <1>1 DEF StartAnew, TypeOK, DiskTypeOK, Spools
  <2>2. \A r \in sent : r.spool \in Nat /\ r.spool <= spool
    BY DEF SentFromFile, TypeOK, Record, Spools
  <2> QED
    BY <1>1, <2>1, <2>2 DEF SentFromFile
<1>6. BusyWithSent' /\ OneBinding'
  BY <1>1 DEF BusyWithSent, OneBinding
<1>7. StoredArrived' /\ ConflictHasACause' /\ WatermarkExact'
  BY <1>1 DEF StoredArrived, ConflictHasACause, Confirmed, WatermarkExact, Received, Stored
<1> QED
  BY <1>2, <1>4, <1>5, <1>6, <1>7

\* Every step preserves the invariant.
LEMMA Step == IInv /\ [Next]_vars => IInv'
<1> SUFFICES ASSUME IInv, [Next]_vars PROVE IInv'
  OBVIOUS
<1>1. ASSUME NEW k \in Keys, Capture(k) PROVE IInv'
  <2>1. PICK old \in SUBSET Keys :
           (\E c \in Contents : Enqueue(k, c, old) \/ Claim(k, c, old)) \/ Reject(k, old)
    BY <1>1 DEF Capture
  <2>2. CASE Reject(k, old)
    BY <2>2, QuietStep
  <2>3. ASSUME NEW c \in Contents, Enqueue(k, c, old) PROVE IInv'
    BY <2>3, CaptureStep DEF Enqueue
  <2>4. ASSUME NEW c \in Contents, Claim(k, c, old) PROVE IInv'
    <3>1. CASE Append(k, c, old) /\ sent' = sent \cup {NewRecord(k, c)}
      BY <2>4, <3>1, CaptureStep DEF Claim
    <3>2. CASE Known(k, c) /\ sent' = sent \cup {identity[k]} /\ UNCHANGED disk
      <4>1. RowsMove
        BY <2>4, <3>2, SpoolMoves DEF Claim
      <4>2. Busy
        BY <2>4, <3>2 DEF Claim, Known, Busy, IInv, TypeOK
      <4> QED
        BY <4>1, <4>2, RowsStep
    <3> QED
      BY <2>4, <3>1, <3>2 DEF Claim
  <2> QED
    BY <2>1, <2>2, <2>3, <2>4
<1>2. ASSUME NEW k \in Keys, Answer(k) PROVE IInv'
  BY <1>2, QuietStep DEF Answer
<1>3. ASSUME NEW k \in Keys, TimePasses(k) PROVE IInv'
  BY <1>3, QuietStep
<1>4. ASSUME NEW r \in sent, Arrive(r) PROVE IInv'
  BY <1>4, ArriveStep
<1>5. CASE Restart("damaged")
  BY <1>5, DamageStep
<1>6. CASE Poll
  BY <1>6, QuietStep DEF Poll
<1>7. CASE Answered \/ WorkerRefused \/ WorkerFails \/ WorkerExits \/ RestartWorker
           \/ StatusFails \/ Restart("opened") \/ Restart("failed") \/ UNCHANGED vars
  BY <1>7, QuietStep DEF Answered
<1> QED
  BY <1>1, <1>2, <1>3, <1>4, <1>5, <1>6, <1>7, StartAssumption DEF Next

\* The invariant holds at the start.
LEMMA InitInv == Init => IInv
<1> SUFFICES ASSUME Init PROVE IInv
  OBVIOUS
<1>1. TypeOK
  BY InitType
<1>2. \A s \in Spools : Received(s) = {}
  BY DEF Init, CoreInit, Received, Stored
<1>3. WatermarkExact
  BY <1>2 DEF Init, CoreInit, WatermarkExact
<1>4. FileBinds /\ RowsBound /\ NothingLost
  BY DEF Init, DiskInit, NoIdentity, NoRow, FileBinds, RowsBound, NothingLost
<1>5. SentFromFile /\ BusyWithSent /\ StoredArrived /\ OneBinding /\ ConflictHasACause
  BY DEF Init, CoreInit, SentFromFile, BusyWithSent, StoredArrived, OneBinding,
         ConflictHasACause
<1> QED
  BY <1>1, <1>3, <1>4, <1>5 DEF IInv, DeliveryInv

\* Rows, identities, what was sent and what Core stores fit together in every
\* reachable state.
THEOREM Invariant == Spec => []IInv
BY InitInv, Step, PTL DEF Spec

\* Every variable keeps its type.
THEOREM TypeCorrect == Spec => []TypeOK
<1>1. IInv => TypeOK
  BY DEF IInv
<1> QED
  BY <1>1, Invariant, PTL

\* A number the spool has given is still in its file, or Core has stored it
\* under exactly this binding.
THEOREM NothingIsLost == Spec => []NothingLost
<1>1. IInv => NothingLost
  BY DEF IInv, DeliveryInv
<1> QED
  BY <1>1, Invariant, PTL

\* What a bridge sends under one key, or under one number, of a spool is always
\* the same record.
THEOREM BindingsArePermanent == Spec => []OneBinding
<1>1. IInv => OneBinding
  BY DEF IInv, DeliveryInv
<1> QED
  BY <1>1, Invariant, PTL

\* Core refuses a record only when the event is stored from another file.
THEOREM ConflictsHaveACause == Spec => []ConflictHasACause
<1>1. IInv => ConflictHasACause
  BY DEF IInv, DeliveryInv
<1> QED
  BY <1>1, Invariant, PTL

\* In whatever order records arrive, the contiguous mark ends where the first
\* gap begins, and the highest seen sequence is the highest.
THEOREM WatermarkIsExact == Spec => []WatermarkExact
<1>1. IInv => WatermarkExact
  BY DEF IInv, DeliveryInv
<1> QED
  BY <1>1, Invariant, PTL

-------------------------------------------------------------------------------
(* The refinement of EventOutbox.                                          *)

\* The records in hand after a step that leaves the identities alone.
LEMMA HeldAfter ==
    ASSUME IInv, RowsMove,
           NEW k \in Keys, \A j \in Keys \ {k} : row[j] \in Held <=> row'[j] \in Held
    PROVE  HeldRecords' = HeldRecords \/ (HeldRecords' = HeldRecords \ {identity[k]}
                                          /\ Confirmed(identity[k]))
<1>1. identity' = identity /\ (row'[k] \in Held => row[k] \in Held)
  BY DEF RowsMove
<1>2. \A j \in InHand : identity[j] # None /\ identity[j].key = j
  BY DEF IInv, DeliveryInv, RowsBound, FileBinds, InHand
<1>3. CASE row'[k] \in Held <=> row[k] \in Held
  <2>1. InHand' = InHand
    BY <1>3 DEF InHand, Held
  <2> QED
    BY <1>1, <2>1 DEF HeldRecords
<1>4. CASE row[k] \in Held /\ row'[k] \notin Held
  <2>1. Confirmed(identity[k])
    BY <1>4 DEF RowsMove
  <2>2. InHand' = InHand \ {k} /\ k \in InHand
    BY <1>4 DEF InHand, Held
  <2>3. HeldRecords' = HeldRecords \ {identity[k]}
    BY <1>1, <1>2, <2>2 DEF HeldRecords
  <2> QED
    BY <2>1, <2>3
<1> QED
  BY <1>1, <1>3, <1>4

\* A record Core has confirmed is stored.
LEMMA ConfirmedIsStored ==
    ASSUME NEW r \in Record, Confirmed(r)
    PROVE  r \in Stored
BY NoneIsNoRecord DEF Confirmed, Stored, Record

\* A quiet step keeps the records in hand, or releases one that is stored, and
\* may send one that is in hand.
LEMMA QuietOutbox ==
    ASSUME IInv, NEW k, NEW S, NEW old,
           \/ k \in Keys /\ (Reject(k, old) \/ ClaimAnswered(k, old) \/ ClaimEnds(k)
                            \/ Post(k, S) \/ TimePasses(k))
           \/ Idle(S, old) \/ WorkerReceipt(old) \/ WorkerConflict
           \/ WorkerRefused \/ WorkerFails \/ WorkerExits \/ RestartWorker
           \/ StatusFails \/ Restart("opened") \/ Restart("failed") \/ UNCHANGED vars
    PROVE  Outbox!Next \/ UNCHANGED <<HeldRecords, sent, Stored>>
<1>0. TypeOK /\ BusyWithSent /\ SentFromFile
  BY DEF IInv, DeliveryInv
<1>1. ASSUME NEW j \in Keys, RowsMove, UNCHANGED <<receipts, sent>>,
             \A i \in Keys \ {j} : row[i] \in Held <=> row'[i] \in Held
      PROVE  Outbox!Next \/ UNCHANGED <<HeldRecords, sent, Stored>>
  <2>1. Stored' = Stored
    BY <1>1 DEF Stored
  <2>2. CASE HeldRecords' = HeldRecords
    BY <1>1, <2>1, <2>2
  <2>3. CASE HeldRecords' # HeldRecords
    <3>1. HeldRecords' = HeldRecords \ {identity[j]} /\ Confirmed(identity[j])
          /\ identity[j] \in HeldRecords
      BY <1>1, <2>3, HeldAfter
    <3>2. identity[j] # None
      BY <3>1 DEF HeldRecords, InHand, IInv, DeliveryInv, RowsBound
    <3>3. identity[j] \in Stored
      BY <1>0, <3>1, <3>2, ConfirmedIsStored DEF TypeOK, DiskTypeOK
    <3> QED
      BY <1>1, <2>1, <3>1, <3>3 DEF Outbox!Next, Outbox!Release
  <2> QED
    BY <2>2, <2>3
<1>2. ASSUME RowsMove, UNCHANGED receipts, \A i \in Keys : row[i] \in Held <=> row'[i] \in Held
      PROVE  UNCHANGED <<HeldRecords, Stored>>
  <2>1. InHand' = InHand /\ identity' = identity
    BY <1>2 DEF InHand, Held, RowsMove
  <2> QED
    BY <1>2, <2>1 DEF HeldRecords, Stored
<1>3. CASE k \in Keys /\ (Reject(k, old) \/ ClaimAnswered(k, old) \/ ClaimEnds(k) \/ TimePasses(k))
  <2>1. UNCHANGED <<core, sent, arrived>>
    BY <1>3 DEF Reject, ClaimAnswered, ClaimEnds, TimePasses
  <2>2. RowsMove /\ \A j \in Keys \ {k} : row[j] \in Held <=> row'[j] \in Held
    BY <1>3, <2>1, SpoolMoves DEF Reject, ClaimAnswered, ClaimEnds, TimePasses
  <2> QED
    BY <1>1, <1>3, <2>1, <2>2 DEF core
<1>4. CASE WorkerReceipt(old) \/ WorkerConflict \/ WorkerRefused \/ WorkerFails
  <2>1. worker # None
    BY <1>0, <1>4, NoneIsNoRecord
       DEF TypeOK, WorkerReceipt, WorkerConflict, WorkerRefused, WorkerFails
  <2>2. worker.key \in Keys /\ identity[worker.key] = worker
    BY <1>0, <2>1 DEF TypeOK, BusyWithSent, SentFromFile, Record
  <2>3. UNCHANGED <<core, sent, arrived>>
    BY <1>4 DEF WorkerReceipt, WorkerConflict, WorkerRefused, WorkerFails, Settle
  <2>4. RowsMove /\ \A j \in Keys \ {worker.key} : row[j] \in Held <=> row'[j] \in Held
    BY <1>4, <2>2, <2>3, SpoolMoves
       DEF WorkerReceipt, WorkerConflict, WorkerRefused, WorkerFails
  <2> QED
    BY <1>1, <2>2, <2>3, <2>4 DEF core
<1>5. CASE \/ Idle(S, old) \/ WorkerExits \/ RestartWorker \/ StatusFails
           \/ Restart("opened") \/ Restart("failed") \/ UNCHANGED vars
  <2>1. UNCHANGED <<core, sent, arrived>>
    BY <1>5 DEF Idle, WorkerExits, RestartWorker, StatusFails, Restart, vars
  <2>2. PICK z : z \notin Keys
    BY NoSetContainsEverything
  <2>3. RowsMove /\ \A j \in Keys \ {z} : row[j] \in Held <=> row'[j] \in Held
    BY <1>5, <2>1, SpoolMoves DEF Idle, WorkerExits, RestartWorker, StatusFails, Restart, vars
  <2> QED
    BY <1>2, <2>1, <2>2, <2>3 DEF core
<1>6. CASE k \in Keys /\ Post(k, S)
  <2>1. UNCHANGED <<core, arrived>> /\ NextPendingIs(k, S) /\ k \in Pending
        /\ sent' = sent \cup {identity[k]}
    BY <1>6 DEF Post
  <2>2. RowsMove /\ \A j \in Keys \ {k} : row[j] \in Held <=> row'[j] \in Held
    BY <2>1, SpoolMoves
  <2>3. row'[k] \in Held /\ row[k] \in Held /\ identity[k] \in HeldRecords
    BY <1>0, <1>6, <2>1 DEF NextPendingIs, WithoutSpoiled, Pending, Held, HeldRecords, InHand
  <2>4. UNCHANGED <<HeldRecords, Stored>>
    BY <1>2, <2>1, <2>2, <2>3 DEF core
  <2> QED
    BY <2>1, <2>3, <2>4 DEF Outbox!Next, Outbox!Offer
<1> QED
  BY <1>3, <1>4, <1>5, <1>6

\* A capture adds its record to those in hand.
LEMMA CaptureOutbox ==
    ASSUME IInv, NEW k \in Keys, NEW c \in Contents, NEW old,
           Append(k, c, old), UNCHANGED core,
           sent' \in {sent, sent \cup {NewRecord(k, c)}}
    PROVE  Outbox!Next
<1> DEFINE r == NewRecord(k, c)
<1>1. /\ identity[k] = None
      /\ identity'[k] = r
      /\ \A j \in Keys \ {k} : identity'[j] = identity[j]
  BY DEF Append, IInv, TypeOK, DiskTypeOK
<1>2. row'[k] = "due" /\ \A j \in Keys \ {k} : row'[j] \in Held <=> row[j] \in Held
  BY DEF Append, Compacted, Held, IInv, TypeOK, DiskTypeOK
<1>3. k \notin InHand
  BY <1>1 DEF InHand, IInv, DeliveryInv, RowsBound
<1>4. InHand' = InHand \cup {k}
  BY <1>2, <1>3 DEF InHand, Held
<1>5. r \in Record
  BY NewRecordType DEF IInv
<1> HIDE DEF r
<1>6. HeldRecords' = HeldRecords \cup {r}
  BY <1>1, <1>3, <1>4 DEF HeldRecords, InHand
<1>7. Stored' = Stored /\ sent' \in {sent, sent \cup {r}}
  BY DEF Stored, core, r
<1> QED
  BY <1>5, <1>6, <1>7 DEF Outbox!Next, Outbox!Capture, Outbox!Record, Record,
                          Outbox!Spools, Spools

\* The ingestion of a fresh record stores it; of any other, nothing.
LEMMA ArriveOutbox ==
    ASSUME IInv, NEW r \in sent, Arrive(r)
    PROVE  Outbox!Next \/ UNCHANGED <<HeldRecords, sent, Stored>>
<1>1. UNCHANGED <<identity, row, sent>> /\ Ingest(r)
  BY DEF Arrive, disk
<1>2. HeldRecords' = HeldRecords
  BY <1>1 DEF HeldRecords, InHand
<1>3. CASE ~Fresh(r)
  BY <1>1, <1>2, <1>3 DEF Ingest, Stored
<1>4. CASE Fresh(r)
  <2>1. r \in Record /\ CoreTypeOK /\ receipts' = [receipts EXCEPT ![r.key] = r]
    BY <1>1, <1>4 DEF Ingest, IInv, TypeOK
  <2>2. Stored' = Stored \cup {r}
    BY <1>4, <2>1, Inserted
  <2>3. \A q \in Stored : q.key # r.key /\ (q.spool = r.spool => q.sequence # r.sequence)
    BY <1>4 DEF Fresh, Stored, IInv, DeliveryInv, StoredArrived
  <2> QED
    BY <1>1, <1>2, <2>2, <2>3 DEF Outbox!Next, Outbox!Store
<1> QED
  BY <1>3, <1>4

\* Every step is a step of EventOutbox or changes nothing of it.
LEMMA OutboxStep == IInv /\ [Next]_vars => [Outbox!Next]_(Outbox!vars)
<1> SUFFICES ASSUME IInv, [Next]_vars
             PROVE  Outbox!Next \/ UNCHANGED <<HeldRecords, sent, Stored>>
  BY DEF Outbox!vars
<1>1. ASSUME NEW k \in Keys, Capture(k)
      PROVE  Outbox!Next \/ UNCHANGED <<HeldRecords, sent, Stored>>
  <2>1. PICK old \in SUBSET Keys :
           (\E c \in Contents : Enqueue(k, c, old) \/ Claim(k, c, old)) \/ Reject(k, old)
    BY <1>1 DEF Capture
  <2>2. CASE Reject(k, old)
    BY <2>2, QuietOutbox
  <2>3. ASSUME NEW c \in Contents, Enqueue(k, c, old) PROVE Outbox!Next
    BY <2>3, CaptureOutbox DEF Enqueue
  <2>4. ASSUME NEW c \in Contents, Claim(k, c, old) PROVE Outbox!Next
    <3>1. CASE Append(k, c, old) /\ sent' = sent \cup {NewRecord(k, c)}
      BY <2>4, <3>1, CaptureOutbox DEF Claim
    <3>2. CASE Known(k, c) /\ sent' = sent \cup {identity[k]} /\ UNCHANGED disk
      <4>1. UNCHANGED <<HeldRecords, Stored>>
        BY <2>4, <3>2 DEF Claim, HeldRecords, InHand, Stored, disk, core
      <4>2. identity[k] \in HeldRecords \/ Confirmed(identity[k])
        BY <3>2 DEF Known, IInv, DeliveryInv, NothingLost, HeldRecords, InHand
      <4>3. identity[k] \in Record
        BY <3>2 DEF Known, IInv, TypeOK, DiskTypeOK
      <4>4. identity[k] \in HeldRecords \cup Stored
        BY <4>2, <4>3, ConfirmedIsStored
      <4> QED
        BY <3>2, <4>1, <4>4 DEF Outbox!Next, Outbox!Offer
    <3> QED
      BY <2>4, <3>1, <3>2 DEF Claim
  <2> QED
    BY <2>1, <2>2, <2>3, <2>4
<1>2. ASSUME NEW k \in Keys, Answer(k) \/ TimePasses(k)
      PROVE  Outbox!Next \/ UNCHANGED <<HeldRecords, sent, Stored>>
  BY <1>2, QuietOutbox DEF Answer
<1>3. ASSUME NEW r \in sent, Arrive(r)
      PROVE  Outbox!Next \/ UNCHANGED <<HeldRecords, sent, Stored>>
  BY <1>3, ArriveOutbox
<1>4. CASE Restart("damaged")
  <2>1. HeldRecords' = {} /\ UNCHANGED <<sent, Stored>>
    BY <1>4 DEF Restart, StartAnew, NoRow, HeldRecords, InHand, Stored, core
  <2> QED
    BY <2>1 DEF Outbox!Next, Outbox!LoseAll
<1>5. CASE Poll
  BY <1>5, QuietOutbox DEF Poll
<1>6. CASE Answered \/ WorkerRefused \/ WorkerFails \/ WorkerExits \/ RestartWorker
           \/ StatusFails \/ Restart("opened") \/ Restart("failed") \/ UNCHANGED vars
  BY <1>6, QuietOutbox DEF Answered
<1> QED
  BY <1>1, <1>2, <1>3, <1>4, <1>5, <1>6, StartAssumption DEF Next

\* The spool, its worker, the claims and Core together keep the promise of
\* EventOutbox.
THEOREM Refinement == Spec => DeliversAsPromised
<1>1. Init => Outbox!Init
  BY DEF Init, DiskInit, CoreInit, NoRow, Outbox!Init, HeldRecords, InHand, Stored
<1> QED
  BY <1>1, OutboxStep, Invariant, PTL DEF Spec, DeliversAsPromised, Outbox!Spec

-------------------------------------------------------------------------------
(* What is stored.                                                         *)

\* An observation belongs to the bot that reported it and keeps its source; a row
\* read from the history takes the packet of a live delivery, no other does.
GoodRows(x) ==
    \A o \in DOMAIN x.rows :
        /\ {o, SourceOf(x, o), x.rows[o].packet} \subseteq Events
        /\ Of[x.rows[o].packet].bot = Of[o].bot
        /\ Fingerprint(SourceOf(x, o)) = Fingerprint(o)
        /\ \/ x.rows[o].packet = o
           \/ Current(x, o).live /\ ~Of[o].live
        /\ SourceOf(x, o) \in DOMAIN x.rows
        /\ SourceOf(x, SourceOf(x, o)) = SourceOf(x, o)
        /\ SourceOf(x, o) = o \/ Fingerprint(o) # Null

KeysApart(x) ==
    \A o, q \in DOMAIN x.rows :
        (o # q /\ Of[o].bot = Of[q].bot) =>
            {Of[o].key, Current(x, o).key} \cap {Of[q].key, Current(x, q).key} = {}

GoodRefs(x) ==
    \A p \in DOMAIN x.refs :
        /\ p \in DOMAIN x.rows /\ Of[p].ref # Null
        /\ x.refs[p].status \in Statuses
        /\ IF x.refs[p].status = "resolved" THEN x.refs[p].to \in Sources(x)
           ELSE x.refs[p].to = Null

RefMet(x, p) ==
    x.refs[p].status = "unresolved" =>
        Targets(x, p, Earlier(Of[p].at, Of[SourceOf(x, p)].at)) = {}

Triggered(a, p) ==
    /\ Of[a].bot = Of[p].bot /\ Of[a].kind = Of[p].kind
    /\ Of[a].trigger # Null /\ Of[Of[a].trigger].key = Of[p].key
AnswersMet(x) ==
    \A a \in DOMAIN x.answers, o \in DOMAIN x.rows :
        (Triggered(a, o) /\ x.rows[o].packet = o) => x.answers[a] = SourceOf(x, o)

GoodDb(x) ==
    /\ GoodRows(x) /\ KeysApart(x) /\ GoodRefs(x)
    /\ DOMAIN x.answers \subseteq Answers
    /\ \A p \in DOMAIN x.refs : RefMet(x, p)
    /\ AnswersMet(x)

-------------------------------------------------------------------------------
(* What a transaction holds, and what it knows of what is stored.          *)

Unknown(x, p) == SameNative(x, p) = {} /\ SameStrong(x, p) = {}

Looking(t, r) ==
    r[1] \in Events /\ MessageLocks(r[1]) \subseteq t.locks

Found(x, p) ==
    /\ Of[p].live
    /\ SameIdentity(x, p) = {} =>
           /\ Existing(x, p) # {}
           /\ \A o \in Existing(x, p) : ~Conflicts(x, o, p) /\ ~Current(x, o).live

\* It writes the row o with the packet of r, under the source s.
Takes(x, t, r, o, s) ==
    /\ {r[1], o, s} \subseteq Events
    /\ t.writes.rows = One(o, [source |-> s, packet |-> r[1]])
    /\ Of[o].bot = Of[r[1]].bot
    /\ MessageLocks(o) = MessageLocks(r[1])
    /\ Fingerprint(o) = Fingerprint(r[1]) /\ Fingerprint(s) = Fingerprint(o)
    /\ MessageLocks(r[1]) \subseteq t.locks /\ KeyLocks(r[1]) \subseteq t.locks
    /\ SameIdentity(x, r[1]) = {}
    /\ DOMAIN t.writes.answers \subseteq Caused(x, r[1])
    /\ \A a \in DOMAIN t.writes.answers : t.writes.answers[a] = s

OthersSee(x, s, b) == \A o \in ObservationsOf(x, s) : Of[o].bot # b

Adds(x, t, r, s) ==
    LET p == r[1]
        b == Of[p].bot
        y == Over(t.writes, x)
    IN  /\ Takes(x, t, r, p, s)
        /\ BotLocks(b) \subseteq t.locks
        /\ Unknown(x, p)
        /\ \/ s = p
           \/ s \in Sources(x) /\ Fingerprint(s) # Null /\ OthersSee(x, s, b)
        /\ Caused(x, p) \subseteq DOMAIN t.writes.answers
        /\ \A q \in DOMAIN t.writes.refs : Of[q].bot = b
        /\ GoodRefs(y)
        /\ \A q \in DOMAIN y.refs : Of[q].bot = b => RefMet(y, q)

Revives(x, t, r, o, s) ==
    LET p == r[1]
    IN  /\ Takes(x, t, r, o, s)
        /\ o \in DOMAIN x.rows /\ SourceOf(x, o) = s /\ x.rows[o].packet = o
        /\ o # p /\ Of[p].live /\ ~Of[o].live
        /\ MessageLocks(p) # {} /\ ~Differ(Of[o].time, Of[p].time)
        /\ DOMAIN t.writes.refs = {}

Reports(x, t, r) ==
    LET a == r[1]
    IN  /\ a \in Answers
        /\ BotLocks(Of[a].bot) \subseteq t.locks
        /\ DOMAIN t.writes.rows = {} /\ DOMAIN t.writes.refs = {}
        /\ DOMAIN t.writes.answers = {a} /\ a \notin DOMAIN x.answers
        /\ \A o \in DOMAIN x.rows :
               (Triggered(a, o) /\ x.rows[o].packet = o) => t.writes.answers[a] = SourceOf(x, o)

Wrote(x, t, r) ==
    \/ \E s \in Events : Adds(x, t, r, s)
    \/ \E o, s \in Events : Revives(x, t, r, o, s)
    \/ Reports(x, t, r)

Stands(x, t, r, where) ==
    /\ where = "looked" => Looking(t, r) /\ Unknown(x, r[1])
    /\ where = "found" => Looking(t, r) /\ Found(x, r[1])
    /\ where = "written" => Wrote(x, t, r)

States == {"idle"} \cup Running \cup Ended
Exclusive == \A q, r \in Open : q # r => tx[q].locks \cap tx[r].locks = {}
Standing == \A r \in Open : Stands(db, tx[r], r, state[r])
IngestInv ==
    /\ state \in [Requests -> States]
    /\ Open = {r \in Requests : state[r] \in Running}
    /\ Exclusive
    /\ GoodDb(db)
    /\ Standing

-------------------------------------------------------------------------------
(* Functions laid over each other.                                         *)

\* What Upon has and gives.
LEMMA UponFacts ==
    ASSUME NEW f, NEW g
    PROVE  /\ DOMAIN Upon(f, g) = DOMAIN f \cup DOMAIN g
           /\ \A x \in DOMAIN f : Upon(f, g)[x] = f[x]
           /\ \A x \in DOMAIN g \ DOMAIN f : Upon(f, g)[x] = g[x]
    BY DEF Upon

\* The function of one value.
LEMMA OneFacts ==
    ASSUME NEW x, NEW v
    PROVE  DOMAIN One(x, v) = {x} /\ One(x, v)[x] = v
    BY DEF One

\* The tables a transaction sees.
LEMMA OverFields ==
    ASSUME NEW w, NEW x
    PROVE  /\ Over(w, x).rows = Upon(w.rows, x.rows)
           /\ Over(w, x).refs = Upon(w.refs, x.refs)
           /\ Over(w, x).answers = Upon(w.answers, x.answers)
           /\ Over(w, x).decisions = Upon(w.decisions, x.decisions)
    BY DEF Over, Rows

\* The step from x to y writes the row o and no other.
Rewrites(x, y, o, s, p) ==
    /\ DOMAIN y.rows = DOMAIN x.rows \cup {o}
    /\ y.rows[o].source = s /\ y.rows[o].packet = p
    /\ \A q \in DOMAIN x.rows : q # o => y.rows[q] = x.rows[q]

\* A takeover or an insertion writes one row.
LEMMA TakesRewrites ==
    ASSUME NEW x, NEW t, NEW r, NEW o, NEW s, Takes(x, t, r, o, s)
    PROVE  Rewrites(x, Over(t.writes, x), o, s, r[1])
    <1>1. PICK f : f = t.writes.rows OBVIOUS
    <1>2. PICK y : y = Over(t.writes, x) OBVIOUS
    <1>3. DOMAIN f = {o} /\ f[o].source = s /\ f[o].packet = r[1]
        BY <1>1 DEF Takes, One
    <1>4. y.rows = Upon(f, x.rows) BY <1>1, <1>2, OverFields
    <1>5. /\ DOMAIN y.rows = {o} \cup DOMAIN x.rows
          /\ y.rows[o] = f[o]
          /\ \A q \in DOMAIN x.rows : q # o => y.rows[q] = x.rows[q]
        BY <1>3, <1>4 DEF Upon
    <1> QED BY <1>2, <1>3, <1>5 DEF Rewrites

\* A table laid over by nothing stays as it is.
LEMMA UponNothing ==
    ASSUME NEW f, NEW g, DOMAIN f = {}
    PROVE  DOMAIN Upon(f, g) = DOMAIN g /\ \A x \in DOMAIN g : Upon(f, g)[x] = g[x]
    BY DEF Upon

SameTable(f, g) == DOMAIN f = DOMAIN g /\ \A x \in DOMAIN f : f[x] = g[x]

\* A report writes no row and no reference.
LEMMA ReportsKeep ==
    ASSUME NEW x, NEW t, NEW r, Reports(x, t, r)
    PROVE  /\ SameTable(x.rows, Over(t.writes, x).rows)
           /\ SameTable(x.refs, Over(t.writes, x).refs)
    <1>1. DOMAIN t.writes.rows = {} /\ DOMAIN t.writes.refs = {} BY DEF Reports
    <1>2. /\ SameTable(x.rows, Upon(t.writes.rows, x.rows))
          /\ SameTable(x.refs, Upon(t.writes.refs, x.refs))
        BY <1>1 DEF SameTable, Upon
    <1> QED BY <1>2, OverFields

-------------------------------------------------------------------------------
(* Locks.                                                                  *)

\* Two transactions that hold the row of a bot have different bots; ...
LEMMA BotsDiffer ==
    ASSUME NEW t, NEW u, t.locks \cap u.locks = {}, NEW b, NEW c,
           BotLocks(b) \subseteq t.locks, BotLocks(c) \subseteq u.locks
    PROVE  b # c
    BY DEF BotLocks

\* ... two that write an identity have different ones; ...
LEMMA KeysDiffer ==
    ASSUME NEW t, NEW u, t.locks \cap u.locks = {}, NEW p, NEW q,
           KeyLocks(p) \subseteq t.locks, KeyLocks(q) \subseteq u.locks,
           Of[p].bot = Of[q].bot
    PROVE  Of[p].key # Of[q].key
    BY DEF KeyLocks

\* ... and what the lock of a message tells apart is not the same message.
LEMMA MessagesDiffer ==
    ASSUME NEW t, NEW u, t.locks \cap u.locks = {}, NEW p, NEW q,
           MessageLocks(p) \subseteq t.locks, MessageLocks(q) \subseteq u.locks,
           MessageLocks(p) # {}
    PROVE  MessageLocks(p) # MessageLocks(q)
    OBVIOUS

\* One number has one lock.
LEMMA OneNumberOneLock ==
    ASSUME NEW p, NEW q, Fingerprint(p) # Null, Fingerprint(p) = Fingerprint(q)
    PROVE  MessageLocks(p) = MessageLocks(q) /\ MessageLocks(p) # {}
    BY DEF MessageLocks

\* An observation under which p is known, other than by its key, is of p's message.
Kin(x, o, p) ==
    /\ o \in DOMAIN x.rows /\ Of[o].bot = Of[p].bot
    /\ Fingerprint(o) = Fingerprint(p)
    /\ MessageLocks(o) = MessageLocks(p) /\ MessageLocks(p) # {}

\* What is found by its native identity, ...
LEMMA NativeKin ==
    ASSUME NEW x, NEW p, NEW o \in SameNative(x, p)
    PROVE  Kin(x, o, p)
    <1>1. /\ o \in DOMAIN x.rows /\ Of[o].bot = Of[p].bot
          /\ Of[p].msg # Null /\ Of[o].msg = Of[p].msg /\ Of[o].sender = Of[p].sender
          /\ Of[o].kind = Of[p].kind /\ Of[o].seq = Of[p].seq
        BY DEF SameNative, SeenBy
    <1>2. Fingerprint(o) = Fingerprint(p) BY <1>1 DEF Fingerprint
    <1>3. MessageLocks(o) = MessageLocks(p) /\ MessageLocks(p) # {}
        BY <1>1, <1>2 DEF MessageLocks
    <1> QED BY <1>1, <1>2, <1>3 DEF Kin

\* ... or by its strong identity, is kin.
LEMMA StrongKin ==
    ASSUME NEW x, NEW p, GoodRows(x), NEW o \in SameStrong(x, p)
    PROVE  Kin(x, o, p)
    <1>1. /\ o \in DOMAIN x.rows /\ Of[o].bot = Of[p].bot
          /\ Fingerprint(p) # Null /\ Fingerprint(SourceOf(x, o)) = Fingerprint(p)
        BY DEF SameStrong, SeenBy
    <1>2. Fingerprint(o) = Fingerprint(p) BY <1>1 DEF GoodRows
    <1> QED BY <1>1, <1>2, OneNumberOneLock DEF Kin

\* So is what is found at all, if the key is new.
LEMMA ExistingKin ==
    ASSUME NEW x, NEW p, GoodRows(x), SameIdentity(x, p) = {}, NEW o \in Existing(x, p)
    PROVE  Kin(x, o, p)
    <1>1. o \in SameNative(x, p) \/ o \in SameStrong(x, p) BY DEF Existing
    <1> QED BY <1>1, NativeKin, StrongKin

\* What is not stored under its key is not stored under its name.
LEMMA UnknownIsNew ==
    ASSUME NEW x, NEW p, SameIdentity(x, p) = {}
    PROVE  p \notin DOMAIN x.rows
    BY DEF SameIdentity, SeenBy

-------------------------------------------------------------------------------
(* One row is written.                                                     *)

Written(x, o, s, p) ==
    \/ o = p /\ o \notin DOMAIN x.rows /\ (s = p \/ (s \in Sources(x) /\ Fingerprint(s) # Null))
    \/ o \in DOMAIN x.rows /\ SourceOf(x, o) = s /\ Of[p].live /\ ~Of[o].live

\* A row written by either way leaves good rows, ...
LEMMA WrittenRows ==
    ASSUME NEW x, NEW y, NEW o \in Events, NEW s \in Events, NEW p \in Events,
           GoodRows(x), Rewrites(x, y, o, s, p), Written(x, o, s, p),
           Of[o].bot = Of[p].bot, Fingerprint(s) = Fingerprint(o)
    PROVE  GoodRows(y)
    <1>1. \A q \in DOMAIN x.rows : q # o => SourceOf(y, q) = SourceOf(x, q) /\ Current(y, q) = Current(x, q)
        BY DEF Rewrites, SourceOf, Current
    <1>2. SourceOf(y, o) = s /\ Current(y, o) = Of[p] /\ y.rows[o].packet = p
        BY DEF Rewrites, SourceOf, Current
    <1>3. \A q \in DOMAIN x.rows : SourceOf(y, q) = SourceOf(x, q)
        BY <1>1, <1>2 DEF Written
    <1>4. s \in DOMAIN y.rows /\ SourceOf(y, s) = s
        <2>1. CASE s = p /\ o = p BY <2>1, <1>2 DEF Rewrites
        <2>2. CASE s \in Sources(x)
            <3>1. PICK q \in DOMAIN x.rows : SourceOf(x, q) = s BY <2>2 DEF Sources
            <3>2. s \in DOMAIN x.rows /\ SourceOf(x, s) = s BY <3>1 DEF GoodRows
            <3> QED BY <3>2, <1>3 DEF Rewrites
        <2>3. CASE o \in DOMAIN x.rows /\ SourceOf(x, o) = s
            <3>1. s \in DOMAIN x.rows /\ SourceOf(x, s) = s BY <2>3 DEF GoodRows
            <3> QED BY <3>1, <1>3 DEF Rewrites
        <2> QED BY <2>1, <2>2, <2>3 DEF Written
    <1>5. ASSUME NEW q \in DOMAIN y.rows
          PROVE  /\ {q, SourceOf(y, q), y.rows[q].packet} \subseteq Events
                 /\ Of[y.rows[q].packet].bot = Of[q].bot
                 /\ Fingerprint(SourceOf(y, q)) = Fingerprint(q)
                 /\ \/ y.rows[q].packet = q
                    \/ Current(y, q).live /\ ~Of[q].live
                 /\ SourceOf(y, q) \in DOMAIN y.rows
                 /\ SourceOf(y, SourceOf(y, q)) = SourceOf(y, q)
                 /\ SourceOf(y, q) = q \/ Fingerprint(q) # Null
        <2>1. CASE q = o
            <3>1. o = p \/ (Of[p].live /\ ~Of[o].live) BY DEF Written
            <3>2. s = o \/ Fingerprint(o) # Null BY DEF Written, GoodRows
            <3> QED BY <2>1, <1>2, <1>4, <3>1, <3>2
        <2>2. CASE q # o
            <3>1. q \in DOMAIN x.rows /\ y.rows[q] = x.rows[q] BY <2>2 DEF Rewrites
            <3>2. SourceOf(x, q) \in DOMAIN x.rows BY <3>1 DEF GoodRows
            <3>3. SourceOf(y, SourceOf(x, q)) = SourceOf(x, SourceOf(x, q)) BY <3>2, <1>3
            <3>4. SourceOf(y, q) = SourceOf(x, q) /\ Current(y, q) = Current(x, q) BY <3>1, <2>2, <1>1
            <3>5. DOMAIN x.rows \subseteq DOMAIN y.rows BY DEF Rewrites
            <3> QED BY <3>1, <3>2, <3>3, <3>4, <3>5 DEF GoodRows
        <2> QED BY <2>1, <2>2
    <1> QED BY <1>5 DEF GoodRows

\* ... and no key twice.
LEMMA WrittenKeys ==
    ASSUME NEW x, NEW y, NEW o \in Events, NEW s \in Events, NEW p \in Events,
           GoodRows(x), KeysApart(x), Rewrites(x, y, o, s, p), Written(x, o, s, p),
           Of[o].bot = Of[p].bot, SameIdentity(x, p) = {}
    PROVE  KeysApart(y)
    <1>1. \A q \in DOMAIN x.rows : q # o => Current(y, q) = Current(x, q)
        BY DEF Rewrites, Current
    <1>2. Current(y, o) = Of[p] BY DEF Rewrites, Current
    <1>3. DOMAIN y.rows = DOMAIN x.rows \cup {o} BY DEF Rewrites
    <1>4. ASSUME NEW q \in DOMAIN x.rows, Of[q].bot = Of[o].bot
          PROVE  Of[p].key \notin {Of[q].key, Current(x, q).key}
        BY <1>4 DEF SameIdentity, SeenBy
    <1>5. ASSUME NEW q \in DOMAIN x.rows, q # o, Of[q].bot = Of[o].bot
          PROVE  {Of[o].key, Of[p].key} \cap {Of[q].key, Current(x, q).key} = {}
        <2>1. CASE o = p BY <2>1, <1>4, <1>5
        <2>2. CASE o \in DOMAIN x.rows BY <2>2, <1>4, <1>5 DEF KeysApart
        <2> QED BY <2>1, <2>2 DEF Written
    <1>6. ASSUME NEW q \in DOMAIN y.rows, NEW v \in DOMAIN y.rows, q # v, Of[q].bot = Of[v].bot
          PROVE  {Of[q].key, Current(y, q).key} \cap {Of[v].key, Current(y, v).key} = {}
        <2>1. CASE q = o BY <2>1, <1>1, <1>2, <1>3, <1>5, <1>6
        <2>2. CASE v = o BY <2>2, <1>1, <1>2, <1>3, <1>5, <1>6
        <2>3. CASE q # o /\ v # o BY <2>3, <1>1, <1>3, <1>6 DEF KeysApart
        <2> QED BY <2>1, <2>2, <2>3
    <1> QED BY <1>6 DEF KeysApart

-------------------------------------------------------------------------------
(* What a commit leaves of what holds of the tables.                       *)

\* A takeover or an insertion is a row written.
LEMMA TakesWritten ==
    ASSUME NEW x, NEW t, NEW r, NEW o, NEW s,
           \/ Adds(x, t, r, s) /\ o = r[1]
           \/ Revives(x, t, r, o, s)
    PROVE  /\ Takes(x, t, r, o, s)
           /\ Written(x, o, s, r[1])
           /\ {o, s, r[1]} \subseteq Events
           /\ Of[o].bot = Of[r[1]].bot /\ Fingerprint(s) = Fingerprint(o)
           /\ SameIdentity(x, r[1]) = {}
           /\ Rewrites(x, Over(t.writes, x), o, s, r[1])
    <1>1. Takes(x, t, r, o, s) BY DEF Adds, Revives
    <1>2. /\ {o, s, r[1]} \subseteq Events
          /\ Of[o].bot = Of[r[1]].bot /\ Fingerprint(s) = Fingerprint(o)
          /\ SameIdentity(x, r[1]) = {}
        BY <1>1 DEF Takes
    <1>3. Written(x, o, s, r[1])
        <2>1. CASE Adds(x, t, r, s) /\ o = r[1]
            <3>1. s = r[1] \/ (s \in Sources(x) /\ Fingerprint(s) # Null) BY <2>1 DEF Adds
            <3> QED BY <2>1, <3>1, <1>2, UnknownIsNew DEF Written
        <2>2. CASE Revives(x, t, r, o, s) BY <2>2 DEF Revives, Written
        <2> QED BY <2>1, <2>2
    <1> QED BY <1>1, <1>2, <1>3, TakesRewrites

\* The references of a bot mean what its own rows and their sources make of them.
SameView(x, y, b) ==
    /\ \A o \in DOMAIN x.rows : Of[o].bot = b => o \in DOMAIN y.rows /\ SourceOf(y, o) = SourceOf(x, o)
    /\ \A o \in DOMAIN y.rows : Of[o].bot = b => o \in DOMAIN x.rows

\* What a reference may mean depends on what its bot has seen.
LEMMA SameTargets ==
    ASSUME NEW x, NEW y, NEW p, SameView(x, y, Of[p].bot), NEW upto
    PROVE  Targets(y, p, upto) = Targets(x, p, upto)
    BY DEF Targets, SeenBy, SameView

\* So does whether it has met its target.
LEMMA SameMeeting ==
    ASSUME NEW x, NEW y, NEW p \in DOMAIN x.rows, SameView(x, y, Of[p].bot),
           x.refs[p] = y.refs[p], RefMet(x, p)
    PROVE  RefMet(y, p)
    <1>1. SourceOf(y, p) = SourceOf(x, p) BY DEF SameView
    <1>2. PICK upto : upto = Earlier(Of[p].at, Of[SourceOf(x, p)].at) OBVIOUS
    <1>3. Targets(y, p, upto) = Targets(x, p, upto) BY SameTargets
    <1> QED BY <1>1, <1>2, <1>3 DEF RefMet

\* Rows are added and keep their source.
Grows(x, y) ==
    /\ DOMAIN x.rows \subseteq DOMAIN y.rows
    /\ \A o \in DOMAIN x.rows : SourceOf(y, o) = SourceOf(x, o)

\* Sources stay.
LEMMA GrowingSources ==
    ASSUME NEW x, NEW y, Grows(x, y)
    PROVE  Sources(x) \subseteq Sources(y)
    BY DEF Grows, Sources

\* References stay good while rows are added.
LEMMA KeptRefs ==
    ASSUME NEW x, NEW y, Grows(x, y), GoodRefs(x), SameTable(x.refs, y.refs)
    PROVE  GoodRefs(y)
    <1>1. Sources(x) \subseteq Sources(y) BY GrowingSources
    <1> QED BY <1>1 DEF GoodRefs, Grows, SameTable

\* The step of a transaction adds rows, and only an insertion adds one to what
\* its bot has.
LEMMA WroteGrows ==
    ASSUME NEW x, NEW t, NEW r, Wrote(x, t, r)
    PROVE  Grows(x, Over(t.writes, x))
    <1>1. PICK y : y = Over(t.writes, x) OBVIOUS
    <1>2. ASSUME NEW o, NEW s, Rewrites(x, y, o, s, r[1]), Written(x, o, s, r[1])
          PROVE  Grows(x, y)
        BY <1>2 DEF Rewrites, Written, Grows, SourceOf
    <1>3. ASSUME Reports(x, t, r) PROVE Grows(x, y)
        BY <1>1, <1>3, ReportsKeep DEF SameTable, Grows, SourceOf
    <1>4. ASSUME NEW s, Adds(x, t, r, s) PROVE Grows(x, y)
        BY <1>1, <1>2, <1>4, TakesWritten
    <1>5. ASSUME NEW o, NEW s, Revives(x, t, r, o, s) PROVE Grows(x, y)
        BY <1>1, <1>2, <1>5, TakesWritten
    <1> QED BY <1>1, <1>3, <1>4, <1>5 DEF Wrote

\* An insertion shows to its own bot only, ...
LEMMA AddsView ==
    ASSUME NEW x, NEW t, NEW r, NEW s, Adds(x, t, r, s), NEW b, b # Of[r[1]].bot
    PROVE  SameView(x, Over(t.writes, x), b)
    <1>1. PICK y : y = Over(t.writes, x) OBVIOUS
    <1>2. Rewrites(x, y, r[1], s, r[1]) BY <1>1, TakesWritten
    <1> QED BY <1>1, <1>2 DEF Rewrites, SameView, SourceOf

\* ... a takeover to nobody, ...
LEMMA RevivesView ==
    ASSUME NEW x, NEW t, NEW r, NEW o, NEW s, Revives(x, t, r, o, s), NEW b
    PROVE  /\ SameView(x, Over(t.writes, x), b)
           /\ DOMAIN Over(t.writes, x).rows = DOMAIN x.rows
           /\ SameTable(x.refs, Over(t.writes, x).refs)
    <1>1. PICK y : y = Over(t.writes, x) OBVIOUS
    <1>2. Rewrites(x, y, o, s, r[1]) BY <1>1, TakesWritten
    <1>3. o \in DOMAIN x.rows /\ SourceOf(x, o) = s /\ DOMAIN t.writes.refs = {} BY DEF Revives
    <1>4. SameView(x, y, b) /\ DOMAIN y.rows = DOMAIN x.rows
        BY <1>2, <1>3 DEF Rewrites, SameView, SourceOf
    <1>5. y.refs = Upon(t.writes.refs, x.refs) BY <1>1, OverFields
    <1>6. SameTable(x.refs, y.refs) BY <1>3, <1>5 DEF SameTable, Upon
    <1> QED BY <1>1, <1>4, <1>6

\* ... and a report neither.
LEMMA ReportsView ==
    ASSUME NEW x, NEW t, NEW r, Reports(x, t, r), NEW b
    PROVE  /\ SameView(x, Over(t.writes, x), b)
           /\ DOMAIN Over(t.writes, x).rows = DOMAIN x.rows
           /\ SameTable(x.refs, Over(t.writes, x).refs)
    BY ReportsKeep DEF SameTable, SameView, SourceOf

\* The references after a commit.
LEMMA CommitRefs ==
    ASSUME NEW x, NEW t, NEW r, GoodDb(x), Wrote(x, t, r)
    PROVE  LET y == Over(t.writes, x)
           IN  GoodRefs(y) /\ \A p \in DOMAIN y.refs : RefMet(y, p)
    <1>1. PICK y : y = Over(t.writes, x) OBVIOUS
    <1>2. Grows(x, y) BY <1>1, WroteGrows
    <1>3. GoodRefs(x) /\ \A p \in DOMAIN x.refs : RefMet(x, p) BY DEF GoodDb
    <1>4. \A p \in DOMAIN x.refs : p \in DOMAIN x.rows BY <1>3 DEF GoodRefs
    <1>5. ASSUME SameTable(x.refs, y.refs), \A b : SameView(x, y, b)
          PROVE  GoodRefs(y) /\ \A p \in DOMAIN y.refs : RefMet(y, p)
        <2>1. GoodRefs(y) BY <1>2, <1>3, <1>5, KeptRefs
        <2>2. ASSUME NEW p \in DOMAIN y.refs PROVE RefMet(y, p)
            <3>1. p \in DOMAIN x.refs /\ x.refs[p] = y.refs[p] BY <1>5 DEF SameTable
            <3> QED BY <3>1, <1>3, <1>4, <1>5, SameMeeting
        <2> QED BY <2>1, <2>2
    <1>6. ASSUME NEW s, Adds(x, t, r, s)
          PROVE  GoodRefs(y) /\ \A p \in DOMAIN y.refs : RefMet(y, p)
        <2>1. /\ GoodRefs(y)
              /\ \A p \in DOMAIN y.refs : Of[p].bot = Of[r[1]].bot => RefMet(y, p)
              /\ \A p \in DOMAIN t.writes.refs : Of[p].bot = Of[r[1]].bot
            BY <1>1, <1>6 DEF Adds
        <2>2. y.refs = Upon(t.writes.refs, x.refs) BY <1>1, OverFields
        <2>3. ASSUME NEW p \in DOMAIN y.refs, Of[p].bot # Of[r[1]].bot PROVE RefMet(y, p)
            <3>1. p \in DOMAIN x.refs /\ x.refs[p] = y.refs[p] BY <2>1, <2>2, <2>3 DEF Upon
            <3>2. SameView(x, y, Of[p].bot) BY <1>1, <1>6, <2>3, AddsView
            <3> QED BY <3>1, <3>2, <1>3, <1>4, SameMeeting
        <2> QED BY <2>1, <2>3
    <1>7. ASSUME NEW o, NEW s, Revives(x, t, r, o, s)
          PROVE  GoodRefs(y) /\ \A p \in DOMAIN y.refs : RefMet(y, p)
        <2>1. SameTable(x.refs, y.refs) /\ \A b : SameView(x, y, b) BY <1>1, <1>7, RevivesView
        <2> QED BY <2>1, <1>5
    <1>8. ASSUME Reports(x, t, r)
          PROVE  GoodRefs(y) /\ \A p \in DOMAIN y.refs : RefMet(y, p)
        <2>1. SameTable(x.refs, y.refs) /\ \A b : SameView(x, y, b) BY <1>1, <1>8, ReportsView
        <2> QED BY <2>1, <1>5
    <1> QED BY <1>1, <1>6, <1>7, <1>8 DEF Wrote

\* Reports that wait for p are not those that wait for a stored observation.
LEMMA UnknownTriggers ==
    ASSUME NEW x, NEW p, SameIdentity(x, p) = {}, NEW o \in DOMAIN x.rows, NEW a,
           Triggered(a, p)
    PROVE  ~Triggered(a, o)
    BY DEF SameIdentity, SeenBy, Triggered

\* A commit leaves the reports with the sources of their triggers.
LEMMA CommitAnswers ==
    ASSUME NEW x, NEW t, NEW r, GoodDb(x), Wrote(x, t, r)
    PROVE  AnswersMet(Over(t.writes, x)) /\ DOMAIN Over(t.writes, x).answers \subseteq Answers
    <1>1. PICK y : y = Over(t.writes, x) OBVIOUS
    <1>2. y.answers = Upon(t.writes.answers, x.answers) BY <1>1, OverFields
    <1>3. AnswersMet(x) /\ DOMAIN x.answers \subseteq Answers BY DEF GoodDb
    <1>4. ASSUME NEW o, NEW s, Takes(x, t, r, o, s), Rewrites(x, y, o, s, r[1]),
                 o = r[1] => Caused(x, r[1]) \subseteq DOMAIN t.writes.answers
          PROVE  AnswersMet(y) /\ DOMAIN y.answers \subseteq Answers
        <2>1. /\ DOMAIN t.writes.answers \subseteq Caused(x, r[1])
              /\ \A a \in DOMAIN t.writes.answers : t.writes.answers[a] = s
              /\ SameIdentity(x, r[1]) = {}
            BY <1>4 DEF Takes
        <2>2. \A a : a \in Caused(x, r[1]) <=> a \in DOMAIN x.answers /\ Triggered(a, r[1])
            BY DEF Caused, Triggered
        <2>3. DOMAIN y.answers = DOMAIN x.answers BY <1>2, <2>1, <2>2 DEF Upon
        <2>4. ASSUME NEW a \in DOMAIN y.answers, NEW q \in DOMAIN y.rows,
                     Triggered(a, q), y.rows[q].packet = q
              PROVE  y.answers[a] = SourceOf(y, q)
            <3>1. CASE q = o
                <4>1. o = r[1] BY <3>1, <1>4, <2>4 DEF Rewrites
                <4>2. a \in DOMAIN t.writes.answers BY <4>1, <3>1, <1>4, <2>2, <2>3, <2>4
                <4>3. y.answers[a] = s BY <4>2, <1>2, <2>1 DEF Upon
                <4> QED BY <4>3, <3>1, <1>4 DEF Rewrites, SourceOf
            <3>2. CASE q # o
                <4>1. q \in DOMAIN x.rows /\ y.rows[q] = x.rows[q] BY <3>2, <1>4 DEF Rewrites
                <4>2. a \notin DOMAIN t.writes.answers BY <4>1, <2>1, <2>2, <2>4, UnknownTriggers
                <4>3. y.answers[a] = x.answers[a] BY <4>2, <1>2, <2>3 DEF Upon
                <4>4. x.answers[a] = SourceOf(x, q) BY <4>1, <2>3, <2>4, <1>3 DEF AnswersMet
                <4> QED BY <4>1, <4>3, <4>4 DEF SourceOf
            <3> QED BY <3>1, <3>2
        <2> QED BY <2>3, <2>4, <1>3 DEF AnswersMet
    <1>5. ASSUME NEW s, Adds(x, t, r, s) PROVE AnswersMet(y) /\ DOMAIN y.answers \subseteq Answers
        <2>1. Takes(x, t, r, r[1], s) /\ Rewrites(x, y, r[1], s, r[1]) BY <1>1, <1>5, TakesWritten
        <2>2. Caused(x, r[1]) \subseteq DOMAIN t.writes.answers BY <1>5 DEF Adds
        <2> QED BY <2>1, <2>2, <1>4
    <1>6. ASSUME NEW o, NEW s, Revives(x, t, r, o, s) PROVE AnswersMet(y) /\ DOMAIN y.answers \subseteq Answers
        <2>1. Takes(x, t, r, o, s) /\ Rewrites(x, y, o, s, r[1]) BY <1>1, <1>6, TakesWritten
        <2>2. o # r[1] BY <1>6 DEF Revives
        <2> QED BY <2>1, <2>2, <1>4
    <1>7. ASSUME Reports(x, t, r) PROVE AnswersMet(y) /\ DOMAIN y.answers \subseteq Answers
        <2>1. SameTable(x.rows, y.rows) BY <1>1, <1>7, ReportsKeep
        <2>2. /\ r[1] \in Answers /\ DOMAIN t.writes.answers = {r[1]}
              /\ \A o \in DOMAIN x.rows :
                   (Triggered(r[1], o) /\ x.rows[o].packet = o) => t.writes.answers[r[1]] = SourceOf(x, o)
            BY <1>7 DEF Reports
        <2>3. /\ DOMAIN y.answers = {r[1]} \cup DOMAIN x.answers
              /\ y.answers[r[1]] = t.writes.answers[r[1]]
              /\ \A a \in DOMAIN x.answers : a # r[1] => y.answers[a] = x.answers[a]
            BY <1>2, <2>2 DEF Upon
        <2>4. \A o \in DOMAIN y.rows : o \in DOMAIN x.rows /\ SourceOf(y, o) = SourceOf(x, o) /\ y.rows[o] = x.rows[o]
            BY <2>1 DEF SameTable, SourceOf
        <2>5. ASSUME NEW a \in DOMAIN y.answers, NEW o \in DOMAIN y.rows,
                     Triggered(a, o), y.rows[o].packet = o
              PROVE  y.answers[a] = SourceOf(y, o)
            <3>1. CASE a = r[1] BY <3>1, <2>2, <2>3, <2>4, <2>5
            <3>2. CASE a # r[1] BY <3>2, <2>3, <2>4, <2>5, <1>3 DEF AnswersMet
            <3> QED BY <3>1, <3>2
        <2> QED BY <2>2, <2>3, <2>5, <1>3 DEF AnswersMet
    <1> QED BY <1>1, <1>5, <1>6, <1>7 DEF Wrote

\* What a transaction commits keeps all of it.
LEMMA CommitRows ==
    ASSUME NEW x, NEW t, NEW r, GoodRows(x), KeysApart(x), Wrote(x, t, r)
    PROVE  GoodRows(Over(t.writes, x)) /\ KeysApart(Over(t.writes, x))
    <1>1. PICK y : y = Over(t.writes, x) OBVIOUS
    <1>2. ASSUME NEW o, NEW s,
                 \/ Adds(x, t, r, s) /\ o = r[1]
                 \/ Revives(x, t, r, o, s)
          PROVE  GoodRows(y) /\ KeysApart(y)
        <2>1. Takes(x, t, r, o, s) /\ Written(x, o, s, r[1]) BY <1>2, TakesWritten
        <2>2. PICK p : p = r[1] OBVIOUS
        <2>3. Rewrites(x, y, o, s, p) BY <1>1, <2>1, <2>2, TakesRewrites
        <2>4. /\ Written(x, o, s, p) /\ {o, s, p} \subseteq Events
              /\ Of[o].bot = Of[p].bot /\ Fingerprint(s) = Fingerprint(o)
              /\ SameIdentity(x, p) = {}
            BY <2>1, <2>2 DEF Takes
        <2>5. GoodRows(y) BY <2>3, <2>4, WrittenRows
        <2>6. KeysApart(y) BY <2>3, <2>4, WrittenKeys
        <2> QED BY <2>5, <2>6
    <1>3. ASSUME Reports(x, t, r) PROVE GoodRows(y) /\ KeysApart(y)
        <2>1. SameTable(x.rows, y.rows) BY <1>1, <1>3, ReportsKeep
        <2>2. \A o \in DOMAIN y.rows : SourceOf(y, o) = SourceOf(x, o) /\ Current(y, o) = Current(x, o)
            BY <2>1 DEF SameTable, SourceOf, Current
        <2>3. DOMAIN y.rows = DOMAIN x.rows /\ \A o \in DOMAIN x.rows : y.rows[o] = x.rows[o]
            BY <2>1 DEF SameTable
        <2>4. GoodRows(y) BY <2>2, <2>3 DEF GoodRows
        <2>5. KeysApart(y) BY <2>2, <2>3 DEF KeysApart
        <2> QED BY <2>4, <2>5
    <1> QED BY <1>1, <1>2, <1>3 DEF Wrote

\* A commit leaves good tables.
LEMMA CommitGood ==
    ASSUME NEW x, NEW t, NEW r, GoodDb(x), Wrote(x, t, r)
    PROVE  GoodDb(Over(t.writes, x))
    <1>1. GoodRows(x) /\ KeysApart(x) BY DEF GoodDb
    <1> QED BY <1>1, CommitRows, CommitRefs, CommitAnswers DEF GoodDb

-------------------------------------------------------------------------------
(* What a commit leaves of what another transaction knows.                 *)

\* The commit of a transaction writes one row, of a message it holds, or none.
Effect(x, y, t) ==
    \/ SameTable(x.rows, y.rows)
    \/ \E o, s, p :
        /\ Rewrites(x, y, o, s, p)
        /\ MessageLocks(o) = MessageLocks(p) /\ MessageLocks(p) \subseteq t.locks
        /\ KeyLocks(p) \subseteq t.locks /\ Of[o].bot = Of[p].bot
        /\ IF o \in DOMAIN x.rows
           THEN x.rows[o].packet = o /\ o # p /\ SourceOf(x, o) = s
           ELSE o = p

\* What a commit does to the rows, it does under its locks.
LEMMA WroteEffect ==
    ASSUME NEW x, NEW t, NEW r, Wrote(x, t, r)
    PROVE  Effect(x, Over(t.writes, x), t)
    <1>1. PICK y : y = Over(t.writes, x) OBVIOUS
    <1>2. ASSUME NEW s, Adds(x, t, r, s) PROVE Effect(x, y, t)
        <2>1. /\ Takes(x, t, r, r[1], s) /\ Rewrites(x, y, r[1], s, r[1])
              /\ SameIdentity(x, r[1]) = {}
            BY <1>1, <1>2, TakesWritten
        <2>2. r[1] \notin DOMAIN x.rows BY <2>1, UnknownIsNew
        <2> QED BY <2>1, <2>2 DEF Takes, Effect
    <1>3. ASSUME NEW o, NEW s, Revives(x, t, r, o, s) PROVE Effect(x, y, t)
        <2>1. Takes(x, t, r, o, s) /\ Rewrites(x, y, o, s, r[1]) BY <1>1, <1>3, TakesWritten
        <2>2. x.rows[o].packet = o /\ o # r[1] /\ SourceOf(x, o) = s /\ o \in DOMAIN x.rows
            BY <1>3 DEF Revives
        <2> QED BY <2>1, <2>2 DEF Takes, Effect
    <1>4. ASSUME Reports(x, t, r) PROVE Effect(x, y, t) BY <1>1, <1>4, ReportsKeep DEF Effect
    <1> QED BY <1>1, <1>2, <1>3, <1>4 DEF Wrote

\* An identity that is held stays unknown; ...
LEMMA UnknownStays ==
    ASSUME NEW x, NEW y, NEW t, NEW u, t.locks \cap u.locks = {}, Effect(x, y, t),
           NEW p, KeyLocks(p) \subseteq u.locks, SameIdentity(x, p) = {}
    PROVE  SameIdentity(y, p) = {}
    <1>1. ASSUME SameTable(x.rows, y.rows) PROVE SameIdentity(y, p) = {}
        BY <1>1 DEF SameTable, SameIdentity, SeenBy, Current
    <1>2. ASSUME NEW o, NEW s, NEW v, Rewrites(x, y, o, s, v), KeyLocks(v) \subseteq t.locks,
                 Of[o].bot = Of[v].bot, o \notin DOMAIN x.rows => o = v,
                 NEW q \in SameIdentity(y, p)
          PROVE  FALSE
        <2>1. /\ q \in DOMAIN y.rows /\ Of[q].bot = Of[p].bot
              /\ Of[p].key \in {Of[q].key, Current(y, q).key}
            BY <1>2 DEF SameIdentity, SeenBy
        <2>2. CASE q = o
            <3>1. Current(y, o) = Of[v] BY <1>2 DEF Rewrites, Current
            <3>2. Of[v].key # Of[p].key BY <2>1, <2>2, <1>2, KeysDiffer
            <3>3. o \in DOMAIN x.rows /\ Of[o].key = Of[p].key BY <2>1, <2>2, <3>1, <3>2, <1>2
            <3> QED BY <2>1, <2>2, <3>3 DEF SameIdentity, SeenBy
        <2>3. CASE q # o
            <3>1. q \in DOMAIN x.rows /\ Current(y, q) = Current(x, q)
                BY <2>1, <2>3, <1>2 DEF Rewrites, Current
            <3> QED BY <2>1, <3>1 DEF SameIdentity, SeenBy
        <2> QED BY <2>2, <2>3
    <1> QED BY <1>1, <1>2 DEF Effect

\* ... one that is known stays known; ...
LEMMA KnownStays ==
    ASSUME NEW x, NEW y, NEW t, Effect(x, y, t), NEW p, SameIdentity(y, p) = {}
    PROVE  SameIdentity(x, p) = {}
    <1>1. ASSUME SameTable(x.rows, y.rows) PROVE SameIdentity(x, p) = {}
        BY <1>1 DEF SameTable, SameIdentity, SeenBy, Current
    <1>2. ASSUME NEW o, NEW s, NEW v, Rewrites(x, y, o, s, v),
                 o \in DOMAIN x.rows => x.rows[o].packet = o,
                 NEW q \in SameIdentity(x, p)
          PROVE  FALSE
        <2>1. /\ q \in DOMAIN x.rows /\ Of[q].bot = Of[p].bot
              /\ Of[p].key \in {Of[q].key, Current(x, q).key}
            BY <1>2 DEF SameIdentity, SeenBy
        <2>2. q \in DOMAIN y.rows BY <2>1, <1>2 DEF Rewrites
        <2>3. Of[p].key \in {Of[q].key, Current(y, q).key}
            BY <2>1, <1>2 DEF Rewrites, Current
        <2> QED BY <2>1, <2>2, <2>3 DEF SameIdentity, SeenBy
    <1> QED BY <1>1, <1>2 DEF Effect

\* ... and what is stored of a message that is held stays as it is.
KinKept(x, y, p) ==
    /\ SameNative(y, p) = SameNative(x, p) /\ SameStrong(y, p) = SameStrong(x, p)
    /\ \A o \in SameNative(x, p) \cup SameStrong(x, p) :
          SourceOf(y, o) = SourceOf(x, o) /\ Current(y, o) = Current(x, o)

\* Who holds the lock of a message has the kin of its packet to itself.
LEMMA HeldKinKept ==
    ASSUME NEW x, NEW y, NEW t, NEW u, t.locks \cap u.locks = {}, Effect(x, y, t),
           GoodRows(x), GoodRows(y), NEW p, MessageLocks(p) \subseteq u.locks
    PROVE  KinKept(x, y, p)
    <1>1. ASSUME SameTable(x.rows, y.rows) PROVE KinKept(x, y, p)
        <2>1. /\ DOMAIN y.rows = DOMAIN x.rows
              /\ \A o \in DOMAIN x.rows : SourceOf(y, o) = SourceOf(x, o) /\ Current(y, o) = Current(x, o)
            BY <1>1 DEF SameTable, SourceOf, Current
        <2> QED BY <2>1 DEF KinKept, SameNative, SameStrong, SeenBy
    <1>2. ASSUME NEW o, NEW s, NEW v, Rewrites(x, y, o, s, v),
                 MessageLocks(o) = MessageLocks(v), MessageLocks(v) \subseteq t.locks
          PROVE  KinKept(x, y, p)
        <2>1. \A q : Kin(x, q, p) \/ Kin(y, q, p) => q # o
            BY <1>2, MessagesDiffer DEF Kin
        <2>2. \A q \in SameNative(x, p) \cup SameStrong(x, p) : q # o /\ q \in DOMAIN x.rows
            BY <2>1, NativeKin, StrongKin DEF Kin
        <2>3. \A q \in SameNative(y, p) \cup SameStrong(y, p) : q # o
            BY <2>1, NativeKin, StrongKin
        <2>4. /\ \A q \in DOMAIN x.rows : q \in DOMAIN y.rows
              /\ \A q \in DOMAIN y.rows : q # o => q \in DOMAIN x.rows
              /\ \A q \in DOMAIN x.rows : q # o => SourceOf(y, q) = SourceOf(x, q) /\ Current(y, q) = Current(x, q)
            BY <1>2 DEF Rewrites, SourceOf, Current
        <2>5. \A q : q # o => (q \in SameNative(x, p) <=> q \in SameNative(y, p))
            BY <2>4 DEF SameNative, SeenBy
        <2>6. \A q : q # o => (q \in SameStrong(x, p) <=> q \in SameStrong(y, p))
            BY <2>4 DEF SameStrong, SeenBy
        <2>7. SameNative(y, p) = SameNative(x, p)
            <3>1. \A q : q \in SameNative(x, p) <=> q \in SameNative(y, p) BY <2>2, <2>3, <2>5
            <3> QED BY <3>1
        <2>8. SameStrong(y, p) = SameStrong(x, p)
            <3>1. \A q : q \in SameStrong(x, p) <=> q \in SameStrong(y, p) BY <2>2, <2>3, <2>6
            <3> QED BY <3>1
        <2> QED BY <2>2, <2>4, <2>7, <2>8 DEF KinKept
    <1> QED BY <1>1, <1>2 DEF Effect

\* A message looked for and not found stays unknown, ...
LEMMA FreshStays ==
    ASSUME NEW x, NEW y, NEW p, KinKept(x, y, p), Unknown(x, p)
    PROVE  Unknown(y, p)
    BY DEF KinKept, Unknown

\* ... and one found in the history stays there, while the lock is held.
LEMMA FoundStays ==
    ASSUME NEW x, NEW y, NEW t, Effect(x, y, t), NEW p, KinKept(x, y, p), Found(x, p)
    PROVE  Found(y, p)
    <1>1. SUFFICES ASSUME SameIdentity(y, p) = {}
                   PROVE  /\ Existing(y, p) # {}
                          /\ \A o \in Existing(y, p) : ~Conflicts(y, o, p) /\ ~Current(y, o).live
        BY DEF Found
    <1>2. SameIdentity(x, p) = {} BY <1>1, KnownStays
    <1>3. Existing(y, p) = Existing(x, p) /\ Existing(x, p) \subseteq SameNative(x, p) \cup SameStrong(x, p)
        BY <1>1, <1>2 DEF Existing, KinKept
    <1>4. \A o \in Existing(x, p) : SourceOf(y, o) = SourceOf(x, o) /\ Current(y, o) = Current(x, o)
        BY <1>3 DEF KinKept
    <1>5. /\ Existing(x, p) # {}
          /\ \A o \in Existing(x, p) : ~Conflicts(x, o, p) /\ ~Current(x, o).live
        BY <1>2 DEF Found
    <1>6. \A o \in Existing(x, p) : ~Conflicts(y, o, p) BY <1>4, <1>5 DEF Conflicts
    <1> QED BY <1>3, <1>4, <1>5, <1>6

\* What the row of a bot holds back: its observations and their sources, its
\* references, and its reports.
BotKept(x, y, b) ==
    /\ SameView(x, y, b)
    /\ \A p \in DOMAIN y.refs : Of[p].bot = b => p \in DOMAIN x.refs /\ y.refs[p] = x.refs[p]
    /\ DOMAIN x.refs \subseteq DOMAIN y.refs
    /\ \A a \in DOMAIN y.answers : Of[a].bot = b => a \in DOMAIN x.answers
    /\ DOMAIN x.answers \subseteq DOMAIN y.answers

\* Who holds the row of a bot has the bot's rows and references to itself.
LEMMA HeldBotKept ==
    ASSUME NEW x, NEW t, NEW r, Wrote(x, t, r), NEW u, t.locks \cap u.locks = {},
           NEW b, BotLocks(b) \subseteq u.locks
    PROVE  BotKept(x, Over(t.writes, x), b)
    <1>1. PICK y : y = Over(t.writes, x) OBVIOUS
    <1>2. y.refs = Upon(t.writes.refs, x.refs) /\ y.answers = Upon(t.writes.answers, x.answers)
        BY <1>1, OverFields
    <1>3. DOMAIN x.refs \subseteq DOMAIN y.refs /\ DOMAIN x.answers \subseteq DOMAIN y.answers
        BY <1>2 DEF Upon
    <1>4. ASSUME NEW s, Adds(x, t, r, s) PROVE BotKept(x, y, b)
        <2>1. b # Of[r[1]].bot BY <1>4, BotsDiffer DEF Adds
        <2>2. SameView(x, y, b) BY <1>1, <1>4, <2>1, AddsView
        <2>3. \A p \in DOMAIN t.writes.refs : Of[p].bot # b BY <1>4, <2>1 DEF Adds
        <2>4. DOMAIN t.writes.answers \subseteq DOMAIN x.answers BY <1>4 DEF Adds, Takes, Caused
        <2>5. \A p \in DOMAIN y.refs : Of[p].bot = b => p \in DOMAIN x.refs /\ y.refs[p] = x.refs[p]
            BY <1>2, <2>3 DEF Upon
        <2>6. DOMAIN y.answers \subseteq DOMAIN x.answers BY <1>2, <2>4 DEF Upon
        <2> QED BY <1>3, <2>2, <2>5, <2>6 DEF BotKept
    <1>5. ASSUME NEW o, NEW s, Revives(x, t, r, o, s) PROVE BotKept(x, y, b)
        <2>1. SameView(x, y, b) /\ SameTable(x.refs, y.refs) BY <1>1, <1>5, RevivesView
        <2>2. DOMAIN t.writes.answers \subseteq DOMAIN x.answers BY <1>5 DEF Revives, Takes, Caused
        <2>3. DOMAIN y.answers \subseteq DOMAIN x.answers BY <1>2, <2>2 DEF Upon
        <2> QED BY <1>3, <2>1, <2>3 DEF BotKept, SameTable
    <1>6. ASSUME Reports(x, t, r) PROVE BotKept(x, y, b)
        <2>1. SameView(x, y, b) /\ SameTable(x.refs, y.refs) BY <1>1, <1>6, ReportsView
        <2>2. b # Of[r[1]].bot BY <1>6, BotsDiffer DEF Reports
        <2>3. DOMAIN t.writes.answers = {r[1]} BY <1>6 DEF Reports
        <2>4. \A a \in DOMAIN y.answers : Of[a].bot = b => a \in DOMAIN x.answers
            BY <1>2, <2>2, <2>3 DEF Upon
        <2> QED BY <1>3, <2>1, <2>4 DEF BotKept, SameTable
    <1> QED BY <1>1, <1>4, <1>5, <1>6 DEF Wrote

\* Reports stay.
LEMMA AnswersGrow ==
    ASSUME NEW w, NEW x
    PROVE  DOMAIN x.answers \subseteq DOMAIN Over(w, x).answers
    <1>1. PICK y : y = Over(w, x) OBVIOUS
    <1>2. y.answers = Upon(w.answers, x.answers) BY <1>1, OverFields
    <1> QED BY <1>1, <1>2 DEF Upon

\* What a transaction has written stays right when another commits: the row, ...
LEMMA TakesStays ==
    ASSUME NEW x, NEW y, NEW t, NEW u, t.locks \cap u.locks = {}, Effect(x, y, t),
           DOMAIN x.answers \subseteq DOMAIN y.answers,
           NEW q, NEW o, NEW s, Takes(x, u, q, o, s)
    PROVE  Takes(y, u, q, o, s)
    <1>1. KeyLocks(q[1]) \subseteq u.locks /\ SameIdentity(x, q[1]) = {} BY DEF Takes
    <1>2. PICK p : p = q[1] OBVIOUS
    <1>3. SameIdentity(y, p) = {} BY <1>1, <1>2, UnknownStays
    <1>4. Caused(x, p) \subseteq Caused(y, p) BY DEF Caused
    <1> QED BY <1>2, <1>3, <1>4 DEF Takes

\* The tables seen by an insertion after another transaction's commit.
LEMMA SeenAddsStays ==
    ASSUME NEW x, NEW y, NEW w, NEW p, NEW s, NEW b,
           BotKept(x, y, b), Grows(x, y), GoodRefs(y), p \notin DOMAIN y.rows,
           NEW v, v = Over(w, x), NEW z, z = Over(w, y),
           Rewrites(x, v, p, s, p), Rewrites(y, z, p, s, p),
           \A q \in DOMAIN w.refs : Of[q].bot = b,
           GoodRefs(v), \A q \in DOMAIN v.refs : Of[q].bot = b => RefMet(v, q)
    PROVE  GoodRefs(z) /\ \A q \in DOMAIN z.refs : Of[q].bot = b => RefMet(z, q)
    <1>1. v.refs = Upon(w.refs, x.refs) /\ z.refs = Upon(w.refs, y.refs) BY OverFields
    <1>2. Grows(v, z) /\ Grows(y, z) BY DEF Rewrites, Grows, SourceOf
    <1>3. Sources(v) \subseteq Sources(z) /\ Sources(y) \subseteq Sources(z) BY <1>2, GrowingSources
    <1>4. SameView(v, z, b) BY DEF BotKept, SameView, Rewrites, SourceOf
    <1>5. ASSUME NEW q \in DOMAIN z.refs
          PROVE  /\ q \in DOMAIN z.rows /\ Of[q].ref # Null
                 /\ z.refs[q].status \in Statuses
                 /\ IF z.refs[q].status = "resolved" THEN z.refs[q].to \in Sources(z)
                    ELSE z.refs[q].to = Null
        <2>1. CASE q \in DOMAIN w.refs
            <3>1. q \in DOMAIN v.refs /\ z.refs[q] = v.refs[q] BY <2>1, <1>1 DEF Upon
            <3> QED BY <3>1, <1>2, <1>3 DEF GoodRefs, Grows
        <2>2. CASE q \notin DOMAIN w.refs
            <3>1. q \in DOMAIN y.refs /\ z.refs[q] = y.refs[q] BY <2>2, <1>1 DEF Upon
            <3> QED BY <3>1, <1>2, <1>3 DEF GoodRefs, Grows
        <2> QED BY <2>1, <2>2
    <1>6. ASSUME NEW q \in DOMAIN z.refs, Of[q].bot = b PROVE RefMet(z, q)
        <2>1. q \in DOMAIN v.refs /\ v.refs[q] = z.refs[q] BY <1>1, <1>6 DEF Upon, BotKept
        <2>2. q \in DOMAIN v.rows BY <2>1 DEF GoodRefs
        <2> QED BY <2>1, <2>2, <1>4, <1>6, SameMeeting
    <1>7. GoodRefs(z) BY <1>5 DEF GoodRefs
    <1> QED BY <1>6, <1>7

\* ... the whole insertion, ...
LEMMA AddsStays ==
    ASSUME NEW x, NEW t, NEW r, Wrote(x, t, r), NEW u, t.locks \cap u.locks = {},
           GoodDb(x), NEW q, NEW s, Adds(x, u, q, s)
    PROVE  Adds(Over(t.writes, x), u, q, s)
    <1>1. PICK y : y = Over(t.writes, x) OBVIOUS
    <1>2. PICK p : p = q[1] OBVIOUS
    <1>3. PICK b : b = Of[p].bot OBVIOUS
    <1>4. Effect(x, y, t) /\ Grows(x, y) /\ GoodRows(x) /\ GoodDb(y)
        BY <1>1, WroteEffect, WroteGrows, CommitGood DEF GoodDb
    <1>5. GoodRows(y) /\ GoodRefs(y) BY <1>4 DEF GoodDb
    <1>6. BotLocks(b) \subseteq u.locks BY <1>2, <1>3 DEF Adds
    <1>7. BotKept(x, y, b) BY <1>1, <1>6, HeldBotKept
    <1>8. Takes(x, u, q, p, s) BY <1>2 DEF Adds
    <1>9. Takes(y, u, q, p, s) BY <1>4, <1>7, <1>8, TakesStays DEF BotKept
    <1>10. MessageLocks(p) \subseteq u.locks /\ SameIdentity(y, p) = {} BY <1>2, <1>8, <1>9 DEF Takes
    <1>11. Unknown(y, p)
        <2>1. KinKept(x, y, p) BY <1>4, <1>5, <1>10, HeldKinKept
        <2>2. Unknown(x, p) BY <1>2 DEF Adds
        <2> QED BY <2>1, <2>2, FreshStays
    <1>12. s = p \/ (s \in Sources(y) /\ Fingerprint(s) # Null /\ OthersSee(y, s, b))
        <2>1. s = p \/ (s \in Sources(x) /\ Fingerprint(s) # Null /\ OthersSee(x, s, b))
            BY <1>2, <1>3 DEF Adds
        <2>2. Sources(x) \subseteq Sources(y) BY <1>4, GrowingSources
        <2>3. ASSUME OthersSee(x, s, b) PROVE OthersSee(y, s, b)
            BY <1>7, <2>3 DEF OthersSee, ObservationsOf, BotKept, SameView
        <2> QED BY <2>1, <2>2, <2>3
    <1>13. Caused(y, p) \subseteq DOMAIN u.writes.answers
        <2>1. Caused(x, p) \subseteq DOMAIN u.writes.answers BY <1>2 DEF Adds
        <2>2. Caused(y, p) \subseteq Caused(x, p) BY <1>3, <1>7 DEF Caused, BotKept
        <2> QED BY <2>1, <2>2
    <1>14. \A v \in DOMAIN u.writes.refs : Of[v].bot = b BY <1>2, <1>3 DEF Adds
    <1>15. LET z == Over(u.writes, y)
           IN  GoodRefs(z) /\ \A v \in DOMAIN z.refs : Of[v].bot = b => RefMet(z, v)
        <2>1. PICK w : w = u.writes OBVIOUS
        <2>2. PICK c : c = Over(w, x) OBVIOUS
        <2>3. PICK z : z = Over(w, y) OBVIOUS
        <2>4. Rewrites(x, c, p, s, p) /\ Rewrites(y, z, p, s, p)
            BY <1>2, <1>8, <1>9, <2>1, <2>2, <2>3, TakesRewrites
        <2>5. GoodRefs(c) /\ \A v \in DOMAIN c.refs : Of[v].bot = b => RefMet(c, v)
            BY <1>2, <1>3, <2>1, <2>2 DEF Adds
        <2>6. p \notin DOMAIN y.rows BY <1>10, UnknownIsNew
        <2>7. GoodRefs(z) /\ \A v \in DOMAIN z.refs : Of[v].bot = b => RefMet(z, v)
            BY <1>4, <1>5, <1>7, <1>14, <2>1, <2>2, <2>3, <2>4, <2>5, <2>6, SeenAddsStays
        <2> QED BY <2>1, <2>3, <2>7
    <1> QED BY <1>1, <1>2, <1>3, <1>6, <1>9, <1>11, <1>12, <1>13, <1>14, <1>15 DEF Adds

\* ... the takeover, ...
LEMMA RevivesStays ==
    ASSUME NEW x, NEW t, NEW r, Wrote(x, t, r), NEW u, t.locks \cap u.locks = {},
           NEW q, NEW o, NEW s, Revives(x, u, q, o, s)
    PROVE  Revives(Over(t.writes, x), u, q, o, s)
    <1>1. PICK y : y = Over(t.writes, x) OBVIOUS
    <1>2. Effect(x, y, t) /\ Grows(x, y) BY <1>1, WroteEffect, WroteGrows
    <1>3. DOMAIN x.answers \subseteq DOMAIN y.answers BY <1>1, AnswersGrow
    <1>4. Takes(y, u, q, o, s) BY <1>2, <1>3, TakesStays DEF Revives
    <1>5. /\ MessageLocks(o) = MessageLocks(q[1]) /\ MessageLocks(q[1]) \subseteq u.locks
          /\ MessageLocks(q[1]) # {}
        BY DEF Revives, Takes
    <1>6. o \in DOMAIN x.rows /\ SourceOf(x, o) = s /\ x.rows[o].packet = o BY DEF Revives
    <1>7. o \in DOMAIN y.rows /\ SourceOf(y, o) = s BY <1>2, <1>6 DEF Grows
    <1>8. y.rows[o].packet = o
        <2>1. CASE SameTable(x.rows, y.rows) BY <2>1, <1>6 DEF SameTable
        <2>2. ASSUME NEW v, NEW c, NEW p, Rewrites(x, y, v, c, p),
                     MessageLocks(v) = MessageLocks(p), MessageLocks(p) \subseteq t.locks
              PROVE  y.rows[o].packet = o
            <3>1. v # o BY <1>5, <2>2
            <3> QED BY <3>1, <1>6, <2>2 DEF Rewrites
        <2> QED BY <2>1, <2>2, <1>2 DEF Effect
    <1> QED BY <1>1, <1>4, <1>7, <1>8 DEF Revives

\* ... and the report.
LEMMA ReportsStays ==
    ASSUME NEW x, NEW t, NEW r, Wrote(x, t, r), NEW u, t.locks \cap u.locks = {},
           NEW q, Reports(x, u, q)
    PROVE  Reports(Over(t.writes, x), u, q)
    <1>1. PICK y : y = Over(t.writes, x) OBVIOUS
    <1>2. PICK a : a = q[1] OBVIOUS
    <1>3. PICK b : b = Of[a].bot OBVIOUS
    <1>4. Effect(x, y, t) BY <1>1, WroteEffect
    <1>5. BotLocks(b) \subseteq u.locks BY <1>2, <1>3 DEF Reports
    <1>6. BotKept(x, y, b) BY <1>1, <1>5, HeldBotKept
    <1>7. /\ a \notin DOMAIN x.answers
          /\ \A o \in DOMAIN x.rows :
               (Triggered(a, o) /\ x.rows[o].packet = o) => u.writes.answers[a] = SourceOf(x, o)
        BY <1>2 DEF Reports
    <1>8. a \notin DOMAIN y.answers BY <1>3, <1>6, <1>7 DEF BotKept
    <1>9. ASSUME NEW o \in DOMAIN y.rows, Triggered(a, o), y.rows[o].packet = o
          PROVE  u.writes.answers[a] = SourceOf(y, o)
        <2>1. Of[o].bot = b BY <1>3, <1>9 DEF Triggered
        <2>2. o \in DOMAIN x.rows /\ SourceOf(y, o) = SourceOf(x, o) BY <2>1, <1>6 DEF BotKept, SameView
        <2>3. x.rows[o].packet = o
            BY <2>2, <1>4, <1>9 DEF Effect, SameTable, Rewrites
        <2> QED BY <2>2, <2>3, <1>7, <1>9
    <1> QED BY <1>1, <1>2, <1>3, <1>5, <1>8, <1>9 DEF Reports

\* Together: what another transaction knows stands after a commit.
LEMMA CommitLeavesOthers ==
    ASSUME NEW x, NEW t, NEW r, Wrote(x, t, r), GoodDb(x),
           NEW u, t.locks \cap u.locks = {}, NEW q, NEW where, Stands(x, u, q, where)
    PROVE  Stands(Over(t.writes, x), u, q, where)
    <1>1. PICK y : y = Over(t.writes, x) OBVIOUS
    <1>2. PICK p : p = q[1] OBVIOUS
    <1>3. Effect(x, y, t) /\ GoodRows(x) /\ GoodDb(y) BY <1>1, WroteEffect, CommitGood DEF GoodDb
    <1>4. ASSUME Looking(u, q) PROVE KinKept(x, y, p)
        <2>1. MessageLocks(p) \subseteq u.locks BY <1>2, <1>4 DEF Looking
        <2>2. GoodRows(y) BY <1>3 DEF GoodDb
        <2> QED BY <1>3, <2>1, <2>2, HeldKinKept
    <1>5. ASSUME where = "looked" PROVE Looking(u, q) /\ Unknown(y, p)
        <2>1. Looking(u, q) /\ Unknown(x, p) BY <1>2, <1>5 DEF Stands
        <2> QED BY <2>1, <1>4, FreshStays
    <1>6. ASSUME where = "found" PROVE Looking(u, q) /\ Found(y, p)
        <2>1. Looking(u, q) /\ Found(x, p) BY <1>2, <1>6 DEF Stands
        <2> QED BY <2>1, <1>3, <1>4, FoundStays
    <1>7. ASSUME where = "written" PROVE Wrote(y, u, q)
        <2>1. Wrote(x, u, q) BY <1>7 DEF Stands
        <2>2. ASSUME NEW s \in Events, Adds(x, u, q, s) PROVE Wrote(y, u, q)
            BY <1>1, <2>2, AddsStays DEF Wrote
        <2>3. ASSUME NEW o \in Events, NEW s \in Events, Revives(x, u, q, o, s) PROVE Wrote(y, u, q)
            BY <1>1, <2>3, RevivesStays DEF Wrote
        <2>4. ASSUME Reports(x, u, q) PROVE Wrote(y, u, q)
            BY <1>1, <2>4, ReportsStays DEF Wrote
        <2> QED BY <2>1, <2>2, <2>3, <2>4 DEF Wrote
    <1> QED BY <1>1, <1>2, <1>5, <1>6, <1>7 DEF Stands

-------------------------------------------------------------------------------
(* The steps of a transaction.                                             *)

Holds(d, e, x) ==
    /\ e \in [Requests -> States]
    /\ DOMAIN x = {r \in Requests : e[r] \in Running}
    /\ \A q, r \in DOMAIN x : q # r => x[q].locks \cap x[r].locks = {}
    /\ GoodDb(d)
    /\ \A r \in DOMAIN x : Stands(d, x[r], r, e[r])

\* The invariant, with the variables as parameters.
LEMMA HoldsInv == IngestInv <=> Holds(db, state, tx)
    BY DEF IngestInv, Holds, Exclusive, Standing, Open

\* A transaction begins or goes on.
LEMMA HoldsRuns ==
    ASSUME NEW d, NEW e, NEW x, Holds(d, e, x), NEW r \in Requests, NEW where \in Running, NEW t,
           \A q \in DOMAIN x \ {r} : t.locks \cap x[q].locks = {},
           Stands(d, t, r, where)
    PROVE  Holds(d, [e EXCEPT ![r] = where], Upon(One(r, t), x))
    <1>1. PICK f : f = [e EXCEPT ![r] = where] OBVIOUS
    <1>2. PICK y : y = Upon(One(r, t), x) OBVIOUS
    <1>3. /\ DOMAIN y = {r} \cup DOMAIN x /\ y[r] = t
          /\ \A q \in DOMAIN x : q # r => y[q] = x[q]
        BY <1>2 DEF Upon, One
    <1>4. /\ f \in [Requests -> States] /\ f[r] = where
          /\ \A q \in Requests : q # r => f[q] = e[q]
        BY <1>1 DEF Holds, States
    <1>5. DOMAIN y = {q \in Requests : f[q] \in Running} BY <1>3, <1>4 DEF Holds
    <1>6. ASSUME NEW q \in DOMAIN y, NEW v \in DOMAIN y, q # v PROVE y[q].locks \cap y[v].locks = {}
        BY <1>3, <1>6 DEF Holds
    <1>7. ASSUME NEW q \in DOMAIN y PROVE Stands(d, y[q], q, f[q])
        <2>1. CASE q = r BY <2>1, <1>3, <1>4
        <2>2. CASE q # r BY <2>2, <1>3, <1>4, <1>7 DEF Holds
        <2> QED BY <2>1, <2>2
    <1>8. Holds(d, f, y) BY <1>4, <1>5, <1>6, <1>7 DEF Holds
    <1> QED BY <1>1, <1>2, <1>8

\* A transaction ends, and what the others know of the tables stands.
LEMMA HoldsEnds ==
    ASSUME NEW d, NEW e, NEW x, Holds(d, e, x), NEW r \in Requests, NEW where \in States \ Running,
           NEW y, GoodDb(y),
           \A q \in DOMAIN x \ {r} : Stands(y, x[q], q, e[q])
    PROVE  Holds(y, [e EXCEPT ![r] = where], [q \in DOMAIN x \ {r} |-> x[q]])
    <1>1. PICK f : f = [e EXCEPT ![r] = where] OBVIOUS
    <1>2. PICK z : z = [q \in DOMAIN x \ {r} |-> x[q]] OBVIOUS
    <1>3. DOMAIN z = DOMAIN x \ {r} /\ \A q \in DOMAIN z : z[q] = x[q] BY <1>2
    <1>4. /\ f \in [Requests -> States] /\ f[r] = where
          /\ \A q \in Requests : q # r => f[q] = e[q]
        BY <1>1 DEF Holds
    <1>5. DOMAIN z = {q \in Requests : f[q] \in Running} BY <1>3, <1>4 DEF Holds
    <1>6. \A q, v \in DOMAIN z : q # v => z[q].locks \cap z[v].locks = {} BY <1>3 DEF Holds
    <1>7. ASSUME NEW q \in DOMAIN z PROVE Stands(y, z[q], q, f[q])
        BY <1>3, <1>4, <1>7 DEF Holds
    <1>8. Holds(y, f, z) BY <1>4, <1>5, <1>6, <1>7 DEF Holds
    <1> QED BY <1>1, <1>2, <1>8

\* A transaction that begins, or goes on, under free locks.
LEMMA RunsStep ==
    ASSUME IngestInv, NEW r \in Requests, NEW where \in Running, NEW t, Runs(r, where, t), db' = db,
           Free(r, t.locks), Stands(db, t, r, where)
    PROVE  IngestInv'
    <1>1. Holds(db, state, tx) BY HoldsInv
    <1>2. Holds(db, [state EXCEPT ![r] = where], Upon(One(r, t), tx))
        BY <1>1, HoldsRuns DEF Free, Open
    <1>3. Holds(db', state', tx') BY <1>2 DEF Runs
    <1> QED BY <1>3 DEF IngestInv, Holds, Exclusive, Standing, Open

\* One that ends, ...
LEMMA EndsStep ==
    ASSUME IngestInv, NEW r \in Requests, NEW where \in States \ Running, Ends(r, where),
           GoodDb(db'), \A q \in Open \ {r} : Stands(db', tx[q], q, state[q])
    PROVE  IngestInv'
    <1>1. Holds(db, state, tx) BY HoldsInv
    <1>2. PICK y : y = db' OBVIOUS
    <1>3. Holds(y, [state EXCEPT ![r] = where], [q \in DOMAIN tx \ {r} |-> tx[q]])
        BY <1>1, <1>2, HoldsEnds DEF Open
    <1>4. Holds(db', state', tx') BY <1>2, <1>3 DEF Ends, Open
    <1> QED BY <1>4 DEF IngestInv, Holds, Exclusive, Standing, Open

\* ... and one that ends without a commit.
LEMMA EndsUnchanged ==
    ASSUME IngestInv, NEW r \in Requests, NEW where \in States \ Running, Ends(r, where), db' = db
    PROVE  IngestInv'
    <1>1. GoodDb(db') /\ \A q \in Open \ {r} : Stands(db', tx[q], q, state[q])
        BY DEF IngestInv, Standing
    <1> QED BY <1>1, EndsStep

\* A commit keeps what the others have found and written.
LEMMA CommitStep ==
    ASSUME IngestInv, NEW r \in Requests, Commit(r)
    PROVE  IngestInv'
    <1>1. state[r] = "written" /\ Ends(r, "done") /\ db' = Over(tx[r].writes, db)
        BY DEF Commit, Seen
    <1>2. r \in Open /\ Wrote(db, tx[r], r) /\ GoodDb(db)
        BY <1>1 DEF IngestInv, Running, Standing, Stands
    <1>3. GoodDb(db')
        BY <1>1, <1>2, CommitGood
    <1>4. ASSUME NEW q \in Open \ {r} PROVE Stands(db', tx[q], q, state[q])
        <2>1. tx[r].locks \cap tx[q].locks = {} /\ Stands(db, tx[q], q, state[q])
            BY <1>2, <1>4 DEF IngestInv, Exclusive, Standing
        <2>2. Stands(Over(tx[r].writes, db), tx[q], q, state[q])
            BY <2>1, <1>2, CommitLeavesOthers
        <2> QED BY <2>2, <1>1
    <1>5. "done" \in States \ Running BY DEF States, Running, Ended
    <1> QED BY <1>1, <1>3, <1>4, <1>5, EndsStep

\* A transaction that ends without a commit leaves nothing.
LEMMA AbortStep ==
    ASSUME IngestInv, NEW r \in Requests, Abort(r)
    PROVE  IngestInv'
    <1>1. "idle" \in States \ Running BY DEF States, Running, Ended
    <1> QED BY <1>1, EndsUnchanged DEF Abort

\* Nor does one that meets its own identity.
LEMMA ClashStep ==
    ASSUME IngestInv, NEW r \in Requests, Clash(r)
    PROVE  IngestInv'
    <1>1. {"idle", "done", "refused"} \subseteq States \ Running BY DEF States, Running, Ended
    <1>2. PICK where \in {"idle", "done", "refused"} : Ends(r, where) BY DEF Clash
    <1> QED BY <1>1, <1>2, EndsUnchanged DEF Clash

\* What a packet finds under the lock of its message.
LEMMA LookStep ==
    ASSUME IngestInv, NEW r \in Requests, Look(r)
    PROVE  IngestInv'
    <1>1. PICK p : p = r[1] OBVIOUS
    <1>2. PICK found : found = Existing(db, p) OBVIOUS
    <1>3. PICK o : o = RowFound(db, p) OBVIOUS
    <1>4. PICK t : t = Transaction(MessageLocks(p), NoRows, {}) OBVIOUS
    <1>5. t.locks = MessageLocks(p) BY <1>4 DEF Transaction
    <1>6. p \in Events /\ db' = db /\ Free(r, t.locks) BY <1>1, <1>5 DEF Look
    <1>7. \/ found = {} /\ Runs(r, "looked", t)
          \/ /\ found # {} /\ \A q \in found : q = o /\ ~Conflicts(db, o, p)
             /\ ComesAlive(db, o, p) /\ Runs(r, "found", t)
          \/ Ends(r, "refused") \/ Ends(r, "done")
        BY <1>1, <1>2, <1>3, <1>4 DEF Look
    <1>8. Looking(t, r) BY <1>1, <1>5, <1>6 DEF Looking
    <1>9. {"done", "refused"} \subseteq States \ Running /\ {"looked", "found"} \subseteq Running
        BY DEF States, Running, Ended
    <1>10. CASE found = {} /\ Runs(r, "looked", t)
        <2>1. Unknown(db, p) BY <1>2, <1>10 DEF Existing, Unknown
        <2>2. Stands(db, t, r, "looked") BY <1>1, <1>8, <2>1 DEF Stands
        <2> QED BY <1>6, <1>9, <1>10, <2>2, RunsStep
    <1>11. CASE /\ found # {} /\ \A q \in found : q = o /\ ~Conflicts(db, o, p)
                /\ ComesAlive(db, o, p) /\ Runs(r, "found", t)
        <2>1. Found(db, p) BY <1>2, <1>11 DEF Found, ComesAlive
        <2>2. Stands(db, t, r, "found") BY <1>1, <1>8, <2>1 DEF Stands
        <2> QED BY <1>6, <1>9, <1>11, <2>2, RunsStep
    <1>12. CASE Ends(r, "refused") \/ Ends(r, "done")
        BY <1>6, <1>9, <1>12, EndsUnchanged
    <1> QED BY <1>7, <1>10, <1>11, <1>12

\* What the steps that write leave in the transaction.
ReportWrote(x, t, a) ==
    LET trigger == {o \in SeenBy(x, Of[a].bot) : Of[a].trigger # Null
                        /\ Of[Of[a].trigger].key = Current(x, o).key}
    IN  /\ t.locks = BotLocks(Of[a].bot) /\ t.todo = RepliesTo(x, a)
        /\ DOMAIN t.writes.rows = {} /\ DOMAIN t.writes.refs = {}
        /\ DOMAIN t.writes.decisions = {} /\ DOMAIN t.writes.answers = {a}
        /\ t.writes.answers[a] = IF trigger = {} THEN Null
                                 ELSE SourceOf(x, CHOOSE o \in trigger : TRUE)

RecomputeWrote(x, u, t, s) ==
    LET seen == Over(u.writes, x)
    IN  /\ t.locks = u.locks \cup DecisionLocks(s) /\ t.todo = u.todo \ {s}
        /\ t.writes.rows = u.writes.rows /\ t.writes.refs = u.writes.refs
        /\ t.writes.answers = u.writes.answers
        /\ t.writes.decisions = Upon(IF Acting(seen, s) = {} THEN Nothing ELSE One(s, Policy(seen, s)),
                                     u.writes.decisions)

EnlivenWrote(x, u, t, p, o, s) ==
    /\ u.locks \cup KeyLocks(p) \subseteq t.locks /\ t.todo = {s}
    /\ t.writes.rows = One(o, [source |-> s, packet |-> p])
    /\ DOMAIN t.writes.refs = {} /\ DOMAIN t.writes.decisions = {}
    /\ DOMAIN t.writes.answers = Caused(x, p)
    /\ \A a \in DOMAIN t.writes.answers : t.writes.answers[a] = s

InsertWrote(x, u, t, p, s) ==
    LET with == InsertedWith(x, p, s)
    IN  /\ t.locks = u.locks \cup BotLocks(Of[p].bot) \cup KeyLocks(p)
        /\ t.todo = (IF Of[p].live THEN {s} ELSE {}) \cup
              {SourceOf(x, q) : q \in {q \in Waiting(with, p) :
                    Retried(with, p)[q].status = "resolved" /\ IsReply(q)}}
        /\ t.writes.rows = One(p, [source |-> s, packet |-> p])
        /\ t.writes.refs = Upon(OwnRef(with, p), Retried(with, p))
        /\ DOMAIN t.writes.answers = Caused(x, p)
        /\ \A a \in DOMAIN t.writes.answers : t.writes.answers[a] = s
        /\ DOMAIN t.writes.decisions = {}

\* What a report writes, ...
LEMMA ReportWrites ==
    ASSUME NEW r, Report(r), NEW a, a = r[1]
    PROVE  /\ a \in Answers /\ db' = db
           /\ \/ Ends(r, "done") \/ Ends(r, "refused")
              \/ /\ a \notin DOMAIN db.answers /\ Free(r, BotLocks(Of[a].bot))
                 /\ \E t : Runs(r, "written", t) /\ ReportWrote(db, t, a)
    <1>1. PICK b : b = Of[a].bot OBVIOUS
    <1>2. PICK trigger : trigger = {o \in SeenBy(db, b) : Of[a].trigger # Null
                                        /\ Of[Of[a].trigger].key = Current(db, o).key}
        OBVIOUS
    <1>3. PICK source : source = IF trigger = {} THEN Null ELSE SourceOf(db, CHOOSE o \in trigger : TRUE)
        OBVIOUS
    <1>4. PICK t : t = Transaction(BotLocks(b),
                           Rows(Nothing, Nothing, One(a, source), Nothing, Nothing), RepliesTo(db, a))
        OBVIOUS
    <1>5. /\ a \in Answers /\ db' = db
          /\ \/ Ends(r, "done") \/ Ends(r, "refused")
             \/ a \notin DOMAIN db.answers /\ Free(r, BotLocks(b)) /\ Runs(r, "written", t)
        BY <1>1, <1>2, <1>3, <1>4 DEF Report
    <1>6. /\ t.locks = BotLocks(b) /\ DOMAIN t.writes.rows = {} /\ DOMAIN t.writes.refs = {}
          /\ DOMAIN t.writes.decisions = {} /\ t.todo = RepliesTo(db, a)
          /\ DOMAIN t.writes.answers = {a} /\ t.writes.answers[a] = source
        BY <1>4 DEF Transaction, Rows, Nothing, Each, One
    <1>7. ReportWrote(db, t, a) BY <1>1, <1>2, <1>3, <1>6 DEF ReportWrote
    <1> QED BY <1>1, <1>5, <1>7

\* ... what a recomputation does, ...
LEMMA RecomputeWrites ==
    ASSUME NEW r, Recompute(r), NEW s, s = Due(r)
    PROVE  /\ state[r] = "written" /\ tx[r].todo # {} /\ db' = db /\ Free(r, DecisionLocks(s))
           /\ \E t : Runs(r, "written", t) /\ RecomputeWrote(db, tx[r], t, s)
    <1>1. PICK w : w = tx[r].writes OBVIOUS
    <1>2. PICK decided : decided = IF Acting(Seen(r), s) = {} THEN Nothing ELSE One(s, Policy(Seen(r), s))
        OBVIOUS
    <1>3. PICK t : t = Transaction(tx[r].locks \cup DecisionLocks(s),
               Rows(w.rows, w.refs, w.answers, Upon(decided, w.decisions), w.heard),
               tx[r].todo \ {s})
        OBVIOUS
    <1>4. /\ state[r] = "written" /\ tx[r].todo # {} /\ Free(r, DecisionLocks(s))
          /\ Runs(r, "written", t) /\ db' = db
        BY <1>1, <1>2, <1>3 DEF Recompute
    <1>5. /\ t.locks = tx[r].locks \cup DecisionLocks(s) /\ t.todo = tx[r].todo \ {s}
          /\ t.writes.rows = w.rows /\ t.writes.refs = w.refs /\ t.writes.answers = w.answers
          /\ t.writes.decisions = Upon(decided, w.decisions)
        BY <1>3 DEF Transaction, Rows
    <1>6. RecomputeWrote(db, tx[r], t, s) BY <1>1, <1>2, <1>5 DEF RecomputeWrote, Seen
    <1> QED BY <1>4, <1>6

\* ... a takeover, ...
LEMMA EnlivenWrites ==
    ASSUME NEW r, Enliven(r), NEW p, p = r[1], NEW o, o = RowFound(db, p),
           NEW s, s = SourceOf(db, o)
    PROVE  /\ state[r] = "found" /\ SameIdentity(db, p) = {} /\ db' = db
           /\ \E t : /\ Runs(r, "written", t) /\ Free(r, t.locks \ tx[r].locks)
                     /\ EnlivenWrote(db, tx[r], t, p, o, s)
    <1>1. PICK b : b = Of[p].bot OBVIOUS
    <1>2. PICK heard : heard = IF b \notin DOMAIN db.heard \/ db.heard[b] < Of[p].at
                               THEN One(b, Of[p].at) ELSE Nothing
        OBVIOUS
    <1>3. PICK locks : locks = KeyLocks(p) \cup
              (IF b \notin DOMAIN db.heard \/ db.heard[b] < Of[p].at THEN BotLocks(b) ELSE {})
        OBVIOUS
    <1>4. PICK t : t = Transaction(tx[r].locks \cup locks,
               Rows(One(o, [source |-> s, packet |-> p]), Nothing, Each(Caused(db, p), s),
                    Nothing, heard), {s})
        OBVIOUS
    <1>5. state[r] = "found" /\ SameIdentity(db, p) = {} /\ db' = db BY DEF Enliven
    <1>6. Free(r, locks) BY <1>1, <1>3 DEF Enliven
    <1>7. Runs(r, "written", t) BY <1>1, <1>2, <1>3, <1>4 DEF Enliven
    <1>8. /\ t.locks = tx[r].locks \cup locks /\ t.todo = {s}
          /\ t.writes.rows = One(o, [source |-> s, packet |-> p])
          /\ DOMAIN t.writes.refs = {} /\ DOMAIN t.writes.decisions = {}
          /\ DOMAIN t.writes.answers = Caused(db, p)
          /\ \A a \in DOMAIN t.writes.answers : t.writes.answers[a] = s
        BY <1>4 DEF Transaction, Rows, Nothing, Each
    <1>9. EnlivenWrote(db, tx[r], t, p, o, s) BY <1>3, <1>8 DEF EnlivenWrote
    <1>10. Free(r, t.locks \ tx[r].locks) BY <1>6, <1>8 DEF Free
    <1> QED BY <1>5, <1>7, <1>9, <1>10

\* ... and an insertion.
LEMMA InsertWrites ==
    ASSUME NEW r, Insert(r), NEW p, p = r[1], NEW s, s = EnsureSource(db, p)
    PROVE  /\ state[r] = "looked" /\ SameIdentity(db, p) = {} /\ db' = db
           /\ Free(r, BotLocks(Of[p].bot) \cup KeyLocks(p))
           /\ \E t : Runs(r, "written", t) /\ InsertWrote(db, tx[r], t, p, s)
    <1>1. PICK b : b = Of[p].bot OBVIOUS
    <1>2. PICK with : with = InsertedWith(db, p, s) OBVIOUS
    <1>3. PICK todo : todo = (IF Of[p].live THEN {s} ELSE {}) \cup
              {SourceOf(db, q) : q \in {q \in Waiting(with, p) :
                    Retried(with, p)[q].status = "resolved" /\ IsReply(q)}}
        OBVIOUS
    <1>4. PICK t : t = Transaction(tx[r].locks \cup (BotLocks(b) \cup KeyLocks(p)),
               Rows(One(p, [source |-> s, packet |-> p]), Upon(OwnRef(with, p), Retried(with, p)),
                    Each(Caused(db, p), s),
                    Nothing, IF Of[p].live THEN One(b, Of[p].at) ELSE Nothing), todo)
        OBVIOUS
    <1>5. state[r] = "looked" /\ SameIdentity(db, p) = {} /\ db' = db BY DEF Insert
    <1>6. Free(r, BotLocks(b) \cup KeyLocks(p)) BY <1>1 DEF Insert
    <1>7. Runs(r, "written", t) BY <1>1, <1>2, <1>3, <1>4 DEF Insert
    <1>8. /\ t.locks = tx[r].locks \cup BotLocks(b) \cup KeyLocks(p) /\ t.todo = todo
          /\ t.writes.rows = One(p, [source |-> s, packet |-> p])
          /\ t.writes.refs = Upon(OwnRef(with, p), Retried(with, p))
          /\ DOMAIN t.writes.answers = Caused(db, p) /\ DOMAIN t.writes.decisions = {}
          /\ \A a \in DOMAIN t.writes.answers : t.writes.answers[a] = s
        BY <1>4 DEF Transaction, Rows, Nothing, Each
    <1>9. InsertWrote(db, tx[r], t, p, s) BY <1>1, <1>2, <1>3, <1>8 DEF InsertWrote
    <1> QED BY <1>1, <1>5, <1>6, <1>7, <1>9

\* A report finds its trigger, or leaves it to the event that is not there yet.
LEMMA ReportStep ==
    ASSUME IngestInv, NEW r \in Requests, Report(r)
    PROVE  IngestInv'
    <1>1. PICK a : a = r[1] OBVIOUS
    <1>2. PICK b : b = Of[a].bot OBVIOUS
    <1>3. PICK trigger : trigger = {o \in SeenBy(db, b) : Of[a].trigger # Null
                                        /\ Of[Of[a].trigger].key = Current(db, o).key}
        OBVIOUS
    <1>4. PICK source : source = IF trigger = {} THEN Null ELSE SourceOf(db, CHOOSE o \in trigger : TRUE)
        OBVIOUS
    <1>5. /\ a \in Answers /\ db' = db
          /\ \/ Ends(r, "done") \/ Ends(r, "refused")
             \/ /\ a \notin DOMAIN db.answers /\ Free(r, BotLocks(Of[a].bot))
                /\ \E t : Runs(r, "written", t) /\ ReportWrote(db, t, a)
        BY <1>1, ReportWrites
    <1>6. CASE Ends(r, "done") \/ Ends(r, "refused")
        <2>1. {"done", "refused"} \subseteq States \ Running BY DEF States, Running, Ended
        <2> QED BY <1>5, <1>6, <2>1, EndsUnchanged
    <1>7. ASSUME a \notin DOMAIN db.answers, Free(r, BotLocks(Of[a].bot)), NEW t, Runs(r, "written", t),
                 ReportWrote(db, t, a)
          PROVE  IngestInv'
        <2>1. /\ t.locks = BotLocks(b) /\ DOMAIN t.writes.rows = {} /\ DOMAIN t.writes.refs = {}
              /\ DOMAIN t.writes.answers = {a} /\ t.writes.answers[a] = source
            BY <1>2, <1>3, <1>4, <1>7 DEF ReportWrote
        <2>2. ASSUME NEW o \in DOMAIN db.rows, Triggered(a, o), db.rows[o].packet = o
              PROVE  source = SourceOf(db, o)
            <3>1. Current(db, o).key = Of[o].key BY <2>2 DEF Current
            <3>2. o \in trigger BY <1>2, <1>3, <2>2, <3>1 DEF Triggered, SeenBy
            <3>3. KeysApart(db) BY DEF IngestInv, GoodDb
            <3>4. \A q \in trigger : q = o
                BY <1>2, <1>3, <2>2, <3>1, <3>3 DEF Triggered, SeenBy, KeysApart
            <3>5. (CHOOSE q \in trigger : TRUE) = o BY <3>2, <3>4
            <3> QED BY <1>4, <3>2, <3>5
        <2>3. Reports(db, t, r) BY <1>1, <1>2, <1>5, <1>7, <2>2, <2>1 DEF Reports
        <2>4. Stands(db, t, r, "written") BY <2>3 DEF Stands, Wrote
        <2>5. "written" \in Running BY DEF Running
        <2> QED BY <1>2, <1>5, <1>7, <2>4, <2>5, <2>1, RunsStep
    <1> QED BY <1>5, <1>6, <1>7

\* More locks and other decisions do not change what was written.
LEMMA WroteKept ==
    ASSUME NEW x, NEW r, NEW t, NEW u, Wrote(x, t, r), t.locks \subseteq u.locks,
           u.writes.rows = t.writes.rows, u.writes.refs = t.writes.refs,
           u.writes.answers = t.writes.answers
    PROVE  Wrote(x, u, r)
    <1>1. PICK y : y = Over(t.writes, x) OBVIOUS
    <1>2. PICK z : z = Over(u.writes, x) OBVIOUS
    <1>3. /\ y.rows = Upon(t.writes.rows, x.rows) /\ y.refs = Upon(t.writes.refs, x.refs)
          /\ z.rows = Upon(u.writes.rows, x.rows) /\ z.refs = Upon(u.writes.refs, x.refs)
        BY <1>1, <1>2, OverFields
    <1>4. y.rows = z.rows /\ y.refs = z.refs BY <1>3
    <1>5. ASSUME NEW o, NEW s, Takes(x, t, r, o, s) PROVE Takes(x, u, r, o, s)
        BY <1>5 DEF Takes
    <1>6. ASSUME NEW s, Adds(x, t, r, s) PROVE Adds(x, u, r, s)
        <2>1. PICK p : p = r[1] OBVIOUS
        <2>2. PICK b : b = Of[p].bot OBVIOUS
        <2>3. /\ Takes(x, t, r, p, s) /\ BotLocks(b) \subseteq t.locks /\ Unknown(x, p)
              /\ s = p \/ (s \in Sources(x) /\ Fingerprint(s) # Null /\ OthersSee(x, s, b))
              /\ Caused(x, p) \subseteq DOMAIN t.writes.answers
              /\ \A q \in DOMAIN t.writes.refs : Of[q].bot = b
              /\ GoodRefs(y)
              /\ \A q \in DOMAIN y.refs : Of[q].bot = b => RefMet(y, q)
            BY <1>1, <1>6, <2>1, <2>2 DEF Adds
        <2>4. GoodRefs(z) BY <1>4, <2>3 DEF GoodRefs, Sources, SourceOf
        <2>5. ASSUME NEW q, RefMet(y, q) PROVE RefMet(z, q)
            BY <1>4, <2>5 DEF RefMet, Targets, SeenBy, SourceOf
        <2>6. \A q \in DOMAIN z.refs : Of[q].bot = b => RefMet(z, q) BY <1>4, <2>3, <2>5
        <2>7. Takes(x, u, r, p, s) BY <1>5, <2>3
        <2> QED BY <1>2, <2>1, <2>2, <2>3, <2>4, <2>6, <2>7 DEF Adds
    <1>7. ASSUME NEW o, NEW s, Revives(x, t, r, o, s) PROVE Revives(x, u, r, o, s)
        BY <1>5, <1>7 DEF Revives
    <1>8. ASSUME Reports(x, t, r) PROVE Reports(x, u, r)
        BY <1>8 DEF Reports
    <1> QED BY <1>6, <1>7, <1>8 DEF Wrote

\* A recomputation touches decisions only.
LEMMA RecomputeStep ==
    ASSUME IngestInv, NEW r \in Requests, Recompute(r)
    PROVE  IngestInv'
    <1>1. PICK s : s = Due(r) OBVIOUS
    <1>2. state[r] = "written" /\ Free(r, DecisionLocks(s)) /\ db' = db BY <1>1, RecomputeWrites
    <1>3. PICK t : Runs(r, "written", t) /\ RecomputeWrote(db, tx[r], t, s)
        BY <1>1, RecomputeWrites
    <1>4. /\ t.locks = tx[r].locks \cup DecisionLocks(s)
          /\ t.writes.rows = tx[r].writes.rows /\ t.writes.refs = tx[r].writes.refs
          /\ t.writes.answers = tx[r].writes.answers
        BY <1>3 DEF RecomputeWrote
    <1>5. r \in Open /\ Wrote(db, tx[r], r) BY <1>2 DEF IngestInv, Running, Standing, Stands
    <1>6. Free(r, t.locks) BY <1>2, <1>4, <1>5 DEF Free, IngestInv, Exclusive
    <1>7. Wrote(db, t, r) BY <1>4, <1>5, WroteKept
    <1>8. Stands(db, t, r, "written") BY <1>7 DEF Stands
    <1>9. "written" \in Running BY DEF Running
    <1> QED BY <1>2, <1>3, <1>6, <1>8, <1>9, RunsStep

\* What is found, and does not conflict, is the history's row of a message that p
\* delivers live.
LEMMA EnlivenStep ==
    ASSUME IngestInv, NEW r \in Requests, Enliven(r)
    PROVE  IngestInv'
    <1>1. PICK p : p = r[1] OBVIOUS
    <1>2. PICK b : b = Of[p].bot OBVIOUS
    <1>3. PICK o : o = RowFound(db, p) OBVIOUS
    <1>4. PICK s : s = SourceOf(db, o) OBVIOUS
    <1>5. /\ state[r] = "found" /\ SameIdentity(db, p) = {} /\ db' = db
        BY <1>1, <1>3, <1>4, EnlivenWrites
    <1>6. PICK t : /\ Runs(r, "written", t) /\ Free(r, t.locks \ tx[r].locks)
                   /\ EnlivenWrote(db, tx[r], t, p, o, s)
        BY <1>1, <1>3, <1>4, EnlivenWrites
    <1>7. /\ tx[r].locks \subseteq t.locks /\ KeyLocks(p) \subseteq t.locks
          /\ t.writes.rows = One(o, [source |-> s, packet |-> p])
          /\ DOMAIN t.writes.refs = {} /\ DOMAIN t.writes.answers = Caused(db, p)
          /\ \A a \in DOMAIN t.writes.answers : t.writes.answers[a] = s
        BY <1>6 DEF EnlivenWrote
    <1>8. r \in Open /\ Looking(tx[r], r) /\ Found(db, p) /\ GoodRows(db)
        BY <1>1, <1>5 DEF IngestInv, GoodDb, Running, Standing, Stands
    <1>9. /\ o \in Existing(db, p) /\ ~Conflicts(db, o, p) /\ ~Current(db, o).live /\ Of[p].live
        BY <1>3, <1>5, <1>8 DEF Found, RowFound
    <1>10. Kin(db, o, p) BY <1>5, <1>8, <1>9, ExistingKin
    <1>11. /\ o \in DOMAIN db.rows /\ Of[o].bot = b /\ Fingerprint(o) = Fingerprint(p)
           /\ MessageLocks(o) = MessageLocks(p) /\ MessageLocks(p) # {}
        BY <1>2, <1>10 DEF Kin
    <1>12. /\ {o, s} \subseteq Events /\ Fingerprint(s) = Fingerprint(o) /\ db.rows[o].packet = o
        BY <1>4, <1>8, <1>9, <1>11 DEF GoodRows
    <1>13. Current(db, o) = Of[o] BY <1>12 DEF Current
    <1>14. o # p BY <1>5, <1>11, UnknownIsNew
    <1>15. MessageLocks(p) \subseteq tx[r].locks /\ p \in Events BY <1>1, <1>8 DEF Looking
    <1>16. KeyLocks(p) \subseteq t.locks BY <1>7
    <1>17. Takes(db, t, r, o, s)
        BY <1>1, <1>2, <1>5, <1>7, <1>6, <1>11, <1>12, <1>15, <1>16 DEF Takes
    <1>18. ~Differ(Of[o].time, Of[p].time) BY <1>9, <1>13 DEF Conflicts
    <1>19. Revives(db, t, r, o, s)
        BY <1>1, <1>4, <1>7, <1>9, <1>11, <1>12, <1>13, <1>14, <1>17, <1>18 DEF Revives
    <1>20. Stands(db, t, r, "written") BY <1>12, <1>19 DEF Stands, Wrote
    <1>21. Free(r, t.locks) BY <1>6, <1>8 DEF Free, IngestInv, Exclusive
    <1>22. "written" \in Running BY DEF Running
    <1> QED BY <1>5, <1>6, <1>20, <1>21, <1>22, RunsStep

-------------------------------------------------------------------------------
(* An insertion.                                                           *)

\* Times are numbers.
LEMMA TimesOfPackets ==
    ASSUME NEW p \in Events
    PROVE  Of[p].at \in Nat
    <1>1. Of[p] \in Packet BY EventAssumption
    <1> QED BY <1>1 DEF Packet

\* What becomes of a reference with these targets.
LEMMA ResolvedFacts ==
    ASSUME NEW found, found \subseteq Events
    PROVE  /\ Resolved(found).status \in Statuses
           /\ IF Resolved(found).status = "resolved" THEN Resolved(found).to \in found
              ELSE Resolved(found).to = Null
           /\ Resolved(found).status = "unresolved" => found = {}
           /\ Resolved(found).status = "ambiguous" => \A s \in Events : found # {s}
    <1>1. CASE found = {} BY <1>1 DEF Resolved, Reference, Statuses
    <1>2. CASE found # {} /\ \E s \in Events : found = {s}
        <2>1. PICK s : s = CHOOSE c \in Events : found = {c} OBVIOUS
        <2>2. found = {s} BY <1>2, <2>1
        <2>3. Resolved(found) = Reference(s, "resolved") BY <1>2, <2>1 DEF Resolved
        <2> QED BY <2>2, <2>3 DEF Reference, Statuses
    <1>3. CASE found # {} /\ ~\E s \in Events : found = {s}
        <2>1. Resolved(found) = Reference(Null, "ambiguous") BY <1>3 DEF Resolved
        <2> QED BY <1>3, <2>1 DEF Reference, Statuses
    <1> QED BY <1>1, <1>2, <1>3

\* Targets are sources, and the more the later.
LEMMA TargetsFacts ==
    ASSUME NEW x, GoodRows(x), NEW p, NEW u, NEW v
    PROVE  /\ Targets(x, p, u) \subseteq Sources(x)
           /\ Sources(x) \subseteq Events
           /\ (u \in Nat /\ v \in Nat /\ u <= v) => Targets(x, p, u) \subseteq Targets(x, p, v)
    <1>1. Targets(x, p, u) \subseteq Sources(x) BY DEF Targets, SeenBy, Sources
    <1>2. Sources(x) \subseteq Events BY DEF Sources, GoodRows
    <1>3. ASSUME u \in Nat, v \in Nat, u <= v, NEW s \in Targets(x, p, u)
          PROVE  s \in Targets(x, p, v)
        <2>1. PICK o \in SeenBy(x, Of[p].bot) :
                  /\ Of[p].relation = "reply_to" => o # p
                  /\ Of[o].msg = Of[p].ref /\ Of[o].kind = Of[p].kind
                  /\ Of[SourceOf(x, o)].at <= u
                  /\ s = SourceOf(x, o)
            BY <1>3 DEF Targets
        <2>2. s \in Events BY <1>1, <1>2, <1>3
        <2>3. Of[s].at \in Nat BY <2>2, TimesOfPackets
        <2>4. Of[SourceOf(x, o)].at <= v BY <1>3, <2>1, <2>3
        <2> QED BY <2>1, <2>4 DEF Targets
    <1> QED BY <1>1, <1>2, <1>3

\* The source of a new observation.
LEMMA SourceChosen ==
    ASSUME NEW x, NEW p \in Events
    PROVE  LET s == EnsureSource(x, p)
           IN  /\ s \in Events /\ Fingerprint(s) = Fingerprint(p)
               /\ \/ s = p
                  \/ s \in Sources(x) /\ Fingerprint(s) # Null /\ OthersSee(x, s, Of[p].bot)
               /\ s = p \/ s \in Compatible(x, p)
    <1>1. CASE \E s \in Events : Compatible(x, p) = {s}
        <2>1. PICK s : s = EnsureSource(x, p) OBVIOUS
        <2>2. s \in Events /\ Compatible(x, p) = {s} BY <1>1, <2>1 DEF EnsureSource
        <2>3. s \in Compatible(x, p) BY <2>2
        <2>4. /\ s \in Sources(x) /\ Fingerprint(p) # Null /\ Fingerprint(s) = Fingerprint(p)
              /\ \A o \in ObservationsOf(x, s) : Of[o].bot # Of[p].bot
            BY <2>3 DEF Compatible
        <2> QED BY <2>1, <2>2, <2>3, <2>4 DEF OthersSee
    <1>2. CASE ~\E s \in Events : Compatible(x, p) = {s}
        <2>1. EnsureSource(x, p) = p BY <1>2 DEF EnsureSource
        <2> QED BY <2>1
    <1> QED BY <1>1, <1>2

\* What a reference says when it is resolved in x: what its targets by some time
\* upto make it, where upto is no earlier than what it must find.
ResolvedIn(x, q, ref) ==
    \E upto \in Nat :
        /\ Earlier(Of[q].at, Of[SourceOf(x, q)].at) <= upto
        /\ ref = Resolved(Targets(x, q, upto))

\* A reference that is resolved has what it says it has.
LEMMA ResolvingFacts ==
    ASSUME NEW x, GoodRows(x), NEW q \in DOMAIN x.rows
    PROVE  ResolvedIn(x, q, ResolveNew(x, q)) /\ ResolvedIn(x, q, ResolveStored(x, q))
    <1>1. PICK a : a = Of[q].at OBVIOUS
    <1>2. PICK c : c = Of[SourceOf(x, q)].at OBVIOUS
    <1>3. q \in Events /\ SourceOf(x, q) \in Events BY DEF GoodRows
    <1>4. a \in Nat /\ c \in Nat BY <1>1, <1>2, <1>3, TimesOfPackets
    <1>5. Earlier(a, c) <= a /\ Earlier(a, c) <= c BY <1>4 DEF Earlier
    <1>6. ResolveNew(x, q) = Resolved(Targets(x, q, a))
        BY <1>1 DEF ResolveNew, ResolveNewLink, ResolveStoredAction
    <1>7. \/ ResolveStored(x, q) = Resolved(Targets(x, q, a))
          \/ ResolveStored(x, q) = Resolved(Targets(x, q, c))
        BY <1>1, <1>2 DEF ResolveStored, ResolveStoredLink, ResolveStoredAction
    <1> QED BY <1>1, <1>2, <1>4, <1>5, <1>6, <1>7 DEF ResolvedIn

\* A reference so resolved is good and met.
LEMMA ResolvedIsGood ==
    ASSUME NEW x, GoodRows(x), NEW q \in DOMAIN x.rows, ResolvedIn(x, q, x.refs[q])
    PROVE  /\ x.refs[q].status \in Statuses
           /\ IF x.refs[q].status = "resolved" THEN x.refs[q].to \in Sources(x)
              ELSE x.refs[q].to = Null
           /\ RefMet(x, q)
    <1>1. PICK e : e = Earlier(Of[q].at, Of[SourceOf(x, q)].at) OBVIOUS
    <1>2. PICK upto \in Nat : e <= upto /\ x.refs[q] = Resolved(Targets(x, q, upto))
        BY <1>1 DEF ResolvedIn
    <1>3. PICK found : found = Targets(x, q, upto) OBVIOUS
    <1>4. found \subseteq Sources(x) /\ found \subseteq Events BY <1>3, TargetsFacts
    <1>5. /\ x.refs[q].status \in Statuses
          /\ IF x.refs[q].status = "resolved" THEN x.refs[q].to \in found ELSE x.refs[q].to = Null
          /\ x.refs[q].status = "unresolved" => found = {}
        BY <1>2, <1>3, <1>4, ResolvedFacts
    <1>6. e \in Nat
        <2>1. q \in Events /\ SourceOf(x, q) \in Events BY DEF GoodRows
        <2>2. Of[q].at \in Nat /\ Of[SourceOf(x, q)].at \in Nat BY <2>1, TimesOfPackets
        <2> QED BY <1>1, <2>2 DEF Earlier
    <1>7. Targets(x, q, e) \subseteq found BY <1>2, <1>3, <1>6, TargetsFacts
    <1>8. RefMet(x, q) BY <1>1, <1>5, <1>7 DEF RefMet
    <1> QED BY <1>4, <1>5, <1>8

\* A reference without a target that does not wait for the new observation finds
\* nothing in it.
LEMMA NotWaiting ==
    ASSUME NEW x, NEW y, NEW p, NEW s, GoodRows(y), Rewrites(x, y, p, s, p), p \notin DOMAIN x.rows,
           NEW q \in DOMAIN x.refs, q \in DOMAIN x.rows, q # p, Of[q].bot = Of[p].bot, RefMet(x, q),
           NEW with, SameTable(x.refs, with.refs), with.rows = y.rows, q \notin Waiting(with, p),
           y.refs[q] = x.refs[q]
    PROVE  RefMet(y, q)
    <1>1. SUFFICES ASSUME y.refs[q].status = "unresolved",
                          NEW e, e = Earlier(Of[q].at, Of[SourceOf(y, q)].at)
                   PROVE  Targets(y, q, e) = {}
        BY DEF RefMet
    <1>2. SourceOf(y, q) = SourceOf(x, q) BY DEF Rewrites, SourceOf
    <1>3. Targets(x, q, e) = {} BY <1>1, <1>2 DEF RefMet
    <1>4. SUFFICES ASSUME NEW o \in DOMAIN y.rows, Of[o].bot = Of[q].bot,
                          IsReply(q) => o # q,
                          Of[o].msg = Of[q].ref, Of[o].kind = Of[q].kind, Of[SourceOf(y, o)].at <= e
                   PROVE  FALSE
        BY DEF Targets, SeenBy, IsReply
    <1>5. CASE o # p
        <2>1. o \in DOMAIN x.rows /\ SourceOf(y, o) = SourceOf(x, o) BY <1>5 DEF Rewrites, SourceOf
        <2>2. SourceOf(x, o) \in Targets(x, q, e) BY <1>4, <2>1 DEF Targets, SeenBy, IsReply
        <2> QED BY <1>3, <2>2
    <1>6. CASE o = p
        <2>1. q \in Unmet(with, p) BY <1>1, <1>4, <1>6 DEF Unmet, SameTable
        <2>2. SourceOf(with, p) = SourceOf(y, p) BY DEF SourceOf
        <2>3. /\ p \in DOMAIN y.rows /\ q \in DOMAIN y.rows BY DEF Rewrites
        <2>4. SourceOf(y, p) \in Events /\ SourceOf(y, q) \in Events /\ q \in Events BY <2>3 DEF GoodRows
        <2>5. /\ Of[SourceOf(y, p)].at \in Nat /\ Of[q].at \in Nat /\ Of[SourceOf(y, q)].at \in Nat
            BY <2>4, TimesOfPackets
        <2>6. e <= Of[q].at /\ e \in Nat BY <1>1, <2>5 DEF Earlier
        <2>7. Of[q].at >= Of[SourceOf(with, p)].at BY <1>4, <1>6, <2>2, <2>5, <2>6
        <2>8. q \in Waiting(with, p) BY <2>1, <2>7 DEF Waiting, WaitingLinks, WaitingActions
        <2> QED BY <2>8
    <1> QED BY <1>5, <1>6

\* The references after an insertion: its own and those that waited are resolved
\* with it, and the others of its bot find nothing in it.
LEMMA InsertedRefs ==
    ASSUME NEW x, GoodRows(x), GoodRefs(x), \A q \in DOMAIN x.refs : RefMet(x, q),
           NEW y, NEW p \in Events, NEW s, GoodRows(y), Rewrites(x, y, p, s, p), p \notin DOMAIN x.rows,
           Grows(x, y),
           NEW with, SameTable(x.refs, with.refs), with.rows = y.rows,
           NEW ref, DOMAIN ref \subseteq {p}, p \in DOMAIN ref => Of[p].ref # Null /\ ref[p] = ResolveNew(with, p),
           NEW retried, retried = [q \in Waiting(with, p) |-> ResolveStored(with, q)],
           y.refs = Upon(Upon(ref, retried), x.refs)
    PROVE  /\ GoodRefs(y)
           /\ \A q \in DOMAIN y.refs : Of[q].bot = Of[p].bot => RefMet(y, q)
           /\ \A q \in DOMAIN Upon(ref, retried) : Of[q].bot = Of[p].bot
    <1>1. /\ p \notin DOMAIN x.refs /\ \A q \in DOMAIN x.refs : q \in DOMAIN x.rows /\ Of[q].ref # Null
        BY DEF GoodRefs
    <1>2. Waiting(with, p) \subseteq {q \in DOMAIN x.refs : Of[q].bot = Of[p].bot}
        BY DEF Waiting, WaitingLinks, WaitingActions, Unmet, SameTable
    <1>3. /\ DOMAIN y.refs = DOMAIN ref \cup DOMAIN x.refs
          /\ p \in DOMAIN ref => y.refs[p] = ResolveNew(with, p)
          /\ \A q \in Waiting(with, p) : y.refs[q] = ResolveStored(with, q)
          /\ \A q \in DOMAIN x.refs \ Waiting(with, p) : y.refs[q] = x.refs[q]
          /\ DOMAIN Upon(ref, retried) \subseteq {p} \cup Waiting(with, p)
        BY <1>1, <1>2 DEF Upon
    <1>4. \A q : /\ ResolveNew(with, q) = ResolveNew(y, q)
                 /\ ResolveStored(with, q) = ResolveStored(y, q)
        <2>1. \A q, upto : Targets(with, q, upto) = Targets(y, q, upto)
            BY DEF Targets, SeenBy, SourceOf
        <2>2. \A q : SourceOf(with, q) = SourceOf(y, q) BY DEF SourceOf
        <2> QED BY <2>1, <2>2 DEF ResolveNew, ResolveNewLink, ResolveStored, ResolveStoredLink,
                                  ResolveStoredAction
    <1>5. Sources(x) \subseteq Sources(y) BY GrowingSources
    <1>6. ASSUME NEW q \in DOMAIN y.refs
          PROVE  /\ q \in DOMAIN y.rows /\ Of[q].ref # Null
                 /\ y.refs[q].status \in Statuses
                 /\ IF y.refs[q].status = "resolved" THEN y.refs[q].to \in Sources(y)
                    ELSE y.refs[q].to = Null
                 /\ Of[q].bot = Of[p].bot => RefMet(y, q)
        <2>1. q \in DOMAIN y.rows /\ Of[q].ref # Null BY <1>1, <1>3 DEF Rewrites
        <2>2. ResolvedIn(y, q, ResolveNew(y, q)) /\ ResolvedIn(y, q, ResolveStored(y, q))
            BY <2>1, ResolvingFacts
        <2>3. CASE q \in DOMAIN ref \/ q \in Waiting(with, p)
            <3>1. y.refs[q] = ResolveNew(y, q) \/ y.refs[q] = ResolveStored(y, q) BY <2>3, <1>3, <1>4
            <3>2. ResolvedIn(y, q, y.refs[q]) BY <2>2, <3>1
            <3> QED BY <2>1, <3>2, ResolvedIsGood
        <2>4. CASE q \notin DOMAIN ref /\ q \notin Waiting(with, p)
            <3>1. q \in DOMAIN x.refs /\ q \in DOMAIN x.rows /\ y.refs[q] = x.refs[q] /\ q # p
                BY <2>4, <1>1, <1>3
            <3>2. RefMet(x, q) BY <3>1
            <3>3. Of[q].bot = Of[p].bot => RefMet(y, q) BY <2>4, <3>1, <3>2, NotWaiting
            <3> QED BY <2>1, <3>1, <3>3, <1>5 DEF GoodRefs
        <2> QED BY <2>3, <2>4
    <1>7. GoodRefs(y) BY <1>6 DEF GoodRefs
    <1> QED BY <1>2, <1>3, <1>6, <1>7

\* An insertion resolves its own reference and those that waited for it.
LEMMA InsertStep ==
    ASSUME IngestInv, NEW r \in Requests, Insert(r)
    PROVE  IngestInv'
    <1>1. PICK p : p = r[1] OBVIOUS
    <1>2. PICK b : b = Of[p].bot OBVIOUS
    <1>3. PICK s : s = EnsureSource(db, p) OBVIOUS
    <1>4. PICK own : own = One(p, [source |-> s, packet |-> p]) OBVIOUS
    <1>5. PICK with : with = InsertedWith(db, p, s) OBVIOUS
    <1>6. PICK ref : ref = OwnRef(with, p) OBVIOUS
    <1>7. PICK retried : retried = Retried(with, p) OBVIOUS
    <1>8. /\ state[r] = "looked" /\ SameIdentity(db, p) = {} /\ db' = db
           /\ Free(r, BotLocks(b) \cup KeyLocks(p))
        BY <1>1, <1>2, <1>3, InsertWrites
    <1>9. PICK t : Runs(r, "written", t) /\ InsertWrote(db, tx[r], t, p, s)
        BY <1>1, <1>3, InsertWrites
    <1>10. /\ t.locks = tx[r].locks \cup BotLocks(b) \cup KeyLocks(p)
           /\ t.writes.rows = own /\ t.writes.refs = Upon(ref, retried)
           /\ DOMAIN t.writes.answers = Caused(db, p)
           /\ \A a \in DOMAIN t.writes.answers : t.writes.answers[a] = s
        BY <1>2, <1>4, <1>5, <1>6, <1>7, <1>9 DEF InsertWrote
    <1>11. r \in Open /\ Looking(tx[r], r) /\ Unknown(db, p) /\ GoodDb(db)
        BY <1>1, <1>8 DEF IngestInv, Running, Standing, Stands
    <1>12. p \in Events /\ MessageLocks(p) \subseteq tx[r].locks BY <1>1, <1>11 DEF Looking
    <1>13. /\ s \in Events /\ Fingerprint(s) = Fingerprint(p)
           /\ s = p \/ (s \in Sources(db) /\ Fingerprint(s) # Null /\ OthersSee(db, s, b))
        BY <1>2, <1>3, <1>12, SourceChosen
    <1>14. Takes(db, t, r, p, s)
        BY <1>1, <1>4, <1>8, <1>10, <1>12, <1>13 DEF Takes
    <1>15. PICK y : y = Over(t.writes, db) OBVIOUS
    <1>16. Rewrites(db, y, p, s, p) BY <1>1, <1>14, <1>15, TakesRewrites
    <1>17. p \notin DOMAIN db.rows BY <1>8, UnknownIsNew
    <1>18. Written(db, p, s, p) BY <1>13, <1>17 DEF Written
    <1>19. GoodRows(db) /\ GoodRefs(db) /\ \A q \in DOMAIN db.refs : RefMet(db, q) BY <1>11 DEF GoodDb
    <1>20. GoodRows(y) BY <1>12, <1>13, <1>16, <1>18, <1>19, WrittenRows
    <1>21. Grows(db, y) BY <1>16, <1>17 DEF Rewrites, Grows, SourceOf
    <1>22. y.rows = Upon(own, db.rows) /\ y.refs = Upon(Upon(ref, retried), db.refs)
        BY <1>10, <1>15, OverFields
    <1>23. with.rows = y.rows /\ with.refs = Upon(Nothing, db.refs)
        BY <1>4, <1>5, <1>22 DEF InsertedWith, Over, Rows
    <1>24. SameTable(db.refs, with.refs) BY <1>23 DEF SameTable, Upon, Nothing
    <1>25. /\ DOMAIN ref \subseteq {p}
           /\ p \in DOMAIN ref => Of[p].ref # Null /\ ref[p] = ResolveNew(with, p)
        BY <1>6 DEF OwnRef, Nothing, One
    <1>26. retried = [q \in Waiting(with, p) |-> ResolveStored(with, q)] BY <1>7 DEF Retried
    <1>27. /\ GoodRefs(y)
           /\ \A q \in DOMAIN y.refs : Of[q].bot = b => RefMet(y, q)
           /\ \A q \in DOMAIN t.writes.refs : Of[q].bot = b
        BY <1>2, <1>10, <1>12, <1>16, <1>26, <1>17, <1>19, <1>20, <1>21, <1>22, <1>23, <1>24, <1>25,
           InsertedRefs
    <1>28. BotLocks(b) \subseteq t.locks BY <1>10
    <1>29. Adds(db, t, r, s)
        BY <1>1, <1>2, <1>10, <1>11, <1>13, <1>14, <1>15, <1>27, <1>28 DEF Adds
    <1>30. Stands(db, t, r, "written") BY <1>13, <1>29 DEF Stands, Wrote
    <1>31. Free(r, t.locks) BY <1>8, <1>10, <1>11 DEF Free, IngestInv, Exclusive
    <1>32. "written" \in Running BY DEF Running
    <1> QED BY <1>8, <1>9, <1>30, <1>31, <1>32, RunsStep

-------------------------------------------------------------------------------
(* Every reachable state.                                                  *)

\* Nothing is stored at first.
LEMMA IngestInitInv == IngestInit => IngestInv
    <1> SUFFICES ASSUME IngestInit PROVE IngestInv OBVIOUS
    <1>1. db = NoRows /\ state = [r \in Requests |-> "idle"] /\ tx = Nothing BY DEF IngestInit
    <1>2. DOMAIN db.rows = {} /\ DOMAIN db.refs = {} /\ DOMAIN db.answers = {}
        BY <1>1 DEF NoRows, Rows, Nothing
    <1>3. GoodRows(db) /\ KeysApart(db) /\ GoodRefs(db) /\ AnswersMet(db)
        BY <1>2 DEF GoodRows, KeysApart, GoodRefs, AnswersMet
    <1>4. GoodDb(db) BY <1>2, <1>3 DEF GoodDb
    <1>5. Open = {} /\ state \in [Requests -> States] /\ \A r \in Requests : state[r] \notin Running
        BY <1>1 DEF Open, Nothing, States, Running
    <1> QED BY <1>4, <1>5 DEF IngestInv, Exclusive, Standing

\* A stutter changes nothing.
LEMMA IngestUnchanged == IngestInv /\ UNCHANGED ingestVars => IngestInv'
    BY DEF IngestInv, ingestVars, Exclusive, Standing, Open

\* Every step keeps the invariant.
LEMMA IngestStep == IngestInv /\ [IngestNext]_ingestVars => IngestInv'
    <1> SUFFICES ASSUME IngestInv, [IngestNext]_ingestVars PROVE IngestInv' OBVIOUS
    <1>1. CASE UNCHANGED ingestVars BY <1>1, IngestUnchanged
    <1>2. ASSUME NEW r \in Requests, Look(r) PROVE IngestInv' BY <1>2, LookStep
    <1>3. ASSUME NEW r \in Requests, Report(r) PROVE IngestInv' BY <1>3, ReportStep
    <1>4. ASSUME NEW r \in Requests, Enliven(r) PROVE IngestInv' BY <1>4, EnlivenStep
    <1>5. ASSUME NEW r \in Requests, Insert(r) PROVE IngestInv' BY <1>5, InsertStep
    <1>6. ASSUME NEW r \in Requests, Clash(r) PROVE IngestInv' BY <1>6, ClashStep
    <1>7. ASSUME NEW r \in Requests, Recompute(r) PROVE IngestInv' BY <1>7, RecomputeStep
    <1>8. ASSUME NEW r \in Requests, Commit(r) PROVE IngestInv' BY <1>8, CommitStep
    <1>9. ASSUME NEW r \in Requests, Abort(r) PROVE IngestInv' BY <1>9, AbortStep
    <1> QED BY <1>1, <1>2, <1>3, <1>4, <1>5, <1>6, <1>7, <1>8, <1>9 DEF IngestNext, Goes

\* In every state the tables are in order, the locks of two transactions are
\* apart, and each transaction still knows what it read to be so.
THEOREM IngestInvariant == IngestSpec => []IngestInv
    <1> QED BY IngestInitInv, IngestStep, PTL DEF IngestSpec

\* References find their targets and reports their triggers, in whatever order
\* the bot's rows were stored.
THEOREM ReferencesAlwaysMeet == IngestSpec => []ReferencesMeet
    <1>1. IngestInv => ReferencesMeet
        <2> SUFFICES ASSUME IngestInv PROVE ReferencesMeet OBVIOUS
        <2>1. /\ AnswersMet(db)
              /\ \A p \in DOMAIN db.refs : RefMet(db, p)
            BY DEF IngestInv, GoodDb
        <2> QED BY <2>1 DEF ReferencesMeet, AnswersMet, RefMet, Triggered
    <1> QED BY <1>1, IngestInvariant, PTL

-------------------------------------------------------------------------------
(* Sources and messages.                                                   *)

Timed(o, q) == Null \notin {Of[o].time, Of[q].time, Fingerprint(o)}
SameMessage(o, q) == Fingerprint(o) = Fingerprint(q) /\ Of[o].time = Of[q].time

\* What SourceIsMessage says, of any tables, less the keys.
OneSource(x) ==
    \A o, q \in DOMAIN x.rows :
        Timed(o, q) => /\ (SourceOf(x, o) = SourceOf(x, q)) <=> SameMessage(o, q)
                       /\ (o # q /\ Of[o].bot = Of[q].bot) => ~SameMessage(o, q)

\* The same of an observation p that is to be stored under the source s.
Apart(x, p, s) ==
    \A o \in DOMAIN x.rows :
        Timed(o, p) => /\ (SourceOf(x, o) = s) <=> SameMessage(o, p)
                       /\ Of[o].bot = Of[p].bot => ~SameMessage(o, p)

\* A takeover keeps the time of a strong identity.
Timely(x) == \A o \in DOMAIN x.rows : Fingerprint(o) # Null => Current(x, o).time = Of[o].time

\* What a transaction is about to store is placed so.
Placed(x, t) ==
    \A o \in DOMAIN t.writes.rows \ DOMAIN x.rows : Apart(x, o, t.writes.rows[o].source)

SourceInv ==
    /\ OneSource(db) /\ Timely(db)
    /\ \A r \in Open : state[r] = "written" => Placed(db, tx[r])

\* A number comes with a time, spelled out.
LEMMA SameFingerprintTimed ==
    ASSUME TimedIdentities, NEW p \in Events, Fingerprint(p) # Null
    PROVE  Of[p].time # Null
    BY DEF TimedIdentities

\* No observation of its bot is of the message of p if none was found.
LEMMA FreshIsApart ==
    ASSUME TimedIdentities, OneMessagePerIdentity, NEW x, GoodRows(x), Timely(x),
           NEW p \in Events, Unknown(x, p), NEW o \in DOMAIN x.rows, Timed(o, p), Of[o].bot = Of[p].bot
    PROVE  ~SameMessage(o, p)
    <1> SUFFICES ASSUME SameMessage(o, p) PROVE FALSE OBVIOUS
    <1>1. /\ Fingerprint(o) # Null /\ Fingerprint(o) = Fingerprint(p)
          /\ Of[o].time = Of[p].time /\ Of[p].time # Null
        BY DEF SameMessage, Timed
    <1>2. o \in Events /\ Fingerprint(SourceOf(x, o)) = Fingerprint(o) BY DEF GoodRows
    <1>3. Of[o].msg = Of[p].msg BY <1>1, <1>2 DEF OneMessagePerIdentity
    <1>4. Current(x, o).time = Of[p].time BY <1>1 DEF Timely
    <1>5. o \in SameStrong(x, p) BY <1>1, <1>2, <1>3, <1>4 DEF SameStrong, SeenBy
    <1> QED BY <1>5 DEF Unknown

\* The observations of a source of a timed number carry its time.
LEMMA OneTime ==
    ASSUME TimedIdentities, NEW x, GoodRows(x), OneSource(x), Timely(x),
           NEW o \in DOMAIN x.rows, Fingerprint(o) # Null, NEW q \in ObservationsOf(x, SourceOf(x, o))
    PROVE  Current(x, q).time = Of[o].time /\ Of[q].time = Of[o].time /\ Of[o].time # Null
           /\ Fingerprint(q) = Fingerprint(o)
    <1>1. q \in DOMAIN x.rows /\ SourceOf(x, q) = SourceOf(x, o) BY DEF ObservationsOf
    <1>2. Fingerprint(q) = Fingerprint(o) /\ q \in Events /\ o \in Events BY <1>1 DEF GoodRows
    <1>3. Of[q].time # Null /\ Of[o].time # Null BY <1>2, SameFingerprintTimed
    <1>4. SameMessage(o, q) BY <1>1, <1>3 DEF OneSource, Timed
    <1>5. Current(x, q).time = Of[q].time BY <1>1, <1>2 DEF Timely
    <1> QED BY <1>2, <1>3, <1>4, <1>5 DEF SameMessage

\* Of the source of a stored observation of the message, p is a compatible one, ...
LEMMA StoredIsCompatible ==
    ASSUME TimedIdentities, OneMessagePerIdentity, NEW x, GoodRows(x), OneSource(x), Timely(x),
           NEW p \in Events, Unknown(x, p), NEW o \in DOMAIN x.rows, Timed(o, p), SameMessage(o, p)
    PROVE  SourceOf(x, o) \in Compatible(x, p)
    <1>1. PICK s : s = SourceOf(x, o) OBVIOUS
    <1>2. /\ Fingerprint(o) # Null /\ Fingerprint(p) = Fingerprint(o) /\ Of[p].time = Of[o].time
          /\ Of[p].time # Null
        BY DEF Timed, SameMessage
    <1>3. s \in Sources(x) /\ Fingerprint(s) = Fingerprint(p) BY <1>1, <1>2 DEF Sources, GoodRows
    <1>4. \A q \in ObservationsOf(x, s) :
              /\ Current(x, q).time = Of[p].time /\ Of[q].time = Of[p].time
              /\ Fingerprint(q) = Fingerprint(p)
        BY <1>1, <1>2, OneTime
    <1>5. ASSUME NEW q \in ObservationsOf(x, s) PROVE Of[q].bot # Of[p].bot
        <2>1. SameMessage(q, p) /\ Timed(q, p) /\ q \in DOMAIN x.rows
            BY <1>2, <1>4 DEF SameMessage, Timed, ObservationsOf
        <2> QED BY <2>1, FreshIsApart
    <1>6. PICK times : times = {Current(x, q).time : q \in ObservationsOf(x, s)} OBVIOUS
    <1>7. times \subseteq {Of[p].time} BY <1>4, <1>6
    <1>8. /\ \A c, d \in times \ {Null} : c = d
          /\ times \ {Null} \in {{}, {Of[p].time}}
          /\ Null \notin times
        BY <1>2, <1>7
    <1>9. s \in Compatible(x, p) BY <1>2, <1>3, <1>5, <1>6, <1>8 DEF Compatible
    <1> QED BY <1>1, <1>9

\* ... and a compatible source has observations of the message only.
LEMMA CompatibleIsSame ==
    ASSUME TimedIdentities, NEW x, GoodRows(x), OneSource(x), Timely(x),
           NEW p \in Events, Of[p].time # Null, NEW o \in DOMAIN x.rows, SourceOf(x, o) \in Compatible(x, p)
    PROVE  SameMessage(o, p) /\ Timed(o, p)
    <1>1. PICK s : s = SourceOf(x, o) OBVIOUS
    <1>2. PICK times : times = {Current(x, q).time : q \in ObservationsOf(x, s)} OBVIOUS
    <1>3. /\ Fingerprint(p) # Null /\ Fingerprint(s) = Fingerprint(p)
          /\ times \ {Null} \in {{}, {Of[p].time}}
        BY <1>1, <1>2 DEF Compatible
    <1>4. Fingerprint(o) = Fingerprint(p) /\ o \in Events BY <1>1, <1>3 DEF GoodRows
    <1>5. Of[o].time # Null /\ Current(x, o).time = Of[o].time
        BY <1>3, <1>4, SameFingerprintTimed DEF Timely
    <1>6. Of[o].time \in times \ {Null} BY <1>1, <1>2, <1>5 DEF ObservationsOf
    <1>7. Of[o].time = Of[p].time BY <1>3, <1>6
    <1> QED BY <1>3, <1>4, <1>5, <1>7 DEF SameMessage, Timed

\* The source chosen for a new observation is that of its message.
LEMMA ChosenIsApart ==
    ASSUME TimedIdentities, OneMessagePerIdentity, NEW x, GoodRows(x), OneSource(x), Timely(x),
           NEW p \in Events, Unknown(x, p), p \notin DOMAIN x.rows
    PROVE  Apart(x, p, EnsureSource(x, p))
    <1>1. PICK s : s = EnsureSource(x, p) OBVIOUS
    <1>2. ASSUME NEW o \in DOMAIN x.rows, Timed(o, p), SameMessage(o, p) PROVE SourceOf(x, o) = s
        <2>1. PICK c : c = SourceOf(x, o) OBVIOUS
        <2>2. c \in Compatible(x, p) /\ c \in Events BY <1>2, <2>1, StoredIsCompatible DEF GoodRows
        <2>3. ASSUME NEW d \in Compatible(x, p) PROVE d = c
            <3>1. PICK q \in DOMAIN x.rows : SourceOf(x, q) = d BY <2>3 DEF Compatible, Sources
            <3>2. SameMessage(q, p) /\ Timed(q, p) BY <1>2, <2>3, <3>1, CompatibleIsSame DEF Timed
            <3>3. SameMessage(o, q) /\ Timed(o, q) BY <1>2, <3>2 DEF SameMessage, Timed
            <3> QED BY <2>1, <3>1, <3>3 DEF OneSource
        <2>4. Compatible(x, p) = {c} BY <2>2, <2>3
        <2>5. EnsureSource(x, p) = CHOOSE d \in Events : Compatible(x, p) = {d}
            BY <2>2, <2>4 DEF EnsureSource
        <2>6. \A d \in Events : Compatible(x, p) = {d} <=> d = c BY <2>4
        <2>7. (CHOOSE d \in Events : Compatible(x, p) = {d}) = c BY <2>2, <2>6
        <2> QED BY <1>1, <2>1, <2>5, <2>7
    <1>3. ASSUME NEW o \in DOMAIN x.rows, Timed(o, p), SourceOf(x, o) = s PROVE SameMessage(o, p)
        <2>1. s # p BY <1>3 DEF GoodRows
        <2>2. s \in Compatible(x, p) BY <1>1, <2>1, SourceChosen
        <2> QED BY <1>3, <2>2, CompatibleIsSame DEF Timed
    <1> QED BY <1>1, <1>2, <1>3, FreshIsApart DEF Apart

\* What is new in the writes of a transaction is its own observation.
LEMMA WroteNew ==
    ASSUME NEW x, NEW t, NEW r, Wrote(x, t, r), NEW o \in DOMAIN t.writes.rows \ DOMAIN x.rows
    PROVE  o = r[1] /\ Adds(x, t, r, t.writes.rows[o].source)
    <1>1. ASSUME NEW s, Adds(x, t, r, s) PROVE o = r[1] /\ t.writes.rows[o].source = s
        BY <1>1 DEF Adds, Takes, One
    <1>2. ASSUME NEW v, NEW s, Revives(x, t, r, v, s) PROVE FALSE
        <2>1. DOMAIN t.writes.rows = {v} /\ v \in DOMAIN x.rows BY <1>2 DEF Revives, Takes, One
        <2> QED BY <2>1
    <1>3. ASSUME Reports(x, t, r) PROVE FALSE BY <1>3 DEF Reports
    <1> QED BY <1>1, <1>2, <1>3 DEF Wrote

\* The new row that a commit leaves is of a message and a bot that the transaction
\* held; the other rows keep their sources.
LEMMA CommitNew ==
    ASSUME NEW x, NEW t, NEW r, Wrote(x, t, r), NEW o \in DOMAIN Over(t.writes, x).rows \ DOMAIN x.rows
    PROVE  /\ o \in DOMAIN t.writes.rows
           /\ SourceOf(Over(t.writes, x), o) = t.writes.rows[o].source
           /\ o = r[1] /\ Adds(x, t, r, t.writes.rows[o].source)
    <1>1. PICK y : y = Over(t.writes, x) OBVIOUS
    <1>2. y.rows = Upon(t.writes.rows, x.rows) BY <1>1, OverFields
    <1>3. o \in DOMAIN t.writes.rows /\ y.rows[o] = t.writes.rows[o] BY <1>1, <1>2 DEF Upon
    <1> QED BY <1>1, <1>3, WroteNew DEF SourceOf

\* It is still when another transaction commits, ...
LEMMA PlacedStays ==
    ASSUME NEW x, NEW t, NEW r, Wrote(x, t, r), GoodDb(x),
           NEW u, t.locks \cap u.locks = {}, NEW q, Wrote(x, u, q), Placed(x, u)
    PROVE  Placed(Over(t.writes, x), u)
    <1>1. PICK y : y = Over(t.writes, x) OBVIOUS
    <1>2. Grows(x, y) /\ GoodDb(y) BY <1>1, WroteGrows, CommitGood
    <1>3. SUFFICES ASSUME NEW p \in DOMAIN u.writes.rows, p \notin DOMAIN y.rows,
                          NEW s, s = u.writes.rows[p].source
                   PROVE  Apart(y, p, s)
        BY <1>1 DEF Placed
    <1>4. p \notin DOMAIN x.rows BY <1>2, <1>3 DEF Grows
    <1>5. Apart(x, p, s) /\ p = q[1] /\ Adds(x, u, q, s) BY <1>3, <1>4, WroteNew DEF Placed
    <1>6. /\ MessageLocks(p) \subseteq u.locks /\ BotLocks(Of[p].bot) \subseteq u.locks
          /\ Fingerprint(s) = Fingerprint(p)
        BY <1>5 DEF Adds, Takes
    <1>7. ASSUME NEW o \in DOMAIN y.rows, Timed(o, p)
          PROVE  /\ (SourceOf(y, o) = s) <=> SameMessage(o, p)
                 /\ Of[o].bot = Of[p].bot => ~SameMessage(o, p)
        <2>1. CASE o \in DOMAIN x.rows
            <3>1. SourceOf(y, o) = SourceOf(x, o) BY <2>1, <1>2 DEF Grows
            <3> QED BY <2>1, <3>1, <1>5, <1>7 DEF Apart
        <2>2. CASE o \notin DOMAIN x.rows
            <3>1. o = r[1] /\ Adds(x, t, r, t.writes.rows[o].source) BY <2>2, <1>1, <1>7, CommitNew
            <3>2. MessageLocks(o) \subseteq t.locks /\ BotLocks(Of[o].bot) \subseteq t.locks
                BY <3>1 DEF Adds, Takes
            <3>3. Fingerprint(o) # Fingerprint(p)
                <4>1. SUFFICES ASSUME Fingerprint(o) = Fingerprint(p) PROVE FALSE OBVIOUS
                <4>2. MessageLocks(o) = MessageLocks(p) /\ MessageLocks(o) # {}
                    BY <4>1, <1>7, OneNumberOneLock DEF Timed
                <4> QED BY <4>2, <3>2, <1>6
            <3>4. Of[o].bot # Of[p].bot BY <3>2, <1>6, BotsDiffer
            <3>5. SourceOf(y, o) # s
                <4>1. Fingerprint(SourceOf(y, o)) = Fingerprint(o) BY <1>2 DEF GoodDb, GoodRows
                <4> QED BY <4>1, <3>3, <1>6
            <3> QED BY <3>3, <3>4, <3>5 DEF SameMessage
        <2> QED BY <2>1, <2>2
    <1> QED BY <1>7 DEF Apart

\* ... so one source per message is kept, ...
LEMMA CommitSource ==
    ASSUME TimedIdentities, NEW x, NEW t, NEW r, Wrote(x, t, r), GoodDb(x), Placed(x, t),
           OneSource(x)
    PROVE  OneSource(Over(t.writes, x))
    <1>1. PICK y : y = Over(t.writes, x) OBVIOUS
    <1>2. Grows(x, y) /\ GoodDb(y) BY <1>1, WroteGrows, CommitGood
    <1>3. GoodRows(y) BY <1>2 DEF GoodDb
    <1>4. \A o \in DOMAIN x.rows : o \in DOMAIN y.rows /\ SourceOf(y, o) = SourceOf(x, o)
        BY <1>2 DEF Grows
    <1>5. ASSUME NEW p \in DOMAIN y.rows, p \notin DOMAIN x.rows
          PROVE  p = r[1] /\ Apart(x, p, SourceOf(y, p))
        BY <1>1, <1>5, CommitNew DEF Placed
    <1>6. ASSUME NEW o \in DOMAIN y.rows, NEW q \in DOMAIN y.rows, Timed(o, q)
          PROVE  /\ (SourceOf(y, o) = SourceOf(y, q)) <=> SameMessage(o, q)
                 /\ (o # q /\ Of[o].bot = Of[q].bot) => ~SameMessage(o, q)
        <2>1. CASE Fingerprint(q) # Fingerprint(o)
            <3>1. SourceOf(y, o) # SourceOf(y, q) BY <2>1, <1>3 DEF GoodRows
            <3> QED BY <2>1, <3>1 DEF SameMessage
        <2>2. CASE Fingerprint(q) = Fingerprint(o)
            <3>1. Timed(q, o) /\ (SameMessage(o, q) <=> SameMessage(q, o))
                BY <2>2, <1>6 DEF Timed, SameMessage
            <3>2. CASE o \in DOMAIN x.rows /\ q \in DOMAIN x.rows BY <3>2, <1>4, <1>6 DEF OneSource
            <3>3. CASE o \in DOMAIN x.rows /\ q \notin DOMAIN x.rows
                <4>1. Apart(x, q, SourceOf(y, q)) BY <3>3, <1>5
                <4> QED BY <4>1, <3>3, <1>4, <1>6 DEF Apart
            <3>4. CASE o \notin DOMAIN x.rows /\ q \in DOMAIN x.rows
                <4>1. Apart(x, o, SourceOf(y, o)) BY <3>4, <1>5
                <4> QED BY <4>1, <3>1, <3>4, <1>4 DEF Apart
            <3>5. CASE o \notin DOMAIN x.rows /\ q \notin DOMAIN x.rows
                <4>1. o = q BY <3>5, <1>5
                <4> QED BY <4>1 DEF SameMessage
            <3> QED BY <3>2, <3>3, <3>4, <3>5
        <2> QED BY <2>1, <2>2
    <1> QED BY <1>1, <1>6 DEF OneSource

\* ... and the times of the rows.
LEMMA CommitTimely ==
    ASSUME TimedIdentities, NEW x, NEW t, NEW r, Wrote(x, t, r), Timely(x)
    PROVE  Timely(Over(t.writes, x))
    <1>1. PICK y : y = Over(t.writes, x) OBVIOUS
    <1>2. PICK p : p = r[1] OBVIOUS
    <1>3. ASSUME NEW o, NEW s, o \in Events, p \in Events, Rewrites(x, y, o, s, p),
                 Fingerprint(o) = Fingerprint(p), ~Differ(Of[o].time, Of[p].time)
          PROVE  Timely(y)
        <2>1. Current(y, o) = Of[p] BY <1>3 DEF Rewrites, Current
        <2>2. ASSUME Fingerprint(o) # Null PROVE Of[p].time = Of[o].time
            BY <1>3, <2>2, SameFingerprintTimed DEF Differ
        <2>3. \A q \in DOMAIN y.rows : q # o => q \in DOMAIN x.rows /\ Current(y, q) = Current(x, q)
            BY <1>3 DEF Rewrites, Current
        <2> QED BY <2>1, <2>2, <2>3 DEF Timely
    <1>4. ASSUME NEW s, Adds(x, t, r, s) PROVE Timely(y)
        <2>1. Rewrites(x, y, p, s, p) BY <1>1, <1>2, <1>4, TakesRewrites DEF Adds
        <2>2. p \in Events BY <1>2, <1>4 DEF Adds, Takes
        <2> QED BY <2>1, <2>2, <1>3 DEF Differ
    <1>5. ASSUME NEW o, NEW s, Revives(x, t, r, o, s) PROVE Timely(y)
        <2>1. Rewrites(x, y, o, s, p) BY <1>1, <1>2, <1>5, TakesRewrites DEF Revives
        <2>2. /\ {o, p} \subseteq Events /\ Fingerprint(o) = Fingerprint(p)
              /\ ~Differ(Of[o].time, Of[p].time)
            BY <1>2, <1>5 DEF Revives, Takes
        <2> QED BY <2>1, <2>2, <1>3
    <1>6. ASSUME Reports(x, t, r) PROVE Timely(y)
        <2>1. SameTable(x.rows, y.rows) BY <1>1, <1>6, ReportsKeep
        <2> QED BY <2>1 DEF SameTable, Timely, Current
    <1> QED BY <1>1, <1>4, <1>5, <1>6 DEF Wrote

\* What a step that runs makes of a transaction, of which the tables stay as they are.
LEMMA SourceRuns ==
    ASSUME IngestInv, SourceInv, NEW r \in Requests, NEW where, NEW t, Runs(r, where, t), db' = db,
           where = "written" => Placed(db, t)
    PROVE  SourceInv'
    <1>1. /\ DOMAIN tx' = {r} \cup DOMAIN tx /\ tx'[r] = t
          /\ \A q \in DOMAIN tx : q # r => tx'[q] = tx[q]
        BY DEF Runs, Upon, One
    <1>2. state'[r] = where /\ \A q \in Requests : q # r => state'[q] = state[q]
        BY DEF Runs, IngestInv
    <1>3. DOMAIN tx \subseteq Requests BY DEF IngestInv, Open
    <1>4. ASSUME NEW q \in DOMAIN tx', state'[q] = "written" PROVE Placed(db, tx'[q])
        <2>1. CASE q = r BY <2>1, <1>1, <1>2, <1>4
        <2>2. CASE q # r BY <2>2, <1>1, <1>2, <1>4, <1>3 DEF SourceInv, Open
        <2> QED BY <2>1, <2>2
    <1> QED BY <1>4 DEF SourceInv, Open

\* A transaction that ends without a commit.
LEMMA SourceEnds ==
    ASSUME IngestInv, SourceInv, NEW r \in Requests, NEW where, Ends(r, where), db' = db
    PROVE  SourceInv'
    <1>1. \A q \in DOMAIN tx' : q \in DOMAIN tx /\ tx'[q] = tx[q] /\ state'[q] = state[q]
        BY DEF Ends, Open, IngestInv
    <1> QED BY <1>1 DEF SourceInv, Open

\* Every step keeps one source per message.
LEMMA SourceStep ==
    ASSUME TimedIdentities, OneMessagePerIdentity, IngestInv, SourceInv, [IngestNext]_ingestVars
    PROVE  SourceInv'
    <1>1. CASE UNCHANGED ingestVars BY <1>1 DEF SourceInv, ingestVars, Open
    <1>2. ASSUME NEW r \in Requests, Look(r) PROVE SourceInv'
        <2>1. db' = db BY <1>2 DEF Look
        <2>2. \/ \E t : Runs(r, "looked", t) \/ Runs(r, "found", t)
              \/ \E where : Ends(r, where)
            BY <1>2 DEF Look
        <2> QED BY <2>1, <2>2, SourceRuns, SourceEnds
    <1>3. ASSUME NEW r \in Requests, Report(r) PROVE SourceInv'
        <2>1. PICK a : a = r[1] OBVIOUS
        <2>2. /\ db' = db
              /\ \/ Ends(r, "done") \/ Ends(r, "refused")
                 \/ \E t : Runs(r, "written", t) /\ ReportWrote(db, t, a)
            BY <1>3, <2>1, ReportWrites
        <2>3. \A t : ReportWrote(db, t, a) => Placed(db, t) BY DEF ReportWrote, Placed
        <2> QED BY <2>2, <2>3, SourceRuns, SourceEnds
    <1>4. ASSUME NEW r \in Requests, Enliven(r) PROVE SourceInv'
        <2>1. PICK p : p = r[1] OBVIOUS
        <2>2. PICK o : o = RowFound(db, p) OBVIOUS
        <2>3. PICK s : s = SourceOf(db, o) OBVIOUS
        <2>4. state[r] = "found" /\ SameIdentity(db, p) = {} /\ db' = db
            BY <1>4, <2>1, <2>2, <2>3, EnlivenWrites
        <2>5. PICK t : /\ Runs(r, "written", t) /\ Free(r, t.locks \ tx[r].locks)
                       /\ EnlivenWrote(db, tx[r], t, p, o, s)
            BY <1>4, <2>1, <2>2, <2>3, EnlivenWrites
        <2>6. Found(db, p) /\ GoodRows(db)
            BY <2>1, <2>4 DEF IngestInv, GoodDb, Standing, Stands, Running
        <2>7. o \in Existing(db, p) BY <2>2, <2>4, <2>6 DEF Found, RowFound
        <2>8. o \in DOMAIN db.rows BY <2>4, <2>6, <2>7, ExistingKin DEF Kin
        <2>9. Placed(db, t) BY <2>5, <2>8 DEF EnlivenWrote, Placed, One
        <2> QED BY <2>4, <2>5, <2>9, SourceRuns
    <1>5. ASSUME NEW r \in Requests, Insert(r) PROVE SourceInv'
        <2>1. PICK p : p = r[1] OBVIOUS
        <2>2. PICK s : s = EnsureSource(db, p) OBVIOUS
        <2>3. state[r] = "looked" /\ SameIdentity(db, p) = {} /\ db' = db
            BY <1>5, <2>1, <2>2, InsertWrites
        <2>4. PICK t : Runs(r, "written", t) /\ InsertWrote(db, tx[r], t, p, s)
            BY <1>5, <2>1, <2>2, InsertWrites
        <2>5. p \in Events /\ Unknown(db, p) /\ GoodRows(db)
            BY <2>1, <2>3 DEF IngestInv, GoodDb, Standing, Stands, Looking, Running
        <2>6. p \notin DOMAIN db.rows BY <2>3, UnknownIsNew
        <2>7. Apart(db, p, s) BY <2>2, <2>5, <2>6, ChosenIsApart DEF SourceInv
        <2>8. Placed(db, t) BY <2>4, <2>7 DEF InsertWrote, Placed, One
        <2> QED BY <2>3, <2>4, <2>8, SourceRuns
    <1>6. ASSUME NEW r \in Requests, Clash(r) PROVE SourceInv'
        <2>1. db' = db /\ \E where : Ends(r, where) BY <1>6 DEF Clash
        <2> QED BY <2>1, SourceEnds
    <1>7. ASSUME NEW r \in Requests, Recompute(r) PROVE SourceInv'
        <2>1. PICK s : s = Due(r) OBVIOUS
        <2>2. db' = db /\ state[r] = "written" BY <1>7, <2>1, RecomputeWrites
        <2>3. PICK t : Runs(r, "written", t) /\ RecomputeWrote(db, tx[r], t, s)
            BY <1>7, <2>1, RecomputeWrites
        <2>4. Placed(db, tx[r]) BY <2>2 DEF SourceInv, IngestInv, Running
        <2>5. Placed(db, t) BY <2>3, <2>4 DEF RecomputeWrote, Placed
        <2> QED BY <2>2, <2>3, <2>5, SourceRuns
    <1>8. ASSUME NEW r \in Requests, Commit(r) PROVE SourceInv'
        <2>1. state[r] = "written" /\ Ends(r, "done") /\ db' = Over(tx[r].writes, db)
            BY <1>8 DEF Commit, Seen
        <2>2. r \in Open /\ Wrote(db, tx[r], r) /\ GoodDb(db) /\ Placed(db, tx[r])
            BY <2>1 DEF IngestInv, SourceInv, Running, Standing, Stands
        <2>3. OneSource(db') BY <2>1, <2>2, CommitSource DEF SourceInv
        <2>4. Timely(db') BY <2>1, <2>2, CommitTimely DEF SourceInv
        <2>5. ASSUME NEW q \in Open', state'[q] = "written" PROVE Placed(db', tx'[q])
            <3>1. q \in Open \ {r} /\ tx'[q] = tx[q] /\ state'[q] = state[q]
                BY <2>1, <2>5 DEF Ends, Open, IngestInv
            <3>2. Wrote(db, tx[q], q) /\ Placed(db, tx[q]) /\ tx[r].locks \cap tx[q].locks = {}
                BY <2>2, <2>5, <3>1 DEF IngestInv, SourceInv, Exclusive, Standing, Stands
            <3>3. Placed(Over(tx[r].writes, db), tx[q]) BY <2>2, <3>2, PlacedStays
            <3> QED BY <2>1, <3>1, <3>3
        <2> QED BY <2>3, <2>4, <2>5 DEF SourceInv
    <1>9. ASSUME NEW r \in Requests, Abort(r) PROVE SourceInv'
        <2>1. db' = db /\ Ends(r, "idle") BY <1>9 DEF Abort
        <2> QED BY <2>1, SourceEnds
    <1> QED BY <1>1, <1>2, <1>3, <1>4, <1>5, <1>6, <1>7, <1>8, <1>9 DEF IngestNext, Goes

\* If a number comes with the platform's time, and is one message at a time, then
\* what is stored together is one message, and a bot's message is stored once.
THEOREM SourceIsAlwaysMessage ==
    ASSUME TimedIdentities, OneMessagePerIdentity
    PROVE  IngestSpec => []SourceIsMessage
    <1>1. IngestInit => SourceInv
        <2> SUFFICES ASSUME IngestInit PROVE SourceInv OBVIOUS
        <2>1. DOMAIN db.rows = {} /\ Open = {} BY DEF IngestInit, NoRows, Rows, Nothing, Open
        <2> QED BY <2>1 DEF SourceInv, OneSource, Timely
    <1>2. IngestInv /\ SourceInv => SourceIsMessage
        <2> SUFFICES ASSUME IngestInv, SourceInv PROVE SourceIsMessage OBVIOUS
        <2>1. OneSource(db) /\ KeysApart(db) BY DEF IngestInv, SourceInv, GoodDb
        <2> QED BY <2>1 DEF SourceIsMessage, OneSource, KeysApart, Timed, SameMessage
    <1>3. IngestInv /\ IngestInv' /\ SourceInv /\ [IngestNext]_ingestVars => SourceInv'
        BY SourceStep
    <1> QED BY <1>1, <1>2, <1>3, IngestInvariant, PTL DEF IngestSpec

-------------------------------------------------------------------------------
(* Decisions.                                                              *)

\* The stored messages that have the id q refers to, whenever they were sent; ...
Meant(x, q) ==
    {SourceOf(x, o) : o \in {o \in SeenBy(x, Of[q].bot) :
        /\ IsReply(q) => o # q
        /\ Of[o].msg = Of[q].ref /\ Of[o].kind = Of[q].kind}}

\* ... those it may mean by its own time or by that of its source, ...
Own(x, q) == Targets(x, q, Of[q].at)
Sourced(x, q) == Targets(x, q, Of[SourceOf(x, q)].at)

\* ... which are several for a reference that is ambiguous.
Several(x, q) == \E c, d \in Own(x, q) \cup Sourced(x, q) : c # d
Blurred(x, refs) == \A q \in DOMAIN refs : refs[q].status = "ambiguous" => Several(x, q)

\* Torn, in what a transaction sees.
TornLink(x, q) == Several(x, q) /\ Own(x, q) # Sourced(x, q)
TornIn(x, s) == \E q \in Links(x, s) : TornLink(x, q)

\* Decided is what somebody may act on.
Acts(x, decisions) == \A s \in DOMAIN decisions : Acting(x, s) # {}

Hist(x, s) == \E o \in ObservationsOf(x, s) : ~Of[o].live
Excused(x, s) == Hist(x, s) \/ TornIn(x, s)
Right(x, s) ==
    s \in Sources(x) =>
        \/ Acting(x, s) = {}
        \/ Excused(x, s)
        \/ s \in DOMAIN x.decisions /\ x.decisions[s] = Policy(x, s)

\* The report a is of a message that the link p of s may mean.
Means(a, s, p) ==
    /\ Of[a].success /\ Of[a].bot = Of[p].bot /\ Of[a].msg = Of[p].ref
    /\ Of[a].kind = Of[s].kind /\ Of[a].at <= Of[s].at

\* The writes w to x change nothing the decision about s is taken on.
Untouched(x, w, s) ==
    /\ \A o \in DOMAIN w.rows : w.rows[o].source # s
    /\ \A p \in DOMAIN w.refs :
          (IsReply(p) /\ SourceOf(Over(w, x), p) = s) =>
              /\ p \in DOMAIN x.refs
              /\ w.refs[p].to = x.refs[p].to /\ w.refs[p].status = x.refs[p].status
    /\ \A a \in DOMAIN w.answers \ DOMAIN x.answers, p \in Links(x, s) : ~Means(a, s, p)
    /\ s \notin DOMAIN w.decisions

\* A transaction is still to decide about s, has, or leaves what was decided.
Settled(x, t, s) ==
    \/ s \in t.todo
    \/ DecisionLocks(s) \subseteq t.locks /\ Right(Over(t.writes, x), s)
    \/ Untouched(x, t.writes, s)
    \/ Excused(Over(t.writes, x), s)

Settling(x, t) ==
    /\ Blurred(Over(t.writes, x), t.writes.refs)
    /\ Acts(Over(t.writes, x), t.writes.decisions)
    /\ \A s \in Events : Settled(x, t, s)

DecisionInv ==
    /\ Blurred(db, db.refs) /\ Acts(db, db.decisions)
    /\ \A s \in Events : Right(db, s)
    /\ \A r \in Open : state[r] = "written" => Settling(db, tx[r])

\* What the decision about s is taken on is the same in v and in z.
SameInputs(v, z, s) ==
    /\ ObservationsOf(v, s) = ObservationsOf(z, s)
    /\ \A o \in ObservationsOf(v, s) : v.rows[o].packet = z.rows[o].packet
    /\ Links(v, s) = Links(z, s)
    /\ \A p \in Links(v, s) : /\ v.refs[p].to = z.refs[p].to /\ v.refs[p].status = z.refs[p].status
                              /\ AnswersTo(v, s, p) = AnswersTo(z, s, p)
    /\ SendersOf(v, RepliedTo(v, s)) = SendersOf(z, RepliedTo(v, s))

\* The same inputs, the same decision.
LEMMA SameDecision ==
    ASSUME NEW v, NEW z, NEW s, SameInputs(v, z, s)
    PROVE  Acting(v, s) = Acting(z, s) /\ Policy(v, s) = Policy(z, s)
    <1>1. \A o \in ObservationsOf(v, s) : Current(v, o) = Current(z, o) BY DEF SameInputs, Current
    <1>2. ObservationsOf(v, s) = ObservationsOf(z, s) BY DEF SameInputs
    <1>3. Acting(v, s) = Acting(z, s) BY <1>1, <1>2 DEF Acting
    <1>4. Accepted(v, s) = Accepted(z, s)
        <2>1. \A o \in Acting(v, s) : v.rows[o].packet = z.rows[o].packet BY DEF Acting, SameInputs
        <2> QED BY <2>1, <1>3 DEF Accepted
    <1>5. ReplyContext(v, s) = ReplyContext(z, s)
        <2>1. Links(v, s) = Links(z, s) BY DEF SameInputs
        <2>2. \A p \in Links(v, s) : /\ v.refs[p].to = z.refs[p].to /\ v.refs[p].status = z.refs[p].status
                                     /\ AnswersTo(v, s, p) = AnswersTo(z, s, p)
            BY DEF SameInputs
        <2>3. Unclear(v, s) = Unclear(z, s) BY <2>1, <2>2 DEF Unclear
        <2>4. RepliedTo(v, s) = RepliedTo(z, s) BY <2>1, <2>2 DEF RepliedTo
        <2>5. UNION {AnswersTo(v, s, p) : p \in Links(v, s)} = UNION {AnswersTo(z, s, p) : p \in Links(z, s)}
            BY <2>1, <2>2
        <2>6. SendersOf(v, RepliedTo(v, s)) = SendersOf(z, RepliedTo(z, s)) BY <2>4 DEF SameInputs
        <2> QED BY <2>1, <2>3, <2>4, <2>5, <2>6 DEF ReplyContext
    <1>6. Policy(v, s) = Policy(z, s) BY <1>4, <1>5 DEF Policy
    <1> QED BY <1>3, <1>6

\* A decision stays right while its inputs stay.
LEMMA SameRight ==
    ASSUME NEW v, NEW z, NEW s, SameInputs(v, z, s), Right(v, s),
           s \in DOMAIN v.decisions => s \in DOMAIN z.decisions /\ z.decisions[s] = v.decisions[s],
           Excused(v, s) => Excused(z, s)
    PROVE  Right(z, s)
    <1>1. s \in Sources(z) => s \in Sources(v) BY DEF SameInputs, Sources, ObservationsOf
    <1>2. Acting(v, s) = Acting(z, s) /\ Policy(v, s) = Policy(z, s) BY SameDecision
    <1> QED BY <1>1, <1>2 DEF Right

\* The observations of a source have one sender and one kind.
LEMMA SourceAlike ==
    ASSUME NEW x, GoodRows(x), NEW o \in DOMAIN x.rows
    PROVE  Of[SourceOf(x, o)].sender = Of[o].sender /\ Of[SourceOf(x, o)].kind = Of[o].kind
    <1>1. PICK s : s = SourceOf(x, o) OBVIOUS
    <1>2. s = o \/ (Fingerprint(o) # Null /\ Fingerprint(s) = Fingerprint(o)) BY <1>1 DEF GoodRows
    <1> QED BY <1>1, <1>2 DEF Fingerprint

\* Who sent a message can be read from its source.
LEMMA SendersOfSources ==
    ASSUME NEW x, GoodRows(x), NEW T, T \subseteq Sources(x)
    PROVE  SendersOf(x, T) = {Of[c].sender : c \in T}
    <1>1. ASSUME NEW o \in DOMAIN x.rows, SourceOf(x, o) \in T PROVE Of[o].sender \in {Of[c].sender : c \in T}
        BY <1>1, SourceAlike
    <1>2. ASSUME NEW c \in T PROVE c \in DOMAIN x.rows /\ SourceOf(x, c) = c
        BY <1>2 DEF Sources, GoodRows
    <1> QED BY <1>1, <1>2 DEF SendersOf

\* Of the messages with its id, a reference may mean those sent by then.
LEMMA MeantFacts ==
    ASSUME NEW x, NEW q, NEW upto
    PROVE  Targets(x, q, upto) = {d \in Meant(x, q) : Of[d].at <= upto}
    BY DEF Targets, Meant, IsReply

\* They become more, ...
LEMMA MeantGrows ==
    ASSUME NEW x, NEW y, Grows(x, y), NEW q
    PROVE  Meant(x, q) \subseteq Meant(y, q)
    BY DEF Meant, Grows, SeenBy

\* ... so what is several stays so, ...
LEMMA SeveralGrows ==
    ASSUME NEW x, NEW y, Grows(x, y), NEW q \in DOMAIN x.rows, Several(x, q)
    PROVE  Several(y, q)
    <1>1. SourceOf(y, q) = SourceOf(x, q) BY DEF Grows
    <1>2. Meant(x, q) \subseteq Meant(y, q) BY MeantGrows
    <1>3. \A upto : Targets(x, q, upto) \subseteq Targets(y, q, upto) BY <1>2, MeantFacts
    <1>4. Own(x, q) \subseteq Own(y, q) /\ Sourced(x, q) \subseteq Sourced(y, q)
        BY <1>1, <1>3 DEF Own, Sourced
    <1> QED BY <1>4 DEF Several

\* ... and a message between the two times stays between them.
LEMMA TornGrows ==
    ASSUME NEW x, NEW y, Grows(x, y), NEW q \in DOMAIN x.rows, TornLink(x, q)
    PROVE  TornLink(y, q)
    <1>1. SourceOf(y, q) = SourceOf(x, q) BY DEF Grows
    <1>2. Meant(x, q) \subseteq Meant(y, q) BY MeantGrows
    <1>3. PICK a, c : a = Of[q].at /\ c = Of[SourceOf(x, q)].at OBVIOUS
    <1>4. /\ Own(x, q) = {d \in Meant(x, q) : Of[d].at <= a}
          /\ Sourced(x, q) = {d \in Meant(x, q) : Of[d].at <= c}
          /\ Own(y, q) = {d \in Meant(y, q) : Of[d].at <= a}
          /\ Sourced(y, q) = {d \in Meant(y, q) : Of[d].at <= c}
        BY <1>1, <1>3, MeantFacts DEF Own, Sourced
    <1>5. PICK d \in Meant(x, q) : ~(Of[d].at <= a <=> Of[d].at <= c) BY <1>4 DEF TornLink
    <1>6. Own(y, q) # Sourced(y, q) BY <1>2, <1>4, <1>5
    <1> QED BY <1>6, SeveralGrows DEF TornLink

\* What is excepted stays so.
LEMMA ExcusedGrows ==
    ASSUME NEW x, NEW y, Grows(x, y), GoodRefs(x), DOMAIN x.refs \subseteq DOMAIN y.refs,
           NEW s, Excused(x, s)
    PROVE  Excused(y, s)
    <1>1. CASE Hist(x, s) BY <1>1 DEF Grows, Hist, ObservationsOf, Excused
    <1>2. CASE TornIn(x, s)
        <2>1. PICK q \in Links(x, s) : TornLink(x, q) BY <1>2 DEF TornIn
        <2>2. q \in DOMAIN x.refs /\ IsReply(q) /\ SourceOf(x, q) = s BY <2>1 DEF Links
        <2>3. q \in DOMAIN x.rows BY <2>2 DEF GoodRefs
        <2>4. TornLink(y, q) BY <2>1, <2>3, TornGrows
        <2>5. q \in Links(y, s) BY <2>2, <2>3 DEF Links, Grows
        <2> QED BY <2>4, <2>5 DEF TornIn, Excused
    <1> QED BY <1>1, <1>2 DEF Excused

\* The table f is g laid over h.
Laid(f, g, h) ==
    /\ DOMAIN f = DOMAIN g \cup DOMAIN h
    /\ \A k \in DOMAIN g : f[k] = g[k]
    /\ \A k \in DOMAIN h \ DOMAIN g : f[k] = h[k]
AllLaid(v, w, x) ==
    /\ Laid(v.rows, w.rows, x.rows) /\ Laid(v.refs, w.refs, x.refs)
    /\ Laid(v.answers, w.answers, x.answers) /\ Laid(v.decisions, w.decisions, x.decisions)

\* What a transaction sees is its writes, laid over the tables.
LEMMA OverLaid ==
    ASSUME NEW w, NEW x
    PROVE  AllLaid(Over(w, x), w, x)
    <1>1. \A f, g : Laid(Upon(f, g), f, g) BY DEF Laid, Upon
    <1> QED BY <1>1, OverFields DEF AllLaid

\* No writes show nothing.
LEMMA NothingLaid ==
    ASSUME NEW x
    PROVE  AllLaid(x, NoRows, x)
    BY DEF AllLaid, Laid, NoRows, Rows, Nothing

\* Rows that grow do so under the writes of another.
LEMMA GrowsLaid ==
    ASSUME NEW x, NEW y, Grows(x, y), NEW h, NEW v, NEW z, AllLaid(v, h, x), AllLaid(z, h, y)
    PROVE  Grows(v, z)
    <1>1. \A o \in DOMAIN h.rows : v.rows[o] = z.rows[o] BY DEF AllLaid, Laid
    <1>2. /\ DOMAIN v.rows = DOMAIN h.rows \cup DOMAIN x.rows
          /\ DOMAIN z.rows = DOMAIN h.rows \cup DOMAIN y.rows
          /\ \A o \in DOMAIN x.rows \ DOMAIN h.rows : v.rows[o] = x.rows[o]
          /\ \A o \in DOMAIN y.rows \ DOMAIN h.rows : z.rows[o] = y.rows[o]
        BY DEF AllLaid, Laid
    <1> QED BY <1>1, <1>2 DEF Grows, SourceOf

\* Writes w that leave s alone do so for what is laid over them.
LEMMA InputsKept ==
    ASSUME NEW x, NEW w, NEW y, y = Over(w, x), NEW h, NEW v, NEW z, NEW s,
           AllLaid(v, h, x), AllLaid(z, h, y),
           GoodRefs(x), GoodRefs(y), GoodRows(v), GoodRows(z), GoodRefs(v),
           Grows(x, y), Grows(x, v), Grows(y, z), Untouched(x, w, s),
           \A a \in DOMAIN w.answers \ DOMAIN x.answers, p \in DOMAIN h.refs : Of[a].bot # Of[p].bot
    PROVE  SameInputs(v, z, s)
    <1>1. AllLaid(y, w, x) BY OverLaid
    <1>2. Grows(v, z) BY GrowsLaid
    <1>3. ASSUME NEW o PROVE o \in ObservationsOf(v, s) <=> o \in ObservationsOf(z, s)
        <2>1. ASSUME o \in ObservationsOf(v, s) PROVE o \in ObservationsOf(z, s)
            BY <2>1, <1>2 DEF Grows, ObservationsOf
        <2>2. ASSUME o \in ObservationsOf(z, s) PROVE o \in ObservationsOf(v, s)
            <3>1. o \in DOMAIN z.rows /\ z.rows[o].source = s BY <2>2 DEF ObservationsOf, SourceOf
            <3>2. CASE o \in DOMAIN h.rows BY <3>1, <3>2 DEF AllLaid, Laid, ObservationsOf, SourceOf
            <3>3. CASE o \notin DOMAIN h.rows
                <4>1. o \in DOMAIN y.rows /\ y.rows[o].source = s BY <3>1, <3>3 DEF AllLaid, Laid
                <4>2. o \notin DOMAIN w.rows BY <4>1, <1>1 DEF AllLaid, Laid, Untouched
                <4>3. o \in DOMAIN x.rows BY <4>1, <4>2, <1>1 DEF AllLaid, Laid
                <4>4. o \in DOMAIN v.rows /\ SourceOf(z, o) = SourceOf(v, o) BY <4>3, <1>2 DEF Grows
                <4> QED BY <3>1, <4>4 DEF ObservationsOf, SourceOf
            <3> QED BY <3>2, <3>3
        <2> QED BY <2>1, <2>2
    <1>4. ASSUME NEW o \in ObservationsOf(v, s) PROVE v.rows[o].packet = z.rows[o].packet
        <2>1. o \in DOMAIN v.rows /\ SourceOf(v, o) = s BY DEF ObservationsOf
        <2>2. CASE o \in DOMAIN h.rows BY <2>2 DEF AllLaid, Laid
        <2>3. CASE o \notin DOMAIN h.rows
            <3>1. o \in DOMAIN x.rows /\ v.rows[o] = x.rows[o] BY <2>1, <2>3 DEF AllLaid, Laid
            <3>2. o \in DOMAIN y.rows /\ SourceOf(y, o) = s BY <2>1, <3>1 DEF Grows
            <3>3. o \notin DOMAIN w.rows BY <3>2, <1>1 DEF AllLaid, Laid, Untouched, SourceOf
            <3>4. y.rows[o] = x.rows[o] BY <3>1, <3>3, <1>1 DEF AllLaid, Laid
            <3>5. z.rows[o] = y.rows[o] BY <2>3, <3>2 DEF AllLaid, Laid
            <3> QED BY <3>1, <3>4, <3>5
        <2> QED BY <2>2, <2>3
    <1>5. \A p \in DOMAIN v.refs : p \in DOMAIN v.rows /\ SourceOf(z, p) = SourceOf(v, p)
        BY <1>2 DEF GoodRefs, Grows
    <1>6. \A p \in DOMAIN y.refs : p \in DOMAIN y.rows /\ SourceOf(z, p) = SourceOf(y, p)
        BY DEF GoodRefs, Grows
    <1>7. ASSUME NEW p \in Links(v, s)
          PROVE  p \in Links(z, s) /\ v.refs[p].to = z.refs[p].to /\ v.refs[p].status = z.refs[p].status
        <2>1. p \in DOMAIN v.refs /\ IsReply(p) /\ SourceOf(v, p) = s BY DEF Links
        <2>2. SourceOf(z, p) = s BY <2>1, <1>5
        <2>3. CASE p \in DOMAIN h.refs BY <2>1, <2>2, <2>3 DEF AllLaid, Laid, Links
        <2>4. CASE p \notin DOMAIN h.refs
            <3>1. p \in DOMAIN x.refs /\ v.refs[p] = x.refs[p] BY <2>1, <2>4 DEF AllLaid, Laid
            <3>2. p \in DOMAIN y.refs BY <3>1, <1>1 DEF AllLaid, Laid
            <3>3. p \in DOMAIN z.refs /\ z.refs[p] = y.refs[p] BY <2>4, <3>2 DEF AllLaid, Laid
            <3>4. SourceOf(y, p) = s BY <2>2, <3>2, <1>6
            <3>5. y.refs[p].to = x.refs[p].to /\ y.refs[p].status = x.refs[p].status
                <4>1. CASE p \in DOMAIN w.refs
                    <5>1. y.refs[p] = w.refs[p] BY <4>1, <1>1 DEF AllLaid, Laid
                    <5> QED BY <4>1, <5>1, <2>1, <3>4 DEF Untouched
                <4>2. CASE p \notin DOMAIN w.refs BY <4>2, <3>1, <1>1 DEF AllLaid, Laid
                <4> QED BY <4>1, <4>2
            <3> QED BY <2>1, <2>2, <3>1, <3>3, <3>5 DEF Links
        <2> QED BY <2>3, <2>4
    <1>8. ASSUME NEW p \in Links(z, s) PROVE p \in Links(v, s)
        <2>1. p \in DOMAIN z.refs /\ IsReply(p) /\ SourceOf(z, p) = s BY DEF Links
        <2>2. SUFFICES p \in DOMAIN v.refs BY <2>1, <1>5 DEF Links
        <2>3. CASE p \in DOMAIN h.refs \cup DOMAIN x.refs BY <2>3 DEF AllLaid, Laid
        <2>4. CASE p \notin DOMAIN h.refs \cup DOMAIN x.refs
            <3>1. p \in DOMAIN y.refs /\ p \in DOMAIN w.refs BY <2>1, <2>4, <1>1 DEF AllLaid, Laid
            <3>2. SourceOf(y, p) = s BY <2>1, <3>1, <1>6
            <3>3. p \in DOMAIN x.refs BY <2>1, <3>1, <3>2 DEF Untouched
            <3> QED BY <2>4, <3>3
        <2> QED BY <2>3, <2>4
    <1>9. ASSUME NEW p \in Links(v, s) PROVE AnswersTo(v, s, p) = AnswersTo(z, s, p)
        <2>1. /\ DOMAIN v.answers = DOMAIN h.answers \cup DOMAIN x.answers
              /\ DOMAIN z.answers = DOMAIN h.answers \cup (DOMAIN w.answers \cup DOMAIN x.answers)
            BY <1>1 DEF AllLaid, Laid
        <2>2. ASSUME NEW a \in DOMAIN w.answers \ DOMAIN x.answers PROVE ~Means(a, s, p)
            <3>1. p \in DOMAIN v.refs /\ IsReply(p) /\ SourceOf(v, p) = s BY DEF Links
            <3>2. CASE p \in DOMAIN h.refs BY <2>2, <3>2 DEF Means
            <3>3. CASE p \notin DOMAIN h.refs
                <4>1. p \in DOMAIN x.refs BY <3>1, <3>3 DEF AllLaid, Laid
                <4>2. p \in DOMAIN x.rows BY <4>1 DEF GoodRefs
                <4>3. SourceOf(x, p) = s BY <3>1, <4>2 DEF Grows
                <4>4. p \in Links(x, s) BY <3>1, <4>1, <4>3 DEF Links
                <4> QED BY <2>2, <4>4 DEF Untouched
            <3> QED BY <3>2, <3>3
        <2>3. \A a : a \in AnswersTo(v, s, p) <=> a \in DOMAIN v.answers /\ Means(a, s, p)
            BY DEF AnswersTo, Means
        <2>4. \A a : a \in AnswersTo(z, s, p) <=> a \in DOMAIN z.answers /\ Means(a, s, p)
            BY DEF AnswersTo, Means
        <2>5. \A a : a \in AnswersTo(v, s, p) <=> a \in AnswersTo(z, s, p)
            BY <2>1, <2>2, <2>3, <2>4
        <2> QED BY <2>5
    <1>10. SendersOf(v, RepliedTo(v, s)) = SendersOf(z, RepliedTo(v, s))
        <2>1. RepliedTo(v, s) \subseteq Sources(v)
            BY DEF RepliedTo, Links, GoodRefs
        <2>2. RepliedTo(v, s) \subseteq Sources(z) BY <2>1, <1>2, GrowingSources
        <2> QED BY <2>1, <2>2, SendersOfSources
    <1>11. ObservationsOf(v, s) = ObservationsOf(z, s)
        <2>1. \A o : o \in ObservationsOf(v, s) <=> o \in ObservationsOf(z, s) BY <1>3
        <2> QED BY <2>1
    <1>12. Links(v, s) = Links(z, s) BY <1>7, <1>8
    <1> QED BY <1>4, <1>7, <1>9, <1>10, <1>11, <1>12 DEF SameInputs

-------------------------------------------------------------------------------
(* Decisions after a commit.                                               *)

\* Who writes a new report, or a reference, holds the row of its bot.
LEMMA NewAnswerHeld ==
    ASSUME NEW x, NEW t, NEW r, Wrote(x, t, r), NEW a \in DOMAIN t.writes.answers \ DOMAIN x.answers
    PROVE  BotLocks(Of[a].bot) \subseteq t.locks
    <1>1. ASSUME NEW o, NEW s, Takes(x, t, r, o, s) PROVE FALSE BY <1>1 DEF Takes, Caused
    <1>2. ASSUME Reports(x, t, r) PROVE BotLocks(Of[a].bot) \subseteq t.locks
        <2>1. a = r[1] BY <1>2 DEF Reports
        <2> QED BY <2>1, <1>2 DEF Reports
    <1>3. ASSUME NEW s, Adds(x, t, r, s) PROVE FALSE BY <1>1, <1>3 DEF Adds
    <1>4. ASSUME NEW o, NEW s, Revives(x, t, r, o, s) PROVE FALSE BY <1>1, <1>4 DEF Revives
    <1> QED BY <1>2, <1>3, <1>4 DEF Wrote

\* A reference is written under the row of its bot.
LEMMA RefHeld ==
    ASSUME NEW x, NEW t, NEW r, Wrote(x, t, r), NEW p \in DOMAIN t.writes.refs
    PROVE  BotLocks(Of[p].bot) \subseteq t.locks
    <1>1. ASSUME NEW s, Adds(x, t, r, s) PROVE BotLocks(Of[p].bot) \subseteq t.locks
        BY <1>1 DEF Adds
    <1>2. ASSUME NEW o, NEW s, Revives(x, t, r, o, s) PROVE FALSE BY <1>2 DEF Revives
    <1>3. ASSUME Reports(x, t, r) PROVE FALSE BY <1>3 DEF Reports
    <1> QED BY <1>1, <1>2, <1>3 DEF Wrote

\* What of the tables most lemmas need.
LEMMA GoodParts ==
    ASSUME NEW x, GoodDb(x)
    PROVE  GoodRows(x) /\ GoodRefs(x)
    BY DEF GoodDb

\* Writes that leave s alone leave its inputs.
LEMMA OwnInputs ==
    ASSUME NEW x, NEW t, NEW r, Wrote(x, t, r), GoodDb(x), NEW s, Untouched(x, t.writes, s)
    PROVE  SameInputs(x, Over(t.writes, x), s)
    <1>1. PICK y : y = Over(t.writes, x) OBVIOUS
    <1>2. PICK w : w = t.writes OBVIOUS
    <1>3. Grows(x, y) /\ GoodDb(y) BY <1>1, WroteGrows, CommitGood
    <1>4. GoodRows(x) /\ GoodRefs(x) /\ GoodRows(y) /\ GoodRefs(y) BY <1>3, GoodParts
    <1>5. AllLaid(x, NoRows, x) /\ AllLaid(y, NoRows, y) BY NothingLaid
    <1>6. PICK h : h = NoRows OBVIOUS
    <1>7. \A a \in DOMAIN w.answers \ DOMAIN x.answers, p \in DOMAIN h.refs : Of[a].bot # Of[p].bot
        BY <1>6 DEF NoRows, Rows, Nothing
    <1>8. AllLaid(x, h, x) /\ AllLaid(y, h, y) /\ Grows(x, x) /\ Grows(y, y) BY <1>5, <1>6 DEF Grows
    <1>9. SameInputs(x, y, s) BY <1>1, <1>2, <1>3, <1>4, <1>7, <1>8, InputsKept
    <1> QED BY <1>1, <1>9

\* What another transaction, u, sees before and after the commit.
LEMMA OthersInputs ==
    ASSUME NEW x, NEW t, NEW r, Wrote(x, t, r), GoodDb(x), NEW s, Untouched(x, t.writes, s),
           NEW u, t.locks \cap u.locks = {}, NEW q, Wrote(x, u, q), Wrote(Over(t.writes, x), u, q)
    PROVE  SameInputs(Over(u.writes, x), Over(u.writes, Over(t.writes, x)), s)
    <1>1. PICK y : y = Over(t.writes, x) OBVIOUS
    <1>2. PICK w : w = t.writes OBVIOUS
    <1>3. PICK h : h = u.writes OBVIOUS
    <1>4. PICK v : v = Over(h, x) OBVIOUS
    <1>5. PICK z : z = Over(h, y) OBVIOUS
    <1>6. Grows(x, y) /\ GoodDb(y) BY <1>1, WroteGrows, CommitGood
    <1>7. Grows(x, v) /\ GoodDb(v) BY <1>3, <1>4, WroteGrows, CommitGood
    <1>8. Grows(y, z) /\ GoodDb(z)
        <2>1. Wrote(y, u, q) BY <1>1
        <2> QED BY <2>1, <1>3, <1>5, <1>6, WroteGrows, CommitGood
    <1>9. /\ GoodRefs(x) /\ GoodRefs(y) /\ GoodRows(v) /\ GoodRefs(v) /\ GoodRows(z)
        BY <1>6, <1>7, <1>8, GoodParts
    <1>10. AllLaid(v, h, x) /\ AllLaid(z, h, y) BY <1>4, <1>5, OverLaid
    <1>11. ASSUME NEW a \in DOMAIN w.answers \ DOMAIN x.answers, NEW p \in DOMAIN h.refs
           PROVE  Of[a].bot # Of[p].bot
        <2>1. BotLocks(Of[a].bot) \subseteq t.locks BY <1>2, <1>11, NewAnswerHeld
        <2>2. BotLocks(Of[p].bot) \subseteq u.locks BY <1>3, <1>11, RefHeld
        <2> QED BY <2>1, <2>2, BotsDiffer
    <1>12. y = Over(w, x) /\ Untouched(x, w, s) BY <1>1, <1>2
    <1>13. SameInputs(v, z, s) BY <1>6, <1>7, <1>8, <1>9, <1>10, <1>11, <1>12, InputsKept
    <1> QED BY <1>1, <1>3, <1>4, <1>5, <1>13

\* What a settled transaction commits leaves every decision right.
LEMMA CommitRight ==
    ASSUME NEW x, NEW t, NEW r, Wrote(x, t, r), GoodDb(x), t.todo = {}, NEW s, Settled(x, t, s),
           Right(x, s)
    PROVE  Right(Over(t.writes, x), s)
    <1>1. PICK y : y = Over(t.writes, x) OBVIOUS
    <1>2. CASE Right(y, s) BY <1>1, <1>2
    <1>3. CASE Untouched(x, t.writes, s)
        <2>1. SameInputs(x, y, s) BY <1>1, <1>3, OwnInputs
        <2>2. AllLaid(y, t.writes, x) BY <1>1, OverLaid
        <2>3. s \in DOMAIN x.decisions => s \in DOMAIN y.decisions /\ y.decisions[s] = x.decisions[s]
            BY <2>2, <1>3 DEF AllLaid, Laid, Untouched
        <2>4. Grows(x, y) /\ GoodRefs(x) BY <1>1, WroteGrows, GoodParts
        <2>5. DOMAIN x.refs \subseteq DOMAIN y.refs BY <2>2 DEF AllLaid, Laid
        <2>6. Excused(x, s) => Excused(y, s) BY <2>4, <2>5, ExcusedGrows
        <2>7. Right(y, s) BY <2>1, <2>3, <2>6, SameRight
        <2> QED BY <1>1, <2>7
    <1>4. CASE Excused(y, s) BY <1>1, <1>4 DEF Right
    <1> QED BY <1>1, <1>2, <1>3, <1>4 DEF Settled

\* A transaction that leaves s alone still does when another commits.
LEMMA UntouchedStays ==
    ASSUME NEW x, NEW t, NEW r, Wrote(x, t, r), GoodDb(x), NEW s,
           NEW u, t.locks \cap u.locks = {}, NEW q, Wrote(x, u, q), Untouched(x, u.writes, s)
    PROVE  Untouched(Over(t.writes, x), u.writes, s)
    <1>1. PICK y : y = Over(t.writes, x) OBVIOUS
    <1>2. PICK h : h = u.writes OBVIOUS
    <1>3. PICK v : v = Over(h, x) OBVIOUS
    <1>4. PICK z : z = Over(h, y) OBVIOUS
    <1>5. AllLaid(v, h, x) /\ AllLaid(z, h, y) /\ AllLaid(y, t.writes, x)
        BY <1>1, <1>3, <1>4, OverLaid
    <1>6. Grows(x, y) /\ GoodDb(y) /\ GoodDb(v) BY <1>1, <1>2, <1>3, WroteGrows, CommitGood
    <1>7. Grows(v, z) BY <1>5, <1>6, GrowsLaid
    <1>8. GoodRefs(v) /\ GoodRefs(x) /\ GoodRefs(y) BY <1>6, GoodParts
    <1>9. Untouched(x, h, s) BY <1>2
    <1>10. ASSUME NEW p \in DOMAIN h.refs, IsReply(p), SourceOf(z, p) = s
           PROVE  p \in DOMAIN y.refs /\ h.refs[p].to = y.refs[p].to /\ h.refs[p].status = y.refs[p].status
        <2>1. p \in DOMAIN v.rows BY <1>5, <1>8, <1>10 DEF AllLaid, Laid, GoodRefs
        <2>2. SourceOf(v, p) = s BY <2>1, <1>7, <1>10 DEF Grows
        <2>3. p \in DOMAIN x.refs /\ h.refs[p].to = x.refs[p].to /\ h.refs[p].status = x.refs[p].status
            BY <2>2, <1>3, <1>9, <1>10 DEF Untouched
        <2>4. BotLocks(Of[p].bot) \subseteq u.locks BY <1>2, <1>10, RefHeld
        <2>5. BotKept(x, y, Of[p].bot) BY <2>4, <1>1, HeldBotKept
        <2>6. p \in DOMAIN y.refs /\ y.refs[p] = x.refs[p] BY <2>3, <2>5 DEF BotKept
        <2> QED BY <2>3, <2>6
    <1>11. ASSUME NEW a \in DOMAIN h.answers \ DOMAIN y.answers, NEW p \in Links(y, s)
           PROVE  ~Means(a, s, p)
        <2>1. a \notin DOMAIN x.answers BY <1>5 DEF AllLaid, Laid
        <2>2. p \in DOMAIN y.refs /\ IsReply(p) /\ SourceOf(y, p) = s BY DEF Links
        <2>3. CASE p \in DOMAIN x.refs
            <3>1. p \in DOMAIN x.rows BY <2>3, <1>8 DEF GoodRefs
            <3>2. SourceOf(x, p) = s BY <3>1, <2>2, <1>6 DEF Grows
            <3>3. p \in Links(x, s) BY <2>2, <2>3, <3>2 DEF Links
            <3> QED BY <2>1, <3>3, <1>9 DEF Untouched
        <2>4. CASE p \notin DOMAIN x.refs
            <3>1. p \in DOMAIN t.writes.refs BY <2>2, <2>4, <1>5 DEF AllLaid, Laid
            <3>2. BotLocks(Of[p].bot) \subseteq t.locks BY <3>1, RefHeld
            <3>3. BotLocks(Of[a].bot) \subseteq u.locks BY <2>1, <1>2, NewAnswerHeld
            <3>4. Of[a].bot # Of[p].bot BY <3>2, <3>3, BotsDiffer
            <3> QED BY <3>4 DEF Means
        <2> QED BY <2>3, <2>4
    <1>12. /\ \A o \in DOMAIN h.rows : h.rows[o].source # s
           /\ s \notin DOMAIN h.decisions
        BY <1>9 DEF Untouched
    <1>13. Untouched(y, h, s) BY <1>4, <1>10, <1>11, <1>12 DEF Untouched
    <1> QED BY <1>1, <1>2, <1>13

\* What is settled for a transaction stays so when another commits: were s decided in
\* both, both would hold its lock.
LEMMA SettledStays ==
    ASSUME NEW x, NEW t, NEW r, Wrote(x, t, r), GoodDb(x), t.todo = {}, NEW s, Settled(x, t, s),
           NEW u, t.locks \cap u.locks = {}, NEW q, Wrote(x, u, q), Settled(x, u, s)
    PROVE  Settled(Over(t.writes, x), u, s)
    <1>1. PICK y : y = Over(t.writes, x) OBVIOUS
    <1>2. PICK v : v = Over(u.writes, x) OBVIOUS
    <1>3. PICK z : z = Over(u.writes, y) OBVIOUS
    <1>4. AllLaid(v, u.writes, x) /\ AllLaid(z, u.writes, y) /\ AllLaid(y, t.writes, x)
        BY <1>1, <1>2, <1>3, OverLaid
    <1>5. Grows(x, y) BY <1>1, WroteGrows
    <1>6. Grows(v, z) BY <1>4, <1>5, GrowsLaid
    <1>7. Wrote(y, u, q)
        <2>1. Stands(x, u, q, "written") BY DEF Stands
        <2>2. Stands(y, u, q, "written") BY <2>1, <1>1, CommitLeavesOthers
        <2> QED BY <2>2 DEF Stands
    <1>8. Grows(y, z) BY <1>3, <1>7, WroteGrows
    <1>9. DOMAIN v.refs \subseteq DOMAIN z.refs /\ DOMAIN y.refs \subseteq DOMAIN z.refs
        BY <1>4 DEF AllLaid, Laid
    <1>10. GoodRefs(v) /\ GoodRefs(y) BY <1>1, <1>2, CommitGood, GoodParts
    <1>11. Excused(v, s) => Excused(z, s) BY <1>6, <1>9, <1>10, ExcusedGrows
    <1>12. Excused(y, s) => Excused(z, s) BY <1>8, <1>9, <1>10, ExcusedGrows
    <1>13. CASE s \in u.todo BY <1>1, <1>13 DEF Settled
    <1>14. CASE Untouched(x, u.writes, s)
        <2>1. Untouched(y, u.writes, s) BY <1>1, <1>14, UntouchedStays
        <2> QED BY <1>1, <2>1 DEF Settled
    <1>15. CASE Excused(v, s) BY <1>1, <1>3, <1>15, <1>11 DEF Settled
    <1>16. CASE DecisionLocks(s) \subseteq u.locks /\ Right(v, s)
        <2>1. ~(DecisionLocks(s) \subseteq t.locks) BY <1>16 DEF DecisionLocks
        <2>2. CASE Excused(y, s) BY <1>1, <1>3, <1>12, <2>2 DEF Settled
        <2>3. CASE Untouched(x, t.writes, s)
            <3>1. Wrote(Over(t.writes, x), u, q) BY <1>1, <1>7
            <3>2. SameInputs(Over(u.writes, x), Over(u.writes, Over(t.writes, x)), s)
                BY <2>3, <3>1, OthersInputs
            <3>3. SameInputs(v, z, s) BY <3>2, <1>1, <1>2, <1>3
            <3>4. s \in DOMAIN v.decisions => s \in DOMAIN z.decisions /\ z.decisions[s] = v.decisions[s]
                BY <2>3, <1>4 DEF AllLaid, Laid, Untouched
            <3>5. Right(z, s) BY <1>16, <1>11, <3>3, <3>4, SameRight
            <3> QED BY <1>1, <1>3, <1>16, <3>5 DEF Settled
        <2> QED BY <2>1, <2>2, <2>3, <1>1 DEF Settled
    <1> QED BY <1>2, <1>13, <1>14, <1>15, <1>16 DEF Settled

\* What is live stays live.
LEMMA LiveStays ==
    ASSUME NEW x, NEW t, NEW r, Wrote(x, t, r), NEW o \in DOMAIN x.rows, Current(x, o).live
    PROVE  Current(Over(t.writes, x), o).live
    <1>1. PICK y : y = Over(t.writes, x) OBVIOUS
    <1>2. PICK p : p = r[1] OBVIOUS
    <1>3. ASSUME NEW s, Adds(x, t, r, s) PROVE Current(y, o).live
        <2>1. Rewrites(x, y, p, s, p) /\ SameIdentity(x, p) = {}
            BY <1>1, <1>2, <1>3, TakesRewrites DEF Adds, Takes
        <2>2. o # p BY <2>1, UnknownIsNew
        <2> QED BY <2>1, <2>2 DEF Rewrites, Current
    <1>4. ASSUME NEW v, NEW s, Revives(x, t, r, v, s) PROVE Current(y, o).live
        <2>1. Rewrites(x, y, v, s, p) /\ Of[p].live
            BY <1>1, <1>2, <1>4, TakesRewrites DEF Revives
        <2> QED BY <2>1 DEF Rewrites, Current
    <1>5. ASSUME Reports(x, t, r) PROVE Current(y, o).live
        <2>1. SameTable(x.rows, y.rows) BY <1>1, <1>5, ReportsKeep
        <2> QED BY <2>1 DEF SameTable, Current
    <1> QED BY <1>1, <1>3, <1>4, <1>5 DEF Wrote

\* What may act stays.
LEMMA ActingStays ==
    ASSUME NEW x, NEW t, NEW r, Wrote(x, t, r), NEW h, NEW v, NEW z, AllLaid(v, h, x),
           AllLaid(z, h, Over(t.writes, x)), NEW s, Acting(v, s) # {}
    PROVE  Acting(z, s) # {}
    <1>1. PICK y : y = Over(t.writes, x) OBVIOUS
    <1>2. Grows(x, y) BY <1>1, WroteGrows
    <1>3. AllLaid(z, h, y) BY <1>1
    <1>4. Grows(v, z) BY <1>2, <1>3, GrowsLaid
    <1>5. PICK o : o \in DOMAIN v.rows /\ SourceOf(v, o) = s /\ Current(v, o).live
        BY DEF Acting, ObservationsOf
    <1>6. o \in DOMAIN z.rows /\ SourceOf(z, o) = s BY <1>4, <1>5 DEF Grows
    <1>7. Current(z, o).live
        <2>1. CASE o \in DOMAIN h.rows
            <3>1. z.rows[o] = v.rows[o] BY <2>1, <1>3 DEF AllLaid, Laid
            <3> QED BY <3>1, <1>5 DEF Current
        <2>2. CASE o \notin DOMAIN h.rows
            <3>1. o \in DOMAIN x.rows /\ v.rows[o] = x.rows[o] BY <2>2, <1>5 DEF AllLaid, Laid
            <3>2. Current(x, o).live BY <3>1, <1>5 DEF Current
            <3>3. Current(y, o).live /\ o \in DOMAIN y.rows BY <3>1, <3>2, <1>1, <1>2, LiveStays DEF Grows
            <3>4. z.rows[o] = y.rows[o] BY <3>3, <2>2, <1>3 DEF AllLaid, Laid
            <3> QED BY <3>3, <3>4 DEF Current
        <2> QED BY <2>1, <2>2
    <1> QED BY <1>6, <1>7 DEF Acting, ObservationsOf

\* A transaction stays settled when another commits.
LEMMA SettlingStays ==
    ASSUME NEW x, NEW t, NEW r, Wrote(x, t, r), GoodDb(x), t.todo = {}, Settling(x, t),
           NEW u, t.locks \cap u.locks = {}, NEW q, Wrote(x, u, q), Settling(x, u)
    PROVE  Settling(Over(t.writes, x), u)
    <1>1. PICK y : y = Over(t.writes, x) OBVIOUS
    <1>2. \A s \in Events : Settled(y, u, s) BY <1>1, SettledStays DEF Settling
    <1>3. PICK v : v = Over(u.writes, x) OBVIOUS
    <1>4. PICK z : z = Over(u.writes, y) OBVIOUS
    <1>5. AllLaid(v, u.writes, x) /\ AllLaid(z, u.writes, y) BY <1>3, <1>4, OverLaid
    <1>6. ASSUME NEW s, Acting(v, s) # {} PROVE Acting(z, s) # {} BY <1>1, <1>5, <1>6, ActingStays
    <1>7. Acts(v, u.writes.decisions) BY <1>3 DEF Settling
    <1>8. Acts(z, u.writes.decisions) BY <1>6, <1>7 DEF Acts
    <1>9. Blurred(z, u.writes.refs)
        <2>1. Blurred(v, u.writes.refs) BY <1>3 DEF Settling
        <2>2. Grows(v, z)
            <3>1. Grows(x, y) BY <1>1, WroteGrows
            <3> QED BY <3>1, <1>5, GrowsLaid
        <2>3. GoodRefs(v) BY <1>3, CommitGood, GoodParts
        <2>4. \A p \in DOMAIN u.writes.refs : p \in DOMAIN v.rows
            BY <2>3, <1>5 DEF AllLaid, Laid, GoodRefs
        <2> QED BY <2>1, <2>2, <2>4, SeveralGrows DEF Blurred
    <1> QED BY <1>1, <1>2, <1>4, <1>8, <1>9 DEF Settling

\* A settled transaction commits what is right.
LEMMA CommitDecisions ==
    ASSUME NEW x, NEW t, NEW r, Wrote(x, t, r), GoodDb(x), t.todo = {}, Settling(x, t),
           Blurred(x, x.refs), Acts(x, x.decisions), \A s \in Events : Right(x, s)
    PROVE  LET y == Over(t.writes, x)
           IN  /\ Blurred(y, y.refs) /\ Acts(y, y.decisions)
               /\ \A s \in Events : Right(y, s)
    <1>1. PICK y : y = Over(t.writes, x) OBVIOUS
    <1>2. Grows(x, y) /\ GoodRefs(x) BY <1>1, WroteGrows, GoodParts
    <1>3. \A q \in DOMAIN x.refs : Several(x, q) => Several(y, q)
        BY <1>2, SeveralGrows DEF GoodRefs
    <1>4. AllLaid(y, t.writes, x) BY <1>1, OverLaid
    <1>5. Blurred(y, y.refs)
        <2>1. Blurred(y, t.writes.refs) BY <1>1 DEF Settling
        <2> QED BY <2>1, <1>3, <1>4 DEF AllLaid, Laid, Blurred
    <1>6. Acts(y, y.decisions)
        <2>1. Acts(y, t.writes.decisions) BY <1>1 DEF Settling
        <2>2. PICK h : h = NoRows OBVIOUS
        <2>3. AllLaid(x, h, x) /\ AllLaid(y, h, y) BY <2>2, NothingLaid
        <2>4. ASSUME NEW s, Acting(x, s) # {} PROVE Acting(y, s) # {}
            BY <1>1, <2>3, <2>4, ActingStays
        <2>5. Acts(y, x.decisions) BY <2>4 DEF Acts
        <2> QED BY <2>1, <2>5, <1>4 DEF AllLaid, Laid, Acts
    <1>7. ASSUME NEW s \in Events PROVE Right(y, s)
        BY <1>1, CommitRight DEF Settling
    <1> QED BY <1>1, <1>5, <1>6, <1>7

-------------------------------------------------------------------------------
(* Decisions and the steps that write.                                     *)

\* A report makes due the decisions of the messages that reply to what was sent.
LEMMA ReportSettles ==
    ASSUME NEW x, GoodRows(x), GoodRefs(x), NEW t, NEW a, ReportWrote(x, t, a)
    PROVE  Settling(x, t)
    <1>1. /\ t.todo = RepliesTo(x, a) /\ DOMAIN t.writes.rows = {} /\ DOMAIN t.writes.refs = {}
          /\ DOMAIN t.writes.decisions = {} /\ DOMAIN t.writes.answers = {a}
        BY DEF ReportWrote
    <1>2. ASSUME NEW s, s \notin t.todo PROVE Untouched(x, t.writes, s)
        <2>1. ASSUME NEW p \in Links(x, s), Means(a, s, p) PROVE FALSE
            <3>1. p \in DOMAIN x.refs /\ IsReply(p) /\ SourceOf(x, p) = s BY DEF Links
            <3>2. p \in DOMAIN x.rows BY <3>1 DEF GoodRefs
            <3>3. Of[p].kind = Of[s].kind BY <3>1, <3>2, SourceAlike
            <3>4. s \in RepliesTo(x, a) BY <2>1, <3>1, <3>3 DEF RepliesTo, Means
            <3> QED BY <1>1, <1>2, <3>4
        <2> QED BY <1>1, <2>1 DEF Untouched
    <1>3. \A y : Blurred(y, t.writes.refs) /\ Acts(y, t.writes.decisions) BY <1>1 DEF Blurred, Acts
    <1> QED BY <1>2, <1>3 DEF Settling, Settled

\* A takeover makes due the decision of its message, and touches no other.
LEMMA EnlivenSettles ==
    ASSUME NEW x, NEW u, NEW t, NEW p, NEW o, NEW s, EnlivenWrote(x, u, t, p, o, s)
    PROVE  Settling(x, t)
    <1>1. /\ t.todo = {s} /\ t.writes.rows = One(o, [source |-> s, packet |-> p])
          /\ DOMAIN t.writes.refs = {} /\ DOMAIN t.writes.decisions = {}
          /\ DOMAIN t.writes.answers \subseteq DOMAIN x.answers
        BY DEF EnlivenWrote, Caused
    <1>2. ASSUME NEW c, c # s PROVE Untouched(x, t.writes, c)
        <2>1. \A q \in DOMAIN t.writes.rows : t.writes.rows[q].source # c BY <1>1, <1>2 DEF One
        <2> QED BY <1>1, <2>1 DEF Untouched
    <1>3. \A y : Blurred(y, t.writes.refs) /\ Acts(y, t.writes.decisions) BY <1>1 DEF Blurred, Acts
    <1> QED BY <1>1, <1>2, <1>3 DEF Settling, Settled

\* Who is ambiguous has found several.
LEMMA AmbiguousFacts ==
    ASSUME NEW found, found \subseteq Events, Resolved(found).status = "ambiguous"
    PROVE  \E c, d \in found : c # d
    <1>1. found # {} BY DEF Resolved, Reference
    <1>2. PICK c \in found : TRUE BY <1>1
    <1>3. found # {c} BY <1>2, ResolvedFacts
    <1> QED BY <1>2, <1>3

\* A reply that is tried again after the row of p was stored under s, finds no one
\* message and is not torn, has the status it had: of one without a target that is
\* met, s alone is new.
LEMMA SameStatus ==
    ASSUME NEW x, NEW y, NEW p, NEW s, GoodRows(x), GoodRows(y), Rewrites(x, y, p, s, p), Grows(x, y),
           NEW q \in DOMAIN x.rows, RefMet(x, q),
           x.refs[q].status \in Statuses, x.refs[q].status # "resolved",
           x.refs[q].status = "ambiguous" => Several(x, q),
           NEW ref, ref = Resolved(Sourced(y, q)), ref.status \in Statuses, ref.status # "resolved",
           ~TornLink(y, q)
    PROVE  x.refs[q].status = ref.status
    <1>1. Sourced(y, q) \subseteq Events BY TargetsFacts DEF Sourced
    <1>2. CASE x.refs[q].status = "ambiguous" /\ ref.status = "unresolved"
        <2>1. Sourced(y, q) = {} BY <1>1, <1>2, ResolvedFacts
        <2>2. Several(y, q) BY <1>2, SeveralGrows
        <2>3. Own(y, q) # {} BY <2>1, <2>2 DEF Several
        <2> QED BY <2>1, <2>2, <2>3 DEF TornLink
    <1>3. CASE x.refs[q].status = "unresolved" /\ ref.status = "ambiguous"
        <2>1. PICK c, d \in Sourced(y, q) : c # d BY <1>1, <1>3, AmbiguousFacts
        <2>2. Several(y, q) BY <2>1 DEF Several
        <2>3. Own(y, q) = Sourced(y, q) BY <2>2 DEF TornLink
        <2>4. ASSUME NEW v \in Sourced(y, q) PROVE v = s
            <3>1. PICK a, b, e : a = Of[q].at /\ b = Of[SourceOf(y, q)].at /\ e = Earlier(a, b) OBVIOUS
            <3>2. v \in Meant(y, q) /\ Of[v].at <= a /\ Of[v].at <= b
                BY <2>3, <2>4, <3>1, MeantFacts DEF Own, Sourced
            <3>3. Of[v].at <= e BY <3>1, <3>2 DEF Earlier
            <3>4. SourceOf(y, q) = SourceOf(x, q) BY DEF Grows
            <3>5. Targets(x, q, e) = {} BY <1>3, <3>1, <3>4 DEF RefMet
            <3>6. v \notin Meant(x, q) BY <3>3, <3>5, MeantFacts
            <3>7. PICK o \in SeenBy(y, Of[q].bot) :
                      /\ IsReply(q) => o # q
                      /\ Of[o].msg = Of[q].ref /\ Of[o].kind = Of[q].kind
                      /\ v = SourceOf(y, o)
                BY <3>2 DEF Meant
            <3>8. CASE o = p BY <3>7, <3>8 DEF Rewrites, SourceOf
            <3>9. CASE o # p
                <4>1. o \in DOMAIN x.rows /\ SourceOf(x, o) = SourceOf(y, o)
                    BY <3>7, <3>9 DEF Rewrites, SeenBy, SourceOf
                <4>2. SourceOf(x, o) \in Meant(x, q) BY <3>7, <4>1 DEF Meant, SeenBy
                <4> QED BY <3>6, <3>7, <4>1, <4>2
            <3> QED BY <3>8, <3>9
        <2> QED BY <2>1, <2>4
    <1> QED BY <1>2, <1>3 DEF Statuses

\* An insertion makes due what its references met; its own message is live, and
\* due, or from the history.
LEMMA InsertSettles ==
    ASSUME NEW x, GoodDb(x), Blurred(x, x.refs),
           NEW u, NEW t, NEW r, NEW s, InsertWrote(x, u, t, r[1], s), Adds(x, t, r, s)
    PROVE  Settling(x, t)
    <1>1. PICK p : p = r[1] OBVIOUS
    <1>2. PICK y : y = Over(t.writes, x) OBVIOUS
    <1>3. PICK with : with = InsertedWith(x, p, s) OBVIOUS
    <1>4. PICK retried : retried = Retried(with, p) OBVIOUS
    <1>5. PICK ref : ref = OwnRef(with, p) OBVIOUS
    <1>6. PICK w : w = t.writes OBVIOUS
    <1>7. /\ t.todo = (IF Of[p].live THEN {s} ELSE {}) \cup
              {SourceOf(x, q) : q \in {q \in Waiting(with, p) :
                    retried[q].status = "resolved" /\ IsReply(q)}}
          /\ w.rows = One(p, [source |-> s, packet |-> p])
          /\ w.refs = Upon(ref, retried)
          /\ DOMAIN w.answers = Caused(x, p) /\ DOMAIN w.decisions = {}
        BY <1>1, <1>3, <1>4, <1>5, <1>6 DEF InsertWrote
    <1>8. GoodRows(x) /\ GoodRefs(x) BY GoodParts
    <1>9. GoodRefs(y) /\ Rewrites(x, y, p, s, p) /\ Grows(x, y)
        <2>1. GoodRefs(y) BY <1>2 DEF Adds
        <2>3. Rewrites(x, y, p, s, p) BY <1>1, <1>2, TakesRewrites DEF Adds
        <2>4. SameIdentity(x, p) = {} BY <1>1 DEF Adds, Takes
        <2>5. p \notin DOMAIN x.rows BY <2>4, UnknownIsNew
        <2> QED BY <2>1, <2>3, <2>5 DEF Rewrites, Grows, SourceOf
    <1>10. GoodRows(y) /\ s \in Events
        <2>1. Wrote(x, t, r) BY DEF Wrote, Adds, Takes
        <2>2. GoodDb(y) BY <2>1, <1>2, CommitGood
        <2> QED BY <2>2, GoodParts DEF Adds, Takes
    <1>11. AllLaid(y, w, x) BY <1>2, <1>6, OverLaid
    <1>12. with.rows = y.rows
        <2>1. with.rows = Upon(One(p, [source |-> s, packet |-> p]), x.rows)
            BY <1>3 DEF InsertedWith, Over, Rows
        <2>2. y.rows = Upon(w.rows, x.rows) BY <1>2, <1>6, OverFields
        <2> QED BY <2>1, <2>2, <1>7
    <1>13. SameTable(x.refs, with.refs)
        <2>1. with.refs = Upon(Nothing, x.refs) BY <1>3 DEF InsertedWith, Over, Rows
        <2> QED BY <2>1 DEF SameTable, Upon, Nothing
    <1>14. DOMAIN retried = Waiting(with, p) /\ \A q \in DOMAIN retried : retried[q] = ResolveStored(with, q)
        BY <1>4 DEF Retried
    <1>15. DOMAIN ref \subseteq {p} /\ (p \in DOMAIN ref => ref[p] = ResolveNew(with, p))
        BY <1>5 DEF OwnRef, Nothing, One
    <1>16. \A q : q \in Waiting(with, p) => q \in DOMAIN x.refs /\ x.refs[q].status # "resolved"
        BY <1>13 DEF Waiting, WaitingLinks, WaitingActions, Unmet, SameTable
    <1>17. ASSUME NEW q \in DOMAIN w.refs
           PROVE  /\ q \in DOMAIN y.refs /\ w.refs[q] = y.refs[q]
                  /\ q # p => q \in Waiting(with, p) /\ w.refs[q] = retried[q]
                  /\ w.refs[q] \in {Resolved(Own(y, q)), Resolved(Sourced(y, q))}
                  /\ (q # p /\ IsReply(q)) => w.refs[q] = Resolved(Sourced(y, q))
        <2>1. q \in DOMAIN y.refs /\ w.refs[q] = y.refs[q] BY <1>11 DEF AllLaid, Laid
        <2>2. \/ w.refs[q] = ResolveNew(with, q)
              \/ w.refs[q] = ResolveStored(with, q)
            BY <1>7, <1>14, <1>15 DEF Upon
        <2>3. q # p => q \in Waiting(with, p) /\ w.refs[q] = retried[q] BY <1>7, <1>14, <1>15 DEF Upon
        <2>4. \A upto : Targets(with, q, upto) = Targets(y, q, upto)
            BY <1>12 DEF Targets, SeenBy, SourceOf
        <2>5. SourceOf(with, q) = SourceOf(y, q) BY <1>12 DEF SourceOf
        <2>6. /\ ResolveNew(with, q) = Resolved(Own(y, q))
              /\ ResolveStored(with, q) \in {Resolved(Own(y, q)), Resolved(Sourced(y, q))}
              /\ IsReply(q) => ResolveStored(with, q) = Resolved(Sourced(y, q))
            BY <2>4, <2>5 DEF ResolveNew, ResolveNewLink, ResolveStored, ResolveStoredLink,
                              ResolveStoredAction, Own, Sourced
        <2>7. (q # p /\ IsReply(q)) => w.refs[q] = Resolved(Sourced(y, q)) BY <2>3, <2>6, <1>14
        <2> QED BY <2>1, <2>2, <2>3, <2>6, <2>7
    <1>18. Blurred(y, w.refs)
        <2>1. ASSUME NEW q \in DOMAIN w.refs, w.refs[q].status = "ambiguous" PROVE Several(y, q)
            <3>1. Own(y, q) \subseteq Events /\ Sourced(y, q) \subseteq Events
                BY <1>10, TargetsFacts DEF Own, Sourced
            <3>2. PICK found : /\ found \in {Own(y, q), Sourced(y, q)}
                               /\ w.refs[q] = Resolved(found)
                BY <2>1, <1>17
            <3>3. \E c, d \in found : c # d BY <2>1, <3>1, <3>2, AmbiguousFacts
            <3> QED BY <3>2, <3>3 DEF Several
        <2> QED BY <2>1 DEF Blurred
    <1>19. Acts(y, w.decisions) BY <1>7 DEF Acts
    <1>20. ASSUME NEW c, c # s, c \notin t.todo, ~TornIn(y, c) PROVE Untouched(x, w, c)
        <2>1. \A o \in DOMAIN w.rows : w.rows[o].source # c BY <1>7, <1>20 DEF One
        <2>2. DOMAIN w.answers \subseteq DOMAIN x.answers BY <1>7 DEF Caused
        <2>3. ASSUME NEW q \in DOMAIN w.refs, IsReply(q), SourceOf(y, q) = c
              PROVE  q \in DOMAIN x.refs /\ w.refs[q].to = x.refs[q].to /\ w.refs[q].status = x.refs[q].status
            <3>1. SourceOf(y, p) = s BY <1>9 DEF Rewrites, SourceOf
            <3>2. q # p BY <3>1, <2>3, <1>20
            <3>3. q \in Waiting(with, p) /\ w.refs[q] = retried[q] BY <3>2, <2>3, <1>17
            <3>4. q \in DOMAIN x.refs /\ x.refs[q].status # "resolved" BY <3>3, <1>16
            <3>5. q \in DOMAIN x.rows BY <3>4, <1>8 DEF GoodRefs
            <3>6. SourceOf(x, q) = c BY <3>5, <2>3, <1>9 DEF Grows
            <3>7. retried[q].status # "resolved" BY <3>3, <3>6, <2>3, <1>7, <1>20
            <3>8. x.refs[q].status \in Statuses /\ x.refs[q].to = Null BY <3>4, <1>8 DEF GoodRefs
            <3>9. w.refs[q].status \in Statuses /\ w.refs[q].to = Null
                BY <3>3, <3>7, <2>3, <1>9, <1>17 DEF GoodRefs
            <3>10. q \in DOMAIN y.refs /\ w.refs[q] = Resolved(Sourced(y, q)) BY <3>2, <2>3, <1>17
            <3>11. ~TornLink(y, q) BY <3>10, <2>3, <1>20 DEF TornIn, Links
            <3>12. x.refs[q].status = "ambiguous" => Several(x, q) BY <3>4 DEF Blurred
            <3>13. RefMet(x, q) BY <3>4 DEF GoodDb
            <3>14. x.refs[q].status = w.refs[q].status
                BY <3>4, <3>5, <3>7, <3>8, <3>9, <3>3, <3>10, <3>11, <3>12, <3>13, <1>9, <1>10, <1>8,
                   SameStatus
            <3> QED BY <3>4, <3>8, <3>9, <3>14
        <2>4. c \notin DOMAIN w.decisions BY <1>7
        <2>5. y = Over(w, x) BY <1>2, <1>6
        <2> QED BY <2>1, <2>2, <2>3, <2>4, <2>5 DEF Untouched
    <1>21. s \in t.todo \/ Excused(y, s)
        <2>1. CASE Of[p].live BY <2>1, <1>7
        <2>2. CASE ~Of[p].live
            <3>1. p \in ObservationsOf(y, s) BY <1>9 DEF Rewrites, ObservationsOf, SourceOf
            <3> QED BY <2>2, <3>1 DEF Hist, Excused
        <2> QED BY <2>1, <2>2
    <1>22. \A c \in Events : Settled(x, t, c) BY <1>2, <1>6, <1>20, <1>21 DEF Settled, Excused
    <1> QED BY <1>2, <1>6, <1>18, <1>19, <1>22 DEF Settling

\* A recomputation decides about s and about nothing else.
LEMMA RecomputeSettles ==
    ASSUME NEW x, NEW u, NEW t, NEW s, RecomputeWrote(x, u, t, s), Settling(x, u)
    PROVE  Settling(x, t)
    <1>1. PICK y : y = Over(u.writes, x) OBVIOUS
    <1>2. PICK z : z = Over(t.writes, x) OBVIOUS
    <1>3. PICK decided : decided = IF Acting(y, s) = {} THEN Nothing ELSE One(s, Policy(y, s)) OBVIOUS
    <1>4. /\ t.locks = u.locks \cup DecisionLocks(s) /\ t.todo = u.todo \ {s}
          /\ t.writes.rows = u.writes.rows /\ t.writes.refs = u.writes.refs
          /\ t.writes.answers = u.writes.answers
          /\ t.writes.decisions = Upon(decided, u.writes.decisions)
        BY <1>1, <1>3 DEF RecomputeWrote
    <1>5. y.rows = z.rows /\ y.refs = z.refs /\ y.answers = z.answers
        BY <1>1, <1>2, <1>4, OverFields
    <1>6. AllLaid(y, u.writes, x) /\ AllLaid(z, t.writes, x) BY <1>1, <1>2, OverLaid
    <1>7. \A c : SameInputs(y, z, c)
        BY <1>5 DEF SameInputs, ObservationsOf, SourceOf, Links, AnswersTo, SendersOf
    <1>8. /\ \A c : Acting(y, c) = Acting(z, c) /\ Policy(y, c) = Policy(z, c)
          /\ \A c : Excused(y, c) = Excused(z, c) /\ Several(y, c) = Several(z, c)
        <2>1. \A q : Own(y, q) = Own(z, q) /\ Sourced(y, q) = Sourced(z, q)
            BY <1>5 DEF Own, Sourced, Targets, SeenBy, SourceOf
        <2>2. \A q : Several(y, q) = Several(z, q) /\ TornLink(y, q) = TornLink(z, q)
            BY <2>1 DEF Several, TornLink
        <2>3. \A c : Links(y, c) = Links(z, c) /\ Hist(y, c) = Hist(z, c)
            BY <1>5 DEF Links, Hist, ObservationsOf, SourceOf
        <2>4. \A c : Excused(y, c) = Excused(z, c) BY <2>2, <2>3 DEF Excused, TornIn
        <2> QED BY <2>2, <2>4, <1>7, SameDecision
    <1>9. /\ DOMAIN t.writes.decisions = DOMAIN decided \cup DOMAIN u.writes.decisions
          /\ \A c \in DOMAIN u.writes.decisions \ DOMAIN decided :
                t.writes.decisions[c] = u.writes.decisions[c]
          /\ \A c \in DOMAIN decided : t.writes.decisions[c] = decided[c]
        BY <1>4 DEF Upon
    <1>10. /\ DOMAIN decided \subseteq {s} /\ (Acting(y, s) # {} => s \in DOMAIN decided)
           /\ s \in DOMAIN decided => decided[s] = Policy(y, s) /\ Acting(y, s) # {}
        BY <1>3 DEF Nothing, One
    <1>11. Blurred(z, t.writes.refs) BY <1>1, <1>4, <1>8 DEF Settling, Blurred
    <1>12. Acts(z, t.writes.decisions) BY <1>1, <1>8, <1>9, <1>10 DEF Settling, Acts
    <1>13. Settled(x, t, s)
        <2>1. Right(z, s)
            <3>1. CASE Acting(y, s) = {} BY <3>1, <1>8 DEF Right
            <3>2. CASE Acting(y, s) # {}
                <4>1. s \in DOMAIN t.writes.decisions /\ t.writes.decisions[s] = Policy(y, s)
                    BY <3>2, <1>9, <1>10
                <4>2. s \in DOMAIN z.decisions /\ z.decisions[s] = Policy(y, s)
                    BY <4>1, <1>6 DEF AllLaid, Laid
                <4> QED BY <4>2, <1>8 DEF Right
            <3> QED BY <3>1, <3>2
        <2> QED BY <2>1, <1>2, <1>4 DEF Settled
    <1>14. ASSUME NEW c, c # s, Settled(x, u, c) PROVE Settled(x, t, c)
        <2>1. CASE c \in u.todo BY <2>1, <1>4, <1>14 DEF Settled
        <2>2. CASE DecisionLocks(c) \subseteq u.locks /\ Right(y, c)
            <3>1. c \in DOMAIN y.decisions => c \in DOMAIN z.decisions /\ z.decisions[c] = y.decisions[c]
                BY <1>6, <1>9, <1>10, <1>14 DEF AllLaid, Laid
            <3>2. SameInputs(y, z, c) BY <1>7
            <3>3. Right(z, c) BY <2>2, <3>1, <3>2, <1>8, SameRight
            <3> QED BY <2>2, <3>3, <1>2, <1>4 DEF Settled
        <2>3. CASE Untouched(x, u.writes, c)
            <3>1. \A p : SourceOf(y, p) = SourceOf(z, p) BY <1>5 DEF SourceOf
            <3>2. c \notin DOMAIN t.writes.decisions BY <2>3, <1>9, <1>10, <1>14 DEF Untouched
            <3>3. Untouched(x, t.writes, c) BY <2>3, <3>1, <3>2, <1>1, <1>2, <1>4 DEF Untouched
            <3> QED BY <3>3 DEF Settled
        <2>4. CASE Excused(y, c) BY <2>4, <1>2, <1>8 DEF Settled
        <2> QED BY <2>1, <2>2, <2>3, <2>4, <1>1, <1>14 DEF Settled
    <1> QED BY <1>2, <1>11, <1>12, <1>13, <1>14 DEF Settling

\* A transaction that begins or goes on, ...
LEMMA DecisionRuns ==
    ASSUME IngestInv, DecisionInv, NEW r \in Requests, NEW where, NEW t, Runs(r, where, t), db' = db,
           where = "written" => Settling(db, t)
    PROVE  DecisionInv'
    <1>1. /\ DOMAIN tx' = {r} \cup DOMAIN tx /\ tx'[r] = t
          /\ \A q \in DOMAIN tx : q # r => tx'[q] = tx[q]
        BY DEF Runs, Upon, One
    <1>2. state'[r] = where /\ \A q \in Requests : q # r => state'[q] = state[q]
        BY DEF Runs, IngestInv
    <1>3. DOMAIN tx \subseteq Requests BY DEF IngestInv, Open
    <1>4. ASSUME NEW q \in DOMAIN tx', state'[q] = "written" PROVE Settling(db, tx'[q])
        <2>1. CASE q = r BY <2>1, <1>1, <1>2, <1>4
        <2>2. CASE q # r BY <2>2, <1>1, <1>2, <1>3, <1>4 DEF DecisionInv, Open
        <2> QED BY <2>1, <2>2
    <1> QED BY <1>4 DEF DecisionInv, Open

\* ... and one that ends without a commit.
LEMMA DecisionEnds ==
    ASSUME IngestInv, DecisionInv, NEW r \in Requests, NEW where, Ends(r, where), db' = db
    PROVE  DecisionInv'
    <1>1. \A q \in DOMAIN tx' : q \in DOMAIN tx /\ tx'[q] = tx[q] /\ state'[q] = state[q]
        BY DEF Ends, Open, IngestInv
    <1> QED BY <1>1 DEF DecisionInv, Open

\* Every step keeps the decisions right.
LEMMA DecisionStep ==
    ASSUME IngestInv, IngestInv', DecisionInv, [IngestNext]_ingestVars
    PROVE  DecisionInv'
    <1>1. CASE UNCHANGED ingestVars BY <1>1 DEF DecisionInv, ingestVars, Open
    <1>2. ASSUME NEW r \in Requests, Look(r) PROVE DecisionInv'
        <2>1. db' = db BY <1>2 DEF Look
        <2>2. \/ \E t : Runs(r, "looked", t) \/ Runs(r, "found", t)
              \/ \E where : Ends(r, where)
            BY <1>2 DEF Look
        <2> QED BY <2>1, <2>2, DecisionRuns, DecisionEnds
    <1>3. ASSUME NEW r \in Requests, Report(r) PROVE DecisionInv'
        <2>1. PICK a : a = r[1] OBVIOUS
        <2>2. /\ db' = db
              /\ \/ Ends(r, "done") \/ Ends(r, "refused")
                 \/ \E t : Runs(r, "written", t) /\ ReportWrote(db, t, a)
            BY <1>3, <2>1, ReportWrites
        <2>3. GoodRows(db) /\ GoodRefs(db) BY GoodParts DEF IngestInv
        <2>4. \A t : ReportWrote(db, t, a) => Settling(db, t) BY <2>3, ReportSettles
        <2> QED BY <2>2, <2>4, DecisionRuns, DecisionEnds
    <1>4. ASSUME NEW r \in Requests, Enliven(r) PROVE DecisionInv'
        <2>1. PICK p : p = r[1] OBVIOUS
        <2>2. PICK o : o = RowFound(db, p) OBVIOUS
        <2>3. PICK s : s = SourceOf(db, o) OBVIOUS
        <2>4. db' = db BY <1>4, <2>1, <2>2, <2>3, EnlivenWrites
        <2>5. PICK t : /\ Runs(r, "written", t) /\ Free(r, t.locks \ tx[r].locks)
                       /\ EnlivenWrote(db, tx[r], t, p, o, s)
            BY <1>4, <2>1, <2>2, <2>3, EnlivenWrites
        <2>6. Settling(db, t) BY <2>5, EnlivenSettles
        <2> QED BY <2>4, <2>5, <2>6, DecisionRuns
    <1>5. ASSUME NEW r \in Requests, Insert(r) PROVE DecisionInv'
        <2>1. PICK p : p = r[1] OBVIOUS
        <2>2. PICK s : s = EnsureSource(db, p) OBVIOUS
        <2>3. state[r] = "looked" /\ SameIdentity(db, p) = {} /\ db' = db
            BY <1>5, <2>1, <2>2, InsertWrites
        <2>4. PICK t : Runs(r, "written", t) /\ InsertWrote(db, tx[r], t, p, s)
            BY <1>5, <2>1, <2>2, InsertWrites
        <2>5. GoodDb(db) BY DEF IngestInv
        <2>6. Wrote(db, t, r)
            <3>1. r \in DOMAIN tx' /\ tx'[r] = t BY <2>4 DEF Runs, Upon, One
            <3>2. state'[r] = "written" BY <2>4 DEF Runs, IngestInv
            <3>3. Stands(db', tx'[r], r, state'[r]) BY <3>1 DEF IngestInv, Standing, Open
            <3> QED BY <2>3, <3>1, <3>2, <3>3 DEF Stands
        <2>7. p \notin DOMAIN db.rows
            <3>1. p \in Events /\ GoodRows(db)
                BY <2>1, <2>3, <2>5 DEF IngestInv, Standing, Stands, Looking, Running, GoodDb
            <3> QED BY <3>1, <2>3, UnknownIsNew
        <2>8. p \in DOMAIN t.writes.rows /\ t.writes.rows[p].source = s
            BY <2>4 DEF InsertWrote, One
        <2>9. Adds(db, t, r, s) BY <2>6, <2>7, <2>8, WroteNew
        <2>10. Settling(db, t)
            <3>1. Blurred(db, db.refs) BY DEF DecisionInv
            <3>2. InsertWrote(db, tx[r], t, r[1], s) BY <2>1, <2>4
            <3> QED BY <2>5, <2>9, <3>1, <3>2, InsertSettles
        <2> QED BY <2>3, <2>4, <2>10, DecisionRuns
    <1>6. ASSUME NEW r \in Requests, Clash(r) PROVE DecisionInv'
        <2>1. db' = db /\ \E where : Ends(r, where) BY <1>6 DEF Clash
        <2> QED BY <2>1, DecisionEnds
    <1>7. ASSUME NEW r \in Requests, Recompute(r) PROVE DecisionInv'
        <2>1. PICK s : s = Due(r) OBVIOUS
        <2>2. db' = db /\ state[r] = "written" BY <1>7, <2>1, RecomputeWrites
        <2>3. PICK t : Runs(r, "written", t) /\ RecomputeWrote(db, tx[r], t, s)
            BY <1>7, <2>1, RecomputeWrites
        <2>4. Settling(db, tx[r]) BY <2>2 DEF DecisionInv, IngestInv, Running
        <2>5. Settling(db, t) BY <2>3, <2>4, RecomputeSettles
        <2> QED BY <2>2, <2>3, <2>5, DecisionRuns
    <1>8. ASSUME NEW r \in Requests, Commit(r) PROVE DecisionInv'
        <2>1. /\ state[r] = "written" /\ Ends(r, "done") /\ db' = Over(tx[r].writes, db)
              /\ tx[r].todo = {}
            BY <1>8 DEF Commit, Seen
        <2>2. r \in Open /\ Wrote(db, tx[r], r) /\ GoodDb(db) /\ Settling(db, tx[r])
            BY <2>1 DEF IngestInv, DecisionInv, Running, Standing, Stands
        <2>3. PICK x : x = db OBVIOUS
        <2>4. PICK t : t = tx[r] OBVIOUS
        <2>5. PICK y : y = Over(t.writes, x) OBVIOUS
        <2>6. /\ Blurred(y, y.refs) /\ Acts(y, y.decisions)
              /\ \A s \in Events : Right(y, s)
            <3>1. /\ Blurred(x, x.refs) /\ Acts(x, x.decisions)
                  /\ \A s \in Events : Right(x, s)
                BY <2>3 DEF DecisionInv
            <3>2. Wrote(x, t, r) /\ GoodDb(x) /\ Settling(x, t) /\ t.todo = {}
                BY <2>1, <2>2, <2>3, <2>4
            <3> QED BY <3>1, <3>2, <2>5, CommitDecisions
        <2>7. db' = y BY <2>1, <2>3, <2>4, <2>5
        <2>8. ASSUME NEW q \in Open', state'[q] = "written" PROVE Settling(db', tx'[q])
            <3>1. q \in Open \ {r} /\ tx'[q] = tx[q] /\ state'[q] = state[q]
                BY <2>1, <2>8 DEF Ends, Open, IngestInv
            <3>2. Wrote(db, tx[q], q) /\ Settling(db, tx[q]) /\ tx[r].locks \cap tx[q].locks = {}
                BY <2>2, <2>8, <3>1 DEF IngestInv, DecisionInv, Exclusive, Standing, Stands
            <3>3. Settling(Over(tx[r].writes, db), tx[q]) BY <2>1, <2>2, <3>2, SettlingStays
            <3> QED BY <2>1, <3>1, <3>3
        <2> QED BY <2>6, <2>7, <2>8 DEF DecisionInv
    <1>9. ASSUME NEW r \in Requests, Abort(r) PROVE DecisionInv'
        <2>1. db' = db /\ Ends(r, "idle") BY <1>9 DEF Abort
        <2> QED BY <2>1, DecisionEnds
    <1> QED BY <1>1, <1>2, <1>3, <1>4, <1>5, <1>6, <1>7, <1>8, <1>9 DEF IngestNext, Goes

\* What is decided of a message is what the policy decides on all that is stored,
\* whatever the order in which events, references and reports came in, also where
\* an id means several messages; but for the two cases the property names.
THEOREM DecisionsAlwaysCurrent == IngestSpec => []DecisionsCurrent
    <1>1. IngestInit => DecisionInv
        <2> SUFFICES ASSUME IngestInit PROVE DecisionInv OBVIOUS
        <2>1. /\ DOMAIN db.rows = {} /\ DOMAIN db.refs = {} /\ DOMAIN db.decisions = {}
              /\ Open = {}
            BY DEF IngestInit, NoRows, Rows, Nothing, Open
        <2> QED BY <2>1 DEF DecisionInv, Blurred, Acts, Right, Sources
    <1>2. IngestInv /\ DecisionInv => DecisionsCurrent
        <2> SUFFICES ASSUME IngestInv, DecisionInv PROVE DecisionsCurrent OBVIOUS
        <2>1. ASSUME NEW s \in Sources(db)
              PROVE  IF Acting(db, s) = {} THEN s \notin DOMAIN db.decisions
                     ELSE \/ FromHistory(s) \/ Torn(s)
                          \/ s \in DOMAIN db.decisions /\ db.decisions[s] = Policy(db, s)
            <3>1. s \in Events
                <4>1. GoodRows(db) BY GoodParts DEF IngestInv
                <4> QED BY <4>1 DEF GoodRows, Sources
            <3>2. Right(db, s) /\ Acts(db, db.decisions) BY <3>1 DEF DecisionInv
            <3>3. Hist(db, s) => FromHistory(s) BY DEF Hist, FromHistory
            <3>4. TornIn(db, s) => Torn(s)
                BY DEF TornIn, TornLink, Several, Own, Sourced, Links, Torn
            <3> QED BY <3>2, <3>3, <3>4 DEF Right, Acts, Excused
        <2> QED BY <2>1 DEF DecisionsCurrent
    <1>3. IngestInv /\ IngestInv' /\ DecisionInv /\ [IngestNext]_ingestVars => DecisionInv'
        BY DecisionStep
    <1> QED BY <1>1, <1>2, <1>3, IngestInvariant, PTL DEF IngestSpec
================================================================================
