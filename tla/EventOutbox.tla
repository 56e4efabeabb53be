------------------------------- MODULE EventOutbox -------------------------------
(***************************************************************************)
(* What the delivery of events promises.  A bridge holds a record from its *)
(* capture until the record is stored, or until the whole file is lost to  *)
(* damage.  It stores at most one record of an event, and no two under the *)
(* same number of a spool.                                                 *)
(***************************************************************************)
EXTENDS SpoolRecords

VARIABLES held,     \* records the bridge still answers for
          offered,  \* records it ever sent
          stored    \* records that are stored

vars == <<held, offered, stored>>

Init == held = {} /\ offered = {} /\ stored = {}

\* A record is captured, and perhaps sent in the same step.
Capture(r) == /\ r \in Record
              /\ held' = held \cup {r}
              /\ offered' \in {offered, offered \cup {r}}
              /\ UNCHANGED stored

Offer(r) == /\ offered' = offered \cup {r}
            /\ UNCHANGED <<held, stored>>

Store(r) == /\ \A q \in stored : /\ q.key # r.key
                                 /\ q.spool = r.spool => q.sequence # r.sequence
            /\ stored' = stored \cup {r}
            /\ UNCHANGED <<held, offered>>

Release(r) == /\ held' = held \ {r}
              /\ UNCHANGED <<offered, stored>>

LoseAll == held' = {} /\ UNCHANGED <<offered, stored>>

Next ==
    \/ \E r \in held' : Capture(r)
    \/ \E r \in held \cup stored : Offer(r)
    \/ \E r \in offered : Store(r)
    \/ \E r \in stored : Release(r)
    \/ LoseAll

Spec == Init /\ [][Next]_vars
================================================================================
