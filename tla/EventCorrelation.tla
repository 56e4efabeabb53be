---------------------------- MODULE EventCorrelation ----------------------------
(***************************************************************************)
(* The ingestion of events and of reports of sent messages in Core, as the *)
(* transactions that run side by side on PostgreSQL.  A transaction sees   *)
(* what is committed and its own writes; what keeps two of them apart are  *)
(* locks held until the commit: of the message, of the row of the bot and  *)
(* of each decision that is recomputed.  Which of several interleavings    *)
(* took place must not show in what is stored.                             *)
(***************************************************************************)
EXTENDS EventRows

CONSTANTS
    Requests,     \* what is sent to Core: <<event or answer, number of the copy>>
    Connections,  \* bound: transactions open at a time, the connections of the pool
    MaxAborts     \* bound: how many transactions end without a commit

ASSUME RequestAssumption ==
    /\ \A r \in Requests : r[1] \in Events \cup Answers /\ r[2] \in Nat
    /\ Connections \in Nat \ {0} /\ MaxAborts \in Nat

VARIABLES
    db,       \* what is committed
    state,    \* [Requests -> where it stands]
    tx,       \* the transaction of each request that has one
    aborts    \* counted for the bound only

ingestVars == <<db, state, tx, aborts>>

\* looked: the message is locked and not stored; found: it is stored from the
\* history and is now live; written: the rows are written, decisions are due.
Running == {"looked", "found", "written"}
Ended == {"done", "refused"}

\* todo: the sources whose decisions are still to be recomputed.
Transaction(locks, writes, todo) == [locks |-> locks, writes |-> writes, todo |-> todo]

Open == DOMAIN tx
\* Slips: a row that does not change is not locked; nor is a decision.
NoBotLocks(b) == {}
NoDecisionLocks(s) == {}

BotLocks(b) == {<<"bot", b>>}
KeyLocks(p) == {<<"key", Of[p].bot, Of[p].key>>}  \* its entry in the unique index
DecisionLocks(s) == {<<"decision", s>>}
Free(r, locks) == \A q \in Open \ {r} : locks \cap tx[q].locks = {}
Seen(r) == Over(tx[r].writes, db)

Runs(r, where, t) ==
    /\ state' = [state EXCEPT ![r] = where]
    /\ tx' = Upon(One(r, t), tx)
Ends(r, where) ==
    /\ state' = [state EXCEPT ![r] = where]
    /\ tx' = [q \in Open \ {r} |-> tx[q]]

IngestTypeOK ==
    /\ \A o \in DOMAIN db.rows : {SourceOf(db, o), db.rows[o].packet} \subseteq Events
    /\ DOMAIN db.refs \subseteq DOMAIN db.rows
    /\ \A p \in DOMAIN db.refs : /\ db.refs[p].to \in Events \cup {Null}
                                 /\ db.refs[p].status \in Statuses
    /\ DOMAIN db.answers \subseteq Answers
    /\ DOMAIN db.decisions \subseteq Events
    /\ DOMAIN db.heard \subseteq Bots
    /\ state \in [Requests -> {"idle"} \cup Running \cup Ended]
    /\ Open = {r \in Requests : state[r] \in Running}
    /\ aborts \in 0 .. MaxAborts

\* Both bridges have registered with a heartbeat.
IngestInit ==
    /\ db = NoRows
    /\ state = [r \in Requests |-> "idle"]
    /\ tx = Nothing
    /\ aborts = 0

Begins(r) == state[r] = "idle" /\ Cardinality(Open) < Connections

-------------------------------------------------------------------------------
(* Events.                                                                 *)

\* ingest_event locks the message and looks for an observation of the bot.
Look(r) ==
    LET p == r[1]
        found == Existing(db, p)
        o == RowFound(db, p)
        refused == (\E q \in found : q # o) \/ (found # {} /\ Conflicts(db, o, p))
        locked == Transaction(MessageLocks(p), NoRows, {})
    IN  /\ p \in Events
        /\ Begins(r)
        /\ Free(r, MessageLocks(p))
        /\ IF found = {} THEN Runs(r, "looked", locked)
           ELSE IF refused THEN Ends(r, "refused")
           ELSE IF ComesAlive(db, o, p) THEN Runs(r, "found", locked)
           ELSE Ends(r, "done")
        /\ UNCHANGED <<db, aborts>>

\* The live delivery of an observation of the history: the row takes over its
\* contents, and a report that waited for it finds its source.  The row of the
\* bot is written, and so locked, only if no later event was heard of it.
Enliven(r) ==
    LET p == r[1]
        b == Of[p].bot
        o == RowFound(db, p)
        s == SourceOf(db, o)
        first == b \notin DOMAIN db.heard \/ db.heard[b] < Of[p].at
        locks == KeyLocks(p) \cup (IF first THEN BotLocks(b) ELSE {})
    IN  /\ state[r] = "found"
        /\ Free(r, locks)
        /\ SameIdentity(db, p) = {}
        /\ Runs(r, "written", Transaction(tx[r].locks \cup locks,
               Rows(One(o, [source |-> s, packet |-> p]), Nothing, Each(Caused(db, p), s),
                    Nothing, IF first THEN One(b, Of[p].at) ELSE Nothing),
               {s}))
        /\ UNCHANGED <<db, aborts>>

\* ensure_instance holds the row of the bot, changed or not, until the commit.
\* Then the observation is stored under its source, its own reference is
\* resolved and those of the bot that waited for it are tried again.
Insert(r) ==
    LET p == r[1]
        b == Of[p].bot
        s == EnsureSource(db, p)
        with == InsertedWith(db, p, s)
        found == {SourceOf(db, q) : q \in {q \in Waiting(with, p) :
                    Retried(with, p)[q].status = "resolved" /\ IsReply(q)}}
        locks == BotLocks(b) \cup KeyLocks(p)
    IN  /\ state[r] = "looked"
        /\ Free(r, locks)
        /\ SameIdentity(db, p) = {}
        /\ Runs(r, "written", Transaction(tx[r].locks \cup locks,
               Rows(One(p, [source |-> s, packet |-> p]), Upon(OwnRef(with, p), Retried(with, p)),
                    Each(Caused(db, p), s),
                    Nothing, IF Of[p].live THEN One(b, Of[p].at) ELSE Nothing),
               (IF Of[p].live THEN {s} ELSE {}) \cup found))
        /\ UNCHANGED <<db, aborts>>

\* The identity was stored since, for a message under another lock or for the
\* same notice: the constraint fails.  An insertion is rolled back and finds
\* the other row; the takeover is an error, and the bridge sends again.
Clash(r) ==
    LET p == r[1]
        o == CHOOSE o \in SameIdentity(db, p) : TRUE
    IN  /\ state[r] \in {"looked", "found"}
        /\ Free(r, BotLocks(Of[p].bot))
        /\ SameIdentity(db, p) # {}
        /\ Ends(r, IF state[r] = "found" THEN "idle"
                   ELSE IF Conflicts(db, o, p) THEN "refused" ELSE "done")
        /\ UNCHANGED <<db, aborts>>

-------------------------------------------------------------------------------
(* Reports of sent messages.                                               *)

\* ingest_response: a report that is stored is answered at once; another looks
\* for its trigger, which must be of its conversation, and for the messages that
\* reply to what was sent.
Report(r) ==
    LET a == r[1]
        b == Of[a].bot
        trigger == {o \in SeenBy(db, b) : Of[a].trigger # Null
                        /\ Of[Of[a].trigger].key = Current(db, o).key}
        source == IF trigger = {} THEN Null ELSE SourceOf(db, CHOOSE o \in trigger : TRUE)
    IN  /\ a \in Answers
        /\ Begins(r)
        /\ a \notin DOMAIN db.answers => Free(r, BotLocks(b))
        /\ IF a \in DOMAIN db.answers THEN Ends(r, "done")
           ELSE IF source # Null /\ Of[source].kind # Of[a].kind THEN Ends(r, "refused")
           ELSE Runs(r, "written", Transaction(BotLocks(b),
                        Rows(Nothing, Nothing, One(a, source), Nothing, Nothing), RepliesTo(db, a)))
        /\ UNCHANGED <<db, aborts>>

-------------------------------------------------------------------------------
(* Decisions, and the end of a transaction.                                *)

\* Its own message first, then those that reply to something, in order.
Due(r) ==
    LET own == {tx[r].writes.rows[o].source : o \in DOMAIN tx[r].writes.rows} \cap tx[r].todo
    IN  Lowest(IF own # {} THEN own ELSE tx[r].todo)

\* recompute_event_decision, for one source under its lock.
Recompute(r) ==
    LET s == Due(r)
        w == tx[r].writes
        decided == IF Acting(Seen(r), s) = {} THEN Nothing ELSE One(s, Policy(Seen(r), s))
    IN  /\ state[r] = "written" /\ tx[r].todo # {}
        /\ Free(r, DecisionLocks(s))
        /\ Runs(r, "written", Transaction(tx[r].locks \cup DecisionLocks(s),
               Rows(w.rows, w.refs, w.answers, Upon(decided, w.decisions), w.heard),
               tx[r].todo \ {s}))
        /\ UNCHANGED <<db, aborts>>

Commit(r) ==
    /\ state[r] = "written" /\ tx[r].todo = {}
    /\ db' = Seen(r)
    /\ Ends(r, "done")
    /\ UNCHANGED aborts

\* Core or the connection stops: nothing is stored, and the bridge sends again.
Abort(r) ==
    /\ r \in Open
    /\ aborts < MaxAborts
    /\ aborts' = aborts + 1
    /\ Ends(r, "idle")
    /\ UNCHANGED db

Goes(r) == Enliven(r) \/ Insert(r) \/ Clash(r) \/ Recompute(r) \/ Commit(r)

IngestNext == \E r \in Requests : Look(r) \/ Report(r) \/ Goes(r) \/ Abort(r)

IngestSpec == IngestInit /\ [][IngestNext]_ingestVars

-------------------------------------------------------------------------------
(* Properties.                                                             *)

Quiet == Open = {}
Earlier(x, y) == IF x <= y THEN x ELSE y
FromHistory(s) == \E o \in ObservationsOf(db, s) : ~Of[o].live

\* A reply of s was observed by a clock that is not that of s, and which messages
\* have the id it refers to, several of them, depends on the clock.
Torn(s) ==
    \E p \in Links(db, s) :
        LET own == Targets(db, p, Of[p].at)
            sources == Targets(db, p, Of[s].at)
        IN  own # sources /\ \E c, d \in own \cup sources : c # d

\* Whatever order the observations, references and reports came in, and however
\* their transactions overlapped, the decision stored for a message is the one
\* the policy takes on everything that is stored; a message known only from the
\* history has none.  That a short message id may be of several messages is no
\* exception: their order does not show either.  Two cases are excepted, in which
\* a reference changes without a recomputation.  Those of an observation read from
\* the history are stored so, beside a live observation of another bot; and a
\* reply is resolved by its own time first and by that of its source when it is
\* tried again, which recomputes only where it finds one message.
DecisionsCurrent ==
    Quiet => \A s \in Sources(db) :
        IF Acting(db, s) = {} THEN s \notin DOMAIN db.decisions
        ELSE \/ FromHistory(s) \/ Torn(s)
             \/ s \in DOMAIN db.decisions /\ db.decisions[s] = Policy(db, s)

\* What belongs together finds each other in either order and however the two
\* transactions overlap: a reference its target, a report of a sent message the
\* event that caused it.  (Not the report if that event was read from the
\* history first and a later event of the bot was stored before it is delivered
\* live: the README tells why.)
ReferencesMeet ==
    Quiet =>
        /\ \A p \in DOMAIN db.refs : db.refs[p].status = "unresolved" =>
               Targets(db, p, Earlier(Of[p].at, Of[SourceOf(db, p)].at)) = {}
        /\ \A a \in DOMAIN db.answers, o \in DOMAIN db.rows :
               (/\ Of[a].trigger # Null /\ Of[a].bot = Of[o].bot /\ Of[a].kind = Of[o].kind
                /\ db.rows[o].packet = o /\ Of[Of[a].trigger].key = Of[o].key)
                   => db.answers[a] = SourceOf(db, o)

\* One source per message and one observation of it per bot.  Observations that
\* carry the platform's time share a source just if they are of one message,
\* also when the bridges' clocks disagree by more than the window or the number
\* that identifies a message is used again; and a bot's message is stored once,
\* by whichever path, however often and at whatever time it is delivered.
SourceIsMessage ==
    \A o, q \in DOMAIN db.rows :
        LET timed == Null \notin {Of[o].time, Of[q].time, Fingerprint(o)}
            same == Fingerprint(o) = Fingerprint(q) /\ Of[o].time = Of[q].time
        IN  /\ timed => ((SourceOf(db, o) = SourceOf(db, q)) <=> same)
            /\ (o # q /\ Of[o].bot = Of[q].bot) => /\ Of[o].key # Of[q].key
                                                   /\ timed => ~same
================================================================================
