------------------------------- MODULE EventRows -------------------------------
(***************************************************************************)
(* What Core stores of the events of several bots, and the functions over  *)
(* it: which observations are one platform message, which stored message   *)
(* a reference means, and what the policy decides of a message.            *)
(*                                                                         *)
(* A source event is named by the packet whose ingestion created it, an    *)
(* observation by the packet it was stored from.  What they say is kept only   *)
(* as far as the policy tells them apart.                                  *)
(***************************************************************************)
EXTENDS Integers, FiniteSets

CONSTANTS
    CommandBot, TalkBot,  \* the instances lily-command and nekro-agent
    Events,               \* names of packets: deliveries of a message by a bridge
    Answers,              \* names of reports of messages a bot has sent
    Told,                 \* what each of them tells
    Null,
    Window,               \* settings.correlation_window_seconds
    Mode,                 \* settings.conversation_mode of the conversation
    Order                 \* a sequence of Events: the order of the sources' random ids

Bots == {CommandBot, TalkBot}
Of == [x \in Events \cup Answers |-> Told[x]]
HistoryWindow == 30
Texts == {"", "plain", "summons", "command"}
Statuses == {"resolved", "ambiguous", "unresolved"}

\* key: the idempotency key and the source id reported by the bridge; seq and
\* time: the native identity; at: occurred_at, by the clock of the bridge.  A
\* notice, which carries an action, has no message.
Packet == [bot : Bots, key : STRING, kind : {"group", "private"}, msg : Nat \cup {Null},
           sender : Bots \cup {"user"}, seq : Nat \cup {Null}, time : Nat \cup {Null},
           at : Nat, text : Texts, live : BOOLEAN,
           ref : Nat \cup {Null}, relation : {"reply_to", "action"}]
Sending == [bot : Bots, kind : {"group", "private"}, msg : Nat, at : Nat,
           success : BOOLEAN, trigger : Events \cup {Null}]

ASSUME EventAssumption ==
    /\ CommandBot # TalkBot
    /\ {Of[p] : p \in Events} \subseteq Packet
    /\ {Of[a] : a \in Answers} \subseteq Sending
    /\ Events \cap Answers = {}
    /\ Window \in Nat
    /\ Mode \in {"full", "conversation_only", "command_only", "observe_only"}
    /\ Order \in [1 .. Cardinality(Events) -> Events]
    /\ \A p \in Events : \E k \in DOMAIN Order : Order[k] = p

\* rows: observation -> its source and the packet that was last accepted for it;
\* refs: its reference and how it was resolved; answers: the report -> the
\* source of its trigger; decisions: source -> what was decided; heard: bot ->
\* last_event_at of its row.
Nothing == [x \in {} |-> Null]
Rows(rows, refs, answers, decisions, heard) ==
    [rows |-> rows, refs |-> refs, answers |-> answers, decisions |-> decisions, heard |-> heard]
NoRows == Rows(Nothing, Nothing, Nothing, Nothing, Nothing)

One(x, v) == [y \in {x} |-> v]
Each(S, v) == [y \in S |-> v]
Upon(f, g) == [x \in DOMAIN f \cup DOMAIN g |-> IF x \in DOMAIN f THEN f[x] ELSE g[x]]

\* What a transaction sees: its own writes over what is committed.
Over(w, db) ==
    Rows(Upon(w.rows, db.rows), Upon(w.refs, db.refs), Upon(w.answers, db.answers),
         Upon(w.decisions, db.decisions), Upon(w.heard, db.heard))

SourceOf(db, o) == db.rows[o].source
Current(db, o) == Of[db.rows[o].packet]
Sources(db) == {SourceOf(db, o) : o \in DOMAIN db.rows}
ObservationsOf(db, s) == {o \in DOMAIN db.rows : SourceOf(db, o) = s}
SeenBy(db, b) == {o \in DOMAIN db.rows : Of[o].bot = b}

-------------------------------------------------------------------------------
(* Correlation.                                                            *)

\* event_correlation_fingerprint; Null where the identity is not strong.
Fingerprint(p) ==
    IF Of[p].kind = "group" /\ Of[p].msg # Null /\ Of[p].seq # Null
    THEN <<Of[p].sender, Of[p].seq>> ELSE Null

\* A slip: each bot locks its own view of the message.
OwnMessageLocks(p) == {<<"local", Of[p].bot, Of[p].kind, Of[p].msg>>}

\* What ingest_event locks before it looks anything up; nothing for a notice.
MessageLocks(p) ==
    IF Fingerprint(p) # Null THEN {<<"message", Fingerprint(p)>>}
    ELSE IF Of[p].msg # Null THEN {<<"local", Of[p].bot, Of[p].kind, Of[p].msg>>} ELSE {}

\* What the platform and its adapters keep to, and Core does not check.  A number
\* comes with the platform's time, ...
TimedIdentities == \A p \in Events : Fingerprint(p) # Null => Of[p].time # Null

\* ... and a sender's number at a time is one message.
OneMessagePerIdentity ==
    \A p, q \in Events :
        (/\ Of[p].bot = Of[q].bot /\ Fingerprint(p) # Null
         /\ Fingerprint(p) = Fingerprint(q) /\ Of[p].time = Of[q].time) => Of[p].msg = Of[q].msg

Near(x, y, d) == x - y \in -d .. d

\* _existing_observation: the same delivery again, ...
SameIdentity(db, p) ==
    {o \in SeenBy(db, Of[p].bot) : Of[p].key \in {Of[o].key, Current(db, o).key}}

\* ... the same message from the history or live (a row keeps its number, another is a
\* conflict; its time is that of the packet last accepted), ...
SameNative(db, p) ==
    {o \in SeenBy(db, Of[p].bot) :
        /\ Of[p].msg # Null /\ (~Of[p].live \/ ~Of[o].live)
        /\ Of[o].msg = Of[p].msg /\ Of[o].sender = Of[p].sender /\ Of[o].kind = Of[p].kind
        /\ Of[p].time # Null /\ Current(db, o).time = Of[p].time
        /\ Of[o].seq # Null /\ Of[o].seq = Of[p].seq
        /\ Near(Of[SourceOf(db, o)].at, Of[p].at, HistoryWindow)}

\* ... or the same strong identity at the same platform time.
SameStrong(db, p) ==
    {o \in SeenBy(db, Of[p].bot) :
        /\ Fingerprint(p) # Null /\ Fingerprint(SourceOf(db, o)) = Fingerprint(p)
        /\ Of[o].msg = Of[p].msg
        /\ Of[p].time # Null /\ Current(db, o).time = Of[p].time}

Existing(db, p) ==
    IF SameIdentity(db, p) # {} THEN SameIdentity(db, p)
    ELSE IF SameNative(db, p) # {} THEN SameNative(db, p) ELSE SameStrong(db, p)
RowFound(db, p) == CHOOSE o \in Existing(db, p) : TRUE

\* _validate_existing_observation: an identity reused for another message.
Differ(x, y) == Null \notin {x, y} /\ x # y
Conflicts(db, o, p) ==
    \/ Of[o].kind # Of[p].kind
    \/ Of[o].sender # Of[p].sender
    \/ Of[o].msg # Of[p].msg
    \/ Fingerprint(SourceOf(db, o)) # Fingerprint(p)
    \/ Differ(Current(db, o).seq, Of[p].seq)
    \/ Differ(Current(db, o).time, Of[p].time)

\* It was known from the history only, and is now delivered live.
ComesAlive(db, o, p) == ~Current(db, o).live /\ Of[p].live

\* ensure_source_event: the sources p may be another bot's observation of.
Compatible(db, p) ==
    {s \in Sources(db) :
        LET times == {Current(db, o).time : o \in ObservationsOf(db, s)}
            near == Window > 0 /\ Near(Of[s].at, Of[p].at, Window)
        IN  /\ Fingerprint(p) # Null /\ Fingerprint(s) = Fingerprint(p)
            /\ \A o \in ObservationsOf(db, s) : Of[o].bot # Of[p].bot
            /\ \A x, y \in times \ {Null} : x = y
            /\ (Of[p].time = Null) => near
            /\ (Of[p].time # Null) => /\ times \ {Null} \in {{}, {Of[p].time}}
                                      /\ (Null \in times) => near}

EnsureSource(db, p) ==
    IF \E s \in Events : Compatible(db, p) = {s}
    THEN CHOOSE s \in Events : Compatible(db, p) = {s} ELSE p

-------------------------------------------------------------------------------
(* References to other messages.                                           *)

\* The stored messages the reference of p may mean, none later than upto.  A
\* reply does not mean its own message.
Targets(db, p, upto) ==
    {SourceOf(db, o) : o \in {o \in SeenBy(db, Of[p].bot) :
        /\ Of[p].relation = "reply_to" => o # p
        /\ Of[o].msg = Of[p].ref /\ Of[o].kind = Of[p].kind
        /\ Of[SourceOf(db, o)].at <= upto}}

Reference(to, status) == [to |-> to, status |-> status]
Resolved(found) ==
    IF found = {} THEN Reference(Null, "unresolved")
    ELSE IF \E s \in Events : found = {s}
    THEN Reference(CHOOSE s \in Events : found = {s}, "resolved")
    ELSE Reference(Null, "ambiguous")

IsReply(p) == Of[p].relation = "reply_to"

\* A reply is resolved by the time of its packet when it is stored, by that of its
\* source when it is tried again; an action always by its own.
ResolveNewLink(db, p) == Resolved(Targets(db, p, Of[p].at))
ResolveStoredLink(db, p) == Resolved(Targets(db, p, Of[SourceOf(db, p)].at))
ResolveStoredAction(db, p) == Resolved(Targets(db, p, Of[p].at))
ResolveNew(db, p) == IF IsReply(p) THEN ResolveNewLink(db, p) ELSE ResolveStoredAction(db, p)
ResolveStored(db, p) == IF IsReply(p) THEN ResolveStoredLink(db, p) ELSE ResolveStoredAction(db, p)

\* The references of the bot without a target that may mean the observation o.
Unmet(db, o) ==
    {p \in DOMAIN db.refs : /\ db.refs[p].status # "resolved" /\ Of[p].bot = Of[o].bot
                            /\ Of[p].ref = Of[o].msg /\ Of[p].kind = Of[o].kind}
WaitingLinks(db, o) == {p \in Unmet(db, o) : IsReply(p)}
WaitingActions(db, o) == {p \in Unmet(db, o) : ~IsReply(p) /\ Of[p].at >= Of[SourceOf(db, o)].at}
Waiting(db, o) == WaitingLinks(db, o) \cup WaitingActions(db, o)

\* With the row of p stored under s: its own reference, and those tried again.
InsertedWith(db, p, s) ==
    Over(Rows(One(p, [source |-> s, packet |-> p]), Nothing, Nothing, Nothing, Nothing), db)
OwnRef(with, p) == IF Of[p].ref = Null THEN Nothing ELSE One(p, ResolveNew(with, p))
Retried(with, p) == [q \in Waiting(with, p) |-> ResolveStored(with, q)]

\* The reports of messages sent because of p.
Caused(db, p) == {a \in DOMAIN db.answers : /\ Of[a].bot = Of[p].bot /\ Of[a].kind = Of[p].kind
                                            /\ Of[a].trigger # Null
                                            /\ Of[Of[a].trigger].key = Of[p].key}

\* Of several sources the one with the least id.
Place(s) == CHOOSE k \in DOMAIN Order : Order[k] = s
Lowest(S) == CHOOSE s \in S : \A q \in S : Place(s) <= Place(q)

\* The messages that reply to what report a says was sent.
RepliesTo(db, a) ==
    {SourceOf(db, p) : p \in {p \in DOMAIN db.refs :
        /\ IsReply(p) /\ Of[p].bot = Of[a].bot
        /\ Of[p].ref = Of[a].msg /\ Of[p].kind = Of[a].kind
        /\ Of[a].at <= Of[SourceOf(db, p)].at}}

-------------------------------------------------------------------------------
(* The decision.                                                           *)

Links(db, s) == {p \in DOMAIN db.refs : IsReply(p) /\ SourceOf(db, p) = s}

\* The reports of sent messages that the links of s may mean, by link.
AnswersTo(db, s, p) ==
    {a \in DOMAIN db.answers :
        /\ Of[a].success /\ Of[a].bot = Of[p].bot /\ Of[a].msg = Of[p].ref
        /\ Of[a].kind = Of[s].kind /\ Of[a].at <= Of[s].at}

\* _reply_context: whose message s replies to.
Whose(replies, unclear, found, senders, reporters) ==
    LET bots == (senders \cap Bots) \cup reporters
    IN  IF ~replies THEN "none"
        ELSE IF unclear THEN "ambiguous"
        ELSE IF Cardinality(bots) > 1 \/ (bots # {} /\ "user" \in senders) THEN "conflict"
        ELSE IF bots # {} THEN CHOOSE b \in bots : TRUE
        ELSE IF found THEN "other" ELSE "unresolved"

RepliedTo(db, s) == {db.refs[p].to : p \in Links(db, s)} \ {Null}
SendersOf(db, targets) == {Of[o].sender : o \in {o \in DOMAIN db.rows : SourceOf(db, o) \in targets}}
Unclear(db, s) == \E p \in Links(db, s) : \/ db.refs[p].status = "ambiguous"
                                           \/ Cardinality(AnswersTo(db, s, p)) > 1
ReplyContext(db, s) ==
    Whose(Links(db, s) # {}, Unclear(db, s), RepliedTo(db, s) # {}, SendersOf(db, RepliedTo(db, s)),
          {Of[a].bot : a \in UNION {AnswersTo(db, s, p) : p \in Links(db, s)}})

\* The packet the policy reads, of those accepted for observations of the message:
\* one with text before one without, then the command bot's before another's.
Rank(seen, o) == (IF Of[seen[o]].text # "" THEN 0 ELSE 2)
                 + (IF Of[o].bot = CommandBot THEN 0 ELSE 1)
Preferred(seen) ==
    seen[CHOOSE o \in DOMAIN seen : \A q \in DOMAIN seen : Rank(seen, o) <= Rank(seen, q)]

Decision(type, target, reason) == [type |-> type, target |-> target, reason |-> reason]
Observe(reason) == Decision("observe_only", Null, reason)
Talk(reason) == Decision("talk", TalkBot, reason)
TalkEnabled == Mode \in {"conversation_only", "full"}

\* decide_event, for the messages of users and bots.
Decide(p, reply) ==
    LET summons == Of[p].text = "summons" /\ Of[p].sender = "user"
        private == Of[p].kind = "private"
    IN  IF Of[p].msg = Null THEN Decision("ignore", Null, "non_message_event")
        ELSE IF Of[p].sender \in Bots THEN Observe("bot_message_observed")
        ELSE IF reply # "none" THEN
            CASE reply = TalkBot -> IF TalkEnabled THEN Talk("reply_to_talk_response")
                                    ELSE Observe("conversation_mode")
              [] reply = CommandBot -> Observe("reply_to_command_response_observed")
              [] reply \in {"ambiguous", "conflict"} -> Observe("reply_target_conflict_observed")
              [] reply \in {"other", "unresolved"} ->
                    IF summons THEN IF TalkEnabled THEN Talk("summons_talk_bot_with_reply")
                                    ELSE Observe("conversation_mode")
                    ELSE Observe(IF reply = "other" THEN "reply_to_other_observed"
                                 ELSE "reply_reference_observed")
        ELSE IF Of[p].text = "command" /\ (private => Of[p].bot = CommandBot) THEN
            IF ~private /\ Mode \notin {"command_only", "full"}
            THEN Observe("command_target_unavailable")
            ELSE Decision("command", CommandBot, "command")
        ELSE IF ~private /\ ~TalkEnabled THEN Observe("conversation_mode")
        ELSE IF private THEN IF Of[p].bot = TalkBot THEN Talk("private_recipient_talk")
                             ELSE Observe("private_recipient_observed")
        ELSE IF summons THEN Talk("summons_talk_bot") ELSE Observe("ordinary_message")

\* _recompute_event_decision_unlocked.  What was only read from the history does
\* not act; a message of which nothing else is known has no decision.
Acting(db, s) == {o \in ObservationsOf(db, s) : Current(db, o).live}
Accepted(db, s) == [o \in Acting(db, s) |-> db.rows[o].packet]
Policy(db, s) == Decide(Preferred(Accepted(db, s)), ReplyContext(db, s))
================================================================================
