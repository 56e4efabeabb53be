-------------------------------- MODULE MCEvents --------------------------------
(***************************************************************************)
(* Instances of EventCorrelation for TLC: one group with two bots.         *)
(***************************************************************************)
EXTENDS EventCorrelation

CONSTANTS lily, nekro

Native(msg) == IF msg = Null THEN Null ELSE msg % 10
By(bot, key, msg, sender, at) ==
    [bot |-> bot, key |-> key, kind |-> "group", msg |-> msg, sender |-> sender,
     seq |-> Native(msg), time |-> Native(msg), at |-> at, text |-> "plain", live |-> TRUE,
     ref |-> Null, relation |-> "reply_to"]

\* A user's message (1), which lily reads from the history too; what lily says to
\* it (2), under the same short id; the user's reply to that id (3), likewise, which
\* nekro reports five seconds later and somebody recalls, under an identity that was
\* used before; and another message with the number of the first (4).
Delivered == [
    l1 |-> [By(lily, "l1", 2, "user", 1) EXCEPT !.seq = 1, !.time = 1],
    h1 |-> [By(lily, "h1", 2, "user", 1) EXCEPT !.seq = 1, !.time = 1, !.live = FALSE],
    l2 |-> By(lily, "l2", 2, lily, 2),
    l3 |-> [By(lily, "l3", 3, "user", 7) EXCEPT !.ref = 2],
    h3 |-> [By(lily, "h3", 3, "user", 7) EXCEPT !.ref = 2, !.live = FALSE],
    n3 |-> [By(nekro, "n3", 23, "user", 12) EXCEPT !.text = "summons"],
    n4 |-> [By(nekro, "n4", 24, "user", 9) EXCEPT !.seq = 1],
    recall |-> [By(lily, "l1", Null, "user", 9) EXCEPT !.ref = 3, !.relation = "action"],
    said |-> [bot |-> lily, kind |-> "group", msg |-> 2, at |-> 2,
              success |-> TRUE, trigger |-> "l1"]]

AllEvents == {"l1", "h1", "l2", "l3", "h3", "n3", "n4", "recall"}
AllAnswers == {"said"}
InOrder == <<"n3", "l1", "h1", "h3", "l3", "l2", "n4", "recall">>
ASSUME SteadyInstance == TimedIdentities /\ OneMessagePerIdentity

Sent == {<<x, 1>> : x \in AllEvents \cup AllAnswers} \cup {<<"said", 2>>}
================================================================================
