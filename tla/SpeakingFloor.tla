----------------------------- MODULE SpeakingFloor -----------------------------
(***************************************************************************)
(* What claims promise about one message.  A bot may vow not to answer it, *)
(* if it has not answered already, and keeps the vow.  The floor is given  *)
(* at most once, to a bot that made no vow, on the vows of at least one    *)
(* other.  Nobody needs the floor to answer: without it, every bot that    *)
(* made no vow behaves as if there were no coordination.                   *)
(***************************************************************************)
CONSTANTS Instances, None

VARIABLES quiet,    \* the bots that vowed silence
          spoke,    \* the bots that answered
          owner     \* the bot that has the floor, or None

vars == <<quiet, spoke, owner>>

TypeOK == /\ quiet \subseteq Instances
          /\ spoke \subseteq Instances
          /\ owner \in Instances \cup {None}

Init == quiet = {} /\ spoke = {} /\ owner = None

Vow(x) == /\ x \notin spoke
          /\ x # owner
          /\ quiet' = quiet \cup {x}
          /\ UNCHANGED <<spoke, owner>>

Speak(x) == /\ x \notin quiet
            /\ spoke' = spoke \cup {x}
            /\ UNCHANGED <<quiet, owner>>

Grant(x) == /\ owner = None
            /\ x \notin quiet
            /\ quiet # {}
            /\ owner' = x
            /\ UNCHANGED <<quiet, spoke>>

Next == \E x \in Instances : Vow(x) \/ Speak(x) \/ Grant(x)

Spec == Init /\ [][Next]_vars
================================================================================
