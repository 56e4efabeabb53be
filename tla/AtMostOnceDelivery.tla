--------------------------- MODULE AtMostOnceDelivery ---------------------------
(***************************************************************************)
(* What a delivery promises: an answer is sent at most once, whoever asks  *)
(* for it and however often.  A permit to send is given to one sender at a *)
(* time; it is used up by sending, and when it is given back unused, or is *)
(* lost with its sender, the answer may never be sent at all.              *)
(***************************************************************************)
CONSTANT Answers

VARIABLES
    permitted,  \* answers a sender may send now
    sent,       \* answers that went out
    confirmed   \* answers recorded as delivered

vars == <<permitted, sent, confirmed>>

TypeOK == {permitted, sent, confirmed} \subseteq SUBSET Answers

Init == permitted = {} /\ sent = {} /\ confirmed = {}

Permit(n) ==
    /\ n \notin permitted \cup sent
    /\ permitted' = permitted \cup {n}
    /\ UNCHANGED <<sent, confirmed>>

Send(n) ==
    /\ n \in permitted
    /\ permitted' = permitted \ {n} /\ sent' = sent \cup {n}
    /\ UNCHANGED confirmed

GiveUp(n) ==
    /\ n \in permitted
    /\ permitted' = permitted \ {n}
    /\ UNCHANGED <<sent, confirmed>>

Confirm(n) ==
    /\ n \in sent
    /\ confirmed' = confirmed \cup {n}
    /\ UNCHANGED <<permitted, sent>>

Next == \E n \in Answers : Permit(n) \/ Send(n) \/ GiveUp(n) \/ Confirm(n)

Spec == Init /\ [][Next]_vars
===============================================================================
