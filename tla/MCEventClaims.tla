----------------------------- MODULE MCEventClaims -----------------------------
(***************************************************************************)
(* Instances of EventClaims for TLC.  "lily" runs the claim before any     *)
(* handler; in "nekro" another plugin may answer first.                    *)
(***************************************************************************)
EXTENDS EventClaims

CONSTANTS lily, nekro, third

AnyTarget == {lily, nekro, Silence}
LilyTwice == [x \in Instances |-> IF x = lily THEN 2 ELSE 1]
================================================================================
