--------------------------- MODULE MCControlMutations --------------------------
(* The instance of ControlMutations TLC checks. *)
EXTENDS ControlMutations, TLC

CONSTANTS p1, p2, d1, v1, admin, reviewer, sec, s1, s2, k1, k2, r1, r2

OneReviewedOnePaused ==
    (p1 :> "reviewed") @@ (p2 :> "paused") @@ (d1 :> "active") @@ (v1 :> "active")
EachPlanOneItem == [p \in {p1, p2} |-> {<<d1, v1>>}]
SelectsOne == [d \in {d1} |-> {v1}]
FarExpiry == [p \in {p1, p2} |-> 9]
OneOfEach == (admin :> "operator") @@ (reviewer :> "reviewer") @@ (sec :> "security_admin")
UpAndDown == {<<p1, "active">>, <<p1, "paused">>, <<p2, "active">>,
              <<d1, "suspended">>, <<v1, "quarantined">>}
StoppedOnce == {[mode |-> "canary", stop |-> TRUE]}

\* Keys, request slots and session slots are alike.
Alike == Permutations({k1, k2}) \cup Permutations({r1, r2}) \cup Permutations({s1, s2})
===============================================================================
