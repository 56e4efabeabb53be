------------------------------ MODULE MCArtifacts ------------------------------
(* The instances of RenderDelivery TLC checks. *)
EXTENDS RenderDelivery, TLC

CONSTANTS a, b, r1, r2, x, t, u, d1, d2, c1, c2

OneAttempt == [k \in Artifacts |-> t]
NoSource == [d \in Documents |-> None]
FromTheTool == [d \in Documents |-> a]

\* Nothing tells one call, or one row not yet inserted, from another.
Interchangeable == Permutations(Calls) \cup Permutations(Renders)
===============================================================================
