--------------------------- MODULE MCToolExecution ---------------------------
(***************************************************************************)
(* Instances of ToolExecution for TLC.                                     *)
(***************************************************************************)
EXTENDS ToolExecution

CONSTANTS i1, i2, p1, p2, v1, v2, s1, s2, tool

\* Two scopes (conversations) of one tool, served by two providers under one
\* plan; a second plan takes over the first scope.
ConcurrencyItems == [p \in Plans |-> [s \in Scopes |->
    IF s = s1 THEN v1 ELSE IF p = p1 THEN v2 ELSE None]]
ConcurrencyScopes == [i \in Invocations |-> IF i = i1 THEN s1 ELSE s2]

\* One scope, one provider, one plan.
SingleItems == [p \in Plans |-> [s \in Scopes |-> v1]]
SingleScopes == [i \in Invocations |-> s1]

OneTool == [s \in Scopes |-> tool]
LimitOne == [x \in Tools |-> 1]
LimitTwo == [x \in Providers |-> 2]
QuotaTwo == [p \in Plans |-> 2]
QuotaOne == [p \in Plans |-> 1]
ExpiresLate == [p \in Plans |-> 4]
ExpiresLater == [p \in Plans |-> 3]
ExpiresSoon == [p \in Plans |-> 2]
=============================================================================
