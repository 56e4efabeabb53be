-------------------------------- MODULE MCAgents --------------------------------
(* The instance of AgentRuns TLC checks. *)
EXTENDS AgentRuns, TLC

CONSTANTS m1, m2

\* Nothing tells one message not yet accepted from another.
Alike == Permutations(Messages)
================================================================================
