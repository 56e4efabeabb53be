---------------------------- MODULE MutationRegister ---------------------------
(***************************************************************************)
(* What the control plane promises an operator, without sessions,          *)
(* previews, locks or transactions: every key is decided once, for good;   *)
(* a key that is applied compares the version the operator saw and changes *)
(* the row in the same instant; a refused key changes nothing; and no row  *)
(* changes in any other way.                                               *)
(***************************************************************************)
EXTENDS Integers

CONSTANTS Targets, Names, Lifecycles

VARIABLES row,     \* [Targets -> [lifecycle, version]]
          decided  \* the decisions taken, each with the name it was asked under

vars == <<row, decided>>

Refusal(n) == [name |-> n, outcome |-> "refused"]
Applied(n, t, seen, to) ==
    [name |-> n, outcome |-> "applied", target |-> t, seen |-> seen, to |-> to]

Open(n) == \A d \in decided : d.name # n

Refuse(n) ==
    /\ Open(n)
    /\ decided' = decided \cup {Refusal(n)}
    /\ UNCHANGED row

CompareAndSet(n, t, seen, to) ==
    /\ Open(n)
    /\ row[t].version = seen
    /\ decided' = decided \cup {Applied(n, t, seen, to)}
    /\ row' = [row EXCEPT ![t] = [lifecycle |-> to, version |-> seen + 1]]

Init == /\ row \in [Targets -> [lifecycle : Lifecycles, version : Nat]]
        /\ decided = {}

\* Every step decides something.
Next ==
    /\ decided' # decided
    /\ \E n \in Names :
          \/ Refuse(n)
          \/ \E t \in Targets, to \in Lifecycles : CompareAndSet(n, t, row[t].version, to)

Spec == Init /\ [][Next]_vars
===============================================================================
