------------------------------ MODULE SpoolRecords ------------------------------
(***************************************************************************)
(* The records a bridge numbers and Core receives.  A key is the identity  *)
(* of one event (idempotency key and source event id); a content stands    *)
(* for the payload and its hash.  A spool id is drawn at random when the   *)
(* file is made: the n-th file of a bridge has the id n.  The capture time *)
(* is fixed with the sequence and is not kept.                             *)
(***************************************************************************)
EXTENDS Naturals

CONSTANTS
    Keys,      \* the events of one bridge
    Contents,  \* what may be captured for an event
    MaxSpools, \* bound: how many spool files the bridge ever makes
    None       \* no record

ASSUME SpoolAssumption == MaxSpools \in Nat \ {0}

Spools == 1 .. MaxSpools
Record == [key : Keys, content : Contents, spool : Spools, sequence : Nat \ {0}]

ASSUME NoneIsNoRecord == None \notin Record
================================================================================
