-------------------------------- MODULE MCArchive ------------------------------
(* The exports ArchiveImport is checked with. *)
EXTENDS ArchiveImport, TLC

CONSTANTS i, j, k, m1, m2, t1, t2, p, q

L(kind, id, month, talk) == [kind |-> kind, id |-> id, month |-> month, talk |-> talk]

\* What an export usually has; one in which a refused row carries the key of another row;
\* one with a row that no conversation can be found for.
Exports ==
    {<<L("good", i, m1, t1), L("refused", None, m1, t1), L("refused", k, m2, t2),
       L("good", j, m2, t1)>>,
     <<L("refused", i, m1, t1), L("good", j, m1, t2), L("good", i, m2, t1)>>,
     <<L("late", k, m1, t1), L("good", i, m1, t1), L("unmapped", j, m1, t1)>>}

\* Nothing tells one process from the other.
Alike == Permutations(Importers)
===============================================================================
