--------------------------- MODULE MCTaskManager ----------------------------
(* TaskManager on small instances.                                         *)
EXTENDS TaskManager, TLC

CONSTANTS t1, t2

DueTwo == (t1 :> {1, 2} @@ t2 :> {2})
DueOne == (t1 :> {1, 2})

Symmetry == Permutations(Loops) \cup Permutations(Stoppers)

=============================================================================
