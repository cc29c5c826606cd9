------------------------- MODULE MCAsyncExecution -------------------------
(* Symmetry sets for checking AsyncExecution on small instances.           *)
EXTENDS AsyncExecution, TLC

Symmetry == Permutations(Jobs) \cup Permutations(Tasks) \cup Permutations(Syncs)
=============================================================================
