--------------------------- MODULE MCThreadQueue ---------------------------
(* Instances of ThreadQueue for TLC. *)
EXTENDS ThreadQueue, TLC

(* Callers, runners and threads are only compared for equality. *)
Symmetry == Permutations(Callers) \cup Permutations(Runners) \cup Permutations(Threads)

=============================================================================
