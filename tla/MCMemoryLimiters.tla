-------------------------- MODULE MCMemoryLimiters --------------------------
(* Goroutines that call Allow for one key. *)
EXTENDS MemoryLimiters, TLC

Symmetry == Permutations(Callers)
=============================================================================
