---------------------------- MODULE MCCatalogTxn ----------------------------
(* Model-checking instance of the catalog store under concurrent calls. *)
EXTENDS CatalogTxn, TLC

Symmetry == Permutations(Orders) \cup Permutations(Backends)
=============================================================================
