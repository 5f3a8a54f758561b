--------------------------- MODULE MCLibraryStore ---------------------------
(* Model-checking instances of LibraryStore.                               *)
EXTENDS LibraryStore, TLC

Symmetric == Permutations(Writers)
=============================================================================
