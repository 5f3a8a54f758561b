------------------------------- MODULE Sorting ------------------------------
(***************************************************************************)
(* Numbers in their own order, each once: what `order by id` makes of the  *)
(* rows of a query.                                                        *)
(***************************************************************************)
EXTENDS Naturals, FiniteSets

Ascending(ids) ==
  CHOOSE s \in [1..Cardinality(ids) -> ids] : \A i, j \in DOMAIN s : i < j => s[i] < s[j]
=============================================================================
