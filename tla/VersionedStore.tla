--------------------------- MODULE VersionedStore ---------------------------
(***************************************************************************)
(* What one library of the store promises its sync clients, with the       *)
(* transactions, locks, batches and row contents left out.  A library is a *)
(* version counter and a set of rows.  A row may be live, and it may have  *)
(* an entry in the deletion log; each carries the version that stamped it. *)
(* One step is one committed write: the counter goes up by exactly one and *)
(* every row the write touched is stamped with the new version.            *)
(***************************************************************************)
EXTENDS Naturals

CONSTANTS Rows,      \* every row a write can touch
          Reviving   \* the rows whose write erases their deletion-log entry

VARIABLES version,   \* library.version
          live,      \* live[r]: the stamp of the live row, 0 when there is none
          dead       \* dead[r]: the stamp in the deletion log, 0 when none

storeVars == <<version, live, dead>>

TypeOK ==
  /\ version \in Nat
  /\ live \in [Rows -> Nat]
  /\ dead \in [Rows -> Nat]

Init ==
  /\ version = 0
  /\ live = [r \in Rows |-> 0]
  /\ dead = [r \in Rows |-> 0]

Fates == {"keep", "upsert", "remove"}

(* One committed write.  fate says what it did to each row; it touched at  *)
(* least one, because a write of nothing does not take a version.          *)
Commit(fate) ==
  /\ version' = version + 1
  /\ \E r \in Rows : fate[r] # "keep"
  /\ live' = [r \in Rows |->
       CASE fate[r] = "keep"   -> live[r]
         [] fate[r] = "upsert" -> version + 1
         [] fate[r] = "remove" -> 0]
  /\ dead' = [r \in Rows |->
       CASE fate[r] = "remove" -> version + 1
         [] fate[r] = "upsert" /\ r \in Reviving -> 0
         [] OTHER -> dead[r]]

Next == \E fate \in [Rows -> Fates] : Commit(fate)

Spec == Init /\ [][Next]_storeVars
=============================================================================
