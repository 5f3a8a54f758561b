----------------------------- MODULE MCRowLocks -----------------------------
(* Two users whose personal libraries sort around the group's.             *)
EXTENDS RowLocks, TLC
CONSTANTS t1, t2, t3
MCUsers == {1, 2}
MCPersonal(u) == IF u = 1 THEN 11 ELSE 13
MCThree == {t1, t2, t3}
Symmetric == Permutations(Transactions)
=============================================================================
