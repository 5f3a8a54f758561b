--------------------------- MODULE MCLoginSession ---------------------------
EXTENDS LoginSession, TLC
Symmetric == Permutations(Handlers) \cup Permutations(Users) \cup Permutations(Sessions)
=============================================================================
