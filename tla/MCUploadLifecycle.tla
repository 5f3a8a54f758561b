-------------------------- MODULE MCUploadLifecycle -------------------------
(* Model-checking instances of UploadLifecycle.                            *)
EXTENDS UploadLifecycle, TLC

SymmetricUploads == Permutations(Uploads) \union Permutations(Hashes)

(* One replica: its handlers and its passes are interchangeable too.       *)
Symmetric == SymmetricUploads \union Permutations(Handlers)
             \union Permutations(Collectors)
=============================================================================
