---------------------------- MODULE MCSyncClient ----------------------------
(* Model-checking instances of SyncClient.                                 *)
EXTENDS SyncClient, TLC

CONSTANTS c1, i1, s1

(* A collection, and an item that the listing of items covers.             *)
MCListings == {{c1}, {i1}}
MCRows == {c1, i1, s1}
MCSettings == {s1}
=============================================================================
