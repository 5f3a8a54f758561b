--------------------------- MODULE MCAccessRules ---------------------------
(* An owner and a member of the group, one key each, and the recovery key  *)
(* of the owner.                                                           *)
EXTENDS AccessRules, TLC

CONSTANTS owner, member, k1, k2, lib1, lib2, rec, absent, nokey, groupLib

MCUsers == {owner, member}
MCKeys == {k1, k2}
MCPersonalLibraries == {lib1, lib2}
MCRecoveryFlags == {"library", "write", "files"}

Full == {"library", "write", "files"}

TablesWith(editing, files, role2, all2, explicit2) ==
  (User(owner) :> "active") @@ (User(member) :> "active")
  @@ (Mapping(owner) :> lib1) @@ (Mapping(member) :> lib2)
  @@ (Key(k1) :> [owner |-> owner, revoked |-> FALSE])
  @@ (Key(k2) :> [owner |-> member, revoked |-> FALSE])
  @@ (KeyFlags(k1) :> Full) @@ (KeyFlags(k2) :> Full)
  @@ (Group :> [owner |-> owner, libraryEditing |-> editing, fileEditing |-> files])
  @@ (Member(owner) :> "owner") @@ (Member(member) :> role2)
  @@ (AllGrant(k1) :> {"library", "write"}) @@ (AllGrant(k2) :> all2)
  @@ (ExplicitGrant(k1) :> Absent) @@ (ExplicitGrant(k2) :> explicit2)
=============================================================================
