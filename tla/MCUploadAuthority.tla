------------------------- MODULE MCUploadAuthority -------------------------
(* Upload authorities among two users of a group.  The member's key starts *)
(* with one grant or the other, or with none.                              *)
EXTENDS UploadAuthority, MCAccessRules

CONSTANT r1

MCRegistrations == {r1}

MCInitialTables ==
  {TablesWith("members", "members", "member", {"library", "write"}, Absent),
   TablesWith("admins", "members", "member", Absent, {"library", "write"}),
   TablesWith("members", "members", "member", Absent, Absent)}
=============================================================================
