---------------------------- MODULE RequestGates ----------------------------
(***************************************************************************)
(* Which requests http/middleware.rs lets through to their handlers, and   *)
(* with which rights, on the authority tables `d`.                         *)
(***************************************************************************)
EXTENDS AccessRules

CONSTANT NoKey    \* the credential of a request without a key

ASSUME GatesAssumption == NoKey \notin Credentials

(* What a request asks for, as far as its gates look at it.                *)
Routes == {"public", "upload", "current", "discovery", "personal", "group"}

(* Login and upload capabilities carry their own authority.                *)
Bootstrap(a) == a.route \in {"public", "upload"}

Authenticates(d, a) == a.credential # NoKey /\ Resolves(d, a.credential)

(* /users/<id>/.. is for the key's owner, except to look up groups.        *)
OwnPath(d, a) == a.route = "personal" => a.user = Owner(d, a.credential)

(* What a library route may do: LibraryAccess, as a set of capabilities.   *)
Capability(name, granted) == IF granted THEN {name} ELSE {}

PersonalAccess(flags) ==
  flags \cup Capability("file_write", {"write", "files"} \subseteq flags)

GroupAccess(d, c) ==
  LET u == Owner(d, c) IN
  IF ~(GroupExists(d) /\ GroupReads(d, u, c, Rows)) THEN {}
  ELSE {"library", "files"}
         \cup Capability("write", GroupWrites(d, u, c, Rows))
         \cup Capability("file_write", GroupWritesFiles(d, u, c, Rows))

Access(d, a) ==
  IF a.route = "group" THEN GroupAccess(d, a.credential)
  ELSE PersonalAccess(Flags(d, a.credential))

MutantPassesGates(d, a) ==    \* mutant: the group's file policy is not asked
  \/ Bootstrap(a)
  \/ /\ Authenticates(d, a) /\ OwnPath(d, a)
     /\ a.route \in {"personal", "group"} =>
          /\ "library" \in Access(d, a)
          /\ a.file => "files" \in Access(d, a)
          /\ a.mutating => "write" \in Access(d, a)

PassesGates(d, a) ==
  \/ Bootstrap(a)
  \/ /\ Authenticates(d, a) /\ OwnPath(d, a)
     /\ a.route \in {"personal", "group"} =>
          /\ "library" \in Access(d, a)
          /\ a.file => "files" \in Access(d, a)
          /\ a.mutating /\ a.file => "file_write" \in Access(d, a)
          /\ a.mutating => "write" \in Access(d, a)

(* The library a handler works on.                                         *)
RequestLibrary(d, a) ==
  IF a.route = "group" THEN GroupLibrary ELSE PersonalLibrary(d, a.credential)
=============================================================================
