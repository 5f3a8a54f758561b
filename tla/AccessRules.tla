---------------------------- MODULE AccessRules ----------------------------
(***************************************************************************)
(* Who may do what, as the server reads it from its tables.                *)
(*                                                                         *)
(* The authority tables are one function `d` from rows to values, so that  *)
(* a row can be locked, changed and read by name.  Every operator takes    *)
(* the tables it reads as a parameter: the modules that extend this one    *)
(* apply it to the committed tables of different moments.                  *)
(*                                                                         *)
(* One group stands for all of them: no rule relates two groups.           *)
(***************************************************************************)
EXTENDS FiniteSets

CONSTANTS
  Users,              \* users.id
  Keys,               \* api_keys, each with the hash of its token
  PersonalLibraries,  \* libraries of kind 'personal'
  GroupLibrary,       \* the library of the group
  Recovery,           \* the statically configured recovery key
  BootstrapUser,      \* config.user_id, the user the recovery key acts for
  RecoveryFlags,      \* its configured permissions
  Absent              \* the value of a row that does not exist

ASSUME AccessAssumption ==
  /\ BootstrapUser \in Users
  /\ Recovery \notin Keys
  /\ GroupLibrary \notin PersonalLibraries
  /\ RecoveryFlags \subseteq {"library", "write", "files"}
  /\ Absent \notin {"active", "disabled"}
  /\ Absent \notin [owner : Users, revoked : BOOLEAN]

Credentials == Keys \cup {Recovery}
Libraries == PersonalLibraries \cup {GroupLibrary}

(* The rows an authority depends on, named by table and primary key.       *)
User(u) == <<"users", u>>
Mapping(u) == <<"personal_libraries", u>>
Key(k) == <<"api_keys", k>>
KeyFlags(k) == <<"api_key_user_permissions", k>>
Group == <<"groups", GroupLibrary>>
Member(u) == <<"group_memberships", u>>
AllGrant(k) == <<"api_key_all_groups_permissions", k>>
ExplicitGrant(k) == <<"api_key_group_permissions", k>>

UserRows == {User(u) : u \in Users}
MappingRows == {Mapping(u) : u \in Users}
KeyRows == {Key(k) : k \in Keys}
FlagRows == {KeyFlags(k) : k \in Keys}
MemberRows == {Member(u) : u \in Users}
GrantRows == {AllGrant(k) : k \in Keys} \cup {ExplicitGrant(k) : k \in Keys}
Rows == UserRows \cup MappingRows \cup KeyRows \cup FlagRows \cup {Group}
          \cup MemberRows \cup GrantRows

(* Permission columns as the set of those that are true; the tables'       *)
(* checks make every other permission imply 'library'.                     *)
FlagSets == {s \in SUBSET {"library", "write", "files"} : s # {} => "library" \in s}
GrantSets == {s \in SUBSET {"library", "write"} : s # {} => "library" \in s}
Policies == [owner : Users, libraryEditing : {"admins", "members"},
             fileEditing : {"none", "admins", "members"}]

(* The rows with the values the schema admits for them.                    *)
Entries ==
  (UserRows \X {"active", "disabled"})
    \cup (MappingRows \X (PersonalLibraries \cup {Absent}))
    \cup (KeyRows \X [owner : Users, revoked : BOOLEAN])
    \cup (FlagRows \X (FlagSets \cup {Absent}))
    \cup ({Group} \X (Policies \cup {Absent}))
    \cup (MemberRows \X {"owner", "admin", "member", Absent})
    \cup (GrantRows \X (GrantSets \cup {Absent}))

---------------------------------------------------------------------------
(* Resolving a credential: one statement, an inner join over the key, its  *)
(* permissions, its owner and the owner's personal library.                *)
Owner(d, c) == IF c = Recovery THEN BootstrapUser ELSE d[Key(c)].owner

KeyIsLive(d, c) ==
  c # Recovery => ~d[Key(c)].revoked /\ d[KeyFlags(c)] # Absent

Resolves(d, c) ==
  /\ KeyIsLive(d, c)
  /\ d[User(Owner(d, c))] = "active"
  /\ d[Mapping(Owner(d, c))] # Absent

PersonalLibrary(d, c) == d[Mapping(Owner(d, c))]
Flags(d, c) == IF c = Recovery THEN RecoveryFlags ELSE d[KeyFlags(c)]

---------------------------------------------------------------------------
(* Resolving a group library: one statement that joins the group and its   *)
(* active owner with the requester's membership and the key's two grants.  *)
(* A grant outside `counted` is left out of the join.                      *)
GrantOf(d, row, counted) ==
  IF row \in counted /\ d[row] # Absent THEN d[row] ELSE {}

AllFlags(d, c, counted) ==
  IF c = Recovery THEN RecoveryFlags ELSE GrantOf(d, AllGrant(c), counted)

ExplicitFlags(d, c, counted) ==
  IF c = Recovery THEN {} ELSE GrantOf(d, ExplicitGrant(c), counted)

GroupExists(d) == d[Group] # Absent /\ d[User(d[Group].owner)] = "active"

IsAdmin(d, u) == d[Member(u)] \in {"owner", "admin"}

GroupReads(d, u, c, counted) ==
  /\ d[Member(u)] # Absent
  /\ "library" \in AllFlags(d, c, counted) \cup ExplicitFlags(d, c, counted)

PolicyWrite(d, u) ==
  IsAdmin(d, u) \/ (d[Member(u)] = "member" /\ d[Group].libraryEditing = "members")

GroupWrites(d, u, c, counted) ==
  \/ {"library", "write"} \subseteq ExplicitFlags(d, c, counted)
  \/ {"library", "write"} \subseteq AllFlags(d, c, counted) /\ PolicyWrite(d, u)

GroupWritesFiles(d, u, c, counted) ==
  /\ GroupWrites(d, u, c, counted)
  /\ \/ d[Group].fileEditing = "members"
     \/ d[Group].fileEditing = "admins" /\ IsAdmin(d, u)

(* The rows of GET /users/<id>/groups and GET /groups/<id>: the groups a   *)
(* user may learn of.                                                      *)
Discoverable(d, u, c) ==
  /\ GroupExists(d)
  /\ d[Member(u)] # Absent /\ d[User(u)] = "active"
  /\ \/ c = Recovery /\ "library" \in RecoveryFlags
     \/ "library" \in GrantOf(d, AllGrant(c), Rows)
     \/ "library" \in GrantOf(d, ExplicitGrant(c), Rows)

---------------------------------------------------------------------------
(* UploadAuthority::allows on tables d, with the grants in `counted`.      *)
Allows(d, c, target, counted) ==
  IF target = GroupLibrary
  THEN GroupExists(d) /\ GroupReads(d, Owner(d, c), c, counted)
         /\ GroupWritesFiles(d, Owner(d, c), c, counted)
  ELSE PersonalLibrary(d, c) = target /\ Flags(d, c) = {"library", "write", "files"}

(* What a credential is entitled to, whatever anybody holds locked.        *)
Entitled(d, c, target) == Resolves(d, c) /\ Allows(d, c, target, Rows)
=============================================================================
