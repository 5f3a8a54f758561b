-------------------------- MODULE UploadAuthority --------------------------
(***************************************************************************)
(* Registering an upload under live authority: store/files.rs,             *)
(* lock_upload_authorities.                                                *)
(*                                                                         *)
(* An upload is authorized with one credential and registered, up to an    *)
(* hour later, with another.  Both must still be entitled to write files   *)
(* of the upload's library at the moment the registration commits.  The    *)
(* transaction reads who they are, locks in share mode every row that      *)
(* entitles them, and decides again on what it holds.  Between any two of  *)
(* its statements an administrator changes the tables, waiting only for    *)
(* rows that are locked.                                                   *)
(*                                                                         *)
(* The library rows, which order registrations among themselves and with   *)
(* other writers, are in module RowLocks.                                  *)
(***************************************************************************)
EXTENDS RequestGates, Naturals

CONSTANTS
  Registrations,    \* transactions that register an upload
  InitialTables,    \* the authority tables a behaviour may start from
  MaxChanges        \* bound: administrative changes in a behaviour

(* The constraints of the schema that relate rows: a personal library has  *)
(* one user, the group's owner is its only member with that role, and an   *)
(* explicit grant is held by a key of a member.                            *)
Consistent(d) ==
  /\ \A u, v \in Users :
       d[Mapping(u)] = d[Mapping(v)] /\ d[Mapping(u)] # Absent => u = v
  /\ d[Group] # Absent =>
       \A u \in Users : d[Member(u)] = "owner" <=> u = d[Group].owner
  /\ \A k \in Keys :
       d[ExplicitGrant(k)] # Absent => d[Member(d[Key(k)].owner)] # Absent

IsTables(d) == DOMAIN d = Rows /\ \A x \in Rows : <<x, d[x]>> \in Entries

ASSUME UploadAssumption ==
  /\ \A d \in InitialTables : IsTables(d) /\ Consistent(d)
  /\ MaxChanges \in Nat

VARIABLES
  db,       \* the committed authority tables
  reg,      \* per registration: its upload, progress and locks
  changes   \* administrative changes so far

vars == <<db, reg, changes>>

Credential(r, i) == reg[r].credentials[i]
ForGroup(r) == reg[r].target = GroupLibrary

---------------------------------------------------------------------------
Identity(d, c) == [user |-> Owner(d, c), library |-> PersonalLibrary(d, c)]

Stages == {"discover", "group", "users", "mappings", "keys", "flags", "members",
           "all", "explicit", "reread", "allow", "commit",
           "done", "denied", "dropped"}
Running == Stages \ {"done", "denied", "dropped"}

NoIdentity == [user |-> Absent, library |-> Absent]

(* An upload and its caller, the first statement still to come.  The       *)
(* credentials may have changed hands since the upload was authorized.     *)
NewRegistration(target, authorizer, caller) ==
  [stage |-> "discover", turn |-> 1, target |-> target,
   credentials |-> <<authorizer, caller>>, found |-> <<NoIdentity, NoIdentity>>,
   locks |-> {}, quiet |-> TRUE]

Init ==
  /\ db \in InitialTables
  /\ reg \in [Registrations ->
       {NewRegistration(target, c1, c2) :
          target \in Libraries, c1 \in Credentials, c2 \in Credentials}]
  /\ changes = 0

---------------------------------------------------------------------------
(* The registration's statements.                                          *)
(* An early return drops the transaction and with it the locks.            *)
MutantEnd(r, stage) == reg' = [reg EXCEPT ![r].stage = stage]   \* mutant: still locked
End(r, stage) == reg' = [reg EXCEPT ![r].stage = stage, ![r].locks = {}]

(* Discovery: resolve both credentials, holding nothing.                   *)
Discover(r) ==
  LET i == reg[r].turn
      c == Credential(r, i)
  IN
  /\ reg[r].stage = "discover"
  /\ IF ~Resolves(db, c) THEN End(r, "denied")
     ELSE reg' = [reg EXCEPT
            ![r].found[i] = Identity(db, c),
            ![r].turn = IF i = 1 THEN 2 ELSE 1,
            ![r].stage = IF i = 1 THEN "discover"
                         ELSE IF ForGroup(r) THEN "group" ELSE "users"]
  /\ UNCHANGED <<db, changes>>

(* The owners of the two credentials, and the keys behind them: sets, as   *)
(* the code sorts and removes duplicates before it counts the rows.        *)
Owners(r) == {reg[r].found[i].user : i \in 1..2}
MutantKeysOf(r) == {Credential(r, i) : i \in 1..2}   \* mutant: recovery key counted
KeysOf(r) == {Credential(r, i) : i \in 1..2} \cap Keys

(* `select .. for share`: those of `rows` that exist are locked.           *)
Lock(r, rows, next) ==
  reg' = [reg EXCEPT ![r].locks = reg[r].locks \cup {x \in rows : db[x] # Absent},
                     ![r].stage = next, ![r].turn = 1]

LockSome(r, stage, rows, next) ==
  /\ reg[r].stage = stage
  /\ Lock(r, rows, next)
  /\ UNCHANGED <<db, changes>>

(* The same, refused unless every row exists.                              *)
LockEvery(r, stage, rows, next) ==
  /\ reg[r].stage = stage
  /\ IF \A x \in rows : x \in Rows /\ db[x] # Absent
     THEN Lock(r, rows, next) ELSE End(r, "denied")
  /\ UNCHANGED <<db, changes>>

LockGroup(r) == LockEvery(r, "group", {Group}, "users")

(* The group's owner, read from the group row that is now locked, decides  *)
(* too: a group whose owner is disabled is closed.                         *)
Deciders(r) == Owners(r) \cup (IF ForGroup(r) THEN {db[Group].owner} ELSE {})

LockUsers(r) == LockSome(r, "users", {User(u) : u \in Deciders(r)}, "mappings")
LockMappings(r) == LockEvery(r, "mappings", {Mapping(u) : u \in Owners(r)}, "keys")
LockKeys(r) == LockEvery(r, "keys", {Key(k) : k \in KeysOf(r)}, "flags")
LockFlags(r) == LockEvery(r, "flags", {KeyFlags(k) : k \in KeysOf(r)},
                          IF ForGroup(r) THEN "members" ELSE "reread")
LockMembers(r) == LockEvery(r, "members", {Member(u) : u \in Owners(r)}, "all")
LockAllGrants(r) ==
  LockSome(r, "all", {AllGrant(k) : k \in KeysOf(r)}, "explicit")
LockExplicitGrants(r) ==
  LockSome(r, "explicit", {ExplicitGrant(k) : k \in KeysOf(r)}, "reread")

(* The second look: each credential must resolve to whom it was found to   *)
(* be, and be entitled by rows that are locked.                            *)
Reread(r) ==
  LET i == reg[r].turn
      c == Credential(r, i)
  IN
  /\ reg[r].stage = "reread"
  /\ IF Resolves(db, c) /\ Identity(db, c) = reg[r].found[i]
     THEN reg' = [reg EXCEPT ![r].stage = "allow"]
     ELSE End(r, "denied")
  /\ UNCHANGED <<db, changes>>

MutantCountedGrants(r) == Rows      \* mutant: a grant nobody holds counts
CountedGrants(r) == reg[r].locks

Allow(r) ==
  LET i == reg[r].turn IN
  /\ reg[r].stage = "allow"
  /\ IF ~Allows(db, Credential(r, i), reg[r].target, CountedGrants(r))
     THEN End(r, "denied")
     ELSE reg' = [reg EXCEPT ![r].stage = IF i = 1 THEN "reread" ELSE "commit",
                             ![r].turn = IF i = 1 THEN 2 ELSE 1]
  /\ UNCHANGED <<db, changes>>

(* The file becomes live (modules LibraryStore and UploadLifecycle).       *)
Commit(r) ==
  /\ reg[r].stage = "commit"
  /\ End(r, "done")
  /\ UNCHANGED <<db, changes>>

(* The request's future is dropped or a statement fails: a rollback.       *)
Drop(r) ==
  /\ reg[r].stage \in Running
  /\ End(r, "dropped")
  /\ UNCHANGED <<db, changes>>

---------------------------------------------------------------------------
(* Administration: a change of one row, a member's removal with the        *)
(* grants that cascade from it, or a change of owner.  The group is not    *)
(* deleted while uploads refer to it.                                      *)
OneRow(d, x, v) == [d EXCEPT ![x] = v]

MemberRemoved(d, u) ==
  [x \in Rows |->
     IF x = Member(u) \/ \E k \in Keys : x = ExplicitGrant(k) /\ d[Key(k)].owner = u
     THEN Absent ELSE d[x]]

OwnerChanged(d, u) ==
  [d EXCEPT ![Group].owner = u, ![Member(d[Group].owner)] = "admin",
            ![Member(u)] = "owner"]

Administrations(d) ==
  {OneRow(d, e[1], e[2]) : e \in Entries}
    \cup {MemberRemoved(d, u) : u \in Users}
    \cup {OwnerChanged(d, u) : u \in IF d[Group] = Absent THEN {} ELSE Users}

(* The statement waits until no registration holds a row it changes.  A    *)
(* change after the last registration has ended concerns none.             *)
Administer(d) ==
  /\ \E r \in Registrations : reg[r].stage \in Running
  /\ d # db /\ Consistent(d)
  /\ db[Group] # Absent => d[Group] # Absent
  /\ \A r \in Registrations : \A x \in reg[r].locks : d[x] = db[x]
  /\ db' = d
  /\ changes' = changes + 1
  /\ reg' = [r \in Registrations |-> [reg[r] EXCEPT !.quiet = FALSE]]

Register(r) ==
  \/ Discover(r) \/ LockGroup(r) \/ LockUsers(r) \/ LockMappings(r) \/ LockKeys(r)
  \/ LockFlags(r) \/ LockMembers(r) \/ LockAllGrants(r) \/ LockExplicitGrants(r)
  \/ Reread(r) \/ Allow(r) \/ Commit(r) \/ Drop(r)

Next ==
  \/ \E r \in Registrations : Register(r)
  \/ changes < MaxChanges /\ \E d \in Administrations(db) : Administer(d)

Spec == Init /\ [][Next]_vars

---------------------------------------------------------------------------
(* The tables and the registrations keep their types, the tables their     *)
(* constraints, and a registration that has ended holds no row.            *)
TypeOK ==
  /\ IsTables(db) /\ Consistent(db)
  /\ changes \in 0..MaxChanges
  /\ reg \in [Registrations ->
       [stage : Stages, turn : 1..2, target : Libraries,
        credentials : Credentials \X Credentials,
        found : [1..2 -> [user : Users \cup {Absent},
                          library : PersonalLibraries \cup {Absent}]],
        locks : SUBSET Rows, quiet : BOOLEAN]]
  /\ \A r \in Registrations : reg[r].stage \notin Running => reg[r].locks = {}

(* A registration that has passed its checks is entitled to commit in      *)
(* every state until it does: no revocation, disabled user, removed        *)
(* membership, withdrawn grant or changed policy slips in between          *)
(* (store/files.rs:327, "Re-read after all waits").                        *)
AuthorityHeld ==
  \A r \in Registrations : reg[r].stage = "commit" =>
    \A i \in 1..2 : Entitled(db, Credential(r, i), reg[r].target)

(* Failing closed refuses nobody who is entitled: when nothing was changed *)
(* while the registration ran, it is denied only if one of its             *)
(* credentials lacks the right.                                            *)
DeniedForCause ==
  \A r \in Registrations : reg[r].stage = "denied" /\ reg[r].quiet =>
    \E i \in 1..2 : ~Entitled(db, Credential(r, i), reg[r].target)

(* Three pieces of code say who may write a file of a library or read a    *)
(* group, and agree on all tables: the gates of the middleware let the     *)
(* caller's upload through exactly when its registration is entitled, so   *)
(* an upload that was begun can be finished while nothing changes; and a   *)
(* group's data may be read exactly by whom the group is listed for.       *)
RulesAgree ==
  \A r \in Registrations :
    LET c == Credential(r, 2)
        target == reg[r].target
        ask == [route |-> IF ForGroup(r) THEN "group" ELSE "personal",
                user |-> Owner(db, c), credential |-> c, mutating |-> TRUE, file |-> TRUE]
        read == [ask EXCEPT !.route = "group", !.mutating = FALSE, !.file = FALSE]
    IN Resolves(db, c) =>
         /\ (PassesGates(db, ask) /\ RequestLibrary(db, ask) = target)
              <=> Entitled(db, c, target)
         /\ PassesGates(db, read) <=> Discoverable(db, Owner(db, c), c)
=============================================================================
