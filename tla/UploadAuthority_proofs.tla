----------------------- MODULE UploadAuthority_proofs -----------------------
(***************************************************************************)
(* Proof that a registration commits only while both of its credentials    *)
(* are entitled, for any users, keys, libraries and administration.        *)
(***************************************************************************)
EXTENDS UploadAuthority, TLAPS

FoundType ==
  [1..2 -> [user : Users \cup {Absent}, library : PersonalLibraries \cup {Absent}]]

RegType ==
  [stage : Stages, turn : 1..2, target : Libraries,
   credentials : Credentials \X Credentials,
   found : FoundType,
   locks : SUBSET Rows, quiet : BOOLEAN]

---------------------------------------------------------------------------
(* The rows that entitle a credential.                                     *)
Support(d, c, target, locked) ==
  /\ c # Recovery => Key(c) \in locked /\ KeyFlags(c) \in locked
  /\ User(Owner(d, c)) \in locked /\ Mapping(Owner(d, c)) \in locked
  /\ target = GroupLibrary =>
       /\ Group \in locked /\ User(d[Group].owner) \in locked
       /\ Member(Owner(d, c)) \in locked

(* Tables that agree on the rows that entitle a credential, and on the     *)
(* grants that are counted, decide alike.                                  *)
LEMMA Stable ==
  ASSUME NEW d, NEW e, NEW c, NEW target, NEW locked,
         \A x \in locked : e[x] = d[x], Support(d, c, target, locked)
  PROVE  /\ Support(e, c, target, locked)
         /\ Identity(e, c) = Identity(d, c)
         /\ Resolves(d, c) => Resolves(e, c)
         /\ Allows(d, c, target, locked) => Allows(e, c, target, locked)
<1>1. Owner(e, c) = Owner(d, c)
  BY DEF Support, Owner
<1>2. PersonalLibrary(e, c) = PersonalLibrary(d, c) /\ Flags(e, c) = Flags(d, c)
  BY <1>1 DEF Support, PersonalLibrary, Flags
<1>3. Identity(e, c) = Identity(d, c)
  BY <1>1, <1>2 DEF Identity
<1>4. Resolves(d, c) => Resolves(e, c)
  BY <1>1 DEF Support, Resolves, KeyIsLive
<1>5. AllFlags(e, c, locked) = AllFlags(d, c, locked)
      /\ ExplicitFlags(e, c, locked) = ExplicitFlags(d, c, locked)
  BY DEF AllFlags, ExplicitFlags, GrantOf
<1>6. CASE target = GroupLibrary
  <2> DEFINE u == Owner(d, c)
  <2>1. /\ e[Group] = d[Group] /\ e[User(d[Group].owner)] = d[User(d[Group].owner)]
        /\ e[Member(u)] = d[Member(u)]
    BY <1>6 DEF Support
  <2>2. Support(e, c, target, locked)
    BY <1>1, <1>6, <2>1 DEF Support
  <2>3. GroupExists(e) <=> GroupExists(d)
    BY <2>1 DEF GroupExists
  <2>4. GroupReads(e, u, c, locked) <=> GroupReads(d, u, c, locked)
    BY <1>5, <2>1 DEF GroupReads
  <2>5. GroupWrites(e, u, c, locked) <=> GroupWrites(d, u, c, locked)
    BY <1>5, <2>1 DEF GroupWrites, PolicyWrite, IsAdmin
  <2>6. GroupWritesFiles(e, u, c, locked) <=> GroupWritesFiles(d, u, c, locked)
    BY <2>1, <2>5 DEF GroupWritesFiles, IsAdmin
  <2> QED BY <1>1, <1>3, <1>4, <1>6, <2>2, <2>3, <2>4, <2>6 DEF Allows
<1>7. CASE target # GroupLibrary
  BY <1>1, <1>2, <1>3, <1>4, <1>7 DEF Allows, Support
<1> QED BY <1>6, <1>7

(* A right that counts fewer grants is a right.                            *)
LEMMA Enough ==
  ASSUME NEW d, NEW c, NEW target, NEW locked \in SUBSET Rows, Allows(d, c, target, locked)
  PROVE  Allows(d, c, target, Rows)
<1>1. AllFlags(d, c, locked) \subseteq AllFlags(d, c, Rows)
      /\ ExplicitFlags(d, c, locked) \subseteq ExplicitFlags(d, c, Rows)
  BY DEF AllFlags, ExplicitFlags, GrantOf
<1> DEFINE u == Owner(d, c)
<1>2. GroupReads(d, u, c, locked) => GroupReads(d, u, c, Rows)
  BY <1>1 DEF GroupReads
<1>3. GroupWrites(d, u, c, locked) => GroupWrites(d, u, c, Rows)
  BY <1>1 DEF GroupWrites
<1>4. GroupWritesFiles(d, u, c, locked) => GroupWritesFiles(d, u, c, Rows)
  BY <1>3 DEF GroupWritesFiles
<1> QED BY <1>2, <1>4 DEF Allows

---------------------------------------------------------------------------
(* What the schema says of single rows.                                    *)
LEMMA RowTypes ==
  ASSUME NEW d, IsTables(d)
  PROVE  /\ \A u \in Users : d[User(u)] \in {"active", "disabled"} /\ User(u) \in Rows
         /\ \A u \in Users : d[Mapping(u)] \in PersonalLibraries \cup {Absent}
         /\ \A k \in Keys : d[Key(k)] \in [owner : Users, revoked : BOOLEAN] /\ Key(k) \in Rows
         /\ d[Group] \in Policies \cup {Absent} /\ Group \in Rows
<1>1. ASSUME NEW u \in Users PROVE d[User(u)] \in {"active", "disabled"} /\ User(u) \in Rows
  <2>1. User(u) \in Rows /\ <<User(u), d[User(u)]>> \in Entries
    BY DEF IsTables, Rows, UserRows
  <2> QED BY <2>1 DEF Entries, UserRows, MappingRows, KeyRows, FlagRows, MemberRows, GrantRows,
       User, Mapping, Key, KeyFlags, Group, Member, AllGrant, ExplicitGrant
<1>2. ASSUME NEW u \in Users PROVE d[Mapping(u)] \in PersonalLibraries \cup {Absent}
  <2>1. <<Mapping(u), d[Mapping(u)]>> \in Entries
    BY DEF IsTables, Rows, MappingRows
  <2> QED BY <2>1 DEF Entries, UserRows, MappingRows, KeyRows, FlagRows, MemberRows, GrantRows,
       User, Mapping, Key, KeyFlags, Group, Member, AllGrant, ExplicitGrant
<1>3. ASSUME NEW k \in Keys
      PROVE  d[Key(k)] \in [owner : Users, revoked : BOOLEAN] /\ Key(k) \in Rows
  <2>1. Key(k) \in Rows /\ <<Key(k), d[Key(k)]>> \in Entries
    BY DEF IsTables, Rows, KeyRows
  <2> QED BY <2>1 DEF Entries, UserRows, MappingRows, KeyRows, FlagRows, MemberRows, GrantRows,
       User, Mapping, Key, KeyFlags, Group, Member, AllGrant, ExplicitGrant
<1>4. d[Group] \in Policies \cup {Absent} /\ Group \in Rows
  <2>1. Group \in Rows /\ <<Group, d[Group]>> \in Entries
    BY DEF IsTables, Rows
  <2> QED BY <2>1 DEF Entries, UserRows, MappingRows, KeyRows, FlagRows, MemberRows, GrantRows,
       User, Mapping, Key, KeyFlags, Group, Member, AllGrant, ExplicitGrant
<1> QED BY <1>1, <1>2, <1>3, <1>4

(* Administration keeps to the schema.                                     *)
LEMMA AdministrationTyped ==
  ASSUME NEW d, IsTables(d), NEW e \in Administrations(d)
  PROVE  IsTables(e)
<1>1. CASE \E x \in Entries : e = OneRow(d, x[1], x[2])
  <2>1. PICK x \in Entries : e = OneRow(d, x[1], x[2])
    BY <1>1
  <2>2. x = <<x[1], x[2]>>
    BY <2>1 DEF Entries
  <2>3. DOMAIN e = Rows /\ \A y \in Rows : e[y] = IF y = x[1] THEN x[2] ELSE d[y]
    BY <2>1 DEF OneRow, IsTables
  <2> QED BY <2>1, <2>2, <2>3 DEF IsTables
<1>2. CASE \E u \in Users : e = MemberRemoved(d, u)
  <2>1. PICK u \in Users : e = MemberRemoved(d, u)
    BY <1>2
  <2>2. ASSUME NEW x \in Rows PROVE <<x, e[x]>> \in Entries
    <3>1. CASE x = Member(u) \/ \E k \in Keys : x = ExplicitGrant(k) /\ d[Key(k)].owner = u
      <4>1. e[x] = Absent
        BY <2>1, <3>1 DEF MemberRemoved
      <4>2. x \in MemberRows \/ x \in GrantRows
        BY <3>1 DEF MemberRows, GrantRows
      <4> QED BY <4>1, <4>2 DEF Entries
    <3>2. CASE ~(x = Member(u) \/ \E k \in Keys : x = ExplicitGrant(k) /\ d[Key(k)].owner = u)
      BY <2>1, <3>2 DEF MemberRemoved, IsTables
    <3> QED BY <3>1, <3>2
  <2>3. DOMAIN e = Rows
    BY <2>1 DEF MemberRemoved
  <2> QED BY <2>2, <2>3 DEF IsTables
<1>3. CASE \E u \in Users : e = OwnerChanged(d, u) /\ d[Group] # Absent
  <2>1. PICK u \in Users : e = OwnerChanged(d, u) /\ d[Group] # Absent
    BY <1>3
  <2> DEFINE old == d[Group].owner
  <2>2. d[Group] \in Policies /\ old \in Users
    BY <2>1, RowTypes DEF Policies
  <2>3. [d[Group] EXCEPT !.owner = u] \in Policies
    BY <2>2 DEF Policies
  <2>4. /\ Group \in Rows /\ Member(old) \in Rows /\ Member(u) \in Rows
        /\ Member(old) \in MemberRows /\ Member(u) \in MemberRows
        /\ Group # Member(old) /\ Group # Member(u)
    BY <2>2 DEF Rows, MemberRows, Group, Member
  <2>5. /\ DOMAIN e = Rows
        /\ e[Group] = [d[Group] EXCEPT !.owner = u]
        /\ e[Member(u)] = "owner"
        /\ Member(old) # Member(u) => e[Member(old)] = "admin"
        /\ \A x \in Rows \ {Group, Member(old), Member(u)} : e[x] = d[x]
    BY <2>1, <2>4 DEF OwnerChanged, IsTables
  <2>6. ASSUME NEW x \in Rows PROVE <<x, e[x]>> \in Entries
    <3>1. CASE x = Group
      BY <2>3, <2>5, <3>1 DEF Entries
    <3>2. CASE x = Member(u)
      BY <2>4, <2>5, <3>2 DEF Entries
    <3>3. CASE x = Member(old) /\ x # Member(u)
      BY <2>4, <2>5, <3>3 DEF Entries
    <3>4. CASE x \notin {Group, Member(old), Member(u)}
      BY <2>5, <3>4 DEF IsTables
    <3> QED BY <3>1, <3>2, <3>3, <3>4
  <2> QED BY <2>5, <2>6 DEF IsTables
<1> QED BY <1>1, <1>2, <1>3 DEF Administrations

---------------------------------------------------------------------------
(* What a step of one registration changes.                                *)
Same(r) ==
  /\ reg'[r].target = reg[r].target /\ reg'[r].credentials = reg[r].credentials
  /\ reg'[r].quiet = reg[r].quiet

Others(r) == \A x \in Registrations \ {r} : reg'[x] = reg[x]

LEMMA Ended ==
  ASSUME TypeOK, NEW r \in Registrations, NEW s \in {"denied", "done", "dropped"}, End(r, s)
  PROVE  /\ reg' \in [Registrations -> RegType] /\ Others(r)
         /\ reg'[r].stage = s /\ reg'[r].locks = {} /\ reg'[r].found = reg[r].found
         /\ reg'[r].turn = reg[r].turn /\ Same(r)
<1>1. reg \in [Registrations -> RegType] /\ reg[r] \in RegType
  BY DEF TypeOK, RegType, FoundType
<1>2. reg' = [reg EXCEPT ![r].stage = s, ![r].locks = {}]
  BY DEF End
<1>3. reg'[r] = [reg[r] EXCEPT !.stage = s, !.locks = {}] /\ Others(r)
  BY <1>1, <1>2 DEF Others
<1>4. reg'[r] \in RegType
  BY <1>1, <1>3 DEF RegType, Stages
<1>5. reg' \in [Registrations -> RegType]
  BY <1>1, <1>2, <1>4 DEF Others
<1> QED BY <1>1, <1>3, <1>5 DEF RegType, Same

LEMMA Locked ==
  ASSUME TypeOK, NEW r \in Registrations, NEW rows, NEW next \in Stages, Lock(r, rows, next),
         \A x \in rows : db[x] # Absent => x \in Rows
  PROVE  /\ reg' \in [Registrations -> RegType] /\ Others(r)
         /\ reg'[r].stage = next /\ reg'[r].turn = 1 /\ reg'[r].found = reg[r].found
         /\ reg'[r].locks = reg[r].locks \cup {x \in rows : db[x] # Absent}
         /\ Same(r)
<1> DEFINE held == reg[r].locks \cup {x \in rows : db[x] # Absent}
<1>1. reg \in [Registrations -> RegType] /\ reg[r] \in RegType
  BY DEF TypeOK, RegType, FoundType
<1>2. reg' = [reg EXCEPT ![r].locks = held, ![r].stage = next, ![r].turn = 1]
  BY DEF Lock
<1>3. held \in SUBSET Rows
  BY <1>1 DEF RegType
<1> HIDE DEF held
<1>4. reg'[r] = [reg[r] EXCEPT !.locks = held, !.stage = next, !.turn = 1] /\ Others(r)
  BY <1>1, <1>2 DEF Others
<1>5. reg'[r] \in RegType
  <2>1. reg'[r] = [stage |-> next, turn |-> 1, target |-> reg[r].target,
                   credentials |-> reg[r].credentials, found |-> reg[r].found,
                   locks |-> held, quiet |-> reg[r].quiet]
    BY <1>1, <1>4 DEF RegType
  <2>2. /\ reg[r].target \in Libraries /\ reg[r].credentials \in Credentials \X Credentials
        /\ reg[r].found \in FoundType
        /\ reg[r].quiet \in BOOLEAN
    BY <1>1 DEF RegType
  <2> QED BY <1>3, <2>1, <2>2 DEF RegType
<1>6. reg' \in [Registrations -> RegType]
  BY <1>1, <1>2, <1>5 DEF Others
<1>7. reg'[r].locks = held
  BY <1>1, <1>4 DEF RegType
<1> QED BY <1>1, <1>4, <1>6, <1>7 DEF RegType, Same, held

LEMMA RegIntroduced ==
  ASSUME NEW s \in Stages, NEW t \in 1..2, NEW target \in Libraries,
         NEW c \in Credentials \X Credentials, NEW f \in FoundType,
         NEW l \in SUBSET Rows, NEW q \in BOOLEAN
  PROVE  [stage |-> s, turn |-> t, target |-> target, credentials |-> c, found |-> f,
          locks |-> l, quiet |-> q] \in RegType
BY Zenon DEF RegType

LEMMA Moved ==
  ASSUME TypeOK, NEW r \in Registrations, NEW s \in Stages, NEW t \in 1..2,
         NEW f \in FoundType,
         reg' = [reg EXCEPT ![r] = [reg[r] EXCEPT !.stage = s, !.turn = t, !.found = f]]
  PROVE  /\ reg' \in [Registrations -> RegType] /\ Others(r)
         /\ reg'[r].stage = s /\ reg'[r].turn = t /\ reg'[r].found = f
         /\ reg'[r].locks = reg[r].locks /\ Same(r)
<1>1. reg \in [Registrations -> RegType] /\ reg[r] \in RegType
  BY DEF TypeOK, RegType, FoundType
<1>2. reg'[r] = [stage |-> s, turn |-> t, target |-> reg[r].target,
                 credentials |-> reg[r].credentials, found |-> f,
                 locks |-> reg[r].locks, quiet |-> reg[r].quiet]
  BY <1>1 DEF RegType
<1>3. reg'[r] \in RegType
  <2>1. /\ reg[r].target \in Libraries /\ reg[r].credentials \in Credentials \X Credentials
        /\ reg[r].locks \in SUBSET Rows /\ reg[r].quiet \in BOOLEAN
    BY <1>1 DEF RegType
  <2> QED BY <1>2, <2>1, RegIntroduced
<1>4. reg' \in [Registrations -> RegType] /\ Others(r)
  BY <1>1, <1>3 DEF Others
<1> QED BY <1>2, <1>4 DEF Same

---------------------------------------------------------------------------
(* The invariant.  A registration holds the rows it has locked so far ...  *)
AfterGroup == Running \ {"discover", "group"}
AfterUsers == AfterGroup \ {"users"}
AfterMappings == AfterUsers \ {"mappings"}
AfterKeys == AfterMappings \ {"keys"}
AfterFlags == AfterKeys \ {"flags"}
AfterMembers == AfterFlags \ {"members"}

LocksSound(r) ==
  /\ \A x \in reg[r].locks : db[x] # Absent
  /\ reg[r].stage = "discover" /\ reg[r].turn = 2 => reg[r].found[1].user \in Users
  /\ reg[r].stage \in Running \ {"discover"} => \A i \in 1..2 : reg[r].found[i].user \in Users
  /\ reg[r].stage \in AfterGroup /\ ForGroup(r) => Group \in reg[r].locks
  /\ reg[r].stage \in AfterUsers => \A u \in Deciders(r) : User(u) \in reg[r].locks
  /\ reg[r].stage \in AfterMappings => \A u \in Owners(r) : Mapping(u) \in reg[r].locks
  /\ reg[r].stage \in AfterKeys => \A k \in KeysOf(r) : Key(k) \in reg[r].locks
  /\ reg[r].stage \in AfterFlags => \A k \in KeysOf(r) : KeyFlags(k) \in reg[r].locks
  /\ reg[r].stage \in AfterMembers /\ ForGroup(r) =>
       \A u \in Owners(r) : Member(u) \in reg[r].locks

(* ... and what its second look has found still holds.                     *)
Known(r, i) ==
  Resolves(db, Credential(r, i)) /\ Identity(db, Credential(r, i)) = reg[r].found[i]

Permitted(r, i) ==
  Known(r, i) /\ Allows(db, Credential(r, i), reg[r].target, reg[r].locks)

JudgeSound(r) ==
  /\ reg[r].stage \in {"reread", "allow"} /\ reg[r].turn = 2 => Permitted(r, 1)
  /\ reg[r].stage = "allow" => Known(r, reg[r].turn)
  /\ reg[r].stage = "commit" => Permitted(r, 1) /\ Permitted(r, 2)

IInv == TypeOK /\ \A r \in Registrations : LocksSound(r) /\ JudgeSound(r)

LEMMA InitInvariant == Init => IInv
<1> SUFFICES ASSUME Init PROVE IInv
  OBVIOUS
<1>1. ASSUME NEW target \in Libraries, NEW c1 \in Credentials, NEW c2 \in Credentials
      PROVE  NewRegistration(target, c1, c2) \in RegType
  BY DEF NewRegistration, RegType, FoundType, NoIdentity, Stages
<1>2. reg \in [Registrations -> RegType]
  BY <1>1 DEF Init
<1>3. \A r \in Registrations :
        reg[r].stage = "discover" /\ reg[r].turn = 1 /\ reg[r].locks = {}
  BY DEF Init, NewRegistration
<1>4. TypeOK
  BY <1>2, <1>3, UploadAssumption DEF Init, TypeOK, RegType, FoundType, Running, Stages
<1>5. ASSUME NEW r \in Registrations PROVE LocksSound(r) /\ JudgeSound(r)
  BY <1>3 DEF LocksSound, JudgeSound, AfterGroup, AfterUsers, AfterMappings, AfterKeys,
              AfterFlags, AfterMembers
<1> QED BY <1>4, <1>5 DEF IInv

(* The other registrations stay as they are while the tables do.           *)
LEMMA OthersKeep ==
  ASSUME IInv, NEW r \in Registrations, Others(r), db' = db
  PROVE  \A x \in Registrations \ {r} : LocksSound(x)' /\ JudgeSound(x)'
BY DEF IInv, Others, LocksSound, JudgeSound, Known, Permitted, Credential, ForGroup, Owners,
       KeysOf, Deciders

LEMMA EndKeeps ==
  ASSUME IInv, NEW r \in Registrations, NEW s \in {"denied", "done", "dropped"}, End(r, s),
         UNCHANGED <<db, changes>>
  PROVE  IInv'
<1>1. /\ reg' \in [Registrations -> RegType] /\ Others(r)
      /\ reg'[r].stage = s /\ reg'[r].locks = {}
  BY Ended DEF IInv
<1>2. TypeOK'
  BY <1>1 DEF IInv, TypeOK, RegType, FoundType, Others
<1>3. LocksSound(r)' /\ JudgeSound(r)'
  BY <1>1 DEF LocksSound, JudgeSound, AfterGroup, AfterUsers, AfterMappings, AfterKeys,
              AfterFlags, AfterMembers, Running
<1> QED BY <1>1, <1>2, <1>3, OthersKeep DEF IInv

(* A registration whose identities are known goes on to its next           *)
(* statement with more rows locked.                                        *)
Advance(r, next) ==
  /\ TypeOK' /\ JudgeSound(r)'
  /\ \A x \in Registrations \ {r} : LocksSound(x)' /\ JudgeSound(x)'
  /\ reg'[r].stage = next
  /\ reg[r].locks \subseteq reg'[r].locks
  /\ \A x \in reg'[r].locks : db'[x] # Absent
  /\ Owners(r)' = Owners(r) /\ KeysOf(r)' = KeysOf(r)
  /\ Deciders(r)' = Deciders(r) /\ ForGroup(r)' = ForGroup(r)
  /\ \A i \in 1..2 : reg'[r].found[i].user \in Users

LEMMA LockKeeps ==
  ASSUME IInv, NEW r \in Registrations, NEW rows, NEW next \in Stages \ {"discover", "allow", "commit"},
         reg[r].stage \in Running \ {"discover"}, Lock(r, rows, next),
         \A x \in rows : db[x] # Absent => x \in Rows, UNCHANGED <<db, changes>>,
         next \in Running
  PROVE  /\ Advance(r, next)
         /\ reg'[r].locks = reg[r].locks \cup {x \in rows : db[x] # Absent}
<1>1. /\ reg' \in [Registrations -> RegType] /\ Others(r)
      /\ reg'[r].stage = next /\ reg'[r].turn = 1 /\ reg'[r].found = reg[r].found
      /\ reg'[r].locks = reg[r].locks \cup {x \in rows : db[x] # Absent}
      /\ Same(r)
  BY Locked DEF IInv
<1>2. TypeOK'
  BY <1>1 DEF IInv, TypeOK, RegType, FoundType, Others
<1>3. JudgeSound(r)'
  BY <1>1 DEF JudgeSound
<1>4. \A x \in Registrations \ {r} : LocksSound(x)' /\ JudgeSound(x)'
  BY <1>1, OthersKeep
<1>5. \A x \in reg'[r].locks : db'[x] # Absent
  BY <1>1 DEF IInv, LocksSound
<1>6. Owners(r)' = Owners(r) /\ KeysOf(r)' = KeysOf(r) /\ ForGroup(r)' = ForGroup(r)
  BY <1>1 DEF Owners, KeysOf, Credential, ForGroup, Same
<1>7. Deciders(r)' = Deciders(r)
  BY <1>6 DEF Deciders
<1>8. \A i \in 1..2 : reg'[r].found[i].user \in Users
  BY <1>1 DEF IInv, LocksSound
<1> QED BY <1>1, <1>2, <1>3, <1>4, <1>5, <1>6, <1>7, <1>8 DEF Advance

LEMMA DiscoverKeeps ==
  ASSUME IInv, NEW r \in Registrations, Discover(r)
  PROVE  IInv'
<1> DEFINE i == reg[r].turn
           c == Credential(r, i)
<1>1. reg \in [Registrations -> RegType] /\ reg[r] \in RegType /\ i \in 1..2 /\ c \in Credentials
      /\ reg[r].stage = "discover" /\ UNCHANGED <<db, changes>>
  BY DEF IInv, TypeOK, RegType, FoundType, Credential, Discover
<1>2. CASE ~Resolves(db, c)
  BY <1>1, <1>2, EndKeeps DEF Discover
<1>3. CASE Resolves(db, c)
  <2> DEFINE f == [reg[r].found EXCEPT ![i] = Identity(db, c)]
             s == IF i = 1 THEN "discover" ELSE IF ForGroup(r) THEN "group" ELSE "users"
             t == IF i = 1 THEN 2 ELSE 1
  <2>1. Owner(db, c) \in Users
    BY <1>1, RowTypes, AccessAssumption DEF Owner, Credentials, IInv, TypeOK
  <2>2. Identity(db, c) \in [user : Users \cup {Absent}, library : PersonalLibraries \cup {Absent}]
    BY <2>1, RowTypes DEF Identity, PersonalLibrary, IInv, TypeOK
  <2>3. f \in FoundType /\ s \in Stages /\ t \in 1..2
    BY <1>1, <2>2 DEF RegType, FoundType, Stages
  <2>4. reg' = [reg EXCEPT ![r] = [reg[r] EXCEPT !.stage = s, !.turn = t, !.found = f]]
    <3>1. reg' = [reg EXCEPT ![r].found[i] = Identity(db, c), ![r].turn = t, ![r].stage = s]
      BY <1>3 DEF Discover
    <3>2. reg'[r] = [reg[r] EXCEPT !.stage = s, !.turn = t, !.found = f]
      BY <1>1, <3>1 DEF RegType
    <3> HIDE DEF f, s, t
    <3> QED BY <1>1, <3>1, <3>2
  <2> HIDE DEF f, s, t
  <2>5. /\ reg' \in [Registrations -> RegType] /\ Others(r)
        /\ reg'[r].stage = s /\ reg'[r].turn = t /\ reg'[r].found = f
        /\ reg'[r].locks = reg[r].locks /\ Same(r)
    BY <2>3, <2>4, Moved DEF IInv
  <2>6. TypeOK'
    BY <1>1, <2>5 DEF IInv, TypeOK, RegType, FoundType, Others, s, Running
  <2>7. LocksSound(r)'
    <3>1. \A x \in reg'[r].locks : db'[x] # Absent
      BY <1>1, <2>5 DEF IInv, LocksSound
    <3>2. CASE i = 1
      <4>1. reg'[r].stage = "discover" /\ reg'[r].found[1].user \in Users
        BY <1>1, <2>1, <2>5, <3>2 DEF s, f, Identity, RegType, FoundType
      <4> QED BY <3>1, <4>1 DEF LocksSound, AfterGroup, AfterUsers, AfterMappings, AfterKeys,
                             AfterFlags, AfterMembers
    <3>3. CASE i = 2
      <4>1. /\ reg'[r].stage = IF ForGroup(r) THEN "group" ELSE "users"
            /\ ForGroup(r)' <=> ForGroup(r)
        BY <2>5, <3>3 DEF s, ForGroup, Same
      <4>2. \A n \in 1..2 : reg'[r].found[n].user \in Users
        BY <1>1, <2>1, <2>5, <3>3 DEF f, Identity, RegType, FoundType, IInv, LocksSound
      <4> QED BY <3>1, <4>1, <4>2 DEF LocksSound, AfterGroup, AfterUsers, AfterMappings,
                                   AfterKeys, AfterFlags, AfterMembers
    <3> QED BY <1>1, <3>2, <3>3
  <2>8. JudgeSound(r)'
    BY <2>5 DEF JudgeSound, s
  <2> QED BY <1>1, <2>5, <2>6, <2>7, <2>8, OthersKeep DEF IInv
<1> QED BY <1>2, <1>3

LEMMA LockEveryKeeps ==
  ASSUME IInv, NEW r \in Registrations, NEW stage \in Running \ {"discover"}, NEW rows,
         NEW next \in Running \ {"discover", "allow", "commit"}, LockEvery(r, stage, rows, next)
  PROVE  \/ IInv'
         \/ Advance(r, next) /\ rows \subseteq reg'[r].locks
<1>1. CASE \A x \in rows : x \in Rows /\ db[x] # Absent
  <2>1. Lock(r, rows, next) /\ UNCHANGED <<db, changes>> /\ reg[r].stage = stage
    BY <1>1 DEF LockEvery
  <2>2. /\ Advance(r, next)
        /\ reg'[r].locks = reg[r].locks \cup {x \in rows : db[x] # Absent}
    BY <1>1, <2>1, LockKeeps DEF Running
  <2> QED BY <1>1, <2>2
<1>2. CASE ~\A x \in rows : x \in Rows /\ db[x] # Absent
  BY <1>2, EndKeeps DEF LockEvery
<1> QED BY <1>1, <1>2

(* The statements that lock: each leaves what it was to lock held.         *)
LEMMA LockingKeeps ==
  ASSUME IInv, NEW r \in Registrations,
         \/ LockGroup(r) \/ LockUsers(r) \/ LockMappings(r) \/ LockKeys(r) \/ LockFlags(r)
         \/ LockMembers(r) \/ LockAllGrants(r) \/ LockExplicitGrants(r)
  PROVE  IInv'
<1> USE DEF AfterGroup, AfterUsers, AfterMappings, AfterKeys, AfterFlags, AfterMembers,
            Running, Stages
<1>0. LocksSound(r)
  BY DEF IInv
<1>1. ASSUME NEW next, Advance(r, next), LocksSound(r)' PROVE IInv'
  BY <1>1 DEF Advance, IInv
<1>2. CASE LockGroup(r)
  <2>1. reg[r].stage = "group"
    BY <1>2 DEF LockGroup, LockEvery
  <2>2. \/ IInv'
        \/ Advance(r, "users") /\ {Group} \subseteq reg'[r].locks
    BY <1>2, LockEveryKeeps DEF LockGroup
  <2>3. CASE Advance(r, "users") /\ {Group} \subseteq reg'[r].locks
    <3>1. LocksSound(r)'
      BY <1>0, <2>1, <2>3 DEF Advance, LocksSound
    <3> QED BY <1>1, <2>3, <3>1
  <2> QED BY <2>2, <2>3
<1>3. CASE LockUsers(r)
  <2>1. reg[r].stage = "users" /\ UNCHANGED <<db, changes>>
        /\ Lock(r, {User(u) : u \in Deciders(r)}, "mappings")
    BY <1>3 DEF LockUsers, LockSome
  <2>2. Deciders(r) \subseteq Users
    <3>1. Owners(r) \subseteq Users
      BY <1>0, <2>1 DEF LocksSound, Owners
    <3>2. ForGroup(r) => db[Group].owner \in Users
      BY <1>0, <2>1, RowTypes DEF LocksSound, IInv, TypeOK, Policies
    <3> QED BY <3>1, <3>2 DEF Deciders
  <2>3. \A x \in {User(u) : u \in Deciders(r)} : x \in Rows /\ db[x] # Absent
    BY <2>2, RowTypes, AccessAssumption DEF IInv, TypeOK
  <2>4. /\ Advance(r, "mappings")
        /\ reg'[r].locks =
             reg[r].locks \cup {x \in {User(u) : u \in Deciders(r)} : db[x] # Absent}
    BY <2>1, <2>3, LockKeeps
  <2>5. \A u \in Deciders(r) : User(u) \in reg'[r].locks
    BY <2>3, <2>4
  <2>6. LocksSound(r)'
    BY <1>0, <2>1, <2>4, <2>5 DEF Advance, LocksSound
  <2> QED BY <1>1, <2>4, <2>6
<1>4. CASE LockMappings(r)
  <2>1. reg[r].stage = "mappings"
    BY <1>4 DEF LockMappings, LockEvery
  <2>2. \/ IInv'
        \/ Advance(r, "keys") /\ {Mapping(u) : u \in Owners(r)} \subseteq reg'[r].locks
    BY <1>4, LockEveryKeeps DEF LockMappings
  <2>3. CASE Advance(r, "keys") /\ {Mapping(u) : u \in Owners(r)} \subseteq reg'[r].locks
    <3>1. LocksSound(r)'
      BY <1>0, <2>1, <2>3 DEF Advance, LocksSound
    <3> QED BY <1>1, <2>3, <3>1
  <2> QED BY <2>2, <2>3
<1>5. CASE LockKeys(r)
  <2>1. reg[r].stage = "keys"
    BY <1>5 DEF LockKeys, LockEvery
  <2>2. \/ IInv'
        \/ Advance(r, "flags") /\ {Key(k) : k \in KeysOf(r)} \subseteq reg'[r].locks
    BY <1>5, LockEveryKeeps DEF LockKeys
  <2>3. CASE Advance(r, "flags") /\ {Key(k) : k \in KeysOf(r)} \subseteq reg'[r].locks
    <3>1. LocksSound(r)'
      BY <1>0, <2>1, <2>3 DEF Advance, LocksSound
    <3> QED BY <1>1, <2>3, <3>1
  <2> QED BY <2>2, <2>3
<1>6. CASE LockFlags(r)
  <2> DEFINE next == IF ForGroup(r) THEN "members" ELSE "reread"
  <2>1. reg[r].stage = "flags"
    BY <1>6 DEF LockFlags, LockEvery
  <2>2. \/ IInv'
        \/ Advance(r, next) /\ {KeyFlags(k) : k \in KeysOf(r)} \subseteq reg'[r].locks
    BY <1>6, LockEveryKeeps DEF LockFlags
  <2>3. CASE Advance(r, next) /\ {KeyFlags(k) : k \in KeysOf(r)} \subseteq reg'[r].locks
    <3>1. LocksSound(r)'
      BY <1>0, <2>1, <2>3 DEF Advance, LocksSound
    <3> QED BY <1>1, <2>3, <3>1
  <2> QED BY <2>2, <2>3
<1>7. CASE LockMembers(r)
  <2>1. reg[r].stage = "members"
    BY <1>7 DEF LockMembers, LockEvery
  <2>2. \/ IInv'
        \/ Advance(r, "all") /\ {Member(u) : u \in Owners(r)} \subseteq reg'[r].locks
    BY <1>7, LockEveryKeeps DEF LockMembers
  <2>3. CASE Advance(r, "all") /\ {Member(u) : u \in Owners(r)} \subseteq reg'[r].locks
    <3>1. LocksSound(r)'
      BY <1>0, <2>1, <2>3 DEF Advance, LocksSound
    <3> QED BY <1>1, <2>3, <3>1
  <2> QED BY <2>2, <2>3
<1>8. CASE LockAllGrants(r) \/ LockExplicitGrants(r)
  <2>1. PICK next \in {"explicit", "reread"}, rows \in SUBSET GrantRows :
          Lock(r, rows, next) /\ reg[r].stage \in {"all", "explicit"} /\ UNCHANGED <<db, changes>>
    <3>1. KeysOf(r) \subseteq Keys
      BY DEF KeysOf
    <3>2. {AllGrant(k) : k \in KeysOf(r)} \subseteq GrantRows
          /\ {ExplicitGrant(k) : k \in KeysOf(r)} \subseteq GrantRows
      BY <3>1 DEF GrantRows
    <3> QED BY <1>8, <3>2 DEF LockAllGrants, LockExplicitGrants, LockSome
  <2>2. Advance(r, next)
    BY <2>1, LockKeeps DEF Rows
  <2>3. LocksSound(r)'
    BY <1>0, <2>1, <2>2 DEF Advance, LocksSound
  <2> QED BY <1>1, <2>2, <2>3
<1> QED BY <1>2, <1>3, <1>4, <1>5, <1>6, <1>7, <1>8

(* The second look.                                                        *)
LEMMA JudgingKeeps ==
  ASSUME IInv, NEW r \in Registrations, Reread(r) \/ Allow(r)
  PROVE  IInv'
<1> DEFINE i == reg[r].turn
           c == Credential(r, i)
<1>1. /\ reg \in [Registrations -> RegType] /\ reg[r] \in RegType /\ i \in 1..2
      /\ reg[r].found \in FoundType /\ UNCHANGED <<db, changes>> /\ LocksSound(r) /\ JudgeSound(r)
  BY DEF IInv, TypeOK, RegType, FoundType, Reread, Allow
<1>2. ASSUME NEW s \in {"reread", "allow", "commit"}, NEW t \in 1..2,
             reg' = [reg EXCEPT ![r] =
                       [reg[r] EXCEPT !.stage = s, !.turn = t, !.found = reg[r].found]],
             reg[r].stage \in {"reread", "allow"},
             \/ s = "allow" /\ t = i /\ reg[r].stage = "reread" /\ Known(r, i)
             \/ s = "reread" /\ t = 2 /\ Permitted(r, 1)
             \/ s = "commit" /\ Permitted(r, 1) /\ Permitted(r, 2)
      PROVE  IInv'
  <2>1. /\ reg' \in [Registrations -> RegType] /\ Others(r)
        /\ reg'[r].stage = s /\ reg'[r].turn = t /\ reg'[r].found = reg[r].found
        /\ reg'[r].locks = reg[r].locks /\ Same(r)
    <3>1. /\ s \in Stages /\ t \in 1..2 /\ reg[r].found \in FoundType
          /\ reg' = [reg EXCEPT ![r] =
                       [reg[r] EXCEPT !.stage = s, !.turn = t, !.found = reg[r].found]]
      BY <1>1, <1>2 DEF Stages
    <3>2. TypeOK
      BY DEF IInv
    <3> QED BY <3>1, <3>2, Moved
  <2>2. TypeOK'
    BY <1>1, <1>2, <2>1 DEF IInv, TypeOK, RegType, FoundType, Others, Running, Stages
  <2>3. /\ Owners(r)' = Owners(r) /\ KeysOf(r)' = KeysOf(r) /\ ForGroup(r)' = ForGroup(r)
        /\ \A n \in 1..2 : Credential(r, n)' = Credential(r, n)
    BY <2>1 DEF Owners, KeysOf, Credential, ForGroup, Same
  <2>4. Deciders(r)' = Deciders(r)
    BY <1>1, <2>3 DEF Deciders
  <2>5. LocksSound(r)'
    BY <1>1, <1>2, <2>1, <2>3, <2>4 DEF LocksSound, AfterGroup, AfterUsers, AfterMappings,
       AfterKeys, AfterFlags, AfterMembers, Running, Stages
  <2>6. \A n \in 1..2 : (Known(r, n)' <=> Known(r, n)) /\ (Permitted(r, n)' <=> Permitted(r, n))
    BY <1>1, <2>1, <2>3 DEF Known, Permitted, Same
  <2>7. JudgeSound(r)'
    BY <1>1, <1>2, <2>1, <2>6 DEF JudgeSound
  <2> QED BY <1>1, <2>1, <2>2, <2>5, <2>7, OthersKeep DEF IInv
<1>3. CASE Reread(r)
  <2>1. CASE Resolves(db, c) /\ Identity(db, c) = reg[r].found[i]
    <3>1. reg' = [reg EXCEPT ![r].stage = "allow"] /\ reg[r].stage = "reread"
      BY <1>3, <2>1 DEF Reread
    <3>2. reg' = [reg EXCEPT ![r] =
                    [reg[r] EXCEPT !.stage = "allow", !.turn = i, !.found = reg[r].found]]
      BY <1>1, <3>1 DEF RegType
    <3> QED BY <1>1, <1>2, <2>1, <3>1, <3>2 DEF Known
  <2>2. CASE ~(Resolves(db, c) /\ Identity(db, c) = reg[r].found[i])
    BY <1>1, <1>3, <2>2, EndKeeps DEF Reread
  <2> QED BY <2>1, <2>2
<1>4. CASE Allow(r)
  <2>1. CASE Allows(db, c, reg[r].target, reg[r].locks)
    <3> DEFINE s == IF i = 1 THEN "reread" ELSE "commit"
               t == IF i = 1 THEN 2 ELSE 1
    <3>1. reg' = [reg EXCEPT ![r].stage = s, ![r].turn = t] /\ reg[r].stage = "allow"
      BY <1>4, <2>1 DEF Allow, CountedGrants
    <3>2. reg' = [reg EXCEPT ![r] =
                    [reg[r] EXCEPT !.stage = s, !.turn = t, !.found = reg[r].found]]
      <4> HIDE DEF s, t
      <4> QED BY <1>1, <3>1 DEF RegType
    <3>3. Permitted(r, i) /\ (i = 2 => Permitted(r, 1))
      BY <1>1, <2>1, <3>1 DEF JudgeSound, Permitted
    <3>4. s \in {"reread", "allow", "commit"} /\ t \in 1..2
      OBVIOUS
    <3>5. \/ s = "reread" /\ t = 2 /\ Permitted(r, 1)
          \/ s = "commit" /\ Permitted(r, 1) /\ Permitted(r, 2)
      BY <1>1, <3>3
    <3> HIDE DEF s, t
    <3> QED BY <1>2, <3>1, <3>2, <3>4, <3>5
  <2>2. CASE ~Allows(db, c, reg[r].target, reg[r].locks)
    BY <1>1, <1>4, <2>2, EndKeeps DEF Allow, CountedGrants
  <2> QED BY <2>1, <2>2
<1> QED BY <1>3, <1>4

(* Administration waits for the rows that are held, and those are the rows *)
(* the decision rests on.                                                  *)
LEMMA AdministrationKeeps ==
  ASSUME IInv, changes < MaxChanges, NEW d \in Administrations(db), Administer(d)
  PROVE  IInv'
<1>1. /\ db' = d /\ changes' = changes + 1 /\ changes < MaxChanges /\ Consistent(d)
      /\ \A r \in Registrations : \A x \in reg[r].locks : d[x] = db[x]
      /\ reg' = [r \in Registrations |-> [reg[r] EXCEPT !.quiet = FALSE]]
  BY DEF Administer
<1>2. reg \in [Registrations -> RegType]
  BY DEF IInv, TypeOK, RegType, FoundType
<1>3. \A r \in Registrations : reg'[r] = [reg[r] EXCEPT !.quiet = FALSE]
  BY <1>1
<1>4. ASSUME NEW r \in Registrations
      PROVE  /\ reg'[r] \in RegType
             /\ reg'[r].stage = reg[r].stage /\ reg'[r].turn = reg[r].turn
             /\ reg'[r].target = reg[r].target /\ reg'[r].credentials = reg[r].credentials
             /\ reg'[r].found = reg[r].found /\ reg'[r].locks = reg[r].locks
  <2>1. reg[r] \in RegType
    BY <1>2
  <2>2. reg'[r] = [stage |-> reg[r].stage, turn |-> reg[r].turn, target |-> reg[r].target,
                   credentials |-> reg[r].credentials, found |-> reg[r].found,
                   locks |-> reg[r].locks, quiet |-> FALSE]
    BY <1>3, <2>1 DEF RegType
  <2>3. /\ reg[r].stage \in Stages /\ reg[r].turn \in 1..2 /\ reg[r].target \in Libraries
        /\ reg[r].credentials \in Credentials \X Credentials /\ reg[r].found \in FoundType
        /\ reg[r].locks \in SUBSET Rows
    BY <2>1 DEF RegType
  <2>4. reg'[r] \in RegType
    BY <2>2, <2>3, RegIntroduced
  <2> QED BY <2>2, <2>4
<1>5. IsTables(d)
  BY AdministrationTyped DEF IInv, TypeOK
<1>6. TypeOK'
  <2>1. reg' \in [Registrations -> RegType]
    BY <1>1, <1>4
  <2>2. changes' \in 0..MaxChanges
    BY <1>1, UploadAssumption DEF IInv, TypeOK
  <2> QED BY <1>1, <1>4, <1>5, <2>1, <2>2 DEF IInv, TypeOK, RegType, FoundType
<1>7. ASSUME NEW r \in Registrations PROVE LocksSound(r)' /\ JudgeSound(r)'
  <2>1. LocksSound(r) /\ JudgeSound(r) /\ \A x \in reg[r].locks : d[x] = db[x]
    BY <1>1 DEF IInv
  <2>2. /\ Owners(r)' = Owners(r) /\ KeysOf(r)' = KeysOf(r) /\ ForGroup(r)' = ForGroup(r)
        /\ \A n \in 1..2 : Credential(r, n)' = Credential(r, n)
    BY <1>4 DEF Owners, KeysOf, Credential, ForGroup
  <2>3. reg[r].stage \in AfterUsers => Deciders(r)' = Deciders(r)
    BY <1>1, <2>1, <2>2 DEF Deciders, LocksSound, AfterUsers
  <2>4. LocksSound(r)'
    <3>1. \A x \in reg'[r].locks : db'[x] # Absent
      BY <1>1, <1>4, <2>1 DEF LocksSound
    <3> QED BY <1>4, <2>1, <2>2, <2>3, <3>1 DEF LocksSound
  <2>5. ASSUME NEW n \in 1..2, reg[r].stage \in {"reread", "allow", "commit"}, Known(r, n)
        PROVE  Known(r, n)' /\ (Permitted(r, n) => Permitted(r, n)')
    <3> DEFINE c == Credential(r, n)
    <3>1. Owner(db, c) \in Owners(r) /\ Owners(r) \subseteq Deciders(r)
      BY <2>5 DEF Known, Identity, Owners, Deciders
    <3>2. c # Recovery => c \in KeysOf(r)
      <4>1. c \in Credentials
        BY <1>2 DEF RegType, Credential
      <4>2. c \in {Credential(r, m) : m \in 1..2}
        OBVIOUS
      <4> QED BY <4>1, <4>2 DEF Credentials, KeysOf
    <3>3. Support(db, c, reg[r].target, reg[r].locks)
      <4>1. reg[r].stage \in AfterMembers
        BY <2>5 DEF AfterGroup, AfterUsers, AfterMappings, AfterKeys, AfterFlags,
                    AfterMembers, Running, Stages
      <4>2. c # Recovery => Key(c) \in reg[r].locks /\ KeyFlags(c) \in reg[r].locks
        BY <2>1, <3>2, <4>1 DEF LocksSound, AfterFlags, AfterMembers
      <4>3. User(Owner(db, c)) \in reg[r].locks /\ Mapping(Owner(db, c)) \in reg[r].locks
        BY <2>1, <3>1, <4>1 DEF LocksSound, AfterMappings, AfterKeys, AfterFlags, AfterMembers
      <4>4. ForGroup(r) =>
              /\ Group \in reg[r].locks /\ User(db[Group].owner) \in reg[r].locks
              /\ Member(Owner(db, c)) \in reg[r].locks
        BY <2>1, <3>1, <4>1 DEF LocksSound, Deciders, AfterUsers, AfterMappings, AfterKeys,
                                AfterFlags, AfterMembers
      <4> QED BY <4>2, <4>3, <4>4 DEF Support, ForGroup
    <3>4. /\ Identity(d, c) = Identity(db, c) /\ (Resolves(db, c) => Resolves(d, c))
          /\ Allows(db, c, reg[r].target, reg[r].locks)
               => Allows(d, c, reg[r].target, reg[r].locks)
      <4> HIDE DEF c
      <4> QED BY <2>1, <3>3, Stable
    <3> QED BY <1>1, <1>4, <2>2, <2>5, <3>4 DEF Known, Permitted
  <2>6. JudgeSound(r)'
    <3>1. \A n \in 1..2 : Permitted(r, n) => Known(r, n)
      BY DEF Permitted
    <3>2. reg[r].turn \in 1..2
      BY <1>2 DEF RegType
    <3> QED BY <1>4, <2>1, <2>5, <3>1, <3>2 DEF JudgeSound
  <2> QED BY <2>4, <2>6
<1> QED BY <1>6, <1>7 DEF IInv

LEMMA NextInvariant == IInv /\ [Next]_vars => IInv'
<1> SUFFICES ASSUME IInv, [Next]_vars PROVE IInv'
  OBVIOUS
<1>1. ASSUME NEW r \in Registrations, Register(r) PROVE IInv'
  <2>1. CASE Discover(r)
    BY <2>1, DiscoverKeeps
  <2>2. CASE \/ LockGroup(r) \/ LockUsers(r) \/ LockMappings(r) \/ LockKeys(r) \/ LockFlags(r)
             \/ LockMembers(r) \/ LockAllGrants(r) \/ LockExplicitGrants(r)
    BY <2>2, LockingKeeps
  <2>3. CASE Reread(r) \/ Allow(r)
    BY <2>3, JudgingKeeps
  <2>4. CASE Commit(r) \/ Drop(r)
    BY <2>4, EndKeeps DEF Commit, Drop
  <2> QED BY <1>1, <2>1, <2>2, <2>3, <2>4 DEF Register
<1>2. ASSUME changes < MaxChanges, NEW d \in Administrations(db), Administer(d) PROVE IInv'
  BY <1>2, AdministrationKeeps
<1>3. CASE UNCHANGED vars
  BY <1>3 DEF vars, IInv, TypeOK, LocksSound, JudgeSound, Known, Permitted, Credential,
              ForGroup, Owners, KeysOf, Deciders
<1> QED BY <1>1, <1>2, <1>3 DEF Next

(* The invariant holds in every reachable state.                           *)
THEOREM Invariance == Spec => []IInv
BY InitInvariant, NextInvariant, PTL DEF Spec

(* The tables and registrations keep their types, and one that has ended   *)
(* holds nothing.                                                          *)
THEOREM TypeCorrect == Spec => []TypeOK
<1>1. IInv => TypeOK
  BY DEF IInv
<1> QED BY <1>1, Invariance, PTL

(* A registration that is about to commit is entitled to, for both of its  *)
(* credentials, whatever was changed since it began.                       *)
THEOREM AuthorityLive == Spec => []AuthorityHeld
<1>1. IInv => AuthorityHeld
  <2> SUFFICES ASSUME IInv, NEW r \in Registrations, reg[r].stage = "commit", NEW i \in 1..2
               PROVE  Entitled(db, Credential(r, i), reg[r].target)
    BY DEF AuthorityHeld
  <2>1. Permitted(r, i)
    BY DEF IInv, JudgeSound
  <2>2. reg[r].locks \in SUBSET Rows
    BY DEF IInv, TypeOK
  <2> QED BY <2>1, <2>2, Enough DEF Permitted, Known, Entitled
<1> QED BY <1>1, Invariance, PTL

---------------------------------------------------------------------------
(* While nothing is changed, what was found stays true, every grant there  *)
(* is gets locked, and a refusal has a cause.                              *)
QuietSound(r) ==
  reg[r].quiet =>
    /\ reg[r].stage = "discover" /\ reg[r].turn = 2 =>
         reg[r].found[1] = Identity(db, Credential(r, 1))
    /\ reg[r].stage \in Running \ {"discover"} =>
         \A i \in 1..2 : reg[r].found[i] = Identity(db, Credential(r, i))
    /\ reg[r].stage \in {"group", "members", "all", "explicit"} => ForGroup(r)
    /\ ForGroup(r) /\ reg[r].stage \in {"explicit", "reread", "allow", "commit"} =>
         \A k \in KeysOf(r) : db[AllGrant(k)] # Absent => AllGrant(k) \in reg[r].locks
    /\ ForGroup(r) /\ reg[r].stage \in {"reread", "allow", "commit"} =>
         \A k \in KeysOf(r) : db[ExplicitGrant(k)] # Absent => ExplicitGrant(k) \in reg[r].locks
    /\ reg[r].stage = "denied" =>
         \E i \in 1..2 : ~Entitled(db, Credential(r, i), reg[r].target)

QInv == IInv /\ \A r \in Registrations : QuietSound(r)

LEMMA QuietInit == Init => \A r \in Registrations : QuietSound(r)
<1> SUFFICES ASSUME Init, NEW r \in Registrations PROVE QuietSound(r)
  OBVIOUS
<1>1. reg[r].stage = "discover" /\ reg[r].turn = 1
  BY DEF Init, NewRegistration
<1> QED BY <1>1 DEF QuietSound

LEMMA QuietOthers ==
  ASSUME QInv, NEW r \in Registrations, Others(r), db' = db, QuietSound(r)'
  PROVE  \A x \in Registrations : QuietSound(x)'
<1>1. ASSUME NEW x \in Registrations \ {r} PROVE QuietSound(x)'
  BY DEF QInv, QuietSound, Others, Credential, ForGroup, KeysOf
<1> QED BY <1>1

(* A registration is refused with cause, or ends otherwise.                *)
LEMMA QuietEnd ==
  ASSUME QInv, NEW r \in Registrations, NEW s \in {"denied", "done", "dropped"}, End(r, s),
         UNCHANGED db,
         s = "denied" /\ reg[r].quiet =>
           \E i \in 1..2 : ~Entitled(db, Credential(r, i), reg[r].target)
  PROVE  \A x \in Registrations : QuietSound(x)'
<1>1. Others(r) /\ reg'[r].stage = s /\ Same(r)
  BY Ended DEF QInv, IInv
<1>2. \A i \in 1..2 : Credential(r, i)' = Credential(r, i)
  BY <1>1 DEF Credential, Same
<1>3. QuietSound(r)'
  BY <1>1, <1>2 DEF QuietSound, Same, Running
<1> QED BY <1>1, <1>3, QuietOthers

(* More locks: what was known stays so, and the grants asked for are held. *)
LEMMA QuietLock ==
  ASSUME QInv, NEW r \in Registrations, NEW rows, NEW next \in Running \ {"discover"},
         reg[r].stage \in Running \ {"discover"}, Lock(r, rows, next),
         \A x \in rows : db[x] # Absent => x \in Rows, UNCHANGED db,
         reg[r].quiet /\ next \in {"group", "members", "all", "explicit"} => ForGroup(r),
         ForGroup(r) /\ next \in {"explicit", "reread", "allow", "commit"} =>
           \/ {AllGrant(k) : k \in KeysOf(r)} \subseteq rows
           \/ reg[r].stage \in {"explicit", "reread", "allow", "commit"},
         ForGroup(r) /\ next \in {"reread", "allow", "commit"} =>
           \/ {ExplicitGrant(k) : k \in KeysOf(r)} \subseteq rows
           \/ reg[r].stage \in {"reread", "allow", "commit"}
  PROVE  \A x \in Registrations : QuietSound(x)'
<1>1. /\ Others(r) /\ reg'[r].stage = next /\ reg'[r].found = reg[r].found
      /\ reg'[r].locks = reg[r].locks \cup {x \in rows : db[x] # Absent}
      /\ Same(r)
  BY Locked DEF QInv, IInv, Running
<1>2. /\ \A i \in 1..2 : Credential(r, i)' = Credential(r, i)
      /\ KeysOf(r)' = KeysOf(r) /\ ForGroup(r)' = ForGroup(r)
  BY <1>1 DEF Credential, KeysOf, ForGroup, Same
<1>3. ASSUME reg'[r].quiet
      PROVE  /\ \A i \in 1..2 : reg'[r].found[i] = Identity(db, Credential(r, i))
             /\ ForGroup(r) /\ next \in {"explicit", "reread", "allow", "commit"} =>
                  \A k \in KeysOf(r) : db[AllGrant(k)] # Absent => AllGrant(k) \in reg'[r].locks
             /\ ForGroup(r) /\ next \in {"reread", "allow", "commit"} =>
                  \A k \in KeysOf(r) :
                    db[ExplicitGrant(k)] # Absent => ExplicitGrant(k) \in reg'[r].locks
  <2>1. reg[r].quiet /\ QuietSound(r)
    BY <1>1, <1>3 DEF QInv, Same
  <2>2. \A i \in 1..2 : reg'[r].found[i] = Identity(db, Credential(r, i))
    BY <1>1, <2>1 DEF QuietSound
  <2>3. ASSUME ForGroup(r), next \in {"explicit", "reread", "allow", "commit"},
               NEW k \in KeysOf(r), db[AllGrant(k)] # Absent
        PROVE  AllGrant(k) \in reg'[r].locks
    BY <1>1, <2>1, <2>3 DEF QuietSound
  <2>4. ASSUME ForGroup(r), next \in {"reread", "allow", "commit"},
               NEW k \in KeysOf(r), db[ExplicitGrant(k)] # Absent
        PROVE  ExplicitGrant(k) \in reg'[r].locks
    BY <1>1, <2>1, <2>4 DEF QuietSound
  <2> QED BY <2>2, <2>3, <2>4
<1>4. reg'[r].quiet = reg[r].quiet /\ next \notin {"denied", "discover"}
  BY <1>1 DEF Same, Running
<1>5. QuietSound(r)'
  BY <1>1, <1>2, <1>3, <1>4 DEF QuietSound
<1> QED BY <1>1, <1>5, QuietOthers

(* A right that rests on grants that are all counted.                      *)
LEMMA Counted ==
  ASSUME NEW d, NEW c, NEW target, NEW locked, Allows(d, c, target, Rows),
         target = GroupLibrary /\ c # Recovery =>
           /\ d[AllGrant(c)] # Absent => AllGrant(c) \in locked
           /\ d[ExplicitGrant(c)] # Absent => ExplicitGrant(c) \in locked
  PROVE  Allows(d, c, target, locked)
<1> DEFINE u == Owner(d, c)
<1>1. CASE target = GroupLibrary
  <2>1. AllFlags(d, c, Rows) \subseteq AllFlags(d, c, locked)
        /\ ExplicitFlags(d, c, Rows) \subseteq ExplicitFlags(d, c, locked)
    BY <1>1 DEF AllFlags, ExplicitFlags, GrantOf
  <2>2. GroupReads(d, u, c, Rows) => GroupReads(d, u, c, locked)
    BY <2>1 DEF GroupReads
  <2>3. GroupWrites(d, u, c, Rows) => GroupWrites(d, u, c, locked)
    BY <2>1 DEF GroupWrites
  <2>4. GroupWritesFiles(d, u, c, Rows) => GroupWritesFiles(d, u, c, locked)
    BY <2>3 DEF GroupWritesFiles
  <2> QED BY <1>1, <2>2, <2>4 DEF Allows
<1>2. CASE target # GroupLibrary
  BY <1>2 DEF Allows
<1> QED BY <1>1, <1>2

(* A statement that finds a row missing while nothing was changed: the     *)
(* credential whose row it is has no right.                                *)
LEMMA QuietEvery ==
  ASSUME QInv, NEW r \in Registrations, NEW stage \in Running \ {"discover"}, NEW rows,
         NEW next \in Running \ {"discover"}, LockEvery(r, stage, rows, next),
         reg[r].quiet =>
           \A x \in rows : \/ x \in Rows /\ db[x] # Absent
                           \/ \E i \in 1..2 : ~Entitled(db, Credential(r, i), reg[r].target),
         reg[r].quiet /\ next \in {"group", "members", "all", "explicit"} => ForGroup(r),
         next \notin {"explicit", "allow", "commit"}, next = "reread" => ~ForGroup(r)
  PROVE  \A x \in Registrations : QuietSound(x)'
<1>1. CASE \A x \in rows : x \in Rows /\ db[x] # Absent
  <2>1. Lock(r, rows, next) /\ UNCHANGED db /\ reg[r].stage = stage
    BY <1>1 DEF LockEvery
  <2> QED BY <1>1, <2>1, QuietLock
<1>2. CASE ~\A x \in rows : x \in Rows /\ db[x] # Absent
  <2>1. End(r, "denied") /\ UNCHANGED db
    BY <1>2 DEF LockEvery
  <2>2. reg[r].quiet => \E i \in 1..2 : ~Entitled(db, Credential(r, i), reg[r].target)
    BY <1>2
  <2> QED BY <2>1, <2>2, QuietEnd
<1> QED BY <1>1, <1>2

LEMMA QuietLocking ==
  ASSUME QInv, NEW r \in Registrations,
         \/ LockGroup(r) \/ LockUsers(r) \/ LockMappings(r) \/ LockKeys(r) \/ LockFlags(r)
         \/ LockMembers(r) \/ LockAllGrants(r) \/ LockExplicitGrants(r)
  PROVE  \A x \in Registrations : QuietSound(x)'
<1> USE DEF Running, Stages
<1>0. /\ IsTables(db) /\ LocksSound(r) /\ QuietSound(r)
      /\ \A i \in 1..2 : Credential(r, i) \in Credentials
  BY DEF QInv, IInv, TypeOK, Credential
<1>1. ASSUME NEW i \in 1..2, Entitled(db, Credential(r, i), reg[r].target), reg[r].quiet,
             reg[r].stage \in Running \ {"discover"}
      PROVE  /\ reg[r].found[i].user = Owner(db, Credential(r, i))
             /\ reg[r].found[i].user \in Users
             /\ db[Mapping(reg[r].found[i].user)] # Absent
             /\ Credential(r, i) # Recovery => db[KeyFlags(Credential(r, i))] # Absent
             /\ ForGroup(r) => db[Group] # Absent /\ db[Member(reg[r].found[i].user)] # Absent
  <2>1. reg[r].found[i].user = Owner(db, Credential(r, i))
    BY <1>0, <1>1 DEF QuietSound, Identity
  <2>2. reg[r].found[i].user \in Users
    BY <1>0, <1>1 DEF LocksSound
  <2> QED BY <1>1, <2>1, <2>2 DEF Entitled, Resolves, KeyIsLive, Allows, GroupExists, GroupReads,
                                ForGroup
<1>2. CASE LockGroup(r)
  <2>1. reg[r].stage = "group" /\ LockEvery(r, "group", {Group}, "users")
    BY <1>2 DEF LockGroup, LockEvery
  <2>2. reg[r].quiet => ForGroup(r)
    BY <1>0, <2>1 DEF QuietSound
  <2>3. reg[r].quiet =>
          \A x \in {Group} : \/ x \in Rows /\ db[x] # Absent
                             \/ \E i \in 1..2 : ~Entitled(db, Credential(r, i), reg[r].target)
    BY <1>1, <2>1, <2>2 DEF Rows
  <2> QED BY <2>1, <2>3, QuietEvery
<1>3. CASE LockUsers(r)
  <2>1. reg[r].stage = "users" /\ UNCHANGED db
        /\ Lock(r, {User(u) : u \in Deciders(r)}, "mappings")
    BY <1>3 DEF LockUsers, LockSome
  <2>2. Deciders(r) \subseteq Users
    <3>1. Owners(r) \subseteq Users
      BY <1>0, <2>1 DEF LocksSound, Owners
    <3>2. ForGroup(r) => db[Group].owner \in Users
      BY <1>0, <2>1, RowTypes DEF LocksSound, Policies, AfterGroup
    <3> QED BY <3>1, <3>2 DEF Deciders
  <2>3. \A x \in {User(u) : u \in Deciders(r)} : x \in Rows
    BY <1>0, <2>2, RowTypes
  <2> QED BY <2>1, <2>3, QuietLock
<1>4. CASE LockMappings(r)
  <2>1. reg[r].stage = "mappings"
        /\ LockEvery(r, "mappings", {Mapping(u) : u \in Owners(r)}, "keys")
    BY <1>4 DEF LockMappings, LockEvery
  <2>2. ASSUME reg[r].quiet, NEW x \in {Mapping(u) : u \in Owners(r)}
        PROVE  \/ x \in Rows /\ db[x] # Absent
               \/ \E i \in 1..2 : ~Entitled(db, Credential(r, i), reg[r].target)
    <3>1. PICK i \in 1..2 : x = Mapping(reg[r].found[i].user)
      BY <2>2 DEF Owners
    <3> QED BY <1>1, <2>1, <2>2, <3>1 DEF Rows, MappingRows
  <2> QED BY <2>1, <2>2, QuietEvery
<1>5. CASE LockKeys(r)
  <2>1. reg[r].stage = "keys" /\ LockEvery(r, "keys", {Key(k) : k \in KeysOf(r)}, "flags")
    BY <1>5 DEF LockKeys, LockEvery
  <2>2. ASSUME NEW x \in {Key(k) : k \in KeysOf(r)} PROVE x \in Rows /\ db[x] # Absent
    <3>1. PICK k \in Keys : x = Key(k)
      BY DEF KeysOf
    <3> QED BY <1>0, <3>1, RowTypes, AccessAssumption
  <2> QED BY <2>1, <2>2, QuietEvery
<1>6. CASE LockFlags(r)
  <2> DEFINE next == IF ForGroup(r) THEN "members" ELSE "reread"
  <2>1. reg[r].stage = "flags" /\ LockEvery(r, "flags", {KeyFlags(k) : k \in KeysOf(r)}, next)
    BY <1>6 DEF LockFlags, LockEvery
  <2>2. ASSUME reg[r].quiet, NEW x \in {KeyFlags(k) : k \in KeysOf(r)}
        PROVE  \/ x \in Rows /\ db[x] # Absent
               \/ \E i \in 1..2 : ~Entitled(db, Credential(r, i), reg[r].target)
    <3>1. PICK i \in 1..2 : x = KeyFlags(Credential(r, i)) /\ Credential(r, i) \in Keys
      BY <2>2 DEF KeysOf
    <3>2. Credential(r, i) # Recovery /\ x \in Rows
      BY <3>1, AccessAssumption DEF Rows, FlagRows
    <3> QED BY <1>1, <2>1, <2>2, <3>1, <3>2
  <2> QED BY <2>1, <2>2, QuietEvery
<1>7. CASE LockMembers(r)
  <2>1. reg[r].stage = "members"
        /\ LockEvery(r, "members", {Member(u) : u \in Owners(r)}, "all")
    BY <1>7 DEF LockMembers, LockEvery
  <2>2. reg[r].quiet => ForGroup(r)
    BY <1>0, <2>1 DEF QuietSound
  <2>3. ASSUME reg[r].quiet, NEW x \in {Member(u) : u \in Owners(r)}
        PROVE  \/ x \in Rows /\ db[x] # Absent
               \/ \E i \in 1..2 : ~Entitled(db, Credential(r, i), reg[r].target)
    <3>1. PICK i \in 1..2 : x = Member(reg[r].found[i].user)
      BY <2>3 DEF Owners
    <3> QED BY <1>1, <2>1, <2>2, <2>3, <3>1 DEF Rows, MemberRows
  <2> QED BY <2>1, <2>2, <2>3, QuietEvery
<1>8. CASE LockAllGrants(r)
  <2>1. reg[r].stage = "all" /\ UNCHANGED db
        /\ Lock(r, {AllGrant(k) : k \in KeysOf(r)}, "explicit")
    BY <1>8 DEF LockAllGrants, LockSome
  <2>2. reg[r].quiet => ForGroup(r)
    BY <1>0, <2>1 DEF QuietSound
  <2>3. \A x \in {AllGrant(k) : k \in KeysOf(r)} : x \in Rows
    BY DEF KeysOf, Rows, GrantRows
  <2> QED BY <2>1, <2>2, <2>3, QuietLock
<1>9. CASE LockExplicitGrants(r)
  <2>1. reg[r].stage = "explicit" /\ UNCHANGED db
        /\ Lock(r, {ExplicitGrant(k) : k \in KeysOf(r)}, "reread")
    BY <1>9 DEF LockExplicitGrants, LockSome
  <2>2. \A x \in {ExplicitGrant(k) : k \in KeysOf(r)} : x \in Rows
    BY DEF KeysOf, Rows, GrantRows
  <2> QED BY <2>1, <2>2, QuietLock
<1> QED BY <1>2, <1>3, <1>4, <1>5, <1>6, <1>7, <1>8, <1>9

LEMMA QuietDiscover ==
  ASSUME QInv, NEW r \in Registrations, Discover(r)
  PROVE  \A x \in Registrations : QuietSound(x)'
<1> DEFINE i == reg[r].turn
           c == Credential(r, i)
<1>1. /\ reg \in [Registrations -> RegType] /\ reg[r] \in RegType /\ i \in 1..2 /\ c \in Credentials
      /\ reg[r].stage = "discover" /\ UNCHANGED <<db, changes>> /\ QuietSound(r)
  BY DEF QInv, IInv, TypeOK, RegType, FoundType, Credential, Discover
<1>2. CASE ~Resolves(db, c)
  <2>1. End(r, "denied") /\ ~Entitled(db, c, reg[r].target)
    BY <1>2 DEF Discover, Entitled
  <2> QED BY <1>1, <2>1, QuietEnd
<1>3. CASE Resolves(db, c)
  <2> DEFINE f == [reg[r].found EXCEPT ![i] = Identity(db, c)]
             s == IF i = 1 THEN "discover" ELSE IF ForGroup(r) THEN "group" ELSE "users"
             t == IF i = 1 THEN 2 ELSE 1
  <2>1. reg' = [reg EXCEPT ![r].found[i] = Identity(db, c), ![r].turn = t, ![r].stage = s]
    BY <1>3 DEF Discover
  <2>2. /\ Others(r) /\ reg'[r].stage = s /\ reg'[r].turn = t /\ reg'[r].found = f
        /\ Same(r)
    <3> HIDE DEF f, s, t
    <3>1. reg'[r] = [reg[r] EXCEPT !.found[i] = Identity(db, c), !.turn = t, !.stage = s]
          /\ Others(r)
      BY <1>1, <2>1 DEF Others
    <3> QED BY <1>1, <3>1 DEF RegType, Same, f
  <2>3. /\ \A n \in 1..2 : Credential(r, n)' = Credential(r, n)
        /\ ForGroup(r)' = ForGroup(r) /\ reg'[r].quiet = reg[r].quiet
    BY <2>2 DEF Credential, ForGroup, Same
  <2>4. /\ f[i] = Identity(db, c)
        /\ i = 2 => f[1] = reg[r].found[1]
    BY <1>1 DEF RegType, FoundType
  <2>5. QuietSound(r)'
    <3>1. CASE i = 1
      <4>1. reg'[r].stage = "discover" /\ reg'[r].found[1] = Identity(db, Credential(r, 1))
        BY <2>2, <2>4, <3>1
      <4> QED BY <1>1, <2>3, <4>1 DEF QuietSound
    <3>2. CASE i = 2
      <4>1. reg'[r].stage = IF ForGroup(r) THEN "group" ELSE "users"
        BY <2>2, <3>2
      <4>2. reg[r].quiet => \A n \in 1..2 : reg'[r].found[n] = Identity(db, Credential(r, n))
        BY <1>1, <2>2, <2>4, <3>2 DEF QuietSound
      <4> QED BY <1>1, <2>3, <4>1, <4>2 DEF QuietSound
    <3> QED BY <1>1, <3>1, <3>2
  <2> QED BY <1>1, <2>2, <2>5, QuietOthers
<1> QED BY <1>2, <1>3

LEMMA QuietJudging ==
  ASSUME QInv, NEW r \in Registrations, Reread(r) \/ Allow(r)
  PROVE  \A x \in Registrations : QuietSound(x)'
<1> DEFINE i == reg[r].turn
           c == Credential(r, i)
<1>1. /\ reg \in [Registrations -> RegType] /\ reg[r] \in RegType /\ i \in 1..2 /\ c \in Credentials
      /\ reg[r].stage \in {"reread", "allow"} /\ UNCHANGED <<db, changes>> /\ QuietSound(r)
  BY DEF QInv, IInv, TypeOK, RegType, FoundType, Credential, Reread, Allow
<1>2. ASSUME NEW s \in {"reread", "allow", "commit"}, Others(r), reg'[r].stage = s, Same(r),
             reg'[r].found = reg[r].found, reg'[r].locks = reg[r].locks
      PROVE  \A x \in Registrations : QuietSound(x)'
  <2>1. /\ \A n \in 1..2 : Credential(r, n)' = Credential(r, n)
        /\ ForGroup(r)' = ForGroup(r) /\ KeysOf(r)' = KeysOf(r) /\ reg'[r].quiet = reg[r].quiet
    BY <1>2 DEF Credential, ForGroup, KeysOf, Same
  <2>2. QuietSound(r)'
    BY <1>1, <1>2, <2>1 DEF QuietSound, Running, Stages
  <2> QED BY <1>1, <1>2, <2>2, QuietOthers
<1>3. CASE Reread(r)
  <2>1. CASE Resolves(db, c) /\ Identity(db, c) = reg[r].found[i]
    <3>1. reg' = [reg EXCEPT ![r].stage = "allow"]
      BY <1>3, <2>1 DEF Reread
    <3> QED BY <1>1, <1>2, <3>1 DEF RegType, Others, Same
  <2>2. CASE ~(Resolves(db, c) /\ Identity(db, c) = reg[r].found[i])
    <3>1. End(r, "denied")
      BY <1>3, <2>2 DEF Reread
    <3>2. reg[r].quiet => ~Entitled(db, c, reg[r].target)
      BY <1>1, <2>2 DEF QuietSound, Entitled, Running, Stages
    <3> QED BY <1>1, <3>1, <3>2, QuietEnd
  <2> QED BY <2>1, <2>2
<1>4. CASE Allow(r)
  <2>1. CASE Allows(db, c, reg[r].target, reg[r].locks)
    <3> DEFINE s == IF i = 1 THEN "reread" ELSE "commit"
               t == IF i = 1 THEN 2 ELSE 1
    <3>1. reg' = [reg EXCEPT ![r].stage = s, ![r].turn = t]
      BY <1>4, <2>1 DEF Allow, CountedGrants
    <3>2. s \in {"reread", "allow", "commit"}
      OBVIOUS
    <3>3. /\ Others(r) /\ reg'[r].stage = s /\ Same(r)
          /\ reg'[r].found = reg[r].found /\ reg'[r].locks = reg[r].locks
      <4> HIDE DEF s, t
      <4> QED BY <1>1, <3>1 DEF RegType, Others, Same
    <3> HIDE DEF s, t
    <3> QED BY <1>2, <3>2, <3>3
  <2>2. CASE ~Allows(db, c, reg[r].target, reg[r].locks)
    <3>1. End(r, "denied")
      BY <1>4, <2>2 DEF Allow, CountedGrants
    <3>2. c # Recovery => c \in KeysOf(r)
      <4>1. c \in {Credential(r, m) : m \in 1..2}
        BY <1>1
      <4> QED BY <1>1, <4>1 DEF Credentials, KeysOf
    <3>3. reg[r].quiet => ~Allows(db, c, reg[r].target, Rows)
      <4> HIDE DEF c
      <4>1. ASSUME reg[r].quiet, reg[r].target = GroupLibrary, c # Recovery
            PROVE  /\ db[AllGrant(c)] # Absent => AllGrant(c) \in reg[r].locks
                   /\ db[ExplicitGrant(c)] # Absent => ExplicitGrant(c) \in reg[r].locks
        BY <1>1, <3>2, <4>1 DEF QuietSound, ForGroup
      <4> QED BY <2>2, <4>1, Counted
    <3>4. reg[r].quiet => ~Entitled(db, c, reg[r].target)
      BY <3>3 DEF Entitled
    <3> QED BY <1>1, <3>1, <3>4, QuietEnd
  <2> QED BY <2>1, <2>2
<1> QED BY <1>3, <1>4

LEMMA QuietNext == QInv /\ [Next]_vars => QInv'
<1> SUFFICES ASSUME QInv, [Next]_vars PROVE QInv'
  OBVIOUS
<1>1. IInv'
  BY NextInvariant DEF QInv
<1>2. ASSUME NEW r \in Registrations, Register(r)
      PROVE  \A x \in Registrations : QuietSound(x)'
  <2>1. CASE Discover(r)
    BY <2>1, QuietDiscover
  <2>2. CASE \/ LockGroup(r) \/ LockUsers(r) \/ LockMappings(r) \/ LockKeys(r) \/ LockFlags(r)
             \/ LockMembers(r) \/ LockAllGrants(r) \/ LockExplicitGrants(r)
    BY <2>2, QuietLocking
  <2>3. CASE Reread(r) \/ Allow(r)
    BY <2>3, QuietJudging
  <2>4. CASE Commit(r) \/ Drop(r)
    BY <2>4, QuietEnd DEF Commit, Drop
  <2> QED BY <1>2, <2>1, <2>2, <2>3, <2>4 DEF Register
<1>3. ASSUME NEW d \in Administrations(db), Administer(d)
      PROVE  \A x \in Registrations : QuietSound(x)'
  <2>1. ASSUME NEW x \in Registrations PROVE reg'[x].quiet = FALSE
    <3>1. reg'[x] = [reg[x] EXCEPT !.quiet = FALSE] /\ reg[x] \in RegType
      BY <1>3 DEF Administer, QInv, IInv, TypeOK, RegType, FoundType
    <3> QED BY <3>1 DEF RegType
  <2> QED BY <2>1 DEF QuietSound
<1>4. CASE UNCHANGED vars
  <2>1. \A x \in Registrations : QuietSound(x)'
    BY <1>4 DEF vars, QInv, QuietSound, Credential, ForGroup, KeysOf
  <2> QED BY <1>1, <2>1 DEF QInv
<1> QED BY <1>1, <1>2, <1>3, <1>4 DEF Next, QInv

(* A registration during which nothing was changed is refused only if one  *)
(* of its credentials lacks the right.                                     *)
THEOREM RefusedForCause == Spec => []DeniedForCause
<1>1. Init => QInv
  BY InitInvariant, QuietInit DEF QInv
<1>2. QInv => DeniedForCause
  BY DEF QInv, QuietSound, DeniedForCause
<1> QED BY <1>1, <1>2, QuietNext, PTL DEF Spec

---------------------------------------------------------------------------
(* The middleware, the registration and the listing of groups decide alike *)
(* on all tables.                                                          *)
LEMMA FlagTypes ==
  ASSUME NEW d, IsTables(d), NEW c \in Credentials, Resolves(d, c)
  PROVE  Flags(d, c) \subseteq {"library", "write", "files"}
<1>1. CASE c = Recovery
  BY <1>1, AccessAssumption DEF Flags
<1>2. CASE c # Recovery
  <2>1. KeyFlags(c) \in Rows /\ d[KeyFlags(c)] # Absent
    BY <1>2 DEF Credentials, Rows, FlagRows, Resolves, KeyIsLive
  <2>2. <<KeyFlags(c), d[KeyFlags(c)]>> \in Entries
    BY <2>1 DEF IsTables
  <2>3. d[KeyFlags(c)] \in FlagSets
    BY <2>1, <2>2 DEF Entries, UserRows, MappingRows, KeyRows, FlagRows, MemberRows, GrantRows,
       User, Mapping, Key, KeyFlags, Group, Member, AllGrant, ExplicitGrant
  <2> QED BY <1>2, <2>3 DEF Flags, FlagSets
<1> QED BY <1>1, <1>2

LEMMA PersonalAgree ==
  ASSUME NEW flags \in SUBSET {"library", "write", "files"}
  PROVE  flags = {"library", "write", "files"} <=>
           {"library", "files", "file_write", "write"} \subseteq PersonalAccess(flags)
BY DEF PersonalAccess, Capability

LEMMA GroupAgree ==
  ASSUME NEW d, NEW c
  PROVE  /\ "library" \in GroupAccess(d, c) <=>
              GroupExists(d) /\ GroupReads(d, Owner(d, c), c, Rows)
         /\ {"library", "files", "file_write", "write"} \subseteq GroupAccess(d, c) <=>
              /\ GroupExists(d) /\ GroupReads(d, Owner(d, c), c, Rows)
              /\ GroupWritesFiles(d, Owner(d, c), c, Rows)
<1> DEFINE u == Owner(d, c)
<1>1. GroupWritesFiles(d, u, c, Rows) => GroupWrites(d, u, c, Rows)
  BY DEF GroupWritesFiles
<1> QED BY <1>1 DEF GroupAccess, Capability

(* On any tables that meet the schema: who passes the gates with an upload *)
(* is who may register it, and who may read a group is who finds it listed.*)
THEOREM OneRule == Spec => []RulesAgree
<1>1. IInv => RulesAgree
  <2> SUFFICES ASSUME IInv, NEW r \in Registrations, Resolves(db, Credential(r, 2))
               PROVE  LET c == Credential(r, 2)
                          target == reg[r].target
                          ask == [route |-> IF ForGroup(r) THEN "group" ELSE "personal",
                                  user |-> Owner(db, c), credential |-> c,
                                  mutating |-> TRUE, file |-> TRUE]
                          read == [ask EXCEPT !.route = "group", !.mutating = FALSE,
                                              !.file = FALSE]
                      IN /\ (PassesGates(db, ask) /\ RequestLibrary(db, ask) = target)
                              <=> Entitled(db, c, target)
                         /\ PassesGates(db, read) <=> Discoverable(db, Owner(db, c), c)
    BY DEF RulesAgree
  <2> DEFINE c == Credential(r, 2)
             target == reg[r].target
             ask == [route |-> IF ForGroup(r) THEN "group" ELSE "personal",
                     user |-> Owner(db, c), credential |-> c, mutating |-> TRUE, file |-> TRUE]
             read == [ask EXCEPT !.route = "group", !.mutating = FALSE, !.file = FALSE]
  <2>1. c \in Credentials /\ IsTables(db) /\ c # NoKey /\ target \in Libraries
    BY GatesAssumption DEF IInv, TypeOK, Credential
  <2>2. Flags(db, c) \in SUBSET {"library", "write", "files"}
    BY <2>1, FlagTypes
  <2>3. (PassesGates(db, ask) /\ RequestLibrary(db, ask) = target) <=> Entitled(db, c, target)
    <3>1. CASE ForGroup(r)
      <4>1. PassesGates(db, ask) <=>
              {"library", "files", "file_write", "write"} \subseteq GroupAccess(db, c)
        BY <2>1, <3>1 DEF PassesGates, Bootstrap, Authenticates, OwnPath, Access
      <4>2. RequestLibrary(db, ask) = target
        BY <3>1 DEF RequestLibrary, ForGroup
      <4> QED BY <3>1, <4>1, <4>2, GroupAgree DEF Entitled, Allows, ForGroup
    <3>2. CASE ~ForGroup(r)
      <4>1. PassesGates(db, ask) <=>
              {"library", "files", "file_write", "write"} \subseteq PersonalAccess(Flags(db, c))
        BY <2>1, <3>2 DEF PassesGates, Bootstrap, Authenticates, OwnPath, Access
      <4>2. RequestLibrary(db, ask) = PersonalLibrary(db, c)
        BY <3>2 DEF RequestLibrary
      <4> QED BY <2>2, <3>2, <4>1, <4>2, PersonalAgree DEF Entitled, Allows, ForGroup
    <3> QED BY <3>1, <3>2
  <2>4. PassesGates(db, read) <=> Discoverable(db, Owner(db, c), c)
    <3>1. PassesGates(db, read) <=> "library" \in GroupAccess(db, c)
      BY <2>1 DEF PassesGates, Bootstrap, Authenticates, OwnPath, Access
    <3>2. db[User(Owner(db, c))] = "active"
      BY DEF Resolves
    <3>3. CASE c = Recovery
      <4>1. AllGrant(c) \notin Rows /\ ExplicitGrant(c) \notin Rows
        BY <3>3, AccessAssumption DEF Rows, UserRows, MappingRows, KeyRows, FlagRows,
           MemberRows, GrantRows, User, Mapping, Key, KeyFlags, Group, Member, AllGrant,
           ExplicitGrant
      <4>2. GrantOf(db, AllGrant(c), Rows) = {} /\ GrantOf(db, ExplicitGrant(c), Rows) = {}
        BY <4>1 DEF GrantOf
      <4> HIDE DEF c
      <4> QED BY <3>1, <3>2, <3>3, <4>2, GroupAgree
              DEF Discoverable, GroupReads, AllFlags, ExplicitFlags
    <3>4. CASE c # Recovery
      <4> HIDE DEF c
      <4> QED BY <3>1, <3>2, <3>4, GroupAgree
              DEF Discoverable, GroupReads, AllFlags, ExplicitFlags
    <3> QED BY <3>3, <3>4
  <2> QED BY <2>3, <2>4
<1> QED BY <1>1, Invariance, PTL
=============================================================================
