---------------------------- MODULE RowLocks_proofs -------------------------
(***************************************************************************)
(* Theorems about RowLocks, for any number of connections, users and       *)
(* libraries.                                                              *)
(***************************************************************************)
EXTENDS RowLocks, Sorting_proofs, SequenceTheorems

(* The order in which every transaction but a login's approval locks rows: *)
(* by table, and within a table by id.                                     *)
Tables == {"advisory", "external_identities", "library", "groups", "users",
           "personal_libraries", "api_keys", "group_memberships",
           "api_key_group_permissions"}

Rank(table) ==
  IF table = "advisory" THEN 0
  ELSE IF table = "external_identities" THEN 1
  ELSE IF table = "library" THEN 2
  ELSE IF table = "groups" THEN 3
  ELSE IF table = "users" THEN 4
  ELSE IF table = "personal_libraries" THEN 5
  ELSE IF table = "api_keys" THEN 6
  ELSE IF table = "group_memberships" THEN 7
  ELSE 8

Locks == [row : Tables \X Nat, mode : Modes]

Below(r, s) == Rank(r[1]) < Rank(s[1]) \/ (r[1] = s[1] /\ r[2] < s[2])

Climbs(s) ==
  /\ s \in Seq(Locks)
  /\ \A i, j \in 1..Len(s) : i < j => Below(s[i].row, s[j].row)

(* s climbs, within the tables up to n and sharing what is no library.     *)
Within(s, n) ==
  /\ Climbs(s)
  /\ \A i \in 1..Len(s) :
       /\ Rank(s[i].row[1]) <= n
       /\ s[i].row[1] # "library" => s[i].mode = "share"

(* s climbs through rows of one table, which it shares.                    *)
Shares(s, table) ==
  /\ Climbs(s)
  /\ \A i \in 1..Len(s) : s[i].row[1] = table /\ s[i].mode = "share"

(* Two climbing parts in the order of their tables climb.                  *)
LEMMA WithinThen ==
  ASSUME NEW s, NEW n \in Nat, Within(s, n), NEW table \in Tables,
         NEW u, Shares(u, table), n < Rank(table), table # "library"
  PROVE  Within(s \o u, Rank(table))
<1> DEFINE v == s \o u
<1>1. s \in Seq(Locks) /\ u \in Seq(Locks)
  BY DEF Within, Shares, Climbs
<1>2. v \in Seq(Locks) /\ Len(v) = Len(s) + Len(u) /\ Len(s) \in Nat /\ Len(u) \in Nat
  BY <1>1
<1>3. \A i \in 1..Len(v) :
        \/ i \in 1..Len(s) /\ v[i] = s[i]
        \/ i - Len(s) \in 1..Len(u) /\ v[i] = u[i - Len(s)] /\ i > Len(s)
  BY <1>1, <1>2
<1>4. Rank(table) \in Nat
  BY DEF Rank
<1> HIDE DEF v
<1>5. ASSUME NEW i \in 1..Len(v)
      PROVE  /\ Rank(v[i].row[1]) <= Rank(table)
             /\ v[i].row[1] # "library" => v[i].mode = "share"
  <2>1. CASE i \in 1..Len(s) /\ v[i] = s[i]
    <3>1. Rank(v[i].row[1]) \in Nat
      BY DEF Rank
    <3> QED BY <1>4, <2>1, <3>1 DEF Within
  <2>2. CASE i - Len(s) \in 1..Len(u) /\ v[i] = u[i - Len(s)]
    BY <1>4, <2>2 DEF Shares
  <2> QED BY <1>3, <2>1, <2>2
<1>6. ASSUME NEW i \in 1..Len(v), NEW j \in 1..Len(v), i < j
      PROVE  Below(v[i].row, v[j].row)
  <2>1. CASE i \in 1..Len(s) /\ v[i] = s[i] /\ j \in 1..Len(s) /\ v[j] = s[j]
    BY <1>6, <2>1 DEF Within, Climbs
  <2>2. CASE /\ i \in 1..Len(s) /\ v[i] = s[i]
             /\ j - Len(s) \in 1..Len(u) /\ v[j] = u[j - Len(s)]
    <3>1. Rank(v[i].row[1]) <= n /\ v[j].row[1] = table /\ Rank(v[i].row[1]) \in Nat
      BY <2>2 DEF Within, Shares, Rank
    <3> QED BY <1>4, <3>1 DEF Below
  <2>3. CASE /\ i - Len(s) \in 1..Len(u) /\ v[i] = u[i - Len(s)]
             /\ j - Len(s) \in 1..Len(u) /\ v[j] = u[j - Len(s)]
    <3>1. i - Len(s) < j - Len(s)
      BY <1>2, <1>6
    <3> QED BY <2>3, <3>1 DEF Shares, Climbs
  <2> QED BY <1>2, <1>3, <1>6, <2>1, <2>2, <2>3
<1>7. Within(v, Rank(table))
  BY <1>2, <1>5, <1>6 DEF Within, Climbs
<1> QED BY <1>7 DEF v

(* Nothing shared after s leaves it within its tables.                     *)
LEMMA WithinMore ==
  ASSUME NEW s, NEW n \in Nat, NEW m \in Nat, n <= m, Within(s, n)
  PROVE  Within(s, m)
<1>1. \A i \in 1..Len(s) : Rank(s[i].row[1]) \in Nat
  BY DEF Rank
<1> QED BY <1>1 DEF Within

(* What a request for a lock says.                                         *)
LEMMA AskSays ==
  ASSUME NEW table \in Tables, NEW id \in Nat, NEW mode \in Modes
  PROVE  /\ Ask(table, id, mode) \in Locks
         /\ Ask(table, id, mode).row[1] = table
         /\ Ask(table, id, mode).row[2] = id
         /\ Ask(table, id, mode).mode = mode
<1>1. Ask(table, id, mode) = [row |-> <<table, id>>, mode |-> mode]
  BY DEF Ask
<1>2. <<table, id>> \in Tables \X Nat
  OBVIOUS
<1>3. <<table, id>>[1] = table /\ <<table, id>>[2] = id
  OBVIOUS
<1> QED BY <1>1, <1>2, <1>3 DEF Locks

(* Rows taken `order by id for share`.                                     *)
LEMMA ShareAllShares ==
  ASSUME NEW table \in Tables, NEW ids \in SUBSET Nat, IsFiniteSet(ids)
  PROVE  Shares(ShareAll(table, ids), table)
<1>1. PICK s \in Seq(ids) :
        s = Ascending(ids) /\ \A i, j \in 1..Len(s) : i < j => s[i] < s[j]
  BY AscendingLists
<1>2. PICK v : v = [i \in 1..Len(s) |-> Ask(table, s[i], "share")]
  OBVIOUS
<1>3. Len(s) \in Nat /\ \A i \in 1..Len(s) : s[i] \in Nat
  <2>1. Len(s) \in Nat /\ \A i \in 1..Len(s) : s[i] \in ids
    OBVIOUS
  <2> QED BY <2>1
<1>4. \A i \in 1..Len(s) :
        /\ v[i] \in Locks
        /\ v[i].row[1] = table /\ v[i].row[2] = s[i] /\ v[i].mode = "share"
  <2> TAKE i \in 1..Len(s)
  <2>1. v[i] = Ask(table, s[i], "share") /\ s[i] \in Nat /\ "share" \in Modes
    BY <1>2, <1>3 DEF Modes
  <2> QED BY <2>1, AskSays
<1>5. v \in Seq(Locks) /\ Len(v) = Len(s)
  <2>1. v \in [1..Len(s) -> Locks]
    BY <1>2, <1>4
  <2> QED BY <1>3, <2>1
<1>6. \A i, j \in 1..Len(v) : i < j => Below(v[i].row, v[j].row)
  BY <1>1, <1>4, <1>5 DEF Below
<1>7. v = ShareAll(table, ids)
  BY <1>1, <1>2 DEF ShareAll
<1>8. Climbs(v)
  BY <1>5, <1>6 DEF Climbs
<1>9. \A i \in 1..Len(v) : v[i].row[1] = table /\ v[i].mode = "share"
  BY <1>4, <1>5
<1>10. Shares(v, table)
  BY <1>8, <1>9 DEF Shares
<1> QED BY <1>7, <1>10

(* A registration's libraries, in the order of their ids.                  *)
LEMMA LibraryLocksWithin ==
  ASSUME NEW target \in Libraries, NEW owners \in SUBSET Users
  PROVE  Within(LibraryLocks(target, owners), 2)
<1> DEFINE owned == {Personal(u) : u \in owners}
<1>1. PICK ids : ids = {target} \cup owned
  OBVIOUS
<1>2. ids \in SUBSET Nat /\ IsFiniteSet(ids)
  <2>1. IsFiniteSet(owners)
    BY LockAssumption, FS_Subset
  <2>2. [u \in owners |-> Personal(u)] \in Surjection(owners, owned)
    BY DEF Surjection
  <2>3. owned \in SUBSET Nat /\ target \in Nat
    BY LockAssumption DEF Libraries
  <2> HIDE DEF owned
  <2>4. IsFiniteSet(owned)
    BY <2>1, <2>2, FS_Surjection
  <2>5. IsFiniteSet(owned \cup {target})
    BY <2>4, FS_AddElement
  <2> QED BY <1>1, <2>3, <2>5
<1>3. PICK s \in Seq(ids) :
        s = Ascending(ids) /\ \A i, j \in 1..Len(s) : i < j => s[i] < s[j]
  BY <1>2, AscendingLists
<1>4. PICK v : v = [i \in 1..Len(s) |->
                      Ask("library", s[i], IF s[i] = target THEN "update" ELSE "share")]
  OBVIOUS
<1>5. Len(s) \in Nat /\ \A i \in 1..Len(s) : s[i] \in Nat
  <2>1. Len(s) \in Nat /\ \A i \in 1..Len(s) : s[i] \in ids
    OBVIOUS
  <2> QED BY <1>2, <2>1
<1>6. \A i \in 1..Len(s) :
        /\ v[i] \in Locks
        /\ v[i].row[1] = "library" /\ v[i].row[2] = s[i]
  <2> TAKE i \in 1..Len(s)
  <2>1. PICK mode \in Modes : v[i] = Ask("library", s[i], mode)
    BY <1>4 DEF Modes
  <2>2. "library" \in Tables /\ s[i] \in Nat
    BY <1>5 DEF Tables
  <2> QED BY <2>1, <2>2, AskSays
<1>7. v \in Seq(Locks) /\ Len(v) = Len(s)
  <2>1. v \in [1..Len(s) -> Locks]
    BY <1>4, <1>6
  <2> QED BY <1>5, <2>1
<1>8. \A i, j \in 1..Len(v) : i < j => Below(v[i].row, v[j].row)
  BY <1>3, <1>6, <1>7 DEF Below
<1>9. v = LibraryLocks(target, owners)
  BY <1>1, <1>3, <1>4 DEF LibraryLocks
<1>10. Climbs(v)
  BY <1>7, <1>8 DEF Climbs
<1>11. \A i \in 1..Len(v) : Rank(v[i].row[1]) <= 2 /\ v[i].row[1] = "library"
  BY <1>6, <1>7 DEF Rank
<1> QED BY <1>9, <1>10, <1>11 DEF Within

(* A registration climbs, and shares all it locks but libraries.           *)
LEMMA RegisterWithin ==
  ASSUME NEW target \in Libraries, NEW owners \in SUBSET Users
  PROVE  Within(RegisterLocks(target, owners), 8)
<1> DEFINE grouped == target = GroupLibrary
           everyone == IF grouped THEN owners \cup {GroupOwner} ELSE owners
           s1 == LibraryLocks(target, owners)
           s2 == s1 \o (IF grouped THEN <<Ask("groups", target, "share")>> ELSE <<>>)
           s3 == s2 \o ShareAll("users", everyone)
           s4 == s3 \o ShareAll("personal_libraries", owners)
           s5 == s4 \o ShareAll("api_keys", owners)
           s6 == s5 \o ShareAll("group_memberships", owners)
           s7 == s6 \o ShareAll("api_key_group_permissions", owners)
<1>1. owners \in SUBSET Nat /\ IsFiniteSet(owners)
  BY LockAssumption, FS_Subset
<1>2. everyone \in SUBSET Nat /\ IsFiniteSet(everyone)
  BY <1>1, LockAssumption, FS_AddElement
<1>3. /\ Shares(ShareAll("users", everyone), "users")
      /\ Shares(ShareAll("personal_libraries", owners), "personal_libraries")
      /\ Shares(ShareAll("api_keys", owners), "api_keys")
      /\ Shares(ShareAll("group_memberships", owners), "group_memberships")
      /\ Shares(ShareAll("api_key_group_permissions", owners), "api_key_group_permissions")
  <2> HIDE DEF everyone
  <2> QED BY <1>1, <1>2, ShareAllShares DEF Tables
<1>4. /\ Rank("groups") = 3 /\ Rank("users") = 4 /\ Rank("personal_libraries") = 5
      /\ Rank("api_keys") = 6 /\ Rank("group_memberships") = 7
      /\ Rank("api_key_group_permissions") = 8
  BY DEF Rank
<1>5. Within(s1, 2)
  BY LibraryLocksWithin
<1> HIDE DEF s1
<1>6. Within(s2, 3)
  <2>1. CASE grouped
    <3>1. target \in Nat
      BY LockAssumption DEF Libraries
    <3>2. PICK u : u = <<Ask("groups", target, "share")>>
      OBVIOUS
    <3>3. /\ Ask("groups", target, "share") \in Locks
          /\ Ask("groups", target, "share").row[1] = "groups"
          /\ Ask("groups", target, "share").mode = "share"
      <4>1. "groups" \in Tables /\ "share" \in Modes
        BY DEF Tables, Modes
      <4> QED BY <3>1, <4>1, AskSays
    <3>4. /\ u \in Seq(Locks) /\ Len(u) = 1
          /\ u[1].row[1] = "groups" /\ u[1].mode = "share"
      BY <3>2, <3>3
    <3>5. Shares(u, "groups")
      <4>1. \A i, j \in 1..Len(u) : ~(i < j)
        BY <3>4
      <4>2. \A i \in 1..Len(u) : i = 1
        BY <3>4
      <4> QED BY <3>4, <4>1, <4>2 DEF Shares, Climbs
    <3>6. Within(s1 \o u, 3)
      BY <1>4, <1>5, <3>5, WithinThen DEF Tables
    <3> QED BY <2>1, <3>2, <3>6
  <2>2. CASE ~grouped
    <3>1. s2 = s1
      BY <1>5, <2>2 DEF Within, Climbs
    <3>2. Within(s1, 3)
      BY <1>5, WithinMore
    <3> QED BY <3>1, <3>2
  <2> QED BY <2>1, <2>2
<1> HIDE DEF s2
<1>7. Within(s3, 4)
  <2> HIDE DEF everyone
  <2> QED BY <1>3, <1>4, <1>6, WithinThen DEF Tables
<1> HIDE DEF s3
<1>8. Within(s4, 5)
  BY <1>3, <1>4, <1>7, WithinThen DEF Tables
<1> HIDE DEF s4
<1>9. Within(s5, 6)
  BY <1>3, <1>4, <1>8, WithinThen DEF Tables
<1> HIDE DEF s5
<1>10. Within(s6, 7)
  BY <1>3, <1>4, <1>9, WithinThen DEF Tables
<1> HIDE DEF s6
<1>11. Within(s7, 8)
  BY <1>3, <1>4, <1>10, WithinThen DEF Tables
<1> DEFINE memberships == ShareAll("group_memberships", owners)
           permissions == ShareAll("api_key_group_permissions", owners)
<1>12. CASE grouped
  <2>1. RegisterLocks(target, owners) = s5 \o (memberships \o permissions)
    BY <1>12 DEF RegisterLocks, s1, s2, s3, s4, s5
  <2>2. /\ s5 \in Seq(Locks) /\ memberships \in Seq(Locks) /\ permissions \in Seq(Locks)
    BY <1>3, <1>9 DEF Within, Shares, Climbs
  <2>3. s5 \o (memberships \o permissions) = (s5 \o memberships) \o permissions
    <3> HIDE DEF memberships, permissions
    <3> QED BY <2>2
  <2>4. RegisterLocks(target, owners) = s7
    BY <2>1, <2>3 DEF s6
  <2> QED BY <1>11, <2>4
<1>13. CASE ~grouped
  <2>1. RegisterLocks(target, owners) = s5 \o <<>>
    BY <1>13 DEF RegisterLocks, s1, s2, s3, s4, s5
  <2>2. s5 \in Seq(Locks)
    BY <1>9 DEF Within, Climbs
  <2>3. s5 \o <<>> = s5
    BY <2>2
  <2>4. Within(s5, 8)
    BY <1>9, WithinMore
  <2> QED BY <2>1, <2>3, <2>4
<1> QED BY <1>12, <1>13

---------------------------------------------------------------------------
(* Rows are one below the other.                                           *)
LEMMA BelowOrders ==
  ASSUME NEW R \in SUBSET (Tables \X Nat)
  PROVE  Orders({p \in R \X R : Below(p[1], p[2])}, R)
<1> DEFINE order == {p \in R \X R : Below(p[1], p[2])}
<1>1. \A x, y \in R : <<x, y>> \in order <=> Below(x, y)
  OBVIOUS
<1>2. \A x \in R : x[1] \in Tables /\ x[2] \in Nat /\ x = <<x[1], x[2]>>
  OBVIOUS
<1>3. \A a, b \in Tables : Rank(a) = Rank(b) => a = b
  BY DEF Tables, Rank
<1>4. \A a \in Tables : Rank(a) \in Nat
  BY DEF Rank
<1> HIDE DEF order
<1>5. \A x \in R : ~Below(x, x)
  BY <1>2, <1>4 DEF Below
<1>6. \A x, y \in R : x # y => Below(x, y) \/ Below(y, x)
  <2> TAKE x, y \in R
  <2>1. CASE x[1] = y[1]
    <3>1. x # y => x[2] # y[2]
      BY <1>2, <2>1
    <3> QED BY <1>2, <2>1, <3>1 DEF Below
  <2>2. CASE x[1] # y[1]
    BY <1>2, <1>3, <1>4, <2>2 DEF Below
  <2> QED BY <2>1, <2>2
<1>7. \A x, y, z \in R : Below(x, y) /\ Below(y, z) => Below(x, z)
  BY <1>2, <1>4 DEF Below
<1>8. Orders(order, R)
  BY <1>1, <1>5, <1>6, <1>7 DEF Orders
<1> QED BY <1>8 DEF order

(* After its first lock, s only shares the rows of a person.               *)
Personals == {"external_identities", "users", "personal_libraries"}
SharesLater(s) ==
  \A i \in 2..Len(s) :
    s[i].row[1] \in Personals => s[i].mode \in {"share", "key share"}

(* A few locks climb when each is below the next.                          *)
LEMMA Few ==
  ASSUME NEW a \in Locks, NEW b \in Locks, NEW c \in Locks, NEW d \in Locks
  PROVE  /\ Climbs(<<a>>) /\ SharesLater(<<a>>)
         /\ (b.row[1] \in Personals => b.mode \in {"share", "key share"}) => SharesLater(<<a, b>>)
         /\ Below(a.row, b.row) => Climbs(<<a, b>>)
         /\ Below(a.row, b.row) /\ Below(b.row, c.row) => Climbs(<<a, b, c>>)
         /\ Below(a.row, b.row) /\ Below(b.row, c.row) /\ Below(c.row, d.row) =>
              Climbs(<<a, b, c, d>>)
<1>0. \A x, y, z \in Locks :
        Below(x.row, y.row) /\ Below(y.row, z.row) => Below(x.row, z.row)
  <2>1. \A l \in Locks : l.row[1] \in Tables /\ l.row[2] \in Nat
    BY DEF Locks
  <2>2. \A t \in Tables : Rank(t) \in Nat
    BY DEF Rank
  <2> QED BY <2>1, <2>2 DEF Below
<1>1. Climbs(<<a>>) /\ SharesLater(<<a>>)
  <2>1. <<a>> \in Seq(Locks) /\ Len(<<a>>) = 1
    OBVIOUS
  <2>2. \A i, j \in 1..1 : ~(i < j)
    OBVIOUS
  <2>3. 2..1 = {}
    OBVIOUS
  <2> QED BY <2>1, <2>2, <2>3 DEF Climbs, SharesLater
<1>2. ASSUME Below(a.row, b.row) PROVE Climbs(<<a, b>>)
  <2>1. PICK s : s = <<a, b>>
    OBVIOUS
  <2>2. s \in Seq(Locks) /\ Len(s) = 2 /\ s[1] = a /\ s[2] = b
    BY <2>1
  <2>3. \A i, j \in 1..Len(s) : i < j => i = 1 /\ j = 2
    BY <2>2
  <2>4. Climbs(s)
    BY <1>2, <2>2, <2>3 DEF Climbs
  <2> QED BY <2>1, <2>4
<1>3. ASSUME Below(a.row, b.row), Below(b.row, c.row) PROVE Climbs(<<a, b, c>>)
  <2>1. PICK s : s = <<a, b, c>>
    OBVIOUS
  <2>2. s \in Seq(Locks) /\ Len(s) = 3 /\ s[1] = a /\ s[2] = b /\ s[3] = c
    BY <2>1
  <2>3. \A i, j \in 1..Len(s) : i < j => <<i, j>> \in {<<1, 2>>, <<1, 3>>, <<2, 3>>}
    BY <2>2
  <2>4. Climbs(s)
    BY <1>0, <1>3, <2>2, <2>3 DEF Climbs
  <2> QED BY <2>1, <2>4
<1>4. ASSUME Below(a.row, b.row), Below(b.row, c.row), Below(c.row, d.row)
      PROVE  Climbs(<<a, b, c, d>>)
  <2>1. PICK s : s = <<a, b, c, d>>
    OBVIOUS
  <2>2. /\ s \in Seq(Locks) /\ Len(s) = 4
        /\ s[1] = a /\ s[2] = b /\ s[3] = c /\ s[4] = d
    BY <2>1
  <2>3. \A i, j \in 1..Len(s) : i < j =>
          <<i, j>> \in {<<1, 2>>, <<1, 3>>, <<1, 4>>, <<2, 3>>, <<2, 4>>, <<3, 4>>}
    BY <2>2
  <2>4. Below(a.row, c.row) /\ Below(a.row, d.row) /\ Below(b.row, d.row)
    BY <1>0, <1>4
  <2>5. Climbs(s)
    BY <1>4, <2>2, <2>3, <2>4 DEF Climbs
  <2> QED BY <2>1, <2>5
<1>5. ASSUME b.row[1] \in Personals => b.mode \in {"share", "key share"}
      PROVE  SharesLater(<<a, b>>)
  <2>1. Len(<<a, b>>) = 2 /\ <<a, b>>[2] = b /\ 2..2 = {2}
    OBVIOUS
  <2> QED BY <1>5, <2>1 DEF SharesLater
<1> QED BY <1>1, <1>2, <1>3, <1>4, <1>5

IsLock(a, table, mode) == a \in Locks /\ a.row[1] = table /\ a.mode = mode

LEMMA AskIs ==
  ASSUME NEW table \in Tables, NEW id \in Nat, NEW mode \in Modes
  PROVE  IsLock(Ask(table, id, mode), table, mode)
BY AskSays DEF IsLock

LEMMA Ranks ==
  /\ Rank("advisory") < Rank("library")
  /\ Rank("external_identities") < Rank("users")
  /\ Rank("library") < Rank("groups") /\ Rank("library") < Rank("users")
  /\ Rank("groups") < Rank("users")
  /\ Rank("users") < Rank("personal_libraries")
  /\ Rank("group_memberships") < Rank("api_key_group_permissions")
BY DEF Rank

LEMMA Joined ==
  ASSUME NEW a \in Locks, NEW b \in Locks, NEW c \in Locks
  PROVE  /\ (<<a>> \o <<>>) \o <<>> = <<a>>
         /\ (<<a>> \o <<b>>) \o <<>> = <<a, b>>
         /\ (<<a>> \o <<>>) \o <<c>> = <<a, c>>
         /\ (<<a>> \o <<b>>) \o <<c>> = <<a, b, c>>
<1>1. \A s \in Seq(Locks) : s \o <<>> = s
  OBVIOUS
<1>2. /\ <<a>> \in Seq(Locks) /\ <<a, b>> \in Seq(Locks)
  OBVIOUS
<1>3. <<a>> \o <<>> = <<a>> /\ <<a, b>> \o <<>> = <<a, b>>
  BY <1>1, <1>2
<1>4. \A x, y \in Locks : <<x>> \o <<y>> = <<x, y>>
  <2> TAKE x, y \in Locks
  <2>1. PICK s, u, t : s = <<x>> /\ u = <<y>> /\ t = <<x, y>>
    OBVIOUS
  <2>2. /\ s \in Seq(Locks) /\ Len(s) = 1 /\ s[1] = x
        /\ u \in Seq(Locks) /\ Len(u) = 1 /\ u[1] = y
        /\ t \in Seq(Locks) /\ Len(t) = 2 /\ t[1] = x /\ t[2] = y
    BY <2>1
  <2>3. \A i \in 1..2 : i = 1 \/ i = 2
    OBVIOUS
  <2>4. s \o u = t
    BY <2>2, <2>3, ConcatProperties, SeqEqual
  <2> QED BY <2>1, <2>4
<1>5. <<a, b>> \o <<c>> = <<a, b, c>>
  <2>1. PICK s, u, t : s = <<a, b>> /\ u = <<c>> /\ t = <<a, b, c>>
    OBVIOUS
  <2>2. /\ s \in Seq(Locks) /\ Len(s) = 2 /\ s[1] = a /\ s[2] = b
        /\ u \in Seq(Locks) /\ Len(u) = 1 /\ u[1] = c
        /\ t \in Seq(Locks) /\ Len(t) = 3 /\ t[1] = a /\ t[2] = b /\ t[3] = c
    BY <2>1
  <2>3. \A i \in 1..3 : i = 1 \/ i = 2 \/ i = 3
    OBVIOUS
  <2>4. /\ s \o u \in Seq(Locks) /\ Len(s \o u) = 3
        /\ (s \o u)[1] = s[1] /\ (s \o u)[2] = s[2] /\ (s \o u)[3] = u[1]
    <3>1. PICK v : v = s \o u
      OBVIOUS
    <3>2. /\ v \in Seq(Locks) /\ Len(v) = Len(s) + Len(u)
          /\ \A i \in 1..Len(s) + Len(u) : v[i] = IF i <= Len(s) THEN s[i] ELSE u[i - Len(s)]
      BY ONLY <2>2, <3>1, ConcatProperties
    <3>3. /\ v \in Seq(Locks) /\ Len(v) = 3
          /\ \A i \in 1..3 : v[i] = IF i <= 2 THEN s[i] ELSE u[i - 2]
      BY <2>2, <3>2
    <3>4. v[1] = s[1] /\ v[2] = s[2] /\ v[3] = u[1]
      BY <3>3
    <3> QED BY <3>1, <3>3, <3>4
  <2>5. s \o u = t
    BY <2>2, <2>3, <2>4, SeqEqual
  <2> QED BY <2>1, <2>5
<1> QED BY <1>3, <1>4, <1>5

LEMMA RankedBelow ==
  ASSUME NEW a, NEW b, NEW t, NEW u, NEW m, NEW n,
         IsLock(a, t, m), IsLock(b, u, n), Rank(t) < Rank(u)
  PROVE  Below(a.row, b.row)
BY DEF IsLock, Below

(* The locks of an upload's authorization climb, each a key share.         *)
LEMMA AuthorizeShape ==
  ASSUME NEW target \in Libraries, NEW recovery \in BOOLEAN
  PROVE  Climbs(AuthorizeLocks(target, recovery)) /\ SharesLater(AuthorizeLocks(target, recovery))
<1> DEFINE a == Ask("library", target, "key share")
           b == Ask("groups", target, "key share")
           c == Ask("users", BootstrapUser, "key share")
           v == AuthorizeLocks(target, recovery)
<1>1. target \in Nat /\ BootstrapUser \in Nat
  BY LockAssumption DEF Libraries
<1>2. /\ "library" \in Tables /\ "groups" \in Tables /\ "users" \in Tables
      /\ "key share" \in Modes
  BY DEF Tables, Modes
<1>3. /\ IsLock(a, "library", "key share")
      /\ IsLock(b, "groups", "key share")
      /\ IsLock(c, "users", "key share")
  BY <1>1, <1>2, AskIs
<1> HIDE DEF a, b, c
<1>4. Below(a.row, b.row) /\ Below(b.row, c.row) /\ Below(a.row, c.row)
  <2>1. Below(a.row, b.row)
    BY <1>3, Ranks, RankedBelow
  <2>2. Below(b.row, c.row)
    BY <1>3, Ranks, RankedBelow
  <2>3. Below(a.row, c.row)
    BY <1>3, Ranks, RankedBelow
  <2> QED BY <2>1, <2>2, <2>3
<1>5. v \in {<<a>>, <<a, b>>, <<a, c>>, <<a, b, c>>}
  <2>1. v = <<a>> \o (IF target = GroupLibrary THEN <<b>> ELSE <<>>)
               \o (IF recovery THEN <<c>> ELSE <<>>)
    BY DEF AuthorizeLocks, a, b, c
  <2> DEFINE w(x, y) == (<<a>> \o x) \o y
  <2>2. v \in {w(<<>>, <<>>), w(<<b>>, <<>>), w(<<>>, <<c>>), w(<<b>>, <<c>>)}
    <3>1. v = w(IF target = GroupLibrary THEN <<b>> ELSE <<>>, IF recovery THEN <<c>> ELSE <<>>)
      BY <2>1
    <3> HIDE DEF w, v
    <3> QED BY <3>1
  <2>3. a \in Locks /\ b \in Locks /\ c \in Locks
    BY <1>3 DEF IsLock
  <2>4. /\ w(<<>>, <<>>) = <<a>> /\ w(<<b>>, <<>>) = <<a, b>>
        /\ w(<<>>, <<c>>) = <<a, c>> /\ w(<<b>>, <<c>>) = <<a, b, c>>
    BY <2>3, Joined
  <2> HIDE DEF w, v
  <2> QED BY <2>2, <2>4
<1> HIDE DEF v
<1>6. Climbs(v)
  BY <1>3, <1>4, <1>5, Few DEF IsLock
<1>7. \A i \in 1..Len(v) : v[i] \in {a, b, c}
  <2>1. CASE v = <<a>>
    BY <2>1
  <2>2. CASE v = <<a, b>>
    BY <2>2
  <2>3. CASE v = <<a, c>>
    BY <2>3
  <2>4. CASE v = <<a, b, c>>
    BY <2>4
  <2> QED BY <1>5, <2>1, <2>2, <2>3, <2>4
<1>8. SharesLater(v)
  <2>1. \A x \in {a, b, c} : x.mode = "key share"
    BY <1>3 DEF IsLock
  <2>2. Len(v) \in Nat
    BY <1>6 DEF Climbs
  <2>3. \A i \in 2..Len(v) : i \in 1..Len(v)
    BY <2>2
  <2> QED BY <1>7, <2>1, <2>3 DEF SharesLater
<1> QED BY <1>6, <1>8 DEF v

LEMMA BootstrapShape ==
  Climbs(BootstrapLocks) /\ Climbs(BootstrapExternalLocks) /\ SharesLater(BootstrapExternalLocks)
<1> DEFINE a == Ask("advisory", 0, "update")
           b == Ask("library", Personal(BootstrapUser), "update")
           c == Ask("users", BootstrapUser, "update")
           d == Ask("personal_libraries", BootstrapUser, "update")
           e == Ask("external_identities", BootstrapUser, "update")
           f == Ask("users", BootstrapUser, "key share")
<1>1. BootstrapUser \in Nat /\ Personal(BootstrapUser) \in Nat /\ 0 \in Nat
  BY LockAssumption
<1>2. /\ "advisory" \in Tables /\ "library" \in Tables /\ "users" \in Tables
      /\ "personal_libraries" \in Tables /\ "external_identities" \in Tables
      /\ "key share" \in Modes /\ "update" \in Modes
  BY DEF Tables, Modes
<1>3. /\ IsLock(a, "advisory", "update")
      /\ IsLock(b, "library", "update")
      /\ IsLock(c, "users", "update")
      /\ IsLock(d, "personal_libraries", "update")
      /\ IsLock(e, "external_identities", "update")
      /\ IsLock(f, "users", "key share")
  BY <1>1, <1>2, AskIs
<1>4. BootstrapLocks = <<a, b, c, d>> /\ BootstrapExternalLocks = <<e, f>>
  BY DEF BootstrapLocks, BootstrapExternalLocks
<1> HIDE DEF a, b, c, d, e, f
<1>5. /\ Below(a.row, b.row) /\ Below(b.row, c.row) /\ Below(c.row, d.row)
      /\ Below(e.row, f.row)
  <2>1. Below(a.row, b.row)
    BY <1>3, Ranks, RankedBelow
  <2>2. Below(b.row, c.row)
    BY <1>3, Ranks, RankedBelow
  <2>3. Below(c.row, d.row)
    BY <1>3, Ranks, RankedBelow
  <2>4. Below(e.row, f.row)
    BY <1>3, Ranks, RankedBelow
  <2> QED BY <2>1, <2>2, <2>3, <2>4
<1>6. Climbs(<<a, b, c, d>>) /\ Climbs(<<e, f>>)
  BY <1>3, <1>5, Few DEF IsLock
<1>7. SharesLater(<<e, f>>)
  BY <1>3, Few DEF IsLock
<1> QED BY <1>4, <1>6, <1>7

LEMMA AdminShape ==
  ASSUME NEW u \in Users, NEW s \in AdminLocks(u)
  PROVE  Climbs(s) /\ SharesLater(s)
<1> DEFINE a == Ask("api_keys", u, "no key update")
           b == Ask("users", u, "no key update")
           c == Ask("groups", GroupLibrary, "no key update")
           d == Ask("group_memberships", u, "update")
           e == Ask("api_key_group_permissions", u, "update")
<1>1. u \in Nat /\ GroupLibrary \in Nat
  BY LockAssumption
<1>2. /\ "api_keys" \in Tables /\ "users" \in Tables /\ "groups" \in Tables
      /\ "group_memberships" \in Tables /\ "api_key_group_permissions" \in Tables
      /\ "no key update" \in Modes /\ "update" \in Modes
  BY DEF Tables, Modes
<1>3. /\ IsLock(a, "api_keys", "no key update")
      /\ IsLock(b, "users", "no key update")
      /\ IsLock(c, "groups", "no key update")
      /\ IsLock(d, "group_memberships", "update")
      /\ IsLock(e, "api_key_group_permissions", "update")
  BY <1>1, <1>2, AskIs
<1>4. s \in {<<a>>, <<b>>, <<c>>, <<d, e>>}
  BY DEF AdminLocks
<1> HIDE DEF a, b, c, d, e
<1>5. Below(d.row, e.row)
  BY <1>3, Ranks, RankedBelow
<1>6. CASE s \in {<<a>>, <<b>>, <<c>>}
  BY <1>3, <1>6, Few DEF IsLock
<1>7. CASE s = <<d, e>>
  <2>1. Climbs(<<d, e>>)
    BY <1>3, <1>5, Few DEF IsLock
  <2>2. SharesLater(<<d, e>>)
    BY <1>3, Few DEF IsLock, Personals
  <2> QED BY <1>7, <2>1, <2>2
<1> QED BY <1>4, <1>6, <1>7

(* An approval holds a person's rows before it asks for a library.         *)
LEMMA CompleteShape ==
  ASSUME NEW u \in Users
  PROVE  /\ CompleteLocks(u) \in Seq(Locks) /\ Len(CompleteLocks(u)) = 4
         /\ \A i \in 1..3 : /\ CompleteLocks(u)[i].row[1] \in Personals
                            /\ CompleteLocks(u)[i].mode = "share"
         /\ SharesLater(CompleteLocks(u))
<1> DEFINE a == Ask("external_identities", u, "share")
           b == Ask("users", u, "share")
           c == Ask("personal_libraries", u, "share")
           d == Ask("library", Personal(u), "share")
<1>1. u \in Nat /\ Personal(u) \in Nat
  BY LockAssumption
<1>2. /\ "external_identities" \in Tables /\ "users" \in Tables
      /\ "personal_libraries" \in Tables /\ "library" \in Tables
      /\ "share" \in Modes
  BY DEF Tables, Modes
<1>3. /\ IsLock(a, "external_identities", "share")
      /\ IsLock(b, "users", "share")
      /\ IsLock(c, "personal_libraries", "share")
      /\ IsLock(d, "library", "share")
  BY <1>1, <1>2, AskIs
<1>4. PICK s : s = <<a, b, c, d>> /\ s = CompleteLocks(u)
  BY DEF CompleteLocks
<1> HIDE DEF a, b, c, d
<1>5. /\ s \in Seq(Locks) /\ Len(s) = 4
      /\ s[1] = a /\ s[2] = b /\ s[3] = c /\ s[4] = d
  BY <1>3, <1>4 DEF IsLock
<1>6. \A i \in 1..3 : s[i].row[1] \in Personals /\ s[i].mode = "share"
  BY <1>3, <1>5 DEF Personals, IsLock
<1>7. SharesLater(s)
  <2>1. \A i \in 2..Len(s) : s[i] \in {b, c, d}
    BY <1>5
  <2>2. \A x \in {b, c, d} : x.mode = "share"
    BY <1>3 DEF IsLock
  <2> QED BY <2>1, <2>2 DEF SharesLater
<1> QED BY <1>4, <1>5, <1>6, <1>7

(* What a registration shares, it shares with everyone who reads it.       *)
LEMMA RegisterShape ==
  ASSUME NEW target \in Libraries, NEW owners \in SUBSET Users
  PROVE  Climbs(RegisterLocks(target, owners)) /\ SharesLater(RegisterLocks(target, owners))
<1>1. PICK s : s = RegisterLocks(target, owners) /\ Within(s, 8)
  BY RegisterWithin
<1>2. s \in Seq(Locks)
  BY <1>1 DEF Within, Climbs
<1>3. \A i \in 2..Len(s) : i \in 1..Len(s)
  BY <1>2
<1>4. "library" \notin Personals
  BY DEF Personals
<1> QED BY <1>1, <1>3, <1>4 DEF Within, SharesLater

(* Every transaction but an approval climbs, and every one but the         *)
(* bootstrap waits for the rows of a person only to share them, once it    *)
(* holds anything.                                                         *)
LEMMA ProgramShape ==
  ASSUME NEW p \in Programs
  PROVE  /\ p.locks \in Seq(Locks)
         /\ p.kind # "complete" => Climbs(p.locks)
         /\ p.kind # "bootstrap" => SharesLater(p.locks)
         /\ p.kind = "complete" =>
              /\ Len(p.locks) = 4
              /\ \A i \in 1..3 : /\ p.locks[i].row[1] \in Personals
                                 /\ p.locks[i].mode = "share"
<1>1. CASE \E l \in Libraries, owners \in SUBSET Users \ {{}} :
             p = Program("register", RegisterLocks(l, owners))
  <2>1. PICK l \in Libraries, owners \in SUBSET Users :
               p = Program("register", RegisterLocks(l, owners))
    BY <1>1
  <2>2. p.kind = "register" /\ p.locks = RegisterLocks(l, owners)
    BY <2>1 DEF Program
  <2> QED BY <2>2, RegisterShape DEF Climbs
<1>2. CASE \E l \in Libraries, recovery \in BOOLEAN :
             p = Program("authorize", AuthorizeLocks(l, recovery))
  <2>1. PICK l \in Libraries, recovery \in BOOLEAN :
               p = Program("authorize", AuthorizeLocks(l, recovery))
    BY <1>2
  <2>2. p.kind = "authorize" /\ p.locks = AuthorizeLocks(l, recovery)
    BY <2>1 DEF Program
  <2> QED BY <2>2, AuthorizeShape DEF Climbs
<1>3. CASE \E u \in Users : p = Program("complete", CompleteLocks(u))
  <2>1. PICK u \in Users : p = Program("complete", CompleteLocks(u))
    BY <1>3
  <2>2. p.kind = "complete" /\ p.locks = CompleteLocks(u)
    BY <2>1 DEF Program
  <2> QED BY <2>2, CompleteShape
<1>4. CASE p \in {Program("bootstrap", BootstrapLocks),
                  Program("external", BootstrapExternalLocks)}
  <2>1. \/ p.kind = "bootstrap" /\ p.locks = BootstrapLocks
        \/ p.kind = "external" /\ p.locks = BootstrapExternalLocks
    BY <1>4 DEF Program
  <2> QED BY <2>1, BootstrapShape DEF Climbs
<1>5. CASE \E l \in Libraries : p = Program("write", WriteLocks(l))
  <2>1. PICK l \in Libraries : p = Program("write", WriteLocks(l))
    BY <1>5
  <2>2. p.kind = "write" /\ p.locks = <<Ask("library", l, "update")>>
    BY <2>1 DEF Program, WriteLocks
  <2>3. l \in Nat /\ "library" \in Tables /\ "update" \in Modes
    BY LockAssumption DEF Libraries, Tables, Modes
  <2>4. Ask("library", l, "update") \in Locks
    BY <2>3, AskSays
  <2> QED BY <2>2, <2>4, Few DEF Climbs
<1>6. CASE p \in {Program("admin", s) : s \in UNION {AdminLocks(u) : u \in Users}}
  <2>1. PICK s \in UNION {AdminLocks(u) : u \in Users} : p = Program("admin", s)
    BY <1>6
  <2>2. PICK u \in Users : s \in AdminLocks(u)
    OBVIOUS
  <2>3. p.kind = "admin" /\ p.locks = s
    BY <2>1 DEF Program
  <2> QED BY <2>2, <2>3, AdminShape DEF Climbs
<1> DEFINE A == {Program("register", RegisterLocks(l, owners)) :
                   l \in Libraries, owners \in SUBSET Users \ {{}}}
           B == {Program("authorize", AuthorizeLocks(l, recovery)) :
                   l \in Libraries, recovery \in BOOLEAN}
           C == {Program("complete", CompleteLocks(u)) : u \in Users}
           D == {Program("bootstrap", BootstrapLocks),
                 Program("external", BootstrapExternalLocks)}
           E == {Program("write", WriteLocks(l)) : l \in Libraries}
           F == {Program("admin", s) : s \in UNION {AdminLocks(u) : u \in Users}}
<1>7. Programs = A \cup B \cup C \cup D \cup E \cup F
  BY DEF Programs
<1> HIDE DEF A, B, C, D, E, F
<1>8. p \in A \/ p \in B \/ p \in C \/ p \in D \/ p \in E \/ p \in F
  BY <1>7
<1>9. CASE p \in A
  BY <1>1, <1>9 DEF A
<1>10. CASE p \in B
  BY <1>2, <1>10 DEF B
<1>11. CASE p \in C
  BY <1>3, <1>11 DEF C
<1>12. CASE p \in E
  BY <1>5, <1>12 DEF E
<1> QED BY <1>4, <1>6, <1>8, <1>9, <1>10, <1>11, <1>12 DEF D, F

---------------------------------------------------------------------------
(* The transactions, the locks they hold and the users they wait for keep  *)
(* their types whatever the order in which the database runs them.         *)
THEOREM TypeCorrect == Spec => []TypeOK
<1>1. Init => TypeOK
  <2>1. \A p \in Programs : Len(p.locks) \in Nat
    BY ProgramShape
  <2> QED BY <2>1 DEF Init, TypeOK
<1>2. TypeOK /\ [Next]_vars => TypeOK'
  <2> SUFFICES ASSUME TypeOK, [Next]_vars PROVE TypeOK'
    OBVIOUS
  <2>1. ASSUME NEW t \in Transactions, Take(t) PROVE TypeOK'
    <3>1. Len(program[t].locks) \in Nat
      BY ProgramShape DEF TypeOK
    <3>2. taken[t] \in Nat /\ taken[t] <= Len(program[t].locks) /\ taken[t] # Len(program[t].locks)
      BY <2>1, <3>1 DEF TypeOK, Take, Complete
    <3>3. taken[t] + 1 \in 0..Len(program[t].locks)
      BY <3>1, <3>2
    <3> QED BY <2>1, <3>3 DEF TypeOK, Take, Taken
  <2>2. ASSUME NEW t \in Transactions, End(t) \/ Rollback(t) \/ DetectDeadlock(t) PROVE TypeOK'
    BY <2>2 DEF TypeOK, End, Rollback, DetectDeadlock
  <2>3. CASE UNCHANGED vars
    BY <2>3 DEF TypeOK, vars
  <2> QED BY <2>1, <2>2, <2>3 DEF Next
<1> QED BY <1>1, <1>2, PTL DEF Spec

---------------------------------------------------------------------------
LEMMA ModesOf ==
  \A m \in {"share", "key share"} : <<"share", m>> \in Compatible
BY DEF Compatible

(* Who waits has a next lock to ask for.                                   *)
LEMMA Waiting ==
  ASSUME TypeOK, NEW t \in Transactions, ~Complete(t)
  PROVE  /\ taken[t] \in Nat /\ taken[t] + 1 \in 1..Len(program[t].locks)
         /\ Wants(t) \in Locks
<1>1. program[t].locks \in Seq(Locks)
  BY ProgramShape DEF TypeOK
<1>2. taken[t] \in 0..Len(program[t].locks) /\ taken[t] # Len(program[t].locks)
  BY DEF TypeOK, Complete
<1>3. taken[t] + 1 \in 1..Len(program[t].locks)
  BY <1>1, <1>2
<1> QED BY <1>1, <1>2, <1>3 DEF Wants

(* Transactions that climb do not wait for one another in a cycle: the     *)
(* highest of the rows they wait for is held by one that waits for a       *)
(* higher one.                                                             *)
LEMMA NoClosedClimb ==
  ASSUME TypeOK, NEW V \in SUBSET Transactions, V # {},
         \A t \in V : program[t].kind # "complete",
         \A t \in V : \E s \in V : Blocks(s, t)
  PROVE  FALSE
<1>1. \A t \in V : ~Complete(t)
  BY DEF Blocks
<1>2. \A t \in V : /\ Wants(t) \in Locks
                   /\ taken[t] \in Nat /\ taken[t] + 1 \in 1..Len(program[t].locks)
                   /\ Climbs(program[t].locks)
  BY <1>1, Waiting, ProgramShape DEF TypeOK
<1> DEFINE R == {Wants(t).row : t \in V}
           order == {p \in R \X R : Below(p[1], p[2])}
<1>3. R \in SUBSET (Tables \X Nat) /\ R # {}
  BY <1>2 DEF Locks
<1>4. IsFiniteSet(R)
  <2>1. [t \in V |-> Wants(t).row] \in Surjection(V, R)
    BY DEF Surjection
  <2>2. IsFiniteSet(V)
    BY LockAssumption, FS_Subset
  <2> HIDE DEF R
  <2> QED BY <2>1, <2>2, FS_Surjection
<1>5. Orders(order, R)
  <2> HIDE DEF R
  <2> QED BY <1>3, BelowOrders
<1>6. PICK m \in R : \A x \in R \ {m} : <<x, m>> \in order
  <2> HIDE DEF R, order
  <2> QED BY <1>3, <1>4, <1>5, GreatestExists
<1>7. PICK t \in V : Wants(t).row = m
  OBVIOUS
<1>8. PICK s \in V : Blocks(s, t)
  OBVIOUS
<1>9. PICK i \in 1..taken[s] : program[s].locks[i].row = m
  BY <1>7, <1>8 DEF Blocks, Held
<1>10. Below(m, Wants(s).row)
  <2>1. i \in 1..Len(program[s].locks) /\ i < taken[s] + 1
    <3>1. Len(program[s].locks) \in Nat
      BY <1>2 DEF Climbs
    <3> QED BY <1>2, <1>9, <3>1
  <2>2. Below(program[s].locks[i].row, program[s].locks[taken[s] + 1].row)
    BY <1>2, <2>1 DEF Climbs
  <2> QED BY <1>9, <2>2 DEF Wants
<1>11. PICK h : h = Wants(s).row /\ h \in R
  OBVIOUS
<1> HIDE DEF R
<1>12. <<m, h>> \in order
  BY <1>10, <1>11
<1>13. CASE h = m
  BY <1>5, <1>12, <1>13 DEF Orders
<1>14. CASE h # m
  <2>1. <<h, m>> \in order
    BY <1>6, <1>11, <1>14
  <2> HIDE DEF order
  <2>2. <<m, m>> \in order
    BY <1>5, <1>11, <1>12, <2>1 DEF Orders
  <2> QED BY <1>5, <2>2 DEF Orders
<1> QED BY <1>13, <1>14

LEMMA StartOnly == TypeOK => DeadlocksOnlyAtStart
<1> SUFFICES ASSUME TypeOK, NEW T \in SUBSET Transactions, Deadlocked(T)
             PROVE  {"bootstrap", "complete"} \subseteq {program[t].kind : t \in T}
  BY DEF DeadlocksOnlyAtStart
<1>1. T # {} /\ \A t \in T : \E s \in T : Blocks(s, t)
  BY DEF Deadlocked
<1>2. ASSUME \A t \in T : program[t].kind # "complete" PROVE FALSE
  BY <1>1, <1>2, NoClosedClimb
<1>3. ASSUME \A t \in T : program[t].kind # "bootstrap" PROVE FALSE
  <2> DEFINE W == {s \in T : \E t \in T : Blocks(s, t)}
             V == {s \in W : \E t \in W : Blocks(s, t)}
  <2>1. V \in SUBSET Transactions /\ V \subseteq T /\ V \subseteq W
    OBVIOUS
  <2>2. V # {}
    <3>1. PICK t \in T : TRUE
      BY <1>1
    <3>2. PICK s \in T : Blocks(s, t)
      BY <1>1
    <3>3. PICK r \in T : Blocks(r, s)
      BY <1>1
    <3> QED BY <3>2, <3>3
  <2>3. \A t \in V : \E s \in V : Blocks(s, t)
    <3> TAKE t \in V
    <3>1. PICK s \in T : Blocks(s, t)
      BY <1>1
    <3> QED BY <3>1
  <2>4. ASSUME NEW s \in V, program[s].kind = "complete" PROVE FALSE
    <3>1. PICK t \in W : Blocks(s, t)
      OBVIOUS
    <3>2. PICK u \in T : Blocks(t, u)
      OBVIOUS
    <3>3. PICK j \in 1..taken[t] : TRUE
      BY <3>2 DEF Blocks, Held
    <3>4. ~Complete(t) /\ ~Complete(s)
      <4>1. PICK r \in T : Blocks(r, s)
        BY <1>1
      <4> QED BY <3>1, <4>1 DEF Blocks
    <3>5. /\ taken[t] \in Nat /\ taken[t] + 1 \in 1..Len(program[t].locks)
          /\ taken[s] \in Nat /\ taken[s] + 1 \in 1..Len(program[s].locks)
          /\ Wants(t) \in Locks /\ Len(program[t].locks) \in Nat
      BY <3>4, Waiting, ProgramShape DEF TypeOK
    <3>6. taken[t] + 1 \in 2..Len(program[t].locks)
      BY <3>3, <3>5
    <3>7. PICK i \in 1..taken[s] :
            /\ program[s].locks[i].row = Wants(t).row
            /\ <<program[s].locks[i].mode, Wants(t).mode>> \notin Compatible
      BY <3>1 DEF Blocks, Held
    <3>8. program[s] \in Programs /\ program[t] \in Programs
      BY DEF TypeOK
    <3>9. Len(program[s].locks) = 4
      BY <2>4, <3>8, ProgramShape
    <3>10. i \in 1..3
      BY <3>5, <3>9
    <3>11. program[s].locks[i].row[1] \in Personals /\ program[s].locks[i].mode = "share"
      BY <2>4, <3>8, <3>10, ProgramShape
    <3>12. SharesLater(program[t].locks)
      BY <1>3, <3>8, ProgramShape
    <3>13. Wants(t).mode \in {"share", "key share"}
      BY <3>6, <3>7, <3>11, <3>12 DEF SharesLater, Wants
    <3> QED BY <3>7, <3>11, <3>13, ModesOf
  <2> HIDE DEF V
  <2> QED BY <2>1, <2>2, <2>3, <2>4, NoClosedClimb
<1> QED BY <1>2, <1>3

(* The rows are locked in one order by all but the approvals of logins, and *)
(* what an approval holds while it waits is contended only by a bootstrap. *)
THEOREM OnlyStartsDeadlock == Spec => []DeadlocksOnlyAtStart
BY TypeCorrect, StartOnly, PTL
=============================================================================
