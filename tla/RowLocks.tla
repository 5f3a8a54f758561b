------------------------------ MODULE RowLocks ------------------------------
(***************************************************************************)
(* The order in which the server's transactions lock rows.                 *)
(*                                                                         *)
(* A transaction is the sequence of row locks it asks for, with their      *)
(* modes, in statement order; it holds what it took until it ends.  The    *)
(* module composes every transaction of the server that takes more than    *)
(* one lock, the library writes that contend with them, and the changes    *)
(* an administrator makes.  PostgreSQL is external: its lock modes and its *)
(* deadlock detector are modelled from how the code uses them.             *)
(*                                                                         *)
(* Left out are the rows a transaction locks before any other and that no  *)
(* other transaction locks later than first, the upload's and the login    *)
(* session's: who waits for one of them holds nothing.                     *)
(***************************************************************************)
EXTENDS Naturals, Sequences, FiniteSets, Sorting

CONSTANTS
  Transactions,   \* database connections, one transaction each
  Users,          \* user ids
  Personal(_),    \* the personal library of a user, by id
  GroupLibrary,   \* the id of the group's library
  GroupOwner,     \* the user who owns the group
  BootstrapUser   \* config.user_id

ASSUME LockAssumption ==
  /\ IsFiniteSet(Transactions) /\ IsFiniteSet(Users)
  /\ Users \subseteq Nat
  /\ \A u \in Users : Personal(u) \in Nat
  /\ GroupLibrary \in Nat \ {Personal(u) : u \in Users}
  /\ GroupOwner \in Users /\ BootstrapUser \in Users

Libraries == {Personal(u) : u \in Users} \cup {GroupLibrary}

(* PostgreSQL's row lock modes, and the pairs two transactions may hold.   *)
Modes == {"key share", "share", "no key update", "update"}
Compatible ==
  ({"key share"} \X {"key share", "share", "no key update"})
    \cup ({"share"} \X {"key share", "share"})
    \cup {<<"no key update", "key share">>}

Ask(table, id, mode) == [row |-> <<table, id>>, mode |-> mode]

(* `where id = any(..) order by id for share`                              *)
ShareAll(table, ids) ==
  LET s == Ascending(ids) IN [i \in 1..Len(s) |-> Ask(table, s[i], "share")]

---------------------------------------------------------------------------
(* The server's transactions.                                              *)

(* store/files.rs register_file: the libraries by id, then the rows that   *)
(* entitle the owners of the two credentials, with the flags of a key      *)
(* taken together with the key.                                            *)
MutantLibraryLocks(target, owners) ==    \* mutant: the upload's library first
  <<Ask("library", target, "update")>>
    \o ShareAll("library", {Personal(u) : u \in owners} \ {target})

LibraryLocks(target, owners) ==
  LET s == Ascending({target} \cup {Personal(u) : u \in owners}) IN
  [i \in 1..Len(s) |-> Ask("library", s[i], IF s[i] = target THEN "update" ELSE "share")]

RegisterLocks(target, owners) ==
  LET grouped == target = GroupLibrary IN
  LibraryLocks(target, owners)
    \o (IF grouped THEN <<Ask("groups", target, "share")>> ELSE <<>>)
    \o ShareAll("users", IF grouped THEN owners \cup {GroupOwner} ELSE owners)
    \o ShareAll("personal_libraries", owners)
    \o ShareAll("api_keys", owners)
    \o (IF grouped THEN ShareAll("group_memberships", owners)
                          \o ShareAll("api_key_group_permissions", owners)
        ELSE <<>>)

(* store/files.rs create_pending_upload: one insert, whose foreign keys    *)
(* lock the library, the group and the recovery key's user.                *)
AuthorizeLocks(target, recovery) ==
  <<Ask("library", target, "key share")>>
    \o (IF target = GroupLibrary THEN <<Ask("groups", target, "key share")>> ELSE <<>>)
    \o (IF recovery THEN <<Ask("users", BootstrapUser, "key share")>> ELSE <<>>)

(* store/sessions.rs complete_login_session: one statement locks the four  *)
(* joined rows in the order it names them.                                 *)
CompleteLocks(u) ==
  <<Ask("external_identities", u, "share"),
    Ask("users", u, "share"),
    Ask("personal_libraries", u, "share"),
    Ask("library", Personal(u), "share")>>

(* store/identity.rs bootstrap_identity, after the advisory lock, and      *)
(* bootstrap_external_identity, whose insert refers to the user.           *)
BootstrapLocks ==
  <<Ask("advisory", 0, "update"),
    Ask("library", Personal(BootstrapUser), "update"),
    Ask("users", BootstrapUser, "update"),
    Ask("personal_libraries", BootstrapUser, "update")>>

BootstrapExternalLocks ==
  <<Ask("external_identities", BootstrapUser, "update"),
    Ask("users", BootstrapUser, "key share")>>

(* store/mod.rs guarded_version: a library write.                          *)
WriteLocks(library) == <<Ask("library", library, "update")>>

(* Administration: a key revoked, a user disabled, a group's policy, a     *)
(* member removed with the grants that cascade.                            *)
AdminLocks(u) ==
  {<<Ask("api_keys", u, "no key update")>>,
   <<Ask("users", u, "no key update")>>,
   <<Ask("groups", GroupLibrary, "no key update")>>,
   <<Ask("group_memberships", u, "update"),
     Ask("api_key_group_permissions", u, "update")>>}

Program(kind, locks) == [kind |-> kind, locks |-> locks]

Programs ==
  {Program("register", RegisterLocks(l, owners)) :
     l \in Libraries, owners \in SUBSET Users \ {{}}}
    \cup {Program("authorize", AuthorizeLocks(l, recovery)) :
            l \in Libraries, recovery \in BOOLEAN}
    \cup {Program("complete", CompleteLocks(u)) : u \in Users}
    \cup {Program("bootstrap", BootstrapLocks),
          Program("external", BootstrapExternalLocks)}
    \cup {Program("write", WriteLocks(l)) : l \in Libraries}
    \cup {Program("admin", s) : s \in UNION {AdminLocks(u) : u \in Users}}

---------------------------------------------------------------------------
VARIABLES
  program,   \* what each transaction asks for
  taken,     \* how many of its locks it holds
  ended      \* the transactions that have committed or rolled back

vars == <<program, taken, ended>>

Held(t) ==
  IF t \in ended THEN {} ELSE {program[t].locks[i] : i \in 1..taken[t]}

Wants(t) == program[t].locks[taken[t] + 1]
Complete(t) == taken[t] = Len(program[t].locks)

Blocks(s, t) ==
  /\ s # t /\ t \notin ended /\ ~Complete(t)
  /\ \E lock \in Held(s) : lock.row = Wants(t).row
                             /\ <<lock.mode, Wants(t).mode>> \notin Compatible

(* Transactions that wait for one another and for nobody else to act.      *)
Deadlocked(T) == T # {} /\ \A t \in T : \E s \in T : Blocks(s, t)

Init ==
  /\ program \in [Transactions -> Programs]
  /\ taken = [t \in Transactions |-> 0]
  /\ ended = {}

MutantTaken(t) == taken[t] + 2      \* mutant: a lock is skipped
Taken(t) == taken[t] + 1

Take(t) ==
  /\ t \notin ended /\ ~Complete(t)
  /\ ~\E s \in Transactions : Blocks(s, t)
  /\ taken' = [taken EXCEPT ![t] = Taken(t)]
  /\ UNCHANGED <<program, ended>>

(* Commit, once everything is locked.                                      *)
End(t) ==
  /\ t \notin ended /\ Complete(t)
  /\ ended' = ended \cup {t}
  /\ UNCHANGED <<program, taken>>

(* An early return, a lost connection or a failed statement: a rollback.   *)
Rollback(t) ==
  /\ t \notin ended
  /\ ~\E s \in Transactions : Blocks(s, t)
  /\ ended' = ended \cup {t}
  /\ UNCHANGED <<program, taken>>

(* The database ends one of the transactions of a cycle with an error.     *)
DetectDeadlock(t) ==
  /\ \E T \in SUBSET Transactions : t \in T /\ Deadlocked(T)
  /\ ended' = ended \cup {t}
  /\ UNCHANGED <<program, taken>>

Next ==
  \E t \in Transactions : Take(t) \/ End(t) \/ Rollback(t) \/ DetectDeadlock(t)

Spec == Init /\ [][Next]_vars

---------------------------------------------------------------------------
TypeOK ==
  /\ program \in [Transactions -> Programs]
  /\ taken \in [Transactions -> Nat]
  /\ \A t \in Transactions : taken[t] \in 0..Len(program[t].locks)
  /\ ended \subseteq Transactions

(* Registrations, library writes, login approvals and administration can   *)
(* never wait for one another in a cycle, whatever identities they         *)
(* discover (store/files.rs:182, "rather than acquiring an earlier library *)
(* lock out of order").  The one cycle the code admits is a replica that   *)
(* starts, holding the bootstrap library and waiting for its user, against *)
(* the approval of that user's login, which locks the two in the other     *)
(* order.                                                                  *)
DeadlocksOnlyAtStart ==
  \A T \in SUBSET Transactions : Deadlocked(T) =>
    {"bootstrap", "complete"} \subseteq {program[t].kind : t \in T}
=============================================================================
