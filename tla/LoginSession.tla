---------------------------- MODULE LoginSession ----------------------------
(***************************************************************************)
(* Browser login: store/sessions.rs and handlers/login.rs.                 *)
(*                                                                         *)
(* A desktop client opens a session and polls it; a browser approves or    *)
(* cancels it.  Approvals, cancellations, polls and the purge of abandoned *)
(* sessions run at once, lose their connection anywhere, and meet sessions *)
(* that expire while they wait for the row.  The key a session yields is   *)
(* derived from its token, so a session stands for its key as well.        *)
(***************************************************************************)
EXTENDS FiniteSets, Naturals

CONSTANTS
  Sessions,     \* session tokens; each is drawn once
  Handlers,     \* requests that approve or cancel
  Users,
  Identities,   \* (issuer, subject) pairs in external_identities
  NoUser,
  None,         \* no session, no handler
  MaxChanges    \* bound: administrative changes in a behaviour

ASSUME LoginAssumption ==
  /\ NoUser \notin Users
  /\ MaxChanges \in Nat

VARIABLES
  status,      \* login_sessions.status, "missing" without a row
  age,         \* of the session: "fresh", "expired" (15 minutes), "old" (a day)
  owner,       \* login_sessions.user_id
  drawn,       \* the tokens that have been drawn
  minted,      \* api_keys: the (session, user) pairs a key was inserted for
  identity,    \* external_identities: who an identity belongs to
  active,      \* the users that are not disabled
  handler,     \* per handler: its transaction
  client,      \* the sessions whose client has been given the key
  changes

session == <<status, age, owner, drawn, minted>>
people == <<identity, active, changes>>
vars == <<session, people, handler, client>>

Idle == [stage |-> "idle", kind |-> "cancel", session |-> None, identity |-> None,
         inTime |-> FALSE, user |-> NoUser]

Init ==
  /\ status = [s \in Sessions |-> "missing"]
  /\ age = [s \in Sessions |-> "fresh"]
  /\ owner = [s \in Sessions |-> NoUser]
  /\ drawn = {}
  /\ minted = {}
  /\ identity \in [Identities -> Users]
  /\ active = Users
  /\ handler = [h \in Handlers |-> Idle]
  /\ client = {}
  /\ changes = 0

(* The handlers that hold the session's row, the identity's and its user's. *)
HoldsSession(h, s) == handler[h].stage \in {"locked", "resolved"} /\ handler[h].session = s
SessionFree(s) == \A h \in Handlers : ~HoldsSession(h, s)
Resolved(h) == handler[h].stage = "resolved"
MutantIdentityFree(i) == TRUE      \* mutant: the identity is read without a lock
IdentityFree(i) == \A h \in Handlers : ~(Resolved(h) /\ handler[h].identity = i)
UserFree(u) == \A h \in Handlers : ~(Resolved(h) /\ handler[h].user = u)

---------------------------------------------------------------------------
(* create_login_session: purge what was abandoned a day ago, then insert.  *)
Abandoned ==
  {s \in Sessions : age[s] = "old" /\ status[s] \in {"pending", "cancelled"}}

Create(s) ==
  /\ s \notin drawn
  /\ \A a \in Abandoned : SessionFree(a)
  /\ drawn' = drawn \cup {s}
  /\ status' = [x \in Sessions |->
       IF x = s THEN "pending" ELSE IF x \in Abandoned THEN "missing" ELSE status[x]]
  /\ UNCHANGED <<age, owner, minted, people, handler, client>>

(* The transaction starts: now() is fixed here, before any wait for a row. *)
Begin(h, kind, s, i) ==
  /\ handler[h] = Idle
  /\ s \in drawn
  /\ handler' = [handler EXCEPT ![h] =
       [stage |-> "begun", kind |-> kind, session |-> s, identity |-> i,
        inTime |-> age[s] = "fresh", user |-> NoUser]]
  /\ UNCHANGED <<session, people, client>>

Leave(h) == handler' = [handler EXCEPT ![h] = Idle]

(* `select .. for update`, and the early returns: missing, conflict, late. *)
MutantOpenTo(h) == handler[h].inTime      \* mutant: the status is not read again
OpenTo(h) == status[handler[h].session] = "pending" /\ handler[h].inTime

LockSession(h) ==
  /\ handler[h].stage = "begun"
  /\ SessionFree(handler[h].session)
  /\ IF OpenTo(h) THEN handler' = [handler EXCEPT ![h].stage = "locked"] ELSE Leave(h)
  /\ UNCHANGED <<session, people, client>>

Cancel(h) ==
  /\ handler[h].stage = "locked" /\ handler[h].kind = "cancel"
  /\ status' = [status EXCEPT ![handler[h].session] = "cancelled"]
  /\ Leave(h)
  /\ UNCHANGED <<age, owner, drawn, minted, people, client>>

(* The identity's user, active, with both rows locked in share mode; or    *)
(* nobody, and the approval is refused.                                    *)
Resolve(h) ==
  /\ handler[h].stage = "locked" /\ handler[h].kind = "approve"
  /\ LET u == identity[handler[h].identity] IN
       IF u \in active
       THEN handler' = [handler EXCEPT ![h].stage = "resolved", ![h].user = u]
       ELSE Leave(h)
  /\ UNCHANGED <<session, people, client>>

(* The key, its permissions and the completed session, in one commit.      *)
MutantOwned(s, u) == owner      \* mutant: the session does not record its user
Owned(s, u) == [owner EXCEPT ![s] = u]

Approve(h) ==
  /\ Resolved(h)
  /\ LET s == handler[h].session
         u == handler[h].user
     IN /\ minted' = minted \cup {<<s, u>>}
        /\ status' = [status EXCEPT ![s] = "completed"]
        /\ owner' = Owned(s, u)
  /\ Leave(h)
  /\ UNCHANGED <<age, drawn, people, client>>

(* The connection is lost or a statement fails: a rollback.                *)
Rollback(h) ==
  /\ handler[h] # Idle
  /\ Leave(h)
  /\ UNCHANGED <<session, people, client>>

(* check_session: one statement; the key is derived again from the token.  *)
MutantHandsKey(s) == status[s] # "missing"      \* mutant: the key before the approval
HandsKey(s) == status[s] = "completed"

Poll(s) ==
  /\ HandsKey(s)
  /\ client' = client \cup {s}
  /\ UNCHANGED <<session, people, handler>>

---------------------------------------------------------------------------
Ages == <<"fresh", "expired", "old">>

GrowOlder(s) ==
  /\ s \in drawn
  /\ \E i \in 1..2 : age[s] = Ages[i] /\ age' = [age EXCEPT ![s] = Ages[i + 1]]
  /\ UNCHANGED <<status, owner, drawn, minted, people, handler, client>>

(* Administration: an identity is linked to another user, a user disabled  *)
(* or enabled; each waits for the rows an approval holds.                  *)
Relink(i, u) ==
  /\ changes < MaxChanges
  /\ IdentityFree(i)
  /\ identity[i] # u
  /\ identity' = [identity EXCEPT ![i] = u]
  /\ changes' = changes + 1
  /\ UNCHANGED <<session, active, handler, client>>

Toggle(u) ==
  /\ changes < MaxChanges
  /\ UserFree(u)
  /\ active' = IF u \in active THEN active \ {u} ELSE active \cup {u}
  /\ changes' = changes + 1
  /\ UNCHANGED <<session, identity, handler, client>>

Next ==
  \/ \E s \in Sessions : Create(s) \/ Poll(s) \/ GrowOlder(s)
  \/ \E h \in Handlers :
       \/ \E kind \in {"approve", "cancel"}, s \in Sessions, i \in Identities :
            Begin(h, kind, s, i)
       \/ LockSession(h) \/ Cancel(h) \/ Resolve(h) \/ Approve(h) \/ Rollback(h)
  \/ \E i \in Identities, u \in Users : Relink(i, u)
  \/ \E u \in Users : Toggle(u)

Spec == Init /\ [][Next]_vars

---------------------------------------------------------------------------
(* Types, and the table's check on completed sessions.                     *)
TypeOK ==
  /\ status \in [Sessions -> {"missing", "pending", "completed", "cancelled"}]
  /\ age \in [Sessions -> {"fresh", "expired", "old"}]
  /\ owner \in [Sessions -> Users \cup {NoUser}]
  /\ drawn \subseteq Sessions
  /\ minted \subseteq Sessions \X Users
  /\ identity \in [Identities -> Users]
  /\ active \subseteq Users
  /\ handler \in [Handlers ->
       [stage : {"idle", "begun", "locked", "resolved"}, kind : {"approve", "cancel"},
        session : Sessions \cup {None}, identity : Identities \cup {None},
        inTime : BOOLEAN, user : Users \cup {NoUser}]]
  /\ client \subseteq Sessions
  /\ changes \in 0..MaxChanges
  /\ \A s \in Sessions : status[s] = "completed" <=> owner[s] # NoUser

(* Keys and sessions agree: a session has a key exactly when it is         *)
(* completed, one key, and of the user the session names.  Two approvals,  *)
(* an approval and a cancellation, or a purge between them never leave a   *)
(* key without its session or a second key.                                *)
OneKeyPerSession ==
  minted = {<<s, owner[s]>> : s \in {x \in Sessions : status[x] = "completed"}}

(* An approval mints for the user its identity belongs to at that moment,  *)
(* who is active (store/sessions.rs:125, "Relinking or disabling cannot    *)
(* race approval and mint for a stale user").                              *)
MintsForCurrentUser ==
  [][\A h \in Handlers : Approve(h) =>
       /\ identity[handler[h].identity] = handler[h].user
       /\ handler[h].user \in active]_vars

(* The session, seen as a grant.                                           *)
Grant == [s \in Sessions |->
  IF s \notin drawn THEN "unborn"
  ELSE IF status[s] = "pending" THEN "open"
  ELSE IF status[s] = "completed" THEN owner[s] ELSE "closed"]

Promise == INSTANCE LoginGrant WITH grant <- Grant

(* The sessions, their locks, retries and purges implement a one-time      *)
(* grant, and polling hands out no key before it.                          *)
ImplementsLoginGrant == Promise!Spec
=============================================================================
