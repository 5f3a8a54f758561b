------------------------ MODULE LoginSession_proofs ------------------------
(***************************************************************************)
(* Proof that a login session is a one-time grant and yields one key, for  *)
(* any number of sessions, handlers, users and identities.                 *)
(***************************************************************************)
EXTENDS LoginSession, TLAPS

(* What a handler holds: a session that is open, alone; and, once it has   *)
(* resolved the user, an identity that is that user's, who is active.      *)
HandlersSound ==
  \A h \in Handlers :
    /\ handler[h].stage # "idle" =>
         /\ handler[h].session \in drawn
         /\ handler[h].identity \in Identities
    /\ handler[h].stage \in {"locked", "resolved"} =>
         /\ status[handler[h].session] = "pending"
         /\ \A g \in Handlers :
              handler[g].stage \in {"locked", "resolved"}
                /\ handler[g].session = handler[h].session => g = h
    /\ handler[h].stage = "resolved" =>
         /\ handler[h].user \in active
         /\ identity[handler[h].identity] = handler[h].user

(* A session that was never opened has no row, and a client has a key only *)
(* of a completed one.                                                     *)
SessionsSound ==
  /\ \A s \in Sessions : s \notin drawn => status[s] = "missing"
  /\ \A s \in client : status[s] = "completed"

IInv == TypeOK /\ OneKeyPerSession /\ HandlersSound /\ SessionsSound

LEMMA InitInvariant == Init => IInv
<1> SUFFICES ASSUME Init PROVE IInv
  OBVIOUS
<1>1. \A h \in Handlers : handler[h] = Idle
  BY DEF Init
<1>2. TypeOK
  <2>1. Idle \in [stage : {"idle", "begun", "locked", "resolved"},
                  kind : {"approve", "cancel"}, session : Sessions \cup {None},
                  identity : Identities \cup {None}, inTime : BOOLEAN,
                  user : Users \cup {NoUser}]
    BY DEF Idle
  <2>2. handler \in [Handlers -> {Idle}]
    BY DEF Init
  <2> QED BY <2>1, <2>2, LoginAssumption DEF Init, TypeOK
<1>3. OneKeyPerSession
  BY DEF Init, OneKeyPerSession
<1>4. HandlersSound
  BY <1>1 DEF HandlersSound, Idle
<1>5. SessionsSound
  BY DEF Init, SessionsSound
<1> QED BY <1>2, <1>3, <1>4, <1>5 DEF IInv

HandlerType ==
  [stage : {"idle", "begun", "locked", "resolved"}, kind : {"approve", "cancel"},
   session : Sessions \cup {None}, identity : Identities \cup {None},
   inTime : BOOLEAN, user : Users \cup {NoUser}]

(* A handler that goes away takes nothing of the invariant with it.        *)
LEMMA LeaveKeeps ==
  ASSUME IInv, NEW h \in Handlers, Leave(h)
  PROVE  /\ handler' \in [Handlers -> HandlerType]
         /\ handler'[h].stage = "idle"
         /\ \A g \in Handlers \ {h} : handler'[g] = handler[g]
<1>1. Idle \in HandlerType /\ Idle.stage = "idle"
  BY DEF Idle, HandlerType
<1> QED BY <1>1 DEF Leave, IInv, TypeOK, HandlerType

LEMMA NextInvariant == IInv /\ [Next]_vars => IInv'
<1> SUFFICES ASSUME IInv, [Next]_vars PROVE IInv'
  OBVIOUS
<1> USE DEF IInv
<1>1. ASSUME NEW s \in Sessions, Create(s) PROVE IInv'
  <2>1. /\ s \notin drawn /\ drawn' = drawn \cup {s}
        /\ status' = [x \in Sessions |->
             IF x = s THEN "pending" ELSE IF x \in Abandoned THEN "missing" ELSE status[x]]
        /\ UNCHANGED <<age, owner, minted, identity, active, changes, handler, client>>
    BY <1>1 DEF Create, people
  <2>2. \A a \in Abandoned : /\ SessionFree(a)
                             /\ status[a] \in {"pending", "cancelled"}
    BY <1>1 DEF Create, Abandoned
  <2>3. \A x \in Sessions : status'[x] = "completed" <=> status[x] = "completed"
    BY <2>1, <2>2 DEF SessionsSound
  <2>4. TypeOK'
    BY <2>1, <2>3 DEF TypeOK
  <2>5. OneKeyPerSession'
    BY <2>1, <2>3 DEF OneKeyPerSession
  <2>6. SessionsSound'
    BY <2>1, <2>3 DEF SessionsSound, TypeOK
  <2>7. ASSUME NEW h \in Handlers, handler[h].stage \in {"locked", "resolved"}
        PROVE status'[handler[h].session] = "pending"
    <3>1. handler[h].session \in drawn /\ handler[h].session \in Sessions
      BY <2>7 DEF HandlersSound, TypeOK
    <3>2. handler[h].session \notin Abandoned
      BY <2>2, <2>7 DEF SessionFree, HoldsSession
    <3> QED BY <2>1, <2>7, <3>1, <3>2 DEF HandlersSound
  <2>8. HandlersSound'
    BY <2>1, <2>7 DEF HandlersSound
  <2> QED BY <2>4, <2>5, <2>6, <2>8
<1>2. ASSUME NEW s \in Sessions, Poll(s) PROVE IInv'
  BY <1>2 DEF Poll, HandsKey, session, people, TypeOK, OneKeyPerSession, HandlersSound,
              SessionsSound
<1>3. ASSUME NEW s \in Sessions, GrowOlder(s) PROVE IInv'
  <2>1. age' \in [Sessions -> {"fresh", "expired", "old"}]
    BY <1>3 DEF GrowOlder, Ages, TypeOK
  <2> QED BY <1>3, <2>1 DEF GrowOlder, people, TypeOK, OneKeyPerSession, HandlersSound,
              SessionsSound
<1>4. ASSUME NEW h \in Handlers, NEW kind \in {"approve", "cancel"}, NEW s \in Sessions,
             NEW i \in Identities, Begin(h, kind, s, i)
      PROVE  IInv'
  <2> DEFINE new == [stage |-> "begun", kind |-> kind, session |-> s, identity |-> i,
                     inTime |-> age[s] = "fresh", user |-> NoUser]
  <2>1. new \in HandlerType
    <3>1. (age[s] = "fresh") \in BOOLEAN
      OBVIOUS
    <3> QED BY <3>1 DEF HandlerType
  <2>2. /\ handler' \in [Handlers -> HandlerType]
        /\ handler'[h].stage = "begun" /\ handler'[h].session = s
        /\ handler'[h].identity = i /\ s \in drawn
        /\ \A g \in Handlers \ {h} : handler'[g] = handler[g]
    BY <1>4, <2>1 DEF Begin, TypeOK, HandlerType
  <2>3. UNCHANGED <<session, people, client>>
    BY <1>4 DEF Begin
  <2>4. HandlersSound'
    BY <2>2, <2>3 DEF HandlersSound, session, people
  <2> QED BY <2>2, <2>3, <2>4 DEF session, people, TypeOK, HandlerType, OneKeyPerSession,
             SessionsSound
<1>5. ASSUME NEW h \in Handlers, LockSession(h) PROVE IInv'
  <2>1. UNCHANGED <<session, people, client>>
    BY <1>5 DEF LockSession
  <2>2. /\ handler' \in [Handlers -> HandlerType]
        /\ \A g \in Handlers \ {h} : handler'[g] = handler[g]
        /\ \/ handler'[h].stage = "idle"
           \/ /\ handler'[h].stage = "locked"
              /\ handler'[h].session = handler[h].session
              /\ handler'[h].identity = handler[h].identity
              /\ OpenTo(h)
    <3>1. CASE OpenTo(h)
      BY <1>5, <3>1 DEF LockSession, TypeOK, HandlerType
    <3>2. CASE ~OpenTo(h)
      BY <1>5, <3>2, LeaveKeeps DEF LockSession
    <3> QED BY <3>1, <3>2
  <2>3. /\ handler[h].stage = "begun"
        /\ \A g \in Handlers : handler[g].stage \in {"locked", "resolved"}
             => handler[g].session # handler[h].session
    BY <1>5 DEF LockSession, SessionFree, HoldsSession
  <2>4. HandlersSound'
    BY <2>1, <2>2, <2>3 DEF HandlersSound, OpenTo, session, people
  <2> QED BY <2>1, <2>2, <2>4 DEF session, people, TypeOK, HandlerType, OneKeyPerSession,
             SessionsSound
<1>6. ASSUME NEW h \in Handlers, Cancel(h) PROVE IInv'
  <2> DEFINE s == handler[h].session
  <2>1. /\ s \in Sessions /\ s \in drawn /\ status[s] = "pending"
        /\ \A g \in Handlers \ {h} :
             handler[g].stage \in {"locked", "resolved"} => handler[g].session # s
    BY <1>6 DEF Cancel, HandlersSound, TypeOK
  <2>2. /\ status' = [status EXCEPT ![s] = "cancelled"]
        /\ UNCHANGED <<age, owner, drawn, minted, people, client>>
    BY <1>6 DEF Cancel
  <2>3. /\ handler' \in [Handlers -> HandlerType] /\ handler'[h].stage = "idle"
        /\ \A g \in Handlers \ {h} : handler'[g] = handler[g]
    BY <1>6, LeaveKeeps DEF Cancel
  <2>4. \A x \in Sessions : status'[x] = "completed" <=> status[x] = "completed"
    BY <2>1, <2>2 DEF TypeOK
  <2>5. TypeOK'
    BY <2>1, <2>2, <2>3, <2>4 DEF TypeOK, people, HandlerType
  <2>6. OneKeyPerSession'
    BY <2>2, <2>4 DEF OneKeyPerSession
  <2>7. SessionsSound'
    BY <2>1, <2>2, <2>4 DEF SessionsSound, TypeOK
  <2>8. ASSUME NEW g \in Handlers, handler'[g].stage \in {"locked", "resolved"}
        PROVE  status'[handler[g].session] = status[handler[g].session]
    BY <2>1, <2>2, <2>3, <2>8 DEF TypeOK
  <2>9. HandlersSound'
    BY <2>2, <2>3, <2>8 DEF HandlersSound, people
  <2> QED BY <2>5, <2>6, <2>7, <2>9
<1>7. ASSUME NEW h \in Handlers, Resolve(h) PROVE IInv'
  <2> DEFINE u == identity[handler[h].identity]
  <2>1. UNCHANGED <<session, people, client>> /\ handler[h].stage = "locked"
    BY <1>7 DEF Resolve
  <2>2. /\ handler' \in [Handlers -> HandlerType]
        /\ \A g \in Handlers \ {h} : handler'[g] = handler[g]
        /\ \/ handler'[h].stage = "idle"
           \/ /\ handler'[h].stage = "resolved" /\ handler'[h].user = u /\ u \in active
              /\ handler'[h].session = handler[h].session
              /\ handler'[h].identity = handler[h].identity
    <3>1. CASE u \in active
      <4>1. handler' = [handler EXCEPT ![h].stage = "resolved", ![h].user = u]
        BY <1>7, <3>1 DEF Resolve
      <4>2. u \in Users
        BY <3>1 DEF TypeOK
      <4>3. handler'[h] = [handler[h] EXCEPT !.stage = "resolved", !.user = u]
        BY <4>1 DEF TypeOK
      <4>4. handler[h] \in HandlerType /\ handler \in [Handlers -> HandlerType]
        BY DEF TypeOK, HandlerType
      <4>5. handler'[h] \in HandlerType
        BY <4>2, <4>3, <4>4 DEF HandlerType
      <4>6. handler' \in [Handlers -> HandlerType]
        BY <4>1, <4>3, <4>4, <4>5
      <4> QED BY <3>1, <4>1, <4>3, <4>4, <4>6 DEF HandlerType
    <3>2. CASE u \notin active
      BY <1>7, <3>2, LeaveKeeps DEF Resolve
    <3> QED BY <3>1, <3>2
  <2>3. HandlersSound'
    BY <2>1, <2>2 DEF HandlersSound, session, people
  <2> QED BY <2>1, <2>2, <2>3 DEF session, people, TypeOK, HandlerType, OneKeyPerSession,
             SessionsSound
<1>8. ASSUME NEW h \in Handlers, Approve(h) PROVE IInv'
  <2> DEFINE s == handler[h].session
             u == handler[h].user
  <2>1. /\ s \in Sessions /\ s \in drawn /\ status[s] = "pending" /\ u \in Users
        /\ \A g \in Handlers \ {h} :
             handler[g].stage \in {"locked", "resolved"} => handler[g].session # s
    BY <1>8 DEF Approve, Resolved, HandlersSound, TypeOK
  <2>2. /\ status' = [status EXCEPT ![s] = "completed"]
        /\ owner' = [owner EXCEPT ![s] = u]
        /\ minted' = minted \cup {<<s, u>>}
        /\ UNCHANGED <<age, drawn, people, client>>
    BY <1>8 DEF Approve, Owned
  <2>3. /\ handler' \in [Handlers -> HandlerType] /\ handler'[h].stage = "idle"
        /\ \A g \in Handlers \ {h} : handler'[g] = handler[g]
    BY <1>8, LeaveKeeps DEF Approve
  <2>4. TypeOK'
    BY <2>1, <2>2, <2>3, LoginAssumption DEF TypeOK, people, HandlerType
  <2>5. OneKeyPerSession'
    <3>1. \A x \in Sessions :
            /\ status'[x] = "completed" <=> x = s \/ status[x] = "completed"
            /\ owner'[x] = IF x = s THEN u ELSE owner[x]
      BY <2>1, <2>2 DEF TypeOK
    <3> QED BY <2>1, <2>2, <3>1 DEF OneKeyPerSession
  <2>6. SessionsSound'
    BY <2>1, <2>2 DEF SessionsSound, TypeOK
  <2>7. ASSUME NEW g \in Handlers, handler'[g].stage \in {"locked", "resolved"}
        PROVE  status'[handler[g].session] = status[handler[g].session]
    BY <2>1, <2>2, <2>3, <2>7 DEF TypeOK
  <2>8. HandlersSound'
    BY <2>2, <2>3, <2>7 DEF HandlersSound, people
  <2> QED BY <2>4, <2>5, <2>6, <2>8
<1>9. ASSUME NEW h \in Handlers, Rollback(h) PROVE IInv'
  <2>1. /\ handler' \in [Handlers -> HandlerType] /\ handler'[h].stage = "idle"
        /\ \A g \in Handlers \ {h} : handler'[g] = handler[g]
    BY <1>9, LeaveKeeps DEF Rollback
  <2>2. UNCHANGED <<session, people, client>>
    BY <1>9 DEF Rollback
  <2>3. HandlersSound'
    BY <2>1, <2>2 DEF HandlersSound, session, people
  <2> QED BY <2>1, <2>2, <2>3 DEF session, people, TypeOK, HandlerType, OneKeyPerSession,
             SessionsSound
<1>10. ASSUME NEW i \in Identities, NEW u \in Users, Relink(i, u) PROVE IInv'
  <2>1. /\ identity' = [identity EXCEPT ![i] = u] /\ changes < MaxChanges
        /\ changes' = changes + 1
        /\ UNCHANGED <<session, active, handler, client>>
        /\ \A h \in Handlers : handler[h].stage = "resolved" => handler[h].identity # i
    BY <1>10 DEF Relink, IdentityFree, Resolved
  <2>2. HandlersSound'
    BY <2>1 DEF HandlersSound, session, TypeOK
  <2> QED BY <2>1, <2>2, LoginAssumption DEF session, TypeOK, OneKeyPerSession, SessionsSound
<1>11. ASSUME NEW u \in Users, Toggle(u) PROVE IInv'
  <2>1. /\ active' = (IF u \in active THEN active \ {u} ELSE active \cup {u})
        /\ changes < MaxChanges /\ changes' = changes + 1
        /\ UNCHANGED <<session, identity, handler, client>>
        /\ \A h \in Handlers : handler[h].stage = "resolved" => handler[h].user # u
    BY <1>11 DEF Toggle, UserFree, Resolved
  <2>2. HandlersSound'
    BY <2>1 DEF HandlersSound, session
  <2> QED BY <2>1, <2>2, LoginAssumption DEF session, TypeOK, OneKeyPerSession, SessionsSound
<1>12. CASE UNCHANGED vars
  BY <1>12 DEF vars, session, people, TypeOK, OneKeyPerSession, HandlersSound, SessionsSound
<1> QED
  BY <1>1, <1>2, <1>3, <1>4, <1>5, <1>6, <1>7, <1>8, <1>9, <1>10, <1>11, <1>12 DEF Next

(* The invariant holds in every reachable state.                           *)
THEOREM Invariance == Spec => []IInv
<1>1. Init => IInv
  BY InitInvariant
<1>2. IInv /\ [Next]_vars => IInv'
  BY NextInvariant
<1> QED BY <1>1, <1>2, PTL DEF Spec

(* Every variable keeps its type, and exactly the completed sessions name  *)
(* a user.                                                                 *)
THEOREM TypeCorrect == Spec => []TypeOK
<1>1. IInv => TypeOK
  BY DEF IInv
<1> QED BY <1>1, Invariance, PTL

(* A session has a key exactly when it is completed: one, and of the user  *)
(* it names.                                                               *)
THEOREM OneKey == Spec => []OneKeyPerSession
<1>1. IInv => OneKeyPerSession
  BY DEF IInv
<1> QED BY <1>1, Invariance, PTL

(* No approval mints for a user who lost the identity or was disabled      *)
(* while it ran.                                                           *)
THEOREM CurrentUser == Spec => MintsForCurrentUser
<1> DEFINE Minted ==
      \A h \in Handlers : Approve(h) =>
         /\ identity[handler[h].identity] = handler[h].user
         /\ handler[h].user \in active
<1>1. IInv /\ [Next]_vars => [Minted]_vars
  BY DEF IInv, HandlersSound, Approve, Resolved
<1> QED BY <1>1, Invariance, PTL DEF Spec, MintsForCurrentUser

---------------------------------------------------------------------------
(* The grant of a session, case by case.                                   *)
LEMMA GrantCases ==
  ASSUME NEW s \in Sessions
  PROVE  /\ s \notin drawn => Grant[s] = "unborn"
         /\ s \in drawn /\ status[s] = "pending" => Grant[s] = "open"
         /\ s \in drawn /\ status[s] = "completed" => Grant[s] = owner[s]
         /\ s \in drawn /\ status[s] \notin {"pending", "completed"} => Grant[s] = "closed"
BY DEF Grant

LEMMA GrantCasesNext ==
  ASSUME NEW s \in Sessions
  PROVE  /\ s \notin drawn' => Grant'[s] = "unborn"
         /\ s \in drawn' /\ status'[s] = "pending" => Grant'[s] = "open"
         /\ s \in drawn' /\ status'[s] = "completed" => Grant'[s] = owner'[s]
         /\ s \in drawn' /\ status'[s] \notin {"pending", "completed"} => Grant'[s] = "closed"
BY DEF Grant

(* Every step of the sessions is a step of the grant or leaves it alone.   *)
LEMMA StepImplements ==
  IInv /\ [Next]_vars => [Promise!Next]_(Promise!vars)
<1> SUFFICES ASSUME IInv, [Next]_vars
             PROVE  Promise!Next \/ UNCHANGED <<Grant, client>>
  BY DEF Promise!vars
<1> USE DEF IInv
<1>1. ASSUME NEW s \in Sessions, Create(s) PROVE Promise!Next
  <2> DEFINE A == {a \in Abandoned : status[a] = "pending"}
  <2>1. /\ s \notin drawn /\ drawn' = drawn \cup {s} /\ owner' = owner /\ client' = client
        /\ status' = [x \in Sessions |->
             IF x = s THEN "pending" ELSE IF x \in Abandoned THEN "missing" ELSE status[x]]
    BY <1>1 DEF Create
  <2>2. A \in SUBSET Sessions /\ s \notin A /\ A \subseteq drawn
    BY <2>1 DEF Abandoned, SessionsSound
  <2>3. Grant[s] = "unborn" /\ \A a \in A : Grant[a] = "open"
    BY <2>1, <2>2, GrantCases
  <2>4. ASSUME NEW x \in Sessions
        PROVE  Grant'[x] = IF x = s THEN "open" ELSE IF x \in A THEN "closed" ELSE Grant[x]
    <3>1. CASE x = s
      BY <2>1, <3>1, GrantCasesNext
    <3>2. CASE x # s /\ x \in Abandoned
      <4>1. status'[x] = "missing" /\ x \in drawn' /\ x \in drawn
            /\ status[x] \in {"pending", "cancelled"}
        BY <2>1, <3>2 DEF Abandoned, SessionsSound
      <4> QED BY <3>2, <4>1, GrantCases, GrantCasesNext
    <3>3. CASE x # s /\ x \notin Abandoned
      <4>1. status'[x] = status[x] /\ (x \in drawn' <=> x \in drawn) /\ owner'[x] = owner[x]
        BY <2>1, <3>3
      <4> QED BY <3>3, <4>1, GrantCases, GrantCasesNext DEF TypeOK
    <3> QED BY <3>1, <3>2, <3>3
  <2>5. Grant' = [x \in Sessions |->
                    IF x = s THEN "open" ELSE IF x \in A THEN "closed" ELSE Grant[x]]
    <3> HIDE DEF A
    <3>1. Grant' = [x \in Sessions |-> Grant'[x]]
      BY DEF Grant
    <3> QED BY <2>4, <3>1
  <2>6. Promise!Open(s, A)
    <3> HIDE DEF A
    <3> QED BY <2>1, <2>3, <2>5 DEF Promise!Open
  <2> QED BY <2>2, <2>6 DEF Promise!Next
<1>2. ASSUME NEW s \in Sessions, Poll(s) PROVE Promise!Next
  <2>1. s \in drawn /\ owner[s] \in Users /\ status[s] = "completed"
    BY <1>2 DEF Poll, HandsKey, SessionsSound, TypeOK
  <2>2. Grant[s] \in Users
    BY <2>1, GrantCases
  <2>3. client' = client \cup {s} /\ Grant' = Grant
    BY <1>2 DEF Poll, session, Grant
  <2> QED BY <2>2, <2>3 DEF Promise!Hand, Promise!Next
<1>3. ASSUME NEW s \in Sessions, status[s] = "pending", s \in drawn,
             NEW o \in Users \cup {"closed"}, drawn' = drawn, client' = client,
             \/ o = "closed" /\ status' = [status EXCEPT ![s] = "cancelled"] /\ owner' = owner
             \/ /\ o \in Users /\ status' = [status EXCEPT ![s] = "completed"]
                /\ owner' = [owner EXCEPT ![s] = o]
      PROVE  Promise!Next
  <2>1. Grant[s] = "open"
    BY <1>3, GrantCases
  <2>2. /\ Grant'[s] = o
        /\ \A x \in Sessions \ {s} : Grant'[x] = Grant[x]
    <3>1. Grant'[s] = o
      BY <1>3, GrantCasesNext DEF TypeOK
    <3>2. ASSUME NEW x \in Sessions \ {s} PROVE Grant'[x] = Grant[x]
      <4>1. status'[x] = status[x] /\ owner'[x] = owner[x]
        BY <1>3 DEF TypeOK
      <4> QED BY <1>3, <4>1, GrantCases, GrantCasesNext DEF TypeOK
    <3> QED BY <3>1, <3>2
  <2>3. Grant' = [Grant EXCEPT ![s] = o]
    <3>1. Grant' = [x \in Sessions |-> Grant'[x]] /\ Grant = [x \in Sessions |-> Grant[x]]
      BY DEF Grant
    <3> QED BY <2>2, <3>1
  <2> QED BY <1>3, <2>1, <2>3 DEF Promise!Decide, Promise!Next
<1>4. ASSUME NEW h \in Handlers, Cancel(h) PROVE Promise!Next
  <2>1. handler[h].session \in Sessions /\ handler[h].session \in drawn
        /\ status[handler[h].session] = "pending"
    BY <1>4 DEF Cancel, HandlersSound, TypeOK
  <2> QED BY <1>3, <1>4, <2>1 DEF Cancel
<1>5. ASSUME NEW h \in Handlers, Approve(h) PROVE Promise!Next
  <2>1. handler[h].session \in Sessions /\ handler[h].session \in drawn
        /\ status[handler[h].session] = "pending" /\ handler[h].user \in Users
    BY <1>5 DEF Approve, Resolved, HandlersSound, TypeOK
  <2> QED BY <1>3, <1>5, <2>1 DEF Approve, Owned
<1>6. ASSUME UNCHANGED <<status, owner, drawn, client>> PROVE UNCHANGED <<Grant, client>>
  BY <1>6 DEF Grant
<1>7. CASE \E s \in Sessions : GrowOlder(s)
  BY <1>6, <1>7 DEF GrowOlder
<1>8. CASE \E h \in Handlers :
             \/ \E kind \in {"approve", "cancel"}, s \in Sessions, i \in Identities :
                  Begin(h, kind, s, i)
             \/ LockSession(h) \/ Resolve(h) \/ Rollback(h)
  BY <1>6, <1>8 DEF Begin, LockSession, Resolve, Rollback, session
<1>9. CASE \/ \E i \in Identities, u \in Users : Relink(i, u)
           \/ \E u \in Users : Toggle(u)
  BY <1>6, <1>9 DEF Relink, Toggle, session
<1>10. CASE UNCHANGED vars
  BY <1>6, <1>10 DEF vars, session
<1> QED BY <1>1, <1>2, <1>4, <1>5, <1>7, <1>8, <1>9, <1>10 DEF Next

(* The sessions, with their row locks, lost connections, expiry and purge, *)
(* implement a grant that is decided once, and no key is polled before it. *)
THEOREM Implements == Spec => ImplementsLoginGrant
<1>1. Init => Promise!Init
  BY DEF Init, Promise!Init, Grant
<1>2. IInv /\ [Next]_vars => [Promise!Next]_(Promise!vars)
  BY StepImplements
<1> QED BY <1>1, <1>2, Invariance, PTL DEF Spec, ImplementsLoginGrant, Promise!Spec
=============================================================================
