----------------------------- MODULE LoginGrant -----------------------------
(***************************************************************************)
(* What a browser login promises: a session is decided once.  It opens, is *)
(* granted to one user or closed for good, and only a granted session      *)
(* gives its client a key.                                                 *)
(***************************************************************************)
CONSTANTS Sessions, Users

VARIABLES
  grant,    \* per session: "unborn", "open", "closed" or the user it went to
  client    \* the sessions whose client has been given the key

vars == <<grant, client>>

Init ==
  /\ grant = [s \in Sessions |-> "unborn"]
  /\ client = {}

(* Opening a session may close abandoned ones.                             *)
Open(s, abandoned) ==
  /\ grant[s] = "unborn"
  /\ \A a \in abandoned : grant[a] = "open"
  /\ grant' = [x \in Sessions |->
       IF x = s THEN "open" ELSE IF x \in abandoned THEN "closed" ELSE grant[x]]
  /\ UNCHANGED client

Decide(s, outcome) ==
  /\ grant[s] = "open"
  /\ grant' = [grant EXCEPT ![s] = outcome]
  /\ UNCHANGED client

Hand(s) ==
  /\ grant[s] \in Users
  /\ client' = client \cup {s}
  /\ UNCHANGED grant

Next ==
  \E s \in Sessions :
    \/ \E abandoned \in SUBSET Sessions : Open(s, abandoned)
    \/ \E outcome \in Users \cup {"closed"} : Decide(s, outcome)
    \/ Hand(s)

Spec == Init /\ [][Next]_vars
=============================================================================
