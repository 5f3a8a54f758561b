-------------------------- MODULE RequestAdmission --------------------------
(***************************************************************************)
(* What happens to a request before its handler runs: http/middleware.rs.  *)
(*                                                                         *)
(* The credential and the path decide first whether the request may go on, *)
(* and with which library.  Then its body is collected, and a compressed   *)
(* body is decoded by a job on a thread of its own.  A few permits, handed *)
(* out in the order of arrival, bound what is being collected compressed   *)
(* or decoded; a permit belongs to the request until the job has it, and   *)
(* to the job until it ends, also when the request is long gone.           *)
(*                                                                         *)
(* The tables do not change here: they are read once per request, at its   *)
(* beginning.  Changes under a running registration are in UploadAuthority.*)
(***************************************************************************)
EXTENDS RequestGates, Naturals, SequencesExt

CONSTANTS
  Requests,    \* clients' requests, each made once
  Asks(_),     \* what each request may ask for
  Tables,      \* the authority tables a behaviour may have
  Permits      \* decoders that may be admitted at once; 4 in the code

ASSUME AdmissionAssumption ==
  /\ Permits \in Nat \ {0}
  /\ IsFiniteSet(Requests)
  /\ \A r \in Requests : Asks(r) \subseteq
       [route : Routes, user : Users, credential : Credentials \cup {NoKey},
        mutating : BOOLEAN, file : BOOLEAN, gzip : BOOLEAN]

VARIABLES
  db,       \* the authority tables
  ask,      \* what each request asks for
  stage,    \* where each request is
  queue,    \* requests that wait for a permit, in order of arrival
  free,     \* permits nobody has
  jobs      \* requests whose decoding job runs

vars == <<db, ask, stage, queue, free, jobs>>

Stages == {"new", "waiting", "collecting", "decoding", "handling", "answered",
           "denied", "refused", "gone"}

NoAsk == [route |-> "public", user |-> BootstrapUser, credential |-> NoKey,
          mutating |-> FALSE, file |-> FALSE, gzip |-> FALSE]

Init ==
  /\ db \in Tables
  /\ ask = [r \in Requests |-> NoAsk]
  /\ stage = [r \in Requests |-> "new"]
  /\ queue = <<>>
  /\ free = Permits
  /\ jobs = {}

Move(r, s) == stage' = [stage EXCEPT ![r] = s]

---------------------------------------------------------------------------
(* buffered_body, from the header to the wait for a permit.  The handler   *)
(* of an upload refuses an unknown or revoked capability before.           *)
Arrive(r) ==
  /\ stage[r] = "new"
  /\ \E a \in Asks(r) :
       /\ ask' = [ask EXCEPT ![r] = a]
       /\ \/ /\ ~PassesGates(db, a) \/ a.route = "upload"
             /\ Move(r, "denied")
             /\ UNCHANGED queue
          \/ /\ PassesGates(db, a)
             /\ IF a.gzip THEN Move(r, "waiting") /\ queue' = Append(queue, r)
                ELSE Move(r, "collecting") /\ UNCHANGED queue
          \/ /\ PassesGates(db, a) /\ ~a.gzip    \* an encoding it does not know
             /\ Move(r, "refused")
             /\ UNCHANGED queue
  /\ UNCHANGED <<db, free, jobs>>

(* The semaphore is fair: the first in the queue gets the next permit.     *)
Admit ==
  /\ queue # <<>> /\ free > 0
  /\ Move(Head(queue), "collecting")
  /\ queue' = Tail(queue)
  /\ free' = free - 1
  /\ UNCHANGED <<db, ask, jobs>>

(* The last frame has arrived, within the limit.                           *)
Collected(r) ==
  /\ stage[r] = "collecting"
  /\ IF ask[r].gzip
     THEN Move(r, "decoding") /\ jobs' = jobs \cup {r}
     ELSE Move(r, "handling") /\ UNCHANGED jobs
  /\ UNCHANGED <<db, ask, queue, free>>

(* The body breaks off or is too large: the permit goes with the early     *)
(* return.                                                                 *)
MutantReturned(r) == free     \* mutant: the early return keeps the permit
Returned(r) == IF ask[r].gzip THEN free + 1 ELSE free

BadBody(r) ==
  /\ stage[r] = "collecting"
  /\ Move(r, "refused")
  /\ free' = Returned(r)
  /\ UNCHANGED <<db, ask, queue, jobs>>

(* decode_gzip returns or panics: the job's permit is free before the      *)
(* request, if it still exists, learns the outcome.                        *)
JobEnds(r) ==
  /\ r \in jobs
  /\ jobs' = jobs \ {r}
  /\ free' = free + 1
  /\ UNCHANGED <<db, ask, stage, queue>>

Decoded(r) ==
  /\ stage[r] = "decoding" /\ r \notin jobs
  /\ \/ Move(r, "handling")
     \/ Move(r, "refused")    \* not gzip, too large, or the job panicked
  /\ UNCHANGED <<db, ask, queue, free, jobs>>

Answer(r) ==
  /\ stage[r] = "handling"
  /\ Move(r, "answered")
  /\ UNCHANGED <<db, ask, queue, free, jobs>>

(* The client hangs up and the request's future is dropped wherever it is. *)
(* A job cannot be dropped.                                                *)
MutantFreed(r) ==    \* mutant: the request, not the job, owns the permit
  IF stage[r] \in {"collecting", "decoding"} /\ ask[r].gzip THEN free + 1 ELSE free
Freed(r) == IF stage[r] = "collecting" /\ ask[r].gzip THEN free + 1 ELSE free

HangUp(r) ==
  /\ stage[r] \in {"waiting", "collecting", "decoding", "handling"}
  /\ Move(r, "gone")
  /\ IF stage[r] = "waiting"
     THEN \E i \in 1..Len(queue) : queue[i] = r /\ queue' = RemoveAt(queue, i)
     ELSE UNCHANGED queue
  /\ free' = Freed(r)
  /\ UNCHANGED <<db, ask, jobs>>

Next ==
  \/ Admit
  \/ \E r \in Requests :
       Arrive(r) \/ Collected(r) \/ BadBody(r) \/ JobEnds(r)
         \/ Decoded(r) \/ Answer(r) \/ HangUp(r)

Spec == Init /\ [][Next]_vars

(* Released permits wake the next in the queue and jobs end, being bounded *)
(* by the limit.  Nothing is assumed of clients: a body may never end.     *)
Fairness == WF_vars(Admit) /\ \A r \in Requests : WF_vars(JobEnds(r))

FairSpec == Spec /\ Fairness

---------------------------------------------------------------------------
TypeOK ==
  /\ DOMAIN ask = Requests /\ \A r \in Requests : ask[r] \in Asks(r) \cup {NoAsk}
  /\ stage \in [Requests -> Stages]
  /\ queue \in Seq(Requests)
  /\ free \in 0..Permits
  /\ jobs \subseteq Requests

(* Every permit is free, with one request or with one job: none is lost    *)
(* or spent twice on any path, so no more jobs run than there are permits, *)
(* requests that hung up included (http/middleware.rs:27, "dropping its    *)
(* requesting future cannot admit another decoder while it runs").         *)
Collecting == {r \in Requests : stage[r] = "collecting" /\ ask[r].gzip}

DecodersBounded ==
  /\ free + Cardinality(Collecting) + Cardinality(jobs) = Permits
  /\ free >= 0

(* Only clients keep a request waiting: it is admitted, or gives up, or    *)
(* every permit is with a request whose body its client is still sending.  *)
OnlyClientsStall ==
  \A r \in Requests :
    stage[r] = "waiting" ~>
      (stage[r] # "waiting" \/ Cardinality(Collecting) = Permits)
=============================================================================
