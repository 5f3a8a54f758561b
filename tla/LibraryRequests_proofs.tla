---------------------- MODULE LibraryRequests_proofs -----------------------
(***************************************************************************)
(* Proofs about the requests to a library, for any number of requests,     *)
(* permits, items and queries: no permit is lost or spent twice, whatever  *)
(* the clients ask for and wherever they hang up, and a listing that       *)
(* nobody writes into is read exactly.                                     *)
(***************************************************************************)
EXTENDS LibraryRequests, Sorting_proofs, FiniteSetTheorems, SequenceTheorems, TLAPS

(* What waits is compressed, has no permit yet and waits once.             *)
QueueSound ==
  \A i \in 1..Len(queue) :
    /\ stage[queue[i]] = "waiting" /\ ask[queue[i]].gzip
    /\ \A j \in 1..Len(queue) : queue[i] = queue[j] => i = j

(* A job belongs to a request that waits for it, or is gone.               *)
JobsSound == \A r \in jobs : stage[r] \in {"decoding", "gone"}

IInv == TypeOK /\ QueueSound /\ JobsSound /\ DecodersBounded

(* The sets whose sizes are counted are finite.                            *)
LEMMA Finite ==
  ASSUME TypeOK
  PROVE  IsFiniteSet(Collecting) /\ IsFiniteSet(jobs)
         /\ Cardinality(Collecting) \in Nat /\ Cardinality(jobs) \in Nat
<1>1. Collecting \subseteq Requests /\ jobs \subseteq Requests
  BY DEF Collecting, TypeOK
<1>2. IsFiniteSet(Collecting) /\ IsFiniteSet(jobs)
  BY <1>1, FS_Subset, AdmissionAssumption
<1> QED BY <1>2, FS_CardinalityType

LEMMA GzipBoolean ==
  ASSUME TypeOK, NEW r \in Requests
  PROVE  ask[r].gzip \in BOOLEAN
<1>1. CASE ask[r] = NoAsk
  BY <1>1 DEF NoAsk
<1>2. CASE ask[r] \in Asks(r)
  BY <1>2, AdmissionAssumption
<1> QED BY <1>1, <1>2 DEF TypeOK

LEMMA InitInvariant == Init => IInv
<1> SUFFICES ASSUME Init PROVE IInv
  OBVIOUS
<1>1. TypeOK
  BY AdmissionAssumption DEF Init, TypeOK, Stages
<1>2. QueueSound /\ JobsSound
  BY DEF Init, QueueSound, JobsSound
<1>3. DecodersBounded
  <2>1. Collecting = {} /\ jobs = {}
    BY DEF Init, Collecting
  <2> QED BY <2>1, FS_EmptySet, AdmissionAssumption DEF Init, DecodersBounded
<1> QED BY <1>1, <1>2, <1>3 DEF IInv

(* A request that moves, and the compressed bodies being collected.        *)
LEMMA Entered ==
  ASSUME TypeOK, NEW r \in Requests, stage[r] # "collecting", Move(r, "collecting"),
         ask' = ask, ask[r].gzip
  PROVE  Cardinality(Collecting') = Cardinality(Collecting) + 1
<1>1. Collecting' = Collecting \cup {r} /\ r \notin Collecting
  BY DEF Collecting, Move, TypeOK
<1> QED BY <1>1, Finite, FS_AddElement

LEMMA Exited ==
  ASSUME TypeOK, NEW r \in Requests, stage[r] = "collecting", ask[r].gzip,
         NEW s, s # "collecting", Move(r, s), ask' = ask
  PROVE  Cardinality(Collecting') = Cardinality(Collecting) - 1
<1>1. Collecting' = Collecting \ {r} /\ r \in Collecting
  BY DEF Collecting, Move, TypeOK
<1> QED BY <1>1, Finite, FS_RemoveElement

LEMMA Elsewhere ==
  ASSUME TypeOK, NEW r \in Requests, stage[r] # "collecting" \/ ~ask[r].gzip,
         NEW s, s # "collecting" \/ ~ask'[r].gzip, Move(r, s),
         \A x \in Requests \ {r} : ask'[x] = ask[x]
  PROVE  Collecting' = Collecting
BY DEF Collecting, Move, TypeOK

(* What is left of a sequence when its i-th element has left.              *)
LEMMA Removed ==
  ASSUME NEW S, NEW q \in Seq(S), NEW i \in 1..Len(q)
  PROVE  /\ RemoveAt(q, i) \in Seq(S)
         /\ Len(RemoveAt(q, i)) = Len(q) - 1 /\ Len(q) \in Nat
         /\ \A j \in 1..Len(RemoveAt(q, i)) :
              RemoveAt(q, i)[j] = IF j < i THEN q[j] ELSE q[j + 1]
<1> DEFINE before == SubSeq(q, 1, i - 1)
           after == SubSeq(q, i + 1, Len(q))
<1>1. Len(q) \in Nat /\ i \in Nat
  BY LenProperties
<1>2. /\ before \in Seq(S) /\ Len(before) = i - 1
      /\ \A j \in 1..(i - 1) : before[j] = q[j]
  BY <1>1, SubSeqProperties
<1>3. /\ after \in Seq(S) /\ Len(after) = Len(q) - i
      /\ \A j \in 1..(Len(q) - i) : after[j] = q[i + j]
  BY <1>1, SubSeqProperties
<1>4. RemoveAt(q, i) = before \o after
  BY DEF RemoveAt
<1> HIDE DEF before, after
<1>5. /\ before \o after \in Seq(S) /\ Len(before \o after) = Len(q) - 1
      /\ \A j \in 1..(Len(q) - 1) :
           (before \o after)[j] = IF j <= i - 1 THEN before[j] ELSE after[j - (i - 1)]
  <2>1. /\ before \o after \in Seq(S)
        /\ Len(before \o after) = Len(before) + Len(after)
        /\ \A j \in 1..Len(before) + Len(after) :
             (before \o after)[j] =
               IF j <= Len(before) THEN before[j] ELSE after[j - Len(before)]
    BY <1>2, <1>3, ConcatProperties
  <2>2. Len(before) + Len(after) = Len(q) - 1 /\ Len(before) = i - 1
    BY <1>1, <1>2, <1>3
  <2> QED BY <2>1, <2>2
<1>6. ASSUME NEW j \in 1..(Len(q) - 1)
      PROVE  (before \o after)[j] = IF j < i THEN q[j] ELSE q[j + 1]
  <2>1. CASE j < i
    BY <1>1, <1>2, <1>5, <2>1
  <2>2. CASE ~(j < i)
    <3>1. j - (i - 1) \in 1..(Len(q) - i) /\ i + (j - (i - 1)) = j + 1
      BY <1>1, <2>2
    <3> QED BY <1>1, <1>3, <1>5, <2>2, <3>1
  <2> QED BY <2>1, <2>2
<1> QED BY <1>1, <1>4, <1>5, <1>6

(* A request that is not in the queue changes nothing for those that are.  *)
LEMMA QueueStays ==
  ASSUME TypeOK, QueueSound, NEW r \in Requests, stage[r] # "waiting", NEW s, Move(r, s),
         ask' = ask, queue' = queue
  PROVE  QueueSound'
BY DEF QueueSound, Move, TypeOK

LEMMA NextInvariant == IInv /\ [Next]_vars => IInv'
<1> SUFFICES ASSUME IInv, [Next]_vars PROVE IInv'
  OBVIOUS
<1> USE DEF IInv
<1>0. free \in Nat /\ Cardinality(Collecting) \in Nat /\ Cardinality(jobs) \in Nat
      /\ Permits \in Nat /\ free + Cardinality(Collecting) + Cardinality(jobs) = Permits
  BY Finite, AdmissionAssumption DEF TypeOK, DecodersBounded
<1>1. ASSUME NEW r \in Requests, Arrive(r) PROVE IInv'
  <2>1. PICK a \in Asks(r) :
          /\ ask' = [ask EXCEPT ![r] = a]
          /\ \/ Move(r, "denied") /\ UNCHANGED queue
             \/ a.gzip /\ Move(r, "waiting") /\ queue' = Append(queue, r)
             \/ ~a.gzip /\ Move(r, "collecting") /\ UNCHANGED queue
             \/ Move(r, "refused") /\ UNCHANGED queue
    BY <1>1 DEF Arrive
  <2>2. stage[r] = "new" /\ UNCHANGED <<db, free, jobs>>
    BY <1>1 DEF Arrive
  <2>3. \A i \in 1..Len(queue) : queue[i] \in Requests /\ queue[i] # r
    BY <2>2 DEF QueueSound, TypeOK
  <2>4. TypeOK'
    <3>1. DOMAIN ask' = Requests /\ \A x \in Requests : ask'[x] \in Asks(x) \cup {NoAsk}
      BY <2>1 DEF TypeOK
    <3>2. stage' \in [Requests -> Stages]
      BY <2>1 DEF TypeOK, Move, Stages
    <3>3. queue' \in Seq(Requests)
      <4>1. queue' = queue \/ queue' = Append(queue, r)
        BY <2>1
      <4>2. queue \in Seq(Requests)
        BY DEF TypeOK
      <4> QED BY <4>1, <4>2
    <3> QED BY <2>2, <3>1, <3>2, <3>3 DEF TypeOK
  <2>5. QueueSound'
    <3>1. CASE UNCHANGED queue
      <4>1. \A i \in 1..Len(queue) :
              stage'[queue[i]] = stage[queue[i]] /\ ask'[queue[i]] = ask[queue[i]]
        BY <2>1, <2>3 DEF Move, TypeOK
      <4> QED BY <3>1, <4>1 DEF QueueSound
    <3>2. CASE a.gzip /\ Move(r, "waiting") /\ queue' = Append(queue, r)
      <4>1. /\ \A i \in 1..Len(queue) :
                 stage'[queue[i]] = stage[queue[i]] /\ ask'[queue[i]] = ask[queue[i]]
            /\ stage'[r] = "waiting" /\ ask'[r].gzip
        BY <2>1, <2>3, <3>2 DEF Move, TypeOK
      <4>2. /\ Len(queue') = Len(queue) + 1 /\ queue'[Len(queue) + 1] = r
            /\ \A i \in 1..Len(queue) : queue'[i] = queue[i]
            /\ Len(queue) \in Nat
        BY <3>2 DEF TypeOK
      <4> QED BY <2>3, <4>1, <4>2 DEF QueueSound
    <3> QED BY <2>1, <3>1, <3>2
  <2>6. JobsSound'
    BY <2>1, <2>2 DEF JobsSound, Move, TypeOK
  <2>7. Collecting' = Collecting
    <3>1. \A x \in Requests \ {r} : ask'[x] = ask[x]
      BY <2>1 DEF TypeOK
    <3>2. ask'[r] = a
      BY <2>1 DEF TypeOK
    <3> QED BY <2>1, <2>2, <3>1, <3>2, Elsewhere
  <2> QED BY <1>0, <2>2, <2>4, <2>5, <2>6, <2>7 DEF DecodersBounded
<1>2. ASSUME Admit PROVE IInv'
  <2> DEFINE r == Head(queue)
  <2>1. /\ r \in Requests /\ stage[r] = "waiting" /\ ask[r].gzip /\ free > 0
        /\ Move(r, "collecting") /\ free' = free - 1 /\ UNCHANGED <<db, ask, jobs>>
        /\ queue' = Tail(queue) /\ queue # <<>> /\ r = queue[1] /\ Len(queue) \in Nat
    BY <1>2 DEF Admit, QueueSound, TypeOK
  <2>2. /\ Len(queue') = Len(queue) - 1
        /\ \A i \in 1..Len(queue') : queue'[i] = queue[i + 1] /\ queue'[i] # r
        /\ queue' \in Seq(Requests)
    BY <2>1 DEF QueueSound, TypeOK
  <2>3. TypeOK'
    BY <1>0, <2>1, <2>2 DEF TypeOK, Move, Stages
  <2>4. QueueSound'
    <3>1. \A i \in 1..Len(queue') : stage'[queue'[i]] = stage[queue'[i]]
      BY <2>1, <2>2 DEF Move, TypeOK
    <3> QED BY <2>1, <2>2, <3>1 DEF QueueSound
  <2>5. JobsSound'
    BY <2>1 DEF JobsSound, Move, TypeOK
  <2>6. Cardinality(Collecting') = Cardinality(Collecting) + 1
    BY <2>1, Entered
  <2> QED BY <1>0, <2>1, <2>3, <2>4, <2>5, <2>6 DEF DecodersBounded
<1>3. ASSUME NEW r \in Requests, Collected(r) PROVE IInv'
  <2>1. stage[r] = "collecting" /\ UNCHANGED <<db, ask, queue, free>>
    BY <1>3 DEF Collected
  <2>2. r \notin jobs
    BY <2>1 DEF JobsSound
  <2>3. CASE ask[r].gzip
    <3>1. Move(r, "decoding") /\ jobs' = jobs \cup {r}
      BY <1>3, <2>3 DEF Collected
    <3>2. TypeOK' /\ JobsSound'
      BY <2>1, <3>1 DEF TypeOK, JobsSound, Move, Stages
    <3>3. Cardinality(jobs') = Cardinality(jobs) + 1
      BY <2>2, <3>1, Finite, FS_AddElement
    <3>4. Cardinality(Collecting') = Cardinality(Collecting) - 1
      BY <2>1, <2>3, <3>1, Exited
    <3> QED BY <1>0, <2>1, <3>1, <3>2, <3>3, <3>4, QueueStays DEF DecodersBounded
  <2>4. CASE ~ask[r].gzip
    <3>1. Move(r, "handling") /\ jobs' = jobs
      BY <1>3, <2>4 DEF Collected
    <3>2. TypeOK' /\ JobsSound'
      BY <2>1, <2>2, <3>1 DEF TypeOK, JobsSound, Move, Stages
    <3>3. Collecting' = Collecting
      BY <2>1, <2>4, <3>1, Elsewhere
    <3> QED BY <1>0, <2>1, <3>1, <3>2, <3>3, QueueStays DEF DecodersBounded
  <2> QED BY <2>3, <2>4
<1>4. ASSUME NEW r \in Requests, BadBody(r) PROVE IInv'
  <2>1. stage[r] = "collecting" /\ Move(r, "refused") /\ UNCHANGED <<db, ask, queue, jobs>>
        /\ free' = IF ask[r].gzip THEN free + 1 ELSE free
    BY <1>4 DEF BadBody, Returned
  <2>2. JobsSound'
    BY <2>1 DEF TypeOK, JobsSound, Move
  <2>3. CASE ask[r].gzip
    <3>1. Cardinality(Collecting') = Cardinality(Collecting) - 1
      BY <2>1, <2>3, Exited
    <3>2. Cardinality(Collecting') \in Nat
      <4>1. Collecting' \subseteq Requests
        BY DEF Collecting
      <4> QED BY <4>1, AdmissionAssumption, FS_Subset, FS_CardinalityType
    <3>3. TypeOK'
      BY <1>0, <2>1, <2>3, <3>1, <3>2 DEF TypeOK, Move, Stages
    <3> QED BY <1>0, <2>1, <2>2, <2>3, <3>1, <3>3, QueueStays DEF DecodersBounded
  <2>4. CASE ~ask[r].gzip
    <3>1. Collecting' = Collecting
      BY <2>1, <2>4, Elsewhere
    <3>2. TypeOK'
      BY <2>1, <2>4 DEF TypeOK, Move, Stages
    <3> QED BY <1>0, <2>1, <2>2, <2>4, <3>1, <3>2, QueueStays DEF DecodersBounded
  <2> QED BY <2>3, <2>4
<1>5. ASSUME NEW r \in Requests, JobEnds(r) PROVE IInv'
  <2>1. r \in jobs /\ jobs' = jobs \ {r} /\ free' = free + 1
        /\ UNCHANGED <<db, ask, stage, queue>>
    BY <1>5 DEF JobEnds
  <2>2. Cardinality(jobs') = Cardinality(jobs) - 1 /\ Cardinality(jobs') \in Nat
    BY <2>1, Finite, FS_RemoveElement, FS_CardinalityType
  <2>3. TypeOK'
    BY <1>0, <2>1, <2>2 DEF TypeOK
  <2>4. QueueSound' /\ JobsSound' /\ Collecting' = Collecting
    BY <2>1 DEF QueueSound, JobsSound, Collecting
  <2> QED BY <1>0, <2>1, <2>2, <2>3, <2>4 DEF DecodersBounded
<1>6. ASSUME NEW r \in Requests, Decoded(r) \/ Answer(r) PROVE IInv'
  <2>1. PICK s \in {"handling", "refused", "answered"} : Move(r, s)
    BY <1>6 DEF Decoded, Answer
  <2>2. stage[r] \in {"decoding", "handling"} /\ UNCHANGED <<db, ask, queue, free, jobs>>
        /\ r \notin jobs
    BY <1>6 DEF Decoded, Answer, JobsSound
  <2>3. TypeOK' /\ JobsSound'
    BY <2>1, <2>2 DEF TypeOK, JobsSound, Move, Stages
  <2>4. Collecting' = Collecting
    BY <2>1, <2>2, Elsewhere
  <2> QED BY <1>0, <2>1, <2>2, <2>3, <2>4, QueueStays DEF DecodersBounded
<1>7. ASSUME NEW r \in Requests, HangUp(r) PROVE IInv'
  <2>1. /\ stage[r] \in {"waiting", "collecting", "decoding", "handling"}
        /\ Move(r, "gone") /\ UNCHANGED <<db, ask, jobs>>
        /\ free' = IF stage[r] = "collecting" /\ ask[r].gzip THEN free + 1 ELSE free
    BY <1>7 DEF HangUp, Freed
  <2>2. JobsSound'
    BY <2>1 DEF TypeOK, JobsSound, Move
  <2>3. CASE stage[r] = "waiting"
    <3>1. PICK i \in 1..Len(queue) : queue[i] = r /\ queue' = RemoveAt(queue, i)
      BY <1>7, <2>3 DEF HangUp
    <3>2. /\ queue' \in Seq(Requests) /\ Len(queue') = Len(queue) - 1 /\ Len(queue) \in Nat
          /\ \A j \in 1..Len(queue') : queue'[j] = IF j < i THEN queue[j] ELSE queue[j + 1]
      BY <3>1, Removed DEF TypeOK
    <3>3. \A j \in 1..Len(queue') : queue'[j] # r
      BY <3>1, <3>2 DEF QueueSound
    <3>4. \A j \in 1..Len(queue') : stage'[queue'[j]] = stage[queue'[j]]
      BY <2>1, <3>2, <3>3 DEF Move, TypeOK
    <3>5. QueueSound'
      <4>1. ASSUME NEW j \in 1..Len(queue')
            PROVE  \E m \in 1..Len(queue) :
                     queue'[j] = queue[m] /\ m = IF j < i THEN j ELSE j + 1
        BY <3>1, <3>2
      <4>2. ASSUME NEW j \in 1..Len(queue'), NEW n \in 1..Len(queue'),
                   queue'[j] = queue'[n]
            PROVE  j = n
        <5>1. PICK m \in 1..Len(queue) :
                queue'[j] = queue[m] /\ m = IF j < i THEN j ELSE j + 1
          BY <4>1
        <5>2. PICK o \in 1..Len(queue) :
                queue'[n] = queue[o] /\ o = IF n < i THEN n ELSE n + 1
          BY <4>1
        <5>3. queue[m] = queue[o] => m = o
          BY DEF QueueSound
        <5>4. m = o => j = n
          BY <5>1, <5>2
        <5> QED BY <4>2, <5>1, <5>2, <5>3, <5>4
      <4>3. ASSUME NEW j \in 1..Len(queue')
            PROVE  stage'[queue'[j]] = "waiting" /\ ask'[queue'[j]].gzip
        BY <2>1, <3>4, <4>1 DEF QueueSound
      <4> QED BY <4>2, <4>3 DEF QueueSound
    <3>6. TypeOK'
      BY <2>1, <2>3, <3>2 DEF TypeOK, Move, Stages
    <3>7. Collecting' = Collecting
      BY <2>1, <2>3, Elsewhere
    <3> QED BY <1>0, <2>1, <2>2, <2>3, <3>5, <3>6, <3>7 DEF DecodersBounded
  <2>4. CASE stage[r] = "collecting" /\ ask[r].gzip
    <3>1. queue' = queue
      BY <1>7, <2>4 DEF HangUp
    <3>2. Cardinality(Collecting') = Cardinality(Collecting) - 1
      BY <2>1, <2>4, Exited
    <3>3. Cardinality(Collecting') \in Nat
      <4>1. Collecting' \subseteq Requests
        BY DEF Collecting
      <4> QED BY <4>1, AdmissionAssumption, FS_Subset, FS_CardinalityType
    <3>4. TypeOK'
      BY <1>0, <2>1, <2>4, <3>1, <3>2, <3>3 DEF TypeOK, Move, Stages
    <3> QED BY <1>0, <2>1, <2>2, <2>4, <3>1, <3>2, <3>4, QueueStays DEF DecodersBounded
  <2>5. CASE stage[r] # "waiting" /\ ~(stage[r] = "collecting" /\ ask[r].gzip)
    <3>1. queue' = queue
      BY <1>7, <2>5 DEF HangUp
    <3>2. Collecting' = Collecting
      BY <2>1, <2>5, Elsewhere
    <3>3. TypeOK'
      BY <2>1, <2>5, <3>1 DEF TypeOK, Move, Stages
    <3> QED BY <1>0, <2>1, <2>2, <2>5, <3>1, <3>2, <3>3, QueueStays DEF DecodersBounded
  <2> QED BY <2>3, <2>4, <2>5
<1>8. CASE UNCHANGED vars
  BY <1>8 DEF vars, TypeOK, QueueSound, JobsSound, DecodersBounded, Collecting
<1> QED BY <1>1, <1>2, <1>3, <1>4, <1>5, <1>6, <1>7, <1>8 DEF Next

(* The invariant holds in every reachable state.                           *)
THEOREM Invariance == Spec => []IInv
BY InitInvariant, NextInvariant, PTL DEF Spec

(* Free permits, compressed bodies being collected and jobs that run add   *)
(* up to the permits there are, whatever panics or hangs up.               *)
THEOREM PermitsConserved == Spec => []DecodersBounded
<1>1. IInv => DecodersBounded
  BY DEF IInv
<1> QED BY <1>1, Invariance, PTL

(* No request is queued twice, and every variable keeps its type.          *)
THEOREM TypeCorrect == Spec => [](TypeOK /\ QueueSound)
<1>1. IInv => TypeOK /\ QueueSound
  BY DEF IInv
<1> QED BY <1>1, Invariance, PTL

---------------------------------------------------------------------------
(* A write is the answer to its request: reading listings and committing   *)
(* writes leave the admission of requests as it is.                        *)
LEMMA NextAllAdmits == [NextAll]_allVars => [Next]_vars
<1>1. ASSUME NEW r \in Requests, Write(r) PROVE Next
  BY <1>1 DEF Write, Answer, Next
<1>2. ASSUME Listed \/ \E k \in ItemKeys : Edit(k) PROVE UNCHANGED vars
  BY <1>2 DEF Listed, Count, ReadPage, Respond, Follow, Edit
<1> QED BY <1>1, <1>2 DEF NextAll, allVars

(* Commits and listings are no steps of admission: the service as a whole  *)
(* admits requests exactly as its middleware alone does.                   *)
THEOREM AdmissionKept == SpecAll => Spec
<1>1. InitAll => Init
  BY DEF InitAll
<1> QED BY <1>1, NextAllAdmits, PTL DEF SpecAll, Spec

(* Free permits, compressed bodies being collected and jobs that run add   *)
(* up to the permits there are, also while writes commit.                  *)
THEOREM PermitsConservedAll == SpecAll => []DecodersBounded
BY AdmissionKept, PermitsConserved, PTL

---------------------------------------------------------------------------
ListedRows == [key : ItemKeys, version : Nat]

WalkTypeOK ==
  /\ version \in Nat
  /\ items \in [ItemKeys -> Item \cup {None}]
  /\ stamp \in [ItemKeys -> Nat]
  /\ walk \in [stage : {"asked", "counted", "read", "more", "end", "done"},
               query : Query, total : Nat, page : Seq(ListedRows), header : Nat,
               got : Seq(ItemKeys), quiet : BOOLEAN]

(* While nothing is written, what was received is the listing up to where  *)
(* the next page begins, and the count is the listing's.                   *)
WalkSound ==
  LET q == walk.query
      rows == Listing(items, q)
      next == q.start + q.limit
  IN walk.quiet =>
       /\ walk.stage \in {"counted", "read", "more", "end"} => walk.total = Len(rows)
       /\ walk.stage \in {"asked", "counted"} =>
            q.start <= Len(rows) /\ walk.got = SubSeq(rows, 1, q.start)
       /\ walk.stage \in {"read", "more"} => walk.got = Window(rows, 1, next)
       /\ walk.stage = "more" => next < Len(rows)
       /\ walk.stage = "end" => walk.got = rows

LibraryItems == [ItemKeys -> Item \cup {None}]

(* A listing names every matching item once, in the order asked for.       *)
LEMMA ListingIs ==
  ASSUME NEW its \in LibraryItems, NEW q \in Query
  PROVE  /\ Listing(its, q) \in Seq(ItemKeys)
         /\ Len(Listing(its, q)) = Total(its, q) /\ Total(its, q) \in Nat
         /\ Matching(its, q) = {Listing(its, q)[i] : i \in 1..Len(Listing(its, q))}
         /\ \A i, j \in 1..Len(Listing(its, q)) :
              i < j => Precedes(its, q, Listing(its, q)[i], Listing(its, q)[j])
<1> DEFINE S == Matching(its, q)
           order == {p \in S \X S : Precedes(its, q, p[1], p[2])}
<1>1. S \subseteq ItemKeys /\ \A k \in S : its[k] \in Item
  BY DEF Matching, LibraryItems
<1>2. IsFiniteSet(S) /\ Cardinality(S) \in Nat
  BY <1>1, QueryAssumption, FS_Subset, FS_CardinalityType
<1>3. Orders(order, S)
  <2>1. \A x, y \in S : <<x, y>> \in order <=> Precedes(its, q, x, y)
    OBVIOUS
  <2>2. \A x \in S : x \in Nat /\ its[x].sort \in Nat \cup {None}
    BY <1>1, QueryAssumption DEF Item
  <2> HIDE DEF S, order
  <2>3. \A x \in S : ~Precedes(its, q, x, x)
    BY <2>2 DEF Precedes
  <2>4. \A x, y \in S : x # y => Precedes(its, q, x, y) \/ Precedes(its, q, y, x)
    BY <2>2 DEF Precedes
  <2>5. \A x, y, z \in S :
          Precedes(its, q, x, y) /\ Precedes(its, q, y, z) => Precedes(its, q, x, z)
    BY <2>2 DEF Precedes
  <2> QED BY <2>1, <2>3, <2>4, <2>5 DEF Orders
<1>4. \A s \in [1..Cardinality(S) -> S] :
        s \in Listings(S, order) <=>
          \A i, j \in DOMAIN s : i < j => Precedes(its, q, s[i], s[j])
  BY DEF Listings
<1>5. PICK s : s = Listing(its, q)
  OBVIOUS
<1>6. /\ s \in [1..Cardinality(S) -> S]
      /\ \A i, j \in DOMAIN s : i < j => Precedes(its, q, s[i], s[j])
  <2> HIDE DEF order
  <2>1. PICK t : t \in Listings(S, order)
    BY <1>2, <1>3, ListingExists
  <2>2. t \in [1..Cardinality(S) -> S]
    BY <2>1 DEF Listings
  <2>3. \E u \in [1..Cardinality(S) -> S] :
          \A i, j \in DOMAIN u : i < j => Precedes(its, q, u[i], u[j])
    BY <1>4, <2>1, <2>2
  <2> QED BY <1>5, <2>3 DEF Listing
<1>7. /\ s \in Seq(S) /\ Len(s) = Cardinality(S)
      /\ \A x \in S : \E i \in 1..Len(s) : s[i] = x
  <2> HIDE DEF order, S
  <2>1. s \in Listings(S, order)
    BY <1>4, <1>6
  <2> QED BY <1>2, <1>3, <2>1, ListingComplete
<1> HIDE DEF S
<1>8. S = {s[i] : i \in 1..Len(s)}
  BY <1>7
<1>9. s \in Seq(ItemKeys)
  BY <1>1, <1>7
<1>10. \A i, j \in 1..Len(s) : i < j => Precedes(its, q, s[i], s[j])
  BY <1>6, <1>7
<1>11. Total(its, q) = Cardinality(S)
  BY DEF Total, S
<1> QED BY <1>2, <1>5, <1>7, <1>8, <1>9, <1>10, <1>11 DEF S

(* The next page is of the same listing.                                   *)
LEMMA SameListing ==
  ASSUME NEW its, NEW q \in Query, NEW n \in Nat
  PROVE  /\ [q EXCEPT !.start = n] \in Query
         /\ Listing(its, [q EXCEPT !.start = n]) = Listing(its, q)
         /\ [q EXCEPT !.start = n].start = n /\ [q EXCEPT !.start = n].limit = q.limit
<1>1. PICK p : p = [q EXCEPT !.start = n]
  OBVIOUS
<1>2. /\ p \in Query /\ p.start = n
      /\ p.notes = q.notes /\ p.trash = q.trash /\ p.q = q.q /\ p.everything = q.everything
      /\ p.include = q.include /\ p.exclude = q.exclude /\ p.tags = q.tags /\ p.top = q.top
      /\ p.collection = q.collection /\ p.descending = q.descending /\ p.limit = q.limit
  BY <1>1 DEF Query
<1>3. \A item : Matches(item, p) <=> Matches(item, q)
  BY <1>2 DEF Matches, Found, OfType, Tagged
<1>4. Matching(its, p) = Matching(its, q)
  BY <1>3 DEF Matching
<1> DEFINE Before(d, j, k) ==
             LET a == its[j].sort
                 b == its[k].sort
             IN \/ a # None /\ b = None
                \/ a # None /\ b # None /\ IF d THEN a > b ELSE a < b
                \/ a = b /\ j < k
           Sorted(S, d) ==
             CHOOSE s \in [1..Cardinality(S) -> S] :
               \A i, j \in DOMAIN s : i < j => Before(d, s[i], s[j])
<1>5. /\ Listing(its, p) = Sorted(Matching(its, p), p.descending)
      /\ Listing(its, q) = Sorted(Matching(its, q), q.descending)
  BY DEF Listing, Precedes
<1> HIDE DEF Sorted
<1>6. Listing(its, p) = Listing(its, q)
  BY <1>2, <1>4, <1>5
<1> QED BY <1>1, <1>2, <1>6

(* A page continues what was received up to its start.                     *)
LEMMA PageContinues ==
  ASSUME NEW its \in LibraryItems, NEW q \in Query
  PROVE  /\ Page(its, q) \in Seq(ItemKeys)
         /\ q.start <= Len(Listing(its, q)) =>
              SubSeq(Listing(its, q), 1, q.start) \o Page(its, q)
                = Window(Listing(its, q), 1, q.start + q.limit)
<1>1. PICK rows \in Seq(ItemKeys) : rows = Listing(its, q)
  BY ListingIs
<1>2. PICK a, b, n : a = q.start /\ b = q.start + q.limit /\ n = Len(rows)
  OBVIOUS
<1>3. a \in Nat /\ b \in Nat /\ n \in Nat /\ a < b
  BY <1>2, QueryAssumption DEF Query
<1>4. PICK m : m = IF b < n THEN b ELSE n
  OBVIOUS
<1>5. m \in Nat /\ m <= n /\ (a <= n => a <= m)
  BY <1>3, <1>4
<1>6. Page(its, q) = SubSeq(rows, a + 1, m) /\ Window(rows, 1, b) = SubSeq(rows, 1, m)
  BY <1>1, <1>2, <1>4 DEF Page, Window
<1>7. SubSeq(rows, a + 1, m) \in Seq(ItemKeys)
  <2>1. \A i \in (a + 1)..m : rows[i] \in ItemKeys
    <3>1. \A i \in (a + 1)..m : i \in 1..Len(rows)
      BY <1>2, <1>3, <1>5
    <3> QED BY <3>1
  <2> QED BY <1>3, <1>5, <2>1, SubSeqProperties
<1>8. ASSUME a <= n
      PROVE  SubSeq(rows, 1, a) \o SubSeq(rows, a + 1, m) = SubSeq(rows, 1, m)
  <2>1. 1 \in 1..Len(rows) + 1 /\ a \in (1 - 1)..Len(rows) /\ m \in a..Len(rows)
    BY <1>2, <1>3, <1>5, <1>8
  <2> QED BY <2>1, ConcatAdjacentSubSeq
<1> QED BY <1>1, <1>2, <1>6, <1>7, <1>8

WInv == WalkTypeOK /\ WalkSound

LEMMA WalkInit == InitAll => WInv
<1> SUFFICES ASSUME InitAll PROVE WInv
  OBVIOUS
<1>1. PICK q \in Queries : walk = NoWalk(q)
  BY DEF InitAll
<1>2. q \in Query /\ q.start = 0
  BY LibraryAssumption
<1>3. WalkTypeOK
  <2>1. walk = [stage |-> "asked", query |-> q, total |-> 0, page |-> <<>>, header |-> 0,
                got |-> <<>>, quiet |-> TRUE]
    BY <1>1 DEF NoWalk
  <2>2. <<>> \in Seq(ListedRows) /\ <<>> \in Seq(ItemKeys)
    OBVIOUS
  <2>3. version \in Nat /\ items \in [ItemKeys -> Item \cup {None}] /\ stamp \in [ItemKeys -> Nat]
    BY LibraryAssumption DEF InitAll
  <2> QED BY <1>2, <2>1, <2>2, <2>3 DEF WalkTypeOK
<1>4. PICK rows \in Seq(ItemKeys) : rows = Listing(items, q)
  BY <1>2, <1>3, ListingIs DEF WalkTypeOK, LibraryItems
<1>5. SubSeq(rows, 1, 0) = <<>> /\ 0 <= Len(rows)
  BY SubSeqEmpty
<1>6. /\ walk.stage = "asked" /\ walk.query = q /\ walk.got = <<>>
  BY <1>1 DEF NoWalk
<1>7. WalkSound
  BY <1>2, <1>4, <1>5, <1>6 DEF WalkSound
<1> QED BY <1>3, <1>7 DEF WInv

LEMMA WalkNext == WInv /\ [NextAll]_allVars => WInv'
<1> SUFFICES ASSUME WalkTypeOK, WalkSound, [NextAll]_allVars PROVE WalkTypeOK' /\ WalkSound'
  BY DEF WInv
<1>0. PICK q, rows, next :
        q = walk.query /\ rows = Listing(items, q) /\ next = q.start + q.limit
  OBVIOUS
<1>1. /\ q \in Query /\ items \in LibraryItems /\ q.start \in Nat /\ q.limit \in Nat /\ next \in Nat
      /\ rows \in Seq(ItemKeys) /\ Len(rows) = Total(items, q) /\ Len(rows) \in Nat
  <2>1. q \in Query /\ items \in LibraryItems
    BY <1>0 DEF WalkTypeOK, LibraryItems
  <2>2. q.start \in Nat /\ q.limit \in Nat /\ next \in Nat
    BY <1>0, <2>1, QueryAssumption DEF Query
  <2> QED BY <1>0, <2>1, <2>2, ListingIs
<1>2. walk.quiet =>
        /\ walk.stage \in {"counted", "read", "more", "end"} => walk.total = Len(rows)
        /\ walk.stage \in {"asked", "counted"} =>
             q.start <= Len(rows) /\ walk.got = SubSeq(rows, 1, q.start)
        /\ walk.stage \in {"read", "more"} => walk.got = Window(rows, 1, next)
        /\ walk.stage = "more" => next < Len(rows)
        /\ walk.stage = "end" => walk.got = rows
  BY <1>0 DEF WalkSound
<1>3. CASE UNCHANGED <<library, walk>>
  BY <1>3 DEF WalkTypeOK, WalkSound, library
<1>4. CASE Count
  <2>1. /\ walk.stage = "asked" /\ UNCHANGED <<version, items, stamp>>
        /\ walk' = [walk EXCEPT !.stage = "counted", !.total = Total(items, q)]
    BY <1>0, <1>4 DEF Count, library
  <2>2. WalkTypeOK'
    BY <1>1, <2>1 DEF WalkTypeOK
  <2>3. /\ walk'.stage = "counted" /\ walk'.query = q /\ walk'.quiet = walk.quiet
        /\ walk'.got = walk.got /\ walk'.total = Len(rows)
    BY <1>0, <1>1, <2>1 DEF WalkTypeOK
  <2> QED BY <1>0, <1>2, <2>1, <2>2, <2>3 DEF WalkSound
<1>5. CASE ReadPage
  <2>1. PICK keys : keys = Page(items, q)
    OBVIOUS
  <2>2. PICK page : page = [i \in 1..Len(keys) |-> Row(keys[i])]
    OBVIOUS
  <2>3. PICK got : got = IF walk.quiet THEN walk.got \o keys ELSE walk.got
    OBVIOUS
  <2>4. /\ walk.stage = "counted" /\ UNCHANGED <<version, items, stamp>>
        /\ walk' = [walk EXCEPT !.stage = "read", !.page = page, !.got = got]
    BY <1>0, <1>5, <2>1, <2>2, <2>3 DEF ReadPage, library
  <2>5. /\ keys \in Seq(ItemKeys)
        /\ q.start <= Len(rows) => SubSeq(rows, 1, q.start) \o keys = Window(rows, 1, next)
    BY <1>0, <1>1, <2>1, PageContinues
  <2>6. page \in Seq(ListedRows)
    <3>1. \A i \in 1..Len(keys) : Row(keys[i]) \in ListedRows
      BY <2>5 DEF Row, ListedRows, WalkTypeOK
    <3>2. page \in [1..Len(keys) -> ListedRows] /\ Len(keys) \in Nat
      BY <2>2, <2>5, <3>1
    <3> QED BY <3>2
  <2>7. got \in Seq(ItemKeys)
    BY <2>3, <2>5 DEF WalkTypeOK
  <2>8. WalkTypeOK'
    BY <2>4, <2>6, <2>7 DEF WalkTypeOK
  <2>9. /\ walk'.stage = "read" /\ walk'.query = q /\ walk'.quiet = walk.quiet
        /\ walk'.got = got /\ walk'.total = walk.total
    BY <1>0, <2>4 DEF WalkTypeOK
  <2>10. walk.quiet => walk.total = Len(rows) /\ got = Window(rows, 1, next)
    BY <1>2, <2>3, <2>4, <2>5
  <2> QED BY <1>0, <2>4, <2>8, <2>9, <2>10 DEF WalkSound
<1>6. CASE Respond
  <2>1. PICK s : s = IF HasNext(q, walk.total) THEN "more" ELSE "end"
    OBVIOUS
  <2>2. /\ walk.stage = "read" /\ UNCHANGED <<version, items, stamp>>
        /\ walk' = [walk EXCEPT !.stage = s, !.header = version]
    BY <1>0, <1>6, <2>1 DEF Respond, library
  <2>3. WalkTypeOK'
    BY <2>1, <2>2 DEF WalkTypeOK
  <2>4. /\ walk'.stage = s /\ walk'.query = q /\ walk'.quiet = walk.quiet
        /\ walk'.got = walk.got /\ walk'.total = walk.total
    BY <1>0, <2>2 DEF WalkTypeOK
  <2>5. s = "more" /\ walk.quiet => next < Len(rows)
    BY <1>0, <1>2, <2>1, <2>2 DEF HasNext
  <2>6. s = "end" /\ walk.quiet => walk.got = rows
    <3>1. s = "end" /\ walk.quiet => ~(next < Len(rows)) /\ walk.got = Window(rows, 1, next)
      BY <1>0, <1>2, <2>1, <2>2 DEF HasNext
    <3>2. ~(next < Len(rows)) => Window(rows, 1, next) = rows
      BY <1>1, SubSeqFull DEF Window
    <3> QED BY <3>1, <3>2
  <2>7. s \in {"more", "end"}
    BY <2>1
  <2> QED BY <1>0, <1>2, <2>2, <2>3, <2>4, <2>5, <2>6, <2>7 DEF WalkSound
<1>7. CASE Follow
  <2>1. /\ walk.stage = "more" /\ UNCHANGED <<version, items, stamp>>
        /\ walk' = [walk EXCEPT !.stage = "asked", !.query = NextQuery(q)]
    BY <1>0, <1>7 DEF Follow, library
  <2>2. PICK p : p = NextQuery(q)
    OBVIOUS
  <2>3. p \in Query /\ p.start = next /\ Listing(items, p) = rows
    <3>1. PageStart(next) = next
      BY <1>1, QueryAssumption DEF PageStart
    <3>2. p = [q EXCEPT !.start = next]
      BY <1>0, <2>2, <3>1 DEF NextQuery
    <3> QED BY <1>0, <1>1, <3>2, SameListing
  <2>4. WalkTypeOK'
    BY <2>1, <2>2, <2>3 DEF WalkTypeOK
  <2>5. /\ walk'.stage = "asked" /\ walk'.query = p /\ walk'.quiet = walk.quiet
        /\ walk'.got = walk.got
    BY <2>1, <2>2 DEF WalkTypeOK
  <2>6. walk.quiet => next <= Len(rows) /\ walk.got = SubSeq(rows, 1, next)
    BY <1>1, <1>2, <2>1 DEF Window
  <2> QED BY <2>1, <2>3, <2>4, <2>5, <2>6 DEF WalkSound
<1>8. ASSUME NEW k \in ItemKeys, NEW item \in Contents \cup {None}, Change(k, item)
      PROVE  version' \in Nat /\ items' \in LibraryItems /\ stamp' \in [ItemKeys -> Nat]
  <2>1. item \in Item \cup {None}
    BY LibraryAssumption
  <2> QED BY <1>8, <2>1 DEF Change, WalkTypeOK, LibraryItems
<1>9. ASSUME NEW r \in Requests, Write(r) PROVE WalkTypeOK' /\ WalkSound'
  <2>1. version' \in Nat /\ items' \in LibraryItems /\ stamp' \in [ItemKeys -> Nat]
    BY <1>8, <1>9 DEF Write
  <2>2. PICK none \in Seq(ItemKeys) : walk' = [walk EXCEPT !.quiet = FALSE, !.got = none]
    <3>1. <<>> \in Seq(ItemKeys)
      OBVIOUS
    <3> QED BY <1>9, <3>1 DEF Write
  <2>3. WalkTypeOK' /\ walk'.quiet = FALSE
    BY <2>1, <2>2 DEF WalkTypeOK, LibraryItems
  <2> QED BY <2>3 DEF WalkSound
<1>10. ASSUME NEW k \in ItemKeys, Edit(k) PROVE WalkTypeOK' /\ WalkSound'
  <2>1. version' \in Nat /\ items' \in LibraryItems /\ stamp' \in [ItemKeys -> Nat]
    BY <1>8, <1>10 DEF Edit
  <2>2. walk' = [walk EXCEPT !.stage = "done"]
    BY <1>10 DEF Edit
  <2>3. WalkTypeOK' /\ walk'.stage = "done"
    BY <2>1, <2>2 DEF WalkTypeOK, LibraryItems
  <2> QED BY <2>3 DEF WalkSound
<1> QED BY <1>3, <1>4, <1>5, <1>6, <1>7, <1>9, <1>10 DEF NextAll, Listed, allVars, library

(* The reader that walks a listing page by page holds the rows read so far *)
(* and, while nobody writes, has neither skipped nor repeated one.         *)
THEOREM WalkInvariance == SpecAll => []WInv
BY WalkInit, WalkNext, PTL DEF SpecAll

(* Whatever is listed, of however many items, in pages of whatever size:   *)
(* a walk that nobody writes into receives every matching item once, in    *)
(* order, and as many as the count and format=keys say.                    *)
THEOREM WalksExact == SpecAll => []WalkExact
<1>1. WInv => WalkExact
  <2> SUFFICES ASSUME WInv, walk.quiet, walk.stage = "end" PROVE
        /\ walk.got = Listing(items, walk.query)
        /\ Len(walk.got) = walk.total
        /\ Ascending({walk.got[i] : i \in DOMAIN walk.got}) = KeyListing(items, walk.query)
    BY DEF WalkExact
  <2>1. walk.got = Listing(items, walk.query) /\ walk.total = Len(walk.got)
    BY DEF WInv, WalkSound
  <2>2. items \in LibraryItems /\ walk.query \in Query /\ walk.got \in Seq(ItemKeys)
    BY DEF WInv, WalkTypeOK, LibraryItems
  <2>3. Matching(items, walk.query) = {walk.got[i] : i \in 1..Len(walk.got)}
    BY <2>1, <2>2, ListingIs
  <2>4. DOMAIN walk.got = 1..Len(walk.got)
    BY <2>2
  <2>5. Ascending({walk.got[i] : i \in DOMAIN walk.got}) = KeyListing(items, walk.query)
    BY <2>3, <2>4 DEF KeyListing
  <2> QED BY <2>1, <2>5
<1> QED BY <1>1, WalkInvariance, PTL
=============================================================================
