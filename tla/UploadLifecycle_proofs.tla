------------------------ MODULE UploadLifecycle_proofs ------------------------
(***************************************************************************)
(* Theorems about UploadLifecycle, for any uploads, handlers, cleanup      *)
(* passes, replicas and number of failures.                                *)
(***************************************************************************)
EXTENDS UploadLifecycle, TLAPS

(* A row that is gone or given up never comes back to life.                *)
Dead(u) == row[u] = None \/ row[u].state \in {"discarded", "deleting"}

(* What a handler has read of its request is there, and what it has stored *)
(* stays in the bucket as long as somebody could still register it.        *)
HandsSound ==
  \A h \in Handlers :
    /\ hand[h].pc \in {"found", "authorizing"} => hand[h].item \in Items
    /\ hand[h].pc \in {"checked", "claimed", "stored", "failed", "unmarked", "registering"}
         => hand[h].upload \in Uploads /\ hand[h].upload \in issued
    /\ hand[h].pc = "stored" => Dead(hand[h].upload) \/ hand[h].upload \in blobs

(* A pending row is of a token that was issued and not registered, and     *)
(* "uploaded" means that the bucket has the bytes.                         *)
RowsSound ==
  \A u \in Uploads :
    /\ row[u] # None => u \in issued /\ u \notin registered
    /\ InState(u, "uploaded") => u \in blobs
    /\ u \in registered => u \in issued

(* Cleanup passes work on rows that are given up.                          *)
BatchesSound ==
  \A c \in Collectors : \A u \in batch[c] : u \in issued /\ u \notin registered /\ Dead(u)

FilesSound ==
  \A k \in Items : file[k] # None => file[k].blob \in registered /\ file[k].blob \in blobs

Sound == HandsSound /\ RowsSound /\ BatchesSound /\ FilesSound
IInv == TypeOK /\ Sound

(* What the three ways to move on do to the rows and hands.                *)
LEMMA StateSet ==
  ASSUME TypeOK, NEW u \in Uploads, row[u] # None, NEW s \in States, SetState(u, s)
  PROVE  /\ row' \in [Uploads -> {None} \union Pending]
         /\ \A x \in Uploads \ {u} : row'[x] = row[x]
         /\ row'[u].state = s
BY DEF TypeOK, SetState, Pending

LEMMA HandMoved ==
  ASSUME TypeOK, NEW h \in Handlers, NEW p \in Steps, Goto(h, p)
  PROVE  /\ hand' \in [Handlers -> Hand]
         /\ \A g \in Handlers \ {h} : hand'[g] = hand[g]
         /\ hand'[h].pc = p /\ hand'[h].upload = hand[h].upload
BY DEF TypeOK, Goto, Hand

LEMMA HandDone ==
  ASSUME TypeOK, NEW h \in Handlers, Finish(h)
  PROVE  /\ hand' \in [Handlers -> Hand]
         /\ \A g \in Handlers \ {h} : hand'[g] = hand[g]
         /\ hand'[h].pc = "idle"
BY DEF TypeOK, Finish, Idle, Hand, Steps

(* A row that moves among the states of its kind, dead or alive, and a     *)
(* handler that moves on without having stored anything.                   *)
LEMMA StateKept ==
  ASSUME IInv, NEW u \in Uploads, row[u] # None, NEW s \in States, SetState(u, s),
         NEW h \in Handlers,
         Finish(h) \/ \E p \in Steps \ {"found", "authorizing", "stored"} :
                        Goto(h, p) /\ hand[h].pc \in {"checked", "claimed", "stored"},
         Dead(u) => s = "discarded",
         s = "uploaded" => u \in blobs,
         UNCHANGED <<itemVars, issued, bucketVars, registered, passVars, faults>>
  PROVE  IInv'
<1>1. /\ row' \in [Uploads -> {None} \union Pending]
      /\ \A x \in Uploads \ {u} : row'[x] = row[x]
      /\ row'[u].state = s
  BY StateSet DEF IInv
<1>2. /\ hand' \in [Handlers -> Hand]
      /\ \A g \in Handlers \ {h} : hand'[g] = hand[g]
      /\ \/ hand'[h].pc = "idle"
         \/ /\ hand'[h].pc \in Steps \ {"found", "authorizing", "stored"}
            /\ hand[h].pc \in {"checked", "claimed", "stored"}
            /\ hand'[h].upload = hand[h].upload
  BY HandMoved, HandDone DEF IInv
<1>3. TypeOK'
  BY <1>1, <1>2 DEF IInv, TypeOK, itemVars, bucketVars, passVars
<1>4. \A x \in Uploads : Dead(x) => Dead(x)'
  BY <1>1 DEF Dead
<1>5. HandsSound'
  BY <1>2, <1>4 DEF IInv, Sound, HandsSound, bucketVars
<1>6. RowsSound'
  BY <1>1 DEF IInv, Sound, RowsSound, InState, bucketVars
<1>7. BatchesSound'
  BY <1>4 DEF IInv, Sound, BatchesSound, TypeOK, passVars
<1>8. FilesSound'
  BY DEF IInv, Sound, FilesSound, itemVars, bucketVars
<1> QED BY <1>3, <1>5, <1>6, <1>7, <1>8 DEF IInv, Sound

(* A handler that moves on, and nothing else.                              *)
LEMMA HandKept ==
  ASSUME IInv, NEW h \in Handlers,
         Finish(h) \/ \E p \in Steps \ {"found", "authorizing", "stored"} :
                        Goto(h, p) /\ hand[h].pc \in {"checked", "claimed", "stored"},
         UNCHANGED <<itemVars, row, issued, bucketVars, registered, passVars, faults>>
  PROVE  IInv'
<1>2. /\ hand' \in [Handlers -> Hand]
      /\ \A g \in Handlers \ {h} : hand'[g] = hand[g]
      /\ \/ hand'[h].pc = "idle"
         \/ /\ hand'[h].pc \in Steps \ {"found", "authorizing", "stored"}
            /\ hand[h].pc \in {"checked", "claimed", "stored"}
            /\ hand'[h].upload = hand[h].upload
  BY HandMoved, HandDone DEF IInv
<1>3. HandsSound'
  BY <1>2 DEF IInv, Sound, HandsSound, Dead, bucketVars
<1> QED
  BY <1>2, <1>3 DEF IInv, TypeOK, Sound, RowsSound, BatchesSound, FilesSound, InState, Dead,
     itemVars, bucketVars, passVars

(* A handler that begins, with what it has read.                           *)
LEMMA HandSet ==
  ASSUME IInv, NEW h \in Handlers, NEW r \in Hand, hand' = [hand EXCEPT ![h] = r],
         \/ r.pc = "found" /\ r.item \in Items
         \/ r.pc \in {"checked", "registering"} /\ r.upload \in Uploads /\ r.upload \in issued,
         UNCHANGED <<itemVars, row, issued, bucketVars, registered, passVars, faults>>
  PROVE  IInv'
<1>1. /\ hand' \in [Handlers -> Hand] /\ hand'[h] = r
      /\ \A g \in Handlers \ {h} : hand'[g] = hand[g]
  BY DEF IInv, TypeOK
<1>2. HandsSound'
  BY <1>1 DEF IInv, Sound, HandsSound, Dead, bucketVars
<1> QED
  BY <1>1, <1>2 DEF IInv, TypeOK, Sound, RowsSound, BatchesSound, FilesSound, InState, Dead,
     itemVars, bucketVars, passVars

LEMMA InitInvariant == Init => IInv
BY BoundsAssumption
   DEF Init, IInv, Sound, TypeOK, HandsSound, RowsSound, BatchesSound, FilesSound, InState,
       Idle, Hand, Steps

LEMMA AttachStep ==
  ASSUME IInv, NEW k \in Items, Attach(k) \/ Detach(k)
  PROVE  IInv'
BY DEF IInv, Sound, TypeOK, HandsSound, RowsSound, BatchesSound, FilesSound, InState, Dead,
       Attach, Detach, bucketVars, passVars

LEMMA FindStep ==
  ASSUME IInv, NEW h \in Handlers, AuthorizeFind(h) \/ PutLookup(h) \/ RegisterLookup(h)
  PROVE  IInv'
<1>1. UNCHANGED <<itemVars, row, issued, bucketVars, registered, passVars, faults>>
  BY DEF AuthorizeFind, PutLookup, RegisterLookup
<1>2. CASE AuthorizeFind(h)
  <2>1. PICK k \in Items : hand' = [hand EXCEPT ![h] = [Idle EXCEPT !.pc = "found", !.item = k]]
    BY <1>2 DEF AuthorizeFind
  <2>2. PICK r : r = [Idle EXCEPT !.pc = "found", !.item = k]
    OBVIOUS
  <2>3. r \in Hand /\ r.pc = "found" /\ r.item = k
    BY <2>2 DEF Idle, Hand, Steps
  <2> QED BY <1>1, <2>1, <2>2, <2>3, HandSet
<1>3. ASSUME PutLookup(h) \/ RegisterLookup(h) PROVE IInv'
  <2>1. PICK u \in Uploads, p \in {"checked", "registering"} :
          row[u] # None /\ hand' = [hand EXCEPT ![h] = [Idle EXCEPT !.pc = p, !.upload = u]]
    BY <1>3 DEF PutLookup, RegisterLookup, Valid
  <2>2. PICK r : r = [Idle EXCEPT !.pc = p, !.upload = u]
    OBVIOUS
  <2>3. r \in Hand /\ r.pc = p /\ r.upload = u
    BY <2>2 DEF Idle, Hand, Steps
  <2>4. u \in issued
    BY <2>1 DEF IInv, Sound, RowsSound
  <2> QED BY <1>1, <2>1, <2>2, <2>3, <2>4, HandSet
<1> QED BY <1>2, <1>3

LEMMA ReadStep ==
  ASSUME IInv, NEW h \in Handlers, AuthorizeRead(h)
  PROVE  IInv'
<1>1. /\ At(h, "found") /\ hand[h].item \in Items /\ hand[h] \in Hand
      /\ UNCHANGED <<itemVars, row, issued, bucketVars, registered, passVars, faults>>
  BY DEF AuthorizeRead, At, IInv, Sound, HandsSound, TypeOK
<1>2. CASE Finish(h)
  BY <1>1, <1>2, HandKept
<1>3. CASE hand' = [hand EXCEPT ![h].pc = "authorizing",
                                ![h].expected = Md5Of(hand[h].item)]
  <2>1. Md5Of(hand[h].item) \in {None} \union Hashes
    BY <1>1 DEF Md5Of, File, IInv, TypeOK
  <2>2. hand'[h] = [pc |-> "authorizing", upload |-> hand[h].upload,
                    item |-> hand[h].item, expected |-> Md5Of(hand[h].item)]
    BY <1>1, <1>3 DEF IInv, TypeOK, Hand
  <2>3. hand'[h] \in Hand
    BY <1>1, <2>1, <2>2 DEF Hand, Steps
  <2>4. /\ hand' \in [Handlers -> Hand]
        /\ \A g \in Handlers \ {h} : hand'[g] = hand[g]
    BY <1>3, <2>3 DEF IInv, TypeOK
  <2>5. HandsSound'
    BY <1>1, <2>2, <2>4 DEF IInv, Sound, HandsSound, Dead, bucketVars
  <2> QED
    BY <1>1, <2>4, <2>5 DEF IInv, TypeOK, Sound, RowsSound, BatchesSound, FilesSound,
       InState, Dead, itemVars, bucketVars, passVars
<1> QED BY <1>2, <1>3 DEF AuthorizeRead

LEMMA InsertStep ==
  ASSUME IInv, NEW h \in Handlers, AuthorizeInsert(h)
  PROVE  IInv'
<1>1. PICK u \in Uploads \ issued, md5 \in Hashes :
        /\ issued' = issued \union {u}
        /\ row' = [row EXCEPT ![u] =
             [item |-> hand[h].item, expected |-> hand[h].expected, md5 |-> md5,
              state |-> "authorized", expired |-> FALSE, recent |-> FALSE]]
  BY DEF AuthorizeInsert
<1>2. /\ Finish(h) /\ hand[h].item \in Items /\ hand[h].expected \in {None} \union Hashes
      /\ UNCHANGED <<itemVars, bucketVars, registered, passVars, faults>>
  BY DEF AuthorizeInsert, At, IInv, Sound, HandsSound, TypeOK, Hand
<1>3. [item |-> hand[h].item, expected |-> hand[h].expected, md5 |-> md5,
       state |-> "authorized", expired |-> FALSE, recent |-> FALSE] \in Pending
  BY <1>2 DEF Pending, States
<1>4. /\ hand' \in [Handlers -> Hand]
      /\ \A g \in Handlers \ {h} : hand'[g] = hand[g]
      /\ hand'[h].pc = "idle"
  BY <1>2, HandDone DEF IInv
<1>5. /\ row' \in [Uploads -> {None} \union Pending]
      /\ \A x \in Uploads \ {u} : row'[x] = row[x]
      /\ row'[u].state = "authorized"
  BY <1>1, <1>3 DEF IInv, TypeOK
<1>6. TypeOK'
  BY <1>1, <1>2, <1>4, <1>5 DEF IInv, TypeOK, itemVars, bucketVars, passVars
<1>7. HandsSound'
  BY <1>1, <1>2, <1>4, <1>5 DEF IInv, Sound, HandsSound, Dead, bucketVars
<1>8. RowsSound'
  BY <1>1, <1>2, <1>5 DEF IInv, Sound, RowsSound, InState, bucketVars
<1>9. BatchesSound'
  BY <1>1, <1>2, <1>5 DEF IInv, TypeOK, Sound, BatchesSound, Dead, passVars
<1> QED BY <1>2, <1>6, <1>7, <1>8, <1>9 DEF IInv, Sound, FilesSound, itemVars, bucketVars

LEMMA ClaimStep ==
  ASSUME IInv, NEW h \in Handlers, PutClaim(h)
  PROVE  IInv'
<1>1. /\ hand[h].pc = "checked" /\ hand[h].upload \in Uploads
      /\ UNCHANGED <<itemVars, issued, bucketVars, registered, passVars, faults>>
  BY DEF PutClaim, At, IInv, Sound, HandsSound
<1>2. CASE InState(hand[h].upload, "authorized") /\ SetState(hand[h].upload, "uploading")
             /\ Goto(h, "claimed")
  BY <1>1, <1>2, StateKept DEF InState, Dead, States, Steps
<1>3. CASE Finish(h) /\ UNCHANGED row
  BY <1>1, <1>3, HandKept
<1> QED BY <1>2, <1>3 DEF PutClaim

LEMMA StoreStep ==
  ASSUME IInv, NEW h \in Handlers, PutStore(h)
  PROVE  IInv'
<1>1. /\ hand[h].pc = "claimed" /\ hand[h].upload \in Uploads /\ hand[h].upload \in issued
      /\ UNCHANGED <<itemVars, row, issued, registered, passVars>>
  BY DEF PutStore, At, IInv, Sound, HandsSound
<1>2. PICK p \in {"stored", "failed"} :
        /\ Goto(h, p) /\ faults' \in 0..MaxFaults
        /\ blobs \subseteq blobs' /\ blobs' \subseteq Uploads /\ strays' \subseteq Uploads
        /\ p = "stored" => hand[h].upload \in blobs'
  BY <1>1, BoundsAssumption DEF PutStore, Fault, IInv, TypeOK
<1>3. /\ hand' \in [Handlers -> Hand]
      /\ \A g \in Handlers \ {h} : hand'[g] = hand[g]
      /\ hand'[h].pc = p /\ hand'[h].upload = hand[h].upload
  BY <1>2, HandMoved DEF IInv, Steps
<1>4. TypeOK'
  BY <1>1, <1>2, <1>3 DEF IInv, TypeOK, itemVars, passVars
<1>5. HandsSound'
  BY <1>1, <1>2, <1>3 DEF IInv, Sound, HandsSound, Dead
<1> QED
  BY <1>1, <1>2, <1>4, <1>5 DEF IInv, Sound, RowsSound, BatchesSound, FilesSound, InState,
     Dead, itemVars, passVars

LEMMA ResetStep ==
  ASSUME IInv, NEW h \in Handlers, PutReset(h)
  PROVE  IInv'
<1>1. /\ Finish(h) /\ hand[h].upload \in Uploads
      /\ UNCHANGED <<itemVars, issued, bucketVars, registered, passVars, faults>>
  BY DEF PutReset, At, IInv, Sound, HandsSound
<1>2. ASSUME NEW s \in {"authorized", "discarded"}, InState(hand[h].upload, "uploading"),
             SetState(hand[h].upload, s)
      PROVE  IInv'
  BY <1>1, <1>2, StateKept DEF InState, Dead, States
<1>3. CASE UNCHANGED row
  BY <1>1, <1>3, HandKept
<1> QED BY <1>2, <1>3 DEF PutReset

LEMMA MarkStep ==
  ASSUME IInv, NEW h \in Handlers, PutMark(h)
  PROVE  IInv'
<1>1. /\ hand[h].pc = "stored" /\ hand[h].upload \in Uploads
      /\ Dead(hand[h].upload) \/ hand[h].upload \in blobs
      /\ UNCHANGED <<itemVars, issued, bucketVars, registered, passVars, faults>>
  BY DEF PutMark, At, IInv, Sound, HandsSound
<1>2. CASE InState(hand[h].upload, "uploading") /\ SetState(hand[h].upload, "uploaded")
             /\ Finish(h)
  BY <1>1, <1>2, StateKept DEF InState, Dead, States
<1>3. CASE Goto(h, "unmarked") /\ UNCHANGED row
  BY <1>1, <1>3, HandKept DEF Steps
<1> QED BY <1>2, <1>3 DEF PutMark

LEMMA DiscardStep ==
  ASSUME IInv, NEW h \in Handlers, PutDiscard(h)
  PROVE  IInv'
<1>1. /\ Finish(h) /\ hand[h].upload \in Uploads
      /\ UNCHANGED <<itemVars, issued, bucketVars, registered, passVars, faults>>
  BY DEF PutDiscard, At, IInv, Sound, HandsSound
<1>2. CASE InState(hand[h].upload, "uploading") /\ SetState(hand[h].upload, "discarded")
  BY <1>1, <1>2, StateKept DEF InState, Dead, States
<1>3. CASE UNCHANGED row
  BY <1>1, <1>3, HandKept
<1> QED BY <1>2, <1>3 DEF PutDiscard

LEMMA RegisterStep ==
  ASSUME IInv, NEW h \in Handlers, RegisterFile(h)
  PROVE  IInv'
<1> DEFINE u == hand[h].upload
           k == row[u].item
<1>1. /\ Finish(h) /\ u \in Uploads /\ u \in issued
      /\ UNCHANGED <<attachment, issued, bucketVars, passVars, faults>>
  BY DEF RegisterFile, At, IInv, Sound, HandsSound
<1>2. CASE UNCHANGED <<file, row, registered>>
  BY <1>1, <1>2, HandKept DEF itemVars
<1>3. CASE row[u] # None /\ SetState(u, "discarded") /\ UNCHANGED <<file, registered>>
  BY <1>1, <1>3, StateKept DEF States, itemVars
<1>4. CASE /\ InState(u, "uploaded")
           /\ file' = [file EXCEPT ![k] = [blob |-> u, md5 |-> row[u].md5]]
           /\ row' = [row EXCEPT ![u] = None]
           /\ registered' = registered \union {u}
  <2>1. /\ k \in Items /\ row[u].md5 \in Hashes /\ row[u] # None /\ u \in blobs
        /\ u \notin registered /\ ~Dead(u)
    BY <1>1, <1>4 DEF IInv, TypeOK, Pending, Sound, RowsSound, InState, Dead
  <2>2. /\ hand' \in [Handlers -> Hand]
        /\ \A g \in Handlers \ {h} : hand'[g] = hand[g]
        /\ hand'[h].pc = "idle"
    BY <1>1, HandDone DEF IInv
  <2>3. /\ row' \in [Uploads -> {None} \union Pending]
        /\ \A x \in Uploads \ {u} : row'[x] = row[x]
        /\ row'[u] = None
    BY <1>1, <1>4 DEF IInv, TypeOK
  <2>4. /\ file' \in [Items -> {None} \union File]
        /\ \A x \in Items \ {k} : file'[x] = file[x]
        /\ file'[k].blob = u
    BY <1>1, <1>4, <2>1 DEF IInv, TypeOK, File
  <2>5. TypeOK'
    BY <1>1, <1>4, <2>2, <2>3, <2>4 DEF IInv, TypeOK, bucketVars, passVars
  <2>6. HandsSound'
    BY <1>1, <2>2, <2>3 DEF IInv, Sound, HandsSound, Dead, bucketVars
  <2>7. RowsSound'
    BY <1>1, <1>4, <2>3 DEF IInv, Sound, RowsSound, InState, bucketVars
  <2>8. BatchesSound'
    BY <1>1, <1>4, <2>1, <2>3 DEF IInv, TypeOK, Sound, BatchesSound, Dead, passVars
  <2>9. FilesSound'
    BY <1>1, <1>4, <2>1, <2>4 DEF IInv, Sound, FilesSound, bucketVars
  <2> QED BY <2>5, <2>6, <2>7, <2>8, <2>9 DEF IInv, Sound
<1> HIDE DEF u, k
<1> QED BY <1>2, <1>3, <1>4 DEF RegisterFile, Register, u, k, InState

LEMMA CollectStep ==
  ASSUME IInv, NEW c \in Collectors, CleanupClaim(c)
  PROVE  IInv'
<1>1. PICK claimed \in SUBSET {u \in Uploads : Garbage(u)} :
        /\ row' = [u \in Uploads |->
             IF u \in claimed
             THEN [row[u] EXCEPT !.state = "deleting", !.recent = TRUE]
             ELSE row[u]]
        /\ batch' = [batch EXCEPT ![c] = claimed]
  BY DEF CleanupClaim
<1>2. UNCHANGED <<itemVars, issued, bucketVars, registered, hand, erased, faults>>
  BY DEF CleanupClaim
<1>3. ASSUME NEW u \in claimed
      PROVE  /\ row[u] # None /\ u \in Uploads
             /\ row'[u] \in Pending /\ row'[u].state = "deleting"
  <2>1. row[u] \in Pending /\ row[u] # None
    BY DEF Garbage, IInv, TypeOK
  <2>2. row'[u] = [item |-> row[u].item, expected |-> row[u].expected, md5 |-> row[u].md5,
                   state |-> "deleting", expired |-> row[u].expired, recent |-> TRUE]
    BY <1>1, <2>1 DEF Pending
  <2> QED BY <2>1, <2>2 DEF Pending, States
<1>4. /\ row' \in [Uploads -> {None} \union Pending]
      /\ \A u \in Uploads \ claimed : row'[u] = row[u]
  BY <1>1, <1>3 DEF IInv, TypeOK
<1>5. TypeOK'
  BY <1>1, <1>2, <1>4 DEF IInv, TypeOK, itemVars, bucketVars
<1>6. \A u \in Uploads : Dead(u) \/ u \in claimed => Dead(u)'
  BY <1>3, <1>4 DEF Dead
<1>7. HandsSound'
  BY <1>2, <1>6 DEF IInv, Sound, HandsSound, bucketVars
<1>8. RowsSound'
  BY <1>2, <1>3, <1>4 DEF IInv, Sound, RowsSound, InState, bucketVars
<1>9. BatchesSound'
  <2>1. \A u \in claimed : u \in issued /\ u \notin registered
    BY <1>3 DEF IInv, Sound, RowsSound
  <2> QED BY <1>1, <1>2, <1>3, <1>6, <2>1 DEF IInv, TypeOK, Sound, BatchesSound
<1> QED
  BY <1>2, <1>5, <1>7, <1>8, <1>9 DEF IInv, Sound, FilesSound, itemVars, bucketVars

LEMMA DeleteStep ==
  ASSUME IInv, NEW c \in Collectors, CleanupDelete(c)
  PROVE  IInv'
BY BoundsAssumption
   DEF IInv, Sound, TypeOK, HandsSound, RowsSound, BatchesSound, FilesSound, InState, Dead,
       CleanupDelete, Fault, itemVars, bucketVars, passVars

LEMMA RowStep ==
  ASSUME IInv, NEW c \in Collectors, CleanupRow(c)
  PROVE  IInv'
BY DEF IInv, Sound, TypeOK, HandsSound, RowsSound, BatchesSound, FilesSound, InState, Dead,
       CleanupRow, Pending, States, itemVars, bucketVars, passVars

LEMMA LostStep ==
  ASSUME IInv, NEW h \in Handlers, HandlerLost(h)
  PROVE  IInv'
<1>1. /\ Finish(h) /\ faults' \in 0..MaxFaults
      /\ UNCHANGED <<itemVars, row, issued, blobs, registered, passVars>>
  BY BoundsAssumption DEF HandlerLost, Fault, IInv, TypeOK
<1>2. strays' \subseteq Uploads
  BY DEF HandlerLost, At, IInv, TypeOK, Sound, HandsSound
<1>3. /\ hand' \in [Handlers -> Hand]
      /\ \A g \in Handlers \ {h} : hand'[g] = hand[g]
      /\ hand'[h].pc = "idle"
  BY <1>1, HandDone DEF IInv
<1>4. TypeOK'
  BY <1>1, <1>2, <1>3 DEF IInv, TypeOK, itemVars, passVars
<1>5. HandsSound'
  BY <1>1, <1>3 DEF IInv, Sound, HandsSound, Dead
<1> QED
  BY <1>1, <1>4, <1>5 DEF IInv, Sound, RowsSound, BatchesSound, FilesSound, InState, Dead,
     itemVars, passVars

LEMMA PassLostStep ==
  ASSUME IInv, NEW c \in Collectors, CleanupLost(c)
  PROVE  IInv'
BY BoundsAssumption
   DEF IInv, Sound, TypeOK, HandsSound, RowsSound, BatchesSound, FilesSound, InState, Dead,
       CleanupLost, Fault, itemVars, bucketVars

LEMMA RestartStep ==
  ASSUME IInv, NEW replica \in Replicas, Restart(replica)
  PROVE  IInv'
<1>1. /\ faults' \in 0..MaxFaults /\ strays' \subseteq Uploads
      /\ UNCHANGED <<itemVars, issued, blobs, registered>>
  BY BoundsAssumption DEF Restart, Fault, At, IInv, TypeOK, Sound, HandsSound
<1>2. /\ hand' \in [Handlers -> Hand]
      /\ \A g \in Handlers : hand'[g] = hand[g] \/ hand'[g].pc = "idle"
  BY DEF Restart, IInv, TypeOK, Idle, Hand, Steps
<1>3. /\ batch' \in [Collectors -> SUBSET Uploads]
      /\ erased' \in [Collectors -> {None} \union Uploads]
      /\ \A c \in Collectors : batch'[c] \subseteq batch[c]
  BY DEF Restart, IInv, TypeOK
<1>4. ASSUME NEW u \in Uploads
      PROVE  /\ row'[u] \in {None} \union Pending
             /\ \/ row'[u] = row[u]
                \/ InState(u, "uploading") /\ row'[u].state = "authorized"
  BY DEF Restart, IInv, TypeOK, InState, Pending, States
<1>5. TypeOK'
  <2>1. row' \in [Uploads -> {None} \union Pending]
    BY <1>4 DEF Restart
  <2> QED BY <1>1, <1>2, <1>3, <2>1 DEF IInv, TypeOK, itemVars
<1>6. \A u \in Uploads : Dead(u) => Dead(u)'
  BY <1>4 DEF Dead, InState
<1>7. HandsSound'
  BY <1>1, <1>2, <1>6 DEF IInv, Sound, HandsSound
<1>8. RowsSound'
  BY <1>1, <1>4 DEF IInv, Sound, RowsSound, InState
<1>9. BatchesSound'
  BY <1>1, <1>3, <1>6 DEF IInv, TypeOK, Sound, BatchesSound
<1> QED BY <1>1, <1>5, <1>7, <1>8, <1>9 DEF IInv, Sound, FilesSound, itemVars

LEMMA TimeStep ==
  ASSUME IInv, NEW u \in Uploads, StrayLands(u) \/ Expire(u) \/ MinutePasses(u)
  PROVE  IInv'
<1>1. CASE StrayLands(u)
  BY <1>1 DEF StrayLands, IInv, TypeOK, Sound, HandsSound, RowsSound, BatchesSound, FilesSound,
     InState, Dead, itemVars, passVars
<1>2. CASE Expire(u) \/ MinutePasses(u)
  <2>1. /\ row' \in [Uploads -> {None} \union Pending]
        /\ \A x \in Uploads \ {u} : row'[x] = row[x]
        /\ row[u] # None /\ row'[u].state = row[u].state
    <3>1. CASE Expire(u)
      BY <3>1 DEF Expire, Valid, IInv, TypeOK, Pending
    <3>2. CASE MinutePasses(u)
      BY <3>2 DEF MinutePasses, IInv, TypeOK, Pending
    <3> QED BY <1>2, <3>1, <3>2
  <2>2. UNCHANGED <<itemVars, issued, bucketVars, registered, hand, passVars, faults>>
    BY <1>2 DEF Expire, MinutePasses
  <2>3. TypeOK'
    BY <2>1, <2>2 DEF IInv, TypeOK, itemVars, bucketVars, passVars
  <2>4. \A x \in Uploads : Dead(x) => Dead(x)'
    BY <2>1 DEF Dead
  <2>5. HandsSound'
    BY <2>2, <2>4 DEF IInv, Sound, HandsSound, bucketVars
  <2>6. RowsSound'
    BY <2>1, <2>2 DEF IInv, Sound, RowsSound, InState, bucketVars
  <2>7. BatchesSound'
    BY <2>2, <2>4 DEF IInv, TypeOK, Sound, BatchesSound, passVars
  <2> QED BY <2>2, <2>3, <2>5, <2>6, <2>7 DEF IInv, Sound, FilesSound, itemVars, bucketVars
<1> QED BY <1>1, <1>2

LEMMA NextInvariant == IInv /\ [Next]_vars => IInv'
<1> SUFFICES ASSUME IInv, [Next]_vars PROVE IInv'
  OBVIOUS
<1>1. CASE UNCHANGED vars
  BY <1>1 DEF vars, IInv, Sound, TypeOK, HandsSound, RowsSound, BatchesSound, FilesSound,
     InState, Dead, itemVars, bucketVars, passVars
<1>2. ASSUME NEW h \in Handlers, Handle(h) PROVE IInv'
  BY <1>2, ReadStep, InsertStep, ClaimStep, StoreStep, ResetStep, MarkStep, DiscardStep,
     RegisterStep DEF Handle
<1>3. ASSUME NEW h \in Handlers, Arrive(h) PROVE IInv'
  BY <1>3, FindStep DEF Arrive
<1>4. ASSUME NEW c \in Collectors, Collect(c) PROVE IInv'
  BY <1>4, CollectStep, DeleteStep, RowStep DEF Collect
<1> QED
  BY <1>1, <1>2, <1>3, <1>4, AttachStep, LostStep, PassLostStep, RestartStep, TimeStep
     DEF Next, Tick

---------------------------------------------------------------------------
(* One process: a restart interrupts every handler whose row it resets.    *)
SingleReplica == Replicas = {Handlers \union Collectors}

(* With one replica at most one handler holds an upload, nobody holds one  *)
(* that is open to a claim, its bytes are sent while the row says so, and  *)
(* what was stored is not sent again.                                      *)
HoldersSound ==
  /\ \A g, h \in Handlers : \A u \in Uploads : Holds(g, u) /\ Holds(h, u) => g = h
  /\ \A h \in Handlers : \A u \in Uploads : InState(u, "authorized") => ~Holds(h, u)
  /\ \A h \in Handlers :
       /\ hand[h].pc = "claimed" => InState(hand[h].upload, "uploading")
       /\ hand[h].pc = "registering" =>
            Dead(hand[h].upload) \/ InState(hand[h].upload, "uploaded")

(* A pass deletes the row of a candidate the bucket no longer has.         *)
ErasedSound ==
  \A c \in Collectors : erased[c] # None =>
    erased[c] \in batch[c] /\ (erased[c] \notin blobs \/ erased[c] \in strays)

JInv == SingleReplica /\ IInv /\ HoldersSound /\ ErasedSound /\ CandidatesTracked

LEMMA JInit == SingleReplica /\ Init => JInv
BY InitInvariant
   DEF Init, JInv, HoldersSound, ErasedSound, CandidatesTracked, InState, Holds, Idle

(* Rows, hands and the bucket when one handler moves on with its upload,   *)
(* whose row changes from one state to another or not at all.              *)
LEMMA HandlerKeeps ==
  ASSUME JInv, NEW h \in Handlers, NEW u \in Uploads, hand[h].upload = u,
         \A g \in Handlers \ {h} : hand'[g] = hand[g],
         \A x \in Uploads \ {u} : row'[x] = row[x],
         \/ hand'[h].pc = "idle"
         \/ hand'[h].upload = u /\ hand'[h].pc \in {"claimed", "stored", "failed", "unmarked"}
         \/ hand'[h] = hand[h],
         \* what becomes of the row
         \/ row'[u] = row[u] /\ hand'[h].pc # "claimed" /\ (Holds(h, u)' => Holds(h, u))
         \/ /\ InState(u, "authorized") /\ row'[u] # None /\ row'[u].state = "uploading"
            /\ hand'[h].pc = "claimed"
         \/ /\ Holds(h, u) /\ InState(u, "uploading") /\ row'[u] # None
            /\ row'[u].state \in {"authorized", "uploaded", "discarded"}
            /\ hand'[h].pc = "idle",
         UNCHANGED <<blobs, strays, registered, batch, erased>>
  PROVE  HoldersSound' /\ ErasedSound' /\ CandidatesTracked'
<1>1. \A g \in Handlers \ {h} : \A x \in Uploads : Holds(g, x)' <=> Holds(g, x)
  BY DEF Holds
<1>2. HoldersSound'
  <2>1. \A g, i \in Handlers : \A x \in Uploads : Holds(g, x)' /\ Holds(i, x)' => g = i
    BY <1>1 DEF JInv, HoldersSound, Holds
  <2>2. \A g \in Handlers : \A x \in Uploads : InState(x, "authorized")' => ~Holds(g, x)'
    BY <1>1 DEF JInv, HoldersSound, Holds, InState
  <2>3. ASSUME NEW g \in Handlers
        PROVE  /\ hand'[g].pc = "claimed" => InState(hand[g].upload, "uploading")'
               /\ hand'[g].pc = "registering" =>
                    Dead(hand[g].upload)' \/ InState(hand[g].upload, "uploaded")'
    BY <1>1 DEF JInv, IInv, Sound, HandsSound, HoldersSound, Holds, InState, Dead
  <2> QED BY <2>1, <2>2, <2>3 DEF HoldersSound, Holds, InState, Dead
<1>3. ErasedSound'
  BY DEF JInv, ErasedSound
<1>4. CandidatesTracked'
  BY DEF JInv, CandidatesTracked, InState, IInv, TypeOK
<1> QED BY <1>2, <1>3, <1>4

(* What else keeps it: steps that leave the holders and rows alone.        *)
LEMMA NobodyHolds ==
  ASSUME JInv, NEW h \in Handlers,
         \A g \in Handlers \ {h} : hand'[g] = hand[g],
         \/ hand'[h].pc \in {"idle", "found", "authorizing", "checked"}
         \/ hand'[h].pc = "registering" /\ InState(hand'[h].upload, "uploaded"),
         blobs' = blobs, strays \subseteq strays',
         UNCHANGED <<row, registered, batch, erased>>
  PROVE  HoldersSound' /\ ErasedSound' /\ CandidatesTracked'
<1>1. HoldersSound'
  BY DEF JInv, HoldersSound, Holds, InState, Dead
<1>2. ErasedSound'
  BY DEF JInv, ErasedSound
<1>3. CandidatesTracked'
  BY DEF JInv, CandidatesTracked
<1> QED BY <1>1, <1>2, <1>3

LEMMA StateStays ==
  ASSUME TypeOK, NEW u \in Uploads, row[u] # None, NEW s \in States, SetState(u, s)
  PROVE  /\ \A x \in Uploads \ {u} : row'[x] = row[x]
         /\ row'[u] # None /\ row'[u].state = s
<1>1. row[u] \in Pending
  BY DEF TypeOK
<1>2. row'[u] \in Pending
  BY <1>1 DEF TypeOK, SetState, Pending
<1> QED BY <1>2, StateSet, NoneAssumption

LEMMA HandlesKeep ==
  ASSUME JInv, NEW h \in Handlers,
         PutClaim(h) \/ PutReset(h) \/ PutMark(h) \/ PutDiscard(h)
  PROVE  HoldersSound' /\ ErasedSound' /\ CandidatesTracked'
<1> DEFINE u == hand[h].upload
<1>1. /\ u \in Uploads
      /\ UNCHANGED <<blobs, strays, registered, batch, erased>>
      /\ TypeOK
  BY DEF PutClaim, PutReset, PutMark, PutDiscard, At, JInv, IInv, Sound, HandsSound,
     bucketVars, passVars
<1>2. ASSUME NEW s \in States, InState(u, s)
      PROVE  row[u] # None
  BY <1>2 DEF InState
<1>3. CASE PutClaim(h)
  <2>1. CASE InState(u, "authorized") /\ SetState(u, "uploading") /\ Goto(h, "claimed")
    <3>1. /\ \A x \in Uploads \ {u} : row'[x] = row[x]
          /\ row'[u] # None /\ row'[u].state = "uploading"
      BY <1>1, <1>2, <2>1, StateStays DEF States
    <3>2. /\ \A g \in Handlers \ {h} : hand'[g] = hand[g]
          /\ hand'[h].pc = "claimed" /\ hand'[h].upload = u
      BY <1>1, <2>1, HandMoved DEF Steps
    <3> QED BY <1>1, <2>1, <3>1, <3>2, HandlerKeeps
  <2>2. CASE Finish(h) /\ UNCHANGED row
    BY <1>1, <2>2, HandDone, HandlerKeeps DEF Holds
  <2> QED BY <1>3, <2>1, <2>2 DEF PutClaim
<1>4. CASE PutReset(h)
  <2>1. ASSUME NEW s \in {"authorized", "discarded"}, InState(u, "uploading"), SetState(u, s)
        PROVE  HoldersSound' /\ ErasedSound' /\ CandidatesTracked'
    <3>1. /\ \A x \in Uploads \ {u} : row'[x] = row[x]
          /\ row'[u] # None /\ row'[u].state = s
      BY <1>1, <1>2, <2>1, StateStays DEF States
    <3>2. /\ \A g \in Handlers \ {h} : hand'[g] = hand[g]
          /\ hand'[h].pc = "idle" /\ Holds(h, u)
      BY <1>1, <1>4, HandDone DEF PutReset, At, Holds
    <3> QED BY <1>1, <2>1, <3>1, <3>2, HandlerKeeps
  <2>2. CASE UNCHANGED row
    <3>1. Finish(h)
      BY <1>4 DEF PutReset
    <3> QED BY <1>1, <2>2, <3>1, HandDone, HandlerKeeps DEF Holds
  <2> QED BY <1>4, <2>1, <2>2 DEF PutReset
<1>5. CASE PutMark(h)
  <2>1. CASE InState(u, "uploading") /\ SetState(u, "uploaded") /\ Finish(h)
    <3>1. /\ \A x \in Uploads \ {u} : row'[x] = row[x]
          /\ row'[u] # None /\ row'[u].state = "uploaded"
      BY <1>1, <1>2, <2>1, StateStays DEF States
    <3>2. /\ \A g \in Handlers \ {h} : hand'[g] = hand[g]
          /\ hand'[h].pc = "idle" /\ Holds(h, u)
      BY <1>1, <1>5, <2>1, HandDone DEF PutMark, At, Holds
    <3> QED BY <1>1, <2>1, <3>1, <3>2, HandlerKeeps
  <2>2. CASE Goto(h, "unmarked") /\ UNCHANGED row
    <3>1. /\ \A g \in Handlers \ {h} : hand'[g] = hand[g]
          /\ hand'[h].pc = "unmarked" /\ hand'[h].upload = u /\ Holds(h, u)
      BY <1>1, <1>5, <2>2, HandMoved DEF PutMark, At, Holds, Steps
    <3> QED BY <1>1, <2>2, <3>1, HandlerKeeps
  <2> QED BY <1>5, <2>1, <2>2 DEF PutMark
<1>6. CASE PutDiscard(h)
  <2>1. CASE InState(u, "uploading") /\ SetState(u, "discarded")
    <3>1. /\ \A x \in Uploads \ {u} : row'[x] = row[x]
          /\ row'[u] # None /\ row'[u].state = "discarded"
      BY <1>1, <1>2, <2>1, StateStays DEF States
    <3>2. /\ \A g \in Handlers \ {h} : hand'[g] = hand[g]
          /\ hand'[h].pc = "idle" /\ Holds(h, u)
      BY <1>1, <1>6, HandDone DEF PutDiscard, At, Holds
    <3> QED BY <1>1, <2>1, <3>1, <3>2, HandlerKeeps
  <2>2. CASE UNCHANGED row
    <3>1. Finish(h)
      BY <1>6 DEF PutDiscard
    <3> QED BY <1>1, <2>2, <3>1, HandDone, HandlerKeeps DEF Holds
  <2> QED BY <1>6, <2>1, <2>2 DEF PutDiscard
<1> QED BY <1>3, <1>4, <1>5, <1>6

LEMMA ArriveKeeps ==
  ASSUME JInv, NEW h \in Handlers, Arrive(h) \/ AuthorizeRead(h) \/ HandlerLost(h)
  PROVE  HoldersSound' /\ ErasedSound' /\ CandidatesTracked'
<1>1. /\ blobs' = blobs /\ strays \subseteq strays'
      /\ UNCHANGED <<row, registered, batch, erased>>
  BY DEF Arrive, AuthorizeFind, PutLookup, RegisterLookup, AuthorizeRead, HandlerLost,
     bucketVars, passVars
<1>2. \A g \in Handlers \ {h} : hand'[g] = hand[g]
  BY DEF Arrive, AuthorizeFind, PutLookup, RegisterLookup, AuthorizeRead, HandlerLost,
     Finish, JInv, IInv, TypeOK
<1>3. \/ hand'[h].pc \in {"idle", "found", "authorizing", "checked"}
      \/ hand'[h].pc = "registering" /\ InState(hand'[h].upload, "uploaded")
  <2>1. ASSUME NEW r, hand' = [hand EXCEPT ![h] = r]
        PROVE  hand'[h] = r
    BY <2>1 DEF JInv, IInv, TypeOK
  <2>2. CASE AuthorizeFind(h)
    <3>1. PICK k \in Items :
            hand' = [hand EXCEPT ![h] = [Idle EXCEPT !.pc = "found", !.item = k]]
      BY <2>2 DEF AuthorizeFind
    <3>2. PICK r : r = [Idle EXCEPT !.pc = "found", !.item = k]
      OBVIOUS
    <3>3. r.pc = "found"
      BY <3>2 DEF Idle
    <3> QED BY <2>1, <3>1, <3>2, <3>3
  <2>3. CASE PutLookup(h) \/ RegisterLookup(h)
    <3>1. PICK u \in Uploads, p \in {"checked", "registering"} :
            /\ p = "registering" => InState(u, "uploaded")
            /\ hand' = [hand EXCEPT ![h] = [Idle EXCEPT !.pc = p, !.upload = u]]
      BY <2>3 DEF PutLookup, RegisterLookup
    <3>2. PICK r : r = [Idle EXCEPT !.pc = p, !.upload = u]
      OBVIOUS
    <3>3. r.pc = p /\ r.upload = u
      BY <3>2 DEF Idle
    <3> QED BY <2>1, <3>1, <3>2, <3>3
  <2>4. CASE AuthorizeRead(h)
    <3>1. CASE Finish(h)
      BY <3>1, HandDone DEF JInv, IInv
    <3>2. CASE hand' = [hand EXCEPT ![h].pc = "authorizing",
                                    ![h].expected = Md5Of(hand[h].item)]
      BY <3>2 DEF JInv, IInv, TypeOK, Hand
    <3> QED BY <2>4, <3>1, <3>2 DEF AuthorizeRead
  <2>5. CASE HandlerLost(h)
    BY <2>5, HandDone DEF HandlerLost, JInv, IInv
  <2> QED BY <2>2, <2>3, <2>4, <2>5 DEF Arrive
<1> QED BY <1>1, <1>2, <1>3, NobodyHolds

LEMMA InsertKeeps ==
  ASSUME JInv, NEW h \in Handlers, AuthorizeInsert(h)
  PROVE  HoldersSound' /\ ErasedSound' /\ CandidatesTracked'
<1>1. PICK u \in Uploads \ issued :
        \A x \in Uploads \ {u} : row'[x] = row[x]
  BY DEF AuthorizeInsert, JInv, IInv, TypeOK
<1>2. /\ UNCHANGED <<blobs, strays, registered, batch, erased>>
      /\ \A g \in Handlers \ {h} : hand'[g] = hand[g]
      /\ hand'[h].pc = "idle"
  BY HandDone DEF AuthorizeInsert, bucketVars, passVars, JInv, IInv
<1>3. \A g \in Handlers : hand[g].pc \in
        {"checked", "claimed", "stored", "failed", "unmarked", "registering"}
          => hand[g].upload \in Uploads \ {u}
  BY DEF JInv, IInv, Sound, HandsSound
<1>4. HoldersSound'
  BY <1>1, <1>2, <1>3 DEF JInv, HoldersSound, Holds, InState, Dead
<1>5. ErasedSound'
  BY <1>2 DEF JInv, ErasedSound
<1>6. u \in blobs => u \in strays
  BY DEF JInv, CandidatesTracked, IInv, Sound, RowsSound
<1>7. CandidatesTracked'
  BY <1>1, <1>2, <1>6 DEF JInv, CandidatesTracked, IInv, TypeOK
<1> QED BY <1>4, <1>5, <1>7

LEMMA StoreKeeps ==
  ASSUME JInv, NEW h \in Handlers, PutStore(h)
  PROVE  HoldersSound' /\ ErasedSound' /\ CandidatesTracked'
<1> DEFINE u == hand[h].upload
<1>1. /\ u \in Uploads /\ InState(u, "uploading") /\ Holds(h, u)
      /\ UNCHANGED <<row, registered, batch, erased>>
  BY DEF PutStore, At, Holds, passVars, JInv, HoldersSound, IInv, Sound, HandsSound
<1>2. PICK p \in {"stored", "failed"} :
        /\ Goto(h, p) /\ blobs' \in {blobs, blobs \union {u}} /\ strays \subseteq strays'
  BY DEF PutStore
<1>3. /\ \A g \in Handlers \ {h} : hand'[g] = hand[g]
      /\ hand'[h].pc = p /\ hand'[h].upload = u
  BY <1>2, HandMoved DEF JInv, IInv, Steps
<1>4. HoldersSound'
  BY <1>1, <1>2, <1>3 DEF JInv, HoldersSound, Holds, InState, Dead
<1>5. ErasedSound'
  BY <1>1, <1>2 DEF JInv, ErasedSound, IInv, Sound, BatchesSound, InState, Dead
<1>6. CandidatesTracked'
  BY <1>1, <1>2 DEF JInv, CandidatesTracked, InState
<1> QED BY <1>4, <1>5, <1>6

LEMMA RegisterKeeps ==
  ASSUME JInv, NEW h \in Handlers, RegisterFile(h)
  PROVE  HoldersSound' /\ ErasedSound' /\ CandidatesTracked'
<1>0. PICK u : u = hand[h].upload
  OBVIOUS
<1>1. /\ Finish(h) /\ u \in Uploads /\ TypeOK
      /\ Dead(u) \/ InState(u, "uploaded")
      /\ UNCHANGED <<blobs, strays, batch, erased>>
  BY <1>0 DEF RegisterFile, At, bucketVars, passVars, JInv, HoldersSound, IInv, Sound, HandsSound
<1>2. /\ \A g \in Handlers \ {h} : hand'[g] = hand[g]
      /\ hand'[h].pc = "idle"
  BY <1>1, HandDone
<1>3. \/ UNCHANGED <<row, registered>>
      \/ row[u] # None /\ SetState(u, "discarded") /\ UNCHANGED registered
      \/ /\ InState(u, "uploaded") /\ row' = [row EXCEPT ![u] = None]
         /\ registered' = registered \union {u}
  BY <1>0 DEF RegisterFile, Register, InState
<1>4. CASE UNCHANGED <<row, registered>>
  BY <1>1, <1>2, <1>4, NobodyHolds
<1>5. ASSUME \A x \in Uploads \ {u} : row'[x] = row[x], Dead(u)',
             row'[u] # None \/ u \in registered', registered \subseteq registered'
      PROVE  HoldersSound' /\ ErasedSound' /\ CandidatesTracked'
  <2>1. HoldersSound'
    <3>1. ~InState(u, "uploading")
      BY <1>1 DEF Dead, InState
    <3> QED
      BY <3>1, <1>1, <1>2, <1>5 DEF JInv, HoldersSound, Holds, InState, Dead, IInv, Sound, HandsSound
  <2>2. ErasedSound'
    BY <1>1 DEF JInv, ErasedSound
  <2>3. CandidatesTracked'
    BY <1>1, <1>5 DEF JInv, CandidatesTracked, IInv, TypeOK
  <2> QED BY <2>1, <2>2, <2>3
<1>6. CASE row[u] # None /\ SetState(u, "discarded") /\ UNCHANGED registered
  BY <1>1, <1>5, <1>6, StateStays DEF Dead, States
<1>7. CASE /\ InState(u, "uploaded") /\ row' = [row EXCEPT ![u] = None]
           /\ registered' = registered \union {u}
  <2>1. (\A x \in Uploads \ {u} : row'[x] = row[x]) /\ row'[u] = None
    BY <1>1, <1>7 DEF TypeOK
  <2> QED BY <1>5, <1>7, <2>1 DEF Dead
<1> QED BY <1>3, <1>4, <1>6, <1>7

LEMMA CollectKeeps ==
  ASSUME JInv, IInv', NEW c \in Collectors, CleanupClaim(c)
  PROVE  HoldersSound' /\ ErasedSound' /\ CandidatesTracked'
<1>1. PICK claimed \in SUBSET {u \in Uploads : Garbage(u)} :
        /\ row' = [u \in Uploads |->
             IF u \in claimed
             THEN [row[u] EXCEPT !.state = "deleting", !.recent = TRUE]
             ELSE row[u]]
        /\ batch' = [batch EXCEPT ![c] = claimed]
  BY DEF CleanupClaim
<1>2. /\ batch[c] = {}
      /\ UNCHANGED <<blobs, strays, registered, hand, erased>>
  BY DEF CleanupClaim, bucketVars
<1>3. ASSUME NEW u \in claimed
      PROVE  /\ row[u] # None /\ ~InState(u, "uploading") /\ u \in Uploads
             /\ row'[u] # None /\ row'[u].state = "deleting"
  <2>1. /\ row[u] \in Pending /\ row[u] # None /\ ~InState(u, "uploading") /\ u \in Uploads
    BY DEF Garbage, JInv, IInv, TypeOK, InState
  <2>2. row'[u] = [item |-> row[u].item, expected |-> row[u].expected, md5 |-> row[u].md5,
                   state |-> "deleting", expired |-> row[u].expired, recent |-> TRUE]
    BY <1>1, <2>1 DEF Pending
  <2>3. row'[u] \in Pending /\ row'[u].state = "deleting"
    BY <2>1, <2>2 DEF Pending, States
  <2>4. row'[u] # None
    BY <2>3, NoneAssumption
  <2> QED BY <2>1, <2>3, <2>4
<1>4. \A u \in Uploads \ claimed : row'[u] = row[u]
  BY <1>1
<1>5. HoldersSound'
  BY <1>2, <1>3, <1>4 DEF JInv, HoldersSound, Holds, InState, Dead, IInv, Sound, HandsSound
<1>6. ErasedSound'
  BY <1>1, <1>2 DEF JInv, ErasedSound, IInv, TypeOK
<1>7. CandidatesTracked'
  BY <1>2, <1>3, <1>4 DEF JInv, CandidatesTracked, IInv, TypeOK
<1> QED BY <1>5, <1>6, <1>7

LEMMA DeleteKeeps ==
  ASSUME JInv, NEW c \in Collectors, CleanupDelete(c)
  PROVE  HoldersSound' /\ ErasedSound' /\ CandidatesTracked'
<1>1. UNCHANGED <<row, strays, registered, hand>> /\ blobs' \subseteq blobs
  BY DEF CleanupDelete
<1>2. HoldersSound'
  BY <1>1 DEF JInv, HoldersSound, Holds, InState, Dead
<1>3. ErasedSound'
  BY <1>1 DEF CleanupDelete, JInv, ErasedSound, IInv, TypeOK
<1>4. CandidatesTracked'
  BY <1>1 DEF JInv, CandidatesTracked
<1> QED BY <1>2, <1>3, <1>4

LEMMA RowKeeps ==
  ASSUME JInv, NEW c \in Collectors, CleanupRow(c)
  PROVE  HoldersSound' /\ ErasedSound' /\ CandidatesTracked'
<1> DEFINE u == erased[c]
<1>1. /\ u # None /\ u \in Uploads /\ (u \notin blobs \/ u \in strays)
      /\ UNCHANGED <<blobs, strays, registered, hand>>
  BY DEF CleanupRow, bucketVars, JInv, ErasedSound, IInv, TypeOK
<1>2. /\ \A x \in Uploads \ {u} : row'[x] = row[x]
      /\ row'[u] = row[u] \/ row'[u] = None
  BY <1>1 DEF CleanupRow, JInv, IInv, TypeOK
<1>3. HoldersSound'
  <2>1. ~InState(u, "uploading")
    <3>0. ErasedSound
      BY DEF JInv
    <3>1. u \in batch[c]
      BY <1>1, <3>0 DEF ErasedSound
    <3>2. \A x \in batch[c] : Dead(x)
      BY DEF JInv, IInv, Sound, BatchesSound
    <3> QED BY <3>1, <3>2 DEF Dead, InState
  <2> QED
    BY <1>1, <1>2, <2>1 DEF JInv, HoldersSound, Holds, InState, Dead, IInv, Sound, HandsSound
<1>4. ErasedSound'
  BY <1>1 DEF CleanupRow, JInv, ErasedSound, IInv, TypeOK
<1>5. CandidatesTracked'
  BY <1>1, <1>2 DEF JInv, CandidatesTracked, IInv, TypeOK
<1> QED BY <1>3, <1>4, <1>5

LEMMA PassLostKeeps ==
  ASSUME JInv, NEW c \in Collectors, CleanupLost(c)
  PROVE  HoldersSound' /\ ErasedSound' /\ CandidatesTracked'
BY DEF CleanupLost, bucketVars, JInv, IInv, TypeOK, HoldersSound, Holds, InState, Dead,
   ErasedSound, CandidatesTracked

(* The one replica that starts has no handler left from before.            *)
LEMMA RestartKeeps ==
  ASSUME JInv, IInv', NEW replica \in Replicas, Restart(replica)
  PROVE  HoldersSound' /\ ErasedSound' /\ CandidatesTracked'
<1>1. replica = Handlers \union Collectors
  BY DEF JInv, SingleReplica
<1>2. /\ \A h \in Handlers : hand'[h].pc = "idle"
      /\ \A c \in Collectors : erased'[c] = None
      /\ blobs' = blobs /\ registered' = registered /\ strays \subseteq strays'
  BY <1>1 DEF Restart, Idle
<1>3. ASSUME NEW u \in Uploads, row[u] # None
      PROVE  row'[u] # None
  <2>1. row[u] \in Pending
    BY <1>3 DEF JInv, IInv, TypeOK
  <2>2. row'[u] \in Pending
    BY <2>1 DEF Restart, Pending, States
  <2> QED BY <2>2, NoneAssumption
<1>4. HoldersSound'
  BY <1>2 DEF HoldersSound, Holds
<1>5. ErasedSound'
  BY <1>2 DEF ErasedSound
<1>6. CandidatesTracked'
  BY <1>2, <1>3 DEF JInv, CandidatesTracked, IInv, TypeOK
<1> QED BY <1>4, <1>5, <1>6

LEMMA TimeKeeps ==
  ASSUME JInv, NEW u \in Uploads, StrayLands(u) \/ Expire(u) \/ MinutePasses(u)
  PROVE  HoldersSound' /\ ErasedSound' /\ CandidatesTracked'
<1>1. CASE StrayLands(u)
  BY <1>1 DEF StrayLands, passVars, JInv, HoldersSound, Holds, InState, Dead, ErasedSound,
     CandidatesTracked
<1>2. CASE Expire(u) \/ MinutePasses(u)
  <2>1. /\ UNCHANGED <<blobs, strays, registered, hand, batch, erased>>
        /\ row[u] # None /\ row[u] \in Pending
    BY <1>2 DEF Expire, MinutePasses, Valid, bucketVars, passVars, JInv, IInv, TypeOK
  <2>2. /\ \A x \in Uploads \ {u} : row'[x] = row[x]
        /\ row'[u] \in Pending /\ row'[u].state = row[u].state
    <3>1. CASE Expire(u)
      BY <2>1, <3>1 DEF Expire, JInv, IInv, TypeOK, Pending
    <3>2. CASE MinutePasses(u)
      BY <2>1, <3>2 DEF MinutePasses, JInv, IInv, TypeOK, Pending
    <3> QED BY <1>2, <3>1, <3>2
  <2>3. row'[u] # None
    BY <2>2, NoneAssumption
  <2>4. HoldersSound'
    BY <2>1, <2>2, <2>3 DEF JInv, HoldersSound, Holds, InState, Dead, IInv, Sound, HandsSound
  <2>5. ErasedSound'
    BY <2>1 DEF JInv, ErasedSound
  <2>6. CandidatesTracked'
    BY <2>1, <2>2, <2>3 DEF JInv, CandidatesTracked, IInv, TypeOK
  <2> QED BY <2>4, <2>5, <2>6
<1> QED BY <1>1, <1>2

LEMMA JNext == JInv /\ [Next]_vars => JInv'
<1> SUFFICES ASSUME JInv, [Next]_vars PROVE JInv'
  OBVIOUS
<1>1. IInv' /\ SingleReplica'
  BY NextInvariant DEF JInv, SingleReplica
<1>2. CASE UNCHANGED vars
  BY <1>1, <1>2 DEF vars, bucketVars, passVars, JInv, HoldersSound, Holds, InState, Dead,
     ErasedSound, CandidatesTracked
<1>3. ASSUME NEW k \in Items, Attach(k) \/ Detach(k) PROVE JInv'
  BY <1>1, <1>3 DEF Attach, Detach, bucketVars, passVars, JInv, HoldersSound, Holds, InState,
     Dead, ErasedSound, CandidatesTracked
<1>4. ASSUME NEW h \in Handlers, Arrive(h) \/ Handle(h) \/ HandlerLost(h) PROVE JInv'
  BY <1>1, <1>4, ArriveKeeps, InsertKeeps, HandlesKeep, StoreKeeps, RegisterKeeps
     DEF Handle, JInv
<1>5. ASSUME NEW c \in Collectors, Collect(c) \/ CleanupLost(c) PROVE JInv'
  BY <1>1, <1>5, CollectKeeps, DeleteKeeps, RowKeeps, PassLostKeeps DEF Collect, JInv
<1>6. ASSUME NEW u \in Uploads, StrayLands(u) \/ Tick(u) PROVE JInv'
  BY <1>1, <1>6, TimeKeeps DEF Tick, JInv
<1>7. ASSUME NEW replica \in Replicas, Restart(replica) PROVE JInv'
  BY <1>1, <1>7, RestartKeeps DEF JInv
<1> QED BY <1>2, <1>3, <1>4, <1>5, <1>6, <1>7 DEF Next

---------------------------------------------------------------------------
(* The invariant holds in every reachable state, however many replicas     *)
(* start and stop.                                                         *)
THEOREM Invariance == Spec => []IInv
BY InitInvariant, NextInvariant, PTL DEF Spec

(* Every variable keeps its type.                                          *)
THEOREM TypeCorrect == Spec => []TypeOK
<1>1. IInv => TypeOK
  BY DEF IInv
<1> QED BY <1>1, Invariance, PTL

(* The bytes of a registered file are in the bucket, whichever replica     *)
(* cleans up, restarts or answers late.                                    *)
THEOREM FilesStored == Spec => []RegisteredStored
<1>1. IInv => RegisteredStored
  BY DEF IInv, Sound, FilesSound, RegisteredStored
<1> QED BY <1>1, Invariance, PTL

(* No upload is registered twice, or while a pass is about to delete its   *)
(* bytes.                                                                  *)
THEOREM Once == Spec => RegistersOnce
<1> DEFINE New == \A k \in Items :
             file'[k] # file[k] /\ file'[k] # None =>
               LET u == file'[k].blob
               IN /\ u \notin registered
                  /\ \A c \in Collectors : u \notin batch[c]
<1>1. IInv /\ [Next]_vars => [New]_vars
  <2> SUFFICES ASSUME IInv, Next, NEW k \in Items, file'[k] # file[k], file'[k] # None
               PROVE  /\ file'[k].blob \notin registered
                      /\ \A c \in Collectors : file'[k].blob \notin batch[c]
    OBVIOUS
  <2>1. PICK h \in Handlers : RegisterFile(h)
    BY DEF Next, Attach, Detach, Arrive, AuthorizeFind, PutLookup, RegisterLookup, Handle,
       AuthorizeRead, AuthorizeInsert, PutClaim, PutStore, PutReset, PutMark, PutDiscard,
       HandlerLost, Collect, CleanupClaim, CleanupDelete, CleanupRow, CleanupLost,
       StrayLands, Tick, Expire, MinutePasses, Restart, itemVars, IInv, TypeOK
  <2>2. PICK u : u = hand[h].upload
    OBVIOUS
  <2>3. /\ InState(u, "uploaded") /\ u \in Uploads
        /\ file'[k].blob = u
    BY <2>1, <2>2 DEF RegisterFile, Register, At, IInv, TypeOK, Sound, HandsSound
  <2>4. u \notin registered /\ ~Dead(u)
    BY <2>3 DEF IInv, Sound, RowsSound, InState, Dead
  <2> QED BY <2>3, <2>4 DEF IInv, Sound, BatchesSound
<1> QED BY <1>1, Invariance, PTL DEF Spec, RegistersOnce

(* With one replica, no two handlers hold one upload, and what is marked   *)
(* as stored is in the bucket.                                             *)
THEOREM Exclusive == SingleReplica /\ Spec => []UploadedOnce
<1>1. JInv => UploadedOnce
  BY DEF JInv, HoldersSound, UploadedOnce, IInv, Sound, RowsSound
<1> QED BY <1>1, JInit, JNext, PTL DEF Spec

(* With one replica no candidate is forgotten.  With two one may be: see   *)
(* the run UploadLifecycleLeak.                                            *)
THEOREM Tracked == SingleReplica /\ Spec => []CandidatesTracked
<1>1. JInv => CandidatesTracked
  BY DEF JInv
<1> QED BY <1>1, JInit, JNext, PTL DEF Spec

---------------------------------------------------------------------------
(***************************************************************************)
(* The refinement of AttachmentFiles.  It needs one fact more: a PUT that  *)
(* is under way without its handler belongs to an issued upload.           *)
(***************************************************************************)
RInv == IInv /\ strays \subseteq issued

LEMMA RInvariance == Spec => []RInv
<1>1. Init => RInv
  BY InitInvariant DEF Init, RInv
<1>2. RInv /\ [Next]_vars => RInv'
  <2> SUFFICES ASSUME RInv, [Next]_vars PROVE (strays \subseteq issued)'
    BY NextInvariant DEF RInv
  <2>1. \A u \in strays' \ strays : \E h \in Handlers : At(h, "claimed") /\ u = hand[h].upload
    <3>1. ASSUME NEW h \in Handlers, PutStore(h) \/ HandlerLost(h)
          PROVE  strays' \subseteq strays \/ (At(h, "claimed") /\ strays' = strays \union {hand[h].upload})
      BY <3>1 DEF PutStore, HandlerLost
    <3>2. ASSUME NEW replica \in Replicas, Restart(replica)
          PROVE  \A u \in strays' \ strays :
                   \E h \in Handlers : At(h, "claimed") /\ u = hand[h].upload
      BY <3>2 DEF Restart
    <3>3. CASE UNCHANGED strays
      BY <3>3
    <3>4. \/ UNCHANGED strays
          \/ \E h \in Handlers : PutStore(h) \/ HandlerLost(h)
          \/ \E replica \in Replicas : Restart(replica)
      BY DEF Next, vars, bucketVars, Attach, Detach, Arrive, AuthorizeFind, PutLookup,
         RegisterLookup, Handle, AuthorizeRead, AuthorizeInsert, PutClaim, PutReset, PutMark,
         PutDiscard, RegisterFile, Collect, CleanupClaim, CleanupDelete, CleanupRow,
         CleanupLost, StrayLands, Tick, Expire, MinutePasses
    <3> QED BY <3>1, <3>2, <3>3, <3>4
  <2>2. issued \subseteq issued'
    BY DEF Next, vars, itemVars, bucketVars, passVars, Attach, Detach, Arrive, AuthorizeFind,
       PutLookup, RegisterLookup, Handle, AuthorizeRead, AuthorizeInsert, PutClaim, PutStore,
       PutReset, PutMark, PutDiscard, RegisterFile, HandlerLost, Collect, CleanupClaim,
       CleanupDelete, CleanupRow, CleanupLost, StrayLands, Tick, Expire, MinutePasses, Restart
  <2>3. \A h \in Handlers : At(h, "claimed") => hand[h].upload \in issued
    BY DEF At, RInv, IInv, Sound, HandsSound
  <2> QED BY <2>1, <2>2, <2>3 DEF RInv
<1> QED BY <1>1, <1>2, PTL DEF Spec

(* A row that keeps what it would replace, or stays dead, is no step of    *)
(* its offer; rows that die take their offers with them.                   *)
LEMMA SameOffers ==
  ASSUME \A u \in Uploads :
           \/ row'[u] = row[u]
           \/ /\ row'[u].item = row[u].item /\ row'[u].expected = row[u].expected
              /\ row'[u].md5 = row[u].md5
              /\ Open(u) /\ Open(u)'
           \/ ~Open(u) /\ ~Open(u)'
  PROVE  Offered' = Offered
BY DEF Offered, Open

LEMMA Withdrawn ==
  ASSUME NEW refused \in SUBSET Uploads,
         \A u \in refused : ~Open(u)',
         \A u \in Uploads \ refused : row'[u] = row[u]
  PROVE  Offered' = [u \in Uploads |-> IF u \in refused THEN None ELSE Offered[u]]
BY DEF Offered, Open

Step == Promise!Next \/ UNCHANGED Promise!vars

LEMMA WithdrawStep ==
  ASSUME NEW refused \in SUBSET Uploads,
         \A u \in refused : ~Open(u)',
         \A u \in Uploads \ refused : row'[u] = row[u],
         UNCHANGED <<attachment, file, issued, blobs>>
  PROVE  Step
<1>1. Promise!Withdraw(refused)
  BY Withdrawn DEF Promise!Withdraw
<1> QED BY <1>1 DEF Step, Promise!Next

(* A row that changes its state, and nothing else of it.                   *)
LEMMA StateStep ==
  ASSUME TypeOK, NEW u \in Uploads, row[u] # None, NEW s \in States, SetState(u, s),
         s = "discarded" \/ (Open(u) /\ s # "deleting"),
         UNCHANGED <<attachment, file, issued, blobs>>
  PROVE  Step
<1>1. /\ \A x \in Uploads \ {u} : row'[x] = row[x]
      /\ row'[u].item = row[u].item /\ row'[u].expected = row[u].expected
      /\ row'[u].md5 = row[u].md5 /\ row'[u].state = s /\ row'[u] \in Pending
  BY DEF TypeOK, SetState, Pending
<1>2. CASE s = "discarded"
  <2>1. \A x \in {u} : ~Open(x)'
    BY <1>1, <1>2 DEF Open
  <2>2. {u} \in SUBSET Uploads /\ \A x \in Uploads \ {u} : row'[x] = row[x]
    BY <1>1
  <2> QED BY <2>1, <2>2, WithdrawStep
<1>3. CASE Open(u) /\ s \notin {"discarded", "deleting"}
  <2>1. Open(u)'
    BY <1>1, <1>3, NoneAssumption DEF Open
  <2>2. Offered' = Offered
    BY <1>1, <1>3, <2>1, SameOffers
  <2> QED BY <2>2 DEF Step, Promise!vars
<1> QED BY <1>2, <1>3

LEMMA AuthorizeRefines ==
  ASSUME RInv, NEW h \in Handlers, AuthorizeInsert(h)
  PROVE  Step
<1>1. PICK u \in Uploads \ issued, md5 \in Hashes :
        /\ issued' = issued \union {u}
        /\ row' = [row EXCEPT ![u] =
             [item |-> hand[h].item, expected |-> hand[h].expected, md5 |-> md5,
              state |-> "authorized", expired |-> FALSE, recent |-> FALSE]]
  BY DEF AuthorizeInsert
<1>2. /\ hand[h].item \in Items /\ hand[h].expected \in {None} \union Hashes
      /\ UNCHANGED <<attachment, file, blobs>>
  BY DEF AuthorizeInsert, At, RInv, IInv, Sound, HandsSound, TypeOK, Hand, itemVars, bucketVars
<1>3. [item |-> hand[h].item, expected |-> hand[h].expected, md5 |-> md5,
       state |-> "authorized", expired |-> FALSE, recent |-> FALSE] \in Pending
  BY <1>2 DEF Pending, States
<1>4. /\ \A x \in Uploads \ {u} : row'[x] = row[x]
      /\ row'[u].item = hand[h].item /\ row'[u].expected = hand[h].expected
      /\ row'[u].md5 = md5 /\ row'[u].state = "authorized" /\ row'[u] # None
  BY <1>1, <1>3, NoneAssumption DEF RInv, IInv, TypeOK
<1>5. Offered' = [Offered EXCEPT ![u] =
                    [item |-> hand[h].item, expected |-> hand[h].expected, md5 |-> md5]]
  BY <1>4 DEF Offered, Open
<1>6. Promise!Authorize(u, hand[h].item, hand[h].expected, md5)
  BY <1>1, <1>2, <1>5 DEF Promise!Authorize
<1> QED BY <1>2, <1>6 DEF Step, Promise!Next

(* The other steps of a PUT change the state of its row, or send the bytes. *)
LEMMA PutRefines ==
  ASSUME RInv, NEW h \in Handlers,
         PutClaim(h) \/ PutStore(h) \/ PutReset(h) \/ PutMark(h) \/ PutDiscard(h)
  PROVE  Step
<1> DEFINE u == hand[h].upload
<1>1. u \in Uploads /\ u \in issued /\ TypeOK
  BY DEF PutClaim, PutStore, PutReset, PutMark, PutDiscard, At, RInv, IInv, Sound, HandsSound
<1> HIDE DEF u
<1>2. CASE PutStore(h)
  <2>1. UNCHANGED <<attachment, file, issued, row>>
    BY <1>2 DEF PutStore, itemVars
  <2>2. Offered' = Offered
    BY <2>1, SameOffers
  <2>3. blobs' = blobs \/ blobs' = blobs \union {u}
    BY <1>2 DEF PutStore, u
  <2>4. CASE blobs' = blobs \union {u}
    <3>1. Promise!Store(u)
      BY <1>1, <2>1, <2>2, <2>4 DEF Promise!Store
    <3> QED BY <1>1, <3>1 DEF Step, Promise!Next
  <2>5. CASE blobs' = blobs
    BY <2>1, <2>2, <2>5 DEF Step, Promise!vars
  <2> QED BY <2>3, <2>4, <2>5
<1>3. ASSUME PutClaim(h) \/ PutReset(h) \/ PutMark(h) \/ PutDiscard(h)
      PROVE  Step
  <2>1. UNCHANGED <<attachment, file, issued, blobs>>
    BY <1>3 DEF PutClaim, PutReset, PutMark, PutDiscard, itemVars, bucketVars
  <2>2. CASE UNCHANGED row
    <3>1. Offered' = Offered
      BY <2>2, SameOffers
    <3> QED BY <2>1, <3>1 DEF Step, Promise!vars
  <2>3. ASSUME ~UNCHANGED row
        PROVE  \E s \in States : SetState(u, s) /\ s # "deleting" /\ Open(u) /\ row[u] # None
    BY <1>3, <2>3 DEF PutClaim, PutReset, PutMark, PutDiscard, InState, Open, States, u
  <2> QED BY <1>1, <2>1, <2>2, <2>3, StateStep
<1> QED BY <1>2, <1>3

LEMMA RegisterRefines ==
  ASSUME RInv, NEW h \in Handlers, RegisterFile(h)
  PROVE  Step
<1> DEFINE u == hand[h].upload
           k == row[u].item
<1>1. u \in Uploads /\ UNCHANGED <<attachment, issued, blobs>> /\ TypeOK
  BY DEF RegisterFile, At, RInv, IInv, Sound, HandsSound, bucketVars
<1>2. CASE UNCHANGED <<file, row>>
  <2>1. Offered' = Offered
    BY <1>2, SameOffers
  <2> QED BY <1>1, <1>2, <2>1 DEF Step, Promise!vars
<1>3. CASE row[u] # None /\ SetState(u, "discarded") /\ UNCHANGED file
  BY <1>1, <1>3, StateStep DEF States
<1>4. CASE /\ InState(u, "uploaded")
           /\ attachment[k] /\ Md5Of(k) = row[u].expected
           /\ file' = [file EXCEPT ![k] = [blob |-> u, md5 |-> row[u].md5]]
           /\ row' = [row EXCEPT ![u] = None]
  <2>1. Open(u) /\ row[u] \in Pending /\ u \in blobs
    BY <1>1, <1>4 DEF InState, Open, TypeOK, RInv, IInv, Sound, RowsSound
  <2>2. Offered[u] = [item |-> k, expected |-> row[u].expected, md5 |-> row[u].md5]
    BY <1>1, <2>1 DEF Offered
  <2>3. Offered[u] # None
    BY <2>1, <2>2, NoneAssumption DEF Offer, Pending
  <2>4. row'[u] = None /\ \A x \in Uploads \ {u} : row'[x] = row[x]
    BY <1>1, <1>4 DEF TypeOK
  <2>5. Offered' = [Offered EXCEPT ![u] = None]
    BY <2>4 DEF Offered, Open
  <2>6. Promise!Md5Of(k) = Md5Of(k)
    BY DEF Promise!Md5Of, Md5Of
  <2>7. Promise!Register(u)
    BY <1>1, <1>4, <2>1, <2>2, <2>3, <2>5, <2>6 DEF Promise!Register
  <2> QED BY <1>1, <2>7 DEF Step, Promise!Next
<1> HIDE DEF u, k
<1> QED BY <1>2, <1>3, <1>4 DEF RegisterFile, Register, u, k, InState

LEMMA CollectRefines ==
  ASSUME RInv, NEW c \in Collectors, Collect(c)
  PROVE  Step
<1>1. CASE CleanupClaim(c)
  <2>1. PICK claimed \in SUBSET {u \in Uploads : Garbage(u)} :
          row' = [u \in Uploads |->
            IF u \in claimed
            THEN [row[u] EXCEPT !.state = "deleting", !.recent = TRUE]
            ELSE row[u]]
    BY <1>1 DEF CleanupClaim
  <2>2. ASSUME NEW u \in claimed PROVE ~Open(u)'
    <3>1. row[u] \in Pending /\ u \in Uploads
      BY DEF Garbage, RInv, IInv, TypeOK
    <3>2. row'[u].state = "deleting"
      BY <2>1, <3>1 DEF Pending
    <3> QED BY <3>2 DEF Open
  <2>3. \A u \in Uploads \ claimed : row'[u] = row[u]
    BY <2>1
  <2>4. UNCHANGED <<attachment, file, issued, blobs>>
    BY <1>1 DEF CleanupClaim, itemVars, bucketVars
  <2> QED BY <2>2, <2>3, <2>4, WithdrawStep
<1>2. CASE CleanupDelete(c)
  <2>1. PICK u \in batch[c] : blobs' \in {blobs, blobs \ {u}}
    BY <1>2 DEF CleanupDelete
  <2>2. UNCHANGED <<attachment, file, issued, row>>
    BY <1>2 DEF CleanupDelete, itemVars
  <2>3. Offered' = Offered
    BY <2>2, SameOffers
  <2>4. u \in Uploads /\ Dead(u) /\ u \notin registered
    BY <2>1 DEF RInv, IInv, TypeOK, Sound, BatchesSound
  <2>5. Offered[u] = None
    BY <2>4 DEF Offered, Open, Dead
  <2>6. \A k \in Items : file[k] # None => file[k].blob # u
    BY <2>4 DEF RInv, IInv, Sound, FilesSound
  <2>7. CASE blobs' = blobs \ {u}
    <3>1. Promise!Remove(u)
      BY <2>2, <2>3, <2>5, <2>6, <2>7 DEF Promise!Remove
    <3> QED BY <2>4, <3>1 DEF Step, Promise!Next
  <2>8. CASE blobs' = blobs
    BY <2>2, <2>3, <2>8 DEF Step, Promise!vars
  <2> QED BY <2>1, <2>7, <2>8
<1>3. CASE CleanupRow(c)
  <2>1. UNCHANGED <<attachment, file, issued, blobs>>
    BY <1>3 DEF CleanupRow, itemVars, bucketVars
  <2>2. \A u \in Uploads : row'[u] = row[u] \/ (~Open(u) /\ ~Open(u)')
    BY <1>3 DEF CleanupRow, RInv, IInv, TypeOK, InState, Open
  <2>3. Offered' = Offered
    BY <2>2, SameOffers
  <2> QED BY <2>1, <2>3 DEF Step, Promise!vars
<1> QED BY <1>1, <1>2, <1>3 DEF Collect

LEMMA RestartRefines ==
  ASSUME RInv, NEW replica \in Replicas, Restart(replica)
  PROVE  Step
<1>1. UNCHANGED <<attachment, file, issued, blobs>>
  BY DEF Restart, itemVars
<1>2. ASSUME NEW u \in Uploads, InState(u, "uploading")
      PROVE  /\ row'[u].item = row[u].item /\ row'[u].expected = row[u].expected
             /\ row'[u].md5 = row[u].md5
             /\ Open(u) /\ Open(u)'
  <2>1. row[u] \in Pending
    BY <1>2 DEF InState, RInv, IInv, TypeOK
  <2>2. /\ row'[u].item = row[u].item /\ row'[u].expected = row[u].expected
        /\ row'[u].md5 = row[u].md5 /\ row'[u].state = "authorized"
        /\ row'[u] \in Pending
    BY <1>2, <2>1 DEF Restart, Pending, States
  <2> QED BY <1>2, <2>2, NoneAssumption DEF Open, InState
<1>3. \A u \in Uploads : ~InState(u, "uploading") => row'[u] = row[u]
  BY DEF Restart
<1>4. Offered' = Offered
  BY <1>2, <1>3, SameOffers
<1> QED BY <1>1, <1>4 DEF Step, Promise!vars

LEMMA TickRefines ==
  ASSUME RInv, NEW u \in Uploads, StrayLands(u) \/ Tick(u)
  PROVE  Step
<1>1. CASE StrayLands(u)
  <2>1. /\ UNCHANGED <<attachment, file, issued, row>>
        /\ u \in issued /\ blobs' = blobs \union {u}
    BY <1>1 DEF StrayLands, itemVars, RInv
  <2>2. Offered' = Offered
    BY <2>1, SameOffers
  <2>3. Promise!Store(u)
    BY <2>1, <2>2 DEF Promise!Store
  <2> QED BY <2>3 DEF Step, Promise!Next
<1>2. CASE Tick(u)
  <2>1. UNCHANGED <<attachment, file, issued, blobs>>
    BY <1>2 DEF Tick, Expire, MinutePasses, itemVars, bucketVars
  <2>2. row[u] \in Pending
    BY <1>2 DEF Tick, Expire, Valid, MinutePasses, RInv, IInv, TypeOK
  <2>3. /\ \A x \in Uploads \ {u} : row'[x] = row[x]
        /\ row'[u].item = row[u].item /\ row'[u].expected = row[u].expected
        /\ row'[u].md5 = row[u].md5 /\ row'[u].state = row[u].state
        /\ row'[u] \in Pending
    <3>1. CASE Expire(u)
      BY <2>2, <3>1 DEF Expire, RInv, IInv, TypeOK, Pending
    <3>2. CASE MinutePasses(u)
      BY <2>2, <3>2 DEF MinutePasses, RInv, IInv, TypeOK, Pending
    <3> QED BY <1>2, <3>1, <3>2 DEF Tick
  <2>4. Open(u) <=> Open(u)'
    BY <2>2, <2>3, NoneAssumption DEF Open
  <2>5. Offered' = Offered
    BY <2>3, <2>4, SameOffers
  <2> QED BY <2>1, <2>5 DEF Step, Promise!vars
<1> QED BY <1>1, <1>2

(* What neither rows nor the bucket notice.                                *)
LEMMA QuietRefines ==
  ASSUME UNCHANGED <<attachment, file, issued, row, blobs>>
  PROVE  Step
<1>1. Offered' = Offered
  BY SameOffers
<1> QED BY <1>1 DEF Step, Promise!vars

LEMMA ItemRefines ==
  ASSUME NEW k \in Items, Attach(k) \/ Detach(k)
  PROVE  Step
<1>1. UNCHANGED row
  BY DEF Attach, Detach
<1>2. Offered' = Offered
  BY <1>1, SameOffers
<1>3. Promise!Attach(k) \/ Promise!Detach(k)
  BY <1>2 DEF Attach, Detach, bucketVars, Promise!Attach, Promise!Detach
<1> QED BY <1>3 DEF Step, Promise!Next

LEMMA NextRefines == RInv /\ [Next]_vars => Step
<1> SUFFICES ASSUME RInv, [Next]_vars PROVE Step
  OBVIOUS
<1>1. CASE UNCHANGED vars
  BY <1>1, QuietRefines DEF vars, itemVars, bucketVars
<1>2. ASSUME NEW h \in Handlers, Arrive(h) \/ AuthorizeRead(h) \/ HandlerLost(h) PROVE Step
  BY <1>2, QuietRefines DEF Arrive, AuthorizeFind, PutLookup, RegisterLookup, AuthorizeRead,
     HandlerLost, itemVars, bucketVars
<1>3. ASSUME NEW h \in Handlers, Handle(h) PROVE Step
  BY <1>2, <1>3, AuthorizeRefines, PutRefines, RegisterRefines DEF Handle
<1>4. ASSUME NEW c \in Collectors, CleanupLost(c) PROVE Step
  BY <1>4, QuietRefines DEF CleanupLost, itemVars, bucketVars
<1> QED
  BY <1>1, <1>2, <1>3, <1>4, CollectRefines, RestartRefines, TickRefines, ItemRefines DEF Next

(* The upload protocol, with any number of handlers, passes, replicas and  *)
(* failures, replaces files by compare-and-set and keeps the bytes that    *)
(* can be needed.                                                          *)
THEOREM Implements == Spec => ImplementsAttachmentFiles
<1>1. Init => Promise!Init
  BY DEF Init, Promise!Init, Offered, Open
<1>2. RInv /\ [Next]_vars => [Promise!Next]_(Promise!vars)
  BY NextRefines DEF Step
<1> QED BY <1>1, <1>2, RInvariance, PTL DEF Spec, ImplementsAttachmentFiles, Promise!Spec
===============================================================================
