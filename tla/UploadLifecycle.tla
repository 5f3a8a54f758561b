--------------------------- MODULE UploadLifecycle --------------------------
(***************************************************************************)
(* How an attachment's bytes get into a library: the pending_uploads table *)
(* of store/files.rs, the handlers of handlers/files.rs that move its rows *)
(* from state to state, the bucket behind s3.rs, the cleanup passes, and   *)
(* the start of a replica of the service in main.rs.                       *)
(*                                                                         *)
(* Authorize inserts a row under a fresh random token.  The bytes are PUT: *)
(* the row is claimed, the object stored in the bucket, the row marked.    *)
(* Register makes the stored candidate the item's file and deletes the     *)
(* row.  A cleanup pass claims rows nobody can use any more, deletes their *)
(* candidate from the bucket and then the row.  Each of these is a         *)
(* statement or a transaction of its own, so handlers, cleanup passes,     *)
(* expiry and failures come between them.  An upload stands for its token, *)
(* its candidate's key in the bucket, and the bytes.                       *)
(***************************************************************************)
EXTENDS Naturals, FiniteSets

CONSTANTS
  Items,        \* attachment items
  Uploads,      \* tokens, each issued at most once
  Hashes,       \* md5 values
  Handlers,     \* request handlers that can be in flight at once
  Collectors,   \* cleanup passes that can be running at once
  Replicas,     \* the service processes, each the set of the handlers and
                \* cleanup passes it runs
  None,
  Limit,        \* the most rows a cleanup pass claims at once
  MaxFaults     \* bound on failures: lost handlers, S3 errors, restarts

ASSUME ReplicasAssumption ==
  /\ Handlers \intersect Collectors = {}
  /\ UNION Replicas = Handlers \union Collectors
  /\ \A p, q \in Replicas : p # q => p \intersect q = {}
ASSUME BoundsAssumption == Limit \in Nat \ {0} /\ MaxFaults \in Nat

VARIABLES
  attachment,   \* whether each item is a live stored-file attachment
  file,         \* the registered file of each item
  row,          \* pending_uploads
  issued,       \* the tokens handed out so far
  blobs,        \* the candidates the bucket holds
  strays,       \* uploads with a PUT whose outcome the service never learnt
  registered,   \* history: the uploads that were registered
  hand,         \* what each handler is doing
  batch,        \* the rows each cleanup pass has still to treat
  erased,       \* the row whose candidate the pass has just deleted
  faults

itemVars   == <<attachment, file>>
bucketVars == <<blobs, strays>>
passVars   == <<batch, erased>>
vars == <<itemVars, row, issued, bucketVars, registered, hand, passVars, faults>>

States == {"authorized", "uploading", "uploaded", "discarded", "deleting"}

(* expired: expires_at has passed.  recent: gc_attempted_at is less than a *)
(* minute ago.                                                             *)
Pending == [item : Items, expected : {None} \union Hashes, md5 : Hashes,
            state : States, expired : BOOLEAN, recent : BOOLEAN]
File    == [blob : Uploads, md5 : Hashes]

(* What an upload that can still be registered would do.                   *)
Offer == [item : Items, expected : {None} \union Hashes, md5 : Hashes]

(* None is a model value, no row of the queue and no offer.                *)
ASSUME NoneAssumption == None \notin Pending /\ None \notin Offer

Steps == {"idle", "found", "authorizing", "checked", "claimed", "stored", "failed",
          "unmarked", "registering"}
Hand  == [pc : Steps, upload : {None} \union Uploads,
          item : {None} \union Items, expected : {None} \union Hashes]
Idle  == [pc |-> "idle", upload |-> None, item |-> None, expected |-> None]

TypeOK ==
  /\ attachment \in [Items -> BOOLEAN]
  /\ file \in [Items -> {None} \union File]
  /\ row \in [Uploads -> {None} \union Pending]
  /\ issued \subseteq Uploads /\ registered \subseteq Uploads
  /\ blobs \subseteq Uploads /\ strays \subseteq Uploads
  /\ hand \in [Handlers -> Hand]
  /\ batch \in [Collectors -> SUBSET Uploads]
  /\ erased \in [Collectors -> {None} \union Uploads]
  /\ faults \in 0..MaxFaults

Init ==
  /\ attachment = [k \in Items |-> FALSE]
  /\ file = [k \in Items |-> None]
  /\ row = [u \in Uploads |-> None]
  /\ issued = {} /\ registered = {} /\ blobs = {} /\ strays = {}
  /\ hand = [h \in Handlers |-> Idle]
  /\ batch = [c \in Collectors |-> {}]
  /\ erased = [c \in Collectors |-> None]
  /\ faults = 0

InState(u, state) == row[u] # None /\ row[u].state = state
Valid(u)          == row[u] # None /\ ~row[u].expired
SetState(u, state) == row' = [row EXCEPT ![u].state = state]
Finish(h)         == hand' = [hand EXCEPT ![h] = Idle]
Goto(h, step)     == hand' = [hand EXCEPT ![h].pc = step]
At(h, step)       == hand[h].pc = step
Md5Of(k)          == IF file[k] = None THEN None ELSE file[k].md5

Fault == faults < MaxFaults /\ faults' = faults + 1

-----------------------------------------------------------------------------
(* Item writes (LibraryStore): an item becomes a stored attachment, without *)
(* a file; or it is deleted or converted, and its file row goes with it.   *)
Attach(k) ==
  /\ ~attachment[k]
  /\ attachment' = [attachment EXCEPT ![k] = TRUE]
  /\ UNCHANGED <<file, row, issued, bucketVars, registered, hand, passVars,
                 faults>>

Detach(k) ==
  /\ attachment[k]
  /\ attachment' = [attachment EXCEPT ![k] = FALSE]
  /\ file' = [file EXCEPT ![k] = None]
  /\ UNCHANGED <<row, issued, bucketVars, registered, hand, passVars, faults>>

-----------------------------------------------------------------------------
(***************************************************************************)
(* file_post, authorization: the item is looked up, then its file, then    *)
(* the pending row inserted.  If-None-Match passes when there is no file,  *)
(* If-Match when the file has the md5 it names: either way the upload may  *)
(* later replace just what is read here.                                   *)
(***************************************************************************)
AuthorizeFind(h) ==
  /\ At(h, "idle")
  /\ \E k \in Items :
       /\ attachment[k]
       /\ hand' = [hand EXCEPT ![h] = [Idle EXCEPT !.pc = "found", !.item = k]]
  /\ UNCHANGED <<itemVars, row, issued, bucketVars, registered, passVars,
                 faults>>

AuthorizeRead(h) ==
  /\ At(h, "found")
  /\ \/ hand' = [hand EXCEPT ![h].pc = "authorizing",
                             ![h].expected = Md5Of(hand[h].item)]
     \/ Finish(h)    \* the precondition does not hold
  /\ UNCHANGED <<itemVars, row, issued, bucketVars, registered, passVars,
                 faults>>

AuthorizeInsert(h) ==
  /\ At(h, "authorizing")
  /\ \E u \in Uploads \ issued, md5 \in Hashes :
       /\ issued' = issued \union {u}
       /\ row' = [row EXCEPT ![u] =
            [item |-> hand[h].item, expected |-> hand[h].expected, md5 |-> md5,
             state |-> "authorized", expired |-> FALSE, recent |-> FALSE]]
  /\ Finish(h)
  /\ UNCHANGED <<itemVars, bucketVars, registered, passVars, faults>>

(***************************************************************************)
(* upload_put.  A token that is unknown, used, revoked or whose bytes do   *)
(* not match is refused before anything changes.                           *)
(***************************************************************************)
PutLookup(h) ==
  /\ At(h, "idle")
  /\ \E u \in Uploads :
       /\ Valid(u) /\ InState(u, "authorized")
       /\ hand' = [hand EXCEPT ![h] = [Idle EXCEPT !.pc = "checked", !.upload = u]]
  /\ UNCHANGED <<itemVars, row, issued, bucketVars, registered, passVars,
                 faults>>

(* claim_pending_upload: only one of the handlers that looked wins.        *)
PutClaimAnyState(h) ==    \* mutant: the state is not compared again
  /\ At(h, "checked")
  /\ IF Valid(hand[h].upload)
     THEN SetState(hand[h].upload, "uploading") /\ Goto(h, "claimed")
     ELSE Finish(h) /\ UNCHANGED row
  /\ UNCHANGED <<itemVars, issued, bucketVars, registered, passVars, faults>>

PutClaim(h) ==
  /\ At(h, "checked")
  /\ LET u == hand[h].upload
     IN IF Valid(u) /\ InState(u, "authorized")
        THEN SetState(u, "uploading") /\ Goto(h, "claimed")
        ELSE Finish(h) /\ UNCHANGED row
  /\ UNCHANGED <<itemVars, issued, bucketVars, registered, passVars, faults>>

PutStore(h) ==
  /\ At(h, "claimed")
  /\ \/ /\ blobs' = blobs \union {hand[h].upload}
        /\ Goto(h, "stored")
        /\ UNCHANGED <<strays, faults>>
     \/ /\ strays' = strays \union {hand[h].upload}
        /\ Goto(h, "failed")
        /\ Fault
        /\ UNCHANGED blobs
  /\ UNCHANGED <<itemVars, row, issued, registered, passVars>>

(* reset_pending_upload                                                    *)
PutReset(h) ==
  /\ At(h, "failed")
  /\ LET u == hand[h].upload
     IN IF InState(u, "uploading")
        THEN SetState(u, IF Valid(u) THEN "authorized" ELSE "discarded")
        ELSE UNCHANGED row
  /\ Finish(h)
  /\ UNCHANGED <<itemVars, issued, bucketVars, registered, passVars, faults>>

(* mark_pending_upload_uploaded                                            *)
PutMark(h) ==
  /\ At(h, "stored")
  /\ LET u == hand[h].upload
     IN IF Valid(u) /\ InState(u, "uploading")
        THEN SetState(u, "uploaded") /\ Finish(h)
        ELSE Goto(h, "unmarked") /\ UNCHANGED row
  /\ UNCHANGED <<itemVars, issued, bucketVars, registered, passVars, faults>>

(* discard_pending_upload                                                  *)
PutDiscardUnknownState(h) ==    \* mutant: a state the table does not allow
  /\ At(h, "unmarked")
  /\ IF InState(hand[h].upload, "uploading")
     THEN SetState(hand[h].upload, "rejected") ELSE UNCHANGED row
  /\ Finish(h)
  /\ UNCHANGED <<itemVars, issued, bucketVars, registered, passVars, faults>>

PutDiscard(h) ==
  /\ At(h, "unmarked")
  /\ LET u == hand[h].upload
     IN IF InState(u, "uploading") THEN SetState(u, "discarded")
        ELSE UNCHANGED row
  /\ Finish(h)
  /\ UNCHANGED <<itemVars, issued, bucketVars, registered, passVars, faults>>

(***************************************************************************)
(* file_post, registration.                                                *)
(***************************************************************************)
RegisterLookup(h) ==
  /\ At(h, "idle")
  /\ \E u \in Uploads :
       /\ Valid(u) /\ InState(u, "uploaded")
       /\ hand' = [hand EXCEPT ![h] =
            [Idle EXCEPT !.pc = "registering", !.upload = u]]
  /\ UNCHANGED <<itemVars, row, issued, bucketVars, registered, passVars,
                 faults>>

RegisterKeepsRow(u) ==    \* mutant: the capability is not consumed
  LET k == row[u].item
  IN IF attachment[k] /\ Md5Of(k) = row[u].expected
     THEN /\ file' = [file EXCEPT ![k] = [blob |-> u, md5 |-> row[u].md5]]
          /\ registered' = registered \union {u}
          /\ UNCHANGED row
     ELSE SetState(u, "discarded") /\ UNCHANGED <<file, registered>>

(* Mutant: what the file is now is not compared with what it was when the  *)
(* upload was authorized.                                                  *)
RegisterBlind(u) ==
  LET k == row[u].item
  IN IF attachment[k]
     THEN /\ file' = [file EXCEPT ![k] = [blob |-> u, md5 |-> row[u].md5]]
          /\ row' = [row EXCEPT ![u] = None]
          /\ registered' = registered \union {u}
     ELSE SetState(u, "discarded") /\ UNCHANGED <<file, registered>>

Register(u) ==
  LET k == row[u].item
  IN IF attachment[k] /\ Md5Of(k) = row[u].expected
     THEN /\ file' = [file EXCEPT ![k] = [blob |-> u, md5 |-> row[u].md5]]
          /\ row' = [row EXCEPT ![u] = None]
          /\ registered' = registered \union {u}
     ELSE SetState(u, "discarded") /\ UNCHANGED <<file, registered>>

(* Mutant: the state is not looked at again under the row lock.            *)
RegisterFileAnyState(h) ==
  /\ At(h, "registering")
  /\ IF row[hand[h].upload] = None
     THEN UNCHANGED <<file, row, registered>>
     ELSE Register(hand[h].upload)
  /\ Finish(h)
  /\ UNCHANGED <<attachment, issued, bucketVars, passVars, faults>>

(* register_file, one transaction that locks the pending row first.  now() *)
(* is when it began: it may still find a row valid whose time has passed   *)
(* while it waited for the lock.                                           *)
RegisterFile(h) ==
  /\ At(h, "registering")
  /\ LET u == hand[h].upload
     IN \/ (* unknown token, wrong state, or access revoked *)
           UNCHANGED <<file, row, registered>>
        \/ /\ row[u] # None /\ row[u].expired
           /\ SetState(u, "discarded")
           /\ UNCHANGED <<file, registered>>
        \/ /\ InState(u, "uploaded")
           /\ Register(u)
  /\ Finish(h)
  /\ UNCHANGED <<attachment, issued, bucketVars, passVars, faults>>

-----------------------------------------------------------------------------
(***************************************************************************)
(* cleanup_pending_uploads: at startup, every minute, and from handlers.   *)
(***************************************************************************)
(* Mutants: an attempt that failed is not repeated; expiry does not count. *)
GarbageOnce(u) ==
  /\ row[u] # None
  /\ \/ row[u].state = "discarded"
     \/ row[u].expired /\ row[u].state \notin {"uploading", "deleting"}

GarbageUnexpired(u) ==
  /\ row[u] # None
  /\ \/ row[u].state = "discarded"
     \/ row[u].state = "deleting" /\ ~row[u].recent

Garbage(u) ==
  /\ row[u] # None
  /\ \/ row[u].state = "discarded"
     \/ row[u].expired /\ row[u].state \notin {"uploading", "deleting"}
     \/ row[u].state = "deleting" /\ ~row[u].recent

CleanupClaim(c) ==
  /\ batch[c] = {}
  /\ \E claimed \in SUBSET {u \in Uploads : Garbage(u)} :
       /\ claimed # {} /\ Cardinality(claimed) <= Limit
       /\ row' = [u \in Uploads |->
            IF u \in claimed
            THEN [row[u] EXCEPT !.state = "deleting", !.recent = TRUE]
            ELSE row[u]]
       /\ batch' = [batch EXCEPT ![c] = claimed]
  /\ UNCHANGED <<itemVars, issued, bucketVars, registered, hand, erased, faults>>

(* Mutant: the row is deleted even when S3 reported an error.              *)
CleanupDeleteUnchecked(c) ==
  /\ erased[c] = None
  /\ \E u \in batch[c] :
       /\ \/ blobs' = blobs \ {u} /\ UNCHANGED faults
          \/ blobs' = blobs /\ Fault
       /\ erased' = [erased EXCEPT ![c] = u]
  /\ UNCHANGED <<itemVars, row, issued, strays, registered, hand, batch>>

(* The candidate first; when S3 reports an error, done or not, the row     *)
(* stays for a later pass.                                                 *)
CleanupDelete(c) ==
  /\ erased[c] = None
  /\ \E u \in batch[c] :
       \/ /\ blobs' = blobs \ {u}
          /\ erased' = [erased EXCEPT ![c] = u]
          /\ UNCHANGED <<batch, faults>>
       \/ /\ blobs' \in {blobs, blobs \ {u}}
          /\ batch' = [batch EXCEPT ![c] = @ \ {u}]
          /\ Fault
          /\ UNCHANGED erased
  /\ UNCHANGED <<itemVars, row, issued, strays, registered, hand>>

(* delete_pending_upload_garbage                                           *)
CleanupRow(c) ==
  /\ erased[c] # None
  /\ LET u == erased[c]
     IN /\ row' = [row EXCEPT ![u] = IF InState(u, "deleting") THEN None ELSE @]
        /\ batch' = [batch EXCEPT ![c] = @ \ {u}]
  /\ erased' = [erased EXCEPT ![c] = None]
  /\ UNCHANGED <<itemVars, issued, bucketVars, registered, hand, faults>>

-----------------------------------------------------------------------------
(* The handler is dropped with its connection, or its statement fails: it  *)
(* goes no further.  A PUT it was waiting for may still reach the bucket.  *)
HandlerLost(h) ==
  /\ ~At(h, "idle")
  /\ strays' = IF At(h, "claimed") THEN strays \union {hand[h].upload} ELSE strays
  /\ Finish(h)
  /\ Fault
  /\ UNCHANGED <<itemVars, row, issued, blobs, registered, passVars>>

CleanupLost(c) ==
  /\ batch[c] # {}
  /\ batch' = [batch EXCEPT ![c] = {}]
  /\ erased' = [erased EXCEPT ![c] = None]
  /\ Fault
  /\ UNCHANGED <<itemVars, row, issued, bucketVars, registered, hand>>

(* A replica stops, and starts again with                                  *)
(* reset_interrupted_pending_uploads, which does not ask whose upload a    *)
(* row is.                                                                 *)
Restart(replica) ==
  /\ Fault
  /\ strays' = strays \union
       {hand[h].upload : h \in {g \in Handlers \intersect replica : At(g, "claimed")}}
  /\ hand' = [h \in Handlers |-> IF h \in replica THEN Idle ELSE hand[h]]
  /\ batch' = [c \in Collectors |-> IF c \in replica THEN {} ELSE batch[c]]
  /\ erased' = [c \in Collectors |-> IF c \in replica THEN None ELSE erased[c]]
  /\ row' = [u \in Uploads |->
       IF InState(u, "uploading") THEN [row[u] EXCEPT !.state = "authorized"]
       ELSE row[u]]
  /\ UNCHANGED <<itemVars, issued, blobs, registered>>

(* A PUT given up on reaches the bucket after all.                         *)
StrayLands(u) ==
  /\ u \in strays \ blobs
  /\ blobs' = blobs \union {u}
  /\ UNCHANGED <<itemVars, row, issued, strays, registered, hand, passVars,
                 faults>>

(* Time: the hour of an upload is over; a minute since its last cleanup    *)
(* attempt is.                                                             *)
Expire(u) ==
  /\ Valid(u)
  /\ row' = [row EXCEPT ![u].expired = TRUE]
  /\ UNCHANGED <<itemVars, issued, bucketVars, registered, hand, passVars,
                 faults>>

MinutePasses(u) ==
  /\ row[u] # None /\ row[u].recent
  /\ row' = [row EXCEPT ![u].recent = FALSE]
  /\ UNCHANGED <<itemVars, issued, bucketVars, registered, hand, passVars,
                 faults>>

Handle(h) ==
  \/ AuthorizeRead(h) \/ AuthorizeInsert(h) \/ PutClaim(h) \/ PutStore(h)
  \/ PutReset(h) \/ PutMark(h) \/ PutDiscard(h) \/ RegisterFile(h)
Arrive(h)  == AuthorizeFind(h) \/ PutLookup(h) \/ RegisterLookup(h)
Collect(c) == CleanupClaim(c) \/ CleanupDelete(c) \/ CleanupRow(c)
Tick(u)    == Expire(u) \/ MinutePasses(u)

Next ==
  \/ \E k \in Items : Attach(k) \/ Detach(k)
  \/ \E h \in Handlers : Arrive(h) \/ Handle(h) \/ HandlerLost(h)
  \/ \E c \in Collectors : Collect(c) \/ CleanupLost(c)
  \/ \E u \in Uploads : StrayLands(u) \/ Tick(u)
  \/ \E replica \in Replicas : Restart(replica)

Spec == Init /\ [][Next]_vars

(* Handlers and cleanup passes run on, the cleanup loop starts a pass      *)
(* every minute, and time passes.                                          *)
Fairness ==
  /\ \A h \in Handlers : WF_vars(Handle(h))
  /\ \A c \in Collectors : WF_vars(Collect(c))
  /\ \A u \in Uploads : WF_vars(MinutePasses(u))

FairSpec == Spec /\ Fairness

-----------------------------------------------------------------------------
(***************************************************************************)
(* Properties.                                                             *)
(***************************************************************************)

(* A registered file's bytes are in the bucket: no cleanup pass, retry,    *)
(* restart or late answer takes them away or lets a file be registered     *)
(* without them.                                                           *)
RegisteredStored == \A k \in Items : file[k] # None => file[k].blob \in blobs

(* At most one handler is between claiming an upload and being done with   *)
(* it, and an upload marked as stored is in the bucket.                    *)
Holds(h, u) ==
  hand[h].upload = u /\ hand[h].pc \in {"claimed", "stored", "failed", "unmarked"}

UploadedOnce ==
  \A u \in Uploads :
     /\ InState(u, "uploaded") => u \in blobs
     /\ \A g, h \in Handlers : Holds(g, u) /\ Holds(h, u) => g = h

(* No candidate is forgotten: what the bucket holds is named by a pending  *)
(* row, was registered, or got there behind the service's back.            *)
CandidatesTracked ==
  \A u \in blobs : row[u] # None \/ u \in registered \/ u \in strays

(* An upload is registered at most once, however often its registration is *)
(* repeated, and never while a cleanup pass is about to delete its bytes.  *)
RegistersOnce ==
  [][\A k \in Items :
       file'[k] # file[k] /\ file'[k] # None =>
         LET u == file'[k].blob
         IN /\ u \notin registered
            /\ \A c \in Collectors : u \notin batch[c]]_vars

(* What a row would still do, when it is not given up.                     *)
Open(u) == row[u] # None /\ row[u].state \notin {"discarded", "deleting"}

Offered ==
  [u \in Uploads |->
     IF Open(u)
     THEN [item |-> row[u].item, expected |-> row[u].expected, md5 |-> row[u].md5]
     ELSE None]

Promise == INSTANCE AttachmentFiles WITH offer <- Offered, stored <- blobs

(***************************************************************************)
(* Handlers, rows, passes and restarts implement AttachmentFiles: the file *)
(* of an item changes by compare-and-set on its md5, once per upload, with *)
(* the bytes at hand, and no bytes are removed while they can be needed.   *)
(***************************************************************************)
ImplementsAttachmentFiles == Promise!Spec

(* A discarded or deleting row is gone in the end, whatever pass or answer *)
(* was lost on the way.                                                    *)
DiscardedCollected ==
  \A u \in Uploads :
     row[u] # None /\ row[u].state \in {"discarded", "deleting"} ~> row[u] = None

(* An expired upload is gone in the end, unless its handler vanished while *)
(* it held the row: then only a restart brings it back.                    *)
Stranded(u) == InState(u, "uploading") /\ \A h \in Handlers : ~Holds(h, u)

ExpiredCollected ==
  \A u \in Uploads :
     row[u] # None /\ row[u].expired ~> row[u] = None \/ Stranded(u)
=============================================================================
