---------------------------- MODULE LibraryStore ----------------------------
(***************************************************************************)
(* The write side of one library of the store: store/mod.rs, objects.rs,   *)
(* settings.rs, tags.rs, fulltext.rs and the registration transaction of   *)
(* files.rs, run by concurrent request handlers.                           *)
(*                                                                         *)
(* Every writing handler is one PostgreSQL transaction.  It locks the      *)
(* library row, compares the version the client expects, reserves the next *)
(* version, treats its batch entry by entry, and commits.  db is what is   *)
(* committed; draft[w] is what handler w's open transaction sees.  The     *)
(* draft is taken when the row lock is granted: no other transaction of    *)
(* the library can commit until the lock is released, so what READ         *)
(* COMMITTED statements would see meanwhile is that state plus the         *)
(* transaction's own changes.                                              *)
(*                                                                         *)
(* A batch is input nothing looks ahead into, so its entries are chosen    *)
(* when they are reached and a request only holds how many are left.       *)
(***************************************************************************)
EXTENDS Integers, FiniteSets

CONSTANTS
  Writers,      \* request handlers that can be in flight at once
  Items,        \* keys of kind 'item'
  Others,       \* keys of kind 'collection' or 'search'
  Settings,     \* setting keys
  Tags,         \* tag names
  Hashes,       \* md5 values of attachment files
  None,         \* no row, no draft, no precondition, nobody
  Omitted,      \* a field the client did not send
  MaxBatch,     \* bound on the entries of a batch
  MaxVersion    \* bound on the version counter

Objects == Items \union Others
Buried  == Objects \union Settings \union Tags   \* what the deletion log names

ASSUME NamesAssumption ==
  /\ Items \intersect Others = {}
  /\ Objects \intersect (Settings \union Tags) = {}
  /\ Settings \intersect Tags = {}
ASSUME OmittedAssumption ==
  Omitted \notin BOOLEAN /\ \A names \in SUBSET Tags : Omitted # names
ASSUME BoundsAssumption == MaxBatch \in Nat \ {0} /\ MaxVersion \in Nat

VARIABLES
  db,      \* the committed rows of the library
  lock,    \* the transaction that holds the library row FOR UPDATE, or None
  draft,   \* what each open transaction sees
  pc,      \* what each handler is doing
  req,     \* the request each handler serves
  reply    \* the answer to each handler's latest request

vars == <<db, lock, draft, pc, req, reply>>

(***************************************************************************)
(* Rows.  An object row is its version column and the parts of its jsonb   *)
(* that the store looks at: data.version, whether itemType and linkMode    *)
(* make it a stored-file attachment, and data.tags.  born is a history     *)
(* field: the version at which the row last became a stored attachment.    *)
(***************************************************************************)
Object == [version : Nat, dataVersion : Nat, stored : BOOLEAN,
           tags : SUBSET Tags, born : Nat]
File   == [md5 : Hashes, born : Nat]

Database == [version  : Nat,
             object   : [Objects -> {None} \union Object],
             file     : [Items -> {None} \union File],
             setting  : [Settings -> Nat],     \* the row's version, 0: no row
             fulltext : [Items -> Nat],
             deletion : [Buried -> Nat]]

(* None is none of the values it stands beside.                            *)
ASSUME NoneAssumption ==
  /\ None \notin Writers \union Hashes \union Nat
  /\ None \notin Object /\ None \notin File /\ None \notin Database

EmptyDatabase == [version  |-> 0,
                  object   |-> [k \in Objects |-> None],
                  file     |-> [k \in Items |-> None],
                  setting  |-> [s \in Settings |-> 0],
                  fulltext |-> [k \in Items |-> 0],
                  deletion |-> [r \in Buried |-> 0]]

IsStoredFileAttachment(row) == row # None /\ row.stored

Patch == [stored : {Omitted} \union BOOLEAN,
          tags   : {Omitted} \union SUBSET Tags]

(* The stored object with the provided fields overlaid, stamped.           *)
Merge(old, patch, version) ==
  LET stored == IF patch.stored # Omitted THEN patch.stored
                ELSE IsStoredFileAttachment(old)
  IN [version     |-> version,
      dataVersion |-> version,
      stored      |-> stored,
      tags        |-> IF patch.tags # Omitted THEN patch.tags
                      ELSE IF old # None THEN old.tags ELSE {},
      born        |-> CASE ~stored -> 0
                        [] stored /\ IsStoredFileAttachment(old) -> old.born
                        [] OTHER -> version]

(***************************************************************************)
(* What one batch entry does to the transaction's view d.                  *)
(***************************************************************************)
(* Mutants: the deletion-log entry, or the old file, outlives the write.   *)
WriteObjectKeepsTombstone(d, k, patch) ==
  [d EXCEPT !.object = [d.object EXCEPT ![k] =
                          Merge(d.object[k], patch, d.version)]]

WriteObjectKeepsFile(d, k, patch) ==
  [d EXCEPT !.object   = [d.object EXCEPT ![k] =
                            Merge(d.object[k], patch, d.version)],
            !.deletion = [d.deletion EXCEPT ![k] = 0]]

WriteObject(d, k, patch) ==
  LET old == d.object[k]
      new == Merge(old, patch, d.version)
      continuous == IsStoredFileAttachment(old) /\ IsStoredFileAttachment(new)
  IN [d EXCEPT !.object   = [d.object EXCEPT ![k] = new],
               !.file     = IF k \in Items /\ ~continuous
                            THEN [d.file EXCEPT ![k] = None] ELSE d.file,
               !.deletion = [d.deletion EXCEPT ![k] = 0]]

DeleteObject(d, k) ==
  [d EXCEPT !.object   = [d.object EXCEPT ![k] = None],
            !.file     = IF k \in Items
                         THEN [d.file EXCEPT ![k] = None] ELSE d.file,
            !.deletion = [d.deletion EXCEPT ![k] = d.version]]

WriteSetting(d, s) ==
  [d EXCEPT !.setting = [d.setting EXCEPT ![s] = d.version]]

DeleteSetting(d, s) ==
  [d EXCEPT !.setting  = [d.setting EXCEPT ![s] = 0],
            !.deletion = [d.deletion EXCEPT ![s] = d.version]]

(* The tag leaves data.tags of every item that carries it, under a new row *)
(* version; data.version stays as it was.                                  *)
UntaggedKeepsVersion(row, t, version) ==    \* mutant
  IF row # None /\ t \in row.tags THEN [row EXCEPT !.tags = @ \ {t}] ELSE row

Untagged(row, t, version) ==
  IF row # None /\ t \in row.tags
  THEN [row EXCEPT !.version = version, !.tags = row.tags \ {t}]
  ELSE row

DeleteTag(d, t) ==
  [d EXCEPT !.object   = [k \in Objects |->
                            IF k \in Items
                            THEN Untagged(d.object[k], t, d.version)
                            ELSE d.object[k]],
            !.deletion = [d.deletion EXCEPT ![t] = d.version]]

(* No check that the item exists.                                          *)
WriteFulltextAhead(d, k) ==    \* mutant: bumps again for the entry
  [d EXCEPT !.fulltext = [d.fulltext EXCEPT ![k] = d.version + 1]]

WriteFulltext(d, k) ==
  [d EXCEPT !.fulltext = [d.fulltext EXCEPT ![k] = d.version]]

CurrentMd5(d, k) == IF d.file[k] = None THEN None ELSE d.file[k].md5

Restamped(row, version) ==
  [row EXCEPT !.version = version, !.dataVersion = version]

RegisterFileOldMd5(d, k, md5) ==    \* mutant: keeps the replaced md5
  [d EXCEPT !.file = [d.file EXCEPT ![k] =
                        [md5 |-> CurrentMd5(d, k), born |-> d.object[k].born]]]

RegisterFile(d, k, md5) ==
  [d EXCEPT !.object = [d.object EXCEPT ![k] =
                          Restamped(d.object[k], d.version)],
            !.file   = [d.file EXCEPT ![k] =
                          [md5 |-> md5, born |-> d.object[k].born]]]

(***************************************************************************)
(* Requests.  The handlers refuse a write without If-Unmodified-Since-     *)
(* Version, so only register_file comes without an expected version.       *)
(* files says whether the caller may write stored files: always in a       *)
(* personal library, by file_write in a group.  Writers of a register_file *)
(* have it, or lock_upload_authorities denies them.                        *)
(***************************************************************************)
Ops == {"write", "delete", "write_settings", "delete_settings",
        "delete_tags", "write_fulltext", "register_file"}

Requests == [op : Ops, kind : {"item", "other"}, files : BOOLEAN,
             expected : {None} \union Nat, left : Nat]

(* The requests a client of a library at version v can send: it expects a  *)
(* version it has read.  An empty batch takes one path whatever it is a    *)
(* batch of.                                                               *)
RequestsAt(v) ==
  [op : {"write", "delete"}, kind : {"item", "other"}, files : BOOLEAN,
   expected : 0..v, left : 1..MaxBatch]
  \union
  [op : Ops \ {"write", "delete", "register_file"}, kind : {"item"},
   files : BOOLEAN, expected : 0..v, left : 1..MaxBatch]
  \union
  [op : {"write"}, kind : {"item"}, files : {FALSE}, expected : 0..v,
   left : {0}]
  \union
  [op : {"register_file"}, kind : {"item"}, files : {TRUE},
   expected : {None}, left : {1}]

NoRequest == [op |-> "write", kind |-> "item", files |-> FALSE,
              expected |-> None, left |-> 0]

KeysOf(kind) == IF kind = "item" THEN Items ELSE Others

(* Collections and searches have no link mode and no tags.                 *)
PatchesOf(kind) ==
  IF kind = "item" THEN Patch ELSE [stored : {Omitted}, tags : {Omitted}]

Statuses == {"none", "done", "unchanged", "conflict", "denied", "invalid",
             "error"}
Reply(status, version) == [status |-> status, version |-> version]

TypeOK ==
  /\ db \in Database
  /\ lock \in {None} \union Writers
  /\ draft \in [Writers -> {None} \union Database]
  /\ pc \in [Writers -> {"idle", "waiting", "running"}]
  /\ req \in [Writers -> Requests]
  /\ reply \in [Writers -> [status : Statuses, version : Nat]]

Init ==
  /\ db = EmptyDatabase
  /\ lock = None
  /\ draft = [w \in Writers |-> None]
  /\ pc = [w \in Writers |-> "idle"]
  /\ req = [w \in Writers |-> NoRequest]
  /\ reply = [w \in Writers |-> Reply("none", 0)]

InFlight == {w \in Writers : pc[w] # "idle"}

(* A request arrives.  Past the bound on the counter only empty batches,   *)
(* which never take a version, keep coming.                                *)
Begin(w) ==
  /\ pc[w] = "idle"
  /\ \E r \in RequestsAt(db.version) :
       /\ r.left = 0 \/ db.version + Cardinality(InFlight) < MaxVersion
       /\ req' = [req EXCEPT ![w] = r]
  /\ pc' = [pc EXCEPT ![w] = "waiting"]
  /\ reply' = [reply EXCEPT ![w] = Reply("none", 0)]
  /\ UNCHANGED <<db, lock, draft>>

Answer(w, status, version) ==
  /\ pc' = [pc EXCEPT ![w] = "idle"]
  /\ req' = [req EXCEPT ![w] = NoRequest]
  /\ reply' = [reply EXCEPT ![w] = Reply(status, version)]

(* An empty batch reads the counter without the lock and never bumps it.   *)
NoChange(w) ==
  /\ pc[w] = "waiting"
  /\ req[w].left = 0
  /\ IF req[w].expected # db.version
     THEN Answer(w, "conflict", db.version)
     ELSE Answer(w, "unchanged", db.version)
  /\ UNCHANGED <<db, lock, draft>>

(* guarded_version: the library row is locked, the expectation compared    *)
(* and the next version reserved; register_file expects no version.        *)
Reserve(w) ==
  /\ lock' = w
  /\ draft' = [draft EXCEPT ![w] = [db EXCEPT !.version = @ + 1]]
  /\ pc' = [pc EXCEPT ![w] = "running"]
  /\ UNCHANGED <<db, req, reply>>

(* Mutants: the row is read without FOR UPDATE; a client that is behind is *)
(* let through.                                                            *)
GuardedVersionUnlocked(w) ==
  /\ pc[w] = "waiting" /\ req[w].left > 0
  /\ req[w].expected \in {None, db.version}
  /\ Reserve(w)

GuardedVersionAtMost(w) ==
  /\ pc[w] = "waiting" /\ req[w].left > 0 /\ lock = None
  /\ req[w].expected # None => req[w].expected <= db.version
  /\ Reserve(w)

GuardedVersion(w) ==
  /\ pc[w] = "waiting"
  /\ req[w].left > 0
  /\ lock = None
  /\ IF req[w].expected \notin {None, db.version}
     THEN /\ Answer(w, "conflict", db.version)
          /\ UNCHANGED <<db, lock, draft>>
     ELSE Reserve(w)

RollbackKeepsLock(w, status) ==    \* mutant: the refusal leaks the lock
  /\ draft' = [draft EXCEPT ![w] = None]
  /\ Answer(w, status, db.version)
  /\ UNCHANGED <<db, lock>>

Rollback(w, status) ==
  /\ lock' = None
  /\ draft' = [draft EXCEPT ![w] = None]
  /\ Answer(w, status, db.version)
  /\ UNCHANGED db

ApplyAtOnce(w, d) ==    \* mutant: the entry is committed on its own
  /\ draft' = [draft EXCEPT ![w] = d]
  /\ req' = [req EXCEPT ![w].left = @ - 1]
  /\ db' = d
  /\ UNCHANGED <<lock, pc, reply>>

Apply(w, d) ==
  /\ draft' = [draft EXCEPT ![w] = d]
  /\ req' = [req EXCEPT ![w].left = @ - 1]
  /\ UNCHANGED <<db, lock, pc, reply>>

AtEntry(w, op) == pc[w] = "running" /\ req[w].op = op /\ req[w].left > 0

(* A key the client left out is generated, so k is any key, one already in *)
(* use included.                                                           *)
WriteEntryNewRowOnly(w) ==    \* mutant: the old row's file is not guarded
  /\ AtEntry(w, "write")
  /\ \E k \in KeysOf(req[w].kind), patch \in PatchesOf(req[w].kind) :
       IF /\ req[w].kind = "item" /\ ~req[w].files
          /\ Merge(draft[w].object[k], patch, draft[w].version).stored
       THEN Rollback(w, "denied")
       ELSE Apply(w, WriteObject(draft[w], k, patch))

WriteEntry(w) ==
  /\ AtEntry(w, "write")
  /\ \E k \in KeysOf(req[w].kind), patch \in PatchesOf(req[w].kind) :
       LET old == draft[w].object[k]
           touchesFile == \/ IsStoredFileAttachment(old)
                          \/ Merge(old, patch, draft[w].version).stored
       IN IF req[w].kind = "item" /\ ~req[w].files /\ touchesFile
          THEN Rollback(w, "denied")
          ELSE Apply(w, WriteObject(draft[w], k, patch))

DeleteEntryUnchecked(w) ==    \* mutant: a delete needs no file access
  /\ AtEntry(w, "delete")
  /\ \E k \in KeysOf(req[w].kind) : Apply(w, DeleteObject(draft[w], k))

DeleteEntry(w) ==
  /\ AtEntry(w, "delete")
  /\ \E k \in KeysOf(req[w].kind) :
       IF /\ req[w].kind = "item"
          /\ ~req[w].files
          /\ IsStoredFileAttachment(draft[w].object[k])
       THEN Rollback(w, "denied")
       ELSE Apply(w, DeleteObject(draft[w], k))

WriteSettingEntry(w) ==
  /\ AtEntry(w, "write_settings")
  /\ \E s \in Settings : Apply(w, WriteSetting(draft[w], s))

DeleteSettingEntry(w) ==
  /\ AtEntry(w, "delete_settings")
  /\ \E s \in Settings : Apply(w, DeleteSetting(draft[w], s))

DeleteTagEntry(w) ==
  /\ AtEntry(w, "delete_tags")
  /\ \E t \in Tags : Apply(w, DeleteTag(draft[w], t))

WriteFulltextEntry(w) ==
  /\ AtEntry(w, "write_fulltext")
  /\ \E k \in Items : Apply(w, WriteFulltext(draft[w], k))

(* The md5 the upload was authorized against must still be the file's.     *)
RegisterEntry(w) ==
  /\ AtEntry(w, "register_file")
  /\ \E k \in Items, expected \in Hashes \union {None}, md5 \in Hashes :
       \/ /\ ~IsStoredFileAttachment(draft[w].object[k])
          /\ Rollback(w, "invalid")
       \/ /\ IsStoredFileAttachment(draft[w].object[k])
          /\ CurrentMd5(draft[w], k) # expected
          /\ Rollback(w, "conflict")
       \/ /\ IsStoredFileAttachment(draft[w].object[k])
          /\ CurrentMd5(draft[w], k) = expected
          /\ Apply(w, RegisterFile(draft[w], k, md5))

(* The commit may succeed and its answer be lost with the connection.      *)
Commit(w) ==
  /\ pc[w] = "running"
  /\ req[w].left = 0
  /\ db' = draft[w]
  /\ lock' = None
  /\ draft' = [draft EXCEPT ![w] = None]
  /\ \/ Answer(w, "done", draft[w].version)
     \/ Answer(w, "error", 0)

(* A statement fails, or the handler is dropped: the transaction rolls     *)
(* back.                                                                   *)
Abort(w) ==
  \/ /\ pc[w] = "waiting"
     /\ Answer(w, "error", 0)
     /\ UNCHANGED <<db, lock, draft>>
  \/ /\ pc[w] = "running"
     /\ Rollback(w, "error")

Entry(w) ==
  \/ WriteEntry(w) \/ DeleteEntry(w)
  \/ WriteSettingEntry(w) \/ DeleteSettingEntry(w)
  \/ DeleteTagEntry(w) \/ WriteFulltextEntry(w) \/ RegisterEntry(w)

Next ==
  \E w \in Writers :
     \/ Begin(w) \/ NoChange(w) \/ GuardedVersion(w)
     \/ Entry(w) \/ Commit(w) \/ Abort(w)

Spec == Init /\ [][Next]_vars

(* A handler that can step does, and row-lock waiters are served first in, *)
(* first out, so a waiting transaction is granted the library row.         *)
Fairness ==
  \A w \in Writers :
     /\ WF_vars(NoChange(w) \/ Entry(w) \/ Commit(w))
     /\ SF_vars(GuardedVersion(w))

FairSpec == Spec /\ Fairness

-----------------------------------------------------------------------------
(***************************************************************************)
(* Properties.                                                             *)
(***************************************************************************)

(* No row and no deletion-log entry carries a version the library has not  *)
(* reached, and a live row always carries one: `since = version` never     *)
(* hides a change and never returns a row that does not exist yet.         *)
StampsBounded(d) ==
  /\ \A k \in Objects : d.object[k] # None =>
        /\ 0 < d.object[k].version /\ d.object[k].version <= d.version
        /\ d.object[k].dataVersion <= d.object[k].version
  /\ \A s \in Settings : d.setting[s] <= d.version
  /\ \A k \in Items : d.fulltext[k] <= d.version
  /\ \A r \in Buried : d.deletion[r] <= d.version

(* An object is never both live and in the deletion log: a client that     *)
(* reads the changed objects and then /deleted never drops what it has     *)
(* just downloaded.                                                        *)
NoLiveTombstone(d) ==
  \A k \in Objects : d.object[k] # None => d.deletion[k] = 0

(* A file row belongs to a live stored attachment, and to the same one it  *)
(* was registered for: deleting or converting an item and reusing its key  *)
(* does not bring the old bytes back.                                      *)
FilesBelong(d) ==
  \A k \in Items : d.file[k] # None =>
     /\ IsStoredFileAttachment(d.object[k])
     /\ d.file[k].born = d.object[k].born

Consistent(d) == StampsBounded(d) /\ NoLiveTombstone(d) /\ FilesBelong(d)

CommittedStampsBounded   == StampsBounded(db)
CommittedNoLiveTombstone == NoLiveTombstone(db)
CommittedFilesBelong     == FilesBelong(db)

(* The library row is held by the one open transaction, and what that      *)
(* transaction will commit is the successor of what is committed: no other *)
(* handler has committed since it compared the version.                    *)
WritersSerialized ==
  \A w \in Writers :
     /\ pc[w] = "running" <=> lock = w
     /\ pc[w] = "running" <=> draft[w] # None
     /\ pc[w] = "running" => draft[w].version = db.version + 1

(* Two handlers never answer with the same new version, and no answer      *)
(* names a version that is not committed.                                  *)
DistinctVersions ==
  \A w \in Writers : reply[w].status = "done" =>
     /\ reply[w].version <= db.version
     /\ \A o \in Writers \ {w} :
          reply[o].status = "done" => reply[o].version # reply[w].version

(* e is d after one write: it took exactly one version and stamped every   *)
(* row it changed with it; a row that is gone is in the deletion log; an   *)
(* entry left the log only because its object is live again; and a file    *)
(* row changed only together with its item.                                *)
Stamped(d, e) ==
  /\ e.version = d.version + 1
  /\ \A k \in Objects : e.object[k] # d.object[k] =>
        IF e.object[k] = None THEN e.deletion[k] = e.version
        ELSE e.object[k].version = e.version
  /\ \A s \in Settings : e.setting[s] # d.setting[s] =>
        IF e.setting[s] = 0 THEN e.deletion[s] = e.version
        ELSE e.setting[s] = e.version
  /\ \A k \in Items : e.fulltext[k] # d.fulltext[k] =>
        e.fulltext[k] = e.version
  /\ \A r \in Buried : e.deletion[r] # d.deletion[r] =>
        \/ e.deletion[r] = e.version
        \/ r \in Objects /\ e.object[r] # None
  /\ \A k \in Items : e.file[k] # d.file[k] => e.object[k] # d.object[k]

(* Every commit is one such write, so a reader that asks for what changed  *)
(* since the version before it learns of everything the write did.         *)
ChangesAreStamped == [][db' # db => Stamped(db, db')]_vars

(* A batch is committed only onto the very version its client expected, or *)
(* for a file registration onto whatever is current; a commit whose answer *)
(* was lost and that is sent again with the same expectation is refused.   *)
GuardedCommit ==
  [][db' # db =>
       \E w \in Writers : /\ pc[w] = "running"
                          /\ pc'[w] = "idle"
                          /\ req[w].expected \in {None, db.version}]_vars

(* A batch sent without file access never adds, replaces or removes the    *)
(* file of any item, whichever endpoint it came through and whatever else  *)
(* is in it.                                                               *)
FileAccessRespected ==
  [][db' # db =>
       \A w \in Writers : (lock = w /\ ~req[w].files) => db'.file = db.file]_vars

(* What an open transaction has built so far: a consistent view, one       *)
(* stamped step away from the committed rows, on the version its client    *)
(* expected, with no file touched unless the client may.                   *)
DraftSound(w) ==
  /\ Consistent(draft[w])
  /\ Stamped(db, draft[w])
  /\ req[w].expected \in {None, db.version}
  /\ ~req[w].files => draft[w].file = db.file

(* The inductive invariant behind the properties above.                    *)
IInv ==
  /\ TypeOK
  /\ WritersSerialized
  /\ DistinctVersions
  /\ Consistent(db)
  /\ \A w \in Writers : req[w].op = "register_file" => req[w].files
  /\ \A w \in Writers : pc[w] = "running" => DraftSound(w)

(* Every request is answered, however the handlers compete for the library *)
(* row and whichever of them fail.                                         *)
EveryRequestAnswered ==
  \A w \in Writers : pc[w] # "idle" ~> pc[w] = "idle"

(***************************************************************************)
(* The abstract store this module implements.                              *)
(***************************************************************************)
StoredRows == ({"object"} \X Objects) \union ({"setting"} \X Settings)
              \union ({"tag"} \X Tags) \union ({"fulltext"} \X Items)

LiveStamp(row) ==
  CASE row[1] = "object"   -> IF db.object[row[2]] = None THEN 0
                              ELSE db.object[row[2]].version
    [] row[1] = "setting"  -> db.setting[row[2]]
    [] row[1] = "fulltext" -> db.fulltext[row[2]]
    [] row[1] = "tag"      -> 0

Promise == INSTANCE VersionedStore WITH
  Rows <- StoredRows,
  Reviving <- {"object"} \X Objects,
  version <- db.version,
  live <- [row \in StoredRows |-> LiveStamp(row)],
  dead <- [row \in StoredRows |->
             IF row[1] = "fulltext" THEN 0 ELSE db.deletion[row[2]]]

(* Every transaction, seen from outside, is one atomic versioned write or  *)
(* nothing: batches are never half visible and refused ones leave no trace.*)
ImplementsVersionedStore == Promise!Spec
=============================================================================
