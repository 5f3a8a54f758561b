# Verification of xotero

xotero is a self-hosted server for the Zotero sync API: an axum service in front of
PostgreSQL and an S3 bucket. Many clients share a library. Each works from a cursor, the
library version it has seen, and everything the service promises is a promise about versions:
a write is accepted only onto the version its sender has seen, and a read "since" a version
tells of everything stamped after it. This directory holds TLA+ models of that service, what
TLC checks of them, and what TLAPS proves. All paths below are under `src/xotero/src/`
unless they start with `docs/`.

## The system

| component | state | operations | what makes it correct |
|---|---|---|---|
| library version and guarded writes, `store/mod.rs` | `library.version`, its row lock | `guarded_version`, `no_change` | writers serialised; one version per commit; stale clients refused; no-ops free |
| objects, `store/objects.rs` | `object`, `file`, `deletion` | `write` (merge), `delete` | changed rows stamped; live rows not in the log; a file belongs to the attachment it was uploaded for; file access respected whatever the batch |
| settings, tags, full text, `store/settings.rs`, `tags.rs`, `fulltext.rs` | `setting`, `fulltext`, `deletion` | write and delete batches | as above; a deleted tag restamps the items that carried it |
| version reads, `store/versions.rs`, `http/headers.rs` | none of its own | `versions`, `top_versions`, `deleted`, `since_check` | no write that commits between two statements or two requests is lost to a client |
| pending uploads, `store/files.rs`, `handlers/files.rs` | `pending_uploads` | authorize, PUT, register, cleanup | one upload of the bytes, one registration; no live bytes collected; nothing forgotten |
| object storage, `s3.rs` | the bucket | put, delete, presigned get | retries are idempotent |
| upload authority, `store/files.rs` | locks on keys, members, users, libraries | `lock_upload_authorities` | revocation and registration serialise; no deadlock |
| login sessions, `store/sessions.rs`, `handlers/login.rs` | `login_sessions`, `api_keys` | create, poll, cancel, complete | at most one key per session; nothing after cancel or expiry |
| identity and keys, `store/identity.rs`, `handlers/keys.rs` | `users`, `api_keys` | bootstrap, authenticate, revoke | a revoked key opens nothing |
| groups, `store/groups.rs`, `handlers/groups.rs`, `http/access.rs` | `groups`, `group_members`, grants | `resolve_group_library_with_grants` | access is role and grant and policy, never one alone |
| middleware, `http/middleware.rs` | four decoder permits | decode, authenticate, log | every permit comes back |
| item queries, `query.rs`, `store/objects.rs` | none | parse, page, sort | pages partition the result |
| keys, `http/validation.rs`, `generate_key` | none | generate, validate | what is generated is valid |
| start-up, `main.rs` | process | migrate, reset, clean up, serve | interrupted uploads can be retried |

Interactions: handlers run concurrently, in one process or in several replicas, and share only
the database and the bucket. Every request passes the middleware first, which decides once, from
the tables, what it may do, and collects its body. Every write handler is one transaction on its
library's row. Read handlers run two or three statements outside any transaction, the version for
the header and the rows, in an order that differs from handler to handler. Uploads are a
conversation of several requests and one background loop over `pending_uploads`, each step a
statement or transaction of its own; the last of them, registration, decides its authority again
under locks. A browser login is a row that a client polls and a browser decides. The client is a
participant: what it sends is what it learnt from earlier answers.

What is hard here: writers racing on one version; answers lost after the commit; a refusal in
the middle of a batch; sequences such as delete and recreate of one key; writes between the
statements of a read and between the requests of a pull; uploads that expire, crash, or are
retried while a cleanup pass works on them; a PUT that lands late; rights that change under a
registration, and the locks that are to prevent it; two approvals of one login; a decoding job that
outlives its request. `PROJECT.json` lists each
hazard with its line and the properties aimed at it.

## Modules

| module | what it is |
|---|---|
| `VersionedStore` | the abstract promise: a counter and stamped rows, one atomic write per step |
| `LibraryStore` | the write transactions of `store/`, entry by entry, by concurrent handlers |
| `SyncClient` | the read handlers and a client, over the steps of `VersionedStore` |
| `AttachmentFiles` | the abstract promise of uploads: a file is replaced by compare-and-set, with its bytes at hand |
| `UploadLifecycle` | `pending_uploads`, its handlers, the bucket, cleanup, restart |
| `AccessRules` | operators: resolving credentials and groups, what they are entitled to, on any tables |
| `RequestGates` | operators: which requests the middleware lets through, and with which rights |
| `UploadAuthority` | `lock_upload_authorities`, beside changes of every row it reads |
| `RowLocks` | the order in which every transaction of the server locks rows |
| `LoginGrant` | the abstract promise of a login: decided once |
| `LoginSession` | `login_sessions`, approvals, cancellations, polls, purge, expiry |
| `RequestAdmission` | arrival, queue, permits, bodies and decoding jobs of requests |
| `ItemQuery` | operators: what an item query matches, its order, pages, links and key list |
| `LibraryRequests` | requests from arrival to answer: `RequestAdmission` with `ItemQuery` |
| `Sorting` | operator: numbers in their own order, as `order by id` gives them |
| `MC*` | instances for TLC; `MCAccessRules` holds the tables two of them start from |
| `LibraryStore_proofs`, `SyncClient_proofs`, `LoginSession_proofs`, `UploadAuthority_proofs`, `UploadLifecycle_proofs`, `RowLocks_proofs`, `LibraryRequests_proofs` (also of `RequestAdmission`) | theorems |
| `Sorting_proofs` | theorems about finite sets with an order: the last element, the listing |

`LibraryStore` implements `VersionedStore` (run `LibraryStoreRefinement`; proved), and `SyncClient` is
checked and proved against `VersionedStore`; that is how the write side and the read side are
composed without multiplying their states (`StoreKept`: the library a client syncs with makes the
abstract store's steps and no others). `UploadLifecycle` implements `AttachmentFiles` (run
`UploadLifecycle`; proved). `LoginSession` implements `LoginGrant` (checked and
proved). `UploadAuthority` and `RequestAdmission` apply the same `AccessRules` to the tables, so
`RulesAgree` can compare the decision before a request with the one under its locks.
`LibraryRequests` extends `RequestAdmission` and `ItemQuery`: the writes that come between the
statements of a listing are requests that were admitted, and the listing's keys carry the versions
they gave them. `RowLocks` takes from the others only the order of their locks.

Definitions whose comment says "mutant" are broken variants of the definition that follows
them. They are not used by the specification; substituting one must break the property it is
paired with in `PROJECT.json`.

### LibraryStore

| variable | in the code |
|---|---|
| `db` | the committed rows of one library (`library`, `object`, `file`, `setting`, `fulltext`, `deletion`) |
| `lock` | the transaction holding `select version from library ... for update` |
| `draft[w]` | what handler `w`'s open transaction sees |
| `pc[w]`, `req[w]`, `reply[w]` | where the handler is, its request, its last answer |

`Begin` is the arrival of a request past `precondition`; `NoChange` is `no_change` for an
empty batch, which takes no lock; `GuardedVersion` locks, compares and reserves; one `...Entry`
action per kind of batch treats one entry; `Commit` commits and answers, or loses the answer;
`Abort` is a failed statement or a dropped handler. A refusal in the middle of a batch is
`Rollback`, as in the code, where the early return drops the transaction. `RegisterEntry` is
the part of `register_file` that runs under the library lock.

Data is reduced to what the store looks at: an object is its row version, its `data.version`,
whether `itemType` and `linkMode` make it a stored-file attachment, and its tags. The field
`born` is a history variable, used to say that a file belongs to the same attachment it was
registered for. Entries are chosen when they are reached, which gives the same batches as
choosing them at the start because no handler looks ahead.

The draft is taken when the lock is granted. PostgreSQL runs these transactions READ COMMITTED,
so each statement sees what is committed when it starts; under the library's row lock nothing
else of the library can be committed in between, so both views agree.

### SyncClient

`version`, `live` and `dead` are the abstract store. `SettingsVersion` / `SettingsRows`
(`settings_read`), `ListingVersion` / `ListingRows` (`read`, `item_sync_read`),
`Download` (`store::objects`) and `DeletedRows` / `DeletedVersion` (`deleted`) are the
statements of the read handlers in the order each runs them: the version first in the first
two, the rows first in `deleted`. `target` is the version the pull began with, `wanted` what it
has still to fetch, `cursor` what it records at the end. The keyed read is one step because the
client does not use its header. `Upload` is a guarded write.

The client is not part of the repository. It is modelled from what the handlers' comments and
`docs/API.md` say of the stock Zotero client: the order of its requests, that it starts again
when a listing or `/deleted` comes from another version, that a version listing needs a 200
with a header, that it keeps what it has stored when a pull breaks off. These definitions are
marked external in the map.

### AttachmentFiles, UploadLifecycle

`row` is `pending_uploads`, with `expired` for `expires_at <= now()` and `recent` for
`gc_attempted_at` within the last minute; `blobs` is the bucket; `file` and `attachment` are
what the store of `LibraryStore` keeps of items; `hand` is what each handler carries from
statement to statement. `AuthorizeFind`, `AuthorizeRead`, `AuthorizeInsert` are
the authorization step of `file_post`; `PutLookup` to `PutDiscard` are `upload_put`;
`RegisterLookup` and `RegisterFile` the registration; `CleanupClaim`, `CleanupDelete`,
`CleanupRow` a cleanup pass; `HandlerLost`, `CleanupLost`, `Restart`, `StrayLands`, `Expire`
and `MinutePasses` the environment. An upload stands for its token, its object key and its
bytes, because both names are fresh random values. `Replicas` says which handlers and passes run
in one process and so stop together.

`register_file` evaluates `now()` when its transaction began, so a row may be found valid
after its time while it waited for locks; the model lets `RegisterFile` succeed on an expired
row that is still `uploaded`.

`AttachmentFiles` is what a client is promised: an open upload is an offer to replace one item's file
if it still has the md5 the client named; it is taken at most once, only with its bytes in the
bucket, and never after it was withdrawn; bytes are removed only when neither an open upload nor a
file can need them. `Offered` maps a row that is `authorized`, `uploading` or `uploaded` to its
offer, and every other row to none: the states of a live row, its expiry, the handlers and the passes
are internal. That a claim by a pass, a refusal and a discard all withdraw for good, and that a
restart, a retry and a late PUT change no offer, is what the mapping has to show.

### AccessRules, RequestGates, UploadAuthority

The authority tables are one function `db` from rows, named by table and key, to values, `Absent`
for a row that does not exist. `Resolves` is the join of `authenticate_api_key` and
`bootstrap_principal`; `GroupExists`, `GroupReads`, `GroupWrites`, `GroupWritesFiles` are
`resolve_group_library_with_grants` and the properties of `LibraryAccess` made from it;
`Discoverable` is the group listing; `PassesGates` is the middleware's order of refusals.
One group stands for all, because no rule relates two groups. The recovery key is a credential
without rows of its own, as in the code.

`reg[r]` is a registration: the statement it will run next (`stage`), which of its two credentials
(`turn`) that is for, what discovery found (`found`), the rows it holds in share mode (`locks`).
`Discover` to `Allow` are the statements of `lock_upload_authorities` in their order, each
failing closed where the code counts rows and compares. A grant that is not locked does not count
(`CountedGrants`), as the code passes the locked ids to the query. `Administer` is any change of
one row, a member's removal with its cascade, or a change of owner, once no registration holds a
row it changes: the server has no administration, so these are changes by others that the schema
admits. `quiet` is a history variable: nothing was changed since the registration began.

### RowLocks

A transaction is the sequence of row locks it asks for, with PostgreSQL's modes: `RegisterLocks`,
`AuthorizeLocks`, `CompleteLocks`, `BootstrapLocks`, `BootstrapExternalLocks`, `WriteLocks` and what an
administrator takes. `taken[t]` is how far it got. What a registration locks depends on what it
discovers, so its programs range over every set of owners and every library. The lock modes, which
of them conflict, and the detector that ends a transaction of a cycle are PostgreSQL's: modelled
from how the code uses them, and external in the map.

### LoginGrant, LoginSession

`status`, `owner` and `minted` are `login_sessions` and the keys minted from it; a session stands
for its token and, since the key is derived from the token (`README.md:80`: the secret is shared and
stable), for its key as well. `age` is the time since creation as far as it matters: fresh, past the
fifteen minutes, past the day. `Create` is `create_login_session` with its purge, `Begin` to `Approve` are
`complete_login_session` and `cancel_login_session` statement by statement, `Poll` is `check_session`.
`Begin` fixes `inTime`: `now()` is the start of the transaction, before the wait for the row.
`Rollback` is a connection lost anywhere. `Relink` and `Toggle` move identities and disable users,
when no approval holds the row.

### RequestAdmission

`stage[r]` is where request `r` is, `queue` the semaphore's waiters, `free` its permits, `jobs` the decoding
jobs that run on threads of their own. `Arrive` is everything up to the wait; `Admit` the semaphore;
`Collected` and `BadBody` the end of the body, whole or not; `JobEnds` the job's return or
panic, which drops the permit it was moved; `Decoded` the request learning of it; `HangUp` the
request's future dropped wherever it is. The tables do not change here: each request reads them
once.

### ItemQuery, LibraryRequests

`Matches` is `push_item_filters`, predicate by predicate with SQL's treatment of missing types;
`Precedes` the order with nulls last and the key as the tie-break; `Page`, `Total`, `KeyListing` the three
statements; `PageLimit`, `PageStart` the clamping of `query.rs`; `HasNext` and `NextQuery` the link.
Items are reduced to what predicates look at; terms stand for the substrings a text contains.

`walk` is a client that lists items: `Count`, `ReadPage`, `Respond` are the statements of `item_listing`,
between which `Write` commits; `Follow` follows the link; `Edit` sends an item of the page back under the
page's version. A write here is a change of one item that takes a version; what else it does is in
`LibraryStore`.

## Runs

| run | instance | states | what it shows |
|---|---|---|---|
| `LibraryStore` | 2 writers, 1 item, 1 collection, 1 setting, 1 tag, 1 hash, batches of up to 2, version up to 3 | 571,664 | type, consistency, serialisation and stamping of every interleaving; `IInv` is what the proofs use |
| `LibraryStoreRefinement` | 2 writers, 1 item, 2 collections, batches of up to 2, version up to 2; fair | 102,769 | batches are atomic to the outside; every request is answered |
| `SyncClient` | a collection, an item, a setting; version up to 3; 1 broken-off pull; fair | 1,065,979 | `NothingMissed`, `NoBlindOverwrite`, and `CatchesUp` |
| `SyncClientSettings` | the same | stops at the counterexample | a removed and rewritten setting is lost |
| `UploadLifecycle` | 1 item, 2 uploads, 2 hashes, 2 handlers, 2 passes, 2 failures | 2,032,981 | `AttachmentFiles` implemented; bytes and tracking |
| `UploadLifecycleReplicas` | 2 replicas with a handler and a pass each, 1 upload, 2 hashes, 3 failures; fair | 123,998 | registered files with several processes; discarded and expired uploads are collected |
| `UploadLifecycleLeak` | 2 replicas, 1 upload | stops at the counterexample | a starting replica makes another one leak a candidate |
| `UploadAuthority` | 1 registration, an owner and a member, 2 keys and the recovery key, 3 starting tables, 2 changes | 908,002 | authority held to the commit, refused only for cause, one rule in three places |
| `RowLocks` | 3 transactions of any kind, 2 users, a group | 2,499,017 | the only cycle is at start |
| `LoginSession` | 2 sessions, 2 requests, 2 users, 2 identities, 2 changes | 364,148 | one key, of the current user; `LoginGrant` implemented |
| `LibraryRequests` | 3 requests, 2 permits, 3 items, 3 queries, pages of 1 and 2; fair | 209,326 | permits conserved, only clients stall, pages exact, walks end |
| `LibraryRequestsHeader` | the same | stops at the counterexample | a page's header may be newer than its rows |

Deadlock is checked in the runs of `LibraryStore`, `SyncClient` and `UploadLifecycle`: the first always
accepts an empty batch, the second always polls, and a pending upload or an item write is always
possible. In `UploadAuthority`, `RowLocks`, `LoginSession` and `LibraryRequests` a behaviour ends when its
transactions, sessions or requests have, since each happens once; their configurations say
`CHECK_DEADLOCK FALSE`. What a deadlock would be there is said by properties: `DeadlocksOnlyAtStart`,
`OnlyClientsStall`, `WalkEnds`.

Bounds. Two writers show every race on a single row lock; a batch of two has an entry before
and after every refusal and lets one batch delete and recreate a key; three versions are a
write, its removal and its rewrite. Past `MaxVersion` only empty batches arrive, so the last
version is still read and compared. The safety run keeps one key of each
sort, three writes deep: its invariants relate the rows of one key, and are proved for any number
of keys. The refinement run has two collections, so that one batch changes two rows: that is
where a batch committed in halves would show. In `SyncClient` three
versions are a write before the pull, one inside it and one after; a broken-off pull
(`MaxFailures`) leaves copies newer than the cursor. In `UploadLifecycle` two uploads to one
item compete for the compare-and-swap of the md5; two handlers compete for one upload; two
passes overlap; `MaxFaults` bounds what fails. In `UploadAuthority` registrations never disturb each
other, as they share every lock, so one is enough; two changes are a revocation and its reversal, or a change
before a lock and one after; the proofs have no bound. In `RowLocks` a cycle of `n` transactions
needs `n` of them: three find every cycle of two and three; two users on either side of the group's library in id order
give each order of library locks. In `LoginSession` two requests race for one session and the second
session is the one whose creation purges. In `LibraryRequests` three requests compete for two permits,
which stand for four, and three items make two pages.

Symmetry is used only in runs without liveness (`ImplementsLoginGrant` and `ImplementsAttachmentFiles` are step properties), over
sets no action orders or names: writers; handlers, passes, uploads, hashes; transactions; sessions and
users.

### Fairness

- `LibraryStore`: a handler that can step does (weak fairness: nothing else stops a running
  transaction), and `GuardedVersion` is strongly fair, because PostgreSQL serves the waiters of
  a row lock in order. `Begin` and `Abort` are not fair: clients need not write, and statements
  need not fail.
- `SyncClient`: weak fairness of the pull: the client polls. Writes are not fair, and are
  bounded, so "the writers pause" is part of the model. `CatchesUp` would be false against
  writers that never pause; the code promises no more.
- `UploadLifecycle`: handlers run on once begun, a pass runs and the loop starts a new one, a
  minute passes. No fairness on requests, expiry, failures or restarts. `ExpiredCollected` therefore
  excludes a `Stranded` row: `claim_pending_upload_garbage` leaves `uploading` rows alone, and
  one whose handler vanished with its connection waits for `reset_interrupted_pending_uploads`
  at the next start of a replica. That is the code's behaviour; the property says where its promise ends.
- `LibraryRequests`: the semaphore serves its queue in order and wakes the first when a permit is free
  (weak fairness of `Admit`); a decoding job ends, its input and output being bounded
  (`JobEnds`); a listing that was begun is finished and its link followed (`Listed`). Nothing is assumed
  of clients that send bodies, and the code has no timeout there, so `OnlyClientsStall` says who may
  keep a request waiting.
- `UploadAuthority`, `RowLocks` and `LoginSession` have safety properties only.

## What is proved

For every set of writers, keys, settings, tags and hashes and every bound:

`LibraryStore_proofs`, from `NamesAssumption`, `OmittedAssumption`, `BoundsAssumption` and
`NoneAssumption` (sentinels differ from the values they stand beside, kinds of keys are disjoint):

- `Invariance`: `Spec => []IInv`. The properties are not inductive as they stand: that a commit
  leaves consistent rows follows only if what an open transaction has built so far is
  consistent, and one stamped step from the committed rows. `DraftSound` says that, and
  `WritersSerialized` that the committed rows do not move under the draft. The file access
  part needs the fact that a registration always comes with file access. There is a lemma for
  what each entry (`WriteObject`, `DeleteObject`, ...) does to `DraftSound`, and one step per action.
- `TypeCorrect`, `Serialized`, `VersionsDistinct`, `CommittedConsistent`: invariants that follow.
- `CommitsAreStamped`, `CommitsAreGuarded`, `FilesGuarded`: the action properties. `Commit` is the
  only step that changes `db`, and `DraftSound` of the committing transaction is the conclusion.
- `Implements`: every step is a step of `VersionedStore` or a stutter. The fate of each key is read off the
  stamps of the draft: what carries the new version was written, what has a log entry of the new version was
  removed, all else was left alone (`Fate`, `FateOfRow`). `IInv` leaves open two things the abstract `Commit` asks
  for, that a transaction has touched something by the time it commits and that no setting is removed and
  written by the same batch; `DraftDecided` says them of a running transaction, and `DInv` adds it to `IInv`.

`SyncClient_proofs`, from `RowsAssumption` (the listings cover the objects) and
`BoundsAssumption`:

- `Invariance`: `Spec => []IInv`. `NothingMissed` is about the moment the cursor moves; it needs
  `PullSound`: while the library stays at the version the pull began with, settings read so far
  are current, every changed object is fetched, wanted or in a listing still to be read, and the
  deletions read are those of the log. When the library has moved on, the final comparison fails
  and the cursor stays, and nothing need hold.
- `NoChangeHidden`, `UploadsSeeEverything`.
- `StoreKept`: `Spec => Store!Spec`. With `Implements` of `LibraryStore_proofs` it closes the composition of
  the two sides over `VersionedStore`.

`LoginSession_proofs`, from `LoginAssumption` (`NoUser` is no user):

- `Invariance`: `OneKeyPerSession` is inductive only with `HandlersSound`, which says what a handler
  that holds a session's row knows: the session is still pending, no other handler holds it, and once the user is
  resolved the identity is still theirs and they are active, because the rows are locked. `SessionsSound`
  keeps sessions that were never drawn without a row, and clients with a key to completed sessions.
- `TypeCorrect`, `OneKey`, `CurrentUser`, and `Implements`: each step of `LoginSession` is a step of
  `LoginGrant` or a stutter, by `Grant`, one lemma or case per action.

`LibraryRequests_proofs`, from `AdmissionAssumption` (there are permits, finitely many requests),
`QueryAssumption` and `LibraryAssumption` (a client asks for the first page first):

- `Invariance`, for `RequestAdmission`: the sum of permits is preserved because the request at the head of the queue asks for
  decompression and is not yet counted, and a job's request is counted nowhere else: `QueueSound` (those who
  wait are queued once, and are compressed) and `JobsSound`. The arithmetic is that of the cardinalities
  of two sets as a request enters or leaves them.
- `PermitsConserved`, `TypeCorrect`.
- `AdmissionKept`: the composition implements `RequestAdmission`'s `Spec` (a write is the answer of its request),
  so `PermitsConservedAll` follows for it.
- `WalksExact`: `WalkExact` speaks of the end of a walk; `WalkSound` says what was received at every stage before:
  the listing up to the start of the page asked for, or to its end. It rests on `ListingIs` (the order is
  one, ties of the sort field and missing values included, so there is exactly one listing, and it names every match
  once), `SameListing` (the link changes only where the page starts) and `PageContinues` (a page begins
  where the last one ended). Page sizes, queries and libraries are arbitrary.

`RowLocks_proofs`, from `LockAssumption` (finitely many connections and users, the group's library is nobody's):

- `OnlyStartsDeadlock`: tables have a rank, and every transaction but a login's approval asks for rows that
  climb, by rank and within a table by id (`ProgramShape`; the registration's long list part by part, in
  `RegisterWithin`). Of the rows that the members of a cycle wait for one is highest, and who holds it
  waits for a higher one (`NoClosedClimb`): so a cycle has an approval in it. An approval that waits holds only
  shares of a person's rows, and everyone but a bootstrap who already holds something asks for those rows to share
  them: so without a bootstrap the approval blocks nobody in the cycle, and what remains climbs. For any
  number of connections, and cycles of any length. `TypeCorrect`.

`Sorting_proofs`: `AscendingLists` and `ListingComplete`. Induction over finite sets is by a smallest
counterexample (`SmallestBad`), since the library's induction theorem takes an operator.

`UploadAuthority_proofs`, from `AccessAssumption`, `GatesAssumption` and the assumptions of the module:

- `Invariance`: `AuthorityHeld` needs, for every statement already run, that the rows it was to lock are
  held (`LocksSound`), and for every credential already judged, that it resolves to whom it was found to be
  and is allowed by the locked grants (`JudgeSound`). `Administer` cannot disturb either: by lemma `Stable`, a
  decision depends only on the rows that entitle the credential and the grants that are counted,
  and all of those are held. By lemma `Enough`, a right that counts fewer grants is a right.
- `AuthorityLive`; `TypeCorrect`, with the constraints of the schema; `RefusedForCause`, from a second
  invariant (`QuietSound`) that what discovery found is still true while nothing was changed, so a row that is missing
  is a right that is missing; `OneRule`, which follows from `TypeOK` and the definitions alone.

`UploadLifecycle_proofs`, from `ReplicasAssumption`, `BoundsAssumption` and `NoneAssumption`:

- `Invariance`: `IInv`, for any replicas. `RegisteredStored` says nothing of an upload that is not yet
  registered; what keeps its bytes until then is that cleanup passes work only on rows that are given up
  (`BatchesSound`), that such a row never comes back to life (`Dead`), and that a handler which has stored
  the bytes finds them in the bucket as long as its row is alive (`HandsSound`); `RowsSound` ties the
  states of rows to the bucket and to what was registered. `TypeCorrect`, `FilesStored` and the action
  property `Once` follow.
- `Exclusive`, `Tracked`: `UploadedOnce` and `CandidatesTracked`, for `SingleReplica`, the deployment
  of the NixOS module. Starting resets the rows of every handler, its own or not, so only when one process
  has all the handlers does a reset row mean that nobody works on it; `JInv` adds who holds what
  (`HoldersSound`) and that a pass deletes a row only after its bytes (`ErasedSound`). Without
  `SingleReplica` they are false: run `UploadLifecycleLeak`.
- `Implements`: each step is a step of `AttachmentFiles` or a stutter, by `Offered`, for any replicas.
  `IInv` gives what the abstract guards ask for (a pass removes only what no offer and no file needs);
  `RInv` adds that a PUT which goes on without its handler belongs to an issued upload.

Only model-checked: the liveness properties (`EveryRequestAnswered`, `CatchesUp`, `DiscardedCollected`,
`ExpiredCollected`, `OnlyClientsStall`, `WalkEnds`), since fairness and `ENABLED` are outside the prover's reach.
Every invariant and every action property of a passing run is a theorem.

## Findings

**A setting that is removed and set again is lost to clients that pull both.**
`store/settings.rs:43` upserts the row and leaves the key's deletion-log entry, where
`store/objects.rs:326` clears it for objects. The client reads settings first and `/deleted`
last, so it stores the live setting and then drops it; its cursor is then past both stamps
and `since_check` answers 304 until the next write. Counterexample of run `SyncClientSettings`:
a setting is removed (version 1) and written (version 2); a client with cursor 0 pulls
both and ends at cursor 2 without the setting. `NothingMissed` holds for objects always and for
settings as long as they have no entry in the log.

**A replica that starts makes another one leak an upload.** `README.md` speaks of replicas, and
`store/files.rs:484` resets every `uploading` row at start, not only those of the process that
stopped. Counterexample of run `UploadLifecycleLeak`: a replica claims an upload and is about to
store its bytes; the hour is over; another replica starts and resets the row; its cleanup claims
the row, which it would have left alone as `uploading`, finds nothing in the bucket, and deletes
the row after the first replica has stored the bytes. Nothing names them any more, although
`docs/DESIGN.md` has the table hold "in-flight upload state in PostgreSQL so restarts do not lose
it". With one replica `CandidatesTracked` holds (run `UploadLifecycle`), and with two the
registered files are safe (run `UploadLifecycleReplicas`).

**A page of a listing may carry a version its rows do not have.** `handlers/objects.rs:132` reads the
count and the rows first and the library version for the header after them, where the versions read
(`handlers/objects.rs:34`) takes the version first. Counterexample of run `LibraryRequestsHeader`: a write to an
item commits between the two; a client that edits that item as the page shows it, and sends the page's version in
`If-Unmodified-Since-Version`, passes the guard and overwrites a change it has never seen.
The repository's `README.md:19` says those writes "stay coherent". A client that takes its versions from
`format=versions`, as `SyncClient` does, is not concerned.

Smaller observations, which no run is a counterexample for:

- A replica that starts locks its bootstrap library and then the user (`store/identity.rs`), a login approval
  of that user locks the two in the other order (`store/sessions.rs`). If they meet, PostgreSQL ends one of
  them with an error: the approval fails and can be repeated, or the replica does not start.
  `DeadlocksOnlyAtStart` says that this is the only cycle.
- `generate_key` (`store/objects.rs:46`) takes a byte modulo the length of an alphabet of 33 symbols, and its
  comment says 32 and "unbiased": some symbols are slightly likelier. The keys are valid.
- Following links while items are deleted may skip an item nobody touched (`store/objects.rs:201`: offsets);
  nothing promises otherwise. `WalkExact` is about a library at rest.
- The middleware decides before the body is collected, so a key revoked during a long
  body still writes; `store/identity.rs:168` promises revocation on the next request. Only registrations re-read.

- `docs/API.md` describes a conflict as the server's version being greater; the code compares
  with `!=` (`store/mod.rs:71`), so a cursor ahead of the library is refused too.
- `docs/API.md` has uploads keyed by item key; the code uses a random candidate key
  (`handlers/files.rs:172`).
- `delete_tags` restamps the row and leaves `data.version` as it was, unlike every other write of
  an object. `StampsBounded` therefore says `dataVersion <= version`, not equality.
- Deleting an item leaves its full-text row (`store/objects.rs:361`), and `write_fulltext` does
  not look whether the item exists.
- The blob of a replaced or deleted file stays in the bucket; `docs/DESIGN.md` plans
  `blob_retirements` for it.

## Not modelled, and why

- The filter that hides notes from a key without notes access in version listings, single-object reads,
  tag and command-line listings, the bodies of answers: reads without interplay, for display.
- Parsing and percent-decoding, key validation and generation, HTML, signing of URLs: pure functions on
  strings.
- Validation that only refuses before a transaction starts.
- What `bootstrap_identity` writes and refuses at start (its locks are in `RowLocks`), the answer of
  `/keys/current`, logging, configuration, routing, migrations, packaging and tests: no state after start-up.
- The match of a term in a text (`ILIKE`, `tsvector`): PostgreSQL's.

## Plan

1. `VersionedStore`, `LibraryStore`, their runs and proofs. *Done.*
2. `SyncClient` over `VersionedStore`, its runs and proofs. *Done.*
3. `UploadLifecycle`, its runs and proofs. *Done.* `AttachmentFiles`, and the proof that
   `UploadLifecycle` implements it. *Done.*
4. Proof that `LibraryStore` implements `VersionedStore`, by the mapping of `Promise`: each
   commit is a `Commit(fate)` with the fate read off the draft, every other step a stutter. *Done.*
5. `AccessRules`, `RequestGates`, `UploadAuthority`, its run and proofs. *Done.*
6. `LoginGrant`, `LoginSession`, the run and the proofs, refinement included. *Done.*
7. `RequestAdmission` and its proofs. *Done.*
8. `ItemQuery`, `LibraryRequests`, the runs and the proofs. *Done.*
9. `RowLocks`, its run and the proof that a cycle needs a start. *Done.*
