----------------------------- MODULE SyncClient -----------------------------
(***************************************************************************)
(* The read side of one library, and a sync client that lives by it.       *)
(*                                                                         *)
(* A read handler runs two SQL statements outside any transaction: the     *)
(* library version that goes into Last-Modified-Version, and the rows.     *)
(* Writes commit between them, and between the requests of a pull.  Which  *)
(* statement comes first differs from handler to handler and is what these *)
(* models are about.  The writes are the steps of VersionedStore, which    *)
(* LibraryStore implements.                                                *)
(*                                                                         *)
(* The client is the stock Zotero client (external), as docs/API.md and    *)
(* the comments of the handlers describe it: it reads settings, then the   *)
(* version listings, then the objects they name, then /deleted; it starts  *)
(* again when a listing or /deleted is not of the library version it began *)
(* with; at the end it records that version as its cursor.                 *)
(***************************************************************************)
EXTENDS Naturals, FiniteSets

CONSTANTS
  Rows,         \* every object and setting of the library
  Settings,     \* the settings among them
  Listings,     \* the sets of objects one version listing covers: the
                \* collections, the searches, the top-level items, the items
  MaxVersion,   \* bound on the library version
  MaxFailures   \* bound on the pulls that break off

Objects == Rows \ Settings

ASSUME RowsAssumption ==
  /\ Settings \subseteq Rows
  /\ UNION Listings = Objects
ASSUME BoundsAssumption == MaxVersion \in Nat /\ MaxFailures \in Nat

VARIABLES
  version, live, dead,   \* the library, as in VersionedStore
  phase,      \* what the client is doing
  cursor,     \* the library version the client has recorded
  replica,    \* the stamp of the client's copy of each row, 0: no copy
  target,     \* the library version the running pull began with
  todo,       \* the listings the pull has still to read
  wanted,     \* the objects it has still to download
  header,     \* the version a handler has read before its rows
  doomed,     \* the rows /deleted names, read before its header
  failures

Store == INSTANCE VersionedStore WITH Reviving <- Objects

storeVars  == <<version, live, dead>>
pullVars   == <<target, todo, wanted, header, doomed>>
clientVars == <<phase, cursor, replica, pullVars, failures>>
vars == <<storeVars, clientVars>>

Phases == {"settled", "stopped", "settings", "listing", "rows", "deleted"}

TypeOK ==
  /\ Store!TypeOK
  /\ phase \in Phases
  /\ cursor \in Nat /\ target \in Nat /\ header \in Nat
  /\ replica \in [Rows -> Nat]
  /\ todo \subseteq Listings
  /\ wanted \subseteq Objects
  /\ doomed \subseteq Rows
  /\ failures \in 0..MaxFailures

Init ==
  /\ Store!Init
  /\ phase = "settled"
  /\ cursor = 0 /\ target = 0 /\ header = 0
  /\ replica = [r \in Rows |-> 0]
  /\ todo = {} /\ wanted = {} /\ doomed = {}
  /\ failures = 0

-----------------------------------------------------------------------------
(* Some other client's write, or one of this client whose answer was lost. *)
OthersWrite ==
  /\ version < MaxVersion
  /\ Store!Next
  /\ UNCHANGED clientVars

(* The client uploads with If-Unmodified-Since-Version: cursor.  On 412 it *)
(* syncs again from the top; otherwise the answer carries the new version  *)
(* of what it wrote, which is then its cursor.                             *)
UploadUnguarded ==    \* mutant: the expected version is ignored
  /\ phase = "settled"
  /\ version < MaxVersion
  /\ \E fate \in [Rows -> Store!Fates] :
       /\ Store!Commit(fate)
       /\ replica' = [r \in Rows |->
            IF fate[r] = "keep" THEN replica[r] ELSE live'[r]]
  /\ cursor' = version'
  /\ UNCHANGED <<phase, pullVars, failures>>

Upload ==
  /\ phase = "settled"
  /\ IF cursor # version
     THEN /\ phase' = "stopped"
          /\ UNCHANGED <<storeVars, cursor, replica>>
     ELSE /\ version < MaxVersion
          /\ \E fate \in [Rows -> Store!Fates] :
               /\ Store!Commit(fate)
               /\ replica' = [r \in Rows |->
                    IF fate[r] = "keep" THEN replica[r] ELSE live'[r]]
          /\ cursor' = version'
          /\ UNCHANGED phase
  /\ UNCHANGED <<pullVars, failures>>

Restart == phase' = "stopped"

(***************************************************************************)
(* settings_read: since_check reads the version first and answers 304 when *)
(* the client already has it.                                              *)
(***************************************************************************)
NotModified(since, current) == since > 0 /\ since >= current

SettingsVersion ==
  /\ phase \in {"settled", "stopped"}
  /\ IF NotModified(cursor, version)
     THEN /\ phase' = "settled"
          /\ UNCHANGED pullVars
     ELSE /\ phase' = "settings"
          /\ target' = version
          /\ todo' = Listings
          /\ wanted' = {} /\ doomed' = {}
          /\ UNCHANGED header
  /\ UNCHANGED <<storeVars, cursor, replica, failures>>

(* Every setting row, whatever the cursor.  The client stores each and     *)
(* drops none: a removal reaches it through /deleted.                      *)
SettingsRows ==
  /\ phase = "settings"
  /\ replica' = [r \in Rows |->
       IF r \in Settings /\ live[r] > 0 THEN live[r] ELSE replica[r]]
  /\ phase' = "listing"
  /\ UNCHANGED <<storeVars, cursor, pullVars, failures>>

(***************************************************************************)
(* format=versions: read, item_sync_read.  The version is read before the  *)
(* rows, and the answer is 200 even when nothing changed.                  *)
(***************************************************************************)
ListingVersion ==
  /\ phase = "listing" /\ todo # {}
  /\ header' = version
  /\ phase' = "rows"
  /\ UNCHANGED <<storeVars, cursor, replica, target, todo, wanted, doomed,
                 failures>>

(* Mutants: the version is compared off by one; the kind is not filtered;  *)
(* an empty listing is answered 304, which the client takes for no data.   *)
ListingRowsOffByOne ==
  /\ phase = "rows"
  /\ \E listing \in todo :
       /\ todo' = todo \ {listing}
       /\ wanted' = wanted \union {r \in listing : live[r] > cursor + 1}
  /\ IF header = target THEN phase' = "listing" ELSE Restart
  /\ UNCHANGED <<storeVars, cursor, replica, target, header, doomed, failures>>

ListingRowsAnyKind ==
  /\ phase = "rows"
  /\ \E listing \in todo : todo' = todo \ {listing}
  /\ wanted' = wanted \union {r \in Rows : live[r] > cursor}
  /\ IF header = target THEN phase' = "listing" ELSE Restart
  /\ UNCHANGED <<storeVars, cursor, replica, target, header, doomed, failures>>

ListingRows304 ==
  /\ phase = "rows"
  /\ \E listing \in todo :
       /\ todo' = todo \ {listing}
       /\ wanted' = wanted \union {r \in listing : live[r] > cursor}
       /\ IF header = target /\ \E r \in listing : live[r] > cursor
          THEN phase' = "listing" ELSE Restart
  /\ UNCHANGED <<storeVars, cursor, replica, target, header, doomed, failures>>

ListingRows ==
  /\ phase = "rows"
  /\ \E listing \in todo :
       /\ todo' = todo \ {listing}
       /\ wanted' = wanted \union {r \in listing : live[r] > cursor}
  /\ IF header = target THEN phase' = "listing" ELSE Restart
  /\ UNCHANGED <<storeVars, cursor, replica, target, header, doomed, failures>>

(* The keyed read: the rows as they are now.  The client does not look at  *)
(* the version that comes with them, and a key that is gone is skipped.    *)
Download ==
  /\ phase = "listing"
  /\ \E r \in wanted :
       /\ wanted' = wanted \ {r}
       /\ replica' = [replica EXCEPT ![r] = IF live[r] > 0 THEN live[r] ELSE @]
  /\ UNCHANGED <<storeVars, phase, cursor, target, todo, header, doomed,
                 failures>>

(***************************************************************************)
(* deleted: the rows of the deletion log are read before the version.      *)
(***************************************************************************)
DeletedRows ==
  /\ phase = "listing" /\ todo = {} /\ wanted = {}
  /\ doomed' = {r \in Rows : dead[r] > cursor}
  /\ phase' = "deleted"
  /\ UNCHANGED <<storeVars, cursor, replica, target, todo, wanted, header,
                 failures>>

DeletedVersion ==
  /\ phase = "deleted"
  /\ IF version # target
     THEN Restart /\ UNCHANGED <<cursor, replica>>
     ELSE /\ replica' = [r \in Rows |-> IF r \in doomed THEN 0 ELSE replica[r]]
          /\ cursor' = target
          /\ phase' = "settled"
  /\ UNCHANGED <<storeVars, pullVars, failures>>

(* A request of the pull fails, or the client is closed: what it has       *)
(* stored stays, its cursor stays behind.                                  *)
BreakOff ==
  /\ phase \notin {"settled", "stopped"}
  /\ failures < MaxFailures
  /\ failures' = failures + 1
  /\ Restart
  /\ UNCHANGED <<storeVars, cursor, replica, pullVars>>

Pull ==
  \/ SettingsVersion \/ SettingsRows \/ ListingVersion \/ ListingRows
  \/ Download \/ DeletedRows \/ DeletedVersion

Next == OthersWrite \/ Upload \/ Pull \/ BreakOff

Spec == Init /\ [][Next]_vars

(* The client keeps polling.                                               *)
FairSpec == Spec /\ WF_vars(Pull)

-----------------------------------------------------------------------------
(***************************************************************************)
(* Properties.                                                             *)
(***************************************************************************)

(* Whatever the client's copy of a row lacks, a read since its cursor will *)
(* tell it of: the row was stamped, or logged as deleted, after the        *)
(* cursor.  So no interleaving of writes with the statements and requests  *)
(* of a pull makes a change invisible for ever.  Settings count as long as *)
(* they have no entry in the deletion log; NoSettingMissed is about those. *)
ToldOf(r) == replica[r] # live[r] => live[r] > cursor \/ dead[r] > cursor

NothingMissed ==
  \A r \in Rows : r \in Objects \/ dead[r] = 0 => ToldOf(r)

(* The same for every setting.  settings.rs:58 records a removed setting   *)
(* "so /deleted can propagate the removal" and store/mod.rs:4 promises     *)
(* that `since` reads stay coherent; but writing a setting leaves its old  *)
(* deletion-log entry in place, and a client that pulls both loses it.     *)
NoSettingMissed == \A r \in Settings : ToldOf(r)

(* An upload is accepted only from a client whose copy of every object is  *)
(* the current one: nobody overwrites a change it has not seen.            *)
NoBlindOverwrite ==
  [][cursor' # cursor /\ version' # version =>
       \A r \in Objects : replica[r] = live[r]]_vars

(***************************************************************************)
(* The inductive invariant behind NothingMissed: as long as the library    *)
(* stays at the version the pull began with, what the pull has read so far *)
(* is complete and current.                                                *)
(***************************************************************************)
StampsBehind ==
  /\ \A r \in Rows : live[r] <= version /\ dead[r] <= version
  /\ \A r \in Objects : live[r] > 0 => dead[r] = 0
  /\ cursor <= version

Pulling == phase \notin {"settled", "stopped"}

SettingsCurrent == \A r \in Settings : live[r] > 0 => replica[r] = live[r]

ObjectsCovered ==
  \A r \in Objects : live[r] > cursor =>
     replica[r] = live[r] \/ r \in wanted \/ \E listing \in todo : r \in listing

PullSound ==
  /\ Pulling => cursor <= target /\ target <= version
  /\ Pulling /\ version = target =>
       /\ phase # "settings" => SettingsCurrent
       /\ ObjectsCovered
       /\ phase = "deleted" => doomed = {r \in Rows : dead[r] > cursor}
  /\ phase = "deleted" => todo = {} /\ wanted = {}

IInv == TypeOK /\ StampsBehind /\ NothingMissed /\ PullSound

(* When the writers pause, a polling client catches up with the library:   *)
(* it neither restarts for ever nor stays behind.                          *)
CatchesUp == <>[](cursor = version)
=============================================================================
