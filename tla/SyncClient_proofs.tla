------------------------- MODULE SyncClient_proofs --------------------------
(***************************************************************************)
(* Proof that no change of a library stays hidden from its sync client,    *)
(* whatever number of rows, listings and writes.                           *)
(***************************************************************************)
EXTENDS SyncClient, TLAPS

LEMMA InitInvariant == Init => IInv
BY BoundsAssumption DEF Init, IInv, TypeOK, Phases, Store!Init, Store!TypeOK,
   StampsBehind, NothingMissed, ToldOf, PullSound, Pulling, Objects

(* A write keeps the stamps behind the version, and every row it touches   *)
(* is stamped or logged beyond the version it started from.                *)
LEMMA WriteEffect ==
  ASSUME Store!TypeOK, StampsBehind, NEW fate \in [Rows -> Store!Fates],
         Store!Commit(fate)
  PROVE  /\ version' = version + 1
         /\ live' \in [Rows -> Nat] /\ dead' \in [Rows -> Nat]
         /\ \A r \in Rows :
              \/ live'[r] = live[r] /\ dead'[r] = dead[r] /\ fate[r] = "keep"
              \/ /\ live'[r] = version' /\ fate[r] # "keep"
                 /\ dead'[r] \in {0, dead[r]}
                 /\ r \in Objects => dead'[r] = 0
                 /\ r \notin Objects => dead'[r] = dead[r]
              \/ live'[r] = 0 /\ dead'[r] = version' /\ fate[r] # "keep"
<1>1. version \in Nat /\ version' = version + 1
  BY DEF Store!TypeOK, Store!Commit
<1>2. live' = [r \in Rows |->
         CASE fate[r] = "keep"   -> live[r]
           [] fate[r] = "upsert" -> version + 1
           [] fate[r] = "remove" -> 0]
  BY DEF Store!Commit
<1>3. dead' = [r \in Rows |->
         CASE fate[r] = "remove" -> version + 1
           [] fate[r] = "upsert" /\ r \in Objects -> 0
           [] OTHER -> dead[r]]
  BY DEF Store!Commit
<1>4. \A r \in Rows : fate[r] \in {"keep", "upsert", "remove"}
  BY DEF Store!Fates
<1>5. live \in [Rows -> Nat] /\ dead \in [Rows -> Nat]
  BY DEF Store!TypeOK
<1>6. ASSUME NEW r \in Rows
      PROVE  /\ live'[r] \in Nat /\ dead'[r] \in Nat
             /\ \/ live'[r] = live[r] /\ dead'[r] = dead[r] /\ fate[r] = "keep"
                \/ /\ live'[r] = version' /\ fate[r] # "keep"
                   /\ dead'[r] \in {0, dead[r]}
                   /\ r \in Objects => dead'[r] = 0
                   /\ r \notin Objects => dead'[r] = dead[r]
                \/ live'[r] = 0 /\ dead'[r] = version' /\ fate[r] # "keep"
  <2>1. CASE fate[r] = "keep"
    BY <1>1, <1>2, <1>3, <1>5, <2>1
  <2>2. CASE fate[r] = "upsert"
    BY <1>1, <1>2, <1>3, <1>5, <2>2
  <2>3. CASE fate[r] = "remove"
    BY <1>1, <1>2, <1>3, <1>5, <2>3
  <2> QED BY <1>4, <2>1, <2>2, <2>3
<1>7. live' \in [Rows -> Nat] /\ dead' \in [Rows -> Nat]
  BY <1>2, <1>3, <1>6
<1> QED BY <1>1, <1>6, <1>7

LEMMA WriteKeepsStamps ==
  ASSUME Store!TypeOK, StampsBehind, cursor \in Nat,
         NEW fate \in [Rows -> Store!Fates], Store!Commit(fate)
  PROVE  /\ Store!TypeOK'
         /\ \A r \in Rows : live'[r] <= version' /\ dead'[r] <= version'
         /\ \A r \in Objects : live'[r] > 0 => dead'[r] = 0
<1>1. version \in Nat /\ live \in [Rows -> Nat] /\ dead \in [Rows -> Nat]
  BY DEF Store!TypeOK
<1>2. Objects \subseteq Rows
  BY DEF Objects
<1> QED BY <1>1, <1>2, WriteEffect DEF Store!TypeOK, StampsBehind

LEMMA OthersWriteStep ==
  ASSUME IInv, OthersWrite
  PROVE  IInv'
<1>1. PICK fate \in [Rows -> Store!Fates] : Store!Commit(fate)
  BY DEF OthersWrite, Store!Next
<1>2. /\ UNCHANGED <<phase, cursor, replica, target, todo, wanted, header,
                     doomed, failures>>
  BY DEF OthersWrite, clientVars, pullVars
<1>3. /\ Store!TypeOK /\ StampsBehind /\ version \in Nat /\ cursor \in Nat
      /\ target \in Nat /\ live \in [Rows -> Nat] /\ dead \in [Rows -> Nat]
  BY DEF IInv, TypeOK, Store!TypeOK
<1>4. version' = version + 1
  BY <1>1, <1>3, WriteEffect
<1>5. TypeOK'
  BY <1>1, <1>2, <1>3, WriteKeepsStamps DEF IInv, TypeOK
<1>6. StampsBehind'
  BY <1>1, <1>2, <1>3, <1>4, WriteKeepsStamps DEF StampsBehind
<1>7. NothingMissed'
  <2> SUFFICES ASSUME NEW r \in Rows, r \in Objects \/ dead'[r] = 0,
                      replica[r] # live'[r]
               PROVE  live'[r] > cursor \/ dead'[r] > cursor
    BY <1>2 DEF NothingMissed, ToldOf
  <2>1. cursor <= version
    BY <1>3 DEF StampsBehind
  <2>2. CASE live'[r] = version' \/ dead'[r] = version'
    BY <1>3, <1>4, <2>1, <2>2
  <2>3. CASE live'[r] = live[r] /\ dead'[r] = dead[r]
    BY <2>3 DEF IInv, NothingMissed, ToldOf
  <2> QED BY <1>1, <1>3, <2>2, <2>3, WriteEffect
<1>8. PullSound'
  BY <1>2, <1>3, <1>4 DEF IInv, PullSound, Pulling
<1> QED BY <1>5, <1>6, <1>7, <1>8 DEF IInv

(* A client whose cursor is the library's version has the current copy of  *)
(* every row it can be told of.                                            *)
LEMMA CurrentAtVersion ==
  ASSUME IInv, cursor = version, NEW r \in Rows, r \in Objects \/ dead[r] = 0
  PROVE  replica[r] = live[r]
BY DEF IInv, TypeOK, Store!TypeOK, StampsBehind, NothingMissed, ToldOf

LEMMA UploadStep ==
  ASSUME IInv, Upload
  PROVE  IInv'
<1>1. CASE cursor # version
  BY <1>1 DEF Upload, IInv, TypeOK, Phases, Store!TypeOK, storeVars, pullVars,
     StampsBehind, NothingMissed, ToldOf, PullSound, Pulling
<1>2. CASE cursor = version
  <2>1. PICK fate \in [Rows -> Store!Fates] :
          /\ Store!Commit(fate)
          /\ replica' = [r \in Rows |->
               IF fate[r] = "keep" THEN replica[r] ELSE live'[r]]
    BY <1>2 DEF Upload
  <2>2. /\ phase = "settled" /\ phase' = phase /\ cursor' = version'
        /\ UNCHANGED <<target, todo, wanted, header, doomed, failures>>
    BY <1>2 DEF Upload, pullVars
  <2>3. /\ Store!TypeOK /\ StampsBehind /\ version \in Nat
        /\ cursor \in Nat /\ replica \in [Rows -> Nat]
    BY DEF IInv, TypeOK, Store!TypeOK
  <2>4. /\ version' = version + 1 /\ live' \in [Rows -> Nat]
    BY <2>1, <2>3, WriteEffect
  <2>5. replica' \in [Rows -> Nat]
    BY <2>1, <2>3, <2>4
  <2>6. TypeOK'
    BY <2>1, <2>2, <2>3, <2>4, <2>5, WriteKeepsStamps DEF IInv, TypeOK
  <2>7. StampsBehind'
    BY <2>1, <2>2, <2>3, <2>4, WriteKeepsStamps DEF StampsBehind
  <2>8. NothingMissed'
    <3> SUFFICES ASSUME NEW r \in Rows, r \in Objects \/ dead'[r] = 0
                 PROVE  replica'[r] = live'[r]
      BY DEF NothingMissed, ToldOf
    <3>1. CASE fate[r] # "keep"
      BY <2>1, <3>1
    <3>2. CASE fate[r] = "keep"
      <4>1. live'[r] = live[r] /\ dead'[r] = dead[r]
        BY <2>1, <2>3, <3>2, WriteEffect
      <4>2. replica[r] = live[r]
        BY <1>2, <4>1, CurrentAtVersion
      <4> QED BY <2>1, <3>2, <4>1, <4>2
    <3> QED BY <3>1, <3>2
  <2>9. PullSound'
    BY <2>2 DEF PullSound, Pulling
  <2> QED BY <2>6, <2>7, <2>8, <2>9 DEF IInv
<1> QED BY <1>1, <1>2

(***************************************************************************)
(* The steps of a pull leave the library alone.                            *)
(***************************************************************************)
LEMMA SettingsVersionStep ==
  ASSUME IInv, SettingsVersion
  PROVE  IInv'
<1>1. CASE NotModified(cursor, version)
  BY <1>1 DEF SettingsVersion, IInv, TypeOK, Phases, Store!TypeOK, storeVars,
     pullVars, StampsBehind, NothingMissed, ToldOf, PullSound, Pulling
<1>2. CASE ~NotModified(cursor, version)
  <2>1. /\ phase' = "settings" /\ target' = version /\ todo' = Listings
        /\ wanted' = {} /\ doomed' = {} /\ header' = header
        /\ UNCHANGED <<version, live, dead, cursor, replica, failures>>
    BY <1>2 DEF SettingsVersion, storeVars
  <2>2. TypeOK'
    BY <2>1 DEF IInv, TypeOK, Phases, Store!TypeOK
  <2>3. StampsBehind' /\ NothingMissed'
    BY <2>1 DEF IInv, StampsBehind, NothingMissed, ToldOf
  <2>4. ObjectsCovered'
    BY <2>1, RowsAssumption DEF ObjectsCovered
  <2>5. PullSound'
    BY <2>1, <2>4 DEF IInv, TypeOK, Store!TypeOK, StampsBehind, PullSound, Pulling
  <2> QED BY <2>2, <2>3, <2>5 DEF IInv
<1> QED BY <1>1, <1>2

LEMMA SettingsRowsStep ==
  ASSUME IInv, SettingsRows
  PROVE  IInv'
<1>1. /\ phase = "settings" /\ phase' = "listing"
      /\ replica' = [r \in Rows |->
           IF r \in Settings /\ live[r] > 0 THEN live[r] ELSE replica[r]]
      /\ UNCHANGED <<version, live, dead, cursor, target, todo, wanted,
                     header, doomed, failures>>
  BY DEF SettingsRows, storeVars, pullVars
<1>2. TypeOK'
  BY <1>1 DEF IInv, TypeOK, Phases, Store!TypeOK
<1>3. StampsBehind' /\ NothingMissed'
  BY <1>1 DEF IInv, StampsBehind, NothingMissed, ToldOf
<1>4. SettingsCurrent'
  BY <1>1, RowsAssumption DEF SettingsCurrent
<1>5. ObjectsCovered => ObjectsCovered'
  BY <1>1 DEF ObjectsCovered, Objects
<1>6. PullSound'
  BY <1>1, <1>4, <1>5 DEF IInv, PullSound, Pulling
<1> QED BY <1>2, <1>3, <1>6 DEF IInv

LEMMA ListingVersionStep ==
  ASSUME IInv, ListingVersion
  PROVE  IInv'
<1>1. /\ phase = "listing" /\ phase' = "rows" /\ header' = version
      /\ UNCHANGED <<version, live, dead, cursor, replica, target, todo,
                     wanted, doomed, failures>>
  BY DEF ListingVersion, storeVars
<1>2. TypeOK'
  BY <1>1 DEF IInv, TypeOK, Phases, Store!TypeOK
<1>3. StampsBehind' /\ NothingMissed'
  BY <1>1 DEF IInv, StampsBehind, NothingMissed, ToldOf
<1>4. PullSound'
  BY <1>1 DEF IInv, PullSound, Pulling, SettingsCurrent, ObjectsCovered
<1> QED BY <1>2, <1>3, <1>4 DEF IInv

LEMMA ListingRowsStep ==
  ASSUME IInv, ListingRows
  PROVE  IInv'
<1>1. PICK listing \in todo :
        /\ todo' = todo \ {listing}
        /\ wanted' = wanted \union {r \in listing : live[r] > cursor}
  BY DEF ListingRows
<1>2. /\ phase = "rows" /\ phase' \in {"listing", "stopped"}
      /\ UNCHANGED <<version, live, dead, cursor, replica, target, header,
                     doomed, failures>>
  BY DEF ListingRows, Restart, storeVars
<1>3. TypeOK'
  <2>1. listing \subseteq Objects
    BY RowsAssumption DEF IInv, TypeOK
  <2> QED BY <1>1, <1>2, <2>1 DEF IInv, TypeOK, Phases, Store!TypeOK
<1>4. StampsBehind' /\ NothingMissed'
  BY <1>2 DEF IInv, StampsBehind, NothingMissed, ToldOf
<1>5. ObjectsCovered => ObjectsCovered'
  <2> SUFFICES ASSUME ObjectsCovered, NEW r \in Objects, live[r] > cursor
               PROVE  \/ replica[r] = live[r] \/ r \in wanted'
                      \/ \E other \in todo' : r \in other
    BY <1>2 DEF ObjectsCovered
  <2>1. CASE \E other \in todo : r \in other
    BY <1>1, <2>1
  <2>2. CASE replica[r] = live[r] \/ r \in wanted
    BY <1>1, <2>2
  <2> QED BY <2>1, <2>2 DEF ObjectsCovered
<1>6. PullSound'
  BY <1>2, <1>5 DEF IInv, PullSound, Pulling, SettingsCurrent
<1> QED BY <1>3, <1>4, <1>6 DEF IInv

LEMMA DownloadStep ==
  ASSUME IInv, Download
  PROVE  IInv'
<1>1. PICK r \in wanted :
        /\ wanted' = wanted \ {r}
        /\ replica' = [replica EXCEPT ![r] =
                         IF live[r] > 0 THEN live[r] ELSE replica[r]]
  BY DEF Download
<1>2. /\ phase = "listing"
      /\ UNCHANGED <<version, live, dead, phase, cursor, target, todo,
                     header, doomed, failures>>
  BY DEF Download, storeVars
<1>3. r \in Objects /\ r \in Rows /\ r \notin Settings
  BY <1>1 DEF IInv, TypeOK, Objects
<1>4. TypeOK'
  BY <1>1, <1>2, <1>3 DEF IInv, TypeOK, Phases, Store!TypeOK
<1>5. StampsBehind' /\ NothingMissed'
  BY <1>1, <1>2, <1>3 DEF IInv, TypeOK, StampsBehind, NothingMissed, ToldOf
<1>6. SettingsCurrent => SettingsCurrent'
  BY <1>1, <1>2, <1>3, RowsAssumption DEF IInv, TypeOK, SettingsCurrent
<1>7. ObjectsCovered => ObjectsCovered'
  BY <1>1, <1>2, <1>3 DEF IInv, TypeOK, Store!TypeOK, ObjectsCovered, Objects
<1>8. PullSound'
  BY <1>2, <1>6, <1>7 DEF IInv, PullSound, Pulling
<1> QED BY <1>4, <1>5, <1>8 DEF IInv

LEMMA DeletedRowsStep ==
  ASSUME IInv, DeletedRows
  PROVE  IInv'
<1>1. /\ phase = "listing" /\ phase' = "deleted" /\ todo = {} /\ wanted = {}
      /\ doomed' = {r \in Rows : dead[r] > cursor}
      /\ UNCHANGED <<version, live, dead, cursor, replica, target, todo,
                     wanted, header, failures>>
  BY DEF DeletedRows, storeVars
<1>2. TypeOK'
  BY <1>1 DEF IInv, TypeOK, Phases, Store!TypeOK
<1>3. StampsBehind' /\ NothingMissed'
  BY <1>1 DEF IInv, StampsBehind, NothingMissed, ToldOf
<1>4. PullSound'
  BY <1>1 DEF IInv, PullSound, Pulling, SettingsCurrent, ObjectsCovered
<1> QED BY <1>2, <1>3, <1>4 DEF IInv

(* The end of a pull.  At the version it began with, what /deleted names   *)
(* is gone from the library too, what is newer than the cursor has been    *)
(* read, and the rest was current before.                                  *)
LEMMA DeletedVersionStep ==
  ASSUME IInv, DeletedVersion
  PROVE  IInv'
<1>1. CASE version # target
  BY <1>1 DEF DeletedVersion, Restart, IInv, TypeOK, Phases, Store!TypeOK,
     storeVars, pullVars, StampsBehind, NothingMissed, ToldOf, PullSound,
     Pulling
<1>2. CASE version = target
  <2>1. /\ phase = "deleted" /\ phase' = "settled" /\ cursor' = target
        /\ replica' = [r \in Rows |-> IF r \in doomed THEN 0 ELSE replica[r]]
        /\ UNCHANGED <<version, live, dead, target, todo, wanted, header,
                       doomed, failures>>
    BY <1>2 DEF DeletedVersion, storeVars, pullVars
  <2>2. TypeOK'
    BY <2>1 DEF IInv, TypeOK, Phases, Store!TypeOK
  <2>3. StampsBehind'
    BY <1>2, <2>1 DEF IInv, TypeOK, StampsBehind, Store!TypeOK
  <2>4. /\ SettingsCurrent /\ ObjectsCovered /\ todo = {} /\ wanted = {}
        /\ doomed = {r \in Rows : dead[r] > cursor}
    BY <1>2, <2>1 DEF IInv, PullSound, Pulling
  <2>5. NothingMissed'
    <3> SUFFICES ASSUME NEW r \in Rows, r \in Objects \/ dead[r] = 0
                 PROVE  replica'[r] = live[r]
      BY <2>1 DEF NothingMissed, ToldOf
    <3>1. /\ live[r] \in Nat /\ dead[r] \in Nat /\ cursor \in Nat
          /\ replica[r] # live[r] => live[r] > cursor \/ dead[r] > cursor
      BY DEF IInv, TypeOK, Store!TypeOK, NothingMissed, ToldOf
    <3>2. CASE dead[r] > cursor
      <4>1. r \in Objects
        BY <3>1, <3>2
      <4>2. live[r] = 0
        BY <3>1, <3>2, <4>1 DEF IInv, StampsBehind
      <4> QED BY <2>1, <2>4, <3>2, <4>2
    <3>3. CASE ~(dead[r] > cursor) /\ live[r] > cursor
      <4>1. replica[r] = live[r]
        BY <2>4, <3>1, <3>3 DEF SettingsCurrent, ObjectsCovered, Objects
      <4> QED BY <2>1, <2>4, <3>3, <4>1
    <3>4. CASE ~(dead[r] > cursor) /\ ~(live[r] > cursor)
      BY <2>1, <2>4, <3>1, <3>4
    <3> QED BY <3>2, <3>3, <3>4
  <2>6. PullSound'
    BY <2>1 DEF PullSound, Pulling
  <2> QED BY <2>2, <2>3, <2>5, <2>6 DEF IInv
<1> QED BY <1>1, <1>2

LEMMA BreakOffStep ==
  ASSUME IInv, BreakOff
  PROVE  IInv'
BY BoundsAssumption DEF BreakOff, Restart, IInv, TypeOK, Phases, Store!TypeOK,
   storeVars, pullVars, StampsBehind, NothingMissed, ToldOf, PullSound, Pulling

LEMMA NextInvariant == IInv /\ [Next]_vars => IInv'
<1> SUFFICES ASSUME IInv, [Next]_vars PROVE IInv'
  OBVIOUS
<1>1. CASE Next
  BY <1>1, OthersWriteStep, UploadStep, SettingsVersionStep, SettingsRowsStep,
     ListingVersionStep, ListingRowsStep, DownloadStep, DeletedRowsStep,
     DeletedVersionStep, BreakOffStep
     DEF Next, Pull
<1>2. CASE UNCHANGED vars
  BY <1>2 DEF vars, storeVars, clientVars, pullVars, IInv, TypeOK,
     Store!TypeOK, StampsBehind, NothingMissed, ToldOf, PullSound, Pulling,
     SettingsCurrent, ObjectsCovered
<1> QED BY <1>1, <1>2

(* The inductive invariant holds in every reachable state.                 *)
THEOREM Invariance == Spec => []IInv
BY InitInvariant, NextInvariant, PTL DEF Spec

(* The store, the client and its pull keep their types, for any rows.      *)
THEOREM TypeCorrect == Spec => []TypeOK
<1>1. IInv => TypeOK
  BY DEF IInv
<1> QED BY <1>1, Invariance, PTL

(* Whatever a client's copy of the library lacks, a read since its cursor  *)
(* tells it of.                                                            *)
THEOREM NoChangeHidden == Spec => []NothingMissed
<1>1. IInv => NothingMissed
  BY DEF IInv
<1> QED BY <1>1, Invariance, PTL

(* An accepted upload comes from a client that has seen every change.      *)
THEOREM UploadsSeeEverything == Spec => NoBlindOverwrite
<1> DEFINE Seen == cursor' # cursor /\ version' # version =>
                     \A r \in Objects : replica[r] = live[r]
<1>1. IInv /\ [Next]_vars => [Seen]_vars
  <2> SUFFICES ASSUME IInv, Next, cursor' # cursor, version' # version,
                      NEW r \in Objects
               PROVE  replica[r] = live[r]
    OBVIOUS
  <2>1. Upload
    BY DEF Next, OthersWrite, clientVars, Pull, SettingsVersion, SettingsRows,
       ListingVersion, ListingRows, Download, DeletedRows, DeletedVersion,
       BreakOff, storeVars
  <2>2. cursor = version
    BY <2>1 DEF Upload, storeVars
  <2> QED BY <2>2, CurrentAtVersion DEF Objects
<1> QED BY <1>1, Invariance, PTL DEF Spec, NoBlindOverwrite

(* The library a client syncs with makes the steps of VersionedStore and   *)
(* no others, which are those LibraryStore_proofs shows of the handlers:   *)
(* no read of a client, and no upload it is refused, changes the library.  *)
THEOREM StoreKept == Spec => Store!Spec
<1>1. Init => Store!Init
  BY DEF Init
<1>2. [Next]_vars => [Store!Next]_(Store!storeVars)
  <2> SUFFICES ASSUME [Next]_vars
               PROVE  Store!Next \/ UNCHANGED Store!storeVars
    OBVIOUS
  <2>1. CASE OthersWrite
    BY <2>1 DEF OthersWrite
  <2>2. CASE Upload
    BY <2>2 DEF Upload, Store!Next, storeVars, Store!storeVars
  <2>3. CASE Pull \/ BreakOff
    BY <2>3 DEF Pull, SettingsVersion, SettingsRows, ListingVersion, ListingRows, Download,
       DeletedRows, DeletedVersion, BreakOff, storeVars, Store!storeVars
  <2>4. CASE UNCHANGED vars
    BY <2>4 DEF vars, storeVars, Store!storeVars
  <2> QED BY <2>1, <2>2, <2>3, <2>4 DEF Next
<1> QED BY <1>1, <1>2, PTL DEF Spec, Store!Spec
=============================================================================
