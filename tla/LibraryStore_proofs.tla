------------------------- MODULE LibraryStore_proofs -------------------------
(***************************************************************************)
(* Proofs about LibraryStore, for any number of writers, rows, batch       *)
(* entries and versions.                                                   *)
(***************************************************************************)
EXTENDS LibraryStore, TLAPS

(***************************************************************************)
(* The operations of one batch entry, field by field.                      *)
(***************************************************************************)

(* A merged row is a row, stamped with the version it is merged at.        *)
LEMMA MergeType ==
  ASSUME NEW old \in {None} \union Object, NEW patch \in Patch,
         NEW version \in Nat
  PROVE  /\ Merge(old, patch, version) \in Object
         /\ Merge(old, patch, version) # None
         /\ Merge(old, patch, version).version = version
         /\ Merge(old, patch, version).dataVersion = version
<1> DEFINE stored == IF patch.stored # Omitted THEN patch.stored
                     ELSE IsStoredFileAttachment(old)
           tags == IF patch.tags # Omitted THEN patch.tags
                   ELSE IF old # None THEN old.tags ELSE {}
           born == CASE ~stored -> 0
                     [] stored /\ IsStoredFileAttachment(old) -> old.born
                     [] OTHER -> version
<1>1. old # None => old \in Object
  OBVIOUS
<1>2. stored \in BOOLEAN
  BY <1>1, Zenon DEF Patch, IsStoredFileAttachment
<1>3. tags \in SUBSET Tags
  BY <1>1 DEF Patch, Object
<1>4. born \in Nat
  <2>1. CASE ~stored
    BY <2>1
  <2>2. CASE stored /\ IsStoredFileAttachment(old)
    BY <2>2, <1>1 DEF IsStoredFileAttachment, Object
  <2>3. CASE stored /\ ~IsStoredFileAttachment(old)
    BY <2>3
  <2> QED BY <2>1, <2>2, <2>3, <1>2
<1>5. Merge(old, patch, version) =
        [version |-> version, dataVersion |-> version, stored |-> stored,
         tags |-> tags, born |-> born]
  BY DEF Merge
<1> HIDE DEF stored, tags, born
<1>6. Merge(old, patch, version) \in Object
  BY <1>2, <1>3, <1>4, <1>5 DEF Object
<1> QED BY <1>5, <1>6, NoneAssumption DEF Object

(* An uninterrupted stored attachment keeps the version it was born at.    *)
LEMMA MergeContinuous ==
  ASSUME NEW old \in {None} \union Object, NEW patch \in Patch,
         NEW version \in Nat,
         IsStoredFileAttachment(old),
         IsStoredFileAttachment(Merge(old, patch, version))
  PROVE  Merge(old, patch, version).born = old.born
BY DEF Merge, Object, Patch, IsStoredFileAttachment

(* The empty library is a consistent database.                             *)
LEMMA EmptyDatabaseSound ==
  /\ EmptyDatabase \in Database
  /\ Consistent(EmptyDatabase)
BY DEF EmptyDatabase, Database, Consistent, StampsBounded, NoLiveTombstone,
       FilesBelong, Objects, Buried

(* Each operation keeps the database a database, and field by field does   *)
(* the following.                                                          *)
LEMMA WriteObjectFields ==
  ASSUME NEW d \in Database, NEW k \in Objects, NEW patch \in Patch,
         NEW new, new = Merge(d.object[k], patch, d.version),
         NEW e, e = WriteObject(d, k, patch)
  PROVE  /\ e \in Database
         /\ e.version = d.version
         /\ e.object = [d.object EXCEPT ![k] = new]
         /\ e.file = IF /\ k \in Items
                        /\ ~(/\ IsStoredFileAttachment(d.object[k])
                             /\ IsStoredFileAttachment(new))
                     THEN [d.file EXCEPT ![k] = None] ELSE d.file
         /\ e.setting = d.setting
         /\ e.fulltext = d.fulltext
         /\ e.deletion = [d.deletion EXCEPT ![k] = 0]
<1> DEFINE o == [d.object EXCEPT ![k] = new]
           f == IF /\ k \in Items
                   /\ ~(/\ IsStoredFileAttachment(d.object[k])
                        /\ IsStoredFileAttachment(new))
                THEN [d.file EXCEPT ![k] = None] ELSE d.file
           x == [d.deletion EXCEPT ![k] = 0]
<1>1. new \in Object
  BY MergeType DEF Database
<1>2. /\ o \in [Objects -> {None} \union Object]
      /\ f \in [Items -> {None} \union File]
      /\ x \in [Buried -> Nat]
  BY <1>1 DEF Database, Buried
<1>3. e = [d EXCEPT !.object = o, !.file = f, !.deletion = x]
  BY DEF WriteObject
<1> HIDE DEF o, f, x
<1>4. e \in Database
  BY <1>2, <1>3 DEF Database
<1>5. /\ e.version = d.version /\ e.object = o /\ e.file = f
      /\ e.setting = d.setting /\ e.fulltext = d.fulltext /\ e.deletion = x
  BY <1>3 DEF Database
<1> QED BY <1>4, <1>5 DEF o, f, x

LEMMA DeleteObjectFields ==
  ASSUME NEW d \in Database, NEW k \in Objects,
         NEW e, e = DeleteObject(d, k)
  PROVE  /\ e \in Database
         /\ e.version = d.version
         /\ \A j \in Objects :
              e.object[j] = IF j = k THEN None ELSE d.object[j]
         /\ \A j \in Items : e.file[j] = IF j = k THEN None ELSE d.file[j]
         /\ e.setting = d.setting
         /\ e.fulltext = d.fulltext
         /\ \A r \in Buried :
              e.deletion[r] = IF r = k THEN d.version ELSE d.deletion[r]
<1> DEFINE o == [d.object EXCEPT ![k] = None]
           f == IF k \in Items THEN [d.file EXCEPT ![k] = None] ELSE d.file
           x == [d.deletion EXCEPT ![k] = d.version]
<1>1. /\ o \in [Objects -> {None} \union Object]
      /\ f \in [Items -> {None} \union File]
      /\ x \in [Buried -> Nat]
  BY DEF Database, Buried
<1>2. e = [d EXCEPT !.object = o, !.file = f, !.deletion = x]
  BY DEF DeleteObject
<1> HIDE DEF o, f, x
<1>3. e \in Database
  BY <1>1, <1>2 DEF Database
<1>4. /\ e.version = d.version /\ e.object = o /\ e.file = f
      /\ e.setting = d.setting /\ e.fulltext = d.fulltext /\ e.deletion = x
  BY <1>2 DEF Database
<1>5. /\ \A j \in Objects : o[j] = IF j = k THEN None ELSE d.object[j]
      /\ \A j \in Items : f[j] = IF j = k THEN None ELSE d.file[j]
      /\ \A r \in Buried : x[r] = IF r = k THEN d.version ELSE d.deletion[r]
  BY DEF o, f, x, Database, Buried
<1> QED BY <1>3, <1>4, <1>5

LEMMA WriteSettingFields ==
  ASSUME NEW d \in Database, NEW s \in Settings,
         NEW e, e = WriteSetting(d, s)
  PROVE  /\ e \in Database
         /\ e.version = d.version
         /\ e.object = d.object
         /\ e.file = d.file
         /\ e.setting = [d.setting EXCEPT ![s] = d.version]
         /\ e.fulltext = d.fulltext
         /\ e.deletion = d.deletion
BY DEF WriteSetting, Database

LEMMA DeleteSettingFields ==
  ASSUME NEW d \in Database, NEW s \in Settings,
         NEW e, e = DeleteSetting(d, s)
  PROVE  /\ e \in Database
         /\ e.version = d.version
         /\ e.object = d.object
         /\ e.file = d.file
         /\ e.setting = [d.setting EXCEPT ![s] = 0]
         /\ e.fulltext = d.fulltext
         /\ e.deletion = [d.deletion EXCEPT ![s] = d.version]
<1> DEFINE v == [d.setting EXCEPT ![s] = 0]
           x == [d.deletion EXCEPT ![s] = d.version]
<1>1. v \in [Settings -> Nat] /\ x \in [Buried -> Nat]
  BY DEF Database, Buried
<1>2. e = [d EXCEPT !.setting = v, !.deletion = x]
  BY DEF DeleteSetting
<1> HIDE DEF v, x
<1>3. e \in Database
  BY <1>1, <1>2 DEF Database
<1>4. /\ e.version = d.version /\ e.object = d.object /\ e.file = d.file
      /\ e.setting = v /\ e.fulltext = d.fulltext /\ e.deletion = x
  BY <1>2 DEF Database
<1> QED BY <1>3, <1>4 DEF v, x

LEMMA UntaggedType ==
  ASSUME NEW row \in {None} \union Object, NEW t \in Tags, NEW version \in Nat,
         NEW new, new = Untagged(row, t, version)
  PROVE  /\ new \in {None} \union Object
         /\ new = None <=> row = None
         /\ row # None =>
              /\ new.stored = row.stored
              /\ new.born = row.born
              /\ new.dataVersion = row.dataVersion
              /\ new # row => new.version = version
              /\ new.version \in {row.version, version}
BY NoneAssumption DEF Untagged, Object

LEMMA DeleteTagFields ==
  ASSUME NEW d \in Database, NEW t \in Tags,
         NEW e, e = DeleteTag(d, t)
  PROVE  /\ e \in Database
         /\ e.version = d.version
         /\ e.object = [k \in Objects |->
                          IF k \in Items
                          THEN Untagged(d.object[k], t, d.version)
                          ELSE d.object[k]]
         /\ e.file = d.file
         /\ e.setting = d.setting
         /\ e.fulltext = d.fulltext
         /\ e.deletion = [d.deletion EXCEPT ![t] = d.version]
<1> DEFINE o == [k \in Objects |->
                   IF k \in Items THEN Untagged(d.object[k], t, d.version)
                   ELSE d.object[k]]
           x == [d.deletion EXCEPT ![t] = d.version]
<1>1. o \in [Objects -> {None} \union Object]
  <2> SUFFICES ASSUME NEW k \in Objects
               PROVE  o[k] \in {None} \union Object
    OBVIOUS
  <2> QED BY UntaggedType DEF Database
<1>2. x \in [Buried -> Nat]
  BY DEF Database, Buried
<1>3. e = [d EXCEPT !.object = o, !.deletion = x]
  BY DEF DeleteTag
<1> HIDE DEF o, x
<1>4. e \in Database
  BY <1>1, <1>2, <1>3 DEF Database
<1>5. /\ e.version = d.version /\ e.object = o /\ e.file = d.file
      /\ e.setting = d.setting /\ e.fulltext = d.fulltext /\ e.deletion = x
  BY <1>3 DEF Database
<1> QED BY <1>4, <1>5 DEF o, x

LEMMA WriteFulltextFields ==
  ASSUME NEW d \in Database, NEW k \in Items,
         NEW e, e = WriteFulltext(d, k)
  PROVE  /\ e \in Database
         /\ e.version = d.version
         /\ e.object = d.object
         /\ e.file = d.file
         /\ e.setting = d.setting
         /\ e.fulltext = [d.fulltext EXCEPT ![k] = d.version]
         /\ e.deletion = d.deletion
BY DEF WriteFulltext, Database

LEMMA RegisterFileFields ==
  ASSUME NEW d \in Database, NEW k \in Items, NEW md5 \in Hashes,
         IsStoredFileAttachment(d.object[k]),
         NEW row, row = Restamped(d.object[k], d.version),
         NEW e, e = RegisterFile(d, k, md5)
  PROVE  /\ e \in Database
         /\ row \in Object /\ row.version = d.version
         /\ row.dataVersion = d.version
         /\ row.stored /\ row.born = d.object[k].born
         /\ e.version = d.version
         /\ e.object = [d.object EXCEPT ![k] = row]
         /\ e.file = [d.file EXCEPT ![k] =
                        [md5 |-> md5, born |-> d.object[k].born]]
         /\ e.setting = d.setting
         /\ e.fulltext = d.fulltext
         /\ e.deletion = d.deletion
<1> DEFINE o == [d.object EXCEPT ![k] = row]
           f == [d.file EXCEPT ![k] = [md5 |-> md5, born |-> d.object[k].born]]
<1>1. d.object[k] \in Object /\ d.object[k].stored
  BY DEF Database, IsStoredFileAttachment, Objects
<1>2. /\ row \in Object /\ row.version = d.version
      /\ row.dataVersion = d.version
      /\ row.stored = d.object[k].stored /\ row.born = d.object[k].born
  BY <1>1 DEF Object, Database, Restamped
<1>3. /\ o \in [Objects -> {None} \union Object]
      /\ f \in [Items -> {None} \union File]
  BY <1>1, <1>2 DEF Database, Object, File, Objects
<1>4. e = [d EXCEPT !.object = o, !.file = f]
  BY DEF RegisterFile
<1> HIDE DEF o, f
<1>5. e \in Database
  BY <1>3, <1>4 DEF Database
<1>6. /\ e.version = d.version /\ e.object = o /\ e.file = f
      /\ e.setting = d.setting /\ e.fulltext = d.fulltext
      /\ e.deletion = d.deletion
  BY <1>4 DEF Database
<1> QED BY <1>1, <1>2, <1>5, <1>6 DEF o, f

(***************************************************************************)
(* Every operation keeps the open transaction's view d consistent and one  *)
(* stamped step away from the committed rows b, at the reserved version.   *)
(***************************************************************************)
Sound(b, d, e) ==
  /\ e \in Database
  /\ e.version = d.version
  /\ Consistent(e)
  /\ Stamped(b, e)

SameFiles(d, e) == e.file = d.file

LEMMA WriteSettingSound ==
  ASSUME NEW b \in Database, NEW d \in Database, NEW s \in Settings,
         Consistent(b), Consistent(d), Stamped(b, d),
         NEW e, e = WriteSetting(d, s)
  PROVE  Sound(b, d, e) /\ SameFiles(d, e)
<1>1. /\ e.version = d.version /\ e.object = d.object /\ e.file = d.file
      /\ e.setting = [d.setting EXCEPT ![s] = d.version]
      /\ e.fulltext = d.fulltext /\ e.deletion = d.deletion
  BY WriteSettingFields
<1>2. StampsBounded(e)
  BY <1>1 DEF Consistent, StampsBounded, Database, Object, Objects, Buried
<1>3. NoLiveTombstone(e)
  BY <1>1 DEF Consistent, NoLiveTombstone, Database, Objects, Buried
<1>4. FilesBelong(e)
  BY <1>1 DEF Consistent, FilesBelong, IsStoredFileAttachment, Database,
              Objects, File, Object
<1>5. Stamped(b, e)
  BY <1>1 DEF Stamped, Consistent, StampsBounded, FilesBelong,
              IsStoredFileAttachment, Database, Objects, Buried, Object
<1>6. e \in Database
  BY WriteSettingFields
<1> QED BY <1>1, <1>2, <1>3, <1>4, <1>5, <1>6 DEF Consistent, Sound, SameFiles

LEMMA DeleteSettingSound ==
  ASSUME NEW b \in Database, NEW d \in Database, NEW s \in Settings,
         Consistent(b), Consistent(d), Stamped(b, d),
         NEW e, e = DeleteSetting(d, s)
  PROVE  Sound(b, d, e) /\ SameFiles(d, e)
<1>1. /\ e.version = d.version /\ e.object = d.object /\ e.file = d.file
      /\ e.setting = [d.setting EXCEPT ![s] = 0]
      /\ e.fulltext = d.fulltext
      /\ e.deletion = [d.deletion EXCEPT ![s] = d.version]
      /\ s \notin Objects
  BY DeleteSettingFields, NamesAssumption
<1>2. StampsBounded(e)
  BY <1>1 DEF Consistent, StampsBounded, Database, Object, Objects, Buried
<1>3. NoLiveTombstone(e)
  BY <1>1 DEF Consistent, NoLiveTombstone, Database, Objects, Buried
<1>4. FilesBelong(e)
  BY <1>1 DEF Consistent, FilesBelong, IsStoredFileAttachment, Database,
              Objects, File, Object
<1>5. Stamped(b, e)
  BY <1>1 DEF Stamped, Consistent, StampsBounded, FilesBelong,
              IsStoredFileAttachment, Database, Objects, Buried, Object
<1>6. e \in Database
  BY DeleteSettingFields
<1> QED BY <1>1, <1>2, <1>3, <1>4, <1>5, <1>6 DEF Consistent, Sound, SameFiles

LEMMA WriteFulltextSound ==
  ASSUME NEW b \in Database, NEW d \in Database, NEW k \in Items,
         Consistent(b), Consistent(d), Stamped(b, d),
         NEW e, e = WriteFulltext(d, k)
  PROVE  Sound(b, d, e) /\ SameFiles(d, e)
<1>1. /\ e.version = d.version /\ e.object = d.object /\ e.file = d.file
      /\ e.setting = d.setting /\ e.deletion = d.deletion
      /\ e.fulltext = [d.fulltext EXCEPT ![k] = d.version]
  BY WriteFulltextFields
<1>2. StampsBounded(e)
  BY <1>1 DEF Consistent, StampsBounded, Database, Object, Objects, Buried
<1>3. NoLiveTombstone(e)
  BY <1>1 DEF Consistent, NoLiveTombstone, Database, Objects, Buried
<1>4. FilesBelong(e)
  BY <1>1 DEF Consistent, FilesBelong, IsStoredFileAttachment, Database,
              Objects, File, Object
<1>5. Stamped(b, e)
  BY <1>1 DEF Stamped, Consistent, StampsBounded, FilesBelong,
              IsStoredFileAttachment, Database, Objects, Buried, Object
<1>6. e \in Database
  BY WriteFulltextFields
<1> QED BY <1>1, <1>2, <1>3, <1>4, <1>5, <1>6 DEF Consistent, Sound, SameFiles

LEMMA DeleteObjectSound ==
  ASSUME NEW b \in Database, NEW d \in Database, NEW k \in Objects,
         Consistent(b), Consistent(d), Stamped(b, d),
         NEW e, e = DeleteObject(d, k)
  PROVE  Sound(b, d, e)
<1>1. /\ e.version = d.version
      /\ \A j \in Objects : e.object[j] = IF j = k THEN None ELSE d.object[j]
      /\ e.setting = d.setting /\ e.fulltext = d.fulltext
      /\ \A r \in Buried :
           e.deletion[r] = IF r = k THEN d.version ELSE d.deletion[r]
  BY DeleteObjectFields
<1>2. \A j \in Items : e.file[j] = IF j = k THEN None ELSE d.file[j]
  BY DeleteObjectFields
<1>3. k \notin Settings
  BY NamesAssumption
<1>4. StampsBounded(e)
  BY <1>1 DEF Consistent, StampsBounded, Database, Object, Objects, Buried
<1>5. NoLiveTombstone(e)
  BY <1>1 DEF Consistent, NoLiveTombstone, Database, Objects, Buried
<1>6. FilesBelong(e)
  BY <1>1, <1>2 DEF Consistent, FilesBelong, IsStoredFileAttachment, Database,
                    Objects, File, Object
<1>7. Stamped(b, e)
  BY <1>1, <1>2, <1>3 DEF Stamped, Consistent, StampsBounded, FilesBelong,
                          IsStoredFileAttachment, Database, Objects, Buried,
                          Object
<1>8. e \in Database
  BY DeleteObjectFields
<1> QED BY <1>1, <1>4, <1>5, <1>6, <1>7, <1>8 DEF Consistent, Sound

LEMMA WriteObjectSound ==
  ASSUME NEW b \in Database, NEW d \in Database, NEW k \in Objects,
         NEW patch \in Patch,
         Consistent(b), Consistent(d), Stamped(b, d),
         NEW e, e = WriteObject(d, k, patch)
  PROVE  Sound(b, d, e)
<1> DEFINE new == Merge(d.object[k], patch, d.version)
           continuous == /\ IsStoredFileAttachment(d.object[k])
                         /\ IsStoredFileAttachment(new)
<1>1. /\ e.version = d.version
      /\ e.object = [d.object EXCEPT ![k] = new]
      /\ e.file = IF k \in Items /\ ~continuous
                  THEN [d.file EXCEPT ![k] = None] ELSE d.file
      /\ e.setting = d.setting /\ e.fulltext = d.fulltext
      /\ e.deletion = [d.deletion EXCEPT ![k] = 0]
  BY WriteObjectFields
<1>2. /\ new \in Object /\ new # None
      /\ new.version = d.version /\ new.dataVersion = d.version
  BY MergeType DEF Database
<1>3. continuous => new.born = d.object[k].born
  BY MergeContinuous DEF Database
<1>4. k \notin Settings /\ d.version = b.version + 1 /\ b.version \in Nat
  BY NamesAssumption DEF Stamped, Database
<1> HIDE DEF new
<1>5. StampsBounded(e)
  BY <1>1, <1>2, <1>4 DEF Consistent, StampsBounded, Database, Object, Objects,
     Buried
<1>6. NoLiveTombstone(e)
  BY <1>1, <1>2 DEF Consistent, NoLiveTombstone, Database, Objects, Buried
<1>7. FilesBelong(e)
  BY <1>1, <1>2, <1>3 DEF Consistent, FilesBelong, IsStoredFileAttachment,
     Database, Objects
<1>8. Stamped(b, e)
  <2>1. b.object[k] # new
    BY <1>2, <1>4 DEF Consistent, StampsBounded, Database, Object
  <2> QED BY <1>1, <1>2, <1>4, <2>1 DEF Stamped, Database, Objects, Buried
<1>9. e \in Database
  BY WriteObjectFields
<1> QED BY <1>1, <1>5, <1>6, <1>7, <1>8, <1>9 DEF Consistent, Sound

LEMMA DeleteTagSound ==
  ASSUME NEW b \in Database, NEW d \in Database, NEW t \in Tags,
         Consistent(b), Consistent(d), Stamped(b, d),
         NEW e, e = DeleteTag(d, t)
  PROVE  Sound(b, d, e) /\ SameFiles(d, e)
<1>1. /\ e.version = d.version
      /\ e.file = d.file
      /\ e.setting = d.setting /\ e.fulltext = d.fulltext
      /\ e.deletion = [d.deletion EXCEPT ![t] = d.version]
      /\ e.object = [k \in Objects |->
                       IF k \in Items THEN Untagged(d.object[k], t, d.version)
                       ELSE d.object[k]]
  BY DeleteTagFields
<1>2. /\ t \notin Objects /\ t \notin Settings
  BY NamesAssumption
<1>3. /\ d.version \in Nat /\ b.version \in Nat
      /\ d.version = b.version + 1
  BY DEF Stamped, Database
<1>4. ASSUME NEW k \in Objects
      PROVE  /\ e.object[k] = None <=> d.object[k] = None
             /\ d.object[k] # None =>
                  /\ e.object[k].stored = d.object[k].stored
                  /\ e.object[k].born = d.object[k].born
                  /\ e.object[k].dataVersion = d.object[k].dataVersion
                  /\ e.object[k] # d.object[k] =>
                        e.object[k].version = d.version
                  /\ e.object[k].version \in {d.object[k].version, d.version}
  <2>1. d.object[k] \in {None} \union Object
    BY DEF Database
  <2>2. e.object[k] = IF k \in Items THEN Untagged(d.object[k], t, d.version)
                      ELSE d.object[k]
    BY <1>1
  <2>3. k \in Items => /\ e.object[k] \in {None} \union Object
                       /\ e.object[k] = None <=> d.object[k] = None
                       /\ d.object[k] # None =>
                            /\ e.object[k].stored = d.object[k].stored
                            /\ e.object[k].born = d.object[k].born
                            /\ e.object[k].dataVersion = d.object[k].dataVersion
                            /\ e.object[k] # d.object[k] =>
                                 e.object[k].version = d.version
                            /\ e.object[k].version \in
                                 {d.object[k].version, d.version}
    BY <1>3, <2>1, <2>2, UntaggedType
  <2> QED BY <2>2, <2>3
<1>5. ASSUME NEW k \in Objects, d.object[k] # None
      PROVE  /\ 0 < d.object[k].version /\ d.object[k].version <= d.version
             /\ d.object[k].dataVersion <= d.object[k].version
             /\ d.object[k].version \in Nat /\ d.object[k].dataVersion \in Nat
  BY <1>5 DEF Consistent, StampsBounded, Database, Object
<1>6. StampsBounded(e)
  <2>1. ASSUME NEW k \in Objects, e.object[k] # None
        PROVE  /\ 0 < e.object[k].version /\ e.object[k].version <= e.version
               /\ e.object[k].dataVersion <= e.object[k].version
    BY <2>1, <1>1, <1>2, <1>3, <1>4, <1>5
  <2> QED BY <1>1, <1>2, <1>3, <2>1 DEF Consistent, StampsBounded, Database, Buried
<1>7. NoLiveTombstone(e)
  BY <1>1, <1>2, <1>4 DEF Consistent, NoLiveTombstone, Database, Objects, Buried
<1>8. FilesBelong(e)
  <2> SUFFICES ASSUME NEW k \in Items, d.file[k] # None
               PROVE  /\ e.object[k] # None /\ e.object[k].stored
                      /\ d.file[k].born = e.object[k].born
    BY <1>1 DEF FilesBelong, IsStoredFileAttachment
  <2>1. /\ k \in Objects /\ d.object[k] # None /\ d.object[k].stored
        /\ d.file[k].born = d.object[k].born
    BY DEF Consistent, FilesBelong, IsStoredFileAttachment, Objects
  <2> QED BY <1>4, <2>1
<1>9. Stamped(b, e)
  <2>1. ASSUME NEW k \in Objects, e.object[k] # b.object[k]
        PROVE  IF e.object[k] = None THEN e.deletion[k] = e.version
               ELSE e.object[k].version = e.version
    BY <2>1, <1>1, <1>2, <1>4 DEF Stamped, Database, Buried
  <2>2. ASSUME NEW r \in Buried, e.deletion[r] # b.deletion[r]
        PROVE  \/ e.deletion[r] = e.version
               \/ r \in Objects /\ e.object[r] # None
    BY <2>2, <1>1, <1>2, <1>4 DEF Stamped, Database, Buried
  <2>3. ASSUME NEW k \in Items, e.file[k] # b.file[k]
        PROVE  e.object[k] # b.object[k]
    <3>1. d.object[k] # b.object[k] /\ k \in Objects
      BY <2>3, <1>1 DEF Stamped, Objects
    <3>2. CASE e.object[k] = d.object[k]
      BY <3>1, <3>2
    <3>3. CASE e.object[k] # d.object[k]
      <4>1. d.object[k] # None
        BY <3>1, <3>3, <1>4
      <4>2. e.object[k].version = d.version
        BY <3>1, <3>3, <4>1, <1>4
      <4>3. b.object[k] # None => b.object[k].version <= b.version /\ b.object[k].version \in Nat
        BY <3>1 DEF Consistent, StampsBounded, Database, Object
      <4> QED BY <3>1, <4>1, <4>2, <4>3, <1>2, <1>3, <1>4
    <3> QED BY <3>2, <3>3
  <2>4. ASSUME NEW s \in Settings, e.setting[s] # b.setting[s]
        PROVE  IF e.setting[s] = 0 THEN e.deletion[s] = e.version
               ELSE e.setting[s] = e.version
    BY <2>4, <1>1, <1>2 DEF Stamped, Database, Buried
  <2> QED BY <1>1, <1>2, <1>3, <2>1, <2>2, <2>3, <2>4 DEF Stamped
<1>10. e \in Database
  BY DeleteTagFields
<1> QED BY <1>1, <1>6, <1>7, <1>8, <1>9, <1>10 DEF Consistent, Sound, SameFiles

LEMMA RegisterFileSound ==
  ASSUME NEW b \in Database, NEW d \in Database, NEW k \in Items,
         NEW md5 \in Hashes, IsStoredFileAttachment(d.object[k]),
         Consistent(b), Consistent(d), Stamped(b, d),
         NEW e, e = RegisterFile(d, k, md5)
  PROVE  Sound(b, d, e)
<1> DEFINE row == Restamped(d.object[k], d.version)
<1>1. /\ row \in Object /\ row.version = d.version
      /\ row.dataVersion = d.version /\ row.stored
      /\ row.born = d.object[k].born
      /\ e.version = d.version
      /\ e.object = [d.object EXCEPT ![k] = row]
      /\ e.file = [d.file EXCEPT ![k] =
                     [md5 |-> md5, born |-> d.object[k].born]]
      /\ e.setting = d.setting /\ e.fulltext = d.fulltext
      /\ e.deletion = d.deletion
  BY RegisterFileFields
<1> HIDE DEF row
<1>2. /\ row # None /\ k \in Objects
      /\ d.version \in Nat /\ b.version \in Nat /\ d.version = b.version + 1
  BY <1>1, NoneAssumption DEF Object, Objects, Stamped, Database
<1>3. StampsBounded(e)
  BY <1>1, <1>2 DEF Consistent, StampsBounded, Database, Object, Objects,
     Buried
<1>4. NoLiveTombstone(e)
  BY <1>1, <1>2 DEF Consistent, NoLiveTombstone, Database,
     IsStoredFileAttachment
<1>5. FilesBelong(e)
  BY <1>1, <1>2 DEF Consistent, FilesBelong, IsStoredFileAttachment,
     Database, Objects
<1>6. Stamped(b, e)
  <2>1. b.object[k] # row
    BY <1>1, <1>2 DEF Consistent, StampsBounded, Database, Object
  <2> QED BY <1>1, <1>2, <2>1 DEF Stamped, Database, Objects, Buried
<1>7. e \in Database
  BY RegisterFileFields
<1> QED BY <1>1, <1>3, <1>4, <1>5, <1>6, <1>7 DEF Consistent, Sound

(* Writing or deleting an object that is not a stored attachment touches   *)
(* no file: by FilesBelong there is none to touch.                         *)
LEMMA FilelessWrite ==
  ASSUME NEW d \in Database, Consistent(d), NEW k \in Objects,
         NEW patch \in Patch,
         k \in Items => ~IsStoredFileAttachment(d.object[k]),
         NEW e, e = WriteObject(d, k, patch)
  PROVE  SameFiles(d, e)
<1> DEFINE new == Merge(d.object[k], patch, d.version)
           continuous == /\ IsStoredFileAttachment(d.object[k])
                         /\ IsStoredFileAttachment(new)
<1>1. /\ e.version = d.version
      /\ e.object = [d.object EXCEPT ![k] = new]
      /\ e.file = IF k \in Items /\ ~continuous
                  THEN [d.file EXCEPT ![k] = None] ELSE d.file
      /\ e.setting = d.setting /\ e.fulltext = d.fulltext
      /\ e.deletion = [d.deletion EXCEPT ![k] = 0]
  BY WriteObjectFields
<1> HIDE DEF new
<1>2. k \in Items => d.file[k] = None /\ ~continuous
  BY DEF Consistent, FilesBelong
<1>3. CASE k \in Items
  BY <1>1, <1>2, <1>3 DEF SameFiles, Database
<1>4. CASE k \notin Items
  BY <1>1, <1>4 DEF SameFiles
<1> QED BY <1>3, <1>4

LEMMA FilelessDelete ==
  ASSUME NEW d \in Database, Consistent(d), NEW k \in Objects,
         k \in Items => ~IsStoredFileAttachment(d.object[k]),
         NEW e, e = DeleteObject(d, k)
  PROVE  SameFiles(d, e)
<1>1. \A j \in Items : e.file[j] = IF j = k THEN None ELSE d.file[j]
  BY DeleteObjectFields
<1>2. e \in Database
  BY DeleteObjectFields
<1>3. k \in Items => d.file[k] = None
  BY DEF Consistent, FilesBelong
<1>4. \A j \in Items : e.file[j] = d.file[j]
  BY <1>1, <1>3
<1> QED BY <1>2, <1>4 DEF SameFiles, Database

(***************************************************************************)
(* The invariant.                                                          *)
(***************************************************************************)

(* A handler that stops without committing, having answered anything but   *)
(* success.                                                                *)
LEMMA RollbackStep ==
  ASSUME IInv, NEW w \in Writers, pc[w] = "running",
         NEW status \in Statuses \ {"done"}, Rollback(w, status)
  PROVE  IInv'
<1> USE DEF IInv
<1>1. TypeOK'
  BY NoneAssumption DEF TypeOK, Rollback, Answer, Reply, NoRequest, Requests, Ops, Database
<1>2. WritersSerialized'
  BY NoneAssumption DEF TypeOK, WritersSerialized, Rollback, Answer
<1>3. DistinctVersions'
  BY DEF TypeOK, DistinctVersions, Rollback, Answer, Reply
<1>4. Consistent(db)'
  BY DEF Rollback, Consistent, StampsBounded, NoLiveTombstone, FilesBelong
<1>5. (\A v \in Writers : req[v].op = "register_file" => req[v].files)'
  BY DEF TypeOK, Rollback, Answer, NoRequest
<1>6. ASSUME NEW v \in Writers, pc'[v] = "running"
      PROVE  DraftSound(v)'
  <2>1. v # w /\ pc[v] = "running"
    BY <1>6 DEF TypeOK, Rollback, Answer
  <2>2. lock = w /\ lock = v
    BY <2>1 DEF WritersSerialized
  <2> QED BY <2>1, <2>2
<1> QED BY <1>1, <1>2, <1>3, <1>4, <1>5, <1>6

(* A handler that has treated one more entry.                              *)
LEMMA ApplyStep ==
  ASSUME IInv, NEW w \in Writers, pc[w] = "running", req[w].left > 0,
         NEW d, Sound(db, draft[w], d),
         ~req[w].files => SameFiles(draft[w], d),
         Apply(w, d)
  PROVE  IInv'
<1> USE DEF IInv
<1>0. /\ d \in Database /\ d.version = draft[w].version
      /\ Consistent(d) /\ Stamped(db, d)
      /\ ~req[w].files => d.file = draft[w].file
  BY DEF Sound, SameFiles
<1>1. TypeOK'
  <2>1. req' \in [Writers -> Requests]
    <3>1. req[w] \in Requests /\ req[w].left - 1 \in Nat
      BY DEF TypeOK, Requests
    <3>2. [req[w] EXCEPT !.left = req[w].left - 1] \in Requests
      BY <3>1 DEF Requests
    <3> QED BY <3>2 DEF TypeOK, Apply
  <2>2. draft' \in [Writers -> {None} \union Database]
    BY <1>0 DEF TypeOK, Apply
  <2> QED BY <2>1, <2>2 DEF TypeOK, Apply
<1>2. d # None
  BY <1>0, NoneAssumption
<1>3. WritersSerialized'
  BY <1>0, <1>2 DEF TypeOK, WritersSerialized, Apply
<1>4. DistinctVersions'
  BY DEF DistinctVersions, Apply
<1>5. Consistent(db)'
  BY DEF Apply, Consistent, StampsBounded, NoLiveTombstone, FilesBelong
<1>6. ASSUME NEW v \in Writers
      PROVE  /\ req'[v].op = req[v].op /\ req'[v].files = req[v].files
             /\ req'[v].expected = req[v].expected
  BY DEF TypeOK, Apply, Requests
<1>7. ASSUME NEW v \in Writers, pc'[v] = "running"
      PROVE  DraftSound(v)'
  <2>1. v = w
    BY <1>7 DEF WritersSerialized, Apply
  <2>2. draft'[w] = d /\ db' = db
    BY DEF TypeOK, Apply
  <2>3. DraftSound(w)
    OBVIOUS
  <2>4. Consistent(draft'[w]) /\ Stamped(db', draft'[w])
    BY <1>0, <2>2
  <2>5. req'[w].expected \in {None, db'.version}
    BY <1>6, <2>2, <2>3 DEF DraftSound
  <2>6. ~req'[w].files => draft'[w].file = db'.file
    BY <1>0, <1>6, <2>2, <2>3 DEF DraftSound
  <2> QED BY <2>1, <2>4, <2>5, <2>6 DEF DraftSound
<1> QED BY <1>1, <1>3, <1>4, <1>5, <1>6, <1>7

(* A handler that was only waiting is answered anything but success.       *)
LEMMA WaitingAnswerStep ==
  ASSUME IInv, NEW w \in Writers, pc[w] = "waiting",
         NEW status \in Statuses \ {"done"}, NEW version \in Nat,
         Answer(w, status, version), UNCHANGED <<db, lock, draft>>
  PROVE  IInv'
<1> USE DEF IInv
<1>1. TypeOK'
  BY NoneAssumption DEF TypeOK, Answer, Reply, NoRequest, Requests, Ops
<1>2. WritersSerialized'
  BY DEF TypeOK, WritersSerialized, Answer
<1>3. DistinctVersions'
  BY DEF TypeOK, DistinctVersions, Answer, Reply
<1>4. Consistent(db)'
  BY DEF Consistent, StampsBounded, NoLiveTombstone, FilesBelong
<1>5. (\A v \in Writers : req[v].op = "register_file" => req[v].files)'
  BY DEF TypeOK, Answer, NoRequest
<1>6. ASSUME NEW v \in Writers, pc'[v] = "running"
      PROVE  DraftSound(v)'
  <2>1. v # w /\ pc[v] = "running" /\ DraftSound(v)
    BY <1>6 DEF TypeOK, Answer
  <2>2. req'[v] = req[v] /\ draft' = draft /\ db' = db
    BY <2>1 DEF TypeOK, Answer
  <2> QED BY <2>1, <2>2 DEF DraftSound
<1> QED BY <1>1, <1>2, <1>3, <1>4, <1>5, <1>6

LEMMA RequestsAtType ==
  ASSUME NEW v \in Nat, NEW r \in RequestsAt(v)
  PROVE  /\ r \in Requests
         /\ r.op = "register_file" => r.files
<1> USE BoundsAssumption
<1>1. CASE r \in [op : {"write", "delete"}, kind : {"item", "other"},
                  files : BOOLEAN, expected : 0..v, left : 1..MaxBatch]
  BY <1>1 DEF Requests, Ops
<1>2. CASE r \in [op : Ops \ {"write", "delete", "register_file"},
                  kind : {"item"}, files : BOOLEAN, expected : 0..v,
                  left : 1..MaxBatch]
  BY <1>2 DEF Requests, Ops
<1>3. CASE r \in [op : {"register_file"}, kind : {"item"}, files : {TRUE},
                  expected : {None}, left : {1}]
  <2>1. r.files = TRUE
    BY <1>3
  <2>2. r \in Requests
    <3>1. {TRUE} \subseteq BOOLEAN /\ 1 \in Nat /\ "register_file" \in Ops
      BY DEF Ops
    <3>2. r = [op |-> r.op, kind |-> r.kind, files |-> r.files,
               expected |-> r.expected, left |-> r.left]
      BY <1>3, Zenon
    <3>3. /\ r.op \in Ops /\ r.kind \in {"item", "other"}
          /\ r.expected \in {None} \union Nat /\ r.left \in Nat
      BY <1>3 DEF Ops
    <3>4. r.files \in BOOLEAN
      BY <2>1
    <3> QED BY <3>2, <3>3, <3>4, Zenon DEF Requests
  <2> QED BY <2>1, <2>2
<1>4. CASE r \in [op : {"write"}, kind : {"item"}, files : {FALSE},
                  expected : 0..v, left : {0}]
  <2>1. r.files = FALSE /\ r.op = "write"
    BY <1>4
  <2>2. r \in Requests
    <3>1. r = [op |-> r.op, kind |-> r.kind, files |-> r.files,
               expected |-> r.expected, left |-> r.left]
      BY <1>4, Zenon
    <3>2. /\ r.op \in Ops /\ r.kind \in {"item", "other"}
          /\ r.expected \in {None} \union Nat /\ r.left \in Nat
      BY <1>4 DEF Ops
    <3>3. r.files \in BOOLEAN
      BY <2>1
    <3> QED BY <3>1, <3>2, <3>3, Zenon DEF Requests
  <2> QED BY <2>1, <2>2
<1> QED BY <1>1, <1>2, <1>3, <1>4 DEF RequestsAt

LEMMA BeginStep ==
  ASSUME IInv, NEW w \in Writers, Begin(w)
  PROVE  IInv'
<1> USE DEF IInv
<1>1. PICK r \in RequestsAt(db.version) : req' = [req EXCEPT ![w] = r]
  BY DEF Begin
<1>2. /\ r \in Requests
      /\ r.op = "register_file" => r.files
  <2>1. db.version \in Nat
    BY DEF TypeOK, Database
  <2> QED BY <2>1, RequestsAtType
<1>3. TypeOK'
  BY <1>1, <1>2 DEF TypeOK, Begin, Reply, Statuses
<1>4. WritersSerialized'
  BY DEF TypeOK, WritersSerialized, Begin
<1>5. DistinctVersions'
  BY DEF TypeOK, DistinctVersions, Begin, Reply
<1>6. Consistent(db)'
  BY DEF Begin, Consistent, StampsBounded, NoLiveTombstone, FilesBelong
<1>7. (\A v \in Writers : req[v].op = "register_file" => req[v].files)'
  BY <1>1, <1>2 DEF TypeOK
<1>8. ASSUME NEW v \in Writers, pc'[v] = "running"
      PROVE  DraftSound(v)'
  <2>1. v # w /\ pc[v] = "running" /\ DraftSound(v)
    BY <1>8 DEF TypeOK, Begin
  <2>2. req'[v] = req[v] /\ draft' = draft /\ db' = db
    BY <2>1, <1>1 DEF TypeOK, Begin
  <2> QED BY <2>1, <2>2 DEF DraftSound
<1> QED BY <1>3, <1>4, <1>5, <1>6, <1>7, <1>8

(* Reserving a version leaves the rows as they are.                        *)
LEMMA ReservedSound ==
  ASSUME NEW d \in Database, Consistent(d),
         NEW e, e = [d EXCEPT !.version = d.version + 1]
  PROVE  /\ e \in Database /\ Consistent(e) /\ Stamped(d, e)
         /\ e.version = d.version + 1 /\ e.file = d.file
<1>1. /\ e \in Database /\ e.version = d.version + 1
      /\ e.object = d.object /\ e.file = d.file /\ e.setting = d.setting
      /\ e.fulltext = d.fulltext /\ e.deletion = d.deletion
  BY DEF Database
<1>2. Consistent(e)
  BY <1>1 DEF Consistent, StampsBounded, NoLiveTombstone, FilesBelong,
              Database, Object
<1>3. Stamped(d, e)
  BY <1>1 DEF Stamped
<1> QED BY <1>1, <1>2, <1>3

LEMMA GuardedVersionStep ==
  ASSUME IInv, NEW w \in Writers, GuardedVersion(w)
  PROVE  IInv'
<1>1. CASE req[w].expected \notin {None, db.version}
  <2>1. db.version \in Nat
    BY DEF IInv, TypeOK, Database
  <2>2. "conflict" \in Statuses \ {"done"}
    BY DEF Statuses
  <2> QED BY <1>1, <2>1, <2>2, WaitingAnswerStep DEF GuardedVersion
<1>2. CASE req[w].expected \in {None, db.version}
  <2> DEFINE e == [db EXCEPT !.version = db.version + 1]
  <2>1. /\ lock = None /\ lock' = w
        /\ pc[w] = "waiting" /\ pc' = [pc EXCEPT ![w] = "running"]
        /\ draft' = [draft EXCEPT ![w] = e]
        /\ db' = db /\ req' = req /\ reply' = reply
    BY <1>2 DEF GuardedVersion, Reserve
  <2>2. /\ e \in Database /\ Consistent(e) /\ Stamped(db, e)
        /\ e.version = db.version + 1 /\ e.file = db.file
    BY ReservedSound DEF IInv, TypeOK
  <2>3. e # None
    BY <2>2, NoneAssumption
  <2> HIDE DEF e
  <2>4. TypeOK'
    BY <2>1, <2>2 DEF IInv, TypeOK
  <2>5. WritersSerialized'
    BY <2>1, <2>2, <2>3, NoneAssumption DEF IInv, TypeOK, WritersSerialized
  <2>6. DistinctVersions'
    BY <2>1 DEF IInv, DistinctVersions
  <2>7. Consistent(db)' /\ (\A v \in Writers :
                              req[v].op = "register_file" => req[v].files)'
    BY <2>1 DEF IInv
  <2>8. ASSUME NEW v \in Writers, pc'[v] = "running"
        PROVE  DraftSound(v)'
    <3>1. v = w
      BY <2>1, <2>8, NoneAssumption DEF IInv, TypeOK, WritersSerialized
    <3>2. draft'[w] = e
      BY <2>1 DEF IInv, TypeOK
    <3> QED BY <1>2, <2>1, <2>2, <3>1, <3>2 DEF DraftSound
  <2> QED BY <2>4, <2>5, <2>6, <2>7, <2>8 DEF IInv
<1> QED BY <1>1, <1>2

LEMMA CommitStep ==
  ASSUME IInv, NEW w \in Writers, Commit(w)
  PROVE  IInv'
<1>1. /\ pc[w] = "running" /\ lock = w /\ DraftSound(w)
      /\ draft[w].version = db.version + 1
      /\ draft[w] \in Database
  BY DEF IInv, Commit, WritersSerialized, TypeOK
<1>2. /\ db' = draft[w] /\ lock' = None
      /\ draft' = [draft EXCEPT ![w] = None]
      /\ pc' = [pc EXCEPT ![w] = "idle"]
      /\ req' = [req EXCEPT ![w] = NoRequest]
  BY DEF Commit, Answer
<1>3. PICK r \in {Reply("done", draft[w].version), Reply("error", 0)} :
        reply' = [reply EXCEPT ![w] = r]
  BY DEF Commit, Answer
<1>4. /\ r \in [status : Statuses, version : Nat]
      /\ r.status = "done" => r.version = draft[w].version
  BY <1>1, <1>3 DEF Reply, Statuses, Database
<1>5. db'.version = db.version + 1 /\ db.version \in Nat
  BY <1>1, <1>2 DEF IInv, TypeOK, Database
<1>6. \A v \in Writers : pc'[v] # "running"
  BY <1>1, <1>2 DEF IInv, TypeOK, WritersSerialized
<1>7. TypeOK'
  BY <1>1, <1>2, <1>3, <1>4 DEF IInv, TypeOK, NoRequest, Requests, Ops
<1>8. WritersSerialized'
  <2>1. \A v \in Writers : draft'[v] = None
    BY <1>1, <1>2 DEF IInv, TypeOK, WritersSerialized
  <2> QED BY <1>2, <1>6, <2>1, NoneAssumption DEF WritersSerialized
<1>9. DistinctVersions'
  BY <1>1, <1>3, <1>4, <1>5 DEF IInv, TypeOK, DistinctVersions
<1>10. Consistent(db)'
  BY <1>1, <1>2 DEF DraftSound
<1>11. (\A v \in Writers : req[v].op = "register_file" => req[v].files)'
  BY <1>2 DEF IInv, TypeOK, NoRequest
<1> QED BY <1>6, <1>7, <1>8, <1>9, <1>10, <1>11 DEF IInv

(* The transaction of a handler that is treating its batch.                *)
LEMMA OpenDraft ==
  ASSUME IInv, NEW w \in Writers, pc[w] = "running"
  PROVE  /\ draft[w] \in Database /\ db \in Database
         /\ Consistent(draft[w]) /\ Consistent(db) /\ Stamped(db, draft[w])
BY DEF IInv, TypeOK, WritersSerialized, DraftSound

LEMMA WriteEntryStep ==
  ASSUME IInv, NEW w \in Writers, WriteEntry(w)
  PROVE  IInv'
<1> DEFINE d == draft[w]
<1>1. pc[w] = "running" /\ req[w].left > 0
  BY DEF WriteEntry, AtEntry
<1>2. /\ d \in Database /\ db \in Database
      /\ Consistent(d) /\ Consistent(db) /\ Stamped(db, d)
  BY <1>1, OpenDraft
<1>3. PICK k \in KeysOf(req[w].kind), patch \in PatchesOf(req[w].kind) :
        LET touchesFile == \/ IsStoredFileAttachment(d.object[k])
                           \/ Merge(d.object[k], patch, d.version).stored
        IN IF req[w].kind = "item" /\ ~req[w].files /\ touchesFile
           THEN Rollback(w, "denied")
           ELSE Apply(w, WriteObject(d, k, patch))
  BY DEF WriteEntry
<1>4. k \in Objects /\ patch \in Patch
  BY DEF KeysOf, PatchesOf, Patch, Objects
<1> DEFINE new == Merge(d.object[k], patch, d.version)
           touchesFile == \/ IsStoredFileAttachment(d.object[k]) \/ new.stored
           e == WriteObject(d, k, patch)
<1>5. CASE req[w].kind = "item" /\ ~req[w].files /\ touchesFile
  <2>1. Rollback(w, "denied")
    BY <1>3, <1>5
  <2>2. "denied" \in Statuses \ {"done"}
    BY DEF Statuses
  <2> QED BY <1>1, <2>1, <2>2, RollbackStep
<1>6. CASE ~(req[w].kind = "item" /\ ~req[w].files /\ touchesFile)
  <2>1. Apply(w, e)
    BY <1>3, <1>6
  <2>2. Sound(db, d, e)
    BY <1>2, <1>4, WriteObjectSound
  <2>3. ASSUME ~req[w].files
        PROVE  SameFiles(d, e)
    <3>1. req[w].kind = "item" <=> k \in Items
      BY NamesAssumption DEF KeysOf, IInv, TypeOK, Requests
    <3>2. k \in Items => ~IsStoredFileAttachment(d.object[k])
      BY <1>6, <2>3, <3>1
    <3> QED BY <1>2, <1>4, <3>2, FilelessWrite
  <2> HIDE DEF e
  <2> QED BY <1>1, <2>1, <2>2, <2>3, ApplyStep
<1> QED BY <1>5, <1>6

LEMMA DeleteEntryStep ==
  ASSUME IInv, NEW w \in Writers, DeleteEntry(w)
  PROVE  IInv'
<1> DEFINE d == draft[w]
<1>1. pc[w] = "running" /\ req[w].left > 0
  BY DEF DeleteEntry, AtEntry
<1>2. /\ d \in Database /\ db \in Database
      /\ Consistent(d) /\ Consistent(db) /\ Stamped(db, d)
  BY <1>1, OpenDraft
<1>3. PICK k \in KeysOf(req[w].kind) :
        IF /\ req[w].kind = "item"
           /\ ~req[w].files
           /\ IsStoredFileAttachment(d.object[k])
        THEN Rollback(w, "denied")
        ELSE Apply(w, DeleteObject(d, k))
  BY DEF DeleteEntry
<1>4. k \in Objects
  BY DEF KeysOf, Objects
<1> DEFINE refused == /\ req[w].kind = "item"
                      /\ ~req[w].files
                      /\ IsStoredFileAttachment(d.object[k])
           e == DeleteObject(d, k)
<1>5. CASE refused
  <2>1. Rollback(w, "denied")
    BY <1>3, <1>5
  <2>2. "denied" \in Statuses \ {"done"}
    BY DEF Statuses
  <2> QED BY <1>1, <2>1, <2>2, RollbackStep
<1>6. CASE ~refused
  <2>1. Apply(w, e)
    BY <1>3, <1>6
  <2>2. Sound(db, d, e)
    BY <1>2, <1>4, DeleteObjectSound
  <2>3. ASSUME ~req[w].files
        PROVE  SameFiles(d, e)
    <3>1. req[w].kind = "item" <=> k \in Items
      BY NamesAssumption DEF KeysOf, IInv, TypeOK, Requests
    <3>2. k \in Items => ~IsStoredFileAttachment(d.object[k])
      BY <1>6, <2>3, <3>1
    <3> QED BY <1>2, <1>4, <3>2, FilelessDelete
  <2> HIDE DEF e
  <2> QED BY <1>1, <2>1, <2>2, <2>3, ApplyStep
<1> QED BY <1>5, <1>6

LEMMA RegisterEntryStep ==
  ASSUME IInv, NEW w \in Writers, RegisterEntry(w)
  PROVE  IInv'
<1> DEFINE d == draft[w]
<1>1. pc[w] = "running" /\ req[w].left > 0 /\ req[w].files
  BY DEF RegisterEntry, AtEntry, IInv
<1>2. /\ d \in Database /\ db \in Database
      /\ Consistent(d) /\ Consistent(db) /\ Stamped(db, d)
  BY <1>1, OpenDraft
<1>3. PICK k \in Items, md5 \in Hashes :
        \/ Rollback(w, "invalid") \/ Rollback(w, "conflict")
        \/ IsStoredFileAttachment(d.object[k]) /\ Apply(w, RegisterFile(d, k, md5))
  BY DEF RegisterEntry
<1>4. CASE Rollback(w, "invalid") \/ Rollback(w, "conflict")
  <2>1. "invalid" \in Statuses \ {"done"} /\ "conflict" \in Statuses \ {"done"}
    BY DEF Statuses
  <2> QED BY <1>1, <1>4, <2>1, RollbackStep
<1>5. CASE /\ IsStoredFileAttachment(d.object[k])
           /\ Apply(w, RegisterFile(d, k, md5))
  <2> DEFINE e == RegisterFile(d, k, md5)
  <2>1. Sound(db, d, e)
    BY <1>2, <1>5, RegisterFileSound
  <2>2. Apply(w, e)
    BY <1>5
  <2> HIDE DEF e
  <2> QED BY <1>1, <2>1, <2>2, ApplyStep
<1> QED BY <1>3, <1>4, <1>5

(* Settings, tags and full text: entries that are never refused and touch  *)
(* no file.                                                                *)
LEMMA PlainEntryStep ==
  ASSUME IInv, NEW w \in Writers,
         \/ WriteSettingEntry(w) \/ DeleteSettingEntry(w)
         \/ DeleteTagEntry(w) \/ WriteFulltextEntry(w)
  PROVE  IInv'
<1> DEFINE d == draft[w]
<1>1. pc[w] = "running" /\ req[w].left > 0
  BY DEF WriteSettingEntry, DeleteSettingEntry, DeleteTagEntry,
         WriteFulltextEntry, AtEntry
<1>2. /\ d \in Database /\ db \in Database
      /\ Consistent(d) /\ Consistent(db) /\ Stamped(db, d)
  BY <1>1, OpenDraft
<1>3. ASSUME NEW e, Apply(w, e), Sound(db, d, e), SameFiles(d, e)
      PROVE  IInv'
  BY <1>1, <1>3, ApplyStep
<1>4. CASE WriteSettingEntry(w)
  <2>1. PICK s \in Settings : Apply(w, WriteSetting(d, s))
    BY <1>4 DEF WriteSettingEntry
  <2> QED BY <1>2, <1>3, <2>1, WriteSettingSound
<1>5. CASE DeleteSettingEntry(w)
  <2>1. PICK s \in Settings : Apply(w, DeleteSetting(d, s))
    BY <1>5 DEF DeleteSettingEntry
  <2> QED BY <1>2, <1>3, <2>1, DeleteSettingSound
<1>6. CASE DeleteTagEntry(w)
  <2>1. PICK t \in Tags : Apply(w, DeleteTag(d, t))
    BY <1>6 DEF DeleteTagEntry
  <2> QED BY <1>2, <1>3, <2>1, DeleteTagSound
<1>7. CASE WriteFulltextEntry(w)
  <2>1. PICK k \in Items : Apply(w, WriteFulltext(d, k))
    BY <1>7 DEF WriteFulltextEntry
  <2> QED BY <1>2, <1>3, <2>1, WriteFulltextSound
<1> QED BY <1>4, <1>5, <1>6, <1>7

LEMMA InitInvariant == Init => IInv
<1> SUFFICES ASSUME Init PROVE IInv
  OBVIOUS
<1>1. TypeOK
  BY EmptyDatabaseSound DEF Init, TypeOK, NoRequest, Requests, Ops, Reply,
     Statuses
<1>2. WritersSerialized /\ DistinctVersions
  BY NoneAssumption DEF Init, WritersSerialized, DistinctVersions, Reply
<1>3. Consistent(db)
  BY EmptyDatabaseSound DEF Init
<1> QED BY <1>1, <1>2, <1>3 DEF Init, IInv, NoRequest

LEMMA NextInvariant == IInv /\ [Next]_vars => IInv'
<1> SUFFICES ASSUME IInv, [Next]_vars PROVE IInv'
  OBVIOUS
<1>1. ASSUME NEW w \in Writers, Begin(w) PROVE IInv'
  BY <1>1, BeginStep
<1>2. ASSUME NEW w \in Writers, NoChange(w) PROVE IInv'
  <2>1. /\ db.version \in Nat
        /\ "conflict" \in Statuses \ {"done"}
        /\ "unchanged" \in Statuses \ {"done"}
    BY DEF IInv, TypeOK, Database, Statuses
  <2> QED BY <1>2, <2>1, WaitingAnswerStep DEF NoChange
<1>3. ASSUME NEW w \in Writers, GuardedVersion(w) PROVE IInv'
  BY <1>3, GuardedVersionStep
<1>4. ASSUME NEW w \in Writers, Entry(w) PROVE IInv'
  BY <1>4, WriteEntryStep, DeleteEntryStep, RegisterEntryStep, PlainEntryStep
     DEF Entry
<1>5. ASSUME NEW w \in Writers, Commit(w) PROVE IInv'
  BY <1>5, CommitStep
<1>6. ASSUME NEW w \in Writers, Abort(w) PROVE IInv'
  <2>1. "error" \in Statuses \ {"done"} /\ 0 \in Nat
    BY DEF Statuses
  <2> QED BY <1>6, <2>1, RollbackStep, WaitingAnswerStep DEF Abort
<1>7. CASE UNCHANGED vars
  BY <1>7 DEF vars, IInv, TypeOK, WritersSerialized, DistinctVersions,
     DraftSound, Consistent, StampsBounded, NoLiveTombstone, FilesBelong,
     Stamped
<1> QED BY <1>1, <1>2, <1>3, <1>4, <1>5, <1>6, <1>7 DEF Next

(* The inductive invariant holds in every reachable state.                 *)
THEOREM Invariance == Spec => []IInv
BY InitInvariant, NextInvariant, PTL DEF Spec

(* The variables keep their types: every committed database and every open *)
(* draft is a database.                                                    *)
THEOREM TypeCorrect == Spec => []TypeOK
<1>1. IInv => TypeOK
  BY DEF IInv
<1> QED BY <1>1, Invariance, PTL

(* At most one transaction of the library is open, it holds the row lock,  *)
(* and it will commit the very next version.                               *)
THEOREM Serialized == Spec => []WritersSerialized
<1>1. IInv => WritersSerialized
  BY DEF IInv
<1> QED BY <1>1, Invariance, PTL

(* Two successful answers never name the same version.                     *)
THEOREM VersionsDistinct == Spec => []DistinctVersions
<1>1. IInv => DistinctVersions
  BY DEF IInv
<1> QED BY <1>1, Invariance, PTL

(* The committed stamps lie behind the committed version, no committed     *)
(* object is also in the deletion log, and every committed file belongs to *)
(* the stored attachment it was registered for.                            *)
THEOREM CommittedConsistent ==
  Spec => [](/\ CommittedStampsBounded
             /\ CommittedNoLiveTombstone
             /\ CommittedFilesBelong)
<1>1. IInv => /\ CommittedStampsBounded
              /\ CommittedNoLiveTombstone
              /\ CommittedFilesBelong
  BY DEF IInv, Consistent, CommittedStampsBounded, CommittedNoLiveTombstone,
         CommittedFilesBelong
<1> QED BY <1>1, Invariance, PTL

(* No committed stamp, of a live row or of a deletion, is ahead of the     *)
(* committed version, so a read since that version misses none.            *)
THEOREM StampsBehindVersion == Spec => []CommittedStampsBounded
<1>1. IInv => CommittedStampsBounded
  BY DEF IInv, Consistent, CommittedStampsBounded
<1> QED BY <1>1, Invariance, PTL

(* No object is both a live row and in the deletion log, whatever batches  *)
(* deleted it and made it again.                                           *)
THEOREM LiveOrBuried == Spec => []CommittedNoLiveTombstone
<1>1. IInv => CommittedNoLiveTombstone
  BY DEF IInv, Consistent, CommittedNoLiveTombstone
<1> QED BY <1>1, Invariance, PTL

(* Only Commit changes the committed rows.                                 *)
LEMMA OnlyCommitChangesRows ==
  ASSUME IInv, [Next]_vars, db' # db
  PROVE  \E w \in Writers : Commit(w)
<1>1. ASSUME NEW w \in Writers, Entry(w) PROVE db' = db
  BY <1>1 DEF Entry, WriteEntry, DeleteEntry, WriteSettingEntry,
     DeleteSettingEntry, DeleteTagEntry, WriteFulltextEntry, RegisterEntry,
     Apply, Rollback
<1>2. ASSUME NEW w \in Writers,
             Begin(w) \/ NoChange(w) \/ GuardedVersion(w) \/ Abort(w)
      PROVE  db' = db
  BY <1>2 DEF Begin, NoChange, GuardedVersion, Reserve, Abort, Rollback
<1> QED BY <1>1, <1>2 DEF Next, vars

(* What a committing handler puts in place of the committed rows.          *)
LEMMA CommitEffect ==
  ASSUME IInv, NEW w \in Writers, Commit(w)
  PROVE  /\ pc[w] = "running" /\ lock = w /\ pc'[w] = "idle"
         /\ Stamped(db, db')
         /\ req[w].expected \in {None, db.version}
         /\ ~req[w].files => db'.file = db.file
<1>1. pc[w] = "running" /\ db' = draft[w] /\ pc'[w] = "idle"
  BY DEF Commit, Answer, IInv, TypeOK
<1>2. lock = w /\ DraftSound(w)
  BY <1>1 DEF IInv, WritersSerialized
<1> QED BY <1>1, <1>2 DEF DraftSound

(* Every commit takes exactly one version and stamps what it changes.      *)
THEOREM CommitsAreStamped == Spec => ChangesAreStamped
<1>1. IInv /\ [Next]_vars => [db' # db => Stamped(db, db')]_vars
  BY OnlyCommitChangesRows, CommitEffect
<1> QED BY <1>1, Invariance, PTL DEF Spec, ChangesAreStamped

(* A batch is committed only onto the version its client expected.         *)
THEOREM CommitsAreGuarded == Spec => GuardedCommit
<1> DEFINE Guarded == db' # db =>
             \E w \in Writers : /\ pc[w] = "running"
                                /\ pc'[w] = "idle"
                                /\ req[w].expected \in {None, db.version}
<1>1. IInv /\ [Next]_vars => [Guarded]_vars
  BY OnlyCommitChangesRows, CommitEffect
<1> QED BY <1>1, Invariance, PTL DEF Spec, GuardedCommit

(* Without file access no commit changes a file row.                       *)
THEOREM FilesGuarded == Spec => FileAccessRespected
<1> DEFINE Respected == db' # db =>
             \A w \in Writers :
                (lock = w /\ ~req[w].files) => db'.file = db.file
<1>1. IInv /\ [Next]_vars => [Respected]_vars
  BY OnlyCommitChangesRows, CommitEffect
<1> QED BY <1>1, Invariance, PTL DEF Spec, FileAccessRespected

(***************************************************************************)
(* The refinement of VersionedStore.                                       *)
(***************************************************************************)

(* d has a row, or an entry of the deletion log, of its own version.       *)
Touched(d) ==
  \/ \E k \in Objects : d.object[k] # None /\ d.object[k].version = d.version
  \/ \E s \in Settings : d.setting[s] = d.version
  \/ \E k \in Items : d.fulltext[k] = d.version
  \/ \E r \in Buried : d.deletion[r] = d.version

(* What Stamped leaves open, and the one write of VersionedStore does not: *)
(* a transaction has changed something by the time it can commit, and a    *)
(* setting it deletes it does not write again.                             *)
DraftDecided(w) ==
  /\ req[w].left = 0 => Touched(draft[w])
  /\ \A s \in Settings : draft[w].deletion[s] # db.deletion[s] =>
        req[w].op = "delete_settings" /\ draft[w].setting[s] = 0

DInv == IInv /\ \A w \in Writers : pc[w] = "running" => DraftDecided(w)

(* One entry of a batch of kind op takes the transaction's view d to e.    *)
Decides(op, d, e) ==
  /\ Touched(e)
  /\ \A s \in Settings :
       \/ e.deletion[s] = d.deletion[s] /\ (d.setting[s] = 0 => e.setting[s] = 0)
       \/ e.deletion[s] = d.deletion[s] /\ op # "delete_settings"
       \/ e.setting[s] = 0 /\ op = "delete_settings"

(* The two entries whose new row is an expression of its own.              *)
LEMMA WriteObjectDecides ==
  ASSUME NEW d \in Database, NEW k \in Objects, NEW patch \in Patch, NEW op,
         NEW e, e = WriteObject(d, k, patch)
  PROVE  Decides(op, d, e)
<1> DEFINE new == Merge(d.object[k], patch, d.version)
           continuous == /\ IsStoredFileAttachment(d.object[k])
                         /\ IsStoredFileAttachment(new)
<1>1. /\ e.version = d.version
      /\ e.object = [d.object EXCEPT ![k] = new]
      /\ e.file = IF k \in Items /\ ~continuous
                  THEN [d.file EXCEPT ![k] = None] ELSE d.file
      /\ e.setting = d.setting /\ e.fulltext = d.fulltext
      /\ e.deletion = [d.deletion EXCEPT ![k] = 0]
  BY WriteObjectFields
<1>2. new # None /\ new.version = d.version
  BY MergeType DEF Database
<1> HIDE DEF new, continuous
<1>3. e.object[k] = new
  BY <1>1 DEF Database
<1>4. Touched(e)
  BY <1>1, <1>2, <1>3 DEF Touched
<1>5. \A s \in Settings : e.deletion[s] = d.deletion[s] /\ e.setting[s] = d.setting[s]
  BY <1>1, NamesAssumption DEF Database, Buried
<1> QED BY <1>4, <1>5 DEF Decides

LEMMA RegisterFileDecides ==
  ASSUME NEW d \in Database, NEW k \in Items, NEW md5 \in Hashes,
         IsStoredFileAttachment(d.object[k]), NEW op,
         NEW e, e = RegisterFile(d, k, md5)
  PROVE  Decides(op, d, e)
<1> DEFINE row == Restamped(d.object[k], d.version)
<1>1. /\ row \in Object /\ row.version = d.version
      /\ row.dataVersion = d.version /\ row.stored
      /\ row.born = d.object[k].born
      /\ e.version = d.version
      /\ e.object = [d.object EXCEPT ![k] = row]
      /\ e.file = [d.file EXCEPT ![k] =
                     [md5 |-> md5, born |-> d.object[k].born]]
      /\ e.setting = d.setting /\ e.fulltext = d.fulltext
      /\ e.deletion = d.deletion
  BY RegisterFileFields
<1> HIDE DEF row
<1>2. k \in Objects /\ e.object[k] = row /\ row # None
  BY <1>1, NoneAssumption DEF Database, Objects
<1>3. Touched(e)
  BY <1>1, <1>2 DEF Touched
<1> QED BY <1>1, <1>3 DEF Decides

(* Every entry of a batch refuses the batch or decides what it touches.    *)
LEMMA EntryDecides ==
  ASSUME IInv, NEW w \in Writers, Entry(w)
  PROVE  \/ \E status : Rollback(w, status)
         \/ \E e : Apply(w, e) /\ Decides(req[w].op, draft[w], e)
<1> DEFINE d == draft[w]
<1>1. pc[w] = "running"
  BY DEF Entry, WriteEntry, DeleteEntry, WriteSettingEntry, DeleteSettingEntry,
     DeleteTagEntry, WriteFulltextEntry, RegisterEntry, AtEntry
<1>2. d \in Database
  BY <1>1, OpenDraft
<1>3. Settings \cap Objects = {} /\ Settings \cap Tags = {}
  BY NamesAssumption
<1> HIDE DEF d
<1>4. CASE WriteEntry(w)
  <2>1. PICK k \in KeysOf(req[w].kind), patch \in PatchesOf(req[w].kind) :
          Rollback(w, "denied") \/ Apply(w, WriteObject(d, k, patch))
    BY <1>4 DEF WriteEntry, d
  <2>2. k \in Objects /\ patch \in Patch
    BY DEF KeysOf, PatchesOf, Patch, Objects
  <2> QED BY <1>2, <2>1, <2>2, WriteObjectDecides DEF d
<1>5. CASE DeleteEntry(w)
  <2>1. PICK k \in KeysOf(req[w].kind) :
          Rollback(w, "denied") \/ Apply(w, DeleteObject(d, k))
    BY <1>5 DEF DeleteEntry, d
  <2>2. k \in Objects
    BY DEF KeysOf, Objects
  <2>3. PICK e : e = DeleteObject(d, k)
    OBVIOUS
  <2>4. /\ e.version = d.version /\ e.setting = d.setting
        /\ \A r \in Buried : e.deletion[r] = IF r = k THEN d.version ELSE d.deletion[r]
    BY <1>2, <2>2, <2>3, DeleteObjectFields
  <2>5. Touched(e)
    BY <2>2, <2>4 DEF Touched, Buried
  <2>6. \A s \in Settings : e.deletion[s] = d.deletion[s] /\ e.setting[s] = d.setting[s]
    BY <1>3, <2>2, <2>4 DEF Buried
  <2> QED BY <2>1, <2>3, <2>5, <2>6 DEF Decides, d
<1>6. CASE WriteSettingEntry(w)
  <2>1. PICK s \in Settings : Apply(w, WriteSetting(d, s)) /\ req[w].op = "write_settings"
    BY <1>6 DEF WriteSettingEntry, AtEntry, d
  <2>2. PICK e : e = WriteSetting(d, s)
    OBVIOUS
  <2>3. /\ e.version = d.version /\ e.setting = [d.setting EXCEPT ![s] = d.version]
        /\ e.deletion = d.deletion
    BY <1>2, <2>2, WriteSettingFields
  <2>4. Touched(e)
    BY <1>2, <2>3 DEF Touched, Database
  <2> QED BY <2>1, <2>2, <2>3, <2>4 DEF Decides, d
<1>7. CASE DeleteSettingEntry(w)
  <2>1. PICK s \in Settings : Apply(w, DeleteSetting(d, s)) /\ req[w].op = "delete_settings"
    BY <1>7 DEF DeleteSettingEntry, AtEntry, d
  <2>2. PICK e : e = DeleteSetting(d, s)
    OBVIOUS
  <2>3. /\ e.version = d.version /\ e.setting = [d.setting EXCEPT ![s] = 0]
        /\ e.deletion = [d.deletion EXCEPT ![s] = d.version]
    BY <1>2, <2>2, DeleteSettingFields
  <2>4. Touched(e)
    BY <1>2, <2>3 DEF Touched, Database, Buried
  <2>5. \A x \in Settings :
          \/ e.deletion[x] = d.deletion[x] /\ e.setting[x] = d.setting[x]
          \/ e.setting[x] = 0
    BY <1>2, <2>3 DEF Database, Buried
  <2> QED BY <2>1, <2>2, <2>4, <2>5 DEF Decides, d
<1>8. CASE DeleteTagEntry(w)
  <2>1. PICK t \in Tags : Apply(w, DeleteTag(d, t))
    BY <1>8 DEF DeleteTagEntry, d
  <2>2. PICK e : e = DeleteTag(d, t)
    OBVIOUS
  <2>3. /\ e.version = d.version /\ e.setting = d.setting
        /\ e.deletion = [d.deletion EXCEPT ![t] = d.version]
    BY <1>2, <2>2, DeleteTagFields
  <2>4. Touched(e)
    BY <1>2, <2>3 DEF Touched, Database, Buried
  <2>5. \A s \in Settings : e.deletion[s] = d.deletion[s] /\ e.setting[s] = d.setting[s]
    BY <1>2, <1>3, <2>3 DEF Database, Buried
  <2> QED BY <2>1, <2>2, <2>4, <2>5 DEF Decides, d
<1>9. CASE WriteFulltextEntry(w)
  <2>1. PICK k \in Items : Apply(w, WriteFulltext(d, k))
    BY <1>9 DEF WriteFulltextEntry, d
  <2>2. PICK e : e = WriteFulltext(d, k)
    OBVIOUS
  <2>3. /\ e.version = d.version /\ e.setting = d.setting /\ e.deletion = d.deletion
        /\ e.fulltext = [d.fulltext EXCEPT ![k] = d.version]
    BY <1>2, <2>2, WriteFulltextFields
  <2>4. Touched(e)
    BY <1>2, <2>3 DEF Touched, Database
  <2> QED BY <2>1, <2>2, <2>3, <2>4 DEF Decides, d
<1>10. CASE RegisterEntry(w)
  <2>1. PICK k \in Items, md5 \in Hashes :
          \/ Rollback(w, "invalid") \/ Rollback(w, "conflict")
          \/ IsStoredFileAttachment(d.object[k]) /\ Apply(w, RegisterFile(d, k, md5))
    BY <1>10 DEF RegisterEntry, d
  <2>2. CASE Rollback(w, "invalid") \/ Rollback(w, "conflict")
    BY <2>2
  <2>3. CASE IsStoredFileAttachment(d.object[k]) /\ Apply(w, RegisterFile(d, k, md5))
    BY <1>2, <2>3, RegisterFileDecides DEF d
  <2> QED BY <2>1, <2>2, <2>3
<1> QED BY <1>4, <1>5, <1>6, <1>7, <1>8, <1>9, <1>10 DEF Entry

(* DInv is an invariant.                                                   *)
LEMMA DecidedInit == Init => DInv
BY InitInvariant DEF Init, DInv

LEMMA DecidedNext == DInv /\ [Next]_vars => DInv'
<1> SUFFICES ASSUME DInv, [Next]_vars PROVE DInv'
  OBVIOUS
<1>1. IInv /\ IInv'
  BY NextInvariant DEF DInv
<1>2. SUFFICES ASSUME NEW v \in Writers, pc'[v] = "running"
      PROVE  DraftDecided(v)'
  BY <1>1 DEF DInv
<1>3. ASSUME pc[v] = "running", db' = db, req'[v] = req[v], draft'[v] = draft[v]
      PROVE  DraftDecided(v)'
  BY <1>3 DEF DInv, DraftDecided
<1>4. ASSUME NEW w \in Writers, Begin(w) \/ NoChange(w)
      PROVE  DraftDecided(v)'
  <2>1. /\ pc'[w] # "running" /\ db' = db /\ draft' = draft
        /\ v # w => pc'[v] = pc[v] /\ req'[v] = req[v]
    BY <1>1, <1>4 DEF Begin, NoChange, Answer, IInv, TypeOK
  <2> QED BY <1>2, <1>3, <2>1
<1>5. ASSUME NEW w \in Writers, NEW status, Rollback(w, status)
      PROVE  DraftDecided(v)'
  <2>1. /\ pc'[w] # "running" /\ db' = db
        /\ v # w => pc'[v] = pc[v] /\ req'[v] = req[v] /\ draft'[v] = draft[v]
    BY <1>1, <1>5 DEF Rollback, Answer, IInv, TypeOK
  <2> QED BY <1>2, <1>3, <2>1
<1>6. ASSUME NEW w \in Writers, Abort(w)
      PROVE  DraftDecided(v)'
  <2>1. CASE Rollback(w, "error")
    BY <1>5, <2>1
  <2>2. CASE Answer(w, "error", 0) /\ UNCHANGED <<db, lock, draft>>
    <3>1. /\ pc'[w] # "running" /\ db' = db /\ draft' = draft
          /\ v # w => pc'[v] = pc[v] /\ req'[v] = req[v]
      BY <1>1, <2>2 DEF Answer, IInv, TypeOK
    <3> QED BY <1>2, <1>3, <3>1
  <2> QED BY <1>6, <2>1, <2>2 DEF Abort
<1>7. ASSUME NEW w \in Writers, GuardedVersion(w)
      PROVE  DraftDecided(v)'
  <2>1. CASE Answer(w, "conflict", db.version) /\ UNCHANGED <<db, lock, draft>>
    <3>1. /\ pc'[w] # "running" /\ db' = db /\ draft' = draft
          /\ v # w => pc'[v] = pc[v] /\ req'[v] = req[v]
      BY <1>1, <2>1 DEF Answer, IInv, TypeOK
    <3> QED BY <1>2, <1>3, <3>1
  <2>2. CASE Reserve(w)
    <3>1. PICK e : e = [db EXCEPT !.version = @ + 1]
      OBVIOUS
    <3>2. e.deletion = db.deletion
      BY <1>1, <3>1 DEF IInv, TypeOK, Database
    <3>3. /\ db' = db /\ req' = req /\ draft'[w] = e
          /\ v # w => pc'[v] = pc[v] /\ draft'[v] = draft[v]
      BY <1>1, <2>2, <3>1 DEF Reserve, IInv, TypeOK
    <3>4. req[w].left # 0
      BY <1>1, <1>7 DEF GuardedVersion, IInv, TypeOK, Requests
    <3>5. CASE v = w
      BY <3>2, <3>3, <3>4, <3>5 DEF DraftDecided
    <3> QED BY <1>2, <1>3, <3>3, <3>5
  <2> QED BY <1>7, <2>1, <2>2 DEF GuardedVersion
<1>8. ASSUME NEW w \in Writers, NEW e, Apply(w, e), pc[w] = "running",
             Decides(req[w].op, draft[w], e)
      PROVE  DraftDecided(v)'
  <2>1. /\ db' = db /\ pc' = pc /\ draft'[w] = e /\ req'[w].op = req[w].op
        /\ v # w => req'[v] = req[v] /\ draft'[v] = draft[v]
    BY <1>1, <1>8 DEF Apply, IInv, TypeOK, Requests
  <2>2. CASE v = w
    <3>1. DraftDecided(w)
      BY <1>8 DEF DInv
    <3>2. Touched(e)
      BY <1>8 DEF Decides
    <3>3. ASSUME NEW s \in Settings, e.deletion[s] # db.deletion[s]
          PROVE  req[w].op = "delete_settings" /\ e.setting[s] = 0
      BY <1>8, <3>1, <3>3 DEF Decides, DraftDecided
    <3> QED BY <2>1, <2>2, <3>2, <3>3 DEF DraftDecided
  <2> QED BY <1>2, <1>3, <2>1, <2>2
<1>9. ASSUME NEW w \in Writers, Entry(w)
      PROVE  DraftDecided(v)'
  <2>1. pc[w] = "running"
    BY <1>9 DEF Entry, WriteEntry, DeleteEntry, WriteSettingEntry, DeleteSettingEntry,
       DeleteTagEntry, WriteFulltextEntry, RegisterEntry, AtEntry
  <2> QED BY <1>1, <1>5, <1>8, <1>9, <2>1, EntryDecides
<1>10. ASSUME NEW w \in Writers, Commit(w)
       PROVE  DraftDecided(v)'
  <2>1. pc[w] = "running" /\ pc'[w] # "running" /\ (v # w => pc'[v] = pc[v])
    BY <1>1, <1>10 DEF Commit, Answer, IInv, TypeOK
  <2>2. lock = w /\ lock = v
    BY <1>1, <1>2, <2>1 DEF IInv, WritersSerialized
  <2> QED BY <1>2, <2>1, <2>2
<1>11. CASE UNCHANGED vars
  BY <1>2, <1>3, <1>11 DEF vars
<1> QED BY <1>4, <1>6, <1>7, <1>9, <1>10, <1>11 DEF Next

(* The stamps a reader of the database d sees of a row.                    *)
LiveOf(d, row) ==
  IF row[1] = "object" THEN IF d.object[row[2]] = None THEN 0 ELSE d.object[row[2]].version
  ELSE IF row[1] = "setting" THEN d.setting[row[2]]
  ELSE IF row[1] = "fulltext" THEN d.fulltext[row[2]] ELSE 0

DeadOf(d, row) == IF row[1] = "fulltext" THEN 0 ELSE d.deletion[row[2]]

(* What the write that took d to e did to a row.                           *)
Fate(d, e, row) ==
  IF LiveOf(e, row) = LiveOf(d, row) /\ DeadOf(e, row) = DeadOf(d, row) THEN "keep"
  ELSE IF LiveOf(e, row) = 0 THEN "remove" ELSE "upsert"

(* LiveOf reads the committed rows as the mapping of Promise does.         *)
LEMMA LiveStampOf == \A row \in StoredRows : LiveStamp(row) = LiveOf(db, row)
<1> SUFFICES ASSUME NEW row \in StoredRows PROVE LiveStamp(row) = LiveOf(db, row)
  OBVIOUS
<1>1. row[1] \in {"object", "setting", "tag", "fulltext"}
  BY DEF StoredRows
<1>2. CASE row[1] = "object"
  BY <1>2, Zenon DEF LiveStamp, LiveOf
<1>3. CASE row[1] = "setting"
  BY <1>3 DEF LiveStamp, LiveOf
<1>4. CASE row[1] = "tag"
  BY <1>4 DEF LiveStamp, LiveOf
<1>5. CASE row[1] = "fulltext"
  BY <1>5 DEF LiveStamp, LiveOf
<1> QED BY <1>1, <1>2, <1>3, <1>4, <1>5

(* The stamps a write leaves are those VersionedStore's Commit gives.      *)
LEMMA FateOfRow ==
  ASSUME NEW d \in Database, NEW e \in Database, Consistent(d), Consistent(e), Stamped(d, e),
         \A s \in Settings : e.deletion[s] # d.deletion[s] => e.setting[s] = 0,
         NEW row \in StoredRows
  PROVE  /\ Fate(d, e, row) = "upsert" =>
              /\ LiveOf(e, row) = d.version + 1
              /\ DeadOf(e, row) = IF row \in {"object"} \X Objects THEN 0 ELSE DeadOf(d, row)
         /\ Fate(d, e, row) = "remove" => LiveOf(e, row) = 0 /\ DeadOf(e, row) = d.version + 1
<1>1. e.version = d.version + 1 /\ d.version \in Nat
  BY DEF Stamped, Database
<1>2. CASE row \in {"object"} \X Objects
  <2>1. PICK k \in Objects : row = <<"object", k>>
    BY <1>2
  <2>2. k \in Buried
    BY DEF Buried
  <2>3. /\ DeadOf(e, row) = e.deletion[k] /\ DeadOf(d, row) = d.deletion[k]
        /\ LiveOf(e, row) = IF e.object[k] = None THEN 0 ELSE e.object[k].version
        /\ LiveOf(d, row) = IF d.object[k] = None THEN 0 ELSE d.object[k].version
    BY <2>1 DEF DeadOf, LiveOf
  <2>4. /\ e.object[k] # None => e.deletion[k] = 0 /\ 0 < e.object[k].version
        /\ d.object[k] # None => d.deletion[k] = 0
    BY DEF Consistent, NoLiveTombstone, StampsBounded
  <2>5. /\ e.object[k] # d.object[k] =>
             IF e.object[k] = None THEN e.deletion[k] = e.version
             ELSE e.object[k].version = e.version
        /\ e.deletion[k] # d.deletion[k] => e.deletion[k] = e.version \/ e.object[k] # None
    BY <2>2 DEF Stamped
  <2>6. CASE e.object[k] = None
    BY <1>1, <2>3, <2>4, <2>5, <2>6 DEF Fate
  <2>7. CASE e.object[k] # None
    <3>1. e.object[k].version \in Nat
      BY <2>7 DEF Database, Object
    <3> QED BY <1>1, <1>2, <2>3, <2>4, <2>5, <2>7, <3>1 DEF Fate
  <2> QED BY <2>6, <2>7
<1>3. CASE row \in {"setting"} \X Settings
  <2>1. PICK s \in Settings : row = <<"setting", s>>
    BY <1>3
  <2>2. /\ DeadOf(e, row) = e.deletion[s] /\ DeadOf(d, row) = d.deletion[s]
        /\ LiveOf(e, row) = e.setting[s] /\ LiveOf(d, row) = d.setting[s]
        /\ row \notin {"object"} \X Objects
    BY <2>1 DEF DeadOf, LiveOf
  <2>3. /\ e.setting[s] # d.setting[s] =>
             IF e.setting[s] = 0 THEN e.deletion[s] = e.version ELSE e.setting[s] = e.version
        /\ e.deletion[s] # d.deletion[s] => e.setting[s] = 0
        /\ e.deletion[s] # d.deletion[s] => e.deletion[s] = e.version
    BY NamesAssumption DEF Stamped, Buried
  <2> QED BY <1>1, <2>2, <2>3 DEF Fate
<1>4. CASE row \in {"tag"} \X Tags
  <2>1. PICK t \in Tags : row = <<"tag", t>>
    BY <1>4
  <2>2. /\ DeadOf(e, row) = e.deletion[t] /\ DeadOf(d, row) = d.deletion[t]
        /\ LiveOf(e, row) = 0 /\ LiveOf(d, row) = 0
    BY <2>1 DEF DeadOf, LiveOf
  <2>3. e.deletion[t] # d.deletion[t] => e.deletion[t] = e.version
    BY NamesAssumption DEF Stamped, Buried
  <2> QED BY <1>1, <2>2, <2>3 DEF Fate
<1>5. CASE row \in {"fulltext"} \X Items
  <2>1. PICK k \in Items : row = <<"fulltext", k>>
    BY <1>5
  <2>2. /\ DeadOf(e, row) = 0 /\ DeadOf(d, row) = 0
        /\ LiveOf(e, row) = e.fulltext[k] /\ LiveOf(d, row) = d.fulltext[k]
        /\ row \notin {"object"} \X Objects
    BY <2>1 DEF DeadOf, LiveOf
  <2>3. e.fulltext[k] # d.fulltext[k] => e.fulltext[k] = e.version
    BY DEF Stamped
  <2> QED BY <1>1, <2>2, <2>3 DEF Fate
<1> QED BY <1>2, <1>3, <1>4, <1>5 DEF StoredRows
(* A commit is one step of VersionedStore, and every other step is none.    *)
LEMMA CommitImplements ==
  ASSUME DInv, NEW w \in Writers, Commit(w)
  PROVE  Promise!Next
<1>1. /\ db \in Database /\ db' \in Database /\ db' = draft[w]
      /\ Consistent(db) /\ Consistent(db') /\ Stamped(db, db')
      /\ DraftDecided(w) /\ req[w].left = 0
  BY OpenDraft DEF DInv, Commit
<1>2. /\ Touched(db')
      /\ \A s \in Settings : db'.deletion[s] # db.deletion[s] => db'.setting[s] = 0
  BY <1>1 DEF DraftDecided
<1>3. \A row \in StoredRows :
        /\ Fate(db, db', row) \in {"keep", "upsert", "remove"}
        /\ Fate(db, db', row) = "keep" =>
             LiveOf(db', row) = LiveOf(db, row) /\ DeadOf(db', row) = DeadOf(db, row)
        /\ Fate(db, db', row) = "upsert" =>
             /\ LiveOf(db', row) = db.version + 1
             /\ DeadOf(db', row) = IF row \in {"object"} \X Objects THEN 0 ELSE DeadOf(db, row)
        /\ Fate(db, db', row) = "remove" =>
             LiveOf(db', row) = 0 /\ DeadOf(db', row) = db.version + 1
  <2>1. ASSUME NEW row \in StoredRows, Fate(db, db', row) = "keep"
        PROVE  LiveOf(db', row) = LiveOf(db, row) /\ DeadOf(db', row) = DeadOf(db, row)
    BY <2>1 DEF Fate
  <2> QED BY <1>1, <1>2, <2>1, FateOfRow DEF Fate
<1>4. \E row \in StoredRows : Fate(db, db', row) # "keep"
  <2>1. db'.version = db.version + 1 /\ db.version \in Nat
    BY <1>1 DEF Stamped, Database
  <2>2. CASE \E k \in Objects : db'.object[k] # None /\ db'.object[k].version = db'.version
    <3>1. PICK k \in Objects : db'.object[k] # None /\ db'.object[k].version = db'.version
      BY <2>2
    <3>2. db.object[k] # None => db.object[k].version <= db.version
      BY <1>1 DEF Consistent, StampsBounded
    <3>3. db.object[k] # None => db.object[k].version \in Nat
      BY <1>1 DEF Database, Object
    <3>4. LiveOf(db', <<"object", k>>) # LiveOf(db, <<"object", k>>)
      BY <2>1, <3>1, <3>2, <3>3 DEF LiveOf
    <3> QED BY <3>4 DEF Fate, StoredRows
  <2>3. CASE \E s \in Settings : db'.setting[s] = db'.version
    <3>1. PICK s \in Settings : db'.setting[s] = db'.version
      BY <2>3
    <3>2. db.setting[s] <= db.version
      BY <1>1 DEF Consistent, StampsBounded
    <3>3. LiveOf(db', <<"setting", s>>) # LiveOf(db, <<"setting", s>>)
      BY <2>1, <3>1, <3>2 DEF LiveOf
    <3> QED BY <3>3 DEF Fate, StoredRows
  <2>4. CASE \E k \in Items : db'.fulltext[k] = db'.version
    <3>1. PICK k \in Items : db'.fulltext[k] = db'.version
      BY <2>4
    <3>2. db.fulltext[k] <= db.version
      BY <1>1 DEF Consistent, StampsBounded
    <3>3. LiveOf(db', <<"fulltext", k>>) # LiveOf(db, <<"fulltext", k>>)
      BY <2>1, <3>1, <3>2 DEF LiveOf
    <3> QED BY <3>3 DEF Fate, StoredRows
  <2>5. CASE \E r \in Buried : db'.deletion[r] = db'.version
    <3>1. PICK r \in Buried : db'.deletion[r] = db'.version
      BY <2>5
    <3>2. db.deletion[r] <= db.version
      BY <1>1 DEF Consistent, StampsBounded
    <3>3. PICK kind \in {"object", "setting", "tag"} : <<kind, r>> \in StoredRows
      BY DEF Buried, StoredRows
    <3>4. DeadOf(db', <<kind, r>>) # DeadOf(db, <<kind, r>>)
      BY <2>1, <3>1, <3>2 DEF DeadOf
    <3> QED BY <3>3, <3>4 DEF Fate
  <2> QED BY <1>2, <2>2, <2>3, <2>4, <2>5 DEF Touched
<1>5. PICK fate : fate = [row \in StoredRows |-> Fate(db, db', row)]
  OBVIOUS
<1>6. /\ fate \in [StoredRows -> Promise!Fates] /\ db'.version = db.version + 1
      /\ \A row \in StoredRows : fate[row] = Fate(db, db', row)
  BY <1>1, <1>3, <1>5 DEF Promise!Fates, Stamped
<1>7. \A row \in StoredRows :
        LiveStamp(row) = LiveOf(db, row) /\ LiveStamp(row)' = LiveOf(db', row)
  <2>1. (\A row \in StoredRows : LiveStamp(row) = LiveOf(db, row))'
    BY LiveStampOf, PTL
  <2>2. \A row \in StoredRows : LiveStamp(row)' = LiveOf(db', row)
    BY <2>1
  <2> QED BY <2>2, LiveStampOf
<1>8. \A row \in StoredRows :
        LiveStamp(row)' = CASE fate[row] = "keep"   -> LiveStamp(row)
                            [] fate[row] = "upsert" -> db.version + 1
                            [] fate[row] = "remove" -> 0
  BY <1>3, <1>6, <1>7
<1>9. \A row \in StoredRows :
        DeadOf(db', row) = CASE fate[row] = "remove" -> db.version + 1
                             [] fate[row] = "upsert" /\ row \in {"object"} \X Objects -> 0
                             [] OTHER -> DeadOf(db, row)
  BY <1>3, <1>6
<1>10. Promise!Commit(fate)
  <2>1. \E row \in StoredRows : fate[row] # "keep"
    BY <1>4, <1>6
  <2>2. [row \in StoredRows |-> LiveStamp(row)]' =
          [row \in StoredRows |->
             CASE fate[row] = "keep"   -> [r \in StoredRows |-> LiveStamp(r)][row]
               [] fate[row] = "upsert" -> db.version + 1
               [] fate[row] = "remove" -> 0]
    BY <1>8
  <2>3. [row \in StoredRows |-> DeadOf(db, row)]' =
          [row \in StoredRows |->
             CASE fate[row] = "remove" -> db.version + 1
               [] fate[row] = "upsert" /\ row \in {"object"} \X Objects -> 0
               [] OTHER -> [r \in StoredRows |-> DeadOf(db, r)][row]]
    BY <1>9
  <2> QED BY <1>6, <2>1, <2>2, <2>3 DEF Promise!Commit, DeadOf
<1> QED BY <1>6, <1>10 DEF Promise!Next

(* Batches, refusals, failures and lost answers, seen from outside, are    *)
(* atomic versioned writes: no batch is half visible, a refused one leaves *)
(* no trace, and each row a write touched carries its version.             *)
THEOREM Implements == Spec => ImplementsVersionedStore
<1>1. Init => Promise!Init
  BY LiveStampOf DEF Init, EmptyDatabase, Promise!Init, LiveOf, StoredRows, Buried
<1>2. DInv /\ [Next]_vars => [Promise!Next]_(Promise!storeVars)
  <2> SUFFICES ASSUME DInv, [Next]_vars, db' = db PROVE UNCHANGED Promise!storeVars
    BY OnlyCommitChangesRows, CommitImplements DEF DInv
  <2> QED BY DEF Promise!storeVars, LiveStamp
<1>3. Spec => []DInv
  BY DecidedInit, DecidedNext, PTL DEF Spec
<1> QED BY <1>1, <1>2, <1>3, PTL DEF Spec, ImplementsVersionedStore, Promise!Spec
=============================================================================
