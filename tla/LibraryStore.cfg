\* Two concurrent writers, one row of each sort, three writes deep.
CONSTANTS
  Writers = {w1, w2}
  Items = {i1}
  Others = {c1}
  Settings = {s1}
  Tags = {t1}
  Hashes = {h1}
  None = None
  Omitted = Omitted
  MaxBatch = 2
  MaxVersion = 3
SPECIFICATION Spec
SYMMETRY Symmetric
INVARIANTS
  TypeOK
  IInv
  CommittedStampsBounded
  CommittedNoLiveTombstone
  CommittedFilesBelong
  WritersSerialized
  DistinctVersions
PROPERTIES
  ChangesAreStamped
  GuardedCommit
  FileAccessRespected
