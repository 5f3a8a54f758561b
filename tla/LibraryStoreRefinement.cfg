\* Liveness is checked in the same run, so writers are not symmetric.
CONSTANTS
  Writers = {w1, w2}
  Items = {i1}
  Others = {c1, c2}
  Settings = {s1}
  Tags = {t1}
  Hashes = {h1}
  None = None
  Omitted = Omitted
  MaxBatch = 2
  MaxVersion = 2
SPECIFICATION FairSpec
PROPERTIES
  ImplementsVersionedStore
  EveryRequestAnswered
