\* Two uploads to one item, two handlers, two cleanup passes, two failures.
CONSTANTS
  Items = {k1}
  Uploads = {u1, u2}
  Hashes = {m1, m2}
  Handlers = {h1, h2}
  Collectors = {g1, g2}
  Replicas = {{h1, h2, g1, g2}}
  None = None
  Limit = 2
  MaxFaults = 2
SPECIFICATION Spec
SYMMETRY Symmetric
INVARIANTS
  TypeOK
  RegisteredStored
  UploadedOnce
  CandidatesTracked
PROPERTIES
  ImplementsAttachmentFiles
