\* Two replicas of the service, and one upload.
CONSTANTS
  Items = {k1}
  Uploads = {u1}
  Hashes = {m1}
  Handlers = {h1, h2}
  Collectors = {g1}
  Replicas = {{h1, g1}, {h2}}
  None = None
  Limit = 2
  MaxFaults = 2
SPECIFICATION Spec
INVARIANT
  CandidatesTracked
