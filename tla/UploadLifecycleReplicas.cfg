\* Two replicas of the service, each with a handler and a cleanup pass, share
\* one upload; three failures.
CONSTANTS
  Items = {k1}
  Uploads = {u1}
  Hashes = {m1, m2}
  Handlers = {h1, h2}
  Collectors = {g1, g2}
  Replicas = {{h1, g1}, {h2, g2}}
  None = None
  Limit = 1
  MaxFaults = 3
SPECIFICATION FairSpec
INVARIANTS
  RegisteredStored
PROPERTIES
  RegistersOnce
  DiscardedCollected
  ExpiredCollected
