\* Two sessions, two requests at once, two users and two identities.
CONSTANTS
  Sessions = {s1, s2}
  Handlers = {h1, h2}
  Users = {u1, u2}
  Identities = {i1, i2}
  NoUser = NoUser
  None = None
  MaxChanges = 2
SPECIFICATION Spec
SYMMETRY Symmetric
INVARIANTS TypeOK OneKeyPerSession
PROPERTIES MintsForCurrentUser ImplementsLoginGrant
CHECK_DEADLOCK FALSE
