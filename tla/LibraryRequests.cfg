\* Three requests and two permits beside a listing of three items.
CONSTANTS
  owner = owner
  member = member
  k1 = k1
  k2 = k2
  lib1 = lib1
  lib2 = lib2
  rec = rec
  absent = absent
  groupLib = groupLib
  nokey = nokey
  r1 = r1
  r2 = r2
  r3 = r3
  Users <- MCUsers
  Keys <- MCKeys
  PersonalLibraries <- MCPersonalLibraries
  GroupLibrary = groupLib
  Recovery = rec
  BootstrapUser = owner
  RecoveryFlags <- MCRecoveryFlags
  Absent = absent
  NoKey = nokey
  Requests <- MCRequests
  Asks <- MCAsks
  Tables <- MCTables
  Permits = 2
  ItemKeys = {1, 2, 3}
  Types <- MCTypes
  Tags <- MCTags
  Collections <- MCCollections
  Terms <- MCTerms
  DefaultLimit = 2
  MaxLimit = 2
  None = None
  Contents <- MCContents
  InitialItems <- MCInitialItems
  Queries <- MCQueries
SPECIFICATION FairSpecAll
INVARIANTS DecodersBounded WalkExact
PROPERTIES OnlyClientsStall WalkEnds
\* a behaviour ends when every request has
CHECK_DEADLOCK FALSE
