CONSTANTS
  owner = owner
  member = member
  k1 = k1
  k2 = k2
  lib1 = lib1
  lib2 = lib2
  rec = rec
  absent = absent
  nokey = nokey
  r1 = r1
  groupLib = groupLib
  Users <- MCUsers
  Keys <- MCKeys
  PersonalLibraries <- MCPersonalLibraries
  GroupLibrary = groupLib
  Recovery = rec
  BootstrapUser = owner
  RecoveryFlags <- MCRecoveryFlags
  Absent = absent
  NoKey = nokey
  Registrations <- MCRegistrations
  InitialTables <- MCInitialTables
  MaxChanges = 2
SPECIFICATION Spec
INVARIANTS TypeOK AuthorityHeld DeniedForCause RulesAgree
\* a registration ends
CHECK_DEADLOCK FALSE
