\* Three transactions of any kind at once.
CONSTANTS
  t1 = t1
  t2 = t2
  t3 = t3
  Transactions <- MCThree
  Users <- MCUsers
  Personal <- MCPersonal
  GroupLibrary = 12
  GroupOwner = 1
  BootstrapUser = 1
SPECIFICATION Spec
SYMMETRY Symmetric
INVARIANTS TypeOK DeadlocksOnlyAtStart
\* a behaviour ends when every transaction has
CHECK_DEADLOCK FALSE
