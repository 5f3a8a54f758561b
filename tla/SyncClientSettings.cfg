\* One client against any three writes of others, and its own.
CONSTANTS
  c1 = c1
  i1 = i1
  s1 = s1
  Rows <- MCRows
  Settings <- MCSettings
  Listings <- MCListings
  MaxVersion = 3
  MaxFailures = 1
SPECIFICATION Spec
INVARIANT
  NoSettingMissed
