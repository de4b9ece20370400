SPECIFICATION Spec
CONSTANTS
  Identities = {i1, i2}
  ProfileNames = {p1, p2}
  ConfiguredPerIdentity = 2
  ConfiguredPerIdentityProfile = 1
  Hour = 2
  MaxTime = 5
  MaxCalls = 5
  Calls = {1, 2, 3, 4, 5}
INVARIANTS IdentityWindowBound ProfileWindowBound
PROPERTY RejectsOnlyWhenFull
CHECK_DEADLOCK FALSE
