SPECIFICATION Spec
CONSTANTS
  Requests = {r1, r2}
  Identities <- MCIdentities
  ProfileNames <- MCProfileNames
  Keys <- MCKeys
  Names <- MCNames
  Profiles <- MCProfiles
  Policies <- MCPolicies
  Inputs <- AllInputs
  FailureMode = "fail_closed"
  AuditEnabled = TRUE
  Driver = "file"
  Faults = {"audit", "store", "ca", "disconnect", "restart"}
  Lifetime = 2
  MaxTime = 1
  ConfiguredPerIdentity = 2
  ConfiguredPerIdentityProfile = 2
  Hour = 5
  NoRequest = NoRequest
  NoProfile = NoProfile
  NoInput = NoInput
  NoCert = NoCert
  NoResult = NoResult
SYMMETRY Permutable
INVARIANTS IInv OrdersAreAudited ServedAreAudited ServedMatchesRequest ServedStaysCached
PROPERTIES NoNeedlessOrder CacheNeverRegresses
CHECK_DEADLOCK FALSE
