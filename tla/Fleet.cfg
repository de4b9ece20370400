SPECIFICATION FairFleetSpec
CONSTANTS
  Requests = {1, 2, 3}
  Identities <- MCIdentities
  ProfileNames <- MCProfileNames
  Keys <- MCKeys
  Names <- MCNames
  Profiles <- MCProfiles
  Policies <- MCPolicies
  Inputs <- MCInputs
  Agents <- MCAgents
  Configs <- MCConfigs
  FailureMode = "fail_open"
  AuditEnabled = FALSE
  Driver = "sqlite"
  Faults = {"disconnect"}
  Lifetime = 2
  Window <- MCWindow
  MaxTime = 1
  ConfiguredPerIdentity = 2
  ConfiguredPerIdentityProfile = 2
  Hour = 2
  NoRequest = NoRequest
  NoProfile = NoProfile
  NoInput = NoInput
  NoCert = NoCert
  NoResult = NoResult
INVARIANTS FleetInv AgentAccepts AnswerIsNewer LostOnlyByDisconnect OneOrderPerKey OrdersWithinLimit
PROPERTIES EveryRequestEnds
CHECK_DEADLOCK FALSE
