SPECIFICATION FairSpec
CONSTANTS
  Procs = {p1, p2}
  NServices = 2
  Keys = {k1, k2, k3, k4}
  Commands = {"enroll", "run"}
  Faults = {"reload", "broker", "bundle"}
  Lifetime = 1
  IdRenewBefore = 0
  RenewBefore = 0
  MaxTime = 0
  NoKey = NoKey
  NoCert = NoCert
INVARIANTS SuccessServesAll KeysMatch
PROPERTY LockIsReleased
CHECK_DEADLOCK FALSE
