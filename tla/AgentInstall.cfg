SPECIFICATION Spec
CONSTANTS
  Procs = {p1}
  NServices = 1
  Keys = {k1, k2}
  Commands = {"enroll", "run"}
  Faults = {"write", "reload"}
  Lifetime = 1
  IdRenewBefore = 0
  RenewBefore = 0
  MaxTime = 0
  NoKey = NoKey
  NoCert = NoCert
INVARIANT SuccessCompletesInstall
CHECK_DEADLOCK FALSE
