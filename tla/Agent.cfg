SPECIFICATION Spec
CONSTANTS
  Procs = {p1, p2}
  NServices = 1
  Keys = {k1, k2, k3}
  Commands = {"enroll", "run", "check", "unit"}
  Faults = {"ca", "broker", "write", "unlink", "reload", "hang", "kill"}
  Lifetime = 1
  IdRenewBefore = 0
  RenewBefore = 0
  MaxTime = 2
  NoKey = NoKey
  NoCert = NoCert
SYMMETRY Permutable
INVARIANTS IInv MutualExclusion KeysMatch NoFalseMismatch TokenOrIdentity
CHECK_DEADLOCK FALSE
