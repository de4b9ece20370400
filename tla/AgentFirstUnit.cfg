SPECIFICATION TimerSpec
CONSTANTS
  Procs = {p1}
  NServices = 1
  Keys = {k1, k2}
  Commands = {"enroll", "unit"}
  Faults = {}
  Lifetime = 1
  IdRenewBefore = 0
  RenewBefore = 0
  MaxTime = 0
  NoKey = NoKey
  NoCert = NoCert
PROPERTY UnitWritesServiceKey
CHECK_DEADLOCK FALSE
