SPECIFICATION Spec
CONSTANTS
  MaxTime = 3
  MaxEdits = 2
  OldMtimes = FALSE
PROPERTY EveryEditTakesEffect
CHECK_DEADLOCK FALSE
