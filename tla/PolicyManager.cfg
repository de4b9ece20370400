SPECIFICATION Spec
CONSTANTS
  MaxTime = 3
  MaxEdits = 3
  OldMtimes = TRUE
PROPERTY NoticedEditsTakeEffect
CHECK_DEADLOCK FALSE
