SPECIFICATION Spec
CONSTANTS
  Calls = {c1, c2, c3}
  NoFile = NoFile
INVARIANT NoLitter
PROPERTY AtomicAndDurable
CHECK_DEADLOCK FALSE
