SPECIFICATION FairSpec
CONSTANTS
  Procs = {"serve", "other"}
  Recorders = {"h1", "h2", "x"}
  Tailers = {"x"}
  Main <- MCMain
  ProcOf <- MCProcOf
  NMigrations = 2
  MaxEvents = 2
  MaxTime = 1
  MaxOutages = 1
  Limits = {0, 1}
  DefaultLimit = 1
  Faults = {"disk", "cancel", "kill", "power"}
  NoEvent = NoEvent
INVARIANTS SchemaIsWhole BusyComesFromOutside AckedIsStored TornSpoilsOne TailIsRecent
PROPERTIES EveryCallEnds
