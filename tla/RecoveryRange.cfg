SPECIFICATION RSpec
CONSTANTS
  ZoneCount = 4
  ZoneSectors = 2
  MaxOpenZones = 2
  Data <- MCData
  Zero = Zero
  CloseFullFails = FALSE
  SectorsPerSeg = 1
  OffsetBits = 4
  ZoneIDBits = 4
  Clients = {c1}
  Flushers = {}
  Collectors = {}
  MaxCycles = 0
  EmergencyFreeZones = 0
  Requests <- TableEnd
  Kinds = {"write", "flush"}
  MaxCmds = 3
  NoOne = NoOne
  MaxRestarts = 1
INVARIANT SettledSurvives
CHECK_DEADLOCK FALSE
