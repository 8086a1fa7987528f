SPECIFICATION Spec
CONSTANTS
  ZoneCount = 4
  ZoneSectors = 4
  MaxOpenZones = 2
  Data <- MCData
  Zero = Zero
  CloseFullFails = FALSE
  SectorsPerSeg = 2
  OffsetBits = 4
  ZoneIDBits = 4
  Clients = {c1}
  Flushers = {}
  Collectors = {}
  MaxCycles = 0
  EmergencyFreeZones = 0
  Requests <- PartSegment
  Kinds = {"write"}
  MaxCmds = 3
  NoOne = NoOne
INVARIANT SettledReads
CHECK_DEADLOCK FALSE
