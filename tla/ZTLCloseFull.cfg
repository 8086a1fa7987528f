SPECIFICATION Spec
CONSTANTS
  ZoneCount = 6
  ZoneSectors = 2
  MaxOpenZones = 2
  Data <- MCData
  Zero = Zero
  CloseFullFails = TRUE
  SectorsPerSeg = 1
  OffsetBits = 4
  ZoneIDBits = 4
  Clients = {c1}
  Flushers = {}
  Collectors = {}
  MaxCycles = 0
  EmergencyFreeZones = 0
  Requests <- TwoPairs
  Kinds = {"write"}
  MaxCmds = 3
  NoOne = NoOne
INVARIANT FreeZoneAllocatable
CHECK_DEADLOCK FALSE
