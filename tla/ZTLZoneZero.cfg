SPECIFICATION Spec
CONSTANTS
  ZoneCount = 2
  ZoneSectors = 2
  MaxOpenZones = 2
  Data <- MCData
  Zero = Zero
  CloseFullFails = FALSE
  SectorsPerSeg = 1
  OffsetBits = 4
  ZoneIDBits = 4
  Clients = {c1}
  Flushers = {}
  Collectors = {}
  MaxCycles = 0
  EmergencyFreeZones = 0
  Requests <- WholeSegments
  Kinds = {"write"}
  MaxCmds = 4
  NoOne = NoOne
INVARIANT AckedReads
CHECK_DEADLOCK FALSE
