SPECIFICATION Spec
CONSTANTS
  ZoneCount = 6
  ZoneSectors = 2
  MaxOpenZones = 2
  Data <- MCData
  Zero = Zero
  CloseFullFails = FALSE
  SectorsPerSeg = 1
  OffsetBits = 4
  ZoneIDBits = 4
  Clients = {c1}
  Flushers = {f1}
  Collectors = {}
  MaxCycles = 0
  EmergencyFreeZones = 0
  Requests <- WholeSegments
  Kinds = {"write"}
  MaxCmds = 3
  NoOne = NoOne
INVARIANT FlushInOrder
CHECK_DEADLOCK FALSE
