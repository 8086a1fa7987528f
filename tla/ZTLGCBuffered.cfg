SPECIFICATION Spec
CONSTANTS
  ZoneCount = 6
  ZoneSectors = 2
  MaxOpenZones = 2
  Data <- MCData
  Zero = Zero
  CloseFullFails = FALSE
  SectorsPerSeg = 1
  OffsetBits = 4
  ZoneIDBits = 4
  Clients = {c1}
  Flushers = {}
  Collectors = {g1}
  MaxCycles = 2
  EmergencyFreeZones = 0
  Requests <- ThreeZones
  Kinds = {"write"}
  MaxCmds = 3
  NoOne = NoOne
INVARIANT MigratesLiveData
CHECK_DEADLOCK FALSE
