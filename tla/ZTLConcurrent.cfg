SPECIFICATION Spec
CONSTANTS
  ZoneCount = 4
  ZoneSectors = 2
  MaxOpenZones = 1
  Data <- MCData
  Zero = Zero
  CloseFullFails = FALSE
  SectorsPerSeg = 1
  OffsetBits = 4
  ZoneIDBits = 4
  Clients = {c1}
  Flushers = {f1}
  Collectors = {g1}
  MaxCycles = 1
  EmergencyFreeZones = 0
  Requests <- OneSegment
  Kinds = {"write", "flush"}
  MaxCmds = 3
  NoOne = NoOne
PROPERTIES LoggedBeforeApplied ResetJournaled
CHECK_DEADLOCK FALSE
