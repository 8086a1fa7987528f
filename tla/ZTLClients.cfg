SPECIFICATION FairSpec
CONSTANTS
  ZoneCount = 5
  ZoneSectors = 2
  MaxOpenZones = 2
  Data <- MCData
  Zero = Zero
  CloseFullFails = FALSE
  SectorsPerSeg = 1
  OffsetBits = 4
  ZoneIDBits = 4
  Clients = {c1, c2}
  Flushers = {}
  Collectors = {}
  MaxCycles = 0
  EmergencyFreeZones = 0
  Requests <- OverlappingAndBeyond
  Kinds = {"write", "unmap"}
  MaxCmds = 3
  NoOne = NoOne
INVARIANTS SettledReads TablesAgree PointersAgree ZonesAgree FlushInOrder
PROPERTIES CommandsEnd ImplementsBlockDevice
CHECK_DEADLOCK FALSE
