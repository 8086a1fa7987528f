SPECIFICATION RSpec
CONSTANTS
  ZoneCount = 6
  ZoneSectors = 2
  MaxOpenZones = 2
  Data <- MCData
  Zero = Zero
  CloseFullFails = FALSE
  SectorsPerSeg = 1
  OffsetBits = 4
  ZoneIDBits = 4
  Clients = {c1}
  Flushers = {}
  Collectors = {}
  MaxCycles = 2
  EmergencyFreeZones = 4
  Requests <- TwoPairs
  Kinds = {"write", "unmap", "flush"}
  MaxCmds = 5
  NoOne = NoOne
  MaxRestarts = 1
INVARIANTS SettledSurvives ReplayMatches PointersAgree TablesAfterCrash
CHECK_DEADLOCK FALSE
