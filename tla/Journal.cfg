SPECIFICATION FairSpec
CONSTANTS
  Writers = {w1, w2}
  Loggers = {g1}
  Committers = {k1}
  Segs = {s1, s2}
  MaxUpdates = 2
  MaxZoneRecords = 2
  MaxCrashes = 1
  PowerLoss = FALSE
  QuietCheckpoints = TRUE
  NoOne = NoOne
INVARIANTS TypeOK AckedRecovered LSNsUnique LogReplaysTable
PROPERTY PendingSettles
CHECK_DEADLOCK FALSE
