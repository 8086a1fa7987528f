SPECIFICATION FairSpec
CONSTANTS
  Writers = {w1, w2}
  Loggers = {g1}
  Committers = {k1}
  Segs = {s1, s2}
  MaxUpdates = 2
  MaxZoneRecords = 0
  MaxCrashes = 1
  PowerLoss = TRUE
  QuietCheckpoints = TRUE
  NoOne = NoOne
INVARIANT AckedRecovered
CHECK_DEADLOCK FALSE
