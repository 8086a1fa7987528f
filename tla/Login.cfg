SPECIFICATION Spec
CONSTANTS
  MinKeys = {MaxRecvDataSegmentLength, MaxBurstLength}
  MaxKeys = {DefaultTime2Wait}
  RecvKey = MaxRecvDataSegmentLength
  Values = {1, 2, 3}
  TargetParams <- MCTargetParams
  Defaults <- MCDefaults
  MaxRead = 5
  SNBits = 2
INVARIANTS ParamsAgree StagesAgree DataInFits
PROPERTY LoginEnds
CHECK_DEADLOCK FALSE
