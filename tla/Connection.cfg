SPECIFICATION Spec
CONSTANTS
  Conns = {k1, k2}
  NoConn = NoConn
  MaxSessions = 1
  TSIHBits = 2
  Tags = {t1, t2}
  NoCmd = NoCmd
  NoBuf = NoBuf
  Zero = Zero
  SNBits = 1
  MaxLen = 2
  MaxCmds = 2
  MaxLogins = 3
INVARIANTS TypeOK SolicitedWhole GoodMeansStored NumbersSent SessionsExact
PROPERTY Answered
CHECK_DEADLOCK FALSE
