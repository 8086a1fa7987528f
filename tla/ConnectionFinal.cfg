SPECIFICATION Spec
CONSTANTS
  Conns = {k1}
  NoConn = NoConn
  MaxSessions = 1
  TSIHBits = 2
  Tags = {t1}
  NoCmd = NoCmd
  NoBuf = NoBuf
  Zero = Zero
  SNBits = 1
  MaxLen = 2
  MaxCmds = 2
  MaxLogins = 3
INVARIANT WholeData
CHECK_DEADLOCK FALSE
