SPECIFICATION ISpec
CONSTANTS
  Conns = {k1}
  NoConn = NoConn
  MaxSessions = 1
  TSIHBits = 2
  Tags = {t1}
  NoCmd = NoCmd
  NoBuf = NoBuf
  Zero = Zero
  SNBits = 2
  MaxLen = 2
  MaxCmds = 2
  MaxLogins = 3
INVARIANT StatusInStep
CHECK_DEADLOCK FALSE
