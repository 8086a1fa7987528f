SPECIFICATION Spec
CONSTANTS
  Conns = {k1, k2}
  NoConn = NoConn
  MaxSessions = 2
  TSIHBits = 2
  Tags = {t1}
  NoCmd = NoCmd
  NoBuf = NoBuf
  Zero = Zero
  SNBits = 1
  MaxLen = 1
  MaxCmds = 0
  MaxLogins = 5
INVARIANT SessionsExact
CHECK_DEADLOCK FALSE
