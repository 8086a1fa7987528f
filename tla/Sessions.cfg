SPECIFICATION Spec
CONSTANTS
  Conns = {k1, k2, k3}
  NoConn = NoConn
  MaxSessions = 2
  TSIHBits = 3
  Tags = {t1}
  NoCmd = NoCmd
  NoBuf = NoBuf
  Zero = Zero
  SNBits = 1
  MaxLen = 1
  MaxCmds = 1
  MaxLogins = 4
INVARIANT SessionsExact
CHECK_DEADLOCK FALSE
