------------------------------ MODULE Session ------------------------------
(***************************************************************************)
(* internal/iscsi/session.go: the table of sessions that all connection    *)
(* goroutines share.  A session holds one connection here, since the       *)
(* target negotiates MaxConnections down to 1, so the table maps a TSIH to *)
(* the connection it was created for.  Every method holds m.mu.            *)
(***************************************************************************)
EXTENDS Integers, FiniteSets

CONSTANTS
  Conns,        \* the TCP connections initiators use
  NoConn,       \* no entry under this TSIH
  MaxSessions,  \* config Target.MaxSessions
  TSIHBits      \* width of a TSIH, 16 in the code

ASSUME SessionAssumption ==
  /\ MaxSessions \in Nat \ {0}
  /\ TSIHBits \in Nat \ {0} /\ 2^TSIHBits > 1
  /\ NoConn \notin Conns

VARIABLES
  sessions,   \* m.sessions
  nextTSIH    \* m.nextTSIH, of which only the low bits matter

sessVars == <<sessions, nextTSIH>>

TSIHs == 1 .. 2^TSIHBits - 1

SessInit ==
  /\ sessions = [h \in TSIHs |-> NoConn]
  /\ nextTSIH = 0

SessionCount == Cardinality({h \in TSIHs : sessions[h] # NoConn})

\* A mutant of HasRoomFor: one session too many.
HasRoomForOneMore == SessionCount <= MaxSessions

\* The limit CreateSession checks first.
HasRoomFor == SessionCount < MaxSessions

\* The number after n, at the width of a TSIH, with 0 skipped.
TSIHAfter(n) == IF (n + 1) % 2^TSIHBits = 0 THEN 1 ELSE (n + 1) % 2^TSIHBits

\* CreateSession on success.  Nothing looks whether the TSIH is in use.
CreateSession(c) ==
  /\ HasRoomFor
  /\ nextTSIH' = TSIHAfter(nextTSIH)
  /\ sessions' = [sessions EXCEPT ![TSIHAfter(nextTSIH)] = c]

\* RemoveSession deletes by number, whoever the entry belongs to.
RemoveSession(h) ==
  /\ sessions' = [sessions EXCEPT ![h] = NoConn]
  /\ UNCHANGED nextTSIH
=============================================================================
