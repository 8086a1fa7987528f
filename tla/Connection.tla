----------------------------- MODULE Connection -----------------------------
(***************************************************************************)
(* The full feature phase of internal/iscsi: connection.go, scsi_cmd.go,   *)
(* data_out.go, tmf.go, nop.go, text and logout, on the session table of   *)
(* server.go, with internal/scsi executing the commands.                   *)
(*                                                                         *)
(* Each connection has one goroutine that reads a PDU, handles it to the   *)
(* end and answers before it reads the next; so the handling of one PDU is *)
(* one action, and what interleaves are the PDUs of different tasks of a   *)
(* connection and the connections.  The initiator's part is in the same    *)
(* action: it chooses the PDU, and reacts to answers in later actions.     *)
(*                                                                         *)
(* Lengths and offsets count blocks.  Block i of the data of command n is  *)
(* <<n, i>>.  CmdSN, ExpCmdSN and MaxCmdSN are left out: the code copies   *)
(* them from the request to the answer and never compares them.            *)
(***************************************************************************)
EXTENDS Session, Sequences

CONSTANTS
  Tags,         \* initiator task tags of one connection
  NoCmd,        \* no pending command under this tag
  NoBuf,        \* no reassembly buffer under this tag
  Zero,         \* what a gap in a reassembly buffer reads as
  SNBits,       \* width of StatSN, 32 in the code
  MaxLen,       \* longest transfer
  MaxCmds,      \* bound: commands issued
  MaxLogins     \* bound: logins

\* The opcodes, as far as the connection tells them apart: those that bring
\* data, and the rest (READ, SYNCHRONIZE CACHE, INQUIRY and so on).
DataOutOps == {"write", "unmap"}
Ops == DataOutOps \cup {"other"}

\* What a SCSI Command PDU says.  len is the transfer length, of which imm
\* blocks come with the command; F is the final bit; id stands for the rest of
\* the CDB and for the data.
Commands ==
  [op : Ops, len : 1 .. MaxLen, imm : 0 .. MaxLen, F : BOOLEAN, id : 1 .. MaxCmds]

\* Block i of command n, and what a buffer may hold.
DataBlocks == (1 .. MaxCmds) \X (1 .. MaxLen)

ASSUME ConnectionAssumption ==
  /\ SNBits \in Nat \ {0} /\ 2^SNBits > 0
  /\ MaxLen \in Nat \ {0}
  /\ MaxCmds \in Nat
  /\ MaxLogins \in Nat
  /\ NoCmd \notin Commands
  /\ NoBuf \notin Seq(DataBlocks)

VARIABLES
  phase,     \* "down", "up" (in Run) or "closing" (Run returned)
  tsih,      \* session.TSIH of the connection
  params,    \* what the login negotiated
  statSN,    \* c.statSN
  pending,   \* c.pendingCDB and c.pendingReq, always changed together
  buffers,   \* c.reassembly.buffers
  task,      \* what the initiator knows of each of its tasks
  seen,      \* the StatSN of the last PDU the initiator received, R2T or answer
  exec,      \* the last call of Handler.Execute: command, data, what the device
             \* confirmed it has stored or unmapped, status
  issued,    \* commands issued
  logins     \* logins completed

connVars == <<phase, tsih, params, statSN, pending, buffers>>
vars == <<sessVars, connVars, task, seen, exec, issued, logins>>

StatSNs == 0 .. 2^SNBits - 1

\* The first k blocks of a command's data.
Data(cmd, k) == [i \in 1 .. k |-> <<cmd.id, i>>]

Payload(cmd) == Data(cmd, cmd.len)

\* The target's own values of the two parameters that matter here.
DefaultTargetParams == [InitialR2T |-> TRUE, ImmediateData |-> TRUE]

\* The initiator has nothing to do under this tag, or was sent an R2T for
\* blocks next+1 .. end of the command.
Idle == [st |-> "idle", cmd |-> NoCmd, next |-> 0, end |-> 0]
Sending(cmd) == [st |-> "data", cmd |-> cmd, next |-> cmd.imm, end |-> cmd.len]

Init ==
  /\ SessInit
  /\ phase = [c \in Conns |-> "down"]
  /\ tsih = [c \in Conns |-> 0]
  /\ params = [c \in Conns |-> DefaultTargetParams]
  /\ statSN = [c \in Conns |-> 0]
  /\ pending = [c \in Conns |-> [t \in Tags |-> NoCmd]]
  /\ buffers = [c \in Conns |-> [t \in Tags |-> NoBuf]]
  /\ task = [c \in Conns |-> [t \in Tags |-> Idle]]
  /\ seen = [c \in Conns |-> 0]
  /\ exec = [cmd |-> NoCmd, data |-> << >>, done |-> << >>, status |-> "GOOD"]
  /\ issued = 0
  /\ logins = 0

-----------------------------------------------------------------------------
(* Login and the end of a connection: server.go handleConnection.          *)

\* InitialR2T is the OR of both sides, ImmediateData the AND.
NegotiateParams(offer) ==
  [InitialR2T    |-> offer.InitialR2T \/ DefaultTargetParams.InitialR2T,
   ImmediateData |-> offer.ImmediateData /\ DefaultTargetParams.ImmediateData]

Offers == [InitialR2T : BOOLEAN, ImmediateData : BOOLEAN]

\* The login has succeeded, sn responses were sent for it, and there is room
\* for a session: the connection starts, its maps empty.
Established(c, offer, sn) ==
  /\ phase[c] = "down" /\ logins < MaxLogins
  /\ CreateSession(c)
  /\ logins' = logins + 1
  /\ phase' = [phase EXCEPT ![c] = "up"]
  /\ tsih' = [tsih EXCEPT ![c] = TSIHAfter(nextTSIH)]
  /\ params' = [params EXCEPT ![c] = NegotiateParams(offer)]
  /\ statSN' = [statSN EXCEPT ![c] = sn]
  /\ seen' = [seen EXCEPT ![c] = sn]
  /\ UNCHANGED <<pending, buffers, task, exec, issued>>

\* The login has succeeded and there is no room: the connection is closed.
Refused(c) ==
  /\ phase[c] = "down" /\ logins < MaxLogins
  /\ ~HasRoomFor
  /\ logins' = logins + 1
  /\ UNCHANGED <<sessVars, connVars, task, seen, exec, issued>>

\* Run returns: the Connection and the initiator's tasks are gone, the session
\* is still there.
RunReturns(c) ==
  /\ phase' = [phase EXCEPT ![c] = "closing"]
  /\ pending' = [pending EXCEPT ![c] = [t \in Tags |-> NoCmd]]
  /\ buffers' = [buffers EXCEPT ![c] = [t \in Tags |-> NoBuf]]
  /\ params' = [params EXCEPT ![c] = DefaultTargetParams]
  /\ statSN' = [statSN EXCEPT ![c] = 0]
  /\ seen' = [seen EXCEPT ![c] = 0]
  /\ task' = [task EXCEPT ![c] = [t \in Tags |-> Idle]]

\* ReadPDU fails: the initiator closed the connection, or it broke.
Drop(c) ==
  /\ phase[c] = "up"
  /\ RunReturns(c)
  /\ UNCHANGED <<sessVars, tsih, exec, issued, logins>>

\* The deferred RemoveSession.
SessionEnds(c) ==
  /\ phase[c] = "closing"
  /\ RemoveSession(tsih[c])
  /\ phase' = [phase EXCEPT ![c] = "down"]
  /\ tsih' = [tsih EXCEPT ![c] = 0]
  /\ UNCHANGED <<params, statSN, pending, buffers, task, seen, exec, issued, logins>>

-----------------------------------------------------------------------------
(* What every handler does to answer, or to send an R2T: StatSN is         *)
(* advanced and sent.                                                      *)

nextStatSN(c) == (statSN[c] + 1) % 2^SNBits

Answer(c) ==
  /\ statSN' = [statSN EXCEPT ![c] = nextStatSN(c)]
  /\ seen' = [seen EXCEPT ![c] = nextStatSN(c)]

\* A request of which the answer is all.
AnswerOnly(c) ==
  /\ phase[c] = "up"
  /\ Answer(c)
  /\ UNCHANGED <<sessVars, phase, tsih, params, pending, buffers, task, exec, issued,
                 logins>>

\* A NOP-Out is echoed, solicited or not.
handleNopOut(c) == AnswerOnly(c)

\* A text request is answered with the target's name and address, whatever it
\* asks for.
handleTextRequest(c) == AnswerOnly(c)

\* Task management: ABORT TASK and its kin are answered FUNCTION COMPLETE and
\* change nothing.  The initiator takes the task for gone.
handleTMFRequest(c, t) ==
  /\ phase[c] = "up"
  /\ task[c][t].st = "data"
  /\ task' = [task EXCEPT ![c][t] = Idle]
  /\ Answer(c)
  /\ UNCHANGED <<sessVars, phase, tsih, params, pending, buffers, exec, issued,
                 logins>>

\* The answer is the connection's last.
handleLogout(c) ==
  /\ phase[c] = "up"
  /\ RunReturns(c)
  /\ UNCHANGED <<sessVars, tsih, exec, issued, logins>>

-----------------------------------------------------------------------------
(* The SCSI handler.  The device behind it is the ZTL; here a call of it  *)
(* does what it is asked, or returns an error.                            *)

DeviceCall(blocks) ==
  {[status |-> "GOOD", done |-> blocks], [status |-> "CHECK", done |-> << >>]}

\* A mutant of handleWrite: what is there is written.
handleWriteShort(cmd, data) == DeviceCall(data)

handleWrite(cmd, data) ==
  IF Len(data) < cmd.len
  THEN {[status |-> "CHECK", done |-> << >>]}
  ELSE DeviceCall(SubSeq(data, 1, cmd.len))

\* A block of UNMAP data is a descriptor: those that came are carried out, be
\* it none.
handleUnmap(data) ==
  IF data = << >> THEN {[status |-> "GOOD", done |-> << >>]} ELSE DeviceCall(data)

\* The other commands succeed or fail and store nothing.
Execute(cmd, data) ==
  CASE cmd.op = "write" -> handleWrite(cmd, data)
    [] cmd.op = "unmap" -> handleUnmap(data)
    [] OTHER -> DeviceCall(<< >>)

\* Execute is called and the SCSI Response sent.
ExecuteAndRespond(cmd, data) ==
  \E r \in Execute(cmd, data) :
    exec' = [cmd |-> cmd, data |-> data, done |-> r.done, status |-> r.status]

-----------------------------------------------------------------------------
(* SCSI commands and Data-Out.                                             *)

\* A mutant of NeedsDataOut: a command with immediate data is not remembered.
NeedsDataOutAll(cmd) == cmd.op \in DataOutOps /\ cmd.imm = 0

\* handleSCSICommand remembers a command whose data has not all come.
NeedsDataOut(cmd) == cmd.op \in DataOutOps /\ cmd.len > cmd.imm

\* handleSCSICmd asks for the rest with an R2T rather than execute at once.
SendsR2T(cmd, p) ==
  /\ cmd.op \in DataOutOps
  /\ ~ cmd.F
  /\ p.InitialR2T \/ cmd.len > cmd.imm

\* dataOutBuffer.add: data is copied to offset off, a gap reads as zeros.
add(b, off, data) ==
  LET needed == off + Len(data)
  IN [i \in 1 .. (IF needed > Len(b) THEN needed ELSE Len(b)) |->
        IF i \in off + 1 .. needed THEN data[i - off]
        ELSE IF i <= Len(b) THEN b[i] ELSE Zero]

Remember(c, t, cmd) ==
  pending' = IF NeedsDataOut(cmd) THEN [pending EXCEPT ![c][t] = cmd] ELSE pending

\* The command is executed with its immediate data.
ExecuteNow(c, t, cmd) ==
  /\ ExecuteAndRespond(cmd, Data(cmd, cmd.imm))
  /\ UNCHANGED <<buffers, task>>

\* A mutant of SolicitData: the buffer is made with its full length, not with
\* that capacity, and the immediate data goes behind it.
SolicitAppended(c, t, cmd) ==
  /\ buffers' = [buffers EXCEPT ![c][t] = [i \in 1 .. cmd.len |-> Zero] \o Data(cmd, cmd.imm)]
  /\ task' = [task EXCEPT ![c][t] = Sending(cmd)]
  /\ UNCHANGED exec

\* A mutant of SolicitData: the immediate data is not kept.
SolicitAll(c, t, cmd) ==
  /\ buffers' = [buffers EXCEPT ![c][t] = << >>]
  /\ task' = [task EXCEPT ![c][t] = Sending(cmd)]
  /\ UNCHANGED exec

\* initBuffer, filled with the immediate data, and the R2T for the rest.
SolicitData(c, t, cmd) ==
  /\ buffers' = [buffers EXCEPT ![c][t] = add(<< >>, 0, Data(cmd, cmd.imm))]
  /\ task' = [task EXCEPT ![c][t] = Sending(cmd)]
  /\ UNCHANGED exec

\* The commands an initiator may send next.  Immediate data only as negotiated.
\* It sets F when no data follows; when some does, RFC 7143 has it set F all the
\* same under InitialR2T=Yes, and others leave it clear.
MaySend(c) ==
  {cmd \in [op : Ops, len : 1 .. MaxLen, imm : 0 .. MaxLen, F : BOOLEAN, id : {issued + 1}] :
     /\ cmd.op \notin DataOutOps => cmd.len = 1 /\ cmd.imm = 0 /\ cmd.F
     /\ cmd.imm <= IF params[c].ImmediateData THEN cmd.len ELSE 0
     /\ cmd.imm = cmd.len => cmd.F}

handleSCSICommand(c, t, cmd) ==
  /\ phase[c] = "up" /\ issued < MaxCmds
  /\ task[c][t] = Idle
  /\ issued' = issued + 1
  /\ Remember(c, t, cmd)
  /\ Answer(c)
  /\ IF SendsR2T(cmd, params[c]) THEN SolicitData(c, t, cmd) ELSE ExecuteNow(c, t, cmd)
  /\ UNCHANGED <<sessVars, phase, tsih, params, logins>>

\* The initiator has sent n more blocks.
Sent(c, t, n) == [task EXCEPT ![c][t].next = @ + n]

\* addDataOut fails: logged, nothing else.
DataIgnored(c, t, n) ==
  /\ task' = Sent(c, t, n)
  /\ UNCHANGED <<statSN, seen, pending, buffers, exec>>

\* A mutant of DataAdded: StatSN is advanced for every Data-Out.
DataAddedCounts(c, t, b, n) ==
  /\ buffers' = [buffers EXCEPT ![c][t] = b]
  /\ task' = Sent(c, t, n)
  /\ statSN' = [statSN EXCEPT ![c] = nextStatSN(c)]
  /\ UNCHANGED <<seen, pending, exec>>

DataAdded(c, t, b, n) ==
  /\ buffers' = [buffers EXCEPT ![c][t] = b]
  /\ task' = Sent(c, t, n)
  /\ UNCHANGED <<statSN, seen, pending, exec>>

\* The last piece: the buffer and the pending command are taken.  Without a
\* pending command StatSN is used up and nothing is sent.
DataComplete(c, t, b, n) ==
  /\ buffers' = [buffers EXCEPT ![c][t] = NoBuf]
  /\ pending' = [pending EXCEPT ![c][t] = NoCmd]
  /\ statSN' = [statSN EXCEPT ![c] = nextStatSN(c)]
  /\ IF pending[c][t] = NoCmd
     THEN /\ task' = Sent(c, t, n)
          /\ UNCHANGED <<seen, exec>>
     ELSE /\ ExecuteAndRespond(pending[c][t], b)
          /\ task' = [task EXCEPT ![c][t] = Idle]
          /\ seen' = [seen EXCEPT ![c] = nextStatSN(c)]

\* The initiator answers the R2T, in order, in pieces it chooses; the last has
\* the F bit.
handleDataOut(c, t, n) ==
  LET k     == task[c][t]
      piece == [i \in 1 .. n |-> <<k.cmd.id, k.next + i>>]
      b     == add(buffers[c][t], k.next, piece)
  IN /\ phase[c] = "up" /\ k.st = "data"
     /\ n \in 1 .. k.end - k.next
     /\ IF buffers[c][t] = NoBuf THEN DataIgnored(c, t, n)
        ELSE \/ k.next + n < k.end /\ DataAdded(c, t, b, n)
             \/ k.next + n = k.end /\ DataComplete(c, t, b, n)
     /\ UNCHANGED <<sessVars, phase, tsih, params, issued, logins>>

-----------------------------------------------------------------------------
Next ==
  \E c \in Conns :
    \/ \E offer \in Offers, sn \in StatSNs : Established(c, offer, sn)
    \/ Refused(c)
    \/ Drop(c)
    \/ SessionEnds(c)
    \/ handleNopOut(c)
    \/ handleTextRequest(c)
    \/ handleLogout(c)
    \/ \E t \in Tags :
         \/ handleTMFRequest(c, t)
         \/ \E cmd \in MaySend(c) : handleSCSICommand(c, t, cmd)
         \/ \E n \in 1 .. MaxLen : handleDataOut(c, t, n)

\* An initiator that was sent an R2T sends the data, and the goroutine that
\* serves the connection reads it.
Fairness ==
  \A c \in Conns, t \in Tags : WF_vars(\E n \in 1 .. MaxLen : handleDataOut(c, t, n))

Spec == Init /\ [][Next]_vars /\ Fairness
-----------------------------------------------------------------------------
(* Properties.                                                             *)

TypeOK ==
  /\ sessions \in [TSIHs -> Conns \cup {NoConn}]
  /\ nextTSIH \in TSIHs \cup {0}
  /\ phase \in [Conns -> {"down", "up", "closing"}]
  /\ tsih \in [Conns -> TSIHs \cup {0}]
  /\ params \in [Conns -> Offers]
  /\ statSN \in [Conns -> StatSNs]
  /\ seen \in [Conns -> StatSNs]
  /\ pending \in [Conns -> [Tags -> Commands \cup {NoCmd}]]
  /\ \A c \in Conns, t \in Tags :
       buffers[c][t] # NoBuf => Len(buffers[c][t]) \in 0 .. MaxLen
  /\ task \in [Conns -> [Tags -> [st : {"idle", "data"}, cmd : Commands \cup {NoCmd},
                                 next : 0 .. MaxLen, end : 0 .. MaxLen]]]
  /\ issued \in 0 .. MaxCmds /\ logins \in 0 .. MaxLogins

\* REQ-ISCSI-06, and scsi_cmd.go on handleSCSICmd: whenever the SCSI handler is
\* called for a command that brings data, it gets exactly the data the initiator
\* announced for that command.
WholeData ==
  exec.cmd # NoCmd /\ exec.cmd.op \in DataOutOps => exec.data = Payload(exec.cmd)

\* The same for the commands the target solicited data for with an R2T: all of
\* it, in its place, and nothing of another task, of an aborted or refused one
\* that had the same tag, or of another connection.
SolicitedWhole ==
  exec.cmd # NoCmd /\ ~ exec.cmd.F => exec.data = Payload(exec.cmd)

\* A write is answered GOOD only if the device confirmed every block the
\* initiator announced, also when not all of them came.
GoodMeansStored ==
  exec.cmd # NoCmd /\ exec.cmd.op = "write" /\ exec.status = "GOOD" =>
    exec.done = Payload(exec.cmd)

\* The StatSN of a connection is the one its initiator was last sent: every
\* number a handler takes goes out with a PDU, an answer or an R2T, whatever the
\* mix of tasks, aborts and pings, and the branch of handleDataOut that takes
\* one and sends nothing is never reached.  That the R2T takes a number of its
\* own is another matter: see InitiatorStatSN.
NumbersSent == \A c \in Conns : phase[c] = "up" => statSN[c] = seen[c]

\* REQ-ISCSI-08 and CreateSession: the table holds exactly the sessions of the
\* connections that are up or closing, each under its own TSIH, so that none
\* is removed for another and the limit counts them all.
SessionsExact ==
  /\ \A c \in Conns : phase[c] # "down" => tsih[c] \in TSIHs /\ sessions[tsih[c]] = c
  /\ \A h \in TSIHs : sessions[h] # NoConn =>
       tsih[sessions[h]] = h /\ phase[sessions[h]] # "down"
  /\ Cardinality({c \in Conns : phase[c] # "down"}) <= MaxSessions

\* A task for which the target has sent an R2T is answered, aborted, or its
\* connection ends: the target does not forget a command it asked data for.
Answered == \A c \in Conns, t \in Tags : task[c][t].st = "data" ~> task[c][t].st = "idle"
=============================================================================
