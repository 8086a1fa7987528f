-------------------------- MODULE ConnectionProofs --------------------------
(***************************************************************************)
(* Data-Out reassembly, proved for any number of connections, tags,        *)
(* lengths and commands.  While a task waits for the data it was sent an   *)
(* R2T for, the target holds its command and exactly the blocks that came. *)
(***************************************************************************)
EXTENDS Connection, FiniteSetTheorems, TLAPS

Tasks == [st : {"idle", "data"}, cmd : Commands \cup {NoCmd}, next : Nat, end : Nat]

\* A number for every connection.
Numbered(f) == f = [c \in Conns |-> f[c]]

Shapes ==
  /\ phase \in [Conns -> {"down", "up", "closing"}]
  /\ Numbered(statSN) /\ Numbered(seen)
  /\ pending \in [Conns -> [Tags -> Commands \cup {NoCmd}]]
  /\ buffers \in [Conns -> [Tags -> Seq(DataBlocks) \cup {NoBuf}]]
  /\ task \in [Conns -> [Tags -> Tasks]]
  /\ issued \in Nat

\* What the target holds for a task that waits for its data: k is the task, p
\* its pending command, b its buffer.
Holds(k, p, b) ==
  k.st = "data" =>
    /\ k.cmd \in Commands /\ ~ k.cmd.F
    /\ k.end = k.cmd.len /\ k.next < k.end
    /\ p = k.cmd
    /\ b = Data(k.cmd, k.next)

Held == \A c \in Conns, t \in Tags : Holds(task[c][t], pending[c][t], buffers[c][t])

ConnInv == Shapes /\ Held /\ NumbersSent /\ SolicitedWhole

\* A prefix of a command's data is a sequence of its length.
LEMMA DataIsSeq ==
  ASSUME NEW cmd \in Commands, NEW k \in 0 .. cmd.len
  PROVE  Data(cmd, k) \in Seq(DataBlocks) /\ Len(Data(cmd, k)) = k
<1>1. cmd.len \in 1 .. MaxLen /\ cmd.id \in 1 .. MaxCmds /\ MaxLen \in Nat /\ k \in Nat
  BY ConnectionAssumption DEF Commands
<1>2. \A i \in 1 .. k : <<cmd.id, i>> \in DataBlocks
  BY <1>1 DEF DataBlocks
<1>3. QED
  BY <1>1, <1>2 DEF Data

\* add copies the next piece of a command behind the prefix already there.
LEMMA AddExtends ==
  ASSUME NEW cmd \in Commands, NEW k \in Nat, NEW n \in Nat, k + n <= cmd.len
  PROVE  add(Data(cmd, k), k, [i \in 1 .. n |-> <<cmd.id, k + i>>]) = Data(cmd, k + n)
<1> DEFINE piece == [i \in 1 .. n |-> <<cmd.id, k + i>>]
<1>1. Len(Data(cmd, k)) = k
  BY DataIsSeq DEF Commands
<1>2. Len(piece) = n
  OBVIOUS
<1>3. \A i \in 1 .. n : piece[i] = <<cmd.id, k + i>>
  OBVIOUS
<1>4. \A i \in 1 .. k : Data(cmd, k)[i] = <<cmd.id, i>>
  BY DEF Data
<1> HIDE DEF piece
<1>5. add(Data(cmd, k), k, piece)
        = [i \in 1 .. k + n |-> IF i \in k + 1 .. k + n THEN piece[i - k]
                                ELSE IF i <= k THEN Data(cmd, k)[i] ELSE Zero]
  <2>1. (IF k + n > k THEN k + n ELSE k) = k + n
    OBVIOUS
  <2>2. QED
    BY <1>1, <1>2, <2>1 DEF add
<1>6. \A i \in 1 .. k + n :
        (IF i \in k + 1 .. k + n THEN piece[i - k]
         ELSE IF i <= k THEN Data(cmd, k)[i] ELSE Zero) = <<cmd.id, i>>
  BY <1>3, <1>4
<1>7. QED
  BY <1>5, <1>6 DEF Data, piece

\* A fresh buffer filled with the immediate data holds just that.
LEMMA AddFirst ==
  ASSUME NEW cmd \in Commands, NEW m \in 0 .. cmd.len
  PROVE  add(<< >>, 0, Data(cmd, m)) = Data(cmd, m)
<1>1. Len(Data(cmd, m)) = m /\ m \in Nat
  BY DataIsSeq DEF Commands
<1>2. \A i \in 1 .. m : Data(cmd, m)[i] = <<cmd.id, i>>
  BY DEF Data
<1>3. add(<< >>, 0, Data(cmd, m))
        = [i \in 1 .. m |-> IF i \in 1 .. m THEN Data(cmd, m)[i]
                            ELSE IF i <= 0 THEN << >>[i] ELSE Zero]
  <2>1. (IF 0 + m > 0 THEN 0 + m ELSE 0) = m
    BY <1>1
  <2>2. Len(<< >>) = 0
    OBVIOUS
  <2>3. \A i \in 1 .. m : i - 0 = i
    BY <1>1
  <2>4. 0 + m = m /\ 0 + 1 = 1
    BY <1>1
  <2>5. QED
    BY <1>1, <2>1, <2>2, <2>3, <2>4 DEF add
<1>4. QED
  BY <1>2, <1>3 DEF Data

\* The commands an initiator may send have the type of commands, carry no more
\* immediate data than they announce, and have F set when that is all.
LEMMA Sendable ==
  ASSUME NEW c \in Conns, NEW cmd \in MaySend(c), issued \in Nat, issued < MaxCmds
  PROVE  /\ cmd \in Commands
         /\ cmd.imm \in 0 .. cmd.len
         /\ ~ cmd.F => cmd.op \in DataOutOps /\ cmd.imm < cmd.len
<1>0. MaxLen \in Nat \ {0} /\ MaxCmds \in Nat
  BY ConnectionAssumption
<1>1. /\ cmd \in [op : Ops, len : 1 .. MaxLen, imm : 0 .. MaxLen, F : BOOLEAN,
                 id : {issued + 1}]
      /\ cmd.op \notin DataOutOps => cmd.len = 1 /\ cmd.imm = 0 /\ cmd.F
      /\ cmd.imm <= IF params[c].ImmediateData THEN cmd.len ELSE 0
      /\ cmd.imm = cmd.len => cmd.F
  BY DEF MaySend
<1>2. cmd \in Commands
  BY <1>0, <1>1 DEF Commands
<1>3. cmd.imm \in Nat /\ cmd.len \in Nat /\ cmd.imm <= cmd.len
  BY <1>0, <1>1
<1>4. QED
  BY <1>1, <1>2, <1>3

\* Init establishes the invariant.
LEMMA ConnInitial == Init => ConnInv
  BY DEF Init, ConnInv, Shapes, Numbered, Held, Holds, NumbersSent, SolicitedWhole, Idle, Tasks

\* What a step does to one tag of one connection, the rest staying as it was,
\* keeps the invariant if it leaves the target holding what the task waits for.
LEMMA OneTag ==
  ASSUME ConnInv, NEW c \in Conns, NEW t \in Tags,
         NEW k \in Tasks, NEW p \in Commands \cup {NoCmd},
         NEW b \in Seq(DataBlocks) \cup {NoBuf}, Holds(k, p, b),
         task' = [task EXCEPT ![c][t] = k],
         pending' = [pending EXCEPT ![c][t] = p],
         buffers' = [buffers EXCEPT ![c][t] = b]
  PROVE  /\ Held'
         /\ task' \in [Conns -> [Tags -> Tasks]]
         /\ pending' \in [Conns -> [Tags -> Commands \cup {NoCmd}]]
         /\ buffers' \in [Conns -> [Tags -> Seq(DataBlocks) \cup {NoBuf}]]
<1>1. /\ task' \in [Conns -> [Tags -> Tasks]]
      /\ pending' \in [Conns -> [Tags -> Commands \cup {NoCmd}]]
      /\ buffers' \in [Conns -> [Tags -> Seq(DataBlocks) \cup {NoBuf}]]
  BY DEF ConnInv, Shapes
<1>2. ASSUME NEW d \in Conns, NEW u \in Tags
      PROVE  Holds(task'[d][u], pending'[d][u], buffers'[d][u])
  <2>1. CASE d = c /\ u = t
    <3>1. task'[d][u] = k /\ pending'[d][u] = p /\ buffers'[d][u] = b
      BY <2>1 DEF ConnInv, Shapes
    <3>2. QED
      BY <3>1
  <2>2. CASE ~ (d = c /\ u = t)
    <3>1. /\ task'[d][u] = task[d][u] /\ pending'[d][u] = pending[d][u]
          /\ buffers'[d][u] = buffers[d][u]
      BY <2>2 DEF ConnInv, Shapes
    <3>2. QED
      BY <3>1 DEF ConnInv, Held
  <2>3. QED
    BY <2>1, <2>2
<1>3. QED
  BY <1>1, <1>2 DEF Held

\* An answer keeps the initiator and the target in step.
LEMMA AnswerInStep ==
  ASSUME ConnInv, NEW c \in Conns, Answer(c), UNCHANGED phase
  PROVE  NumbersSent' /\ Numbered(statSN') /\ Numbered(seen')
  BY DEF ConnInv, Shapes, Numbered, Answer, NumbersSent

\* A SCSI command.
LEMMA CommandStep ==
  ASSUME ConnInv, NEW c \in Conns, NEW t \in Tags, NEW cmd \in MaySend(c),
         handleSCSICommand(c, t, cmd)
  PROVE  ConnInv'
<1>1. /\ cmd \in Commands
      /\ cmd.imm \in 0 .. cmd.len
      /\ ~ cmd.F => cmd.op \in DataOutOps /\ cmd.imm < cmd.len
  BY Sendable DEF ConnInv, Shapes, handleSCSICommand
<1>2. NumbersSent' /\ Numbered(statSN') /\ Numbered(seen')
  BY AnswerInStep DEF handleSCSICommand
<1>3. phase' \in [Conns -> {"down", "up", "closing"}] /\ issued' \in Nat
  BY DEF ConnInv, Shapes, handleSCSICommand
<1>4. CASE SendsR2T(cmd, params[c])
  <2>1. cmd.op \in DataOutOps /\ ~ cmd.F /\ cmd.imm < cmd.len /\ cmd.len \in Nat
    BY <1>1, <1>4 DEF SendsR2T, Commands
  <2>2. pending' = [pending EXCEPT ![c][t] = cmd]
    BY <1>1, <2>1 DEF handleSCSICommand, Remember, NeedsDataOut, Commands
  <2>3. /\ buffers' = [buffers EXCEPT ![c][t] = Data(cmd, cmd.imm)]
        /\ task' = [task EXCEPT ![c][t] = Sending(cmd)]
        /\ exec' = exec
    BY <1>1, <1>4, AddFirst DEF handleSCSICommand, SolicitData
  <2>4. Data(cmd, cmd.imm) \in Seq(DataBlocks)
    BY <1>1, DataIsSeq
  <2>5. Sending(cmd) \in Tasks
    BY <1>1 DEF Sending, Tasks, Commands
  <2>6. Holds(Sending(cmd), cmd, Data(cmd, cmd.imm))
    BY <1>1, <2>1 DEF Holds, Sending
  <2>7. /\ Held'
        /\ task' \in [Conns -> [Tags -> Tasks]]
        /\ pending' \in [Conns -> [Tags -> Commands \cup {NoCmd}]]
        /\ buffers' \in [Conns -> [Tags -> Seq(DataBlocks) \cup {NoBuf}]]
    BY <1>1, <2>2, <2>3, <2>4, <2>5, <2>6, OneTag
  <2>8. SolicitedWhole'
    BY <2>3 DEF ConnInv, SolicitedWhole
  <2>9. QED
    BY <1>2, <1>3, <2>7, <2>8 DEF ConnInv, Shapes
<1>5. CASE ~ SendsR2T(cmd, params[c])
  <2>1. cmd.F
    BY <1>1, <1>5 DEF SendsR2T, Commands
  <2>2. buffers' = buffers /\ task' = task
    BY <1>5 DEF handleSCSICommand, ExecuteNow
  <2>3. \E d, s : exec' = [cmd |-> cmd, data |-> Data(cmd, cmd.imm), done |-> d, status |-> s]
    BY <1>5 DEF handleSCSICommand, ExecuteNow, ExecuteAndRespond
  <2>4. SolicitedWhole'
    BY <2>1, <2>3 DEF SolicitedWhole
  <2>5. pending' = pending \/ pending' = [pending EXCEPT ![c][t] = cmd]
    BY DEF handleSCSICommand, Remember
  <2>6. pending' \in [Conns -> [Tags -> Commands \cup {NoCmd}]]
    <3>1. CASE pending' = pending
      BY <3>1 DEF ConnInv, Shapes
    <3>2. CASE pending' = [pending EXCEPT ![c][t] = cmd]
      BY <1>1, <3>2 DEF ConnInv, Shapes
    <3>3. QED
      BY <2>5, <3>1, <3>2
  <2>7. ASSUME NEW d \in Conns, NEW u \in Tags
        PROVE  Holds(task[d][u], pending'[d][u], buffers[d][u])
    <3>1. CASE d = c /\ u = t
      <4>1. task[d][u].st = "idle"
        BY <3>1 DEF handleSCSICommand, Idle
      <4>2. QED
        BY <4>1 DEF Holds
    <3>2. CASE ~ (d = c /\ u = t)
      <4>1. pending'[d][u] = pending[d][u]
        BY <2>5, <3>2 DEF ConnInv, Shapes
      <4>2. QED
        BY <4>1 DEF ConnInv, Held
    <3>3. QED
      BY <3>1, <3>2
  <2>8. Held'
    BY <2>2, <2>7 DEF Held
  <2>9. QED
    BY <1>2, <1>3, <2>2, <2>4, <2>6, <2>8 DEF ConnInv, Shapes
<1>6. QED
  BY <1>4, <1>5

\* A Data-Out PDU.
LEMMA DataOutStep ==
  ASSUME ConnInv, NEW c \in Conns, NEW t \in Tags, NEW n \in 1 .. MaxLen,
         handleDataOut(c, t, n)
  PROVE  ConnInv'
<1> DEFINE k == task[c][t]
           piece == [i \in 1 .. n |-> <<k.cmd.id, k.next + i>>]
           b == add(buffers[c][t], k.next, piece)
<1>0. n \in Nat
  OBVIOUS
<1>1. /\ k.st = "data" /\ n \in 1 .. k.end - k.next
      /\ phase' = phase /\ issued' = issued
      /\ IF buffers[c][t] = NoBuf THEN DataIgnored(c, t, n)
         ELSE \/ k.next + n < k.end /\ DataAdded(c, t, b, n)
              \/ k.next + n = k.end /\ DataComplete(c, t, b, n)
  BY DEF handleDataOut
<1>2. /\ k \in Tasks /\ k.cmd \in Commands /\ ~ k.cmd.F
      /\ k.end = k.cmd.len /\ k.next \in Nat /\ k.next < k.end /\ k.end \in Nat
      /\ pending[c][t] = k.cmd /\ buffers[c][t] = Data(k.cmd, k.next)
  BY <1>1 DEF ConnInv, Shapes, Held, Holds, Tasks
<1> HIDE DEF k
<1>3. k.next + n <= k.cmd.len /\ k.next + n \in 0 .. k.cmd.len
  BY <1>0, <1>1, <1>2
<1>4. b = Data(k.cmd, k.next + n)
  BY <1>0, <1>2, <1>3, AddExtends
<1>5. b \in Seq(DataBlocks)
  BY <1>2, <1>3, <1>4, DataIsSeq
<1>6. buffers[c][t] # NoBuf
  BY <1>2, DataIsSeq, ConnectionAssumption
<1> HIDE DEF b
<1>7. phase' \in [Conns -> {"down", "up", "closing"}] /\ issued' \in Nat
  BY <1>1 DEF ConnInv, Shapes
<1>8. CASE k.next + n < k.end /\ DataAdded(c, t, b, n)
  <2> DEFINE k2 == [k EXCEPT !.next = @ + n]
  <2>1. task' = [task EXCEPT ![c][t] = k2]
    BY <1>8 DEF DataAdded, Sent, ConnInv, Shapes, k
  <2>2. k2 \in Tasks /\ k2.st = "data" /\ k2.cmd = k.cmd /\ k2.end = k.end /\ k2.next = k.next + n
    BY <1>0, <1>1, <1>2 DEF Tasks
  <2> HIDE DEF k2
  <2>3. Holds(k2, k.cmd, b)
    BY <1>2, <1>4, <1>8, <2>2 DEF Holds
  <2>4. pending' = [pending EXCEPT ![c][t] = k.cmd]
    BY <1>2, <1>8 DEF DataAdded, ConnInv, Shapes
  <2>5. buffers' = [buffers EXCEPT ![c][t] = b] /\ statSN' = statSN /\ seen' = seen /\ exec' = exec
    BY <1>8 DEF DataAdded
  <2>6. /\ Held'
        /\ task' \in [Conns -> [Tags -> Tasks]]
        /\ pending' \in [Conns -> [Tags -> Commands \cup {NoCmd}]]
        /\ buffers' \in [Conns -> [Tags -> Seq(DataBlocks) \cup {NoBuf}]]
    BY <1>2, <1>5, <2>1, <2>2, <2>3, <2>4, <2>5, OneTag
  <2>7. NumbersSent' /\ SolicitedWhole'
    BY <1>1, <2>5 DEF ConnInv, NumbersSent, SolicitedWhole
  <2>8. QED
    BY <1>7, <2>5, <2>6, <2>7 DEF ConnInv, Shapes
<1>9. CASE k.next + n = k.end /\ DataComplete(c, t, b, n)
  <2>1. pending[c][t] # NoCmd
    BY <1>2, ConnectionAssumption
  <2>2. /\ buffers' = [buffers EXCEPT ![c][t] = NoBuf]
        /\ pending' = [pending EXCEPT ![c][t] = NoCmd]
        /\ task' = [task EXCEPT ![c][t] = Idle]
        /\ ExecuteAndRespond(k.cmd, b)
        /\ Answer(c)
    BY <1>2, <1>9, <2>1 DEF DataComplete, Answer
  <2>3. Idle \in Tasks /\ Holds(Idle, NoCmd, NoBuf)
    BY DEF Idle, Tasks, Holds
  <2>4. /\ Held'
        /\ task' \in [Conns -> [Tags -> Tasks]]
        /\ pending' \in [Conns -> [Tags -> Commands \cup {NoCmd}]]
        /\ buffers' \in [Conns -> [Tags -> Seq(DataBlocks) \cup {NoBuf}]]
    BY <2>2, <2>3, OneTag
  <2>5. NumbersSent' /\ Numbered(statSN') /\ Numbered(seen')
    BY <1>1, <2>2, AnswerInStep
  <2>6. \E d, s : exec' = [cmd |-> k.cmd, data |-> b, done |-> d, status |-> s]
    BY <2>2 DEF ExecuteAndRespond
  <2>7. b = Payload(k.cmd)
    BY <1>2, <1>4, <1>9 DEF Payload
  <2>8. SolicitedWhole'
    BY <2>6, <2>7 DEF SolicitedWhole
  <2>9. QED
    BY <1>7, <2>4, <2>5, <2>8 DEF ConnInv, Shapes
<1>10. QED
  BY <1>1, <1>6, <1>8, <1>9

\* The end of Run: nothing is waited for, and nothing is held.
LEMMA EndStep ==
  ASSUME ConnInv, NEW c \in Conns, RunReturns(c), UNCHANGED <<exec, issued>>
  PROVE  ConnInv'
<1>1. /\ task' \in [Conns -> [Tags -> Tasks]]
      /\ pending' \in [Conns -> [Tags -> Commands \cup {NoCmd}]]
      /\ buffers' \in [Conns -> [Tags -> Seq(DataBlocks) \cup {NoBuf}]]
  BY DEF ConnInv, Shapes, RunReturns, Idle, Tasks
<1>2. /\ phase' \in [Conns -> {"down", "up", "closing"}]
      /\ Numbered(statSN') /\ Numbered(seen') /\ issued' \in Nat
  BY DEF ConnInv, Shapes, Numbered, RunReturns
<1>3. Held'
  BY DEF ConnInv, Shapes, RunReturns, Held, Holds, Idle
<1>4. NumbersSent' /\ SolicitedWhole'
  BY DEF ConnInv, Shapes, RunReturns, NumbersSent, SolicitedWhole
<1>5. QED
  BY <1>1, <1>2, <1>3, <1>4 DEF ConnInv, Shapes

\* Every step preserves the invariant.
LEMMA ConnStep == ConnInv /\ [Next]_vars => ConnInv'
<1> SUFFICES ASSUME ConnInv, [Next]_vars PROVE ConnInv'
  OBVIOUS
<1>1. ASSUME NEW c \in Conns, NEW offer \in Offers, NEW sn \in StatSNs,
             Established(c, offer, sn)
      PROVE  ConnInv'
  <2>1. Shapes' /\ Held' /\ SolicitedWhole'
    BY <1>1 DEF Established, ConnInv, Shapes, Numbered, Held, SolicitedWhole
  <2>2. NumbersSent'
    BY <1>1 DEF Established, ConnInv, Shapes, Numbered, NumbersSent
  <2>3. QED
    BY <2>1, <2>2 DEF ConnInv
<1>2. ASSUME NEW c \in Conns, Refused(c) PROVE ConnInv'
  BY <1>2 DEF Refused, connVars, ConnInv, Shapes, Held, NumbersSent, SolicitedWhole
<1>3. ASSUME NEW c \in Conns, Drop(c) \/ handleLogout(c) PROVE ConnInv'
  BY <1>3, EndStep DEF Drop, handleLogout
<1>4. ASSUME NEW c \in Conns, SessionEnds(c) PROVE ConnInv'
  BY <1>4 DEF SessionEnds, ConnInv, Shapes, Held, NumbersSent, SolicitedWhole
<1>5. ASSUME NEW c \in Conns, AnswerOnly(c) PROVE ConnInv'
  <2>1. NumbersSent' /\ Numbered(statSN') /\ Numbered(seen')
    BY <1>5, AnswerInStep DEF AnswerOnly
  <2>2. QED
    BY <1>5, <2>1 DEF AnswerOnly, ConnInv, Shapes, Held, SolicitedWhole
<1>6. ASSUME NEW c \in Conns, NEW t \in Tags, handleTMFRequest(c, t) PROVE ConnInv'
  <2>1. NumbersSent' /\ Numbered(statSN') /\ Numbered(seen')
    BY <1>6, AnswerInStep DEF handleTMFRequest
  <2>2. Idle \in Tasks /\ Holds(Idle, pending[c][t], buffers[c][t])
    BY DEF Idle, Tasks, Holds
  <2>3. /\ pending' = [pending EXCEPT ![c][t] = pending[c][t]]
        /\ buffers' = [buffers EXCEPT ![c][t] = buffers[c][t]]
        /\ pending[c][t] \in Commands \cup {NoCmd}
        /\ buffers[c][t] \in Seq(DataBlocks) \cup {NoBuf}
    BY <1>6 DEF handleTMFRequest, ConnInv, Shapes
  <2>4. /\ Held'
        /\ task' \in [Conns -> [Tags -> Tasks]]
        /\ pending' \in [Conns -> [Tags -> Commands \cup {NoCmd}]]
        /\ buffers' \in [Conns -> [Tags -> Seq(DataBlocks) \cup {NoBuf}]]
    BY <1>6, <2>2, <2>3, OneTag DEF handleTMFRequest
  <2>5. QED
    BY <1>6, <2>1, <2>4 DEF handleTMFRequest, ConnInv, Shapes, SolicitedWhole
<1>7. CASE UNCHANGED vars
  BY <1>7 DEF vars, connVars, ConnInv, Shapes, Held, NumbersSent, SolicitedWhole
<1>8. QED
  BY <1>1, <1>2, <1>3, <1>4, <1>5, <1>6, <1>7, CommandStep, DataOutStep
     DEF Next, handleNopOut, handleTextRequest

\* Whatever connections, tags, lengths, interleavings and aborts there are, a
\* command the target sent an R2T for (handleSCSICmd, handleDataOut) is
\* executed with exactly the data announced for it.
THEOREM ReassemblyCorrect == Spec => []SolicitedWhole
<1>1. ConnInv => SolicitedWhole
  BY DEF ConnInv
<1>2. QED
  BY <1>1, ConnInitial, ConnStep, PTL DEF Spec

\* No handler uses up a StatSN that it does not send: the branch of
\* handleDataOut that finds no pending command is never taken.
THEOREM NoNumberDropped == Spec => []NumbersSent
<1>1. ConnInv => NumbersSent
  BY DEF ConnInv
<1>2. QED
  BY <1>1, ConnInitial, ConnStep, PTL DEF Spec

-----------------------------------------------------------------------------
(* A GOOD answer                                                           *)

\* The SCSI handler answers a write GOOD only for all of its blocks.
LEMMA WriteStores ==
  ASSUME NEW cmd \in Commands, NEW k \in 0 .. cmd.len, cmd.op = "write",
         NEW r \in Execute(cmd, Data(cmd, k)), r.status = "GOOD"
  PROVE  r.done = Payload(cmd)
<1>1. r \in handleWrite(cmd, Data(cmd, k))
  BY DEF Execute
<1>2. Len(Data(cmd, k)) = k /\ k \in Nat /\ cmd.len \in Nat
  BY DataIsSeq DEF Commands
<1>3. CASE k < cmd.len
  BY <1>1, <1>2, <1>3 DEF handleWrite
<1>4. CASE k = cmd.len
  <2>1. r.done = SubSeq(Data(cmd, cmd.len), 1, cmd.len)
    BY <1>1, <1>2, <1>4 DEF handleWrite, DeviceCall
  <2>2. SubSeq(Data(cmd, cmd.len), 1, cmd.len) = Data(cmd, cmd.len)
    BY <1>2 DEF Data
  <2>3. QED
    BY <2>1, <2>2 DEF Payload
<1>5. QED
  BY <1>2, <1>3, <1>4

\* Whatever part of a command's data has come when it is executed, the answer
\* is right.
LEMMA ExecuteStores ==
  ASSUME NEW cmd \in Commands, NEW k \in 0 .. cmd.len,
         ExecuteAndRespond(cmd, Data(cmd, k))
  PROVE  GoodMeansStored'
<1>1. PICK r \in Execute(cmd, Data(cmd, k)) :
        exec' = [cmd |-> cmd, data |-> Data(cmd, k), done |-> r.done, status |-> r.status]
  BY DEF ExecuteAndRespond
<1>2. exec'.cmd = cmd /\ exec'.done = r.done /\ exec'.status = r.status
  BY <1>1
<1>3. QED
  BY <1>2, WriteStores DEF GoodMeansStored

LEMMA GoodStep == ConnInv /\ GoodMeansStored /\ [Next]_vars => GoodMeansStored'
<1> SUFFICES ASSUME ConnInv, GoodMeansStored, [Next]_vars PROVE GoodMeansStored'
  OBVIOUS
<1>1. ASSUME exec' = exec PROVE GoodMeansStored'
  BY <1>1 DEF GoodMeansStored
<1>2. ASSUME NEW c \in Conns, NEW t \in Tags, NEW cmd \in MaySend(c),
             handleSCSICommand(c, t, cmd)
      PROVE  GoodMeansStored'
  <2>1. cmd \in Commands /\ cmd.imm \in 0 .. cmd.len
    BY <1>2, Sendable DEF ConnInv, Shapes, handleSCSICommand
  <2>2. ExecuteAndRespond(cmd, Data(cmd, cmd.imm)) \/ exec' = exec
    BY <1>2 DEF handleSCSICommand, SolicitData, ExecuteNow
  <2>3. QED
    BY <1>1, <2>1, <2>2, ExecuteStores
<1>3. ASSUME NEW c \in Conns, NEW t \in Tags, NEW n \in 1 .. MaxLen, handleDataOut(c, t, n)
      PROVE  GoodMeansStored'
  <2>1. /\ task[c][t].cmd \in Commands /\ task[c][t].next \in Nat /\ n \in Nat
        /\ task[c][t].end = task[c][t].cmd.len /\ task[c][t].end \in Nat
        /\ pending[c][t] = task[c][t].cmd
        /\ buffers[c][t] = Data(task[c][t].cmd, task[c][t].next)
        /\ task[c][t].next + n <= task[c][t].end
    BY <1>3 DEF ConnInv, Shapes, Held, Holds, Tasks, handleDataOut
  <2>2. add(buffers[c][t], task[c][t].next,
            [i \in 1 .. n |-> <<task[c][t].cmd.id, task[c][t].next + i>>])
          = Data(task[c][t].cmd, task[c][t].next + n)
    BY <2>1, AddExtends
  <2>3. \/ exec' = exec
        \/ ExecuteAndRespond(pending[c][t], Data(task[c][t].cmd, task[c][t].next + n))
    BY <1>3, <2>2 DEF handleDataOut, DataIgnored, DataAdded, DataComplete
  <2>4. QED
    BY <1>1, <2>1, <2>3, ExecuteStores
<1>4. QED
  BY <1>1, <1>2, <1>3
     DEF Next, vars, Established, Refused, Drop, SessionEnds, handleNopOut, handleTextRequest,
         AnswerOnly, handleLogout, handleTMFRequest

\* A write is answered GOOD (handler.go, handleWrite) only when the device has
\* confirmed every block announced for it, also when the F bit made the target
\* execute it before its data had come.
THEOREM GoodAnswersTrue == Spec => []GoodMeansStored
<1>1. Init => GoodMeansStored
  BY DEF Init, GoodMeansStored
<1>2. QED
  BY <1>1, ConnInitial, ConnStep, GoodStep, PTL DEF Spec
-----------------------------------------------------------------------------
(* The session table                                                       *)

\* TSIHs are not used up: either one session at a time, or fewer logins than
\* there are numbers.
NoWrap == MaxSessions = 1 \/ MaxLogins < 2^TSIHBits

Used == {h \in TSIHs : sessions[h] # NoConn}

SessShapes ==
  /\ sessions \in [TSIHs -> Conns \cup {NoConn}]
  /\ nextTSIH \in TSIHs \cup {0}
  /\ phase \in [Conns -> {"down", "up", "closing"}]
  /\ tsih \in [Conns -> TSIHs \cup {0}]
  /\ logins \in Nat

\* Each session belongs to the one connection that has its number.
SessOwned ==
  /\ \A c \in Conns : phase[c] # "down" => tsih[c] \in TSIHs /\ sessions[tsih[c]] = c
  /\ \A h \in TSIHs : sessions[h] # NoConn =>
       tsih[sessions[h]] = h /\ phase[sessions[h]] # "down"

\* The numbers above the counter have not been given out.
SessFresh ==
  MaxLogins < 2^TSIHBits =>
    /\ nextTSIH <= logins
    /\ \A h \in TSIHs : sessions[h] # NoConn => h <= nextTSIH

SessInv == SessShapes /\ SessOwned /\ SessFresh /\ SessionCount <= MaxSessions

\* There are finitely many numbers.
LEMMA UsedFinite == IsFiniteSet(Used) /\ Cardinality(Used) \in Nat
<1>1. IsFiniteSet(TSIHs)
  BY FS_Interval, SessionAssumption DEF TSIHs
<1>2. Used \in SUBSET TSIHs
  BY DEF Used
<1>3. QED
  BY <1>1, <1>2, FS_Subset, FS_CardinalityType

\* The number after the counter is a TSIH, and its successor unless it wraps.
LEMMA AfterIsTSIH ==
  ASSUME NEW n \in TSIHs \cup {0}
  PROVE  /\ TSIHAfter(n) \in TSIHs
         /\ n + 1 < 2^TSIHBits => TSIHAfter(n) = n + 1
<1> DEFINE M == 2^TSIHBits
<1>1. M \in Int /\ M > 1 /\ n \in 0 .. M - 1
  BY SessionAssumption DEF TSIHs
<1> HIDE DEF M
<1>2. (n + 1) % M \in 0 .. M - 1 /\ (n + 1 < M => (n + 1) % M = n + 1)
  BY <1>1
<1>3. QED
  BY <1>1, <1>2 DEF TSIHAfter, TSIHs, M

\* A login that finds room gets a number nobody has.
LEMMA FreshNumber ==
  ASSUME NoWrap, SessInv, HasRoomFor, logins < MaxLogins
  PROVE  sessions[TSIHAfter(nextTSIH)] = NoConn
<1>1. TSIHAfter(nextTSIH) \in TSIHs
  BY AfterIsTSIH DEF SessInv, SessShapes
<1>2. CASE MaxSessions = 1
  <2>1. Cardinality(Used) < 1
    BY <1>2 DEF HasRoomFor, SessionCount, Used
  <2>2. Used = {}
    BY <2>1, UsedFinite, FS_EmptySet
  <2>3. QED
    BY <1>1, <2>2 DEF Used
<1>3. CASE MaxLogins < 2^TSIHBits
  <2> DEFINE M == 2^TSIHBits
  <2>1. /\ M \in Int /\ MaxLogins \in Nat /\ MaxLogins < M
        /\ logins \in Nat /\ nextTSIH <= logins /\ nextTSIH \in 0 .. M - 1
    BY <1>3, SessionAssumption, ConnectionAssumption DEF SessInv, SessShapes, SessFresh, TSIHs
  <2> HIDE DEF M
  <2>2. nextTSIH + 1 < M
    BY <2>1
  <2>3. TSIHAfter(nextTSIH) = nextTSIH + 1
    BY <2>2, AfterIsTSIH DEF SessInv, SessShapes, M
  <2>4. nextTSIH + 1 > nextTSIH
    BY <2>1
  <2>5. QED
    BY <1>1, <1>3, <2>1, <2>3, <2>4 DEF SessInv, SessFresh
<1>4. QED
  BY <1>2, <1>3 DEF NoWrap

\* CreateSession.
LEMMA SessionStarts ==
  ASSUME NoWrap, SessInv, NEW c \in Conns, NEW offer, NEW sn, Established(c, offer, sn)
  PROVE  SessInv'
<1> DEFINE n == TSIHAfter(nextTSIH)
<1>1. n \in TSIHs /\ sessions[n] = NoConn
  BY FreshNumber, AfterIsTSIH DEF Established, CreateSession, SessInv, SessShapes
<1>2. /\ phase[c] = "down" /\ logins < MaxLogins /\ HasRoomFor
      /\ phase' = [phase EXCEPT ![c] = "up"]
      /\ tsih' = [tsih EXCEPT ![c] = n]
      /\ sessions' = [sessions EXCEPT ![n] = c]
      /\ nextTSIH' = n /\ logins' = logins + 1
  BY DEF Established, CreateSession
<1>2a. MaxLogins < 2^TSIHBits => n = nextTSIH + 1
  <2> SUFFICES ASSUME MaxLogins < 2^TSIHBits PROVE n = nextTSIH + 1
    OBVIOUS
  <2> DEFINE M == 2^TSIHBits
  <2>1. /\ M \in Int /\ MaxLogins \in Nat /\ MaxLogins < M
        /\ logins \in Nat /\ nextTSIH <= logins /\ nextTSIH \in 0 .. M - 1
    BY SessionAssumption, ConnectionAssumption DEF SessInv, SessShapes, SessFresh, TSIHs
  <2> HIDE DEF M
  <2>2. nextTSIH + 1 < M
    BY <1>2, <2>1
  <2>3. QED
    BY <2>2, AfterIsTSIH DEF SessInv, SessShapes, M
<1> HIDE DEF n
<1>3. SessShapes'
  BY <1>1, <1>2 DEF SessInv, SessShapes
<1>4. SessOwned'
  <2>1. ASSUME NEW d \in Conns, phase'[d] # "down"
        PROVE  tsih'[d] \in TSIHs /\ sessions'[tsih'[d]] = d
    BY <1>1, <1>2, <2>1, SessionAssumption DEF SessInv, SessShapes, SessOwned
  <2>2. ASSUME NEW h \in TSIHs, sessions'[h] # NoConn
        PROVE  tsih'[sessions'[h]] = h /\ phase'[sessions'[h]] # "down"
    <3>1. CASE h = n
      BY <1>1, <1>2, <3>1 DEF SessInv, SessShapes
    <3>2. CASE h # n
      <4>1. sessions'[h] = sessions[h] /\ sessions[h] # c /\ sessions[h] \in Conns
        BY <1>1, <1>2, <2>2, <3>2 DEF SessInv, SessShapes, SessOwned
      <4>2. QED
        BY <1>2, <2>2, <4>1 DEF SessInv, SessShapes, SessOwned
    <3>3. QED
      BY <3>1, <3>2
  <2>3. QED
    BY <2>1, <2>2 DEF SessOwned
<1>5. SessFresh'
  <2> SUFFICES ASSUME MaxLogins < 2^TSIHBits
               PROVE  /\ nextTSIH' <= logins'
                      /\ \A h \in TSIHs : sessions'[h] # NoConn => h <= nextTSIH'
    BY DEF SessFresh
  <2>1. /\ nextTSIH <= logins /\ nextTSIH \in Int /\ logins \in Int
        /\ \A h \in TSIHs : sessions[h] # NoConn => h <= nextTSIH
        /\ \A h \in TSIHs : h \in Int
    BY SessionAssumption DEF SessInv, SessShapes, SessFresh, TSIHs
  <2>2. \A h \in TSIHs : sessions'[h] # NoConn => h = n \/ sessions[h] # NoConn
    BY <1>1, <1>2 DEF SessInv, SessShapes
  <2>3. nextTSIH' = nextTSIH + 1 /\ logins' = logins + 1
    BY <1>2, <1>2a
  <2>4. QED
    BY <1>2, <1>2a, <2>1, <2>2, <2>3
<1>6. SessionCount' <= MaxSessions
  <2>1. Used' = Used \cup {n}
    BY <1>1, <1>2, SessionAssumption DEF SessInv, SessShapes, Used
  <2>2. Cardinality(Used \cup {n})
          = IF n \in Used THEN Cardinality(Used) ELSE Cardinality(Used) + 1
    BY UsedFinite, FS_AddElement
  <2>3. Cardinality(Used) < MaxSessions
    BY <1>2 DEF HasRoomFor, SessionCount, Used
  <2>4. SessionCount' = Cardinality(Used')
    BY DEF SessionCount, Used
  <2>5. QED
    BY <2>1, <2>2, <2>3, <2>4, UsedFinite, SessionAssumption
<1>7. QED
  BY <1>3, <1>4, <1>5, <1>6 DEF SessInv

\* RemoveSession: the number is the connection's own, so nobody else loses one.
LEMMA SessionStops ==
  ASSUME SessInv, NEW c \in Conns, SessionEnds(c)
  PROVE  SessInv'
<1>1. /\ phase[c] = "closing"
      /\ sessions' = [sessions EXCEPT ![tsih[c]] = NoConn]
      /\ phase' = [phase EXCEPT ![c] = "down"]
      /\ tsih' = [tsih EXCEPT ![c] = 0]
      /\ nextTSIH' = nextTSIH /\ logins' = logins
  BY DEF SessionEnds, RemoveSession
<1>2. tsih[c] \in TSIHs /\ sessions[tsih[c]] = c
  BY <1>1 DEF SessInv, SessOwned
<1>3. SessShapes'
  BY <1>1, <1>2 DEF SessInv, SessShapes
<1>4. SessOwned'
  BY <1>1, <1>2 DEF SessInv, SessShapes, SessOwned
<1>5. SessFresh'
  BY <1>1, <1>2 DEF SessInv, SessShapes, SessFresh
<1>6. SessionCount' <= MaxSessions
  <2>1. Used' = Used \ {tsih[c]}
    BY <1>1, <1>2 DEF SessInv, SessShapes, Used
  <2>2. Cardinality(Used \ {tsih[c]}) \in Int /\ Cardinality(Used \ {tsih[c]}) <= Cardinality(Used)
    BY UsedFinite, FS_RemoveElement
  <2>3. Cardinality(Used) <= MaxSessions
    BY DEF SessInv, SessionCount, Used
  <2>4. SessionCount' = Cardinality(Used')
    BY DEF SessionCount, Used
  <2>5. QED
    BY <2>1, <2>2, <2>3, <2>4, UsedFinite, SessionAssumption
<1>7. QED
  BY <1>3, <1>4, <1>5, <1>6 DEF SessInv

LEMMA SessStep == ASSUME NoWrap PROVE SessInv /\ [Next]_vars => SessInv'
<1> SUFFICES ASSUME SessInv, [Next]_vars PROVE SessInv'
  OBVIOUS
<1>1. ASSUME UNCHANGED <<sessions, nextTSIH, phase, tsih>>, logins' \in {logins, logins + 1}
      PROVE  SessInv'
  <2>1. SessShapes' /\ SessOwned' /\ SessionCount' <= MaxSessions
    BY <1>1 DEF SessInv, SessShapes, SessOwned, SessionCount
  <2>2. SessFresh'
    <3>1. nextTSIH \in Int /\ logins \in Int
      BY SessionAssumption DEF SessInv, SessShapes, TSIHs
    <3>2. QED
      BY <1>1, <3>1 DEF SessInv, SessFresh
  <2>3. QED
    BY <2>1, <2>2 DEF SessInv
<1>2. ASSUME NEW c \in Conns, phase[c] = "up", phase' = [phase EXCEPT ![c] = "closing"],
             UNCHANGED <<sessions, nextTSIH, tsih, logins>>
      PROVE  SessInv'
  BY <1>2 DEF SessInv, SessShapes, SessOwned, SessFresh, SessionCount
<1>3. ASSUME NEW c \in Conns, Drop(c) \/ handleLogout(c) PROVE SessInv'
  BY <1>2, <1>3 DEF Drop, handleLogout, RunReturns, sessVars
<1>4. ASSUME NEW c \in Conns,
             \/ Refused(c) \/ AnswerOnly(c)
             \/ \E t \in Tags : \/ handleTMFRequest(c, t)
                                \/ \E cmd \in MaySend(c) : handleSCSICommand(c, t, cmd)
                                \/ \E n \in 1 .. MaxLen : handleDataOut(c, t, n)
      PROVE  SessInv'
  <2>1. UNCHANGED <<sessions, nextTSIH, phase, tsih>> /\ logins' \in {logins, logins + 1}
    BY <1>4 DEF Refused, AnswerOnly, handleTMFRequest, handleSCSICommand, handleDataOut,
                sessVars, connVars
  <2>2. QED
    BY <1>1, <2>1
<1>5. CASE UNCHANGED vars
  BY <1>1, <1>5 DEF vars, sessVars, connVars
<1>6. QED
  BY <1>3, <1>4, <1>5, SessionStarts, SessionStops
     DEF Next, handleNopOut, handleTextRequest

\* The connections that have a session are no more than the sessions.
LEMMA SessionsLimit ==
  ASSUME SessInv
  PROVE  Cardinality({c \in Conns : phase[c] # "down"}) <= MaxSessions
<1> DEFINE U == {c \in Conns : phase[c] # "down"}
           f == [c \in U |-> tsih[c]]
<1>1. f \in [U -> Used]
  BY SessionAssumption DEF SessInv, SessOwned, Used
<1>2. \A c, d \in U : f[c] = f[d] => c = d
  BY DEF SessInv, SessOwned
<1>3. f \in Injection(U, Used)
  BY <1>1, <1>2 DEF Injection, IsInjective
<1> HIDE DEF f
<1>4. IsFiniteSet(U) /\ Cardinality(U) <= Cardinality(Used)
  BY <1>3, UsedFinite, FS_Injection
<1>5. Cardinality(U) \in Nat
  BY <1>4, FS_CardinalityType
<1>6. Cardinality(Used) <= MaxSessions
  BY DEF SessInv, SessionCount, Used
<1> HIDE DEF U
<1>7. Cardinality(U) <= MaxSessions
  BY <1>4, <1>5, <1>6, UsedFinite, SessionAssumption
<1>8. QED
  BY <1>7 DEF U

\* As long as TSIHs do not wrap onto one in use, the session table (session.go,
\* CreateSession, RemoveSession) holds exactly the sessions of the connections
\* that are there, and no more than Target.MaxSessions, for any number of
\* connections that come and go.
THEOREM SessionTableExact == ASSUME NoWrap PROVE Spec => []SessionsExact
<1>1. Init => SessInv
  <2> SUFFICES ASSUME Init PROVE SessInv
    OBVIOUS
  <2>1. SessShapes /\ SessOwned /\ SessFresh
    BY SessionAssumption DEF Init, SessInit, SessShapes, SessOwned, SessFresh
  <2>2. Used = {}
    BY DEF Init, SessInit, Used
  <2>3. SessionCount = 0
    BY <2>2, FS_EmptySet DEF SessionCount, Used
  <2>4. QED
    BY <2>1, <2>3, SessionAssumption DEF SessInv
<1>2. SessInv => SessionsExact
  BY SessionsLimit DEF SessInv, SessOwned, SessionsExact
<1>3. SessInv /\ [Next]_vars => SessInv'
  BY SessStep
<1>4. QED
  BY <1>1, <1>2, <1>3, PTL DEF Spec
-----------------------------------------------------------------------------
(* Types                                                                   *)

\* The type of a task, with its numbers bounded by the longest transfer.
BoundedTasks == [st : {"idle", "data"}, cmd : Commands \cup {NoCmd},
                 next : 0 .. MaxLen, end : 0 .. MaxLen]

\* StatSN is taken modulo its width.
LEMMA NextSN ==
  ASSUME NEW c \in Conns, statSN[c] \in StatSNs
  PROVE  nextStatSN(c) \in StatSNs
<1> DEFINE M == 2^SNBits
<1>1. M \in Int /\ M > 0 /\ statSN[c] \in 0 .. M - 1
  BY ConnectionAssumption DEF StatSNs
<1> HIDE DEF M
<1>2. (statSN[c] + 1) % M \in 0 .. M - 1
  BY <1>1
<1>3. QED
  BY <1>2 DEF nextStatSN, StatSNs, M

LEMMA AnswerTyped ==
  ASSUME TypeOK, NEW c \in Conns, Answer(c)
  PROVE  statSN' \in [Conns -> StatSNs] /\ seen' \in [Conns -> StatSNs]
<1>1. nextStatSN(c) \in StatSNs
  BY NextSN DEF TypeOK
<1>2. QED
  BY <1>1 DEF TypeOK, Answer

\* A buffer that holds a part of a command's data is not too long.
LEMMA DataFits ==
  ASSUME NEW cmd \in Commands, NEW k \in 0 .. cmd.len
  PROVE  Len(Data(cmd, k)) \in 0 .. MaxLen
<1>1. cmd.len \in 1 .. MaxLen /\ MaxLen \in Nat
  BY ConnectionAssumption DEF Commands
<1>2. QED
  BY <1>1, DataIsSeq

\* The buffers keep their bound when one tag gets a buffer that has it.
LEMMA BufferTyped ==
  ASSUME ConnInv, TypeOK, NEW c \in Conns, NEW t \in Tags, NEW b,
         b # NoBuf => Len(b) \in 0 .. MaxLen,
         buffers' = [buffers EXCEPT ![c][t] = b]
  PROVE  \A d \in Conns, u \in Tags :
           buffers'[d][u] # NoBuf => Len(buffers'[d][u]) \in 0 .. MaxLen
  BY DEF ConnInv, Shapes, TypeOK

LEMMA CommandTyped ==
  ASSUME ConnInv, TypeOK, NEW c \in Conns, NEW t \in Tags, NEW cmd \in MaySend(c),
         handleSCSICommand(c, t, cmd)
  PROVE  TypeOK'
<1>1. cmd \in Commands /\ cmd.imm \in 0 .. cmd.len
  BY Sendable DEF ConnInv, Shapes, handleSCSICommand
<1>2. statSN' \in [Conns -> StatSNs] /\ seen' \in [Conns -> StatSNs]
  BY AnswerTyped DEF handleSCSICommand
<1>3. pending' \in [Conns -> [Tags -> Commands \cup {NoCmd}]]
  <2>1. CASE pending' = pending
    BY <2>1 DEF TypeOK
  <2>2. CASE pending' = [pending EXCEPT ![c][t] = cmd]
    BY <1>1, <2>2 DEF TypeOK
  <2>3. QED
    BY <2>1, <2>2 DEF handleSCSICommand, Remember
<1>4. issued' \in 0 .. MaxCmds
  BY ConnectionAssumption DEF handleSCSICommand, TypeOK
<1>5. Sending(cmd) \in BoundedTasks
  <2>1. cmd.len \in 1 .. MaxLen /\ MaxLen \in Nat /\ cmd.imm \in 0 .. MaxLen
    BY <1>1, ConnectionAssumption DEF Commands
  <2>2. QED
    BY <1>1, <2>1 DEF Sending, BoundedTasks
<1>6. task' \in [Conns -> [Tags -> BoundedTasks]]
  <2>1. task' = task \/ task' = [task EXCEPT ![c][t] = Sending(cmd)]
    BY DEF handleSCSICommand, SolicitData, ExecuteNow
  <2>2. task \in [Conns -> [Tags -> BoundedTasks]]
    BY DEF TypeOK, BoundedTasks
  <2>3. QED
    BY <1>5, <2>1, <2>2
<1>7. \A d \in Conns, u \in Tags :
        buffers'[d][u] # NoBuf => Len(buffers'[d][u]) \in 0 .. MaxLen
  <2>1. CASE buffers' = buffers
    BY <2>1 DEF TypeOK
  <2>2. CASE buffers' = [buffers EXCEPT ![c][t] = Data(cmd, cmd.imm)]
    BY <1>1, <2>2, DataFits, BufferTyped
  <2>3. QED
    BY <1>1, <2>1, <2>2, AddFirst DEF handleSCSICommand, SolicitData, ExecuteNow
<1>8. UNCHANGED <<sessions, nextTSIH, phase, tsih, params, logins>>
  BY DEF handleSCSICommand, sessVars
<1>9. QED
  BY <1>2, <1>3, <1>4, <1>6, <1>7, <1>8 DEF TypeOK, BoundedTasks

LEMMA DataOutTyped ==
  ASSUME ConnInv, TypeOK, NEW c \in Conns, NEW t \in Tags, NEW n \in 1 .. MaxLen,
         handleDataOut(c, t, n)
  PROVE  TypeOK'
<1> DEFINE k == task[c][t]
           b == add(buffers[c][t], k.next, [i \in 1 .. n |-> <<k.cmd.id, k.next + i>>])
<1>1. /\ k.cmd \in Commands /\ k.next \in Nat /\ n \in Nat
      /\ k.end = k.cmd.len /\ k.end \in Nat /\ k \in BoundedTasks
      /\ pending[c][t] = k.cmd
      /\ buffers[c][t] = Data(k.cmd, k.next)
      /\ k.next + n <= k.end
  BY DEF ConnInv, Shapes, TypeOK, BoundedTasks, Held, Holds, Tasks, handleDataOut
<1>2. b = Data(k.cmd, k.next + n)
  BY <1>1, AddExtends
<1>3. b # NoBuf => Len(b) \in 0 .. MaxLen
  BY <1>1, <1>2, DataFits
<1>4. buffers[c][t] # NoBuf
  BY <1>1, DataIsSeq, ConnectionAssumption
<1>5. \/ DataAdded(c, t, b, n)
      \/ DataComplete(c, t, b, n)
  BY <1>4 DEF handleDataOut
<1> HIDE DEF b
<1>6. UNCHANGED <<sessions, nextTSIH, phase, tsih, params, issued, logins>>
  BY DEF handleDataOut, sessVars
<1>7. CASE DataAdded(c, t, b, n)
  <2>1. \A d \in Conns, u \in Tags :
          buffers'[d][u] # NoBuf => Len(buffers'[d][u]) \in 0 .. MaxLen
    BY <1>3, <1>7, BufferTyped DEF DataAdded
  <2>2. [k EXCEPT !.next = @ + n] \in BoundedTasks
    <3>1. k.next + n \in 0 .. MaxLen
      <4>1. k.end \in 0 .. MaxLen /\ MaxLen \in Nat
        BY <1>1, ConnectionAssumption DEF BoundedTasks
      <4> HIDE DEF k
      <4>2. QED
        BY <1>1, <4>1
    <3>2. QED
      BY <1>1, <3>1 DEF BoundedTasks
  <2>3. task' = [task EXCEPT ![c][t] = [k EXCEPT !.next = @ + n]]
    BY <1>7 DEF DataAdded, Sent, TypeOK
  <2>4. task' \in [Conns -> [Tags -> BoundedTasks]]
    BY <2>2, <2>3 DEF TypeOK, BoundedTasks
  <2>5. QED
    BY <1>6, <1>7, <2>1, <2>4 DEF DataAdded, TypeOK, BoundedTasks
<1>8. CASE DataComplete(c, t, b, n)
  <2>1. pending[c][t] # NoCmd
    BY <1>1, ConnectionAssumption
  <2>2. /\ buffers' = [buffers EXCEPT ![c][t] = NoBuf]
        /\ pending' = [pending EXCEPT ![c][t] = NoCmd]
        /\ task' = [task EXCEPT ![c][t] = Idle]
        /\ Answer(c)
    BY <1>8, <2>1 DEF DataComplete, Answer
  <2>3. statSN' \in [Conns -> StatSNs] /\ seen' \in [Conns -> StatSNs]
    BY <2>2, AnswerTyped
  <2>4. \A d \in Conns, u \in Tags :
          buffers'[d][u] # NoBuf => Len(buffers'[d][u]) \in 0 .. MaxLen
    BY <2>2, BufferTyped
  <2>5. Idle \in BoundedTasks
    BY ConnectionAssumption DEF Idle, BoundedTasks
  <2>6. /\ task' \in [Conns -> [Tags -> BoundedTasks]]
        /\ pending' \in [Conns -> [Tags -> Commands \cup {NoCmd}]]
    BY <2>2, <2>5 DEF TypeOK, BoundedTasks
  <2>7. QED
    BY <1>6, <2>3, <2>4, <2>6 DEF TypeOK, BoundedTasks
<1>9. QED
  BY <1>5, <1>7, <1>8

LEMMA EndTyped ==
  ASSUME TypeOK, NEW c \in Conns, RunReturns(c), ConnInv,
         UNCHANGED <<sessions, nextTSIH, tsih, issued, logins>>
  PROVE  TypeOK'
<1>1. Idle \in BoundedTasks /\ DefaultTargetParams \in Offers
  BY ConnectionAssumption DEF Idle, BoundedTasks, DefaultTargetParams, Offers
<1>2. 0 \in StatSNs
  BY ConnectionAssumption DEF StatSNs
<1>3. /\ task' \in [Conns -> [Tags -> BoundedTasks]]
      /\ pending' \in [Conns -> [Tags -> Commands \cup {NoCmd}]]
      /\ statSN' \in [Conns -> StatSNs] /\ seen' \in [Conns -> StatSNs]
      /\ params' \in [Conns -> Offers]
      /\ phase' \in [Conns -> {"down", "up", "closing"}]
  BY <1>1, <1>2 DEF TypeOK, BoundedTasks, RunReturns
<1>4. \A d \in Conns, u \in Tags :
        buffers'[d][u] # NoBuf => Len(buffers'[d][u]) \in 0 .. MaxLen
  BY DEF TypeOK, RunReturns, ConnInv, Shapes
<1>5. QED
  BY <1>3, <1>4 DEF TypeOK, BoundedTasks

LEMMA TypeStep == ConnInv /\ TypeOK /\ [Next]_vars => TypeOK'
<1> SUFFICES ASSUME ConnInv, TypeOK, [Next]_vars PROVE TypeOK'
  OBVIOUS
<1>1. ASSUME NEW c \in Conns, NEW offer \in Offers, NEW sn \in StatSNs,
             Established(c, offer, sn)
      PROVE  TypeOK'
  <2>1. TSIHAfter(nextTSIH) \in TSIHs
    BY AfterIsTSIH DEF TypeOK
  <2>2. NegotiateParams(offer) \in Offers
    BY DEF NegotiateParams, DefaultTargetParams, Offers
  <2>3. /\ sessions' \in [TSIHs -> Conns \cup {NoConn}]
        /\ nextTSIH' \in TSIHs \cup {0}
        /\ tsih' \in [Conns -> TSIHs \cup {0}]
        /\ params' \in [Conns -> Offers]
    BY <1>1, <2>1, <2>2 DEF Established, CreateSession, TypeOK
  <2>4. /\ phase' \in [Conns -> {"down", "up", "closing"}]
        /\ statSN' \in [Conns -> StatSNs] /\ seen' \in [Conns -> StatSNs]
        /\ logins' \in 0 .. MaxLogins
    BY <1>1, ConnectionAssumption DEF Established, TypeOK
  <2>5. QED
    BY <1>1, <2>3, <2>4 DEF Established, TypeOK
<1>2. ASSUME NEW c \in Conns, Refused(c) PROVE TypeOK'
  BY <1>2, ConnectionAssumption DEF Refused, sessVars, connVars, TypeOK
<1>3. ASSUME NEW c \in Conns, Drop(c) \/ handleLogout(c) PROVE TypeOK'
  BY <1>3, EndTyped DEF Drop, handleLogout, sessVars
<1>4. ASSUME NEW c \in Conns, SessionEnds(c) PROVE TypeOK'
  BY <1>4 DEF SessionEnds, RemoveSession, TypeOK
<1>5. ASSUME NEW c \in Conns, AnswerOnly(c) PROVE TypeOK'
  <2>1. statSN' \in [Conns -> StatSNs] /\ seen' \in [Conns -> StatSNs]
    BY <1>5, AnswerTyped DEF AnswerOnly
  <2>2. QED
    BY <1>5, <2>1 DEF AnswerOnly, sessVars, TypeOK
<1>6. ASSUME NEW c \in Conns, NEW t \in Tags, handleTMFRequest(c, t) PROVE TypeOK'
  <2>1. statSN' \in [Conns -> StatSNs] /\ seen' \in [Conns -> StatSNs]
    BY <1>6, AnswerTyped DEF handleTMFRequest
  <2>2. Idle \in BoundedTasks
    BY ConnectionAssumption DEF Idle, BoundedTasks
  <2>3. task' \in [Conns -> [Tags -> BoundedTasks]]
    BY <1>6, <2>2 DEF handleTMFRequest, TypeOK, BoundedTasks
  <2>4. QED
    BY <1>6, <2>1, <2>3 DEF handleTMFRequest, sessVars, TypeOK, BoundedTasks
<1>7. CASE UNCHANGED vars
  BY <1>7 DEF vars, sessVars, connVars, TypeOK
<1>8. QED
  BY <1>1, <1>2, <1>3, <1>4, <1>5, <1>6, <1>7, CommandTyped, DataOutTyped
     DEF Next, handleNopOut, handleTextRequest

\* The connection's state keeps its types; in particular no reassembly buffer
\* (data_out.go), in use or left behind by an abort, outgrows the longest
\* transfer.
THEOREM ConnectionTypeCorrect == Spec => []TypeOK
<1>1. Init => TypeOK
  BY ConnectionAssumption, SessionAssumption
     DEF Init, SessInit, TypeOK, Idle, DefaultTargetParams, Offers, StatSNs
<1>2. QED
  BY <1>1, ConnInitial, ConnStep, TypeStep, PTL DEF Spec
=============================================================================
