--------------------------- MODULE RecoveryProofs ---------------------------
(***************************************************************************)
(* Crashes and restarts, any number of them, at any step.                  *)
(*                                                                         *)
(* What the proofs of ZTLProofs, ZTLTableProofs and ZTLZoneProofs rest on  *)
(* is not the initial state but a process that has just started (Fresh),   *)
(* on whatever device, log and table.  Here Crash is shown to lead to such *)
(* a process: replay gives a table of addresses and, as long as the log    *)
(* has no ZONE_RESET record, Recover leaves the zone manager that          *)
(* Initialize builds from the device.  The invariants then hold again, and *)
(* so do the properties they were proved for.                              *)
(*                                                                         *)
(* FlushedSurvivesCrashes and TablesSurviveCrashes are about the data.  A  *)
(* crash loses the LBAs that were not flushed, so DiskInv is kept of a set *)
(* of LBAs that has all the others.  That these survive takes two facts    *)
(* about what is clean, flushed and not touched since: the part of the log *)
(* that may be cut off has no record of a clean segment (CleanLogged), and *)
(* a clean segment is on the device, not in a buffer (CleanWritten).       *)
(***************************************************************************)
EXTENDS ZTLZoneProofs, Recovery

-----------------------------------------------------------------------------
(* The log before the first collection *)

\* No zone has been reset, and every address logged is one.
LogData ==
  \A i \in 1 .. Len(wal) :
    wal[i].kind # "RESET" /\ (wal[i].kind = "L2P" => wal[i].new \in Nat)

\* A record of an update or of the opening of a zone is appended.
LEMMA LogDataGrows ==
  ASSUME IsSeq(wal), LogData, NEW x, wal' = Append(wal, x),
         x.kind # "RESET", x.kind = "L2P" => x.new \in Nat
  PROVE  LogData'
<1>1. /\ Len(wal) \in Nat /\ Len(wal') = Len(wal) + 1 /\ wal'[Len(wal) + 1] = x
      /\ \A i \in 1 .. Len(wal) : wal'[i] = wal[i]
  BY AppendGrows
<1> QED
  BY <1>1 DEF LogData

LEMMA LogDataSteps ==
  ASSUME LogInv, DataInv, DataInv', Quiet, LogData, cycles' = 0, [Next]_vars
  PROVE  LogData'
<1>0. /\ IsSeq(wal)
      /\ \A z : ZoneOpenRecord(z).kind = "OPEN"
      /\ \A s, o, n : L2PRecord(s, o, n).kind = "L2P" /\ L2PRecord(s, o, n).new = n
  BY DEF LogInv, Shapes, LogShape, ZoneOpenRecord, L2PRecord
<1>1. ASSUME UNCHANGED wal
      PROVE  LogData'
  BY <1>1 DEF LogData
<1>2. CASE UNCHANGED vars
  BY <1>1, <1>2 DEF vars, mapVars
<1>3. CASE \E t \in Flushers : FlusherWork(t)
  BY <1>1, <1>3 DEF FlusherWork, flushAged, flushAgedDone, FlushStep, FlushTake, FlushOpen,
     FlushWrite, FlushPoint, FlushNext, mapVars
<1>4. ASSUME NEW t \in Clients, Issue(t) \/ FlushStep(t) \/ FlushNext(t)
      PROVE  LogData'
  BY <1>1, <1>4 DEF Issue, Write, Unmap, Flush, FlushStep, FlushTake, FlushOpen, FlushWrite,
     FlushPoint, FlushNext, mapVars
<1>5. ASSUME NEW t \in Clients, ClientStep(t)
      PROVE  LogData'
  <2>1. CASE WriteLock(t)
    BY <1>0, <1>1, <2>1, LogDataGrows DEF WriteLock, LogZoneOpen
  <2>2. CASE WriteLog(t)
    <3> DEFINE new == EncodePhysAddr(cmd[t].zone, zm.wp[cmd[t].zone] - zoneStartLBA(cmd[t].zone))
    <3>1. /\ wal' = Append(wal, L2PRecord(cmd[t].seg, L2PGet(l2p, cmd[t].seg), new))
          /\ cmd' = [cmd EXCEPT ![t].wp = zm.wp[cmd[t].zone], ![t].old = L2PGet(l2p, cmd[t].seg),
                                ![t].new = new]
      BY <2>2 DEF WriteLog, LogL2PUpdate
    <3> HIDE DEF new
    <3>2. cmd'[t].new = new
      BY <3>1 DEF LogInv, Shapes, CmdShape, CmdRec
    <3>3. new \in Nat
      BY <3>2 DEF DataInv, CmdsData, CmdData
    <3> QED
      BY <1>0, <3>1, <3>3, LogDataGrows
  <2>3. CASE UnmapLog(t)
    BY <1>0, <1>1, <2>3, LogDataGrows DEF UnmapLog, LogL2PUpdate, Unmapped
  <2>4. CASE ~WriteLock(t) /\ ~WriteLog(t) /\ ~UnmapLog(t)
    <3>1. RunEmergencyGC(t) => UNCHANGED wal
      BY DEF RunEmergencyGC, SelectVictim, mapVars
    <3> QED
      BY <1>1, <1>5, <2>4, <3>1 DEF ClientStep, SetL2P, SetL2PFails, WriteMaps, WriteAdd,
         WriteRelock, UnmapLock, UnmapMaps, FlushDone, Commit, Fail, mapVars
  <2> QED
    BY <2>1, <2>2, <2>3, <2>4
<1> QED
  BY <1>2, <1>3, <1>4, <1>5, NotCollecting

-----------------------------------------------------------------------------
(* What recovery finds *)

\* Nothing to fold over.
LEMMA NoResets ==
  ASSUME NEW m, NEW s, DOMAIN s = {}
  PROVE  FoldLeft(MarkEmpty, m, s) = m
<1> DEFINE iter == CHOOSE f : f = [x \in SUBSET {} |->
                     IF x = {} THEN m ELSE MarkEmpty(f[x \ {Max(x)}], s[Max(x)])]
<1>1. FoldLeft(MarkEmpty, m, s) = iter[{}]
  BY DEF FoldLeft, MapThenFoldSet
<1>2. PICK g : g = [x \in {{}} |-> m]
  OBVIOUS
<1>3. g = [x \in SUBSET {} |-> IF x = {} THEN m ELSE MarkEmpty(g[x \ {Max(x)}], s[Max(x)])]
  <2>1. SUBSET {} = {{}}
    OBVIOUS
  <2> QED
    BY <1>2, <2>1
<1>4. iter = [x \in SUBSET {} |-> IF x = {} THEN m ELSE MarkEmpty(iter[x \ {Max(x)}], s[Max(x)])]
  BY <1>3
<1> QED
  BY <1>1, <1>4

\* From a log without resets the zone manager is what Initialize makes it.
LEMMA RecoveredFresh ==
  ASSUME NEW w, \A i \in 1 .. Len(w) : w[i].kind # "RESET", NEW d
  PROVE  RecoveredZM(w, d) = Initialize(d)
<1> DEFINE at == {i \in 1 .. Len(w) : w[i].kind = "RESET"}
<1>1. at = {}
  OBVIOUS
<1>2. DOMAIN Ascending({}) = {}
  BY FS_EmptySet DEF Ascending
<1>3. DOMAIN ResetZones(w) = {}
  BY <1>1, <1>2 DEF ResetZones
<1>4. RecoveredZM(w, d) = ReconcileFromDevice(Initialize(d), d)
  BY <1>3, NoResets DEF RecoveredZM
<1>5. /\ [z \in Zones |-> ReportZones(d, 0, 0)[z].state] = [z \in Zones |-> d.st[z]]
      /\ [z \in Zones |-> ReportZones(d, 0, 0)[z].wp] = [z \in Zones |-> d.wp[z]]
  <2>1. ReportedZones(0, 0) = Zones
    BY DeviceAssumption DEF ReportedZones, zoneIndex, Zones
  <2>2. \A z \in Zones : ReportZones(d, 0, 0)[z].state = d.st[z] /\ ReportZones(d, 0, 0)[z].wp = d.wp[z]
    BY <2>1 DEF ReportZones
  <2> QED
    BY <2>2
<1>6. ReconcileFromDevice(Initialize(d), d) = Initialize(d)
  <2> DEFINE m == Initialize(d)
             st == [z \in Zones |-> d.st[z]]
             wp == [z \in Zones |-> d.wp[z]]
  <2>1. ReconcileFromDevice(m, d) = [m EXCEPT !.st = st, !.wp = wp]
    BY <1>5, Zenon DEF ReconcileFromDevice
  <2>2. PICK a, b, f, l, o, e :
          m = [st |-> st, wp |-> wp, valid |-> a, total |-> b,
               free |-> f, lru |-> l, open |-> o, frozen |-> e]
    BY Initialized
  <2> HIDE DEF m, st, wp
  <2>3. [m EXCEPT !.st = st] = m
    BY <2>2
  <2>4. [m EXCEPT !.wp = wp] = m
    BY <2>2
  <2>5. [[m EXCEPT !.st = st] EXCEPT !.wp = wp] = m
    BY <2>3, <2>4
  <2> QED
    BY <2>1, <2>5 DEF m
<1> QED
  BY <1>4, <1>6

\* What is left of a log.
LEMMA LeftOfLog ==
  ASSUME NEW w, IsSeq(w), NEW k \in 0 .. Len(w)
  PROVE  /\ IsSeq(SubSeq(w, 1, k)) /\ Len(SubSeq(w, 1, k)) = k
         /\ \A i \in 1 .. k : SubSeq(w, 1, k)[i] = w[i]
<1> DEFINE S == {w[i] : i \in DOMAIN w}
           v == SubSeq(w, 1, k)
<1>1. w \in Seq(S) /\ Len(w) \in Nat /\ k \in Nat
  BY DEF IsSeq
<1> HIDE DEF S
<1>2. v \in Seq(S) /\ Len(v) = k /\ \A i \in 1 .. k : v[i] = w[i]
  BY <1>1
<1> HIDE DEF v
<1>3. IsSeq(v)
  BY <1>1, <1>2 DEF IsSeq
<1> QED
  BY <1>2, <1>3 DEF v

\* A table that is replayed has an address of the log, or none, everywhere.
LEMMA ReplayData ==
  ASSUME NEW w, Len(w) \in Nat,
         \A i \in 1 .. Len(w) : w[i].kind = "L2P" => w[i].new \in Nat
  PROVE  Replay(w) \in [SegIDs -> Nat]
<1>1. ASSUME NEW s \in SegIDs
      PROVE  Final(w, s) \in Nat
  <2>1. CASE Updates(w, s) = {}
    BY <2>1 DEF Final, Unmapped
  <2>2. CASE Updates(w, s) # {}
    <3>1. Updates(w, s) \in SUBSET (1 .. Len(w))
      BY DEF Updates
    <3>2. Max(Updates(w, s)) \in Updates(w, s)
      BY <2>2, <3>1, LastPosition
    <3> QED
      BY <2>2, <3>2 DEF Final, Updates
  <2> QED
    BY <2>1, <2>2
<1> QED
  BY <1>1, ReplayIs

-----------------------------------------------------------------------------
(* A crash *)

\* Whatever the process was doing, it starts again with what the log has.
LEMMA CrashRestarts ==
  ASSUME LogInv, Crash
  PROVE  \E k \in durable .. Len(wal) :
           /\ k \in 0 .. Len(wal) /\ wal' = SubSeq(wal, 1, k) /\ durable' = k
           /\ l2p' = Replay(wal') /\ p2l' = {} /\ zm' = RecoveredZM(wal', dev)
           /\ buf' = [z \in Zones |-> NoBuffer]
           /\ pc' = [t \in Threads |-> "idle"]
           /\ fl' = [t \in Threads |-> NoFlush]
           /\ gc' = [t \in Threads |-> NoGC]
           /\ mu' = NoOne
           /\ cur' = [zone |-> 0, open |-> FALSE]
           /\ cmd' = [t \in Clients |-> NoCmd]
           /\ UNCHANGED <<dev, cycles, cmds, promised>>
           /\ up' = Replayable(wal')
<1>1. PICK k \in durable .. Len(wal) : Restart(SubSeq(wal, 1, k))
  BY DEF Crash
<1>2. k \in 0 .. Len(wal)
  BY DEF LogInv, Shapes, LogShape
<1>3. Len(SubSeq(wal, 1, k)) = k
  BY <1>2, LeftOfLog DEF LogInv, Shapes, LogShape
<1> QED
  BY <1>1, <1>2, <1>3 DEF Restart, RecoveredL2P

LEMMA CrashLog ==
  ASSUME LogInv, Crash
  PROVE  LogInv'
<1>1. PICK k \in 0 .. Len(wal) :
        /\ wal' = SubSeq(wal, 1, k) /\ durable' = k /\ l2p' = Replay(wal')
        /\ pc' = [t \in Threads |-> "idle"]
        /\ fl' = [t \in Threads |-> NoFlush]
        /\ gc' = [t \in Threads |-> NoGC]
        /\ cmd' = [t \in Clients |-> NoCmd]
        /\ UNCHANGED dev
  BY CrashRestarts
<1>2. LogShape'
  <2>1. Len(wal) \in Nat /\ k \in Nat
    BY DEF LogInv, Shapes, LogShape, IsSeq
  <2>2. IsSeq(SubSeq(wal, 1, k)) /\ Len(SubSeq(wal, 1, k)) = k
    <3>1. IsSeq(wal)
      BY DEF LogInv, Shapes, LogShape
    <3> QED
      BY <3>1, LeftOfLog
  <2>3. wal' = SubSeq(wal, 1, k) /\ durable' = k
    BY <1>1
  <2>4. IsSeq(wal') /\ durable' \in Nat /\ durable' <= Len(wal')
    BY <2>1, <2>2, <2>3
  <2> QED
    BY <2>4 DEF LogShape
<1>3. L2PShape'
  <2>1. l2p' = [s \in SegIDs |-> Final(wal', s)]
    BY <1>1, ReplayIs
  <2> QED
    BY <2>1 DEF L2PShape
<1>4. DevRec(dev') /\ PCShape'
  BY <1>1 DEF PCShape, LogInv, Shapes
<1>5. FlShape' /\ GCShape' /\ CmdShape'
  BY <1>1, FreshFl, FreshGC, FreshCmd DEF FlShape, GCShape, CmdShape
<1>6. \A t \in Threads : Own(t)'
  BY <1>1 DEF Own, Collecting
<1> QED
  BY <1>2, <1>3, <1>4, <1>5, <1>6 DEF LogInv, Shapes

LEMMA CrashTable ==
  ASSUME LogInv, TableInv, Crash
  PROVE  TableInv'
<1>1. /\ pc' = [t \in Threads |-> "idle"] /\ mu' = NoOne /\ l2p' = Replay(wal')
      /\ UNCHANGED cycles
  BY CrashRestarts
<1>2. LockInv' /\ Quiet'
  BY <1>1, ClientsAreThreads DEF TableInv, LockInv, Quiet, Locked, Collecting
<1>3. Published' = l2p'
  BY <1>1, NoOneIsNone DEF Published
<1> QED
  BY <1>1, <1>2, <1>3 DEF TableInv, ReplayInv

\* Before the first collection, the process is fresh again.
LEMMA CrashFresh ==
  ASSUME LogInv, DataInv, LogData, Crash
  PROVE  Fresh' /\ DataInv' /\ LogData'
<1>1. PICK k \in durable .. Len(wal) :
           /\ k \in 0 .. Len(wal) /\ wal' = SubSeq(wal, 1, k) /\ durable' = k
           /\ l2p' = Replay(wal') /\ p2l' = {} /\ zm' = RecoveredZM(wal', dev)
           /\ buf' = [z \in Zones |-> NoBuffer]
           /\ pc' = [t \in Threads |-> "idle"]
           /\ fl' = [t \in Threads |-> NoFlush]
           /\ gc' = [t \in Threads |-> NoGC]
           /\ mu' = NoOne
           /\ cur' = [zone |-> 0, open |-> FALSE]
           /\ cmd' = [t \in Clients |-> NoCmd]
           /\ UNCHANGED <<dev, cycles, cmds, promised>>
  BY CrashRestarts
<1>2. Len(wal') = k /\ \A i \in 1 .. k : i \in 1 .. Len(wal) /\ wal'[i] = wal[i]
  <2>1. Len(wal) \in Nat /\ k \in Nat
    BY <1>1 DEF LogInv, Shapes, LogShape, IsSeq
  <2> QED
    BY <1>1, <2>1, LeftOfLog DEF LogInv, Shapes, LogShape
<1>3. LogData'
  BY <1>2 DEF LogData
<1>4. zm' = Initialize(dev')
  BY <1>1, <1>3, RecoveredFresh DEF LogData
<1>5. Fresh'
  BY <1>1, <1>4 DEF Fresh, DataInv
<1>6. l2p' \in [SegIDs -> Nat]
  <2>1. Len(wal') \in Nat
    BY <1>1, <1>2
  <2> QED
    BY <1>1, <1>3, <2>1, ReplayData DEF LogData
<1>7. cmds' \in Nat
  BY <1>1 DEF DataInv, CmdsData
<1>8. DataInv'
  <2>1. Numbers'
    BY <1>6, <1>7 DEF Numbers
  <2> QED
    BY <1>5, <2>1, FreshData, PTL
<1> QED
  BY <1>3, <1>5, <1>8

-----------------------------------------------------------------------------
(* What holds across crashes *)

\* The age loop is off, and the drive accepts CLOSE ZONE on a FULL zone.
Quieted == AddressesFit /\ Flushers = {} /\ ~CloseFullFails

LEMMA OneClient ==
  ASSUME Quieted
  PROVE  Serial /\ FlushesAlone
  BY RecoveryAssumption DEF Quieted, Serial, FlushesAlone

Uncollected == DataInv /\ LogData /\ PlaceInv /\ ZoneInv /\ Backed

\* The inductive invariant.
RBase == LogInv /\ TableInv /\ (cycles = 0 => Uncollected)

LEMMA RStep ==
  ASSUME [RNext]_rvars
  PROVE  ([Next]_vars /\ UNCHANGED up) \/ Crash
  BY DEF RNext, rvars

LEMMA RBaseInitially == RInit => RBase
<1> SUFFICES ASSUME Init PROVE RBase
  BY DEF RInit
<1>1. Fresh /\ LogInv /\ TableInv /\ DataInv
  BY InitFresh, InitLogInv, TableInitially, DataInitially
<1>2. LogData
  BY DEF Init, MapInit, LogData
<1> QED
  BY <1>1, <1>2, FreshPlaces, FreshZones DEF RBase, Uncollected

LEMMA RBaseSteps ==
  ASSUME Quieted, RBase, [RNext]_rvars
  PROVE  RBase'
<1>0. Serial /\ FlushesAlone /\ LogInv /\ TableInv
  BY OneClient DEF RBase
<1>1. CASE Crash
  <2>1. LogInv' /\ TableInv'
    BY <1>0, <1>1, CrashLog, CrashTable
  <2>2. cycles' = cycles
    BY <1>0, <1>1, CrashRestarts
  <2>3. ASSUME cycles = 0
        PROVE  Uncollected'
    <3>1. Fresh' /\ DataInv' /\ LogData'
      BY <1>0, <1>1, <2>3, CrashFresh DEF RBase, Uncollected
    <3>2. PlaceInv' /\ Backed' /\ ZoneInv'
      BY <3>1, FreshPlaces, FreshZones, PTL
    <3> QED
      BY <3>1, <3>2 DEF Uncollected
  <2> QED
    BY <2>1, <2>2, <2>3 DEF RBase
<1>2. CASE [Next]_vars
  <2>1. LogInv' /\ TableInv'
    BY <1>0, <1>2, LogSteps, TableSteps
  <2>2. ASSUME cycles' = 0
        PROVE  Uncollected'
    <3>1. cycles = 0
      BY <1>0, <1>2, <2>2, NotCollecting DEF TableInv, vars, gcVars
    <3>2. DataInv /\ LogData /\ PlaceInv /\ ZoneInv /\ Backed
      BY <3>1 DEF RBase, Uncollected
    <3>3. DataInv'
      BY <1>0, <1>2, <3>2, DataSteps
    <3>4. LogData'
      BY <1>0, <1>2, <2>2, <3>2, <3>3, LogDataSteps DEF TableInv
    <3>5. CASE UNCHANGED vars
      BY <3>2, <3>3, <3>4, <3>5, PlaceStutter, ZoneStutter DEF Uncollected, TablesFollow
    <3>6. CASE Next
      <4>1. PlacesKept
        BY <1>0, <2>1, <2>2, <3>2, <3>6, PlaceSteps DEF Quieted
      <4>2. ZoneInv'
        BY <1>0, <2>1, <2>2, <3>2, <3>6, ZoneSteps DEF Quieted
      <4> QED
        BY <3>2, <3>3, <3>4, <4>1, <4>2 DEF PlacesKept, TablesFollow, Uncollected
    <3> QED
      BY <1>2, <3>5, <3>6
  <2> QED
    BY <2>1, <2>2 DEF RBase
<1> QED
  BY <1>1, <1>2, RStep

LEMMA RBaseInvariant ==
  ASSUME Quieted
  PROVE  RSpec => []RBase
<1>1. RBase /\ [RNext]_rvars => RBase'
  BY RBaseSteps
<1> QED
  BY <1>1, RBaseInitially, PTL DEF RSpec

\* The log and the table alone, whatever the drive and the threads.
LEMMA RTableInvariant == RSpec => [](LogInv /\ TableInv)
<1>1. RInit => LogInv /\ TableInv
  BY InitLogInv, TableInitially DEF RInit
<1>2. LogInv /\ TableInv /\ [RNext]_rvars => LogInv' /\ TableInv'
  BY RStep, CrashLog, CrashTable, LogSteps, TableSteps
<1> QED
  BY <1>1, <1>2, PTL DEF RSpec

\* The process starts again as long as every record is one Recover can replay.
RRange == RangeInv /\ (cycles = 0 => up)

LEMMA RRangeSteps ==
  ASSUME InRange, LogInv, TableInv, RRange, [RNext]_rvars
  PROVE  RRange'
<1>1. CASE Crash
  <2>1. PICK k \in 0 .. Len(wal) :
          /\ wal' = SubSeq(wal, 1, k) /\ cycles' = cycles /\ up' = Replayable(wal')
          /\ pc' = [t \in Threads |-> "idle"] /\ cmd' = [t \in Clients |-> NoCmd]
    BY <1>1, CrashRestarts
  <2>2. \A t \in Clients : Stage(t)'
    <3>1. ASSUME NEW t \in Clients
          PROVE  pc'[t] = "idle" /\ cmd'[t] = NoCmd
      BY <2>1, ClientsAreThreads
    <3> QED
      BY <3>1, RangedKeeps DEF Stage, Flushing
  <2>3. ASSUME cycles = 0
        PROVE  Replayable(wal')
    <3>1. Replayable(wal)
      BY <2>3 DEF RRange, RangeInv
    <3>2. IsSeq(wal) /\ Len(wal) \in Nat /\ k \in Nat
      BY DEF LogInv, Shapes, LogShape, IsSeq
    <3>3. Len(wal') = k /\ \A i \in 1 .. k : i \in 1 .. Len(wal) /\ wal'[i] = wal[i]
      BY <2>1, <3>2, LeftOfLog
    <3> QED
      BY <3>1, <3>3 DEF Replayable
  <2> QED
    BY <2>1, <2>2, <2>3 DEF RRange, RangeInv
<1>2. CASE [Next]_vars /\ UNCHANGED up
  <2>1. RangeInv'
    BY <1>2, RangeSteps DEF RRange
  <2>2. cycles' = 0 => cycles = 0
    BY <1>2, NotCollecting DEF TableInv, vars, gcVars
  <2> QED
    BY <1>2, <2>1, <2>2 DEF RRange
<1> QED
  BY <1>1, <1>2, RStep

LEMMA RRangeInvariant ==
  ASSUME InRange
  PROVE  RSpec => []RRange
<1>1. RInit => RRange
  BY RangeInitially DEF RInit, RRange
<1>2. RRange /\ LogInv /\ TableInv /\ [RNext]_rvars => RRange'
  BY RRangeSteps
<1> QED
  BY <1>1, <1>2, RTableInvariant, PTL DEF RSpec

\* REQ-GC-05 across crashes: however often the process has crashed and been
\* restarted, a zone is emptied only by the thread that collects it, after a
\* durable reset record which follows the record of its last migration.
THEOREM ResetAfterJournalAcrossCrashes == RSpec => ResetJournaled
<1>1. LogInv /\ [RNext]_rvars => [EmptiesJournaled]_dev
  <2> SUFFICES ASSUME LogInv, [RNext]_rvars, dev' # dev
               PROVE  EmptiesJournaled
    OBVIOUS
  <2>1. CASE Crash
    BY <2>1, CrashRestarts
  <2>2. CASE [Next]_vars
    BY <2>2, EmptyingSteps
  <2> QED
    BY <2>1, <2>2, RStep
<1>2. RSpec => [][EmptiesJournaled]_dev
  BY <1>1, RTableInvariant, PTL DEF RSpec
<1> QED
  BY <1>2 DEF ResetJournaled, EmptiesJournaled

\* REQ-WAL-03 across crashes: every start succeeds, and the log, replayed, gives
\* the table the process works with, whatever part of the log after the last
\* commit each crash left: until the first collection, and if no request
\* reaches beyond the table.  Otherwise Recover fails (the run recovery_range).
THEOREM LogRebuildsTableAcrossCrashes ==
  ASSUME InRange
  PROVE  RSpec => [](cycles = 0 => up /\ ReplayMatches)
<1>1. LogInv /\ TableInv /\ RRange => (cycles = 0 => up /\ ReplayMatches)
  BY ReplayedAtRest DEF RRange, RangeInv, ReplayMatches, Settled
<1> QED
  BY <1>1, RTableInvariant, RRangeInvariant, PTL

\* Recover leaves a zone manager that describes the device: its list of open
\* zones, its map and its free list stay right after any number of crashes, and
\* so a zone that is free can be allocated and a flush writes where the device's
\* pointer is: until the first collection, without an age loop and on a drive
\* that accepts CLOSE ZONE on a FULL zone.
THEOREM ZonesAgreeAcrossCrashes ==
  ASSUME Quieted
  PROVE  RSpec => [](cycles = 0 => ZonesAgree /\ FreeZoneAllocatable /\ FlushInOrder)
<1>1. RBase => (cycles = 0 => ZonesAgree /\ FreeZoneAllocatable /\ FlushInOrder)
  BY OneClient, ZonesAtRest DEF RBase, Uncollected, Quieted
<1> QED
  BY <1>1, RBaseInvariant, PTL

\* The pointers that Recover takes from the device are the ones the buffers
\* start from: under the same conditions no write is lost between the zone
\* manager, the buffers and the device, whatever was buffered at a crash.
THEOREM PointersAgreeAcrossCrashes ==
  ASSUME Quieted
  PROVE  RSpec => [](cycles = 0 => PointersAgree)
<1>1. RBase => (cycles = 0 => PointersAgree)
  BY OneClient, PointersAtRest DEF RBase, Uncollected
<1> QED
  BY <1>1, RBaseInvariant, PTL

-----------------------------------------------------------------------------
(* What a crash cannot take *)

\* Flushed, and not touched since.
Clean == LBAs \ (dirty \union lost)

\* What a running command touches is dirty.
TouchedDirty == \A t \in Clients : Touched(cmd[t]) \subseteq dirty

\* The updates a crash may take from the log are of dirty segments.
CleanLogged ==
  \A i \in durable + 1 .. Len(wal) :
    wal[i].kind = "L2P" => \A a \in Clean : LBAToSegmentID(a) # wal[i].seg

\* A clean segment is on the device, the whole of it.
CleanWritten ==
  \A a \in Clean :
    LET p == l2p[LBAToSegmentID(a)]
    IN p # Unmapped => ZoneID(p) \in Zones /\ PhysLBA(p) + SectorsPerSeg <= dev.wp[ZoneID(p)]

\* SYNCHRONIZE CACHE has yet to flush every zone that is buffered.
Pending(t) ==
  IF pc[t] = "commit" THEN {}
  ELSE fl[t].todo \union (IF pc[t] = "ftake" THEN {fl[t].zone} ELSE {})
Draining == \A t \in Clients : cmd[t].kind = "flush" => Buffered \subseteq Pending(t)

\* No two segments of S have the same address.
Unshared(S) ==
  \A a, b \in S :
    LET r == LBAToSegmentID(a)
        s == LBAToSegmentID(b)
    IN r # s /\ l2p[r] = l2p[s] => l2p[r] = Unmapped

\* Client t takes a step before the first collection.
Acts(t, S) ==
  /\ Known(t, S) /\ Tracks(t) /\ cycles \in Nat /\ cycles' = cycles
  /\ \/ Issue(t) \/ ClientStep(t)
     \/ (FlushStep(t) \/ FlushNext(t)) /\ UNCHANGED <<gcVars, cmdVars>>

LEMMA ActsParts ==
  ASSUME NEW S, NEW t \in Clients, Acts(t, S)
  PROVE  /\ Begun(t) /\ Clients = {t} /\ AtRest(S) /\ S \subseteq LBAs /\ WholeRequests
         /\ t \in Threads /\ PCShape /\ CmdShape /\ FlShape /\ FlData(fl[t]) /\ FlRec(fl[t])
         /\ Stage(t) /\ Writes(t) /\ Updating(t) /\ CmdData(cmd[t]) /\ Ranged(cmd[t])
         /\ IsSeq(wal) /\ durable \in Nat /\ durable <= Len(wal) /\ DataInv /\ PlaceInv
         /\ RunEmergencyGC(t) => /\ UNCHANGED <<dev, zm, mapVars, bufVars, cmdVars>>
                                 /\ \E x \in {"lock", "fail"} : Goto(t, x)
         /\ ChangesDisk(t) => cmd[t].seg \in SegIDs
<1>1. /\ Begun(t) /\ Clients = {t} /\ AtRest(S) /\ S \subseteq LBAs /\ WholeRequests
      /\ cycles \in Nat /\ cycles' = cycles
  BY KnownParts DEF Acts, Known
<1>2. Start(t) /\ LogInv /\ DataInv /\ PlaceInv
  BY <1>1, BegunParts
<1>3. \A z : ~SelectVictim(t, z, "check", "fail")
  <2>1. \A z : SelectVictim(t, z, "check", "fail") => cycles' = cycles + 1
    BY DEF SelectVictim
  <2> QED
    BY <1>1, <2>1
<1>4. RunEmergencyGC(t) => /\ UNCHANGED <<dev, zm, mapVars, bufVars, cmdVars>>
                           /\ \E x \in {"lock", "fail"} : Goto(t, x)
  BY <1>3 DEF RunEmergencyGC
<1>5. ChangesDisk(t) => cmd[t].seg \in SegIDs
  BY <1>1, <1>2, StartMine, SegmentInTable DEF ChangesDisk, WholeRequests
<1> QED
  BY <1>1, <1>2, <1>4, <1>5, StartMine DEF LogInv, Shapes, LogShape

\* A record of the table is one of the command's segment, and only a commit
\* makes records durable.
LEMMA ActsLog ==
  ASSUME NEW S, NEW t \in Clients, Acts(t, S)
  PROVE  /\ \/ UNCHANGED wal
            \/ \E x : /\ wal' = Append(wal, x)
                      /\ x.kind = "L2P" => x.seg = cmd[t].seg /\ ChangesDisk(t)
         /\ durable' = durable \/ (durable' = Len(wal) /\ UNCHANGED wal)
<1>0. /\ Stage(t) /\ (RunEmergencyGC(t) => UNCHANGED mapVars)
  BY ActsParts
<1>1. CASE WriteLock(t)
  <2>1. durable' = durable /\ (UNCHANGED wal \/ \E z : wal' = Append(wal, ZoneOpenRecord(z)))
    BY <1>1 DEF WriteLock, LogZoneOpen
  <2>2. \A z : ZoneOpenRecord(z).kind # "L2P"
    BY DEF ZoneOpenRecord
  <2> QED
    BY <2>1, <2>2
<1>2. CASE WriteLog(t) \/ UnmapLog(t)
  <2>1. ChangesDisk(t)
    BY <1>0, <1>2 DEF WriteLog, UnmapLog, Stage, ChangesDisk
  <2>2. /\ durable' = durable
        /\ UNCHANGED wal \/ \E o, n : wal' = Append(wal, L2PRecord(cmd[t].seg, o, n))
    BY <1>2 DEF WriteLog, UnmapLog, LogL2PUpdate
  <2>3. \A o, n : L2PRecord(cmd[t].seg, o, n).seg = cmd[t].seg
    BY DEF L2PRecord
  <2> QED
    BY <2>1, <2>2, <2>3
<1>3. CASE Commit(t)
  BY <1>3 DEF Commit, GroupCommit
<1>4. CASE Issue(t) \/ FlushStep(t) \/ FlushNext(t)
  BY <1>4 DEF Issue, Write, Unmap, Flush, FlushStep, FlushTake, FlushOpen, FlushWrite, FlushPoint,
     FlushNext, mapVars
<1>5. CASE \/ SetL2P(t) \/ SetL2PFails(t) \/ WriteMaps(t) \/ WriteAdd(t) \/ WriteRelock(t)
           \/ UnmapLock(t) \/ UnmapMaps(t) \/ FlushDone(t) \/ Fail(t)
  BY <1>5 DEF SetL2P, SetL2PFails, WriteMaps, WriteAdd, WriteRelock, UnmapLock, UnmapMaps,
     FlushDone, Fail, mapVars
<1>6. CASE RunEmergencyGC(t)
  BY <1>0, <1>6 DEF mapVars
<1> QED
  BY <1>1, <1>2, <1>3, <1>4, <1>5, <1>6 DEF Acts, ClientStep

\* The table changes at the command's segment only.
LEMMA ActsTable ==
  ASSUME NEW S, NEW t \in Clients, Acts(t, S)
  PROVE  \/ UNCHANGED l2p
         \/ SetL2P(t) /\ ChangesDisk(t) /\ l2p' = L2PSet(l2p, cmd[t].seg, cmd[t].new)
<1>0. Stage(t) /\ (RunEmergencyGC(t) => UNCHANGED mapVars)
  BY ActsParts
<1>1. CASE SetL2P(t)
  BY <1>0, <1>1 DEF SetL2P, Stage, ChangesDisk
<1>2. CASE Issue(t) \/ FlushStep(t) \/ FlushNext(t)
  BY <1>2 DEF Issue, Write, Unmap, Flush, FlushStep, FlushTake, FlushOpen, FlushWrite, FlushPoint,
     FlushNext, mapVars
<1>3. CASE \/ WriteLock(t) \/ WriteLog(t) \/ SetL2PFails(t) \/ WriteMaps(t) \/ WriteAdd(t)
           \/ WriteRelock(t) \/ UnmapLock(t) \/ UnmapLog(t) \/ UnmapMaps(t) \/ FlushDone(t)
           \/ Commit(t) \/ Fail(t)
  BY <1>3 DEF WriteLock, WriteLog, SetL2PFails, WriteMaps, WriteAdd, WriteRelock, UnmapLock,
     UnmapLog, UnmapMaps, FlushDone, Commit, Fail, mapVars
<1>4. CASE RunEmergencyGC(t)
  BY <1>0, <1>4 DEF mapVars
<1> QED
  BY <1>1, <1>2, <1>3, <1>4 DEF Acts, ClientStep

\* No write pointer of the device moves back.
LEMMA ActsDevice ==
  ASSUME NEW S, NEW t \in Clients, Acts(t, S), NEW z \in Zones
  PROVE  dev'.wp[z] \in Int /\ dev.wp[z] \in Int /\ dev'.wp[z] >= dev.wp[z]
<1>0. /\ Begun(t) /\ (RunEmergencyGC(t) => UNCHANGED dev)
  BY ActsParts
<1>1. Good(dev) /\ Lists(zm, dev) /\ ZMData(zm) /\ NoDup(zm.free) /\ ~CloseFullFails
  BY <1>0, BegunParts DEF Begun, PlaceInv, FreeZones
<1>2. dev.wp \in [Zones -> Int]
  BY <1>1 DEF Good, Records
<1>3. ASSUME dev'.wp = dev.wp
      PROVE  dev'.wp[z] \in Int /\ dev'.wp[z] >= dev.wp[z]
  BY <1>2, <1>3
<1>4. CASE WriteLock(t)
  <2> DEFINE r == AllocateFree(zm, dev)
  <2>1. dev' = dev \/ dev' = r.dev
    BY <1>4 DEF WriteLock
  <2>2. Stays(dev, r.dev)
    BY <1>1, AllocateLists
  <2> HIDE DEF r
  <2> QED
    BY <1>2, <1>3, <2>1, <2>2 DEF Stays
<1>5. CASE FlushOpen(t)
  <2> DEFINE y == fl[t].zone
             r == GetOrOpen(zm, dev, y)
  <2>1. dev' = r.dev /\ InHand(t)
    BY <1>5 DEF FlushOpen, InHand
  <2>2. y \in Zones /\ dev.st[y] # "FULL" /\ ~Contains(zm.free, y)
    BY <1>0, <2>1, HandFits
  <2>3. Stays(dev, r.dev)
    BY <1>1, <2>2, GetLists
  <2> HIDE DEF r
  <2> QED
    BY <1>2, <1>3, <2>1, <2>3 DEF Stays
<1>6. CASE FlushWrite(t)
  <2> DEFINE y == fl[t].zone
             data == fl[t].data
             r == WriteSectors(dev, fl[t].wp, data)
  <2>1. dev' = r.dev /\ InHand(t)
    BY <1>6 DEF FlushWrite, InHand
  <2>2. /\ y \in Zones /\ data \in Seq(Sectors) /\ data # << >>
        /\ fl[t].wp = dev.wp[y] /\ dev.wp[y] + Len(data) <= zoneEndLBA(y)
    BY <1>0, <2>1, HandFits
  <2>3. r = WriteSectors(dev, dev.wp[y], data)
    BY <2>2
  <2> HIDE DEF r, data, y
  <2>4. Written(dev, y, data, r)
    BY <1>1, <2>2, <2>3, WriteFits
  <2>5. dev'.wp = dev.wp \/ dev'.wp = [dev.wp EXCEPT ![y] = dev.wp[y] + Len(data)]
    BY <2>1, <2>4 DEF Written
  <2>6. Len(data) \in Nat
    BY <2>2
  <2> QED
    BY <1>2, <2>2, <2>5, <2>6
<1>7. CASE Issue(t) \/ FlushTake(t) \/ FlushPoint(t) \/ FlushNext(t)
  BY <1>3, <1>2, <1>7 DEF Issue, Write, Unmap, Flush, FlushTake, FlushPoint, FlushNext
<1>8. CASE \/ WriteLog(t) \/ SetL2P(t) \/ SetL2PFails(t) \/ WriteMaps(t) \/ WriteAdd(t)
           \/ WriteRelock(t) \/ UnmapLock(t) \/ UnmapLog(t) \/ UnmapMaps(t) \/ FlushDone(t)
           \/ Commit(t) \/ Fail(t)
  BY <1>2, <1>3, <1>8 DEF WriteLog, SetL2P, SetL2PFails, WriteMaps, WriteAdd, WriteRelock,
     UnmapLock, UnmapLog, UnmapMaps, FlushDone, Commit, Fail
<1>9. CASE RunEmergencyGC(t)
  BY <1>0, <1>2, <1>3, <1>9
<1> QED
  BY <1>2, <1>4, <1>5, <1>6, <1>7, <1>8, <1>9 DEF Acts, ClientStep, FlushStep

\* The LBAs of the command's segment are ones it touches.
LEMMA SegmentTouched ==
  ASSUME WholeRequests, DataInv, PlaceInv, NEW t \in Clients, ChangesDisk(t),
         NEW a \in LBAs, LBAToSegmentID(a) = cmd[t].seg
  PROVE  a \in Touched(cmd[t])
<1>1. CmdData(cmd[t]) /\ Ranged(cmd[t])
  BY DEF DataInv, CmdsData, PlaceInv, Mine, Stage
<1> QED
  BY <1>1, WholePart DEF ChangesDisk, Touched, Touches

\* A write or unmap that ends without an error returns.
LEMMA EndsReturned ==
  ASSUME NEW S, NEW t \in Clients, Seen(t, S), Tracks(t)', Ended(t), ChangesDisk(t)
  PROVE  Returned(t, S)
<1>1. pc[t] # "fail" /\ pc'[t] = "idle" /\ ~ChangesDisk(t)'
  BY DEF Ended, Tracks, ChangesDisk
<1> QED
  BY <1>1 DEF Seen, Silent, Called, Applied, GaveUp, ReturnedError, Working

\* Where SYNCHRONIZE CACHE can be.
LEMMA FlushSteps ==
  ASSUME NEW S, NEW t \in Clients, Acts(t, S), cmd[t].kind = "flush"
  PROVE  \/ FlushDone(t) \/ Commit(t) \/ Fail(t)
         \/ (FlushNext(t) \/ (FlushStep(t) /\ fl[t].ret = "fnext")) /\ UNCHANGED cmdVars
<1>1. Stage(t) /\ Tracks(t)
  BY ActsParts DEF Acts
<1>2. pc[t] \notin {"check", "lock", "log", "set", "maps", "add", "relock", "ulock", "ulog", "umaps",
                    "idle"}
  BY <1>1 DEF Stage, Tracks
<1>3. pc[t] \in Flushing => fl[t].ret = "fnext"
  BY <1>1 DEF Stage
<1>4. FlushStep(t) => pc[t] \in Flushing
  BY DEF FlushStep, FlushTake, FlushOpen, FlushWrite, FlushPoint, Flushing
<1>5. ~Issue(t)
  BY <1>2 DEF Issue, Write, Unmap, Flush, Begin
<1>6. ~(\/ RunEmergencyGC(t) \/ WriteLock(t) \/ WriteLog(t) \/ SetL2P(t) \/ SetL2PFails(t)
        \/ WriteMaps(t) \/ WriteAdd(t) \/ WriteRelock(t) \/ UnmapLock(t) \/ UnmapLog(t)
        \/ UnmapMaps(t))
  BY <1>2 DEF RunEmergencyGC, WriteLock, WriteLog, SetL2P, SetL2PFails, WriteMaps, WriteAdd,
     WriteRelock, UnmapLock, UnmapLog, UnmapMaps
<1> QED
  BY <1>3, <1>4, <1>5, <1>6 DEF Acts, ClientStep

\* It ends with a commit.
LEMMA FlushEnds ==
  ASSUME NEW S, NEW t \in Clients, Acts(t, S), cmd[t].kind = "flush", Ended(t)
  PROVE  Commit(t)
<1>1. t \in Threads /\ PCShape
  BY ActsParts
<1>2. pc'[t] = "idle" /\ pc[t] # "fail"
  BY DEF Ended
<1>3. ~Goto(t, "ftake") /\ ~Goto(t, "fopen") /\ ~Goto(t, "fwrite") /\ ~Goto(t, "fpoint")
      /\ ~Goto(t, "fnext") /\ ~Goto(t, "fail") /\ ~Goto(t, "commit")
  BY <1>1, <1>2, GotoMoves
<1>4. ~FlushNext(t) /\ ~FlushDone(t) /\ ~Fail(t)
  BY <1>2, <1>3 DEF FlushNext, FlushDone, Fail
<1>5. FlushStep(t) => fl[t].ret # "fnext"
  BY <1>3 DEF FlushStep, FlushTake, FlushOpen, FlushWrite, FlushPoint, FlushReturn
<1> QED
  BY <1>4, <1>5, FlushSteps

\* What becomes dirty, and what is lost.  Only the end of a flush cleans.
LEMMA CleanSteps ==
  ASSUME NEW S, NEW t \in Clients, Acts(t, S), TouchedDirty, Track, Tracks(t)'
  PROVE  /\ TouchedDirty' /\ lost' \subseteq lost
         /\ lost \ lost' # {} => Ended(t) /\ lost \ lost' \subseteq Touched(cmd[t])
         /\ \/ Clean' \subseteq Clean
            \/ Ended(t) /\ cmd[t].kind = "flush" /\ lost' = lost
<1>1. Clients = {t}
  BY ActsParts
<1>2. /\ dirty' = IF Ended(t) /\ cmd[t].kind = "flush" THEN {} ELSE dirty \union Touched(cmd'[t])
      /\ lost' = IF Ended(t) THEN lost \ Touched(cmd[t]) ELSE lost
      /\ Touched(cmd[t]) \subseteq dirty
  BY <1>1 DEF Track, TouchedDirty
<1>3. TouchedDirty'
  <2>1. CASE Ended(t) /\ cmd[t].kind = "flush"
    <3>1. cmd'[t].kind = "none"
      BY <2>1 DEF Ended, Tracks
    <3>2. Touched(cmd'[t]) = {}
      BY <3>1 DEF Touched, Touches
    <3> QED
      BY <1>1, <3>2 DEF TouchedDirty
  <2>2. CASE ~(Ended(t) /\ cmd[t].kind = "flush")
    BY <1>1, <1>2, <2>2 DEF TouchedDirty
  <2> QED
    BY <2>1, <2>2
<1>4. cmd[t].kind = "flush" => Touched(cmd[t]) = {}
  BY DEF Touched, Touches
<1>5. ~(Ended(t) /\ cmd[t].kind = "flush") => Clean' \subseteq Clean
  BY <1>2 DEF Clean
<1> QED
  BY <1>2, <1>3, <1>4, <1>5

\* The log.
LEMMA CleanLoggedSteps ==
  ASSUME NEW S, NEW t \in Clients, Acts(t, S), TouchedDirty, CleanLogged,
         \/ Clean' \subseteq Clean
         \/ Ended(t) /\ cmd[t].kind = "flush"
  PROVE  CleanLogged'
<1>0. IsSeq(wal) /\ durable \in Nat /\ durable <= Len(wal)
  BY ActsParts
<1>1. IsSeq(wal) /\ durable \in Nat /\ durable <= Len(wal) /\ Len(wal) \in Nat
  BY <1>0 DEF IsSeq
<1>2. CASE Ended(t) /\ cmd[t].kind = "flush"
  <2>1. durable' = Len(wal) /\ wal' = wal
    BY <1>2, FlushEnds DEF Commit, GroupCommit
  <2>2. \A i \in durable' + 1 .. Len(wal') : FALSE
    BY <1>1, <2>1
  <2> QED
    BY <2>2 DEF CleanLogged
<1>3. CASE Clean' \subseteq Clean
  <2>1. CASE UNCHANGED wal
    <3>1. durable' \in Nat /\ durable' >= durable
      BY <1>1, ActsLog
    <3>2. \A i \in durable' + 1 .. Len(wal') : i \in durable + 1 .. Len(wal) /\ wal'[i] = wal[i]
      <4>1. PICK d \in Nat : d = durable' /\ d >= durable
        BY <3>1
      <4>2. \A i \in d + 1 .. Len(wal) : i \in durable + 1 .. Len(wal)
        <5>1. PICK n \in Nat, e \in Nat : n = Len(wal) /\ e = durable /\ e <= d
          BY <1>1, <4>1
        <5>2. \A i \in d + 1 .. n : i \in e + 1 .. n
          BY <5>1
        <5> QED
          BY <5>1, <5>2
      <4> QED
        BY <2>1, <4>1, <4>2
    <3> QED
      BY <1>3, <3>2 DEF CleanLogged
  <2>2. CASE ~UNCHANGED wal
    <3>1. durable' = durable
      BY <2>2, ActsLog
    <3>2. PICK x : /\ wal' = Append(wal, x)
                   /\ x.kind = "L2P" => x.seg = cmd[t].seg /\ ChangesDisk(t)
      BY <2>2, ActsLog
    <3>3. /\ Len(wal') = Len(wal) + 1 /\ wal'[Len(wal) + 1] = x
          /\ \A i \in 1 .. Len(wal) : wal'[i] = wal[i]
      BY <1>1, <3>2, AppendGrows
    <3>4. ASSUME x.kind = "L2P", NEW a \in Clean
          PROVE  LBAToSegmentID(a) # x.seg
      <4>1. a \in LBAs /\ a \notin dirty
        BY DEF Clean
      <4>2. a \notin Touched(cmd[t])
        BY <4>1 DEF TouchedDirty
      <4> QED
        BY <3>2, <3>4, <4>1, <4>2, ActsParts, SegmentTouched
    <3>5. \A i \in durable' + 1 .. Len(wal') :
            \/ i \in durable + 1 .. Len(wal) /\ wal'[i] = wal[i]
            \/ wal'[i] = x
      BY <1>1, <3>1, <3>3
    <3> QED
      BY <1>3, <3>4, <3>5 DEF CleanLogged
  <2> QED
    BY <2>1, <2>2
<1> QED
  BY <1>2, <1>3

\* Flush leaves the list of zones that are to be flushed alone.
LEMMA TodoKept ==
  ASSUME NEW t \in Threads, FlShape, FlRec(fl[t]), FlushStep(t)
  PROVE  fl'[t].todo = fl[t].todo
<1>1. \/ fl' = fl
      \/ \E e : fl' = [fl EXCEPT ![t].err = e, ![t].wp = 0, ![t].data = << >>]
      \/ \E w, d : fl' = [fl EXCEPT ![t].wp = w, ![t].data = d]
  BY DEF FlushStep, FlushTake, FlushOpen, FlushWrite, FlushPoint, FlushReturn
<1>2. ASSUME NEW e, fl' = [fl EXCEPT ![t].err = e, ![t].wp = 0, ![t].data = << >>]
      PROVE  fl'[t].todo = fl[t].todo
  <2>1. PICK f : f = [fl[t] EXCEPT !.err = e, !.wp = 0, !.data = << >>]
    OBVIOUS
  <2>2. fl'[t] = f
    BY <1>2, <2>1 DEF FlShape
  <2> QED
    BY <2>1, <2>2 DEF FlRec
<1>3. ASSUME NEW w, NEW d, fl' = [fl EXCEPT ![t].wp = w, ![t].data = d]
      PROVE  fl'[t].todo = fl[t].todo
  <2>1. PICK f : f = [fl[t] EXCEPT !.wp = w, !.data = d]
    OBVIOUS
  <2>2. fl'[t] = f
    BY <1>3, <2>1 DEF FlShape
  <2> QED
    BY <2>1, <2>2 DEF FlRec
<1> QED
  BY <1>1, <1>2, <1>3

\* SYNCHRONIZE CACHE, from its start, when everything buffered is to do.
LEMMA DrainingSteps ==
  ASSUME NEW S, NEW t \in Clients, Acts(t, S), Draining, Stage(t)'
  PROVE  Draining'
<1>1. /\ Clients = {t} /\ t \in Threads /\ PCShape /\ CmdShape /\ FlShape /\ FlRec(fl[t])
      /\ FlData(fl[t]) /\ buf \in [Zones -> Buffers]
  BY ActsParts, BegunParts
<1> SUFFICES ASSUME cmd'[t].kind = "flush"
             PROVE  Buffered' \subseteq Pending(t)'
  BY <1>1 DEF Draining
<1>2. /\ ~Goto(t, "check") /\ ~Goto(t, "lock") /\ ~Goto(t, "log") /\ ~Goto(t, "set")
      /\ ~Goto(t, "ulock") /\ ~Goto(t, "ulog")
  BY <1>1, GotoMoves DEF Stage
<1>3. CASE Issue(t)
  <2>1. Flush(t)
    BY <1>2, <1>3 DEF Issue, Write, Unmap, Begin
  <2>2. /\ fl' = [fl EXCEPT ![t] = [NoFlush EXCEPT !.todo = Buffered]] /\ buf' = buf
        /\ Goto(t, "fnext")
    BY <2>1 DEF Flush, Begin
  <2>3. fl'[t].todo = Buffered /\ pc'[t] = "fnext"
    BY <1>1, <2>2, GotoMoves DEF FlShape, NoFlush
  <2> QED
    BY <2>2, <2>3 DEF Pending, Buffered
<1>4. ASSUME ~Issue(t)
      PROVE  cmd[t].kind = "flush" /\ ~Commit(t) /\ ~Fail(t)
  <2>1. ~End(t)
    <3>1. cmd' = [cmd EXCEPT ![t] = NoCmd] => cmd'[t].kind = "none"
      BY <1>1 DEF CmdShape, NoCmd
    <3> QED
      BY <3>1 DEF End
  <2>2. ~Commit(t) /\ ~Fail(t)
    BY <2>1 DEF Commit, Fail
  <2>3. cmd' = cmd
    <3>1. WriteLock(t) => cmd' = cmd
      BY <1>2 DEF WriteLock
    <3>2. ~WriteLog(t)
      BY <1>2 DEF WriteLog
    <3>3. WriteAdd(t) \/ WriteRelock(t) => cmd' = cmd
      BY <1>2 DEF WriteAdd, WriteRelock, NextSegment
    <3>4. ~UnmapLog(t) /\ ~UnmapMaps(t)
      BY <1>2, <2>1 DEF UnmapLog, UnmapMaps, NextUnmap
    <3>5. (RunEmergencyGC(t) \/ SetL2P(t) \/ SetL2PFails(t) \/ WriteMaps(t) \/ UnmapLock(t)
           \/ FlushDone(t)) => cmd' = cmd
      BY ActsParts DEF SetL2P, SetL2PFails, WriteMaps, UnmapLock, FlushDone, cmdVars
    <3> QED
      BY <1>4, <2>2, <3>1, <3>2, <3>3, <3>4, <3>5 DEF Acts, ClientStep, cmdVars
  <2> QED
    BY <2>2, <2>3
<1>5. CASE FlushDone(t) /\ cmd[t].kind = "flush"
  <2>1. /\ pc[t] = "fnext" /\ fl[t].todo = {} /\ buf' = buf /\ fl' = [fl EXCEPT ![t] = NoFlush]
    BY <1>5 DEF FlushDone
  <2>2. fl'[t].todo = {} /\ Buffered \subseteq {}
    BY <1>1, <1>5, <2>1 DEF FlShape, NoFlush, Draining, Pending
  <2> QED
    BY <2>1, <2>2 DEF Buffered
<1>6. CASE FlushNext(t) /\ cmd[t].kind = "flush"
  <2>1. PICK z \in fl[t].todo :
          fl' = [fl EXCEPT ![t].zone = z, ![t].todo = @ \ {z}, ![t].ret = "fnext"]
    BY <1>6 DEF FlushNext
  <2>2. pc[t] = "fnext" /\ buf' = buf /\ Goto(t, "ftake")
    BY <1>6 DEF FlushNext
  <2>3. PICK f : f = [fl[t] EXCEPT !.zone = z, !.todo = @ \ {z}, !.ret = "fnext"]
    OBVIOUS
  <2>4. fl'[t] = f
    BY <1>1, <2>1, <2>3 DEF FlShape
  <2>5. fl'[t].zone = z /\ fl'[t].todo = fl[t].todo \ {z}
    BY <1>1, <2>3, <2>4 DEF FlRec
  <2>6. Buffered \subseteq fl[t].todo /\ pc'[t] = "ftake"
    BY <1>1, <1>6, <2>2, GotoMoves DEF Draining, Pending
  <2> QED
    BY <2>2, <2>5, <2>6 DEF Buffered, Pending
<1>7. CASE FlushStep(t) /\ fl[t].ret = "fnext" /\ cmd[t].kind = "flush"
  <2>0. FlushStep(t)
    BY <1>7
  <2>1. /\ pc[t] \in {"ftake", "fopen", "fwrite", "fpoint"}
        /\ \E x \in {"fopen", "fwrite", "fpoint", "fnext"} : Goto(t, x)
    BY <1>7 DEF FlushStep, FlushTake, FlushOpen, FlushWrite, FlushPoint, FlushReturn
  <2>2. pc'[t] \in {"fopen", "fwrite", "fpoint", "fnext"}
    BY <1>1, <2>1, GotoMoves
  <2>3. fl'[t].todo = fl[t].todo
    BY <1>1, <2>0, TodoKept
  <2>4. Buffered' \subseteq Buffered /\ (pc[t] = "ftake" => fl[t].zone \notin Buffered')
    <3>1. CASE FlushTake(t)
      <4>1. \/ buf' = buf /\ buf[fl[t].zone] = NoBuffer
            \/ buf' = [buf EXCEPT ![fl[t].zone] = NoBuffer]
        BY <3>1 DEF FlushTake
      <4> QED
        BY <1>1, <4>1 DEF Buffered, FlData
    <3>2. CASE ~FlushTake(t)
      BY <1>7, <3>2 DEF FlushStep, FlushOpen, FlushWrite, FlushPoint, Buffered
    <3> QED
      BY <3>1, <3>2
  <2>5. Buffered \subseteq fl[t].todo \union (IF pc[t] = "ftake" THEN {fl[t].zone} ELSE {})
    BY <1>1, <1>7, <2>1 DEF Draining, Pending
  <2> QED
    BY <2>2, <2>3, <2>4, <2>5 DEF Pending
<1> QED
  BY <1>3, <1>4, <1>5, <1>6, <1>7, FlushSteps

\* A segment that is clean, the flush of everything that makes it so.
LEMMA CleanWrittenSteps ==
  ASSUME NEW S, NEW t \in Clients, Acts(t, S), LBAs \ lost \subseteq S,
         TouchedDirty, CleanWritten, Draining,
         \/ Clean' \subseteq Clean
         \/ Ended(t) /\ cmd[t].kind = "flush" /\ lost' = lost
  PROVE  CleanWritten'
<1>1. /\ Clients = {t} /\ AtRest(S) /\ Begun(t) /\ l2p \in [SegIDs -> Nat] /\ CmdData(cmd[t])
      /\ SectorsPerSeg \in Nat /\ Serial /\ Caught
  BY ActsParts, BegunParts, KnownParts DEF Acts, Known
<1>2. CASE Ended(t) /\ cmd[t].kind = "flush" /\ lost' = lost
  <2>1. pc[t] = "commit" /\ dev' = dev /\ l2p' = l2p
    BY <1>2, FlushEnds DEF Commit
  <2>2. \A z \in Zones : buf[z] = NoBuffer
    BY <1>2, <2>1 DEF Draining, Pending, Buffered
  <2>3. \A z \in Zones : dev.wp[z] = zm.wp[z]
    BY <1>1, <2>1, <2>2 DEF Caught, Nothing, InHand, Adding
  <2>4. ASSUME NEW a \in S, NEW p, p = l2p[LBAToSegmentID(a)], p # Unmapped
        PROVE  ZoneID(p) \in Zones /\ PhysLBA(p) + SectorsPerSeg <= dev.wp[ZoneID(p)]
    <3>1. ~Carried(LBAToSegmentID(a))
      BY <1>1, <2>1 DEF Carried
    <3>2. Rests(p)
      BY <1>1, <2>4, <3>1 DEF AtRest
    <3> QED
      BY <2>3, <3>2 DEF Rests
  <2>5. Clean' \subseteq S
    BY <1>2 DEF Clean
  <2> QED
    BY <2>1, <2>4, <2>5 DEF CleanWritten
<1>3. CASE Clean' \subseteq Clean
  <2>1. ASSUME NEW a \in Clean, NEW p, p = l2p'[LBAToSegmentID(a)], p # Unmapped
        PROVE  ZoneID(p) \in Zones /\ PhysLBA(p) + SectorsPerSeg <= dev'.wp[ZoneID(p)]
    <3> DEFINE s == LBAToSegmentID(a)
    <3>1. a \in LBAs /\ a \notin Touched(cmd[t]) /\ s \in SegIDs
      BY ActsParts, LBASegment DEF Clean, TouchedDirty
    <3>2. ChangesDisk(t) => s # cmd[t].seg
      BY <3>1, ActsParts, SegmentTouched
    <3>3. p = l2p[s] /\ p \in Nat
      <4>1. CASE UNCHANGED l2p
        BY <1>1, <2>1, <3>1, <4>1
      <4>2. CASE l2p' = L2PSet(l2p, cmd[t].seg, cmd[t].new) /\ ChangesDisk(t)
        BY <1>1, <2>1, <3>1, <3>2, <4>2 DEF L2PSet
      <4> QED
        BY <4>1, <4>2, ActsTable
    <3>4. ZoneID(p) \in Zones /\ PhysLBA(p) + SectorsPerSeg <= dev.wp[ZoneID(p)]
      BY <2>1, <3>3 DEF CleanWritten
    <3>5. PICK z \in Zones : z = ZoneID(p)
      BY <3>4
    <3>6. dev'.wp[z] \in Int /\ dev.wp[z] \in Int /\ dev'.wp[z] >= dev.wp[z]
      BY ActsDevice
    <3>7. PICK x \in Nat : x = PhysLBA(p)
      BY <3>3, <3>4, PhysNat
    <3> QED
      BY <1>1, <3>4, <3>5, <3>6, <3>7
  <2> QED
    BY <1>3, <2>1 DEF CleanWritten
<1> QED
  BY <1>2, <1>3

\* A segment is applied by setting its entry, or there was none to unmap.
LEMMA AppliedHow ==
  ASSUME NEW S, NEW t \in Clients, Acts(t, S), Applied(t, S) \/ Returned(t, S),
         Reached(t) = cmd[t].seg
  PROVE  SetL2P(t) \/ l2p[cmd[t].seg] = Unmapped
<1>1. /\ t \in Threads /\ PCShape /\ CmdShape /\ CmdRec(cmd[t]) /\ cmd[t].seg \in Nat /\ Stage(t)
      /\ Tracks(t)
  BY ActsParts DEF Acts, CmdData, CmdShape
<1>2. Working(t) /\ ~SegmentApplied(t) /\ (cmd'[t] = NoCmd \/ Reached(t)' = cmd[t].seg + 1)
  BY <1>1 DEF Applied, Returned, Reached
<1>3. cmd[t].kind \in {"write", "unmap"} /\ pc[t] # "fail" /\ pc[t] # "idle" /\ pc[t] # "fnext"
  BY <1>1, <1>2 DEF Working, ChangesDisk, Tracks
<1>4. ASSUME NEW x \in {"lock", "log", "set", "ulog", "fail"}, Goto(t, x),
             cmd'[t].kind = cmd[t].kind, cmd'[t].seg = cmd[t].seg
      PROVE  FALSE
  <2>1. pc'[t] = x
    BY <1>1, <1>4, GotoMoves
  <2>2. Reached(t)' = cmd[t].seg
    BY <1>4, <2>1 DEF Reached, SegmentApplied
  <2>3. cmd'[t] # NoCmd
    BY <1>3, <1>4 DEF NoCmd
  <2> QED
    BY <1>1, <1>2, <2>2, <2>3
<1>5. ASSUME NEW c, cmd' = [cmd EXCEPT ![t] = c]
      PROVE  cmd'[t] = c
  BY <1>1, <1>5 DEF CmdShape
<1>6. ~RunEmergencyGC(t) /\ ~UnmapLock(t)
  <2>1. RunEmergencyGC(t) \/ UnmapLock(t) =>
          cmd' = cmd /\ \E x \in {"lock", "log", "set", "ulog", "fail"} : Goto(t, x)
    BY ActsParts DEF UnmapLock, cmdVars
  <2> QED
    BY <1>4, <2>1
<1>7. ~WriteLock(t)
  <2>1. WriteLock(t) => /\ \E x \in {"lock", "log", "set", "ulog", "fail"} : Goto(t, x)
                        /\ cmd' = cmd \/ \E z : cmd' = [cmd EXCEPT ![t].zone = z]
    BY DEF WriteLock
  <2>2. ASSUME NEW z, cmd' = [cmd EXCEPT ![t].zone = z]
        PROVE  cmd'[t].kind = cmd[t].kind /\ cmd'[t].seg = cmd[t].seg
    <3>1. cmd'[t] = [cmd[t] EXCEPT !.zone = z]
      BY <1>5, <2>2
    <3> QED
      BY <1>1, <3>1 DEF CmdRec
  <2> QED
    BY <1>4, <2>1, <2>2
<1>8. ~WriteLog(t)
  <2> SUFFICES ASSUME WriteLog(t)
               PROVE  FALSE
    OBVIOUS
  <2>1. Goto(t, "set")
    BY DEF WriteLog
  <2>2. PICK w, o, n : cmd' = [cmd EXCEPT ![t].wp = w, ![t].old = o, ![t].new = n]
    BY DEF WriteLog
  <2>3. PICK f : f = [cmd[t] EXCEPT !.wp = w, !.old = o, !.new = n]
    OBVIOUS
  <2>4. cmd'[t] = f
    BY <1>1, <2>2, <2>3 DEF CmdShape
  <2>5. cmd'[t].kind = cmd[t].kind /\ cmd'[t].seg = cmd[t].seg
    BY <1>1, <2>3, <2>4 DEF CmdRec
  <2> QED
    BY <1>4, <2>1, <2>5
<1>12. cmd[t].seg \in SegIDs
  BY <1>3, ActsParts DEF ChangesDisk
<1>9. UnmapLog(t) => l2p[cmd[t].seg] = Unmapped
  <2> SUFFICES ASSUME UnmapLog(t), ~IsUnmapped(L2PGet(l2p, cmd[t].seg))
               PROVE  FALSE
    BY <1>12 DEF IsUnmapped, L2PGet
  <2>1. Goto(t, "set")
    BY DEF UnmapLog
  <2>2. PICK o, n : cmd' = [cmd EXCEPT ![t].old = o, ![t].new = n]
    BY DEF UnmapLog
  <2>3. PICK f : f = [cmd[t] EXCEPT !.old = o, !.new = n]
    OBVIOUS
  <2>4. cmd'[t] = f
    BY <1>1, <2>2, <2>3 DEF CmdShape
  <2>5. cmd'[t].kind = cmd[t].kind /\ cmd'[t].seg = cmd[t].seg
    BY <1>1, <2>3, <2>4 DEF CmdRec
  <2> QED
    BY <1>4, <2>1, <2>5
<1>13. ~SetL2PFails(t)
  BY <1>12 DEF SetL2PFails
<1>10. /\ ~WriteMaps(t) /\ ~WriteAdd(t) /\ ~WriteRelock(t) /\ ~UnmapMaps(t) /\ ~Commit(t)
       /\ ~FlushDone(t) /\ ~Fail(t) /\ ~FlushStep(t) /\ ~FlushNext(t)
  BY <1>2, <1>3 DEF WriteMaps, WriteAdd, WriteRelock, UnmapMaps, Commit, FlushDone, Fail,
     FlushStep, FlushTake, FlushOpen, FlushWrite, FlushPoint, FlushNext, SegmentApplied
<1>11. ~Issue(t)
  BY <1>3 DEF Issue, Write, Unmap, Flush, Begin
<1> QED
  BY <1>6, <1>7, <1>8, <1>9, <1>10, <1>11, <1>13 DEF Acts, ClientStep

\* The address a write is given is one that no other segment has.
LEMMA UnsharedSteps ==
  ASSUME NEW S, NEW t \in Clients, Acts(t, S), Unshared(S), NEW R, Joins(t, S, R)
  PROVE  Unshared(R)'
<1> DEFINE c == cmd[t]
<1>1. /\ Clients = {t} /\ AtRest(S) /\ Begun(t) /\ l2p \in [SegIDs -> Nat] /\ CmdData(c)
      /\ SectorsPerSeg \in Nat /\ SectorsPerSeg > 0 /\ Stage(t) /\ Writes(t) /\ Updating(t)
      /\ ZMData(zm) /\ AddressesFit /\ R \subseteq LBAs
  BY ActsParts, BegunParts, KnownParts DEF Acts, Known, Joins
<1>2. \A a \in R : a \in S \/ LBAToSegmentID(a) = c.seg
  BY DEF Joins
<1>3. \A a \in R : LBAToSegmentID(a) \in SegIDs
  BY <1>1, ActsParts, LBASegment
<1>4. CASE UNCHANGED l2p /\ ~SetL2P(t)
  <2>1. \A a \in R : a \in S \/ l2p[LBAToSegmentID(a)] = Unmapped
    BY <1>4, AppliedHow DEF Joins
  <2> QED
    BY <1>4, <2>1 DEF Unshared
<1>5. CASE SetL2P(t)
  <2>1. pc[t] = "set" /\ l2p' = L2PSet(l2p, c.seg, c.new)
    BY <1>5 DEF SetL2P
  <2>2. ASSUME NEW b \in S, NEW p, p = l2p[LBAToSegmentID(b)], p # Unmapped, c.new # Unmapped
        PROVE  p # c.new
    <3>1. c.kind = "write"
      BY <1>1, <2>1, <2>2 DEF Stage, Updating
    <3>2. /\ zm.wp[c.zone] + SectorsPerSeg <= zoneEndLBA(c.zone) /\ c.wp = zm.wp[c.zone]
          /\ c.new = EncodePhysAddr(c.zone, c.wp - zoneStartLBA(c.zone)) /\ c.zone \in Zones
      BY <1>1, <2>1, <3>1 DEF Writes, CmdData
    <3>3. ~Carried(LBAToSegmentID(b))
      BY <1>1, <2>1 DEF Carried
    <3>4. Rests(p)
      BY <1>1, <2>2, <3>3 DEF AtRest
    <3>5. PICK w \in Int : w = c.wp /\ w >= zoneStartLBA(c.zone) /\ w + SectorsPerSeg <= zoneEndLBA(c.zone)
      <4>1. zm.wp[c.zone] \in zoneStartLBA(c.zone) .. zoneEndLBA(c.zone)
        BY <1>1, <3>2 DEF Begun, Start, PlaceInv, FreeZones, Within
      <4>2. zoneStartLBA(c.zone) \in Nat /\ zoneEndLBA(c.zone) \in Nat
        BY <3>2, ZoneBounds
      <4> QED
        BY <3>2, <4>1, <4>2
    <3>6. w < zoneEndLBA(c.zone)
      <4>1. zoneEndLBA(c.zone) \in Nat
        BY <3>2, ZoneBounds
      <4> QED
        BY <1>1, <3>5, <4>1
    <3>7. ZoneID(c.new) = c.zone /\ PhysLBA(c.new) = w
      BY <1>1, <3>2, <3>5, <3>6, SpotOf
    <3>8. PhysLBA(p) + SectorsPerSeg <= zm.wp[ZoneID(p)]
      BY <3>4 DEF Rests
    <3> QED
      BY <1>1, <3>2, <3>5, <3>7, <3>8
  <2>3. ASSUME NEW a \in R, NEW b \in R, NEW r, r = LBAToSegmentID(a), NEW s, s = LBAToSegmentID(b),
               r # s, l2p'[r] = l2p'[s]
        PROVE  l2p'[r] = Unmapped
    <3>1. r \in SegIDs /\ s \in SegIDs /\ l2p'[r] = (IF r = c.seg THEN c.new ELSE l2p[r])
          /\ l2p'[s] = (IF s = c.seg THEN c.new ELSE l2p[s])
      BY <1>1, <1>3, <2>1, <2>3 DEF L2PSet
    <3>2. CASE r # c.seg /\ s # c.seg
      BY <1>2, <2>3, <3>1, <3>2 DEF Unshared
    <3>3. CASE r = c.seg
      BY <1>2, <2>2, <2>3, <3>1, <3>3
    <3>4. CASE s = c.seg
      BY <1>2, <2>2, <2>3, <3>1, <3>4
    <3> QED
      BY <3>2, <3>3, <3>4
  <2> QED
    BY <2>3 DEF Unshared
<1> QED
  BY <1>4, <1>5, ActsTable

-----------------------------------------------------------------------------
(* The disk across crashes *)

\* DiskInv holds of a set of LBAs that nothing is missing from but what was
\* lost; and what is clean is safe.
Survives == \E S : LBAs \ lost \subseteq S /\ DiskInv(S) /\ Unshared(S)
CleanSafe == TouchedDirty /\ CleanLogged /\ CleanWritten /\ Draining

\* The inductive invariant.
RDisk == Guarded => Survives /\ CleanSafe

LEMMA RDiskNext ==
  ASSUME Quieted, WholeRequests, RBase, RBase', RDisk, Next, Track
  PROVE  RDisk'
<1> SUFFICES ASSUME Guarded'
             PROVE  Survives' /\ CleanSafe'
  BY DEF RDisk
<1>1. cycles = 0 /\ cycles' = 0 /\ TableInv /\ TableInv' /\ LogInv
  BY NotCollecting DEF RBase, Guarded, TableInv
<1>2. DataInv /\ DataInv' /\ PlaceInv /\ ZoneInv /\ PlaceInv' /\ Serial
  BY <1>1, OneClient DEF RBase, Uncollected
<1>3. PICK S : Guarded => LBAs \ lost \subseteq S /\ DiskInv(S) /\ Unshared(S)
  BY DEF RDisk, Survives
<1>4. Guarded
  BY <1>1, <1>2, <1>3, DiskSteps DEF Quieted
<1>5. LBAs \ lost \subseteq S /\ DiskInv(S) /\ Unshared(S) /\ CleanSafe
  BY <1>3, <1>4 DEF RDisk
<1>a. PICK t \in Clients : \E R :
        /\ Known(t, S) /\ Seen(t, S) /\ DiskInv(R)' /\ Joins(t, S, R)
        /\ \/ Issue(t) \/ ClientStep(t)
           \/ (FlushStep(t) \/ FlushNext(t)) /\ UNCHANGED <<gcVars, cmdVars>>
  BY <1>1, <1>2, <1>5, DiskSteps DEF Quieted
<1>6. PICK R :
        /\ Known(t, S) /\ Seen(t, S) /\ DiskInv(R)' /\ Joins(t, S, R)
        /\ \/ Issue(t) \/ ClientStep(t)
           \/ (FlushStep(t) \/ FlushNext(t)) /\ UNCHANGED <<gcVars, cmdVars>>
  BY <1>a
<1>7. Acts(t, S) /\ Tracks(t)'
  BY <1>1, <1>5, <1>6 DEF Acts, DiskInv
<1>8. /\ TouchedDirty' /\ lost' \subseteq lost
      /\ lost \ lost' # {} => Ended(t) /\ lost \ lost' \subseteq Touched(cmd[t])
      /\ Clean' \subseteq Clean \/ (Ended(t) /\ cmd[t].kind = "flush" /\ lost' = lost)
  BY <1>5, <1>7, CleanSteps DEF CleanSafe
<1>9. LBAs \ lost' \subseteq R
  <2>1. ASSUME NEW a \in LBAs, a \in lost \ lost'
        PROVE  a \in R
    <3>1. Ended(t) /\ Touches(cmd[t], a)
      BY <1>8, <2>1 DEF Touched
    <3>2. Returned(t, S)
      BY <1>6, <1>7, <3>1, EndsReturned DEF Touches, ChangesDisk
    <3> QED
      BY <1>6, <2>1, <3>1, <3>2 DEF Joins
  <2>2. S \subseteq R
    BY <1>6 DEF Joins
  <2> QED
    BY <1>5, <2>1, <2>2
<1>10. Unshared(R)'
  BY <1>5, <1>6, <1>7, UnsharedSteps
<1>11. Survives'
  BY <1>6, <1>9, <1>10 DEF Survives
<1>12. Stage(t)'
  BY <1>2 DEF PlaceInv, Mine
<1>13. CleanLogged' /\ CleanWritten' /\ Draining'
  BY <1>5, <1>7, <1>8, <1>12, CleanLoggedSteps, CleanWrittenSteps, DrainingSteps DEF CleanSafe
<1> QED
  BY <1>8, <1>11, <1>13 DEF CleanSafe

\* A log that is cut short of updates of seg leaves it where it was.
LEMMA FinalLeft ==
  ASSUME NEW w, IsSeq(w), NEW k \in 0 .. Len(w), NEW seg,
         \A i \in k + 1 .. Len(w) : ~(w[i].kind = "L2P" /\ w[i].seg = seg)
  PROVE  Final(SubSeq(w, 1, k), seg) = Final(w, seg)
<1> DEFINE v == SubSeq(w, 1, k)
<1>1. Len(w) \in Nat /\ k \in Nat /\ k <= Len(w)
  BY DEF IsSeq
<1>2. Len(v) = k /\ \A i \in 1 .. k : v[i] = w[i]
  BY LeftOfLog
<1> HIDE DEF v
<1>3. Updates(v, seg) = Updates(w, seg)
  <2>1. \A i \in 1 .. Len(w) : i \in 1 .. k \/ i \in k + 1 .. Len(w)
    BY <1>1
  <2>2. \A i \in 1 .. k : i \in 1 .. Len(w)
    BY <1>1
  <2> QED
    BY <1>2, <2>1, <2>2 DEF Updates
<1>4. CASE Updates(v, seg) = {}
  BY <1>3, <1>4 DEF Final, v
<1>5. CASE Updates(v, seg) # {}
  <2>1. Updates(v, seg) \in SUBSET (1 .. k)
    BY <1>2 DEF Updates
  <2>2. Max(Updates(v, seg)) \in 1 .. k
    BY <1>1, <1>5, <2>1, LastPosition
  <2> QED
    BY <1>2, <1>3, <1>5, <2>2 DEF Final, v
<1> QED
  BY <1>4, <1>5

\* A sector below the device's pointer is neither buffered nor in hand.
LEMMA BelowPointer ==
  ASSUME DataInv, PlaceInv, ZoneInv, NEW t \in Clients, NEW z \in Zones, NEW x \in Int,
         x >= zoneStartLBA(z), x < dev.wp[z]
  PROVE  Lying(t, z, x) = dev.data[z][x - zoneStartLBA(z)]
<1>1. /\ Begins /\ InOrder(t) /\ Flushes(t) /\ buf \in [Zones -> Buffers] /\ Good(dev)
  BY DEF ZoneInv, DataInv, PlaceInv, Mine
<1>2. fl[t].zone \in Zones /\ fl[t].wp \in Int /\ fl[t].data \in Seq(Sectors)
  BY ClientsAreThreads DEF DataInv, FlsData, FlData
<1>3. \A y \in Zones : /\ zoneStartLBA(y) \in Nat /\ zoneEndLBA(y) \in Nat
                       /\ dev.wp[y] \in zoneStartLBA(y) .. zoneEndLBA(y)
                       /\ zm.wp[y] \in zoneStartLBA(y) .. zoneEndLBA(y)
  <2>1. ASSUME NEW y \in Zones
        PROVE  zoneStartLBA(y) \in Nat /\ zoneEndLBA(y) \in Nat
    BY ZoneBounds
  <2> QED
    BY <1>1, <2>1 DEF Good, ZoneOK, PlaceInv, FreeZones, Within
<1>4. ~BufferHolds(buf, z, x)
  <2>1. CASE buf[z] = NoBuffer
    <3>1. buf[z].wp = 0 /\ Len(buf[z].data) = 0
      BY <2>1 DEF NoBuffer
    <3> QED
      BY <3>1 DEF BufferHolds
  <2>2. CASE buf[z] # NoBuffer
    <3>1. buf[z].wp = dev.wp[z] /\ buf[z].data \in Seq(Sectors)
      BY <1>1, <2>2 DEF Begins, Buffers
    <3>2. PICK n \in Nat, w \in Int : n = Len(buf[z].data) /\ w = buf[z].wp /\ x < w
      BY <1>3, <3>1
    <3> QED
      BY <3>2 DEF BufferHolds
  <2> QED
    BY <2>1, <2>2
<1>5. ~InFlight(t, x)
  <2> SUFFICES ASSUME InFlight(t, x)
               PROVE  FALSE
    OBVIOUS
  <2>1. PICK y \in Zones, w \in Int, n \in Nat :
          y = fl[t].zone /\ w = fl[t].wp /\ n = Len(fl[t].data)
    BY <1>2
  <2>2. InHand(t) /\ w <= x /\ x < w + n
    BY <2>1 DEF InFlight
  <2>3. w = dev.wp[y] /\ w + n = zm.wp[y]
    BY <1>1, <2>1, <2>2 DEF InOrder, Flushes, FlushedWP, InHand
  <2>4. y # z
    BY <2>2, <2>3
  <2>5. zoneEndLBA(y) <= zoneStartLBA(z) \/ zoneEndLBA(z) <= zoneStartLBA(y)
    BY <2>4, ZonesApart
  <2>6. x >= zoneStartLBA(y) /\ x < zoneEndLBA(y) /\ x < zoneEndLBA(z)
    BY <1>3, <2>2, <2>3
  <2> QED
    BY <1>3, <2>5, <2>6
<1> QED
  BY <1>4, <1>5 DEF Lying

\* Where the process finds its clean segments when it starts again.
LEMMA CleanTable ==
  ASSUME WholeRequests, LogInv, TableInv, DataInv, PlaceInv, cycles = 0, Serial,
         TouchedDirty, CleanLogged, Crash, NEW a \in Clean, NEW s, s = LBAToSegmentID(a)
  PROVE  /\ s \in SegIDs /\ l2p'[s] = l2p[s]
         /\ \A t \in Clients : ChangesDisk(t) => cmd[t].seg # s
<1>1. a \in LBAs /\ a \notin dirty /\ s \in SegIDs
  BY LBASegment DEF Clean
<1>2. \A t \in Clients : ChangesDisk(t) => cmd[t].seg # s
  BY <1>1, SegmentTouched DEF TouchedDirty
<1>3. PICK k \in durable .. Len(wal) :
        k \in 0 .. Len(wal) /\ wal' = SubSeq(wal, 1, k) /\ l2p' = Replay(wal')
  BY CrashRestarts
<1>4. IsSeq(wal) /\ Len(wal) \in Nat /\ durable \in Nat
  BY DEF LogInv, Shapes, LogShape, IsSeq
<1>5. \A i \in k + 1 .. Len(wal) : ~(wal[i].kind = "L2P" /\ wal[i].seg = s)
  <2>1. \A i \in k + 1 .. Len(wal) : i \in durable + 1 .. Len(wal)
    BY <1>3, <1>4
  <2> QED
    BY <2>1 DEF CleanLogged
<1>6. Final(wal', s) = Final(wal, s)
  BY <1>3, <1>4, <1>5, FinalLeft
<1>7. l2p'[s] = Published[s]
  <2>1. l2p'[s] = Final(wal', s) /\ Replay(wal)[s] = Final(wal, s)
    BY <1>1, <1>3, ReplayIs
  <2> QED
    BY <1>6, <2>1 DEF TableInv, ReplayInv
<1>8. Published[s] = l2p[s]
  <2>1. CASE mu \in Clients /\ pc[mu] = "set"
    <3>1. ChangesDisk(mu)
      BY <2>1 DEF PlaceInv, Mine, Stage, ChangesDisk
    <3>2. l2p \in [SegIDs -> Nat]
      BY DEF DataInv, MapData
    <3> QED
      BY <1>1, <1>2, <2>1, <3>1, <3>2 DEF Published, L2PSet
  <2>2. CASE ~(mu \in Clients /\ pc[mu] = "set")
    BY <2>2 DEF Published
  <2> QED
    BY <2>1, <2>2
<1> QED
  BY <1>1, <1>2, <1>7, <1>8

\* And what they hold: the device has kept the whole of each.
LEMMA CleanSectors ==
  ASSUME Quieted, WholeRequests, LogInv, TableInv, DataInv, PlaceInv, ZoneInv, cycles = 0, Serial,
         DataInv', PlaceInv', ZoneInv',
         TouchedDirty, CleanLogged, CleanWritten, Crash, NEW S, AtRest(S), NEW a \in Clean, a \in S,
         NEW t \in Clients, OnlyOne(t), OnlyOne(t)', NEW s, s = LBAToSegmentID(a), NEW p, p = l2p[s]
  PROVE  /\ Sector(a)' = Sector(a)
         /\ p # Unmapped => Rests(p)'
<1>1. /\ l2p'[s] = p /\ s \in SegIDs /\ (ChangesDisk(t) => cmd[t].seg # s)
  BY CleanTable
<1>2. /\ dev' = dev /\ buf' = [z \in Zones |-> NoBuffer] /\ pc' = [u \in Threads |-> "idle"]
  BY CrashRestarts
<1>3. \A u \in Clients : pc'[u] = "idle"
  BY <1>2, ClientsAreThreads
<1>4. ~Carrying(t, s) /\ ~Carrying(t, s)' /\ ~Carried(s)
  <2>1. pc[t] \in {"maps", "add"} => ChangesDisk(t)
    BY DEF PlaceInv, Mine, Stage, ChangesDisk
  <2> QED
    BY <1>1, <1>3, <2>1 DEF Carrying, Carried, OnlyOne
<1>5. Sector(a) = Shows(t, a) /\ Sector(a)' = Shows(t, a)'
  BY SectorIs DEF Clean
<1>6. CASE p = Unmapped
  BY <1>1, <1>5, <1>6 DEF Shows, IsUnmapped
<1>7. CASE p # Unmapped
  <2>1. p \in Nat /\ SectorsPerSeg \in Nat
    BY <1>1, MappingAssumption DEF DataInv, MapData
  <2>2. PICK z \in Zones : z = ZoneID(p) /\ PhysLBA(p) + SectorsPerSeg <= dev.wp[z]
    BY <1>7 DEF CleanWritten
  <2>3. Rests(p)
    BY <1>4, <1>7 DEF AtRest
  <2>4. PICK y \in Nat : y = PhysLBA(p) /\ y >= zoneStartLBA(z) /\ y + SectorsPerSeg <= dev.wp[z]
    BY <2>1, <2>2, <2>3, PhysNat DEF Rests
  <2>5. Spot(a)' = Spot(a)
    BY <1>1 DEF Spot
  <2>6. PICK x \in Int : x = Spot(a) /\ x >= zoneStartLBA(z) /\ x < dev.wp[z]
    <3>1. a \in Nat /\ SegmentStart(s) \in Nat /\ a - SegmentStart(s) \in 0 .. SectorsPerSeg - 1
      BY LBASegment DEF Clean
    <3>2. Spot(a) = y + a - SegmentStart(s)
      BY <2>4 DEF Spot
    <3>3. PICK b \in Nat : b = SegmentStart(s)
      BY <3>1
    <3>4. zoneStartLBA(z) \in Nat /\ dev.wp[z] \in Int
      BY ZoneBounds DEF DataInv, Good, Records
    <3> QED
      BY <2>1, <2>4, <3>1, <3>2, <3>3, <3>4
  <2>7. Lying(t, z, x) = dev.data[z][x - zoneStartLBA(z)]
    BY <2>6, BelowPointer
  <2>8. Lying(t, z, x)' = dev.data[z][x - zoneStartLBA(z)]
    <3>1. ~BufferHolds(buf', z, x)
      <4>1. buf'[z].wp = 0 /\ Len(buf'[z].data) = 0
        BY <1>2 DEF NoBuffer
      <4> QED
        BY <4>1 DEF BufferHolds
    <3>2. ~InFlight(t, x)'
      BY <1>3 DEF InFlight, InHand
    <3> QED
      BY <1>2, <3>1, <3>2 DEF Lying
  <2>9. Sector(a)' = Sector(a)
    <3>1. Shows(t, a) = Lying(t, z, x)
      BY <1>4, <1>7, <2>2, <2>6 DEF Shows, IsUnmapped
    <3>2. Shows(t, a)' = Lying(t, z, x)'
      BY <1>1, <1>4, <1>7, <2>2, <2>5, <2>6 DEF Shows, IsUnmapped
    <3> QED
      BY <1>5, <2>7, <2>8, <3>1, <3>2
  <2>10. Rests(p)'
    <3>1. zm'.wp[z] = dev'.wp[z]
      BY <1>2, <1>3 DEF ZoneInv, Caught, Nothing, InHand, Adding, Serial
    <3>2. \A u \in Clients : ~Adding(u, z)'
      BY <1>3 DEF Adding
    <3> QED
      BY <1>2, <2>2, <2>4, <3>1, <3>2 DEF Rests
  <2> QED
    BY <2>9, <2>10
<1> QED
  BY <1>6, <1>7

\* A crash takes nothing from the LBAs that are clean.
LEMMA RDiskCrash ==
  ASSUME Quieted, WholeRequests, RBase, RBase', RDisk, Crash
  PROVE  RDisk'
<1> SUFFICES ASSUME Guarded'
             PROVE  Survives' /\ CleanSafe'
  BY DEF RDisk
<1>1. /\ dev' = dev /\ cycles' = cycles /\ cmds' = cmds /\ promised' = promised
      /\ pc' = [u \in Threads |-> "idle"] /\ cmd' = [u \in Clients |-> NoCmd]
      /\ buf' = [z \in Zones |-> NoBuffer]
      /\ dirty' = {} /\ lost' = lost \union dirty
  BY CrashRestarts DEF RBase, Crash
<1>2. /\ cycles = 0 /\ LogInv /\ TableInv /\ DataInv /\ PlaceInv /\ ZoneInv
      /\ DataInv' /\ PlaceInv' /\ ZoneInv' /\ Serial
  BY <1>1, OneClient DEF RBase, Uncollected, Guarded
<1>3. Guarded
  <2>1. Lists(zm, dev) /\ Lists(zm', dev') /\ 0 \in Zones
    BY <1>2, ZoneZero DEF ZoneInv
  <2> QED
    BY <1>1, <1>2, <2>1 DEF Guarded, Lists
<1>4. PICK S : LBAs \ lost \subseteq S /\ DiskInv(S) /\ Unshared(S)
  BY <1>3 DEF RDisk, Survives
<1>5. TouchedDirty /\ CleanLogged /\ CleanWritten
  BY <1>3 DEF RDisk, CleanSafe
<1>6. PICK t \in Clients : Clients = {t}
  BY RecoveryAssumption
<1>7. \A u \in Threads : pc'[u] = "idle"
  BY <1>1
<1>8. /\ t \in Threads /\ pc'[t] = "idle" /\ cmd'[t] = NoCmd /\ cmd'[t].kind = "none"
      /\ OnlyOne(t) /\ OnlyOne(t)'
  BY <1>1, <1>2, <1>6, <1>7, ClientsAreThreads DEF OnlyOne, Quieted, ZoneInv, NoCmd, Threads
<1>9. PICK C : C = Clean
  OBVIOUS
<1>10. C \subseteq S /\ C \subseteq LBAs /\ AtRest(S) /\ Shown(S)
  BY <1>4, <1>9 DEF Clean, DiskInv
<1>11. \A a \in C : l2p'[LBAToSegmentID(a)] = l2p[LBAToSegmentID(a)]
  BY <1>2, <1>5, <1>9, CleanTable
<1>12. ASSUME NEW a \in C, NEW p, p = l2p[LBAToSegmentID(a)]
       PROVE  Sector(a)' = Sector(a) /\ (p # Unmapped => Rests(p)')
  BY <1>2, <1>5, <1>8, <1>9, <1>10, <1>12, CleanSectors
<1>13. AtRest(C)'
  <2>1. ASSUME NEW a \in C, NEW p, p = l2p'[LBAToSegmentID(a)], p # Unmapped
        PROVE  Rests(p)'
    BY <1>11, <1>12, <2>1
  <2> QED
    BY <2>1 DEF AtRest
<1>14. Shown(C)'
  BY <1>1, <1>10, <1>12 DEF Shown
<1>15. Carries(t)' /\ Tracks(t)' /\ Kept(t, C)'
  <2>1. ~ChangesDisk(t)'
    BY <1>8 DEF ChangesDisk
  <2> QED
    BY <1>8, <2>1, NoneKept DEF Carries, Tracks, Flushing
<1>16. DiskInv(C)'
  BY <1>6, <1>10, <1>13, <1>14, <1>15 DEF DiskInv
<1>17. Unshared(C)'
  BY <1>4, <1>10, <1>11 DEF Unshared
<1>18. LBAs \ lost' = C /\ Clean' = C
  BY <1>1, <1>9 DEF Clean
<1>19. Survives'
  BY <1>16, <1>17, <1>18 DEF Survives
<1>20. TouchedDirty' /\ Draining'
  BY <1>6, <1>8 DEF TouchedDirty, Touched, Touches, Draining
<1>21. CleanLogged'
  <2>1. PICK k \in 0 .. Len(wal) : durable' = k /\ wal' = SubSeq(wal, 1, k)
    BY <1>2, CrashRestarts
  <2>2. Len(wal') = k /\ k \in Nat
    BY <1>2, <2>1, LeftOfLog DEF LogInv, Shapes, LogShape, IsSeq
  <2>3. \A i \in durable' + 1 .. Len(wal') : FALSE
    BY <2>1, <2>2
  <2> QED
    BY <2>3 DEF CleanLogged
<1>22. CleanWritten'
  BY <1>1, <1>5, <1>9, <1>11, <1>18 DEF CleanWritten
<1> QED
  BY <1>19, <1>20, <1>21, <1>22 DEF CleanSafe

LEMMA RDiskStutter ==
  ASSUME RDisk, UNCHANGED rvars
  PROVE  RDisk'
<1>1. UNCHANGED vars /\ UNCHANGED <<dirty, lost>>
  BY DEF rvars, ghosts
<1>2. UNCHANGED <<dev, zm, l2p, wal, durable, buf, pc, fl, cycles, cmd>>
  BY <1>1 DEF vars, gcVars, cmdVars, mapVars
<1>3. Guarded' => Guarded
  BY <1>2 DEF Guarded
<1>4. \A S : DiskInv(S) => DiskInv(S)'
  BY <1>1, DiskStutter
<1>5. \A S : Unshared(S) => Unshared(S)'
  BY <1>2 DEF Unshared
<1>6. Survives => Survives'
  BY <1>1, <1>4, <1>5 DEF Survives
<1>7. TouchedDirty /\ Draining => TouchedDirty' /\ Draining'
  BY <1>1, <1>2 DEF TouchedDirty, Draining, Pending, Buffered
<1>8. CleanLogged /\ CleanWritten => CleanLogged' /\ CleanWritten'
  BY <1>1, <1>2 DEF CleanLogged, CleanWritten, Clean
<1> QED
  BY <1>3, <1>6, <1>7, <1>8 DEF RDisk, CleanSafe

LEMMA RDiskInitially ==
  ASSUME WholeRequests, RInit
  PROVE  RDisk
<1> SUFFICES Survives /\ CleanSafe
  BY DEF RDisk
<1>1. Init /\ dirty = {} /\ lost = {}
  BY DEF RInit
<1>2. /\ \A s \in SegIDs : l2p[s] = Unmapped
      /\ wal = << >> /\ durable = 0
      /\ \A t \in Clients : cmd[t].kind = "none"
  BY <1>1 DEF Init, MapInit, NoCmd
<1>3. DiskInv(LBAs)
  BY <1>1, DiskInitially
<1>4. Unshared(LBAs)
  BY <1>2, LBASegment DEF Unshared
<1>5. Survives
  BY <1>3, <1>4 DEF Survives
<1>6. TouchedDirty /\ Draining
  BY <1>2 DEF TouchedDirty, Draining, Touched, Touches
<1>7. CleanWritten
  BY <1>2, LBASegment DEF CleanWritten, Clean
<1>8. CleanLogged
  <2>1. \A i \in durable + 1 .. Len(wal) : FALSE
    BY <1>2
  <2> QED
    BY <2>1 DEF CleanLogged
<1> QED
  BY <1>5, <1>6, <1>7, <1>8 DEF CleanSafe

LEMMA RDiskInvariant ==
  ASSUME Quieted, WholeRequests
  PROVE  RSpec => []RDisk
<1>1. RBase /\ RBase' /\ RDisk /\ [RNext]_rvars => RDisk'
  BY RDiskNext, RDiskCrash, RDiskStutter DEF RNext
<1> QED
  BY <1>1, RDiskInitially, RBaseInvariant, PTL DEF RSpec

\* Once nothing is running.
LEMMA SurvivesAtRest ==
  ASSUME Quieted, WholeRequests
  PROVE  RBase /\ RDisk /\ RRange /\ cycles = 0 =>
           FlushedSurvives /\ SettledSurvives /\ TablesAfterCrash
<1> SUFFICES ASSUME RBase, RDisk, RRange, cycles = 0, Settled
             PROVE  FlushedSurvives /\ SettledSurvives /\ TablesAfterCrash
  BY DEF FlushedSurvives, SettledSurvives, TablesAfterCrash, RRange
<1>1. DataInv /\ PlaceInv /\ ZoneInv /\ Backed /\ Serial /\ LockInv
  BY OneClient DEF RBase, Uncollected, TableInv
<1>2. Idle /\ Contains(zm.free, 0) /\ Guarded
  BY DEF Settled, Guarded
<1>3. PICK S : LBAs \ lost \subseteq S /\ DiskInv(S) /\ Unshared(S)
  BY <1>2 DEF RDisk, Survives
<1>4. ASSUME NEW a \in LBAs \ lost
      PROVE  ReadsBack(a)
  <2>1. S \subseteq LBAs /\ AtRest(S) /\ a \in S /\ Shown(S)
    BY <1>3 DEF DiskInv
  <2>2. Read(a, a + 1, a) = {Sector(a)}
    BY <1>1, <1>2, <2>1, ReadsOne
  <2>3. PICK m \in promised[a] : m[2] = Sector(a)
    BY <2>1 DEF Shown
  <2> QED
    BY <2>2, <2>3 DEF ReadsBack
<1>5. Followed = l2p
  <2>1. ~(mu \in Clients /\ pc[mu] \in {"maps", "umaps"})
    BY <1>2, ClientsAreThreads DEF Idle
  <2> QED
    BY <2>1 DEF Followed
<1>6. \A e \in p2l : l2p[e[2]] = e[1]
  BY <1>1, <1>2, <1>5 DEF Backed
<1>7. TablesAfterCrash
  <2>1. \A a \in LBAs : L2PGet(l2p, LBAToSegmentID(a)) = l2p[LBAToSegmentID(a)]
    BY LBASegment DEF L2PGet
  <2> QED
    BY <1>3, <1>6, <2>1 DEF TablesAfterCrash, Unshared, IsUnmapped
<1>8. up
  BY DEF RRange
<1> QED
  BY <1>4, <1>7, <1>8 DEF FlushedSurvives, SettledSurvives

\* REQ-GC-06, "recovered without data loss": however often the process crashes,
\* in the middle of whatever step and with whatever the log had not committed,
\* it starts again, and every LBA that SYNCHRONIZE CACHE had flushed before the
\* crash, or that was written after it, reads back what was promised of it.
\* With one client that writes whole segments of the table, without an age
\* loop, on a drive that accepts CLOSE ZONE on a FULL zone, and until the first
\* collection: after one, it fails for the segments that were being moved (the
\* run recovery_gc).
THEOREM FlushedSurvivesCrashes ==
  ASSUME Quieted, WholeRequests
  PROVE  RSpec => [](cycles = 0 => FlushedSurvives /\ SettledSurvives)
<1>1. RBase /\ RDisk /\ RRange => (cycles = 0 => FlushedSurvives /\ SettledSurvives)
  BY SurvivesAtRest
<1>2. InRange
  BY DEF WholeRequests
<1> QED
  BY <1>1, <1>2, RBaseInvariant, RDiskInvariant, RRangeInvariant, PTL

\* And the tables that Recover leaves behind, P2L empty and L2P as the log has
\* it, serve from then on: what P2L has the table has, and no two segments of
\* which something is promised share an address, although segments whose data
\* died in the buffer may.
THEOREM TablesSurviveCrashes ==
  ASSUME Quieted, WholeRequests
  PROVE  RSpec => [](cycles = 0 => TablesAfterCrash)
<1>1. RBase /\ RDisk /\ RRange => (cycles = 0 => TablesAfterCrash)
  BY SurvivesAtRest
<1>2. InRange
  BY DEF WholeRequests
<1> QED
  BY <1>1, <1>2, RBaseInvariant, RDiskInvariant, RRangeInvariant, PTL
=============================================================================
