-------------------------------- MODULE ZTL --------------------------------
(***************************************************************************)
(* internal/ztl/ztl.go: the zone translation layer, composed of the tables *)
(* (Mapping), the write buffer (WriteBuffer), the zone manager             *)
(* (ZoneManager), the collector (GCEngine) and the device (Emulator).      *)
(*                                                                         *)
(* Each client thread runs one SCSI command at a time: WRITE (Write),      *)
(* UNMAP (Unmap) or SYNCHRONIZE CACHE (Flush).  ztl.mu covers a segment's  *)
(* write, except that it is given up around the flush of a zone just       *)
(* filled.  Locals of the command, cmd[t]:                                 *)
(*   kind, lba, end   the command and its range of LBAs [lba, end)         *)
(*   id               its number: the data it writes at LBA a is <<id, a>> *)
(*   seg              the segment its loop has reached                     *)
(*   zone, wp         getWriteZone's zone and currentWP                    *)
(*   old, new         oldPhys and newPhys                                  *)
(*   before           ghost: what had been promised when it began          *)
(*                                                                         *)
(* Read changes nothing and is a state function.  `promised' is a ghost:   *)
(* for each LBA, the sectors a read that runs alone may return, each with  *)
(* the number of the command that promised it.                             *)
(***************************************************************************)
EXTENDS GCEngine

CONSTANTS
  EmergencyFreeZones,   \* Config.ZTL.GCEmergencyFreeZones
  Requests,             \* the <<lba, count>> of the commands clients issue
  Kinds,                \* which commands they issue
  MaxCmds,              \* bound on the commands of one behaviour
  NoOne                 \* ztl.mu is free

ASSUME ZTLAssumption ==
  /\ EmergencyFreeZones \in Nat
  /\ Requests \subseteq (Nat \X (Nat \ {0}))
  /\ Kinds \subseteq {"write", "unmap", "flush"}
  /\ MaxCmds \in Nat
  /\ \A id \in 1 .. MaxCmds, req \in Requests :
       \A a \in req[1] .. req[1] + req[2] - 1 : <<id, a>> \in Data
  /\ NoOne \notin Threads

VARIABLES
  mu,         \* the holder of ztl.mu
  cur,        \* currentWriteZone and currentZoneOpen
  cmd,        \* [Clients -> the command's locals]
  cmds,       \* how many commands have been issued
  promised    \* ghost: [LBA -> set of <<id, sector>>]

cmdVars == <<mu, cur, cmd, cmds, promised>>
vars    == <<dev, zm, mapVars, buf, pc, fl, gcVars, cmdVars>>

\* Nothing in the code enforces this: neither the SCSI handler nor Write and
\* Unmap compare a request with the size of the table, and the capacity the
\* target reports (the device's) may exceed it by part of a segment.  What
\* needs it says so.
InRange ==
  \A req \in Requests : req[1] + req[2] <= (Capacity \div SectorsPerSeg) * SectorsPerSeg

\* The LBAs some request touches.
LBAs == UNION {req[1] .. req[1] + req[2] - 1 : req \in Requests}

NoCmd == [kind |-> "none", lba |-> 0, end |-> 0, id |-> 0, seg |-> 0, zone |-> 0,
          wp |-> 0, old |-> Unmapped, new |-> Unmapped, before |-> << >>]

-----------------------------------------------------------------------------
(* Read *)

\* The part of a request [lba, end) that lies in segment seg: [first, last).
PartFirst(lba, seg) == IF lba > SegmentStart(seg) THEN lba ELSE SegmentStart(seg)
PartLast(end, seg)  == IF end < SegmentEnd(seg) THEN end ELSE SegmentEnd(seg)

\* The sectors [first, last) of one segment: zeros if it is unmapped, from the
\* buffer if it covers them all, else from the device; {} where that fails.
ReadPart(seg, first, last) ==
  LET p    == L2PGet(l2p, seg)
      z    == ZoneID(p)
      from == PhysLBA(p) + first - SegmentStart(seg)
      hit  == \A i \in 0 .. last - first - 1 : BufferHolds(buf, z, from + i)
      r    == ReadSectors(dev, from, last - first)
  IN [a \in first .. last - 1 |->
        CASE IsUnmapped(p)         -> {Zero}
          [] ~IsUnmapped(p) /\ hit -> {BufferedSector(buf, z, from + a - first)}
          [] ~IsUnmapped(p) /\ ~hit ->
               IF r.ok THEN {r.data[a - first + 1]} ELSE {}]

\* What reading [lba, end) returns at LBA a of it.
Read(lba, end, a) ==
  LET seg == LBAToSegmentID(a)
  IN ReadPart(seg, PartFirst(lba, seg), PartLast(end, seg))[a]

-----------------------------------------------------------------------------
(* A command begins and ends.  Both keep the ghost. *)

Stamp(c, a)  == IF c.kind = "write" THEN <<c.id, a>> ELSE Zero
Mark(c, a)   == <<c.id, Stamp(c, a)>>
Touches(c, a) == c.kind \in {"write", "unmap"} /\ a \in c.lba .. c.end - 1

\* What was promised by commands that had ended before this one began.
Before(a) == promised[a] \ {Mark(cmd[u], a) : u \in {v \in Clients : Touches(cmd[v], a)}}

Begin(t, c, step) ==
  /\ pc[t] = "idle"
  /\ cmds < MaxCmds
  /\ cmds' = cmds + 1
  /\ cmd' = [cmd EXCEPT ![t] = [c EXCEPT !.before = [a \in LBAs |-> Before(a)]]]
  /\ promised' = [a \in LBAs |->
       IF Touches(c, a) THEN promised[a] \union {Mark(c, a)} ELSE promised[a]]
  /\ Goto(t, step)

\* Success supersedes what was promised before the command began.
Promise(t) ==
  [a \in LBAs |->
     IF Touches(cmd[t], a) THEN promised[a] \ cmd[t].before[a] ELSE promised[a]]

End(t) ==
  /\ cmd' = [cmd EXCEPT ![t] = NoCmd]
  /\ Goto(t, "idle")

\* Any error returned by Write or Flush: the command ends with CHECK CONDITION
\* and what it has changed so far stays.
Fail(t) ==
  /\ pc[t] = "fail"
  /\ End(t)
  /\ UNCHANGED <<dev, zm, mapVars, bufVars, gcVars, mu, cur, cmds, promised>>

\* The trailing GroupCommit of Write and of Flush.
Commit(t) ==
  /\ pc[t] = "commit"
  /\ GroupCommit
  /\ promised' = Promise(t)
  /\ End(t)
  /\ UNCHANGED <<dev, zm, l2p, p2l, wal, bufVars, gcVars, mu, cur, cmds>>

-----------------------------------------------------------------------------
(* Write *)

Write(t, req) ==
  /\ Begin(t, [NoCmd EXCEPT !.kind = "write", !.lba = req[1], !.end = req[1] + req[2],
                            !.id = cmds + 1, !.seg = LBAToSegmentID(req[1])], "check")
  /\ UNCHANGED <<dev, zm, mapVars, bufVars, gcVars, mu, cur>>

\* RunEmergencyGC: collect zones until enough are free.
RunEmergencyGC(t) ==
  /\ pc[t] = "check"
  /\ \/ /\ FreeZoneCount(zm) >= EmergencyFreeZones
        /\ Goto(t, "lock")
        /\ UNCHANGED <<dev, zm, mapVars, bufVars, gcVars>>
     \/ /\ FreeZoneCount(zm) < EmergencyFreeZones
        /\ \E z \in Zones : SelectVictim(t, z, "check", "fail")
     \/ /\ FreeZoneCount(zm) < EmergencyFreeZones
        /\ VictimCandidates(zm) = {}
        /\ Goto(t, "fail")
        /\ UNCHANGED <<dev, zm, mapVars, bufVars, gcVars>>
  /\ UNCHANGED cmdVars

\* A mutant of MuFree: ztl.mu is never waited for.
MuIgnored == TRUE

\* mu.Lock() may go ahead.
MuFree == mu = NoOne

\* remainingSectors is unsigned: a pointer past the end wraps to a huge value.
HasRoom(z) ==
  zm.wp[z] > zoneEndLBA(z) \/ zoneEndLBA(z) - zm.wp[z] >= SectorsPerSeg

\* writeSegment takes ztl.mu and calls getWriteZone.
WriteLock(t) ==
  /\ pc[t] = "lock"
  /\ MuFree
  /\ \/ /\ cur.open /\ HasRoom(cur.zone)
        /\ mu' = t
        /\ cmd' = [cmd EXCEPT ![t].zone = cur.zone]
        /\ Goto(t, "log")
        /\ UNCHANGED <<dev, zm, wal, cur>>
     \/ /\ ~(cur.open /\ HasRoom(cur.zone))
        /\ LET r == AllocateFree(zm, dev) IN
           /\ zm' = r.zm
           /\ dev' = r.dev
           /\ \/ /\ r.ok
                 /\ wal' = LogZoneOpen(wal, r.zone)
                 /\ cur' = [zone |-> r.zone, open |-> TRUE]
                 /\ mu' = t
                 /\ cmd' = [cmd EXCEPT ![t].zone = r.zone]
                 /\ Goto(t, "log")
              \/ /\ ~r.ok
                 /\ cur' = [cur EXCEPT !.open = FALSE]
                 /\ Goto(t, "fail")
                 /\ UNCHANGED <<wal, mu, cmd>>
  /\ UNCHANGED <<l2p, p2l, durable, bufVars, gcVars, cmds, promised>>

\* The segment goes to the zone manager's write pointer; oldPhys is read and
\* the update logged.
WriteLog(t) ==
  /\ pc[t] = "log"
  /\ LET c   == cmd[t]
         wp  == zm.wp[c.zone]
         new == EncodePhysAddr(c.zone, wp - zoneStartLBA(c.zone))
         old == L2PGet(l2p, c.seg)
     IN /\ wal' = LogL2PUpdate(wal, c.seg, old, new)
        /\ cmd' = [cmd EXCEPT ![t].wp = wp, ![t].old = old, ![t].new = new]
  /\ Goto(t, "set")
  /\ UNCHANGED <<dev, zm, l2p, p2l, durable, bufVars, gcVars, mu, cur, cmds, promised>>

\* l2p.Set, for Write and for Unmap: a store, whatever the entry holds by now.
SetL2P(t) ==
  /\ pc[t] = "set"
  /\ cmd[t].seg \in SegIDs
  /\ l2p' = L2PSet(l2p, cmd[t].seg, cmd[t].new)
  /\ Goto(t, IF cmd[t].kind = "write" THEN "maps" ELSE "umaps")
  /\ UNCHANGED <<dev, zm, p2l, wal, durable, bufVars, gcVars, cmdVars>>

\* l2p.Set refuses a segment beyond the table.  The record is in the log by now
\* and stays there; the zone that was opened for the segment stays open.
SetL2PFails(t) ==
  /\ pc[t] = "set"
  /\ cmd[t].seg \notin SegIDs
  /\ mu' = NoOne
  /\ Goto(t, "fail")
  /\ UNCHANGED <<dev, zm, mapVars, bufVars, gcVars, cur, cmd, cmds, promised>>

\* A mutant of P2LWithout: the old address stays in P2L.
P2LKept(old) == p2l
\* A mutant of CountWithout: the old address goes on counting.
CountKept(old) == zm

\* The old address leaves P2L and its zone's count.
P2LWithout(old)   == IF IsUnmapped(old) THEN p2l ELSE P2LDelete(p2l, old)
CountWithout(old) == IF IsUnmapped(old) THEN zm ELSE DecrementValidSegs(zm, ZoneID(old))

\* The data of the command for its current segment.
SegData(c) ==
  LET first == PartFirst(c.lba, c.seg)
  IN [i \in 1 .. PartLast(c.end, c.seg) - first |-> Stamp(c, first + i - 1)]

\* A mutant of NewWP: the pointer stops at the last sector written.
NewWPShort(c) == c.wp + Len(SegData(c)) - 1

NewWP(c) == c.wp + Len(SegData(c))

WriteMaps(t) ==
  /\ pc[t] = "maps"
  /\ LET c == cmd[t] IN
     /\ p2l' = P2LSet(P2LWithout(c.old), c.new, c.seg)
     /\ zm' = UpdateWritePointer(IncrementValidSegs(CountWithout(c.old), c.zone),
                                 c.zone, NewWP(c))
  /\ Goto(t, "add")
  /\ UNCHANGED <<dev, l2p, wal, durable, bufVars, gcVars, cmdVars>>

\* The loop of Write goes on to the next segment, or out of it.
NextSegment(t) ==
  IF cmd[t].seg = LBAToSegmentID(cmd[t].end - 1)
  THEN Goto(t, "commit") /\ UNCHANGED cmd
  ELSE Goto(t, "lock") /\ cmd' = [cmd EXCEPT ![t].seg = @ + 1]

\* buf.Add; ztl.mu is released at the end of the segment, or for the flush of
\* the zone this segment has filled.
WriteAdd(t) ==
  /\ pc[t] = "add"
  /\ LET c == cmd[t] IN
     /\ buf' = Add(buf, c.zone, SegData(c), c.wp)
     /\ IF NewWP(c) >= zoneEndLBA(c.zone)
        THEN /\ fl' = [fl EXCEPT ![t] = [NoFlush EXCEPT !.zone = c.zone, !.ret = "relock"]]
             /\ Goto(t, "ftake")
             /\ UNCHANGED cmd
        ELSE NextSegment(t) /\ UNCHANGED fl
  /\ mu' = NoOne
  /\ UNCHANGED <<dev, zm, mapVars, gcVars, cur, cmds, promised>>

\* The lock is taken again after the flush, and released on return.
WriteRelock(t) ==
  /\ pc[t] = "relock"
  /\ MuFree
  /\ fl' = [fl EXCEPT ![t] = NoFlush]
  /\ \/ /\ fl[t].err
        /\ Goto(t, "fail")
        /\ UNCHANGED <<cur, cmd>>
     \/ /\ ~fl[t].err
        /\ cur' = [cur EXCEPT !.open = FALSE]
        /\ NextSegment(t)
  /\ UNCHANGED <<dev, zm, mapVars, buf, gcVars, mu, cmds, promised>>

-----------------------------------------------------------------------------
(* Unmap holds ztl.mu over all of its segments and commits nothing. *)

Unmap(t, req) ==
  /\ Begin(t, [NoCmd EXCEPT !.kind = "unmap", !.lba = req[1], !.end = req[1] + req[2],
                            !.id = cmds + 1, !.seg = LBAToSegmentID(req[1])], "ulock")
  /\ UNCHANGED <<dev, zm, mapVars, bufVars, gcVars, mu, cur>>

UnmapLock(t) ==
  /\ pc[t] = "ulock"
  /\ MuFree
  /\ mu' = t
  /\ Goto(t, "ulog")
  /\ UNCHANGED <<dev, zm, mapVars, bufVars, gcVars, cur, cmd, cmds, promised>>

\* A mutant of NextUnmap: the command ends and keeps ztl.mu.
NextUnmapKeepsLock(t) ==
  IF cmd[t].seg = LBAToSegmentID(cmd[t].end - 1)
  THEN End(t) /\ promised' = Promise(t) /\ UNCHANGED mu
  ELSE /\ cmd' = [cmd EXCEPT ![t].seg = @ + 1]
       /\ Goto(t, "ulog")
       /\ UNCHANGED <<promised, mu>>

\* The loop of Unmap goes on, or the command succeeds.
NextUnmap(t) ==
  IF cmd[t].seg = LBAToSegmentID(cmd[t].end - 1)
  THEN End(t) /\ promised' = Promise(t) /\ mu' = NoOne
  ELSE /\ cmd' = [cmd EXCEPT ![t].seg = @ + 1]
       /\ Goto(t, "ulog")
       /\ UNCHANGED <<promised, mu>>

UnmapLog(t) ==
  /\ pc[t] = "ulog"
  /\ LET c == cmd[t]
         old == L2PGet(l2p, c.seg)
     IN \/ /\ IsUnmapped(old)
           /\ NextUnmap(t)
           /\ UNCHANGED wal
        \/ /\ ~IsUnmapped(old)
           /\ wal' = LogL2PUpdate(wal, c.seg, old, Unmapped)
           /\ cmd' = [cmd EXCEPT ![t].old = old, ![t].new = Unmapped]
           /\ Goto(t, "set")
           /\ UNCHANGED <<mu, promised>>
  /\ UNCHANGED <<dev, zm, l2p, p2l, durable, bufVars, gcVars, cur, cmds>>

UnmapMaps(t) ==
  /\ pc[t] = "umaps"
  /\ p2l' = P2LDelete(p2l, cmd[t].old)
  /\ zm' = DecrementValidSegs(zm, ZoneID(cmd[t].old))
  /\ NextUnmap(t)
  /\ UNCHANGED <<dev, l2p, wal, durable, bufVars, gcVars, cur, cmds>>

-----------------------------------------------------------------------------
(* Flush: FlushAll, and GroupCommit if nothing failed *)

Flush(t) ==
  /\ Begin(t, [NoCmd EXCEPT !.kind = "flush", !.id = cmds + 1], "fnext")
  /\ fl' = [fl EXCEPT ![t] = [NoFlush EXCEPT !.todo = Buffered]]
  /\ UNCHANGED <<dev, zm, mapVars, buf, gcVars, mu, cur>>

FlushDone(t) ==
  /\ pc[t] = "fnext"
  /\ fl[t].todo = {}
  /\ Goto(t, IF fl[t].err THEN "fail" ELSE "commit")
  /\ fl' = [fl EXCEPT ![t] = NoFlush]
  /\ UNCHANGED <<dev, zm, mapVars, buf, gcVars, cmdVars>>

-----------------------------------------------------------------------------
Issue(t) ==
  \/ "write" \in Kinds /\ \E req \in Requests : Write(t, req)
  \/ "unmap" \in Kinds /\ \E req \in Requests : Unmap(t, req)
  \/ "flush" \in Kinds /\ Flush(t)

ClientStep(t) ==
  \/ RunEmergencyGC(t) \/ WriteLock(t) \/ WriteLog(t) \/ SetL2P(t) \/ SetL2PFails(t)
  \/ WriteMaps(t) \/ WriteAdd(t) \/ WriteRelock(t)
  \/ UnmapLock(t) \/ UnmapLog(t) \/ UnmapMaps(t)
  \/ FlushDone(t) \/ Commit(t) \/ Fail(t)

ClientWork(t) ==
  \/ ClientStep(t)
  \/ (FlushStep(t) \/ FlushNext(t)) /\ UNCHANGED <<gcVars, cmdVars>>
  \/ GCStep(t) /\ UNCHANGED cmdVars

FlusherWork(t) ==
  /\ flushAged(t) \/ flushAgedDone(t) \/ FlushStep(t) \/ FlushNext(t)
  /\ UNCHANGED <<gcVars, cmdVars>>

CollectorWork(t) == (runCycle(t) \/ GCStep(t)) /\ UNCHANGED cmdVars

Init ==
  /\ DevInit
  /\ zm = Initialize(dev)
  /\ MapInit
  /\ BufInit
  /\ GCInit
  /\ mu = NoOne
  /\ cur = [zone |-> 0, open |-> FALSE]
  /\ cmd = [t \in Clients |-> NoCmd]
  /\ cmds = 0
  /\ promised = [a \in LBAs |-> {<<0, Zero>>}]

Next ==
  \/ \E t \in Clients : Issue(t) \/ ClientWork(t)
  \/ \E t \in Flushers : FlusherWork(t)
  \/ \E t \in Collectors : CollectorWork(t)

Spec == Init /\ [][Next]_vars

\* Goroutines are scheduled fairly, and Go's mutexes hand the lock to a waiter
\* that has starved for a millisecond, so a thread that is always or again and
\* again able to take its next step takes it.  Nothing obliges a client to
\* issue a command, nor the age loop or the collector to begin a round.
Fairness ==
  /\ \A t \in Clients : SF_vars(ClientWork(t))
  /\ \A t \in Flushers : WF_vars(FlusherWork(t) /\ pc[t] # "idle")
  /\ \A t \in Collectors : WF_vars(CollectorWork(t) /\ pc[t] # "idle")

FairSpec == Spec /\ Fairness

-----------------------------------------------------------------------------
(* Properties *)

Idle == \A t \in Threads : pc[t] = "idle"

\* Once nothing is running, every request reads back what the commands that
\* succeeded promised: the last data written, or zeros after an unmap; and of
\* the ones that failed, either their data or what was there before.
AckedReads ==
  Idle => \A req \in Requests : \A a \in req[1] .. req[1] + req[2] - 1 :
            /\ Read(req[1], req[1] + req[2], a) # {}
            /\ Read(req[1], req[1] + req[2], a) \subseteq {m[2] : m \in promised[a]}

\* The first segment of zone 0 has the address that means "unmapped", so what
\* follows is claimed only while zone 0, the last zone on the free list's
\* stack, has not been allocated.
Settled == Idle /\ Contains(zm.free, 0)

\* AckedReads as long as zone 0 has not been allocated.
SettledReads == Settled => AckedReads

\* REQ-NFR-03: "No L2P data loss for writes acknowledged".  Once nothing is
\* running, Recover gets through the log, and what it rebuilds is the L2P table.
ReplayMatches == Settled => Replayable(wal) /\ Replay(wal) = l2p

\* P2L is the exact inverse of L2P, no two segments share an address, and each
\* zone's ValidSegs counts the addresses in it: the collector neither misses
\* live data nor judges a zone by a wrong count.
TablesAgree ==
  Settled =>
    /\ p2l = {<<l2p[s], s>> : s \in {x \in SegIDs : ~IsUnmapped(l2p[x])}}
    /\ \A r, s \in SegIDs : r # s /\ l2p[r] = l2p[s] => IsUnmapped(l2p[r])
    /\ \A z \in Zones : zm.valid[z] = Cardinality(P2LZone(p2l, z))

\* The zone manager's write pointer is the device's, plus what is buffered for
\* the zone, and the buffer begins exactly where the device's pointer is.
PointersAgree ==
  Idle => \A z \in Zones :
            /\ zm.wp[z] = dev.wp[z] + Len(buf[z].data)
            /\ buf[z] # NoBuffer => buf[z].wp = dev.wp[z]

\* The zone manager's list, map and free list describe the device: it can evict
\* every zone the device has open, and it allocates exactly the EMPTY ones.
ZonesAgree == Idle => OpenListConsistent /\ DeviceOpenTracked /\ FreeListExact

\* REQ-ZTL-08: "zone allocation to assign free (EMPTY) zones to incoming write
\* streams".  Whenever a zone is free and nothing is running, allocating
\* succeeds: the eviction it may need first can be done.
FreeZoneAllocatable ==
  Idle /\ zm.free # << >> => AllocateFree(zm, dev).ok

\* REQ-GC-05: "Read all valid segments from victim zone", "Write valid segments
\* to a fresh zone".  What the collector is about to publish for a segment is
\* what a read of the segment returns.
MigratesLiveData ==
  \A t \in Threads :
    LET p    == gc[t].item[1]
        seg  == gc[t].item[2]
        part == ReadPart(seg, SegmentStart(seg), SegmentEnd(seg))
    IN pc[t] = "cas" /\ l2p[seg] = p =>
         \A i \in 1 .. SectorsPerSeg : part[SegmentStart(seg) + i - 1] = {gc[t].data[i]}

\* Whatever happens, a command that began ends: no error path keeps ztl.mu, no
\* flush or collection waits for ever.
CommandsEnd == \A t \in Clients : pc[t] # "idle" ~> pc[t] = "idle"
=============================================================================
