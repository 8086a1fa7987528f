------------------------------ MODULE Mapping ------------------------------
(***************************************************************************)
(* The translation tables and the log in front of them:                    *)
(*   segment.go  segment arithmetic and the packed physical address,       *)
(*   l2p.go      the logical-to-physical table,                            *)
(*   p2l.go      its inverse, which the collector enumerates a zone with,  *)
(*   journal     LogL2PUpdate / LogZoneOpen / LogZoneReset / GroupCommit   *)
(*               as their callers in internal/ztl see them: an append to   *)
(*               the log, and a commit of everything appended so far.      *)
(* L2P entries are atomic words and P2L calls hold a lock, so every        *)
(* operation here is one step for its caller.                              *)
(***************************************************************************)
EXTENDS ZoneManager

CONSTANTS
  SectorsPerSeg,   \* Config.SectorsPerSegment
  OffsetBits,      \* segment.go: 40
  ZoneIDBits       \* segment.go: 24

ASSUME MappingAssumption ==
  /\ SectorsPerSeg \in Nat \ {0}
  /\ OffsetBits \in Nat /\ 2^OffsetBits \in Nat \ {0}
  /\ ZoneIDBits \in Nat /\ 2^ZoneIDBits \in Nat \ {0}

VARIABLES
  l2p,       \* [SegIDs -> PhysAddr]
  p2l,       \* set of <<PhysAddr, SegmentID>>, at most one per address
  wal,       \* the records appended, in order
  durable    \* how many of them a GroupCommit has made durable

mapVars == <<l2p, p2l, wal, durable>>

-----------------------------------------------------------------------------
(* segment.go *)

SegIDs == 0 .. (Capacity \div SectorsPerSeg) - 1

EncodePhysAddr(z, off) == z * 2^OffsetBits + (off % 2^OffsetBits)
ZoneID(p)              == (p \div 2^OffsetBits) % 2^ZoneIDBits
OffsetSectors(p)       == p % 2^OffsetBits

\* Address 0 is also the first segment of zone 0.
Unmapped      == 0
IsUnmapped(p) == p = Unmapped

LBAToSegmentID(lba) == lba \div SectorsPerSeg
SegmentStart(seg)   == seg * SectorsPerSeg
SegmentEnd(seg)     == SegmentStart(seg) + SectorsPerSeg

\* Where the segment at physical address p lies on the device.
PhysLBA(p) == zoneStartLBA(ZoneID(p)) + OffsetSectors(p)

-----------------------------------------------------------------------------
(* l2p.go and p2l.go *)

\* Get answers Unmapped for a segment the table does not have; Set refuses it.
L2PGet(m, seg)    == IF seg \in SegIDs THEN m[seg] ELSE Unmapped
L2PSet(m, seg, p) == [m EXCEPT ![seg] = p]

P2LDelete(m, p)   == {e \in m : e[1] # p}
P2LSet(m, p, seg) == P2LDelete(m, p) \union {<<p, seg>>}

\* IterateZone: the entries of one zone, in any order.
P2LZone(m, z) == {e \in m : ZoneID(e[1]) = z}

-----------------------------------------------------------------------------
(* The log as the translation layer calls it *)

L2PRecord(seg, old, new) == [kind |-> "L2P", seg |-> seg, old |-> old, new |-> new]
ZoneOpenRecord(z)  == [kind |-> "OPEN",  zone |-> z]
ZoneResetRecord(z) == [kind |-> "RESET", zone |-> z]

\* A mutant of LogL2PUpdate: the two addresses change places.
LogL2PSwapped(log, seg, old, new) == Append(log, L2PRecord(seg, new, old))

LogL2PUpdate(log, seg, old, new) == Append(log, L2PRecord(seg, old, new))
LogZoneOpen(log, z)  == Append(log, ZoneOpenRecord(z))
LogZoneReset(log, z) == Append(log, ZoneResetRecord(z))

\* Everything appended so far is in the log's file.  Of the journal's own
\* GroupCommit (module Journal) this holds as far as a crash of the process
\* goes: a caller that finds nothing pending returns at once, although another
\* goroutine may have its records written and not yet synced.
GroupCommit == durable' = Len(wal)

\* What Recover rebuilds from a log with no checkpoint: for each segment the
\* new address of its last L2P record.
Updates(log, seg) ==
  {i \in 1 .. Len(log) : log[i].kind = "L2P" /\ log[i].seg = seg}

Replay(log) ==
  [seg \in SegIDs |->
     IF Updates(log, seg) = {} THEN Unmapped ELSE log[Max(Updates(log, seg))].new]

\* Recover gets through the log: it gives up at the first L2P record whose
\* segment l2p.Set refuses.
Replayable(log) ==
  \A i \in 1 .. Len(log) : log[i].kind = "L2P" => log[i].seg \in SegIDs

-----------------------------------------------------------------------------
MapInit ==
  /\ l2p = [seg \in SegIDs |-> Unmapped]
  /\ p2l = {}
  /\ wal = << >>
  /\ durable = 0

\* REQ-WAL-01: "The WAL MUST record every L2P table update before it is
\* applied to the in-memory table."  Whoever changes an entry, a writer, an
\* unmap or the collector's compare-and-swap, the log already holds a record
\* that gives the segment this very address.
InLog(log, seg, p) ==
  \E i \in 1 .. Len(log) : log[i].kind = "L2P" /\ log[i].seg = seg /\ log[i].new = p

LoggedBeforeApplied ==
  [][\A seg \in SegIDs : l2p'[seg] # l2p[seg] => InLog(wal, seg, l2p'[seg])]_mapVars
=============================================================================
