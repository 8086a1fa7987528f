------------------------------ MODULE ZTLDisk ------------------------------
(***************************************************************************)
(* The translation layer implements BlockDevice.  The disk it shows is, at *)
(* every LBA, the sector at the address the L2P table has for it, wherever *)
(* that sector is at the moment: in the hands of the writer that has set   *)
(* the entry and not yet buffered the data, in the write buffer, in the    *)
(* hands of a flush that has taken the buffer, or on the device.  A        *)
(* segment is applied when its L2P entry is set.                           *)
(***************************************************************************)
EXTENDS ZTL

\* Threads that hold the sector of segment seg at device address x.
Writing(seg) ==
  {t \in Clients : pc[t] \in {"maps", "add"} /\ cmd[t].seg = seg /\ cmd[t].new = l2p[seg]}

FlushingTo(x) ==
  {t \in Threads : /\ pc[t] \in {"fopen", "fwrite"}
                   /\ x \in fl[t].wp .. fl[t].wp + Len(fl[t].data) - 1}

Sector(a) ==
  LET seg == LBAToSegmentID(a)
      p   == L2PGet(l2p, seg)
      x   == PhysLBA(p) + a - SegmentStart(seg)
      z   == ZoneID(p)
  IN IF IsUnmapped(p) THEN Zero
     ELSE IF Writing(seg) # {} THEN Stamp(cmd[CHOOSE t \in Writing(seg) : TRUE], a)
     ELSE IF BufferHolds(buf, z, x) THEN BufferedSector(buf, z, x)
     ELSE IF FlushingTo(x) # {}
          THEN LET f == fl[CHOOSE t \in FlushingTo(x) : TRUE] IN f.data[x - f.wp + 1]
     ELSE dev.data[z][x - zoneStartLBA(z)]

\* The steps of a write or unmap at which its current segment has been applied.
SegmentApplied(t) ==
  pc[t] \in {"maps", "umaps", "add", "ftake", "fopen", "fwrite", "fpoint", "relock", "commit"}

ChangesDisk(t) == cmd[t].kind \in {"write", "unmap"}

\* The command of t as BlockDevice sees it; a flush is none.
JobOf(t) ==
  IF ChangesDisk(t) /\ pc[t] # "fail"
  THEN [kind |-> cmd[t].kind, id |-> cmd[t].id, lba |-> cmd[t].lba, end |-> cmd[t].end,
        next |-> IF SegmentApplied(t) THEN cmd[t].seg + 1 ELSE cmd[t].seg,
        last |-> LBAToSegmentID(cmd[t].end - 1)]
  ELSE [kind |-> IF ChangesDisk(t) THEN "failed" ELSE "none",
        id |-> 0, lba |-> 0, end |-> 0, next |-> 0, last |-> 0]

\* No guarantee once zone 0, whose first address means "unmapped", is in use.
BD == INSTANCE BlockDevice WITH
        Users    <- Clients,
        Sectors  <- LBAs,
        UnitSize <- SectorsPerSeg,
        Ids      <- 1 .. MaxCmds,
        Blank    <- Zero,
        disk     <- [a \in LBAs |-> Sector(a)],
        job      <- [t \in Clients |-> JobOf(t)],
        ok       <- Contains(zm.free, 0)

\* The ZTL implements BlockDevice: each segment of a write or unmap takes effect
\* at one instant between call and return, a command that succeeds has taken
\* effect whole, and no flush, eviction, collection or zone reset ever changes
\* what the disk holds, however the threads interleave.
ImplementsBlockDevice == BD!BDSpec
=============================================================================
