------------------------------ MODULE GCEngine ------------------------------
(***************************************************************************)
(* internal/ztl/gc.go: the garbage collector.  The background goroutine    *)
(* collects one zone per cycle, on its one-second tick when free zones are *)
(* scarce or at any time on a manual trigger (POST /api/v1/gc/trigger), so *)
(* a cycle may start whenever the goroutine is idle.  A writer short of    *)
(* free zones runs the same collection itself (RunEmergencyGC).            *)
(*                                                                         *)
(* No lock is held across a collection: each call on the zone manager, the *)
(* tables, the journal or the device is a step.  Calls on a zone that only *)
(* this goroutine knows of (the one it has just allocated) are merged with *)
(* the call before them.  gc[t] holds the locals:                          *)
(*   victim     victimID                                                   *)
(*   live       liveSegs: <<PhysAddr, SegmentID>> still to migrate         *)
(*   item       the element being migrated (currentPhys and segID)         *)
(*   data       the segment read from the victim                           *)
(*   zone, new  the fresh zone and newPhys in it                           *)
(*   ret        where the thread goes when collectZone returns nil         *)
(*   err        where it goes when collectZone returns an error            *)
(***************************************************************************)
EXTENDS WriteBuffer

CONSTANT MaxCycles   \* bound on the collections of one behaviour

ASSUME GCAssumption == MaxCycles \in Nat

VARIABLES gc, cycles

gcVars == <<gc, cycles>>

NoItem == <<Unmapped, 0>>
NoGC   == [victim |-> 0, live |-> {}, item |-> NoItem, data |-> << >>,
           zone |-> 0, new |-> Unmapped, ret |-> "idle", err |-> "idle"]

-----------------------------------------------------------------------------
(* runCycle and collectZone *)

\* SelectGCVictim, and nothing more: the victim is not frozen yet.
SelectVictim(t, z, ret, err) ==
  /\ cycles < MaxCycles
  /\ IsGCVictim(zm, z)
  /\ gc' = [gc EXCEPT ![t] = [NoGC EXCEPT !.victim = z, !.ret = ret, !.err = err]]
  /\ cycles' = cycles + 1
  /\ Goto(t, "freeze")
  /\ UNCHANGED <<dev, zm, mapVars, bufVars>>

runCycle(t) ==
  /\ pc[t] = "idle"
  /\ \E z \in Zones : SelectVictim(t, z, "idle", "idle")

\* A mutant of LiveSegs: the test is the wrong way round.
LiveSegsInverted(z) == {e \in P2LZone(p2l, z) : ~IsUnmapped(e[1]) /\ l2p[e[2]] # e[1]}

\* Freeze and IterateZone: the entries of the victim whose L2P entry agrees.
LiveSegs(z) == {e \in P2LZone(p2l, z) : ~IsUnmapped(e[1]) /\ l2p[e[2]] = e[1]}

FreezeVictim(t) ==
  /\ pc[t] = "freeze"
  /\ zm' = Freeze(zm, gc[t].victim)
  /\ gc' = [gc EXCEPT ![t].live = LiveSegs(gc[t].victim)]
  /\ Goto(t, "read")
  /\ UNCHANGED <<dev, mapVars, bufVars, cycles>>

\* collectZone returns, its deferred Unfreeze included.
Abandon(t, m) ==
  /\ zm' = Unfreeze(m, gc[t].victim)
  /\ gc' = [gc EXCEPT ![t] = NoGC]
  /\ Goto(t, gc[t].err)

-----------------------------------------------------------------------------
(* migrateSegment *)

\* The L2P entry is read again; a segment that has moved is skipped, one that
\* has been unmapped deletes the P2L entry of address 0.  Otherwise its data
\* is read from the device, whatever the write buffer holds.
MigrateRead(t) ==
  /\ pc[t] = "read"
  /\ \E e \in gc[t].live :
     LET current == l2p[e[2]]
         rest == [gc[t] EXCEPT !.live = @ \ {e}]
         r    == ReadSectors(dev, PhysLBA(e[1]), SectorsPerSeg)
     IN \/ /\ current # e[1]
           /\ p2l' = IF IsUnmapped(current) THEN P2LDelete(p2l, current) ELSE p2l
           /\ gc' = [gc EXCEPT ![t] = rest]
           /\ UNCHANGED <<zm, pc>>
        \/ /\ current = e[1] /\ r.ok
           /\ gc' = [gc EXCEPT ![t] = [rest EXCEPT !.item = e, !.data = r.data]]
           /\ Goto(t, "galloc")
           /\ UNCHANGED <<p2l, zm>>
        \/ /\ current = e[1] /\ ~r.ok
           /\ Abandon(t, zm)
           /\ UNCHANGED p2l
  /\ UNCHANGED <<dev, l2p, wal, durable, bufVars, cycles>>

\* A mutant of MigrationLogged: the migration is not logged before it is made.
MigrationNotLogged(log, e, new) == log

\* The log once the migration of e to new is in it.
MigrationLogged(log, e, new) == LogL2PUpdate(log, e[2], e[1], new)

\* AllocateFree, a fresh zone for every segment, and the log record.
MigrateAlloc(t) ==
  /\ pc[t] = "galloc"
  /\ LET r   == AllocateFree(zm, dev)
         new == EncodePhysAddr(r.zone, r.zm.wp[r.zone] - zoneStartLBA(r.zone))
     IN /\ dev' = r.dev
        /\ \/ /\ r.ok
              /\ zm' = r.zm
              /\ wal' = MigrationLogged(wal, gc[t].item, new)
              /\ gc' = [gc EXCEPT ![t].zone = r.zone, ![t].new = new]
              /\ Goto(t, "gwrite")
           \/ /\ ~r.ok
              /\ Abandon(t, r.zm)
              /\ UNCHANGED wal
  /\ UNCHANGED <<l2p, p2l, durable, bufVars, cycles>>

\* WriteSectors at the write pointer read before, and UpdateWritePointer.
MigrateWrite(t) ==
  /\ pc[t] = "gwrite"
  /\ LET lba == PhysLBA(gc[t].new)
         r   == WriteSectors(dev, lba, gc[t].data)
     IN /\ dev' = r.dev
        /\ \/ /\ r.ok
              /\ zm' = UpdateWritePointer(zm, gc[t].zone, lba + SectorsPerSeg)
              /\ Goto(t, "cas")
              /\ UNCHANGED gc
           \/ ~r.ok /\ Abandon(t, zm)
  /\ UNCHANGED <<mapVars, bufVars, cycles>>

\* Compare-and-swap: a foreground write in between wins, and the copy is
\* counted as an invalid segment of the fresh zone.
MigrateCAS(t) ==
  /\ pc[t] = "cas"
  /\ LET e == gc[t].item IN
     \/ /\ l2p[e[2]] = e[1]
        /\ l2p' = L2PSet(l2p, e[2], gc[t].new)
        /\ Goto(t, "gmaps")
        /\ UNCHANGED zm
     \/ /\ l2p[e[2]] # e[1]
        /\ zm' = DecrementValidSegs(IncrementValidSegs(zm, gc[t].zone), gc[t].zone)
        /\ Goto(t, "read")
        /\ UNCHANGED l2p
  /\ UNCHANGED <<dev, p2l, wal, durable, bufVars, gcVars>>

MigrateMaps(t) ==
  /\ pc[t] = "gmaps"
  /\ LET e == gc[t].item IN
     /\ p2l' = P2LSet(P2LDelete(p2l, e[1]), gc[t].new, e[2])
     /\ zm' = IncrementValidSegs(DecrementValidSegs(zm, gc[t].victim), gc[t].zone)
  /\ Goto(t, "read")
  /\ UNCHANGED <<dev, l2p, wal, durable, bufVars, gcVars>>

-----------------------------------------------------------------------------
(* The end of collectZone *)

\* A mutant of JournalReset: the record is appended but not committed.
JournalResetUncommitted(t) ==
  /\ pc[t] = "read"
  /\ gc[t].live = {}
  /\ wal' = LogZoneReset(wal, gc[t].victim)
  /\ Goto(t, "reset")
  /\ UNCHANGED <<dev, zm, l2p, p2l, durable, bufVars, gcVars>>

\* LogZoneReset and GroupCommit, once nothing is left to migrate.
JournalReset(t) ==
  /\ pc[t] = "read"
  /\ gc[t].live = {}
  /\ wal' = LogZoneReset(wal, gc[t].victim)
  /\ durable' = Len(wal')
  /\ Goto(t, "reset")
  /\ UNCHANGED <<dev, zm, l2p, p2l, bufVars, gcVars>>

ResetVictim(t) ==
  /\ pc[t] = "reset"
  /\ dev' = ResetZone(dev, zoneStartLBA(gc[t].victim)).dev
  /\ Goto(t, "mark")
  /\ UNCHANGED <<zm, mapVars, bufVars, gcVars>>

\* MarkEmpty and the deferred Unfreeze.
MarkVictim(t) ==
  /\ pc[t] = "mark"
  /\ zm' = Unfreeze(MarkEmpty(zm, gc[t].victim), gc[t].victim)
  /\ gc' = [gc EXCEPT ![t] = NoGC]
  /\ Goto(t, gc[t].ret)
  /\ UNCHANGED <<dev, mapVars, bufVars, cycles>>

GCStep(t) ==
  \/ FreezeVictim(t)
  \/ MigrateRead(t)  \/ MigrateAlloc(t) \/ MigrateWrite(t)
  \/ MigrateCAS(t)   \/ MigrateMaps(t)
  \/ JournalReset(t) \/ ResetVictim(t)  \/ MarkVictim(t)

-----------------------------------------------------------------------------
GCInit ==
  /\ gc = [t \in Threads |-> NoGC]
  /\ cycles = 0

\* REQ-GC-05: "Journal the GC operation before zone reset".  A zone that holds
\* data on the device is erased only by a thread that collects it, after a
\* durable reset record for it which follows the record of the last segment
\* the thread moved out of it.
Journaled(t, z) ==
  /\ pc[t] = "reset"
  /\ gc[t].victim = z
  /\ \E i \in 1 .. durable :
       /\ wal[i] = ZoneResetRecord(z)
       /\ gc[t].new # Unmapped =>
            \E j \in 1 .. i - 1 :
              wal[j].kind = "L2P" /\ wal[j].seg = gc[t].item[2] /\ wal[j].new = gc[t].new

ResetJournaled ==
  [][\A z \in Zones : dev.st[z] # "EMPTY" /\ dev'.st[z] = "EMPTY" =>
       \E t \in Threads : Journaled(t, z)]_dev
=============================================================================
