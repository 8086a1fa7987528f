---------------------------- MODULE WriteBuffer ----------------------------
(***************************************************************************)
(* internal/ztl/buffer.go: writes accumulate per zone and are flushed to   *)
(* the device later, by whoever gets there first: the writer that fills a  *)
(* zone, SYNCHRONIZE CACHE (FlushAll), or the background age loop.         *)
(*                                                                         *)
(* Flush holds wb.mu only to take the buffer out of the map.  Opening the  *)
(* zone, writing the device and correcting the write pointer follow one by *)
(* one with no lock over them, so they are separate steps of the thread.   *)
(*                                                                         *)
(* A thread is a goroutine.  pc[t] says which step it takes next; "idle"   *)
(* threads have nothing to do.  fl[t] holds Flush's locals:                *)
(*   zone, wp, data   the buffer taken (zone is also the one asked for)    *)
(*   todo             FlushAll's and flushAged's zones still to flush      *)
(*   err              FlushAll's firstErr # nil                            *)
(*   ret              where the thread goes when Flush returns             *)
(***************************************************************************)
EXTENDS Mapping

CONSTANTS
  Clients,      \* goroutines that execute SCSI commands
  Flushers,     \* the age loop: one goroutine, or none
  Collectors    \* the garbage collector's loop: one goroutine, or none

ASSUME ThreadAssumption ==
  /\ Clients \intersect Flushers = {}
  /\ Clients \intersect Collectors = {}
  /\ Flushers \intersect Collectors = {}

VARIABLES
  buf,    \* [Zones -> [wp, data]]: WriteBuffer.buffers; no data, no entry
  pc,     \* [Threads -> step]
  fl      \* [Threads -> Flush's locals]

bufVars == <<buf, fl>>

Threads == Clients \union Flushers \union Collectors

NoBuffer == [wp |-> 0, data |-> << >>]
NoFlush  == [zone |-> 0, wp |-> 0, data |-> << >>, todo |-> {}, err |-> FALSE,
             ret |-> "idle"]

Goto(t, step) == pc' = [pc EXCEPT ![t] = step]

Buffered == {z \in Zones : buf[z] # NoBuffer}

-----------------------------------------------------------------------------
(* Add and Lookup *)

\* A mutant of Add: the data of an existing entry is replaced.
AddReplaces(b, z, data, wp) == [b EXCEPT ![z] = [wp |-> wp, data |-> data]]

\* An entry that exists keeps its own start; the data is appended to it
\* whatever address the caller passes.
Add(b, z, data, wp) ==
  [b EXCEPT ![z] = IF @ = NoBuffer THEN [wp |-> wp, data |-> data]
                   ELSE [wp |-> @.wp, data |-> @.data \o data]]

\* Lookup of one sector: complete coverage, or the caller goes to the device.
BufferHolds(b, z, lba) == lba \in b[z].wp .. b[z].wp + Len(b[z].data) - 1
BufferedSector(b, z, lba) == b[z].data[lba - b[z].wp + 1]

-----------------------------------------------------------------------------
(* Flush(zone), entered at step "ftake" with fl[t].zone and fl[t].ret set.  *)

\* Return from Flush; a failure is remembered for the caller.
FlushReturn(t, failed) ==
  /\ fl' = [fl EXCEPT ![t].err = @ \/ failed, ![t].wp = 0, ![t].data = << >>]
  /\ Goto(t, fl[t].ret)

\* Take the buffer out of the map, under wb.mu.
FlushTake(t) ==
  /\ pc[t] = "ftake"
  /\ LET z == fl[t].zone IN
     \/ /\ buf[z] = NoBuffer
        /\ FlushReturn(t, FALSE)
        /\ UNCHANGED buf
     \/ /\ buf[z] # NoBuffer
        /\ fl' = [fl EXCEPT ![t].wp = buf[z].wp, ![t].data = buf[z].data]
        /\ buf' = [buf EXCEPT ![z] = NoBuffer]
        /\ Goto(t, "fopen")
  /\ UNCHANGED <<dev, zm, mapVars>>

\* zm.GetOrOpen; if it fails the data taken is gone.
FlushOpen(t) ==
  /\ pc[t] = "fopen"
  /\ LET r == GetOrOpen(zm, dev, fl[t].zone) IN
     /\ zm' = r.zm
     /\ dev' = r.dev
     /\ \/ r.ok  /\ Goto(t, "fwrite") /\ UNCHANGED fl
        \/ ~r.ok /\ FlushReturn(t, TRUE)
  /\ UNCHANGED <<buf, mapVars>>

\* device.WriteSectors at the buffer's own start.
FlushWrite(t) ==
  /\ pc[t] = "fwrite"
  /\ LET r == WriteSectors(dev, fl[t].wp, fl[t].data) IN
     /\ dev' = r.dev
     /\ \/ r.ok  /\ Goto(t, "fpoint") /\ UNCHANGED fl
        \/ ~r.ok /\ FlushReturn(t, TRUE)
  /\ UNCHANGED <<zm, buf, mapVars>>

\* A mutant of FlushedWP: the last sector flushed instead of the next free one.
FlushedWPOffByOne(f) == f.wp + Len(f.data) - 1

\* The write pointer Flush gives the zone manager.
FlushedWP(f) == f.wp + Len(f.data)

FlushPoint(t) ==
  /\ pc[t] = "fpoint"
  /\ zm' = UpdateWritePointer(zm, fl[t].zone, FlushedWP(fl[t]))
  /\ FlushReturn(t, FALSE)
  /\ UNCHANGED <<dev, buf, mapVars>>

FlushStep(t) == FlushTake(t) \/ FlushOpen(t) \/ FlushWrite(t) \/ FlushPoint(t)

-----------------------------------------------------------------------------
(* FlushAll and flushAged: Flush each zone of fl[t].todo, in map order,      *)
(* that is in any order, carrying on after a failure.                        *)

\* One turn of the loop, at step "fnext".  The caller takes the thread on
\* when no zone is left.
FlushNext(t) ==
  /\ pc[t] = "fnext"
  /\ \E z \in fl[t].todo :
       fl' = [fl EXCEPT ![t].zone = z, ![t].todo = @ \ {z}, ![t].ret = "fnext"]
  /\ Goto(t, "ftake")
  /\ UNCHANGED <<dev, zm, buf, mapVars>>

\* The age loop: which buffers are old enough is up to the clock.
flushAged(t) ==
  /\ pc[t] = "idle"
  /\ \E aged \in SUBSET Buffered \ {{}} :
       fl' = [fl EXCEPT ![t] = [NoFlush EXCEPT !.todo = aged]]
  /\ Goto(t, "fnext")
  /\ UNCHANGED <<dev, zm, buf, mapVars>>

flushAgedDone(t) ==
  /\ pc[t] = "fnext"
  /\ fl[t].todo = {}
  /\ fl' = [fl EXCEPT ![t] = NoFlush]
  /\ Goto(t, "idle")
  /\ UNCHANGED <<dev, zm, buf, mapVars>>

-----------------------------------------------------------------------------
BufInit ==
  /\ buf = [z \in Zones |-> NoBuffer]
  /\ pc = [t \in Threads |-> "idle"]
  /\ fl = [t \in Threads |-> NoFlush]

\* REQ-ZTL-04: the write buffer "Respects zone sequential write order (no
\* out-of-order writes within a zone)".  A flush about to write its data
\* writes it where the device's write pointer is.
FlushInOrder ==
  \A t \in Threads :
    pc[t] = "fwrite" => fl[t].wp = dev.wp[fl[t].zone]
=============================================================================
