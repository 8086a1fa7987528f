---------------------------- MODULE BlockDevice ----------------------------
(***************************************************************************)
(* What internal/scsi/block_device.go promises the SCSI handler: a disk of *)
(* sectors that any number of callers write and unmap.  A command is       *)
(* applied one unit (a segment) after the other, each unit at one instant  *)
(* between the command's call and its return, in the order of their        *)
(* addresses; a command that succeeds has been applied whole, one that     *)
(* fails up to some unit.  Nothing else ever changes the disk: flushes,    *)
(* garbage collection and zone management are invisible.                   *)
(***************************************************************************)
EXTENDS Integers

CONSTANTS
  Users,      \* who may have a command outstanding
  Sectors,    \* the LBAs of the disk
  UnitSize,   \* sectors that are applied at once
  Ids,        \* what tells the data of two commands apart
  Blank       \* what an unmapped sector reads as

VARIABLES
  disk,       \* [Sectors -> what a read returns]
  job,        \* [Users -> the outstanding command, or NoJob]
  ok          \* FALSE: the device gives no guarantee any more

bdVars == <<disk, job, ok>>

\* next is the next unit to be applied, last the last one.
NoJob == [kind |-> "none", id |-> 0, lba |-> 0, end |-> 0, next |-> 0, last |-> 0]
\* The command has given up and not yet said so.
Failed == [NoJob EXCEPT !.kind = "failed"]

Running(u) == job[u].kind \in {"write", "unmap"}

\* What the command leaves at LBA a: its own data, or nothing.
Result(j, a) == IF j.kind = "write" THEN <<j.id, a>> ELSE Blank

InUnit(j, a) == a \in j.lba .. j.end - 1 /\ a \div UnitSize = j.next

Applied(j) == [a \in Sectors |-> IF InUnit(j, a) THEN Result(j, a) ELSE disk[a]]

BDInit ==
  /\ disk = [a \in Sectors |-> Blank]
  /\ job = [u \in Users |-> NoJob]
  /\ ok = TRUE

\* Write or Unmap is called, for a range that is not empty.
Call(u) ==
  /\ job[u] = NoJob
  /\ \E kind \in {"write", "unmap"}, n \in Ids, first, final \in Sectors :
       /\ first <= final
       /\ job' = [job EXCEPT ![u] =
                   [kind |-> kind, id |-> n, lba |-> first, end |-> final + 1,
                    next |-> first \div UnitSize, last |-> final \div UnitSize]]
  /\ UNCHANGED disk

Apply(u) ==
  /\ Running(u)
  /\ job[u].next <= job[u].last
  /\ disk' = Applied(job[u])
  /\ job' = [job EXCEPT ![u].next = @ + 1]

\* The command returns success, perhaps at the instant its last unit is applied.
Return(u) ==
  /\ Running(u)
  /\ \/ job[u].next > job[u].last /\ UNCHANGED disk
     \/ job[u].next = job[u].last /\ disk' = Applied(job[u])
  /\ job' = [job EXCEPT ![u] = NoJob]

\* The command gives up, and returns an error.
GiveUp(u) ==
  /\ Running(u)
  /\ job' = [job EXCEPT ![u] = Failed]
  /\ UNCHANGED disk

ReturnError(u) ==
  /\ job[u] = Failed
  /\ job' = [job EXCEPT ![u] = NoJob]
  /\ UNCHANGED disk

Step(u) == Call(u) \/ Apply(u) \/ Return(u) \/ GiveUp(u) \/ ReturnError(u)

\* Once ok is FALSE anything may happen.
BDNext == ok /\ ok' => \E u \in Users : Step(u)

BDSpec == BDInit /\ [][BDNext]_bdVars
=============================================================================
