------------------------------ MODULE Emulator ------------------------------
(***************************************************************************)
(* The zoned block device under the translation layer.                     *)
(*                                                                         *)
(* internal/backend/emulator is the in-memory device, and the only one     *)
(* whose behaviour is in this repository.  Every method takes e.mu for its *)
(* whole body, so each one is an operator from a device record and its     *)
(* arguments to a result, and modules above this one apply them to `dev'.  *)
(* A sector of 512 bytes is one element of Sectors; LBAs are absolute, as  *)
(* they are in the backend.ZonedDevice interface.                          *)
(*                                                                         *)
(* The SMR backend (internal/backend/smr) forwards each call to a drive.   *)
(* Its one difference that the layer above can observe is CLOSE ZONE on a  *)
(* FULL zone: the emulator refuses it, a ZBC drive accepts it and leaves   *)
(* the zone alone.  CloseFullFails chooses between the two.                *)
(***************************************************************************)
EXTENDS Integers, FiniteSets, Sequences

CONSTANTS
  ZoneCount,       \* Config.ZoneCount
  ZoneSectors,     \* sectors per zone, from Config.ZoneSizeMB
  MaxOpenZones,    \* Config.MaxOpenZones
  Data,            \* what a client may store in a sector
  Zero,            \* a sector of zero bytes
  CloseFullFails   \* TRUE for the emulator, FALSE for an SMR drive

ASSUME DeviceAssumption ==
  /\ ZoneCount \in Nat \ {0}
  /\ ZoneSectors \in Nat \ {0}
  /\ MaxOpenZones \in Nat \ {0}
  /\ CloseFullFails \in BOOLEAN

VARIABLE dev   \* the device record: [st, wp, data, open]

-----------------------------------------------------------------------------
(* State *)

Zones   == 0 .. ZoneCount - 1
Offsets == 0 .. ZoneSectors - 1
Sectors == Data \union {Zero}

\* READ_ONLY and OFFLINE exist in pkg/zbc; nothing in the emulator enters them.
OpenStates == {"IMPLICIT_OPEN", "EXPLICIT_OPEN"}
ZoneStates == OpenStates \union {"EMPTY", "CLOSED", "FULL"}

Capacity == ZoneCount * ZoneSectors

Devices == [st   : [Zones -> ZoneStates],
            wp   : [Zones -> 0 .. Capacity],
            data : [Zones -> [Offsets -> Sectors]],
            open : 0 .. MaxOpenZones]

zoneIndex(lba)    == lba \div ZoneSectors
zoneStartLBA(idx) == idx * ZoneSectors
zoneEndLBA(idx)   == zoneStartLBA(idx) + ZoneSectors
isOpen(s)         == s \in OpenStates

\* New: every zone EMPTY, its write pointer at its start, its buffer zeroed.
New == [st   |-> [z \in Zones |-> "EMPTY"],
        wp   |-> [z \in Zones |-> zoneStartLBA(z)],
        data |-> [z \in Zones |-> [o \in Offsets |-> Zero]],
        open |-> 0]

-----------------------------------------------------------------------------
(* Operations.  A failed call may still have changed the device. *)

Ok(d)  == [ok |-> TRUE,  dev |-> d]
Err(d) == [ok |-> FALSE, dev |-> d]

OpenAs(explicit) == IF explicit THEN "EXPLICIT_OPEN" ELSE "IMPLICIT_OPEN"

openZoneLocked(d, idx, explicit) ==
  IF isOpen(d.st[idx])
  THEN Ok(IF explicit THEN [d EXCEPT !.st[idx] = "EXPLICIT_OPEN"] ELSE d)
  ELSE IF d.st[idx] = "FULL" \/ d.open >= MaxOpenZones
       THEN Err(d)
       ELSE Ok([d EXCEPT !.st[idx] = OpenAs(explicit), !.open = @ + 1])

OpenZone(d, lba) ==
  IF zoneIndex(lba) \notin Zones THEN Err(d)
  ELSE openZoneLocked(d, zoneIndex(lba), TRUE)

CloseZone(d, lba) ==
  LET idx == zoneIndex(lba) IN
  IF idx \notin Zones THEN Err(d)
  ELSE IF isOpen(d.st[idx])
       THEN Ok([d EXCEPT !.st[idx] = "CLOSED", !.open = @ - 1])
       ELSE IF d.st[idx] = "FULL" /\ CloseFullFails THEN Err(d) ELSE Ok(d)

FinishZone(d, lba) ==
  LET idx == zoneIndex(lba) IN
  IF idx \notin Zones THEN Err(d)
  ELSE IF d.st[idx] = "FULL" THEN Ok(d)
       ELSE Ok([d EXCEPT !.st[idx] = "FULL", !.wp[idx] = zoneEndLBA(idx),
                         !.open = IF isOpen(d.st[idx]) THEN @ - 1 ELSE @])

\* A mutant of Erased: the data of a zone survives its reset.
ErasedLater(d, idx) == d.data[idx]

\* The zone buffer after a reset.
Erased(d, idx) == [o \in Offsets |-> Zero]

ResetZone(d, lba) ==
  LET idx == zoneIndex(lba) IN
  IF idx \notin Zones THEN Err(d)
  ELSE Ok([d EXCEPT !.st[idx]   = "EMPTY",
                    !.wp[idx]   = zoneStartLBA(idx),
                    !.data[idx] = Erased(d, idx),
                    !.open      = IF isOpen(d.st[idx]) THEN @ - 1 ELSE @])

\* One sector of the device; ReadSectors copies a run of them.
SectorAt(d, lba) == d.data[zoneIndex(lba)][lba % ZoneSectors]

ReadSectors(d, lba, count) ==
  IF lba + count > Capacity
  THEN [ok |-> count = 0, data |-> << >>]
  ELSE [ok |-> TRUE, data |-> [i \in 1 .. count |-> SectorAt(d, lba + i - 1)]]

\* A mutant of Fits: the zone boundary is not checked.
FitsAnywhere(idx, end) == TRUE

\* A write stays inside its zone.
Fits(idx, end) == end <= zoneEndLBA(idx)

\* A mutant of Advance: a zone written to its end is not marked FULL.
AdvanceNeverFull(d, idx, end) == [d EXCEPT !.wp[idx] = end]

\* A mutant of Advance: a zone that fills keeps its place among the open ones.
AdvanceKeepsCount(d, idx, end) ==
  [d EXCEPT !.wp[idx] = end, !.st[idx] = IF end = zoneEndLBA(idx) THEN "FULL" ELSE @]

\* The write pointer moves to end; a zone that is full is no longer open.
Advance(d, idx, end) ==
  IF end = zoneEndLBA(idx)
  THEN [d EXCEPT !.wp[idx] = end, !.st[idx] = "FULL", !.open = @ - 1]
  ELSE [d EXCEPT !.wp[idx] = end]

\* The zone buffer with data copied to lba.
Stored(d, idx, lba, data) ==
  LET off == lba - zoneStartLBA(idx)
  IN [o \in Offsets |->
        IF o \in off .. off + Len(data) - 1 THEN data[o - off + 1] ELSE d.data[idx][o]]

\* The tail of WriteSectors, once the zone is open.
Store(d, idx, lba, data) ==
  IF Fits(idx, lba + Len(data))
  THEN Ok(Advance([d EXCEPT !.data[idx] = Stored(d, idx, lba, data)],
                  idx, lba + Len(data)))
  ELSE Err(d)

\* A mutant of Writable: a write may begin anywhere in a zone that is not full.
WritableAnywhere(d, idx, lba) == d.st[idx] # "FULL"

\* Writes begin at the write pointer of a zone that is not full.
Writable(d, idx, lba) == lba = d.wp[idx] /\ d.st[idx] # "FULL"

WriteSectors(d, lba, data) ==
  LET idx    == zoneIndex(lba)
      opened == openZoneLocked(d, idx, FALSE)
  IN IF data = << >> THEN Ok(d)
     ELSE IF idx \notin Zones \/ ~Writable(d, idx, lba) THEN Err(d)
          ELSE IF opened.ok THEN Store(opened.dev, idx, lba, data) ELSE opened

\* ReportZones(startLBA, count): the indices of the zones described.
ReportedZones(lba, count) ==
  {z \in Zones : z >= zoneIndex(lba) /\ (count > 0 => z < zoneIndex(lba) + count)}

ReportZones(d, lba, count) ==
  [z \in ReportedZones(lba, count) |->
     [state |-> d.st[z], start |-> zoneStartLBA(z), wp |-> d.wp[z]]]

-----------------------------------------------------------------------------
(* The device on its own, driven by any caller: arguments past the end of   *)
(* the device and writes that do not fit included.                          *)

DevLBAs == 0 .. Capacity
Chunks  == UNION {[1 .. n -> Data] : n \in 0 .. ZoneSectors + 1}

DevInit == dev = New

DoOpen(lba)        == dev' = OpenZone(dev, lba).dev
DoClose(lba)       == dev' = CloseZone(dev, lba).dev
DoFinish(lba)      == dev' = FinishZone(dev, lba).dev
DoReset(lba)       == dev' = ResetZone(dev, lba).dev
DoWrite(lba, data) == dev' = WriteSectors(dev, lba, data).dev

DevNext ==
  \/ \E lba \in DevLBAs : DoOpen(lba)
  \/ \E lba \in DevLBAs : DoClose(lba)
  \/ \E lba \in DevLBAs : DoFinish(lba)
  \/ \E lba \in DevLBAs : DoReset(lba)
  \/ \E lba \in DevLBAs, data \in Chunks : DoWrite(lba, data)

DevSpec == DevInit /\ [][DevNext]_dev

-----------------------------------------------------------------------------
(* Properties *)

\* The device record is well formed: no write pointer leaves the device and the
\* open count neither passes the limit nor drops below zero.
DevTypeOK == dev \in Devices

\* openCount is exactly the number of open zones and never passes the limit:
\* every path that leaves or enters an open state, the implicit open of a
\* write that then fails at the zone boundary included, keeps it in step.
OpenCountExact ==
  /\ dev.open = Cardinality({z \in Zones : isOpen(dev.st[z])})
  /\ dev.open <= MaxOpenZones

\* A zone is FULL exactly when its write pointer is at its end, EMPTY only
\* when it is at its start, and the pointer never leaves the zone.
ConditionMatchesPointer ==
  \A z \in Zones :
    /\ dev.wp[z] \in zoneStartLBA(z) .. zoneEndLBA(z)
    /\ dev.st[z] = "FULL" <=> dev.wp[z] = zoneEndLBA(z)
    /\ dev.st[z] = "EMPTY" => dev.wp[z] = zoneStartLBA(z)

\* A sector at or above the write pointer of its zone reads as zeros.
ZeroAbovePointer ==
  \A z \in Zones, o \in Offsets :
    zoneStartLBA(z) + o >= dev.wp[z] => dev.data[z][o] = Zero

\* A zone is append-only: a step leaves every sector below the write pointer
\* as it is and never moves the pointer back, unless it resets the zone.
AppendOnly ==
  [][\A z \in Zones :
       dev'.st[z] # "EMPTY" =>
         /\ dev'.wp[z] >= dev.wp[z]
         /\ \A o \in Offsets :
              zoneStartLBA(z) + o < dev.wp[z] => dev'.data[z][o] = dev.data[z][o]]_dev
=============================================================================
