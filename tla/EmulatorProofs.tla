--------------------------- MODULE EmulatorProofs ---------------------------
(***************************************************************************)
(* The device's properties, proved for any number and size of zones, any   *)
(* open-zone limit and both behaviours of CLOSE ZONE on a FULL zone.       *)
(*                                                                         *)
(* None of the properties is inductive alone: that a FULL zone's pointer   *)
(* is at its end is what stops a second transition to FULL from taking one *)
(* off openCount again, and that the pointer lies in its zone is what puts *)
(* a write inside the zone's buffer.  Good is their conjunction as a       *)
(* predicate of a device record.  Every operation either leaves the record *)
(* alone or changes one zone by a ZoneStep, and ZoneSteps preserve Good.   *)
(***************************************************************************)
EXTENDS Emulator, FiniteSetTheorems, TLAPS

Records == [st : [Zones -> ZoneStates], wp : [Zones -> Int],
            data : [Zones -> [Offsets -> Sectors]], open : Int]

OpenSet(d) == {z \in Zones : isOpen(d.st[z])}

\* ConditionMatchesPointer and ZeroAbovePointer for one zone.
ZoneOK(d, z) ==
  /\ d.wp[z] \in zoneStartLBA(z) .. zoneEndLBA(z)
  /\ d.st[z] = "FULL" <=> d.wp[z] = zoneEndLBA(z)
  /\ d.st[z] = "EMPTY" => d.wp[z] = zoneStartLBA(z)
  /\ \A o \in Offsets : zoneStartLBA(z) + o >= d.wp[z] => d.data[z][o] = Zero

Good(d) ==
  /\ d \in Records
  /\ d.open = Cardinality(OpenSet(d))
  /\ d.open <= MaxOpenZones
  /\ \A z \in Zones : ZoneOK(d, z)

\* Zone z is only appended to.
Appends(d, e, z) ==
  e.st[z] # "EMPTY" =>
    /\ e.wp[z] >= d.wp[z]
    /\ \A o \in Offsets :
         zoneStartLBA(z) + o < d.wp[z] => e.data[z][o] = d.data[z][o]

\* openCount follows zone z into and out of the open states.
CountFollows(d, e, z) ==
  /\ isOpen(e.st[z]) /\ ~isOpen(d.st[z]) => e.open = d.open + 1
  /\ ~isOpen(e.st[z]) /\ isOpen(d.st[z]) => e.open = d.open - 1
  /\ (isOpen(e.st[z]) <=> isOpen(d.st[z])) => e.open = d.open

\* e is a record that differs from d in zone idx and the open count alone.
Changed(d, e, idx) ==
  /\ e \in Records
  /\ \A z \in Zones \ {idx} :
       e.st[z] = d.st[z] /\ e.wp[z] = d.wp[z] /\ e.data[z] = d.data[z]

\* e is d with zone idx changed, and idx is still as it should be.
ZoneStep(d, e, idx) ==
  /\ Changed(d, e, idx)
  /\ ZoneOK(e, idx)
  /\ CountFollows(d, e, idx)
  /\ e.open <= MaxOpenZones
  /\ Appends(d, e, idx)

StepAt(d, e, idx) == e = d \/ ZoneStep(d, e, idx)

Steps(d, e) == e = d \/ \E idx \in Zones : ZoneStep(d, e, idx)

-----------------------------------------------------------------------------
\* Zones begin at integers and lie inside the device.
LEMMA ZoneBounds ==
  ASSUME NEW z \in Zones
  PROVE  /\ zoneStartLBA(z) \in Nat
         /\ zoneEndLBA(z) = zoneStartLBA(z) + ZoneSectors
         /\ zoneEndLBA(z) \in Nat
         /\ zoneEndLBA(z) <= Capacity
<1>1. z \in Nat /\ ZoneCount \in Nat /\ ZoneSectors \in Nat /\ z + 1 <= ZoneCount
  BY DeviceAssumption DEF Zones
<1>2. (z + 1) * ZoneSectors <= ZoneCount * ZoneSectors
  BY <1>1
<1>3. (z + 1) * ZoneSectors = z * ZoneSectors + ZoneSectors
  BY <1>1
<1>4. z * ZoneSectors \in Nat
  BY <1>1
<1> QED
  BY <1>1, <1>2, <1>3, <1>4 DEF zoneStartLBA, zoneEndLBA, Capacity

\* The set of open zones is finite.
LEMMA OpenSetFinite ==
  ASSUME NEW d
  PROVE  IsFiniteSet(OpenSet(d)) /\ Cardinality(OpenSet(d)) \in Nat
<1>1. IsFiniteSet(Zones)
  BY FS_Interval, DeviceAssumption DEF Zones
<1>2. OpenSet(d) \in SUBSET Zones
  BY DEF OpenSet
<1> QED
  BY <1>1, <1>2, FS_Subset, FS_CardinalityType

\* A step of one zone keeps the open count exact.
LEMMA CountStep ==
  ASSUME NEW d, NEW e, NEW idx \in Zones, Good(d), ZoneStep(d, e, idx)
  PROVE  e.open = Cardinality(OpenSet(e))
<1> DEFINE S == OpenSet(d)
<1>1. IsFiniteSet(S) /\ Cardinality(S) \in Nat /\ d.open = Cardinality(S)
  BY OpenSetFinite DEF Good
<1>2. CASE isOpen(e.st[idx]) /\ ~isOpen(d.st[idx])
  <2>1. OpenSet(e) = S \cup {idx} /\ idx \notin S
    BY <1>2 DEF ZoneStep, Changed, OpenSet
  <2> QED
    BY <1>1, <1>2, <2>1, FS_AddElement DEF ZoneStep, CountFollows
<1>3. CASE ~isOpen(e.st[idx]) /\ isOpen(d.st[idx])
  <2>1. OpenSet(e) = S \ {idx} /\ idx \in S
    BY <1>3 DEF ZoneStep, Changed, OpenSet
  <2> QED
    BY <1>1, <1>3, <2>1, FS_RemoveElement DEF ZoneStep, CountFollows
<1>4. CASE isOpen(e.st[idx]) <=> isOpen(d.st[idx])
  <2>1. OpenSet(e) = S
    BY <1>4 DEF ZoneStep, Changed, OpenSet
  <2> QED
    BY <1>1, <1>4, <2>1 DEF ZoneStep, CountFollows
<1> QED
  BY <1>2, <1>3, <1>4

\* Good is preserved by every step of a device record.
LEMMA StepsKeepGood ==
  ASSUME NEW d, NEW e, Good(d), Steps(d, e)
  PROVE  Good(e)
<1>1. CASE e = d
  BY <1>1
<1>2. ASSUME NEW idx \in Zones, ZoneStep(d, e, idx)
      PROVE  Good(e)
  <2>1. \A z \in Zones : ZoneOK(e, z)
    BY <1>2 DEF ZoneStep, Changed, Good, ZoneOK
  <2>2. e.open = Cardinality(OpenSet(e))
    BY <1>2, CountStep
  <2> QED
    BY <1>2, <2>1, <2>2 DEF ZoneStep, Changed, Good
<1> QED
  BY <1>1, <1>2 DEF Steps

-----------------------------------------------------------------------------
(* The operations are steps. *)

\* The parts of e, a record that is d but for zone idx and the open count.
Parts(d, e, idx, s, w, b, n) ==
  /\ e = [st |-> e.st, wp |-> e.wp, data |-> e.data, open |-> e.open]
  /\ e.st = [d.st EXCEPT ![idx] = s]
  /\ (e.wp = d.wp /\ w = d.wp[idx]) \/ e.wp = [d.wp EXCEPT ![idx] = w]
  /\ (e.data = d.data /\ b = d.data[idx]) \/ e.data = [d.data EXCEPT ![idx] = b]
  /\ e.open = n

\* A record with these parts is well formed and differs from d as they say.
LEMMA ChangeZone ==
  ASSUME NEW d \in Records, NEW idx \in Zones, NEW s \in ZoneStates, NEW w \in Int,
         NEW b \in [Offsets -> Sectors], NEW n \in Int,
         NEW e, Parts(d, e, idx, s, w, b, n)
  PROVE  /\ Changed(d, e, idx)
         /\ e.st[idx] = s /\ e.wp[idx] = w /\ e.data[idx] = b /\ e.open = n
<1>1. /\ d.st \in [Zones -> ZoneStates] /\ d.wp \in [Zones -> Int]
      /\ d.data \in [Zones -> [Offsets -> Sectors]]
  BY DEF Records
<1>2. e.st \in [Zones -> ZoneStates] /\ e.st[idx] = s
  BY <1>1 DEF Parts
<1>3. e.wp \in [Zones -> Int] /\ e.wp[idx] = w
  BY <1>1 DEF Parts
<1>4. e.data \in [Zones -> [Offsets -> Sectors]] /\ e.data[idx] = b
  BY <1>1 DEF Parts
<1>5. e.open = n /\ e \in Records
  BY <1>2, <1>3, <1>4 DEF Parts, Records
<1>6. ASSUME NEW z \in Zones \ {idx}
      PROVE  e.st[z] = d.st[z] /\ e.wp[z] = d.wp[z] /\ e.data[z] = d.data[z]
  BY <1>1, <1>6 DEF Parts
<1> QED
  BY <1>2, <1>3, <1>4, <1>5, <1>6 DEF Changed

\* The parts of a good record.
LEMMA GoodParts ==
  ASSUME NEW d, Good(d), NEW idx \in Zones
  PROVE  /\ d \in Records
         /\ d.st[idx] \in ZoneStates /\ d.wp[idx] \in Int
         /\ d.data[idx] \in [Offsets -> Sectors]
         /\ d.open \in Int /\ d.open <= MaxOpenZones
         /\ MaxOpenZones \in Int /\ ZoneSectors \in Int
         /\ ZoneOK(d, idx)
  BY DeviceAssumption DEF Good, Records

\* openZoneLocked, for both kinds of open, is a step, and one that succeeds
\* leaves the zone open with its pointer and its data as they were.
LEMMA OpenLockedSteps ==
  ASSUME NEW d, Good(d), NEW idx \in Zones, NEW explicit \in BOOLEAN,
         NEW r, r = openZoneLocked(d, idx, explicit)
  PROVE  /\ StepAt(d, r.dev, idx)
         /\ r.ok => /\ isOpen(r.dev.st[idx])
                    /\ r.dev.wp[idx] = d.wp[idx]
                    /\ r.dev.data[idx] = d.data[idx]
<1>0. /\ d \in Records /\ d.st[idx] \in ZoneStates /\ d.wp[idx] \in Int
      /\ d.data[idx] \in [Offsets -> Sectors] /\ d.open \in Int
      /\ d.open <= MaxOpenZones /\ MaxOpenZones \in Int /\ ZoneOK(d, idx)
  BY GoodParts
<1>1. CASE isOpen(d.st[idx]) /\ ~explicit
  BY <1>1 DEF openZoneLocked, Ok, StepAt
<1>2. CASE isOpen(d.st[idx]) /\ explicit
  <2>1. r.dev = [d EXCEPT !.st[idx] = "EXPLICIT_OPEN"]
    BY <1>2 DEF openZoneLocked, Ok
  <2>2. Parts(d, r.dev, idx, "EXPLICIT_OPEN", d.wp[idx], d.data[idx], d.open)
    BY <1>0, <2>1 DEF Records, Parts
  <2>3. "EXPLICIT_OPEN" \in ZoneStates
    BY DEF ZoneStates, OpenStates
  <2>4. /\ Changed(d, r.dev, idx) /\ r.dev.st[idx] = "EXPLICIT_OPEN"
        /\ r.dev.wp[idx] = d.wp[idx] /\ r.dev.data[idx] = d.data[idx]
        /\ r.dev.open = d.open
    BY <1>0, <2>2, <2>3, ChangeZone
  <2>5. isOpen(r.dev.st[idx]) /\ d.st[idx] # "FULL" /\ d.st[idx] # "EMPTY"
    BY <1>2, <2>4 DEF isOpen, OpenStates
  <2>6. ZoneOK(r.dev, idx)
    BY <1>0, <2>4, <2>5 DEF ZoneOK
  <2>7. CountFollows(d, r.dev, idx)
    BY <1>2, <2>4, <2>5 DEF CountFollows
  <2>8. Appends(d, r.dev, idx)
    BY <1>0, <2>4 DEF Appends
  <2> QED
    BY <1>0, <2>4, <2>5, <2>6, <2>7, <2>8 DEF ZoneStep, StepAt
<1>3. CASE ~isOpen(d.st[idx]) /\ (d.st[idx] = "FULL" \/ d.open >= MaxOpenZones)
  BY <1>3 DEF openZoneLocked, Err, StepAt
<1>4. CASE ~isOpen(d.st[idx]) /\ ~(d.st[idx] = "FULL" \/ d.open >= MaxOpenZones)
  <2> DEFINE s == OpenAs(explicit)
  <2>1. s \in OpenStates /\ s \in ZoneStates
    BY DEF OpenAs, OpenStates, ZoneStates
  <2>2. r.dev = [d EXCEPT !.st[idx] = s, !.open = @ + 1]
    BY <1>4 DEF openZoneLocked, Ok
  <2> HIDE DEF s
  <2>3. Parts(d, r.dev, idx, s, d.wp[idx], d.data[idx], d.open + 1)
    BY <1>0, <2>2 DEF Records, Parts
  <2>4. /\ Changed(d, r.dev, idx) /\ r.dev.st[idx] = s
        /\ r.dev.wp[idx] = d.wp[idx] /\ r.dev.data[idx] = d.data[idx]
        /\ r.dev.open = d.open + 1
    BY <1>0, <2>1, <2>3, ChangeZone, d.open + 1 \in Int
  <2>5. ZoneStep(d, r.dev, idx) /\ isOpen(r.dev.st[idx])
    BY <1>0, <1>4, <2>1, <2>4
      DEF ZoneStep, ZoneOK, CountFollows, Appends, isOpen, OpenStates
  <2> QED
    BY <2>4, <2>5 DEF StepAt
<1> QED
  BY <1>1, <1>2, <1>3, <1>4

\* CloseZone is a step.
LEMMA CloseSteps ==
  ASSUME NEW d, Good(d), NEW lba
  PROVE  Steps(d, CloseZone(d, lba).dev)
<1> DEFINE idx == zoneIndex(lba)
           e   == CloseZone(d, lba).dev
<1>1. CASE ~(idx \in Zones /\ isOpen(d.st[idx]))
  BY <1>1 DEF CloseZone, Ok, Err, Steps
<1>2. CASE idx \in Zones /\ isOpen(d.st[idx])
  <2>1. e = [d EXCEPT !.st[idx] = "CLOSED", !.open = @ - 1]
    BY <1>2 DEF CloseZone, Ok
  <2> HIDE DEF e, idx
  <2>2. /\ d \in Records /\ d.st[idx] \in ZoneStates /\ d.wp[idx] \in Int
        /\ d.data[idx] \in [Offsets -> Sectors] /\ d.open \in Int
        /\ d.open <= MaxOpenZones /\ MaxOpenZones \in Int /\ ZoneOK(d, idx)
    BY <1>2, GoodParts
  <2>3. Parts(d, e, idx, "CLOSED", d.wp[idx], d.data[idx], d.open - 1)
    BY <1>2, <2>1, <2>2 DEF Records, Parts
  <2>4. "CLOSED" \in ZoneStates /\ d.open - 1 \in Int
    BY <2>2 DEF ZoneStates
  <2>5. /\ Changed(d, e, idx) /\ e.st[idx] = "CLOSED"
        /\ e.wp[idx] = d.wp[idx] /\ e.data[idx] = d.data[idx] /\ e.open = d.open - 1
    BY <1>2, <2>2, <2>3, <2>4, ChangeZone
  <2>6. ~isOpen(e.st[idx]) /\ d.st[idx] # "FULL" /\ d.st[idx] # "EMPTY"
    BY <1>2, <2>5 DEF isOpen, OpenStates
  <2>7. ZoneOK(e, idx)
    BY <2>2, <2>5, <2>6 DEF ZoneOK
  <2>8. CountFollows(d, e, idx)
    BY <1>2, <2>5, <2>6 DEF CountFollows
  <2>9. Appends(d, e, idx)
    BY <2>2, <2>5 DEF Appends
  <2> QED
    BY <1>2, <2>2, <2>5, <2>7, <2>8, <2>9 DEF ZoneStep, Steps, e
<1> QED
  BY <1>1, <1>2

\* FinishZone is a step.
LEMMA FinishSteps ==
  ASSUME NEW d, Good(d), NEW lba
  PROVE  Steps(d, FinishZone(d, lba).dev)
<1> DEFINE idx == zoneIndex(lba)
           e   == FinishZone(d, lba).dev
           n   == IF isOpen(d.st[idx]) THEN d.open - 1 ELSE d.open
<1>1. CASE ~(idx \in Zones /\ d.st[idx] # "FULL")
  BY <1>1 DEF FinishZone, Ok, Err, Steps
<1>2. CASE idx \in Zones /\ d.st[idx] # "FULL"
  <2>1. e = [d EXCEPT !.st[idx] = "FULL", !.wp[idx] = zoneEndLBA(idx), !.open = n]
    BY <1>2 DEF FinishZone, Ok
  <2> HIDE DEF e, idx, n
  <2>2. /\ d \in Records /\ d.st[idx] \in ZoneStates /\ d.wp[idx] \in Int
        /\ d.data[idx] \in [Offsets -> Sectors] /\ d.open \in Int
        /\ d.open <= MaxOpenZones /\ MaxOpenZones \in Int /\ ZoneOK(d, idx)
    BY <1>2, GoodParts
  <2>3. /\ zoneStartLBA(idx) \in Nat /\ zoneEndLBA(idx) \in Nat
        /\ zoneEndLBA(idx) = zoneStartLBA(idx) + ZoneSectors
        /\ ZoneSectors \in Nat \ {0}
    BY <1>2, ZoneBounds, DeviceAssumption
  <2>4. "FULL" \in ZoneStates /\ n \in Int /\ n <= MaxOpenZones
    BY <2>2 DEF ZoneStates, n
  <2>5. Parts(d, e, idx, "FULL", zoneEndLBA(idx), d.data[idx], n)
    BY <1>2, <2>1, <2>2 DEF Records, Parts
  <2>6. /\ Changed(d, e, idx) /\ e.st[idx] = "FULL" /\ e.wp[idx] = zoneEndLBA(idx)
        /\ e.data[idx] = d.data[idx] /\ e.open = n
    BY <1>2, <2>2, <2>3, <2>4, <2>5, ChangeZone
  <2>7. ~isOpen(e.st[idx])
    BY <2>6 DEF isOpen, OpenStates
  <2>8. ZoneOK(e, idx)
    BY <2>2, <2>3, <2>6 DEF ZoneOK, Offsets
  <2>9. CountFollows(d, e, idx)
    BY <2>6, <2>7 DEF CountFollows, n
  <2>10. Appends(d, e, idx)
    BY <2>2, <2>3, <2>6 DEF Appends, ZoneOK
  <2> QED
    BY <1>2, <2>4, <2>6, <2>8, <2>9, <2>10 DEF ZoneStep, Steps, e
<1> QED
  BY <1>1, <1>2

\* ResetZone is a step.
LEMMA ResetSteps ==
  ASSUME NEW d, Good(d), NEW lba
  PROVE  Steps(d, ResetZone(d, lba).dev)
<1> DEFINE idx == zoneIndex(lba)
           e   == ResetZone(d, lba).dev
           n   == IF isOpen(d.st[idx]) THEN d.open - 1 ELSE d.open
<1>1. CASE idx \notin Zones
  BY <1>1 DEF ResetZone, Err, Steps
<1>2. CASE idx \in Zones
  <2>1. e = [d EXCEPT !.st[idx] = "EMPTY", !.wp[idx] = zoneStartLBA(idx),
                      !.data[idx] = Erased(d, idx), !.open = n]
    BY <1>2 DEF ResetZone, Ok
  <2> HIDE DEF e, idx, n
  <2>2. /\ d \in Records /\ d.st[idx] \in ZoneStates /\ d.wp[idx] \in Int
        /\ d.data[idx] \in [Offsets -> Sectors] /\ d.open \in Int
        /\ d.open <= MaxOpenZones /\ MaxOpenZones \in Int /\ ZoneOK(d, idx)
    BY <1>2, GoodParts
  <2>3. /\ zoneStartLBA(idx) \in Nat /\ zoneEndLBA(idx) \in Nat
        /\ zoneEndLBA(idx) = zoneStartLBA(idx) + ZoneSectors
        /\ ZoneSectors \in Nat \ {0}
    BY <1>2, ZoneBounds, DeviceAssumption
  <2>4. "EMPTY" \in ZoneStates /\ n \in Int /\ n <= MaxOpenZones
    BY <2>2 DEF ZoneStates, n
  <2>5. Erased(d, idx) \in [Offsets -> Sectors]
    BY DEF Erased, Sectors
  <2>6. Parts(d, e, idx, "EMPTY", zoneStartLBA(idx), Erased(d, idx), n)
    BY <1>2, <2>1, <2>2 DEF Records, Parts
  <2>7. /\ Changed(d, e, idx) /\ e.st[idx] = "EMPTY" /\ e.wp[idx] = zoneStartLBA(idx)
        /\ e.data[idx] = Erased(d, idx) /\ e.open = n
    BY <1>2, <2>2, <2>3, <2>4, <2>5, <2>6, ChangeZone
  <2>8. ~isOpen(e.st[idx])
    BY <2>7 DEF isOpen, OpenStates
  <2>9. ZoneOK(e, idx)
    BY <2>3, <2>7 DEF ZoneOK, Erased
  <2>10. CountFollows(d, e, idx)
    BY <2>7, <2>8 DEF CountFollows, n
  <2>11. Appends(d, e, idx)
    BY <2>7 DEF Appends
  <2> QED
    BY <1>2, <2>4, <2>7, <2>9, <2>10, <2>11 DEF ZoneStep, Steps, e
<1> QED
  BY <1>1, <1>2

\* What a write carries: some sectors of data.
Payload(data) ==
  Len(data) \in Nat \ {0} /\ \A i \in 1 .. Len(data) : data[i] \in Sectors

\* Storing data at the write pointer of an open zone is a step of that zone.
LEMMA StoreSteps ==
  ASSUME NEW d, Good(d), NEW idx \in Zones, isOpen(d.st[idx]),
         NEW data, Payload(data), NEW e, e = Store(d, idx, d.wp[idx], data).dev
  PROVE  StepAt(d, e, idx)
<1> DEFINE lba == d.wp[idx]
           end == lba + Len(data)
           b   == Stored(d, idx, lba, data)
           f   == [d EXCEPT !.data[idx] = b]
<1>1. CASE ~Fits(idx, end)
  BY <1>1 DEF Store, Err, StepAt
<1>2. CASE Fits(idx, end)
  <2>1. /\ d \in Records /\ d.st[idx] \in ZoneStates /\ lba \in Int
        /\ d.data[idx] \in [Offsets -> Sectors] /\ d.open \in Int
        /\ d.open <= MaxOpenZones /\ MaxOpenZones \in Int /\ ZoneOK(d, idx)
    BY GoodParts
  <2>2. /\ zoneStartLBA(idx) \in Nat /\ zoneEndLBA(idx) \in Nat
        /\ zoneEndLBA(idx) = zoneStartLBA(idx) + ZoneSectors
        /\ ZoneSectors \in Nat \ {0}
    BY ZoneBounds, DeviceAssumption
  <2>3. /\ Len(data) \in Nat \ {0} /\ end \in Int /\ end <= zoneEndLBA(idx)
        /\ lba >= zoneStartLBA(idx)
    BY <1>2, <2>1, <2>2 DEF Payload, Fits, ZoneOK
  <2>4. b \in [Offsets -> Sectors]
    <3> DEFINE off == lba - zoneStartLBA(idx)
    <3>1. off \in Int
      BY <2>1, <2>2
    <3> HIDE DEF off
    <3>2. ASSUME NEW o \in Offsets, o \in off .. off + Len(data) - 1
          PROVE  data[o - off + 1] \in Sectors
      <4>1. o - off + 1 \in 1 .. Len(data)
        BY <2>3, <3>1, <3>2 DEF Offsets
      <4> QED
        BY <4>1 DEF Payload
    <3>3. \A o \in Offsets : d.data[idx][o] \in Sectors
      BY <2>1
    <3>4. b = [o \in Offsets |-> IF o \in off .. off + Len(data) - 1
                                 THEN data[o - off + 1] ELSE d.data[idx][o]]
      BY DEF Stored, off
    <3> HIDE DEF b
    <3> QED
      BY <3>2, <3>3, <3>4
  <2>5. \A o \in Offsets : zoneStartLBA(idx) + o < lba => b[o] = d.data[idx][o]
    BY <2>1, <2>2, <2>3 DEF Stored, Offsets
  <2>6. \A o \in Offsets : zoneStartLBA(idx) + o >= end => b[o] = Zero
    BY <2>1, <2>2, <2>3 DEF Stored, Offsets, ZoneOK
  <2>7. e = Advance(f, idx, end)
    BY <1>2 DEF Store, Ok
  <2>8. d.st[idx] # "FULL" /\ d.st[idx] # "EMPTY"
    BY DEF isOpen, OpenStates
  <2> HIDE DEF b
  <2>9. CASE end = zoneEndLBA(idx)
    <3>1. e = [f EXCEPT !.wp[idx] = end, !.st[idx] = "FULL", !.open = @ - 1]
      BY <2>7, <2>9 DEF Advance
    <3>2. Parts(d, e, idx, "FULL", end, b, d.open - 1)
      BY <2>1, <3>1 DEF Records, Parts
    <3>3. "FULL" \in ZoneStates /\ d.open - 1 \in Int
      BY <2>1 DEF ZoneStates
    <3>4. /\ Changed(d, e, idx) /\ e.st[idx] = "FULL" /\ e.wp[idx] = end
          /\ e.data[idx] = b /\ e.open = d.open - 1
      BY <2>1, <2>3, <2>4, <3>2, <3>3, ChangeZone
    <3> HIDE DEF end, lba
    <3>5. ~isOpen(e.st[idx])
      BY <3>4 DEF isOpen, OpenStates
    <3>6. ZoneOK(e, idx)
      BY <2>2, <2>3, <2>6, <2>9, <3>4 DEF ZoneOK
    <3>7. CountFollows(d, e, idx)
      BY <3>4, <3>5 DEF CountFollows
    <3>8. Appends(d, e, idx)
      BY <2>1, <2>3, <2>5, <3>4 DEF Appends, end, lba
    <3> QED
      BY <2>1, <3>4, <3>6, <3>7, <3>8 DEF ZoneStep, StepAt
  <2>10. CASE end # zoneEndLBA(idx)
    <3>1. e = [f EXCEPT !.wp[idx] = end]
      BY <2>7, <2>10 DEF Advance
    <3>2. Parts(d, e, idx, d.st[idx], end, b, d.open)
      BY <2>1, <3>1 DEF Records, Parts
    <3>3. /\ Changed(d, e, idx) /\ e.st[idx] = d.st[idx] /\ e.wp[idx] = end
          /\ e.data[idx] = b /\ e.open = d.open
      BY <2>1, <2>3, <2>4, <3>2, ChangeZone
    <3> HIDE DEF end
    <3>4. ZoneOK(e, idx)
      BY <2>1, <2>2, <2>3, <2>6, <2>8, <2>10, <3>3 DEF ZoneOK, end
    <3>5. CountFollows(d, e, idx)
      BY <3>3 DEF CountFollows
    <3>6. Appends(d, e, idx)
      BY <2>1, <2>3, <2>5, <3>3 DEF Appends, end
    <3> QED
      BY <2>1, <3>3, <3>4, <3>5, <3>6 DEF ZoneStep, StepAt
  <2> QED
    BY <2>9, <2>10
<1> QED
  BY <1>1, <1>2

\* The implicit open and the write it is for are together one step: the open
\* leaves the zone's pointer and data alone.
LEMMA OpenThenStep ==
  ASSUME NEW d, NEW o, NEW e, NEW idx \in Zones, Good(d),
         StepAt(d, o, idx), StepAt(o, e, idx),
         o.wp[idx] = d.wp[idx], o.data[idx] = d.data[idx]
  PROVE  StepAt(d, e, idx)
<1>1. CASE o = d \/ e = o
  BY <1>1 DEF StepAt
<1>2. CASE ZoneStep(d, o, idx) /\ ZoneStep(o, e, idx)
  <2>1. d.open \in Int /\ o.open \in Int /\ e.open \in Int
    BY <1>2 DEF Good, ZoneStep, Changed, Records
  <2>2. Changed(d, e, idx)
    BY <1>2 DEF ZoneStep, Changed
  <2>3. CountFollows(d, e, idx)
    BY <1>2, <2>1 DEF ZoneStep, CountFollows
  <2>4. Appends(d, e, idx)
    BY <1>2 DEF ZoneStep, Appends
  <2> QED
    BY <1>2, <2>2, <2>3, <2>4 DEF ZoneStep, StepAt
<1> QED
  BY <1>1, <1>2 DEF StepAt

\* WriteSectors is a step, whether it succeeds or fails half way.
LEMMA WriteSteps ==
  ASSUME NEW d, Good(d), NEW lba, NEW data, data = << >> \/ Payload(data)
  PROVE  Steps(d, WriteSectors(d, lba, data).dev)
<1> DEFINE idx == zoneIndex(lba)
           o   == openZoneLocked(d, idx, FALSE)
           e   == WriteSectors(d, lba, data).dev
<1>1. CASE data = << >> \/ idx \notin Zones \/ ~Writable(d, idx, lba)
  BY <1>1 DEF WriteSectors, Ok, Err, Steps
<1>2. CASE data # << >> /\ idx \in Zones /\ Writable(d, idx, lba)
  <2>1. /\ StepAt(d, o.dev, idx)
        /\ o.ok => /\ isOpen(o.dev.st[idx])
                   /\ o.dev.wp[idx] = d.wp[idx] /\ o.dev.data[idx] = d.data[idx]
    BY <1>2, OpenLockedSteps
  <2>2. Good(o.dev)
    BY <1>2, <2>1, StepsKeepGood DEF StepAt, Steps
  <2>3. e = IF o.ok THEN Store(o.dev, idx, lba, data).dev ELSE o.dev
    BY <1>2 DEF WriteSectors
  <2>4. lba = d.wp[idx] /\ Payload(data)
    BY <1>2 DEF Writable
  <2> HIDE DEF e, idx, o
  <2>5. StepAt(d, e, idx)
    <3>1. CASE ~o.ok
      BY <2>1, <2>3, <3>1
    <3>2. CASE o.ok
      <4>1. StepAt(o.dev, e, idx)
        BY <1>2, <2>1, <2>2, <2>3, <2>4, <3>2, StoreSteps
      <4> QED
        BY <1>2, <2>1, <3>2, <4>1, OpenThenStep
    <3> QED
      BY <3>1, <3>2
  <2> QED
    BY <1>2, <2>5 DEF StepAt, Steps, e
<1> QED
  BY <1>1, <1>2

-----------------------------------------------------------------------------
(* The theorems *)

\* A new device is good.
LEMMA NewGood == Good(New)
<1>1. New \in Records
  BY ZoneBounds DEF New, Records, ZoneStates, Sectors
<1>2. OpenSet(New) = {}
  BY DEF New, OpenSet, isOpen, OpenStates
<1>3. \A z \in Zones : ZoneOK(New, z)
  BY ZoneBounds, DeviceAssumption DEF New, ZoneOK
<1> QED
  BY <1>1, <1>2, <1>3, FS_EmptySet, DeviceAssumption DEF Good, New

\* Whatever a caller asks of the device is a step.
LEMMA NextSteps ==
  ASSUME Good(dev), DevNext
  PROVE  Steps(dev, dev')
<1>1. ASSUME NEW lba \in DevLBAs, DoOpen(lba)
      PROVE  Steps(dev, dev')
  <2>1. CASE zoneIndex(lba) \notin Zones
    BY <1>1, <2>1 DEF DoOpen, OpenZone, Err, Steps
  <2>2. CASE zoneIndex(lba) \in Zones
    BY <1>1, <2>2, OpenLockedSteps DEF DoOpen, OpenZone, Steps, StepAt
  <2> QED
    BY <2>1, <2>2
<1>2. ASSUME NEW lba \in DevLBAs, DoClose(lba)
      PROVE  Steps(dev, dev')
  BY <1>2, CloseSteps DEF DoClose
<1>3. ASSUME NEW lba \in DevLBAs, DoFinish(lba)
      PROVE  Steps(dev, dev')
  BY <1>3, FinishSteps DEF DoFinish
<1>4. ASSUME NEW lba \in DevLBAs, DoReset(lba)
      PROVE  Steps(dev, dev')
  BY <1>4, ResetSteps DEF DoReset
<1>5. ASSUME NEW lba \in DevLBAs, NEW data \in Chunks, DoWrite(lba, data)
      PROVE  Steps(dev, dev')
  <2>1. PICK n \in 0 .. ZoneSectors + 1 : data \in [1 .. n -> Data]
    BY <1>5 DEF Chunks
  <2>2. n \in Nat /\ Len(data) = n /\ data \in Seq(Data)
    BY <2>1, DeviceAssumption
  <2>3. data = << >> \/ Payload(data)
    BY <2>1, <2>2 DEF Payload, Sectors
  <2> QED
    BY <1>5, <2>3, WriteSteps DEF DoWrite
<1> QED
  BY <1>1, <1>2, <1>3, <1>4, <1>5 DEF DevNext

\* Good is an invariant of the device, whatever the calls.
THEOREM DeviceGood == DevSpec => []Good(dev)
<1>1. DevInit => Good(dev)
  BY NewGood DEF DevInit
<1>2. Good(dev) /\ [DevNext]_dev => Good(dev)'
  BY NextSteps, StepsKeepGood DEF Steps
<1> QED
  BY <1>1, <1>2, PTL DEF DevSpec

\* Good is at least the four invariants the model checker looks at.
LEMMA GoodImplies ==
  Good(dev) => DevTypeOK /\ OpenCountExact /\ ConditionMatchesPointer /\ ZeroAbovePointer
<1> SUFFICES ASSUME Good(dev)
             PROVE  DevTypeOK /\ OpenCountExact /\ ConditionMatchesPointer /\ ZeroAbovePointer
  OBVIOUS
<1>1. OpenCountExact
  BY DEF Good, OpenCountExact, OpenSet
<1>2. ConditionMatchesPointer /\ ZeroAbovePointer
  BY DEF Good, ZoneOK, ConditionMatchesPointer, ZeroAbovePointer
<1>3. dev.open \in 0 .. MaxOpenZones
  BY OpenSetFinite, DeviceAssumption DEF Good
<1>4. \A z \in Zones : dev.wp[z] \in 0 .. Capacity
  BY ZoneBounds, DeviceAssumption DEF Good, ZoneOK, Capacity
<1>5. dev \in Records /\ dev.wp \in [Zones -> 0 .. Capacity]
  BY <1>4 DEF Good, Records
<1>6. dev \in Devices
  BY <1>3, <1>5 DEF Records, Devices
<1> QED
  BY <1>1, <1>2, <1>6 DEF DevTypeOK

\* Emulator methods keep the device record well formed.
THEOREM DeviceTypeCorrect == DevSpec => []DevTypeOK
  BY DeviceGood, GoodImplies, PTL

\* openCount is the number of open zones and never passes MaxOpenZones.
THEOREM OpenCountCorrect == DevSpec => []OpenCountExact
  BY DeviceGood, GoodImplies, PTL

\* A zone's condition and its write pointer always agree.
THEOREM ConditionCorrect == DevSpec => []ConditionMatchesPointer
  BY DeviceGood, GoodImplies, PTL

\* Nothing above a write pointer is ever anything but zeros.
THEOREM UnwrittenIsZero == DevSpec => []ZeroAbovePointer
  BY DeviceGood, GoodImplies, PTL

\* Zones are append-only between resets.
THEOREM ZonesAppendOnly == DevSpec => AppendOnly
<1>1. Good(dev) /\ [DevNext]_dev =>
        [\A z \in Zones :
           dev'.st[z] # "EMPTY" =>
             /\ dev'.wp[z] >= dev.wp[z]
             /\ \A o \in Offsets :
                  zoneStartLBA(z) + o < dev.wp[z] => dev'.data[z][o] = dev.data[z][o]]_dev
  <2> SUFFICES ASSUME Good(dev), DevNext, NEW z \in Zones
               PROVE  Appends(dev, dev', z)
    BY DEF Appends
  <2>1. Steps(dev, dev') /\ dev.wp[z] \in Int
    BY NextSteps, GoodParts
  <2> QED
    BY <2>1 DEF Steps, ZoneStep, Changed, Appends
<1> QED
  BY <1>1, DeviceGood, PTL DEF DevSpec, AppendOnly
=============================================================================
