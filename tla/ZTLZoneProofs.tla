--------------------------- MODULE ZTLZoneProofs ---------------------------
(***************************************************************************)
(* The zone manager, the write buffer and the device beside each other,    *)
(* and the disk they show, until the first collection.                     *)
(*                                                                         *)
(* ZonesStayAgreed, FreeZonesAllocatable, FlushesInOrder: the free list,   *)
(* the open set and its LRU order describe the device, AllocateFree finds  *)
(* every zone on the free list EMPTY, and every flush writes at the        *)
(* device's write pointer.  The three rest on one another, so they are one *)
(* invariant (ZoneInv): the lists are what the device has, a buffer begins *)
(* at the device's pointer, and a zone's pointer on the device is behind   *)
(* the zone manager's only while a buffer, a flush or a writer has the     *)
(* difference in hand, or after a flush that met other commands has lost   *)
(* the end of a full zone.  FlushesAlone, because a flush beside a writer  *)
(* moves the zone manager's pointer back; ~CloseFullFails, because a drive *)
(* that refuses CLOSE ZONE on a FULL zone stops every eviction of one.     *)
(*                                                                         *)
(* PointersStayAgreed, with one client (Serial): at rest nothing has been  *)
(* lost on the way.                                                        *)
(*                                                                         *)
(* SettledReadsHold and ZTLImplementsBlockDevice, with one client that     *)
(* writes whole segments of the table (WholeRequests): what succeeded      *)
(* reads back, and the translation layer refines BlockDevice.  Every step  *)
(* is first shown to keep every sector of the disk (DiskKept), wherever    *)
(* the sector is and wherever the step moves it, except the one that sets  *)
(* an L2P entry (SetL2P), which changes exactly the sectors of the         *)
(* command's segment. The invariant (DiskInv) says that a mapped segment   *)
(* whose client has handed it over lies below the zone manager's pointer,  *)
(* and wholly on one side of the device's; that every sector shown is one  *)
(* promised; and that the segments a command has passed show its data.  It *)
(* holds as long as zone 0, whose first address means "unmapped", is       *)
(* unused.  It is stated of a set S of LBAs: here all of them, in          *)
(* RecoveryProofs those that no crash has lost.                            *)
(***************************************************************************)
EXTENDS ZTLTableProofs, ZTLDisk

-----------------------------------------------------------------------------
(* Lists of distinct zones *)

\* A list without repetitions is as long as the set of its elements is large.
LEMMA DistinctLength ==
  ASSUME NEW s \in Seq(Zones), NoDup(s)
  PROVE  Len(s) = Cardinality(ToSet(s))
<1> DEFINE n == Len(s)
           T == ToSet(s)
<1>1. n \in Nat /\ s \in [1 .. n -> Zones] /\ DOMAIN s = 1 .. n
  BY LenProperties
<1>2. T = {s[i] : i \in 1 .. n}
  BY <1>1 DEF ToSet
<1> HIDE DEF T, n
<1>3. s \in [1 .. n -> T] /\ \A y \in T : \E i \in 1 .. n : s[i] = y
  BY <1>1, <1>2
<1>4. \A i, j \in 1 .. n : s[i] = s[j] => i = j
  BY DEF NoDup, n
<1>5. s \in Bijection(1 .. n, T)
  BY <1>3, <1>4 DEF Bijection, Injection, Surjection, IsInjective
<1>6. ExistsBijection(1 .. n, T)
  BY <1>5 DEF ExistsBijection
<1> QED
  BY <1>1, <1>6, FS_CountingElements DEF n, T

\* A zone that is not in the list is appended.
LEMMA AppendDistinct ==
  ASSUME NEW s \in Seq(Zones), NoDup(s), NEW z \in Zones, ~Contains(s, z)
  PROVE  /\ Append(s, z) \in Seq(Zones) /\ NoDup(Append(s, z))
         /\ \A y : Contains(Append(s, z), y) <=> Contains(s, y) \/ y = z
<1> DEFINE n == Len(s)
           a == Append(s, z)
<1>1. /\ a \in Seq(Zones) /\ Len(a) = n + 1 /\ a[n + 1] = z /\ n \in Nat
      /\ \A i \in 1 .. n : a[i] = s[i]
  BY AppendProperties, LenProperties
<1> HIDE DEF a
<1>2. \A i \in 1 .. n : s[i] # z
  BY DEF Contains
<1>3. NoDup(a)
  BY <1>1, <1>2 DEF NoDup
<1>4. \A y : Contains(a, y) <=> Contains(s, y) \/ y = z
  BY <1>1 DEF Contains
<1> QED
  BY <1>1, <1>3, <1>4 DEF a

\* The first zone of a list is taken off.
LEMMA TailDistinct ==
  ASSUME NEW s \in Seq(Zones), NoDup(s), s # << >>
  PROVE  /\ Head(s) \in Zones /\ Contains(s, Head(s))
         /\ Tail(s) \in Seq(Zones) /\ NoDup(Tail(s))
         /\ \A y : Contains(Tail(s), y) <=> Contains(s, y) /\ y # Head(s)
<1> DEFINE n == Len(s)
           a == Tail(s)
<1>1. /\ a \in Seq(Zones) /\ Len(a) = n - 1 /\ n \in Nat /\ n >= 1
      /\ \A i \in 1 .. n - 1 : a[i] = s[i + 1]
      /\ Head(s) \in Zones
  BY HeadTailProperties, EmptySeq
<1>2. Head(s) = s[1]
  OBVIOUS
<1> HIDE DEF a
<1>3. NoDup(a)
  BY <1>1 DEF NoDup
<1>4. ASSUME NEW y, Contains(a, y)
      PROVE  Contains(s, y) /\ y # s[1]
  BY <1>1, <1>4 DEF Contains, NoDup
<1>5. ASSUME NEW y, Contains(s, y), y # s[1]
      PROVE  Contains(a, y)
  <2>1. PICK i \in 1 .. n : s[i] = y
    BY <1>5 DEF Contains
  <2>2. i - 1 \in 1 .. n - 1 /\ a[i - 1] = y
    BY <1>1, <1>5, <2>1
  <2> QED
    BY <1>1, <2>2 DEF Contains
<1>6. Contains(s, s[1])
  BY <1>1 DEF Contains
<1> QED
  BY <1>1, <1>2, <1>3, <1>4, <1>5, <1>6 DEF a

\* A zone is taken out of the list wherever it stands.
LEMMA RemoveDistinct ==
  ASSUME NEW s \in Seq(Zones), NoDup(s), NEW z, Contains(s, z)
  PROVE  LET r == RemoveAt(s, SelectLastInSeq(s, LAMBDA x : x = z))
         IN /\ r \in Seq(Zones) /\ NoDup(r)
            /\ \A y : Contains(r, y) <=> Contains(s, y) /\ y # z
<1> DEFINE n == Len(s)
           I == {i \in 1 .. n : s[i] = z}
<1>1. n \in Nat /\ \A i \in 1 .. n : s[i] \in Zones
  BY LenProperties
<1>2. PICK k \in 1 .. n : s[k] = z
  BY DEF Contains
<1>3. I = {k}
  BY <1>2 DEF NoDup
<1>4. Max(I) = k
  <2>1. \A x \in {k} : \A y \in {k} : x >= y
    BY <1>1
  <2> QED
    BY <1>3, <2>1 DEF Max
<1>5. SelectLastInSeq(s, LAMBDA x : x = z) = k
  BY <1>3, <1>4 DEF SelectLastInSeq
<1> DEFINE a == SubSeq(s, 1, k - 1)
           b == SubSeq(s, k + 1, n)
           r == a \o b
<1>6. a \in Seq(Zones) /\ Len(a) = k - 1 /\ \A i \in 1 .. k - 1 : a[i] = s[i]
  <2>1. \A i \in 1 .. k - 1 : s[i] \in Zones
    BY <1>1
  <2>2. /\ a \in Seq(Zones) /\ Len(a) = IF 1 <= k - 1 THEN (k - 1) - 1 + 1 ELSE 0
        /\ \A i \in 1 .. (k - 1) - 1 + 1 : a[i] = s[1 + i - 1]
    BY <1>1, <2>1, SubSeqProperties
  <2> HIDE DEF a
  <2> QED
    BY <1>1, <2>2
<1>7. b \in Seq(Zones) /\ Len(b) = n - k /\ \A i \in 1 .. n - k : b[i] = s[k + i]
  <2>1. \A i \in k + 1 .. n : s[i] \in Zones
    BY <1>1
  <2>2. /\ b \in Seq(Zones) /\ Len(b) = IF k + 1 <= n THEN n - (k + 1) + 1 ELSE 0
        /\ \A i \in 1 .. n - (k + 1) + 1 : b[i] = s[(k + 1) + i - 1]
    BY <1>1, <2>1, SubSeqProperties
  <2> HIDE DEF b
  <2> QED
    BY <1>1, <2>2
<1> HIDE DEF a, b
<1>8. /\ r \in Seq(Zones) /\ Len(r) = Len(a) + Len(b)
      /\ \A i \in 1 .. Len(a) + Len(b) : r[i] = IF i <= Len(a) THEN a[i] ELSE b[i - Len(a)]
  BY <1>6, <1>7, ConcatProperties
<1> HIDE DEF r
<1>9. /\ Len(r) = n - 1
      /\ \A i \in 1 .. n - 1 : r[i] = IF i < k THEN s[i] ELSE s[i + 1]
  <2> HIDE DEF n
  <2>1. Len(a) = k - 1 /\ Len(b) = n - k /\ Len(a) + Len(b) = n - 1
    BY <1>1, <1>6, <1>7
  <2>2. ASSUME NEW i \in 1 .. n - 1
        PROVE  r[i] = IF i < k THEN s[i] ELSE s[i + 1]
    <3>1. r[i] = IF i <= k - 1 THEN a[i] ELSE b[i - (k - 1)]
      BY <1>8, <2>1
    <3>2. CASE i < k
      <4>1. i \in 1 .. k - 1
        BY <1>1, <3>2
      <4> QED
        BY <1>6, <3>1, <3>2, <4>1
    <3>3. CASE ~(i < k)
      <4>1. i - (k - 1) \in 1 .. n - k /\ k + (i - (k - 1)) = i + 1 /\ ~(i <= k - 1)
        BY <1>1, <3>3
      <4> QED
        BY <1>7, <3>1, <3>3, <4>1
    <3> QED
      BY <3>2, <3>3
  <2> QED
    BY <1>8, <2>1, <2>2
<1>10. NoDup(r)
  <2>1. \A i, j \in 1 .. n : s[i] = s[j] => i = j
    BY DEF NoDup
  <2> HIDE DEF n
  <2>2. ASSUME NEW i \in 1 .. n - 1, NEW j \in 1 .. n - 1, r[i] = r[j]
        PROVE  i = j
    BY <1>1, <1>9, <2>1, <2>2
  <2> QED
    BY <1>9, <2>2 DEF NoDup
<1>11. ASSUME NEW y, Contains(r, y)
       PROVE  Contains(s, y) /\ y # z
  <2>1. PICK i \in 1 .. n - 1 : r[i] = y
    BY <1>9, <1>11 DEF Contains
  <2>2. PICK j \in 1 .. n : j # k /\ s[j] = y
    <3>1. CASE i < k
      BY <1>1, <1>9, <2>1, <3>1
    <3>2. CASE ~(i < k)
      BY <1>1, <1>9, <2>1, <3>2
    <3> QED
      BY <3>1, <3>2
  <2> QED
    BY <1>2, <2>2 DEF Contains, NoDup
<1>12. ASSUME NEW y, Contains(s, y), y # z
       PROVE  Contains(r, y)
  <2>1. PICK j \in 1 .. n : s[j] = y
    BY <1>12 DEF Contains
  <2>2. j # k
    BY <1>2, <1>12, <2>1
  <2>3. CASE j < k
    <3>1. j \in 1 .. n - 1 /\ r[j] = y
      BY <1>1, <1>9, <2>1, <2>3
    <3> QED
      BY <1>9, <3>1 DEF Contains
  <2>4. CASE j > k
    <3>1. j - 1 \in 1 .. n - 1 /\ r[j - 1] = y
      BY <1>1, <1>9, <2>1, <2>4
    <3> QED
      BY <1>9, <3>1 DEF Contains
  <2> QED
    BY <1>1, <2>2, <2>3, <2>4
<1>13. RemoveAt(s, SelectLastInSeq(s, LAMBDA x : x = z)) = r
  BY <1>5 DEF RemoveAt, r, a, b
<1> QED
  BY <1>8, <1>10, <1>11, <1>12, <1>13
-----------------------------------------------------------------------------
(* The zone manager's lists and the device *)

\* The open list and the map hold the same zones, once each and no more than
\* may be open; among them are all the device has open, and they are open or
\* FULL there; the free list holds the EMPTY zones.
Lists(m, d) ==
  /\ m.lru \in Seq(Zones) /\ NoDup(m.lru)
  /\ m.open \subseteq Zones
  /\ \A z \in Zones : Contains(m.lru, z) <=> z \in m.open
  /\ Cardinality(m.open) <= MaxOpenZones
  /\ \A z \in Zones : isOpen(d.st[z]) => z \in m.open
  /\ \A z \in m.open : isOpen(d.st[z]) \/ d.st[z] = "FULL"
  /\ \A z \in Zones : Contains(m.free, z) <=> d.st[z] = "EMPTY"

\* What a call leaves of the device when it only opens and closes zones.
Stays(d, e) == e.wp = d.wp /\ e.data = d.data

LEMMA ZonesFinite ==
  ASSUME NEW S, S \subseteq Zones
  PROVE  IsFiniteSet(S) /\ Cardinality(S) \in Nat
<1>1. IsFiniteSet(Zones)
  BY FS_Interval, DeviceAssumption DEF Zones
<1>2. S \in SUBSET Zones
  OBVIOUS
<1> QED
  BY <1>1, <1>2, FS_Subset, FS_CardinalityType

\* The start of a zone is in the zone.
LEMMA IndexOfStart ==
  ASSUME NEW z \in Zones
  PROVE  zoneIndex(zoneStartLBA(z)) = z
<1>1. z \in Nat /\ ZoneSectors \in Nat /\ ZoneSectors > 0
  BY ZoneZero, DeviceAssumption
<1>2. 0 \in 0 .. ZoneSectors - 1
  BY <1>1
<1>3. (z * ZoneSectors + 0) \div ZoneSectors = z
  BY <1>1, <1>2, Unpack
<1>4. z * ZoneSectors + 0 = z * ZoneSectors
  BY <1>1
<1> QED
  BY <1>3, <1>4 DEF zoneIndex, zoneStartLBA

\* Closing a zone of the open list, on a drive that accepts it for a FULL one.
LEMMA CloseListed ==
  ASSUME ~CloseFullFails, NEW d \in Records, NEW z \in Zones,
         isOpen(d.st[z]) \/ d.st[z] = "FULL",
         NEW r, r = CloseZone(d, zoneStartLBA(z))
  PROVE  /\ r.ok /\ Stays(d, r.dev)
         /\ \A y \in Zones \ {z} : r.dev.st[y] = d.st[y]
         /\ r.dev.st[z] \in {"CLOSED", "FULL"}
<1>1. zoneIndex(zoneStartLBA(z)) = z
  BY IndexOfStart
<1>2. CASE isOpen(d.st[z])
  <2>1. r.ok /\ r.dev = [d EXCEPT !.st[z] = "CLOSED", !.open = @ - 1]
    BY <1>1, <1>2 DEF CloseZone, Ok
  <2> QED
    BY <2>1 DEF Records, Stays
<1>3. CASE ~isOpen(d.st[z])
  <2>1. r.ok /\ r.dev = d
    BY <1>1, <1>3 DEF CloseZone, Ok
  <2> QED
    BY <1>3, <2>1 DEF Records, Stays
<1> QED
  BY <1>2, <1>3

\* An eviction, when one is needed, succeeds and leaves room for one more zone.
LEMMA RoomLists ==
  ASSUME ~CloseFullFails, NEW m, ZMData(m), NEW d, Good(d), Lists(m, d),
         NEW r, r = MakeRoom(m, d)
  PROVE  /\ r.ok /\ Lists(r.zm, r.dev) /\ Stays(d, r.dev) /\ Good(r.dev)
         /\ r.zm.open \subseteq m.open /\ Cardinality(r.zm.open) < MaxOpenZones
         /\ r.zm.free = m.free /\ r.zm.wp = m.wp /\ ZMData(r.zm)
         /\ \A y \in Zones : d.st[y] # "FULL" => r.dev.st[y] # "FULL"
<1>1. Good(r.dev) /\ r.zm.free = m.free /\ r.zm.wp = m.wp /\ ZMData(r.zm)
  BY GoodRoom, ZMRoom
<1>2. m.open \subseteq Zones /\ IsFiniteSet(m.open) /\ Cardinality(m.open) \in Nat
  BY ZonesFinite DEF Lists
<1>3. MaxOpenZones \in Nat /\ MaxOpenZones > 0
  BY DeviceAssumption
<1>4. CASE ~(Cardinality(m.open) >= MaxOpenZones)
  <2>1. r = ZMOk(m, d, 0)
    BY <1>4 DEF MakeRoom
  <2>2. r.ok /\ r.zm = m /\ r.dev = d
    BY <2>1 DEF ZMOk
  <2> QED
    BY <1>1, <1>2, <1>3, <1>4, <2>2 DEF Stays
<1>5. CASE Cardinality(m.open) >= MaxOpenZones
  <2> DEFINE z == Head(m.lru)
             c == CloseZone(d, zoneStartLBA(z))
  <2>1. m.lru # << >>
    <3>1. m.open # {}
      BY <1>2, <1>3, <1>5, FS_EmptySet
    <3>2. PICK y \in Zones : Contains(m.lru, y)
      BY <1>2, <3>1 DEF Lists
    <3>3. Len(<< >>) = 0
      BY EmptySeq
    <3>4. ~Contains(<< >>, y)
      BY <3>3 DEF Contains
    <3> QED
      BY <3>2, <3>4
  <2>2. /\ z \in Zones /\ Contains(m.lru, z)
        /\ Tail(m.lru) \in Seq(Zones) /\ NoDup(Tail(m.lru))
        /\ \A y : Contains(Tail(m.lru), y) <=> Contains(m.lru, y) /\ y # z
    BY <2>1, TailDistinct DEF Lists
  <2>3. r = Evict(m, z, c)
    BY <1>5, <2>1 DEF MakeRoom, evictOldestLocked
  <2> HIDE DEF z, c
  <2>4. z \in m.open /\ (isOpen(d.st[z]) \/ d.st[z] = "FULL")
    BY <2>2 DEF Lists
  <2>5. /\ c.ok /\ Stays(d, c.dev)
        /\ \A y \in Zones \ {z} : c.dev.st[y] = d.st[y]
        /\ c.dev.st[z] \in {"CLOSED", "FULL"}
    BY <2>2, <2>4, CloseListed DEF Good, c
  <2>6. PICK n : n = [m EXCEPT !.st[z] = "CLOSED", !.lru = Tail(@), !.open = @ \ {z}]
    OBVIOUS
  <2>7. n.lru = Tail(m.lru) /\ n.open = m.open \ {z} /\ n.free = m.free
    BY <2>6 DEF ZMData
  <2>8. r.ok /\ r.zm = n /\ r.dev = c.dev
    BY <2>3, <2>5, <2>6 DEF Evict, ZMOk
  <2>9. Cardinality(n.open) = Cardinality(m.open) - 1
    BY <1>2, <2>4, <2>7, FS_RemoveElement
  <2>10. Cardinality(n.open) < MaxOpenZones
    BY <1>2, <1>3, <2>9 DEF Lists
  <2>11. ~isOpen(c.dev.st[z]) /\ c.dev.st[z] # "EMPTY" /\ d.st[z] # "EMPTY"
    BY <2>4, <2>5 DEF isOpen, OpenStates
  <2>12. Lists(n, c.dev)
    <3>1. \A y \in Zones : Contains(n.lru, y) <=> y \in n.open
      BY <2>2, <2>7 DEF Lists
    <3>2. \A y \in Zones : isOpen(c.dev.st[y]) => y \in n.open
      BY <2>5, <2>7, <2>11 DEF Lists
    <3>3. \A y \in n.open : isOpen(c.dev.st[y]) \/ c.dev.st[y] = "FULL"
      BY <1>2, <2>5, <2>7 DEF Lists
    <3>4. \A y \in Zones : Contains(n.free, y) <=> c.dev.st[y] = "EMPTY"
      BY <2>5, <2>7, <2>11 DEF Lists
    <3>5. Cardinality(n.open) <= MaxOpenZones
      BY <1>2, <1>3, <2>9, <2>10
    <3> QED
      BY <1>2, <2>2, <2>7, <3>1, <3>2, <3>3, <3>4, <3>5 DEF Lists
  <2>13. \A y \in Zones : d.st[y] # "FULL" => c.dev.st[y] # "FULL"
    <3>1. d.st[z] # "FULL" => c.dev.st[z] # "FULL"
      <4>1. ASSUME d.st[z] # "FULL" PROVE c.dev.st[z] = "CLOSED"
        <5>1. isOpen(d.st[z]) /\ zoneIndex(zoneStartLBA(z)) = z
          BY <2>2, <2>4, <4>1, IndexOfStart
        <5>2. c.dev = [d EXCEPT !.st[z] = "CLOSED", !.open = @ - 1]
          BY <2>2, <5>1 DEF CloseZone, Ok, c
        <5> QED
          BY <2>2, <5>2 DEF Good, Records
      <4> QED
        BY <4>1
    <3> QED
      BY <2>5, <3>1
  <2> QED
    BY <1>1, <2>5, <2>7, <2>8, <2>10, <2>12, <2>13
<1> QED
  BY <1>4, <1>5

\* With room, the device opens any zone that is not open and not FULL.
LEMMA OpenRoom ==
  ASSUME NEW m, NEW d, Good(d), Lists(m, d), Cardinality(m.open) < MaxOpenZones,
         NEW z \in Zones, z \notin m.open, d.st[z] # "FULL",
         NEW r, r = OpenZone(d, zoneStartLBA(z))
  PROVE  r.ok /\ Stays(d, r.dev) /\ r.dev.st = [d.st EXCEPT ![z] = "EXPLICIT_OPEN"]
<1>1. zoneIndex(zoneStartLBA(z)) = z /\ ~isOpen(d.st[z])
  BY IndexOfStart DEF Lists
<1>2. d.open < MaxOpenZones
  <2>1. OpenSet(d) \in SUBSET m.open
    BY DEF OpenSet, Lists
  <2>2. IsFiniteSet(m.open) /\ Cardinality(m.open) \in Nat
    BY ZonesFinite DEF Lists
  <2>3. Cardinality(OpenSet(d)) <= Cardinality(m.open)
    BY <2>1, <2>2, FS_Subset
  <2>4. Cardinality(OpenSet(d)) \in Nat /\ MaxOpenZones \in Nat
    BY OpenSetFinite, DeviceAssumption
  <2> QED
    BY <2>2, <2>3, <2>4 DEF Good
<1>3. ~(d.open >= MaxOpenZones)
  BY <1>2, DeviceAssumption DEF Good, Records
<1>4. r = Ok([d EXCEPT !.st[z] = OpenAs(TRUE), !.open = @ + 1])
  BY <1>1, <1>3 DEF OpenZone, openZoneLocked
<1>5. r.ok /\ r.dev = [d EXCEPT !.st[z] = "EXPLICIT_OPEN", !.open = @ + 1]
  BY <1>4 DEF Ok, OpenAs
<1> QED
  BY <1>5 DEF Good, Records, Stays

\* The zone is opened: it goes to the back of the list and into the map.
Pushes(m, d, n, e, z) ==
  /\ n.lru = Append(m.lru, z) /\ n.open = m.open \union {z}
  /\ \A y \in Zones : Contains(n.free, y) <=> Contains(m.free, y) /\ y # z
  /\ e.st = [d.st EXCEPT ![z] = "EXPLICIT_OPEN"]

LEMMA PushLists ==
  ASSUME NEW m, NEW d \in Records, Lists(m, d), Cardinality(m.open) < MaxOpenZones,
         NEW z \in Zones, z \notin m.open, NEW n, NEW e, Pushes(m, d, n, e, z)
  PROVE  Lists(n, e)
<1> USE DEF Pushes
<1>1. m.open \subseteq Zones /\ IsFiniteSet(m.open) /\ Cardinality(m.open) \in Nat
  BY ZonesFinite DEF Lists
<1>2. Cardinality(n.open) <= MaxOpenZones
  <2>1. Cardinality(n.open) = Cardinality(m.open) + 1
    BY <1>1, FS_AddElement
  <2> QED
    BY <1>1, <2>1, DeviceAssumption
<1>3. ~Contains(m.lru, z)
  BY DEF Lists
<1>4. /\ n.lru \in Seq(Zones) /\ NoDup(n.lru)
      /\ \A y : Contains(n.lru, y) <=> Contains(m.lru, y) \/ y = z
  BY <1>3, AppendDistinct DEF Lists
<1>5. e.st[z] = "EXPLICIT_OPEN" /\ \A y \in Zones \ {z} : e.st[y] = d.st[y]
  BY DEF Records
<1>6. isOpen(e.st[z]) /\ e.st[z] # "EMPTY"
  BY <1>5 DEF isOpen, OpenStates
<1>7. \A y \in Zones : Contains(n.lru, y) <=> y \in n.open
  BY <1>4 DEF Lists
<1>8. \A y \in Zones : isOpen(e.st[y]) => y \in n.open
  BY <1>5 DEF Lists
<1>9. \A y \in n.open : isOpen(e.st[y]) \/ e.st[y] = "FULL"
  BY <1>1, <1>5, <1>6 DEF Lists
<1>10. \A y \in Zones : Contains(n.free, y) <=> e.st[y] = "EMPTY"
  BY <1>5, <1>6 DEF Lists
<1> QED
  BY <1>1, <1>2, <1>4, <1>7, <1>8, <1>9, <1>10 DEF Lists
\* Only its top leaves a list when that is taken off.
LEMMA FrontKeeps ==
  ASSUME NEW s \in Seq(Zones), s # << >>, NEW y, Contains(s, y), y # Last(s)
  PROVE  Contains(Front(s), y)
<1> DEFINE n == Len(s)
           f == Front(s)
<1>1. n \in Nat /\ n >= 1
  BY EmptySeq
<1>2. Len(f) = n - 1 /\ \A i \in 1 .. n - 1 : f[i] = s[i]
  <2>1. f = SubSeq(s, 1, n - 1) /\ \A i \in 1 .. n - 1 : s[i] \in Zones
    BY DEF Front
  <2> HIDE DEF f, n
  <2>2. /\ Len(f) = IF 1 <= n - 1 THEN (n - 1) - 1 + 1 ELSE 0
        /\ \A i \in 1 .. (n - 1) - 1 + 1 : f[i] = s[1 + i - 1]
    BY <1>1, <2>1, SubSeqProperties
  <2> QED
    BY <1>1, <2>2
<1> HIDE DEF f
<1>3. PICK i \in 1 .. n : s[i] = y
  BY DEF Contains
<1>4. i # n
  BY <1>3 DEF Last
<1> HIDE DEF n
<1>5. i \in 1 .. n - 1
  BY <1>1, <1>4
<1> QED
  BY <1>2, <1>3, <1>5 DEF Contains, f

\* Allocating the top of the free list, when there is one, succeeds.
LEMMA AllocateLists ==
  ASSUME ~CloseFullFails, NEW m, ZMData(m), NEW d, Good(d), Lists(m, d), NoDup(m.free),
         NEW r, r = AllocateFree(m, d)
  PROVE  /\ r.ok <=> m.free # << >>
         /\ Lists(r.zm, r.dev) /\ Stays(d, r.dev)
<1>1. CASE m.free = << >>
  <2>1. r = ZMErr(m, d, 0)
    BY <1>1 DEF AllocateFree
  <2>2. ~r.ok /\ r.zm = m /\ r.dev = d
    BY <2>1 DEF ZMErr
  <2> QED
    BY <1>1, <2>2 DEF Stays
<1>2. CASE m.free # << >>
  <2> DEFINE room == MakeRoom(m, d)
             z == Last(m.free)
             o == OpenZone(room.dev, zoneStartLBA(z))
  <2>1. /\ z \in Zones /\ Contains(m.free, z)
        /\ NoDup(Front(m.free)) /\ ~Contains(Front(m.free), z)
        /\ \A y : Contains(Front(m.free), y) => Contains(m.free, y)
    BY <1>2, TakeTop DEF ZMData
  <2>2. \A y : Contains(m.free, y) /\ y # z => Contains(Front(m.free), y)
    BY <1>2, FrontKeeps DEF ZMData, z
  <2>3. /\ room.ok /\ Lists(room.zm, room.dev) /\ Stays(d, room.dev) /\ Good(room.dev)
        /\ room.zm.open \subseteq m.open /\ Cardinality(room.zm.open) < MaxOpenZones
        /\ room.zm.free = m.free /\ ZMData(room.zm)
        /\ \A y \in Zones : d.st[y] # "FULL" => room.dev.st[y] # "FULL"
    BY RoomLists
  <2>4. r = IF o.ok THEN ZMOk(PushOpen([room.zm EXCEPT !.free = Front(@)], z), o.dev, z)
            ELSE ZMErr(room.zm, o.dev, z)
    BY <1>2, <2>3 DEF AllocateFree
  <2> HIDE DEF room, z, o
  <2>5. d.st[z] = "EMPTY" /\ room.dev.st[z] = "EMPTY"
    BY <2>1, <2>3 DEF Lists
  <2>6. z \notin room.zm.open /\ room.dev.st[z] # "FULL"
    BY <2>3, <2>5 DEF Lists, isOpen, OpenStates
  <2>7. o.ok /\ Stays(room.dev, o.dev) /\ o.dev.st = [room.dev.st EXCEPT ![z] = "EXPLICIT_OPEN"]
    BY <2>1, <2>3, <2>6, OpenRoom DEF o
  <2>8. PICK k : k = [room.zm EXCEPT !.free = Front(@)]
    OBVIOUS
  <2>9. PICK n : n = PushOpen(k, z)
    OBVIOUS
  <2>10. r.ok /\ r.zm = n /\ r.dev = o.dev
    BY <2>4, <2>7, <2>8, <2>9 DEF ZMOk
  <2>11. /\ n.free = Front(m.free) /\ n.lru = Append(room.zm.lru, z)
         /\ n.open = room.zm.open \union {z}
    BY <2>3, <2>8, <2>9 DEF PushOpen, ZMData
  <2>12. \A y \in Zones : Contains(n.free, y) <=> Contains(room.zm.free, y) /\ y # z
    BY <2>1, <2>2, <2>3, <2>11
  <2>13. Lists(n, o.dev)
    <3>1. room.dev \in Records
      BY <2>3 DEF Good
    <3>2. Pushes(room.zm, room.dev, n, o.dev, z)
      BY <2>7, <2>11, <2>12 DEF Pushes
    <3> QED
      BY <2>1, <2>3, <2>6, <3>1, <3>2, PushLists
  <2> QED
    BY <1>2, <2>3, <2>7, <2>10, <2>13 DEF Stays
<1> QED
  BY <1>1, <1>2

\* Flush gets its zone open, whether it was or not.
LEMMA GetLists ==
  ASSUME ~CloseFullFails, NEW m, ZMData(m), NEW d, Good(d), Lists(m, d),
         NEW z \in Zones, ~Contains(m.free, z), d.st[z] # "FULL",
         NEW r, r = GetOrOpen(m, d, z)
  PROVE  r.ok /\ Lists(r.zm, r.dev) /\ Stays(d, r.dev) /\ z \in r.zm.open
<1>1. CASE z \in m.open
  <2> DEFINE l == RemoveAt(m.lru, SelectLastInSeq(m.lru, LAMBDA x : x = z))
  <2>1. DropOpen(m, z).lru = l
    BY <1>1 DEF DropOpen, ZMData
  <2>2. PICK n : n = [m EXCEPT !.lru = Append(DropOpen(m, z).lru, z)]
    OBVIOUS
  <2>3. r.ok /\ r.zm = n /\ r.dev = d
    BY <1>1, <2>2 DEF GetOrOpen, ZMOk
  <2>4. n.lru = Append(l, z) /\ n.open = m.open /\ n.free = m.free
    BY <2>1, <2>2 DEF ZMData
  <2>5. Contains(m.lru, z)
    BY <1>1 DEF Lists
  <2>6. l \in Seq(Zones) /\ NoDup(l) /\ \A y : Contains(l, y) <=> Contains(m.lru, y) /\ y # z
    BY <2>5, RemoveDistinct DEF Lists
  <2> HIDE DEF l
  <2>7. /\ n.lru \in Seq(Zones) /\ NoDup(n.lru)
        /\ \A y : Contains(n.lru, y) <=> Contains(l, y) \/ y = z
    BY <2>4, <2>6, AppendDistinct
  <2>8. \A y \in Zones : Contains(n.lru, y) <=> y \in n.open
    BY <1>1, <2>4, <2>6, <2>7 DEF Lists
  <2>9. Lists(n, d)
    BY <2>4, <2>7, <2>8 DEF Lists
  <2> QED
    BY <1>1, <2>3, <2>4, <2>9 DEF Stays
<1>2. CASE z \notin m.open
  <2> DEFINE room == MakeRoom(m, d)
             o == OpenZone(room.dev, zoneStartLBA(z))
  <2>1. /\ room.ok /\ Lists(room.zm, room.dev) /\ Stays(d, room.dev) /\ Good(room.dev)
        /\ room.zm.open \subseteq m.open /\ Cardinality(room.zm.open) < MaxOpenZones
        /\ room.zm.free = m.free /\ ZMData(room.zm)
        /\ \A y \in Zones : d.st[y] # "FULL" => room.dev.st[y] # "FULL"
    BY RoomLists
  <2>2. r = IF o.ok THEN ZMOk(PushOpen(room.zm, z), o.dev, z) ELSE ZMErr(room.zm, o.dev, z)
    BY <1>2, <2>1 DEF GetOrOpen
  <2> HIDE DEF room, o
  <2>3. z \notin room.zm.open /\ room.dev.st[z] # "FULL"
    BY <1>2, <2>1
  <2>4. o.ok /\ Stays(room.dev, o.dev) /\ o.dev.st = [room.dev.st EXCEPT ![z] = "EXPLICIT_OPEN"]
    BY <2>1, <2>3, OpenRoom DEF o
  <2>5. PICK n : n = PushOpen(room.zm, z)
    OBVIOUS
  <2>6. r.ok /\ r.zm = n /\ r.dev = o.dev
    BY <2>2, <2>4, <2>5 DEF ZMOk
  <2>7. /\ n.free = room.zm.free /\ n.lru = Append(room.zm.lru, z)
        /\ n.open = room.zm.open \union {z}
    BY <2>1, <2>5 DEF PushOpen, ZMData
  <2>8. \A y \in Zones : Contains(n.free, y) <=> Contains(room.zm.free, y) /\ y # z
    BY <2>1, <2>7
  <2>9. Lists(n, o.dev)
    <3>1. room.dev \in Records
      BY <2>1 DEF Good
    <3>2. Pushes(room.zm, room.dev, n, o.dev, z)
      BY <2>4, <2>7, <2>8 DEF Pushes
    <3> QED
      BY <2>1, <2>3, <3>1, <3>2, PushLists
  <2> QED
    BY <2>1, <2>4, <2>6, <2>7, <2>9 DEF Stays
<1> QED
  BY <1>1, <1>2
\* A write of what fits, at the write pointer of its zone: it fails only when
\* the zone cannot be opened, and then changes nothing.
Written(d, z, data, r) ==
  /\ isOpen(d.st[z]) => r.ok
  /\ ~r.ok => r.dev = d
  /\ r.ok =>
       /\ r.dev.wp = [d.wp EXCEPT ![z] = d.wp[z] + Len(data)]
       /\ r.dev.data = [d.data EXCEPT ![z] = Stored(d, z, d.wp[z], data)]
       /\ \A y \in Zones \ {z} : r.dev.st[y] = d.st[y]
       /\ IF d.wp[z] + Len(data) = zoneEndLBA(z) THEN r.dev.st[z] = "FULL"
          ELSE isOpen(r.dev.st[z])

LEMMA WriteFits ==
  ASSUME NEW d, Good(d), NEW z \in Zones, NEW data \in Seq(Sectors), data # << >>,
         d.wp[z] + Len(data) <= zoneEndLBA(z), NEW r, r = WriteSectors(d, d.wp[z], data)
  PROVE  Written(d, z, data, r)
<1> USE DEF Written
<1> DEFINE lba == d.wp[z]
           n == Len(data)
           o == openZoneLocked(d, z, FALSE)
<1>1. /\ zoneStartLBA(z) \in Nat /\ ZoneSectors \in Nat /\ ZoneSectors > 0
      /\ zoneEndLBA(z) = zoneStartLBA(z) + ZoneSectors /\ z \in Nat
  BY ZoneBounds, DeviceAssumption, ZoneZero
<1>2. n \in Nat /\ n > 0
  BY EmptySeq
<1>3. /\ d \in Records /\ lba \in zoneStartLBA(z) .. zoneEndLBA(z)
      /\ d.st[z] = "FULL" <=> lba = zoneEndLBA(z)
  BY DEF Good, ZoneOK
<1> HIDE DEF lba, n
<1>4. lba < zoneEndLBA(z) /\ lba + n <= zoneEndLBA(z)
  BY <1>1, <1>2, <1>3 DEF lba, n
<1>5. zoneIndex(lba) = z
  <2>1. PICK off \in 0 .. ZoneSectors - 1 : lba = zoneStartLBA(z) + off
    <3>1. lba - zoneStartLBA(z) \in 0 .. ZoneSectors - 1
      BY <1>1, <1>3, <1>4
    <3>2. lba = zoneStartLBA(z) + (lba - zoneStartLBA(z))
      BY <1>1, <1>3
    <3> QED
      BY <3>1, <3>2
  <2>2. (z * ZoneSectors + off) \div ZoneSectors = z
    BY <1>1, <2>1, Unpack
  <2> QED
    BY <2>1, <2>2 DEF zoneIndex, zoneStartLBA
<1>6. d.st[z] # "FULL"
  BY <1>1, <1>3, <1>4
<1>7. r = IF o.ok THEN Store(o.dev, z, lba, data) ELSE o
  BY <1>5, <1>6 DEF WriteSectors, Writable, lba
<1>8. CASE ~o.ok
  <2>1. o.dev = d /\ ~isOpen(d.st[z])
    BY <1>8 DEF openZoneLocked, Ok, Err
  <2> QED
    BY <1>7, <1>8, <2>1
<1>9. CASE o.ok
  <2>1. /\ o.dev \in Records /\ o.dev.wp = d.wp /\ o.dev.data = d.data
        /\ isOpen(o.dev.st[z]) /\ \A y \in Zones \ {z} : o.dev.st[y] = d.st[y]
    <3>1. CASE isOpen(d.st[z])
      BY <1>3, <3>1 DEF openZoneLocked, Ok
    <3>2. CASE ~isOpen(d.st[z])
      <4>1. o.dev = [d EXCEPT !.st[z] = "IMPLICIT_OPEN", !.open = @ + 1]
        BY <1>9, <3>2 DEF openZoneLocked, Ok, Err, OpenAs
      <4> HIDE DEF o
      <4>2. /\ o.dev.st = [d.st EXCEPT ![z] = "IMPLICIT_OPEN"] /\ o.dev.wp = d.wp
            /\ o.dev.data = d.data /\ o.dev.open = d.open + 1
            /\ o.dev = [st |-> o.dev.st, wp |-> o.dev.wp, data |-> o.dev.data,
                       open |-> o.dev.open]
        BY <1>3, <4>1 DEF Records
      <4>3. "IMPLICIT_OPEN" \in ZoneStates
        BY DEF OpenStates, ZoneStates
      <4>4. o.dev \in Records
        <5>1. /\ d.st \in [Zones -> ZoneStates] /\ o.dev.wp \in [Zones -> Int]
              /\ o.dev.data \in [Zones -> [Offsets -> Sectors]] /\ d.open \in Int
          BY <1>3, <4>2 DEF Records
        <5>2. o.dev.st \in [Zones -> ZoneStates]
          BY <4>2, <4>3, <5>1
        <5>3. o.dev.open \in Int
          BY <4>2, <5>1
        <5> QED
          BY <4>2, <5>1, <5>2, <5>3 DEF Records
      <4> QED
        BY <1>3, <4>2, <4>4 DEF Records, isOpen, OpenStates
    <3> QED
      BY <3>1, <3>2
  <2> HIDE DEF o
  <2>2. PICK e : e = [o.dev EXCEPT !.data[z] = Stored(o.dev, z, lba, data)]
    OBVIOUS
  <2>3. r.ok /\ r.dev = Advance(e, z, lba + n)
    BY <1>4, <1>7, <1>9, <2>2 DEF Store, Fits, Ok, n
  <2>4. Stored(o.dev, z, lba, data) = Stored(d, z, lba, data)
    BY <2>1 DEF Stored
  <2>5. /\ e.wp = d.wp /\ e.st = o.dev.st
        /\ e.data = [d.data EXCEPT ![z] = Stored(d, z, lba, data)]
        /\ e = [st |-> e.st, wp |-> e.wp, data |-> e.data, open |-> e.open]
    BY <2>1, <2>2, <2>4 DEF Records
  <2>6. e.st \in [Zones -> ZoneStates]
    BY <2>1, <2>5 DEF Records
  <2>7. CASE lba + n = zoneEndLBA(z)
    <3>1. r.dev = [e EXCEPT !.wp[z] = lba + n, !.st[z] = "FULL", !.open = @ - 1]
      BY <2>3, <2>7 DEF Advance
    <3>2. r.dev.wp = [e.wp EXCEPT ![z] = lba + n] /\ r.dev.st = [e.st EXCEPT ![z] = "FULL"]
          /\ r.dev.data = e.data
      BY <2>5, <3>1
    <3> QED
      BY <2>1, <2>3, <2>5, <2>6, <2>7, <3>2 DEF lba, n
  <2>8. CASE lba + n # zoneEndLBA(z)
    <3>1. r.dev = [e EXCEPT !.wp[z] = lba + n]
      BY <2>3, <2>8 DEF Advance
    <3>2. r.dev.wp = [e.wp EXCEPT ![z] = lba + n] /\ r.dev.st = e.st /\ r.dev.data = e.data
      BY <2>5, <3>1
    <3> QED
      BY <2>1, <2>3, <2>5, <2>6, <2>8, <3>2 DEF lba, n
  <2> QED
    BY <2>7, <2>8
<1> QED
  BY <1>8, <1>9

-----------------------------------------------------------------------------
(* The device's pointers, the buffers and the flushes *)

\* A flush between taking a buffer and writing it.
InHand(t) == pc[t] \in {"fopen", "fwrite"}

\* One client, so that a flush never meets another command.
Serial == \A t, u \in Clients : t = u

\* A flush writes something, at the device's pointer, and no buffer has been
\* begun behind it; alone, it also finds its zone still open.
InOrder(t) ==
  InHand(t) =>
    /\ fl[t].data # << >> /\ fl[t].wp = dev.wp[fl[t].zone] /\ buf[fl[t].zone] = NoBuffer
    /\ pc[t] = "fwrite" /\ Serial => fl[t].zone \in zm.open

\* No two threads flush the same zone.
OneFlush ==
  \A t, u \in Clients :
    pc[t] \in Flushing /\ pc[u] \in Flushing /\ t # u => fl[t].zone # fl[u].zone

\* A buffer holds something and begins at the device's pointer.
Begins == \A z \in Zones : buf[z] # NoBuffer => buf[z].data # << >> /\ buf[z].wp = dev.wp[z]

\* The device has caught up with the zone manager, or with the writer that is
\* about to buffer its data, unless data is on its way or, of a full zone, was
\* lost by a flush that met other commands.
Nothing(z) == buf[z] = NoBuffer /\ \A t \in Clients : InHand(t) => fl[t].zone # z
Caught ==
  \A z \in Zones : Nothing(z) =>
    /\ \A u \in Clients : Adding(u, z) => dev.wp[z] = cmd[u].wp
    /\ (\A u \in Clients : ~Adding(u, z)) /\ (zm.wp[z] # zoneEndLBA(z) \/ Serial)
         => dev.wp[z] = zm.wp[z]

ZoneInv ==
  /\ Lists(zm, dev)
  /\ \A t \in Clients : InOrder(t)
  /\ OneFlush /\ Begins /\ Caught
  /\ \A t \in Collectors : pc[t] = "idle"
-----------------------------------------------------------------------------
(* Frames *)

\* Everything that is known when t takes a step.
Begun(t) == Start(t) /\ ZoneInv /\ ~CloseFullFails

LEMMA BegunParts ==
  ASSUME NEW t \in Clients, Begun(t)
  PROVE  /\ Start(t) /\ t \in Threads /\ PlaceInv /\ LogInv /\ DataInv /\ LockInv
         /\ Lists(zm, dev) /\ (\A u \in Clients : InOrder(u)) /\ OneFlush /\ Begins /\ Caught
         /\ Good(dev) /\ ZMData(zm) /\ buf \in [Zones -> Buffers]
         /\ \A u \in Clients \ {t} : pc'[u] = pc[u] /\ cmd'[u] = cmd[u] /\ fl'[u] = fl[u]
         /\ \A u \in Clients : fl[u].zone \in Zones /\ fl[u].data \in Seq(Sectors)
         /\ \A u \in Collectors : pc'[u] = "idle"
<1>1. t \in Threads /\ Clients \subseteq Threads /\ Collectors \subseteq Threads
  BY ClientsAreThreads DEF Threads
<1>2. t \notin Collectors
  BY ThreadAssumption
<1>3. \A u \in Collectors : pc'[u] = "idle"
  BY <1>1, <1>2 DEF Begun, Start, OnlyMoves, Others, ZoneInv
<1>4. \A u \in Clients \ {t} : pc'[u] = pc[u] /\ cmd'[u] = cmd[u] /\ fl'[u] = fl[u]
  BY <1>1 DEF Begun, Start, OnlyMoves, Others
<1>5. \A u \in Clients : fl[u].zone \in Zones /\ fl[u].data \in Seq(Sectors)
  BY <1>1 DEF Begun, Start, DataInv, FlsData, FlData
<1> QED
  BY <1>1, <1>3, <1>4, <1>5 DEF Begun, Start, ZoneInv, DataInv

\* The other threads' flushes, when their zones are left alone.
LEMMA OthersInOrder ==
  ASSUME NEW t \in Clients, Begun(t), NEW u \in Clients \ {t},
         InHand(u) => /\ dev'.wp[fl[u].zone] = dev.wp[fl[u].zone]
                      /\ buf'[fl[u].zone] = buf[fl[u].zone]
  PROVE  InOrder(u)'
<1>1. pc'[u] = pc[u] /\ fl'[u] = fl[u] /\ InOrder(u)
  BY BegunParts
<1>2. ~Serial
  BY DEF Serial
<1> QED
  BY <1>1, <1>2 DEF InOrder, InHand, Serial

\* t goes on with its flush, or is alone, or does not flush.
LEMMA OneFlushFrame ==
  ASSUME NEW t \in Clients, Begun(t),
         pc'[t] \in Flushing => \/ pc[t] \in Flushing /\ fl'[t].zone = fl[t].zone
                                \/ \A u \in Clients : u = t
  PROVE  OneFlush'
<1>1. OneFlush /\ \A u \in Clients \ {t} : pc'[u] = pc[u] /\ fl'[u] = fl[u]
  BY BegunParts
<1> QED
  BY <1>1 DEF OneFlush

\* A step that moves no pointer, buffers nothing and has no data in hand.
LEMMA ZoneFrame ==
  ASSUME NEW t \in Clients, Begun(t), Lists(zm', dev'), dev'.wp = dev.wp, zm'.wp = zm.wp,
         buf' = buf, ~InHand(t), pc'[t] \notin {"fopen", "fwrite", "add"}, pc[t] # "add",
         pc'[t] \in Flushing => \/ pc[t] \in Flushing /\ fl'[t].zone = fl[t].zone
                                \/ \A u \in Clients : u = t
  PROVE  ZoneInv'
<1>1. /\ Begins /\ Caught
      /\ \A u \in Clients \ {t} : pc'[u] = pc[u] /\ cmd'[u] = cmd[u] /\ fl'[u] = fl[u]
      /\ \A u \in Collectors : pc'[u] = "idle"
  BY BegunParts
<1>2. \A u \in Clients : InOrder(u)'
  <2>1. InOrder(t)'
    BY DEF InOrder, InHand
  <2> QED
    BY <2>1, OthersInOrder
<1>3. Begins'
  BY <1>1 DEF Begins
<1>4. Caught'
  <2>1. \A u \in Clients, z \in Zones : Adding(u, z)' <=> Adding(u, z)
    BY <1>1 DEF Adding
  <2>2. \A u \in Clients, z \in Zones : Adding(u, z)' => cmd'[u] = cmd[u]
    BY <1>1 DEF Adding
  <2>3. \A z \in Zones : Nothing(z)' => Nothing(z)
    BY <1>1 DEF Nothing, InHand
  <2> QED
    BY <1>1, <2>1, <2>2, <2>3 DEF Caught, Serial
<1> QED
  BY <1>1, <1>2, <1>3, <1>4, OneFlushFrame DEF ZoneInv

\* ... and one that leaves the device and the lists alone.
LEMMA StillFrame ==
  ASSUME NEW t \in Clients, Begun(t), dev' = dev, zm'.wp = zm.wp, zm'.lru = zm.lru,
         zm'.open = zm.open, zm'.free = zm.free, buf' = buf,
         ~InHand(t), pc'[t] \notin {"fopen", "fwrite", "add"}, pc[t] # "add",
         pc'[t] \in Flushing => \/ pc[t] \in Flushing /\ fl'[t].zone = fl[t].zone
                                \/ \A u \in Clients : u = t
  PROVE  ZoneInv'
<1>1. Lists(zm', dev')
  BY BegunParts DEF Lists
<1> QED
  BY <1>1, ZoneFrame
-----------------------------------------------------------------------------
(* Steps that leave the device alone *)

\* Commands begin; a command's steps outside a flush, except those that get a
\* zone and those that move a pointer or buffer data.
LEMMA PlainZones ==
  ASSUME NEW t \in Clients, Begun(t), cycles' = cycles, cycles \in Nat,
         \/ Issue(t) \/ RunEmergencyGC(t) \/ WriteLog(t) \/ SetL2P(t)
         \/ SetL2PFails(t) \/ WriteRelock(t) \/ UnmapLock(t) \/ UnmapLog(t) \/ UnmapMaps(t) \/ FlushDone(t) \/ Commit(t) \/ Fail(t)
  PROVE  ZoneInv'
<1>1. t \in Threads /\ PCShape /\ ZMData(zm)
  BY BegunParts, StartMine
<1>2. ASSUME NEW x, Goto(t, x), x \notin {"fopen", "fwrite", "add"} \union Flushing, dev' = dev,
             zm' = zm \/ \E z : zm' = DecrementValidSegs(zm, z), buf' = buf,
             pc[t] \notin {"fopen", "fwrite", "add"}
      PROVE  ZoneInv'
  <2>1. pc'[t] = x
    BY <1>1, <1>2, GotoMoves
  <2>2. /\ zm'.wp = zm.wp /\ zm'.lru = zm.lru /\ zm'.open = zm.open /\ zm'.free = zm.free
    BY <1>1, <1>2 DEF ZMData, DecrementValidSegs
  <2> QED
    BY <1>2, <2>1, <2>2, StillFrame DEF InHand
<1>3. CASE Issue(t)
  <2>1. /\ pc[t] = "idle" /\ dev' = dev /\ zm' = zm /\ buf' = buf
        /\ \E x \in {"check", "ulock", "fnext"} : Goto(t, x)
    BY <1>3 DEF Issue, Write, Unmap, Flush, Begin, bufVars
  <2> QED
    BY <1>2, <2>1 DEF Flushing
<1>4. CASE RunEmergencyGC(t)
  <2>1. ~\E z \in Zones : SelectVictim(t, z, "check", "fail")
    <3>1. \A z \in Zones : SelectVictim(t, z, "check", "fail") => cycles' = cycles + 1
      BY DEF SelectVictim
    <3> QED
      BY <3>1
  <2>2. /\ pc[t] = "check" /\ dev' = dev /\ zm' = zm /\ buf' = buf
        /\ \E x \in {"lock", "fail"} : Goto(t, x)
    BY <1>4, <2>1 DEF RunEmergencyGC, bufVars
  <2> QED
    BY <1>2, <2>2 DEF Flushing
<1>5. CASE WriteLog(t) \/ SetL2P(t) \/ SetL2PFails(t)
  <2>1. /\ pc[t] \in {"log", "set"} /\ dev' = dev /\ zm' = zm /\ buf' = buf
        /\ \E x \in {"set", "maps", "umaps", "fail"} : Goto(t, x)
    BY <1>5 DEF WriteLog, SetL2P, SetL2PFails, bufVars
  <2> QED
    BY <1>2, <2>1 DEF Flushing
<1>6. CASE WriteRelock(t)
  <2>1. /\ pc[t] = "relock" /\ dev' = dev /\ zm' = zm /\ buf' = buf
        /\ \E x \in {"fail", "commit", "lock"} : Goto(t, x)
    BY <1>6 DEF WriteRelock, NextSegment
  <2> QED
    BY <1>2, <2>1 DEF Flushing
<1>7. CASE UnmapLock(t) \/ UnmapLog(t) \/ UnmapMaps(t)
  <2>1. /\ pc[t] \in {"ulock", "ulog", "umaps"} /\ dev' = dev /\ buf' = buf
        /\ zm' = zm \/ \E z : zm' = DecrementValidSegs(zm, z)
        /\ \E x \in {"idle", "ulog", "set"} : Goto(t, x)
    BY <1>7 DEF UnmapLock, UnmapLog, UnmapMaps, NextUnmap, End, bufVars
  <2> QED
    BY <1>2, <2>1 DEF Flushing
<1>8. CASE FlushDone(t) \/ Commit(t) \/ Fail(t)
  <2>1. /\ pc[t] \in {"fnext", "commit", "fail"} /\ dev' = dev /\ zm' = zm /\ buf' = buf
        /\ \E x \in {"idle", "commit", "fail"} : Goto(t, x)
    BY <1>8 DEF FlushDone, Commit, Fail, End, bufVars
  <2> QED
    BY <1>2, <2>1 DEF Flushing
<1> QED
  BY <1>3, <1>4, <1>5, <1>6, <1>7, <1>8

\* FlushAll goes on to its next zone.
LEMMA FlushNextZones ==
  ASSUME NEW t \in Clients, Begun(t), FlushNext(t)
  PROVE  ZoneInv'
<1>1. t \in Threads /\ PCShape /\ Stage(t)
  BY BegunParts, StartMine
<1>2. pc[t] = "fnext" /\ dev' = dev /\ zm' = zm /\ buf' = buf /\ Goto(t, "ftake")
  BY DEF FlushNext
<1>3. pc'[t] = "ftake"
  BY <1>1, <1>2, GotoMoves
<1>4. \A u \in Clients : u = t
  BY <1>1, <1>2 DEF Stage, Begun, Start, FlushesAlone
<1> QED
  BY <1>2, <1>3, <1>4, StillFrame DEF InHand

\* Flush sets the write pointer to where it is.
LEMMA FlushPointZones ==
  ASSUME NEW t \in Clients, Begun(t), FlushPoint(t)
  PROVE  ZoneInv'
<1> DEFINE z == fl[t].zone
           w == FlushedWP(fl[t])
<1>1. t \in Threads /\ PCShape /\ Stage(t) /\ Flushes(t) /\ ZMData(zm) /\ z \in Zones
  BY BegunParts, StartMine
<1>2. /\ pc[t] = "fpoint" /\ dev' = dev /\ buf' = buf /\ zm' = UpdateWritePointer(zm, z, w)
      /\ Goto(t, fl[t].ret)
  BY DEF FlushPoint, FlushReturn
<1>3. pc'[t] \in {"relock", "fnext"}
  BY <1>1, <1>2, GotoMoves DEF Stage, Flushing
<1>4. w = zm.wp[z]
  BY <1>1, <1>2 DEF Flushes
<1> HIDE DEF z, w
<1>5. [zm.wp EXCEPT ![z] = w] = zm.wp
  BY <1>1, <1>4 DEF ZMData
<1>6. /\ zm'.wp = zm.wp /\ zm'.lru = zm.lru /\ zm'.open = zm.open /\ zm'.free = zm.free
  BY <1>1, <1>2, <1>5 DEF ZMData, UpdateWritePointer
<1> QED
  BY <1>2, <1>3, <1>6, StillFrame DEF InHand, Flushing

\* writeSegment takes ztl.mu and gets its zone: the current one, or a free one.
LEMMA WriteLockZones ==
  ASSUME NEW t \in Clients, Begun(t), WriteLock(t)
  PROVE  ZoneInv'
<1>1. t \in Threads /\ PCShape /\ ZMData(zm) /\ Good(dev) /\ Lists(zm, dev)
  BY BegunParts, StartMine
<1>2. pc[t] = "lock" /\ buf' = buf /\ \E x \in {"log", "fail"} : Goto(t, x)
  BY DEF WriteLock, bufVars
<1>3. pc'[t] \in {"log", "fail"}
  BY <1>1, <1>2, GotoMoves
<1>4. Lists(zm', dev') /\ dev'.wp = dev.wp /\ zm'.wp = zm.wp
  <2>1. CASE cur.open /\ HasRoom(cur.zone)
    BY <1>1, <2>1 DEF WriteLock
  <2>2. CASE ~(cur.open /\ HasRoom(cur.zone))
    <3> DEFINE r == AllocateFree(zm, dev)
    <3>1. zm' = r.zm /\ dev' = r.dev
      BY <2>2 DEF WriteLock
    <3>2. NoDup(zm.free)
      BY DEF Begun, Start, PlaceInv, FreeZones
    <3>3. Lists(r.zm, r.dev) /\ Stays(dev, r.dev)
      BY <1>1, <3>2, AllocateLists DEF Begun
    <3>4. r.zm.wp = zm.wp
      BY <1>1, AllocateLeaves
    <3> QED
      BY <3>1, <3>3, <3>4 DEF Stays
  <2> QED
    BY <2>1, <2>2
<1> QED
  BY <1>2, <1>3, <1>4, ZoneFrame DEF InHand, Flushing
-----------------------------------------------------------------------------
(* Steps that move a pointer or data *)

\* Write moves the zone manager's pointer: the device is where it was.
LEMMA WriteMapsZones ==
  ASSUME NEW t \in Clients, Begun(t), WriteMaps(t)
  PROVE  ZoneInv'
<1> DEFINE c == cmd[t]
<1>1. /\ t \in Threads /\ PCShape /\ ZMData(zm) /\ Writes(t) /\ Lists(zm, dev)
      /\ Begins /\ Caught /\ Start(t) /\ PlaceInv /\ LockInv
      /\ \A u \in Clients \ {t} : pc'[u] = pc[u] /\ cmd'[u] = cmd[u] /\ fl'[u] = fl[u]
      /\ \A u \in Collectors : pc'[u] = "idle"
  BY BegunParts, StartMine
<1>2. pc[t] = "maps" /\ dev' = dev /\ buf' = buf /\ fl' = fl /\ cmd' = cmd
  BY DEF WriteMaps, bufVars, cmdVars
<1>3. pc'[t] = "add"
  BY <1>1, GotoMoves DEF WriteMaps
<1>4. zm'.wp = [zm.wp EXCEPT ![c.zone] = NewWP(c)] /\ zm'.free = zm.free
  BY <1>1, WriteMapsMoves
<1>5. zm'.lru = zm.lru /\ zm'.open = zm.open
  BY <1>1 DEF WriteMaps, UpdateWritePointer, IncrementValidSegs, CountWithout,
     DecrementValidSegs, ZMData
<1>6. Lists(zm', dev')
  BY <1>1, <1>2, <1>4, <1>5 DEF Lists
<1>7. \A u \in Clients : InOrder(u)'
  <2>1. InOrder(t)'
    BY <1>3 DEF InOrder, InHand
  <2> QED
    BY <1>2, <2>1, OthersInOrder
<1>8. OneFlush'
  BY <1>3, OneFlushFrame DEF Flushing
<1>9. Begins'
  BY <1>1, <1>2 DEF Begins
<1>10. Caught'
  <2>1. /\ c.kind = "write" /\ c.zone \in Zones /\ c.wp = zm.wp[c.zone]
        /\ zm.wp[c.zone] # zoneEndLBA(c.zone)
    <3>1. /\ c.kind = "write" /\ c.zone \in Zones /\ c.wp \in Int /\ SectorsPerSeg \in Nat
      BY <1>1, <1>2, NewPointer
    <3>2. c.wp = zm.wp[c.zone] /\ zm.wp[c.zone] + SectorsPerSeg <= zoneEndLBA(c.zone)
      BY <1>1, <1>2, <3>1 DEF Writes
    <3>3. SectorsPerSeg > 0
      BY MappingAssumption
    <3> QED
      BY <3>1, <3>2, <3>3
  <2>2. \A u \in Clients \ {t} : pc[u] \notin Locked
    BY <1>1, <1>2 DEF LockInv, Locked
  <2>3. \A u \in Clients, z \in Zones : ~Adding(u, z)
    BY <1>2, <2>2 DEF Adding, Locked
  <2>4. \A u \in Clients, z \in Zones : Adding(u, z)' <=> u = t /\ z = c.zone
    BY <1>1, <1>2, <1>3, <2>2 DEF Adding, Locked
  <2>5. \A z \in Zones : Nothing(z)' => Nothing(z)
    BY <1>1, <1>2, <1>3 DEF Nothing, InHand
  <2>6. ASSUME NEW z \in Zones, Nothing(z)', z = c.zone
        PROVE  dev.wp[z] = c.wp
    BY <1>1, <2>1, <2>3, <2>5, <2>6 DEF Caught
  <2>7. ASSUME NEW z \in Zones, Nothing(z)', z # c.zone, zm'.wp[z] # zoneEndLBA(z) \/ Serial
        PROVE  dev.wp[z] = zm'.wp[z]
    <3>1. zm'.wp[z] = zm.wp[z]
      BY <1>1, <1>4, <2>7 DEF ZMData
    <3> QED
      BY <1>1, <2>3, <2>5, <2>7, <3>1 DEF Caught
  <2>8. ASSUME NEW z \in Zones, Nothing(z)'
        PROVE  /\ \A u \in Clients : Adding(u, z)' => dev'.wp[z] = cmd'[u].wp
               /\ (\A u \in Clients : ~Adding(u, z)') /\ (zm'.wp[z] # zoneEndLBA(z) \/ Serial)
                    => dev'.wp[z] = zm'.wp[z]
    BY <1>2, <2>4, <2>6, <2>7, <2>8
  <2> QED
    BY <2>8 DEF Caught, Serial
<1> QED
  BY <1>1, <1>6, <1>7, <1>8, <1>9, <1>10 DEF ZoneInv

\* buf.Add: a buffer that is begun begins where the device is.
LEMMA WriteAddZones ==
  ASSUME NEW t \in Clients, Begun(t), WriteAdd(t)
  PROVE  ZoneInv'
<1> DEFINE c == cmd[t]
<1>1. /\ t \in Threads /\ PCShape /\ FlShape /\ Lists(zm, dev)
      /\ OneFlush /\ Begins /\ Caught /\ Start(t) /\ PlaceInv /\ LockInv
      /\ buf \in [Zones -> Buffers] /\ \A u \in Clients : fl[u].zone \in Zones
      /\ \A u \in Clients \ {t} : pc'[u] = pc[u] /\ cmd'[u] = cmd[u] /\ fl'[u] = fl[u]
      /\ \A u \in Collectors : pc'[u] = "idle"
  BY BegunParts, StartMine
<1>2. /\ pc[t] = "add" /\ dev' = dev /\ zm' = zm
      /\ buf' = Add(buf, c.zone, SegData(c), c.wp)
  BY DEF WriteAdd
<1>3. /\ c.zone \in Zones /\ c.wp \in Int /\ Len(SegData(c)) \in Nat /\ Len(SegData(c)) > 0
  <2>1. /\ c.zone \in Zones /\ c.wp \in Int /\ NewWP(c) = c.wp + Len(SegData(c))
        /\ Len(SegData(c)) \in Nat /\ c.wp < NewWP(c)
    BY <1>1, <1>2, NewPointer
  <2> QED
    BY <2>1
<1>4. Lists(zm', dev')
  BY <1>1, <1>2
<1>5. \A y \in Zones \ {c.zone} : buf'[y] = buf[y]
  BY <1>1, <1>2, <1>3 DEF Add
<1>6. Adding(t, c.zone) /\ \A u \in Clients : pc[u] \in Flushing => fl[u].zone # c.zone
  BY <1>1, <1>2 DEF Adding, PlaceInv, Apart
<1>7. \/ pc'[t] = "ftake" /\ fl'[t].zone = c.zone
      \/ pc'[t] \in {"commit", "lock"}
  <2>1. CASE NewWP(c) >= zoneEndLBA(c.zone)
    <3>1. /\ fl' = [fl EXCEPT ![t] = [NoFlush EXCEPT !.zone = c.zone, !.ret = "relock"]]
          /\ Goto(t, "ftake")
      BY <2>1 DEF WriteAdd
    <3>2. pc'[t] = "ftake"
      BY <1>1, <3>1, GotoMoves
    <3>3. fl'[t].zone = c.zone
      BY <1>1, <3>1 DEF FlShape, NoFlush
    <3> QED
      BY <3>2, <3>3
  <2>2. CASE ~(NewWP(c) >= zoneEndLBA(c.zone))
    <3>1. \E x \in {"commit", "lock"} : Goto(t, x)
      BY <2>2 DEF WriteAdd, NextSegment
    <3> QED
      BY <1>1, <3>1, GotoMoves
  <2> QED
    BY <2>1, <2>2
<1>8. \A u \in Clients : InOrder(u)'
  <2>1. InOrder(t)'
    BY <1>7 DEF InOrder, InHand
  <2>2. \A u \in Clients \ {t} : InHand(u) => buf'[fl[u].zone] = buf[fl[u].zone]
    BY <1>1, <1>5, <1>6 DEF InHand, Flushing
  <2> QED
    BY <1>2, <2>1, <2>2, OthersInOrder
<1>9. OneFlush'
  BY <1>1, <1>6, <1>7 DEF OneFlush, Flushing
<1>10. buf'[c.zone].data # << >> /\ buf'[c.zone].wp = dev.wp[c.zone]
  <2> DEFINE b == buf[c.zone]
  <2>1. SegData(c) # << >>
    BY <1>3, EmptySeq
  <2>2. CASE b = NoBuffer
    <3>1. buf'[c.zone] = [wp |-> c.wp, data |-> SegData(c)]
      BY <1>1, <1>2, <1>3, <2>2 DEF Add
    <3>2. Nothing(c.zone)
      BY <1>6, <2>2 DEF Nothing, InHand, Flushing
    <3>3. dev.wp[c.zone] = c.wp
      BY <1>1, <1>3, <1>6, <3>2 DEF Caught
    <3> QED
      BY <2>1, <3>1, <3>3
  <2>3. CASE b # NoBuffer
    <3>1. buf'[c.zone] = [wp |-> b.wp, data |-> b.data \o SegData(c)]
      BY <1>1, <1>2, <1>3, <2>3 DEF Add
    <3>2. b.data # << >> /\ b.wp = dev.wp[c.zone]
      BY <1>1, <1>3, <2>3 DEF Begins
    <3>3. b.data \in Seq(Sectors) /\ SegData(c) \in Seq(Sectors)
      BY <1>1, <1>3, SegDataSectors DEF Buffers, Start, DataInv, CmdsData
    <3> HIDE DEF b, c
    <3>4. Len(b.data \o SegData(c)) = Len(b.data) + Len(SegData(c)) /\ Len(b.data) \in Nat
      BY <3>3
    <3>5. Len(b.data \o SegData(c)) > 0
      BY <1>3, <3>4
    <3>6. b.data \o SegData(c) # << >>
      BY <3>5, EmptySeq
    <3> QED
      BY <3>1, <3>2, <3>6
  <2> QED
    BY <2>2, <2>3
<1>11. Begins'
  BY <1>1, <1>2, <1>5, <1>10 DEF Begins
<1>12. Caught'
  <2>1. buf'[c.zone] # NoBuffer
    BY <1>10 DEF NoBuffer
  <2>2. \A u \in Clients \ {t} : pc[u] # "add"
    BY <1>1, <1>2 DEF LockInv, Locked
  <2>3. \A u \in Clients, z \in Zones : ~Adding(u, z)'
    BY <1>1, <1>7, <2>2 DEF Adding
  <2>4. \A u \in Clients, z \in Zones : Adding(u, z) => z = c.zone
    BY <2>2 DEF Adding
  <2>5. ASSUME NEW z \in Zones, Nothing(z)'
        PROVE  z # c.zone /\ Nothing(z)
    <3>1. z # c.zone /\ buf[z] = NoBuffer
      BY <1>5, <2>1, <2>5 DEF Nothing
    <3>2. \A u \in Clients : InHand(u) => fl[u].zone # z
      BY <1>1, <1>2, <2>5 DEF Nothing, InHand
    <3> QED
      BY <3>1, <3>2 DEF Nothing
  <2> QED
    BY <1>1, <1>2, <2>3, <2>4, <2>5 DEF Caught, Serial
<1> QED
  BY <1>1, <1>4, <1>8, <1>9, <1>11, <1>12 DEF ZoneInv
\* A flush takes a buffer, which begins where the device is, or finds none.
LEMMA FlushTakeZones ==
  ASSUME NEW t \in Clients, Begun(t), FlushTake(t), UNCHANGED cmdVars
  PROVE  ZoneInv'
<1> DEFINE z == fl[t].zone
<1>1. /\ t \in Threads /\ PCShape /\ FlShape /\ FlRec(fl[t]) /\ Stage(t) /\ Lists(zm, dev)
      /\ OneFlush /\ Begins /\ Caught /\ z \in Zones /\ buf \in [Zones -> Buffers]
      /\ \A u \in Clients : fl[u].zone \in Zones
      /\ \A u \in Clients \ {t} : pc'[u] = pc[u] /\ cmd'[u] = cmd[u] /\ fl'[u] = fl[u]
      /\ \A u \in Collectors : pc'[u] = "idle"
  BY BegunParts, StartMine
<1>2. pc[t] = "ftake" /\ dev' = dev /\ zm' = zm /\ cmd' = cmd
  BY DEF FlushTake, cmdVars
<1>3. CASE buf[z] = NoBuffer
  <2>1. Goto(t, fl[t].ret) /\ buf' = buf
    BY <1>3 DEF FlushTake, FlushReturn
  <2>2. pc'[t] \in {"relock", "fnext"}
    BY <1>1, <1>2, <2>1, GotoMoves DEF Stage, Flushing
  <2> QED
    BY <1>2, <2>1, <2>2, StillFrame DEF InHand, Flushing
<1>4. CASE buf[z] # NoBuffer
  <2>1. /\ fl' = [fl EXCEPT ![t].wp = buf[z].wp, ![t].data = buf[z].data]
        /\ buf' = [buf EXCEPT ![z] = NoBuffer]
        /\ Goto(t, "fopen")
    BY <1>4 DEF FlushTake
  <2>2. PICK f : f = [fl[t] EXCEPT !.wp = buf[z].wp, !.data = buf[z].data]
    OBVIOUS
  <2>3. f.zone = z /\ f.wp = buf[z].wp /\ f.data = buf[z].data
    BY <1>1, <2>2 DEF FlRec
  <2>4. fl'[t] = f
    BY <1>1, <2>1, <2>2 DEF FlShape
  <2>5. pc'[t] = "fopen"
    BY <1>1, <2>1, GotoMoves
  <2>6. buf'[z] = NoBuffer /\ \A y \in Zones \ {z} : buf'[y] = buf[y]
    BY <1>1, <2>1
  <2>7. \A u \in Clients : InOrder(u)'
    <3>1. InOrder(t)'
      BY <1>1, <1>2, <1>4, <2>3, <2>4, <2>5, <2>6 DEF InOrder, InHand, Begins
    <3>2. ASSUME NEW u \in Clients \ {t}, InHand(u)
          PROVE  buf'[fl[u].zone] = buf[fl[u].zone]
      <4>1. fl[u].zone # z
        BY <1>1, <1>2, <3>2 DEF OneFlush, InHand, Flushing
      <4> QED
        BY <1>1, <2>6, <4>1
    <3> QED
      BY <1>2, <3>1, <3>2, OthersInOrder
  <2>8. OneFlush'
    BY <1>2, <2>3, <2>4, OneFlushFrame DEF Flushing
  <2>9. Begins'
    BY <1>1, <1>2, <2>6 DEF Begins
  <2>10. Caught'
    <3>1. \A u \in Clients, y \in Zones : Adding(u, y)' <=> Adding(u, y)
      BY <1>1, <1>2, <2>5 DEF Adding
    <3>2. ASSUME NEW y \in Zones, Nothing(y)'
          PROVE  Nothing(y)
      <4>1. y # z
        BY <2>3, <2>4, <2>5, <3>2 DEF Nothing, InHand
      <4>2. \A u \in Clients : InHand(u) => fl[u].zone # y
        BY <1>1, <1>2, <3>2 DEF Nothing, InHand
      <4> QED
        BY <2>6, <3>2, <4>1, <4>2 DEF Nothing
    <3> QED
      BY <1>1, <1>2, <3>1, <3>2 DEF Caught, Serial
  <2> QED
    BY <1>1, <1>2, <2>7, <2>8, <2>9, <2>10 DEF ZoneInv
<1> QED
  BY <1>3, <1>4

\* What a flush has in hand fits between the device's pointer and the zone
\* manager's; beside other commands it fills the zone.
LEMMA HandFits ==
  ASSUME NEW t \in Clients, Begun(t), InHand(t)
  PROVE  LET z == fl[t].zone
         IN /\ z \in Zones /\ fl[t].data \in Seq(Sectors) /\ fl[t].data # << >>
            /\ fl[t].wp = dev.wp[z] /\ dev.wp[z] + Len(fl[t].data) = zm.wp[z]
            /\ dev.wp[z] + Len(fl[t].data) <= zoneEndLBA(z)
            /\ dev.st[z] # "FULL" /\ dev.st[z] # "EMPTY" /\ ~Contains(zm.free, z)
            /\ Serial \/ zm.wp[z] = zoneEndLBA(z)
<1> DEFINE z == fl[t].zone
           n == Len(fl[t].data)
<1>1. /\ z \in Zones /\ fl[t].data \in Seq(Sectors) /\ fl[t].data # << >>
      /\ fl[t].wp = dev.wp[z] /\ Good(dev) /\ Lists(zm, dev) /\ ZMData(zm)
  BY BegunParts DEF InOrder
<1>2. Flushes(t) /\ Stage(t)
  BY BegunParts, StartMine
<1>3. n \in Nat /\ n > 0
  BY <1>1, EmptySeq
<1>4. fl[t].wp + n = zm.wp[z]
  BY <1>2 DEF Flushes, FlushedWP, InHand
<1>5. /\ zm.wp[z] \in zoneStartLBA(z) .. zoneEndLBA(z)
      /\ Contains(zm.free, z) => zm.wp[z] = zoneStartLBA(z)
  BY <1>1 DEF Begun, Start, PlaceInv, FreeZones, Within
<1>6. /\ dev.wp[z] \in zoneStartLBA(z) .. zoneEndLBA(z)
      /\ dev.st[z] = "FULL" <=> dev.wp[z] = zoneEndLBA(z)
  BY <1>1 DEF Good, ZoneOK
<1>7. zoneStartLBA(z) \in Nat /\ zoneEndLBA(z) \in Nat
  BY <1>1, ZoneBounds
<1>8. ~Serial => zm.wp[z] = zoneEndLBA(z)
  <2>1. ~Serial => "flush" \notin Kinds
    BY DEF Serial, Begun, Start, FlushesAlone
  <2>2. ~Serial => fl[t].ret = "relock"
    BY <1>2, <2>1 DEF Stage, InHand, Flushing
  <2> QED
    BY <1>2, <2>2 DEF Flushes, InHand, Flushing
<1> HIDE DEF z, n
<1>9. /\ dev.wp[z] + n = zm.wp[z] /\ dev.wp[z] + n <= zoneEndLBA(z)
      /\ dev.wp[z] # zoneEndLBA(z) /\ zm.wp[z] # zoneStartLBA(z)
  BY <1>1, <1>3, <1>4, <1>5, <1>6, <1>7
<1>10. ~Contains(zm.free, z) /\ dev.st[z] # "FULL" /\ dev.st[z] # "EMPTY"
  BY <1>1, <1>5, <1>6, <1>9 DEF Lists
<1> QED
  BY <1>1, <1>8, <1>9, <1>10 DEF z, n

\* GetOrOpen gives the flush its zone.
LEMMA FlushOpenZones ==
  ASSUME NEW t \in Clients, Begun(t), FlushOpen(t), UNCHANGED cmdVars
  PROVE  ZoneInv' /\ GetOrOpen(zm, dev, fl[t].zone).ok
<1> DEFINE z == fl[t].zone
           r == GetOrOpen(zm, dev, z)
<1>1. /\ t \in Threads /\ PCShape /\ Lists(zm, dev) /\ Good(dev) /\ ZMData(zm)
      /\ Begins /\ Caught /\ InOrder(t)
      /\ \A u \in Clients \ {t} : pc'[u] = pc[u] /\ cmd'[u] = cmd[u] /\ fl'[u] = fl[u]
      /\ \A u \in Collectors : pc'[u] = "idle"
  BY BegunParts, StartMine
<1>2. /\ pc[t] = "fopen" /\ zm' = r.zm /\ dev' = r.dev /\ buf' = buf /\ cmd' = cmd
      /\ r.ok => Goto(t, "fwrite") /\ UNCHANGED fl
  BY DEF FlushOpen, cmdVars
<1>3. InHand(t)
  BY <1>2 DEF InHand
<1>4. /\ z \in Zones /\ dev.st[z] # "FULL" /\ ~Contains(zm.free, z)
  BY <1>3, HandFits
<1>5. r.ok /\ Lists(r.zm, r.dev) /\ Stays(dev, r.dev) /\ z \in r.zm.open
  BY <1>1, <1>4, GetLists DEF Begun
<1>6. pc'[t] = "fwrite" /\ fl' = fl
  BY <1>1, <1>2, <1>5, GotoMoves
<1>7. zm'.wp = zm.wp /\ dev'.wp = dev.wp
  BY <1>1, <1>2, <1>5, GetLeaves DEF Leaves, Stays
<1>8. \A u \in Clients : InOrder(u)'
  <2>1. InOrder(t)'
    BY <1>1, <1>2, <1>3, <1>5, <1>6, <1>7 DEF InOrder, InHand
  <2> QED
    BY <1>2, <1>7, <2>1, OthersInOrder
<1>9. OneFlush'
  BY <1>2, <1>6, OneFlushFrame DEF Flushing
<1>10. Begins'
  BY <1>1, <1>2, <1>7 DEF Begins
<1>11. Caught'
  <2>1. \A u \in Clients, y \in Zones : Adding(u, y)' <=> Adding(u, y)
    BY <1>1, <1>2, <1>6 DEF Adding
  <2>2. \A y \in Zones : Nothing(y)' => Nothing(y)
    BY <1>1, <1>2, <1>6 DEF Nothing, InHand
  <2> QED
    BY <1>1, <1>2, <1>7, <2>1, <2>2 DEF Caught, Serial
<1> QED
  BY <1>1, <1>2, <1>5, <1>8, <1>9, <1>10, <1>11 DEF ZoneInv

\* The device is written.  Alone, that succeeds.
LEMMA FlushWriteZones ==
  ASSUME NEW t \in Clients, Begun(t), FlushWrite(t), UNCHANGED cmdVars
  PROVE  ZoneInv' /\ (Serial => WriteSectors(dev, fl[t].wp, fl[t].data).ok)
<1> DEFINE z == fl[t].zone
           data == fl[t].data
           r == WriteSectors(dev, fl[t].wp, data)
<1>1. /\ t \in Threads /\ PCShape /\ Stage(t) /\ Lists(zm, dev) /\ Good(dev) /\ ZMData(zm)
      /\ OneFlush /\ Begins /\ Caught /\ InOrder(t)
      /\ \A u \in Clients : fl[u].zone \in Zones
      /\ \A u \in Clients \ {t} : pc'[u] = pc[u] /\ cmd'[u] = cmd[u] /\ fl'[u] = fl[u]
      /\ \A u \in Collectors : pc'[u] = "idle"
  BY BegunParts, StartMine
<1>2. /\ pc[t] = "fwrite" /\ zm' = zm /\ dev' = r.dev /\ buf' = buf /\ cmd' = cmd
      /\ r.ok => Goto(t, "fpoint") /\ UNCHANGED fl
      /\ ~r.ok => FlushReturn(t, TRUE)
  BY DEF FlushWrite, cmdVars
<1>3. InHand(t)
  BY <1>2 DEF InHand
<1>4. /\ z \in Zones /\ data \in Seq(Sectors) /\ data # << >>
      /\ fl[t].wp = dev.wp[z] /\ dev.wp[z] + Len(data) = zm.wp[z]
      /\ dev.wp[z] + Len(data) <= zoneEndLBA(z)
      /\ dev.st[z] # "FULL" /\ dev.st[z] # "EMPTY"
      /\ Serial \/ zm.wp[z] = zoneEndLBA(z)
  BY <1>3, HandFits
<1>5. /\ isOpen(dev.st[z]) => r.ok
      /\ ~r.ok => r.dev = dev
      /\ r.ok =>
           /\ r.dev.wp = [dev.wp EXCEPT ![z] = dev.wp[z] + Len(data)]
           /\ \A y \in Zones \ {z} : r.dev.st[y] = dev.st[y]
           /\ IF dev.wp[z] + Len(data) = zoneEndLBA(z) THEN r.dev.st[z] = "FULL"
              ELSE isOpen(r.dev.st[z])
  <2>1. r = WriteSectors(dev, dev.wp[z], data)
    BY <1>4
  <2> HIDE DEF r, data, z
  <2>2. Written(dev, z, data, r)
    BY <1>1, <1>4, <2>1, WriteFits
  <2> QED
    BY <2>2 DEF Written
<1>6. Serial => z \in zm.open /\ r.ok
  <2>1. Serial => z \in zm.open
    BY <1>1, <1>2, <1>3 DEF InOrder
  <2> QED
    BY <1>1, <1>4, <1>5, <2>1 DEF Lists
<1> HIDE DEF r
<1>7. /\ ~InHand(t)' /\ pc'[t] \in {"fpoint", "relock", "fnext"}
      /\ pc'[t] \in Flushing => fl'[t] = fl[t]
  <2>1. CASE r.ok
    BY <1>1, <1>2, <2>1, GotoMoves DEF InHand
  <2>2. CASE ~r.ok
    <3>1. Goto(t, fl[t].ret)
      BY <1>2, <2>2 DEF FlushReturn
    <3>2. pc'[t] \in {"relock", "fnext"}
      BY <1>1, <1>2, <3>1, GotoMoves DEF Stage, Flushing
    <3> QED
      BY <3>2 DEF InHand, Flushing
  <2> QED
    BY <2>1, <2>2
<1>8. Lists(zm', dev')
  <2>1. CASE ~r.ok
    BY <1>1, <1>2, <1>5, <2>1
  <2>2. CASE r.ok
    <3>1. \A y \in Zones \ {z} : dev'.st[y] = dev.st[y]
      BY <1>2, <1>5, <2>2
    <3>2. (dev'.st[z] = "FULL" \/ isOpen(dev'.st[z])) /\ dev'.st[z] # "EMPTY"
      BY <1>2, <1>5, <2>2 DEF isOpen, OpenStates
    <3>3. isOpen(dev'.st[z]) => z \in zm.open
      <4>1. ASSUME isOpen(dev'.st[z]) PROVE Serial
        <5>1. dev.wp[z] + Len(data) # zoneEndLBA(z)
          BY <1>2, <1>5, <2>2, <4>1 DEF isOpen, OpenStates
        <5> QED
          BY <1>4, <5>1
      <4> QED
        BY <1>6, <4>1
    <3> QED
      BY <1>1, <1>2, <1>4, <3>1, <3>2, <3>3 DEF Lists
  <2> QED
    BY <2>1, <2>2
<1>9. \A y \in Zones \ {z} : dev'.wp[y] = dev.wp[y]
  BY <1>1, <1>2, <1>5 DEF Good, Records
<1>10. r.ok => dev'.wp[z] = zm.wp[z]
  BY <1>1, <1>2, <1>4, <1>5 DEF Good, Records
<1>11. \A u \in Clients : InOrder(u)'
  <2>1. InOrder(t)'
    BY <1>7 DEF InOrder
  <2>2. ASSUME NEW u \in Clients \ {t}, InHand(u)
        PROVE  dev'.wp[fl[u].zone] = dev.wp[fl[u].zone]
    BY <1>1, <1>2, <1>9, <2>2 DEF OneFlush, InHand, Flushing
  <2> QED
    BY <1>2, <2>1, <2>2, OthersInOrder
<1>12. OneFlush'
  BY <1>2, <1>7, OneFlushFrame DEF Flushing
<1>13. Begins'
  <2>1. buf[z] = NoBuffer
    BY <1>1, <1>3 DEF InOrder
  <2> QED
    BY <1>1, <1>2, <1>9, <2>1 DEF Begins
<1>14. Caught'
  <2>1. \A u \in Clients, y \in Zones : Adding(u, y)' <=> Adding(u, y)
    BY <1>1, <1>2, <1>7 DEF Adding
  <2>2. \A u \in Clients : ~Adding(u, z)
    BY <1>3 DEF Begun, Start, PlaceInv, Apart, InHand, Flushing
  <2>3. Serial \/ zm.wp[z] # zoneEndLBA(z) => dev'.wp[z] = zm.wp[z]
    BY <1>4, <1>6, <1>10
  <2>4. \A y \in Zones \ {z} : Nothing(y)' => Nothing(y)
    BY <1>1, <1>2 DEF Nothing, InHand
  <2>5. ASSUME NEW y \in Zones, Nothing(y)'
        PROVE  /\ \A u \in Clients : Adding(u, y) => dev'.wp[y] = cmd[u].wp
               /\ (\A u \in Clients : ~Adding(u, y)) /\ (zm.wp[y] # zoneEndLBA(y) \/ Serial)
                    => dev'.wp[y] = zm.wp[y]
    <3>1. CASE y = z
      BY <2>2, <2>3, <3>1
    <3>2. CASE y # z
      BY <1>1, <1>9, <2>4, <2>5, <3>2 DEF Caught
    <3> QED
      BY <3>1, <3>2
  <2> QED
    BY <1>2, <2>1, <2>5 DEF Caught, Serial
<1> QED
  BY <1>1, <1>6, <1>8, <1>11, <1>12, <1>13, <1>14 DEF ZoneInv, r
-----------------------------------------------------------------------------
(* The invariant *)

\* Every step before the first collection.
LEMMA ZoneSteps ==
  ASSUME AddressesFit, FlushesAlone, ~CloseFullFails, TableInv, TableInv', LogInv, DataInv,
         Next, cycles = 0 => PlaceInv /\ ZoneInv
  PROVE  cycles' = 0 => ZoneInv'
<1> SUFFICES ASSUME cycles' = 0
             PROVE  ZoneInv'
  OBVIOUS
<1>1. PICK t \in Clients : /\ UNCHANGED cycles
                           /\ \/ Issue(t) \/ ClientStep(t)
                              \/ (FlushStep(t) \/ FlushNext(t)) /\ UNCHANGED <<gcVars, cmdVars>>
  BY NotCollecting DEF TableInv, FlushesAlone
<1>2. cycles \in Nat /\ PlaceInv /\ ZoneInv
  BY NotCollecting DEF TableInv, Quiet
<1>3. t \in Threads
  BY ClientsAreThreads
<1>4. Fine(t)
  BY <1>1, <1>3, IssueFine, ClientStepFine, FlushStepFine, FlushNextFine
<1>5. Start(t)
  BY <1>1, <1>2, <1>4, OthersFl DEF Start, OnlyMoves, Fine, TableInv
<1>6. Begun(t)
  BY <1>2, <1>5 DEF Begun
<1>7. CASE Issue(t) \/ ClientStep(t)
  BY <1>1, <1>2, <1>6, <1>7, PlainZones, WriteLockZones, WriteMapsZones, WriteAddZones
     DEF ClientStep
<1>8. CASE (FlushStep(t) \/ FlushNext(t)) /\ UNCHANGED <<gcVars, cmdVars>>
  BY <1>6, <1>8, FlushTakeZones, FlushOpenZones, FlushWriteZones, FlushPointZones,
     FlushNextZones DEF FlushStep
<1> QED
  BY <1>1, <1>7, <1>8

\* The process has just started: Initialize takes the lists from the device.
LEMMA FreshLists ==
  ASSUME NEW d, Good(d)
  PROVE  Lists(Initialize(d), d)
<1> DEFINE m == Initialize(d)
           E == {z \in Zones : d.st[z] = "EMPTY"}
           O == {z \in Zones : isOpen(d.st[z])}
<1>1. m.lru = Ascending(O) /\ m.open = O /\ m.free = Ascending(E)
  BY Initialized
<1> HIDE DEF m
<1>2. /\ m.lru \in Seq(Zones) /\ NoDup(m.lru)
      /\ \A z \in Zones : Contains(m.lru, z) <=> z \in m.open
      /\ \A z \in Zones : Contains(m.free, z) <=> z \in E
  <2> HIDE DEF E, O
  <2>1. E \subseteq Zones /\ O \subseteq Zones
    BY DEF E, O
  <2> QED
    BY <1>1, <2>1, AscendingLists DEF NoDup, Contains
<1>3. Cardinality(m.open) <= MaxOpenZones
  BY <1>1 DEF Good, OpenSet
<1> QED
  BY <1>1, <1>2, <1>3 DEF Lists, m

LEMMA FreshZones == Fresh => ZoneInv
<1> SUFFICES ASSUME Fresh
             PROVE  ZoneInv
  OBVIOUS
<1>1. /\ \A t \in Threads : pc[t] = "idle"
      /\ \A z \in Zones : buf[z] = NoBuffer
  BY DEF Fresh
<1>2. Lists(zm, dev) /\ \A z \in Zones : zm.wp[z] = dev.wp[z]
  BY FreshLists, Initialized DEF Fresh
<1>3. \A t \in Clients : InOrder(t)
  BY <1>1, ClientsAreThreads DEF InOrder, InHand
<1>4. OneFlush /\ Begins
  BY <1>1, ClientsAreThreads DEF OneFlush, Begins, Flushing
<1>5. Caught
  BY <1>1, <1>2, ClientsAreThreads DEF Caught, Adding
<1> QED
  BY <1>1, <1>2, <1>3, <1>4, <1>5 DEF ZoneInv, Threads

LEMMA ZoneInitially == Init => ZoneInv
  BY InitFresh, FreshZones

\* Nothing changes.
LEMMA ZoneStutter ==
  ASSUME ZoneInv, UNCHANGED vars
  PROVE  ZoneInv'
<1>1. UNCHANGED <<dev, zm, buf, pc, fl, cmd>>
  BY DEF vars, gcVars, cmdVars
<1>2. \A u \in Clients : InOrder(u) => InOrder(u)'
  BY <1>1 DEF InOrder, InHand, Serial
<1>3. (OneFlush => OneFlush') /\ (Begins => Begins')
  BY <1>1 DEF OneFlush, Begins
<1>4. Caught => Caught'
  BY <1>1 DEF Caught, Nothing, InHand, Adding, Serial
<1>5. Lists(zm, dev) => Lists(zm', dev')
  BY <1>1
<1> QED
  BY <1>1, <1>2, <1>3, <1>4, <1>5 DEF ZoneInv

\* Until the first collection, with a drive that accepts CLOSE ZONE on a FULL
\* zone, the zone manager's lists describe the device and every flush finds
\* the device where its buffer begins.
LEMMA ZoneInvariant ==
  ASSUME AddressesFit, FlushesAlone, ~CloseFullFails
  PROVE  Spec => [](cycles = 0 => ZoneInv)
<1> DEFINE Inv == cycles = 0 => ZoneInv
           Plc == cycles = 0 => PlaceInv
<1>1. Init => Inv
  BY ZoneInitially
<1>2. Inv /\ Plc /\ TableInv /\ TableInv' /\ LogInv /\ DataInv /\ [Next]_vars => Inv'
  <2>1. ASSUME Inv, UNCHANGED vars
        PROVE  Inv'
    <3>1. UNCHANGED cycles
      BY <2>1 DEF vars, gcVars
    <3>2. ZoneInv => ZoneInv'
      BY <2>1, ZoneStutter
    <3> QED
      BY <2>1, <3>1, <3>2
  <2> QED
    BY <2>1, ZoneSteps
<1>3. Spec => []Plc
  BY PlaceInvariant
<1> HIDE DEF Inv, Plc
<1>4. Spec => []Inv
  BY <1>1, <1>2, <1>3, TableInvariant, LogInvariant, DataInvariant, PTL DEF Spec
<1> QED
  BY <1>4 DEF Inv

-----------------------------------------------------------------------------
(* The theorems *)

\* A list's elements are those it contains.
LEMMA ListSet ==
  ASSUME NEW s \in Seq(Zones)
  PROVE  ToSet(s) = {z \in Zones : Contains(s, z)}
<1>1. Len(s) \in Nat /\ DOMAIN s = 1 .. Len(s) /\ \A i \in 1 .. Len(s) : s[i] \in Zones
  OBVIOUS
<1> QED
  BY <1>1 DEF ToSet, Contains

\* What the invariants say of the zone manager and its flushes.
LEMMA ZonesAtRest ==
  ASSUME FlushesAlone, ~CloseFullFails, DataInv, PlaceInv, ZoneInv
  PROVE  ZonesAgree /\ FreeZoneAllocatable /\ FlushInOrder
<1>1. /\ zm.lru \in Seq(Zones) /\ NoDup(zm.lru) /\ zm.free \in Seq(Zones) /\ NoDup(zm.free)
      /\ Lists(zm, dev)
  BY DEF ZoneInv, Lists, DataInv, ZMData, PlaceInv, FreeZones
<1>2. ZonesAgree
  <2>1. ToSet(zm.lru) = zm.open
    BY <1>1, ListSet DEF Lists
  <2>2. OpenListConsistent
    BY <1>1, <2>1, DistinctLength DEF OpenListConsistent, Lists
  <2>3. DeviceOpenTracked
    BY <1>1 DEF DeviceOpenTracked, Lists
  <2>4. ToSet(zm.free) = {z \in Zones : dev.st[z] = "EMPTY"}
    BY <1>1, ListSet DEF Lists
  <2>5. FreeListExact
    BY <1>1, <2>4, DistinctLength DEF FreeListExact
  <2> QED
    BY <2>2, <2>3, <2>5 DEF ZonesAgree
<1>3. FreeZoneAllocatable
  <2> SUFFICES ASSUME zm.free # << >>
               PROVE  AllocateFree(zm, dev).ok
    BY DEF FreeZoneAllocatable
  <2> QED
    BY <1>1, AllocateLists DEF DataInv, PlaceInv, FreeZones
<1>4. FlushInOrder
  <2> SUFFICES ASSUME NEW t \in Threads, pc[t] = "fwrite"
               PROVE  fl[t].wp = dev.wp[fl[t].zone]
    BY DEF FlushInOrder
  <2>1. t \in Clients
    BY DEF ZoneInv, Threads, FlushesAlone
  <2> QED
    BY <2>1 DEF ZoneInv, InOrder, InHand
<1> QED
  BY <1>2, <1>3, <1>4

\* With one client the pointers agree too.
LEMMA PointersAtRest ==
  ASSUME Serial, DataInv, PlaceInv, ZoneInv
  PROVE  PointersAgree
<1> SUFFICES ASSUME Idle, NEW z \in Zones
             PROVE  /\ zm.wp[z] = dev.wp[z] + Len(buf[z].data)
                    /\ buf[z] # NoBuffer => buf[z].wp = dev.wp[z]
  BY DEF PointersAgree
<1>1. \A u \in Clients : pc[u] = "idle"
  BY ClientsAreThreads DEF Idle
<1>2. \A u \in Clients : ~Adding(u, z) /\ ~InHand(u)
  BY <1>1 DEF Adding, InHand
<1>3. dev.wp[z] \in Int
  BY DEF DataInv, Good, Records
<1>4. CASE buf[z] = NoBuffer
  <2>1. dev.wp[z] = zm.wp[z]
    BY <1>2, <1>4 DEF ZoneInv, Caught, Nothing
  <2>2. Len(buf[z].data) = 0
    BY <1>4, EmptySeq DEF NoBuffer
  <2> QED
    BY <1>3, <1>4, <2>1, <2>2
<1>5. CASE buf[z] # NoBuffer
  <2>1. BufferEnd(z) = zm.wp[z]
    BY <1>2, <1>5 DEF PlaceInv, BufferEnds
  <2>2. buf[z].wp = dev.wp[z]
    BY <1>5 DEF ZoneInv, Begins
  <2> QED
    BY <2>1, <2>2 DEF BufferEnd
<1> QED
  BY <1>4, <1>5

\* The zone manager's list, map and free list describe the device, for any
\* clients and requests: until the first collection, without an age loop, with
\* SYNCHRONIZE CACHE only where no second client writes beside it, and on a
\* drive that accepts CLOSE ZONE on a FULL zone.
THEOREM ZonesStayAgreed ==
  ASSUME AddressesFit, FlushesAlone, ~CloseFullFails
  PROVE  Spec => [](cycles = 0 => ZonesAgree)
<1>1. DataInv /\ (cycles = 0 => PlaceInv) /\ (cycles = 0 => ZoneInv) => (cycles = 0 => ZonesAgree)
  BY ZonesAtRest
<1> QED
  BY <1>1, DataInvariant, PlaceInvariant, ZoneInvariant, PTL

\* REQ-ZTL-08: a zone that is free can be allocated; the eviction it may need
\* first succeeds and leaves the device room to open it.  Under the same
\* conditions.
THEOREM FreeZonesAllocatable ==
  ASSUME AddressesFit, FlushesAlone, ~CloseFullFails
  PROVE  Spec => [](cycles = 0 => FreeZoneAllocatable)
<1>1. /\ DataInv /\ (cycles = 0 => PlaceInv) /\ (cycles = 0 => ZoneInv)
      => (cycles = 0 => FreeZoneAllocatable)
  BY ZonesAtRest
<1> QED
  BY <1>1, DataInvariant, PlaceInvariant, ZoneInvariant, PTL

\* REQ-ZTL-04: every flush writes its data where the device's write pointer is.
\* Under the same conditions; with an age loop it fails (ZTLAge.cfg).
THEOREM FlushesInOrder ==
  ASSUME AddressesFit, FlushesAlone, ~CloseFullFails
  PROVE  Spec => [](cycles = 0 => FlushInOrder)
<1>1. DataInv /\ (cycles = 0 => PlaceInv) /\ (cycles = 0 => ZoneInv) => (cycles = 0 => FlushInOrder)
  BY ZonesAtRest
<1> QED
  BY <1>1, DataInvariant, PlaceInvariant, ZoneInvariant, PTL

\* With one client nothing is ever lost on the way: the zone manager's pointers
\* are the device's, plus what is buffered, and a buffer begins where the
\* device's pointer is.  Until the first collection, without an age loop and on
\* a drive that accepts CLOSE ZONE on a FULL zone.
THEOREM PointersStayAgreed ==
  ASSUME AddressesFit, Flushers = {}, Serial, ~CloseFullFails
  PROVE  Spec => [](cycles = 0 => PointersAgree)
<1>1. FlushesAlone
  BY DEF FlushesAlone, Serial
<1>2. DataInv /\ (cycles = 0 => PlaceInv) /\ (cycles = 0 => ZoneInv) => (cycles = 0 => PointersAgree)
  BY PointersAtRest
<1> QED
  BY <1>1, <1>2, DataInvariant, PlaceInvariant, ZoneInvariant, PTL

-----------------------------------------------------------------------------
(* What is on the disk, with one client that writes whole segments *)

\* The commands' ranges consist of whole segments of the table.  A part of a
\* segment is written as if it were the whole, and the rest of the segment is
\* lost; a segment beyond the table is logged and then refused.
WholeRequests ==
  /\ InRange
  /\ \A req \in Requests : req[1] % SectorsPerSeg = 0 /\ req[2] % SectorsPerSeg = 0

\* Two zones do not overlap.
LEMMA ZonesApart ==
  ASSUME NEW y \in Zones, NEW z \in Zones, y # z
  PROVE  zoneEndLBA(y) <= zoneStartLBA(z) \/ zoneEndLBA(z) <= zoneStartLBA(y)
<1>1. ZoneSectors \in Nat /\ y \in Nat /\ z \in Nat
  BY ZoneZero, DeviceAssumption
<1>2. ASSUME NEW p \in Nat, NEW q \in Nat, p < q
      PROVE  p * ZoneSectors + ZoneSectors <= q * ZoneSectors
  <2>1. PICK k \in Nat : q = p + 1 + k
    <3>1. q - p - 1 \in Nat /\ q = p + 1 + (q - p - 1)
      BY <1>2
    <3> QED
      BY <3>1
  <2>2. q * ZoneSectors = p * ZoneSectors + ZoneSectors + k * ZoneSectors
    BY <1>1, <2>1
  <2>3. k * ZoneSectors \in Nat /\ p * ZoneSectors \in Nat
    BY <1>1
  <2> QED
    BY <1>1, <2>2, <2>3
<1>3. y < z \/ z < y
  BY <1>1
<1> QED
  BY <1>1, <1>2, <1>3 DEF zoneEndLBA, zoneStartLBA

\* An LBA that some request touches lies in a segment of the table.
LEMMA LBASegment ==
  ASSUME WholeRequests, NEW a \in LBAs
  PROVE  /\ a \in Nat /\ LBAToSegmentID(a) \in SegIDs /\ SegmentStart(LBAToSegmentID(a)) \in Nat
         /\ a - SegmentStart(LBAToSegmentID(a)) \in 0 .. SectorsPerSeg - 1
<1> DEFINE k == SectorsPerSeg
           n == Capacity \div k
           q == a \div k
<1>1. PICK req \in Requests : a \in req[1] .. req[1] + req[2] - 1
  BY DEF LBAs
<1>2. req[1] \in Nat /\ req[2] \in Nat /\ req[1] + req[2] <= n * k /\ k \in Nat /\ k > 0
  BY ZTLAssumption, MappingAssumption DEF WholeRequests, InRange
<1>3. n \in Nat
  <2>1. Capacity \in Nat
    BY DeviceAssumption DEF Capacity
  <2> QED
    BY <1>2, <2>1, Quotient
<1> HIDE DEF n
<1>4. a \in Nat /\ a < n * k
  <2>1. n * k \in Nat
    BY <1>2, <1>3
  <2> QED
    BY <1>1, <1>2, <2>1
<1>5. q \in Nat /\ k * q <= a /\ a < k * q + k /\ q < n
  BY <1>2, <1>3, <1>4, Quotient
<1> HIDE DEF q
<1>6. k * q = q * k /\ q * k \in Nat
  BY <1>2, <1>5
<1>7. q \in SegIDs
  BY <1>3, <1>5 DEF SegIDs, n
<1>8. LBAToSegmentID(a) = q /\ SegmentStart(q) = q * k
  BY DEF LBAToSegmentID, SegmentStart, q
<1>9. a - q * k \in 0 .. k - 1
  BY <1>2, <1>4, <1>5, <1>6
<1> QED
  BY <1>4, <1>6, <1>7, <1>8, <1>9

\* The command's part of a segment is the whole segment.
LEMMA WholePart ==
  ASSUME WholeRequests, NEW c, CmdData(c), Ranged(c), c.kind \in {"write", "unmap"}
  PROVE  /\ c.seg \in SegIDs /\ SegmentStart(c.seg) \in Nat
         /\ SegData(c) = [i \in 1 .. SectorsPerSeg |-> Stamp(c, SegmentStart(c.seg) + i - 1)]
         /\ Len(SegData(c)) = SectorsPerSeg
         /\ \A a \in LBAs : LBAToSegmentID(a) = c.seg => a \in c.lba .. c.end - 1
         /\ PartFirst(c.lba, c.seg) = SegmentStart(c.seg)
         /\ PartLast(c.end, c.seg) = SegmentStart(c.seg) + SectorsPerSeg
<1> DEFINE k == SectorsPerSeg
           b == SegmentStart(c.seg)
<1>1. PICK req \in Requests : c.lba = req[1] /\ c.end = req[1] + req[2]
  BY DEF Ranged
<1>2. /\ req[1] \in Nat /\ req[2] \in Nat \ {0} /\ k \in Nat /\ k > 0
      /\ req[1] % k = 0 /\ req[2] % k = 0
      /\ c.seg \in LBAToSegmentID(c.lba) .. LBAToSegmentID(c.end - 1)
      /\ c.seg \in SegIDs /\ c.seg \in Nat
  <2>1. c.seg \in SegIDs
    BY SegmentInTable DEF WholeRequests
  <2>2. c.seg \in Nat
    BY DEF CmdData
  <2> QED
    BY <2>1, <2>2, ZTLAssumption, MappingAssumption DEF WholeRequests, Ranged
<1>3. PICK i \in Nat, j \in Nat : req[1] = i * k /\ req[2] = j * k
  <2>1. ASSUME NEW n \in Nat, n % k = 0
        PROVE  \E m \in Nat : n = m * k
    <3>1. n \div k \in Nat /\ n = k * (n \div k) + (n % k)
      BY <1>2
    <3>2. PICK m \in Nat : m = n \div k
      BY <3>1
    <3>3. n = m * k
      BY <1>2, <2>1, <3>1, <3>2
    <3> QED
      BY <3>3
  <2> QED
    BY <1>2, <2>1
<1>4. PICK e \in Nat : e = i + j
  OBVIOUS
<1>5. c.lba = i * k /\ c.end = e * k /\ i * k \in Nat /\ e * k \in Nat /\ i * k < e * k
  <2>1. e * k = i * k + j * k /\ i * k \in Nat /\ j * k \in Nat
    BY <1>2, <1>4
  <2> QED
    BY <1>1, <1>2, <1>3, <2>1
<1>6. c.seg >= i /\ c.seg < e
  <2>1. (c.lba \div k) \in Nat /\ ((c.end - 1) \div k) \in Nat /\ (c.end - 1) \div k < e
    <3>1. c.end - 1 \in Nat /\ c.end - 1 < e * k
      BY <1>5
    <3> QED
      BY <1>2, <1>5, <3>1, Quotient
  <2>2. c.seg >= c.lba \div k /\ c.seg <= (c.end - 1) \div k
    BY <1>2, <2>1 DEF LBAToSegmentID
  <2>3. c.lba < (c.seg) * k + k
    BY <1>2, <1>5, <2>2, Quotient
  <2>4. ASSUME c.seg < i PROVE FALSE
    <3>1. PICK m \in Nat : i = c.seg + 1 + m
      <4>1. i - c.seg - 1 \in Nat /\ i = c.seg + 1 + (i - c.seg - 1)
        BY <1>2, <2>4
      <4> QED
        BY <4>1
    <3>2. i * k = c.seg * k + k + m * k /\ m * k \in Nat /\ c.seg * k \in Nat
      BY <1>2, <3>1
    <3> QED
      BY <1>2, <1>5, <2>3, <3>2
  <2> QED
    BY <1>2, <2>1, <2>2, <2>4
<1>7. b \in Nat /\ b = c.seg * k /\ c.lba <= b /\ b + k <= c.end
  <2>1. PICK m \in Nat, n \in Nat : c.seg = i + m /\ e = c.seg + 1 + n
    <3>1. c.seg - i \in Nat /\ e - c.seg - 1 \in Nat
      BY <1>2, <1>6
    <3>2. c.seg = i + (c.seg - i) /\ e = c.seg + 1 + (e - c.seg - 1)
      BY <1>2
    <3> QED
      BY <3>1, <3>2
  <2>2. /\ c.seg * k = i * k + m * k /\ m * k \in Nat
        /\ e * k = c.seg * k + k + n * k /\ n * k \in Nat /\ c.seg * k \in Nat
    BY <1>2, <2>1
  <2> QED
    BY <1>2, <1>5, <2>2 DEF SegmentStart
<1> HIDE DEF b
<1>8. PartFirst(c.lba, c.seg) = b /\ PartLast(c.end, c.seg) = b + k
  BY <1>2, <1>5, <1>7 DEF PartFirst, PartLast, SegmentEnd, b
<1>9. SegData(c) = [x \in 1 .. k |-> Stamp(c, b + x - 1)]
  <2>1. (b + k) - b = k
    BY <1>2, <1>7
  <2> QED
    BY <1>8, <2>1 DEF SegData
<1>10. Len(SegData(c)) = k
  BY <1>2, <1>9
<1>11. ASSUME NEW a \in LBAs, LBAToSegmentID(a) = c.seg
       PROVE  a \in c.lba .. c.end - 1
  <2>1. a \in Nat /\ a - b \in 0 .. k - 1
    BY <1>11, LBASegment DEF b
  <2> QED
    BY <1>2, <1>5, <1>7, <2>1
<1> QED
  BY <1>2, <1>7, <1>8, <1>9, <1>10, <1>11 DEF b

-----------------------------------------------------------------------------
(* Where the sectors are *)

\* t has set the entry of segment s and not yet buffered its data.
Carrying(t, s) == pc[t] \in {"maps", "add"} /\ cmd[t].seg = s /\ cmd[t].new = l2p[s]

\* The sector at address x of zone z: in the buffer, in t's hands, or on the
\* device.
InFlight(t, x) == InHand(t) /\ x \in fl[t].wp .. fl[t].wp + Len(fl[t].data) - 1
Lying(t, z, x) ==
  IF BufferHolds(buf, z, x) THEN BufferedSector(buf, z, x)
  ELSE IF InFlight(t, x) THEN fl[t].data[x - fl[t].wp + 1]
  ELSE dev.data[z][x - zoneStartLBA(z)]

\* With t the only thread that runs, the disk at LBA a.
Spot(a) == PhysLBA(l2p[LBAToSegmentID(a)]) + a - SegmentStart(LBAToSegmentID(a))
Shows(t, a) ==
  LET s == LBAToSegmentID(a)
  IN IF IsUnmapped(l2p[s]) THEN Zero
     ELSE IF Carrying(t, s) THEN Stamp(cmd[t], a)
     ELSE Lying(t, ZoneID(l2p[s]), Spot(a))

\* t is the only thread that runs.
OnlyOne(t) == Clients = {t} /\ Flushers = {} /\ \A u \in Collectors : pc[u] = "idle"

LEMMA SectorIs ==
  ASSUME WholeRequests, NEW t \in Clients, NEW a \in LBAs
  PROVE  /\ OnlyOne(t) => Sector(a) = Shows(t, a)
         /\ OnlyOne(t)' => Sector(a)' = Shows(t, a)'
<1> DEFINE s == LBAToSegmentID(a)
           x == Spot(a)
<1>1. OnlyOne(t) => Writing(s) = IF Carrying(t, s) THEN {t} ELSE {}
  BY DEF OnlyOne, Writing, Carrying
<1>2. OnlyOne(t) => FlushingTo(x) = IF InFlight(t, x) THEN {t} ELSE {}
  BY DEF OnlyOne, FlushingTo, InFlight, InHand, Threads
<1>3. OnlyOne(t)' => Writing(s)' = IF Carrying(t, s)' THEN {t} ELSE {}
  BY DEF OnlyOne, Writing, Carrying
<1>4. OnlyOne(t)' => FlushingTo(x)' = IF InFlight(t, x)' THEN {t} ELSE {}
  BY DEF OnlyOne, FlushingTo, InFlight, InHand, Threads
<1>5. (CHOOSE u \in {t} : TRUE) = t
  OBVIOUS
<1>8. L2PGet(l2p, s) = l2p[s] /\ L2PGet(l2p', s) = l2p'[s]
  BY LBASegment DEF L2PGet
<1>6. ASSUME OnlyOne(t) PROVE Sector(a) = Shows(t, a)
  BY <1>1, <1>2, <1>5, <1>6, <1>8 DEF Sector, Shows, Lying, Spot
<1>7. ASSUME OnlyOne(t)' PROVE Sector(a)' = Shows(t, a)'
  BY <1>3, <1>4, <1>5, <1>7, <1>8 DEF Sector, Shows, Lying, Spot
<1> QED
  BY <1>6, <1>7

\* The segment at address p has been buffered or written, and wholly: it lies
\* below the zone's write pointer, below what is about to be added, and not
\* across the device's pointer.
Rests(p) ==
  LET z == ZoneID(p)
      x == PhysLBA(p)
  IN /\ z \in Zones /\ x >= zoneStartLBA(z) /\ x + SectorsPerSeg <= zm.wp[z]
     /\ x + SectorsPerSeg <= dev.wp[z] \/ dev.wp[z] <= x
     /\ \A u \in Clients : Adding(u, z) => x + SectorsPerSeg <= cmd[u].wp

Carried(s) == \E u \in Clients : pc[u] \in {"maps", "add"} /\ cmd[u].seg = s

\* What is said of the disk is said of a set S of LBAs: all of them, until a
\* crash has taken what some of them held.
AtRest(S) ==
  \A a \in S : LET s == LBAToSegmentID(a)
               IN l2p[s] # Unmapped /\ ~Carried(s) => Rests(l2p[s])

\* What t is about to buffer is the segment its entry is for.
Carries(t) ==
  LET c == cmd[t] IN
  pc[t] = "add" =>
    c.new = l2p[c.seg] /\ c.new = EncodePhysAddr(c.zone, c.wp - zoneStartLBA(c.zone))

\* Everything that is known when the only client takes a step.
Known(t, S) ==
  /\ S \subseteq LBAs /\ Begun(t) /\ AddressesFit /\ Serial /\ WholeRequests /\ Flushers = {}
  /\ AtRest(S) /\ Carries(t)

SameDisk(S) == \A a \in S : Sector(a)' = Sector(a)
DiskKept(t, S) == SameDisk(S) /\ AtRest(S)' /\ Carries(t)'

LEMMA KnownParts ==
  ASSUME NEW S, NEW t \in Clients, Known(t, S)
  PROVE  /\ S \subseteq LBAs /\ Begun(t) /\ Clients = {t} /\ OnlyOne(t) /\ OnlyOne(t)' /\ AtRest(S) /\ Carries(t)
         /\ SectorsPerSeg \in Nat /\ SectorsPerSeg > 0 /\ l2p \in [SegIDs -> Nat]
         /\ \A a \in LBAs : Sector(a) = Shows(t, a) /\ Sector(a)' = Shows(t, a)'
<1>1. /\ S \subseteq LBAs /\ Begun(t) /\ Clients = {t} /\ AtRest(S) /\ Carries(t) /\ Flushers = {}
      /\ WholeRequests
  BY DEF Known, Serial
<1>2. OnlyOne(t) /\ OnlyOne(t)'
  <2>1. \A u \in Collectors : pc[u] = "idle"
    BY <1>1 DEF Begun, ZoneInv
  <2>2. \A u \in Collectors : pc'[u] = "idle"
    BY <1>1, BegunParts
  <2> QED
    BY <1>1, <2>1, <2>2 DEF OnlyOne
<1>3. l2p \in [SegIDs -> Nat]
  BY <1>1, BegunParts DEF DataInv, MapData
<1> QED
  BY <1>1, <1>2, <1>3, SectorIs, MappingAssumption

\* A step with no data in hand that moves no pointer and no data.
LEMMA QuietDisk ==
  ASSUME NEW S, NEW t \in Clients, Known(t, S), l2p' = l2p, buf' = buf, dev'.data = dev.data,
         zm'.wp = zm.wp, dev'.wp = dev.wp,
         pc[t] \notin {"maps", "add", "fopen", "fwrite"},
         pc'[t] \notin {"maps", "add", "fopen", "fwrite"}
  PROVE  DiskKept(t, S)
<1>1. /\ Clients = {t} /\ AtRest(S) /\ S \subseteq LBAs
      /\ \A a \in LBAs : Sector(a) = Shows(t, a) /\ Sector(a)' = Shows(t, a)'
  BY KnownParts
<1>2. ASSUME NEW a PROVE Shows(t, a)' = Shows(t, a)
  <2>1. \A z, x : Lying(t, z, x)' = Lying(t, z, x)
    BY DEF Lying, InFlight, InHand
  <2> QED
    BY <2>1 DEF Shows, Carrying, Spot
<1>3. SameDisk(S)
  BY <1>1, <1>2 DEF SameDisk
<1>4. \A s : ~Carried(s)
  BY <1>1 DEF Carried
<1>5. \A p : Rests(p) => Rests(p)'
  BY <1>1 DEF Rests, Adding
<1>6. AtRest(S)'
  BY <1>1, <1>4, <1>5 DEF AtRest
<1> QED
  BY <1>3, <1>6 DEF DiskKept, Carries

-----------------------------------------------------------------------------
(* Steps that leave the disk alone *)

\* Commands begin and end; the steps of a command outside a flush, except
\* those that set an entry, move a pointer or buffer data.
LEMMA PlainDisk ==
  ASSUME NEW S, NEW t \in Clients, Known(t, S), cycles' = cycles, cycles \in Nat,
         \/ Issue(t) \/ RunEmergencyGC(t) \/ WriteLog(t) \/ WriteRelock(t)
         \/ UnmapLock(t) \/ UnmapLog(t) \/ UnmapMaps(t) \/ FlushDone(t) \/ Commit(t) \/ Fail(t)
         \/ FlushNext(t)
  PROVE  DiskKept(t, S)
<1>1. t \in Threads /\ PCShape /\ ZMData(zm)
  BY KnownParts, BegunParts, StartMine
<1>2. ASSUME NEW x, Goto(t, x), x \notin {"maps", "add", "fopen", "fwrite"}, dev' = dev,
             zm' = zm \/ \E z : zm' = DecrementValidSegs(zm, z), buf' = buf, l2p' = l2p,
             pc[t] \notin {"maps", "add", "fopen", "fwrite"}
      PROVE  DiskKept(t, S)
  <2>1. pc'[t] = x
    BY <1>1, <1>2, GotoMoves
  <2>2. zm'.wp = zm.wp
    BY <1>1, <1>2 DEF ZMData, DecrementValidSegs
  <2> QED
    BY <1>2, <2>1, <2>2, QuietDisk
<1>3. CASE Issue(t)
  <2>1. /\ pc[t] = "idle" /\ dev' = dev /\ zm' = zm /\ buf' = buf /\ l2p' = l2p
        /\ \E x \in {"check", "ulock", "fnext"} : Goto(t, x)
    BY <1>3 DEF Issue, Write, Unmap, Flush, Begin, bufVars, mapVars
  <2> QED
    BY <1>2, <2>1
<1>4. CASE RunEmergencyGC(t)
  <2>1. ~\E z \in Zones : SelectVictim(t, z, "check", "fail")
    <3>1. \A z \in Zones : SelectVictim(t, z, "check", "fail") => cycles' = cycles + 1
      BY DEF SelectVictim
    <3> QED
      BY <3>1
  <2>2. /\ pc[t] = "check" /\ dev' = dev /\ zm' = zm /\ buf' = buf /\ l2p' = l2p
        /\ \E x \in {"lock", "fail"} : Goto(t, x)
    BY <1>4, <2>1 DEF RunEmergencyGC, bufVars, mapVars
  <2> QED
    BY <1>2, <2>2
<1>5. CASE WriteLog(t)
  <2>1. /\ pc[t] = "log" /\ dev' = dev /\ zm' = zm /\ buf' = buf /\ l2p' = l2p
        /\ Goto(t, "set")
    BY <1>5 DEF WriteLog, bufVars
  <2> QED
    BY <1>2, <2>1
<1>6. CASE WriteRelock(t)
  <2>1. /\ pc[t] = "relock" /\ dev' = dev /\ zm' = zm /\ buf' = buf /\ l2p' = l2p
        /\ \E x \in {"fail", "commit", "lock"} : Goto(t, x)
    BY <1>6 DEF WriteRelock, NextSegment, mapVars
  <2> QED
    BY <1>2, <2>1
<1>7. CASE UnmapLock(t) \/ UnmapLog(t) \/ UnmapMaps(t)
  <2>1. /\ pc[t] \in {"ulock", "ulog", "umaps"} /\ dev' = dev /\ buf' = buf /\ l2p' = l2p
        /\ zm' = zm \/ \E z : zm' = DecrementValidSegs(zm, z)
        /\ \E x \in {"idle", "ulog", "set"} : Goto(t, x)
    BY <1>7 DEF UnmapLock, UnmapLog, UnmapMaps, NextUnmap, End, bufVars, mapVars
  <2> QED
    BY <1>2, <2>1
<1>8. CASE FlushDone(t) \/ Commit(t) \/ Fail(t) \/ FlushNext(t)
  <2>1. /\ pc[t] \in {"fnext", "commit", "fail"} /\ dev' = dev /\ zm' = zm /\ buf' = buf
        /\ l2p' = l2p /\ \E x \in {"idle", "commit", "fail", "ftake"} : Goto(t, x)
    BY <1>8 DEF FlushDone, Commit, Fail, End, FlushNext, bufVars, mapVars
  <2> QED
    BY <1>2, <2>1
<1> QED
  BY <1>3, <1>4, <1>5, <1>6, <1>7, <1>8

\* A zone is allocated: nothing is written to it yet.
LEMMA WriteLockDisk ==
  ASSUME NEW S, NEW t \in Clients, Known(t, S), WriteLock(t)
  PROVE  DiskKept(t, S)
<1>1. t \in Threads /\ PCShape /\ ZMData(zm) /\ Good(dev) /\ Lists(zm, dev) /\ Begun(t)
  BY KnownParts, BegunParts, StartMine
<1>2. pc[t] = "lock" /\ buf' = buf /\ l2p' = l2p /\ \E x \in {"log", "fail"} : Goto(t, x)
  BY DEF WriteLock, bufVars
<1>3. pc'[t] \in {"log", "fail"}
  BY <1>1, <1>2, GotoMoves
<1>4. dev'.data = dev.data /\ dev'.wp = dev.wp /\ zm'.wp = zm.wp
  <2>1. CASE cur.open /\ HasRoom(cur.zone)
    BY <2>1 DEF WriteLock
  <2>2. CASE ~(cur.open /\ HasRoom(cur.zone))
    <3> DEFINE r == AllocateFree(zm, dev)
    <3>1. zm' = r.zm /\ dev' = r.dev
      BY <2>2 DEF WriteLock
    <3>2. NoDup(zm.free) /\ ~CloseFullFails
      BY <1>1 DEF Begun, Start, PlaceInv, FreeZones
    <3>3. Stays(dev, r.dev)
      BY <1>1, <3>2, AllocateLists
    <3>4. r.zm.wp = zm.wp
      BY <1>1, AllocateLeaves
    <3> QED
      BY <3>1, <3>3, <3>4 DEF Stays
  <2> QED
    BY <2>1, <2>2
<1> QED
  BY <1>2, <1>3, <1>4, QuietDisk

\* Flush corrects a pointer to what it is.
LEMMA FlushPointDisk ==
  ASSUME NEW S, NEW t \in Clients, Known(t, S), FlushPoint(t)
  PROVE  DiskKept(t, S)
<1> DEFINE z == fl[t].zone
           w == FlushedWP(fl[t])
<1>1. t \in Threads /\ PCShape /\ Stage(t) /\ Flushes(t) /\ ZMData(zm) /\ z \in Zones
  BY KnownParts, BegunParts, StartMine
<1>2. /\ pc[t] = "fpoint" /\ dev' = dev /\ buf' = buf /\ l2p' = l2p
      /\ zm' = UpdateWritePointer(zm, z, w) /\ Goto(t, fl[t].ret)
  BY DEF FlushPoint, FlushReturn, mapVars
<1>3. pc'[t] \in {"relock", "fnext"}
  BY <1>1, <1>2, GotoMoves DEF Stage, Flushing
<1>4. w = zm.wp[z]
  BY <1>1, <1>2 DEF Flushes
<1> HIDE DEF z, w
<1>5. [zm.wp EXCEPT ![z] = w] = zm.wp
  BY <1>1, <1>4 DEF ZMData
<1>6. zm'.wp = zm.wp
  BY <1>1, <1>2, <1>5 DEF ZMData, UpdateWritePointer
<1> QED
  BY <1>2, <1>3, <1>6, QuietDisk

\* A segment's entry is set by the thread that carries its data.
LEMMA CarriedIs ==
  ASSUME NEW S, NEW t \in Clients, Known(t, S)
  PROVE  \A s : Carried(s) <=> Carrying(t, s)
<1>1. Clients = {t} /\ Carries(t) /\ Updating(t)
  BY KnownParts, BegunParts, StartMine
<1> QED
  BY <1>1 DEF Carried, Carrying, Carries, Updating

\* A sector at rest lies in its zone, below the write pointer.
LEMMA SpotRange ==
  ASSUME NEW S, NEW t \in Clients, Known(t, S), NEW a \in S, NEW p, p = l2p[LBAToSegmentID(a)],
         p # Unmapped, ~Carrying(t, LBAToSegmentID(a)), NEW z, z = ZoneID(p), NEW x, x = Spot(a)
  PROVE  /\ z \in Zones /\ x \in Int /\ x >= zoneStartLBA(z) /\ x < zm.wp[z] /\ x < zoneEndLBA(z)
         /\ Adding(t, z) => x < cmd[t].wp
<1> DEFINE s == LBAToSegmentID(a)
           o == a - SegmentStart(s)
           y == PhysLBA(p)
<1>1. s \in SegIDs /\ o \in 0 .. SectorsPerSeg - 1 /\ a \in Nat /\ SegmentStart(s) \in Nat
  BY LBASegment DEF Known
<1>2. /\ Begun(t) /\ AtRest(S) /\ SectorsPerSeg \in Nat /\ l2p \in [SegIDs -> Nat] /\ Clients = {t}
      /\ CmdData(cmd[t]) /\ ZMData(zm)
  BY KnownParts, BegunParts, StartMine
<1>3. Rests(p)
  BY <1>1, <1>2, CarriedIs DEF AtRest
<1>4. /\ z \in Zones /\ y >= zoneStartLBA(z) /\ y + SectorsPerSeg <= zm.wp[z]
      /\ Adding(t, z) => y + SectorsPerSeg <= cmd[t].wp
  BY <1>2, <1>3 DEF Rests
<1>5. y \in Nat /\ zoneStartLBA(z) \in Nat
  <2>1. zoneStartLBA(z) \in Nat
    BY <1>4, ZoneBounds
  <2>2. OffsetSectors(p) \in Nat
    BY <1>1, <1>2, MappingAssumption DEF OffsetSectors
  <2> QED
    BY <2>1, <2>2 DEF PhysLBA
<1>6. zm.wp[z] \in Int /\ zm.wp[z] <= zoneEndLBA(z) /\ cmd[t].wp \in Int /\ zoneEndLBA(z) \in Nat
  <2>1. zm.wp[z] \in zoneStartLBA(z) .. zoneEndLBA(z)
    BY <1>2, <1>4 DEF Begun, Start, PlaceInv, FreeZones, Within
  <2>2. zoneEndLBA(z) \in Nat
    BY <1>4, ZoneBounds
  <2>3. cmd[t].wp \in Int
    BY <1>2 DEF CmdData
  <2> QED
    BY <1>5, <2>1, <2>2, <2>3
<1> HIDE DEF y, o, s
<1>7. x = y + o
  <2>1. x = y + a - SegmentStart(s)
    BY DEF Spot, y, s
  <2> QED
    BY <1>1, <1>5, <2>1 DEF o
<1> QED
  BY <1>1, <1>2, <1>4, <1>5, <1>6, <1>7

-----------------------------------------------------------------------------
(* Steps that move a pointer or data *)

\* Write moves the zone manager's pointer past the segment it carries.
LEMMA WriteMapsDisk ==
  ASSUME NEW S, NEW t \in Clients, Known(t, S), WriteMaps(t)
  PROVE  DiskKept(t, S)
<1> DEFINE c == cmd[t]
<1>1. /\ t \in Threads /\ PCShape /\ ZMData(zm) /\ Writes(t) /\ Updating(t) /\ Start(t) /\ Clients = {t}
      /\ AtRest(S) /\ S \subseteq LBAs
      /\ \A a \in LBAs : Sector(a) = Shows(t, a) /\ Sector(a)' = Shows(t, a)'
  BY KnownParts, BegunParts, StartMine
<1>2. /\ pc[t] = "maps" /\ dev' = dev /\ buf' = buf /\ fl' = fl /\ cmd' = cmd /\ l2p' = l2p
  BY DEF WriteMaps, bufVars, cmdVars
<1>3. pc'[t] = "add"
  BY <1>1, GotoMoves DEF WriteMaps
<1>4. zm'.wp = [zm.wp EXCEPT ![c.zone] = NewWP(c)]
  BY <1>1, WriteMapsMoves
<1>5. /\ c.kind = "write" /\ c.zone \in Zones /\ c.wp \in Int /\ c.wp < NewWP(c) /\ NewWP(c) \in Int
  <2>1. /\ c.kind = "write" /\ c.zone \in Zones /\ c.wp \in Int /\ c.wp < NewWP(c)
        /\ NewWP(c) = c.wp + Len(SegData(c)) /\ Len(SegData(c)) \in Nat
    BY <1>1, <1>2, NewPointer
  <2> QED
    BY <2>1
<1>6. c.wp = zm.wp[c.zone] /\ c.new = EncodePhysAddr(c.zone, c.wp - zoneStartLBA(c.zone))
      /\ c.new = l2p[c.seg]
  BY <1>1, <1>2, <1>5 DEF Writes, Updating
<1>7. SameDisk(S)
  <2>1. \A z, x : Lying(t, z, x)' = Lying(t, z, x)
    BY <1>2, <1>3 DEF Lying, InFlight, InHand
  <2>2. \A a : Shows(t, a)' = Shows(t, a)
    BY <1>2, <1>3, <2>1 DEF Shows, Carrying, Spot
  <2> QED
    BY <1>1, <2>2 DEF SameDisk
<1>8. ASSUME NEW p \in Nat, Rests(p)
      PROVE  Rests(p)'
  <2> DEFINE z == ZoneID(p)
             x == PhysLBA(p)
  <2>1. z \in Zones /\ x >= zoneStartLBA(z) /\ x + SectorsPerSeg <= zm.wp[z]
        /\ (x + SectorsPerSeg <= dev.wp[z] \/ dev.wp[z] <= x)
    BY <1>8 DEF Rests
  <2>2. x + SectorsPerSeg \in Int
    <3>1. zoneStartLBA(z) \in Nat
      BY <2>1, ZoneBounds
    <3>2. OffsetSectors(p) \in Nat
      BY MappingAssumption DEF OffsetSectors
    <3> QED
      BY <3>1, <3>2, MappingAssumption DEF PhysLBA
  <2>3. zm.wp \in [Zones -> Int]
    BY <1>1 DEF ZMData
  <2> HIDE DEF x, z
  <2>4. z = c.zone => zm'.wp[z] = NewWP(c) /\ x + SectorsPerSeg <= c.wp
    BY <1>4, <1>5, <1>6, <2>1, <2>3
  <2>5. z # c.zone => zm'.wp[z] = zm.wp[z]
    BY <1>4, <2>1, <2>3
  <2>6. x + SectorsPerSeg <= zm'.wp[z]
    BY <1>5, <2>1, <2>2, <2>4, <2>5
  <2>7. \A u \in Clients : Adding(u, z)' => x + SectorsPerSeg <= cmd'[u].wp
    BY <1>1, <1>2, <2>4 DEF Adding
  <2> QED
    BY <1>2, <2>1, <2>6, <2>7 DEF Rests, x, z
<1>9. AtRest(S)'
  <2>1. \A s : Carried(s)' <=> Carried(s)
    BY <1>1, <1>2, <1>3 DEF Carried
  <2>2. l2p \in [SegIDs -> Nat]
    BY KnownParts
  <2>3. \A a \in S : l2p[LBAToSegmentID(a)] \in Nat
    BY <2>2, LBASegment DEF Known
  <2> QED
    BY <1>1, <1>2, <1>8, <2>1, <2>3 DEF AtRest
<1>10. Carries(t)'
  BY <1>2, <1>6 DEF Carries
<1> QED
  BY <1>7, <1>9, <1>10 DEF DiskKept

\* The flush has its zone.
LEMMA FlushOpenDisk ==
  ASSUME NEW S, NEW t \in Clients, Known(t, S), FlushOpen(t), UNCHANGED cmdVars
  PROVE  DiskKept(t, S)
<1> DEFINE z == fl[t].zone
           r == GetOrOpen(zm, dev, z)
<1>1. /\ t \in Threads /\ PCShape /\ Begun(t) /\ Lists(zm, dev) /\ Good(dev) /\ ZMData(zm)
      /\ Clients = {t} /\ AtRest(S) /\ S \subseteq LBAs
      /\ \A a \in LBAs : Sector(a) = Shows(t, a) /\ Sector(a)' = Shows(t, a)'
  BY KnownParts, BegunParts, StartMine
<1>2. r.ok
  BY <1>1, FlushOpenZones
<1>3. /\ pc[t] = "fopen" /\ zm' = r.zm /\ dev' = r.dev /\ buf' = buf /\ cmd' = cmd /\ l2p' = l2p
      /\ Goto(t, "fwrite") /\ fl' = fl
  BY <1>2 DEF FlushOpen, cmdVars, mapVars
<1>4. pc'[t] = "fwrite" /\ InHand(t)
  BY <1>1, <1>3, GotoMoves DEF InHand
<1>5. z \in Zones /\ dev.st[z] # "FULL" /\ ~Contains(zm.free, z) /\ ~CloseFullFails
  BY <1>1, <1>4, HandFits DEF Begun
<1>6. Stays(dev, r.dev)
  BY <1>1, <1>5, GetLists
<1>7. zm'.wp = zm.wp /\ dev'.wp = dev.wp /\ dev'.data = dev.data
  BY <1>1, <1>3, <1>6, GetLeaves DEF Leaves, Stays
<1>8. SameDisk(S)
  <2>1. \A y, x : Lying(t, y, x)' = Lying(t, y, x)
    BY <1>3, <1>4, <1>7 DEF Lying, InFlight, InHand
  <2>2. \A a : Shows(t, a)' = Shows(t, a)
    BY <1>3, <1>4, <2>1 DEF Shows, Carrying, Spot
  <2> QED
    BY <1>1, <2>2 DEF SameDisk
<1>9. AtRest(S)'
  <2>1. \A s : ~Carried(s)
    BY <1>1, <1>3 DEF Carried
  <2>2. \A p : Rests(p) => Rests(p)'
    BY <1>1, <1>4, <1>7 DEF Rests, Adding
  <2> QED
    BY <1>1, <1>3, <2>1, <2>2 DEF AtRest
<1>10. Carries(t)'
  BY <1>4 DEF Carries
<1> QED
  BY <1>8, <1>9, <1>10 DEF DiskKept

\* The disk is the same when every sector is.
LEMMA LyingKeeps ==
  ASSUME NEW S, NEW t \in Clients, Known(t, S), l2p' = l2p,
         \A s : ~Carrying(t, s) /\ ~Carrying(t, s)',
         \A y \in Zones : \A x \in Int :
           x >= zoneStartLBA(y) /\ x < zoneEndLBA(y) => Lying(t, y, x)' = Lying(t, y, x)
  PROVE  SameDisk(S)
<1>1. S \subseteq LBAs /\ \A a \in LBAs : Sector(a) = Shows(t, a) /\ Sector(a)' = Shows(t, a)'
  BY KnownParts
<1>2. ASSUME NEW a \in S
      PROVE  Shows(t, a)' = Shows(t, a)
  <2>1. PICK s, p, y, x : /\ s = LBAToSegmentID(a) /\ p = l2p[s]
                          /\ y = ZoneID(p) /\ x = Spot(a)
    OBVIOUS
  <2>2. p = l2p'[s] /\ x = Spot(a)'
    BY <2>1 DEF Spot
  <2>3. CASE p = Unmapped
    BY <2>1, <2>2, <2>3 DEF Shows, IsUnmapped
  <2>4. CASE p # Unmapped
    <3>1. y \in Zones /\ x \in Int /\ x >= zoneStartLBA(y) /\ x < zoneEndLBA(y)
      BY <2>1, <2>4, SpotRange
    <3>2. Lying(t, y, x)' = Lying(t, y, x)
      BY <3>1
    <3>3. Shows(t, a) = Lying(t, y, x)
      BY <2>1, <2>4 DEF Shows, IsUnmapped
    <3>4. Shows(t, a)' = Lying(t, y, x)'
      BY <2>1, <2>2, <2>4 DEF Shows, IsUnmapped
    <3> QED
      BY <3>2, <3>3, <3>4
  <2> QED
    BY <2>3, <2>4
<1> QED
  BY <1>1, <1>2 DEF SameDisk

\* The zone's buffer passes into the hands of the flush.
LEMMA FlushTakeDisk ==
  ASSUME NEW S, NEW t \in Clients, Known(t, S), FlushTake(t), UNCHANGED cmdVars
  PROVE  DiskKept(t, S)
<1> DEFINE z == fl[t].zone
           b == buf[z]
           n == Len(b.data)
<1>1. /\ t \in Threads /\ PCShape /\ FlShape /\ FlRec(fl[t]) /\ Stage(t) /\ Begun(t)
      /\ Begins /\ PlaceInv /\ Good(dev) /\ z \in Zones /\ buf \in [Zones -> Buffers]
      /\ Clients = {t} /\ AtRest(S) /\ ZMData(zm)
      /\ \A a \in LBAs : Sector(a) = Shows(t, a) /\ Sector(a)' = Shows(t, a)'
  BY KnownParts, BegunParts, StartMine
<1>2. pc[t] = "ftake" /\ dev' = dev /\ zm' = zm /\ cmd' = cmd /\ l2p' = l2p
  BY DEF FlushTake, cmdVars, mapVars
<1>3. CASE b = NoBuffer
  <2>1. Goto(t, fl[t].ret) /\ buf' = buf
    BY <1>3 DEF FlushTake, FlushReturn
  <2>2. pc'[t] \in {"relock", "fnext"}
    BY <1>1, <1>2, <2>1, GotoMoves DEF Stage, Flushing
  <2> QED
    BY <1>2, <2>1, <2>2, QuietDisk
<1>4. CASE b # NoBuffer
  <2>1. /\ fl' = [fl EXCEPT ![t].wp = buf[z].wp, ![t].data = buf[z].data]
        /\ buf' = [buf EXCEPT ![z] = NoBuffer]
        /\ Goto(t, "fopen")
    BY <1>4 DEF FlushTake
  <2>2. PICK f : f = [fl[t] EXCEPT !.wp = buf[z].wp, !.data = buf[z].data]
    OBVIOUS
  <2>3. f.zone = z /\ f.wp = b.wp /\ f.data = b.data
    BY <1>1, <2>2 DEF FlRec
  <2>4. fl'[t] = f
    BY <1>1, <2>1, <2>2 DEF FlShape
  <2>5. pc'[t] = "fopen"
    BY <1>1, <2>1, GotoMoves
  <2>6. buf'[z] = NoBuffer /\ \A y \in Zones \ {z} : buf'[y] = buf[y]
    BY <1>1, <2>1
  <2>7. /\ n \in Nat /\ b.wp \in Int /\ b.wp >= zoneStartLBA(z) /\ b.wp + n <= zoneEndLBA(z)
        /\ zoneStartLBA(z) \in Nat /\ zoneEndLBA(z) \in Nat
    <3>1. b.wp = dev.wp[z]
      BY <1>1, <1>4 DEF Begins
    <3>2. dev.wp[z] \in zoneStartLBA(z) .. zoneEndLBA(z)
      BY <1>1 DEF Good, ZoneOK
    <3>3. \A u \in Clients : ~Adding(u, z)
      BY <1>1, <1>2 DEF Adding
    <3>4. b.wp + n = zm.wp[z]
      BY <1>1, <1>4, <3>3 DEF PlaceInv, BufferEnds, BufferEnd
    <3>5. zm.wp[z] \in zoneStartLBA(z) .. zoneEndLBA(z)
      BY <1>1 DEF PlaceInv, FreeZones, Within
    <3>6. b.data \in Seq(Sectors)
      BY <1>1 DEF Buffers
    <3>7. n \in Nat
      BY <3>6
    <3>8. zoneStartLBA(z) \in Nat /\ zoneEndLBA(z) \in Nat
      BY <1>1, ZoneBounds
    <3> HIDE DEF b, n, z
    <3> QED
      BY <3>1, <3>2, <3>4, <3>5, <3>7, <3>8
  <2>8. \A x : BufferHolds(buf, z, x) <=> x \in b.wp .. b.wp + n - 1
    BY DEF BufferHolds
  <2>9. \A x : ~BufferHolds(buf', z, x)
    <3>1. Len(NoBuffer.data) = 0 /\ NoBuffer.wp = 0
      BY EmptySeq DEF NoBuffer
    <3>2. 0 .. 0 + 0 - 1 = {}
      OBVIOUS
    <3> QED
      BY <2>6, <3>1, <3>2 DEF BufferHolds
  <2>10. \A x : InFlight(t, x)' <=> x \in b.wp .. b.wp + n - 1
    BY <2>3, <2>4, <2>5 DEF InFlight, InHand
  <2>11. \A x : ~InFlight(t, x)
    BY <1>2 DEF InFlight, InHand
  <2>12. ASSUME NEW y \in Zones, NEW x \in Int, x >= zoneStartLBA(y), x < zoneEndLBA(y)
         PROVE  Lying(t, y, x)' = Lying(t, y, x)
    <3>1. CASE y = z
      <4>1. Lying(t, y, x) = IF x \in b.wp .. b.wp + n - 1 THEN b.data[x - b.wp + 1]
                             ELSE dev.data[z][x - zoneStartLBA(z)]
        BY <2>8, <2>11, <3>1 DEF Lying, BufferedSector
      <4>2. Lying(t, y, x)' = IF x \in b.wp .. b.wp + n - 1 THEN f.data[x - f.wp + 1]
                              ELSE dev.data[z][x - zoneStartLBA(z)]
        BY <1>2, <2>4, <2>9, <2>10, <3>1 DEF Lying
      <4> QED
        BY <2>3, <4>1, <4>2
    <3>2. CASE y # z
      <4>1. zoneStartLBA(y) \in Nat /\ zoneEndLBA(y) \in Nat
        BY ZoneBounds
      <4>2. zoneEndLBA(y) <= zoneStartLBA(z) \/ zoneEndLBA(z) <= zoneStartLBA(y)
        BY <1>1, <3>2, ZonesApart
      <4> HIDE DEF b, n, z
      <4>3. x \notin b.wp .. b.wp + n - 1
        BY <2>7, <2>12, <4>1, <4>2
      <4>4. ~InFlight(t, x)' /\ ~InFlight(t, x)
        BY <2>10, <2>11, <4>3
      <4>5. buf'[y] = buf[y]
        BY <2>6, <3>2
      <4>6. BufferHolds(buf', y, x) <=> BufferHolds(buf, y, x)
        BY <4>5 DEF BufferHolds
      <4>7. BufferedSector(buf', y, x) = BufferedSector(buf, y, x)
        BY <4>5 DEF BufferedSector
      <4> QED
        BY <1>2, <4>4, <4>6, <4>7 DEF Lying
    <3> QED
      BY <3>1, <3>2
  <2>13. SameDisk(S)
    <3>1. \A s : ~Carrying(t, s) /\ ~Carrying(t, s)'
      BY <1>2, <2>5 DEF Carrying
    <3> QED
      BY <1>2, <2>12, <3>1, LyingKeeps
  <2>14. AtRest(S)'
    <3>1. \A s : ~Carried(s)
      BY <1>1, <1>2 DEF Carried
    <3>2. \A p : Rests(p) => Rests(p)'
      BY <1>1, <1>2, <2>5 DEF Rests, Adding
    <3> QED
      BY <1>1, <1>2, <3>1, <3>2 DEF AtRest
  <2>15. Carries(t)'
    BY <2>5 DEF Carries
  <2> QED
    BY <2>13, <2>14, <2>15 DEF DiskKept
<1> QED
  BY <1>3, <1>4

\* The device is written: what was in hand is on it now.
LEMMA FlushWriteDisk ==
  ASSUME NEW S, NEW t \in Clients, Known(t, S), FlushWrite(t), UNCHANGED cmdVars
  PROVE  DiskKept(t, S)
<1> DEFINE z == fl[t].zone
           data == fl[t].data
           n == Len(data)
           w == fl[t].wp
           r == WriteSectors(dev, w, data)
<1>1. /\ t \in Threads /\ PCShape /\ Begun(t) /\ Good(dev) /\ ZMData(zm) /\ PlaceInv /\ InOrder(t)
      /\ Clients = {t} /\ AtRest(S)
  BY KnownParts, BegunParts, StartMine
<1>2. r.ok
  BY <1>1, FlushWriteZones DEF Known
<1>3. /\ pc[t] = "fwrite" /\ zm' = zm /\ dev' = r.dev /\ buf' = buf /\ cmd' = cmd /\ l2p' = l2p
      /\ Goto(t, "fpoint") /\ fl' = fl
  BY <1>2 DEF FlushWrite, cmdVars, mapVars
<1>4. InHand(t) /\ pc'[t] = "fpoint"
  BY <1>1, <1>3, GotoMoves DEF InHand
<1>5. /\ z \in Zones /\ data \in Seq(Sectors) /\ data # << >> /\ w = dev.wp[z]
      /\ dev.wp[z] + n = zm.wp[z] /\ dev.wp[z] + n <= zoneEndLBA(z) /\ buf[z] = NoBuffer
  BY <1>1, <1>4, HandFits DEF InOrder
<1>6. /\ dev'.wp = [dev.wp EXCEPT ![z] = dev.wp[z] + n]
      /\ dev'.data = [dev.data EXCEPT ![z] = Stored(dev, z, w, data)]
  <2>1. r = WriteSectors(dev, dev.wp[z], data)
    BY <1>5
  <2> HIDE DEF r, data, z
  <2>2. Written(dev, z, data, r)
    BY <1>1, <1>5, <2>1, WriteFits
  <2> QED
    BY <1>2, <1>3, <1>5, <2>2 DEF Written
<1>7. /\ dev.wp \in [Zones -> Int] /\ dev.data \in [Zones -> [Offsets -> Sectors]]
      /\ n \in Nat /\ zoneStartLBA(z) \in Nat /\ zoneEndLBA(z) \in Nat /\ w \in Int
      /\ w >= zoneStartLBA(z) /\ zoneEndLBA(z) = zoneStartLBA(z) + ZoneSectors
      /\ ZoneSectors \in Nat
  <2>1. dev.wp \in [Zones -> Int] /\ dev.data \in [Zones -> [Offsets -> Sectors]]
    BY <1>1 DEF Good, Records
  <2>2. dev.wp[z] \in zoneStartLBA(z) .. zoneEndLBA(z)
    BY <1>1, <1>5 DEF Good, ZoneOK
  <2>3. n \in Nat
    BY <1>5
  <2>4. zoneStartLBA(z) \in Nat /\ zoneEndLBA(z) \in Nat
        /\ zoneEndLBA(z) = zoneStartLBA(z) + ZoneSectors /\ ZoneSectors \in Nat
    BY <1>5, ZoneBounds, DeviceAssumption
  <2> HIDE DEF z, w, n
  <2> QED
    BY <1>5, <2>1, <2>2, <2>3, <2>4
<1> HIDE DEF r
<1>8. \A x : InFlight(t, x) <=> x \in w .. w + n - 1
  BY <1>4 DEF InFlight
<1>9. \A x : ~InFlight(t, x)'
  BY <1>4 DEF InFlight, InHand
<1>10. \A x : ~BufferHolds(buf, z, x)
  <2>1. Len(NoBuffer.data) = 0 /\ NoBuffer.wp = 0
    BY EmptySeq DEF NoBuffer
  <2>2. 0 .. 0 + 0 - 1 = {}
    OBVIOUS
  <2> QED
    BY <1>5, <2>1, <2>2 DEF BufferHolds
<1>11. ASSUME NEW y \in Zones, NEW x \in Int, x >= zoneStartLBA(y), x < zoneEndLBA(y)
       PROVE  Lying(t, y, x)' = Lying(t, y, x)
  <2>1. CASE y = z
    <3> DEFINE o == x - zoneStartLBA(z)
               off == w - zoneStartLBA(z)
    <3>1. Lying(t, y, x) = IF x \in w .. w + n - 1 THEN data[x - w + 1] ELSE dev.data[z][o]
      BY <1>8, <1>10, <2>1 DEF Lying
    <3>2. Lying(t, y, x)' = dev'.data[z][o]
      BY <1>3, <1>9, <1>10, <2>1 DEF Lying
    <3>3. o \in Offsets
      BY <1>7, <1>11, <2>1 DEF Offsets
    <3>4. dev'.data[z] = Stored(dev, z, w, data)
      BY <1>5, <1>6, <1>7
    <3>5. Stored(dev, z, w, data)[o] =
            IF o \in off .. off + n - 1 THEN data[o - off + 1] ELSE dev.data[z][o]
      BY <3>3 DEF Stored
    <3> HIDE DEF z, w, n, data
    <3>6. o \in off .. off + n - 1 <=> x \in w .. w + n - 1
      BY <1>7
    <3>7. o - off + 1 = x - w + 1
      BY <1>7
    <3> QED
      BY <3>1, <3>2, <3>4, <3>5, <3>6, <3>7
  <2>2. CASE y # z
    <3>1. zoneStartLBA(y) \in Nat /\ zoneEndLBA(y) \in Nat
      BY ZoneBounds
    <3>2. zoneEndLBA(y) <= zoneStartLBA(z) \/ zoneEndLBA(z) <= zoneStartLBA(y)
      BY <1>5, <2>2, ZonesApart
    <3>3. dev'.data[y] = dev.data[y]
      BY <1>6, <1>7, <2>2
    <3> HIDE DEF z, w, n, data
    <3>4. x \notin w .. w + n - 1
      BY <1>5, <1>7, <1>11, <3>1, <3>2
    <3>5. ~InFlight(t, x)
      BY <1>8, <3>4
    <3> QED
      BY <1>3, <1>9, <3>3, <3>5 DEF Lying
  <2> QED
    BY <2>1, <2>2
<1>12. SameDisk(S)
  <2>1. \A s : ~Carrying(t, s) /\ ~Carrying(t, s)'
    BY <1>3, <1>4 DEF Carrying
  <2> QED
    BY <1>3, <1>11, <2>1, LyingKeeps
<1>13. ASSUME NEW p, Rests(p)
       PROVE  Rests(p)'
  <2>1. PICK y, x : y = ZoneID(p) /\ x = PhysLBA(p)
    OBVIOUS
  <2>2. /\ y \in Zones /\ x >= zoneStartLBA(y) /\ x + SectorsPerSeg <= zm.wp[y]
        /\ x + SectorsPerSeg <= dev.wp[y] \/ dev.wp[y] <= x
    BY <1>13, <2>1 DEF Rests
  <2>3. y = z => dev'.wp[y] = zm.wp[y]
    BY <1>5, <1>6, <1>7
  <2>4. y # z => dev'.wp[y] = dev.wp[y]
    BY <1>6, <1>7, <2>2
  <2>5. x + SectorsPerSeg <= dev'.wp[y] \/ dev'.wp[y] <= x
    BY <2>2, <2>3, <2>4
  <2>6. \A u \in Clients : ~Adding(u, y)'
    BY <1>1, <1>4 DEF Adding
  <2> QED
    BY <1>3, <2>1, <2>2, <2>5, <2>6 DEF Rests
<1>14. AtRest(S)'
  <2>1. \A s : ~Carried(s)
    BY <1>1, <1>3 DEF Carried
  <2> QED
    BY <1>1, <1>3, <1>13, <2>1 DEF AtRest
<1>15. Carries(t)'
  BY <1>4 DEF Carries
<1> QED
  BY <1>12, <1>14, <1>15 DEF DiskKept

\* Buffers e are b with D added to those of zone z, at w: what is added follows
\* what is buffered.
Added(b, z, D, w, e) ==
  /\ \A y \in Zones \ {z} : e[y] = b[y]
  /\ \A x \in Int : x < w =>
       /\ BufferHolds(e, z, x) <=> BufferHolds(b, z, x)
       /\ BufferHolds(b, z, x) => BufferedSector(e, z, x) = BufferedSector(b, z, x)
  /\ \A i \in 0 .. Len(D) - 1 :
       BufferHolds(e, z, w + i) /\ BufferedSector(e, z, w + i) = D[i + 1]

LEMMA AddHolds ==
  ASSUME NEW b, b \in [Zones -> Buffers], NEW z \in Zones, NEW D \in Seq(Sectors), NEW w \in Int,
         b[z] # NoBuffer => b[z].wp + Len(b[z].data) = w, NEW e, e = Add(b, z, D, w)
  PROVE  Added(b, z, D, w, e)
<1> USE DEF Added
<1> DEFINE n == Len(D)
<1>1. n \in Nat /\ b[z] \in Buffers
  OBVIOUS
<1>2. \A y \in Zones \ {z} : e[y] = b[y]
  BY DEF Add
<1>3. CASE b[z] = NoBuffer
  <2>1. e[z].wp = w /\ e[z].data = D
    BY <1>3 DEF Add
  <2>2. b[z].wp = 0 /\ Len(b[z].data) = 0
    BY <1>3, EmptySeq DEF NoBuffer
  <2>3. \A x \in Int : BufferHolds(e, z, x) <=> x >= w /\ x <= w + n - 1
    BY <1>1, <2>1 DEF BufferHolds
  <2>4. \A x \in Int : ~BufferHolds(b, z, x)
    BY <2>2 DEF BufferHolds
  <2>5. \A i \in 0 .. n - 1 : w + i \in Int /\ w + i >= w /\ w + i <= w + n - 1 /\ w + i - w + 1 = i + 1
    BY <1>1
  <2>6. ASSUME NEW i \in 0 .. n - 1
        PROVE  BufferHolds(e, z, w + i) /\ BufferedSector(e, z, w + i) = D[i + 1]
    BY <2>1, <2>3, <2>5 DEF BufferedSector
  <2>7. ASSUME NEW x \in Int, x < w
        PROVE  ~BufferHolds(e, z, x)
    BY <2>3, <2>7
  <2> QED
    BY <1>2, <2>4, <2>6, <2>7
<1>4. CASE b[z] # NoBuffer
  <2> DEFINE d == b[z].data
             m == Len(d)
             v == b[z].wp
  <2>1. e[z].wp = v /\ e[z].data = d \o D
    BY <1>4 DEF Add
  <2>2. d \in Seq(Sectors) /\ v \in Int /\ v + m = w
    BY <1>1, <1>4 DEF Buffers
  <2> HIDE DEF d, v
  <2>3. /\ m \in Nat /\ Len(d \o D) = m + n
        /\ \A i \in 1 .. m : (d \o D)[i] = d[i]
        /\ \A i \in 1 .. n : (d \o D)[m + i] = D[i]
    BY <2>2
  <2> HIDE DEF m, n
  <2>4. \A x \in Int : BufferHolds(e, z, x) <=> x >= v /\ x <= v + (m + n) - 1
    BY <1>1, <2>1, <2>2, <2>3 DEF BufferHolds
  <2>5. \A x \in Int : BufferHolds(b, z, x) <=> x >= v /\ x <= v + m - 1
    BY <2>2, <2>3 DEF BufferHolds, d, v, m
  <2>6. ASSUME NEW x \in Int, x < w
        PROVE  /\ BufferHolds(e, z, x) <=> BufferHolds(b, z, x)
               /\ BufferHolds(b, z, x) => BufferedSector(e, z, x) = BufferedSector(b, z, x)
    <3>1. BufferHolds(e, z, x) <=> BufferHolds(b, z, x)
      BY <1>1, <2>2, <2>3, <2>4, <2>5, <2>6
    <3>2. ASSUME BufferHolds(b, z, x)
          PROVE  BufferedSector(e, z, x) = BufferedSector(b, z, x)
      <4>1. x - v + 1 \in 1 .. m
        BY <2>2, <2>3, <2>5, <3>2
      <4>2. BufferedSector(e, z, x) = (d \o D)[x - v + 1] /\ BufferedSector(b, z, x) = d[x - v + 1]
        BY <2>1 DEF BufferedSector, d, v
      <4> QED
        BY <2>3, <4>1, <4>2
    <3> QED
      BY <3>1, <3>2
  <2>7. ASSUME NEW i \in 0 .. n - 1
        PROVE  BufferHolds(e, z, w + i) /\ BufferedSector(e, z, w + i) = D[i + 1]
    <3>0. i \in Nat /\ v \in Int /\ v + m = w /\ m \in Nat /\ n \in Nat
      BY <1>1, <2>2, <2>3 DEF n
    <3>1. w + i \in Int /\ w + i >= v /\ w + i <= v + (m + n) - 1 /\ i + 1 \in 1 .. n
      BY <3>0
    <3>2. (w + i) - v + 1 = m + (i + 1)
      BY <3>0
    <3>3. BufferHolds(e, z, w + i)
      BY <2>4, <3>1
    <3>4. BufferedSector(e, z, w + i) = (d \o D)[m + (i + 1)]
      BY <2>1, <3>2 DEF BufferedSector
    <3> QED
      BY <2>3, <3>1, <3>3, <3>4
  <2> QED
    BY <1>2, <2>6, <2>7 DEF n
<1> QED
  BY <1>3, <1>4

\* The address of device address w of zone z.
LEMMA SpotOf ==
  ASSUME AddressesFit, NEW z \in Zones, NEW w \in Int, w >= zoneStartLBA(z), w < zoneEndLBA(z),
         NEW p, p = EncodePhysAddr(z, w - zoneStartLBA(z))
  PROVE  p \in Nat /\ ZoneID(p) = z /\ PhysLBA(p) = w /\ (z # 0 => p # Unmapped)
<1> DEFINE o == w - zoneStartLBA(z)
<1>1. /\ zoneStartLBA(z) \in Nat /\ zoneEndLBA(z) = zoneStartLBA(z) + ZoneSectors
      /\ ZoneSectors \in Nat
  BY ZoneBounds, DeviceAssumption
<1>2. o \in 0 .. ZoneSectors - 1
  BY <1>1
<1>3. p \in Nat /\ ZoneID(p) = z /\ OffsetSectors(p) = o /\ (z # 0 => p # Unmapped)
  BY <1>2, Packed
<1>4. PhysLBA(p) = zoneStartLBA(z) + o
  BY <1>3 DEF PhysLBA
<1> QED
  BY <1>1, <1>3, <1>4

\* The segment that was carried is in the buffer.
LEMMA WriteAddDisk ==
  ASSUME NEW S, NEW t \in Clients, Known(t, S), WriteAdd(t)
  PROVE  DiskKept(t, S)
<1> DEFINE c == cmd[t]
           z == c.zone
           k == SectorsPerSeg
           D == SegData(c)
<1>1. /\ t \in Threads /\ PCShape /\ Begun(t) /\ Begins /\ Caught /\ Start(t) /\ PlaceInv
      /\ Good(dev) /\ Stage(t) /\ Writes(t) /\ CmdData(c) /\ Ranged(c) /\ buf \in [Zones -> Buffers]
      /\ Clients = {t} /\ AtRest(S) /\ Carries(t) /\ k \in Nat /\ k > 0 /\ l2p \in [SegIDs -> Nat]
  BY KnownParts, BegunParts, StartMine
<1>2. /\ pc[t] = "add" /\ dev' = dev /\ zm' = zm /\ buf' = Add(buf, z, D, c.wp) /\ l2p' = l2p
  BY DEF WriteAdd, mapVars
<1>3. pc'[t] \in {"ftake", "commit", "lock"}
  <2>1. \E x \in {"ftake", "commit", "lock"} : Goto(t, x)
    BY DEF WriteAdd, NextSegment
  <2> QED
    BY <1>1, <2>1, GotoMoves
<1>4. /\ c.kind = "write" /\ z \in Zones /\ c.wp \in Int /\ NewWP(c) = zm.wp[z]
      /\ c.new = l2p[c.seg] /\ c.new = EncodePhysAddr(z, c.wp - zoneStartLBA(z))
  BY <1>1, <1>2, NewPointer DEF Writes, Stage, Carries
<1>5. /\ D \in Seq(Sectors) /\ Len(D) = k /\ c.seg \in SegIDs /\ SegmentStart(c.seg) \in Nat
      /\ D = [i \in 1 .. k |-> Stamp(c, SegmentStart(c.seg) + i - 1)]
  <2>1. WholeRequests
    BY DEF Known
  <2>2. D \in Seq(Sectors)
    BY <1>1, SegDataSectors
  <2> QED
    BY <1>1, <1>4, <2>1, <2>2, WholePart
<1> HIDE DEF D
<1>6. c.wp + k = zm.wp[z]
  BY <1>4, <1>5 DEF NewWP, D
<1>7. buf[z] # NoBuffer => buf[z].wp + Len(buf[z].data) = c.wp
  BY <1>1, <1>2, <1>4 DEF PlaceInv, BufferEnds, BufferEnd, Adding
<1>8. dev.wp[z] \in Int /\ dev.wp[z] <= c.wp
  <2>1. dev.wp[z] \in Int
    BY <1>1, <1>4 DEF Good, Records
  <2>2. CASE buf[z] = NoBuffer
    <3>1. Nothing(z)
      BY <1>1, <1>2, <2>2 DEF Nothing, InHand
    <3>2. dev.wp[z] = c.wp
      BY <1>1, <1>2, <1>4, <3>1 DEF Caught, Adding
    <3> QED
      BY <2>1, <3>2
  <2>3. CASE buf[z] # NoBuffer
    <3>1. buf[z].wp = dev.wp[z] /\ Len(buf[z].data) \in Nat
      BY <1>1, <1>4, <2>3 DEF Begins, Buffers
    <3> HIDE DEF z, c
    <3> QED
      BY <1>7, <2>1, <2>3, <3>1
  <2> QED
    BY <2>1, <2>2, <2>3
<1>9. c.wp >= zoneStartLBA(z) /\ c.wp < zoneEndLBA(z)
  <2>1. dev.wp[z] \in zoneStartLBA(z) .. zoneEndLBA(z)
    BY <1>1, <1>4 DEF Good, ZoneOK
  <2>2. zm.wp[z] \in zoneStartLBA(z) .. zoneEndLBA(z)
    BY <1>1, <1>4 DEF PlaceInv, FreeZones, Within
  <2>3. zoneStartLBA(z) \in Nat /\ zoneEndLBA(z) \in Nat
    BY <1>4, ZoneBounds
  <2> HIDE DEF z, c, k
  <2> QED
    BY <1>1, <1>4, <1>6, <1>8, <2>1, <2>2, <2>3
<1>10. ZoneID(c.new) = z /\ PhysLBA(c.new) = c.wp
  BY <1>4, <1>9, SpotOf DEF Known
<1>11. /\ \A y \in Zones \ {z} : buf'[y] = buf[y]
       /\ \A x \in Int : x < c.wp =>
            /\ BufferHolds(buf', z, x) <=> BufferHolds(buf, z, x)
            /\ BufferHolds(buf, z, x) => BufferedSector(buf', z, x) = BufferedSector(buf, z, x)
       /\ \A i \in 0 .. k - 1 :
            BufferHolds(buf', z, c.wp + i) /\ BufferedSector(buf', z, c.wp + i) = D[i + 1]
  <2> HIDE DEF z, c, k
  <2>1. Added(buf, z, D, c.wp, buf')
    BY <1>1, <1>2, <1>4, <1>5, <1>7, AddHolds
  <2> QED
    BY <1>5, <2>1 DEF Added
<1>12. \A x : ~InFlight(t, x) /\ ~InFlight(t, x)'
  BY <1>2, <1>3 DEF InFlight, InHand
<1>13. \A s : ~Carrying(t, s)' /\ (Carrying(t, s) <=> s = c.seg)
  BY <1>2, <1>3, <1>4 DEF Carrying
<1>14. ASSUME NEW y \in Zones, NEW x \in Int, y = z => x < c.wp
       PROVE  Lying(t, y, x)' = Lying(t, y, x)
  <2>1. CASE y = z
    BY <1>2, <1>11, <1>12, <1>14, <2>1 DEF Lying
  <2>2. CASE y # z
    <3>1. buf'[y] = buf[y]
      BY <1>11, <2>2
    <3>2. BufferHolds(buf', y, x) <=> BufferHolds(buf, y, x)
      BY <3>1 DEF BufferHolds
    <3>3. BufferedSector(buf', y, x) = BufferedSector(buf, y, x)
      BY <3>1 DEF BufferedSector
    <3> QED
      BY <1>2, <1>12, <3>2, <3>3 DEF Lying
  <2> QED
    BY <2>1, <2>2
<1>15. ASSUME NEW a \in S
       PROVE  Shows(t, a)' = Shows(t, a)
  <2>1. PICK s, p, y, x : /\ s = LBAToSegmentID(a) /\ p = l2p[s]
                          /\ y = ZoneID(p) /\ x = Spot(a)
    OBVIOUS
  <2>2. p = l2p'[s] /\ x = Spot(a)'
    BY <1>2, <2>1 DEF Spot
  <2>3. CASE p = Unmapped
    BY <2>1, <2>2, <2>3 DEF Shows, IsUnmapped
  <2>4. CASE p # Unmapped /\ s = c.seg
    <3> DEFINE o == a - SegmentStart(s)
    <3>1. o \in 0 .. k - 1 /\ a \in Nat /\ SegmentStart(s) \in Nat
      BY <2>1, LBASegment DEF Known
    <3>2. x = c.wp + o /\ y = z
      <4>1. x = PhysLBA(p) + a - SegmentStart(s)
        BY <2>1 DEF Spot
      <4>2. PhysLBA(p) = c.wp /\ y = z
        BY <1>4, <1>10, <2>1, <2>4
      <4> HIDE DEF c, z
      <4> QED
        BY <1>4, <3>1, <4>1, <4>2
    <3>3. Shows(t, a) = Stamp(c, a)
      BY <1>13, <2>1, <2>4 DEF Shows, IsUnmapped
    <3>4. Shows(t, a)' = Lying(t, y, x)'
      BY <1>13, <2>1, <2>2, <2>4 DEF Shows, IsUnmapped
    <3>5. Lying(t, y, x)' = D[o + 1]
      BY <1>11, <3>1, <3>2 DEF Lying
    <3>6. D[o + 1] = Stamp(c, a)
      <4>1. o + 1 \in 1 .. k /\ SegmentStart(s) + (o + 1) - 1 = a
        BY <1>1, <3>1
      <4> HIDE DEF o, k
      <4>2. D[o + 1] = Stamp(c, SegmentStart(s) + (o + 1) - 1)
        BY <1>5, <2>4, <4>1
      <4> QED
        BY <4>1, <4>2
    <3> QED
      BY <3>3, <3>4, <3>5, <3>6
  <2>5. CASE p # Unmapped /\ s # c.seg
    <3>1. ~Carrying(t, s)
      BY <1>13, <2>5
    <3>2. y \in Zones /\ x \in Int /\ (Adding(t, y) => x < c.wp)
      BY <2>1, <2>5, <3>1, SpotRange
    <3>3. y = z => x < c.wp
      BY <1>2, <3>2 DEF Adding
    <3>4. Lying(t, y, x)' = Lying(t, y, x)
      BY <1>14, <3>2, <3>3
    <3>5. Shows(t, a) = Lying(t, y, x)
      BY <2>1, <2>5, <3>1 DEF Shows, IsUnmapped
    <3>6. Shows(t, a)' = Lying(t, y, x)'
      BY <1>13, <2>1, <2>2, <2>5 DEF Shows, IsUnmapped
    <3> QED
      BY <3>4, <3>5, <3>6
  <2> QED
    BY <2>3, <2>4, <2>5
<1>16. SameDisk(S)
  <2>1. S \subseteq LBAs /\ \A a \in LBAs : Sector(a) = Shows(t, a) /\ Sector(a)' = Shows(t, a)'
    BY KnownParts
  <2> QED
    BY <1>15, <2>1 DEF SameDisk
<1>17. AtRest(S)'
  <2>1. \A y : ~Adding(t, y)'
    BY <1>3 DEF Adding
  <2>2. ASSUME NEW a \in S, NEW s, s = LBAToSegmentID(a), l2p[s] # Unmapped
        PROVE  Rests(l2p[s])'
    <3>1. PICK p : p = l2p[s]
      OBVIOUS
    <3>2. CASE s = c.seg
      <4>1. z \in Zones /\ PhysLBA(p) = c.wp /\ ZoneID(p) = z
        BY <1>4, <1>10, <3>1, <3>2
      <4>2. c.wp + k <= zm.wp[z]
        BY <1>1, <1>4, <1>6
      <4>3. Rests(p)'
        BY <1>1, <1>2, <1>8, <1>9, <2>1, <4>1, <4>2 DEF Rests
      <4> QED
        BY <1>2, <3>1, <4>3
    <3>3. CASE s # c.seg
      <4>1. ~Carried(s)
        BY <1>13, <3>3, CarriedIs
      <4>2. Rests(p)
        BY <1>1, <2>2, <3>1, <4>1 DEF AtRest
      <4>3. Rests(p)'
        BY <1>1, <1>2, <2>1, <4>2 DEF Rests
      <4> QED
        BY <1>2, <3>1, <4>3
    <3> QED
      BY <3>2, <3>3
  <2>3. \A a \in S : l2p[LBAToSegmentID(a)] # Unmapped => Rests(l2p[LBAToSegmentID(a)])'
    BY <2>2
  <2> QED
    BY <1>2, <2>3 DEF AtRest
<1>18. Carries(t)'
  BY <1>3 DEF Carries
<1> QED
  BY <1>16, <1>17, <1>18 DEF DiskKept

\* The LBAs of the command's segment join S.
Grown(t, S) == S \union {a \in LBAs : LBAToSegmentID(a) = cmd[t].seg}

\* The one step that changes the disk: the entry of the command's segment is
\* set, and the whole segment holds what the command leaves there.
LEMMA SetL2PDisk ==
  ASSUME NEW S, NEW t \in Clients, Known(t, S), SetL2P(t), Contains(zm.free, 0)
  PROVE  /\ AtRest(S)' /\ \A R : R = Grown(t, S) => AtRest(R)'
         /\ Carries(t)'
         /\ \A a \in LBAs : Sector(a)' = IF LBAToSegmentID(a) = cmd[t].seg THEN Stamp(cmd[t], a)
                                         ELSE Sector(a)
<1> DEFINE c == cmd[t]
<1>1. /\ t \in Threads /\ PCShape /\ Begun(t) /\ PlaceInv /\ Stage(t) /\ Writes(t) /\ Updating(t)
      /\ CmdData(c) /\ Ranged(c) /\ Clients = {t} /\ AtRest(S) /\ l2p \in [SegIDs -> Nat]
      /\ SectorsPerSeg \in Nat /\ SectorsPerSeg > 0 /\ ZMData(zm)
  BY KnownParts, BegunParts, StartMine
<1>2. /\ pc[t] = "set" /\ dev' = dev /\ zm' = zm /\ buf' = buf /\ fl' = fl /\ cmd' = cmd
      /\ l2p' = L2PSet(l2p, c.seg, c.new)
      /\ Goto(t, IF c.kind = "write" THEN "maps" ELSE "umaps")
  BY DEF SetL2P, bufVars, cmdVars
<1>3. pc'[t] = IF c.kind = "write" THEN "maps" ELSE "umaps"
  BY <1>1, <1>2, GotoMoves
<1>4. c.kind \in {"write", "unmap"} /\ c.seg \in SegIDs
  BY <1>1, <1>2 DEF Stage, SetL2P
<1>5. \A s \in SegIDs : l2p'[s] = IF s = c.seg THEN c.new ELSE l2p[s]
  BY <1>1, <1>2, <1>4 DEF L2PSet
<1>6. IF c.kind = "write" THEN c.new # Unmapped ELSE c.new = Unmapped
  <2>1. CASE c.kind = "unmap"
    BY <1>1, <1>2, <2>1 DEF Updating
  <2>2. CASE c.kind = "write"
    <3> DEFINE z == c.zone
    <3>1. /\ ~Contains(zm.free, z) /\ zm.wp[z] + SectorsPerSeg <= zoneEndLBA(z)
          /\ c.wp = zm.wp[z] /\ c.new = EncodePhysAddr(z, c.wp - zoneStartLBA(z))
      BY <1>1, <1>2, <2>2 DEF Writes
    <3>2. z \in Zones
      BY <1>1 DEF CmdData
    <3>3. zm.wp[z] \in zoneStartLBA(z) .. zoneEndLBA(z)
      BY <1>1, <3>2 DEF PlaceInv, FreeZones, Within
    <3>4. zoneStartLBA(z) \in Nat /\ zoneEndLBA(z) \in Nat
      BY <3>2, ZoneBounds
    <3>5. z # 0
      BY <3>1
    <3> HIDE DEF z, c
    <3>6. c.wp \in Int /\ c.wp >= zoneStartLBA(z) /\ c.wp < zoneEndLBA(z)
      BY <1>1, <3>1, <3>3, <3>4
    <3>7. c.new # Unmapped
      BY <3>1, <3>2, <3>5, <3>6, SpotOf DEF Known
    <3> QED
      BY <2>2, <3>7
  <2> QED
    BY <1>4, <2>1, <2>2
<1>7. \A y, x : Lying(t, y, x)' = Lying(t, y, x)
  BY <1>2, <1>3 DEF Lying, InFlight, InHand
<1>8. \A s : ~Carrying(t, s)
  BY <1>2 DEF Carrying
<1>9. \A s \in SegIDs : Carrying(t, s)' <=> s = c.seg /\ c.kind = "write"
  BY <1>2, <1>3, <1>5 DEF Carrying
<1>10. ASSUME NEW a \in LBAs
       PROVE  Shows(t, a)' = IF LBAToSegmentID(a) = c.seg THEN Stamp(c, a) ELSE Shows(t, a)
  <2>1. PICK s, p, y, x : /\ s = LBAToSegmentID(a) /\ p = l2p[s]
                          /\ y = ZoneID(p) /\ x = Spot(a)
    OBVIOUS
  <2>2. s \in SegIDs
    BY <2>1, LBASegment DEF Known
  <2>3. CASE s = c.seg
    <3>1. l2p'[s] = c.new
      BY <1>5, <2>2, <2>3
    <3>2. CASE c.kind = "write"
      BY <1>2, <1>6, <1>9, <2>1, <2>2, <2>3, <3>1, <3>2 DEF Shows, IsUnmapped
    <3>3. CASE c.kind = "unmap"
      BY <1>6, <2>1, <2>3, <3>1, <3>3 DEF Shows, IsUnmapped, Stamp
    <3> QED
      BY <1>4, <3>2, <3>3
  <2>4. CASE s # c.seg
    <3>1. l2p'[s] = p /\ Spot(a)' = x
      BY <1>5, <2>1, <2>2, <2>4 DEF Spot
    <3>2. ~Carrying(t, s)' /\ ~Carrying(t, s)
      BY <1>8, <1>9, <2>2, <2>4
    <3>3. Shows(t, a) = IF IsUnmapped(p) THEN Zero ELSE Lying(t, y, x)
      BY <2>1, <3>2 DEF Shows
    <3>4. Shows(t, a)' = IF IsUnmapped(p) THEN Zero ELSE Lying(t, y, x)'
      BY <2>1, <3>1, <3>2 DEF Shows
    <3> QED
      BY <1>7, <2>1, <2>4, <3>3, <3>4
  <2> QED
    BY <2>3, <2>4
<1>11. ASSUME NEW R, R = S \/ R = Grown(t, S)
       PROVE  AtRest(R)'
  <2>1. \A p : Rests(p) => Rests(p)'
    BY <1>1, <1>2, <1>3 DEF Rests, Adding
  <2>2. \A s : ~Carried(s)
    BY <1>1, <1>2 DEF Carried
  <2>3. ASSUME NEW s \in SegIDs, l2p'[s] # Unmapped, ~Carried(s)'
        PROVE  l2p'[s] = l2p[s] /\ s # c.seg
    <3>1. ASSUME s = c.seg PROVE FALSE
      <4>1. c.kind = "write" /\ pc'[t] = "maps"
        BY <1>3, <1>4, <1>5, <1>6, <2>3, <3>1
      <4> QED
        BY <1>1, <1>2, <2>3, <3>1, <4>1 DEF Carried
    <3> QED
      BY <1>5, <3>1
  <2>4. ASSUME NEW a \in R, NEW s, s = LBAToSegmentID(a), l2p'[s] # Unmapped, ~Carried(s)'
        PROVE  Rests(l2p[s])'
    <3>0. s \in SegIDs
      BY <1>11, <2>4, LBASegment DEF Known, Grown
    <3>1. PICK p : p = l2p[s] /\ p = l2p'[s]
      BY <2>3, <2>4, <3>0
    <3>2. Rests(p)
      <4>1. a \in S
        BY <1>11, <2>3, <2>4, <3>0 DEF Grown
      <4> QED
        BY <1>1, <2>2, <2>4, <3>1, <4>1 DEF AtRest
    <3>3. Rests(p)'
      BY <2>1, <3>2
    <3> QED
      BY <3>1, <3>3
  <2> QED
    BY <2>3, <2>4, <1>11, LBASegment DEF AtRest, Known, Grown
<1>12. Carries(t)'
  BY <1>3 DEF Carries
<1>13. \A a \in LBAs : Sector(a) = Shows(t, a) /\ Sector(a)' = Shows(t, a)'
  BY KnownParts
<1> QED
  BY <1>10, <1>11, <1>12, <1>13

-----------------------------------------------------------------------------
(* A step as BlockDevice sees it *)

\* A write or unmap that has not failed, the segment it applies next, and what
\* it keeps from its call to its return.
Working(t) == ChangesDisk(t) /\ pc[t] # "fail"
Reached(t) == IF SegmentApplied(t) THEN cmd[t].seg + 1 ELSE cmd[t].seg
SameCmd(c, d) ==
  d.kind = c.kind /\ d.id = c.id /\ d.lba = c.lba /\ d.end = c.end /\ d.before = c.before

SamePromise == \A a \in LBAs : promised'[a] = promised[a]

\* The disk gets what the command leaves in its next segment.
SegmentSet(t, S) ==
  \E R : /\ R = Grown(t, S) /\ AtRest(R)'
        /\ \A a \in R : Sector(a)' = IF LBAToSegmentID(a) = Reached(t) THEN Stamp(cmd[t], a)
                                     ELSE Sector(a)

LastSegment(c) == LBAToSegmentID(c.end - 1)

Silent(t, S) ==
  /\ SameDisk(S) /\ SamePromise /\ cmds' >= cmds
  /\ \/ /\ Working(t) /\ Working(t)' /\ SameCmd(cmd[t], cmd'[t])
        /\ Reached(t)' = Reached(t)
     \/ ~ChangesDisk(t) /\ ~ChangesDisk(t)'

Called(t, S) ==
  LET c == cmd'[t] IN
  /\ SameDisk(S) /\ ~ChangesDisk(t) /\ Working(t)'
  /\ cmds < MaxCmds /\ cmds' = cmds + 1 /\ c.id = cmds + 1
  /\ \E req \in Requests : c.lba = req[1] /\ c.end = req[1] + req[2]
  /\ Reached(t)' = LBAToSegmentID(c.lba)
  /\ \A a \in LBAs :
       /\ c.before[a] \subseteq promised[a]
       /\ promised'[a] = IF Touches(c, a) THEN promised[a] \union {Mark(c, a)} ELSE promised[a]

Applied(t, S) ==
  /\ Working(t) /\ Working(t)' /\ SameCmd(cmd[t], cmd'[t]) /\ SamePromise /\ cmds' >= cmds
  /\ Reached(t) = cmd[t].seg /\ Reached(t)' = Reached(t) + 1 /\ SegmentSet(t, S)

Returned(t, S) ==
  /\ Working(t) /\ cmd'[t] = NoCmd /\ cmds' >= cmds
  /\ \A a \in LBAs : promised'[a] = Promise(t)[a]
  /\ \/ Reached(t) = LastSegment(cmd[t]) + 1 /\ SameDisk(S)
     \/ Reached(t) = cmd[t].seg /\ Reached(t) = LastSegment(cmd[t]) /\ SegmentSet(t, S)

GaveUp(t, S) ==
  /\ Working(t) /\ pc'[t] = "fail" /\ SameCmd(cmd[t], cmd'[t])
  /\ SameDisk(S) /\ SamePromise /\ cmds' >= cmds

ReturnedError(t, S) ==
  /\ ChangesDisk(t) /\ pc[t] = "fail" /\ cmd'[t] = NoCmd
  /\ SameDisk(S) /\ SamePromise /\ cmds' >= cmds

Seen(t, S) ==
  Silent(t, S) \/ Called(t, S) \/ Applied(t, S) \/ Returned(t, S) \/ GaveUp(t, S) \/ ReturnedError(t, S)

\* Which command is at which step, where Stage does not say.
Tracks(t) ==
  LET c == cmd[t] IN
  /\ pc[t] = "idle" => c.kind = "none"
  /\ pc[t] = "fnext" \/ (pc[t] \in Flushing /\ fl[t].ret = "fnext") => c.kind = "flush"
  /\ pc[t] = "commit" => c.kind = "flush" \/ (c.kind = "write" /\ c.seg = LastSegment(c))

Follows(t, S) == Seen(t, S) /\ Tracks(t)'

LEMMA StartKnown ==
  ASSUME NEW S, NEW t \in Clients, Known(t, S)
  PROVE  /\ Start(t) /\ t \in Threads /\ PCShape /\ CmdShape /\ CmdRec(cmd[t]) /\ CmdData(cmd[t])
         /\ Stage(t) /\ Ranged(cmd[t]) /\ FlShape /\ cmds \in Nat
<1>1. Start(t) /\ DataInv
  BY KnownParts, BegunParts
<1> QED
  BY <1>1, StartMine DEF DataInv, CmdsData

\* A step of a write or unmap that keeps its command's locals.
LEMMA SilentSame ==
  ASSUME NEW S, NEW t \in Clients, ChangesDisk(t), pc[t] # "fail", pc'[t] # "fail", cmd' = cmd,
         promised' = promised, cmds' = cmds, cmds \in Nat, SameDisk(S),
         SegmentApplied(t)' <=> SegmentApplied(t)
  PROVE  Silent(t, S)
<1>1. Working(t) /\ Working(t)' /\ Reached(t)' = Reached(t) /\ SameCmd(cmd[t], cmd'[t])
  BY DEF Working, ChangesDisk, Reached, SameCmd
<1> QED
  BY <1>1 DEF Silent, SamePromise

\* A step of a flush.
LEMMA SilentFlush ==
  ASSUME NEW S, NEW t \in Clients, cmd[t].kind = "flush", cmd' = cmd, promised' = promised,
         cmds' = cmds, cmds \in Nat, SameDisk(S)
  PROVE  Silent(t, S)
  BY DEF Silent, SamePromise, ChangesDisk

\* A flush's own steps.
LEMMA FlushFollows ==
  ASSUME NEW S, NEW t \in Clients, Known(t, S), Tracks(t), FlushStep(t) \/ FlushNext(t), UNCHANGED cmdVars,
         DiskKept(t, S)
  PROVE  Follows(t, S)
<1>1. /\ t \in Threads /\ PCShape /\ Stage(t) /\ FlShape /\ FlRec(fl[t]) /\ cmds \in Nat
  BY StartKnown DEF FlShape
<1>2. cmd' = cmd /\ promised' = promised /\ cmds' = cmds /\ SameDisk(S)
  BY DEF cmdVars, DiskKept
<1>3. CASE FlushNext(t)
  <2>1. pc[t] = "fnext" /\ Goto(t, "ftake")
    BY <1>3 DEF FlushNext
  <2>2. cmd[t].kind = "flush" /\ pc'[t] = "ftake"
    BY <1>1, <2>1, GotoMoves DEF Tracks
  <2> QED
    BY <1>1, <1>2, <2>2, SilentFlush DEF Follows, Seen, Tracks
<1>4. CASE FlushStep(t)
  <2>1. pc[t] \in Flushing /\ \E x \in Flushing \union {fl[t].ret} : Goto(t, x)
    BY <1>4 DEF FlushStep, FlushTake, FlushOpen, FlushWrite, FlushPoint, FlushReturn, Flushing
  <2>2. pc'[t] \in Flushing \union {fl[t].ret}
    BY <1>1, <2>1, GotoMoves
  <2>3. fl'[t].ret = fl[t].ret
    <3>1. \/ fl' = fl
          \/ \E e : fl' = [fl EXCEPT ![t].err = e, ![t].wp = 0, ![t].data = << >>]
          \/ \E w, d : fl' = [fl EXCEPT ![t].wp = w, ![t].data = d]
      BY <1>4 DEF FlushStep, FlushTake, FlushOpen, FlushWrite, FlushPoint, FlushReturn
    <3>2. ASSUME NEW e, fl' = [fl EXCEPT ![t].err = e, ![t].wp = 0, ![t].data = << >>]
          PROVE  fl'[t].ret = fl[t].ret
      <4>1. PICK f : f = [fl[t] EXCEPT !.err = e, !.wp = 0, !.data = << >>]
        OBVIOUS
      <4>2. fl'[t] = f
        BY <1>1, <3>2, <4>1 DEF FlShape
      <4> QED
        BY <1>1, <4>1, <4>2 DEF FlRec
    <3>3. ASSUME NEW w, NEW d, fl' = [fl EXCEPT ![t].wp = w, ![t].data = d]
          PROVE  fl'[t].ret = fl[t].ret
      <4>1. PICK f : f = [fl[t] EXCEPT !.wp = w, !.data = d]
        OBVIOUS
      <4>2. fl'[t] = f
        BY <1>1, <3>3, <4>1 DEF FlShape
      <4> QED
        BY <1>1, <4>1, <4>2 DEF FlRec
    <3> QED
      BY <3>1, <3>2, <3>3
  <2>4. CASE fl[t].ret = "fnext"
    <3>1. cmd[t].kind = "flush"
      BY <2>1, <2>4 DEF Tracks
    <3>2. Tracks(t)'
      BY <1>2, <2>2, <2>4, <3>1 DEF Tracks, Flushing
    <3> QED
      BY <1>1, <1>2, <3>1, <3>2, SilentFlush DEF Follows, Seen
  <2>5. CASE fl[t].ret # "fnext"
    <3>1. cmd[t].kind = "write" /\ fl[t].ret = "relock"
      BY <1>1, <2>1, <2>5 DEF Stage
    <3>2. Tracks(t)'
      BY <2>2, <2>3, <3>1 DEF Tracks, Flushing
    <3>3. SegmentApplied(t) /\ SegmentApplied(t)' /\ pc[t] # "fail" /\ pc'[t] # "fail"
      BY <2>1, <2>2, <3>1 DEF SegmentApplied, Flushing
    <3>4. ChangesDisk(t)
      BY <3>1 DEF ChangesDisk
    <3> QED
      BY <1>1, <1>2, <3>2, <3>3, <3>4, SilentSame DEF Follows, Seen
  <2> QED
    BY <2>4, <2>5
<1> QED
  BY <1>3, <1>4

\* A command begins.
LEMMA IssueFollows ==
  ASSUME NEW S, NEW t \in Clients, Known(t, S), Tracks(t), Issue(t), DiskKept(t, S)
  PROVE  Follows(t, S)
<1>1. /\ Start(t) /\ t \in Threads /\ PCShape /\ CmdShape /\ cmds \in Nat /\ SameDisk(S)
  BY StartKnown DEF DiskKept
<1>2. pc[t] = "idle" /\ ~ChangesDisk(t)
  BY DEF Issue, Write, Unmap, Flush, Begin, Tracks, ChangesDisk
<1>3. ASSUME NEW c, CmdRec(c), NEW step, Begin(t, c, step), NEW req \in Requests,
             c.lba = req[1], c.end = req[1] + req[2], c.seg = LBAToSegmentID(req[1]),
             c.id = cmds + 1,
             \/ step = "check" /\ c.kind = "write"
             \/ step = "ulock" /\ c.kind = "unmap"
      PROVE  Follows(t, S)
  <2>1. PICK d : d = [c EXCEPT !.before = [a \in LBAs |-> Before(a)]]
    OBVIOUS
  <2>2. cmd'[t] = d
    BY <1>1, <1>3, <2>1 DEF CmdShape, Begin
  <2>3. /\ d.kind = c.kind /\ d.id = c.id /\ d.lba = c.lba /\ d.end = c.end /\ d.seg = c.seg
        /\ d.before = [a \in LBAs |-> Before(a)]
    BY <1>3, <2>1 DEF CmdRec
  <2>4. pc'[t] = step
    BY <1>1, <1>3, GotoMoves DEF Begin
  <2>5. Working(t)' /\ Reached(t)' = LBAToSegmentID(d.lba)
    BY <1>3, <2>2, <2>3, <2>4 DEF Working, ChangesDisk, Reached, SegmentApplied
  <2>6. \A a \in LBAs : Touches(d, a) = Touches(c, a) /\ Mark(d, a) = Mark(c, a)
    BY <2>3 DEF Touches, Mark, Stamp
  <2>7. ASSUME NEW a \in LBAs
        PROVE  /\ d.before[a] \subseteq promised[a]
               /\ promised'[a] = IF Touches(d, a) THEN promised[a] \union {Mark(d, a)}
                                 ELSE promised[a]
    BY <1>3, <2>3, <2>6 DEF Begin, Before
  <2>8. cmds < MaxCmds /\ cmds' = cmds + 1 /\ d.id = cmds + 1
    BY <1>3, <2>3 DEF Begin
  <2>9. Called(t, S)
    BY <1>1, <1>2, <1>3, <2>2, <2>3, <2>5, <2>7, <2>8 DEF Called
  <2>10. Tracks(t)'
    BY <1>3, <2>4 DEF Tracks, Flushing
  <2> QED
    BY <2>9, <2>10 DEF Follows, Seen
<1>4. ASSUME NEW req \in Requests, Write(t, req)
      PROVE  Follows(t, S)
  <2>1. PICK c : c = [NoCmd EXCEPT !.kind = "write", !.lba = req[1],
                        !.end = req[1] + req[2], !.id = cmds + 1,
                        !.seg = LBAToSegmentID(req[1])]
    OBVIOUS
  <2>2. /\ CmdRec(c) /\ c.kind = "write" /\ c.lba = req[1] /\ c.end = req[1] + req[2]
        /\ c.seg = LBAToSegmentID(req[1]) /\ c.id = cmds + 1
    BY <2>1, FreshCmd DEF CmdRec
  <2>3. Begin(t, c, "check")
    BY <1>4, <2>1 DEF Write
  <2> QED
    BY <1>3, <2>2, <2>3
<1>5. ASSUME NEW req \in Requests, Unmap(t, req)
      PROVE  Follows(t, S)
  <2>1. PICK c : c = [NoCmd EXCEPT !.kind = "unmap", !.lba = req[1],
                        !.end = req[1] + req[2], !.id = cmds + 1,
                        !.seg = LBAToSegmentID(req[1])]
    OBVIOUS
  <2>2. /\ CmdRec(c) /\ c.kind = "unmap" /\ c.lba = req[1] /\ c.end = req[1] + req[2]
        /\ c.seg = LBAToSegmentID(req[1]) /\ c.id = cmds + 1
    BY <2>1, FreshCmd DEF CmdRec
  <2>3. Begin(t, c, "ulock")
    BY <1>5, <2>1 DEF Unmap
  <2> QED
    BY <1>3, <2>2, <2>3
<1>6. ASSUME Flush(t)
      PROVE  Follows(t, S)
  <2>1. PICK c : c = [NoCmd EXCEPT !.kind = "flush", !.id = cmds + 1]
    OBVIOUS
  <2>2. CmdRec(c) /\ c.kind = "flush"
    BY <2>1, FreshCmd DEF CmdRec
  <2>3. Begin(t, c, "fnext")
    BY <1>6, <2>1 DEF Flush
  <2>4. cmd'[t].kind = "flush" /\ pc'[t] = "fnext"
    BY <1>1, <2>2, <2>3, BeginSets DEF Start
  <2>5. SamePromise /\ cmds' >= cmds
    BY <1>1, <2>2, <2>3 DEF Begin, SamePromise, Touches
  <2> QED
    BY <1>1, <1>2, <2>4, <2>5 DEF Follows, Seen, Silent, Tracks, ChangesDisk
<1> QED
  BY <1>4, <1>5, <1>6 DEF Issue

\* The loop of Write goes on, or out to the commit.
LEMMA NextSegmentFollows ==
  ASSUME NEW S, NEW t \in Clients, Known(t, S), NextSegment(t), cmd[t].kind = "write", SegmentApplied(t),
         SameDisk(S), promised' = promised, cmds' = cmds
  PROVE  Follows(t, S)
<1> DEFINE c == cmd[t]
<1>1. /\ Start(t) /\ t \in Threads /\ PCShape /\ CmdShape /\ CmdRec(c) /\ CmdData(c) /\ cmds \in Nat
  BY StartKnown
<1>2. ChangesDisk(t) /\ pc[t] # "fail"
  BY DEF ChangesDisk, SegmentApplied
<1>3. CASE c.seg = LBAToSegmentID(c.end - 1)
  <2>1. pc'[t] = "commit" /\ cmd' = cmd
    BY <1>1, <1>3, GotoMoves DEF NextSegment
  <2>2. SegmentApplied(t)'
    BY <2>1 DEF SegmentApplied
  <2>3. Tracks(t)'
    BY <1>3, <2>1 DEF Tracks, LastSegment, Flushing
  <2> QED
    BY <1>1, <1>2, <2>1, <2>2, <2>3, SilentSame DEF Follows, Seen
<1>4. CASE c.seg # LBAToSegmentID(c.end - 1)
  <2>1. PICK d : d = [c EXCEPT !.seg = @ + 1]
    OBVIOUS
  <2>2. cmd'[t] = d /\ pc'[t] = "lock"
    BY <1>1, <1>4, <2>1, GotoMoves DEF NextSegment, CmdShape
  <2>3. SameCmd(c, d) /\ d.seg = c.seg + 1
    BY <1>1, <2>1 DEF CmdRec, SameCmd
  <2>4. Reached(t) = c.seg + 1 /\ Reached(t)' = d.seg
    BY <2>2 DEF Reached, SegmentApplied
  <2>5. Working(t) /\ Working(t)'
    BY <1>2, <2>2, <2>3 DEF Working, ChangesDisk, SameCmd
  <2>6. Silent(t, S)
    BY <1>1, <2>2, <2>3, <2>4, <2>5 DEF Silent, SamePromise
  <2>7. Tracks(t)'
    BY <2>2 DEF Tracks, Flushing
  <2> QED
    BY <2>6, <2>7 DEF Follows, Seen
<1> QED
  BY <1>3, <1>4

\* A write that meets an error.
LEMMA FailFollows ==
  ASSUME NEW S, NEW t \in Clients, cmd[t].kind = "write", pc[t] # "fail", pc'[t] = "fail",
         cmd' = cmd,
         promised' = promised, cmds' = cmds, cmds \in Nat, SameDisk(S)
  PROVE  Follows(t, S)
<1>1. GaveUp(t, S)
  BY DEF GaveUp, Working, ChangesDisk, SameCmd, SamePromise
<1>2. Tracks(t)'
  BY DEF Tracks, Flushing
<1> QED
  BY <1>1, <1>2 DEF Follows, Seen

\* Another local of a command is set.
LEMMA LocalFollows ==
  ASSUME NEW S, NEW t \in Clients, Known(t, S), cmd[t].kind \in {"write", "unmap"}, NEW d, cmd'[t] = d,
         SameCmd(cmd[t], d), d.seg = cmd[t].seg,
         pc[t] \notin {"fail", "idle", "fnext", "commit"} \union Flushing,
         pc'[t] \notin {"fail", "idle", "fnext", "commit"} \union Flushing,
         promised' = promised, cmds' = cmds, SameDisk(S), SegmentApplied(t)' <=> SegmentApplied(t)
  PROVE  Follows(t, S)
<1>1. Working(t) /\ Working(t)' /\ Reached(t)' = Reached(t)
  BY DEF Working, ChangesDisk, Reached, SameCmd
<1>2. Silent(t, S)
  BY <1>1, StartKnown DEF Silent, SamePromise
<1>3. Tracks(t)'
  BY DEF Tracks
<1> QED
  BY <1>2, <1>3 DEF Follows, Seen

\* The steps of a write before its segment is applied.
LEMMA WriteBeginFollows ==
  ASSUME NEW S, NEW t \in Clients, Known(t, S), cycles' = cycles, cycles \in Nat, DiskKept(t, S),
         RunEmergencyGC(t) \/ WriteLock(t) \/ WriteLog(t)
  PROVE  Follows(t, S)
<1> DEFINE c == cmd[t]
<1>1. /\ t \in Threads /\ PCShape /\ CmdShape /\ CmdRec(c) /\ Stage(t) /\ cmds \in Nat /\ SameDisk(S)
  BY StartKnown DEF DiskKept
<1>2. pc[t] \in {"check", "lock", "log"} /\ c.kind = "write"
  BY <1>1 DEF RunEmergencyGC, WriteLock, WriteLog, Stage
<1>3. promised' = promised /\ cmds' = cmds
  BY DEF RunEmergencyGC, WriteLock, WriteLog, cmdVars
<1>4. ASSUME NEW d, cmd'[t] = d, SameCmd(c, d), d.seg = c.seg, pc'[t] \in {"lock", "log", "set"}
      PROVE  Follows(t, S)
  <2>1. ~SegmentApplied(t) /\ ~SegmentApplied(t)'
    BY <1>2, <1>4 DEF SegmentApplied
  <2> QED
    BY <1>1, <1>2, <1>3, <1>4, <2>1, LocalFollows DEF Flushing
<1>5. SameCmd(c, c)
  BY DEF SameCmd
<1>6. ASSUME cmd' = cmd, pc'[t] = "fail"
      PROVE  Follows(t, S)
  BY <1>1, <1>2, <1>3, <1>6, FailFollows
<1>7. CASE RunEmergencyGC(t)
  <2>1. ~\E z \in Zones : SelectVictim(t, z, "check", "fail")
    <3>1. \A z \in Zones : SelectVictim(t, z, "check", "fail") => cycles' = cycles + 1
      BY DEF SelectVictim
    <3> QED
      BY <3>1
  <2>2. cmd' = cmd /\ \E x \in {"lock", "fail"} : Goto(t, x)
    BY <1>7, <2>1 DEF RunEmergencyGC, cmdVars
  <2>3. pc'[t] \in {"lock", "fail"}
    BY <1>1, <2>2, GotoMoves
  <2> QED
    BY <1>4, <1>5, <1>6, <2>2, <2>3
<1>8. CASE WriteLock(t)
  <2>1. \/ Goto(t, "log") /\ \E z : cmd' = [cmd EXCEPT ![t].zone = z]
        \/ Goto(t, "fail") /\ cmd' = cmd
    BY <1>8 DEF WriteLock
  <2>2. ASSUME NEW z, Goto(t, "log"), cmd' = [cmd EXCEPT ![t].zone = z]
        PROVE  Follows(t, S)
    <3>1. PICK d : d = [c EXCEPT !.zone = z]
      OBVIOUS
    <3>2. cmd'[t] = d /\ pc'[t] = "log"
      BY <1>1, <2>2, <3>1, GotoMoves DEF CmdShape
    <3>3. SameCmd(c, d) /\ d.seg = c.seg
      BY <1>1, <3>1 DEF CmdRec, SameCmd
    <3> QED
      BY <1>4, <3>2, <3>3
  <2>3. ASSUME Goto(t, "fail"), cmd' = cmd
        PROVE  Follows(t, S)
    BY <1>1, <1>6, <2>3, GotoMoves
  <2> QED
    BY <2>1, <2>2, <2>3
<1>9. CASE WriteLog(t)
  <2>1. Goto(t, "set") /\ \E w, old, new : cmd' = [cmd EXCEPT ![t].wp = w, ![t].old = old, ![t].new = new]
    BY <1>9 DEF WriteLog
  <2>2. PICK w, old, new : cmd' = [cmd EXCEPT ![t].wp = w, ![t].old = old, ![t].new = new]
    BY <2>1
  <2>3. PICK d : d = [c EXCEPT !.wp = w, !.old = old, !.new = new]
    OBVIOUS
  <2>4. cmd'[t] = d /\ pc'[t] = "set"
    BY <1>1, <2>1, <2>2, <2>3, GotoMoves DEF CmdShape
  <2>5. SameCmd(c, d) /\ d.seg = c.seg
    BY <1>1, <2>3 DEF CmdRec, SameCmd
  <2> QED
    BY <1>4, <2>4, <2>5
<1> QED
  BY <1>7, <1>8, <1>9

\* The segment is applied.
LEMMA SetL2PFollows ==
  ASSUME NEW S, NEW t \in Clients, Known(t, S), SetL2P(t), Contains(zm.free, 0)
  PROVE  Follows(t, S)
<1> DEFINE c == cmd[t]
<1>1. /\ t \in Threads /\ PCShape /\ Stage(t) /\ cmds \in Nat
  BY StartKnown
<1>2. /\ pc[t] = "set" /\ cmd' = cmd /\ promised' = promised /\ cmds' = cmds
      /\ Goto(t, IF c.kind = "write" THEN "maps" ELSE "umaps")
  BY DEF SetL2P, cmdVars
<1>3. pc'[t] \in {"maps", "umaps"} /\ c.kind \in {"write", "unmap"}
  BY <1>1, <1>2, GotoMoves DEF Stage
<1>4. Working(t) /\ Working(t)' /\ SameCmd(c, cmd'[t])
  BY <1>2, <1>3 DEF Working, ChangesDisk, SameCmd
<1>5. Reached(t) = c.seg /\ Reached(t)' = c.seg + 1
  BY <1>2, <1>3 DEF Reached, SegmentApplied
<1>6. SegmentSet(t, S)
  <2>1. PICK R : R = Grown(t, S)
    OBVIOUS
  <2>2. AtRest(R)' /\ R \subseteq LBAs
    BY <2>1, SetL2PDisk DEF Known, Grown
  <2> QED
    BY <1>5, <2>1, <2>2, SetL2PDisk DEF SegmentSet
<1>7. Applied(t, S)
  BY <1>1, <1>2, <1>4, <1>5, <1>6 DEF Applied, SamePromise
<1>8. Tracks(t)'
  BY <1>3 DEF Tracks, Flushing
<1> QED
  BY <1>7, <1>8 DEF Follows, Seen

\* The steps of a write after its segment has been applied.
LEMMA WriteEndFollows ==
  ASSUME NEW S, NEW t \in Clients, Known(t, S), DiskKept(t, S), WriteMaps(t) \/ WriteAdd(t) \/ WriteRelock(t)
  PROVE  Follows(t, S)
<1> DEFINE c == cmd[t]
<1>1. /\ t \in Threads /\ PCShape /\ FlShape /\ Stage(t) /\ cmds \in Nat /\ SameDisk(S)
  BY StartKnown DEF DiskKept
<1>2. pc[t] \in {"maps", "add", "relock"} /\ c.kind = "write"
  BY <1>1 DEF WriteMaps, WriteAdd, WriteRelock, Stage
<1>3. promised' = promised /\ cmds' = cmds
  BY DEF WriteMaps, WriteAdd, WriteRelock, cmdVars
<1>4. SegmentApplied(t) /\ ChangesDisk(t)
  BY <1>2 DEF SegmentApplied, ChangesDisk
<1>5. ASSUME NextSegment(t) PROVE Follows(t, S)
  BY <1>1, <1>2, <1>3, <1>4, <1>5, NextSegmentFollows
<1>6. CASE WriteMaps(t)
  <2>1. pc'[t] = "add" /\ cmd' = cmd
    BY <1>1, <1>6, GotoMoves DEF WriteMaps, cmdVars
  <2>2. SegmentApplied(t)' /\ Tracks(t)'
    BY <2>1 DEF SegmentApplied, Tracks, Flushing
  <2> QED
    BY <1>1, <1>2, <1>3, <1>4, <2>1, <2>2, SilentSame DEF Follows, Seen
<1>7. CASE WriteAdd(t)
  <2>1. CASE NewWP(c) >= zoneEndLBA(c.zone)
    <3>1. /\ fl' = [fl EXCEPT ![t] = [NoFlush EXCEPT !.zone = c.zone, !.ret = "relock"]]
          /\ Goto(t, "ftake") /\ cmd' = cmd
      BY <1>7, <2>1 DEF WriteAdd
    <3>2. PICK f : f = [NoFlush EXCEPT !.zone = c.zone, !.ret = "relock"]
      OBVIOUS
    <3>3. f.ret = "relock"
      BY <3>2 DEF NoFlush
    <3>4. fl'[t] = f /\ pc'[t] = "ftake"
      BY <1>1, <3>1, <3>2, GotoMoves DEF FlShape
    <3>5. SegmentApplied(t)' /\ Tracks(t)'
      BY <3>3, <3>4 DEF SegmentApplied, Tracks, Flushing
    <3> QED
      BY <1>1, <1>2, <1>3, <1>4, <3>1, <3>4, <3>5, SilentSame DEF Follows, Seen
  <2>2. CASE ~(NewWP(c) >= zoneEndLBA(c.zone))
    BY <1>5, <1>7, <2>2 DEF WriteAdd
  <2> QED
    BY <2>1, <2>2
<1>8. CASE WriteRelock(t)
  <2>1. CASE fl[t].err
    <3>1. pc'[t] = "fail" /\ cmd' = cmd
      BY <1>1, <1>8, <2>1, GotoMoves DEF WriteRelock
    <3> QED
      BY <1>1, <1>2, <1>3, <3>1, FailFollows
  <2>2. CASE ~fl[t].err
    BY <1>5, <1>8, <2>2 DEF WriteRelock
  <2> QED
    BY <2>1, <2>2
<1> QED
  BY <1>6, <1>7, <1>8

\* The loop of Unmap goes on, or the command returns.
LEMMA NextUnmapFollows ==
  ASSUME NEW S, NEW t \in Clients, Known(t, S), NextUnmap(t), cmd[t].kind = "unmap", pc[t] # "fail",
         cmds' = cmds,
         \/ SegmentApplied(t) /\ SameDisk(S)
         \/ ~SegmentApplied(t) /\ SegmentSet(t, S)
  PROVE  Follows(t, S)
<1> DEFINE c == cmd[t]
<1>1. /\ t \in Threads /\ PCShape /\ CmdShape /\ CmdRec(c) /\ cmds \in Nat
  BY StartKnown
<1>2. Working(t)
  BY DEF Working, ChangesDisk
<1>3. CASE c.seg = LBAToSegmentID(c.end - 1)
  <2>1. cmd'[t] = NoCmd /\ pc'[t] = "idle" /\ promised' = Promise(t)
    BY <1>1, <1>3, GotoMoves DEF NextUnmap, End, CmdShape
  <2>2. \A a \in LBAs : promised'[a] = Promise(t)[a]
    BY <2>1
  <2>3. IF SegmentApplied(t) THEN Reached(t) = LastSegment(c) + 1
        ELSE Reached(t) = LastSegment(c) /\ Reached(t) = c.seg
    BY <1>3 DEF Reached, LastSegment
  <2>4. Returned(t, S)
    BY <1>1, <1>2, <2>1, <2>2, <2>3 DEF Returned
  <2>5. Tracks(t)'
    BY <2>1 DEF Tracks, NoCmd, Flushing
  <2> QED
    BY <2>4, <2>5 DEF Follows, Seen
<1>4. CASE c.seg # LBAToSegmentID(c.end - 1)
  <2>1. PICK d : d = [c EXCEPT !.seg = @ + 1]
    OBVIOUS
  <2>2. cmd'[t] = d /\ pc'[t] = "ulog" /\ promised' = promised
    BY <1>1, <1>4, <2>1, GotoMoves DEF NextUnmap, CmdShape
  <2>3. SameCmd(c, d) /\ d.seg = c.seg + 1
    BY <1>1, <2>1 DEF CmdRec, SameCmd
  <2>4. Working(t)' /\ Reached(t)' = c.seg + 1 /\ Tracks(t)'
    BY <2>2, <2>3 DEF Working, ChangesDisk, SameCmd, Reached, SegmentApplied, Tracks, Flushing
  <2>5. CASE SegmentApplied(t) /\ SameDisk(S)
    <3>1. Reached(t) = c.seg + 1
      BY <2>5 DEF Reached
    <3> QED
      BY <1>1, <1>2, <2>2, <2>3, <2>4, <2>5, <3>1 DEF Follows, Seen, Silent, SamePromise
  <2>6. CASE ~SegmentApplied(t) /\ SegmentSet(t, S)
    <3>1. Reached(t) = c.seg
      BY <2>6 DEF Reached
    <3>2. Applied(t, S)
      BY <1>1, <1>2, <2>2, <2>3, <2>4, <2>6, <3>1 DEF Applied, SamePromise
    <3> QED
      BY <2>4, <3>2 DEF Follows, Seen
  <2> QED
    BY <2>5, <2>6
<1> QED
  BY <1>3, <1>4

\* The steps of an unmap.  A segment that is not mapped holds zeros already.
LEMMA UnmapFollows ==
  ASSUME NEW S, NEW t \in Clients, Known(t, S), DiskKept(t, S), UnmapLock(t) \/ UnmapLog(t) \/ UnmapMaps(t)
  PROVE  Follows(t, S)
<1> DEFINE c == cmd[t]
<1>1. /\ t \in Threads /\ PCShape /\ CmdShape /\ CmdRec(c) /\ Stage(t) /\ cmds \in Nat /\ SameDisk(S)
      /\ Ranged(c)
  BY StartKnown DEF DiskKept
<1>2. pc[t] \in {"ulock", "ulog", "umaps"} /\ c.kind = "unmap" /\ cmds' = cmds
  BY <1>1 DEF UnmapLock, UnmapLog, UnmapMaps, Stage
<1>3. ASSUME NEW d, cmd'[t] = d, SameCmd(c, d), d.seg = c.seg, pc[t] # "umaps",
             pc'[t] \in {"ulog", "set"}, promised' = promised
      PROVE  Follows(t, S)
  <2>1. ~SegmentApplied(t) /\ ~SegmentApplied(t)'
    BY <1>2, <1>3 DEF SegmentApplied
  <2> QED
    BY <1>1, <1>2, <1>3, <2>1, LocalFollows DEF Flushing
<1>4. CASE UnmapLock(t)
  <2>1. pc[t] = "ulock" /\ pc'[t] = "ulog" /\ cmd' = cmd /\ promised' = promised
    BY <1>1, <1>4, GotoMoves DEF UnmapLock
  <2> QED
    BY <1>3, <2>1 DEF SameCmd
<1>5. CASE UnmapLog(t)
  <2>1. pc[t] = "ulog"
    BY <1>5 DEF UnmapLog
  <2>0. L2PGet(l2p, c.seg) = l2p[c.seg]
    BY <1>1, <1>2, SegmentInTable DEF L2PGet, Known, WholeRequests
  <2>2. CASE IsUnmapped(l2p[c.seg])
    <3>1. NextUnmap(t)
      BY <1>5, <2>0, <2>2 DEF UnmapLog
    <3>2. ~SegmentApplied(t)
      BY <2>1 DEF SegmentApplied
    <3>3. Reached(t) = c.seg
      BY <3>2 DEF Reached
    <3>4. \A a \in LBAs : Sector(a) = Shows(t, a)
      BY KnownParts
    <3>5. \A a \in LBAs : LBAToSegmentID(a) = c.seg => Sector(a) = Zero
      BY <2>2, <3>4 DEF Shows
    <3>6. \A a \in LBAs : Stamp(c, a) = Zero
      BY <1>2 DEF Stamp
    <3>7. SegmentSet(t, S)
      <4>1. PICK R : R = Grown(t, S)
        OBVIOUS
      <4>2. AtRest(S)' /\ l2p' = l2p /\ S \subseteq LBAs
        BY <1>5 DEF DiskKept, UnmapLog, Known
      <4>3. AtRest(R)'
        BY <2>2, <4>1, <4>2 DEF AtRest, Grown, IsUnmapped
      <4>4. \A a \in LBAs : Sector(a)' = Shows(t, a)'
        BY KnownParts
      <4>5. \A a \in LBAs : LBAToSegmentID(a) = c.seg => Sector(a)' = Zero
        BY <2>2, <4>2, <4>4 DEF Shows
      <4> QED
        BY <1>1, <3>3, <3>5, <3>6, <4>1, <4>2, <4>3, <4>5 DEF SegmentSet, SameDisk, Grown
    <3> QED
      BY <1>2, <3>1, <3>2, <3>7, NextUnmapFollows
  <2>3. CASE ~IsUnmapped(l2p[c.seg])
    <3>1. /\ cmd' = [cmd EXCEPT ![t].old = l2p[c.seg], ![t].new = Unmapped]
          /\ Goto(t, "set") /\ promised' = promised
      BY <1>5, <2>0, <2>3 DEF UnmapLog
    <3>2. PICK d : d = [c EXCEPT !.old = l2p[c.seg], !.new = Unmapped]
      OBVIOUS
    <3>3. cmd'[t] = d /\ pc'[t] = "set"
      BY <1>1, <3>1, <3>2, GotoMoves DEF CmdShape
    <3>4. SameCmd(c, d) /\ d.seg = c.seg
      BY <1>1, <3>2 DEF CmdRec, SameCmd
    <3> QED
      BY <1>3, <2>1, <3>1, <3>3, <3>4
  <2> QED
    BY <2>2, <2>3
<1>6. CASE UnmapMaps(t)
  <2>1. pc[t] = "umaps" /\ NextUnmap(t)
    BY <1>6 DEF UnmapMaps
  <2>2. SegmentApplied(t)
    BY <2>1 DEF SegmentApplied
  <2> QED
    BY <1>1, <1>2, <2>1, <2>2, NextUnmapFollows
<1> QED
  BY <1>4, <1>5, <1>6

\* A command ends.
LEMMA EndFollows ==
  ASSUME NEW S, NEW t \in Clients, Known(t, S), Tracks(t), DiskKept(t, S), FlushDone(t) \/ Commit(t) \/ Fail(t)
  PROVE  Follows(t, S)
<1> DEFINE c == cmd[t]
<1>1. /\ t \in Threads /\ PCShape /\ CmdShape /\ Stage(t) /\ cmds \in Nat /\ SameDisk(S)
  BY StartKnown DEF DiskKept
<1>2. cmds' = cmds
  BY DEF FlushDone, Commit, Fail, cmdVars
<1>3. CASE FlushDone(t)
  <2>1. /\ pc[t] = "fnext" /\ cmd' = cmd /\ promised' = promised
        /\ \E x \in {"fail", "commit"} : Goto(t, x)
    BY <1>3 DEF FlushDone, cmdVars
  <2>2. c.kind = "flush" /\ pc'[t] \in {"fail", "commit"}
    BY <1>1, <2>1, GotoMoves DEF Tracks
  <2>3. Tracks(t)'
    BY <2>1, <2>2 DEF Tracks, Flushing
  <2> QED
    BY <1>1, <1>2, <2>1, <2>2, <2>3, SilentFlush DEF Follows, Seen
<1>4. CASE Commit(t) \/ Fail(t)
  <2>1. cmd'[t] = NoCmd /\ pc'[t] = "idle"
    BY <1>1, <1>4, GotoMoves DEF Commit, Fail, End, CmdShape
  <2>2. Tracks(t)' /\ ~ChangesDisk(t)'
    BY <2>1 DEF Tracks, NoCmd, Flushing, ChangesDisk
  <2>3. CASE ~ChangesDisk(t)
    <3>1. SamePromise
      <4>1. \A a \in LBAs : ~Touches(c, a)
        BY <2>3 DEF Touches, ChangesDisk
      <4> QED
        BY <1>4, <4>1 DEF Commit, Fail, Promise, SamePromise
    <3> QED
      BY <1>1, <1>2, <2>2, <2>3, <3>1 DEF Follows, Seen, Silent
  <2>4. CASE ChangesDisk(t) /\ Commit(t)
    <3>1. pc[t] = "commit" /\ promised' = Promise(t)
      BY <2>4 DEF Commit
    <3>2. c.seg = LastSegment(c)
      BY <2>4, <3>1 DEF Tracks, ChangesDisk
    <3>3. Working(t) /\ Reached(t) = LastSegment(c) + 1
      BY <2>4, <3>1, <3>2 DEF Working, Reached, SegmentApplied
    <3>4. Returned(t, S)
      BY <1>1, <1>2, <2>1, <3>1, <3>3 DEF Returned
    <3> QED
      BY <2>2, <3>4 DEF Follows, Seen
  <2>5. CASE ChangesDisk(t) /\ Fail(t)
    <3>1. pc[t] = "fail" /\ promised' = promised
      BY <2>5 DEF Fail
    <3> QED
      BY <1>1, <1>2, <2>1, <2>2, <2>5, <3>1 DEF Follows, Seen, ReturnedError, SamePromise
  <2> QED
    BY <1>4, <2>3, <2>4, <2>5
<1> QED
  BY <1>3, <1>4

-----------------------------------------------------------------------------
(* What has been promised, and the disk *)

\* The disk shows something that has been promised, by a command that began.
Shown(S) ==
  /\ \A a \in S : \E m \in promised[a] : m[2] = Sector(a)
  /\ \A a \in LBAs : \A m \in promised[a] : m[1] \in Int /\ m[1] <= cmds

\* What a write or unmap leaves is promised from its call on, nobody had
\* promised it before, and the disk shows it up to where the command is.
Kept(t, S) ==
  \A a \in LBAs : Touches(cmd[t], a) =>
    /\ Mark(cmd[t], a) \in promised[a] /\ Mark(cmd[t], a) \notin cmd[t].before[a]
    /\ Working(t) /\ LBAToSegmentID(a) < Reached(t) => a \in S /\ Sector(a) = Stamp(cmd[t], a)

LEMMA SegmentsOrdered ==
  ASSUME NEW a \in Nat, NEW b \in Nat, a <= b
  PROVE  /\ LBAToSegmentID(a) \in Nat /\ LBAToSegmentID(b) \in Nat
         /\ LBAToSegmentID(a) <= LBAToSegmentID(b)
<1>1. PICK k \in Nat : k = SectorsPerSeg /\ k > 0
  BY MappingAssumption
<1>2. a \div k \in Nat /\ b \div k \in Nat /\ b < k * (b \div k) + k
  BY <1>1, Quotient
<1>3. PICK q \in Nat : q = b \div k
  BY <1>2
<1>4. k * q + k = (q + 1) * k /\ k * q \in Nat
  BY <1>3
<1>5. a < (q + 1) * k
  BY <1>2, <1>3, <1>4
<1>6. a \div k < q + 1
  BY <1>1, <1>5, Quotient
<1> QED
  BY <1>1, <1>2, <1>3, <1>6 DEF LBAToSegmentID

\* The segments of a request's sectors.
LEMMA TouchedSegments ==
  ASSUME WholeRequests, NEW c, NEW req \in Requests, c.lba = req[1], c.end = req[1] + req[2],
         NEW a \in LBAs, Touches(c, a)
  PROVE  /\ LBAToSegmentID(a) \in Nat /\ LBAToSegmentID(c.lba) \in Nat /\ LastSegment(c) \in Nat
         /\ LBAToSegmentID(c.lba) <= LBAToSegmentID(a) /\ LBAToSegmentID(a) <= LastSegment(c)
<1>1. req[1] \in Nat /\ req[2] \in Nat \ {0} /\ a \in Nat
  BY ZTLAssumption, LBASegment
<1>2. c.lba \in Nat /\ c.end - 1 \in Nat /\ c.lba <= a /\ a <= c.end - 1
  BY <1>1 DEF Touches
<1> QED
  BY <1>1, <1>2, SegmentsOrdered DEF LastSegment

\* The marks of two commands that agree in kind and number.
LEMMA SameMarks ==
  ASSUME NEW c, NEW d, SameCmd(c, d)
  PROVE  \A a : Touches(d, a) = Touches(c, a) /\ Mark(d, a) = Mark(c, a) /\ Stamp(d, a) = Stamp(c, a)
  BY DEF SameCmd, Touches, Mark, Stamp

\* Nothing is outstanding.
LEMMA NoneKept ==
  ASSUME NEW S, NEW t, ~ChangesDisk(t)'
  PROVE  Kept(t, S)'
  BY DEF Kept, Touches, ChangesDisk

\* What is promised does not change, nor what is shown.
LEMMA ShownFrame ==
  ASSUME NEW S, S \subseteq LBAs, Shown(S), SamePromise, SameDisk(S), cmds \in Int, cmds' \in Int, cmds' >= cmds
  PROVE  Shown(S)'
<1>1. \A m : m[1] \in Int /\ m[1] <= cmds => m[1] <= cmds'
  OBVIOUS
<1> QED
  BY <1>1 DEF Shown, SamePromise, SameDisk

\* A command is called: its number is new.
LEMMA CalledKeeps ==
  ASSUME WholeRequests, NEW S, S \subseteq LBAs, NEW t \in Clients, Shown(S), Called(t, S),
         cmds \in Nat
  PROVE  Shown(S)' /\ Kept(t, S)'
<1>1. PICK c : c = cmd'[t]
  OBVIOUS
<1>2. PICK req \in Requests : c.lba = req[1] /\ c.end = req[1] + req[2]
  BY <1>1 DEF Called
<1>3. /\ cmds' = cmds + 1 /\ c.id = cmds + 1 /\ Reached(t)' = LBAToSegmentID(c.lba) /\ SameDisk(S)
      /\ \A a \in LBAs :
           /\ c.before[a] \subseteq promised[a]
           /\ promised'[a] = IF Touches(c, a) THEN promised[a] \union {Mark(c, a)} ELSE promised[a]
  BY <1>1 DEF Called
<1>4. \A a : Mark(c, a)[1] = cmds + 1
  BY <1>3 DEF Mark
<1>5. ASSUME NEW a \in LBAs
      PROVE  /\ a \in S => \E m \in promised'[a] : m[2] = Sector(a)'
             /\ \A m \in promised'[a] : m[1] \in Int /\ m[1] <= cmds'
  <2>1. \A m \in promised[a] : m[1] \in Int /\ m[1] <= cmds + 1
    BY DEF Shown
  <2>2. a \in S => \E m \in promised[a] : m[2] = Sector(a)'
    BY <1>3 DEF Shown, SameDisk
  <2>3. promised[a] \subseteq promised'[a] /\ promised'[a] \subseteq promised[a] \union {Mark(c, a)}
    BY <1>3
  <2>4. ASSUME NEW m \in promised'[a]
        PROVE  m[1] \in Int /\ m[1] <= cmds'
    <3>1. CASE m \in promised[a]
      BY <1>3, <2>1, <3>1
    <3>2. CASE m = Mark(c, a)
      BY <1>3, <1>4, <3>2
    <3> QED
      BY <2>3, <3>1, <3>2
  <2> QED
    BY <2>2, <2>3, <2>4
<1>6. ASSUME NEW a \in LBAs, Touches(c, a)
      PROVE  /\ Mark(c, a) \in promised'[a] /\ Mark(c, a) \notin c.before[a]
             /\ ~(LBAToSegmentID(a) < Reached(t)')
  <2>1. Mark(c, a) \notin promised[a]
    <3>1. \A m \in promised[a] : m[1] \in Int /\ m[1] <= cmds
      BY DEF Shown
    <3> QED
      BY <1>4, <3>1
  <2>2. /\ LBAToSegmentID(a) \in Nat /\ LBAToSegmentID(c.lba) \in Nat
        /\ LBAToSegmentID(c.lba) <= LBAToSegmentID(a)
    BY <1>2, <1>6, TouchedSegments
  <2>3. Mark(c, a) \in promised'[a] /\ c.before[a] \subseteq promised[a]
    BY <1>3, <1>6
  <2>4. ~(LBAToSegmentID(a) < LBAToSegmentID(c.lba))
    BY <2>2
  <2> QED
    BY <1>3, <2>1, <2>3, <2>4
<1>7. Shown(S)'
  BY <1>5 DEF Shown
<1>8. Kept(t, S)'
  BY <1>1, <1>6 DEF Kept
<1> QED
  BY <1>7, <1>8

\* R is what S becomes: all that a command touches is in it when the command
\* returns, and what joins S is of the segment that the step applies.
Joins(t, S, R) ==
  /\ S \subseteq R /\ R \subseteq LBAs
  /\ Returned(t, S) => \A a \in LBAs : Touches(cmd[t], a) => a \in R
  /\ \A a \in R : \/ a \in S
                  \/ /\ LBAToSegmentID(a) = cmd[t].seg /\ Reached(t) = cmd[t].seg
                     /\ Applied(t, S) \/ Returned(t, S)

KeptIn(t, S, R) == Joins(t, S, R) /\ AtRest(R)' /\ Shown(R)' /\ Kept(t, R)'

\* A segment is applied, or the command returns.

LEMMA SegmentKeeps ==
  ASSUME NEW S, NEW t \in Clients, Known(t, S), Shown(S), Kept(t, S), AtRest(S)',
         Applied(t, S) \/ Returned(t, S), cmds' \in Int
  PROVE  \E R : KeptIn(t, S, R)
<1> DEFINE c == cmd[t]
<1>1. CmdData(c) /\ Ranged(c) /\ cmds \in Nat /\ WholeRequests /\ S \subseteq LBAs
  BY StartKnown DEF Known
<1>2. Working(t) /\ c.kind \in {"write", "unmap"} /\ cmds' >= cmds
  BY DEF Applied, Returned, Working, ChangesDisk
<1>3. PICK req \in Requests : c.lba = req[1] /\ c.end = req[1] + req[2]
  BY <1>1, <1>2 DEF Ranged
<1>4. \A a \in LBAs : LBAToSegmentID(a) = c.seg => Touches(c, a)
  BY <1>1, <1>2, WholePart DEF Touches
<1>5. ASSUME NEW a \in LBAs, Touches(c, a)
      PROVE  /\ Mark(c, a) \in promised[a] /\ Mark(c, a) \notin c.before[a]
             /\ LBAToSegmentID(a) < Reached(t) => a \in S /\ Sector(a) = Stamp(c, a)
             /\ Mark(c, a)[2] = Stamp(c, a)
  BY <1>2, <1>5 DEF Kept, Mark
<1>6. \A a \in LBAs : \A m \in promised[a] : m[1] \in Int /\ m[1] <= cmds'
  <2>1. \A a \in LBAs : \A m \in promised[a] : m[1] \in Int /\ m[1] <= cmds
    BY DEF Shown
  <2> QED
    BY <1>1, <1>2, <2>1
<1>7. \A a \in LBAs : Touches(c, a) => LBAToSegmentID(a) \in Nat /\ LastSegment(c) \in Nat
                                         /\ LBAToSegmentID(a) <= LastSegment(c)
  BY <1>1, <1>3, TouchedSegments
<1>8. c.seg \in Nat
  BY <1>1 DEF CmdData
<1>9. CASE Applied(t, S)
  <2>1. /\ SameCmd(c, cmd'[t]) /\ SamePromise /\ Reached(t) = c.seg
        /\ Reached(t)' = Reached(t) + 1 /\ SegmentSet(t, S)
    BY <1>9 DEF Applied
  <2>2. PICK R : /\ R = Grown(t, S) /\ AtRest(R)'
                 /\ \A a \in R : Sector(a)' = IF LBAToSegmentID(a) = c.seg THEN Stamp(c, a)
                                              ELSE Sector(a)
    BY <2>1 DEF SegmentSet
  <2>3. /\ S \subseteq R /\ R \subseteq LBAs /\ \A a \in R : LBAToSegmentID(a) # c.seg => a \in S
        /\ \A a \in LBAs : LBAToSegmentID(a) = c.seg => a \in R
    BY <1>1, <2>2 DEF Grown
  <2>4. Shown(R)'
    <3>1. ASSUME NEW a \in R
          PROVE  \E m \in promised[a] : m[2] = Sector(a)'
      <4>1. CASE LBAToSegmentID(a) = c.seg
        BY <1>4, <1>5, <2>2, <2>3, <4>1
      <4>2. CASE LBAToSegmentID(a) # c.seg
        BY <2>2, <2>3, <4>2 DEF Shown
      <4> QED
        BY <4>1, <4>2
    <3> QED
      BY <1>6, <2>1, <2>3, <3>1 DEF Shown, SamePromise
  <2>5. Kept(t, R)'
    <3>1. PICK d : d = cmd'[t]
      OBVIOUS
    <3>2. \A a : Touches(d, a) = Touches(c, a) /\ Mark(d, a) = Mark(c, a) /\ Stamp(d, a) = Stamp(c, a)
      BY <2>1, <3>1, SameMarks
    <3>3. d.before = c.before
      BY <2>1, <3>1 DEF SameCmd
    <3>4. ASSUME NEW a \in LBAs, Touches(d, a)
          PROVE  /\ Mark(d, a) \in promised'[a] /\ Mark(d, a) \notin d.before[a]
                 /\ LBAToSegmentID(a) < Reached(t)' => a \in R /\ Sector(a)' = Stamp(d, a)
      <4>1. Mark(d, a) \in promised'[a] /\ Mark(d, a) \notin d.before[a]
        BY <1>5, <2>1, <3>2, <3>3, <3>4 DEF SamePromise
      <4>2. CASE LBAToSegmentID(a) = c.seg
        BY <2>2, <2>3, <3>2, <4>1, <4>2
      <4>3. CASE LBAToSegmentID(a) # c.seg
        <5>1. LBAToSegmentID(a) < Reached(t)' => LBAToSegmentID(a) < Reached(t)
          BY <1>7, <1>8, <2>1, <3>2, <3>4, <4>3
        <5> QED
          BY <1>5, <2>2, <2>3, <3>2, <3>4, <4>1, <4>3, <5>1
      <4> QED
        BY <4>2, <4>3
    <3> QED
      BY <3>1, <3>4 DEF Kept
  <2>6. ~Returned(t, S)
    <3>1. Working(t)'
      BY <1>9 DEF Applied
    <3> QED
      BY <3>1 DEF Returned, Working, ChangesDisk, NoCmd
  <2> QED
    BY <1>9, <2>1, <2>2, <2>3, <2>4, <2>5, <2>6 DEF KeptIn, Joins
<1>10. CASE Returned(t, S)
  <2>1. ~ChangesDisk(t)'
    BY <1>10 DEF Returned, ChangesDisk, NoCmd
  <2>2. \A a \in LBAs : promised'[a] = IF Touches(c, a) THEN promised[a] \ c.before[a] ELSE promised[a]
    BY <1>10 DEF Returned, Promise
  <2>3. PICK R : /\ S \subseteq R /\ R \subseteq LBAs /\ AtRest(R)'
                 /\ \A a \in R : Touches(c, a) \/ a \in S
                 /\ \A a \in LBAs : Touches(c, a) => a \in R
                 /\ \A a \in R : Sector(a)' = IF Touches(c, a) THEN Stamp(c, a) ELSE Sector(a)
                 /\ \A a \in R : a \in S \/ (LBAToSegmentID(a) = c.seg /\ Reached(t) = c.seg)
    <3>1. CASE Reached(t) = LastSegment(c) + 1 /\ SameDisk(S)
      <4>1. ASSUME NEW a \in LBAs, Touches(c, a)
            PROVE  a \in S /\ Sector(a) = Stamp(c, a)
        BY <1>5, <1>7, <3>1, <4>1
      <4> QED
        BY <1>1, <3>1, <4>1 DEF SameDisk
    <3>2. CASE Reached(t) = c.seg /\ Reached(t) = LastSegment(c) /\ SegmentSet(t, S)
      <4>1. PICK R : /\ R = Grown(t, S) /\ AtRest(R)'
                     /\ \A a \in R : Sector(a)' = IF LBAToSegmentID(a) = c.seg THEN Stamp(c, a)
                                                  ELSE Sector(a)
        BY <3>2 DEF SegmentSet
      <4>2. ASSUME NEW a \in LBAs, Touches(c, a), LBAToSegmentID(a) # c.seg
            PROVE  a \in S /\ Sector(a) = Stamp(c, a)
        BY <1>5, <1>7, <3>2, <4>2
      <4>3. /\ S \subseteq R /\ R \subseteq LBAs /\ \A a \in R : LBAToSegmentID(a) # c.seg => a \in S
            /\ \A a \in LBAs : LBAToSegmentID(a) = c.seg => a \in R
        BY <1>1, <4>1 DEF Grown
      <4>4. \A a \in LBAs : Touches(c, a) => a \in R
        BY <4>2, <4>3
      <4>5. \A a \in R : Sector(a)' = IF Touches(c, a) THEN Stamp(c, a) ELSE Sector(a)
        BY <1>4, <4>1, <4>2, <4>3
      <4>6. \A a \in R : Touches(c, a) \/ a \in S
        BY <1>4, <4>3
      <4> QED
        BY <3>2, <4>1, <4>3, <4>4, <4>5, <4>6
    <3> QED
      BY <1>10, <3>1, <3>2 DEF Returned
  <2>4. Shown(R)'
    <3>1. ASSUME NEW a \in LBAs
          PROVE  \A m \in promised'[a] : m[1] \in Int /\ m[1] <= cmds'
      <4>1. promised'[a] \subseteq promised[a]
        BY <2>2
      <4> QED
        BY <1>6, <4>1
    <3>2. ASSUME NEW a \in R
          PROVE  \E m \in promised'[a] : m[2] = Sector(a)'
      <4>1. CASE Touches(c, a)
        BY <1>5, <2>2, <2>3, <4>1
      <4>2. CASE ~Touches(c, a)
        <5>1. promised'[a] = promised[a] /\ Sector(a)' = Sector(a) /\ a \in S
          BY <2>2, <2>3, <4>2
        <5> QED
          BY <5>1 DEF Shown
      <4> QED
        BY <4>1, <4>2
    <3> QED
      BY <3>1, <3>2 DEF Shown
  <2>5. Kept(t, R)'
    BY <2>1, NoneKept
  <2> QED
    BY <1>10, <2>3, <2>4, <2>5 DEF KeptIn, Joins
<1> QED
  BY <1>9, <1>10

\* Every step.
LEMMA SeenKeeps ==
  ASSUME NEW S, NEW t \in Clients, Known(t, S), Shown(S), Kept(t, S), Seen(t, S), AtRest(S)',
         cmds' \in Int
  PROVE  \E R : KeptIn(t, S, R)
<1>1. cmds \in Nat /\ S \subseteq LBAs /\ WholeRequests
  BY StartKnown DEF Known
<1> SUFFICES ASSUME ~Applied(t, S), ~Returned(t, S)
             PROVE  Shown(S)' /\ Kept(t, S)'
  BY <1>1, SegmentKeeps DEF KeptIn, Joins
<1>2. ASSUME SameDisk(S), SamePromise, SameCmd(cmd[t], cmd'[t]),
             Working(t)' => Working(t) /\ Reached(t)' = Reached(t)
      PROVE  Kept(t, S)'
  <2>1. PICK d : d = cmd'[t]
    OBVIOUS
  <2>2. \A a : /\ Touches(d, a) = Touches(cmd[t], a) /\ Mark(d, a) = Mark(cmd[t], a)
               /\ Stamp(d, a) = Stamp(cmd[t], a)
    BY <1>2, <2>1, SameMarks
  <2>3. d.before = cmd[t].before
    BY <1>2, <2>1 DEF SameCmd
  <2>4. ASSUME NEW a \in LBAs, Touches(d, a)
        PROVE  /\ Mark(d, a) \in promised'[a] /\ Mark(d, a) \notin d.before[a]
               /\ Working(t)' /\ LBAToSegmentID(a) < Reached(t)' => a \in S /\ Sector(a)' = Stamp(d, a)
    BY <1>2, <2>2, <2>3, <2>4 DEF Kept, SamePromise, SameDisk
  <2> QED
    BY <2>1, <2>4 DEF Kept
<1>3. CASE Silent(t, S)
  <2>1. Shown(S)'
    BY <1>1, <1>3, ShownFrame DEF Silent
  <2>2. Kept(t, S)'
    BY <1>2, <1>3, NoneKept DEF Silent
  <2> QED
    BY <2>1, <2>2
<1>4. CASE GaveUp(t, S)
  <2>1. Shown(S)'
    BY <1>1, <1>4, ShownFrame DEF GaveUp
  <2>2. ~Working(t)'
    BY <1>4 DEF GaveUp, Working
  <2> QED
    BY <1>2, <1>4, <2>1, <2>2 DEF GaveUp
<1>5. CASE ReturnedError(t, S)
  <2>1. Shown(S)'
    BY <1>1, <1>5, ShownFrame DEF ReturnedError
  <2>2. ~ChangesDisk(t)'
    BY <1>5 DEF ReturnedError, ChangesDisk, NoCmd
  <2> QED
    BY <2>1, <2>2, NoneKept
<1> QED
  BY <1>1, <1>3, <1>4, <1>5, CalledKeeps DEF Seen

-----------------------------------------------------------------------------
(* The invariant of the disk *)

\* No zone comes back to the free list before the first collection.
LEMMA StaysTaken ==
  ASSUME NEW t \in Clients, Begun(t), cycles' = cycles, cycles \in Nat,
         \/ Issue(t) \/ ClientStep(t)
         \/ (FlushStep(t) \/ FlushNext(t)) /\ UNCHANGED <<gcVars, cmdVars>>,
         Contains(zm'.free, 0)
  PROVE  Contains(zm.free, 0)
<1>1. Start(t) /\ ZMData(zm) /\ NoDup(zm.free) /\ fl[t].zone \in Zones /\ FlData(fl[t])
  BY BegunParts, StartMine DEF PlaceInv, FreeZones
<1>2. CASE WriteLock(t)
  <2> DEFINE r == AllocateFree(zm, dev)
  <2>1. zm' = zm \/ zm' = r.zm
    BY <1>2 DEF WriteLock
  <2>2. IF r.ok THEN zm.free # << >> /\ r.zm.free = Front(zm.free) ELSE r.zm.free = zm.free
    BY <1>1, AllocateLeaves
  <2>3. zm.free # << >> /\ Contains(Front(zm.free), 0) => Contains(zm.free, 0)
    BY <1>1, TakeTop DEF ZMData
  <2> HIDE DEF r
  <2> QED
    BY <2>1, <2>2, <2>3
<1>3. CASE WriteMaps(t)
  BY <1>1, <1>3, WriteMapsMoves
<1>4. CASE UnmapMaps(t)
  BY <1>1, <1>4, CountLeaves DEF UnmapMaps
<1>5. CASE FlushOpen(t)
  <2>1. zm' = GetOrOpen(zm, dev, fl[t].zone).zm
    BY <1>5 DEF FlushOpen
  <2> QED
    BY <1>1, <2>1, GetLeaves DEF Leaves
<1>6. CASE FlushPoint(t)
  <2>1. FlushedWP(fl[t]) \in Int
    <3>1. fl[t].wp \in Int /\ Len(fl[t].data) \in Nat
      BY <1>1 DEF FlData
    <3> QED
      BY <3>1 DEF FlushedWP
  <2>2. zm' = UpdateWritePointer(zm, fl[t].zone, FlushedWP(fl[t]))
    BY <1>6 DEF FlushPoint
  <2> QED
    BY <1>1, <2>1, <2>2, PointerLeaves
<1>7. CASE Issue(t) \/ FlushTake(t) \/ FlushWrite(t) \/ FlushNext(t)
  BY <1>7 DEF Issue, Write, Unmap, Flush, FlushTake, FlushWrite, FlushNext
<1>8. CASE \/ WriteLog(t) \/ SetL2P(t) \/ SetL2PFails(t) \/ WriteAdd(t) \/ WriteRelock(t)
           \/ UnmapLock(t) \/ UnmapLog(t) \/ FlushDone(t) \/ Commit(t) \/ Fail(t)
  BY <1>8 DEF WriteLog, SetL2P, SetL2PFails, WriteAdd, WriteRelock, UnmapLock, UnmapLog, FlushDone, Commit, Fail
<1>9. CASE RunEmergencyGC(t)
  <2>1. ~\E z \in Zones : SelectVictim(t, z, "check", "fail")
    <3>1. \A z \in Zones : SelectVictim(t, z, "check", "fail") => cycles' = cycles + 1
      BY DEF SelectVictim
    <3> QED
      BY <3>1
  <2> QED
    BY <1>9, <2>1 DEF RunEmergencyGC
<1> QED
  BY <1>2, <1>3, <1>4, <1>5, <1>6, <1>7, <1>8, <1>9 DEF ClientStep, FlushStep

DiskInv(S) ==
  /\ S \subseteq LBAs /\ AtRest(S) /\ Shown(S)
  /\ \A t \in Clients : Carries(t) /\ Tracks(t) /\ Kept(t, S)

\* As long as zone 0 has not been allocated, whose first address means
\* "unmapped".
Guarded == cycles = 0 /\ Contains(zm.free, 0)

\* Every step before the first collection is one that BlockDevice sees, or
\* nothing to it, and S only grows.
LEMMA DiskSteps ==
  ASSUME AddressesFit, Flushers = {}, Serial, ~CloseFullFails, WholeRequests,
         TableInv, TableInv', LogInv, DataInv, DataInv', Next, NEW S,
         cycles = 0 => PlaceInv /\ ZoneInv, Guarded => DiskInv(S), Guarded'
  PROVE  /\ Guarded
         /\ \E t \in Clients : \E R :
              /\ Known(t, S) /\ Seen(t, S) /\ DiskInv(R)' /\ Joins(t, S, R)
              /\ \/ Issue(t) \/ ClientStep(t)
                 \/ (FlushStep(t) \/ FlushNext(t)) /\ UNCHANGED <<gcVars, cmdVars>>
<1>1. PICK t \in Clients : /\ UNCHANGED cycles
                           /\ \/ Issue(t) \/ ClientStep(t)
                              \/ (FlushStep(t) \/ FlushNext(t)) /\ UNCHANGED <<gcVars, cmdVars>>
  BY NotCollecting DEF TableInv, Guarded
<1>2. cycles \in Nat /\ cycles = 0 /\ PlaceInv /\ ZoneInv
  BY NotCollecting DEF TableInv, Quiet, Guarded
<1>3. t \in Threads /\ FlushesAlone /\ Clients = {t}
  BY ClientsAreThreads DEF FlushesAlone, Serial
<1>4. Fine(t)
  BY <1>1, <1>3, IssueFine, ClientStepFine, FlushStepFine, FlushNextFine
<1>5. Start(t)
  BY <1>1, <1>2, <1>3, <1>4, OthersFl DEF Start, OnlyMoves, Fine, TableInv
<1>6. Begun(t)
  BY <1>2, <1>5 DEF Begun
<1>7. Guarded
  <2>1. SUFFICES Contains(zm.free, 0)
    BY <1>2 DEF Guarded
  <2> QED
    BY <1>1, <1>2, <1>6, StaysTaken DEF Guarded
<1>8. Known(t, S) /\ Tracks(t) /\ Shown(S) /\ Kept(t, S) /\ Contains(zm.free, 0)
  BY <1>6, <1>7 DEF Known, DiskInv, Guarded
<1>9. Follows(t, S) /\ AtRest(S)' /\ Carries(t)'
  <2>1. CASE SetL2P(t)
    BY <1>8, <2>1, SetL2PFollows, SetL2PDisk
  <2>2. CASE FlushStep(t) /\ UNCHANGED cmdVars
    <3>1. DiskKept(t, S)
      BY <1>8, <2>2, FlushTakeDisk, FlushOpenDisk, FlushWriteDisk, FlushPointDisk DEF FlushStep
    <3> QED
      BY <1>8, <2>2, <3>1, FlushFollows DEF DiskKept
  <2>3. CASE FlushNext(t) /\ UNCHANGED cmdVars
    <3>1. DiskKept(t, S)
      BY <1>1, <1>2, <1>8, <2>3, PlainDisk
    <3> QED
      BY <1>8, <2>3, <3>1, FlushFollows DEF DiskKept
  <2>4. CASE Issue(t)
    <3>1. DiskKept(t, S)
      BY <1>1, <1>2, <1>8, <2>4, PlainDisk
    <3> QED
      BY <1>8, <2>4, <3>1, IssueFollows DEF DiskKept
  <2>5. CASE RunEmergencyGC(t) \/ WriteLock(t) \/ WriteLog(t)
    <3>1. DiskKept(t, S)
      BY <1>1, <1>2, <1>8, <2>5, PlainDisk, WriteLockDisk
    <3> QED
      BY <1>1, <1>2, <1>8, <2>5, <3>1, WriteBeginFollows DEF DiskKept
  <2>6. CASE WriteMaps(t) \/ WriteAdd(t) \/ WriteRelock(t)
    <3>1. DiskKept(t, S)
      BY <1>1, <1>2, <1>8, <2>6, PlainDisk, WriteMapsDisk, WriteAddDisk
    <3> QED
      BY <1>8, <2>6, <3>1, WriteEndFollows DEF DiskKept
  <2>7. CASE UnmapLock(t) \/ UnmapLog(t) \/ UnmapMaps(t)
    <3>1. DiskKept(t, S)
      BY <1>1, <1>2, <1>8, <2>7, PlainDisk
    <3> QED
      BY <1>8, <2>7, <3>1, UnmapFollows DEF DiskKept
  <2>8. CASE FlushDone(t) \/ Commit(t) \/ Fail(t)
    <3>1. DiskKept(t, S)
      BY <1>1, <1>2, <1>8, <2>8, PlainDisk
    <3> QED
      BY <1>8, <2>8, <3>1, EndFollows DEF DiskKept
  <2>9. ~SetL2PFails(t)
    <3>1. Stage(t) /\ Ranged(cmd[t])
      BY <1>8, StartKnown
    <3>2. ASSUME SetL2PFails(t) PROVE cmd[t].kind \in {"write", "unmap"}
      BY <3>1, <3>2 DEF SetL2PFails, Stage
    <3> QED
      BY <3>1, <3>2, SegmentInTable DEF SetL2PFails, WholeRequests
  <2> QED
    BY <1>1, <2>1, <2>2, <2>3, <2>4, <2>5, <2>6, <2>7, <2>8, <2>9 DEF ClientStep
<1>10. PICK R : KeptIn(t, S, R)
  <2>1. cmds' \in Int
    BY DEF DataInv, CmdsData
  <2> QED
    BY <1>8, <1>9, <2>1, SeenKeeps DEF Follows
<1>11. DiskInv(R)' /\ Joins(t, S, R)
  <2>1. R \subseteq LBAs
    BY <1>10 DEF KeptIn, Joins
  <2> QED
    BY <1>3, <1>9, <1>10, <2>1 DEF DiskInv, Follows, KeptIn
<1> QED
  BY <1>1, <1>7, <1>8, <1>9, <1>10, <1>11 DEF Follows

\* At the start the disk is blank.
LEMMA BlankAtStart ==
  ASSUME WholeRequests, Init
  PROVE  \A a \in LBAs : Sector(a) = Zero
<1>1. l2p = [s \in SegIDs |-> Unmapped]
  BY DEF Init, MapInit
<1>2. ASSUME NEW a \in LBAs PROVE IsUnmapped(L2PGet(l2p, LBAToSegmentID(a)))
  BY <1>1, LBASegment DEF IsUnmapped, L2PGet
<1> QED
  BY <1>2 DEF Sector

LEMMA DiskInitially ==
  ASSUME WholeRequests, Init
  PROVE  DiskInv(LBAs)
<1>1. /\ \A t \in Clients : pc[t] = "idle" /\ cmd[t] = NoCmd
      /\ \A s \in SegIDs : l2p[s] = Unmapped
      /\ cmds = 0 /\ \A a \in LBAs : promised[a] = {<<0, Zero>>}
  BY ClientsAreThreads DEF Init, BufInit, MapInit
<1>2. AtRest(LBAs)
  BY <1>1, LBASegment DEF AtRest
<1>3. Shown(LBAs)
  <2>1. ASSUME NEW a \in LBAs
        PROVE  /\ \E m \in promised[a] : m[2] = Sector(a)
               /\ \A m \in promised[a] : m[1] \in Int /\ m[1] <= cmds
    <3>1. Sector(a) = Zero /\ promised[a] = {<<0, Zero>>}
      BY <1>1, BlankAtStart
    <3>2. <<0, Zero>>[1] = 0 /\ <<0, Zero>>[2] = Zero
      OBVIOUS
    <3>3. PICK m : m = <<0, Zero>>
      OBVIOUS
    <3>4. promised[a] = {m} /\ m[1] = 0 /\ m[2] = Sector(a)
      BY <3>1, <3>2, <3>3
    <3> QED
      BY <1>1, <3>4
  <2> QED
    BY <2>1 DEF Shown
<1>4. \A t \in Clients : Carries(t) /\ Tracks(t) /\ Kept(t, LBAs)
  BY <1>1 DEF Carries, Tracks, Kept, Touches, NoCmd, Flushing
<1> QED
  BY <1>2, <1>3, <1>4 DEF DiskInv

LEMMA DiskStutter ==
  ASSUME NEW S, DiskInv(S), UNCHANGED vars
  PROVE  DiskInv(S)'
<1>1. UNCHANGED <<dev, zm, l2p, buf, pc, fl, cycles, cmd, cmds, promised>>
  BY DEF vars, gcVars, cmdVars, mapVars
<1>2. \A a : Sector(a)' = Sector(a)
  BY <1>1 DEF Sector, Writing, FlushingTo
<1>3. (AtRest(S) => AtRest(S)') /\ (Shown(S) => Shown(S)')
  BY <1>1, <1>2 DEF AtRest, Rests, Carried, Adding, Shown
<1>4. \A t \in Clients : (Carries(t) => Carries(t)') /\ (Tracks(t) => Tracks(t)')
  BY <1>1 DEF Carries, Tracks
<1>5. \A t \in Clients : Kept(t, S) => Kept(t, S)'
  BY <1>1, <1>2 DEF Kept, Working, ChangesDisk, Reached, SegmentApplied
<1> QED
  BY <1>1, <1>3, <1>4, <1>5 DEF DiskInv

\* With one client, whole segments, no age loop and a drive that accepts CLOSE
\* ZONE on a FULL zone.
LEMMA DiskInvariant ==
  ASSUME AddressesFit, Flushers = {}, Serial, ~CloseFullFails, WholeRequests
  PROVE  Spec => [](Guarded => DiskInv(LBAs))
<1> DEFINE Inv == Guarded => DiskInv(LBAs)
           Plc == cycles = 0 => PlaceInv
           Zns == cycles = 0 => ZoneInv
<1>1. Init => Inv
  BY DiskInitially
<1>2. Inv /\ Plc /\ Zns /\ TableInv /\ TableInv' /\ LogInv /\ DataInv /\ DataInv' /\ [Next]_vars => Inv'
  <2>1. ASSUME Inv, UNCHANGED vars
        PROVE  Inv'
    <3>1. UNCHANGED <<zm, cycles>>
      BY <2>1 DEF vars, gcVars
    <3> QED
      BY <2>1, <3>1, DiskStutter DEF Guarded
  <2>2. ASSUME Inv, Plc, Zns, TableInv, TableInv', LogInv, DataInv, DataInv', Next
        PROVE  Inv'
    <3> SUFFICES ASSUME Guarded'
                 PROVE  DiskInv(LBAs)'
      OBVIOUS
    <3>1. PICK R : DiskInv(R)' /\ LBAs \subseteq R
      BY <2>2, DiskSteps DEF Joins
    <3>2. R = LBAs
      BY <3>1 DEF DiskInv
    <3> QED
      BY <3>1, <3>2
  <2> QED
    BY <2>1, <2>2
<1>3. FlushesAlone
  BY DEF FlushesAlone, Serial
<1>4. (Spec => []Plc) /\ (Spec => []Zns)
  BY <1>3, PlaceInvariant, ZoneInvariant
<1> HIDE DEF Inv, Plc, Zns
<1>5. Spec => []Inv
  BY <1>1, <1>2, <1>4, TableInvariant, LogInvariant, DataInvariant, PTL DEF Spec
<1> QED
  BY <1>5 DEF Inv

-----------------------------------------------------------------------------
(* Reads *)

\* A sector of the device, by its zone.
LEMMA SectorIn ==
  ASSUME NEW z \in Zones, NEW x \in Int, x >= zoneStartLBA(z), x < zoneEndLBA(z)
  PROVE  SectorAt(dev, x) = dev.data[z][x - zoneStartLBA(z)]
<1>1. /\ zoneStartLBA(z) \in Nat /\ ZoneSectors \in Nat /\ ZoneSectors > 0
      /\ zoneEndLBA(z) = zoneStartLBA(z) + ZoneSectors /\ z \in Nat
  BY ZoneBounds, DeviceAssumption, ZoneZero
<1>2. PICK off \in 0 .. ZoneSectors - 1 : off = x - zoneStartLBA(z)
  <2>1. x - zoneStartLBA(z) \in 0 .. ZoneSectors - 1
    BY <1>1
  <2> QED
    BY <2>1
<1>3. x = z * ZoneSectors + off
  BY <1>1, <1>2 DEF zoneStartLBA
<1>4. x \div ZoneSectors = z /\ x % ZoneSectors = off
  BY <1>1, <1>3, Unpack
<1> QED
  BY <1>2, <1>4 DEF SectorAt, zoneIndex

\* What a read returns at one LBA of a segment.
LEMMA ReadPartIs ==
  ASSUME NEW seg, NEW first, NEW last, NEW a \in first .. last - 1
  PROVE  LET p    == L2PGet(l2p, seg)
             z    == ZoneID(p)
             from == PhysLBA(p) + first - SegmentStart(seg)
             r    == ReadSectors(dev, from, last - first)
         IN ReadPart(seg, first, last)[a] =
              IF IsUnmapped(p) THEN {Zero}
              ELSE IF \A i \in 0 .. last - first - 1 : BufferHolds(buf, z, from + i)
                   THEN {BufferedSector(buf, z, from + a - first)}
                   ELSE IF r.ok THEN {r.data[a - first + 1]} ELSE {}
<1> DEFINE p == L2PGet(l2p, seg)
           z == ZoneID(p)
           from == PhysLBA(p) + first - SegmentStart(seg)
           hit == \A i \in 0 .. last - first - 1 : BufferHolds(buf, z, from + i)
           r == ReadSectors(dev, from, last - first)
           one(x) == {BufferedSector(buf, z, from + x - first)}
           two(x) == IF r.ok THEN {r.data[x - first + 1]} ELSE {}
<1>1. ReadPart(seg, first, last) =
        [x \in first .. last - 1 |->
           CASE IsUnmapped(p) -> {Zero}
             [] ~IsUnmapped(p) /\ hit -> one(x)
             [] ~IsUnmapped(p) /\ ~hit -> two(x)]
  BY Zenon DEF ReadPart
<1> HIDE DEF p, hit, one, two
<1>2. ReadPart(seg, first, last)[a] =
           CASE IsUnmapped(p) -> {Zero}
             [] ~IsUnmapped(p) /\ hit -> one(a)
             [] ~IsUnmapped(p) /\ ~hit -> two(a)
  BY <1>1
<1>3. CASE IsUnmapped(p)
  BY <1>2, <1>3 DEF p
<1>4. CASE ~IsUnmapped(p) /\ hit
  <2>1. ReadPart(seg, first, last)[a] = one(a)
    BY <1>2, <1>4
  <2> QED
    BY <1>4, <2>1 DEF p, hit, one
<1>5. CASE ~IsUnmapped(p) /\ ~hit
  <2>1. ReadPart(seg, first, last)[a] = two(a)
    BY <1>2, <1>5
  <2> QED
    BY <1>5, <2>1 DEF p, hit, two
<1> QED
  BY <1>3, <1>4, <1>5

LEMMA ReadPartUnmapped ==
  ASSUME NEW seg, NEW first, NEW last, NEW a \in first .. last - 1, IsUnmapped(L2PGet(l2p, seg))
  PROVE  ReadPart(seg, first, last)[a] = {Zero}
<1> DEFINE p == L2PGet(l2p, seg)
           z == ZoneID(p)
           from == PhysLBA(p) + first - SegmentStart(seg)
           hit == \A i \in 0 .. last - first - 1 : BufferHolds(buf, z, from + i)
           r == ReadSectors(dev, from, last - first)
           one(x) == {BufferedSector(buf, z, from + x - first)}
           two(x) == IF r.ok THEN {r.data[x - first + 1]} ELSE {}
<1>1. ReadPart(seg, first, last) =
        [x \in first .. last - 1 |->
           CASE IsUnmapped(p) -> {Zero}
             [] ~IsUnmapped(p) /\ hit -> one(x)
             [] ~IsUnmapped(p) /\ ~hit -> two(x)]
  BY Zenon DEF ReadPart
<1>2. IsUnmapped(p)
  OBVIOUS
<1> HIDE DEF p, hit, one, two
<1> QED
  BY <1>1, <1>2

\* With nothing running, a segment at rest is wholly in the buffer or wholly on
\* the device.
LEMMA RestsWhere ==
  ASSUME DataInv, PlaceInv, ZoneInv, Idle, Serial, NEW p \in Nat, Rests(p),
         NEW z, z = ZoneID(p), NEW y, y = PhysLBA(p)
  PROVE  /\ z \in Zones /\ y \in Nat /\ y >= zoneStartLBA(z)
         /\ y + SectorsPerSeg <= zoneEndLBA(z)
         /\ \/ \A x \in y .. y + SectorsPerSeg - 1 : BufferHolds(buf, z, x)
            \/ \A x \in y .. y + SectorsPerSeg - 1 : ~BufferHolds(buf, z, x)
<1> DEFINE k == SectorsPerSeg
           n == Len(buf[z].data)
<1>1. /\ z \in Zones /\ y >= zoneStartLBA(z) /\ y + k <= zm.wp[z]
      /\ y + k <= dev.wp[z] \/ dev.wp[z] <= y
  BY DEF Rests
<1>2. \A u \in Clients : ~Adding(u, z) /\ ~InHand(u)
  BY ClientsAreThreads DEF Idle, Adding, InHand
<1>3. /\ k \in Nat /\ k > 0 /\ zoneStartLBA(z) \in Nat /\ zoneEndLBA(z) \in Nat
      /\ dev.wp[z] \in Int
  BY <1>1, MappingAssumption, ZoneBounds DEF DataInv, Good, Records
<1>4. zm.wp[z] \in Int /\ zm.wp[z] <= zoneEndLBA(z)
  <2>1. zm.wp[z] \in zoneStartLBA(z) .. zoneEndLBA(z)
    BY <1>1 DEF PlaceInv, FreeZones, Within
  <2> QED
    BY <1>3, <2>1
<1>5. y \in Nat
  <2>1. OffsetSectors(p) \in Nat
    BY MappingAssumption DEF OffsetSectors
  <2> QED
    BY <1>3, <2>1 DEF PhysLBA
<1>6. CASE buf[z] = NoBuffer
  <2>1. Len(NoBuffer.data) = 0 /\ NoBuffer.wp = 0
    BY EmptySeq DEF NoBuffer
  <2>2. 0 .. 0 + 0 - 1 = {}
    OBVIOUS
  <2>3. \A x : ~BufferHolds(buf, z, x)
    BY <1>6, <2>1, <2>2 DEF BufferHolds
  <2> HIDE DEF k
  <2> QED
    BY <1>1, <1>3, <1>4, <1>5, <2>3 DEF k
<1>7. CASE buf[z] # NoBuffer
  <2>1. buf[z].wp = dev.wp[z] /\ n \in Nat
    BY <1>1, <1>7 DEF ZoneInv, Begins, DataInv, Buffers
  <2>2. dev.wp[z] + n = zm.wp[z]
    BY <1>1, <1>2, <1>7, <2>1 DEF PlaceInv, BufferEnds, BufferEnd
  <2>3. \A x \in Int : BufferHolds(buf, z, x) <=> x >= dev.wp[z] /\ x <= dev.wp[z] + n - 1
    <3> HIDE DEF n
    <3>1. \A x : BufferHolds(buf, z, x) <=> x \in dev.wp[z] .. dev.wp[z] + n - 1
      BY <2>1 DEF BufferHolds, n
    <3> QED
      BY <1>3, <2>1, <3>1
  <2> HIDE DEF k, n
  <2>4. ASSUME dev.wp[z] <= y, NEW x \in y .. y + k - 1
        PROVE  BufferHolds(buf, z, x)
    BY <1>1, <1>3, <1>4, <1>5, <2>1, <2>2, <2>3, <2>4
  <2>5. ASSUME y + k <= dev.wp[z], NEW x \in y .. y + k - 1
        PROVE  ~BufferHolds(buf, z, x)
    BY <1>1, <1>3, <1>4, <1>5, <2>1, <2>2, <2>3, <2>5
  <2>6. y + k <= zoneEndLBA(z)
    BY <1>1, <1>3, <1>4, <1>5
  <2> QED
    BY <1>1, <1>5, <2>4, <2>5, <2>6 DEF k
<1> QED
  BY <1>6, <1>7

\* With nothing running, a read of part of a segment returns the disk.
LEMMA ReadsPart ==
  ASSUME WholeRequests, DataInv, PlaceInv, ZoneInv, Idle, Serial,
         NEW S, S \subseteq LBAs, AtRest(S), NEW a \in S, NEW s, s = LBAToSegmentID(a),
         NEW f \in Nat, NEW l \in Nat, SegmentStart(s) <= f, l <= SegmentStart(s) + SectorsPerSeg, f <= a, a < l
  PROVE  ReadPart(s, f, l)[a] = {Sector(a)}
<1> DEFINE b == SegmentStart(s)
           k == SectorsPerSeg
           p == L2PGet(l2p, s)
           z == ZoneID(p)
           y == PhysLBA(p)
<1>1. a \in LBAs
  OBVIOUS
<1>2. /\ a \in Nat /\ s \in SegIDs /\ b \in Nat /\ a - b \in 0 .. k - 1 /\ k \in Nat /\ k > 0
      /\ p = l2p[s] /\ p \in Nat
  BY <1>1, LBASegment, MappingAssumption DEF DataInv, MapData, L2PGet
<1>5. a \in f .. l - 1
  BY <1>2
<1>6. CASE IsUnmapped(p)
  <2>1. ReadPart(s, f, l)[a] = {Zero}
    BY <1>5, <1>6, ReadPartUnmapped
  <2>2. Sector(a) = Zero
    BY <1>6 DEF Sector
  <2> QED
    BY <2>1, <2>2
<1>7. CASE ~IsUnmapped(p)
  <2>1. Rests(p)
    <3>1. ~Carried(s)
      BY ClientsAreThreads DEF Carried, Idle
    <3> QED
      BY <1>2, <1>7, <3>1 DEF AtRest, IsUnmapped
  <2> DEFINE from == y + f - SegmentStart(s)
             hit == \A i \in 0 .. l - f - 1 : BufferHolds(buf, z, from + i)
             r == ReadSectors(dev, from, l - f)
             x == y + a - b
  <2>2. /\ z \in Zones /\ y \in Nat /\ y >= zoneStartLBA(z) /\ y + k <= zoneEndLBA(z)
        /\ \/ \A w \in y .. y + k - 1 : BufferHolds(buf, z, w)
           \/ \A w \in y .. y + k - 1 : ~BufferHolds(buf, z, w)
    BY <1>2, <2>1, RestsWhere
  <2>3. ReadPart(s, f, l)[a] =
          IF hit THEN {BufferedSector(buf, z, from + a - f)}
          ELSE IF r.ok THEN {r.data[a - f + 1]} ELSE {}
    BY <1>5, <1>7, ReadPartIs
  <2>4. Sector(a) = IF BufferHolds(buf, z, x) THEN BufferedSector(buf, z, x)
                    ELSE dev.data[z][x - zoneStartLBA(z)]
    <3>1. Writing(s) = {} /\ FlushingTo(x) = {}
      BY ClientsAreThreads DEF Writing, FlushingTo, Idle
    <3> QED
      BY <1>7, <3>1 DEF Sector
  <2> HIDE DEF y, b, k, z
  <2>5. /\ from \in Int /\ from >= y /\ from + (l - f) <= y + k /\ from + a - f = x
        /\ x \in y .. y + k - 1 /\ l - f \in Nat
        /\ a - f + 1 \in 1 .. l - f /\ from + (a - f + 1) - 1 = x
    <3>1. from = y + f - b
      BY DEF b
    <3>2. b <= f /\ l <= b + k
      BY DEF b, k
    <3> HIDE DEF from
    <3> QED
      BY <1>2, <2>2, <3>1, <3>2
  <2> HIDE DEF from
  <2>6. CASE \A w \in y .. y + k - 1 : BufferHolds(buf, z, w)
    <3>1. hit
      <4>1. \A i \in 0 .. l - f - 1 : from + i \in y .. y + k - 1
        BY <1>2, <2>2, <2>5
      <4> QED
        BY <2>5, <2>6, <4>1
    <3> QED
      BY <2>3, <2>4, <2>5, <2>6, <3>1
  <2>7. CASE \A w \in y .. y + k - 1 : ~BufferHolds(buf, z, w)
    <3>1. ~hit
      <4>1. 0 \in 0 .. l - f - 1 /\ from + 0 \in y .. y + k - 1
        BY <1>2, <2>2, <2>5
      <4> QED
        BY <2>5, <2>7, <4>1
    <3>2. r.ok /\ r.data[a - f + 1] = SectorAt(dev, x)
      <4>2. zoneEndLBA(z) <= Capacity /\ Capacity \in Nat /\ zoneEndLBA(z) \in Nat
        BY <2>2, ZoneBounds, DeviceAssumption DEF Capacity
      <4>3. ~(from + (l - f) > Capacity)
        BY <1>2, <2>2, <2>5, <4>2
      <4>4. r = [ok |-> TRUE, data |-> [i \in 1 .. l - f |-> SectorAt(dev, from + i - 1)]]
        BY <4>3 DEF ReadSectors
      <4> HIDE DEF r, x
      <4> QED
        BY <2>5, <4>4
    <3>3. SectorAt(dev, x) = dev.data[z][x - zoneStartLBA(z)]
      <4>1. zoneStartLBA(z) \in Nat /\ zoneEndLBA(z) \in Nat
        BY <2>2, ZoneBounds
      <4>2. x \in Int /\ x >= zoneStartLBA(z) /\ x < zoneEndLBA(z)
        <5> HIDE DEF x
        <5> QED
          BY <1>2, <2>2, <2>5, <4>1
      <4> QED
        BY <2>2, <4>2, SectorIn
    <3> QED
      BY <2>3, <2>4, <2>5, <2>7, <3>1, <3>2, <3>3
  <2> QED
    BY <2>2, <2>6, <2>7
<1> QED
  BY <1>6, <1>7

\* A read of whole segments, and one of a single sector.
LEMMA ReadsDisk ==
  ASSUME WholeRequests, DataInv, PlaceInv, ZoneInv, Idle, Serial, AtRest(LBAs),
         NEW req \in Requests, NEW a \in req[1] .. req[1] + req[2] - 1
  PROVE  a \in LBAs /\ Read(req[1], req[1] + req[2], a) = {Sector(a)}
<1> DEFINE s == LBAToSegmentID(a)
           b == SegmentStart(s)
           k == SectorsPerSeg
<1>1. a \in LBAs
  BY DEF LBAs
<1>2. a \in Nat /\ s \in SegIDs /\ b \in Nat /\ a - b \in 0 .. k - 1 /\ k \in Nat
  BY <1>1, LBASegment, MappingAssumption
<1>3. PartFirst(req[1], s) = b /\ PartLast(req[1] + req[2], s) = b + k
  <2>1. PICK c : c = [NoCmd EXCEPT !.kind = "unmap", !.lba = req[1],
                        !.end = req[1] + req[2], !.seg = s]
    OBVIOUS
  <2>2. /\ c.kind = "unmap" /\ c.lba = req[1] /\ c.end = req[1] + req[2] /\ c.seg = s
        /\ c.zone = 0 /\ c.wp = 0 /\ c.new = Unmapped
    BY <2>1 DEF NoCmd
  <2>3. Touches(c, a)
    <3>1. a \in c.lba .. c.end - 1
      BY <2>2, ZTLAssumption
    <3> QED
      BY <2>2, <3>1 DEF Touches
  <2>4. /\ s \in Nat /\ LBAToSegmentID(c.lba) \in Nat /\ LastSegment(c) \in Nat
        /\ LBAToSegmentID(c.lba) <= s /\ s <= LastSegment(c)
    BY <1>1, <2>2, <2>3, TouchedSegments
  <2>5. Ranged(c)
    <3>1. s \in LBAToSegmentID(c.lba) .. LBAToSegmentID(c.end - 1)
      BY <2>4 DEF LastSegment
    <3> QED
      BY <2>2, <3>1 DEF Ranged
  <2>6. CmdData(c)
    <3>1. req[1] \in Nat /\ req[2] \in Nat
      BY ZTLAssumption
    <3> QED
      BY <2>2, <2>4, <3>1, ZoneZero DEF CmdData, Unmapped
  <2> QED
    BY <2>2, <2>5, <2>6, WholePart
<1>4. PICK f \in Nat, l \in Nat : f = b /\ l = b + k
  BY <1>2
<1>5. Read(req[1], req[1] + req[2], a) = ReadPart(s, f, l)[a]
  BY <1>3, <1>4 DEF Read
<1>6. b <= f /\ l <= b + k /\ f <= a /\ a < l
  <2> HIDE DEF b, k
  <2> QED
    BY <1>2, <1>4
<1> QED
  BY <1>1, <1>4, <1>5, <1>6, ReadsPart

LEMMA ReadsOne ==
  ASSUME WholeRequests, DataInv, PlaceInv, ZoneInv, Idle, Serial,
         NEW S, S \subseteq LBAs, AtRest(S), NEW a \in S
  PROVE  Read(a, a + 1, a) = {Sector(a)}
<1> DEFINE s == LBAToSegmentID(a)
           b == SegmentStart(s)
           k == SectorsPerSeg
<1>1. a \in Nat /\ s \in SegIDs /\ b \in Nat /\ a - b \in 0 .. k - 1 /\ k \in Nat
  BY LBASegment, MappingAssumption
<1>2. PartFirst(a, s) = a /\ PartLast(a + 1, s) = a + 1
  <2>1. SegmentEnd(s) = b + k
    BY <1>1 DEF SegmentEnd
  <2>2. ~(a < b) /\ ~(b + k < a + 1)
    <3> HIDE DEF b, k
    <3> QED
      BY <1>1
  <2>3. a > b \/ a = b
    <3> HIDE DEF b, k
    <3> QED
      BY <1>1
  <2>4. a + 1 < b + k \/ a + 1 = b + k
    <3> HIDE DEF b, k
    <3> QED
      BY <1>1
  <2> QED
    BY <2>1, <2>2, <2>3, <2>4 DEF PartFirst, PartLast
<1>3. PICK l \in Nat : l = a + 1
  BY <1>1
<1>4. Read(a, a + 1, a) = ReadPart(s, a, l)[a]
  BY <1>2, <1>3 DEF Read
<1>5. b <= a /\ l <= b + k /\ a <= a /\ a < l
  <2> HIDE DEF b, k
  <2> QED
    BY <1>1, <1>3
<1> QED
  BY <1>1, <1>3, <1>4, <1>5, ReadsPart

-----------------------------------------------------------------------------
(* The theorems about the disk *)

\* What succeeded reads back: once nothing is running, every request returns
\* the last data written, or zeros after an unmap, and of commands that failed
\* their data or what was there before.  With one client that writes whole
\* segments of the table, until the first collection, without an age loop and
\* on a drive that accepts CLOSE ZONE on a FULL zone.
THEOREM SettledReadsHold ==
  ASSUME AddressesFit, Flushers = {}, Serial, ~CloseFullFails, WholeRequests
  PROVE  Spec => [](cycles = 0 => SettledReads)
<1>1. FlushesAlone
  BY DEF FlushesAlone, Serial
<1>2. /\ DataInv /\ (cycles = 0 => PlaceInv) /\ (cycles = 0 => ZoneInv) /\ (Guarded => DiskInv(LBAs))
      => (cycles = 0 => SettledReads)
  <2> SUFFICES ASSUME DataInv, PlaceInv, ZoneInv, DiskInv(LBAs), Idle,
                      NEW req \in Requests, NEW a \in req[1] .. req[1] + req[2] - 1
               PROVE  /\ Read(req[1], req[1] + req[2], a) # {}
                      /\ Read(req[1], req[1] + req[2], a) \subseteq {m[2] : m \in promised[a]}
    BY DEF SettledReads, Settled, AckedReads, Guarded
  <2>1. a \in LBAs /\ Read(req[1], req[1] + req[2], a) = {Sector(a)}
    BY ReadsDisk DEF DiskInv
  <2>2. Sector(a) \in {m[2] : m \in promised[a]}
    BY <2>1 DEF DiskInv, Shown
  <2> QED
    BY <2>1, <2>2
<1> QED
  BY <1>1, <1>2, DataInvariant, PlaceInvariant, ZoneInvariant, DiskInvariant, PTL

-----------------------------------------------------------------------------
(* The steps of BlockDevice *)

\* BlockDevice's disk and its jobs.
Disk == [a \in LBAs |-> Sector(a)]
Jobs == [t \in Clients |-> JobOf(t)]

Job(c, s) ==
  [kind |-> c.kind, id |-> c.id, lba |-> c.lba, end |-> c.end, next |-> s, last |-> LastSegment(c)]

\* The command of a client as BlockDevice sees it.
JobIs(t) ==
  /\ Working(t) => JobOf(t) = Job(cmd[t], Reached(t))
  /\ ChangesDisk(t) /\ pc[t] = "fail" => JobOf(t) = BD!Failed
  /\ ~ChangesDisk(t) => JobOf(t) = BD!NoJob

LEMMA JobsAre == ASSUME NEW t PROVE JobIs(t) /\ JobIs(t)'
<1> DEFINE failed == [kind |-> "failed", id |-> 0, lba |-> 0, end |-> 0, next |-> 0, last |-> 0]
<1>1. BD!Failed = failed
  BY DEF BD!Failed, BD!NoJob
<1>2. JobIs(t)
  BY <1>1 DEF JobIs, JobOf, Working, Reached, Job, LastSegment, BD!NoJob
<1>3. JobIs(t)'
  BY <1>1 DEF JobIs, JobOf, Working, Reached, Job, LastSegment, BD!NoJob
<1> QED
  BY <1>2, <1>3

\* The only client's command, before and after a step.
LEMMA OneJob ==
  ASSUME NEW t \in Clients, Clients = {t}
  PROVE  Jobs[t] = JobOf(t) /\ \A j : JobOf(t)' = j => Jobs' = [Jobs EXCEPT ![t] = j]
  BY DEF Jobs

\* What the command leaves in its next segment, as BlockDevice has it.
LEMMA SegmentResult ==
  ASSUME NEW t \in Clients, Known(t, LBAs), Working(t), Reached(t) = cmd[t].seg, SegmentSet(t, LBAs),
         NEW j, j = Job(cmd[t], Reached(t))
  PROVE  Disk' = BD!Applied(j)
<1> DEFINE c == cmd[t]
<1>1. CmdData(c) /\ Ranged(c) /\ WholeRequests /\ c.kind \in {"write", "unmap"}
  BY StartKnown DEF Known, Working, ChangesDisk
<1>2. \A a \in LBAs : LBAToSegmentID(a) = c.seg => a \in c.lba .. c.end - 1
  BY <1>1, WholePart
<1>3. j.kind = c.kind /\ j.id = c.id /\ j.lba = c.lba /\ j.end = c.end /\ j.next = c.seg
  BY DEF Job
<1>4. ASSUME NEW a \in LBAs
      PROVE  Sector(a)' = IF BD!InUnit(j, a) THEN BD!Result(j, a) ELSE Disk[a]
  <2>1. Sector(a)' = IF LBAToSegmentID(a) = c.seg THEN Stamp(c, a) ELSE Sector(a)
    BY DEF SegmentSet, Grown
  <2>2. BD!InUnit(j, a) <=> LBAToSegmentID(a) = c.seg
    BY <1>2, <1>3 DEF BD!InUnit, LBAToSegmentID
  <2>3. BD!Result(j, a) = Stamp(c, a)
    BY <1>3 DEF BD!Result, Stamp
  <2>4. Disk[a] = Sector(a)
    BY DEF Disk
  <2> QED
    BY <2>1, <2>2, <2>3, <2>4
<1> QED
  BY <1>4 DEF Disk, BD!Applied

\* A call: the job is the one BlockDevice may begin.
LEMMA CalledStep ==
  ASSUME NEW t \in Clients, Known(t, LBAs), Called(t, LBAs)
  PROVE  BD!Call(t)
<1> DEFINE c == cmd'[t]
<1>1. Clients = {t} /\ cmds \in Nat
  BY KnownParts, StartKnown
<1>2. JobOf(t) = BD!NoJob /\ JobOf(t)' = Job(c, LBAToSegmentID(c.lba)) /\ Disk' = Disk
  BY JobsAre DEF JobIs, Called, SameDisk, Disk
<1>3. c.kind \in {"write", "unmap"} /\ c.id \in 1 .. MaxCmds
  BY <1>1, ZTLAssumption DEF Called, Working, ChangesDisk
<1>4. c.lba \in LBAs /\ c.end - 1 \in LBAs /\ c.lba <= c.end - 1 /\ c.end = (c.end - 1) + 1
  <2>1. PICK req \in Requests : c.lba = req[1] /\ c.end = req[1] + req[2]
    BY DEF Called
  <2>2. req[1] \in Nat /\ req[2] \in Nat \ {0}
    BY ZTLAssumption
  <2>3. c.lba \in req[1] .. req[1] + req[2] - 1 /\ c.end - 1 \in req[1] .. req[1] + req[2] - 1
    BY <2>1, <2>2
  <2> QED
    BY <2>1, <2>2, <2>3 DEF LBAs
<1>5. \E kind \in {"write", "unmap"}, n \in 1 .. MaxCmds, first, final \in LBAs :
        /\ first <= final
        /\ JobOf(t)' = [kind |-> kind, id |-> n, lba |-> first, end |-> final + 1,
                        next |-> first \div SectorsPerSeg, last |-> final \div SectorsPerSeg]
  <2>1. JobOf(t)' = [kind |-> c.kind, id |-> c.id, lba |-> c.lba, end |-> (c.end - 1) + 1,
                     next |-> c.lba \div SectorsPerSeg, last |-> (c.end - 1) \div SectorsPerSeg]
    BY <1>2, <1>4 DEF Job, LastSegment, LBAToSegmentID
  <2> QED
    BY <1>3, <1>4, <2>1
<1>6. Jobs[t] = BD!NoJob /\ \A j : JobOf(t)' = j => Jobs' = [Jobs EXCEPT ![t] = j]
  BY <1>1, <1>2, OneJob
<1> QED
  BY <1>2, <1>5, <1>6 DEF BD!Call, Jobs, Disk

\* Setting an L2P entry applies the next unit.
LEMMA AppliedStep ==
  ASSUME NEW t \in Clients, Known(t, LBAs), Applied(t, LBAs)
  PROVE  BD!Apply(t)
<1> DEFINE c == cmd[t]
           s == Reached(t)
<1>1. Clients = {t} /\ Ranged(c) /\ c.kind \in {"write", "unmap"}
  BY KnownParts, StartKnown DEF Applied, Working, ChangesDisk
<1>2. JobOf(t) = Job(c, s) /\ JobOf(t)' = Job(cmd'[t], s + 1) /\ SameCmd(c, cmd'[t])
  BY JobsAre DEF JobIs, Applied
<1>3. PICK j : j = Job(c, s)
  OBVIOUS
<1>4. Jobs[t] = j /\ Disk' = BD!Applied(j)
  BY <1>1, <1>2, <1>3, OneJob, SegmentResult DEF Applied
<1>5. j.kind \in {"write", "unmap"} /\ j.next <= j.last
  <2>1. s \in LBAToSegmentID(c.lba) .. LastSegment(c)
    BY <1>1 DEF Ranged, LastSegment, Applied
  <2>2. s <= LastSegment(c)
    BY <2>1
  <2> QED
    BY <1>1, <1>3, <2>2 DEF Job
<1>6. JobOf(t)' = [j EXCEPT !.next = @ + 1]
  BY <1>2, <1>3 DEF Job, SameCmd, LastSegment
<1>7. Jobs' = [Jobs EXCEPT ![t].next = @ + 1]
  BY <1>1, <1>4, <1>6, OneJob
<1> QED
  BY <1>4, <1>5, <1>7 DEF BD!Apply, BD!Running, Jobs, Disk

\* Success is returned with every unit applied, the last one perhaps just now.
LEMMA ReturnedStep ==
  ASSUME NEW t \in Clients, Known(t, LBAs), Returned(t, LBAs)
  PROVE  BD!Return(t)
<1> DEFINE c == cmd[t]
           s == Reached(t)
<1>1. Clients = {t} /\ Ranged(c) /\ CmdData(c) /\ c.kind \in {"write", "unmap"}
  BY KnownParts, StartKnown DEF Returned, Working, ChangesDisk
<1>2. JobOf(t) = Job(c, s) /\ JobOf(t)' = BD!NoJob
  BY JobsAre DEF JobIs, Returned, ChangesDisk, NoCmd
<1>3. PICK j : j = Job(c, s)
  OBVIOUS
<1>4. Jobs[t] = j /\ Jobs' = [Jobs EXCEPT ![t] = BD!NoJob]
  BY <1>1, <1>2, <1>3, OneJob
<1>5. j.kind \in {"write", "unmap"} /\ j.next = s /\ j.last = LastSegment(c)
  BY <1>1, <1>3 DEF Job
<1>6. \/ j.next > j.last /\ Disk' = Disk
      \/ j.next = j.last /\ Disk' = BD!Applied(j)
  <2>1. CASE s = LastSegment(c) + 1 /\ SameDisk(LBAs)
    <3>1. LastSegment(c) \in Int
      BY <1>1, MappingAssumption DEF CmdData, LastSegment, LBAToSegmentID
    <3> QED
      BY <1>5, <2>1, <3>1 DEF SameDisk, Disk
  <2>2. CASE s = c.seg /\ s = LastSegment(c) /\ SegmentSet(t, LBAs)
    BY <1>3, <1>5, <2>2, SegmentResult DEF Returned
  <2> QED
    BY <2>1, <2>2 DEF Returned
<1> QED
  BY <1>4, <1>5, <1>6 DEF BD!Return, BD!Running, Jobs, Disk

\* Giving up and returning the error leave the disk alone.
LEMMA FailedStep ==
  ASSUME NEW t \in Clients, Known(t, LBAs)
  PROVE  (GaveUp(t, LBAs) => BD!GiveUp(t)) /\ (ReturnedError(t, LBAs) => BD!ReturnError(t))
<1>1. Clients = {t}
  BY KnownParts
<1>2. ASSUME GaveUp(t, LBAs)
      PROVE  BD!GiveUp(t)
  <2>1. ChangesDisk(t)' /\ Working(t) /\ cmd[t].kind \in {"write", "unmap"}
    BY <1>2 DEF GaveUp, SameCmd, Working, ChangesDisk
  <2>2. JobOf(t) = Job(cmd[t], Reached(t)) /\ JobOf(t)' = BD!Failed /\ Disk' = Disk
    BY <1>2, <2>1, JobsAre DEF JobIs, GaveUp, SameDisk, Disk
  <2>3. Jobs[t].kind \in {"write", "unmap"} /\ Jobs' = [Jobs EXCEPT ![t] = BD!Failed]
    BY <1>1, <2>1, <2>2, OneJob DEF Job
  <2> QED
    BY <2>2, <2>3 DEF BD!GiveUp, BD!Running, Jobs, Disk
<1>3. ASSUME ReturnedError(t, LBAs)
      PROVE  BD!ReturnError(t)
  <2>1. JobOf(t) = BD!Failed /\ JobOf(t)' = BD!NoJob /\ Disk' = Disk
    BY <1>3, JobsAre DEF JobIs, ReturnedError, SameDisk, Disk, ChangesDisk, NoCmd
  <2>2. Jobs[t] = BD!Failed /\ Jobs' = [Jobs EXCEPT ![t] = BD!NoJob]
    BY <1>1, <2>1, OneJob
  <2> QED
    BY <2>1, <2>2 DEF BD!ReturnError, Jobs, Disk
<1> QED
  BY <1>2, <1>3

\* Everything else is invisible.
LEMMA SilentStep ==
  ASSUME NEW t \in Clients, Known(t, LBAs), Silent(t, LBAs)
  PROVE  Disk' = Disk /\ Jobs' = Jobs
<1>1. Clients = {t}
  BY KnownParts
<1>2. JobOf(t)' = JobOf(t)
  <2>1. CASE /\ Working(t) /\ Working(t)' /\ SameCmd(cmd[t], cmd'[t])
             /\ Reached(t)' = Reached(t)
    BY <2>1, JobsAre DEF JobIs, Job, SameCmd, LastSegment
  <2>2. CASE ~ChangesDisk(t) /\ ~ChangesDisk(t)'
    BY <2>2, JobsAre DEF JobIs
  <2> QED
    BY <2>1, <2>2 DEF Silent
<1> QED
  BY <1>1, <1>2 DEF Silent, SameDisk, Disk, Jobs

\* A step of the translation layer is a step of BlockDevice, or none.
LEMMA SeenImplements ==
  ASSUME NEW t \in Clients, Known(t, LBAs), Seen(t, LBAs), Contains(zm.free, 0), Contains(zm'.free, 0)
  PROVE  (\E u \in Clients : BD!Step(u)) \/ UNCHANGED BD!bdVars
<1>1. CASE Silent(t, LBAs)
  <2>1. Contains(zm.free, 0)' = Contains(zm.free, 0)
    BY DEF Contains
  <2> QED
    BY <1>1, <2>1, SilentStep DEF BD!bdVars, Disk, Jobs
<1>2. CASE ~Silent(t, LBAs)
  <2>1. BD!Step(t)
    BY <1>2, CalledStep, AppliedStep, ReturnedStep, FailedStep DEF Seen, BD!Step
  <2> QED
    BY <2>1
<1> QED
  BY <1>1, <1>2

\* The translation layer implements BlockDevice: every segment of a write or
\* unmap takes effect at one instant between call and return, a command that
\* succeeds has taken effect whole, and no flush, eviction or zone transition
\* changes what the disk holds.  With one client that writes whole segments of
\* the table, as long as nothing is collected, without an age loop and on a
\* drive that accepts CLOSE ZONE on a FULL zone.
THEOREM ZTLImplementsBlockDevice ==
  ASSUME AddressesFit, Flushers = {}, Serial, ~CloseFullFails, WholeRequests
  PROVE  Spec /\ [](cycles = 0) => ImplementsBlockDevice
<1> DEFINE Uncollected == cycles = 0
           Inv == Guarded => DiskInv(LBAs)
           Plc == cycles = 0 => PlaceInv
           Zns == cycles = 0 => ZoneInv
<1>1. Init => BD!BDInit
  <2> SUFFICES ASSUME Init PROVE BD!BDInit
    OBVIOUS
  <2>1. Contains(zm.free, 0)
    <3>1. dev.st[0] = "EMPTY"
      BY ZoneZero DEF Init, DevInit, New
    <3> QED
      BY <3>1, ZoneInitially, ZoneZero DEF ZoneInv, Lists
  <2>2. \A t \in Clients : JobOf(t) = BD!NoJob
    <3>1. \A t \in Clients : cmd[t] = NoCmd
      BY DEF Init
    <3> QED
      BY <3>1, JobsAre DEF JobIs, ChangesDisk, NoCmd
  <2>3. \A a \in LBAs : Sector(a) = Zero
    BY BlankAtStart
  <2>4. Contains(zm.free, 0) = TRUE
    BY <2>1 DEF Contains
  <2> QED
    BY <2>2, <2>3, <2>4 DEF BD!BDInit
<1>2. /\ Uncollected' /\ Inv /\ Plc /\ Zns /\ TableInv /\ TableInv' /\ LogInv /\ DataInv /\ DataInv'
      /\ [Next]_vars
      => [BD!BDNext]_(BD!bdVars)
  <2>1. ASSUME UNCHANGED vars
        PROVE  UNCHANGED BD!bdVars
    <3>1. UNCHANGED <<dev, zm, l2p, buf, pc, fl, cmd>>
      BY <2>1 DEF vars, gcVars, cmdVars, mapVars
    <3>2. \A a : Sector(a)' = Sector(a)
      BY <3>1 DEF Sector, Writing, FlushingTo
    <3>3. \A t : JobOf(t)' = JobOf(t)
      BY <3>1 DEF JobOf, ChangesDisk, SegmentApplied
    <3> QED
      BY <3>1, <3>2, <3>3 DEF BD!bdVars
  <2>2. ASSUME Uncollected', Inv, Plc, Zns, TableInv, TableInv', LogInv, DataInv, DataInv', Next,
               Contains(zm.free, 0), Contains(zm'.free, 0)
        PROVE  (\E u \in Clients : BD!Step(u)) \/ UNCHANGED BD!bdVars
    <3>1. Guarded'
      BY <2>2 DEF Guarded
    <3>2. PICK t \in Clients : Known(t, LBAs) /\ Seen(t, LBAs)
      BY <2>2, <3>1, DiskSteps
    <3> QED
      BY <2>2, <3>2, SeenImplements
  <2>3. (\E u \in Clients : BD!Step(u)) => BD!BDNext
    BY DEF BD!BDNext
  <2>4. ~(Contains(zm.free, 0) /\ Contains(zm'.free, 0)) => BD!BDNext
    BY DEF BD!BDNext
  <2> QED
    BY <2>1, <2>2, <2>3, <2>4
<1>3. FlushesAlone
  BY DEF FlushesAlone, Serial
<1>4. (Spec => []Inv) /\ (Spec => []Plc) /\ (Spec => []Zns)
  BY <1>3, PlaceInvariant, ZoneInvariant, DiskInvariant
<1> HIDE DEF Inv, Plc, Zns
<1>5. Spec /\ []Uncollected => BD!BDSpec
  BY <1>1, <1>2, <1>4, TableInvariant, LogInvariant, DataInvariant, PTL DEF Spec, BD!BDSpec, Uncollected
<1> QED
  BY <1>5 DEF ImplementsBlockDevice, Uncollected
=============================================================================
