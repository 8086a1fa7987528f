---------------------------- MODULE ZoneManager ----------------------------
(***************************************************************************)
(* internal/ztl/zone_manager.go: the translation layer's own view of the   *)
(* zones, which it keeps beside the device's.                              *)
(*                                                                         *)
(* Every method holds zm.mu from its first line to its last, the calls it  *)
(* makes on the device included, so each is one operator on the pair of    *)
(* the manager's record and the device's.  Results carry both, whether the *)
(* call succeeded and the zone it concerned.                               *)
(*                                                                         *)
(*   st, wp, valid, total   ZoneInfo.State, .WritePointer, .ValidSegs,     *)
(*                          .TotalSegs                                     *)
(*   free                   freeList, a stack whose top is its last element*)
(*   lru                    openList, least recently used first            *)
(*   open                   the keys of openSet                            *)
(*   frozen                 the keys of frozenSet                          *)
(*                                                                         *)
(* openSet maps a zone to its list element.  That element is always the    *)
(* zone's last occurrence in openList: both writes to the map follow a     *)
(* PushBack, and MoveToBack moves that very element.                       *)
(***************************************************************************)
EXTENDS Emulator, SequencesExt

VARIABLE zm    \* the zone manager record

ZoneManagers == [st : [Zones -> ZoneStates], wp : [Zones -> Nat],
                 valid : [Zones -> Nat], total : [Zones -> Nat],
                 free : Seq(Zones), lru : Seq(Zones),
                 open : SUBSET Zones, frozen : SUBSET Zones]

-----------------------------------------------------------------------------
(* Start of day *)

\* The members of S in ascending order, the order ReportZones lists zones in.
Ascending(S) ==
  [i \in 1 .. Cardinality(S) |-> CHOOSE z \in S : Cardinality({y \in S : y < z}) = i - 1]

Initialize(d) ==
  LET desc == ReportZones(d, 0, 0)
      InState(S) == {z \in Zones : desc[z].state \in S}
  IN [st     |-> [z \in Zones |-> desc[z].state],
      wp     |-> [z \in Zones |-> desc[z].wp],
      valid  |-> [z \in Zones |-> 0],
      total  |-> [z \in Zones |-> 0],
      free   |-> Ascending(InState({"EMPTY"})),
      lru    |-> Ascending(InState(OpenStates)),
      open   |-> InState(OpenStates),
      frozen |-> {}]

-----------------------------------------------------------------------------
(* Opening, evicting and freeing zones *)

ZMOk(m, d, z)  == [ok |-> TRUE,  zm |-> m, dev |-> d, zone |-> z]
ZMErr(m, d, z) == [ok |-> FALSE, zm |-> m, dev |-> d, zone |-> z]

\* A mutant of PushOpen: the zone is opened and not entered in the map.
PushOpenUnmapped(m, z) == [m EXCEPT !.st[z] = "EXPLICIT_OPEN", !.lru = Append(@, z)]

\* openList.PushBack and the entry of openSet, with State = ExplicitOpen.
PushOpen(m, z) ==
  [m EXCEPT !.st[z] = "EXPLICIT_OPEN", !.lru = Append(@, z), !.open = @ \union {z}]

\* openList.Remove(openSet[z]) and delete(openSet, z), when z has an entry.
DropOpen(m, z) ==
  IF z \notin m.open THEN m
  ELSE [m EXCEPT !.lru  = RemoveAt(@, SelectLastInSeq(@, LAMBDA x : x = z)),
                 !.open = @ \ {z}]

\* A mutant of Evict: the zone evicted stays in the map.
EvictKeepsEntry(m, z, r) ==
  IF r.ok THEN ZMOk([m EXCEPT !.st[z] = "CLOSED", !.lru = Tail(@)], r.dev, z)
          ELSE ZMErr(m, r.dev, z)

\* The least recently used zone z leaves the list and the map once r, its
\* CloseZone, has succeeded; when that fails nothing changes.
Evict(m, z, r) ==
  IF r.ok
  THEN ZMOk([m EXCEPT !.st[z] = "CLOSED", !.lru = Tail(@), !.open = @ \ {z}], r.dev, z)
  ELSE ZMErr(m, r.dev, z)

evictOldestLocked(m, d) ==
  IF m.lru = << >> THEN ZMOk(m, d, 0)
  ELSE Evict(m, Head(m.lru), CloseZone(d, zoneStartLBA(Head(m.lru))))

\* The eviction both callers perform at the limit.
MakeRoom(m, d) ==
  IF Cardinality(m.open) >= MaxOpenZones THEN evictOldestLocked(m, d) ELSE ZMOk(m, d, 0)

\* The zone on top of the free list is opened.  When the device refuses, the
\* zone goes back to where it came from, but the eviction stands.
AllocateFree(m, d) ==
  LET room == MakeRoom(m, d)
      z    == Last(m.free)
      r    == OpenZone(room.dev, zoneStartLBA(z))
  IN IF m.free = << >> THEN ZMErr(m, d, 0)
     ELSE IF ~room.ok THEN room
          ELSE IF r.ok
               THEN ZMOk(PushOpen([room.zm EXCEPT !.free = Front(@)], z), r.dev, z)
               ELSE ZMErr(room.zm, r.dev, z)

\* An open zone becomes the most recently used; another is opened.
GetOrOpen(m, d, z) ==
  LET room == MakeRoom(m, d)
      r    == OpenZone(room.dev, zoneStartLBA(z))
  IN IF z \in m.open THEN ZMOk([m EXCEPT !.lru = Append(DropOpen(m, z).lru, z)], d, z)
     ELSE IF ~room.ok THEN room
          ELSE IF r.ok THEN ZMOk(PushOpen(room.zm, z), r.dev, z)
                       ELSE ZMErr(room.zm, r.dev, z)

MarkEmpty(m, z) ==
  [DropOpen(m, z) EXCEPT !.st[z] = "EMPTY", !.wp[z] = zoneStartLBA(z),
                         !.valid[z] = 0, !.total[z] = 0,
                         !.frozen = @ \ {z}, !.free = Append(@, z)]

-----------------------------------------------------------------------------
(* Counters and marks *)

UpdateWritePointer(m, z, newWP) == [m EXCEPT !.wp[z] = newWP]

IncrementValidSegs(m, z) == [m EXCEPT !.valid[z] = @ + 1, !.total[z] = @ + 1]

DecrementValidSegs(m, z) ==
  [m EXCEPT !.valid[z] = IF @ > 0 THEN @ - 1 ELSE @]

Freeze(m, z)   == [m EXCEPT !.frozen = @ \union {z}]
Unfreeze(m, z) == [m EXCEPT !.frozen = @ \ {z}]

FreeZoneCount(m) == Len(m.free)

-----------------------------------------------------------------------------
(* Choosing a victim *)

\* GCScore(a) > GCScore(b), the fractions compared by cross-multiplication.
BetterVictim(m, a, b) ==
  (m.total[a] - m.valid[a]) * m.total[b] > (m.total[b] - m.valid[b]) * m.total[a]

VictimCandidates(m) ==
  {z \in Zones \ m.frozen : m.st[z] \in {"FULL", "CLOSED"} /\ m.total[z] > 0}

\* The scan keeps the first zone with the highest score.
IsGCVictim(m, z) ==
  /\ z \in VictimCandidates(m)
  /\ \A y \in VictimCandidates(m) :
       IF y < z THEN BetterVictim(m, z, y) ELSE ~BetterVictim(m, y, z)

-----------------------------------------------------------------------------
(* Properties of the manager's record beside the device's *)

\* The manager never believes more zones open than the device allows, and its
\* list and its map of open zones hold the same zones, once each.
OpenListConsistent ==
  /\ Cardinality(zm.open) <= MaxOpenZones
  /\ ToSet(zm.lru) = zm.open
  /\ Len(zm.lru) = Cardinality(zm.open)

\* Every zone the device has open is one the manager can evict.
DeviceOpenTracked == {z \in Zones : isOpen(dev.st[z])} \subseteq zm.open

\* The free list holds every EMPTY zone of the device that is not in use, once.
FreeListExact ==
  /\ ToSet(zm.free) = {z \in Zones : dev.st[z] = "EMPTY"}
  /\ Len(zm.free) = Cardinality(ToSet(zm.free))
=============================================================================
