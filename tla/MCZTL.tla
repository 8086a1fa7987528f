------------------------------- MODULE MCZTL -------------------------------
(* Instances of ZTL for TLC. *)
EXTENDS ZTLDisk

\* Command number and LBA make every sector written distinguishable.
MCData == (1 .. MaxCmds) \X LBAs

\* Requests for segments 0 and 1, one by one and together.
WholeSegments ==
  {<<0, SectorsPerSeg>>, <<SectorsPerSeg, SectorsPerSeg>>, <<0, 2 * SectorsPerSeg>>}

\* Requests for one segment each.
OneSegment == {<<0, SectorsPerSeg>>, <<SectorsPerSeg, SectorsPerSeg>>}
\* Segments 0, 1 and 2 one by one, the first two together.
FourRequests == {<<s * SectorsPerSeg, SectorsPerSeg>> : s \in 0 .. 2}
                  \union {<<0, 2 * SectorsPerSeg>>}
\* One segment, and that segment with the next.
Overlapping == {<<0, SectorsPerSeg>>, <<0, 2 * SectorsPerSeg>>}
\* Segments 0 and 1, segments 2 and 3, segment 0 alone.
TwoPairs == {<<0, 2 * SectorsPerSeg>>, <<2 * SectorsPerSeg, 2 * SectorsPerSeg>>,
             <<0, SectorsPerSeg>>}
\* Three zones' worth: two full zones and half of a third.
ThreeZones == {<<0, 2 * SectorsPerSeg>>, <<2 * SectorsPerSeg, 2 * SectorsPerSeg>>,
               <<4 * SectorsPerSeg, SectorsPerSeg>>}
\* The first segment, and the last one with the one behind the table's end.
TableEnd == {<<0, SectorsPerSeg>>, <<Capacity - SectorsPerSeg, 2 * SectorsPerSeg>>}
\* Segment 0, segments 0 and 1, and a segment behind the table's end.
OverlappingAndBeyond == Overlapping \union {<<Capacity, SectorsPerSeg>>}
\* A segment, and its last sector.
PartSegment == {<<0, SectorsPerSeg>>, <<SectorsPerSeg - 1, 1>>}
=============================================================================
