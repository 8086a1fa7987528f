SPECIFICATION DevSpec
CONSTANTS
  ZoneCount = 3
  ZoneSectors = 2
  MaxOpenZones = 2
  Data = {d1, d2}
  Zero = Zero
  CloseFullFails = TRUE
INVARIANTS DevTypeOK OpenCountExact ConditionMatchesPointer ZeroAbovePointer
PROPERTY AppendOnly
