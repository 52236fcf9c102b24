\* Two sources, two shreds of one slot in two segments, three instants; the
\* aggregator may be left behind.
SPECIFICATION Spec
CONSTANTS
  i1 = i1
  i2 = i2
  Sources = {s1, s2}
  Slots = {1}
  Indices = {i1, i2}
  Instants = {1, 2, 3}
  MaxEvents = 3
  Segments = 2
  ShredSegment <- Spread
  SlotSegment <- OneSlot
SYMMETRY AnySource
INVARIANTS MeasurementTypeOK SlotFloor EntryIsEarliest ReportIsGenerous ReportIsCurrent CoverageAddsUp LogConfirmsReport PercentilesAreRanks EntriesAreHonest
CHECK_DEADLOCK FALSE
