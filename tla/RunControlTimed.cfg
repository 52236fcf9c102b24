\* Timed mode: no slot range, no leader filter.
SPECIFICATION FairRunSpec
CONSTANTS
  Slots = {1}
  StartConfigured = FALSE
  StartSlot = 0
  EndConfigured = FALSE
  EndSlot = 9
  LeaderFilter = FALSE
  LeaderSlots = {}
  SilenceTimeout = 3
  DurationSecs = 4
  GraceSecs = 2
  HistoryBound = 6
PROPERTY DurationStopsTheRun
