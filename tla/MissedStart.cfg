\* Slot-range mode with a leader filter: slots 1..4, range 2..3, leader of 2.
SPECIFICATION RunSpec
CONSTANTS
  Slots = {1, 2, 3, 4}
  StartConfigured = TRUE
  StartSlot = 2
  EndConfigured = TRUE
  EndSlot = 3
  LeaderFilter = TRUE
  LeaderSlots = {2}
  SilenceTimeout = 3
  DurationSecs = 3
  GraceSecs = 2
  HistoryBound = 6
PROPERTY MissedMeansPast
