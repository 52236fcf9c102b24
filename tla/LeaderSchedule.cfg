\* Three epochs of three slots; every set of leader slots, every start.
SPECIFICATION Spec
CONSTANTS
  EpochLength = 3
  LastSlot = 8
INVARIANT TypeOK
PROPERTY FilterIsSchedule
CHECK_DEADLOCK FALSE
