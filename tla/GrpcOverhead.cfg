\* Three slots, a window of one slot behind the highest.
SPECIFICATION Spec
CONSTANTS
  Slots = {1, 2, 3}
  Window = 1
  MaxClock = 3
INVARIANTS TypeOK MemoryIsBounded NeverOverstated
CHECK_DEADLOCK FALSE
