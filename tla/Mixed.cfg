\* A capture socket of two sources with userland timestamps next to a
\* Yellowstone stream with an account subscription; range mode from slot 1.
SPECIFICATION Safety
CONSTANTS
  Slots = {1, 2}
  StartConfigured = TRUE
  StartSlot = 1
  EndConfigured = FALSE
  EndSlot = 9
  LeaderFilter = FALSE
  LeaderSlots = {}
  SilenceTimeout = 1
  DurationSecs = 0
  GraceSecs = 0
  udp = udp
  cap = cap
  grpc = grpc
  s1 = s1
  s2 = s2
  s3 = s3
  Sources = {s1, s2, s3}
  Indices = {i1}
  Listeners = {cap}
  Routes <- Capture
  KernelStamps <- Userland
  BatchSize <- BatchUdp
  ClockSteps = {0}
  Anchor = 0
  Streams = {grpc}
  StreamSources <- StreamOf_s3
  AccountSources = {s3}
  GrpcStreams = {grpc}
  DirectMode = FALSE
  DirectListeners = {}
  ShredCap = 2
  SlotCap = 1
  GrpcCap = 1
  MaxStamps = 2
INVARIANTS TypeOK Accounting RangeIsWhole
PROPERTY ImplementsLedger
CHECK_DEADLOCK FALSE
