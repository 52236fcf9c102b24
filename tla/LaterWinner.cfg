\* The pipeline of two UDP listeners.
SPECIFICATION Safety
CONSTANTS
  Slots = {1}
  StartConfigured = FALSE
  StartSlot = 0
  EndConfigured = FALSE
  EndSlot = 9
  LeaderFilter = FALSE
  LeaderSlots = {}
  SilenceTimeout = 1
  DurationSecs = 0
  GraceSecs = 0
  udp = udp
  cap = cap
  grpc = grpc
  s1 = s1
  s2 = s2
  s3 = s3
  Sources = {s1, s2}
  Indices = {i1}
  Listeners = {udp, cap}
  Routes <- TwoUdp
  KernelStamps <- AllKernel
  BatchSize <- BatchUdp
  ClockSteps = {0}
  Anchor = 0
  Streams = {}
  StreamSources <- NoStreams
  AccountSources = {}
  GrpcStreams = {}
  DirectMode = FALSE
  DirectListeners = {}
  ShredCap = 1
  SlotCap = 1
  GrpcCap = 1
  MaxStamps = 3
INVARIANT WinnerDeliveredFirst
CHECK_DEADLOCK FALSE
