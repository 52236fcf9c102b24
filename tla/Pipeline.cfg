\* A UDP listener that Jito direct mode spawns and that batches two frames per
\* call, and a Yellowstone stream; both gRPC tasks may hang for ever. No slot
\* range, no duration; channels of one event, three packets, each before or
\* after SO_TIMESTAMPNS is set and before or after a step of the clock.
SPECIFICATION Spec
CONSTANTS
  Slots = {1}
  StartConfigured = FALSE
  StartSlot = 0
  EndConfigured = FALSE
  EndSlot = 9
  LeaderFilter = FALSE
  LeaderSlots = {}
  SilenceTimeout = 1
  DurationSecs = 0
  GraceSecs = 0
  udp = udp
  cap = cap
  grpc = grpc
  s1 = s1
  s2 = s2
  s3 = s3
  Sources = {s1}
  Indices = {i1}
  Listeners = {udp}
  Routes <- OneUdp
  KernelStamps <- AllKernel
  BatchSize <- BatchUdp
  ClockSteps <- StepBack
  Anchor = 1
  Streams = {grpc}
  StreamSources <- NoStreams
  AccountSources = {}
  GrpcStreams = {grpc}
  DirectMode = TRUE
  DirectListeners = {udp}
  ShredCap = 1
  SlotCap = 1
  GrpcCap = 1
  MaxStamps = 3
INVARIANT SourceOrder
PROPERTIES RunEnds ControlSafety DropsMeanFullChannel
CHECK_DEADLOCK FALSE
