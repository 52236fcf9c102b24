\* Two providers and the rest on one port.
SPECIFICATION Spec
CONSTANTS
  Port = 8001
  OtherPort = 9000
  Addresses = {ip1, ip2, ip3}
  Names = {typo}
  Sizes = {13, 17, 41, 125, 140}
  UdpLengths = {0, 90, 91, 100}
  HeaderWords = {0, 5, 6}
  Offsets = {0, 1}
  ip1 = ip1
  ip2 = ip2
  ip3 = ip3
  typo = typo
  p1 = p1
  p2 = p2
  rest = rest
  Sources = {p1, p2, rest}
  SourceIps <- Split
  ExcludeIps <- SplitRest
INVARIANTS TypeOK FilterIsExact WholeDatagramsOnly ProvidersAreSplit
CHECK_DEADLOCK FALSE
