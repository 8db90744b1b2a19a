SPECIFICATION Spec
CONSTANTS
  s1 = s1
  Senders = {s1}
  Window = 2
  HostMessages = 2
  MaxSends = 2
  MaxTries = 1
  MaxBatch = 2
  MaxFaults = 1
INVARIANTS
  TransitExact
  NothingLost
  FinalTraffic
PROPERTIES
  GoneReported
