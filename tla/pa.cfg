SPECIFICATION Spec
CONSTANTS
  d1 = d1
  d2 = d2
  Device = {d1, d2}
  Pid = {p1, p2}
  NTunnels = 3
  device <- MixedDevice
  port <- MixedPort
  port_local <- MixedPortLocal
  Ephemeral = {40001, 40002}
  NULL = NULL
  BindFails = TRUE
  MaxAsked = 3
INVARIANT PairedIsListening ListeningIsPaired FilesMatchPairs
PROPERTY PairsEventually
CHECK_DEADLOCK FALSE
