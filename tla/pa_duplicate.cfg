SPECIFICATION Spec
CONSTANTS
  d1 = d1
  d2 = d2
  Device = {d1}
  Pid = {p1}
  NTunnels = 1
  device <- OneDevice
  port <- OnePort
  port_local <- OnePortLocal
  Ephemeral = {}
  NULL = NULL
  BindFails = FALSE
  MaxAsked = 2
INVARIANT AnswersStopNothing
CHECK_DEADLOCK FALSE
