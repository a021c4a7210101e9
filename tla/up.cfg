SPECIFICATION StartupSpec
CONSTANTS
  Connects = {"connecting", "no_socket", "immediate"}
  MaxLocals = 3
  MaxRemotes = 3
  MaxQueue = 6
  Module = {hue, webcam}
  Node = {n1, n2}
  Time = {0, 1, 999}
  MaxNodes = 2
  MaxPings = 2
  NULL = NULL
INVARIANT ConnectsFromIdle NothingSendsWhileDown HandshakeAlone HangGuards DefinedUntilStop
PROPERTY LossStartsTimer FastestChosen TerminateEndsLoop
CHECK_DEADLOCK FALSE
