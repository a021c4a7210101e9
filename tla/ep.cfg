SPECIFICATION Spec
CONSTANTS
  Pid = {r1, r2}
  Fd = {f1, f2}
  Port = {p80, p22}
  Allowed = {p80}
  Key <- MCKey
  key_of <- MCkey_of
  Client = {c1, c2, c3}
  Body = {b1}
  Outcome = {"connecting", "no_socket", "immediate"}
  MaxBodies = 2
  MaxUp = 1
INVARIANT KeysUnique OpenIsLinked LinkedIsLive CrashNeedsDropped
PROPERTY StopsOwnConnections
CHECK_DEADLOCK FALSE
SYMMETRY AnyClient
