SPECIFICATION Spec
CONSTANTS
  Device = a
  Remote = b
  Tunnel = {t1, t2}
  Port = {p80}
  Allowed = {p80}
  Decimals <- OneDescriptor
  Fd <- MCFd
  Bucket <- MCBucket
  ht_key <- MCht_key
  Local = {c1, c2}
  Conn = {k1, k2}
  NULL = NULL
  MaxMsgs = 2
  MaxAnswers = 1
  MaxUp = 2
  MaxOpen = 1
  Reuse = TRUE
  MaxLosses = 1
INVARIANT NeverCrashes RequestsInOrder
PROPERTY ClosedByItsEnds EndReachesBackend
CHECK_DEADLOCK FALSE
