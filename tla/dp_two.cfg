SPECIFICATION Spec
CONSTANTS
  Device = a
  Remote = b
  Tunnel = {t1}
  Port = {p80}
  Allowed = {p80}
  Decimals <- DistinctSums
  Fd <- MCFd
  Bucket <- MCBucket
  ht_key <- MCht_key
  Local = {c1, c2}
  Conn = {k1, k2}
  NULL = NULL
  MaxMsgs = 1
  MaxAnswers = 1
  MaxUp = 2
  MaxOpen = 2
  Reuse = FALSE
  MaxLosses = 0
PROPERTY ClosedByItsEnds
CHECK_DEADLOCK FALSE
