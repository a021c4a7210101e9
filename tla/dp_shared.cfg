SPECIFICATION Spec
CONSTANTS
  Device = a
  Remote = b
  Tunnel = {t1, t2}
  Port = {p80, p22, p25}
  Allowed = {p80, p22}
  Decimals <- DistinctSums
  Fd <- MCFd
  Bucket <- MCBucket
  ht_key <- MCht_key
  Local = {c1, c2}
  Conn = {k1, k2}
  NULL = NULL
  MaxMsgs = 1
  MaxAnswers = 2
  MaxUp = 2
  MaxOpen = 2
  Reuse = FALSE
  MaxLosses = 1
INVARIANT ResponseToOwner RightPort
PROPERTY ImplementsSplice
SYMMETRY Interchangeable
CHECK_DEADLOCK FALSE
