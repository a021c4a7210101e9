SPECIFICATION Spec
CONSTANTS
  Tunnel = {t1, t2}
  Pid = {r1}
  Port = {p80}
  Decimals <- EqualSums
  Fd <- MCFd
  Bucket <- MCBucket
  ht_key <- MCht_key
  Client = {c1, c2}
  Body = {b1}
  NULL = NULL
  MaxBodies = 1
  MaxUp = 2
INVARIANT NoOrphan
CHECK_DEADLOCK FALSE
