SPECIFICATION Spec
CONSTANTS
  Decimals <- ThreeEqualSums
  Key <- MCKey
  Bucket <- MCBucket
  ht_key <- MCht_key
  Value = {c1, c2, c3}
  NULL = NULL
INVARIANT NoFreedClient
PROPERTY LookupFindsStored ImplementsMap
