--------------------------- MODULE MCClientTable ---------------------------
(***************************************************************************)
(* Model values for ClientTable.  A key is a descriptor in decimal, as the *)
(* sequence of its character codes; the bucket is the one ht_key() gives.  *)
(* Buckets that no key maps to stay empty and are left out.                *)
(***************************************************************************)
EXTENDS ClientTable

CONSTANTS Decimals    \* the descriptors, as sequences of digits

Ascii(digits) == [i \in DOMAIN digits |-> 48 + digits[i]]

MCKey == {Ascii(d) : d \in Decimals}

\* HT_MAX in hashtable.h
MC_HT_MAX == 4096

MCht_key == [k \in MCKey |-> HtKey(k, MC_HT_MAX)]

MCBucket == {MCht_key[k] : k \in MCKey}

\* 14, 23 and 32 all share it, 15 does not
ThreeEqualSums == {<<1, 4>>, <<2, 3>>, <<3, 2>>, <<1, 5>>}
=============================================================================
