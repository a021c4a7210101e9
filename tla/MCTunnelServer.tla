--------------------------- MODULE MCTunnelServer ---------------------------
(***************************************************************************)
(* Model values for TunnelServer: descriptors in decimal and the bucket    *)
(* the code gives them, as in MCClientTable.                               *)
(***************************************************************************)
EXTENDS TunnelServer

CONSTANTS Decimals    \* the descriptors, as sequences of digits

(* Of the tables, only the sum of a key's characters is needed here. *)
H == INSTANCE Hashtable WITH Key <- {}, Value <- {}, Bucket <- {}, ht_key <- <<>>

Ascii(digits) == [i \in DOMAIN digits |-> 48 + digits[i]]

MCFd == {Ascii(d) : d \in Decimals}

MCht_key == [f \in MCFd |-> H!HtKey(f, 4096)]

MCBucket == {MCht_key[f] : f \in MCFd}

\* 14 and 15 have different digit sums
DistinctSums == {<<1, 4>>, <<1, 5>>}

\* 14 and 23 share theirs
EqualSums == {<<1, 4>>, <<2, 3>>}

AnyClient == Permutations(Client)
=============================================================================
