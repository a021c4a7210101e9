----------------------------- MODULE MCDataPath -----------------------------
(***************************************************************************)
(* Model values for DataPath: descriptors in decimal and the bucket the    *)
(* code gives them, as in MCTunnelServer.  Connections and tunnels are     *)
(* interchangeable where no property of the run is a liveness property.    *)
(***************************************************************************)
EXTENDS DataPath, TLC

CONSTANTS Decimals    \* the descriptors, as sequences of digits

(* Of the tables, only the sum of a key's characters is needed here. *)
H == INSTANCE Hashtable WITH Key <- {}, Value <- {}, Bucket <- {}, ht_key <- <<>>

Ascii(digits) == [i \in DOMAIN digits |-> 48 + digits[i]]

MCFd == {Ascii(d) : d \in Decimals}

MCht_key == [f \in MCFd |-> H!HtKey(f, 4096)]

MCBucket == {MCht_key[f] : f \in MCFd}

OneDescriptor == {<<1, 4>>}

\* 14 and 15 have different digit sums
DistinctSums == {<<1, 4>>, <<1, 5>>}

\* 14 and 23 share theirs; README.md, section 3, says what becomes of dp_shared then
EqualSums == {<<1, 4>>, <<2, 3>>}

Interchangeable == Permutations(Local) \cup Permutations(Conn) \cup Permutations(Tunnel)
                     \cup Permutations(Allowed)
=============================================================================
