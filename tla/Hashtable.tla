----------------------------- MODULE Hashtable -----------------------------
(***************************************************************************)
(* hashtable.c: a fixed array of buckets, each a linked list of entries,   *)
(* newest first.  The operators take a table and return the table (or the  *)
(* entry) the C function leaves (or returns).  The allocation of copies is *)
(* left out: both callers store a bare pointer (HT_ADD_WA).                *)
(***************************************************************************)
EXTENDS Naturals, SequencesExt

CONSTANTS Key,       \* the strings used as keys
          Value,     \* the pointers stored under them
          Bucket,    \* the indexes of the array, 0..HT_MAX-1
          ht_key,    \* the bucket of a key
          NULL       \* ht_get's answer when there is no entry

(* struct ht_s without its link: the chain is the sequence. *)
Entry == [k : Key, s : Value]

ASSUME HashAssumption == /\ ht_key \in [Key -> Bucket]
                         /\ NULL \notin Entry
                         /\ NULL \notin Value

(* The body of ht_key(): the sum of the characters modulo HT_MAX.  Two     *)
(* decimal strings of one length and one digit sum get the same bucket.    *)
HtKey(chars, HT_MAX) == FoldLeft(LAMBDA sum, c : sum + c, 0, chars) % HT_MAX

HtInit == [b \in Bucket |-> <<>>]

Chain(ht, key) == ht[ht_key[key]]

(* The position of key in its chain, 0 when it is not there. *)
Position(ht, key) == SelectInSeq(Chain(ht, key), LAMBDA e : e.k = key)

IsStored(ht, key) == \E i \in DOMAIN Chain(ht, key) : Chain(ht, key)[i].k = key

(* Variants of the three operations with a bug each, as ClientTable's      *)
(* properties must notice: each looks at the head of the chain only.       *)
HtAddAtHead(ht, key, value) ==
  [ht EXCEPT ![ht_key[key]] =
     IF @ # <<>> THEN [@ EXCEPT ![1].s = value] ELSE <<[k |-> key, s |-> value]>>]

HtRemNotHead(ht, key) ==
  IF Position(ht, key) > 1
  THEN [ht EXCEPT ![ht_key[key]] = RemoveAt(@, Position(ht, key))]
  ELSE ht

HtGetAtHead(ht, key) ==
  IF Chain(ht, key) # <<>> /\ Head(Chain(ht, key)).k = key
  THEN Head(Chain(ht, key))
  ELSE NULL

(* An existing key is overwritten in place, a new one becomes the head. *)
HtAdd(ht, key, value) ==
  [ht EXCEPT ![ht_key[key]] =
     IF IsStored(ht, key)
     THEN [@ EXCEPT ![Position(ht, key)].s = value]
     ELSE Cons([k |-> key, s |-> value], @)]

(* The entry is unlinked from its chain and freed; then ht[index] = NULL   *)
(* drops whatever the chain still held.                                    *)
HtRem(ht, key) ==
  IF IsStored(ht, key) THEN [ht EXCEPT ![ht_key[key]] = <<>>] ELSE ht

(* A chain of one entry is returned without comparing its key. *)
HtGet(ht, key) ==
  CASE Len(Chain(ht, key)) = 1 -> Chain(ht, key)[1]
    [] Len(Chain(ht, key)) # 1 /\ IsStored(ht, key) -> Chain(ht, key)[Position(ht, key)]
    [] OTHER -> NULL
=============================================================================
