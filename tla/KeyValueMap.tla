---------------------------- MODULE KeyValueMap ----------------------------
(***************************************************************************)
(* What a caller of hashtable.h can rely on: a map, except that keys that  *)
(* are peers may be confused.  Adding a pair binds the key and no other;   *)
(* removing a key unbinds it, and may unbind peers of it; a lookup returns *)
(* the value bound to the key, and for a key that is not bound nothing or  *)
(* the value of a peer.  When no key has a peer, this is the map that the  *)
(* comments of hashtable.h describe.  given is what the caller asked for,  *)
(* so that no request can pass for another one, or for none.               *)
(***************************************************************************)
CONSTANTS Key,      \* what a pair is stored under
          Value,    \* what is stored
          None,     \* the answer for a key that is not bound, not a Value
          peers     \* Key -> the keys it may be confused with

VARIABLES given,    \* Key -> the Value last added, None once it was removed
          map,      \* Key -> Value, or None where unbound
          found     \* the answer to the last lookup

vars == <<given, map, found>>

Init == /\ given = [k \in Key |-> None]
        /\ map = [k \in Key |-> None]
        /\ found = None

Add(k, v) == /\ given' = [given EXCEPT ![k] = v]
             /\ map' = [map EXCEPT ![k] = v]
             /\ UNCHANGED found

Rem(k) == \E lost \in SUBSET peers[k] :
            /\ given' = [given EXCEPT ![k] = None]
            /\ map' = [j \in Key |-> IF j = k \/ j \in lost THEN None ELSE map[j]]
            /\ UNCHANGED found

Get(k) == /\ \/ found' = map[k]
             \/ map[k] = None /\ \E j \in peers[k] : found' = map[j]
          /\ UNCHANGED <<given, map>>

Next == \E k \in Key : \/ \E v \in Value : Add(k, v)
                       \/ Rem(k)
                       \/ Get(k)

Spec == Init /\ [][Next]_vars
=============================================================================
