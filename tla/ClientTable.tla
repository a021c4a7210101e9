---------------------------- MODULE ClientTable ----------------------------
(***************************************************************************)
(* The clients table of one TCP server, as its callers use it:             *)
(* connector_addclient() when a connection is accepted,                    *)
(* async_client_shutdown() when it ends, and tunnel_client_find() for the  *)
(* descriptor named by any message that arrives from the relay, whether or *)
(* not a connection with that descriptor is open.                          *)
(***************************************************************************)
EXTENDS Hashtable

VARIABLES ht,       \* cs->clients
          open,     \* descriptor -> client structure, for open connections
          found     \* what the last ht_get returned

vars == <<ht, open, found>>

TypeOK == /\ ht \in [Bucket -> Seq(Entry)]
          /\ open \in [Key -> Value \cup {NULL}]
          /\ found \in Entry \cup {NULL}

Init == /\ ht = HtInit
        /\ open = [k \in Key |-> NULL]
        /\ found = NULL

(* accept() returned descriptor fd, which therefore was not in use. *)
connector_addclient(fd, client) ==
  /\ open[fd] = NULL
  /\ \A k \in Key : open[k] # client
  /\ ht' = HtAdd(ht, fd, client)
  /\ open' = [open EXCEPT ![fd] = client]
  /\ UNCHANGED found

(* The end of async_client_shutdown(): close, then ht_rem. *)
client_removed(fd) ==
  /\ open[fd] # NULL
  /\ ht' = HtRem(ht, fd)
  /\ open' = [open EXCEPT ![fd] = NULL]
  /\ UNCHANGED found

client_lookup(fd) ==
  /\ found' = HtGet(ht, fd)
  /\ UNCHANGED <<ht, open>>

Next == \E fd \in Key : \/ \E client \in Value : connector_addclient(fd, client)
                        \/ client_removed(fd)
                        \/ client_lookup(fd)

Spec == Init /\ [][Next]_vars
-----------------------------------------------------------------------------
(* The map a table stands for. *)
Content(t) == [k \in Key |-> IF IsStored(t, k) THEN Chain(t, k)[Position(t, k)].s
                                               ELSE NULL]

FoundValue == IF found = NULL THEN NULL ELSE found.s

(* The keys that share a bucket with a key. *)
Peers == [k \in Key |-> {j \in Key \ {k} : ht_key[j] = ht_key[k]}]

Map == INSTANCE KeyValueMap
         WITH given <- open, map <- Content(ht), found <- FoundValue, None <- NULL, peers <- Peers

(* Whatever ht_key() returns, the table behaves as a map in which only     *)
(* keys of one bucket are confused: ht_add binds its key and no other,     *)
(* ht_rem never leaves its key bound nor touches another bucket, and       *)
(* ht_get answers for the key whenever that key is bound.  What the caller *)
(* gave is what is open: accept() and close() say so apart from the table. *)
ImplementsMap == Map!Spec

(* Every entry sits in the bucket of its key and no key sits in a chain    *)
(* twice, so that an overwrite or an unlink meets the only entry there is. *)
WellFormed(t) ==
  \A b \in Bucket : \A i \in DOMAIN t[b] :
    /\ ht_key[t[b][i].k] = b
    /\ \A j \in DOMAIN t[b] : t[b][i].k = t[b][j].k => i = j

ChainsOK == WellFormed(ht)

(* The table never holds a client structure that was freed: what is stored *)
(* under a descriptor is the connection that is open on it.  Lookups and   *)
(* async_server_shutdown() dereference what they find.                     *)
NoFreedClient ==
  \A b \in Bucket : \A i \in DOMAIN ht[b] : open[ht[b][i].k] = ht[b][i].s

(* The inductive invariant behind the theorems of ClientTable_proofs. *)
TableInv == TypeOK /\ ChainsOK /\ NoFreedClient

(* A lookup that finds something finds an entry of the table, never one    *)
(* that was unlinked, and a lookup of a stored key finds that key.         *)
LookupFindsStored ==
  [][\A fd \in Key : client_lookup(fd) /\ IsStored(ht, fd)
       => found' # NULL /\ found'.k = fd /\ found'.s = open[fd]]_vars
=============================================================================
