------------------------ MODULE TunnelServer_proofs ------------------------
(***************************************************************************)
(* Proofs about the tunnels and the tables of their servers, for every set *)
(* of tunnels, clients and descriptors.                                    *)
(*                                                                         *)
(* What is stored is open, whatever the hash: TablesOK.  That what is open *)
(* is stored is what the end of a server relies on, and holds only as long *)
(* as no two descriptors share a bucket.                                   *)
(***************************************************************************)
EXTENDS TunnelServer, SeqLemmas

Shape == /\ tunnels \in Seq(Tunnel)
         /\ info \in [Tunnel -> [pid : Pid, port_remote : Port] \cup {NULL}]
         /\ listening \in [Tunnel -> BOOLEAN]
         /\ clients \in [Tunnel -> [Bucket -> Seq(Entry)]]
         /\ st \in [Client -> {"unused", "open", "freed"}]
         /\ fd \in [Client -> Fd \cup {NULL}]
         /\ parent \in [Client -> Tunnel \cup {NULL}]

(* e may be in chain b of t's table. *)
Sound(t, b, e) ==
  ht_key[e.k] = b /\ Linked(t) /\ Open(e.s) /\ fd[e.s] = e.k /\ parent[e.s] = t

TablesOK == \A t \in Tunnel, b \in Bucket : \A i \in DOMAIN clients[t][b] :
              Sound(t, b, clients[t][b][i])

TunnelInv == Shape /\ TablesOK
-----------------------------------------------------------------------------
(* What ht_add leaves in the bucket of a key that is not stored. *)
LEMMA AddedChain ==
  ASSUME NEW ht \in [Bucket -> Seq(Entry)], NEW f \in Fd, NEW c \in Client, ~IsStored(ht, f)
  PROVE  /\ HtAdd(ht, f, c) \in [Bucket -> Seq(Entry)]
         /\ HtAdd(ht, f, c)[ht_key[f]] = Cons([k |-> f, s |-> c], ht[ht_key[f]])
         /\ \A b \in Bucket \ {ht_key[f]} : HtAdd(ht, f, c)[b] = ht[b]
<1>1. ht_key[f] \in Bucket /\ [k |-> f, s |-> c] \in Entry
  BY TunnelAssumption DEF Entry
<1>2. Cons([k |-> f, s |-> c], ht[ht_key[f]]) \in Seq(Entry)
  BY <1>1, ConsProperties
<1>3. QED
  BY <1>1, <1>2 DEF HtAdd, Chain

(* What ht_rem leaves: some chains, and not that of its key. *)
LEMMA RemovedChain ==
  ASSUME NEW ht \in [Bucket -> Seq(Entry)], NEW f
  PROVE  /\ HtRem(ht, f) \in [Bucket -> Seq(Entry)]
         /\ \A b \in Bucket : HtRem(ht, f)[b] = ht[b] \/ HtRem(ht, f)[b] = <<>>
         /\ \A b \in Bucket : b # ht_key[f] => HtRem(ht, f)[b] = ht[b]
         /\ \A i \in DOMAIN ht[ht_key[f]] :
              ht[ht_key[f]][i].k = f => HtRem(ht, f)[ht_key[f]] = <<>> \/ ht_key[f] \notin Bucket
<1>1. <<>> \in Seq(Entry)
  BY EmptySeq
<1>2. QED
  BY <1>1 DEF HtRem, IsStored, Chain

(* An entry of a table is one. *)
LEMMA EntryInTable ==
  ASSUME Shape, NEW t \in Tunnel, NEW b \in Bucket, NEW i \in DOMAIN clients[t][b]
  PROVE  clients[t][b][i] \in Entry /\ clients[t][b][i].k \in Fd
                                    /\ clients[t][b][i].s \in Client
<1>1. clients[t][b] \in Seq(Entry)
  BY DEF Shape
<1>2. clients[t][b][i] \in Entry
  BY <1>1, ElementOfSeq, LenProperties
<1>3. QED
  BY <1>2 DEF Entry

(* The tunnels of the list. *)
LEMMA ListedTunnels == ASSUME Shape PROVE Listed \subseteq Tunnel
  BY LenProperties, ElementOfSeq DEF Shape, Listed, Range

(* The step leaves client c of tunnel t open, where it was. *)
Kept(t, c) == t \in Listed' /\ st'[c] = "open" /\ fd'[c] = fd[c] /\ parent'[c] = parent[c]

(* Whatever a step keeps of the tables may stay if it keeps the clients    *)
(* and the tunnels that are in them.                                       *)
LEMMA KeepsTables ==
  ASSUME TunnelInv, Shape',
         \A t \in Tunnel, b \in Bucket : clients'[t][b] = clients[t][b] \/ clients'[t][b] = <<>>,
         \A t \in Tunnel, b \in Bucket : \A i \in DOMAIN clients[t][b] :
           clients'[t][b] # <<>> => Kept(t, clients[t][b][i].s)
  PROVE  TunnelInv'
<1>1. SUFFICES ASSUME NEW t \in Tunnel, NEW b \in Bucket, NEW i \in DOMAIN clients'[t][b]
               PROVE  /\ ht_key[clients'[t][b][i].k] = b
                      /\ t \in Listed' /\ st'[clients'[t][b][i].s] = "open"
                      /\ fd'[clients'[t][b][i].s] = clients'[t][b][i].k
                      /\ parent'[clients'[t][b][i].s] = t
  BY DEF TunnelInv, TablesOK, Sound, Linked, Open
<1>2. clients'[t][b] # <<>>
  BY <1>1
<1>3. clients'[t][b] = clients[t][b]
  BY <1>2
<1>4. Sound(t, b, clients[t][b][i]) /\ Kept(t, clients[t][b][i].s)
  BY <1>1, <1>2, <1>3 DEF TunnelInv, TablesOK
<1>5. QED
  BY <1>3, <1>4 DEF Sound, Kept, Open

(* Nothing in the tables, or of what they say, is changed. *)
LEMMA TablesUnchanged ==
  ASSUME TunnelInv, UNCHANGED <<lists, clients, st, fd, parent>> PROVE TunnelInv'
<1>1. Shape'
  BY DEF TunnelInv, Shape, lists
<1>2. TablesOK'
  BY DEF TunnelInv, TablesOK, Sound, Linked, Listed, Open, lists
<1>3. QED
  BY <1>1, <1>2 DEF TunnelInv

(* gc_tunnel_add() links a tunnel, with or without a server. *)
LEMMA AddStep ==
  ASSUME TunnelInv, NEW pid \in Pid, NEW port \in Port, NEW forced \in BOOLEAN,
         gc_tunnel_add(pid, port, forced)
  PROVE  TunnelInv'
<1>1. PICK t \in Tunnel :
        /\ IF forced THEN UNCHANGED <<listening, clients>> ELSE async_server(t)
        /\ tunnels' = Cons(t, tunnels)
        /\ info' = [info EXCEPT ![t] = [pid |-> pid, port_remote |-> port]]
  BY DEF gc_tunnel_add
<1>2. UNCHANGED <<st, fd, parent>>
  BY DEF gc_tunnel_add
<1>3. HtInit \in [Bucket -> Seq(Entry)] /\ \A b \in Bucket : HtInit[b] = <<>>
  BY EmptySeq DEF HtInit
<1>4. /\ clients' \in [Tunnel -> [Bucket -> Seq(Entry)]]
      /\ listening' \in [Tunnel -> BOOLEAN]
      /\ \A u \in Tunnel, b \in Bucket : clients'[u][b] = clients[u][b] \/ clients'[u][b] = <<>>
  BY <1>1, <1>3 DEF TunnelInv, Shape, async_server
<1>5. tunnels' \in Seq(Tunnel) /\ Listed \subseteq Listed'
  <2>1. tunnels \in Seq(Tunnel) /\ Len(tunnels) \in Nat /\ DOMAIN tunnels = 1..Len(tunnels)
    BY LenProperties DEF TunnelInv, Shape
  <2>2. /\ tunnels' \in Seq(Tunnel)
        /\ Len(tunnels') = Len(tunnels) + 1
        /\ \A i \in 2..(Len(tunnels) + 1) : tunnels'[i] = tunnels[i - 1]
    <3>1. /\ Cons(t, tunnels) \in Seq(Tunnel)
          /\ Len(Cons(t, tunnels)) = Len(tunnels) + 1
          /\ \A i \in 2..(Len(tunnels) + 1) : Cons(t, tunnels)[i] = tunnels[i - 1]
      BY <2>1, ConsProperties
    <3>2. tunnels' = Cons(t, tunnels)
      BY <1>1
    <3>3. QED
      BY <3>1, <3>2
  <2>3. \A i \in DOMAIN tunnels : i + 1 \in DOMAIN tunnels' /\ tunnels'[i + 1] = tunnels[i]
    <3>1. DOMAIN tunnels' = 1..(Len(tunnels) + 1)
      BY <2>1, <2>2, LenProperties
    <3>2. QED
      BY <2>1, <2>2, <3>1
  <2>4. QED
    BY <2>2, <2>3 DEF Listed, Range
<1>6. info' \in [Tunnel -> [pid : Pid, port_remote : Port] \cup {NULL}]
  BY <1>1 DEF TunnelInv, Shape
<1>7. Shape'
  BY <1>2, <1>4, <1>5, <1>6 DEF TunnelInv, Shape
<1>8. ASSUME NEW u \in Tunnel, NEW b \in Bucket, NEW i \in DOMAIN clients[u][b]
      PROVE  Kept(u, clients[u][b][i].s)
  <2>1. Sound(u, b, clients[u][b][i])
    BY DEF TunnelInv, TablesOK
  <2>2. QED
    BY <1>2, <1>5, <2>1 DEF Sound, Kept, Linked, Open
<1>9. QED
  BY <1>4, <1>7, <1>8, KeepsTables

(* An accepted client is stored under its descriptor, which no client that *)
(* is open has, so that nothing is overwritten.                            *)
LEMMA AcceptStores ==
  ASSUME TunnelInv, NEW t \in Tunnel, NEW f \in Fd, NEW c \in Client,
         \A d \in Client : Open(d) => fd[d] # f,
         connector_addclient(t, f, c)
  PROVE  /\ clients' \in [Tunnel -> [Bucket -> Seq(Entry)]]
         /\ clients'[t][ht_key[f]] = Cons([k |-> f, s |-> c], clients[t][ht_key[f]])
         /\ \A u \in Tunnel, b \in Bucket : u # t \/ b # ht_key[f] => clients'[u][b] = clients[u][b]
         /\ \A i \in DOMAIN clients[t][ht_key[f]] : clients[t][ht_key[f]][i].k # f
<1>1. ht_key[f] \in Bucket /\ clients[t] \in [Bucket -> Seq(Entry)]
  BY TunnelAssumption DEF TunnelInv, Shape
<1>2. ASSUME NEW i \in DOMAIN clients[t][ht_key[f]] PROVE clients[t][ht_key[f]][i].k # f
  BY <1>1, EntryInTable DEF TunnelInv, TablesOK, Sound
<1>3. ~IsStored(clients[t], f)
  BY <1>2 DEF IsStored, Chain
<1>4. clients' = [clients EXCEPT ![t] = HtAdd(clients[t], f, c)]
  BY DEF connector_addclient
<1> DEFINE new == HtAdd(clients[t], f, c)
<1>5. /\ new \in [Bucket -> Seq(Entry)]
      /\ new[ht_key[f]] = Cons([k |-> f, s |-> c], clients[t][ht_key[f]])
      /\ \A b \in Bucket \ {ht_key[f]} : new[b] = clients[t][b]
  BY <1>1, <1>3, AddedChain
<1> HIDE DEF new
<1>6. clients' = [clients EXCEPT ![t] = new]
  BY <1>4 DEF new
<1>7. QED
  BY <1>1, <1>2, <1>5, <1>6 DEF TunnelInv, Shape

(* server_async_client() makes an unused client one of t's. *)
LEMMA AcceptStep ==
  ASSUME TunnelInv, NEW t \in Tunnel, NEW f \in Fd, server_async_client(t, f)
  PROVE  TunnelInv'
<1>1. PICK c \in Client : /\ st[c] = "unused"
                          /\ st' = [st EXCEPT ![c] = "open"]
                          /\ fd' = [fd EXCEPT ![c] = f]
                          /\ parent' = [parent EXCEPT ![c] = t]
                          /\ connector_addclient(t, f, c)
  BY DEF server_async_client
<1>2. /\ tunnels' = tunnels /\ info' = info /\ listening' = listening
      /\ Linked(t) /\ \A d \in Client : Open(d) => fd[d] # f
  BY DEF server_async_client, lists
<1> DEFINE h == ht_key[f]
           e == [k |-> f, s |-> c]
<1>3. /\ clients' \in [Tunnel -> [Bucket -> Seq(Entry)]]
      /\ clients'[t][h] = Cons(e, clients[t][h])
      /\ \A u \in Tunnel, b \in Bucket : u # t \/ b # h => clients'[u][b] = clients[u][b]
  BY <1>1, <1>2, AcceptStores
<1>4. h \in Bucket /\ e \in Entry /\ e.k = f /\ e.s = c
  BY TunnelAssumption DEF Entry
<1>5. Shape'
  BY <1>1, <1>2, <1>3 DEF TunnelInv, Shape
<1>6. ASSUME NEW u \in Tunnel, NEW b \in Bucket, NEW i \in DOMAIN clients[u][b]
      PROVE  Sound(u, b, clients[u][b][i]) /\ Kept(u, clients[u][b][i].s)
  <2>1. Sound(u, b, clients[u][b][i]) /\ clients[u][b][i].s \in Client
    BY EntryInTable DEF TunnelInv, TablesOK
  <2>2. clients[u][b][i].s # c
    BY <1>1, <2>1 DEF Sound, Open
  <2>3. QED
    <3>1. /\ st'[clients[u][b][i].s] = st[clients[u][b][i].s]
          /\ fd'[clients[u][b][i].s] = fd[clients[u][b][i].s]
          /\ parent'[clients[u][b][i].s] = parent[clients[u][b][i].s]
      BY <1>1, <2>1, <2>2 DEF TunnelInv, Shape
    <3>2. Listed' = Listed
      BY <1>2 DEF Listed
    <3>3. QED
      BY <2>1, <3>1, <3>2 DEF Sound, Kept, Linked, Open
<1> HIDE DEF h, e
<1>7. \A u \in Tunnel, b \in Bucket : \A i \in DOMAIN clients'[u][b] :
        \/ i \in DOMAIN clients[u][b] /\ clients'[u][b][i] = clients[u][b][i]
        \/ i - 1 \in DOMAIN clients[u][b] /\ clients'[u][b][i] = clients[u][b][i - 1]
        \/ u = t /\ b = h /\ clients'[u][b][i] = e
  <2>1. SUFFICES ASSUME NEW i \in DOMAIN clients'[t][h]
                 PROVE  \/ i - 1 \in DOMAIN clients[t][h]
                           /\ clients'[t][h][i] = clients[t][h][i - 1]
                        \/ clients'[t][h][i] = e
    BY <1>3
  <2> DEFINE old == clients[t][h]
  <2>2. old \in Seq(Entry) /\ Len(old) \in Nat /\ DOMAIN old = 1..Len(old)
    BY <1>4, LenProperties DEF TunnelInv, Shape
  <2> HIDE DEF old
  <2>3. /\ DOMAIN Cons(e, old) = 1..(Len(old) + 1)
        /\ Cons(e, old)[1] = e
        /\ \A j \in 2..(Len(old) + 1) : Cons(e, old)[j] = old[j - 1]
    BY <1>4, <2>2, ConsProperties, LenProperties
  <2>4. clients'[t][h] = Cons(e, old)
    BY <1>3 DEF old
  <2>5. i = 1 \/ (i \in 2..(Len(old) + 1) /\ i - 1 \in 1..Len(old))
    BY <2>2, <2>3, <2>4
  <2>6. QED
    BY <2>2, <2>3, <2>4, <2>5 DEF old
<1>8. ASSUME NEW u \in Tunnel, NEW b \in Bucket, NEW i \in DOMAIN clients'[u][b],
             NEW x, x = clients'[u][b][i]
      PROVE  /\ ht_key[x.k] = b /\ u \in Listed' /\ st'[x.s] = "open"
             /\ fd'[x.s] = x.k /\ parent'[x.s] = u
  <2>1. CASE \E j \in DOMAIN clients[u][b] : x = clients[u][b][j]
    <3>1. PICK j \in DOMAIN clients[u][b] : x = clients[u][b][j]
      BY <2>1
    <3>2. Sound(u, b, x) /\ Kept(u, x.s)
      BY <1>6, <3>1
    <3>3. QED
      BY <3>2 DEF Sound, Kept
  <2>2. CASE u = t /\ b = h /\ x = e
    BY <1>1, <1>2, <1>4, <2>2 DEF h, e, Linked, Listed, TunnelInv, Shape
  <2>3. QED
    BY <1>7, <1>8, <2>1, <2>2
<1>9. TablesOK'
  BY <1>8 DEF TablesOK, Sound, Linked, Open
<1>10. QED
  BY <1>5, <1>9 DEF TunnelInv

(* A client that ends leaves its table, with whatever shares its chain. *)
LEMMA ErrorStep == ASSUME TunnelInv, NEW c \in Client, client_error(c) PROVE TunnelInv'
<1>1. CASE Linked(parent[c])
  <2>1. /\ UNCHANGED <<tunnels, info, listening, fd, parent>>
        /\ FreeClients({c})
        /\ clients' = [clients EXCEPT ![parent[c]] = HtRem(clients[parent[c]], fd[c])]
    BY <1>1 DEF client_error, lists
  <2>2. parent[c] \in Tunnel
    BY <1>1, ListedTunnels DEF Linked, TunnelInv
  <2> DEFINE p   == parent[c]
             old == clients[p]
             new == HtRem(old, fd[c])
  <2>3. old \in [Bucket -> Seq(Entry)]
    BY <2>2 DEF TunnelInv, Shape
  <2>4. /\ new \in [Bucket -> Seq(Entry)]
        /\ \A b \in Bucket : new[b] = old[b] \/ new[b] = <<>>
        /\ \A i \in DOMAIN old[ht_key[fd[c]]] :
             old[ht_key[fd[c]]][i].k = fd[c] => new[ht_key[fd[c]]] = <<>>
                                                \/ ht_key[fd[c]] \notin Bucket
    <3> HIDE DEF old
    <3>1. \A f : /\ HtRem(old, f) \in [Bucket -> Seq(Entry)]
                 /\ \A b \in Bucket : HtRem(old, f)[b] = old[b] \/ HtRem(old, f)[b] = <<>>
                 /\ \A i \in DOMAIN old[ht_key[f]] :
                      old[ht_key[f]][i].k = f => HtRem(old, f)[ht_key[f]] = <<>>
                                                 \/ ht_key[f] \notin Bucket
      BY <2>3, RemovedChain
    <3>2. QED
      BY <3>1
  <2> HIDE DEF new
  <2>5. clients' = [clients EXCEPT ![p] = new]
    BY <2>1 DEF new
  <2>6. st' = [d \in Client |-> IF d = c THEN "freed" ELSE st[d]]
    BY <2>1 DEF FreeClients
  <2>7. Shape'
    BY <2>1, <2>4, <2>5, <2>6 DEF TunnelInv, Shape
  <2>8. \A t \in Tunnel, b \in Bucket : clients'[t][b] = clients[t][b] \/ clients'[t][b] = <<>>
    BY <2>2, <2>4, <2>5 DEF TunnelInv, Shape
  <2>9. ASSUME NEW t \in Tunnel, NEW b \in Bucket, NEW i \in DOMAIN clients[t][b],
               clients'[t][b] # <<>>
        PROVE  Kept(t, clients[t][b][i].s)
    <3>1. Sound(t, b, clients[t][b][i]) /\ clients[t][b][i].s \in Client
      BY EntryInTable DEF TunnelInv, TablesOK
    <3>2. clients[t][b][i].s # c
      <4>1. SUFFICES ASSUME clients[t][b][i].s = c PROVE FALSE
        OBVIOUS
      <4>2. t = p /\ b = ht_key[fd[c]] /\ clients[t][b][i].k = fd[c]
        BY <3>1, <4>1 DEF Sound
      <4>3. new[b] = <<>>
        BY <2>4, <4>2
      <4>4. QED
        BY <2>2, <2>5, <2>9, <4>2, <4>3 DEF TunnelInv, Shape
    <3>3. st'[clients[t][b][i].s] = st[clients[t][b][i].s]
      BY <2>6, <3>1, <3>2
    <3>4. Listed' = Listed
      BY <2>1 DEF Listed
    <3>5. QED
      BY <2>1, <3>1, <3>3, <3>4 DEF Sound, Kept, Linked, Open
  <2>10. QED
    BY <2>7, <2>8, <2>9, KeepsTables
<1>2. CASE ~Linked(parent[c])
  BY <1>2, TablesUnchanged DEF client_error
<1>3. QED
  BY <1>1, <1>2

(* What the stop of tunnels takes from their tables is open there. *)
LEMMA StoppedWereOpen ==
  ASSUME TunnelInv, NEW gone \in SUBSET Listed, NEW c \in Stopped(gone)
  PROVE  Open(c) /\ parent[c] \in gone
<1>0. PICK t \in gone : \E b \in Used(t) : c = clients[t][b][1].s
  BY DEF Stopped, HeadOf
<1>1. PICK b \in Used(t) : c = clients[t][b][1].s
  BY <1>0
<1>2. t \in Tunnel /\ b \in Bucket /\ clients[t][b] # <<>>
  BY ListedTunnels DEF TunnelInv, Used
<1>3. 1 \in DOMAIN clients[t][b]
  <2>1. clients[t][b] \in Seq(Entry)
    BY <1>2 DEF TunnelInv, Shape
  <2>2. QED
    BY <1>2, <2>1, EmptySeq, LenProperties
<1>4. QED
  BY <1>1, <1>2, <1>3 DEF TunnelInv, TablesOK, Sound

(* What is left in a list of which the tunnels of gone are taken. *)
LEMMA StopUnlinks ==
  ASSUME TunnelInv, NEW gone \in SUBSET Listed, StopTunnels(gone)
  PROVE  tunnels' \in Seq(Tunnel) /\ Listed' = Listed \ gone
<1>1. tunnels' = Among(tunnels, Tunnel \ gone)
  BY DEF StopTunnels
<1>2. /\ Among(tunnels, Tunnel \ gone) \in Seq(Tunnel)
      /\ Range(Among(tunnels, Tunnel \ gone)) = Range(tunnels) \cap (Tunnel \ gone)
  BY AmongProperties DEF TunnelInv, Shape
<1>3. Listed \subseteq Tunnel
  BY ListedTunnels DEF TunnelInv
<1>4. QED
  BY <1>1, <1>2, <1>3 DEF Listed

(* The tables of the stopped tunnels are empty, and no other table holds a *)
(* client of theirs.                                                       *)
LEMMA StopStep ==
  ASSUME TunnelInv, NEW gone \in SUBSET Listed, StopTunnels(gone) PROVE TunnelInv'
<1>1. /\ UNCHANGED <<info, listening, fd, parent>>
      /\ st' = [c \in Client |-> IF c \in Stopped(gone) THEN "freed" ELSE st[c]]
      /\ clients' = [t \in Tunnel |-> IF t \in gone THEN HtInit ELSE clients[t]]
  BY DEF StopTunnels, FreeClients
<1>2. HtInit \in [Bucket -> Seq(Entry)] /\ \A b \in Bucket : HtInit[b] = <<>>
  BY EmptySeq DEF HtInit
<1>3. tunnels' \in Seq(Tunnel) /\ Listed' = Listed \ gone
  BY StopUnlinks
<1>4. Shape'
  <2>1. clients' \in [Tunnel -> [Bucket -> Seq(Entry)]]
    BY <1>1, <1>2 DEF TunnelInv, Shape
  <2>2. st' \in [Client -> {"unused", "open", "freed"}]
    BY <1>1 DEF TunnelInv, Shape
  <2>3. QED
    BY <1>1, <1>3, <2>1, <2>2 DEF TunnelInv, Shape
<1>5. \A t \in Tunnel, b \in Bucket :
        clients'[t][b] = (IF t \in gone THEN <<>> ELSE clients[t][b])
  BY <1>1, <1>2
<1>6. ASSUME NEW t \in Tunnel, NEW b \in Bucket, NEW i \in DOMAIN clients[t][b],
             clients'[t][b] # <<>>
      PROVE  Kept(t, clients[t][b][i].s)
  <2>1. Sound(t, b, clients[t][b][i]) /\ clients[t][b][i].s \in Client
    BY EntryInTable DEF TunnelInv, TablesOK
  <2>2. t \notin gone
    BY <1>5, <1>6
  <2>3. clients[t][b][i].s \notin Stopped(gone)
    BY <2>1, <2>2, StoppedWereOpen DEF Sound
  <2>4. st'[clients[t][b][i].s] = st[clients[t][b][i].s]
    BY <1>1, <2>1, <2>3
  <2>5. QED
    BY <1>1, <1>3, <2>1, <2>2, <2>4 DEF Sound, Kept, Linked, Open
<1>7. QED
  BY <1>4, <1>5, <1>6, KeepsTables

(* The invariant holds at the start, when there is no tunnel. *)
LEMMA TunnelInit == ASSUME Init PROVE TunnelInv
<1>1. HtInit \in [Bucket -> Seq(Entry)] /\ \A b \in Bucket : HtInit[b] = <<>>
  BY EmptySeq DEF HtInit
<1>2. Shape
  BY <1>1, EmptySeq DEF Init, Shape
<1>3. \A t \in Tunnel, b \in Bucket : DOMAIN clients[t][b] = {}
  BY <1>1 DEF Init
<1>4. QED
  BY <1>2, <1>3 DEF TunnelInv, TablesOK

(* It is inductive. *)
LEMMA TunnelStep == ASSUME TunnelInv, [Next]_vars PROVE TunnelInv'
<1>1. ASSUME NEW t \in Tunnel, NEW f \in Fd, server_async_client(t, f) PROVE TunnelInv'
  BY <1>1, AcceptStep
<1>2. ASSUME NEW pid \in Pid, NEW port \in Port, NEW forced \in BOOLEAN,
             gc_tunnel_add(pid, port, forced)
      PROVE  TunnelInv'
  BY <1>2, AddStep
<1>3. ASSUME NEW pid \in Pid, gc_tunnel_stop(pid) PROVE TunnelInv'
  <2>1. {t \in Listed : info[t].pid = pid} \in SUBSET Listed
    OBVIOUS
  <2>2. QED
    BY <1>3, <2>1, StopStep DEF gc_tunnel_stop
<1>4. CASE upstream_error \/ stop
  <2>1. Listed \in SUBSET Listed
    OBVIOUS
  <2>2. QED
    BY <1>4, <2>1, StopStep DEF upstream_error, stop
<1>5. ASSUME NEW c \in Client, client_error(c) PROVE TunnelInv'
  BY <1>5, ErrorStep
<1>6. ASSUME NEW c \in Client, NEW body \in Body, async_read(c, body) PROVE TunnelInv'
  BY <1>6, TablesUnchanged DEF async_read, conns
<1>7. ASSUME NEW c \in Client, async_write(c) PROVE TunnelInv'
  BY <1>7, TablesUnchanged DEF async_write
<1>8. ASSUME NEW port \in Port, NEW f \in Fd, NEW body \in Body,
             gc_tunnel_response(port, f, body)
      PROVE  TunnelInv'
  BY <1>8, TablesUnchanged DEF gc_tunnel_response
<1>9. CASE sigh_terminate \/ upstream_sent \/ UNCHANGED vars
  BY <1>9, TablesUnchanged DEF sigh_terminate, upstream_sent, vars, conns
<1>10. QED
  BY <1>1, <1>2, <1>3, <1>4, <1>5, <1>6, <1>7, <1>8, <1>9 DEF Next

(* Whatever the hash, a table holds clients that are open, under their     *)
(* descriptors, of the tunnel it belongs to, and that tunnel is listed.    *)
THEOREM TunnelTablesCorrect == Spec => []TunnelInv
  BY TunnelInit, TunnelStep, PTL DEF Spec

(* Whatever the hash, responses and the end of a server follow pointers to *)
(* open clients only.                                                      *)
THEOREM TablesHoldOpen == Spec => []TableHoldsOpen
<1>1. TunnelInv => TableHoldsOpen
  BY DEF TunnelInv, TablesOK, Sound, TableHoldsOpen
<1>2. QED
  BY <1>1, TunnelTablesCorrect, PTL
-----------------------------------------------------------------------------
(* No two descriptors share a bucket. *)
NoCollision == \A f, g \in Fd : ht_key[f] = ht_key[g] => f = g

(* Every open client is the head of its chain, where the end of the server *)
(* finds it, in the table of a tunnel that is listed and listens.          *)
Held(c) == /\ fd[c] \in Fd /\ parent[c] \in Listed /\ listening[parent[c]]
           /\ clients[parent[c]][ht_key[fd[c]]] # <<>>
           /\ clients[parent[c]][ht_key[fd[c]]][1].s = c

OpenIsHeld == \A c \in Client : Open(c) => Held(c)

OneFdEach == \A c, d \in Client : Open(c) /\ Open(d) /\ fd[c] = fd[d] => c = d

ListedLead == \A t \in Listed : info[t] # NULL

OrphanInv == TunnelInv /\ OpenIsHeld /\ OneFdEach /\ ListedLead /\ rb \in [Client -> Seq(Body)]

(* A step that opens no client and leaves the open ones where they are.    *)
LEMMA OpenStaysHeld ==
  ASSUME OrphanInv, TunnelInv', ListedLead', rb' \in [Client -> Seq(Body)],
         UNCHANGED <<fd, parent>>,
         \A c \in Client : st'[c] = "open" =>
           /\ st[c] = "open"
           /\ parent[c] \in Listed' /\ listening'[parent[c]] = listening[parent[c]]
           /\ clients'[parent[c]][ht_key[fd[c]]] = clients[parent[c]][ht_key[fd[c]]]
  PROVE  OrphanInv'
<1>1. OneFdEach'
  BY DEF OrphanInv, OneFdEach, Open
<1>2. ASSUME NEW c \in Client, st'[c] = "open"
      PROVE  /\ fd'[c] \in Fd /\ parent'[c] \in Listed' /\ listening'[parent'[c]]
             /\ clients'[parent'[c]][ht_key[fd'[c]]] # <<>>
             /\ clients'[parent'[c]][ht_key[fd'[c]]][1].s = c
  BY <1>2 DEF OrphanInv, OpenIsHeld, Held, Open
<1>3. OpenIsHeld'
  BY <1>2 DEF OpenIsHeld, Held, Open
<1>4. QED
  BY <1>1, <1>3 DEF OrphanInv

(* A step that touches no table, and no client but its list. *)
LEMMA OnlyQueued ==
  ASSUME OrphanInv, UNCHANGED <<lists, clients, st, fd, parent>>, rb' \in [Client -> Seq(Body)]
  PROVE  OrphanInv'
<1>1. TunnelInv'
  BY TablesUnchanged DEF OrphanInv
<1>2. Listed' = Listed /\ ListedLead'
  BY DEF OrphanInv, ListedLead, Listed, lists
<1>3. \A c \in Client : st'[c] = "open" =>
        /\ st[c] = "open" /\ parent[c] \in Listed'
        /\ listening'[parent[c]] = listening[parent[c]]
        /\ clients'[parent[c]][ht_key[fd[c]]] = clients[parent[c]][ht_key[fd[c]]]
  BY <1>2 DEF OrphanInv, OpenIsHeld, Held, Open, lists
<1>4. QED
  BY <1>1, <1>2, <1>3, OpenStaysHeld

(* A new tunnel is none of those that are listed. *)
LEMMA AddHolds ==
  ASSUME OrphanInv, NEW pid \in Pid, NEW port \in Port, NEW forced \in BOOLEAN,
         gc_tunnel_add(pid, port, forced)
  PROVE  OrphanInv'
<1>1. PICK t \in Tunnel :
        /\ Fresh(t)
        /\ IF forced THEN UNCHANGED <<listening, clients>> ELSE async_server(t)
        /\ tunnels' = Cons(t, tunnels)
        /\ info' = [info EXCEPT ![t] = [pid |-> pid, port_remote |-> port]]
  BY DEF gc_tunnel_add
<1>2. UNCHANGED <<st, fd, parent, rb>>
  BY DEF gc_tunnel_add
<1>3. TunnelInv'
  BY AddStep DEF OrphanInv
<1>4. Listed' = Listed \cup {t}
  <2>1. tunnels \in Seq(Tunnel) /\ Len(tunnels) \in Nat /\ DOMAIN tunnels = 1..Len(tunnels)
    BY LenProperties DEF OrphanInv, TunnelInv, Shape
  <2>2. /\ Cons(t, tunnels) \in Seq(Tunnel)
        /\ Len(Cons(t, tunnels)) = Len(tunnels) + 1
        /\ Cons(t, tunnels)[1] = t
        /\ \A i \in 2..(Len(tunnels) + 1) : Cons(t, tunnels)[i] = tunnels[i - 1]
    BY <2>1, ConsProperties
  <2> DEFINE new == Cons(t, tunnels)
  <2>3. DOMAIN new = 1..(Len(tunnels) + 1)
    BY <2>2, LenProperties
  <2> HIDE DEF new
  <2>4. \A i \in DOMAIN tunnels : i + 1 \in DOMAIN new /\ new[i + 1] = tunnels[i]
    BY <2>1, <2>2, <2>3 DEF new
  <2>5. \A i \in DOMAIN new : i = 1 \/ (i - 1 \in DOMAIN tunnels /\ new[i] = tunnels[i - 1])
    <3>1. \A i \in DOMAIN new : i = 1 \/ (i \in 2..(Len(tunnels) + 1) /\ i - 1 \in 1..Len(tunnels))
      BY <2>1, <2>3
    <3>2. QED
      BY <2>1, <2>2, <3>1 DEF new
  <2>6. 1 \in DOMAIN new /\ new[1] = t
    BY <2>1, <2>2, <2>3 DEF new
  <2>7. Range(new) = Range(tunnels) \cup {t}
    BY <2>4, <2>5, <2>6 DEF Range
  <2>8. QED
    BY <1>1, <2>7 DEF Listed, new
<1>5. t \notin Listed
  BY <1>1 DEF OrphanInv, ListedLead, Fresh
<1>6. ListedLead'
  <2>1. Listed \subseteq Tunnel
    BY ListedTunnels DEF OrphanInv, TunnelInv
  <2>2. [pid |-> pid, port_remote |-> port] # NULL
    BY TunnelAssumption
  <2>3. QED
    BY <1>1, <1>4, <1>5, <2>1, <2>2 DEF OrphanInv, ListedLead, TunnelInv, Shape
<1>7. \A u \in Tunnel \ {t} : clients'[u] = clients[u] /\ listening'[u] = listening[u]
  BY <1>1 DEF async_server, OrphanInv, TunnelInv, Shape
<1>8. ASSUME NEW c \in Client, st'[c] = "open"
      PROVE  /\ st[c] = "open"
             /\ parent[c] \in Listed' /\ listening'[parent[c]] = listening[parent[c]]
             /\ clients'[parent[c]][ht_key[fd[c]]] = clients[parent[c]][ht_key[fd[c]]]
  <2>1. st[c] = "open" /\ parent[c] \in Listed
    BY <1>2, <1>8 DEF OrphanInv, OpenIsHeld, Held, Open
  <2>2. parent[c] \in Tunnel \ {t}
    BY <1>5, <2>1, ListedTunnels DEF OrphanInv, TunnelInv
  <2>3. QED
    BY <1>4, <1>7, <2>1, <2>2
<1>9. QED
  BY <1>2, <1>3, <1>6, <1>8, OpenStaysHeld DEF OrphanInv

(* An accepted client whose bucket no other client of its server is in     *)
(* becomes the head of a chain that is empty.                              *)
LEMMA AcceptHolds ==
  ASSUME OrphanInv, NEW t \in Tunnel, NEW f \in Fd, server_async_client(t, f),
         \A d \in Client : Open(d) /\ parent[d] = t => ht_key[fd[d]] # ht_key[f]
  PROVE  OrphanInv'
<1>1. PICK c \in Client : /\ st[c] = "unused"
                          /\ st' = [st EXCEPT ![c] = "open"]
                          /\ fd' = [fd EXCEPT ![c] = f]
                          /\ parent' = [parent EXCEPT ![c] = t]
                          /\ connector_addclient(t, f, c)
  BY DEF server_async_client
<1>2. /\ tunnels' = tunnels /\ info' = info /\ listening' = listening /\ rb' = rb
      /\ t \in Listed /\ listening[t] /\ \A d \in Client : Open(d) => fd[d] # f
  BY DEF server_async_client, lists, Linked
<1>3. TunnelInv /\ TunnelInv'
  BY AcceptStep DEF OrphanInv
<1> DEFINE h == ht_key[f]
           e == [k |-> f, s |-> c]
<1>4. /\ clients'[t][h] = Cons(e, clients[t][h])
      /\ \A u \in Tunnel, b \in Bucket : u # t \/ b # h => clients'[u][b] = clients[u][b]
  BY <1>1, <1>2, <1>3, AcceptStores
<1>5. h \in Bucket /\ e \in Entry /\ e.s = c
  BY TunnelAssumption DEF Entry
<1>6. clients'[t][h] # <<>> /\ clients'[t][h][1].s = c
  <2> DEFINE old == clients[t][h]
  <2>1. old \in Seq(Entry)
    BY <1>3, <1>5 DEF TunnelInv, Shape
  <2> HIDE DEF old, e
  <2>2. /\ Cons(e, old) \in Seq(Entry)
        /\ Len(Cons(e, old)) = Len(old) + 1
        /\ Cons(e, old)[1] = e
    BY <1>5, <2>1, ConsProperties
  <2>3. Len(Cons(e, old)) # 0
    BY <2>1, <2>2, LenProperties
  <2>4. Cons(e, old) # <<>>
    BY <2>3, EmptySeq
  <2>5. QED
    BY <1>4, <1>5, <2>2, <2>4 DEF old
<1> HIDE DEF h, e
<1>7. Listed' = Listed /\ ListedLead'
  BY <1>2 DEF OrphanInv, ListedLead, Listed
<1>8. /\ st'[c] = "open" /\ fd'[c] = f /\ parent'[c] = t
      /\ \A d \in Client \ {c} : st'[d] = st[d] /\ fd'[d] = fd[d] /\ parent'[d] = parent[d]
  BY <1>1, <1>3 DEF TunnelInv, Shape
<1>9. OneFdEach'
  <2>1. ASSUME NEW d \in Client \ {c}, st'[d] = "open" PROVE st[d] = "open" /\ fd'[d] = fd[d] /\ fd[d] # f
    BY <1>2, <1>8, <2>1 DEF Open
  <2>2. \A a, b \in Client : st[a] = "open" /\ st[b] = "open" /\ fd[a] = fd[b] => a = b
    BY DEF OrphanInv, OneFdEach, Open
  <2>3. \A a, b \in Client : st'[a] = "open" /\ st'[b] = "open" /\ fd'[a] = fd'[b] => a = b
    BY <1>8, <2>1, <2>2
  <2>4. QED
    BY <2>3 DEF OneFdEach, Open
<1>10. ASSUME NEW d \in Client, st'[d] = "open"
       PROVE  /\ fd'[d] \in Fd /\ parent'[d] \in Listed' /\ listening'[parent'[d]]
              /\ clients'[parent'[d]][ht_key[fd'[d]]] # <<>>
              /\ clients'[parent'[d]][ht_key[fd'[d]]][1].s = d
  <2>1. CASE d = c
    BY <1>2, <1>6, <1>7, <1>8, <2>1 DEF h
  <2>2. CASE d # c
    <3>1. Open(d) /\ fd'[d] = fd[d] /\ parent'[d] = parent[d] /\ Held(d)
      BY <1>8, <1>10, <2>2 DEF OrphanInv, OpenIsHeld, Open
    <3>2. fd[d] \in Fd /\ parent[d] \in Tunnel
      BY <1>3, <3>1, ListedTunnels DEF Held, TunnelInv
    <3>3. (parent[d] # t \/ ht_key[fd[d]] # h) /\ ht_key[fd[d]] \in Bucket
      BY <3>1, <3>2, TunnelAssumption DEF h
    <3>4. clients'[parent[d]][ht_key[fd[d]]] = clients[parent[d]][ht_key[fd[d]]]
      BY <1>4, <3>2, <3>3
    <3>5. QED
      BY <1>2, <1>7, <3>1, <3>4 DEF Held
  <2>3. QED
    BY <2>1, <2>2
<1>11. OpenIsHeld'
  BY <1>10 DEF OpenIsHeld, Held, Open
<1>12. QED
  BY <1>2, <1>3, <1>7, <1>9, <1>11 DEF OrphanInv

(* A client that ends takes only its own chain with it, where no other     *)
(* open client is.                                                         *)
LEMMA ErrorHolds ==
  ASSUME OrphanInv, NEW c \in Client, client_error(c) PROVE OrphanInv'
<1>1. Open(c) /\ Held(c)
  BY DEF client_error, OrphanInv, OpenIsHeld
<1>2. /\ UNCHANGED <<tunnels, info, listening, fd, parent>>
      /\ FreeClients({c})
      /\ clients' = [clients EXCEPT ![parent[c]] = HtRem(clients[parent[c]], fd[c])]
  BY <1>1 DEF client_error, Held, Linked, lists
<1>3. TunnelInv'
  BY ErrorStep DEF OrphanInv
<1>4. /\ st' = [d \in Client |-> IF d = c THEN "freed" ELSE st[d]]
      /\ rb' = [d \in Client |-> IF d = c THEN <<>> ELSE rb[d]]
  BY <1>2 DEF FreeClients
<1>5. rb' \in [Client -> Seq(Body)]
  BY <1>4, EmptySeq DEF OrphanInv
<1>6. Listed' = Listed /\ ListedLead'
  BY <1>2 DEF OrphanInv, ListedLead, Listed
<1>7. Listed \subseteq Tunnel
  BY ListedTunnels DEF OrphanInv, TunnelInv
<1> DEFINE p   == parent[c]
           old == clients[p]
           new == HtRem(old, fd[c])
<1>8. old \in [Bucket -> Seq(Entry)]
  BY <1>1, <1>7 DEF OrphanInv, TunnelInv, Shape, Held
<1>9. \A b \in Bucket : b # ht_key[fd[c]] => new[b] = old[b]
  <2> HIDE DEF old
  <2>1. \A f : \A b \in Bucket : b # ht_key[f] => HtRem(old, f)[b] = old[b]
    BY <1>8, RemovedChain
  <2>2. QED
    BY <2>1
<1> HIDE DEF new
<1>10. clients' = [clients EXCEPT ![p] = new]
  BY <1>2 DEF new
<1>11. ASSUME NEW d \in Client, st'[d] = "open"
       PROVE  /\ st[d] = "open"
              /\ parent[d] \in Listed' /\ listening'[parent[d]] = listening[parent[d]]
              /\ clients'[parent[d]][ht_key[fd[d]]] = clients[parent[d]][ht_key[fd[d]]]
  <2>1. st[d] = "open" /\ d # c
    BY <1>4, <1>11
  <2>2. Held(d) /\ parent[d] \in Tunnel /\ ht_key[fd[d]] \in Bucket
    BY <1>7, <2>1, TunnelAssumption DEF OrphanInv, OpenIsHeld, Open, Held
  <2>3. parent[d] # p \/ ht_key[fd[d]] # ht_key[fd[c]]
    BY <1>1, <2>1, <2>2 DEF Held
  <2>4. clients'[parent[d]][ht_key[fd[d]]] = clients[parent[d]][ht_key[fd[d]]]
    BY <1>9, <1>10, <2>2, <2>3 DEF OrphanInv, TunnelInv, Shape
  <2>5. QED
    BY <1>2, <1>6, <2>1, <2>2, <2>4 DEF Held
<1>12. QED
  BY <1>2, <1>3, <1>5, <1>6, <1>11, OpenStaysHeld

(* An open client of a tunnel that ends is the head of a chain, where the  *)
(* end of the tunnel finds it.                                             *)
LEMMA OpenIsStopped ==
  ASSUME OrphanInv, NEW gone \in SUBSET Listed, NEW c \in Client, Open(c), parent[c] \in gone
  PROVE  c \in Stopped(gone)
<1>1. Held(c)
  BY DEF OrphanInv, OpenIsHeld
<1>2. ht_key[fd[c]] \in Bucket
  BY <1>1, TunnelAssumption DEF Held
<1>3. ht_key[fd[c]] \in Used(parent[c])
  BY <1>1, <1>2 DEF Held, Used
<1>4. HeadOf(parent[c], ht_key[fd[c]]) = c
  BY <1>1 DEF Held, HeadOf
<1>5. QED
  BY <1>3, <1>4 DEF Stopped

(* What the end of a tunnel sends is stop messages to processes it leads   *)
(* to.                                                                     *)
LEMMA StopMessagesInSeq ==
  ASSUME OrphanInv, NEW gone \in SUBSET Listed, NEW t \in gone
  PROVE  StopMessagesOf(t) \in Seq([type : {"endpoint_stop"}, to : Pid, fd : Fd])
<1> DEFINE Stop == [type : {"endpoint_stop"}, to : Pid, fd : Fd]
           order == Ascending(Used(t))
<1>1. Used(t) \in SUBSET Bucket
  BY DEF Used
<1>2. Used(t) \in SUBSET Nat /\ IsFiniteSet(Used(t))
  BY <1>1, TunnelAssumption, FS_Subset
<1>3. order \in Seq(Used(t))
  BY <1>2, AscendingProperties
<1> HIDE DEF order
<1>4. Len(order) \in Nat /\ DOMAIN order = 1..Len(order)
      /\ \A i \in DOMAIN order : order[i] \in Used(t)
  BY <1>3, LenProperties, ElementOfSeq
<1>5. ASSUME NEW b \in Used(t) PROVE endpoint_stop(HeadOf(t, b)) \in Stop
  <2> DEFINE c == HeadOf(t, b)
  <2>1. c \in Stopped(gone)
    BY DEF Stopped
  <2>2. b \in Bucket /\ t \in Tunnel /\ clients[t][b] \in Seq(Entry) /\ clients[t][b] # <<>>
    BY ListedTunnels DEF Used, OrphanInv, TunnelInv, Shape
  <2>3. 1 \in DOMAIN clients[t][b]
    BY <2>2, EmptySeq, LenProperties
  <2>4. c \in Client
    BY <2>2, <2>3, EntryInTable DEF HeadOf, OrphanInv, TunnelInv
  <2>5. Open(c) /\ parent[c] \in gone
    BY <2>1, StoppedWereOpen DEF OrphanInv
  <2>6. fd[c] \in Fd /\ info[parent[c]] # NULL
    BY <2>4, <2>5 DEF OrphanInv, OpenIsHeld, Held, ListedLead
  <2>7. info[parent[c]] \in [pid : Pid, port_remote : Port]
    BY ListedTunnels, <2>5, <2>6 DEF OrphanInv, TunnelInv, Shape
  <2>8. QED
    BY <2>6, <2>7 DEF endpoint_stop
<1>6. StopMessagesOf(t) = [i \in DOMAIN order |-> endpoint_stop(HeadOf(t, order[i]))]
  BY DEF StopMessagesOf, order
<1>7. QED
  BY <1>4, <1>5, <1>6, IsASeq

(* The same of several tunnels. *)
LEMMA StopMessagesSeq ==
  ASSUME OrphanInv, NEW gone \in SUBSET Listed
  PROVE  StopMessages(gone) \in Seq([type : {"endpoint_stop"}, to : Pid, fd : Fd])
<1> DEFINE Stop == [type : {"endpoint_stop"}, to : Pid, fd : Fd]
           list == Among(tunnels, gone)
<1>1. gone \subseteq Tunnel /\ tunnels \in Seq(Tunnel)
  BY ListedTunnels DEF OrphanInv, TunnelInv, Shape
<1>2. list \in Seq(Tunnel) /\ Range(list) = Range(tunnels) \cap gone
  BY <1>1, AmongProperties
<1>3. ASSUME NEW t \in gone PROVE StopMessagesOf(t) \in Seq(Stop)
  BY StopMessagesInSeq
<1>4. StopMessages(gone) = FlattenSeq([i \in DOMAIN list |-> StopMessagesOf(list[i])])
  BY DEF StopMessages
<1> HIDE DEF Stop, list
<1>5. Len(list) \in Nat /\ DOMAIN list = 1..Len(list) /\ \A i \in DOMAIN list : list[i] \in gone
  BY <1>2, LenProperties DEF Range
<1> DEFINE all == [i \in DOMAIN list |-> StopMessagesOf(list[i])]
<1>6. all \in Seq(Seq(Stop))
  BY <1>3, <1>5, IsASeq
<1> HIDE DEF all
<1>7. FlattenSeq(all) \in Seq(Stop)
  BY <1>6, FlattenProperties
<1>8. QED
  BY <1>4, <1>7 DEF all, Stop

(* The end of tunnels takes all their open clients, each of which is the   *)
(* head of a chain.                                                        *)
LEMMA StopHolds ==
  ASSUME OrphanInv, NEW gone \in SUBSET Listed, StopTunnels(gone) PROVE OrphanInv'
<1>1. /\ UNCHANGED <<info, listening, fd, parent>>
      /\ st' = [c \in Client |-> IF c \in Stopped(gone) THEN "freed" ELSE st[c]]
      /\ rb' = [c \in Client |-> IF c \in Stopped(gone) THEN <<>> ELSE rb[c]]
      /\ clients' = [t \in Tunnel |-> IF t \in gone THEN HtInit ELSE clients[t]]
  BY DEF StopTunnels, FreeClients
<1>2. TunnelInv'
  BY StopStep DEF OrphanInv
<1>3. rb' \in [Client -> Seq(Body)]
  BY <1>1, EmptySeq DEF OrphanInv
<1>4. Listed' = Listed \ gone /\ Listed \subseteq Tunnel
  BY StopUnlinks, ListedTunnels DEF OrphanInv, TunnelInv
<1>5. ListedLead'
  BY <1>1, <1>4 DEF OrphanInv, ListedLead
<1>7. ASSUME NEW c \in Client, st'[c] = "open"
      PROVE  /\ st[c] = "open"
             /\ parent[c] \in Listed' /\ listening'[parent[c]] = listening[parent[c]]
             /\ clients'[parent[c]][ht_key[fd[c]]] = clients[parent[c]][ht_key[fd[c]]]
  <2>1. st[c] = "open" /\ c \notin Stopped(gone)
    BY <1>1, <1>7
  <2>2. parent[c] \in Listed \ gone
    BY <2>1, OpenIsStopped DEF OrphanInv, OpenIsHeld, Held, Open
  <2>3. QED
    BY <1>1, <1>4, <2>1, <2>2
<1>8. QED
  BY <1>1, <1>2, <1>3, <1>5, <1>7, OpenStaysHeld

-----------------------------------------------------------------------------
(* ht_get answers with an entry of the chain, or with nothing. *)
LEMMA GetFromChain ==
  ASSUME NEW ht \in [Bucket -> Seq(Entry)], NEW f \in Fd
  PROVE  \/ HtGet(ht, f) = NULL
         \/ \E i \in DOMAIN ht[ht_key[f]] : HtGet(ht, f) = ht[ht_key[f]][i]
<1> DEFINE c == ht[ht_key[f]]
           I == {i \in 1..Len(c) : c[i].k = f}
<1>1. c \in Seq(Entry) /\ Len(c) \in Nat /\ DOMAIN c = 1..Len(c)
  BY TunnelAssumption, LenProperties
<1>2. CASE Len(c) = 1
  <2>1. HtGet(ht, f) = c[1] /\ 1 \in DOMAIN c
    BY <1>1, <1>2 DEF HtGet, Chain
  <2>2. QED
    BY <2>1
<1>3. CASE Len(c) # 1 /\ IsStored(ht, f)
  <2>1. I # {} /\ I \in SUBSET Nat
    BY <1>1, <1>3 DEF IsStored, Chain
  <2>2. Position(ht, f) = Min(I)
    BY <2>1 DEF Position, SelectInSeq, Chain
  <2>3. Position(ht, f) \in DOMAIN c
    BY <1>1, <2>1, <2>2, MinOfNat
  <2>4. HtGet(ht, f) = c[Position(ht, f)]
    BY <1>3 DEF HtGet, Chain
  <2>5. QED
    BY <2>3, <2>4
<1>4. CASE Len(c) # 1 /\ ~IsStored(ht, f)
  BY <1>4 DEF HtGet, Chain
<1>5. QED
  BY <1>2, <1>3, <1>4

(* ht_get answers for the descriptor of every open client, since it is the *)
(* head of its chain.                                                      *)
LEMMA GetFindsHeld ==
  ASSUME OrphanInv, NEW t \in Tunnel, NEW f \in Fd,
         NEW c \in Client, Open(c), fd[c] = f, parent[c] = t
  PROVE  HtGet(clients[t], f) # NULL
<1> DEFINE h == clients[t][ht_key[f]]
<1>0. ht_key[f] \in Bucket /\ clients[t] \in [Bucket -> Seq(Entry)]
  BY TunnelAssumption DEF OrphanInv, TunnelInv, Shape
<1>1. h \in Seq(Entry) /\ Len(h) \in Nat /\ DOMAIN h = 1..Len(h)
  BY <1>0, LenProperties
<1>2. h # <<>>
  BY DEF OrphanInv, OpenIsHeld, Held
<1>3. 1 \in DOMAIN h
  BY <1>1, <1>2, EmptySeq
<1>4. h[1] \in Entry /\ h[1].k = f
  <2>1. Sound(t, ht_key[f], h[1]) /\ h[1] \in Entry /\ h[1].k \in Fd
    BY <1>0, <1>1, <1>3, EntryInTable DEF OrphanInv, TunnelInv, TablesOK
  <2>2. QED
    BY <2>1 DEF Sound, OrphanInv, OpenIsHeld, Held
<1>5. IsStored(clients[t], f)
  BY <1>3, <1>4 DEF IsStored, Chain
<1>6. \E i \in DOMAIN h : HtGet(clients[t], f) = h[i]
  <2> DEFINE I == {i \in 1..Len(h) : h[i].k = f}
  <2>1. CASE Len(h) = 1
    BY <1>3, <2>1 DEF HtGet, Chain
  <2>2. CASE Len(h) # 1
    <3>1. I # {} /\ I \in SUBSET Nat
      BY <1>1, <1>3, <1>4
    <3>2. Position(clients[t], f) = Min(I)
      BY <3>1 DEF Position, SelectInSeq, Chain
    <3>3. Position(clients[t], f) \in DOMAIN h
      BY <1>1, <3>1, <3>2, MinOfNat
    <3>4. HtGet(clients[t], f) = h[Position(clients[t], f)]
      BY <1>5, <2>2 DEF HtGet, Chain
    <3>5. QED
      BY <3>3, <3>4
  <2>3. QED
    BY <2>1, <2>2
<1>7. QED
  BY <1>0, <1>1, <1>6, EntryInTable, TunnelAssumption DEF OrphanInv, TunnelInv

(* What a response finds is open, and of a tunnel to its port. *)
LEMMA FoundIsOpen ==
  ASSUME TunnelInv, NEW port \in Port, NEW f \in Fd,
         tunnel_client_find(port, f) # NULL
  PROVE  \E t \in Listed, i \in Nat :
           /\ Answers(t, port, f)
           /\ i \in DOMAIN clients[t][ht_key[f]]
           /\ tunnel_client_find(port, f) = clients[t][ht_key[f]][i].s
<1> DEFINE I == {i \in 1..Len(tunnels) : Answers(tunnels[i], port, f)}
<1>1. tunnels \in Seq(Tunnel) /\ Len(tunnels) \in Nat /\ DOMAIN tunnels = 1..Len(tunnels)
  BY LenProperties DEF TunnelInv, Shape
<1>2. I # {} /\ I \in SUBSET Nat
  <2>1. I = {} => tunnel_client_find(port, f) = NULL
    BY DEF tunnel_client_find, SelectInSeq
  <2>2. QED
    BY <1>1, <2>1
<1>3. PICK first \in I : first = Min(I)
  BY <1>2, MinOfNat
<1> DEFINE t == tunnels[first]
<1>4. t \in Tunnel /\ t \in Listed /\ Answers(t, port, f)
  BY <1>1, <1>3, ElementOfSeq DEF Listed, Range
<1>5. tunnel_client_find(port, f) = HtGet(clients[t], f).s
  BY <1>1, <1>2, <1>3 DEF tunnel_client_find, SelectInSeq
<1>6. HtGet(clients[t], f) # NULL /\ clients[t] \in [Bucket -> Seq(Entry)]
  BY <1>4 DEF Answers, TunnelInv, Shape
<1>7. PICK i \in DOMAIN clients[t][ht_key[f]] : HtGet(clients[t], f) = clients[t][ht_key[f]][i]
  BY <1>6, GetFromChain
<1>8. DOMAIN clients[t][ht_key[f]] \subseteq Nat
  <2>1. clients[t][ht_key[f]] \in Seq(Entry)
    BY <1>6, TunnelAssumption
  <2>2. QED
    BY <2>1, LenProperties
<1>9. QED
  BY <1>4, <1>5, <1>7, <1>8

(* If some tunnel has an answer, a client is found. *)
LEMMA AnsweredIsFound ==
  ASSUME TunnelInv, NEW port \in Port, NEW f \in Fd, NEW u \in Listed, Answers(u, port, f)
  PROVE  tunnel_client_find(port, f) # NULL
<1> DEFINE I == {i \in 1..Len(tunnels) : Answers(tunnels[i], port, f)}
<1>1. tunnels \in Seq(Tunnel) /\ Len(tunnels) \in Nat /\ DOMAIN tunnels = 1..Len(tunnels)
  BY LenProperties DEF TunnelInv, Shape
<1>2. I # {} /\ I \in SUBSET Nat
  BY <1>1 DEF Listed, Range
<1>3. PICK first \in I : first = Min(I)
  BY <1>2, MinOfNat
<1> DEFINE t == tunnels[first]
<1>4. t \in Tunnel /\ Answers(t, port, f) /\ first # 0
  BY <1>1, <1>3, ElementOfSeq
<1>5. tunnel_client_find(port, f) = HtGet(clients[t], f).s
  BY <1>1, <1>2, <1>3, <1>4 DEF tunnel_client_find, SelectInSeq
<1>6. HtGet(clients[t], f) # NULL /\ clients[t] \in [Bucket -> Seq(Entry)]
  BY <1>4 DEF Answers, TunnelInv, Shape
<1>7. PICK i \in DOMAIN clients[t][ht_key[f]] : HtGet(clients[t], f) = clients[t][ht_key[f]][i]
  BY <1>6, GetFromChain
<1>8. clients[t][ht_key[f]][i].s \in Client
  BY <1>4, <1>7, TunnelAssumption, EntryInTable DEF TunnelInv
<1>9. QED
  BY <1>5, <1>7, <1>8, TunnelAssumption

(* What is found for a response is open, whatever the hash. *)
LEMMA FoundIsHere ==
  ASSUME TunnelInv, NEW port \in Port, NEW f \in Fd, NEW c,
         c = tunnel_client_find(port, f), c # NULL
  PROVE  /\ c \in Client /\ Open(c)
         /\ info[parent[c]].port_remote = port /\ ht_key[fd[c]] = ht_key[f] /\ fd[c] \in Fd
<1>1. PICK t \in Listed, i \in Nat :
        /\ Answers(t, port, f)
        /\ i \in DOMAIN clients[t][ht_key[f]]
        /\ c = clients[t][ht_key[f]][i].s
  BY FoundIsOpen
<1>2. t \in Tunnel /\ ht_key[f] \in Bucket
  BY ListedTunnels, TunnelAssumption DEF TunnelInv
<1>3. Sound(t, ht_key[f], clients[t][ht_key[f]][i]) /\ c \in Client
      /\ clients[t][ht_key[f]][i].k \in Fd
  BY <1>1, <1>2, EntryInTable DEF TunnelInv, TablesOK
<1>4. QED
  BY <1>1, <1>3 DEF Sound, Answers

(* No handler leaves a client without its server. *)
LEMMA OrphanStep == ASSUME NoCollision, OrphanInv, [Next]_vars PROVE OrphanInv'
<1>0. rb \in [Client -> Seq(Body)]
  BY DEF OrphanInv
<1>1. ASSUME NEW t \in Tunnel, NEW f \in Fd, server_async_client(t, f) PROVE OrphanInv'
  <2>1. \A d \in Client : Open(d) => fd[d] \in Fd /\ fd[d] # f
    BY <1>1 DEF server_async_client, OrphanInv, OpenIsHeld, Held
  <2>2. \A d \in Client : Open(d) => ht_key[fd[d]] # ht_key[f]
    BY <2>1 DEF NoCollision
  <2>3. QED
    BY <1>1, <2>2, AcceptHolds
<1>2. ASSUME NEW pid \in Pid, NEW port \in Port, NEW forced \in BOOLEAN,
             gc_tunnel_add(pid, port, forced)
      PROVE  OrphanInv'
  BY <1>2, AddHolds
<1>3. ASSUME NEW pid \in Pid, gc_tunnel_stop(pid) PROVE OrphanInv'
  <2>1. {t \in Listed : info[t].pid = pid} \in SUBSET Listed
    OBVIOUS
  <2>2. QED
    BY <1>3, <2>1, StopHolds DEF gc_tunnel_stop
<1>4. CASE upstream_error \/ stop
  <2>1. Listed \in SUBSET Listed
    OBVIOUS
  <2>2. QED
    BY <1>4, <2>1, StopHolds DEF upstream_error, stop
<1>5. ASSUME NEW c \in Client, client_error(c) PROVE OrphanInv'
  BY <1>5, ErrorHolds
<1>6. ASSUME NEW c \in Client, NEW body \in Body, async_read(c, body) PROVE OrphanInv'
  BY <1>0, <1>6, OnlyQueued DEF async_read, conns
<1>7. ASSUME NEW c \in Client, async_write(c) PROVE OrphanInv'
  <2>1. rb[c] \in Seq(Body) /\ rb[c] # <<>> /\ rb' = [rb EXCEPT ![c] = Tail(rb[c])]
    BY <1>0, <1>7 DEF async_write
  <2>2. Tail(rb[c]) \in Seq(Body)
    BY <2>1, HeadTailProperties
  <2>3. rb' \in [Client -> Seq(Body)]
    BY <1>0, <2>1, <2>2
  <2>4. QED
    BY <1>7, <2>3, OnlyQueued DEF async_write
<1>8. ASSUME NEW port \in Port, NEW f \in Fd, NEW body \in Body,
             gc_tunnel_response(port, f, body)
      PROVE  OrphanInv'
  <2>1. UNCHANGED <<lists, clients, st, fd, parent>>
    BY <1>8 DEF gc_tunnel_response
  <2>2. \/ rb' = rb
        \/ \E c : rb' = [rb EXCEPT ![c] = Append(rb[c], body)]
    BY <1>8 DEF gc_tunnel_response, gc_gen_ev_send
  <2>3. ASSUME NEW c, rb' = [rb EXCEPT ![c] = Append(rb[c], body)]
        PROVE  rb' \in [Client -> Seq(Body)]
    <3>1. c \in Client => Append(rb[c], body) \in Seq(Body)
      BY <1>0, AppendProperties
    <3>2. QED
      BY <1>0, <2>3, <3>1
  <2>4. QED
    BY <1>0, <2>1, <2>2, <2>3, OnlyQueued
<1>9. CASE sigh_terminate \/ upstream_sent \/ UNCHANGED vars
  BY <1>0, <1>9, OnlyQueued DEF sigh_terminate, upstream_sent, vars, conns
<1>10. QED
  BY <1>1, <1>2, <1>3, <1>4, <1>5, <1>6, <1>7, <1>8, <1>9 DEF Next

(* The invariant holds in every state. *)
LEMMA HeldAlways == ASSUME NoCollision PROVE Spec => []OrphanInv
<1>1. Init => OrphanInv
  <2>1. ASSUME Init PROVE OrphanInv
    <3>1. \A c \in Client : ~Open(c)
      BY <2>1 DEF Init, Open
    <3>2. Listed = {}
      BY <2>1 DEF Init, Listed, Range
    <3>3. rb \in [Client -> Seq(Body)]
      BY <2>1, EmptySeq DEF Init
    <3>4. QED
      BY <2>1, <3>1, <3>2, <3>3, TunnelInit DEF OrphanInv, OpenIsHeld, OneFdEach, ListedLead
  <2>2. QED
    BY <2>1
<1>2. OrphanInv /\ [Next]_vars => OrphanInv'
  BY OrphanStep
<1>3. QED
  BY <1>1, <1>2, PTL DEF Spec

(* As long as no two descriptors share a bucket, no open client is ever    *)
(* left behind by its server.                                              *)
THEOREM NoOrphanWithoutCollision == ASSUME NoCollision PROVE Spec => []NoOrphan
<1>1. OrphanInv => NoOrphan
  BY DEF OrphanInv, OpenIsHeld, Held, NoOrphan, Linked
<1>2. QED
  BY <1>1, HeldAlways, PTL

(* Nor is abort() ever called then, or a freed client followed.            *)
THEOREM NoAbortWithoutCollision == ASSUME NoCollision PROVE Spec => []~crashed
<1>1. Init => ~crashed
  BY DEF Init
<1>2. ASSUME OrphanInv, ~crashed, [Next]_vars PROVE ~crashed'
  <2>1. TunnelInv
    BY <1>2 DEF OrphanInv
  <2>2. \A c \in Client : Open(c) => Linked(parent[c])
    BY <1>2 DEF OrphanInv, OpenIsHeld, Held, Linked
  <2>3. ASSUME NEW c \in Client, NEW body \in Body, async_read(c, body) PROVE ~crashed'
    BY <1>2, <2>2, <2>3 DEF async_read, client_data
  <2>4. ASSUME NEW c \in Client, client_error(c) PROVE ~crashed'
    BY <1>2, <2>2, <2>4 DEF client_error
  <2>5. ASSUME NEW gone \in SUBSET Listed, StopTunnels(gone) PROVE ~crashed'
    BY <2>1, <2>5, StoppedWereOpen DEF StopTunnels
  <2>6. ASSUME NEW pid \in Pid, gc_tunnel_stop(pid) PROVE ~crashed'
    <3>1. {t \in Listed : info[t].pid = pid} \in SUBSET Listed
      OBVIOUS
    <3>2. QED
      BY <2>5, <2>6, <3>1 DEF gc_tunnel_stop
  <2>7. CASE upstream_error \/ stop
    <3>1. Listed \in SUBSET Listed
      OBVIOUS
    <3>2. QED
      BY <2>5, <2>7, <3>1 DEF upstream_error, stop
  <2>8. ASSUME NEW port \in Port, NEW f \in Fd, NEW body \in Body,
               gc_tunnel_response(port, f, body)
        PROVE  ~crashed'
    <3> DEFINE c == tunnel_client_find(port, f)
    <3>1. c # NULL => Open(c)
      BY <2>1, FoundIsHere
    <3> HIDE DEF c
    <3>2. IF c = NULL THEN UNCHANGED <<rb, crashed>> ELSE gc_gen_ev_send(c, body)
      BY <2>8 DEF gc_tunnel_response, c
    <3>3. QED
      BY <1>2, <3>1, <3>2 DEF gc_gen_ev_send
  <2>9. CASE \/ \E pid \in Pid, port \in Port, forced \in BOOLEAN : gc_tunnel_add(pid, port, forced)
             \/ \E t \in Tunnel, f \in Fd : server_async_client(t, f)
             \/ \E c \in Client : async_write(c)
             \/ sigh_terminate \/ upstream_sent \/ UNCHANGED vars
    BY <1>2, <2>9 DEF gc_tunnel_add, server_async_client, async_write, sigh_terminate,
                      upstream_sent, vars
  <2>10. QED
    BY <1>2, <2>3, <2>4, <2>6, <2>7, <2>8, <2>9 DEF Next
<1>3. OrphanInv /\ ~crashed /\ [Next]_vars => ~crashed'
  BY <1>2
<1>4. QED
  BY <1>1, <1>3, HeldAlways, PTL DEF Spec

(* A response is given to the open client that has its descriptor and a    *)
(* tunnel to its port, and to nobody else, as long as no two descriptors   *)
(* share a bucket.                                                         *)
THEOREM ResponseWithoutCollision == ASSUME NoCollision PROVE Spec => ResponseReachesItsClient
<1>1. ASSUME OrphanInv, NEW port \in Port, NEW f \in Fd, NEW body \in Body,
             gc_tunnel_response(port, f, body), NEW c \in Client
      PROVE  rb'[c] # rb[c] <=>
               Open(c) /\ fd[c] = f /\ info[parent[c]].port_remote = port
  <2> DEFINE found == tunnel_client_find(port, f)
  <2>1. TunnelInv /\ rb \in [Client -> Seq(Body)]
    BY <1>1 DEF OrphanInv
  <2>2. found # NULL => /\ found \in Client /\ Open(found) /\ fd[found] = f
                        /\ info[parent[found]].port_remote = port
    BY <2>1, FoundIsHere DEF NoCollision
  <2>3. ASSUME Open(c), fd[c] = f, info[parent[c]].port_remote = port PROVE found # NULL
    <3>1. parent[c] \in Listed /\ listening[parent[c]] /\ parent[c] \in Tunnel
      BY <1>1, <2>1, <2>3, ListedTunnels DEF OrphanInv, OpenIsHeld, Held, TunnelInv
    <3>2. HtGet(clients[parent[c]], f) # NULL
      BY <1>1, <2>3, <3>1, GetFindsHeld
    <3>3. Answers(parent[c], port, f)
      BY <2>3, <3>1, <3>2 DEF Answers
    <3>4. QED
      BY <2>1, <3>1, <3>3, AnsweredIsFound
  <2> HIDE DEF found
  <2>4. IF found = NULL THEN rb' = rb ELSE gc_gen_ev_send(found, body)
    BY <1>1 DEF gc_tunnel_response, found
  <2>5. CASE found = NULL
    BY <2>3, <2>4, <2>5
  <2>6. CASE found # NULL
    <3>1. rb' = [rb EXCEPT ![found] = Append(rb[found], body)]
      BY <2>2, <2>4, <2>6 DEF gc_gen_ev_send
    <3>2. rb[found] \in Seq(Body) /\ Append(rb[found], body) # rb[found]
      <4>1. rb[found] \in Seq(Body)
        BY <2>1, <2>2, <2>6
      <4>2. Len(Append(rb[found], body)) = Len(rb[found]) + 1 /\ Len(rb[found]) \in Nat
        BY <4>1, AppendProperties, LenProperties
      <4>3. QED
        BY <4>1, <4>2
    <3>3. rb'[c] # rb[c] <=> c = found
      BY <2>1, <2>2, <2>6, <3>1, <3>2
    <3>4. Open(c) /\ fd[c] = f => c = found
      BY <1>1, <2>2, <2>6 DEF OrphanInv, OneFdEach
    <3>5. QED
      BY <2>2, <2>6, <3>3, <3>4
  <2>7. QED
    BY <2>5, <2>6
<1>2. OrphanInv => [\A port \in Port, f \in Fd, body \in Body :
                      gc_tunnel_response(port, f, body) =>
                        \A c \in Client : rb'[c] # rb[c] <=>
                          Open(c) /\ fd[c] = f /\ info[parent[c]].port_remote = port]_vars
  BY <1>1
<1>3. QED
  BY <1>2, HeldAlways, PTL DEF ResponseReachesItsClient
-----------------------------------------------------------------------------
(* The list of tunnels has none of them twice, and what was handed to the  *)
(* upstream connection is a list of messages.                              *)
ToldInv == OrphanInv /\ IsInjective(tunnels) /\ up \in Seq(Message)

(* The stop message of an open client names it: no other open client has   *)
(* its descriptor, and it is the head of one chain of one table.           *)
LEMMA StopNamesClient ==
  ASSUME OrphanInv, NEW gone \in SUBSET Listed, NEW c \in Client, Open(c), parent[c] \in gone,
         NEW t \in gone, NEW b \in Used(t)
  PROVE  endpoint_stop(HeadOf(t, b)) = endpoint_stop(c) <=> t = parent[c] /\ b = ht_key[fd[c]]
<1> DEFINE d == HeadOf(t, b)
<1>1. /\ b \in Bucket /\ t \in Tunnel
      /\ clients[t][b] \in Seq(Entry) /\ clients[t][b] # <<>>
  BY ListedTunnels DEF Used, OrphanInv, TunnelInv, Shape
<1>2. 1 \in DOMAIN clients[t][b]
  BY <1>1, EmptySeq, LenProperties
<1>3. d \in Client
  BY <1>1, <1>2, EntryInTable DEF HeadOf, OrphanInv, TunnelInv
<1>4. Open(d) /\ parent[d] = t /\ ht_key[fd[d]] = b
  BY <1>1, <1>2 DEF HeadOf, OrphanInv, TunnelInv, TablesOK, Sound
<1>5. endpoint_stop(d) = endpoint_stop(c) => d = c
  BY <1>3, <1>4 DEF endpoint_stop, OrphanInv, OneFdEach
<1>6. t = parent[c] /\ b = ht_key[fd[c]] => d = c
  BY DEF OrphanInv, OpenIsHeld, Held, HeadOf
<1>7. QED
  BY <1>4, <1>5, <1>6

(* The end of tunnels tells of each of their open clients, once.           *)
LEMMA StopTellsOnce ==
  ASSUME OrphanInv, IsInjective(tunnels), NEW gone \in SUBSET Listed,
         NEW c \in Client, Open(c), parent[c] \in gone
  PROVE  InOnePlace(StopMessages(gone), endpoint_stop(c))
<1> DEFINE Stop == [type : {"endpoint_stop"}, to : Pid, fd : Fd]
           list == Among(tunnels, gone)
           all  == [i \in DOMAIN list |-> StopMessagesOf(list[i])]
           e    == endpoint_stop(c)
<1>1. gone \subseteq Tunnel /\ tunnels \in Seq(Tunnel)
  BY ListedTunnels DEF OrphanInv, TunnelInv, Shape
<1>2. list \in Seq(Tunnel) /\ Range(list) = gone /\ IsInjective(list)
  <2>1. /\ list \in Seq(Tunnel) /\ Range(list) = Range(tunnels) \cap gone
        /\ IsInjective(tunnels) => IsInjective(list)
    BY <1>1, AmongProperties
  <2> HIDE DEF list
  <2>2. QED
    BY <2>1 DEF Listed
<1>3. StopMessages(gone) = FlattenSeq(all)
  BY DEF StopMessages
<1> HIDE DEF list
<1>4. Len(list) \in Nat /\ DOMAIN list = 1..Len(list) /\ \A i \in DOMAIN list : list[i] \in gone
  BY <1>2, LenProperties DEF Range
<1>5. ASSUME NEW t \in gone
      PROVE  /\ StopMessagesOf(t) \in Seq(Stop)
             /\ t # parent[c] => InNone(StopMessagesOf(t), e)
             /\ t = parent[c] => InOnePlace(StopMessagesOf(t), e)
  <2> DEFINE order == Ascending(Used(t))
  <2>1. StopMessagesOf(t) \in Seq(Stop)
    BY StopMessagesInSeq
  <2>2. Used(t) \in SUBSET Nat /\ IsFiniteSet(Used(t))
    <3>1. Used(t) \in SUBSET Bucket
      BY DEF Used
    <3>2. QED
      BY <3>1, TunnelAssumption, FS_Subset
  <2>3. /\ DOMAIN order = 1..Cardinality(Used(t)) /\ Cardinality(Used(t)) \in Nat
        /\ \A i \in DOMAIN order : order[i] \in Used(t)
        /\ \A i, j \in DOMAIN order : i < j => order[i] < order[j]
        /\ \A b \in Used(t) : \E i \in DOMAIN order : order[i] = b
    BY <2>2, AscendingProperties, AscendingAll, ElementOfSeq, LenProperties, FS_CardinalityType
  <2>4. /\ DOMAIN StopMessagesOf(t) = DOMAIN order
        /\ \A i \in DOMAIN order : StopMessagesOf(t)[i] = endpoint_stop(HeadOf(t, order[i]))
    BY DEF StopMessagesOf
  <2> HIDE DEF order, e
  <2>5. \A i \in DOMAIN order :
          StopMessagesOf(t)[i] = e <=> t = parent[c] /\ order[i] = ht_key[fd[c]]
    <3>1. \A b \in Used(t) : endpoint_stop(HeadOf(t, b)) = endpoint_stop(c)
                              <=> t = parent[c] /\ b = ht_key[fd[c]]
      BY StopNamesClient
    <3>2. QED
      BY <2>3, <2>4, <3>1 DEF e
  <2>6. t # parent[c] => InNone(StopMessagesOf(t), e)
    BY <2>4, <2>5 DEF InNone
  <2>7. ASSUME t = parent[c] PROVE InOnePlace(StopMessagesOf(t), e)
    <3>1. ht_key[fd[c]] \in Used(t)
      BY <2>7, TunnelAssumption DEF OrphanInv, OpenIsHeld, Held, Used
    <3>2. PICK q \in DOMAIN order : order[q] = ht_key[fd[c]]
      BY <2>3, <3>1
    <3>3. \A r \in DOMAIN order : order[r] = order[q] => r = q
      <4>1. \A r \in DOMAIN order : r < q \/ q < r \/ r = q
        BY <2>3
      <4>2. order[q] \in Nat /\ ~(order[q] < order[q])
        BY <2>2, <2>3
      <4>3. QED
        BY <2>3, <4>1, <4>2
    <3>4. QED
      BY <2>4, <2>5, <2>7, <3>2, <3>3 DEF InOnePlace
  <2>8. QED
    BY <2>1, <2>6, <2>7
<1>6. PICK k \in DOMAIN list : list[k] = parent[c]
  BY <1>2 DEF Range
<1>7. \A i \in DOMAIN list : i # k => list[i] # parent[c]
  BY <1>2, <1>6 DEF IsInjective
<1> HIDE DEF Stop, e
<1>8. all \in Seq(Seq(Stop)) /\ Len(all) = Len(list)
  <2>1. all \in Seq(Seq(Stop))
    BY <1>4, <1>5, IsASeq
  <2>2. QED
    BY <1>4, <2>1, LenProperties
<1>9. /\ k \in 1..Len(all) /\ InOnePlace(all[k], e)
      /\ \A i \in 1..Len(all) : i # k => InNone(all[i], e)
  BY <1>4, <1>5, <1>6, <1>7, <1>8
<1> HIDE DEF all
<1>10. QED
  BY <1>3, <1>8, <1>9, FlattenPlaces DEF e

(* Where an open client's messages go. *)
LEMMA OpenLeads ==
  ASSUME OrphanInv, NEW c \in Client, Open(c)
  PROVE  /\ parent[c] \in Listed /\ fd[c] \in Fd
         /\ info[parent[c]] \in [pid : Pid, port_remote : Port]
  BY ListedTunnels DEF OrphanInv, OpenIsHeld, Held, ListedLead, TunnelInv, Shape

(* Each handler hands messages to the upstream connection, and no tunnel   *)
(* is linked twice.                                                        *)
LEMMA ToldStep == ASSUME NoCollision, ToldInv, [Next]_vars PROVE ToldInv'
<1>1. OrphanInv /\ OrphanInv' /\ up \in Seq(Message) /\ IsInjective(tunnels)
  BY OrphanStep DEF ToldInv
<1>2. Listed \subseteq Tunnel /\ tunnels \in Seq(Tunnel)
  BY <1>1, ListedTunnels DEF OrphanInv, TunnelInv, Shape
<1>3. \A gone \in SUBSET Listed : StopMessages(gone) \in Seq(Message)
  <2> DEFINE Stop == [type : {"endpoint_stop"}, to : Pid, fd : Fd]
  <2>1. SUFFICES ASSUME NEW gone \in SUBSET Listed PROVE StopMessages(gone) \in Seq(Message)
    OBVIOUS
  <2>2. StopMessages(gone) \in Seq(Stop)
    BY <1>1, StopMessagesSeq
  <2>3. Stop \subseteq Message
    BY DEF Message
  <2> HIDE DEF Stop
  <2>4. StopMessages(gone) \in [1..Len(StopMessages(gone)) -> Stop]
        /\ Len(StopMessages(gone)) \in Nat
    BY <2>2, LenProperties
  <2>5. StopMessages(gone) \in [1..Len(StopMessages(gone)) -> Message]
    BY <2>3, <2>4
  <2>6. QED
    BY <2>4, <2>5, IsASeq
<1>4. ASSUME NEW ms \in Seq(Message), up' = up \o ms PROVE up' \in Seq(Message)
  BY <1>1, <1>4, ConcatProperties
<1>5. ASSUME NEW m \in Message, up' = up \o <<m>> PROVE up' \in Seq(Message)
  <2>1. <<m>> \in Seq(Message)
    OBVIOUS
  <2>2. QED
    BY <1>4, <1>5, <2>1
<1>6. ASSUME NEW gone \in SUBSET Listed, StopTunnels(gone) PROVE IsInjective(tunnels')
  BY <1>1, <1>2, <1>6, AmongProperties DEF StopTunnels
<1>7. ASSUME NEW pid \in Pid, NEW port \in Port, NEW forced \in BOOLEAN,
             gc_tunnel_add(pid, port, forced)
      PROVE  IsInjective(tunnels') /\ up' = up
  <2>1. PICK t \in Tunnel : Fresh(t) /\ tunnels' = Cons(t, tunnels)
    BY <1>7 DEF gc_tunnel_add
  <2>2. t \notin Listed
    BY <1>1, <2>1 DEF Fresh, OrphanInv, ListedLead
  <2>3. IsInjective(Cons(t, tunnels))
    BY <1>1, <1>2, <2>2, ConsInjective DEF Listed
  <2>4. QED
    BY <1>7, <2>1, <2>3 DEF gc_tunnel_add
<1>8. ASSUME NEW pid \in Pid, gc_tunnel_stop(pid)
      PROVE  IsInjective(tunnels') /\ up' \in Seq(Message)
  <2> DEFINE gone == {t \in Listed : info[t].pid = pid}
  <2>1. gone \in SUBSET Listed /\ StopTunnels(gone) /\ up' = up \o StopMessages(gone)
    BY <1>8 DEF gc_tunnel_stop, gc_packet_sends
  <2> HIDE DEF gone
  <2>2. QED
    BY <1>3, <1>4, <1>6, <2>1
<1>9. CASE upstream_error \/ stop
  <2>1. StopTunnels(Listed) /\ up' \in {<<>>, StopMessages(Listed)}
    BY <1>9 DEF upstream_error, stop
  <2>2. Listed \in SUBSET Listed
    OBVIOUS
  <2>3. QED
    BY <1>1, <1>3, <1>6, <2>1, <2>2, EmptySeq DEF ToldInv
<1>10. ASSUME NEW c \in Client, client_error(c) PROVE ToldInv'
  <2>1. tunnels' = tunnels /\ Open(c)
    BY <1>10 DEF client_error, lists
  <2>2. endpoint_stop(c) \in Message
    BY <1>1, <2>1, OpenLeads DEF endpoint_stop, Message
  <2>3. up' = up \/ up' = up \o <<endpoint_stop(c)>>
    BY <1>10 DEF client_error, gc_packet_sends
  <2>4. QED
    BY <1>1, <1>5, <2>1, <2>2, <2>3 DEF ToldInv
<1>11. ASSUME NEW c \in Client, NEW body \in Body, async_read(c, body) PROVE ToldInv'
  <2> DEFINE m == [type |-> "tunnel_request", to |-> info[parent[c]].pid,
                   port |-> info[parent[c]].port_remote, fd |-> fd[c], body |-> body]
  <2>1. tunnels' = tunnels /\ Open(c) /\ client_data(c, body)
    BY <1>11 DEF async_read, lists
  <2>2. m \in Message
    BY <1>1, <2>1, OpenLeads DEF Message
  <2>3. up' = up \/ up' = up \o <<m>>
    BY <2>1 DEF client_data, gc_packet_sends
  <2> HIDE DEF m
  <2>4. QED
    BY <1>1, <1>5, <2>1, <2>2, <2>3 DEF ToldInv
<1>12. CASE upstream_sent
  BY <1>1, <1>12, HeadTailProperties DEF upstream_sent, lists, ToldInv
<1>13. ASSUME tunnels' = tunnels, up' = up PROVE ToldInv'
  BY <1>1, <1>13 DEF ToldInv
<1>14. ASSUME NEW t \in Tunnel, NEW f \in Fd, server_async_client(t, f) PROVE ToldInv'
  BY <1>13, <1>14 DEF server_async_client, lists
<1>15. ASSUME NEW c \in Client, async_write(c) PROVE ToldInv'
  BY <1>13, <1>15 DEF async_write, lists
<1>16. ASSUME NEW port \in Port, NEW f \in Fd, NEW body \in Body,
              gc_tunnel_response(port, f, body)
       PROVE  ToldInv'
  BY <1>13, <1>16 DEF gc_tunnel_response, lists
<1>17. CASE sigh_terminate \/ UNCHANGED vars
  BY <1>13, <1>17 DEF sigh_terminate, vars, lists
<1>18. ASSUME IsInjective(tunnels'), up' \in Seq(Message) PROVE ToldInv'
  BY <1>1, <1>18 DEF ToldInv
<1>19. QED
  BY <1>1, <1>7, <1>8, <1>9, <1>10, <1>11, <1>12, <1>14, <1>15, <1>16, <1>17, <1>18 DEF Next

(* When a client ends, or the relay takes its tunnel down, the process at  *)
(* the other end is told once of it, in the step that ends it, as long as  *)
(* no two descriptors share a bucket.  client_error() sends the message    *)
(* itself; gc_tunnel_stop() finds the client as the head of a chain of a   *)
(* table of a tunnel of the list, and of no other.                         *)
THEOREM EndsAreAnnounced == ASSUME NoCollision PROVE Spec => EndIsAnnounced
<1>1. Spec => []ToldInv
  <2>1. ASSUME Init PROVE ToldInv
    <3>1. OrphanInv
      <4>1. (\A c \in Client : ~Open(c)) /\ Listed = {} /\ rb \in [Client -> Seq(Body)]
        BY <2>1, EmptySeq DEF Init, Open, Listed, Range
      <4>2. QED
        BY <2>1, <4>1, TunnelInit DEF OrphanInv, OpenIsHeld, OneFdEach, ListedLead
    <3>2. up \in Seq(Message) /\ IsInjective(tunnels)
      BY <2>1, EmptySeq DEF Init, IsInjective
    <3>3. QED
      BY <3>1, <3>2 DEF ToldInv
  <2>2. Init => ToldInv
    BY <2>1
  <2>3. ToldInv /\ [Next]_vars => ToldInv'
    BY ToldStep
  <2>4. QED
    BY <2>2, <2>3, PTL DEF Spec
<1>2. ASSUME ToldInv, NEW c \in Client, NEW ms, NEW q \in DOMAIN ms, NEW X, ms \in Seq(X),
             up' = up \o ms, \A r \in DOMAIN ms : ms[r] = endpoint_stop(c) <=> r = q
      PROVE  Cardinality({i \in DOMAIN up' : i > Len(up) /\ up'[i] = endpoint_stop(c)}) = 1
  <2> DEFINE Y == Message \cup X
             e == endpoint_stop(c)
  <2>1. up \in Seq(Y) /\ ms \in Seq(Y)
    <3>1. \A S : S \subseteq Y => Seq(S) \subseteq Seq(Y)
      BY LenProperties, IsASeq
    <3>2. QED
      BY <1>2, <3>1 DEF ToldInv
  <2> HIDE DEF Y, e
  <2>2. /\ Len(up) \in Nat /\ Len(ms) \in Nat
        /\ DOMAIN ms = 1..Len(ms) /\ DOMAIN up' = 1..(Len(up) + Len(ms))
        /\ \A i \in 1..Len(ms) : up'[Len(up) + i] = ms[i]
    BY <1>2, <2>1, ConcatProperties, LenProperties
  <2>3. ASSUME NEW i \in DOMAIN up' PROVE i > Len(up) /\ up'[i] = e <=> i = Len(up) + q
    <3>1. CASE i > Len(up)
      <4>1. i - Len(up) \in 1..Len(ms) /\ Len(up) + (i - Len(up)) = i
        BY <2>2, <3>1
      <4>2. up'[i] = ms[i - Len(up)]
        BY <2>2, <4>1
      <4>3. up'[i] = e <=> i - Len(up) = q
        BY <1>2, <2>2, <4>1, <4>2 DEF e
      <4>4. QED
        BY <2>2, <3>1, <4>3
    <3>2. CASE ~(i > Len(up))
      BY <2>2, <3>2
    <3>3. QED
      BY <3>1, <3>2
  <2>4. Len(up) + q \in DOMAIN up'
    BY <2>2
  <2>5. {i \in DOMAIN up' : i > Len(up) /\ up'[i] = e} = {Len(up) + q}
    BY <2>3, <2>4
  <2>6. QED
    BY <2>5, FS_Singleton DEF e
<1>3. ASSUME ToldInv, NEW c \in Client, Open(c), st'[c] = "freed",
             client_error(c) \/ gc_tunnel_stop(info[parent[c]].pid)
      PROVE  Cardinality({i \in DOMAIN up' : i > Len(up) /\ up'[i] = endpoint_stop(c)}) = 1
  <2>1. CASE client_error(c)
    <3> DEFINE ms == <<endpoint_stop(c)>>
    <3>1. up' = up \o ms
      BY <1>3, <2>1 DEF client_error, gc_packet_sends, Open
    <3>2. ms \in Seq({endpoint_stop(c)}) /\ DOMAIN ms = {1} /\ ms[1] = endpoint_stop(c)
      OBVIOUS
    <3> HIDE DEF ms
    <3>3. QED
      BY <1>2, <1>3, <3>1, <3>2
  <2>2. CASE gc_tunnel_stop(info[parent[c]].pid)
    <3> DEFINE gone == {t \in Listed : info[t].pid = info[parent[c]].pid}
               ms   == StopMessages(gone)
    <3>1. OrphanInv /\ IsInjective(tunnels)
      BY <1>3 DEF ToldInv
    <3>2. gone \in SUBSET Listed /\ parent[c] \in gone
      BY <1>3, <3>1, OpenLeads
    <3>3. up' = up \o ms
      BY <2>2 DEF gc_tunnel_stop, gc_packet_sends
    <3> HIDE DEF gone
    <3>4. InOnePlace(ms, endpoint_stop(c))
      BY <1>3, <3>1, <3>2, StopTellsOnce
    <3>5. ms \in Seq([type : {"endpoint_stop"}, to : Pid, fd : Fd])
      BY <3>1, <3>2, StopMessagesSeq
    <3> HIDE DEF ms
    <3>6. PICK q \in DOMAIN ms : \A r \in DOMAIN ms : ms[r] = endpoint_stop(c) <=> r = q
      BY <3>4 DEF InOnePlace
    <3>7. QED
      BY <1>2, <1>3, <3>3, <3>5, <3>6
  <2>3. QED
    BY <1>3, <2>1, <2>2
<1>4. ToldInv => [\A c \in Client :
                    /\ Open(c) /\ st'[c] = "freed"
                    /\ client_error(c) \/ gc_tunnel_stop(info[parent[c]].pid)
                    => Cardinality({i \in DOMAIN up' :
                                      i > Len(up) /\ up'[i] = endpoint_stop(c)}) = 1]_vars
  BY <1>3
<1>5. QED
  BY <1>1, <1>4, PTL DEF EndIsAnnounced
=============================================================================
