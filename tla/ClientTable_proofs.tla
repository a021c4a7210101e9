------------------------- MODULE ClientTable_proofs -------------------------
(***************************************************************************)
(* Proofs about the clients table, for every set of descriptors and every  *)
(* hash function.                                                          *)
(***************************************************************************)
EXTENDS ClientTable, SeqLemmas

(* Where a key is stored, Position is an index of its entry. *)
LEMMA PositionOfStored ==
  ASSUME NEW t \in [Bucket -> Seq(Entry)], NEW key \in Key, IsStored(t, key)
  PROVE  /\ Position(t, key) \in DOMAIN Chain(t, key)
         /\ Chain(t, key)[Position(t, key)].k = key
<1> DEFINE I == {i \in 1..Len(Chain(t, key)) : Chain(t, key)[i].k = key}
<1>1. Chain(t, key) \in Seq(Entry)
  BY HashAssumption DEF Chain
<1>2. DOMAIN Chain(t, key) = 1..Len(Chain(t, key)) /\ Len(Chain(t, key)) \in Nat
  BY <1>1, LenProperties
<1>3. I # {} /\ I \in SUBSET Nat
  BY <1>2 DEF IsStored
<1>4. Position(t, key) = Min(I)
  BY <1>3 DEF Position, SelectInSeq
<1>5. Min(I) \in I
  BY <1>3, MinOfNat
<1>6. QED
  BY <1>2, <1>4, <1>5

(* What ht_add leaves in the bucket of its key. *)
LEMMA AddedChain ==
  ASSUME NEW t \in [Bucket -> Seq(Entry)], NEW key \in Key, NEW value \in Value,
         ~IsStored(t, key)
  PROVE  /\ HtAdd(t, key, value) \in [Bucket -> Seq(Entry)]
         /\ Chain(HtAdd(t, key, value), key)
              = Cons([k |-> key, s |-> value], Chain(t, key))
         /\ \A b \in Bucket \ {ht_key[key]} : HtAdd(t, key, value)[b] = t[b]
<1>1. ht_key[key] \in Bucket /\ [k |-> key, s |-> value] \in Entry
  BY HashAssumption DEF Entry
<1>2. Cons([k |-> key, s |-> value], Chain(t, key)) \in Seq(Entry)
  BY <1>1, ConsProperties DEF Chain
<1>3. QED
  BY <1>1, <1>2 DEF HtAdd, Chain

(* The table holds entries only, in the bucket of their key, a key at most *)
(* once, and never a client structure that was freed.                      *)
THEOREM TableCorrect == Spec => []TableInv
<1> USE HashAssumption
<1>1. Init => TableInv
  BY EmptySeq DEF Init, HtInit, TableInv, TypeOK, ChainsOK, WellFormed, NoFreedClient
<1>2. ASSUME TableInv, [Next]_vars
      PROVE  TableInv'
  <2> USE <1>2
  <2>0. /\ ht \in [Bucket -> Seq(Entry)]
        /\ open \in [Key -> Value \cup {NULL}]
        /\ \A b \in Bucket : \A i \in DOMAIN ht[b] :
             /\ ht[b][i] \in Entry
             /\ ht_key[ht[b][i].k] = b
             /\ open[ht[b][i].k] = ht[b][i].s
             /\ \A j \in DOMAIN ht[b] : ht[b][i].k = ht[b][j].k => i = j
    <3>1. ht \in [Bucket -> Seq(Entry)] /\ open \in [Key -> Value \cup {NULL}]
      BY DEF TableInv, TypeOK
    <3>2. \A b \in Bucket : \A i \in DOMAIN ht[b] : ht[b][i] \in Entry
      BY <3>1, ElementOfSeq, LenProperties
    <3>3. QED
      BY <3>1, <3>2 DEF TableInv, ChainsOK, WellFormed, NoFreedClient
  <2>1. ASSUME NEW fd \in Key, NEW client \in Value, connector_addclient(fd, client)
        PROVE  TableInv'
    <3> USE <2>1
    <3>1. ~IsStored(ht, fd)
      <4>1. SUFFICES ASSUME NEW i \in DOMAIN ht[ht_key[fd]], ht[ht_key[fd]][i].k = fd
                     PROVE  FALSE
        BY DEF IsStored, Chain
      <4>2. ht[ht_key[fd]][i].s \in Value
        BY <2>0 DEF Entry
      <4>3. QED
        BY <2>0, <4>1, <4>2 DEF connector_addclient
    <3> DEFINE e == [k |-> fd, s |-> client]
               h == ht_key[fd]
    <3>2. /\ ht' \in [Bucket -> Seq(Entry)]
          /\ ht'[h] = Cons(e, ht[h])
          /\ \A b \in Bucket \ {h} : ht'[b] = ht[b]
      BY <2>0, <3>1, AddedChain DEF connector_addclient, Chain
    <3>3. h \in Bucket /\ e \in Entry /\ ht[h] \in Seq(Entry)
      BY <2>0 DEF Entry
    <3> DEFINE c == ht[h]
    <3>0. c \in Seq(Entry) /\ Cons(e, c) \in Seq(Entry)
      BY <3>3, ConsProperties
    <3> HIDE DEF h, e, c
    <3>4. /\ DOMAIN c = 1..Len(c)
          /\ DOMAIN Cons(e, c) = 1..(Len(c) + 1)
          /\ Len(c) \in Nat
          /\ Cons(e, c)[1] = e
          /\ \A i \in 2..(Len(c) + 1) : Cons(e, c)[i] = c[i - 1]
      <4>1. /\ Len(Cons(e, c)) = Len(c) + 1
            /\ Cons(e, c)[1] = e
            /\ \A i \in 2..(Len(c) + 1) : Cons(e, c)[i] = c[i - 1]
        BY <3>0, <3>3, ConsProperties
      <4>2. /\ DOMAIN c = 1..Len(c)
            /\ DOMAIN Cons(e, c) = 1..Len(Cons(e, c))
            /\ Len(c) \in Nat
        BY <3>0, LenProperties
      <4>3. QED
        BY <4>1, <4>2
    <3>41. /\ ht'[h] = Cons(e, c)
           /\ \A i \in DOMAIN ht'[h] :
                \/ i = 1 /\ ht'[h][i] = e
                \/ i - 1 \in DOMAIN ht[h] /\ ht'[h][i] = ht[h][i - 1]
           /\ DOMAIN ht'[h] \subseteq Nat
      <4>1. ht'[h] = Cons(e, c)
        BY <3>2 DEF c
      <4>2. ASSUME NEW i \in DOMAIN Cons(e, c)
            PROVE  i \in Nat /\ (i = 1 \/ (i \in 2..(Len(c) + 1) /\ i - 1 \in 1..Len(c)))
        BY <3>4
      <4>3. QED
        BY <4>1, <4>2, <3>4 DEF c
    <3>42. e.k = fd /\ e.s = client /\ ht_key[fd] = h
      BY DEF e, h
    <3>5. /\ open' \in [Key -> Value \cup {NULL}]
          /\ open'[fd] = client
          /\ \A k \in Key \ {fd} : open'[k] = open[k]
      BY <2>0 DEF connector_addclient
    <3>6. \A i \in DOMAIN ht[h] : ht[h][i].k # fd
      BY <3>1 DEF IsStored, Chain, h
    <3>7. TypeOK'
      BY <3>2, <3>5 DEF TableInv, TypeOK, connector_addclient
    <3>8. ChainsOK'
      <4>1. SUFFICES ASSUME NEW b \in Bucket, NEW i \in DOMAIN ht'[b], NEW j \in DOMAIN ht'[b]
                     PROVE  /\ ht_key[ht'[b][i].k] = b
                            /\ ht'[b][i].k = ht'[b][j].k => i = j
        BY DEF ChainsOK, WellFormed
      <4>2. CASE b # h
        BY <2>0, <3>2, <4>2
      <4>3. CASE b = h
        <5>1. ht_key[ht'[h][i].k] = h
          BY <2>0, <3>3, <3>41, <3>42, <4>3
        <5>2. ht'[h][i].k = ht'[h][j].k => i = j
          <6>1. i \in Nat /\ j \in Nat
            BY <3>41, <4>3
          <6>2. CASE i = 1 \/ j = 1
            BY <3>3, <3>41, <3>42, <3>6, <4>3, <6>1, <6>2
          <6>3. CASE i # 1 /\ j # 1
            <7>1. /\ i - 1 \in DOMAIN ht[h] /\ ht'[h][i] = ht[h][i - 1]
                  /\ j - 1 \in DOMAIN ht[h] /\ ht'[h][j] = ht[h][j - 1]
              BY <3>41, <4>3, <6>3
            <7>2. ht'[h][i].k = ht'[h][j].k => i - 1 = j - 1
              BY <2>0, <3>3, <7>1
            <7>3. QED
              BY <6>1, <7>2
          <6>4. QED
            BY <6>2, <6>3
        <5>3. QED
          BY <4>3, <5>1, <5>2
      <4>4. QED
        BY <4>2, <4>3
    <3>9. NoFreedClient'
      <4>1. SUFFICES ASSUME NEW b \in Bucket, NEW i \in DOMAIN ht'[b]
                     PROVE  open'[ht'[b][i].k] = ht'[b][i].s
        BY DEF NoFreedClient
      <4>2. CASE b # h
        <5>1. ht'[b] = ht[b] /\ ht[b][i].k \in Key /\ ht[b][i].k # fd
          BY <2>0, <3>2, <3>42, <4>2 DEF Entry
        <5>2. QED
          BY <2>0, <3>5, <5>1
      <4>3. CASE b = h
        <5>1. CASE i = 1 /\ ht'[h][i] = e
          BY <3>42, <3>5, <4>3, <5>1
        <5>2. CASE i - 1 \in DOMAIN ht[h] /\ ht'[h][i] = ht[h][i - 1]
          <6>1. ht[h][i - 1].k \in Key /\ ht[h][i - 1].k # fd
            BY <2>0, <3>3, <3>6, <5>2 DEF Entry
          <6>2. QED
            BY <2>0, <3>3, <3>5, <4>3, <5>2, <6>1
        <5>3. QED
          BY <3>41, <4>3, <5>1, <5>2
      <4>4. QED
        BY <4>2, <4>3
    <3>10. QED
      BY <3>7, <3>8, <3>9 DEF TableInv
  <2>2. ASSUME NEW fd \in Key, client_removed(fd)
        PROVE  TableInv'
    <3> USE <2>2
    <3> DEFINE h == ht_key[fd]
    <3>1. open' = [open EXCEPT ![fd] = NULL] /\ found' = found
      BY DEF client_removed
    <3>2. CASE IsStored(ht, fd)
      <4>1. ht' = [ht EXCEPT ![h] = <<>>]
        BY <3>2 DEF client_removed, HtRem
      <4>2. /\ ht'[h] = <<>>
            /\ \A b \in Bucket \ {h} : ht'[b] = ht[b]
            /\ ht' \in [Bucket -> Seq(Entry)]
        BY <2>0, <4>1, EmptySeq
      <4>3. TypeOK'
        BY <2>0, <3>1, <4>2 DEF TableInv, TypeOK
      <4>4. ChainsOK'
        BY <2>0, <4>2 DEF ChainsOK, WellFormed
      <4>5. NoFreedClient'
        <5>1. SUFFICES ASSUME NEW b \in Bucket \ {h}, NEW i \in DOMAIN ht[b]
                       PROVE  open'[ht[b][i].k] = ht[b][i].s
          BY <4>2 DEF NoFreedClient
        <5>2. ht[b][i].k \in Key /\ ht[b][i].k # fd
          BY <2>0 DEF Entry
        <5>3. QED
          BY <2>0, <3>1, <5>2
      <4>6. QED
        BY <4>3, <4>4, <4>5 DEF TableInv
    <3>3. CASE ~IsStored(ht, fd)
      <4>1. ht' = ht
        BY <3>3 DEF client_removed, HtRem
      <4>2. TypeOK' /\ ChainsOK'
        BY <2>0, <3>1, <4>1 DEF TableInv, TypeOK, ChainsOK, WellFormed
      <4>3. NoFreedClient'
        <5>1. SUFFICES ASSUME NEW b \in Bucket, NEW i \in DOMAIN ht[b]
                       PROVE  open'[ht[b][i].k] = ht[b][i].s
          BY <4>1 DEF NoFreedClient
        <5>2. ht[b][i].k \in Key /\ ht[b][i].k # fd
          BY <2>0, <3>3 DEF Entry, IsStored, Chain
        <5>3. QED
          BY <2>0, <3>1, <5>2
      <4>4. QED
        BY <4>2, <4>3 DEF TableInv
    <3>4. QED
      BY <3>2, <3>3
  <2>3. ASSUME NEW fd \in Key, client_lookup(fd)
        PROVE  TableInv'
    <3> USE <2>3
    <3>1. HtGet(ht, fd) \in Entry \cup {NULL}
      <4>1. Chain(ht, fd) \in Seq(Entry)
        BY <2>0 DEF Chain
      <4>2. Len(Chain(ht, fd)) = 1 => Chain(ht, fd)[1] \in Entry
        <5>1. Len(Chain(ht, fd)) = 1 => 1 \in 1..Len(Chain(ht, fd))
          OBVIOUS
        <5>2. QED
          BY <4>1, <5>1, ElementOfSeq
      <4>3. IsStored(ht, fd) => Chain(ht, fd)[Position(ht, fd)] \in Entry
        BY <2>0, <4>1, PositionOfStored, ElementOfSeq, LenProperties
      <4>4. QED
        BY <4>2, <4>3 DEF HtGet
    <3>2. QED
      BY <2>0, <3>1 DEF client_lookup, TableInv, TypeOK, ChainsOK, WellFormed, NoFreedClient
  <2>4. CASE UNCHANGED vars
    BY <2>4 DEF vars, TableInv, TypeOK, ChainsOK, WellFormed, NoFreedClient
  <2>5. QED
    BY <2>1, <2>2, <2>3, <2>4 DEF Next
<1>3. QED
  BY <1>1, <1>2, PTL DEF Spec

(* For every hash function, the table never keeps a pointer to a freed     *)
(* client, so that async_server_shutdown() and tunnel_client_find() can    *)
(* follow what they find.                                                  *)
THEOREM NoFreedClientStored == Spec => [](ChainsOK /\ NoFreedClient)
<1>1. TableInv => ChainsOK /\ NoFreedClient
  BY DEF TableInv
<1>2. QED
  BY <1>1, TableCorrect, PTL

(* For every hash function, ht_get finds the client that is open under a   *)
(* stored descriptor, on its fast path too.                                *)
THEOREM LookupCorrect == Spec => LookupFindsStored
<1> USE HashAssumption
<1>1. ASSUME TableInv, NEW fd \in Key, client_lookup(fd), IsStored(ht, fd)
      PROVE  found' # NULL /\ found'.k = fd /\ found'.s = open[fd]
  <2> DEFINE c == Chain(ht, fd)
             p == Position(ht, fd)
  <2> USE <1>1
  <2>1. ht \in [Bucket -> Seq(Entry)] /\ c \in Seq(Entry) /\ ht_key[fd] \in Bucket
    BY DEF TableInv, TypeOK, Chain
  <2>2. p \in DOMAIN c /\ c[p].k = fd
    BY <2>1, PositionOfStored
  <2>3. c[p] \in Entry /\ c[p] # NULL
    BY <2>1, <2>2, ElementOfSeq, LenProperties
  <2>4. open[c[p].k] = c[p].s
    BY <2>1, <2>2 DEF TableInv, NoFreedClient, Chain
  <2>5. found' = c[p]
    <3>1. Len(c) = 1 => p = 1
      BY <2>1, <2>2, LenProperties
    <3>2. found' = HtGet(ht, fd)
      BY DEF client_lookup
    <3> HIDE DEF c, p
    <3>3. HtGet(ht, fd) = c[p]
      BY <3>1 DEF HtGet, c, p
    <3>4. QED
      BY <3>2, <3>3
  <2>6. QED
    BY <2>2, <2>3, <2>4, <2>5
<1>2. TableInv => [\A fd \in Key : client_lookup(fd) /\ IsStored(ht, fd)
                     => found' # NULL /\ found'.k = fd /\ found'.s = open[fd]]_vars
  BY <1>1
<1>3. QED
  BY <1>2, TableCorrect, PTL DEF LookupFindsStored

(* The map a table stands for can be read off any place of a chain. *)
LEMMA ContentOfEntry ==
  ASSUME NEW t \in [Bucket -> Seq(Entry)], WellFormed(t), NEW key \in Key,
         NEW i \in DOMAIN Chain(t, key), Chain(t, key)[i].k = key
  PROVE  IsStored(t, key) /\ Content(t)[key] = Chain(t, key)[i].s
<1> USE HashAssumption
<1>1. IsStored(t, key)
  BY DEF IsStored
<1>2. Position(t, key) \in DOMAIN Chain(t, key) /\ Chain(t, key)[Position(t, key)].k = key
  BY <1>1, PositionOfStored
<1>3. Position(t, key) = i
  BY <1>2 DEF WellFormed, Chain
<1>4. QED
  BY <1>1, <1>3 DEF Content

(* A chain that keeps its entries in a new table keeps what they stand for. *)
LEMMA ContentOfBucket ==
  ASSUME NEW t \in [Bucket -> Seq(Entry)], NEW u \in [Bucket -> Seq(Entry)],
         NEW key \in Key, Chain(u, key) = Chain(t, key)
  PROVE  Content(u)[key] = Content(t)[key]
BY DEF Content, IsStored, Position

(* The table behaves as a map in which only the keys of one bucket are     *)
(* confused: ht_add binds its own key, ht_rem unbinds its own key and      *)
(* leaves the other buckets alone, and ht_get answers for a key that is    *)
(* stored, whatever the hash.                                              *)
THEOREM TableImplementsMap == Spec => ImplementsMap
<1> USE HashAssumption
<1>1. Init => Map!Init
  <2> SUFFICES ASSUME Init PROVE Map!Init
    OBVIOUS
  <2>1. \A k \in Key : ~IsStored(ht, k)
    BY DEF Init, HtInit, IsStored, Chain
  <2>2. Content(ht) = [k \in Key |-> NULL] /\ FoundValue = NULL
    BY <2>1 DEF Content, FoundValue, Init
  <2>3. QED
    BY <2>2 DEF Map!Init, Init
<1>2. ASSUME TableInv, TableInv', [Next]_vars
      PROVE  [Map!Next]_(Map!vars)
  <2> USE <1>2
  <2>0. /\ ht \in [Bucket -> Seq(Entry)] /\ ht' \in [Bucket -> Seq(Entry)]
        /\ WellFormed(ht) /\ WellFormed(ht')
        /\ \A k \in Key : ht_key[k] \in Bucket
    BY DEF TableInv, TypeOK, ChainsOK
  <2>1. /\ Content(ht) = [k \in Key |-> Content(ht)[k]]
        /\ Content(ht') = [k \in Key |-> Content(ht')[k]]
        /\ \A k \in Key : ~IsStored(ht, k) => Content(ht)[k] = NULL
        /\ \A k \in Key : ~IsStored(ht', k) => Content(ht')[k] = NULL
    BY DEF Content
  <2>2. \A k \in Key : ht'[ht_key[k]] = ht[ht_key[k]] => Content(ht')[k] = Content(ht)[k]
    BY <2>0, ContentOfBucket DEF Chain
  <2>3. ASSUME NEW fd \in Key, NEW client \in Value, connector_addclient(fd, client)
        PROVE  Map!Add(fd, client)
    <3> USE <2>3
    <3> DEFINE e == [k |-> fd, s |-> client]
               h == ht_key[fd]
    <3>1. ~IsStored(ht, fd)
      <4>1. SUFFICES ASSUME NEW i \in DOMAIN ht[h], ht[h][i].k = fd
                     PROVE  FALSE
        BY DEF IsStored, Chain
      <4>2. ht[h][i].s \in Value
        BY <2>0, ElementOfSeq, LenProperties DEF Entry
      <4>3. QED
        BY <2>0, <4>1, <4>2 DEF connector_addclient, TableInv, NoFreedClient
    <3>2. /\ ht'[h] = Cons(e, ht[h])
          /\ \A b \in Bucket \ {h} : ht'[b] = ht[b]
      <4>1. ht' = HtAdd(ht, fd, client)
        BY DEF connector_addclient
      <4>2. /\ Chain(HtAdd(ht, fd, client), fd) = Cons([k |-> fd, s |-> client], Chain(ht, fd))
            /\ \A b \in Bucket \ {ht_key[fd]} : HtAdd(ht, fd, client)[b] = ht[b]
        BY <2>0, <3>1, AddedChain
      <4>3. QED
        BY <4>1, <4>2 DEF Chain
    <3>3. h \in Bucket /\ e \in Entry /\ ht[h] \in Seq(Entry) /\ e.k = fd /\ e.s = client
      BY <2>0 DEF Entry
    <3> HIDE DEF e
    <3>4. /\ DOMAIN ht'[h] = 1..(Len(ht[h]) + 1) /\ Len(ht[h]) \in Nat
          /\ DOMAIN ht[h] = 1..Len(ht[h])
          /\ ht'[h][1] = e
          /\ \A i \in 2..(Len(ht[h]) + 1) : ht'[h][i] = ht[h][i - 1]
      <4> DEFINE c == ht[h]
      <4>0. ht'[h] = Cons(e, c) /\ c \in Seq(Entry)
        BY <3>2, <3>3
      <4> HIDE DEF c
      <4>1. /\ Len(ht'[h]) = Len(c) + 1
            /\ ht'[h] \in Seq(Entry)
            /\ ht'[h][1] = e
            /\ \A i \in 2..(Len(c) + 1) : ht'[h][i] = c[i - 1]
        BY <3>3, <4>0, ConsProperties
      <4> USE DEF c
      <4>2. QED
        BY <3>3, <4>1, LenProperties
    <3>5. Content(ht')[fd] = client
      <4>1. 1 \in DOMAIN Chain(ht', fd) /\ Chain(ht', fd)[1].k = fd /\ Chain(ht', fd)[1].s = client
        BY <3>3, <3>4 DEF Chain
      <4>2. QED
        BY <2>0, <4>1, ContentOfEntry
    <3>6. ASSUME NEW k \in Key \ {fd}
          PROVE  Content(ht')[k] = Content(ht)[k]
      <4>1. CASE ht_key[k] # h
        BY <2>0, <2>2, <3>2, <4>1
      <4>2. CASE ht_key[k] = h /\ IsStored(ht, k)
        <5>1. PICK i \in DOMAIN ht[h] : ht[h][i].k = k
          BY <4>2 DEF IsStored, Chain
        <5>2. i + 1 \in 2..(Len(ht[h]) + 1) /\ (i + 1) - 1 = i
          BY <3>4, <5>1
        <5>3. i + 1 \in DOMAIN ht'[h] /\ ht'[h][i + 1] = ht[h][i]
          BY <3>4, <5>2
        <5>4. Content(ht)[k] = ht[h][i].s
          BY <2>0, <4>2, <5>1, ContentOfEntry DEF Chain
        <5>5. Content(ht')[k] = ht'[h][i + 1].s
          <6>1. Chain(ht', k) = ht'[h] /\ ht'[h][i + 1].k = k
            BY <4>2, <5>1, <5>3 DEF Chain
          <6>2. i + 1 \in DOMAIN Chain(ht', k) /\ Chain(ht', k)[i + 1].k = k
            BY <5>3, <6>1
          <6>3. Content(ht')[k] = Chain(ht', k)[i + 1].s
            BY <2>0, <6>2, ContentOfEntry
          <6>4. QED
            BY <6>1, <6>3
        <5>6. QED
          BY <5>3, <5>4, <5>5
      <4>3. CASE ht_key[k] = h /\ ~IsStored(ht, k)
        <5>1. ASSUME NEW i \in DOMAIN ht'[h], ht'[h][i].k = k
              PROVE  FALSE
          <6>1. CASE i = 1
            BY <3>3, <3>4, <5>1, <6>1
          <6>2. CASE i # 1
            <7>1. i \in 2..(Len(ht[h]) + 1) /\ i - 1 \in DOMAIN ht[h]
              BY <3>4, <6>2
            <7>2. QED
              BY <3>4, <4>3, <5>1, <7>1 DEF IsStored, Chain
          <6>3. QED
            BY <6>1, <6>2
        <5>2. ~IsStored(ht', k)
          BY <4>3, <5>1 DEF IsStored, Chain
        <5>3. QED
          BY <2>1, <4>3, <5>2
      <4>4. QED
        BY <4>1, <4>2, <4>3
    <3>7. Content(ht') = [Content(ht) EXCEPT ![fd] = client]
      BY <2>1, <3>5, <3>6
    <3>8. QED
      BY <3>7 DEF Map!Add, FoundValue, connector_addclient
  <2>4. ASSUME NEW fd \in Key, client_removed(fd)
        PROVE  Map!Rem(fd)
    <3> USE <2>4
    <3>0. FoundValue' = FoundValue
      BY DEF FoundValue, client_removed
    <3>1. CASE IsStored(ht, fd)
      <4>1. ht' = [ht EXCEPT ![ht_key[fd]] = <<>>]
        BY <3>1 DEF client_removed, HtRem
      <4>2. ASSUME NEW k \in Key
            PROVE  Content(ht')[k] = IF k = fd \/ k \in Peers[fd] THEN NULL ELSE Content(ht)[k]
        <5>1. CASE ht_key[k] = ht_key[fd]
          <6>1. ~IsStored(ht', k)
            BY <2>0, <4>1, <5>1 DEF IsStored, Chain
          <6>2. QED
            BY <2>1, <5>1, <6>1 DEF Peers
        <5>2. CASE ht_key[k] # ht_key[fd]
          <6>1. ht'[ht_key[k]] = ht[ht_key[k]]
            BY <2>0, <4>1, <5>2
          <6>2. QED
            BY <2>2, <5>2, <6>1 DEF Peers
        <5>3. QED
          BY <5>1, <5>2
      <4>3. Content(ht') = [k \in Key |-> IF k = fd \/ k \in Peers[fd] THEN NULL ELSE Content(ht)[k]]
        BY <2>1, <4>2
      <4>4. QED
        BY <3>0, <4>3 DEF Map!Rem, client_removed
    <3>2. CASE ~IsStored(ht, fd)
      <4>1. ht' = ht
        BY <3>2 DEF client_removed, HtRem
      <4>2. Content(ht') = [k \in Key |-> IF k = fd \/ k \in {} THEN NULL ELSE Content(ht)[k]]
        BY <2>1, <3>2, <4>1
      <4>3. {} \in SUBSET Peers[fd]
        OBVIOUS
      <4>4. QED
        BY <3>0, <4>2, <4>3 DEF Map!Rem, client_removed
    <3>3. QED
      BY <3>1, <3>2
  <2>5. ASSUME NEW fd \in Key, client_lookup(fd)
        PROVE  Map!Get(fd)
    <3> USE <2>5
    <3> DEFINE c == ht[ht_key[fd]]
    <3>1. ht' = ht /\ open' = open /\ found' = HtGet(ht, fd)
      BY DEF client_lookup
    <3>2. c \in Seq(Entry) /\ DOMAIN c = 1..Len(c) /\ \A i \in DOMAIN c : c[i] \in Entry
      BY <2>0, ElementOfSeq, LenProperties
    <3>3. CASE Len(c) = 1
      <4>1. 1 \in DOMAIN c /\ c[1] \in Entry /\ c[1] # NULL
        BY <3>2, <3>3
      <4>2. FoundValue' = c[1].s
        BY <3>1, <3>3, <4>1 DEF HtGet, Chain, FoundValue
      <4>3. c[1].k \in Key /\ ht_key[c[1].k] = ht_key[fd]
        BY <2>0, <4>1 DEF WellFormed, Entry
      <4>4. Content(ht)[c[1].k] = c[1].s
        <5>1. PICK k \in Key : k = c[1].k
          BY <4>3
        <5>2. Chain(ht, k) = c
          BY <4>3, <5>1 DEF Chain
        <5>3. 1 \in DOMAIN Chain(ht, k) /\ Chain(ht, k)[1].k = k
          BY <4>1, <5>1, <5>2
        <5>4. Content(ht)[k] = Chain(ht, k)[1].s
          BY <2>0, <5>3, ContentOfEntry
        <5>5. QED
          BY <5>1, <5>2, <5>4
      <4>5. CASE c[1].k = fd
        BY <3>1, <4>2, <4>4, <4>5 DEF Map!Get
      <4>6. CASE c[1].k # fd
        <5>1. c[1].k \in Peers[fd]
          BY <4>3, <4>6 DEF Peers
        <5>2. ~IsStored(ht, fd)
          BY <3>2, <3>3, <4>6 DEF IsStored, Chain
        <5>3. Content(ht)[fd] = NULL
          BY <2>1, <5>2
        <5>4. QED
          BY <3>1, <4>2, <4>4, <5>1, <5>3 DEF Map!Get
      <4>7. QED
        BY <4>5, <4>6
    <3>4. CASE Len(c) # 1 /\ IsStored(ht, fd)
      <4>1. Position(ht, fd) \in DOMAIN c /\ c[Position(ht, fd)] \in Entry
        BY <2>0, <3>2, <3>4, PositionOfStored DEF Chain
      <4>2. FoundValue' = c[Position(ht, fd)].s
        BY <3>1, <3>4, <4>1 DEF HtGet, Chain, FoundValue
      <4>3. FoundValue' = Content(ht)[fd]
        BY <3>4, <4>2 DEF Content, Chain
      <4>4. QED
        BY <3>1, <4>3 DEF Map!Get
    <3>5. CASE Len(c) # 1 /\ ~IsStored(ht, fd)
      <4>1. FoundValue' = NULL
        BY <3>1, <3>5 DEF HtGet, Chain, FoundValue
      <4>2. QED
        BY <2>1, <3>1, <3>5, <4>1 DEF Map!Get
    <3>6. QED
      BY <3>3, <3>4, <3>5
  <2>6. CASE UNCHANGED vars
    <3>1. Content(ht') = Content(ht) /\ FoundValue' = FoundValue /\ open' = open
      BY <2>6 DEF vars, FoundValue
    <3>2. QED
      BY <3>1 DEF Map!vars
  <2>7. QED
    BY <2>3, <2>4, <2>5, <2>6 DEF Next, Map!Next
<1>3. QED
  BY <1>1, <1>2, TableCorrect, PTL DEF Spec, Map!Spec, ImplementsMap
=============================================================================
