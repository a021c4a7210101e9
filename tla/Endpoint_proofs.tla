--------------------------- MODULE Endpoint_proofs ---------------------------
(***************************************************************************)
(* Proofs about the list of endpoints, for any number of remote processes, *)
(* descriptors, ports and connections.                                     *)
(***************************************************************************)
EXTENDS Endpoint, SeqLemmas

(* A list holds a key once, a connection once. *)
KeyOnce(s)    == \A a, b \in DOMAIN s : s[a].key = s[b].key => a = b
ClientOnce(s) == \A a, b \in DOMAIN s : s[a].client = s[b].client => a = b

(* What the three traversals return. *)
LEMMA FindProperties ==
  ASSUME endpoints \in Seq(Entry)
  PROVE  /\ \A key : \/ endpoint_find(key) = 0 /\ \A i \in DOMAIN endpoints : endpoints[i].key # key
                     \/ endpoint_find(key) \in DOMAIN endpoints /\ endpoints[endpoint_find(key)].key = key
         /\ \A c : \/ FindClient(c) = 0 /\ \A i \in DOMAIN endpoints : endpoints[i].client # c
                   \/ FindClient(c) \in DOMAIN endpoints /\ endpoints[FindClient(c)].client = c
         /\ \A pid : \/ FindPid(pid) = 0 /\ \A i \in DOMAIN endpoints : endpoints[i].pid # pid
                     \/ FindPid(pid) \in DOMAIN endpoints /\ endpoints[FindPid(pid)].pid = pid
<1>1. DOMAIN endpoints = 1..Len(endpoints) /\ Len(endpoints) \in Nat
  BY LenProperties
<1>2. ASSUME NEW key
      PROVE  \/ endpoint_find(key) = 0 /\ \A i \in DOMAIN endpoints : endpoints[i].key # key
             \/ endpoint_find(key) \in DOMAIN endpoints /\ endpoints[endpoint_find(key)].key = key
  <2> DEFINE I == {i \in 1..Len(endpoints) : endpoints[i].key = key}
  <2>1. endpoint_find(key) = IF I # {} THEN Min(I) ELSE 0
    BY DEF endpoint_find, SelectInSeq
  <2>2. I \in SUBSET Nat
    BY <1>1
  <2>3. I # {} => Min(I) \in I
    <3> HIDE DEF I
    <3>1. QED
      BY <2>2, MinOfNat
  <2>4. QED
    BY <1>1, <2>1, <2>3
<1>3. ASSUME NEW c
      PROVE  \/ FindClient(c) = 0 /\ \A i \in DOMAIN endpoints : endpoints[i].client # c
             \/ FindClient(c) \in DOMAIN endpoints /\ endpoints[FindClient(c)].client = c
  <2> DEFINE I == {i \in 1..Len(endpoints) : endpoints[i].client = c}
  <2>1. FindClient(c) = IF I # {} THEN Min(I) ELSE 0
    BY DEF FindClient, SelectInSeq
  <2>2. I \in SUBSET Nat
    BY <1>1
  <2>3. I # {} => Min(I) \in I
    <3> HIDE DEF I
    <3>1. QED
      BY <2>2, MinOfNat
  <2>4. QED
    BY <1>1, <2>1, <2>3
<1>4. ASSUME NEW pid
      PROVE  \/ FindPid(pid) = 0 /\ \A i \in DOMAIN endpoints : endpoints[i].pid # pid
             \/ FindPid(pid) \in DOMAIN endpoints /\ endpoints[FindPid(pid)].pid = pid
  <2> DEFINE I == {i \in 1..Len(endpoints) : endpoints[i].pid = pid}
  <2>1. FindPid(pid) = IF I # {} THEN Min(I) ELSE 0
    BY DEF FindPid, SelectInSeq
  <2>2. I \in SUBSET Nat
    BY <1>1
  <2>3. I # {} => Min(I) \in I
    <3> HIDE DEF I
    <3>1. QED
      BY <2>2, MinOfNat
  <2>4. QED
    BY <1>1, <2>1, <2>3
<1>5. QED
  BY <1>2, <1>3, <1>4

(* Unlinking the i-th endpoint leaves the others, each once. *)
LEMMA UnlinkedList ==
  ASSUME NEW s \in Seq(Entry), NEW i \in DOMAIN s
  PROVE  /\ RemoveAt(s, i) \in Seq(Entry)
         /\ \A j \in DOMAIN RemoveAt(s, i) : \E k \in DOMAIN s \ {i} : RemoveAt(s, i)[j] = s[k]
         /\ \A k \in DOMAIN s \ {i} : \E j \in DOMAIN RemoveAt(s, i) : RemoveAt(s, i)[j] = s[k]
         /\ KeyOnce(s) => KeyOnce(RemoveAt(s, i))
         /\ ClientOnce(s) => ClientOnce(RemoveAt(s, i))
<1> DEFINE t == RemoveAt(s, i)
<1>1. /\ t \in Seq(Entry)
      /\ Len(t) = Len(s) - 1
      /\ \A j \in 1..(Len(s) - 1) : t[j] = IF j < i THEN s[j] ELSE s[j + 1]
      /\ i \in 1..Len(s)
  BY RemoveAtProperties, LenProperties
<1> HIDE DEF t
<1>2. /\ DOMAIN s = 1..Len(s) /\ Len(s) \in Nat
      /\ DOMAIN t = 1..(Len(s) - 1)
  BY <1>1, LenProperties
<1> DEFINE pos(j) == IF j < i THEN j ELSE j + 1
<1>3. \A j \in DOMAIN t : pos(j) \in DOMAIN s \ {i} /\ t[j] = s[pos(j)]
  BY <1>1, <1>2
<1>4. \A a, b \in DOMAIN t : pos(a) = pos(b) => a = b
  BY <1>1, <1>2
<1>5. ASSUME NEW k \in DOMAIN s \ {i}
      PROVE  \E j \in DOMAIN t : t[j] = s[k]
  <2>1. CASE k < i
    BY <1>1, <1>2, <2>1
  <2>2. CASE k > i
    <3>1. k - 1 \in DOMAIN t /\ t[k - 1] = s[k]
      BY <1>1, <1>2, <2>2
    <3>2. QED
      BY <3>1
  <2>3. QED
    BY <1>1, <1>2, <2>1, <2>2
<1> HIDE DEF pos
<1>6. ASSUME KeyOnce(s)
      PROVE  KeyOnce(t)
  BY <1>3, <1>4, <1>6 DEF KeyOnce
<1>7. ASSUME ClientOnce(s)
      PROVE  ClientOnce(t)
  BY <1>3, <1>4, <1>7 DEF ClientOnce
<1>8. \A j \in DOMAIN t : \E k \in DOMAIN s \ {i} : t[j] = s[k]
  BY <1>3
<1>9. t \in Seq(Entry)
  BY <1>1
<1>10. QED
  BY <1>5, <1>6, <1>7, <1>8, <1>9 DEF t

(* ConsProperties for endpoints. *)
LEMMA ConsEntry ==
  ASSUME NEW s \in Seq(Entry), NEW e \in Entry
  PROVE  /\ Cons(e, s) \in Seq(Entry)
         /\ Len(Cons(e, s)) = Len(s) + 1
         /\ Cons(e, s)[1] = e
         /\ \A j \in 2..(Len(s) + 1) : Cons(e, s)[j] = s[j - 1]
<1>1. Cons(e, s) \in Seq(Entry)
  BY ConsProperties
<1>2. Len(Cons(e, s)) = Len(s) + 1
  BY ConsProperties
<1>3. Cons(e, s)[1] = e
  BY ConsProperties
<1>4. \A j \in 2..(Len(s) + 1) : Cons(e, s)[j] = s[j - 1]
  BY ConsProperties
<1>5. QED
  BY <1>1, <1>2, <1>3, <1>4

(* Linking a new endpoint keeps the others, each once. *)
LEMMA LinkedList ==
  ASSUME NEW s \in Seq(Entry), NEW e \in Entry
  PROVE  /\ Cons(e, s) \in Seq(Entry)
         /\ \A j \in DOMAIN Cons(e, s) :
              Cons(e, s)[j] = e \/ \E k \in DOMAIN s : Cons(e, s)[j] = s[k]
         /\ \E j \in DOMAIN Cons(e, s) : Cons(e, s)[j] = e
         /\ \A k \in DOMAIN s : \E j \in DOMAIN Cons(e, s) : Cons(e, s)[j] = s[k]
         /\ KeyOnce(s) /\ (\A a \in DOMAIN s : s[a].key # e.key) => KeyOnce(Cons(e, s))
         /\ ClientOnce(s) /\ (\A a \in DOMAIN s : s[a].client # e.client)
              => ClientOnce(Cons(e, s))
<1> DEFINE t == Cons(e, s)
<1>1. /\ t \in Seq(Entry)
      /\ Len(t) = Len(s) + 1
      /\ t[1] = e
      /\ \A j \in 2..(Len(s) + 1) : t[j] = s[j - 1]
  BY ConsEntry
<1> HIDE DEF t
<1>2. /\ DOMAIN s = 1..Len(s) /\ Len(s) \in Nat
      /\ DOMAIN t = 1..(Len(s) + 1)
  BY <1>1, LenProperties
<1>3. \A j \in DOMAIN t : \/ j = 1 /\ t[j] = e
                          \/ j - 1 \in DOMAIN s /\ t[j] = s[j - 1]
  BY <1>1, <1>2
<1>4. \A a, b \in DOMAIN t : a - 1 = b - 1 => a = b
  BY <1>2
<1>5. ASSUME NEW k \in DOMAIN s
      PROVE  \E j \in DOMAIN t : t[j] = s[k]
  <2>1. k + 1 \in DOMAIN t /\ t[k + 1] = s[k]
    BY <1>1, <1>2
  <2>2. QED
    BY <2>1
<1>6. 1 \in DOMAIN t /\ t[1] = e
  BY <1>1, <1>2
<1>7. ASSUME KeyOnce(s), \A k \in DOMAIN s : s[k].key # e.key,
             NEW a \in DOMAIN t, NEW b \in DOMAIN t, t[a].key = t[b].key
      PROVE  a = b
  <2>1. CASE a = 1 \/ b = 1
    BY <1>3, <1>7, <2>1
  <2>2. CASE a # 1 /\ b # 1
    <3>1. a - 1 = b - 1
      BY <1>3, <1>7, <2>2 DEF KeyOnce
    <3>2. QED
      BY <1>4, <3>1
  <2>3. QED
    BY <2>1, <2>2
<1>8. ASSUME ClientOnce(s), \A k \in DOMAIN s : s[k].client # e.client,
             NEW a \in DOMAIN t, NEW b \in DOMAIN t, t[a].client = t[b].client
      PROVE  a = b
  <2>1. CASE a = 1 \/ b = 1
    BY <1>3, <1>8, <2>1
  <2>2. CASE a # 1 /\ b # 1
    <3>1. a - 1 = b - 1
      BY <1>3, <1>8, <2>2 DEF ClientOnce
    <3>2. QED
      BY <1>4, <3>1
  <2>3. QED
    BY <2>1, <2>2
<1>9. \A j \in DOMAIN t : t[j] = e \/ \E k \in DOMAIN s : t[j] = s[k]
  BY <1>3
<1>10. t \in Seq(Entry)
  BY <1>1
<1>11. KeyOnce(s) /\ (\A k \in DOMAIN s : s[k].key # e.key) => KeyOnce(t)
  BY <1>7 DEF KeyOnce
<1>12. ClientOnce(s) /\ (\A k \in DOMAIN s : s[k].client # e.client) => ClientOnce(t)
  BY <1>8 DEF ClientOnce
<1>13. QED
  BY <1>5, <1>6, <1>9, <1>10, <1>11, <1>12 DEF t

(* ListInv without the messages to the relay and the flags: what makes the *)
(* list correct, whatever carries the messages.                            *)
Linkage == /\ endpoints \in Seq(Entry)
           /\ st \in [Client -> State]
           /\ rb \in [Client -> Seq(Body)]
           /\ got \in [Client -> Seq(Body)]

LinksInv == Linkage /\ KeysUnique /\ OpenIsLinked /\ LinkedIsLive

(* Every element of the list is an endpoint, and no position is 0, which   *)
(* is how the traversals say that they found nothing.                      *)
LEMMA LinkedEntries ==
  ASSUME endpoints \in Seq(Entry)
  PROVE  /\ \A i \in DOMAIN endpoints : endpoints[i] \in Entry /\ endpoints[i].client \in Client
         /\ ~(0 \in DOMAIN endpoints)
<1>1. \A i \in DOMAIN endpoints : endpoints[i] \in Entry
  BY ElementOfSeq, LenProperties
<1>2. QED
  BY <1>1, LenProperties DEF Entry

(* A step that leaves the list and the state of the connections alone. *)
LEMMA LinksUnchanged ==
  ASSUME LinksInv, UNCHANGED <<endpoints, st>>,
         rb' \in [Client -> Seq(Body)], got' \in [Client -> Seq(Body)]
  PROVE  LinksInv'
  BY DEF LinksInv, Linkage, KeysUnique, OpenIsLinked, LinkedIsLive

(* Stopping the connection of one endpoint and unlinking it: what both a   *)
(* stop message and an error of the connection come down to.               *)
LEMMA RemovedLinks ==
  ASSUME LinksInv, NEW i \in DOMAIN endpoints,
         async_client_shutdown(endpoints[i].client),
         endpoints' = RemoveAt(endpoints, i),
         got' = got
  PROVE  LinksInv'
<1> DEFINE c == endpoints[i].client
<1>0. \A k \in DOMAIN endpoints : endpoints[k] \in Entry
  BY ElementOfSeq, LenProperties DEF LinksInv, Linkage
<1>1. /\ endpoints \in Seq(Entry)
      /\ st \in [Client -> State]
      /\ rb \in [Client -> Seq(Body)]
      /\ c \in Client
  BY <1>0 DEF LinksInv, Linkage, Entry
<1>2. /\ endpoints' \in Seq(Entry)
      /\ \A j \in DOMAIN endpoints' : \E k \in DOMAIN endpoints \ {i} : endpoints'[j] = endpoints[k]
      /\ \A k \in DOMAIN endpoints \ {i} : \E j \in DOMAIN endpoints' : endpoints'[j] = endpoints[k]
  BY <1>1, UnlinkedList
<1>3. KeysUnique'
  <2>1. KeyOnce(endpoints)
    BY DEF LinksInv, KeysUnique, KeyOnce
  <2>2. KeyOnce(endpoints')
    BY <1>1, <2>1, UnlinkedList
  <2>3. QED
    BY <2>2 DEF KeysUnique, KeyOnce
<1>4. \A a, b \in DOMAIN endpoints' : endpoints'[a].client = endpoints'[b].client => a = b
  <2>1. ClientOnce(endpoints)
    BY DEF LinksInv, OpenIsLinked, ClientOnce
  <2>2. ClientOnce(endpoints')
    BY <1>1, <2>1, UnlinkedList
  <2>3. QED
    BY <2>2 DEF ClientOnce
<1>5. /\ st' = [st EXCEPT ![c] = IF @ = "open" THEN "freed" ELSE @]
      /\ rb' = [rb EXCEPT ![c] = <<>>]
  BY DEF async_client_shutdown
<1> HIDE DEF c
<1>6. Linkage'
  BY <1>1, <1>2, <1>5, EmptySeq DEF LinksInv, Linkage, State
<1>7. ASSUME NEW d \in Client, st'[d] = "open"
      PROVE  \E j \in DOMAIN endpoints' : endpoints'[j].client = d
  <2>1. st[d] = "open" /\ d # c
    BY <1>1, <1>5, <1>7
  <2>2. PICK k \in DOMAIN endpoints : endpoints[k].client = d
    BY <2>1 DEF LinksInv, OpenIsLinked
  <2>3. k # i
    BY <2>1, <2>2 DEF c
  <2>4. QED
    BY <1>2, <2>2, <2>3
<1>8. LinkedIsLive'
  <2>1. \A d \in Client \ {c} : st'[d] = st[d]
    BY <1>1, <1>5
  <2>2. \A k \in DOMAIN endpoints \ {i} : endpoints[k].client \in Client \ {c}
    BY <1>0 DEF Entry, LinksInv, OpenIsLinked, c
  <2>3. QED
    BY <1>2, <2>1, <2>2 DEF LinksInv, LinkedIsLive
<1>9. QED
  BY <1>3, <1>4, <1>6, <1>7, <1>8 DEF LinksInv, OpenIsLinked

(* A request that connects links one more endpoint, under a key that is    *)
(* not in the list, or none.                                               *)
LEMMA AddedLinks ==
  ASSUME LinksInv, NEW key \in Key, NEW fd \in Fd, NEW port \in Port, NEW pid \in Pid,
         NEW body \in Body, \A i \in DOMAIN endpoints : endpoints[i].key # key,
         endpoint_add(key, fd, port, pid, body)
  PROVE  LinksInv'
<1>0. /\ endpoints \in Seq(Entry)
      /\ st \in [Client -> State]
      /\ rb \in [Client -> Seq(Body)]
      /\ got \in [Client -> Seq(Body)]
      /\ \A i \in DOMAIN endpoints : endpoints[i].client \in Client
  BY LinkedEntries DEF LinksInv, Linkage
<1> DEFINE ent(c) == [key |-> key, remote_fd |-> fd, backend_port |-> port,
                      pid |-> pid, client |-> c]
<1>2. PICK c \in Client :
        /\ st[c] = "unused"
        /\ \/ /\ endpoints' = Cons(ent(c), endpoints)
              /\ \/ /\ st' = [st EXCEPT ![c] = "open"]
                    /\ rb' = [rb EXCEPT ![c] = <<body>>]
                 \/ /\ st' = [st EXCEPT ![c] = "dropped"]
                    /\ UNCHANGED rb
           \/ /\ st' = [st EXCEPT ![c] = "freed"]
              /\ UNCHANGED <<endpoints, rb>>
        /\ UNCHANGED <<got, up, crashed, gc_sigterm>>
  BY DEF endpoint_add, async_client
<1> DEFINE e == ent(c)
<1>3. e \in Entry
  BY DEF Entry
<1>4. e.key = key /\ e.client = c
  OBVIOUS
<1>5. \A i \in DOMAIN endpoints : endpoints[i].client # c
  BY <1>2 DEF LinksInv, LinkedIsLive
<1> HIDE DEF ent, e
<1>6. rb' \in [Client -> Seq(Body)]
  <2>1. <<body>> \in Seq(Body)
    OBVIOUS
  <2>2. QED
    BY <1>0, <1>2, <2>1
<1>7. /\ st' \in [Client -> State]
      /\ \/ endpoints' = Cons(e, endpoints) /\ st'[c] \in {"open", "dropped"}
         \/ endpoints' = endpoints /\ st' = [st EXCEPT ![c] = "freed"]
      /\ \A d \in Client \ {c} : st'[d] = st[d]
  BY <1>0, <1>2 DEF State, e
<1>8. CASE endpoints' = Cons(e, endpoints) /\ st'[c] \in {"open", "dropped"}
  <2>1. /\ endpoints' \in Seq(Entry)
        /\ \A j \in DOMAIN endpoints' :
             endpoints'[j] = e \/ \E k \in DOMAIN endpoints : endpoints'[j] = endpoints[k]
        /\ \E j \in DOMAIN endpoints' : endpoints'[j] = e
        /\ \A k \in DOMAIN endpoints : \E j \in DOMAIN endpoints' : endpoints'[j] = endpoints[k]
    <3>1. endpoints' \in Seq(Entry)
      BY <1>0, <1>3, <1>8, LinkedList
    <3>2. \A j \in DOMAIN endpoints' :
             endpoints'[j] = e \/ \E k \in DOMAIN endpoints : endpoints'[j] = endpoints[k]
      BY <1>0, <1>3, <1>8, LinkedList
    <3>3. \E j \in DOMAIN endpoints' : endpoints'[j] = e
      BY <1>0, <1>3, <1>8, LinkedList
    <3>4. \A k \in DOMAIN endpoints : \E j \in DOMAIN endpoints' : endpoints'[j] = endpoints[k]
      BY <1>0, <1>3, <1>8, LinkedList
    <3>5. QED
      BY <3>1, <3>2, <3>3, <3>4
  <2>2. KeysUnique'
    <3>1. KeyOnce(endpoints)
      BY DEF LinksInv, KeysUnique, KeyOnce
    <3>2. KeyOnce(endpoints')
      BY <1>0, <1>3, <1>4, <1>8, <3>1, LinkedList
    <3>3. QED
      BY <3>2 DEF KeysUnique, KeyOnce
  <2>3. \A i, j \in DOMAIN endpoints' : endpoints'[i].client = endpoints'[j].client => i = j
    <3>1. ClientOnce(endpoints)
      BY DEF LinksInv, OpenIsLinked, ClientOnce
    <3>2. ClientOnce(endpoints')
      BY <1>0, <1>3, <1>4, <1>5, <1>8, <3>1, LinkedList
    <3>3. QED
      BY <3>2 DEF ClientOnce
  <2>4. ASSUME NEW d \in Client, st'[d] = "open"
        PROVE  \E i \in DOMAIN endpoints' : endpoints'[i].client = d
    BY <1>4, <1>7, <2>1, <2>4 DEF LinksInv, OpenIsLinked
  <2>5. LinkedIsLive'
    <3>1. \A k \in DOMAIN endpoints : endpoints[k].client \in Client \ {c}
      BY <1>0, <1>5
    <3>2. QED
      BY <1>4, <1>7, <1>8, <2>1, <3>1 DEF LinksInv, LinkedIsLive
  <2>6. Linkage'
    BY <1>0, <1>2, <1>6, <1>7, <2>1 DEF Linkage
  <2>7. QED
    BY <2>2, <2>3, <2>4, <2>5, <2>6 DEF LinksInv, OpenIsLinked
<1>9. CASE endpoints' = endpoints /\ st' = [st EXCEPT ![c] = "freed"]
  <2>1. Linkage'
    BY <1>0, <1>2, <1>6, <1>7, <1>9 DEF Linkage
  <2>2. \A d \in Client : st'[d] = "open" => st[d] = "open"
    BY <1>0, <1>9
  <2>3. \A k \in DOMAIN endpoints : endpoints[k].client \in Client \ {c}
    BY <1>0, <1>5
  <2>4. QED
    BY <1>7, <1>9, <2>1, <2>2, <2>3 DEF LinksInv, KeysUnique, OpenIsLinked, LinkedIsLive
<1>10. QED
  BY <1>7, <1>8, <1>9

(* A tunnel_request, whether it is denied, given to a connection or opens  *)
(* one.                                                                    *)
LEMMA RequestLinks ==
  ASSUME LinksInv, NEW pid \in Pid, NEW port \in Port, NEW fd \in Fd, NEW body \in Body,
         gc_endpoint_request(pid, port, fd, body)
  PROVE  LinksInv'
<1> DEFINE key == key_of[pid, fd]
<1>0. /\ endpoints \in Seq(Entry)
      /\ rb \in [Client -> Seq(Body)]
      /\ got \in [Client -> Seq(Body)]
      /\ \A i \in DOMAIN endpoints : endpoints[i].client \in Client
      /\ ~(0 \in DOMAIN endpoints)
  BY LinkedEntries DEF LinksInv, Linkage
<1>1. key \in Key
  BY EndpointAssumption
<1>2. CASE UNCHANGED <<endpoints, st, rb, got>>
  BY <1>0, <1>2, LinksUnchanged
<1>3. CASE /\ endpoint_find(key) # 0
           /\ gc_gen_ev_send(endpoints[endpoint_find(key)].client, body)
           /\ UNCHANGED <<endpoints, st, got>>
  <2> DEFINE c == endpoints[endpoint_find(key)].client
  <2>1. c \in Client
    BY <1>0, <1>3, FindProperties
  <2>2. gc_gen_ev_send(c, body)
    BY <1>3
  <2> HIDE DEF c, key
  <2>3. Append(rb[c], body) \in Seq(Body)
    BY <1>0, <2>1, AppendProperties
  <2>4. rb' \in [Client -> Seq(Body)]
    BY <1>0, <2>1, <2>2, <2>3 DEF gc_gen_ev_send
  <2>5. QED
    BY <1>0, <1>3, <2>4, LinksUnchanged
<1>4. CASE endpoint_find(key) = 0 /\ endpoint_add(key, fd, port, pid, body)
  <2>1. \A i \in DOMAIN endpoints : endpoints[i].key # key
    BY <1>0, <1>4, FindProperties
  <2>2. QED
    BY <1>1, <1>4, <2>1, AddedLinks
<1>5. QED
  BY <1>2, <1>3, <1>4 DEF gc_endpoint_request

(* A stop message, or the news that a process is offline. *)
LEMMA StopLinks ==
  ASSUME LinksInv, NEW pid, gc_endpoint_stop(pid) PROVE LinksInv'
<1>1. CASE UNCHANGED vars
  <2>1. UNCHANGED <<endpoints, st, rb, got>>
    BY <1>1 DEF vars
  <2>2. QED
    BY <2>1, LinksUnchanged DEF LinksInv, Linkage
<1>2. CASE FindPid(pid) # 0
  <2>1. PICK i \in DOMAIN endpoints : i = FindPid(pid)
    BY <1>2, FindProperties DEF LinksInv, Linkage
  <2>2. /\ endpoints' = RemoveAt(endpoints, i)
        /\ async_client_shutdown(endpoints[i].client)
        /\ got' = got
    BY <1>2, <2>1 DEF gc_endpoint_stop, vars
  <2>3. QED
    BY <2>2, RemovedLinks
<1>3. QED
  BY <1>1, <1>2 DEF gc_endpoint_stop

(* The connection of an error is in the list and leaves it. *)
LEMMA ErrorUnlinks ==
  ASSUME LinksInv, NEW c \in Client, endpoint_error(c)
  PROVE  \E i \in DOMAIN endpoints : /\ endpoints[i].client = c
                                     /\ endpoints' = RemoveAt(endpoints, i)
                                     /\ async_client_shutdown(endpoints[i].client)
<1>1. endpoints \in Seq(Entry) /\ ~(0 \in DOMAIN endpoints)
  BY LinkedEntries DEF LinksInv, Linkage
<1>2. \E i \in DOMAIN endpoints : endpoints[i].client = c
  BY DEF endpoint_error, LinksInv, OpenIsLinked
<1>3. FindClient(c) \in DOMAIN endpoints /\ endpoints[FindClient(c)].client = c
  BY <1>1, <1>2, FindProperties
<1>4. FindClient(c) # 0
  BY <1>1, <1>3
<1>5. QED
  BY <1>3, <1>4 DEF endpoint_error

(* An error of a connection. *)
LEMMA ErrorLinks ==
  ASSUME LinksInv, NEW c \in Client, endpoint_error(c) PROVE LinksInv'
<1>1. PICK i \in DOMAIN endpoints : /\ endpoints' = RemoveAt(endpoints, i)
                                    /\ async_client_shutdown(endpoints[i].client)
  BY ErrorUnlinks
<1>2. got' = got
  BY DEF endpoint_error
<1>3. QED
  BY <1>1, <1>2, RemovedLinks

(* A body is written to the backend. *)
LEMMA WriteLinks ==
  ASSUME LinksInv, NEW c \in Client, async_write(c) PROVE LinksInv'
<1>1. rb \in [Client -> Seq(Body)] /\ got \in [Client -> Seq(Body)]
  BY DEF LinksInv, Linkage
<1>2. rb[c] \in Seq(Body) /\ rb[c] # <<>>
  BY <1>1 DEF async_write
<1>3. Head(rb[c]) \in Body /\ Tail(rb[c]) \in Seq(Body)
  BY <1>2, HeadTailProperties
<1>4. Append(got[c], Head(rb[c])) \in Seq(Body)
  BY <1>1, <1>3, AppendProperties
<1>5. rb' \in [Client -> Seq(Body)] /\ got' \in [Client -> Seq(Body)]
  BY <1>1, <1>3, <1>4 DEF async_write
<1>6. QED
  BY <1>5, LinksUnchanged DEF async_write

(* The whole list is stopped: no connection stays open. *)
LEMMA StopAllLinks ==
  ASSUME LinksInv, StopEndpoints
  PROVE  LinksInv' /\ DOMAIN endpoints' = {} /\ \A c \in Client : st'[c] # "open"
<1> DEFINE linked == {endpoints[i].client : i \in DOMAIN endpoints}
<1>1. /\ st' = [c \in Client |-> IF c \in linked /\ st[c] = "open" THEN "freed" ELSE st[c]]
      /\ rb' = [c \in Client |-> IF c \in linked THEN <<>> ELSE rb[c]]
      /\ endpoints' = <<>>
      /\ got' = got
  BY DEF StopEndpoints
<1>2. \A c \in Client : st'[c] # "open"
  BY <1>1 DEF LinksInv, OpenIsLinked
<1>3. DOMAIN endpoints' = {}
  BY <1>1
<1>4. /\ rb' \in [Client -> Seq(Body)] /\ endpoints' \in Seq(Entry)
      /\ st' \in [Client -> State] /\ got' \in [Client -> Seq(Body)]
  BY <1>1, EmptySeq DEF LinksInv, Linkage, State
<1>5. QED
  BY <1>2, <1>3, <1>4 DEF LinksInv, Linkage, KeysUnique, OpenIsLinked, LinkedIsLive

(* What a connection receives goes to the process of its endpoint. *)
LEMMA ReadSends ==
  ASSUME LinksInv, NEW c \in Client, NEW body, async_read(c, body)
  PROVE  \E i \in DOMAIN endpoints :
           /\ endpoints[i].client = c
           /\ gc_packet_send([type |-> "tunnel_response", to |-> endpoints[i].pid,
                              port |-> endpoints[i].backend_port,
                              fd |-> endpoints[i].remote_fd, body |-> body])
           /\ UNCHANGED <<endpoints, st, rb, got, crashed, gc_sigterm>>
<1>1. endpoints \in Seq(Entry) /\ ~(0 \in DOMAIN endpoints)
  BY LinkedEntries DEF LinksInv, Linkage
<1>2. \E i \in DOMAIN endpoints : endpoints[i].client = c
  BY DEF async_read, LinksInv, OpenIsLinked
<1>3. FindClient(c) \in DOMAIN endpoints /\ endpoints[FindClient(c)].client = c
  BY <1>1, <1>2, FindProperties
<1>4. FindClient(c) # 0
  BY <1>1, <1>3
<1>5. QED
  BY <1>3, <1>4 DEF async_read, endpoint_recv

(* There is no endpoint at the start. *)
LEMMA InitLinks == ASSUME Init PROVE LinksInv
<1>1. Linkage
  BY EmptySeq DEF Init, Linkage, State
<1>2. DOMAIN endpoints = {} /\ \A c \in Client : st[c] = "unused"
  BY DEF Init
<1>3. QED
  BY <1>1, <1>2 DEF LinksInv, KeysUnique, OpenIsLinked, LinkedIsLive

(* The list of endpoints has one entry per key and one per connection, and *)
(* every open connection is in it, so that endpoint_recv() never aborts:   *)
(* whatever socket() and connect() answer.                                 *)
THEOREM ListCorrect == Spec => []ListInv
<1> DEFINE Rest == up \in Seq(Message) /\ crashed \in BOOLEAN /\ gc_sigterm \in BOOLEAN
<1>0. ListInv <=> LinksInv /\ Rest
  BY DEF ListInv, TypeOK, LinksInv, Linkage
<1>1. Init => LinksInv /\ Rest
  <2>1. Init => Rest
    BY EmptySeq DEF Init
  <2>2. QED
    BY <2>1, InitLinks
<1>2. ASSUME LinksInv, Rest, [Next]_vars PROVE LinksInv' /\ Rest'
  <2>1. ASSUME NEW pid \in Pid, NEW port \in Port, NEW fd \in Fd, NEW body \in Body,
               gc_endpoint_request(pid, port, fd, body)
        PROVE  LinksInv' /\ Rest'
    <3>1. [type |-> "tunnel_denied", to |-> pid, port |-> port] \in Message
      BY DEF Message
    <3>2. up' \in Seq(Message)
      <4> DEFINE denied == [type |-> "tunnel_denied", to |-> pid, port |-> port]
      <4>1. up' = up \/ up' = Append(up, denied)
        BY <2>1 DEF gc_endpoint_request, gc_packet_send, endpoint_add
      <4>2. denied \in Message /\ up \in Seq(Message)
        BY <1>2, <3>1
      <4> HIDE DEF denied
      <4>3. Append(up, denied) \in Seq(Message)
        BY <4>2, AppendProperties
      <4>4. QED
        BY <4>1, <4>2, <4>3
    <3>3. crashed' \in BOOLEAN /\ gc_sigterm' = gc_sigterm
      BY <1>2, <2>1 DEF gc_endpoint_request, gc_gen_ev_send, endpoint_add
    <3>4. LinksInv'
      BY <1>2, <2>1, RequestLinks
    <3>5. QED
      BY <1>2, <3>2, <3>3, <3>4
  <2>2. ASSUME NEW pid \in Pid, gc_endpoint_stop(pid) PROVE LinksInv' /\ Rest'
    <3>1. Rest'
      BY <1>2, <2>2 DEF gc_endpoint_stop, async_client_shutdown, vars
    <3>2. QED
      BY <1>2, <2>2, <3>1, StopLinks
  <2>3. ASSUME NEW c \in Client, NEW body \in Body, async_read(c, body)
        PROVE  LinksInv' /\ Rest'
    <3>1. PICK i \in DOMAIN endpoints :
            /\ gc_packet_send([type |-> "tunnel_response", to |-> endpoints[i].pid,
                               port |-> endpoints[i].backend_port,
                               fd |-> endpoints[i].remote_fd, body |-> body])
            /\ UNCHANGED <<endpoints, st, rb, got, crashed, gc_sigterm>>
      BY <1>2, <2>3, ReadSends
    <3>2. endpoints[i] \in Entry
      BY <1>2, LinkedEntries DEF LinksInv, Linkage
    <3> DEFINE m == [type |-> "tunnel_response", to |-> endpoints[i].pid,
                     port |-> endpoints[i].backend_port,
                     fd |-> endpoints[i].remote_fd, body |-> body]
    <3>3. m \in Message
      BY <3>2 DEF Entry, Message
    <3>4. up' = Append(up, m)
      BY <3>1 DEF gc_packet_send
    <3> HIDE DEF m
    <3>5. up' \in Seq(Message)
      BY <1>2, <3>3, <3>4, AppendProperties
    <3>6. LinksInv'
      BY <1>2, <3>1, LinksUnchanged DEF LinksInv, Linkage
    <3>7. QED
      BY <1>2, <3>1, <3>5, <3>6
  <2>4. ASSUME NEW c \in Client, endpoint_error(c) PROVE LinksInv' /\ Rest'
    <3>1. Rest'
      BY <1>2, <2>4 DEF endpoint_error, async_client_shutdown
    <3>2. QED
      BY <1>2, <2>4, <3>1, ErrorLinks
  <2>5. ASSUME NEW c \in Client, async_write(c) PROVE LinksInv' /\ Rest'
    <3>1. Rest'
      BY <1>2, <2>5 DEF async_write
    <3>2. QED
      BY <1>2, <2>5, <3>1, WriteLinks
  <2>6. CASE gc_endpoints_stop_all
    <3>1. Rest'
      BY <1>2, <2>6, EmptySeq DEF gc_endpoints_stop_all, StopEndpoints
    <3>2. QED
      BY <1>2, <2>6, <3>1, StopAllLinks DEF gc_endpoints_stop_all
  <2>7. CASE sigh_terminate \/ upstream_sent \/ UNCHANGED vars
    <3>1. UNCHANGED <<endpoints, st, rb, got>>
      BY <2>7 DEF sigh_terminate, upstream_sent, vars
    <3>2. up' \in Seq(Message)
      BY <1>2, <2>7, HeadTailProperties DEF sigh_terminate, upstream_sent, vars
    <3>3. crashed' \in BOOLEAN /\ gc_sigterm' \in BOOLEAN
      BY <1>2, <2>7 DEF sigh_terminate, upstream_sent, vars
    <3>4. LinksInv'
      BY <1>2, <3>1, LinksUnchanged DEF LinksInv, Linkage
    <3>5. QED
      BY <3>2, <3>3, <3>4
  <2>8. QED
    BY <1>2, <2>1, <2>2, <2>3, <2>4, <2>5, <2>6, <2>7 DEF Next
<1>3. QED
  BY <1>0, <1>1, <1>2, PTL DEF Spec

(* Shutting a linked connection down is harmless unless it was dropped.    *)
LEMMA ShutdownOfLinked ==
  ASSUME ListInv, CrashNeedsDropped, NEW i \in DOMAIN endpoints,
         async_client_shutdown(endpoints[i].client)
  PROVE  CrashNeedsDropped'
<1> DEFINE c == endpoints[i].client
<1>1. st \in [Client -> State] /\ c \in Client
  <2>1. endpoints[i] \in Entry
    BY ElementOfSeq, LenProperties DEF ListInv, TypeOK
  <2>2. QED
    BY <2>1 DEF ListInv, TypeOK, Entry
<1>2. /\ st' = [st EXCEPT ![c] = IF @ = "open" THEN "freed" ELSE @]
      /\ crashed' = (st[c] # "open")
  BY DEF async_client_shutdown
<1>3. st[c] \in {"open", "dropped"}
  BY DEF ListInv, LinkedIsLive
<1> HIDE DEF c
<1>4. QED
  BY <1>1, <1>2, <1>3 DEF CrashNeedsDropped

(* No handler calls abort() or follows a pointer to a freed client, in any *)
(* order of requests, stop messages, answers, errors and reconnections of  *)
(* the upstream, unless some connect() succeeded at once.                  *)
THEOREM CrashesNeedDropped == Spec => []CrashNeedsDropped
<1>1. ASSUME Init
      PROVE  CrashNeedsDropped
  BY <1>1 DEF Init, CrashNeedsDropped
<1>2. ASSUME ListInv, CrashNeedsDropped, [Next]_vars
      PROVE  CrashNeedsDropped'
  <2> USE <1>2
  <2>1. ASSUME UNCHANGED <<st, crashed>>
        PROVE  CrashNeedsDropped'
    BY <2>1 DEF CrashNeedsDropped
  <2>2. endpoints \in Seq(Entry) /\ st \in [Client -> State]
    BY DEF ListInv, TypeOK
  <2>3. /\ ~(0 \in DOMAIN endpoints)
        /\ \A i \in DOMAIN endpoints : endpoints[i].client \in Client
    <3>1. \A i \in DOMAIN endpoints : endpoints[i] \in Entry
      BY <2>2, ElementOfSeq, LenProperties
    <3>2. QED
      BY <2>2, <3>1, LenProperties DEF Entry
  <2>4. ASSUME NEW pid \in Pid, NEW port \in Port, NEW fd \in Fd, NEW body \in Body,
               gc_endpoint_request(pid, port, fd, body)
        PROVE  CrashNeedsDropped'
    <3> DEFINE key == key_of[pid, fd]
    <3>1. CASE UNCHANGED <<endpoints, st, rb, got, crashed, gc_sigterm>>
      BY <2>1, <3>1
    <3>2. CASE /\ endpoint_find(key) # 0
               /\ gc_gen_ev_send(endpoints[endpoint_find(key)].client, body)
               /\ UNCHANGED <<endpoints, st, got, up, gc_sigterm>>
      <4>1. PICK i \in DOMAIN endpoints : i = endpoint_find(key)
        BY <2>2, <3>2, FindProperties
      <4>2. CASE st[endpoints[i].client] = "open"
        <5>1. UNCHANGED crashed
          BY <3>2, <4>1, <4>2 DEF gc_gen_ev_send
        <5>2. QED
          BY <2>1, <3>2, <5>1
      <4>3. CASE st[endpoints[i].client] # "open"
        <5>1. st'[endpoints[i].client] = "dropped"
          BY <3>2, <4>3 DEF ListInv, LinkedIsLive
        <5>2. QED
          BY <2>3, <5>1 DEF CrashNeedsDropped
      <4>4. QED
        BY <4>2, <4>3
    <3>3. CASE endpoint_add(key, fd, port, pid, body)
      <4>1. PICK c \in Client :
              /\ st[c] = "unused"
              /\ \/ st' = [st EXCEPT ![c] = "open"]
                 \/ st' = [st EXCEPT ![c] = "freed"]
                 \/ st' = [st EXCEPT ![c] = "dropped"]
              /\ UNCHANGED crashed
        BY <3>3 DEF endpoint_add, async_client
      <4>2. \A d \in Client : st[d] = "dropped" => st'[d] = "dropped"
        BY <2>2, <4>1
      <4>3. QED
        BY <4>1, <4>2 DEF CrashNeedsDropped
    <3>4. QED
      BY <2>4, <3>1, <3>2, <3>3 DEF gc_endpoint_request
  <2>5. ASSUME NEW pid \in Pid, gc_endpoint_stop(pid)
        PROVE  CrashNeedsDropped'
    <3>1. CASE UNCHANGED vars
      BY <2>1, <3>1 DEF vars
    <3>2. CASE FindPid(pid) # 0
      <4>1. PICK i \in DOMAIN endpoints : i = FindPid(pid)
        BY <2>2, <3>2, FindProperties
      <4>2. async_client_shutdown(endpoints[i].client)
        BY <2>5, <3>2, <4>1 DEF gc_endpoint_stop
      <4>3. QED
        BY <4>2, ShutdownOfLinked
    <3>3. QED
      BY <2>5, <3>1, <3>2 DEF gc_endpoint_stop
  <2>6. ASSUME NEW c \in Client, NEW body \in Body, async_read(c, body)
        PROVE  CrashNeedsDropped'
    <3>1. PICK i \in DOMAIN endpoints : endpoints[i].client = c
      BY <2>6 DEF async_read, ListInv, OpenIsLinked
    <3>2. FindClient(c) # 0
      BY <2>2, <2>3, <3>1, FindProperties
    <3>3. QED
      BY <2>1, <2>6, <3>2 DEF async_read, endpoint_recv
  <2>7. ASSUME NEW c \in Client, endpoint_error(c)
        PROVE  CrashNeedsDropped'
    <3>1. PICK i \in DOMAIN endpoints : endpoints[i].client = c
      BY <2>7 DEF endpoint_error, ListInv, OpenIsLinked
    <3>2. async_client_shutdown(endpoints[i].client)
      BY <2>7, <3>1 DEF endpoint_error
    <3>3. QED
      BY <3>2, ShutdownOfLinked
  <2>8. ASSUME NEW c \in Client, async_write(c)
        PROVE  CrashNeedsDropped'
    BY <2>1, <2>8 DEF async_write
  <2>9. CASE gc_endpoints_stop_all
    <3> DEFINE linked == {endpoints[i].client : i \in DOMAIN endpoints}
    <3>1. /\ st' = [c \in Client |-> IF c \in linked /\ st[c] = "open"
                                     THEN "freed" ELSE st[c]]
          /\ crashed' = (\E c \in linked : st[c] # "open")
          /\ ~crashed
      BY <2>9 DEF gc_endpoints_stop_all, StopEndpoints
    <3>2. ASSUME NEW c \in linked, st[c] # "open"
          PROVE  c \in Client /\ st'[c] = "dropped"
      <4>1. c \in Client /\ st[c] = "dropped"
        BY <2>3, <3>2 DEF ListInv, LinkedIsLive
      <4>2. QED
        BY <3>1, <4>1
    <3>3. QED
      BY <3>1, <3>2 DEF CrashNeedsDropped
  <2>10. CASE sigh_terminate \/ upstream_sent \/ UNCHANGED vars
    BY <2>1, <2>10 DEF sigh_terminate, upstream_sent, vars
  <2>11. QED
    BY <2>4, <2>5, <2>6, <2>7, <2>8, <2>9, <2>10 DEF Next
<1>3. QED
  BY <1>1, <1>2, ListCorrect, PTL DEF Spec

(* The abort() of endpoint_recv() is never reached for want of an entry,   *)
(* and the bodies of one remote client go down one connection.             *)
THEOREM OneEndpointPerConnection == Spec => [](KeysUnique /\ OpenIsLinked)
<1>1. ListInv => KeysUnique /\ OpenIsLinked
  BY DEF ListInv
<1>2. QED
  BY <1>1, ListCorrect, PTL

(* A process and a descriptor never have two endpoints: the bodies of one  *)
(* remote client all go down one connection, in order.                     *)
THEOREM KeysStayUnique == Spec => []KeysUnique
  BY OneEndpointPerConnection, PTL

(* No endpoint of the list has a connection that was shut down by an       *)
(* error, a stop message or the end of the upstream connection.            *)
THEOREM EndpointsStayLive == Spec => []LinkedIsLive
<1>1. ListInv => LinkedIsLive
  BY DEF ListInv
<1>2. QED
  BY <1>1, ListCorrect, PTL

(* A stop message closes no connection of another process.                 *)
THEOREM StopsAreTargeted == Spec => StopsOwnConnections
<1> USE EndpointAssumption
<1>1. ASSUME ListInv, NEW pid \in Pid, NEW c \in Client,
             gc_endpoint_stop(pid), st[c] = "open", st'[c] # "open"
      PROVE  \E i \in DOMAIN endpoints : endpoints[i].client = c /\ endpoints[i].pid = pid
  <2>1. endpoints \in Seq(Entry) /\ st \in [Client -> State]
    BY <1>1 DEF ListInv, TypeOK
  <2>2. FindPid(pid) # 0
    BY <1>1 DEF gc_endpoint_stop, vars
  <2>3. FindPid(pid) \in DOMAIN endpoints /\ endpoints[FindPid(pid)].pid = pid
    BY <2>1, <2>2, FindProperties
  <2>4. st' = [st EXCEPT ![endpoints[FindPid(pid)].client] = IF @ = "open" THEN "freed" ELSE @]
    BY <1>1, <2>2 DEF gc_endpoint_stop, async_client_shutdown
  <2>5. endpoints[FindPid(pid)].client = c
    BY <1>1, <2>1, <2>4
  <2>6. QED
    BY <2>3, <2>5
<1>2. ListInv => [\A pid \in Pid, c \in Client :
                    gc_endpoint_stop(pid) /\ st[c] = "open" /\ st'[c] # "open"
                      => \E i \in DOMAIN endpoints :
                           endpoints[i].client = c /\ endpoints[i].pid = pid]_vars
  BY <1>1
<1>3. QED
  BY <1>2, ListCorrect, PTL DEF StopsOwnConnections
=============================================================================
