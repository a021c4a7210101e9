--------------------------- MODULE DataPath_proofs ---------------------------
(***************************************************************************)
(* Proofs about the two processes and the relay between them, for any      *)
(* number of tunnels, descriptors and connections.  First what each step   *)
(* does to the ends and to the queues, and the invariants that follow from *)
(* that; then the two processes, whose own proofs are used through TP and  *)
(* EP; then the theorems.                                                  *)
(***************************************************************************)
EXTENDS DataPath, SeqLemmas

(* Every descriptor has a bucket of its own.  The hash of the code, the sum *)
(* of the decimal digits' codes, gives 14 and 23 the same one.              *)
NoCollision == \A f, g \in Fd : ht_key[f] = ht_key[g] => f = g

(* No two clients that are open at once share a bucket. *)
Sparse == NoCollision \/ MaxOpen = 1
-----------------------------------------------------------------------------
(* What the relay carries, in either direction. *)
Offline  == [type : {"offline"}]
Stop     == [type : {"endpoint_stop"}, to : {Remote}, fd : Fd]
Request  == [type : {"tunnel_request"}, to : {Remote}, port : Port, fd : Fd,
             body : [from : Local, n : 1..MaxMsgs]]
Response == [type : {"tunnel_response"}, to : {Device}, port : Port, fd : Fd,
             body : [from : Conn, n : 1..MaxAnswers]]
Denied   == [type : {"tunnel_denied"}, to : {Device}, port : Port]

Used(c) == tst[c] # "unused"

(* The port that c leads to. *)
Where(c) == info[parent[c]].port_remote

OpenLocal == {c \in Local : tst[c] = "open"}
OpenConn  == {k \in Conn : est[k] = "open"}

(* A client that is used has a descriptor, and leads to a port. *)
Leads == \A c \in Local : Used(c) => /\ tfd[c] \in Fd /\ parent[c] \in Tunnel
                                    /\ info[parent[c]] # NULL

(* What the lists and tables of both processes show of the ends, and the   *)
(* types of what is between them.                                          *)
Ends == /\ Leads
        /\ info \in [Tunnel -> [pid : {Remote}, port_remote : Port] \cup {NULL}]
        /\ tst \in [Local -> {"unused", "open", "freed"}]
        /\ tfd \in [Local -> Fd \cup {NULL}]
        /\ parent \in [Local -> Tunnel \cup {NULL}]
        /\ trb \in [Local -> Seq(Body)]
        /\ endpoints \in Seq(E!Entry) /\ E!KeysUnique /\ E!OpenIsLinked
        /\ \A i \in DOMAIN endpoints : endpoints[i].client \in OpenConn
        /\ est \in [Conn -> E!State] /\ \A k \in Conn : est[k] # "dropped"
        /\ erb \in [Conn -> Seq(Body)]
        /\ got \in [Conn -> Seq(Body)]
        /\ tup \in Seq(Request \cup Stop \cup Offline)
        /\ eup \in Seq(Response \cup Denied \cup Offline)
        /\ sent \in [Local \cup Conn -> Nat]
        /\ taken \in [Local -> Seq(Body)]
        /\ owner \in [Conn -> Local \cup {NULL}]

(* The types of the local clients and of the tables that lead to them. *)
LEMMA LocalTypes ==
  ASSUME Ends
  PROVE  /\ info \in [Tunnel -> [pid : {Remote}, port_remote : Port] \cup {NULL}]
         /\ tst \in [Local -> {"unused", "open", "freed"}]
         /\ tfd \in [Local -> Fd \cup {NULL}]
         /\ parent \in [Local -> Tunnel \cup {NULL}]
         /\ trb \in [Local -> Seq(Body)]
         /\ \A c \in Local : Used(c) => info[parent[c]].pid = Remote /\ Where(c) \in Port
         /\ \A c \in OpenLocal : tfd[c] \in Fd /\ Used(c)
<1>1. /\ info \in [Tunnel -> [pid : {Remote}, port_remote : Port] \cup {NULL}]
      /\ Leads
  BY DEF Ends
<1>2. ASSUME NEW c \in Local, Used(c) PROVE info[parent[c]].pid = Remote /\ Where(c) \in Port
  <2>1. parent[c] \in Tunnel /\ info[parent[c]] # NULL
    BY <1>1, <1>2 DEF Leads
  <2>2. info[parent[c]] \in [pid : {Remote}, port_remote : Port]
    BY <1>1, <2>1
  <2>3. QED
    BY <2>2 DEF Where
<1>3. \A c \in OpenLocal : c \in Local /\ Used(c)
  BY DEF OpenLocal, Used
<1>4. QED
  BY <1>1, <1>2, <1>3 DEF Ends, Leads

(* The types of the connections to the backend. *)
LEMMA ConnTypes ==
  ASSUME Ends
  PROVE  /\ endpoints \in Seq(E!Entry)
         /\ est \in [Conn -> E!State]
         /\ erb \in [Conn -> Seq(Body)]
         /\ got \in [Conn -> Seq(Body)]
  BY DEF Ends

(* Every linked endpoint has an open connection. *)
LEMMA LinkedIsOpen ==
  ASSUME Ends, NEW i \in DOMAIN endpoints
  PROVE  endpoints[i] \in E!Entry /\ endpoints[i].client \in OpenConn
<1>1. endpoints \in Seq(E!Entry) /\ endpoints[i].client \in OpenConn
  BY DEF Ends
<1>2. QED
  BY <1>1, LenProperties, ElementOfSeq
-----------------------------------------------------------------------------
(* What each step does to the two processes, whatever the tables are. *)
DeviceSame == /\ UNCHANGED <<tst, tfd, trb, taken>>
              /\ \A c \in Local : Used(c) => Where(c)' = Where(c)

RemoteSame == UNCHANGED <<endpoints, est, erb, got, owner>>

(* Some local clients end. *)
Leave(cs) == /\ cs \subseteq {c \in Local : tst[c] = "open"}
             /\ tst' = [c \in Local |-> IF c \in cs THEN "freed" ELSE tst[c]]
             /\ trb' = [c \in Local |-> IF c \in cs THEN <<>> ELSE trb[c]]
             /\ UNCHANGED <<tfd, taken>>
             /\ \A c \in Local : Used(c) => Where(c)' = Where(c)

(* Some connections to the backend end. *)
Close(ks) == /\ ks \subseteq {k \in Conn : est[k] = "open"}
             /\ est' = [k \in Conn |-> IF k \in ks THEN "freed" ELSE est[k]]
             /\ erb' = [k \in Conn |-> IF k \in ks THEN <<>> ELSE erb[k]]
             /\ UNCHANGED <<got, owner>>
             /\ \A j \in DOMAIN endpoints' : \E i \in DOMAIN endpoints : endpoints'[j] = endpoints[i]

Paired == DeviceSame /\ RemoteSame /\ UNCHANGED <<tup, eup, sent>>

Accepted(c, f) ==
  /\ Cardinality(OpenLocal) < MaxOpen
  /\ tst[c] = "unused"
  /\ \A d \in OpenLocal : tfd[d] # f
  /\ ~Reuse => \A d \in Local : tfd[d] # f
  /\ tst' = [tst EXCEPT ![c] = "open"]
  /\ tfd' = [tfd EXCEPT ![c] = f]
  /\ \A d \in Local : Used(d) => Where(d)' = Where(d)
  /\ RemoteSame
  /\ UNCHANGED <<trb, taken, tup, eup, sent>>

Asked(c) ==
  /\ tst[c] = "open"
  /\ sent[c] + 1 \in 1..MaxMsgs
  /\ sent' = [sent EXCEPT ![c] = @ + 1]
  /\ tup' = Append(tup, [type |-> "tunnel_request", to |-> Remote, port |-> Where(c),
                         fd |-> tfd[c], body |-> NextBody(c)])
  /\ DeviceSame /\ RemoteSame
  /\ UNCHANGED eup

Took(c) ==
  /\ tst[c] = "open" /\ trb[c] # <<>>
  /\ trb' = [trb EXCEPT ![c] = Tail(@)]
  /\ taken' = [taken EXCEPT ![c] = Append(@, Head(trb[c]))]
  /\ RemoteSame
  /\ UNCHANGED <<tst, tfd, tup, eup, sent>>
  /\ \A d \in Local : Used(d) => Where(d)' = Where(d)

LeftAlone(c) ==
  /\ Leave({c}) /\ RemoteSame
  /\ \E m \in Stop : tup' = Append(tup, m)
  /\ UNCHANGED <<eup, sent>>

HeardOffline ==
  /\ eup # <<>> /\ eup' = Tail(eup)
  /\ Leave(OpenLocal) /\ RemoteSame
  /\ \E ms \in Seq(Stop) : tup' = tup \o ms
  /\ UNCHANGED sent

DeviceLost ==
  /\ Leave(OpenLocal) /\ RemoteSame
  /\ \E i \in 0..Len(tup), j \in 0..Len(eup) : tup' = Taken(tup, i) /\ eup' = Left(eup, j)
  /\ UNCHANGED sent

Responded(k) ==
  /\ est[k] = "open"
  /\ sent[k] + 1 \in 1..MaxAnswers
  /\ sent' = [sent EXCEPT ![k] = @ + 1]
  /\ \E i \in DOMAIN endpoints :
       /\ endpoints[i].client = k
       /\ eup' = Append(eup, [type |-> "tunnel_response", to |-> Device,
                              port |-> endpoints[i].backend_port,
                              fd |-> endpoints[i].remote_fd, body |-> NextBody(k)])
  /\ DeviceSame /\ RemoteSame
  /\ UNCHANGED tup

Wrote(k) ==
  /\ est[k] = "open" /\ erb[k] # <<>>
  /\ erb' = [erb EXCEPT ![k] = Tail(@)]
  /\ got' = [got EXCEPT ![k] = Append(@, Head(erb[k]))]
  /\ DeviceSame
  /\ UNCHANGED <<endpoints, est, owner, tup, eup, sent>>

ClosedAlone(k) ==
  /\ Close({k}) /\ DeviceSame
  /\ UNCHANGED <<tup, eup, sent>>

Stopped ==
  /\ tup # <<>> /\ Head(tup) \in Stop \cup Offline
  /\ tup' = Tail(tup)
  /\ DeviceSame
  /\ \E ks \in SUBSET Conn : Close(ks)
  /\ UNCHANGED <<eup, sent>>

RemoteLost ==
  /\ Close(OpenConn) /\ DeviceSame
  /\ \E i \in 0..Len(eup), j \in 0..Len(tup) : eup' = Taken(eup, i) /\ tup' = Left(tup, j)
  /\ UNCHANGED sent

(* The oldest message to the other process is a request of c. *)
Requested == tup # <<>> /\ Head(tup) \in Request /\ tup' = Tail(tup)

Refused ==
  /\ Requested /\ Head(tup).port \notin Allowed
  /\ \E m \in Denied : eup' = Append(eup, m)
  /\ DeviceSame /\ RemoteSame
  /\ UNCHANGED sent

Queued(k) ==
  /\ Requested /\ Head(tup).port \in Allowed
  /\ est[k] = "open"
  /\ \E i \in DOMAIN endpoints : endpoints[i].client = k /\ endpoints[i].key = <<Device, Head(tup).fd>>
  /\ erb' = [erb EXCEPT ![k] = Append(@, Head(tup).body)]
  /\ DeviceSame
  /\ UNCHANGED <<endpoints, est, got, owner, eup, sent>>

Connected(k) ==
  /\ Requested /\ Head(tup).port \in Allowed
  /\ est[k] = "unused"
  /\ \A i \in DOMAIN endpoints : endpoints[i].key # <<Device, Head(tup).fd>>
  /\ est' = [est EXCEPT ![k] = "open"]
  /\ erb' = [erb EXCEPT ![k] = <<Head(tup).body>>]
  /\ owner' = [owner EXCEPT ![k] = Head(tup).body.from]
  /\ LET e == [key |-> <<Device, Head(tup).fd>>, remote_fd |-> Head(tup).fd,
               backend_port |-> Head(tup).port, pid |-> Device, client |-> k]
     IN \A j \in DOMAIN endpoints' :
          endpoints'[j] = e \/ \E i \in DOMAIN endpoints : endpoints'[j] = endpoints[i]
  /\ DeviceSame
  /\ UNCHANGED <<got, eup, sent>>

Delivered(c) ==
  /\ eup # <<>> /\ Head(eup) \in Response /\ eup' = Tail(eup)
  /\ tst[c] = "open" /\ Where(c) = Head(eup).port
  /\ NoCollision => tfd[c] = Head(eup).fd
  /\ trb' = [trb EXCEPT ![c] = Append(@, Head(eup).body)]
  /\ RemoteSame
  /\ UNCHANGED <<tst, tfd, taken, tup, sent>>
  /\ \A d \in Local : Used(d) => Where(d)' = Where(d)

Dropped ==
  /\ eup # <<>> /\ eup' = Tail(eup)
  /\ Head(eup) \in Response =>
       \A c \in OpenLocal : ~(tfd[c] = Head(eup).fd /\ Where(c) = Head(eup).port)
  /\ DeviceSame /\ RemoteSame
  /\ UNCHANGED <<tup, sent>>

(* All the steps of the two processes and the relay, by what they do. *)
Effect == \/ Paired
          \/ \E c \in Local : \/ \E f \in Fd : Accepted(c, f)
                              \/ Asked(c) \/ Took(c) \/ LeftAlone(c) \/ Delivered(c)
          \/ \E k \in Conn : \/ Responded(k) \/ Wrote(k) \/ ClosedAlone(k)
                             \/ Queued(k) \/ Connected(k)
          \/ HeardOffline \/ DeviceLost \/ Stopped \/ RemoteLost \/ Refused \/ Dropped

(* What the relay keeps of a queue. *)
LEMMA KeptByRelay ==
  ASSUME NEW X, NEW s \in Seq(X), NEW n \in 0..Len(s), [type |-> "offline"] \in X
  PROVE  Taken(s, n) \in Seq(X) /\ Left(s, n) \in Seq(X)
<1>1. Len(s) \in Nat /\ n \in Nat /\ n <= Len(s) /\ \A i \in 1..Len(s) : s[i] \in X
  BY LenProperties, ElementOfSeq
<1>2. SubSeq(s, 1, n) \in Seq(X)
  <2>1. \A i \in 1..n : s[i] \in X
    BY <1>1
  <2>2. QED
    BY <1>1, <2>1, SubSeqProperties
<1>3. SubSeq(s, n + 1, Len(s)) \in Seq(X)
  <2>1. \A i \in (n + 1)..Len(s) : s[i] \in X
    BY <1>1
  <2>2. QED
    BY <1>1, <2>1, SubSeqProperties
<1>4. QED
  BY <1>2, <1>3, AppendProperties DEF Taken, Left

(* When every port is allowed, no request is denied. *)
NoDenial == eup \in Seq(Response \cup Offline)

(* What the relay carries to the device stays free of denials. *)
LEMMA NoDenialStep ==
  ASSUME Port \subseteq Allowed, Ends, NoDenial, Effect PROVE NoDenial'
<1> DEFINE X == Response \cup Offline
<1>1. eup \in Seq(X) /\ [type |-> "offline"] \in X
  BY DEF NoDenial, Offline
<1>2. ~Refused
  <2>1. Head(tup) \in Request => Head(tup).port \in Port
    BY DEF Request
  <2>2. QED
    BY <2>1 DEF Refused, Requested
<1>3. CASE eup' = eup
  BY <1>1, <1>3 DEF NoDenial
<1>4. CASE eup # <<>> /\ eup' = Tail(eup)
  BY <1>1, <1>4, HeadTailProperties DEF NoDenial
<1>5. CASE \E k \in Conn : Responded(k)
  <2>1. PICK k \in Conn : Responded(k)
    BY <1>5
  <2>2. PICK i \in DOMAIN endpoints :
             eup' = Append(eup, [type |-> "tunnel_response", to |-> Device,
                                 port |-> endpoints[i].backend_port,
                                 fd |-> endpoints[i].remote_fd, body |-> NextBody(k)])
    BY <2>1 DEF Responded
  <2>3. sent[k] + 1 \in 1..MaxAnswers /\ endpoints[i] \in E!Entry
    BY <2>1, LinkedIsOpen DEF Responded
  <2>4. [type |-> "tunnel_response", to |-> Device, port |-> endpoints[i].backend_port,
         fd |-> endpoints[i].remote_fd, body |-> NextBody(k)] \in Response
    BY <2>3 DEF Response, NextBody, E!Entry
  <2>5. QED
    BY <1>1, <2>2, <2>4, AppendProperties DEF NoDenial
<1>6. CASE DeviceLost \/ RemoteLost
  <2>1. PICK n \in 0..Len(eup) : eup' = Taken(eup, n) \/ eup' = Left(eup, n)
    BY <1>6 DEF DeviceLost, RemoteLost
  <2>2. QED
    BY <1>1, <2>1, KeptByRelay DEF NoDenial
<1>7. QED
  <2>1. eup' = eup \/ (eup # <<>> /\ eup' = Tail(eup)) \/ (\E k \in Conn : Responded(k))
          \/ DeviceLost \/ RemoteLost
    BY <1>2 DEF Effect, Paired, Accepted, Asked, Took, LeftAlone, Delivered, Wrote, ClosedAlone,
                Queued, Connected, HeardOffline, Stopped, Dropped
  <2>2. QED
    BY <1>3, <1>4, <1>5, <1>6, <2>1
-----------------------------------------------------------------------------
(* The place of e in what x sent, 0 when e is not from x; e is a body, or  *)
(* a message that may carry one.                                           *)
Num(e, x) == IF e \in Body /\ e.from = x THEN e.n
             ELSE IF e \in Request \cup Response /\ e.body.from = x THEN e.body.n
             ELSE 0

(* What Num is for each kind of element, and that it is a number.          *)
LEMMA NumOf ==
  ASSUME NEW x
  PROVE  /\ \A e \in Body : Num(e, x) = IF e.from = x THEN e.n ELSE 0
         /\ \A e \in Request \cup Response : Num(e, x) = IF e.body.from = x THEN e.body.n ELSE 0
         /\ \A e \in Stop \cup Denied \cup Offline : Num(e, x) = 0
         /\ \A e : Num(e, x) \in Nat
<1>1. MaxMsgs \in Nat /\ MaxAnswers \in Nat
  BY DataPathAssumption
<1>2. \A e \in Body : DOMAIN e = {"from", "n"} /\ e.n \in Nat /\ e.n # 0
  BY <1>1 DEF Body
<1>3. \A e \in Request \cup Response :
        DOMAIN e = {"type", "to", "port", "fd", "body"} /\ e.body \in Body
  BY DEF Request, Response, Body
<1>4. \A e \in Request \cup Response : e.type \in {"tunnel_request", "tunnel_response"}
  BY DEF Request, Response
<1>5. \A e \in Stop \cup Denied \cup Offline :
        /\ e.type \notin {"tunnel_request", "tunnel_response"}
        /\ "from" \notin DOMAIN e
  BY DEF Stop, Denied, Offline
<1>6. \A e \in Body : e \notin Request \cup Response
  <2>1. "from" \notin {"type", "to", "port", "fd", "body"}
    OBVIOUS
  <2>2. QED
    BY <1>2, <1>3, <2>1
<1>7. \A e \in Stop \cup Denied \cup Offline : e \notin Body /\ e \notin Request \cup Response
  BY <1>2, <1>4, <1>5
<1>8. QED
  BY <1>2, <1>3, <1>6, <1>7 DEF Num

(* What x has in s is numbered from a + 1 to z, with none missing, none    *)
(* twice and each behind the one before it.                                *)
Run(s, x, a, z) ==
  /\ a \in Nat /\ z \in Nat /\ a <= z
  /\ \A i \in 1..Len(s) : Num(s[i], x) # 0 => Num(s[i], x) \in (a + 1)..z
  /\ \A m \in (a + 1)..z : \E i \in 1..Len(s) : Num(s[i], x) = m
  /\ \A i, j \in 1..Len(s) : i < j /\ Num(s[i], x) # 0 /\ Num(s[j], x) # 0
                               => Num(s[i], x) < Num(s[j], x)

(* Nothing in s is from x. *)
LEMMA RunOfNone ==
  ASSUME NEW X, NEW s \in Seq(X), NEW x, NEW a \in Nat
  PROVE  Run(s, x, a, a) <=> \A i \in 1..Len(s) : Num(s[i], x) = 0
<1>1. (a + 1)..a = {}
  OBVIOUS
<1>2. QED
  BY <1>1 DEF Run

(* The last one of a run, or something of others, is put behind it. *)
LEMMA RunAppend ==
  ASSUME NEW X, NEW s \in Seq(X), NEW e \in X, NEW x, NEW a, NEW z, Run(s, x, a, z)
  PROVE  /\ Num(e, x) = 0 => Run(Append(s, e), x, a, z)
         /\ Num(e, x) = z + 1 => Run(Append(s, e), x, a, z + 1)
<1> DEFINE t == Append(s, e)
           N == Len(s)
<1>1. /\ Len(t) = N + 1 /\ N \in Nat /\ t[N + 1] = e
      /\ \A i \in 1..N : t[i] = s[i]
  BY AppendProperties, LenProperties
<1> HIDE DEF t, N
<1>2. \A i \in 1..(N + 1) : i \in 1..N \/ i = N + 1
  BY <1>1
<1>3. \A y : Num(y, x) \in Nat
  BY NumOf
<1>4. Run(s, x, a, z)
  OBVIOUS
<1>5. ASSUME Num(e, x) = 0 PROVE Run(t, x, a, z)
  <2>1. \A i \in 1..(N + 1) : Num(t[i], x) # 0 => i \in 1..N /\ t[i] = s[i]
    BY <1>1, <1>2, <1>5
  <2>2. \A i \in 1..N : i \in 1..(N + 1) /\ t[i] = s[i]
    BY <1>1
  <2>3. \A m \in (a + 1)..z : \E i \in 1..(N + 1) : Num(t[i], x) = m
    BY <1>4, <2>2 DEF Run, N
  <2>4. QED
    BY <1>1, <1>4, <2>1, <2>3 DEF Run, N
<1>6. ASSUME Num(e, x) = z + 1 PROVE Run(t, x, a, z + 1)
  <2>0. a \in Nat /\ z \in Nat /\ a <= z
    BY <1>4 DEF Run
  <2>1. ASSUME NEW i \in 1..(N + 1), Num(t[i], x) # 0 PROVE Num(t[i], x) \in (a + 1)..(z + 1)
    <3>1. CASE i \in 1..N
      BY <1>1, <1>4, <2>0, <2>1, <3>1 DEF Run, N
    <3>2. CASE i = N + 1
      BY <1>1, <1>6, <2>0, <3>2
    <3>3. QED
      BY <1>2, <3>1, <3>2
  <2>2. ASSUME NEW m \in (a + 1)..(z + 1) PROVE \E i \in 1..(N + 1) : Num(t[i], x) = m
    <3>1. CASE m = z + 1
      BY <1>1, <1>6, <3>1
    <3>2. CASE m # z + 1
      <4>1. m \in (a + 1)..z
        BY <2>0, <3>2
      <4>2. PICK i \in 1..N : Num(s[i], x) = m
        BY <1>4, <4>1 DEF Run, N
      <4>3. i \in 1..(N + 1) /\ t[i] = s[i]
        BY <1>1, <4>2
      <4>4. QED
        BY <4>2, <4>3
    <3>3. QED
      BY <3>1, <3>2
  <2>3. ASSUME NEW i \in 1..(N + 1), NEW j \in 1..(N + 1), i < j,
               Num(t[i], x) # 0, Num(t[j], x) # 0
        PROVE  Num(t[i], x) < Num(t[j], x)
    <3>1. i \in 1..N /\ t[i] = s[i]
      BY <1>1, <2>3
    <3>2. CASE j \in 1..N
      BY <1>1, <1>4, <2>3, <3>1, <3>2 DEF Run, N
    <3>3. CASE j = N + 1
      <4>1. Num(s[i], x) \in (a + 1)..z
        BY <1>4, <2>3, <3>1 DEF Run, N
      <4>2. QED
        BY <1>1, <1>6, <2>0, <3>1, <3>3, <4>1
    <3>4. QED
      BY <1>2, <3>2, <3>3
  <2>4. QED
    BY <1>1, <2>0, <2>1, <2>2, <2>3 DEF Run
<1>7. QED
  BY <1>5, <1>6 DEF t

(* Where a run is cut, its first part ends and its second one begins. *)
LEMMA RunSplit ==
  ASSUME NEW X, NEW s \in Seq(X), NEW n \in 0..Len(s), NEW x, NEW a, NEW z, Run(s, x, a, z)
  PROVE  \E b \in a..z : Run(SubSeq(s, 1, n), x, a, b) /\ Run(SubSeq(s, n + 1, Len(s)), x, b, z)
<1> DEFINE N == Len(s)
           p == SubSeq(s, 1, n)
           q == SubSeq(s, n + 1, N)
           I == {m \in (a + 1)..z : \E i \in (n + 1)..N : Num(s[i], x) = m}
           b == IF I = {} THEN z ELSE Min(I) - 1
<1>1. N \in Nat /\ n \in Nat /\ n <= N /\ \A i \in 1..N : s[i] \in X
  BY LenProperties, ElementOfSeq
<1>2. Len(p) = n /\ \A i \in 1..n : p[i] = s[i]
  <2>1. \A i \in 1..n : s[i] \in X
    BY <1>1
  <2>2. QED
    BY <1>1, <2>1, SubSeqProperties
<1>3. Len(q) = N - n /\ \A i \in 1..(N - n) : q[i] = s[n + i]
  <2>1. \A i \in (n + 1)..N : s[i] \in X
    BY <1>1
  <2>2. QED
    BY <1>1, <2>1, SubSeqProperties
<1>4. /\ a \in Nat /\ z \in Nat /\ a <= z
      /\ \A i \in 1..N : Num(s[i], x) \in Nat
      /\ \A i \in 1..N : Num(s[i], x) # 0 => Num(s[i], x) \in (a + 1)..z
      /\ \A m \in (a + 1)..z : \E i \in 1..N : Num(s[i], x) = m
      /\ \A i, j \in 1..N : i < j /\ Num(s[i], x) # 0 /\ Num(s[j], x) # 0
                              => Num(s[i], x) < Num(s[j], x)
  BY NumOf DEF Run
<1>5. /\ b \in a..z
      /\ \A i \in 1..n : Num(s[i], x) # 0 => Num(s[i], x) <= b
      /\ \A i \in (n + 1)..N : Num(s[i], x) # 0 => Num(s[i], x) > b
      /\ \A i \in (n + 1)..N : i \in 1..N
      /\ \A i \in 1..n : i \in 1..N
  <2>1. (\A i \in (n + 1)..N : i \in 1..N) /\ (\A i \in 1..n : i \in 1..N)
    BY <1>1
  <2>2. CASE I = {}
    <3>1. \A i \in (n + 1)..N : Num(s[i], x) = 0
      BY <1>4, <2>1, <2>2
    <3>2. \A i \in 1..n : Num(s[i], x) # 0 => Num(s[i], x) <= z
      BY <1>4, <2>1
    <3>3. QED
      BY <1>4, <2>1, <2>2, <3>1, <3>2
  <2>3. CASE I # {}
    <3>1. Min(I) \in I /\ \A m \in I : Min(I) <= m
      <4>1. I \in SUBSET Nat
        BY <1>4
      <4>2. QED
        BY <2>3, <4>1, MinOfNat
    <3>2. PICK l \in (n + 1)..N : Num(s[l], x) = Min(I)
      BY <3>1
    <3>3. b = Min(I) - 1 /\ Min(I) \in (a + 1)..z
      BY <2>3, <3>1
    <3>9. \A m \in (a + 1)..z : (\E i \in (n + 1)..N : Num(s[i], x) = m) => m \in I
      OBVIOUS
    <3> HIDE DEF b, I
    <3>4. ASSUME NEW i \in 1..n, Num(s[i], x) # 0 PROVE Num(s[i], x) <= b
      <4>1. i < l /\ i \in 1..N /\ l \in 1..N
        BY <1>1, <2>1
      <4>2. Num(s[i], x) < Num(s[l], x)
        BY <1>4, <3>2, <3>3, <3>4, <4>1
      <4>3. QED
        BY <1>4, <3>2, <3>3, <4>1, <4>2
    <3>5. ASSUME NEW i \in (n + 1)..N, Num(s[i], x) # 0 PROVE Num(s[i], x) > b
      <4>1. Num(s[i], x) \in I
        BY <1>4, <2>1, <3>5, <3>9
      <4>2. QED
        BY <1>4, <3>1, <3>3, <4>1
    <3>6. b \in a..z
      BY <1>4, <3>3
    <3>7. QED
      BY <2>1, <3>4, <3>5, <3>6
  <2>4. QED
    BY <2>2, <2>3
<1> HIDE DEF p, q, b, N, I
<1>6. b \in Nat /\ a <= b /\ b <= z
  BY <1>4, <1>5
<1>7. Run(p, x, a, b)
  <2>1. \A i \in 1..n : Num(p[i], x) # 0 => Num(p[i], x) \in (a + 1)..b
    BY <1>2, <1>4, <1>5, <1>6
  <2>2. ASSUME NEW m \in (a + 1)..b PROVE \E i \in 1..n : Num(p[i], x) = m
    <3>1. m \in (a + 1)..z /\ m # 0 /\ m <= b /\ m \in Nat
      BY <1>4, <1>6
    <3>2. PICK i \in 1..N : Num(s[i], x) = m
      BY <1>4, <3>1
    <3>3. i \notin (n + 1)..N
      BY <1>5, <1>6, <3>1, <3>2
    <3>4. i \in 1..n
      BY <1>1, <3>2, <3>3
    <3>5. QED
      BY <1>2, <3>2, <3>4
  <2>3. \A i, j \in 1..n : i < j /\ Num(p[i], x) # 0 /\ Num(p[j], x) # 0
                             => Num(p[i], x) < Num(p[j], x)
    BY <1>2, <1>4, <1>5
  <2>4. QED
    BY <1>2, <1>4, <1>6, <2>1, <2>2, <2>3 DEF Run
<1>8. Run(q, x, b, z)
  <2>0. \A i \in 1..(N - n) : n + i \in (n + 1)..N /\ n + i \in 1..N
    BY <1>1
  <2>1. \A i \in 1..(N - n) : Num(q[i], x) # 0 => Num(q[i], x) \in (b + 1)..z
    <3>1. ASSUME NEW i \in 1..(N - n), Num(q[i], x) # 0 PROVE Num(q[i], x) \in (b + 1)..z
      <4>1. q[i] = s[n + i] /\ n + i \in (n + 1)..N /\ n + i \in 1..N
        BY <1>3, <2>0
      <4>2. Num(s[n + i], x) # 0
        BY <3>1, <4>1
      <4>3. Num(s[n + i], x) > b /\ Num(s[n + i], x) \in (a + 1)..z
        BY <1>4, <1>5, <4>1, <4>2
      <4>4. QED
        BY <1>4, <1>6, <4>1, <4>3
    <3>2. QED
      BY <3>1
  <2>2. ASSUME NEW m \in (b + 1)..z PROVE \E i \in 1..(N - n) : Num(q[i], x) = m
    <3>1. m \in (a + 1)..z /\ m # 0 /\ ~(m <= b)
      BY <1>4, <1>6
    <3>2. PICK i \in 1..N : Num(s[i], x) = m
      BY <1>4, <3>1
    <3>3. i \notin 1..n
      BY <1>5, <3>1, <3>2
    <3>4. i - n \in 1..(N - n) /\ n + (i - n) = i
      BY <1>1, <3>2, <3>3
    <3>5. QED
      BY <1>3, <3>2, <3>4
  <2>3. ASSUME NEW i \in 1..(N - n), NEW j \in 1..(N - n), i < j,
               Num(q[i], x) # 0, Num(q[j], x) # 0
        PROVE  Num(q[i], x) < Num(q[j], x)
    <3>1. q[i] = s[n + i] /\ q[j] = s[n + j] /\ n + i \in 1..N /\ n + j \in 1..N
      BY <1>3, <2>0
    <3>2. n + i < n + j
      BY <1>1, <2>3
    <3>3. QED
      BY <1>4, <2>3, <3>1, <3>2
  <2>4. QED
    BY <1>3, <1>4, <1>6, <2>1, <2>2, <2>3 DEF Run
<1>9. QED
  BY <1>5, <1>7, <1>8 DEF p, q, N

(* The oldest of a run is taken, or something of others. *)
LEMMA RunTail ==
  ASSUME NEW X, NEW s \in Seq(X), s # <<>>, NEW x, NEW a, NEW z, Run(s, x, a, z)
  PROVE  /\ Num(Head(s), x) = 0 => Run(Tail(s), x, a, z)
         /\ Num(Head(s), x) # 0 => /\ Num(Head(s), x) = a + 1 /\ a + 1 <= z
                                   /\ Run(Tail(s), x, a + 1, z)
<1>1. Len(s) \in Nat /\ 1 \in 0..Len(s) /\ s[1] \in X /\ Head(s) = s[1]
  <2>1. Len(s) \in Nat /\ Len(s) # 0
    BY EmptySeq, LenProperties
  <2>2. QED
    BY <2>1, ElementOfSeq
<1> DEFINE p == SubSeq(s, 1, 1)
<1>2. Len(p) = 1 /\ p[1] = s[1]
  <2>1. \A i \in 1..1 : s[i] \in X
    BY <1>1
  <2>2. QED
    BY <2>1, SubSeqProperties
<1> HIDE DEF p
<1>3. Tail(s) = SubSeq(s, 2, Len(s))
  BY TailIsSubSeq
<1>4. PICK b \in a..z : Run(p, x, a, b) /\ Run(Tail(s), x, b, z)
  <2>1. \A n \in 0..Len(s) : \E b \in a..z : /\ Run(SubSeq(s, 1, n), x, a, b)
                                           /\ Run(SubSeq(s, n + 1, Len(s)), x, b, z)
    BY RunSplit
  <2>2. 1 + 1 = 2
    OBVIOUS
  <2>3. QED
    BY <1>1, <1>3, <2>1, <2>2 DEF p
<1>5. a \in Nat /\ z \in Nat /\ b \in Nat /\ a <= b /\ b <= z
  <2>1. a \in Nat /\ z \in Nat
    BY DEF Run
  <2>2. QED
    BY <1>4, <2>1
<1>6. /\ Num(s[1], x) # 0 => Num(s[1], x) \in (a + 1)..b
      /\ \A m \in (a + 1)..b : Num(s[1], x) = m
      /\ Num(s[1], x) \in Nat
  <2>1. \A i \in 1..1 : i = 1
    OBVIOUS
  <2>2. 1 \in 1..1
    OBVIOUS
  <2>3. QED
    BY <1>2, <1>4, <2>1, <2>2, NumOf DEF Run
<1>7. CASE Num(s[1], x) = 0
  <2>1. b = a
    <3>1. a + 1 \in (a + 1)..b => FALSE
      BY <1>5, <1>6, <1>7
    <3>2. QED
      BY <1>5, <3>1
  <2>2. QED
    BY <1>1, <1>4, <1>7, <2>1
<1>8. CASE Num(s[1], x) # 0
  <2>1. b \in (a + 1)..b /\ a + 1 \in (a + 1)..b
    BY <1>5, <1>6, <1>8
  <2>2. Num(s[1], x) = a + 1 /\ b = a + 1
    BY <1>6, <2>1
  <2>3. QED
    BY <1>1, <1>4, <1>5, <1>8, <2>2
<1>9. QED
  BY <1>7, <1>8

(* Messages of others are put behind a run. *)
LEMMA RunConcat ==
  ASSUME NEW X, NEW s \in Seq(X), NEW t \in Seq(X), NEW x, NEW a, NEW z, Run(s, x, a, z),
         \A i \in 1..Len(t) : Num(t[i], x) = 0
  PROVE  Run(s \o t, x, a, z)
<1> DEFINE u == s \o t
           N == Len(s)
           M == Len(t)
<1>1. /\ Len(u) = N + M /\ N \in Nat /\ M \in Nat
      /\ \A i \in 1..(N + M) : u[i] = IF i <= N THEN s[i] ELSE t[i - N]
  BY ConcatProperties, LenProperties
<1>2. Run(s, x, a, z) /\ \A i \in 1..M : Num(t[i], x) = 0
  OBVIOUS
<1> HIDE DEF u, N, M
<1>3. \A i \in 1..(N + M) : Num(u[i], x) # 0 => i \in 1..N /\ u[i] = s[i]
  <2>1. ASSUME NEW i \in 1..(N + M), Num(u[i], x) # 0 PROVE i \in 1..N /\ u[i] = s[i]
    <3>1. CASE i <= N
      BY <1>1, <3>1
    <3>2. CASE ~(i <= N)
      <4>1. i - N \in 1..M /\ u[i] = t[i - N]
        BY <1>1, <3>2
      <4>2. QED
        BY <1>2, <2>1, <4>1
    <3>3. QED
      BY <3>1, <3>2
  <2>2. QED
    BY <2>1
<1>4. \A i \in 1..N : i \in 1..(N + M) /\ u[i] = s[i]
  BY <1>1
<1>5. \A m \in (a + 1)..z : \E i \in 1..(N + M) : Num(u[i], x) = m
  BY <1>2, <1>4 DEF Run, N
<1>6. QED
  <2>1. Run(u, x, a, z)
    BY <1>1, <1>2, <1>3, <1>5 DEF Run, N
  <2>2. QED
    BY <2>1 DEF u

(* How many of a run there are. *)
LEMMA RunCount ==
  ASSUME NEW X, NEW s \in Seq(X), NEW x, NEW z, Run(s, x, 0, z)
  PROVE  Cardinality({i \in 1..Len(s) : Num(s[i], x) # 0}) = z
<1> DEFINE I == {i \in 1..Len(s) : Num(s[i], x) # 0}
           f == [m \in 1..z |-> CHOOSE i \in I : Num(s[i], x) = m]
<1>1. /\ z \in Nat
      /\ \A i \in I : Num(s[i], x) \in 1..z
      /\ \A m \in 1..z : \E i \in I : Num(s[i], x) = m
      /\ \A i, j \in I : i < j => Num(s[i], x) < Num(s[j], x)
      /\ I \subseteq Nat
  BY LenProperties DEF Run
<1>2. \A m \in 1..z : f[m] \in I /\ Num(s[f[m]], x) = m
  BY <1>1
<1>3. \A i, j \in I : Num(s[i], x) = Num(s[j], x) => i = j
  <2> HIDE DEF I
  <2>1. \A i, j \in I : Num(s[i], x) \in Nat /\ (i = j \/ i < j \/ j < i)
    BY <1>1
  <2>2. QED
    BY <1>1, <2>1
<1>4. f \in Bijection(1..z, I)
  <2>1. f \in [1..z -> I]
    BY <1>2
  <2>2. \A m, n \in 1..z : f[m] = f[n] => m = n
    BY <1>2
  <2> HIDE DEF f
  <2>3. \A i \in I : \E m \in 1..z : f[m] = i
    BY <1>1, <1>2, <1>3
  <2> HIDE DEF I
  <2>4. QED
    BY <2>1, <2>2, <2>3 DEF Bijection, Injection, Surjection, IsInjective
<1>5. ExistsBijection(1..z, I)
  BY <1>4 DEF ExistsBijection
<1>6. QED
  BY <1>1, <1>5, FS_CountingElements
-----------------------------------------------------------------------------
(* What follows on from s may be put behind it. *)
LEMMA ConsecutiveAppend ==
  ASSUME NEW X, NEW s \in Seq(X), NEW e \in X, Consecutive(s),
         s # <<>> /\ s[Len(s)].from = e.from => e.n = s[Len(s)].n + 1
  PROVE  Consecutive(Append(s, e))
<1> DEFINE t == Append(s, e)
           N == Len(s)
<1>1. /\ Len(t) = N + 1 /\ N \in Nat /\ t[N + 1] = e
      /\ \A i \in 1..N : t[i] = s[i]
      /\ N # 0 => s # <<>>
  BY AppendProperties, LenProperties
<1>2. \A i \in 1..(N - 1) : s[i].from = s[i + 1].from => s[i + 1].n = s[i].n + 1
  BY DEF Consecutive
<1>3. N # 0 /\ s[N].from = e.from => e.n = s[N].n + 1
  BY <1>1
<1> HIDE DEF t, N
<1>4. ASSUME NEW i \in 1..N, t[i].from = t[i + 1].from PROVE t[i + 1].n = t[i].n + 1
  <2>1. CASE i = N
    BY <1>1, <1>3, <1>4, <2>1
  <2>2. CASE i # N
    <3>1. i \in 1..(N - 1) /\ i + 1 \in 1..N /\ t[i] = s[i] /\ t[i + 1] = s[i + 1]
      BY <1>1, <2>2
    <3>2. QED
      BY <1>2, <1>4, <3>1
  <2>3. QED
    BY <2>1, <2>2
<1>5. \A i \in 1..((N + 1) - 1) : i \in 1..N
  BY <1>1
<1>6. QED
  <2>1. Consecutive(t)
    BY <1>1, <1>4, <1>5 DEF Consecutive
  <2>2. QED
    BY <2>1 DEF t

(* Two lists behind each other: the first of them, an element that moves   *)
(* from the second to the first, and one that is put behind both.          *)
LEMMA BehindEachOther ==
  ASSUME NEW X, NEW s \in Seq(X), NEW t \in Seq(X)
  PROVE  /\ Consecutive(s \o t) => Consecutive(s)
         /\ t # <<>> => Append(s, Head(t)) \o Tail(t) = s \o t
         /\ \A e \in X : s \o Append(t, e) = Append(s \o t, e)
<1>1. ASSUME Consecutive(s \o t) PROVE Consecutive(s)
  <2> DEFINE N == Len(s)
             M == Len(t)
             u == s \o t
  <2>1. /\ N \in Nat /\ M \in Nat /\ Len(u) = N + M
        /\ \A i \in 1..(N + M) : u[i] = IF i <= N THEN s[i] ELSE t[i - N]
    BY ConcatProperties, LenProperties
  <2>2. \A i \in 1..(Len(u) - 1) : u[i].from = u[i + 1].from => u[i + 1].n = u[i].n + 1
    BY <1>1 DEF Consecutive
  <2> HIDE DEF u, N, M
  <2>3. \A i \in 1..(N - 1) : /\ i \in 1..(N + M - 1)
                              /\ u[i] = s[i] /\ u[i + 1] = s[i + 1]
    BY <2>1
  <2>4. QED
    BY <2>1, <2>2, <2>3 DEF Consecutive, N
<1>2. ASSUME t # <<>> PROVE Append(s, Head(t)) \o Tail(t) = s \o t
  <2>1. Head(t) \in X /\ Tail(t) \in Seq(X)
    BY <1>2, HeadTailProperties
  <2>2. t = <<Head(t)>> \o Tail(t)
    <3>1. Len(t) \in Nat /\ Len(t) # 0 /\ Head(t) = t[1]
      BY <1>2, EmptySeq, LenProperties
    <3>2. 1 \in 1..Len(t) /\ Len(t) \in 1..Len(t)
      BY <3>1
    <3>3. SubSeq(t, 1, Len(t)) = <<t[1]>> \o SubSeq(t, 1 + 1, Len(t))
      BY <3>2, SubSeqRecursiveFirst
    <3>4. SubSeq(t, 1, Len(t)) = t /\ Tail(t) = SubSeq(t, 2, Len(t)) /\ 1 + 1 = 2
      BY <1>2, SubSeqFull, TailIsSubSeq
    <3>5. QED
      BY <3>1, <3>3, <3>4
  <2>3. Append(s, Head(t)) = s \o <<Head(t)>>
    BY <2>1, AppendIsConcat
  <2>4. <<Head(t)>> \in Seq(X)
    BY <2>1
  <2>5. (s \o <<Head(t)>>) \o Tail(t) = s \o (<<Head(t)>> \o Tail(t))
    BY <2>1, <2>4, ConcatAssociative
  <2>6. QED
    BY <2>2, <2>3, <2>5
<1>3. ASSUME NEW e \in X PROVE s \o Append(t, e) = Append(s \o t, e)
  <2>1. <<e>> \in Seq(X) /\ s \o t \in Seq(X)
    BY ConcatProperties
  <2>2. Append(t, e) = t \o <<e>> /\ Append(s \o t, e) = (s \o t) \o <<e>>
    BY <2>1, AppendIsConcat
  <2>3. (s \o t) \o <<e>> = s \o (t \o <<e>>)
    BY <2>1, ConcatAssociative
  <2>4. QED
    BY <2>2, <2>3
<1>4. QED
  BY <1>1, <1>2, <1>3

(* A list of the elements of a set is one of those of a larger set. *)
LEMMA SeqOfMore ==
  ASSUME NEW X, NEW Y, X \subseteq Y, NEW s \in Seq(X) PROVE s \in Seq(Y)
<1>1. \A i \in 1..Len(s) : s[i] \in Y
  BY ElementOfSeq
<1>2. Len(s) \in Nat /\ s = [i \in 1..Len(s) |-> s[i]]
  BY LenProperties
<1>3. QED
  BY <1>1, <1>2, IsASeq

(* Two lists behind each other have the elements of both. *)
LEMMA FirstPart ==
  ASSUME NEW X, NEW Y, NEW g \in Seq(X), NEW e \in Seq(X), g \o e \in Seq(Y)
  PROVE  g \in Seq(Y) /\ \A i \in 1..Len(e) : e[i] \in Y
<1>1. /\ Len(g \o e) = Len(g) + Len(e) /\ Len(g) \in Nat /\ Len(e) \in Nat
      /\ \A i \in 1..(Len(g) + Len(e)) : (g \o e)[i] = IF i <= Len(g) THEN g[i] ELSE e[i - Len(g)]
  BY ConcatProperties, LenProperties
<1>2. \A i \in 1..Len(g) : i \in 1..Len(g \o e) /\ (g \o e)[i] = g[i]
  BY <1>1
<1>3. \A i \in 1..Len(g) : g[i] \in Y
  BY <1>2, ElementOfSeq
<1>4. g = [i \in 1..Len(g) |-> g[i]]
  BY LenProperties
<1>5. ASSUME NEW i \in 1..Len(e) PROVE e[i] \in Y
  <2>1. Len(g) + i \in 1..Len(g \o e) /\ (g \o e)[Len(g) + i] = e[i]
    <3>1. /\ Len(g) + i \in 1..(Len(g) + Len(e)) /\ ~(Len(g) + i <= Len(g))
          /\ (Len(g) + i) - Len(g) = i
      BY <1>1
    <3>2. QED
      BY <1>1, <3>1
  <2>2. QED
    BY <2>1, ElementOfSeq
<1>6. QED
  BY <1>1, <1>3, <1>4, <1>5, IsASeq
-----------------------------------------------------------------------------
(* A client that is used keeps its descriptor and where it leads to, and   *)
(* stays closed.                                                           *)
Steady == \A c \in Local : Used(c) => /\ Used(c)' /\ tfd'[c] = tfd[c] /\ Where(c)' = Where(c)
                                      /\ tst[c] = "freed" => tst'[c] = "freed"

(* Whatever a step does, a client that is used stays the client it is.     *)
LEMMA ClientsSteady == ASSUME Ends, Effect PROVE Steady
<1>1. CASE DeviceSame
  BY <1>1 DEF DeviceSame, Steady, Used
<1>2. CASE \E cs \in SUBSET Local : Leave(cs)
  BY <1>2 DEF Leave, Steady, Used
<1>3. ASSUME NEW c \in Local, NEW f \in Fd, Accepted(c, f) PROVE Steady
  BY <1>3, LocalTypes DEF Accepted, Steady, Used
<1>4. ASSUME NEW c \in Local, Took(c) \/ Delivered(c) PROVE Steady
  BY <1>4 DEF Took, Delivered, Steady, Used
<1>5. ASSUME NEW c \in Local, Asked(c) \/ LeftAlone(c) PROVE DeviceSame \/ Leave({c})
  BY <1>5 DEF Asked, LeftAlone
<1>6. HeardOffline \/ DeviceLost => Leave(OpenLocal)
  BY DEF HeardOffline, DeviceLost
<1>7. OpenLocal \in SUBSET Local /\ \A c \in Local : {c} \in SUBSET Local
  BY DEF OpenLocal
<1>8. Paired \/ (\E k \in Conn : \/ Responded(k) \/ Wrote(k) \/ ClosedAlone(k)
                                 \/ Queued(k) \/ Connected(k))
        \/ Stopped \/ RemoteLost \/ Refused \/ Dropped => DeviceSame
  BY DEF Paired, Responded, Wrote, ClosedAlone, Queued, Connected, Stopped, RemoteLost, Refused, Dropped
<1>9. QED
  BY <1>1, <1>2, <1>3, <1>4, <1>5, <1>6, <1>7, <1>8 DEF Effect

(* How the queue to the other process may change. *)
LEMMA QueueSteps ==
  ASSUME Effect
  PROVE  \/ tup' = tup
         \/ \E c \in Local : Asked(c)
         \/ \E m \in Stop : tup' = Append(tup, m)
         \/ \E ms \in Seq(Stop) : tup' = tup \o ms
         \/ \E n \in 0..Len(tup) : tup' = Taken(tup, n) \/ tup' = Left(tup, n)
         \/ tup # <<>> /\ tup' = Tail(tup)
  BY DEF Effect, Paired, Accepted, Took, LeftAlone, Delivered, Responded, Wrote, ClosedAlone,
         Queued, Connected, HeardOffline, DeviceLost, Stopped, RemoteLost, Refused, Dropped, Requested

(* What the backend of k was or will be given. *)
All(k) == got[k] \o erb[k]

(* A connection that is not open has nothing to give. *)
Drained == \A k \in Conn : /\ est[k] = "unused" => got[k] = <<>>
                           /\ est[k] # "open" => erb[k] = <<>>

(* A request is put behind what the connection was or will be given. *)
LEMMA PutBehind ==
  ASSUME Ends, Drained, NEW k \in Conn, Queued(k) \/ Connected(k)
  PROVE  /\ est'[k] = "open" /\ got'[k] = got[k]
         /\ erb'[k] = Append(erb[k], Head(tup).body)
         /\ All(k)' = Append(All(k), Head(tup).body)
<1>0. est \in [Conn -> E!State] /\ erb \in [Conn -> Seq(Body)] /\ got \in [Conn -> Seq(Body)]
  BY ConnTypes
<1>1. Head(tup).body \in Body
  BY DEF Queued, Connected, Requested, Request, Body
<1>2. est'[k] = "open" /\ got' = got
  BY <1>0 DEF Queued, Connected
<1>3. erb'[k] = Append(erb[k], Head(tup).body)
  <2>1. CASE Queued(k)
    BY <1>0, <2>1 DEF Queued
  <2>2. CASE Connected(k)
    <3>1. erb[k] = <<>> /\ erb'[k] = <<Head(tup).body>>
      BY <1>0, <2>2 DEF Connected, Drained
    <3>2. Append(<<>>, Head(tup).body) = <<Head(tup).body>>
      OBVIOUS
    <3>3. QED
      BY <3>1, <3>2
  <2>3. QED
    BY <2>1, <2>2
<1>4. got[k] \o Append(erb[k], Head(tup).body) = Append(got[k] \o erb[k], Head(tup).body)
  <2>1. got[k] \in Seq(Body) /\ erb[k] \in Seq(Body)
    BY <1>0
  <2>2. QED
    BY <1>1, <2>1, BehindEachOther
<1>5. QED
  BY <1>2, <1>3, <1>4 DEF All

(* How a connection to the backend may change, and what it is to be given. *)
LEMMA ConnSteps ==
  ASSUME Ends, Drained, Effect, NEW k \in Conn
  PROVE  \/ est'[k] = est[k] /\ owner'[k] = owner[k] /\ All(k)' = All(k) /\ got'[k] = got[k]
              /\ erb'[k] = erb[k]
         \/ /\ Wrote(k) /\ owner'[k] = owner[k] /\ All(k)' = All(k)
            /\ got'[k] = Append(got[k], Head(erb[k])) /\ erb'[k] = Tail(erb[k]) /\ erb[k] # <<>>
         \/ /\ est[k] = "open" /\ est'[k] = "freed" /\ owner'[k] = owner[k]
            /\ All(k)' = got[k] /\ got'[k] = got[k] /\ erb'[k] = <<>>
         \/ /\ Queued(k) \/ Connected(k)
            /\ est'[k] = "open" /\ got'[k] = got[k]
            /\ erb'[k] = Append(erb[k], Head(tup).body)
            /\ All(k)' = Append(All(k), Head(tup).body)
<1>0. /\ est \in [Conn -> E!State] /\ erb \in [Conn -> Seq(Body)] /\ got \in [Conn -> Seq(Body)]
      /\ owner \in [Conn -> Local \cup {NULL}]
  BY ConnTypes DEF Ends
<1>1. CASE UNCHANGED <<est, erb, got, owner>>
  BY <1>1 DEF All
<1>2. ASSUME NEW ks \in SUBSET Conn, Close(ks)
      PROVE  \/ est'[k] = est[k] /\ owner'[k] = owner[k] /\ All(k)' = All(k) /\ got'[k] = got[k]
                  /\ erb'[k] = erb[k]
             \/ /\ est[k] = "open" /\ est'[k] = "freed" /\ owner'[k] = owner[k]
                /\ All(k)' = got[k] /\ got'[k] = got[k] /\ erb'[k] = <<>>
  <2>1. CASE k \in ks
    <3>1. got[k] \o <<>> = got[k]
      BY <1>0, ConcatEmptySeq
    <3>2. QED
      BY <1>2, <2>1, <3>1 DEF Close, All
  <2>2. CASE k \notin ks
    BY <1>2, <2>2 DEF Close, All
  <2>3. QED
    BY <2>1, <2>2
<1>3. ASSUME NEW l \in Conn, Wrote(l), l # k
      PROVE  est'[k] = est[k] /\ owner'[k] = owner[k] /\ All(k)' = All(k) /\ got'[k] = got[k]
               /\ erb'[k] = erb[k]
  BY <1>0, <1>3 DEF Wrote, All
<1>4. ASSUME Wrote(k)
      PROVE  /\ owner'[k] = owner[k] /\ All(k)' = All(k)
             /\ got'[k] = Append(got[k], Head(erb[k])) /\ erb'[k] = Tail(erb[k]) /\ erb[k] # <<>>
  <2>1. /\ got'[k] = Append(got[k], Head(erb[k])) /\ erb'[k] = Tail(erb[k])
        /\ erb[k] # <<>> /\ owner' = owner
    BY <1>0, <1>4 DEF Wrote
  <2>2. got[k] \in Seq(Body) /\ erb[k] \in Seq(Body)
    BY <1>0
  <2>3. Append(got[k], Head(erb[k])) \o Tail(erb[k]) = got[k] \o erb[k]
    BY <2>1, <2>2, BehindEachOther
  <2>4. QED
    BY <2>1, <2>3 DEF All
<1>5. ASSUME NEW l \in Conn, Queued(l) \/ Connected(l), l # k
      PROVE  est'[k] = est[k] /\ owner'[k] = owner[k] /\ All(k)' = All(k) /\ got'[k] = got[k]
               /\ erb'[k] = erb[k]
  BY <1>0, <1>5 DEF Queued, Connected, All
<1>6. ASSUME Queued(k) \/ Connected(k)
      PROVE  /\ est'[k] = "open" /\ got'[k] = got[k]
             /\ erb'[k] = Append(erb[k], Head(tup).body)
             /\ All(k)' = Append(All(k), Head(tup).body)
  BY <1>6, PutBehind
<1>7. (\E l \in Conn : ClosedAlone(l)) \/ Stopped \/ RemoteLost => \E ks \in SUBSET Conn : Close(ks)
  BY DEF ClosedAlone, Stopped, RemoteLost, OpenConn
<1>8. \/ UNCHANGED <<est, erb, got, owner>>
      \/ \E ks \in SUBSET Conn : Close(ks)
      \/ \E l \in Conn : Wrote(l) \/ Queued(l) \/ Connected(l)
  BY <1>7 DEF Effect, Paired, Accepted, Asked, Took, LeftAlone, Delivered, Responded,
              HeardOffline, DeviceLost, Refused, Dropped, RemoteSame
<1>9. QED
  BY <1>1, <1>2, <1>3, <1>4, <1>5, <1>6, <1>8

(* Where the endpoints of the list come from. *)
NewEntry(k) == [key |-> <<Device, Head(tup).fd>>, remote_fd |-> Head(tup).fd,
                backend_port |-> Head(tup).port, pid |-> Device, client |-> k]

(* An endpoint of the list was there before the step, or is the new one.   *)
LEMMA EntrySteps ==
  ASSUME Effect, NEW j \in DOMAIN endpoints'
  PROVE  \/ \E i \in DOMAIN endpoints : endpoints'[j] = endpoints[i]
         \/ \E k \in Conn : Connected(k) /\ endpoints'[j] = NewEntry(k)
<1>1. CASE endpoints' = endpoints
  BY <1>1
<1>2. CASE \E ks \in SUBSET Conn : Close(ks)
  BY <1>2 DEF Close
<1>3. CASE \E k \in Conn : Connected(k)
  <2>1. PICK k \in Conn : Connected(k)
    BY <1>3
  <2>2. endpoints'[j] = NewEntry(k) \/ \E i \in DOMAIN endpoints : endpoints'[j] = endpoints[i]
    BY <2>1 DEF Connected, NewEntry
  <2>3. QED
    BY <2>1, <2>2
<1>4. (\E l \in Conn : ClosedAlone(l)) \/ Stopped \/ RemoteLost => \E ks \in SUBSET Conn : Close(ks)
  BY DEF ClosedAlone, Stopped, RemoteLost, OpenConn
<1>5. \/ endpoints' = endpoints
      \/ \E ks \in SUBSET Conn : Close(ks)
      \/ \E k \in Conn : Connected(k)
  BY <1>4 DEF Effect, Paired, Accepted, Asked, Took, LeftAlone, Delivered, Responded, Wrote, Queued,
              HeardOffline, DeviceLost, Refused, Dropped, RemoteSame
<1>6. QED
  BY <1>1, <1>2, <1>3, <1>5
-----------------------------------------------------------------------------
(* A request names its sender's descriptor and port. *)
Genuine == {m \in Request : /\ Used(m.body.from)
                            /\ m.fd = tfd[m.body.from] /\ m.port = Where(m.body.from)}

(* What may have reached the endpoint of k: it came from a client whose    *)
(* port is allowed, and under whose descriptor k is found.                 *)
Arrived(k) ==
  {b \in Body : /\ b.from \in Local /\ Used(b.from) /\ Where(b.from) \in Allowed
                /\ est[k] = "open" =>
                     \A j \in DOMAIN endpoints :
                       endpoints[j].client = k => endpoints[j].remote_fd = tfd[b.from]}

Faithful ==
  /\ \A c \in Local : ~Used(c) => sent[c] = 0
  /\ tup \in Seq(Genuine \cup Stop \cup Offline)
  /\ \A j \in DOMAIN endpoints : endpoints[j].key = <<Device, endpoints[j].remote_fd>>
  /\ \A k \in Conn : All(k) \in Seq(Arrived(k))
  /\ Drained

(* The queue to the other process holds what it may. *)
LEMMA GenuineStep ==
  ASSUME Ends, Faithful, Effect PROVE tup' \in Seq(Genuine' \cup Stop \cup Offline)
<1> DEFINE X == Genuine' \cup Stop \cup Offline
<1>1. Genuine \subseteq Genuine'
  <2>1. ASSUME NEW m \in Genuine PROVE m \in Genuine'
    <3>1. m \in Request /\ m.body.from \in Local /\ Used(m.body.from)
      BY DEF Genuine, Request
    <3>2. QED
      BY <3>1, ClientsSteady DEF Genuine, Steady
  <2>2. QED
    BY <2>1
<1>2. tup \in Seq(X)
  <2>1. tup \in Seq(Genuine \cup Stop \cup Offline)
    BY DEF Faithful
  <2>2. Genuine \cup Stop \cup Offline \subseteq X
    BY <1>1
  <2> HIDE DEF X
  <2>3. QED
    BY <2>1, <2>2, SeqOfMore
<1>3. Stop \subseteq X /\ [type |-> "offline"] \in X /\ Genuine' \subseteq X
  BY DEF Offline
<1>4. ASSUME NEW c \in Local, Asked(c) PROVE tup' \in Seq(X)
  <2> DEFINE m == [type |-> "tunnel_request", to |-> Remote, port |-> Where(c),
                   fd |-> tfd[c], body |-> NextBody(c)]
  <2>1. Used(c) /\ tfd[c] \in Fd /\ Where(c) \in Port /\ sent[c] + 1 \in 1..MaxMsgs
    BY <1>4, LocalTypes DEF Asked, OpenLocal
  <2>2. m \in Request /\ m.body.from = c
    BY <2>1 DEF Request, NextBody
  <2>3. m.fd = tfd[c] /\ m.port = Where(c)
    OBVIOUS
  <2>4. tup' = Append(tup, m)
    BY <1>4 DEF Asked
  <2> HIDE DEF m
  <2>5. m \in Genuine
    BY <2>1, <2>2, <2>3 DEF Genuine
  <2>6. m \in X
    BY <1>1, <1>3, <2>5
  <2> HIDE DEF X
  <2>7. QED
    BY <1>2, <2>4, <2>6, AppendProperties
<1> HIDE DEF X
<1>5. ASSUME NEW m \in Stop, tup' = Append(tup, m) PROVE tup' \in Seq(X)
  BY <1>2, <1>3, <1>5, AppendProperties
<1>6. ASSUME NEW ms \in Seq(Stop), tup' = tup \o ms PROVE tup' \in Seq(X)
  <2>1. ms \in Seq(X)
    BY <1>3, SeqOfMore
  <2>2. QED
    BY <1>2, <1>6, <2>1, ConcatProperties
<1>7. ASSUME NEW n \in 0..Len(tup), tup' = Taken(tup, n) \/ tup' = Left(tup, n) PROVE tup' \in Seq(X)
  BY <1>2, <1>3, <1>7, KeptByRelay
<1>8. ASSUME tup # <<>>, tup' = Tail(tup) PROVE tup' \in Seq(X)
  BY <1>2, <1>8, HeadTailProperties
<1>9. tup' \in Seq(X)
  BY <1>2, <1>4, <1>5, <1>6, <1>7, <1>8, QueueSteps
<1>10. QED
  BY <1>9 DEF X

(* What is popped from the queue is what may be in it. *)
LEMMA PoppedGenuine ==
  ASSUME Faithful, Requested PROVE Head(tup) \in Genuine /\ Head(tup).body.from \in Local
<1>1. Head(tup) \in Genuine \cup Stop \cup Offline
  BY HeadTailProperties DEF Faithful, Requested
<1>2. Head(tup) \in Request
  BY DEF Requested
<1>3. QED
  BY <1>1, <1>2 DEF Genuine, Request, Stop, Offline

(* The backends are given what they may be. *)
LEMMA ArrivedStep ==
  ASSUME Ends, Faithful, Effect, NEW k \in Conn
  PROVE  All(k)' \in Seq(Arrived(k)')
<1>0. Drained /\ All(k) \in Seq(Arrived(k))
  BY DEF Faithful
<1>1. ASSUME est[k] = "open" \/ est'[k] # "open" PROVE Arrived(k) \subseteq Arrived(k)'
  <2>1. SUFFICES ASSUME NEW b \in Arrived(k) PROVE b \in Arrived(k)'
    OBVIOUS
  <2>2. /\ b \in Body /\ b.from \in Local /\ Used(b.from) /\ Where(b.from) \in Allowed
        /\ est[k] = "open" => \A j \in DOMAIN endpoints :
               endpoints[j].client = k => endpoints[j].remote_fd = tfd[b.from]
    BY DEF Arrived
  <2>3. Used(b.from)' /\ tfd'[b.from] = tfd[b.from] /\ Where(b.from)' = Where(b.from)
    BY <2>2, ClientsSteady DEF Steady
  <2>4. ASSUME est'[k] = "open", NEW j \in DOMAIN endpoints', endpoints'[j].client = k
        PROVE  endpoints'[j].remote_fd = tfd'[b.from]
    <3>1. \A l \in Conn : Connected(l) => l # k
      BY <1>1, <2>4 DEF Connected
    <3>2. \E i \in DOMAIN endpoints : endpoints'[j] = endpoints[i]
      BY <2>4, <3>1, EntrySteps DEF NewEntry
    <3>3. QED
      BY <1>1, <2>2, <2>3, <2>4, <3>2
  <2>5. QED
    BY <2>2, <2>3, <2>4 DEF Arrived
<1>2. CASE All(k)' = All(k)
  <2>1. CASE est[k] = "open" \/ est'[k] # "open"
    BY <1>0, <1>1, <1>2, <2>1, SeqOfMore
  <2>2. CASE est[k] # "open" /\ est'[k] = "open"
    <3>1. est[k] = "unused"
      <4>1. Queued(k) \/ Connected(k)
        BY <1>0, <2>2, ConnSteps DEF Wrote
      <4>2. QED
        BY <2>2, <4>1 DEF Queued, Connected
    <3>2. All(k) = <<>>
      <4>1. got[k] = <<>> /\ erb[k] = <<>>
        BY <1>0, <3>1 DEF Drained
      <4>2. <<>> \o <<>> = <<>>
        OBVIOUS
      <4>3. QED
        BY <4>1, <4>2 DEF All
    <3>3. QED
      BY <1>2, <3>2, EmptySeq
  <2>3. QED
    BY <2>1, <2>2
<1>3. CASE est'[k] = "freed" /\ All(k)' = got[k]
  <2>1. got[k] \in Seq(Arrived(k))
    BY <1>0, ConnTypes, FirstPart DEF All
  <2>2. Arrived(k) \subseteq Arrived(k)'
    BY <1>1, <1>3
  <2>3. QED
    BY <1>3, <2>1, <2>2, SeqOfMore
<1>4. CASE (Queued(k) \/ Connected(k)) /\ All(k)' = Append(All(k), Head(tup).body)
  <2>0. PICK b : b = Head(tup).body
    OBVIOUS
  <2>1. Head(tup) \in Genuine /\ b.from \in Local /\ Head(tup).port \in Allowed
    BY <1>4, <2>0, PoppedGenuine DEF Queued, Connected
  <2>2. /\ b \in Body /\ Used(b.from) /\ Head(tup).fd = tfd[b.from]
        /\ Where(b.from) \in Allowed
    BY <2>0, <2>1 DEF Genuine, Request, Body
  <2>3. Used(b.from)' /\ tfd'[b.from] = tfd[b.from] /\ Where(b.from)' = Where(b.from)
    BY <2>1, <2>2, ClientsSteady DEF Steady
  <2>4. ASSUME NEW j \in DOMAIN endpoints', endpoints'[j].client = k
        PROVE  endpoints'[j].remote_fd = tfd[b.from]
    <3>1. CASE Queued(k)
      <4>1. endpoints' = endpoints
        BY <3>1 DEF Queued
      <4>2. PICK i \in DOMAIN endpoints :
                   endpoints[i].client = k /\ endpoints[i].key = <<Device, Head(tup).fd>>
        BY <3>1 DEF Queued
      <4>3. i = j
        BY <2>4, <4>1, <4>2 DEF Ends, E!OpenIsLinked
      <4>4. endpoints[i].key = <<Device, endpoints[i].remote_fd>>
        BY DEF Faithful
      <4>5. endpoints[i].remote_fd = Head(tup).fd
        BY <4>2, <4>4
      <4>6. QED
        BY <2>2, <4>1, <4>3, <4>5
    <3>2. CASE Connected(k)
      <4>1. ASSUME NEW i \in DOMAIN endpoints PROVE endpoints[i].client # k
        BY <3>2, LinkedIsOpen DEF Connected, OpenConn
      <4>2. endpoints'[j] = NewEntry(k) \/ \E i \in DOMAIN endpoints : endpoints'[j] = endpoints[i]
        BY <3>2 DEF Connected, NewEntry
      <4>3. endpoints'[j] = NewEntry(k)
        BY <2>4, <4>1, <4>2
      <4>4. QED
        BY <2>2, <4>3 DEF NewEntry
    <3>3. QED
      BY <1>4, <3>1, <3>2
  <2>5. b \in Arrived(k)'
    BY <2>1, <2>2, <2>3, <2>4 DEF Arrived
  <2>6. All(k) \in Seq(Arrived(k)')
    <3>1. CASE est[k] = "open"
      BY <1>0, <1>1, <3>1, SeqOfMore
    <3>2. CASE est[k] # "open"
      <4>1. est[k] = "unused"
        BY <1>4, <3>2 DEF Queued, Connected
      <4>2. got[k] = <<>> /\ erb[k] = <<>>
        BY <1>0, <4>1 DEF Drained
      <4>3. <<>> \o <<>> = <<>>
        OBVIOUS
      <4>4. All(k) = <<>>
        BY <4>2, <4>3 DEF All
      <4>5. QED
        BY <4>4, EmptySeq
    <3>3. QED
      BY <3>1, <3>2
  <2>7. Append(All(k), b) \in Seq(Arrived(k)')
    BY <2>5, <2>6, AppendProperties
  <2>8. QED
    BY <1>4, <2>0, <2>7
<1>5. QED
  BY <1>0, <1>2, <1>3, <1>4, ConnSteps

(* Who has sent how much. *)
LEMMA SentSteps ==
  ASSUME Ends, Effect
  PROVE  \/ sent' = sent
         \/ \E c \in Local : Asked(c) /\ sent' = [sent EXCEPT ![c] = @ + 1]
         \/ \E k \in Conn : Responded(k) /\ sent' = [sent EXCEPT ![k] = @ + 1]
  BY DEF Effect, Paired, Accepted, Asked, Took, LeftAlone, Delivered, Responded, Wrote, ClosedAlone,
         Queued, Connected, HeardOffline, DeviceLost, Stopped, RemoteLost, Refused, Dropped

(* Requests stay genuine, and reach the endpoint of their sender. *)
LEMMA FaithfulStep == ASSUME Ends, Faithful, Effect PROVE Faithful'
<1>1. ASSUME NEW c \in Local, ~Used(c)' PROVE sent'[c] = 0
  <2>1. ~Used(c) /\ sent[c] = 0
    BY <1>1, ClientsSteady DEF Steady, Faithful
  <2>2. \A d \in Local : Asked(d) => d # c
    BY <2>1 DEF Asked, Used
  <2>3. \A k \in Conn : k # c
    BY DataPathAssumption
  <2>4. sent \in [Local \cup Conn -> Nat]
    BY DEF Ends
  <2>5. QED
    BY <2>1, <2>2, <2>3, <2>4, SentSteps
<1>2. ASSUME NEW j \in DOMAIN endpoints'
      PROVE  endpoints'[j].key = <<Device, endpoints'[j].remote_fd>>
  <2>1. CASE \E i \in DOMAIN endpoints : endpoints'[j] = endpoints[i]
    BY <2>1 DEF Faithful
  <2>2. CASE \E k \in Conn : endpoints'[j] = NewEntry(k)
    BY <2>2 DEF NewEntry
  <2>3. QED
    BY <2>1, <2>2, EntrySteps
<1>3. ASSUME NEW k \in Conn
      PROVE  /\ est'[k] = "unused" => got'[k] = <<>>
             /\ est'[k] # "open" => erb'[k] = <<>>
  <2>1. Drained
    BY DEF Faithful
  <2>2. CASE Wrote(k)
    <3>1. est'[k] = "open"
      BY <2>2 DEF Wrote
    <3>2. QED
      BY <3>1
  <2>3. QED
    BY <2>1, <2>2, ConnSteps DEF Drained
<1>4. QED
  BY <1>1, <1>2, <1>3, GenuineStep, ArrivedStep DEF Faithful, Drained

(* At first there are none. *)
LEMMA FaithfulInit == ASSUME Init PROVE Faithful
<1>1. /\ tup = <<>> /\ sent = [c \in Local \cup Conn |-> 0]
      /\ endpoints = <<>>
      /\ erb = [k \in Conn |-> <<>>] /\ got = [k \in Conn |-> <<>>]
  BY DEF Init, T!Init, E!Init
<1>2. \A k \in Conn : All(k) = <<>>
  <2>1. <<>> \o <<>> = <<>>
    OBVIOUS
  <2>2. QED
    BY <1>1, <2>1 DEF All
<1>3. \A X : <<>> \in Seq(X)
  BY EmptySeq
<1>4. QED
  <2>1. \A c \in Local : sent[c] = 0
    BY <1>1
  <2>2. \A k \in Conn : All(k) \in Seq(Arrived(k))
    BY <1>2, <1>3
  <2>3. tup \in Seq(Genuine \cup Stop \cup Offline)
    BY <1>1, <1>3
  <2>4. Drained
    BY <1>1 DEF Drained
  <2>5. DOMAIN endpoints = {}
    BY <1>1
  <2>6. QED
    BY <2>1, <2>2, <2>3, <2>4, <2>5 DEF Faithful
-----------------------------------------------------------------------------
(* The youngest of what k was or will be given. *)
Youngest(k) == All(k)[Len(All(k))]

(* The connections that are open for c go on where the queue goes on. *)
Follows(c, a) == \A k \in Conn : est[k] = "open" /\ All(k) # <<>> /\ Youngest(k).from = c
                                   => Youngest(k).n = a

InOrder == \A c \in Local : \E a, z \in Nat :
             /\ Run(tup, c, a, z) /\ z <= sent[c]
             /\ tst[c] # "freed" => z = sent[c]
             /\ Follows(c, a)

Order == InOrder /\ \A k \in Conn : Consecutive(All(k))

(* What an open connection is given came under the descriptor of a client  *)
(* whose port is allowed, and there is one connection for a descriptor.    *)
LEMMA OneForEach ==
  ASSUME Ends, Faithful, NEW c \in Local, NEW k \in OpenConn, All(k) # <<>>, Youngest(k).from = c
  PROVE  /\ Where(c) \in Allowed
         /\ \E i \in DOMAIN endpoints : /\ endpoints[i].client = k
                                        /\ endpoints[i].key = <<Device, tfd[c]>>
<1>1. k \in Conn /\ est[k] = "open"
  BY DEF OpenConn
<1>2. Youngest(k) \in Arrived(k)
  <2>1. All(k) \in Seq(Arrived(k))
    BY <1>1 DEF Faithful
  <2>2. Len(All(k)) \in 1..Len(All(k))
    <3>1. Len(All(k)) \in Nat /\ Len(All(k)) # 0
      BY <2>1, EmptySeq, LenProperties
    <3>2. QED
      BY <3>1
  <2>3. QED
    BY <2>1, <2>2, ElementOfSeq DEF Youngest
<1>3. Where(c) \in Allowed
  BY <1>2 DEF Arrived
<1>4. PICK i \in DOMAIN endpoints : endpoints[i].client = k
  BY <1>1 DEF Ends, E!OpenIsLinked
<1>5. endpoints[i].remote_fd = tfd[c]
  BY <1>1, <1>2, <1>4 DEF Arrived
<1>6. QED
  BY <1>3, <1>4, <1>5 DEF Faithful

(* Nothing that an open connection is given changes unless a request is    *)
(* put there.                                                              *)
LEMMA FollowsKept ==
  ASSUME Ends, Faithful, Effect, NEW c, NEW a, Follows(c, a)
  PROVE  \A k \in Conn : /\ est'[k] = "open" /\ All(k)' # <<>> /\ Youngest(k)'.from = c
                         /\ ~(Queued(k) \/ Connected(k))
                         => Youngest(k)'.n = a
<1>1. SUFFICES ASSUME NEW k \in Conn, est'[k] = "open", All(k)' # <<>>, Youngest(k)'.from = c,
                      ~(Queued(k) \/ Connected(k))
               PROVE  Youngest(k)'.n = a
  OBVIOUS
<1>2. Drained
  BY DEF Faithful
<1>3. est[k] = "open" /\ All(k)' = All(k)
  BY <1>1, <1>2, ConnSteps DEF Wrote
<1>4. Youngest(k)' = Youngest(k)
  BY <1>3 DEF Youngest
<1>5. QED
  BY <1>1, <1>3, <1>4 DEF Follows

(* A request is put behind what its sender sent before it, and is the next *)
(* one.                                                                    *)
LEMMA PutInOrder ==
  ASSUME Ends, Faithful, Order, Effect, NEW k \in Conn, Queued(k) \/ Connected(k)
  PROVE  /\ Consecutive(All(k)')
         /\ \A c \in Local : \E a, z \in Nat :
              /\ Run(tup', c, a, z) /\ z <= sent[c] /\ Follows(c, a)'
              /\ tst[c] # "freed" => z = sent[c]
<1>1. PICK b : b = Head(tup).body
  OBVIOUS
<1>2. PICK d : d = b.from
  OBVIOUS
<1>3. /\ Head(tup) \in Genuine /\ d \in Local /\ b \in Body /\ Used(d) /\ Head(tup).fd = tfd[d]
      /\ Head(tup) \in Request
  BY <1>1, <1>2, PoppedGenuine DEF Queued, Connected, Genuine, Request, Body
<1>4. tup # <<>> /\ tup' = Tail(tup) /\ tup \in Seq(Request \cup Stop \cup Offline)
  BY DEF Queued, Connected, Requested, Ends
<1>5. All(k)' = Append(All(k), b) /\ est'[k] = "open" /\ Drained
  BY <1>1, PutBehind DEF Faithful
<1>6. All(k) \in Seq(Body) /\ All(k)' \in Seq(Body)
  <2>1. Faithful'
    BY FaithfulStep
  <2>2. Arrived(k) \subseteq Body /\ Arrived(k)' \subseteq Body
    BY DEF Arrived
  <2>3. QED
    BY <2>1, <2>2, SeqOfMore DEF Faithful
<1>7. All(k)' # <<>> /\ Youngest(k)' = b
  <2>1. Len(Append(All(k), b)) = Len(All(k)) + 1 /\ Append(All(k), b)[Len(All(k)) + 1] = b
    BY <1>3, <1>6, AppendProperties
  <2>2. Len(All(k)) \in Nat
    BY <1>6, LenProperties
  <2>3. Append(All(k), b) # <<>>
    BY <1>3, <1>6, <2>1, <2>2, EmptySeq
  <2>4. QED
    BY <1>5, <2>1, <2>3 DEF Youngest
<1>8. ASSUME NEW c \in Local, NEW a \in Nat, NEW z \in Nat, Run(tup, c, a, z), Follows(c, a)
      PROVE  /\ c # d => Run(tup', c, a, z) /\ Follows(c, a)'
             /\ c = d => /\ b.n = a + 1 /\ Run(tup', c, a + 1, z) /\ Follows(c, a + 1)'
                         /\ All(k) # <<>> /\ Youngest(k).from = c => b.n = Youngest(k).n + 1
  <2>1. Num(Head(tup), c) = IF d = c THEN b.n ELSE 0
    BY <1>1, <1>2, <1>3, NumOf
  <2>2. b.n # 0
    BY <1>3, DataPathAssumption DEF Body
  <2>3. /\ c # d => Run(tup', c, a, z)
        /\ c = d => b.n = a + 1 /\ Run(tup', c, a + 1, z)
    BY <1>4, <1>8, <2>1, <2>2, RunTail
  <2>4. ASSUME NEW l \in Conn, est'[l] = "open", All(l)' # <<>>, Youngest(l)'.from = c, l # k
        PROVE  Youngest(l)'.n = a /\ c # d
    <3>1. ~(Queued(l) \/ Connected(l))
      <4>1. erb'[k] = Append(erb[k], b) /\ erb[k] \in Seq(Body)
        BY <1>1, <1>5, PutBehind, ConnTypes
      <4>2. erb'[k] # erb[k]
        BY <1>3, <4>1, AppendProperties, LenProperties
      <4>3. Queued(l) \/ Connected(l) => erb'[k] = erb[k]
        BY <2>4, ConnTypes DEF Queued, Connected
      <4>4. QED
        BY <4>2, <4>3
    <3>2. Youngest(l)'.n = a
      BY <1>8, <2>4, <3>1, FollowsKept
    <3>3. est[l] = "open" /\ All(l)' = All(l) /\ Youngest(l)' = Youngest(l)
      BY <1>5, <2>4, <3>1, ConnSteps DEF Wrote, Youngest
    <3>4. PICK i \in DOMAIN endpoints : endpoints[i].client = l /\ endpoints[i].key = <<Device, tfd[c]>>
      BY <2>4, <3>3, OneForEach DEF OpenConn
    <3>5. c # d
      <4>1. CASE Connected(k)
        BY <1>3, <3>4, <4>1 DEF Connected
      <4>2. CASE Queued(k)
        <5>1. PICK j \in DOMAIN endpoints : endpoints[j].client = k /\ endpoints[j].key = <<Device, tfd[d]>>
          BY <1>3, <4>2 DEF Queued
        <5>2. E!KeysUnique
          BY DEF Ends
        <5>3. QED
          BY <2>4, <3>4, <5>1, <5>2 DEF E!KeysUnique
      <4>3. QED
        BY <4>1, <4>2
    <3>6. QED
      BY <3>2, <3>5
  <2>5. c # d => Follows(c, a)'
    BY <1>2, <1>7, <2>4 DEF Follows
  <2>6. c = d => Follows(c, a + 1)'
    BY <1>7, <2>3, <2>4 DEF Follows
  <2>7. ASSUME All(k) # <<>>, Youngest(k).from = c PROVE Youngest(k).n = a
    <3>1. est[k] = "open"
      <4>1. CASE Connected(k)
        <5>1. got[k] = <<>> /\ erb[k] = <<>>
          BY <1>5, <4>1 DEF Connected, Drained
        <5>2. <<>> \o <<>> = <<>>
          OBVIOUS
        <5>3. QED
          BY <2>7, <5>1, <5>2 DEF All
      <4>2. QED
        BY <4>1 DEF Queued
    <3>2. QED
      BY <1>8, <2>7, <3>1 DEF Follows
  <2>8. QED
    BY <2>3, <2>5, <2>6, <2>7
<1>9. ASSUME NEW c \in Local
      PROVE  \E a, z \in Nat : /\ Run(tup', c, a, z) /\ z <= sent[c]
                               /\ tst[c] # "freed" => z = sent[c]
                               /\ Follows(c, a)'
  <2>1. PICK a, z \in Nat : /\ Run(tup, c, a, z) /\ z <= sent[c]
                            /\ tst[c] # "freed" => z = sent[c]
                            /\ Follows(c, a)
    BY DEF Order, InOrder
  <2>2. a + 1 \in Nat
    OBVIOUS
  <2>3. QED
    BY <1>8, <2>1, <2>2
<1>10. Consecutive(All(k)')
  <2>1. PICK a, z \in Nat : Run(tup, d, a, z) /\ Follows(d, a)
    BY <1>3 DEF Order, InOrder
  <2>2. All(k) # <<>> /\ Youngest(k).from = b.from => b.n = Youngest(k).n + 1
    BY <1>2, <1>3, <1>8, <2>1
  <2>3. Consecutive(All(k))
    BY DEF Order
  <2>4. QED
    BY <1>3, <1>5, <1>6, <2>2, <2>3, ConsecutiveAppend DEF Youngest
<1>11. QED
  BY <1>9, <1>10

(* What c still has under way when the step puts no request anywhere. *)
LEMMA QueueInOrder ==
  ASSUME Ends, Faithful, Order, Effect, ~\E k \in Conn : Queued(k) \/ Connected(k), NEW c \in Local
  PROVE  \E a, z \in Nat : /\ Run(tup', c, a, z) /\ z <= sent'[c]
                           /\ tst'[c] # "freed" => z = sent'[c]
                           /\ Follows(c, a)'
<1>1. PICK a, z \in Nat : /\ Run(tup, c, a, z) /\ z <= sent[c]
                          /\ tst[c] # "freed" => z = sent[c]
                          /\ Follows(c, a)
  BY DEF Order, InOrder
<1>2. tup \in Seq(Request \cup Stop \cup Offline) /\ sent[c] \in Nat /\ sent \in [Local \cup Conn -> Nat]
  BY DEF Ends
<1>3. tst'[c] # "freed" => tst[c] # "freed"
  BY ClientsSteady DEF Steady, Used
<1>4. Follows(c, a)'
  <2>1. \A k \in Conn : /\ est'[k] = "open" /\ All(k)' # <<>> /\ Youngest(k)'.from = c
                         /\ ~(Queued(k) \/ Connected(k))
                         => Youngest(k)'.n = a
    BY <1>1, FollowsKept
  <2>2. \A k \in Conn : ~(Queued(k) \/ Connected(k))
    OBVIOUS
  <2>3. QED
    BY <2>1, <2>2 DEF Follows
<1>5. (\A d \in Local : Asked(d) => d # c) => sent'[c] = sent[c]
  <2>1. \A k \in Conn : k # c
    BY DataPathAssumption
  <2>2. QED
    BY <1>2, <2>1, SentSteps
<1>6. ASSUME sent'[c] = sent[c], Run(tup', c, a, z)
      PROVE  \E a1, z1 \in Nat : /\ Run(tup', c, a1, z1) /\ z1 <= sent'[c]
                                 /\ tst'[c] # "freed" => z1 = sent'[c]
                                 /\ Follows(c, a1)'
  BY <1>1, <1>3, <1>4, <1>6
<1>7. \A m \in Stop \cup Offline : Num(m, c) = 0
  BY NumOf
<1>8. CASE \E d \in Local : Asked(d)
  <2>1. PICK d \in Local : Asked(d)
    BY <1>8
  <2>2. PICK m : m = [type |-> "tunnel_request", to |-> Remote, port |-> Where(d),
                      fd |-> tfd[d], body |-> NextBody(d)]
    OBVIOUS
  <2>3. /\ tup' = Append(tup, m) /\ tst[d] = "open" /\ sent' = [sent EXCEPT ![d] = @ + 1]
        /\ sent[d] + 1 \in 1..MaxMsgs
    BY <2>1, <2>2 DEF Asked
  <2>4. m \in Request /\ m.body.from = d /\ m.body.n = sent[d] + 1
    <3>1. tfd[d] \in Fd /\ Where(d) \in Port
      BY <2>3, LocalTypes DEF OpenLocal
    <3>2. QED
      BY <2>2, <2>3, <3>1 DEF Request, NextBody
  <2>5. Num(m, c) = IF d = c THEN sent[d] + 1 ELSE 0
    BY <2>4, NumOf
  <2>6. CASE d = c
    <3>1. z = sent[c] /\ Run(tup', c, a, z + 1)
      BY <1>1, <1>2, <2>3, <2>4, <2>5, <2>6, RunAppend
    <3>2. sent'[c] = z + 1 /\ z + 1 \in Nat
      BY <1>2, <2>3, <2>6, <3>1
    <3>3. QED
      BY <1>4, <3>1, <3>2
  <2>7. CASE d # c
    <3>1. Run(tup', c, a, z)
      BY <1>1, <1>2, <2>3, <2>4, <2>5, <2>7, RunAppend
    <3>2. sent'[c] = sent[c]
      BY <1>2, <2>3, <2>7
    <3>3. QED
      BY <1>6, <3>1, <3>2
  <2>8. QED
    BY <2>6, <2>7
<1>9. CASE tup' = tup /\ ~\E d \in Local : Asked(d)
  BY <1>1, <1>5, <1>6, <1>9
<1>10. CASE \E m \in Stop : tup' = Append(tup, m) /\ ~\E d \in Local : Asked(d)
  <2>1. PICK m \in Stop : tup' = Append(tup, m)
    BY <1>10
  <2>2. Run(tup', c, a, z)
    BY <1>1, <1>2, <1>7, <2>1, RunAppend
  <2>3. QED
    BY <1>5, <1>6, <1>10, <2>2
<1>11. CASE \E ms \in Seq(Stop) : tup' = tup \o ms /\ ~\E d \in Local : Asked(d)
  <2>1. PICK ms \in Seq(Stop) : tup' = tup \o ms
    BY <1>11
  <2>2. ms \in Seq(Request \cup Stop \cup Offline)
    BY SeqOfMore
  <2>3. \A i \in 1..Len(ms) : Num(ms[i], c) = 0
    BY <1>7, ElementOfSeq
  <2>4. Run(tup', c, a, z)
    BY <1>1, <1>2, <2>1, <2>2, <2>3, RunConcat
  <2>5. QED
    BY <1>5, <1>6, <1>11, <2>4
<1>12. CASE DeviceLost
  <2>1. PICK n \in 0..Len(tup) : tup' = Taken(tup, n)
    BY <1>12 DEF DeviceLost
  <2>2. PICK b \in a..z : Run(SubSeq(tup, 1, n), c, a, b)
    BY <1>1, <1>2, RunSplit
  <2>3. SubSeq(tup, 1, n) \in Seq(Request \cup Stop \cup Offline) /\ [type |-> "offline"] \in Offline
    <3>1. /\ Len(tup) \in Nat /\ n \in Nat /\ n <= Len(tup)
          /\ \A i \in 1..Len(tup) : tup[i] \in Request \cup Stop \cup Offline
      BY <1>2, LenProperties, ElementOfSeq
    <3>2. \A i \in 1..n : tup[i] \in Request \cup Stop \cup Offline
      BY <3>1
    <3>3. QED
      BY <3>1, <3>2, SubSeqProperties DEF Offline
  <2>4. Run(tup', c, a, b)
    BY <1>7, <2>1, <2>2, <2>3, RunAppend DEF Taken
  <2>5. b \in Nat /\ b <= sent[c] /\ sent' = sent
    BY <1>1, <1>2, <1>12 DEF DeviceLost
  <2>6. ASSUME tst'[c] # "freed" PROVE b = sent[c]
    <3>1. tst[c] # "open" /\ tst[c] # "freed"
      BY <1>3, <1>12, <2>6 DEF DeviceLost, Leave, OpenLocal
    <3>2. sent[c] = 0
      BY <3>1, LocalTypes DEF Faithful, Used
    <3>3. QED
      BY <1>2, <2>5, <3>2
  <2>7. QED
    BY <1>4, <2>4, <2>5, <2>6
<1>13. CASE RemoteLost
  <2>1. PICK n \in 0..Len(tup) : tup' = Left(tup, n)
    BY <1>13 DEF RemoteLost
  <2>2. PICK b \in a..z : Run(SubSeq(tup, n + 1, Len(tup)), c, b, z)
    BY <1>1, <1>2, RunSplit
  <2>3. Run(tup', c, b, z) /\ b \in Nat
    BY <2>1, <2>2 DEF Left
  <2>4. \A k \in Conn : est'[k] # "open"
    BY <1>13 DEF RemoteLost, Close, OpenConn
  <2>5. Follows(c, b)'
    BY <2>4 DEF Follows
  <2>6. sent' = sent
    BY <1>13 DEF RemoteLost
  <2>7. QED
    BY <1>1, <1>3, <2>3, <2>5, <2>6
<1>14. CASE Stopped
  <2>1. Num(Head(tup), c) = 0 /\ tup # <<>> /\ tup' = Tail(tup) /\ sent' = sent
    BY <1>7, <1>14 DEF Stopped
  <2>2. QED
    BY <1>1, <1>2, <1>6, <2>1, RunTail
<1>15. CASE Refused
  <2>1. PICK b : b = Head(tup).body
    OBVIOUS
  <2>2. /\ Head(tup) \in Genuine /\ Head(tup) \in Request /\ b \in Body
        /\ tup # <<>> /\ tup' = Tail(tup) /\ sent' = sent
    BY <1>15, <2>1, PoppedGenuine DEF Refused, Requested, Genuine, Request, Body
  <2>3. Num(Head(tup), c) = IF b.from = c THEN b.n ELSE 0
    BY <2>1, <2>2, NumOf
  <2>4. CASE Num(Head(tup), c) = 0
    BY <1>1, <1>2, <1>6, <2>2, <2>4, RunTail
  <2>5. CASE Num(Head(tup), c) # 0
    <3>1. b.from = c /\ a + 1 <= z /\ Run(tup', c, a + 1, z) /\ a + 1 \in Nat
      BY <1>1, <1>2, <2>2, <2>3, <2>5, RunTail
    <3>2. Where(c) \notin Allowed
      BY <1>15, <2>1, <2>2, <3>1 DEF Refused, Genuine
    <3>3. est' = est /\ \A k \in Conn : All(k)' = All(k) /\ Youngest(k)' = Youngest(k)
      BY <1>15 DEF Refused, RemoteSame, All, Youngest
    <3>4. Follows(c, a + 1)'
      BY <3>2, <3>3, OneForEach DEF Follows, OpenConn
    <3>5. QED
      BY <1>1, <1>3, <2>2, <3>1, <3>4
  <2>6. QED
    BY <2>4, <2>5
<1>16. ASSUME ~\E d \in Local : Asked(d)
       PROVE  \/ tup' = tup
              \/ \E m \in Stop : tup' = Append(tup, m)
              \/ \E ms \in Seq(Stop) : tup' = tup \o ms
              \/ DeviceLost \/ RemoteLost \/ Stopped \/ Refused
  BY <1>16 DEF Effect, Paired, Accepted, Took, LeftAlone, Delivered, Responded, Wrote, ClosedAlone,
               HeardOffline, Dropped
<1>17. QED
  BY <1>8, <1>9, <1>10, <1>11, <1>12, <1>13, <1>14, <1>15, <1>16

(* What each client has sent stays in order, through the queue and at the  *)
(* connections that it is put to.                                          *)
LEMMA OrderStep == ASSUME Ends, Faithful, Order, Effect PROVE Order'
<1>1. ASSUME NEW c \in Local
      PROVE  \E a, z \in Nat : /\ Run(tup', c, a, z) /\ z <= sent'[c]
                               /\ tst'[c] # "freed" => z = sent'[c]
                               /\ Follows(c, a)'
  <2>1. CASE \E k \in Conn : Queued(k) \/ Connected(k)
    <3>1. sent' = sent /\ tst' = tst
      BY <2>1 DEF Queued, Connected, DeviceSame
    <3>2. PICK a, z \in Nat : /\ Run(tup', c, a, z) /\ z <= sent[c] /\ Follows(c, a)'
                              /\ tst[c] # "freed" => z = sent[c]
      BY <2>1, PutInOrder
    <3>3. QED
      BY <3>1, <3>2
  <2>2. CASE ~\E k \in Conn : Queued(k) \/ Connected(k)
    BY <2>2, QueueInOrder
  <2>3. QED
    BY <2>1, <2>2
<1>2. InOrder'
  BY <1>1 DEF InOrder
<1>3. ASSUME NEW k \in Conn PROVE Consecutive(All(k)')
  <2>1. Drained /\ Consecutive(All(k))
    BY DEF Faithful, Order
  <2>2. CASE All(k)' = All(k)
    BY <2>1, <2>2
  <2>3. CASE All(k)' = got[k]
    <3>1. got[k] \in Seq(Body) /\ erb[k] \in Seq(Body)
      BY ConnTypes
    <3>2. QED
      BY <2>1, <2>3, <3>1, BehindEachOther DEF All
  <2>4. CASE Queued(k) \/ Connected(k)
    BY <2>4, PutInOrder
  <2>5. QED
    BY <2>1, <2>2, <2>3, <2>4, ConnSteps
<1>4. \A k \in Conn : Consecutive(All(k))'
  BY <1>3 DEF Consecutive
<1>5. QED
  BY <1>2, <1>4 DEF Order

(* Nothing is under way at the start.                                      *)
LEMMA OrderInit == ASSUME Init PROVE Order
<1>1. /\ tup = <<>> /\ sent = [c \in Local \cup Conn |-> 0]
      /\ erb = [k \in Conn |-> <<>>] /\ got = [k \in Conn |-> <<>>]
  BY DEF Init, T!Init, E!Init
<1>2. \A k \in Conn : All(k) = <<>>
  <2>1. <<>> \o <<>> = <<>>
    OBVIOUS
  <2>2. QED
    BY <1>1, <2>1 DEF All
<1>3. \A c \in Local : Run(tup, c, 0, 0) /\ sent[c] = 0 /\ Follows(c, 0)
  <2>1. Len(tup) = 0 /\ tup \in Seq({})
    BY <1>1, EmptySeq
  <2>2. ASSUME NEW c PROVE Run(tup, c, 0, 0)
    <3>1. 0 \in Nat /\ \A i \in 1..Len(tup) : Num(tup[i], c) = 0
      BY <2>1
    <3>2. QED
      BY <2>1, <3>1, RunOfNone
  <2>3. QED
    BY <1>1, <1>2, <2>2 DEF Follows
<1>4. Consecutive(<<>>)
  <2>1. 1..(Len(<<>>) - 1) = {}
    OBVIOUS
  <2>2. QED
    BY <2>1 DEF Consecutive
<1>5. InOrder
  BY <1>3 DEF InOrder
<1>6. QED
  BY <1>2, <1>4, <1>5 DEF Order
-----------------------------------------------------------------------------
(* Where every message and every body belongs, when no descriptor is used  *)
(* again: a descriptor is then a name of the client.                       *)
From(c)   == {b \in Body : b.from = c}
Given(c)  == {b \in Body : b.from \in Conn /\ est[b.from] # "unused" /\ owner[b.from] = c}
Solicited == {m \in Response : LET k == m.body.from
                               IN /\ est[k] # "unused" /\ owner[k] \in Local
                                  /\ m.fd = tfd[owner[k]] /\ m.port = Where(owner[k])}

FdIsName == \A c, d \in Local : Used(c) /\ Used(d) /\ tfd[c] = tfd[d] => c = d

(* A connection to the backend belongs to the client that it was opened for. *)
Owned == \A k \in Conn : est[k] # "unused" =>
           /\ owner[k] \in Local /\ Used(owner[k])
           /\ All(k) \in Seq(From(owner[k]))
           /\ \A j \in DOMAIN endpoints : endpoints[j].client = k =>
                /\ endpoints[j].remote_fd = tfd[owner[k]]
                /\ endpoints[j].backend_port = Where(owner[k])

Returned == /\ eup \in Seq(Solicited \cup Denied \cup Offline)
            /\ \A c \in Local : trb[c] \in Seq(Given(c)) /\ taken[c] \in Seq(Given(c))

Routing == FdIsName /\ Owned /\ Returned

(* A client gets its descriptor when it is accepted. *)
LEMMA FdIsNameStep ==
  ASSUME ~Reuse, Ends, Effect, FdIsName PROVE FdIsName'
<1>1. CASE \E c \in Local, f \in Fd : Accepted(c, f)
  <2>1. PICK c \in Local, f \in Fd : Accepted(c, f)
    BY <1>1
  <2>2. /\ \A d \in Local : tfd[d] # f
        /\ \A d \in Local : tst'[d] = IF d = c THEN "open" ELSE tst[d]
        /\ \A d \in Local : tfd'[d] = IF d = c THEN f ELSE tfd[d]
    BY <2>1, LocalTypes DEF Accepted
  <2>3. QED
    BY <2>2 DEF FdIsName, Used
<1>2. CASE ~\E c \in Local, f \in Fd : Accepted(c, f)
  <2>1. \A c \in Local : Used(c)' => Used(c)
    BY <1>2 DEF Effect, Paired, DeviceSame, Asked, Took, LeftAlone, Leave, Delivered, Responded,
                Wrote, ClosedAlone, Queued, Connected, HeardOffline, DeviceLost, Stopped, RemoteLost,
                Refused, Dropped, Used
  <2>2. QED
    BY <2>1, ClientsSteady DEF FdIsName, Steady
<1>3. QED
  BY <1>1, <1>2

(* The owner of a connection that was opened stays. *)
LEMMA OwnerStays ==
  ASSUME Ends, Drained, Effect, NEW k \in Conn, est[k] # "unused"
  PROVE  est'[k] # "unused" /\ owner'[k] = owner[k]
<1>1. CASE Connected(k)
  BY <1>1 DEF Connected
<1>2. CASE Queued(k)
  BY <1>2 DEF Queued
<1>3. CASE Wrote(k)
  BY <1>3 DEF Wrote
<1>4. QED
  BY <1>1, <1>2, <1>3, ConnSteps

(* A connection keeps its owner, and what it has is from that client.      *)
LEMMA OwnedStep ==
  ASSUME Ends, Faithful, Effect, FdIsName, Owned PROVE Owned'
<1>0. Drained /\ owner \in [Conn -> Local \cup {NULL}]
  BY DEF Faithful, Ends
<1>1. SUFFICES ASSUME NEW k \in Conn, est'[k] # "unused"
               PROVE  \E c \in Local :
                        /\ owner'[k] = c /\ Used(c)' /\ All(k)' \in Seq(From(c))
                        /\ \A j \in DOMAIN endpoints' : endpoints'[j].client = k =>
                             /\ endpoints'[j].remote_fd = tfd'[c]
                             /\ endpoints'[j].backend_port = Where(c)'
  <2>1. ASSUME NEW k \in Conn, est'[k] # "unused"
        PROVE  /\ owner'[k] \in Local /\ Used(owner[k])'
               /\ All(k)' \in Seq(From(owner'[k]))
               /\ \A j \in DOMAIN endpoints' : endpoints'[j].client = k =>
                    /\ endpoints'[j].remote_fd = tfd'[owner'[k]]
                    /\ endpoints'[j].backend_port = Where(owner[k])'
    <3>1. PICK c \in Local :
            /\ owner'[k] = c /\ Used(c)' /\ All(k)' \in Seq(From(c))
            /\ \A j \in DOMAIN endpoints' : endpoints'[j].client = k =>
                 /\ endpoints'[j].remote_fd = tfd'[c]
                 /\ endpoints'[j].backend_port = Where(c)'
      BY <1>1, <2>1
    <3>2. QED
      BY <3>1 DEF Used, Where
  <2>2. QED
    BY <2>1 DEF Owned, From
<1>2. CASE est[k] # "unused"
  <2>1. PICK c \in Local : c = owner[k]
    BY <1>2 DEF Owned
  <2>2. owner'[k] = c /\ Used(c)' /\ tfd'[c] = tfd[c] /\ Where(c)' = Where(c) /\ Used(c)
    BY <1>0, <1>2, <2>1, OwnerStays, ClientsSteady DEF Steady, Owned
  <2>3. All(k) \in Seq(From(c))
    BY <1>2, <2>1 DEF Owned
  <2>4. All(k)' \in Seq(From(c))
    <3>1. CASE All(k)' = All(k)
      BY <2>3, <3>1
    <3>2. CASE All(k)' = got[k]
      BY <2>3, <3>2, FirstPart, ConnTypes DEF All
    <3>3. CASE Queued(k) \/ Connected(k)
      <4>1. Queued(k)
        BY <1>2, <3>3 DEF Connected
      <4>2. PICK b : b = Head(tup).body
        OBVIOUS
      <4>3. b \in Body /\ b.from \in Local /\ Used(b.from) /\ Head(tup).fd = tfd[b.from]
        BY <4>1, <4>2, PoppedGenuine DEF Queued, Genuine, Request, Body
      <4>4. PICK i \in DOMAIN endpoints : endpoints[i].client = k /\ endpoints[i].key = <<Device, Head(tup).fd>>
        BY <4>1 DEF Queued
      <4>5. endpoints[i].key = <<Device, endpoints[i].remote_fd>> /\ endpoints[i].remote_fd = tfd[c]
        BY <1>2, <2>1, <4>4 DEF Faithful, Owned
      <4>6. tfd[b.from] = tfd[c]
        BY <4>3, <4>4, <4>5
      <4>7. b.from = c
        BY <2>2, <4>3, <4>6 DEF FdIsName
      <4>8. b \in From(c)
        BY <4>3, <4>7 DEF From
      <4>9. All(k)' = Append(All(k), b)
        BY <1>0, <3>3, <4>2, PutBehind
      <4>10. QED
        BY <2>3, <4>8, <4>9, AppendProperties
    <3>4. QED
      BY <1>0, <3>1, <3>2, <3>3, ConnSteps
  <2>5. ASSUME NEW j \in DOMAIN endpoints', endpoints'[j].client = k
        PROVE  endpoints'[j].remote_fd = tfd'[c] /\ endpoints'[j].backend_port = Where(c)'
    <3>1. \E i \in DOMAIN endpoints : endpoints'[j] = endpoints[i]
      <4>1. ASSUME NEW l \in Conn, Connected(l), endpoints'[j] = NewEntry(l) PROVE FALSE
        <5>1. l = k
          BY <2>5, <4>1 DEF NewEntry
        <5>2. QED
          BY <1>2, <4>1, <5>1 DEF Connected
      <4>2. QED
        BY <4>1, EntrySteps
    <3>2. QED
      BY <1>2, <2>1, <2>2, <2>5, <3>1 DEF Owned
  <2>6. QED
    BY <2>2, <2>4, <2>5
<1>3. CASE est[k] = "unused"
  <2>1. Connected(k)
    <3>1. Queued(k) \/ Connected(k)
      BY <1>0, <1>1, <1>3, ConnSteps DEF Wrote
    <3>2. QED
      BY <1>3, <3>1 DEF Queued
  <2>2. PICK b : b = Head(tup).body
    OBVIOUS
  <2>3. PICK c : c = b.from
    OBVIOUS
  <2>4. /\ b \in Body /\ c \in Local /\ Used(c) /\ Head(tup).fd = tfd[c]
        /\ Head(tup).port = Where(c)
    BY <2>1, <2>2, <2>3, PoppedGenuine DEF Connected, Genuine, Request, Body
  <2>5. owner'[k] = c /\ Used(c)' /\ tfd'[c] = tfd[c] /\ Where(c)' = Where(c)
    <3>1. owner'[k] = c
      BY <1>0, <2>1, <2>2, <2>3 DEF Connected
    <3>2. QED
      BY <2>4, <3>1, ClientsSteady DEF Steady
  <2>6. All(k)' \in Seq(From(c))
    <3>1. got[k] = <<>> /\ erb[k] = <<>>
      BY <1>0, <1>3 DEF Drained
    <3>2. <<>> \o <<>> = <<>>
      OBVIOUS
    <3>3. All(k) \in Seq(From(c))
      BY <3>1, <3>2, EmptySeq DEF All
    <3>4. b \in From(c) /\ All(k)' = Append(All(k), b)
      BY <1>0, <2>1, <2>2, <2>3, <2>4, PutBehind DEF From
    <3>5. QED
      BY <3>3, <3>4, AppendProperties
  <2>7. ASSUME NEW j \in DOMAIN endpoints', endpoints'[j].client = k
        PROVE  endpoints'[j].remote_fd = tfd'[c] /\ endpoints'[j].backend_port = Where(c)'
    <3>1. ASSUME NEW i \in DOMAIN endpoints PROVE endpoints[i].client # k
      BY <1>3, LinkedIsOpen DEF OpenConn
    <3>2. endpoints'[j] = NewEntry(k)
      BY <2>1, <2>7, <3>1, EntrySteps DEF NewEntry
    <3>3. QED
      BY <2>4, <2>5, <3>2 DEF NewEntry
  <2>8. QED
    BY <2>4, <2>5, <2>6, <2>7
<1>4. QED
  BY <1>2, <1>3

(* How the queue to the device may change. *)
LEMMA AnswerSteps ==
  ASSUME Effect
  PROVE  \/ eup' = eup
         \/ \E k \in Conn : Responded(k)
         \/ \E m \in Denied : eup' = Append(eup, m)
         \/ \E n \in 0..Len(eup) : eup' = Taken(eup, n) \/ eup' = Left(eup, n)
         \/ eup # <<>> /\ eup' = Tail(eup)
  BY DEF Effect, Paired, Accepted, Asked, Took, LeftAlone, Delivered, Wrote, ClosedAlone,
         Queued, Connected, HeardOffline, DeviceLost, Stopped, RemoteLost, Refused, Dropped

(* What c is to be given, and was. *)
LEMMA ClientSteps ==
  ASSUME Ends, Effect, NEW c \in Local
  PROVE  \/ trb'[c] = trb[c] /\ taken'[c] = taken[c]
         \/ trb'[c] = <<>> /\ taken'[c] = taken[c] /\ tst'[c] = "freed"
         \/ /\ Took(c) /\ trb[c] # <<>> /\ trb'[c] = Tail(trb[c])
            /\ taken'[c] = Append(taken[c], Head(trb[c]))
         \/ Delivered(c) /\ trb'[c] = Append(trb[c], Head(eup).body) /\ taken'[c] = taken[c]
<1>1. trb \in [Local -> Seq(Body)] /\ taken \in [Local -> Seq(Body)]
  BY LocalTypes DEF Ends
<1>2. CASE \E cs \in SUBSET Local : Leave(cs)
  BY <1>2 DEF Leave
<1>3. CASE \E d \in Local : Took(d)
  BY <1>1, <1>3 DEF Took
<1>4. CASE \E d \in Local : Delivered(d)
  BY <1>1, <1>4 DEF Delivered
<1>5. (\E d \in Local : LeftAlone(d)) \/ HeardOffline \/ DeviceLost => \E cs \in SUBSET Local : Leave(cs)
  BY DEF LeftAlone, HeardOffline, DeviceLost, OpenLocal
<1>6. \/ UNCHANGED <<trb, taken>>
      \/ \E cs \in SUBSET Local : Leave(cs)
      \/ \E d \in Local : Took(d) \/ Delivered(d)
  BY <1>5 DEF Effect, Paired, DeviceSame, Accepted, Asked, Responded, Wrote, ClosedAlone,
              Queued, Connected, Stopped, RemoteLost, Refused, Dropped
<1>7. QED
  BY <1>2, <1>3, <1>4, <1>6

(* Responses lead back to the client that their connection belongs to. *)
LEMMA ReturnedStep ==
  ASSUME NoCollision, Ends, Faithful, Effect, Routing PROVE Returned'
<1>0. Drained /\ FdIsName /\ Owned /\ Returned
  BY DEF Faithful, Routing
<1>1. Solicited \subseteq Solicited'
  <2>1. ASSUME NEW m \in Solicited PROVE m \in Solicited'
    <3>1. PICK k : k = m.body.from
      OBVIOUS
    <3>2. /\ m \in Response /\ k \in Conn /\ est[k] # "unused" /\ owner[k] \in Local
          /\ m.fd = tfd[owner[k]] /\ m.port = Where(owner[k])
      BY <3>1 DEF Solicited, Response
    <3>3. PICK c \in Local : c = owner[k]
      BY <3>2
    <3>4. Used(c) /\ owner'[k] = c /\ est'[k] # "unused"
      BY <1>0, <3>2, <3>3, OwnerStays DEF Owned
    <3>5. tfd'[c] = tfd[c] /\ Where(c)' = Where(c)
      BY <3>4, ClientsSteady DEF Steady
    <3>6. m.fd = tfd'[owner'[k]] /\ m.port = info'[parent'[owner'[k]]].port_remote
      BY <3>2, <3>3, <3>4, <3>5 DEF Where
    <3>7. QED
      BY <3>1, <3>2, <3>3, <3>4, <3>6 DEF Solicited, Where
  <2>2. QED
    BY <2>1
<1>2. \A c : Given(c) \subseteq Given(c)'
  BY <1>0, OwnerStays DEF Given
<1>3. eup' \in Seq(Solicited' \cup Denied \cup Offline)
  <2> DEFINE X == Solicited' \cup Denied \cup Offline
  <2>1. eup \in Seq(X)
    <3>1. Solicited \cup Denied \cup Offline \subseteq X
      BY <1>1
    <3>2. eup \in Seq(Solicited \cup Denied \cup Offline)
      BY <1>0 DEF Returned
    <3> HIDE DEF X
    <3>3. QED
      BY <3>1, <3>2, SeqOfMore
  <2>2. Denied \subseteq X /\ [type |-> "offline"] \in X
    BY DEF Offline
  <2>3. ASSUME NEW k \in Conn, Responded(k) PROVE eup' \in Seq(X)
    <3>1. PICK i \in DOMAIN endpoints : endpoints[i].client = k /\
            eup' = Append(eup, [type |-> "tunnel_response", to |-> Device,
                                port |-> endpoints[i].backend_port,
                                fd |-> endpoints[i].remote_fd, body |-> NextBody(k)])
      BY <2>3 DEF Responded
    <3>2. PICK m : m = [type |-> "tunnel_response", to |-> Device,
                        port |-> endpoints[i].backend_port,
                        fd |-> endpoints[i].remote_fd, body |-> NextBody(k)]
      OBVIOUS
    <3>3. est[k] = "open" /\ sent[k] + 1 \in 1..MaxAnswers
      BY <2>3 DEF Responded
    <3>4. PICK c \in Local : c = owner[k]
      BY <1>0, <3>3 DEF Owned
    <3>5. /\ Used(c) /\ endpoints[i].remote_fd = tfd[c] /\ endpoints[i].backend_port = Where(c)
      BY <1>0, <3>1, <3>3, <3>4 DEF Owned
    <3>6. tfd[c] \in Fd /\ Where(c) \in Port
      BY <3>5, LocalTypes DEF Ends, Leads
    <3>7. m \in Response /\ m.body.from = k /\ m.fd = tfd[c] /\ m.port = Where(c)
      BY <3>2, <3>3, <3>5, <3>6 DEF Response, NextBody
    <3>8. m \in Solicited
      BY <3>3, <3>4, <3>7 DEF Solicited
    <3>9. m \in X /\ eup' = Append(eup, m)
      BY <1>1, <3>1, <3>2, <3>8
    <3> HIDE DEF X
    <3>10. QED
      BY <2>1, <3>9, AppendProperties
  <2> HIDE DEF X
  <2>4. ASSUME NEW m \in Denied, eup' = Append(eup, m) PROVE eup' \in Seq(X)
    BY <2>1, <2>2, <2>4, AppendProperties
  <2>5. ASSUME NEW n \in 0..Len(eup), eup' = Taken(eup, n) \/ eup' = Left(eup, n) PROVE eup' \in Seq(X)
    BY <2>1, <2>2, <2>5, KeptByRelay
  <2>6. ASSUME eup # <<>>, eup' = Tail(eup) PROVE eup' \in Seq(X)
    BY <2>1, <2>6, HeadTailProperties
  <2>7. eup' \in Seq(X)
    BY <2>1, <2>3, <2>4, <2>5, <2>6, AnswerSteps
  <2>8. QED
    BY <2>7 DEF X
<1>4. ASSUME NEW c \in Local PROVE trb'[c] \in Seq(Given(c)') /\ taken'[c] \in Seq(Given(c)')
  <2>1. trb[c] \in Seq(Given(c)') /\ taken[c] \in Seq(Given(c)')
    <3>1. trb[c] \in Seq(Given(c)) /\ taken[c] \in Seq(Given(c))
      BY <1>0 DEF Returned
    <3>2. QED
      BY <1>2, <3>1, SeqOfMore
  <2>2. CASE Delivered(c)
    <3>1. PICK m : m = Head(eup)
      OBVIOUS
    <3>2. m \in Solicited
      <4>1. eup \in Seq(Solicited \cup Denied \cup Offline) /\ eup # <<>> /\ m \in Response
        BY <1>0, <2>2, <3>1 DEF Returned, Delivered
      <4>2. m \in Solicited \cup Denied \cup Offline
        BY <3>1, <4>1, HeadTailProperties
      <4>3. QED
        BY <4>1, <4>2 DEF Response, Denied, Offline
    <3>3. PICK k : k = m.body.from
      OBVIOUS
    <3>4. /\ k \in Conn /\ est[k] # "unused" /\ owner[k] \in Local /\ m.fd = tfd[owner[k]]
          /\ m.body \in Body
      BY <3>2, <3>3 DEF Solicited, Response, Body
    <3>5. owner[k] = c
      <4>1. Used(owner[k])
        BY <1>0, <3>4 DEF Owned
      <4>2. Used(c) /\ tfd[c] = m.fd
        BY <2>2, <3>1 DEF Delivered, Used
      <4>3. QED
        BY <1>0, <3>4, <4>1, <4>2 DEF FdIsName
    <3>6. m.body \in Given(c)
      BY <3>3, <3>4, <3>5 DEF Given
    <3>7. m.body \in Given(c)'
      BY <1>2, <3>6
    <3>8. trb'[c] = Append(trb[c], m.body) /\ taken'[c] = taken[c]
      BY <2>2, <3>1, LocalTypes DEF Delivered
    <3>9. QED
      BY <2>1, <3>7, <3>8, AppendProperties
  <2>3. CASE trb[c] # <<>> /\ trb'[c] = Tail(trb[c]) /\ taken'[c] = Append(taken[c], Head(trb[c]))
    <3>1. Head(trb[c]) \in Given(c)' /\ Tail(trb[c]) \in Seq(Given(c)')
      BY <2>1, <2>3, HeadTailProperties
    <3>2. QED
      BY <2>1, <2>3, <3>1, AppendProperties
  <2>4. CASE taken'[c] = taken[c] /\ trb'[c] \in {trb[c], <<>>}
    BY <2>1, <2>4, EmptySeq
  <2>5. QED
    BY <2>2, <2>3, <2>4, ClientSteps
<1>5. QED
  BY <1>3, <1>4 DEF Returned

(* No connection and no client at the start.                               *)
LEMMA RoutingInit == ASSUME Init PROVE Routing
<1>1. /\ tst = [c \in Local |-> "unused"] /\ trb = [c \in Local |-> <<>>] /\ eup = <<>>
      /\ est = [k \in Conn |-> "unused"] /\ taken = [c \in Local |-> <<>>]
  BY DEF Init, T!Init, E!Init
<1>2. \A X : <<>> \in Seq(X)
  BY EmptySeq
<1>3. FdIsName
  BY <1>1 DEF FdIsName, Used
<1>4. Owned
  BY <1>1 DEF Owned
<1>5. Returned
  BY <1>1, <1>2 DEF Returned
<1>6. QED
  BY <1>3, <1>4, <1>5 DEF Routing
-----------------------------------------------------------------------------
(* When one local client is open at a time: the news that a client has     *)
(* ended is behind all its requests and in front of those of the next one. *)
OneOpen == \A c, d \in OpenLocal : c = d

OwnersUsed == \A k \in Conn : est[k] # "unused" => owner[k] \in Local /\ Used(owner[k])

News(i) == i \in 1..Len(tup) /\ tup[i] \in Stop \cup Offline

Between == \A i \in 1..Len(tup) : News(i) =>
             /\ \A k \in OpenConn : tst[owner[k]] = "freed"
             /\ \A j \in 1..Len(tup) :
                  tup[j] \in Request /\ tst[tup[j].body.from] = "open" => i < j

Alone == OneOpen /\ OwnersUsed /\ Between

(* There is no other client when one is accepted. *)
LEMMA NoneOpen ==
  ASSUME MaxOpen = 1, Cardinality(OpenLocal) < MaxOpen PROVE OpenLocal = {}
<1>1. IsFiniteSet(OpenLocal)
  BY DataPathAssumption, FS_Subset DEF OpenLocal
<1>2. Cardinality(OpenLocal) \in Nat /\ Cardinality(OpenLocal) < 1
  BY <1>1, FS_CardinalityType
<1>3. Cardinality(OpenLocal) = 0
  BY <1>2
<1>4. QED
  BY <1>1, <1>3, FS_EmptySet

LEMMA OneOpenStep ==
  ASSUME MaxOpen = 1, Ends, Effect, OneOpen PROVE OneOpen'
<1>1. CASE \E c \in Local, f \in Fd : Accepted(c, f)
  <2>1. PICK c \in Local, f \in Fd : Accepted(c, f)
    BY <1>1
  <2>2. OpenLocal = {}
    BY <2>1, NoneOpen DEF Accepted
  <2>3. \A d \in Local : tst'[d] = "open" => d = c
    BY <2>1, <2>2, LocalTypes DEF Accepted, OpenLocal
  <2>4. QED
    BY <2>3 DEF OneOpen, OpenLocal
<1>2. CASE ~\E c \in Local, f \in Fd : Accepted(c, f)
  <2>1. \A c \in Local : tst'[c] = "open" => tst[c] = "open"
    BY <1>2 DEF Effect, Paired, DeviceSame, Asked, Took, LeftAlone, Leave, Delivered, Responded,
                Wrote, ClosedAlone, Queued, Connected, HeardOffline, DeviceLost, Stopped, RemoteLost,
                Refused, Dropped
  <2>2. QED
    BY <2>1 DEF OneOpen, OpenLocal
<1>3. QED
  BY <1>1, <1>2

(* A connection is opened for a client that has sent something. *)
LEMMA OwnersUsedStep ==
  ASSUME Ends, Faithful, Effect, OwnersUsed PROVE OwnersUsed'
<1>0. Drained /\ owner \in [Conn -> Local \cup {NULL}]
  BY DEF Faithful, Ends
<1>1. ASSUME NEW k \in Conn, est'[k] # "unused" PROVE owner'[k] \in Local /\ tst'[owner'[k]] # "unused"
  <2>1. CASE est[k] # "unused"
    <3>1. owner'[k] = owner[k] /\ owner[k] \in Local /\ Used(owner[k])
      BY <1>0, <2>1, OwnerStays DEF OwnersUsed
    <3>2. QED
      BY <3>1, ClientsSteady DEF Steady, Used
  <2>2. CASE est[k] = "unused"
    <3>1. Connected(k)
      <4>1. Queued(k) \/ Connected(k)
        BY <1>0, <1>1, <2>2, ConnSteps DEF Wrote
      <4>2. QED
        BY <2>2, <4>1 DEF Queued
    <3>2. PICK c : c = Head(tup).body.from
      OBVIOUS
    <3>3. owner'[k] = c /\ c \in Local /\ Used(c)
      BY <1>0, <3>1, <3>2, PoppedGenuine DEF Connected, Genuine
    <3>4. QED
      BY <3>3, ClientsSteady DEF Steady, Used
  <2>3. QED
    BY <2>1, <2>2
<1>2. QED
  BY <1>1 DEF OwnersUsed, Used

(* A message of the queue. *)
LEMMA InQueue ==
  ASSUME Ends, Faithful, NEW i \in 1..Len(tup)
  PROVE  /\ tup[i] \in Request => tup[i].body.from \in Local /\ Used(tup[i].body.from)
         /\ tup[i] \in Stop \cup Offline => tup[i] \notin Request
<1>1. tup[i] \in Genuine \cup Stop \cup Offline
  BY ElementOfSeq DEF Faithful
<1>2. \A m \in Stop \cup Offline : m \notin Request
  BY DEF Stop, Offline, Request
<1>3. QED
  BY <1>1, <1>2 DEF Genuine, Request

(* Messages that were in the queue already stay in their order, and a      *)
(* connection that is opened for an open client is opened by a request in  *)
(* front of the news.                                                      *)
LEMMA OldNews ==
  ASSUME Ends, Faithful, Effect, OwnersUsed, Between, NEW n \in Nat,
         \A i \in 1..Len(tup') : n + i \in 1..Len(tup) /\ tup'[i] = tup[n + i],
         \A k \in Conn : Connected(k) => n = 1 /\ tup # <<>>
  PROVE  Between'
<1>0. Len(tup) \in Nat /\ Len(tup') \in Nat /\ Drained /\ owner \in [Conn -> Local \cup {NULL}]
  <2>1. Len(tup') \in Nat
    <3>1. tup' \in Seq(Genuine' \cup Stop \cup Offline)
      BY GenuineStep
    <3>2. QED
      BY <3>1, LenProperties
  <2>2. QED
    BY <2>1, LenProperties DEF Ends, Faithful
<1>1. SUFFICES ASSUME NEW i \in 1..Len(tup'), tup'[i] \in Stop \cup Offline
               PROVE  /\ \A k \in Conn : est'[k] = "open" => tst'[owner'[k]] = "freed"
                      /\ \A j \in 1..Len(tup') :
                           tup'[j] \in Request /\ tst'[tup'[j].body.from] = "open" => i < j
  BY DEF Between, News, OpenConn
<1>2. n + i \in 1..Len(tup) /\ News(n + i)
  BY <1>1 DEF News
<1>3. /\ \A k \in OpenConn : tst[owner[k]] = "freed"
      /\ \A j \in 1..Len(tup) :
           tup[j] \in Request /\ tst[tup[j].body.from] = "open" => n + i < j
  BY <1>2 DEF Between
<1>4. ASSUME NEW c \in Local, Used(c), tst'[c] = "open" PROVE tst[c] = "open"
  BY <1>4, ClientsSteady, LocalTypes DEF Steady, Used
<1>5. ASSUME NEW k \in Conn, est'[k] = "open" PROVE tst'[owner'[k]] = "freed"
  <2>1. CASE est[k] = "open"
    <3>1. owner'[k] = owner[k] /\ owner[k] \in Local /\ tst[owner[k]] = "freed" /\ Used(owner[k])
      BY <1>0, <1>3, <2>1, OwnerStays DEF OwnersUsed, OpenConn
    <3>2. QED
      BY <3>1, ClientsSteady DEF Steady
  <2>2. CASE est[k] # "open"
    <3>1. Connected(k)
      <4>1. Queued(k) \/ Connected(k)
        BY <1>0, <1>5, <2>2, ConnSteps DEF Wrote
      <4>2. QED
        BY <2>2, <4>1 DEF Queued
    <3>2. PICK c : c = tup[1].body.from
      OBVIOUS
    <3>3. n = 1 /\ tup # <<>> /\ Head(tup) = tup[1] /\ 1 \in 1..Len(tup) /\ ~(n + i < 1)
      <4>1. n = 1 /\ tup # <<>>
        BY <3>1
      <4>2. ~(n + i < 1) /\ 1 \in 1..Len(tup)
        BY <1>0, <1>2, <4>1
      <4>3. QED
        BY <4>1, <4>2
    <3>4. tup[1] \in Request /\ c \in Local /\ Used(c) /\ owner'[k] = c
      BY <1>0, <3>1, <3>2, <3>3, PoppedGenuine DEF Connected, Requested, Genuine
    <3>5. tst[c] = "freed"
      BY <1>3, <3>2, <3>3, <3>4, LocalTypes DEF Used
    <3>6. QED
      BY <3>4, <3>5, ClientsSteady DEF Steady
  <2>3. QED
    BY <2>1, <2>2
<1>6. ASSUME NEW j \in 1..Len(tup'), tup'[j] \in Request, tst'[tup'[j].body.from] = "open" PROVE i < j
  <2>1. n + j \in 1..Len(tup) /\ tup'[j] = tup[n + j]
    OBVIOUS
  <2>2. tst[tup[n + j].body.from] = "open" /\ tup[n + j] \in Request
    BY <1>4, <1>6, <2>1, InQueue
  <2>3. n + i < n + j
    BY <1>3, <2>1, <2>2
  <2>4. QED
    BY <1>0, <2>3
<1>7. QED
  BY <1>5, <1>6

(* A client that ends is the last one that was open. *)
LEMMA LastLeaves ==
  ASSUME OneOpen, Ends, NEW cs, Leave(cs), cs # {} \/ cs = OpenLocal
  PROVE  OpenLocal' = {}
<1>1. \A c \in OpenLocal : c \in cs
  BY DEF OneOpen, Leave, OpenLocal
<1>2. \A c \in Local : tst'[c] # "open"
  BY <1>1 DEF Leave, OpenLocal
<1>3. QED
  BY <1>2 DEF OpenLocal

(* News and requests keep their places. *)
LEMMA BetweenStep ==
  ASSUME MaxOpen = 1, Ends, Ends', Faithful, Effect, Alone PROVE Between'
<1>0. /\ OneOpen /\ OwnersUsed /\ Between /\ Faithful' /\ OwnersUsed' /\ Len(tup) \in Nat
      /\ tup \in Seq(Request \cup Stop \cup Offline)
  BY FaithfulStep, OwnersUsedStep, LenProperties DEF Alone, Ends
<1>1. CASE OpenLocal' = {}
  <2>1. ASSUME NEW k \in Conn, est'[k] = "open" PROVE tst'[owner'[k]] = "freed"
    <3>1. owner'[k] \in Local /\ tst'[owner'[k]] # "unused" /\ tst'[owner'[k]] # "open"
      BY <1>0, <1>1, <2>1 DEF OwnersUsed, Used, OpenLocal
    <3>2. tst' \in [Local -> {"unused", "open", "freed"}]
      BY <1>0 DEF Ends
    <3>3. QED
      BY <3>1, <3>2
  <2>2. ASSUME NEW j \in 1..Len(tup'), tup'[j] \in Request PROVE tst'[tup'[j].body.from] # "open"
    <3>1. tup'[j].body.from \in Local
      BY <2>2 DEF Request
    <3>2. QED
      BY <1>1, <3>1 DEF OpenLocal
  <2>3. QED
    BY <2>1, <2>2 DEF Between, OpenConn
<1>2. CASE (\E c \in Local : LeftAlone(c)) \/ HeardOffline \/ DeviceLost
  <2>1. \E cs \in SUBSET Local : Leave(cs) /\ (cs # {} \/ cs = OpenLocal)
    BY <1>2 DEF LeftAlone, HeardOffline, DeviceLost, OpenLocal
  <2>2. OpenLocal' = {}
    BY <1>0, <2>1, LastLeaves
  <2>3. QED
    BY <1>1, <2>2
<1>3. ASSUME tup' = tup, ~\E k \in Conn : Connected(k) PROVE Between'
  <2>1. \A i \in 1..Len(tup') : 0 + i \in 1..Len(tup) /\ tup'[i] = tup[0 + i]
    BY <1>3
  <2>2. 0 \in Nat
    OBVIOUS
  <2>3. QED
    BY <1>0, <1>3, <2>1, <2>2, OldNews
<1>4. ASSUME NEW n \in 0..Len(tup), tup' = SubSeq(tup, n + 1, Len(tup)),
             \A k \in Conn : Connected(k) => n = 1 /\ tup # <<>>
      PROVE  Between'
  <2>1. /\ Len(tup') = Len(tup) - n
        /\ \A i \in 1..(Len(tup) - n) : tup'[i] = tup[n + i]
    <3>1. /\ n \in Nat /\ n <= Len(tup)
          /\ \A i \in (n + 1)..Len(tup) : tup[i] \in Request \cup Stop \cup Offline
      BY <1>0, ElementOfSeq
    <3>2. QED
      BY <1>0, <1>4, <3>1, SubSeqProperties
  <2>2. \A i \in 1..Len(tup') : n + i \in 1..Len(tup) /\ tup'[i] = tup[n + i]
    BY <1>0, <2>1
  <2>3. n \in Nat
    BY <1>0
  <2>4. QED
    BY <1>0, <1>4, <2>2, <2>3, OldNews
<1>5. CASE RemoteLost
  <2>1. PICK n \in 0..Len(tup) : tup' = SubSeq(tup, n + 1, Len(tup))
    BY <1>5 DEF RemoteLost, Left
  <2>2. ~\E k \in Conn : Connected(k)
    BY <1>5, ConnTypes DEF RemoteLost, Close, Connected
  <2>3. QED
    BY <1>4, <2>1, <2>2
<1>6. CASE Stopped \/ Refused \/ \E k \in Conn : Queued(k) \/ Connected(k)
  <2>1. tup # <<>> /\ tup' = Tail(tup)
    BY <1>6 DEF Stopped, Refused, Queued, Connected, Requested
  <2>2. tup' = SubSeq(tup, 2, Len(tup)) /\ 1 \in 0..Len(tup) /\ 1 + 1 = 2
    BY <1>0, <2>1, TailIsSubSeq, EmptySeq
  <2>3. QED
    BY <1>4, <2>1, <2>2
<1>7. CASE \E c \in Local : Asked(c)
  <2>1. PICK c \in Local : Asked(c)
    BY <1>7
  <2>2. PICK m : m = [type |-> "tunnel_request", to |-> Remote, port |-> Where(c),
                      fd |-> tfd[c], body |-> NextBody(c)]
    OBVIOUS
  <2>3. /\ tup' = Append(tup, m) /\ est' = est /\ owner' = owner /\ tst' = tst
        /\ m.type = "tunnel_request"
    BY <2>1, <2>2 DEF Asked, DeviceSame, RemoteSame
  <2>4. m \notin Stop \cup Offline
    BY <2>3 DEF Stop, Offline
  <2>5. /\ Len(tup') = Len(tup) + 1 /\ tup'[Len(tup) + 1] = m
        /\ \A i \in 1..Len(tup) : tup'[i] = tup[i]
    <3>1. m \in Request
      <4>1. Used(c) /\ tfd[c] \in Fd /\ Where(c) \in Port /\ sent[c] + 1 \in 1..MaxMsgs
        BY <2>1, LocalTypes DEF Asked, OpenLocal
      <4>2. QED
        BY <2>2, <4>1 DEF Request, NextBody
    <3>2. QED
      BY <1>0, <2>3, <3>1, AppendProperties
  <2>6. ASSUME NEW i \in 1..Len(tup'), tup'[i] \in Stop \cup Offline
        PROVE  i \in 1..Len(tup) /\ News(i)
    BY <1>0, <2>4, <2>5, <2>6 DEF News
  <2>7. ASSUME NEW i \in 1..Len(tup'), tup'[i] \in Stop \cup Offline,
               NEW j \in 1..Len(tup'), tup'[j] \in Request, tst[tup'[j].body.from] = "open"
        PROVE  i < j
    <3>1. i \in 1..Len(tup) /\ News(i)
      BY <2>6, <2>7
    <3>2. CASE j \in 1..Len(tup)
      BY <1>0, <2>5, <2>7, <3>1, <3>2 DEF Between
    <3>3. CASE j = Len(tup) + 1
      BY <1>0, <3>1, <3>3
    <3>4. QED
      BY <1>0, <2>5, <3>2, <3>3
  <2>8. ASSUME NEW i \in 1..Len(tup'), tup'[i] \in Stop \cup Offline, NEW k \in OpenConn
        PROVE  tst[owner[k]] = "freed"
    BY <1>0, <2>6, <2>8 DEF Between
  <2>9. QED
    BY <2>3, <2>7, <2>8 DEF Between, News, OpenConn
<1>9. CASE tup' = tup
  <2>1. ASSUME NEW l \in Conn, Connected(l) PROVE FALSE
    <3>1. tup # <<>> /\ tup' = Tail(tup)
      BY <2>1 DEF Connected, Requested
    <3>2. Len(tup') = Len(tup) - 1
      BY <1>0, <3>1, HeadTailProperties
    <3>3. QED
      BY <1>0, <1>9, <3>2
  <2>2. QED
    BY <1>3, <1>9, <2>1
<1>10. QED
  BY <1>2, <1>5, <1>6, <1>7, <1>9
  DEF Effect, Paired, Accepted, Took, Delivered, Responded, Wrote, ClosedAlone, Dropped

(* No client is open at the start.                                         *)
LEMMA AloneInit == ASSUME Init PROVE Alone
<1>1. /\ tst = [c \in Local |-> "unused"] /\ est = [k \in Conn |-> "unused"] /\ tup = <<>>
  BY DEF Init, T!Init, E!Init
<1>2. 1..Len(tup) = {}
  BY <1>1
<1>3. QED
  BY <1>1, <1>2 DEF Alone, OneOpen, OpenLocal, OwnersUsed, Between
-----------------------------------------------------------------------------
(* What is under way from a connection to the client that owns it goes on  *)
(* where what the client has taken ends.                                   *)
Returns(c, k) ==
  \E a, b, z \in Nat :
    /\ Run(taken[c], k, 0, a) /\ Run(trb[c], k, a, b) /\ Run(eup, k, b, z)
    /\ z <= sent[k]
    /\ est[k] = "open" => z = sent[k]

Answered == /\ \A c \in OpenLocal, k \in Conn :
                 est[k] # "unused" /\ owner[k] = c => Returns(c, k)
            /\ \A k \in Conn : est[k] = "unused" => sent[k] = 0

(* Nothing comes from a connection that is not opened yet. *)
LEMMA NothingYet ==
  ASSUME Ends, Returned, NEW c \in Local, NEW k \in Conn, est[k] = "unused"
  PROVE  Run(taken[c], k, 0, 0) /\ Run(trb[c], k, 0, 0) /\ Run(eup, k, 0, 0)
<1>0. 0 \in Nat
  OBVIOUS
<1>1. \A b \in Given(c) : Num(b, k) = 0
  BY NumOf DEF Given
<1>2. \A m \in Solicited \cup Denied \cup Offline : Num(m, k) = 0
  BY NumOf DEF Solicited
<1>3. taken[c] \in Seq(Given(c)) /\ trb[c] \in Seq(Given(c))
  BY DEF Returned
<1>4. eup \in Seq(Solicited \cup Denied \cup Offline)
  BY DEF Returned
<1>5. \A i \in 1..Len(eup) : Num(eup[i], k) = 0
  BY <1>2, <1>4, ElementOfSeq
<1>6. /\ \A i \in 1..Len(taken[c]) : Num(taken[c][i], k) = 0
      /\ \A i \in 1..Len(trb[c]) : Num(trb[c][i], k) = 0
  BY <1>1, <1>3, ElementOfSeq
<1>7. QED
  BY <1>0, <1>3, <1>4, <1>5, <1>6, RunOfNone

(* The oldest message to the device, when it is from k. *)
LEMMA OldestFrom ==
  ASSUME Ends, Returned, NEW c \in Local, NEW k \in Conn, owner[k] = c, eup # <<>>
  PROVE  \/ Num(Head(eup), k) = 0
         \/ /\ Head(eup) \in Response /\ Head(eup).body.from = k
            /\ Head(eup).fd = tfd[c] /\ Head(eup).port = Where(c)
<1>1. Head(eup) \in Solicited \cup Denied \cup Offline
  BY HeadTailProperties DEF Returned
<1>2. CASE Head(eup) \in Denied \cup Offline
  BY <1>2, NumOf
<1>3. CASE Head(eup) \in Solicited
  <2>1. PICK l : l = Head(eup).body.from
    OBVIOUS
  <2>2. Head(eup) \in Response /\ Head(eup).fd = tfd[owner[l]] /\ Head(eup).port = Where(owner[l])
    BY <1>3, <2>1 DEF Solicited
  <2>3. CASE l = k
    BY <2>1, <2>2, <2>3
  <2>4. CASE l # k
    BY <2>1, <2>2, <2>4, NumOf
  <2>5. QED
    BY <2>3, <2>4
<1>4. QED
  BY <1>1, <1>2, <1>3

(* What a client takes and is given. *)
LEMMA ReturnsTaken ==
  ASSUME Ends, Routing, NEW c \in OpenLocal, NEW k \in Conn, owner[k] = c, Returns(c, k),
         NEW d \in Local, Took(d)
  PROVE  Returns(c, k)'
<1>0. trb \in [Local -> Seq(Body)] /\ taken \in [Local -> Seq(Body)] /\ c \in Local
  BY LocalTypes DEF Ends, OpenLocal
<1>1. PICK a, b, z \in Nat : /\ Run(taken[c], k, 0, a) /\ Run(trb[c], k, a, b) /\ Run(eup, k, b, z)
                             /\ z <= sent[k]
                             /\ est[k] = "open" => z = sent[k]
  BY DEF Returns
<1>2. eup' = eup /\ sent' = sent /\ est' = est
  BY DEF Took, RemoteSame
<1>3. CASE d # c
  <2>1. trb'[c] = trb[c] /\ taken'[c] = taken[c]
    BY <1>0, <1>3 DEF Took
  <2>2. QED
    BY <1>1, <1>2, <2>1 DEF Returns
<1>4. CASE d = c
  <2>1. PICK h : h = Head(trb[c])
    OBVIOUS
  <2>2. /\ trb[c] # <<>> /\ trb'[c] = Tail(trb[c]) /\ taken'[c] = Append(taken[c], h)
        /\ h \in Body
    BY <1>0, <1>4, <2>1, HeadTailProperties DEF Took
  <2>3. CASE Num(h, k) = 0
    <3>1. Run(taken'[c], k, 0, a) /\ Run(trb'[c], k, a, b)
      BY <1>0, <1>1, <2>1, <2>2, <2>3, RunAppend, RunTail
    <3>2. QED
      BY <1>1, <1>2, <3>1 DEF Returns
  <2>4. CASE Num(h, k) # 0
    <3>1. Num(h, k) = a + 1 /\ Run(trb'[c], k, a + 1, b)
      BY <1>0, <1>1, <2>1, <2>2, <2>4, RunTail
    <3>2. Run(taken'[c], k, 0, a + 1) /\ a + 1 \in Nat
      <4>1. taken[c] \in Seq(Body) /\ Run(taken[c], k, 0, a)
        BY <1>0, <1>1
      <4>2. Run(Append(taken[c], h), k, 0, a + 1)
        BY <2>2, <3>1, <4>1, RunAppend
      <4>3. QED
        BY <1>1, <2>2, <4>2
    <3>3. QED
      BY <1>1, <1>2, <3>1, <3>2 DEF Returns
  <2>5. QED
    BY <2>3, <2>4
<1>5. QED
  BY <1>3, <1>4

(* The oldest response reaches its client, or is of no interest to it. *)
LEMMA ReturnsDelivered ==
  ASSUME NoCollision, Ends, Routing, NEW c \in OpenLocal, NEW k \in Conn, owner[k] = c,
         Returns(c, k), Dropped \/ \E d \in Local : Delivered(d)
  PROVE  Returns(c, k)'
<1>0. /\ trb \in [Local -> Seq(Body)] /\ c \in Local
      /\ eup \in Seq(Response \cup Denied \cup Offline) /\ Returned /\ FdIsName
  BY LocalTypes DEF Ends, OpenLocal, Routing
<1>1. PICK a, b, z \in Nat : /\ Run(taken[c], k, 0, a) /\ Run(trb[c], k, a, b) /\ Run(eup, k, b, z)
                             /\ z <= sent[k]
                             /\ est[k] = "open" => z = sent[k]
  BY DEF Returns
<1>2. sent' = sent /\ est' = est /\ eup # <<>> /\ eup' = Tail(eup) /\ taken' = taken
  BY DEF Dropped, Delivered, RemoteSame, DeviceSame
<1>3. PICK m : m = Head(eup)
  OBVIOUS
<1>4. CASE Num(m, k) = 0
  <2>1. Run(eup', k, b, z)
    BY <1>0, <1>1, <1>2, <1>3, <1>4, RunTail
  <2>2. Run(trb'[c], k, a, b)
    <3>1. CASE trb'[c] = trb[c]
      BY <1>1, <3>1
    <3>2. CASE Delivered(c)
      <4>1. m \in Response /\ trb'[c] = Append(trb[c], m.body) /\ m.body \in Body
        BY <1>0, <1>3, <3>2 DEF Delivered, Response, Body
      <4>2. Num(m.body, k) = 0
        BY <1>4, <4>1, NumOf
      <4>3. QED
        BY <1>0, <1>1, <4>1, <4>2, RunAppend
    <3>3. QED
      BY <1>0, <3>1, <3>2 DEF Delivered, Dropped, DeviceSame
  <2>3. QED
    BY <1>1, <1>2, <2>1, <2>2 DEF Returns
<1>5. CASE Num(m, k) # 0
  <2>1. m \in Response /\ m.body.from = k /\ m.fd = tfd[c] /\ m.port = Where(c)
    BY <1>0, <1>2, <1>3, <1>5, OldestFrom
  <2>2. ~Dropped
    BY <1>3, <2>1 DEF Dropped
  <2>3. Delivered(c)
    <3>1. PICK d \in Local : Delivered(d)
      BY <2>2
    <3>2. Used(d) /\ Used(c) /\ tfd[d] = tfd[c]
      BY <1>3, <2>1, <3>1 DEF Delivered, Used, OpenLocal
    <3>3. QED
      BY <1>0, <3>1, <3>2 DEF FdIsName
  <2>4. trb'[c] = Append(trb[c], m.body) /\ m.body \in Body
    BY <1>0, <1>3, <2>1, <2>3 DEF Delivered, Response, Body
  <2>5. Num(m, k) = b + 1 /\ b + 1 <= z /\ Run(eup', k, b + 1, z)
    BY <1>0, <1>1, <1>2, <1>3, <1>5, RunTail
  <2>6. Num(m.body, k) = Num(m, k)
    BY <2>1, <2>4, NumOf
  <2>7. Run(trb'[c], k, a, b + 1) /\ b + 1 \in Nat
    BY <1>0, <1>1, <2>4, <2>5, <2>6, RunAppend
  <2>8. QED
    BY <1>1, <1>2, <2>5, <2>7 DEF Returns
<1>6. QED
  BY <1>4, <1>5

(* The rest of what may become of the queue to the device. *)
LEMMA ReturnsQueued ==
  ASSUME Ends, Routing, Faithful, Effect, NEW c \in OpenLocal, NEW k \in Conn, est[k] # "unused",
         owner[k] = c, Returns(c, k), UNCHANGED <<trb, taken>>, tst'[c] = "open",
         ~Dropped, \A d \in Local : ~Delivered(d)
  PROVE  Returns(c, k)'
<1>0. /\ c \in Local /\ Drained
      /\ eup \in Seq(Response \cup Denied \cup Offline)
      /\ sent \in [Local \cup Conn -> Nat]
      /\ Local \cap Conn = {}
  BY DataPathAssumption DEF Ends, OpenLocal, Faithful
<1>1. PICK a, b, z \in Nat : /\ Run(taken[c], k, 0, a) /\ Run(trb[c], k, a, b) /\ Run(eup, k, b, z)
                             /\ z <= sent[k]
                             /\ est[k] = "open" => z = sent[k]
  BY DEF Returns
<1>2. est'[k] = "open" => est[k] = "open"
  <2>1. CASE Queued(k) \/ Connected(k)
    BY <2>1 DEF Queued, Connected
  <2>2. CASE Wrote(k)
    BY <2>2 DEF Wrote
  <2>3. QED
    BY <1>0, <2>1, <2>2, ConnSteps
<1>3. CASE \E l \in Conn : Responded(l)
  <2>1. PICK l \in Conn : Responded(l)
    BY <1>3
  <2>2. PICK i \in DOMAIN endpoints :
             eup' = Append(eup, [type |-> "tunnel_response", to |-> Device,
                                 port |-> endpoints[i].backend_port,
                                 fd |-> endpoints[i].remote_fd, body |-> NextBody(l)])
    BY <2>1 DEF Responded
  <2>3. PICK m : m = [type |-> "tunnel_response", to |-> Device,
                      port |-> endpoints[i].backend_port,
                      fd |-> endpoints[i].remote_fd, body |-> NextBody(l)]
    OBVIOUS
  <2>4. /\ est[l] = "open" /\ sent[l] + 1 \in 1..MaxAnswers /\ est' = est
        /\ sent' = [sent EXCEPT ![l] = @ + 1]
    BY <2>1 DEF Responded, RemoteSame
  <2>5. m \in Response
    <3>1. endpoints[i] \in E!Entry
      BY LinkedIsOpen
    <3>2. endpoints[i].backend_port \in Port /\ endpoints[i].remote_fd \in Fd
      BY <3>1 DEF E!Entry
    <3>3. QED
      BY <2>3, <2>4, <3>2 DEF Response, NextBody
  <2>6. Num(m, k) = IF l = k THEN sent[l] + 1 ELSE 0
    BY <2>3, <2>5, NumOf DEF NextBody
  <2>7. CASE l = k
    <3>1. Run(eup', k, b, z + 1)
      BY <1>0, <1>1, <2>2, <2>3, <2>4, <2>5, <2>6, <2>7, RunAppend
    <3>2. sent'[k] = z + 1 /\ z + 1 \in Nat
      BY <1>0, <1>1, <2>4, <2>7
    <3>3. QED
      BY <1>1, <3>1, <3>2 DEF Returns
  <2>8. CASE l # k
    <3>1. Run(eup', k, b, z)
      BY <1>0, <1>1, <2>2, <2>3, <2>5, <2>6, <2>8, RunAppend
    <3>2. sent'[k] = sent[k]
      BY <1>0, <2>4, <2>8
    <3>3. QED
      BY <1>1, <1>2, <3>1, <3>2 DEF Returns
  <2>9. QED
    BY <2>7, <2>8
<1>4. ASSUME \A l \in Conn : ~Responded(l) PROVE sent'[k] = sent[k]
  <2>1. \A d \in Local : d # k
    BY <1>0
  <2>2. QED
    BY <1>0, <1>4, <2>1, SentSteps
<1>5. CASE RemoteLost
  <2>1. PICK n \in 0..Len(eup) : eup' = Taken(eup, n)
    BY <1>5 DEF RemoteLost
  <2>2. PICK y \in b..z : Run(SubSeq(eup, 1, n), k, b, y)
    BY <1>0, <1>1, RunSplit
  <2>3. SubSeq(eup, 1, n) \in Seq(Response \cup Denied \cup Offline) /\ [type |-> "offline"] \in Offline
    <3>1. /\ Len(eup) \in Nat /\ n \in Nat /\ n <= Len(eup)
          /\ \A i \in 1..Len(eup) : eup[i] \in Response \cup Denied \cup Offline
      BY <1>0, LenProperties, ElementOfSeq
    <3>2. \A i \in 1..n : eup[i] \in Response \cup Denied \cup Offline
      BY <3>1
    <3>3. QED
      BY <3>1, <3>2, SubSeqProperties DEF Offline
  <2>4. Num([type |-> "offline"], k) = 0
    BY <2>3, NumOf
  <2>5. Run(eup', k, b, y)
    BY <2>1, <2>2, <2>3, <2>4, RunAppend DEF Taken
  <2>6. y \in Nat /\ y <= sent[k] /\ sent' = sent
    BY <1>0, <1>1, <1>5 DEF RemoteLost
  <2>7. est'[k] # "open"
    BY <1>5 DEF RemoteLost, Close, OpenConn
  <2>8. QED
    BY <1>1, <2>5, <2>6, <2>7 DEF Returns
<1>6. CASE Refused
  <2>1. PICK m \in Denied : eup' = Append(eup, m)
    BY <1>6 DEF Refused
  <2>2. Num(m, k) = 0
    BY NumOf
  <2>3. Run(eup', k, b, z) /\ sent' = sent
    BY <1>0, <1>1, <1>6, <2>1, <2>2, RunAppend DEF Refused
  <2>4. QED
    BY <1>1, <1>2, <2>3 DEF Returns
<1>7. ~(HeardOffline \/ DeviceLost)
  BY DEF HeardOffline, DeviceLost, Leave, OpenLocal
<1>8. CASE eup' = eup /\ \A l \in Conn : ~Responded(l)
  BY <1>1, <1>2, <1>4, <1>8 DEF Returns
<1>9. QED
  BY <1>3, <1>5, <1>6, <1>7, <1>8
  DEF Effect, Paired, Accepted, Asked, Took, LeftAlone, Wrote, ClosedAlone, Queued, Connected, Stopped

(* What is under way to a client goes on where what it has taken ends.     *)
LEMMA AnsweredStep ==
  ASSUME ~Reuse, NoCollision, Ends, Faithful, Effect, Routing, Answered PROVE Answered'
<1>0. /\ Drained /\ owner \in [Conn -> Local \cup {NULL}] /\ Owned /\ Returned /\ Local \cap Conn = {}
      /\ Faithful' /\ FdIsName' /\ Owned' /\ Returned' /\ sent \in [Local \cup Conn -> Nat]
  BY DataPathAssumption, FaithfulStep, FdIsNameStep, OwnedStep, ReturnedStep DEF Faithful, Ends, Routing
<1>1. ASSUME NEW k \in Conn, est'[k] = "unused" PROVE sent'[k] = 0
  <2>1. est[k] = "unused"
    BY <1>0, <1>1, OwnerStays
  <2>2. sent[k] = 0
    BY <2>1 DEF Answered
  <2>3. (\A d \in Local : d # k) /\ ~Responded(k)
    BY <1>0, <2>1 DEF Responded
  <2>4. QED
    BY <1>0, <2>2, <2>3, SentSteps
<1>2. ASSUME NEW c \in Local, NEW k \in Conn, tst'[c] = "open", est'[k] # "unused", owner'[k] = c
      PROVE  Returns(c, k)'
  <2>1. CASE est[k] = "unused"
    <3>1. Connected(k)
      <4>1. Queued(k) \/ Connected(k)
        BY <1>0, <1>2, <2>1, ConnSteps DEF Wrote
      <4>2. QED
        BY <2>1, <4>1 DEF Queued
    <3>2. UNCHANGED <<trb, taken, eup, sent>>
      BY <3>1 DEF Connected, DeviceSame
    <3>3. Run(taken[c], k, 0, 0) /\ Run(trb[c], k, 0, 0) /\ Run(eup, k, 0, 0) /\ sent[k] = 0
      BY <1>0, <2>1, NothingYet DEF Answered
    <3>4. 0 \in Nat /\ 0 <= 0
      OBVIOUS
    <3>5. QED
      BY <3>2, <3>3, <3>4 DEF Returns
  <2>2. CASE est[k] # "unused"
    <3>1. owner[k] = c /\ Used(c)
      BY <1>0, <1>2, <2>2, OwnerStays DEF Owned
    <3>2. c \in OpenLocal
      BY <1>2, <3>1, ClientsSteady, LocalTypes DEF Steady, Used, OpenLocal
    <3>3. Returns(c, k)
      BY <2>2, <3>1, <3>2 DEF Answered
    <3>4. CASE \E d \in Local : Took(d)
      BY <3>1, <3>2, <3>3, <3>4, ReturnsTaken
    <3>5. CASE Dropped \/ \E d \in Local : Delivered(d)
      BY <3>1, <3>2, <3>3, <3>5, ReturnsDelivered
    <3>6. CASE UNCHANGED <<trb, taken>> /\ ~Dropped /\ \A d \in Local : ~Delivered(d)
      BY <1>2, <2>2, <3>1, <3>2, <3>3, <3>6, ReturnsQueued
    <3>7. CASE \E d \in Local : LeftAlone(d)
      <4>1. trb'[c] = trb[c] /\ taken' = taken /\ eup' = eup /\ sent' = sent /\ est' = est
        BY <1>2, <3>7 DEF LeftAlone, Leave, RemoteSame
      <4>2. QED
        BY <3>3, <4>1 DEF Returns
    <3>8. ~(HeardOffline \/ DeviceLost)
      BY <1>2, <3>2 DEF HeardOffline, DeviceLost, Leave, OpenLocal
    <3>9. QED
      BY <3>4, <3>5, <3>6, <3>7, <3>8
      DEF Effect, Paired, DeviceSame, Accepted, Asked, Responded, Wrote, ClosedAlone, Queued,
          Connected, Stopped, RemoteLost, Refused
  <2>3. QED
    BY <2>1, <2>2
<1>3. \A c \in OpenLocal', k \in Conn : est'[k] # "unused" /\ owner'[k] = c => Returns(c, k)'
  BY <1>2 DEF OpenLocal
<1>4. QED
  BY <1>1, <1>3 DEF Answered

(* What a backend is given its client has sent. *)
Sent    == {b \in Body : b.n <= sent[b.from]}
AllSent == \A k \in Conn : All(k) \in Seq(Sent)

(* The sender of the oldest request, and its place in what it sent. *)
LEMMA OldestRequest ==
  ASSUME Ends, Faithful, Order, Requested
  PROVE  /\ Head(tup).body \in Sent /\ Head(tup).body.from \in Local
         /\ Head(tup).body.n \in Nat \ {0}
<1>1. PICK b : b = Head(tup).body
  OBVIOUS
<1>2. PICK c : c = b.from
  OBVIOUS
<1>3. /\ Head(tup) \in Request /\ b \in Body /\ c \in Local /\ b.n \in Nat \ {0}
  BY <1>1, <1>2, PoppedGenuine, DataPathAssumption DEF Genuine, Request, Body
<1>4. PICK a, z \in Nat : Run(tup, c, a, z) /\ z <= sent[c]
  BY <1>3 DEF Order, InOrder
<1>5. Num(Head(tup), c) = b.n
  BY <1>1, <1>2, <1>3, NumOf
<1>6. tup # <<>> /\ tup \in Seq(Request \cup Stop \cup Offline)
  BY DEF Requested, Ends
<1>7. b.n = a + 1 /\ a + 1 <= z
  BY <1>3, <1>4, <1>5, <1>6, RunTail
<1>8. b.n <= sent[c]
  <2>1. sent[c] \in Nat
    BY <1>3 DEF Ends
  <2>2. QED
    BY <1>4, <1>7, <2>1
<1>9. QED
  BY <1>1, <1>2, <1>3, <1>8 DEF Sent

(* Nothing is under way that was not sent before.                          *)
LEMMA AllSentStep ==
  ASSUME Ends, Faithful, Order, Effect, AllSent PROVE AllSent'
<1>1. Sent \subseteq Sent'
  <2>1. \A b \in Body : b.from \in Local \cup Conn /\ b.n \in Nat
    BY DataPathAssumption DEF Body
  <2>2. \A x \in Local \cup Conn : sent[x] \in Nat /\ sent'[x] \in Nat /\ sent[x] <= sent'[x]
    <3>1. sent \in [Local \cup Conn -> Nat]
      BY DEF Ends
    <3>2. QED
      BY <3>1, SentSteps
  <2>3. QED
    BY <2>1, <2>2 DEF Sent
<1>2. ASSUME NEW k \in Conn PROVE All(k)' \in Seq(Sent')
  <2>1. Drained /\ All(k) \in Seq(Sent) /\ All(k) \in Seq(Sent')
    BY <1>1, SeqOfMore DEF Faithful, AllSent
  <2>2. CASE All(k)' = All(k)
    BY <2>1, <2>2
  <2>3. CASE All(k)' = got[k]
    BY <2>1, <2>3, FirstPart, ConnTypes DEF All
  <2>4. CASE Queued(k) \/ Connected(k)
    <3>1. Head(tup).body \in Sent
      BY <2>4, OldestRequest DEF Queued, Connected
    <3>2. PICK b : b = Head(tup).body
      OBVIOUS
    <3>3. b \in Sent'
      BY <1>1, <3>1, <3>2
    <3>4. All(k)' = Append(All(k), b)
      BY <2>1, <2>4, <3>2, PutBehind
    <3>5. QED
      BY <2>1, <3>3, <3>4, AppendProperties
  <2>5. QED
    BY <2>1, <2>2, <2>3, <2>4, ConnSteps
<1>3. QED
  BY <1>2 DEF AllSent
-----------------------------------------------------------------------------
(* The two processes implement the splice. *)
Spliced == [x \in Local \cup Conn |-> IF x \in Local THEN tst[x] ELSE est[x]]

Joint == /\ Ends /\ Faithful /\ Order /\ AllSent
         /\ Routing /\ Answered

(* How the states of the splice follow those of the two processes.         *)
LEMMA SplicedChanges ==
  ASSUME Ends
  PROVE  /\ \A c \in Local : Spliced[c] = tst[c]
         /\ \A k \in Conn : Spliced[k] = est[k]
         /\ \A c \in Local : tst' = [tst EXCEPT ![c] = "open"] /\ est' = est
                               => Spliced' = [Spliced EXCEPT ![c] = "open"]
         /\ \A k \in Conn : est' = [est EXCEPT ![k] = "open"] /\ tst' = tst
                               => Spliced' = [Spliced EXCEPT ![k] = "open"]
         /\ tst' = tst /\ est' = est => Spliced' = Spliced
<1>1. /\ Local \cap Conn = {} /\ tst \in [Local -> {"unused", "open", "freed"}]
      /\ est \in [Conn -> E!State]
  BY DataPathAssumption, LocalTypes, ConnTypes
<1>2. QED
  BY <1>1 DEF Spliced

(* Ends that are closed are cut off. *)
LEMMA CutStep ==
  ASSUME Ends, UNCHANGED sent,
         \/ \E cs : Leave(cs) /\ RemoteSame
         \/ \E ks : Close(ks) /\ DeviceSame
  PROVE  \E xs \in SUBSET S!End : S!Cut(xs)
<1>0. /\ Local \cap Conn = {} /\ tst \in [Local -> {"unused", "open", "freed"}]
      /\ est \in [Conn -> E!State]
  BY DataPathAssumption, LocalTypes, ConnTypes
<1>1. ASSUME NEW cs, Leave(cs), RemoteSame PROVE cs \in SUBSET S!End /\ S!Cut(cs)
  <2>1. cs \subseteq Local /\ \A c \in cs : tst[c] = "open"
    BY <1>1 DEF Leave
  <2>2. Spliced' = [x \in S!End |-> IF x \in cs THEN "freed" ELSE Spliced[x]]
    BY <1>0, <1>1, <2>1 DEF Leave, RemoteSame, Spliced, S!End
  <2>3. \A x \in cs : Spliced[x] = "open"
    BY <2>1, SplicedChanges
  <2>4. UNCHANGED <<sent, owner, got, taken>>
    BY <1>1 DEF Leave, RemoteSame
  <2>5. QED
    BY <2>1, <2>2, <2>3, <2>4 DEF S!Cut, S!End, Spliced
<1>2. ASSUME NEW ks, Close(ks), DeviceSame PROVE ks \in SUBSET S!End /\ S!Cut(ks)
  <2>1. ks \subseteq Conn /\ \A k \in ks : est[k] = "open"
    BY <1>2 DEF Close
  <2>2. Spliced' = [x \in S!End |-> IF x \in ks THEN "freed" ELSE Spliced[x]]
    BY <1>0, <1>2, <2>1 DEF Close, DeviceSame, Spliced, S!End
  <2>3. \A x \in ks : Spliced[x] = "open"
    BY <2>1, SplicedChanges
  <2>4. UNCHANGED <<sent, owner, got, taken>>
    BY <1>2 DEF Close, DeviceSame
  <2>5. QED
    BY <2>1, <2>2, <2>3, <2>4 DEF S!Cut, S!End, Spliced
<1>3. QED
  BY <1>1, <1>2

(* The client is given the next answer of its backend. *)
LEMMA TookIsAnswer ==
  ASSUME Joint, NEW c \in Local, Took(c)
  PROVE  \E k \in Conn : S!Answer(c, k)
<1>0. /\ Ends /\ Returned /\ taken \in [Local -> Seq(Body)] /\ trb \in [Local -> Seq(Body)]
      /\ MaxMsgs \in Nat /\ MaxAnswers \in Nat
  BY LocalTypes, DataPathAssumption DEF Joint, Routing, Ends
<1>1. PICK h : h = Head(trb[c])
  OBVIOUS
<1>2. PICK k : k = h.from
  OBVIOUS
<1>3. /\ trb[c] # <<>> /\ tst[c] = "open" /\ taken' = [taken EXCEPT ![c] = Append(@, h)]
      /\ tst' = tst /\ RemoteSame /\ sent' = sent
  BY <1>1 DEF Took
<1>4. h \in Given(c)
  BY <1>0, <1>1, <1>3, HeadTailProperties DEF Returned
<1>5. /\ h \in Body /\ k \in Conn /\ est[k] # "unused" /\ owner[k] = c
      /\ h = [from |-> k, n |-> h.n] /\ h.n \in Nat \ {0}
  BY <1>0, <1>2, <1>4 DEF Given, Body
<1>6. PICK a, b, z \in Nat : /\ Run(taken[c], k, 0, a) /\ Run(trb[c], k, a, b) /\ Run(eup, k, b, z)
                             /\ z <= sent[k]
  <2>1. Returns(c, k)
    BY <1>3, <1>5 DEF Joint, Answered, OpenLocal
  <2>2. QED
    BY <2>1 DEF Returns
<1>7. h.n = a + 1 /\ a + 1 <= sent[k]
  <2>1. Num(h, k) = h.n
    BY <1>2, <1>5, NumOf
  <2>2. h.n = a + 1 /\ a + 1 <= b
    BY <1>0, <1>1, <1>3, <1>5, <1>6, <2>1, RunTail
  <2>3. b <= z
    BY <1>6 DEF Run
  <2>4. sent[k] \in Nat
    BY <1>0, <1>5 DEF Ends
  <2>5. QED
    BY <1>6, <2>2, <2>3, <2>4
<1>8. Cardinality({i \in DOMAIN taken[c] : taken[c][i].from = k}) = a
  <2>1. taken[c] \in Seq(Body) /\ DOMAIN taken[c] = 1..Len(taken[c])
    BY <1>0, LenProperties
  <2>2. \A e \in Body : Num(e, k) # 0 <=> e.from = k
    BY <1>0, NumOf DEF Body
  <2>3. {i \in DOMAIN taken[c] : taken[c][i].from = k} = {i \in 1..Len(taken[c]) : Num(taken[c][i], k) # 0}
    BY <2>1, <2>2, ElementOfSeq
  <2>4. QED
    BY <1>6, <2>1, <2>3, RunCount
<1>9. Spliced[c] = "open" /\ Spliced' = Spliced
  BY <1>0, <1>3, SplicedChanges DEF RemoteSame
<1>10. UNCHANGED <<owner, got>>
  BY <1>3 DEF RemoteSame
<1>11. S!Answer(c, k)
  BY <1>3, <1>5, <1>7, <1>8, <1>9, <1>10 DEF S!Answer, S!Cardinality, Cardinality, Spliced
<1>12. QED
  BY <1>5, <1>11

(* The backend is given what comes next from the client. *)
LEMMA WroteIsRequest ==
  ASSUME Joint, NEW k \in Conn, Wrote(k) PROVE S!Request(k)
<1>0. /\ Ends /\ Owned /\ got \in [Conn -> Seq(Body)] /\ erb \in [Conn -> Seq(Body)]
      /\ MaxMsgs \in Nat /\ MaxAnswers \in Nat
  BY ConnTypes, DataPathAssumption DEF Joint, Routing
<1>1. PICK b : b = Head(erb[k])
  OBVIOUS
<1>2. /\ est[k] = "open" /\ erb[k] # <<>> /\ got' = [got EXCEPT ![k] = Append(@, b)]
      /\ UNCHANGED <<tst, est, owner, taken, sent>>
  BY <1>1 DEF Wrote, DeviceSame
<1>3. PICK c \in Local : c = owner[k]
  BY <1>0, <1>2 DEF Owned
<1> DEFINE g == got[k]
           e == erb[k]
           N == Len(g)
<1>4. /\ g \in Seq(Body) /\ e \in Seq(Body) /\ N \in Nat /\ Len(e) \in Nat /\ Len(e) # 0
      /\ b = e[1] /\ Len(g \o e) = N + Len(e)
      /\ \A i \in 1..(N + Len(e)) : (g \o e)[i] = IF i <= N THEN g[i] ELSE e[i - N]
  BY <1>0, <1>1, <1>2, ConcatProperties, LenProperties, EmptySeq
<1>5. g \o e \in Seq(From(c)) /\ g \o e \in Seq(Sent) /\ Consecutive(g \o e)
  BY <1>2, <1>3 DEF Joint, Routing, Owned, AllSent, Order, All
<1> HIDE DEF g, e, N
<1>6. /\ N + 1 \in 1..Len(g \o e) /\ (g \o e)[N + 1] = b
      /\ N # 0 => N \in 1..(Len(g \o e) - 1) /\ (g \o e)[N] = g[N] /\ N \in 1..Len(g \o e)
  <2>1. N + 1 \in 1..(N + Len(e)) /\ ~(N + 1 <= N) /\ (N + 1) - N = 1
    BY <1>4
  <2>2. N # 0 => N \in 1..((N + Len(e)) - 1) /\ N \in 1..(N + Len(e)) /\ N <= N
    BY <1>4
  <2>3. (g \o e)[N + 1] = b
    BY <1>4, <2>1
  <2>4. N # 0 => (g \o e)[N] = g[N]
    BY <1>4, <2>2
  <2>5. QED
    BY <1>4, <2>1, <2>2, <2>3, <2>4
<1>7. b \in From(c) /\ b \in Sent
  BY <1>5, <1>6, ElementOfSeq
<1>8. b = [from |-> c, n |-> b.n] /\ b.n \in 1..sent[c]
  <2>1. b \in Body /\ b.from = c /\ b.n <= sent[c] /\ sent[c] \in Nat
    BY <1>0, <1>7 DEF From, Sent, Ends
  <2>2. QED
    BY <1>0, <2>1 DEF Body
<1>9. N # 0 => b.n = g[N].n + 1
  <2>1. ASSUME N # 0 PROVE b.n = g[N].n + 1
    <3>1. (g \o e)[N] \in From(c)
      BY <1>5, <1>6, <2>1, ElementOfSeq
    <3>2. (g \o e)[N].from = (g \o e)[N + 1].from
      BY <1>6, <1>7, <3>1 DEF From
    <3>3. QED
      BY <1>5, <1>6, <2>1, <3>2 DEF Consecutive
  <2>2. QED
    BY <2>1
<1>10. got[k] # <<>> => b.n = got[k][Len(got[k])].n + 1
  BY <1>4, <1>9, EmptySeq DEF g, N
<1>11. Spliced[k] = "open" /\ Spliced' = Spliced
  BY <1>0, <1>2, SplicedChanges
<1>12. QED
  BY <1>2, <1>3, <1>8, <1>10, <1>11 DEF S!Request, Spliced

(* A backend is connected to for a client that has sent something. *)
LEMMA ConnectedIsConnect ==
  ASSUME Joint, NEW k \in Conn, Connected(k) PROVE \E c \in Local : S!Connect(k, c)
<1>0. Ends
  BY DEF Joint
<1>1. PICK c : c = Head(tup).body.from
  OBVIOUS
<1>2. c \in Local /\ sent[c] > 0
  <2>1. Requested
    BY DEF Connected
  <2>2. PICK b : b = Head(tup).body
    OBVIOUS
  <2>3. b \in Sent /\ b.from = c /\ c \in Local /\ b.n \in Nat \ {0}
    BY <1>1, <2>1, <2>2, OldestRequest DEF Joint
  <2>4. sent[c] \in Nat /\ b.n <= sent[c]
    BY <1>0, <2>3 DEF Ends, Sent
  <2>5. QED
    BY <2>3, <2>4
<1>3. /\ est[k] = "unused" /\ est' = [est EXCEPT ![k] = "open"] /\ tst' = tst
      /\ owner' = [owner EXCEPT ![k] = c] /\ UNCHANGED <<sent, got, taken>>
  BY <1>1 DEF Connected, DeviceSame
<1>4. Spliced[k] = "unused" /\ Spliced' = [Spliced EXCEPT ![k] = "open"]
  BY <1>0, <1>3, SplicedChanges
<1>5. S!Connect(k, c)
  BY <1>2, <1>3, <1>4 DEF S!Connect, Spliced
<1>6. QED
  BY <1>2, <1>5

(* Every step is a step of the splice, or one that it does not see. *)
LEMMA SpliceStep == ASSUME Joint, Effect PROVE [S!Next]_(S!vars)
<1>0. Ends /\ Local \subseteq S!End /\ Conn \subseteq S!End
  BY DEF Joint, S!End
<1>1. ASSUME UNCHANGED <<tst, est, sent, owner, got, taken>> PROVE UNCHANGED S!vars
  <2>1. Spliced' = Spliced
    BY <1>0, <1>1, SplicedChanges
  <2>2. QED
    BY <1>1, <2>1 DEF S!vars, Spliced
<1>2. ASSUME NEW c \in Local, NEW f \in Fd, Accepted(c, f) PROVE S!Accept(c)
  <2>1. /\ tst[c] = "unused" /\ tst' = [tst EXCEPT ![c] = "open"] /\ est' = est
        /\ UNCHANGED <<sent, owner, got, taken>>
    BY <1>2 DEF Accepted, RemoteSame
  <2>2. Spliced[c] = "unused" /\ Spliced' = [Spliced EXCEPT ![c] = "open"]
    BY <1>0, <2>1, SplicedChanges
  <2>3. QED
    BY <2>1, <2>2 DEF S!Accept, Spliced
<1>3. ASSUME NEW c \in Local, Asked(c) PROVE S!Send(c)
  <2>1. /\ tst[c] = "open" /\ tst' = tst /\ est' = est /\ sent' = [sent EXCEPT ![c] = @ + 1]
        /\ UNCHANGED <<owner, got, taken>>
    BY <1>3 DEF Asked, DeviceSame, RemoteSame
  <2>2. Spliced[c] = "open" /\ Spliced' = Spliced
    BY <1>0, <2>1, SplicedChanges
  <2>3. QED
    BY <2>1, <2>2 DEF S!Send, Spliced
<1>4. ASSUME NEW k \in Conn, Responded(k) PROVE S!Send(k)
  <2>1. /\ est[k] = "open" /\ tst' = tst /\ est' = est /\ sent' = [sent EXCEPT ![k] = @ + 1]
        /\ UNCHANGED <<owner, got, taken>>
    BY <1>4 DEF Responded, DeviceSame, RemoteSame
  <2>2. Spliced[k] = "open" /\ Spliced' = Spliced
    BY <1>0, <2>1, SplicedChanges
  <2>3. QED
    BY <2>1, <2>2 DEF S!Send, Spliced
<1>5. CASE \/ (\E c \in Local : LeftAlone(c)) \/ HeardOffline \/ DeviceLost
           \/ (\E k \in Conn : ClosedAlone(k)) \/ Stopped \/ RemoteLost
  <2>1. /\ sent' = sent
        /\ \/ \E cs : Leave(cs) /\ RemoteSame
           \/ \E ks : Close(ks) /\ DeviceSame
    BY <1>5 DEF LeftAlone, HeardOffline, DeviceLost, ClosedAlone, Stopped, RemoteLost
  <2>2. \E xs \in SUBSET S!End : S!Cut(xs)
    BY <1>0, <2>1, CutStep
  <2>3. QED
    BY <2>2 DEF S!Next
<1>6. CASE Paired \/ Dropped \/ Refused \/ (\E c \in Local : Delivered(c)) \/ \E k \in Conn : Queued(k)
  BY <1>1, <1>6 DEF Paired, Dropped, Refused, Delivered, Queued, DeviceSame, RemoteSame
<1>7. CASE \E c \in Local : Took(c)
  BY <1>7, TookIsAnswer DEF S!Next
<1>8. CASE \E k \in Conn : Wrote(k)
  BY <1>8, WroteIsRequest DEF S!Next
<1>9. CASE \E k \in Conn : Connected(k)
  BY <1>9, ConnectedIsConnect DEF S!Next
<1>10. CASE \E c \in Local : Asked(c) \/ \E f \in Fd : Accepted(c, f)
  BY <1>0, <1>2, <1>3, <1>10 DEF S!Next
<1>11. CASE \E k \in Conn : Responded(k)
  BY <1>0, <1>4, <1>11 DEF S!Next
<1>12. QED
  BY <1>5, <1>6, <1>7, <1>8, <1>9, <1>10, <1>11 DEF Effect
-----------------------------------------------------------------------------
(* The two processes. *)
TP == INSTANCE TunnelServer_proofs WITH
        Pid <- {Remote}, Client <- Local,
        st <- tst, fd <- tfd, rb <- trb, up <- tup, crashed <- tcrashed,
        gc_sigterm <- term

EP == INSTANCE Endpoint_proofs WITH
        Pid <- {Device}, Client <- Conn,
        Outcome <- {"connecting"}, st <- est, rb <- erb, up <- eup,
        crashed <- ecrashed, gc_sigterm <- term
-----------------------------------------------------------------------------
(* What the proofs about the two processes assume of their constants. *)
LEMMA DeviceAssumption == TP!TunnelAssumption /\ (TP!NoCollision <=> NoCollision)
<1>1. IsFiniteSet(Bucket) /\ Bucket \subseteq Nat /\ ht_key \in [Fd -> Bucket]
  BY DataPathAssumption
<1>2. MaxBodies \in Nat
  <2>1. Cardinality(Local) \in Nat /\ Cardinality(Conn) \in Nat
    BY DataPathAssumption, FS_CardinalityType
  <2>2. \A m, n \in Nat : m * n \in Nat
    OBVIOUS
  <2>3. MaxMsgs * Cardinality(Local) \in Nat /\ MaxAnswers * Cardinality(Conn) \in Nat
    BY <2>1, <2>2, DataPathAssumption
  <2>4. QED
    BY <2>3 DEF MaxBodies
<1>3. QED
  <2>1. NULL \notin [pid : {Remote}, port_remote : Port] /\ NULL \notin TP!Entry /\ NULL \notin Local
    BY DataPathAssumption DEF TP!Entry
  <2>2. MaxUp \in Nat
    BY DataPathAssumption
  <2>3. QED
    BY <1>1, <1>2, <2>1, <2>2
    DEF TP!TunnelAssumption, TP!NoCollision, NoCollision, TP!IsFiniteSet, IsFiniteSet

(* The same of the other process. *)
LEMMA RemoteAssumption == EP!EndpointAssumption
<1>1. MaxBodies \in Nat /\ MaxUp \in Nat
  BY DeviceAssumption DEF TP!TunnelAssumption
<1>2. QED
  BY <1>1 DEF EP!EndpointAssumption, Key, key_of
-----------------------------------------------------------------------------
(* The steps of DataPath are steps of the processes that the proofs are    *)
(* about.                                                                  *)
LEMMA DeviceSteps ==
  /\ T!Init <=> TP!Init
  /\ \A c : T!Open(c) <=> TP!Open(c)
  /\ T!Running <=> TP!Running
  /\ T!Listed = TP!Listed
  /\ \A pid, port, forced : T!gc_tunnel_add(pid, port, forced) <=> TP!gc_tunnel_add(pid, port, forced)
  /\ \A t, f : T!server_async_client(t, f) <=> TP!server_async_client(t, f)
  /\ \A c, body : T!async_read(c, body) <=> TP!async_read(c, body)
  /\ \A c : T!async_write(c) <=> TP!async_write(c)
  /\ \A c : T!client_error(c) <=> TP!client_error(c)
  /\ \A gone : T!StopTunnels(gone) <=> TP!StopTunnels(gone)
  /\ \A pid : T!gc_tunnel_stop(pid) <=> TP!gc_tunnel_stop(pid)
  /\ \A port, f, body : T!gc_tunnel_response(port, f, body) <=> TP!gc_tunnel_response(port, f, body)
<1> USE DEF T!Range, TP!Range, T!Listed, TP!Listed, T!Linked, TP!Linked, T!Open, TP!Open,
            T!Running, TP!Running, T!lists, TP!lists, T!conns, TP!conns, T!Cons, TP!Cons,
            T!HtInit, TP!HtInit
<1>1. T!Init <=> TP!Init
  BY DEF T!Init, TP!Init
<1>2. \A pid, port, forced : T!gc_tunnel_add(pid, port, forced) <=> TP!gc_tunnel_add(pid, port, forced)
  BY DEF T!gc_tunnel_add, TP!gc_tunnel_add, T!Fresh, TP!Fresh, T!async_server, TP!async_server
<1> USE DEF T!Chain, TP!Chain, T!IsStored, TP!IsStored, T!SelectInSeq, TP!SelectInSeq,
            T!Min, TP!Min, T!Position, TP!Position
<1>3. \A t, f : T!server_async_client(t, f) <=> TP!server_async_client(t, f)
  BY DEF T!server_async_client, TP!server_async_client, T!connector_addclient,
         TP!connector_addclient, T!HtAdd, TP!HtAdd
<1> USE DEF T!gc_packet_sends, TP!gc_packet_sends, T!endpoint_stop, TP!endpoint_stop,
            T!FreeClients, TP!FreeClients
<1>4. \A c, body : T!async_read(c, body) <=> TP!async_read(c, body)
  BY DEF T!async_read, TP!async_read, T!client_data, TP!client_data
<1>5. \A c : T!async_write(c) <=> TP!async_write(c)
  BY DEF T!async_write, TP!async_write
<1>6. \A c : T!client_error(c) <=> TP!client_error(c)
  BY DEF T!client_error, TP!client_error, T!HtRem, TP!HtRem
<1>7. \A gone : T!StopTunnels(gone) <=> TP!StopTunnels(gone)
  BY DEF T!StopTunnels, TP!StopTunnels, T!Stopped, TP!Stopped, T!HeadOf, TP!HeadOf,
         T!Used, TP!Used, T!Among, TP!Among
<1>8. \A t : T!StopMessagesOf(t) = TP!StopMessagesOf(t)
  <2>1. \A ns : T!Ascending(ns) = TP!Ascending(ns)
    BY DEF T!Ascending, TP!Ascending, T!Cardinality, TP!Cardinality
  <2>2. \A t : T!Used(t) = TP!Used(t)
    BY DEF T!Used, TP!Used
  <2>3. QED
    BY <2>1, <2>2 DEF T!StopMessagesOf, TP!StopMessagesOf, T!HeadOf, TP!HeadOf
<1>9. \A gone : T!Among(tunnels, gone) = TP!Among(tunnels, gone)
  BY DEF T!Among, TP!Among
<1>10. \A s : T!FlattenSeq(s) = TP!FlattenSeq(s)
  BY DEF T!FlattenSeq, TP!FlattenSeq
<1>11. \A gone : T!StopMessages(gone) = TP!StopMessages(gone)
  BY <1>8, <1>9, <1>10 DEF T!StopMessages, TP!StopMessages
<1>12. \A pid : T!gc_tunnel_stop(pid) <=> TP!gc_tunnel_stop(pid)
  BY <1>7, <1>11 DEF T!gc_tunnel_stop, TP!gc_tunnel_stop
<1>13. \A port, f : T!tunnel_client_find(port, f) = TP!tunnel_client_find(port, f)
  BY DEF T!tunnel_client_find, TP!tunnel_client_find, T!Answers, TP!Answers, T!HtGet, TP!HtGet
<1>14. \A port, f, body : T!gc_tunnel_response(port, f, body) <=> TP!gc_tunnel_response(port, f, body)
  BY <1>13 DEF T!gc_tunnel_response, TP!gc_tunnel_response, T!gc_gen_ev_send, TP!gc_gen_ev_send
<1>15. QED
  BY <1>1, <1>2, <1>3, <1>4, <1>5, <1>6, <1>7, <1>12, <1>14

(* The same of the steps of the other process. *)
LEMMA RemoteSteps ==
  /\ E!Init <=> EP!Init
  /\ E!Running <=> EP!Running
  /\ \A pid, port, f, body :
       E!gc_endpoint_request(pid, port, f, body) <=> EP!gc_endpoint_request(pid, port, f, body)
  /\ \A pid : E!gc_endpoint_stop(pid) <=> EP!gc_endpoint_stop(pid)
  /\ \A k, body : E!async_read(k, body) <=> EP!async_read(k, body)
  /\ \A k : E!async_write(k) <=> EP!async_write(k)
  /\ \A k : E!endpoint_error(k) <=> EP!endpoint_error(k)
  /\ E!StopEndpoints <=> EP!StopEndpoints
<1> USE DEF E!Running, EP!Running, E!SelectInSeq, EP!SelectInSeq, E!Min, EP!Min,
            E!endpoint_find, EP!endpoint_find, E!FindClient, EP!FindClient,
            E!FindPid, EP!FindPid, E!gc_packet_send, EP!gc_packet_send
<1>1. E!Init <=> EP!Init
  BY DEF E!Init, EP!Init
<1>2. \A pid, port, f, body :
        E!gc_endpoint_request(pid, port, f, body) <=> EP!gc_endpoint_request(pid, port, f, body)
  BY DEF E!gc_endpoint_request, EP!gc_endpoint_request, E!gc_gen_ev_send, EP!gc_gen_ev_send,
         E!endpoint_add, EP!endpoint_add, E!async_client, EP!async_client, E!Cons, EP!Cons
<1> USE DEF E!async_client_shutdown, EP!async_client_shutdown, E!RemoveAt, EP!RemoveAt
<1>3. \A pid : E!gc_endpoint_stop(pid) <=> EP!gc_endpoint_stop(pid)
  BY DEF E!gc_endpoint_stop, EP!gc_endpoint_stop, E!vars, EP!vars
<1>4. \A k, body : E!async_read(k, body) <=> EP!async_read(k, body)
  BY DEF E!async_read, EP!async_read, E!endpoint_recv, EP!endpoint_recv
<1>5. \A k : E!async_write(k) <=> EP!async_write(k)
  BY DEF E!async_write, EP!async_write
<1>6. \A k : E!endpoint_error(k) <=> EP!endpoint_error(k)
  BY DEF E!endpoint_error, EP!endpoint_error
<1>7. E!StopEndpoints <=> EP!StopEndpoints
  BY DEF E!StopEndpoints, EP!StopEndpoints
<1>8. QED
  BY <1>1, <1>2, <1>3, <1>4, <1>5, <1>6, <1>7
-----------------------------------------------------------------------------
(* What makes the tables of both processes correct, and the types of what  *)
(* is between them.                                                        *)
Base == /\ TP!OrphanInv
        /\ Leads
        /\ EP!LinksInv
        /\ \A k \in Conn : est[k] # "dropped"
        /\ tup \in Seq(Request \cup Stop \cup Offline)
        /\ eup \in Seq(Response \cup Denied \cup Offline)
        /\ sent \in [Local \cup Conn -> Nat]
        /\ taken \in [Local -> Seq(Body)]
        /\ owner \in [Conn -> Local \cup {NULL}]
-----------------------------------------------------------------------------
(* Steps that leave the tables of one process alone. *)
LEMMA RemoteKept ==
  ASSUME Base, UNCHANGED <<endpoints, est, erb, got>>
  PROVE  EP!LinksInv' /\ \A k \in Conn : est'[k] # "dropped"
<1>1. erb' \in [Conn -> Seq(Body)] /\ got' \in [Conn -> Seq(Body)] /\ EP!LinksInv
  BY DEF Base, EP!LinksInv, EP!Linkage
<1>2. QED
  BY <1>1, EP!LinksUnchanged, RemoteAssumption DEF Base

(* The same of the device; what is queued for its clients may change. *)
LEMMA DeviceKept ==
  ASSUME Base, UNCHANGED <<tunnels, info, listening, clients, tst, tfd, parent>>,
         trb' \in [Local -> Seq(Body)]
  PROVE  TP!OrphanInv' /\ Leads'
<1>1. UNCHANGED <<TP!lists, clients, tst, tfd, parent>>
  BY DEF TP!lists
<1>2. TP!OrphanInv'
  BY <1>1, TP!OnlyQueued, DeviceAssumption DEF Base
<1>3. QED
  BY <1>2 DEF Base, Leads, Used

(* The types of the tables of the device. *)
LEMMA DeviceTypes ==
  ASSUME Base
  PROVE  /\ info \in [Tunnel -> [pid : {Remote}, port_remote : Port] \cup {NULL}]
         /\ tst \in [Local -> {"unused", "open", "freed"}]
         /\ tfd \in [Local -> Fd \cup {NULL}]
         /\ parent \in [Local -> Tunnel \cup {NULL}]
         /\ trb \in [Local -> Seq(Body)]
         /\ \A c \in Local : Used(c) => info[parent[c]].pid = Remote /\ Where(c) \in Port
         /\ \A c \in OpenLocal : parent[c] \in TP!Listed /\ tfd[c] \in Fd /\ Used(c)
<1>1. /\ info \in [Tunnel -> [pid : {Remote}, port_remote : Port] \cup {NULL}]
      /\ tst \in [Local -> {"unused", "open", "freed"}]
      /\ tfd \in [Local -> Fd \cup {NULL}]
      /\ parent \in [Local -> Tunnel \cup {NULL}]
      /\ trb \in [Local -> Seq(Body)]
  BY DEF Base, TP!OrphanInv, TP!TunnelInv, TP!Shape
<1>2. ASSUME NEW c \in Local, Used(c) PROVE info[parent[c]].pid = Remote /\ Where(c) \in Port
  <2>1. parent[c] \in Tunnel /\ info[parent[c]] # NULL
    BY <1>2 DEF Base, Leads
  <2>2. info[parent[c]] \in [pid : {Remote}, port_remote : Port]
    BY <1>1, <2>1
  <2>3. QED
    BY <2>2 DEF Where
<1>3. ASSUME NEW c \in OpenLocal PROVE parent[c] \in TP!Listed /\ tfd[c] \in Fd /\ Used(c)
  <2>1. TP!Held(c)
    BY DEF Base, TP!OrphanInv, TP!OpenIsHeld, TP!Open, OpenLocal
  <2>2. QED
    BY <2>1 DEF TP!Held, OpenLocal, Used
<1>4. QED
  BY <1>1, <1>2, <1>3

(* A pair reply, and the start of a local client. *)
LEMMA PairStep == ASSUME Base, NEW port \in Port, Pair(port) PROVE Base' /\ Paired
<1>1. TP!gc_tunnel_add(Remote, port, FALSE)
  BY DeviceSteps DEF Pair
<1>2. TP!OrphanInv'
  <2>1. FALSE \in BOOLEAN /\ Remote \in {Remote} /\ TP!OrphanInv
    BY DEF Base
  <2>2. QED
    BY <1>1, <2>1, TP!AddHolds, DeviceAssumption
<1>3. PICK t \in Tunnel : info[t] = NULL /\ info' = [info EXCEPT ![t] = [pid |-> Remote, port_remote |-> port]]
  BY <1>1 DEF TP!gc_tunnel_add, TP!Fresh
<1>4. /\ UNCHANGED <<tst, tfd, parent, trb, tup, taken, sent, owner>>
      /\ UNCHANGED <<endpoints, est, erb, got, eup>>
  BY <1>1 DEF Pair, TP!gc_tunnel_add, remoteVars
<1>5. ASSUME NEW c \in Local, Used(c)
      PROVE  parent[c] \in Tunnel /\ info'[parent[c]] = info[parent[c]] /\ info[parent[c]] # NULL
  <2>1. parent[c] \in Tunnel /\ info[parent[c]] # NULL
    BY <1>5 DEF Base, Leads
  <2>2. QED
    BY <1>3, <2>1, DeviceTypes
<1>6. Leads'
  BY <1>4, <1>5 DEF Leads, Used, Base
<1>7. Base'
  BY <1>2, <1>4, <1>6, RemoteKept DEF Base
<1>8. Paired
  BY <1>4, <1>5 DEF Paired, DeviceSame, RemoteSame, Where
<1>9. QED
  BY <1>7, <1>8

(* A local client is accepted. *)
LEMMA AcceptStep ==
  ASSUME Sparse, Base, NEW t \in Tunnel, NEW f \in Fd, Accept(t, f)
  PROVE  Base' /\ \E c \in Local : Accepted(c, f)
<1>1. TP!server_async_client(t, f) /\ (~Reuse => \A d \in Local : tfd[d] # f)
  BY DeviceSteps DEF Accept
<1>2. Cardinality(OpenLocal) < MaxOpen
  <2>1. {d \in Local : T!Open(d)} = OpenLocal
    BY DEF T!Open, OpenLocal
  <2>2. QED
    BY <2>1 DEF Accept
<1>3. /\ UNCHANGED <<info, trb, tup, taken, sent, owner>>
      /\ UNCHANGED <<endpoints, est, erb, got, eup>>
      /\ t \in TP!Listed
      /\ \A d \in OpenLocal : tfd[d] # f
  BY <1>1 DEF Accept, TP!server_async_client, TP!lists, TP!Linked, TP!Open, OpenLocal, remoteVars
<1>4. \A d \in OpenLocal : ht_key[tfd[d]] # ht_key[f]
  <2>1. CASE NoCollision
    BY <1>3, <2>1, DeviceTypes DEF NoCollision
  <2>2. CASE MaxOpen = 1
    BY <1>2, <2>2, NoneOpen
  <2>3. QED
    BY <2>1, <2>2 DEF Sparse
<1>5. TP!OrphanInv'
  <2>1. \A d \in Local : TP!Open(d) /\ parent[d] = t => ht_key[tfd[d]] # ht_key[f]
    BY <1>4 DEF TP!Open, OpenLocal
  <2>2. QED
    BY <1>1, <2>1, TP!AcceptHolds, DeviceAssumption DEF Base
<1>6. PICK c \in Local : /\ tst[c] = "unused"
                         /\ tst' = [tst EXCEPT ![c] = "open"]
                         /\ tfd' = [tfd EXCEPT ![c] = f]
                         /\ parent' = [parent EXCEPT ![c] = t]
  BY <1>1 DEF TP!server_async_client
<1>7. \A d \in Local : Used(d) => d # c
  BY <1>6 DEF Used
<1>8. \A d \in Local : Used(d) => parent'[d] = parent[d] /\ tfd'[d] = tfd[d]
  BY <1>6, <1>7, DeviceTypes
<1>9. t \in Tunnel /\ info[t] # NULL
  BY <1>3 DEF Base, TP!OrphanInv, TP!ListedLead
<1>10. parent'[c] = t /\ tfd'[c] = f
  BY <1>6, DeviceTypes
<1>11. Leads'
  <2>1. ASSUME NEW d \in Local, Used(d)'
        PROVE  tfd'[d] \in Fd /\ parent'[d] \in Tunnel /\ info'[parent'[d]] # NULL
    <3>1. CASE d = c
      BY <1>3, <1>9, <1>10, <3>1
    <3>2. CASE d # c
      <4>1. Used(d)
        BY <1>6, <2>1, <3>2, DeviceTypes DEF Used
      <4>2. QED
        BY <1>3, <1>8, <4>1 DEF Base, Leads
    <3>3. QED
      BY <3>1, <3>2
  <2>2. QED
    BY <2>1 DEF Leads
<1>12. Base'
  BY <1>5, <1>3, <1>11, RemoteKept DEF Base
<1>13. Accepted(c, f)
  BY <1>1, <1>3, <1>6, <1>8, <1>2 DEF Accepted, Where, RemoteSame
<1>14. QED
  BY <1>12, <1>13

(* What a local client sends, and what it is given. *)
LEMMA LocalSendsStep == ASSUME Base, NEW c \in Local, LocalSends(c) PROVE Base' /\ Asked(c)
<1>1. TP!async_read(c, NextBody(c))
  BY DeviceSteps DEF LocalSends
<1>2. tst[c] = "open" /\ TP!Linked(parent[c])
  <2>1. tst[c] = "open"
    BY <1>1 DEF TP!async_read, TP!Open
  <2>2. QED
    BY <2>1, DeviceTypes DEF OpenLocal, TP!Linked
<1>3. /\ UNCHANGED <<TP!lists, TP!conns, taken, owner, endpoints, est, erb, got, eup>>
      /\ tup' = tup \o <<[type |-> "tunnel_request", to |-> info[parent[c]].pid,
                          port |-> Where(c), fd |-> tfd[c], body |-> NextBody(c)]>>
  BY <1>1, <1>2 DEF LocalSends, TP!async_read, TP!client_data, TP!gc_packet_sends, remoteVars, Where
<1>4. info[parent[c]].pid = Remote /\ Where(c) \in Port /\ tfd[c] \in Fd
  BY <1>2, DeviceTypes DEF OpenLocal
<1>5. sent[c] < MaxMsgs /\ sent' = [sent EXCEPT ![c] = @ + 1]
  BY DEF LocalSends, Sends
<1>6. sent[c] \in Nat /\ sent[c] + 1 \in 1..MaxMsgs
  BY <1>5, DataPathAssumption DEF Base
<1> DEFINE m == [type |-> "tunnel_request", to |-> Remote, port |-> Where(c),
                 fd |-> tfd[c], body |-> NextBody(c)]
<1>7. m \in Request
  BY <1>4, <1>6 DEF Request, NextBody
<1> HIDE DEF m
<1>8. tup' = Append(tup, m) /\ tup' \in Seq(Request \cup Stop \cup Offline)
  <2>1. tup \in Seq(Request \cup Stop \cup Offline) /\ m \in Request \cup Stop \cup Offline
    BY <1>7 DEF Base
  <2>2. tup' = tup \o <<m>>
    BY <1>3, <1>4 DEF m
  <2>3. tup \o <<m>> = Append(tup, m)
    BY <2>1
  <2>4. QED
    BY <2>1, <2>2, <2>3, AppendProperties
<1>9. TP!OrphanInv' /\ Leads'
  BY <1>3, DeviceKept, DeviceTypes DEF TP!lists, TP!conns
<1>10. sent' \in [Local \cup Conn -> Nat]
  BY <1>5, <1>6 DEF Base
<1>11. Base'
  BY <1>3, <1>8, <1>9, <1>10, RemoteKept DEF Base
<1>12. Asked(c)
  BY <1>2, <1>3, <1>5, <1>6, <1>8 DEF Asked, DeviceSame, RemoteSame, Where, TP!lists, TP!conns, m
<1>13. QED
  BY <1>11, <1>12

(* The application behind a local client reads what waits for it.          *)
LEMMA LocalTakesStep == ASSUME Base, NEW c \in Local, LocalTakes(c) PROVE Base' /\ Took(c)
<1>1. TP!async_write(c) /\ taken' = [taken EXCEPT ![c] = Append(@, Head(trb[c]))]
  BY DeviceSteps DEF LocalTakes
<1>2. /\ tst[c] = "open" /\ trb[c] # <<>>
      /\ trb' = [trb EXCEPT ![c] = Tail(@)]
      /\ UNCHANGED <<TP!lists, clients, tst, tfd, parent, tup>>
      /\ UNCHANGED <<endpoints, est, erb, got, eup, sent, owner>>
  BY <1>1 DEF LocalTakes, TP!async_write, TP!Open, remoteVars
<1>3. trb[c] \in Seq(Body) /\ Tail(trb[c]) \in Seq(Body) /\ Head(trb[c]) \in Body
  <2>1. trb[c] \in Seq(Body)
    BY DeviceTypes
  <2>2. QED
    BY <1>2, <2>1, HeadTailProperties
<1>4. trb' \in [Local -> Seq(Body)]
  BY <1>2, <1>3, DeviceTypes
<1>5. taken' \in [Local -> Seq(Body)]
  <2>1. taken[c] \in Seq(Body)
    BY DEF Base
  <2>2. Append(taken[c], Head(trb[c])) \in Seq(Body)
    BY <1>3, <2>1, AppendProperties
  <2>3. QED
    BY <1>1, <2>2 DEF Base
<1>6. TP!OrphanInv' /\ Leads'
  BY <1>2, <1>4, DeviceKept DEF TP!lists
<1>7. Base'
  BY <1>2, <1>5, <1>6, RemoteKept DEF Base
<1>8. Took(c)
  BY <1>1, <1>2 DEF Took, RemoteSame, Where, TP!lists
<1>9. QED
  BY <1>7, <1>8

(* A local client ends. *)
LEMMA LocalEndsStep == ASSUME Base, NEW c \in Local, LocalEnds(c) PROVE Base' /\ LeftAlone(c)
<1>1. TP!client_error(c)
  BY DeviceSteps DEF LocalEnds
<1>2. tst[c] = "open" /\ TP!Linked(parent[c])
  <2>1. tst[c] = "open"
    BY <1>1 DEF TP!client_error, TP!Open
  <2>2. QED
    BY <2>1, DeviceTypes DEF OpenLocal, TP!Linked
<1>3. /\ tup' = tup \o <<TP!endpoint_stop(c)>>
      /\ TP!FreeClients({c})
      /\ UNCHANGED <<TP!lists, tfd, parent, taken, sent, owner>>
      /\ UNCHANGED <<endpoints, est, erb, got, eup>>
  BY <1>1, <1>2 DEF LocalEnds, TP!client_error, TP!gc_packet_sends, remoteVars
<1>4. TP!endpoint_stop(c) \in Stop
  <2>1. info[parent[c]].pid = Remote /\ tfd[c] \in Fd
    BY <1>2, DeviceTypes DEF OpenLocal
  <2>2. QED
    BY <2>1 DEF TP!endpoint_stop, Stop
<1>5. tup' = Append(tup, TP!endpoint_stop(c)) /\ tup' \in Seq(Request \cup Stop \cup Offline)
  <2>1. tup \in Seq(Request \cup Stop \cup Offline) /\ TP!endpoint_stop(c) \in Request \cup Stop \cup Offline
    BY <1>4 DEF Base
  <2>2. tup \o <<TP!endpoint_stop(c)>> = Append(tup, TP!endpoint_stop(c))
    BY <2>1
  <2>3. QED
    BY <1>3, <2>1, <2>2, AppendProperties
<1>6. TP!OrphanInv'
  BY <1>1, TP!ErrorHolds, DeviceAssumption DEF Base
<1>7. \A d \in Local : Used(d)' => Used(d)
  BY <1>2, <1>3, DeviceTypes DEF TP!FreeClients, Used
<1>8. Leads'
  BY <1>3, <1>7 DEF Base, Leads, TP!lists
<1>9. Base'
  BY <1>3, <1>5, <1>6, <1>8, RemoteKept DEF Base
<1>10. LeftAlone(c)
  BY <1>2, <1>3, <1>4, <1>5 DEF LeftAlone, Leave, TP!FreeClients, RemoteSame, Where, TP!lists
<1>11. QED
  BY <1>9, <1>10

(* Every linked endpoint has an open connection. *)
LEMMA LinkedOpen ==
  ASSUME Base, NEW i \in DOMAIN endpoints
  PROVE  endpoints[i] \in EP!Entry /\ endpoints[i].client \in OpenConn
<1>1. endpoints \in Seq(EP!Entry) /\ EP!LinkedIsLive
  BY DEF Base, EP!LinksInv, EP!Linkage
<1>2. endpoints[i] \in EP!Entry /\ endpoints[i].client \in Conn
  BY <1>1, EP!LinkedEntries, RemoteAssumption
<1>3. est[endpoints[i].client] = "open"
  BY <1>1, <1>2 DEF EP!LinkedIsLive, Base
<1>4. QED
  BY <1>2, <1>3 DEF OpenConn

(* The types of the tables of the other process. *)
LEMMA RemoteTypes ==
  ASSUME Base
  PROVE  /\ endpoints \in Seq(EP!Entry)
         /\ est \in [Conn -> EP!State]
         /\ erb \in [Conn -> Seq(Body)]
         /\ got \in [Conn -> Seq(Body)]
  BY DEF Base, EP!LinksInv, EP!Linkage

(* What a connection to the backend reads, and what it is given. *)
LEMMA BackendSendsStep ==
  ASSUME Base, NEW k \in Conn, BackendSends(k) PROVE Base' /\ Responded(k)
<1>1. EP!async_read(k, NextBody(k))
  BY RemoteSteps DEF BackendSends
<1>2. PICK i \in DOMAIN endpoints :
           /\ endpoints[i].client = k
           /\ EP!gc_packet_send([type |-> "tunnel_response", to |-> endpoints[i].pid,
                                 port |-> endpoints[i].backend_port,
                                 fd |-> endpoints[i].remote_fd, body |-> NextBody(k)])
           /\ UNCHANGED <<endpoints, est, erb, got, ecrashed, term>>
  BY <1>1, EP!ReadSends, RemoteAssumption DEF Base
<1>3. est[k] = "open" /\ endpoints[i] \in EP!Entry
  BY <1>2, LinkedOpen DEF OpenConn
<1>4. endpoints[i].pid = Device /\ endpoints[i].backend_port \in Port /\ endpoints[i].remote_fd \in Fd
  BY <1>3 DEF EP!Entry
<1>5. sent[k] < MaxAnswers /\ sent' = [sent EXCEPT ![k] = @ + 1]
  BY DataPathAssumption DEF BackendSends, Sends
<1>6. sent[k] \in Nat /\ sent[k] + 1 \in 1..MaxAnswers
  BY <1>5, DataPathAssumption DEF Base
<1> DEFINE m == [type |-> "tunnel_response", to |-> Device, port |-> endpoints[i].backend_port,
                 fd |-> endpoints[i].remote_fd, body |-> NextBody(k)]
<1>7. m \in Response
  BY <1>4, <1>6 DEF Response, NextBody
<1>8. eup' = Append(eup, m)
  BY <1>2, <1>4 DEF EP!gc_packet_send
<1> HIDE DEF m
<1>9. eup' \in Seq(Response \cup Denied \cup Offline)
  <2>1. eup \in Seq(Response \cup Denied \cup Offline) /\ m \in Response \cup Denied \cup Offline
    BY <1>7 DEF Base
  <2>2. QED
    BY <1>8, <2>1, AppendProperties
<1>10. UNCHANGED <<deviceVars, taken, owner>>
  BY DEF BackendSends
<1>11. TP!OrphanInv' /\ Leads'
  BY <1>10, DeviceKept, DeviceTypes DEF deviceVars
<1>12. sent' \in [Local \cup Conn -> Nat]
  BY <1>5, <1>6 DEF Base
<1>13. Base'
  BY <1>2, <1>9, <1>10, <1>11, <1>12, RemoteKept DEF Base, deviceVars
<1>14. Responded(k)
  <2>1. \E j \in DOMAIN endpoints :
          /\ endpoints[j].client = k
          /\ eup' = Append(eup, [type |-> "tunnel_response", to |-> Device,
                                 port |-> endpoints[j].backend_port,
                                 fd |-> endpoints[j].remote_fd, body |-> NextBody(k)])
    BY <1>2, <1>8 DEF m
  <2>2. DeviceSame /\ RemoteSame /\ UNCHANGED tup
    BY <1>2, <1>10 DEF DeviceSame, RemoteSame, deviceVars, Where
  <2>3. QED
    BY <1>3, <1>5, <1>6, <2>1, <2>2 DEF Responded
<1>15. QED
  BY <1>13, <1>14

(* A backend reads what waits for it.                                      *)
LEMMA BackendTakesStep ==
  ASSUME Base, NEW k \in Conn, BackendTakes(k) PROVE Base' /\ Wrote(k)
<1>1. EP!async_write(k) /\ UNCHANGED <<deviceVars, sent, taken, owner>>
  BY RemoteSteps DEF BackendTakes
<1>2. /\ est[k] = "open" /\ erb[k] # <<>>
      /\ got' = [got EXCEPT ![k] = Append(@, Head(erb[k]))]
      /\ erb' = [erb EXCEPT ![k] = Tail(@)]
      /\ UNCHANGED <<endpoints, est, eup>>
  BY <1>1 DEF EP!async_write
<1>3. EP!LinksInv'
  BY <1>1, EP!WriteLinks, RemoteAssumption DEF Base
<1>4. TP!OrphanInv' /\ Leads'
  BY <1>1, DeviceKept, DeviceTypes DEF deviceVars
<1>5. Base'
  BY <1>1, <1>2, <1>3, <1>4 DEF Base, deviceVars
<1>6. Wrote(k)
  BY <1>1, <1>2 DEF Wrote, DeviceSame, deviceVars, Where
<1>7. QED
  BY <1>5, <1>6

(* An endpoint is unlinked, and its connection shut down. *)
LEMMA UnlinkedCloses ==
  ASSUME Base, NEW i \in DOMAIN endpoints,
         endpoints' = EP!RemoveAt(endpoints, i),
         EP!async_client_shutdown(endpoints[i].client),
         UNCHANGED <<got, owner>>
  PROVE  Close({endpoints[i].client}) /\ ecrashed' = FALSE
<1>1. endpoints[i].client \in OpenConn
  BY LinkedOpen
<1>2. \A j \in DOMAIN endpoints' : \E l \in DOMAIN endpoints : endpoints'[j] = endpoints[l]
  BY RemoteTypes, EP!UnlinkedList, RemoteAssumption
<1>3. /\ est' = [est EXCEPT ![endpoints[i].client] = "freed"]
      /\ erb' = [erb EXCEPT ![endpoints[i].client] = <<>>]
      /\ ecrashed' = FALSE
  BY <1>1, RemoteTypes DEF EP!async_client_shutdown, OpenConn
<1>4. QED
  BY <1>1, <1>2, <1>3, RemoteTypes DEF Close, OpenConn

(* A connection to the backend ends. *)
LEMMA BackendEndsStep ==
  ASSUME Base, NEW k \in Conn, BackendEnds(k) PROVE Base' /\ ClosedAlone(k) /\ ecrashed' = FALSE
<1>1. EP!endpoint_error(k) /\ UNCHANGED <<deviceVars, sent, taken, owner>>
  BY RemoteSteps DEF BackendEnds
<1>2. PICK i \in DOMAIN endpoints : /\ endpoints[i].client = k
                                    /\ endpoints' = EP!RemoveAt(endpoints, i)
                                    /\ EP!async_client_shutdown(endpoints[i].client)
  BY <1>1, EP!ErrorUnlinks, RemoteAssumption DEF Base
<1>3. UNCHANGED <<got, eup>>
  BY <1>1 DEF EP!endpoint_error
<1>4. Close({k}) /\ ecrashed' = FALSE
  BY <1>1, <1>2, <1>3, UnlinkedCloses
<1>5. EP!LinksInv'
  BY <1>1, EP!ErrorLinks, RemoteAssumption DEF Base
<1>6. TP!OrphanInv' /\ Leads'
  BY <1>1, DeviceKept, DeviceTypes DEF deviceVars
<1>7. Base'
  BY <1>1, <1>3, <1>4, <1>5, <1>6 DEF Base, deviceVars, Close
<1>8. ClosedAlone(k)
  BY <1>1, <1>3, <1>4 DEF ClosedAlone, DeviceSame, deviceVars, Where
<1>9. QED
  BY <1>4, <1>7, <1>8

(* The oldest message of a queue, and the others. *)
LEMMA OldestMessage ==
  ASSUME Base
  PROVE  /\ tup # <<>> => /\ Head(tup) \in Request \cup Stop \cup Offline
                          /\ Tail(tup) \in Seq(Request \cup Stop \cup Offline)
         /\ eup # <<>> => /\ Head(eup) \in Response \cup Denied \cup Offline
                          /\ Tail(eup) \in Seq(Response \cup Denied \cup Offline)
<1>1. /\ tup \in Seq(Request \cup Stop \cup Offline)
      /\ eup \in Seq(Response \cup Denied \cup Offline)
  BY DEF Base
<1>2. QED
  BY <1>1, HeadTailProperties

(* A request reaches the other process, which does not allow its port, has *)
(* a connection for it, or makes one.                                      *)
LEMMA RequestStep ==
  ASSUME Base, RemoteReceives, Head(tup).type = "tunnel_request"
  PROVE  Base' /\ (Refused \/ \E k \in Conn : Queued(k) \/ Connected(k)) /\ ecrashed' = ecrashed
<1> DEFINE m == Head(tup)
<1>1. /\ tup # <<>> /\ tup' = Tail(tup)
      /\ EP!gc_endpoint_request(Device, m.port, m.fd, m.body)
      /\ owner' = [k \in Conn |-> IF est[k] = "unused" /\ est'[k] # "unused"
                                  THEN m.body.from ELSE owner[k]]
      /\ UNCHANGED <<tunnels, info, listening, clients, tst, tfd, parent, trb, tcrashed, sent, taken>>
  BY RemoteSteps DEF RemoteReceives
<1>2. m \in Request /\ tup' \in Seq(Request \cup Stop \cup Offline)
  BY <1>1, OldestMessage DEF Stop, Offline
<1> HIDE DEF m
<1>3. m.port \in Port /\ m.fd \in Fd /\ m.body \in Body /\ m.body.from \in Local /\ m.type = "tunnel_request"
  BY <1>2 DEF Request, Body
<1>4. Requested
  BY <1>1, <1>2 DEF Requested, m
<1>5. EP!LinksInv'
  <2>1. Device \in {Device} /\ EP!LinksInv
    BY DEF Base
  <2>2. QED
    BY <1>1, <1>3, <2>1, EP!RequestLinks, RemoteAssumption
<1>6. TP!OrphanInv' /\ Leads'
  BY <1>1, DeviceKept, DeviceTypes
<1>7. owner' \in [Conn -> Local \cup {NULL}]
  BY <1>1, <1>3 DEF Base
<1>8. DeviceSame /\ UNCHANGED sent
  BY <1>1 DEF DeviceSame, Where
<1>9. key_of[Device, m.fd] = <<Device, m.fd>>
  <2>1. <<Device, m.fd>> \in Key /\ \A x \in Key : key_of[x] = x
    BY <1>3 DEF key_of, Key
  <2>2. QED
    BY <2>1
<1>10. CASE m.port \notin Allowed
  <2>1. /\ eup' = Append(eup, [type |-> "tunnel_denied", to |-> Device, port |-> m.port])
        /\ UNCHANGED <<endpoints, est, erb, got, ecrashed>>
    BY <1>1, <1>10 DEF EP!gc_endpoint_request, EP!gc_packet_send
  <2>2. [type |-> "tunnel_denied", to |-> Device, port |-> m.port] \in Denied
    BY <1>3 DEF Denied
  <2>3. eup' \in Seq(Response \cup Denied \cup Offline)
    <3>1. eup \in Seq(Response \cup Denied \cup Offline)
      BY DEF Base
    <3>2. QED
      BY <2>1, <2>2, <3>1, AppendProperties
  <2>4. owner' = owner
    BY <1>1, <2>1 DEF Base
  <2>5. Base'
    BY <1>1, <1>2, <1>5, <1>6, <2>1, <2>3, <2>4 DEF Base
  <2>6. Refused
    BY <1>4, <1>8, <1>10, <2>1, <2>2, <2>4 DEF Refused, RemoteSame, m
  <2>7. QED
    BY <2>1, <2>5, <2>6
<1> DEFINE at == EP!endpoint_find(<<Device, m.fd>>)
<1>11. \/ at = 0 /\ \A i \in DOMAIN endpoints : endpoints[i].key # <<Device, m.fd>>
       \/ at \in DOMAIN endpoints /\ endpoints[at].key = <<Device, m.fd>>
  BY RemoteTypes, EP!FindProperties, RemoteAssumption
<1>12. at = 0 => at \notin DOMAIN endpoints
  BY RemoteTypes, EP!LinkedEntries, RemoteAssumption
<1> HIDE DEF at
<1>13. CASE m.port \in Allowed /\ at # 0
  <2> DEFINE k == endpoints[at].client
  <2>1. at \in DOMAIN endpoints /\ endpoints[at].key = <<Device, m.fd>>
    BY <1>11, <1>13
  <2>2. k \in Conn /\ est[k] = "open"
    BY <2>1, LinkedOpen DEF OpenConn
  <2>3. /\ EP!gc_gen_ev_send(k, m.body)
        /\ UNCHANGED <<endpoints, est, got, eup>>
    BY <1>1, <1>9, <1>13 DEF EP!gc_endpoint_request, at
  <2>4. erb' = [erb EXCEPT ![k] = Append(@, m.body)] /\ ecrashed' = ecrashed
    BY <2>2, <2>3 DEF EP!gc_gen_ev_send
  <2>5. owner' = owner
    BY <1>1, <2>3 DEF Base
  <2>6. Base'
    BY <1>1, <1>2, <1>5, <1>6, <2>3, <2>5 DEF Base
  <2>7. Queued(k)
    BY <1>4, <1>8, <1>13, <2>1, <2>2, <2>3, <2>4, <2>5 DEF Queued, m
  <2>8. QED
    BY <2>2, <2>4, <2>6, <2>7
<1>14. CASE m.port \in Allowed /\ at = 0
  <2> DEFINE e(k) == [key |-> <<Device, m.fd>>, remote_fd |-> m.fd,
                      backend_port |-> m.port, pid |-> Device, client |-> k]
  <2>1. /\ EP!endpoint_add(<<Device, m.fd>>, m.fd, m.port, Device, m.body)
        /\ \A i \in DOMAIN endpoints : endpoints[i].key # <<Device, m.fd>>
    BY <1>1, <1>9, <1>11, <1>12, <1>14 DEF EP!gc_endpoint_request, at
  <2>2. PICK k \in Conn : /\ est[k] = "unused"
                          /\ endpoints' = EP!Cons(e(k), endpoints)
                          /\ est' = [est EXCEPT ![k] = "open"]
                          /\ erb' = [erb EXCEPT ![k] = <<m.body>>]
    BY <2>1 DEF EP!endpoint_add, EP!async_client
  <2>3. UNCHANGED <<got, eup, ecrashed>>
    BY <2>1 DEF EP!endpoint_add
  <2>4. e(k) \in EP!Entry
    BY <1>3 DEF EP!Entry, Key
  <2>5. \A j \in DOMAIN endpoints' :
          endpoints'[j] = e(k) \/ \E i \in DOMAIN endpoints : endpoints'[j] = endpoints[i]
    <3>1. \A ent \in EP!Entry : \A j \in DOMAIN EP!Cons(ent, endpoints) :
            \/ EP!Cons(ent, endpoints)[j] = ent
            \/ \E i \in DOMAIN endpoints : EP!Cons(ent, endpoints)[j] = endpoints[i]
      BY RemoteTypes, EP!LinkedList, RemoteAssumption
    <3> HIDE DEF e
    <3>2. QED
      BY <2>2, <2>4, <3>1
  <2>6. owner' = [owner EXCEPT ![k] = m.body.from]
    BY <1>1, <2>2, RemoteTypes DEF Base
  <2>7. \A l \in Conn : est'[l] # "dropped"
    BY <2>2 DEF Base
  <2>8. Base'
    BY <1>1, <1>2, <1>5, <1>6, <1>7, <2>3, <2>7 DEF Base
  <2>9. Connected(k)
    BY <1>4, <1>8, <1>14, <2>1, <2>2, <2>3, <2>5, <2>6 DEF Connected, m
  <2>10. QED
    BY <2>3, <2>8, <2>9
<1>15. QED
  BY <1>10, <1>13, <1>14

(* A stop message, or the news that the device is offline, reaches the     *)
(* other process.                                                          *)
LEMMA StopStep ==
  ASSUME Base, RemoteReceives, Head(tup).type # "tunnel_request"
  PROVE  Base' /\ Stopped /\ (ecrashed' = ecrashed \/ ~ecrashed')
<1>1. /\ tup # <<>> /\ tup' = Tail(tup)
      /\ EP!gc_endpoint_stop(Device)
      /\ UNCHANGED <<tunnels, info, listening, clients, tst, tfd, parent, trb, tcrashed, sent, taken, owner>>
  BY RemoteSteps DEF RemoteReceives
<1>2. Head(tup) \in Stop \cup Offline /\ tup' \in Seq(Request \cup Stop \cup Offline)
  BY <1>1, OldestMessage DEF Request
<1>3. EP!LinksInv'
  BY <1>1, EP!StopLinks, RemoteAssumption DEF Base
<1>4. TP!OrphanInv' /\ Leads'
  BY <1>1, DeviceKept, DeviceTypes
<1>5. /\ \E ks \in SUBSET Conn : Close(ks)
      /\ ecrashed' = ecrashed \/ ~ecrashed'
      /\ eup' = eup
  <2>1. CASE /\ EP!FindPid(Device) # 0
             /\ EP!async_client_shutdown(endpoints[EP!FindPid(Device)].client)
             /\ endpoints' = EP!RemoveAt(endpoints, EP!FindPid(Device))
             /\ UNCHANGED <<got, eup>>
    <3>1. EP!FindPid(Device) \in DOMAIN endpoints
      BY <2>1, RemoteTypes, EP!FindProperties, RemoteAssumption
    <3>2. endpoints[EP!FindPid(Device)].client \in Conn
      BY <3>1, LinkedOpen DEF OpenConn
    <3>3. Close({endpoints[EP!FindPid(Device)].client}) /\ ecrashed' = FALSE
      BY <1>1, <2>1, <3>1, UnlinkedCloses
    <3>4. QED
      BY <2>1, <3>2, <3>3
  <2>2. CASE UNCHANGED EP!vars
    <3>1. Close({})
      BY <1>1, <2>2, RemoteTypes DEF Close, EP!vars
    <3>2. {} \in SUBSET Conn
      OBVIOUS
    <3>3. QED
      BY <2>2, <3>1, <3>2 DEF EP!vars
  <2>3. QED
    BY <1>1, <2>1, <2>2 DEF EP!gc_endpoint_stop
<1>6. DeviceSame
  BY <1>1 DEF DeviceSame, Where
<1>7. Base'
  BY <1>1, <1>2, <1>3, <1>4, <1>5 DEF Base, Close
<1>8. Stopped
  BY <1>1, <1>2, <1>5, <1>6 DEF Stopped
<1>9. QED
  BY <1>5, <1>7, <1>8

(* A response reaches the device, which has a client for it or has not.    *)
LEMMA ResponseStep ==
  ASSUME Base, DeviceReceives, Head(eup).type = "tunnel_response"
  PROVE  Base' /\ (Dropped \/ \E c \in Local : Delivered(c)) /\ (tcrashed' = tcrashed \/ ~tcrashed')
<1> DEFINE m == Head(eup)
           found == TP!tunnel_client_find(m.port, m.fd)
<1>1. /\ eup # <<>> /\ eup' = Tail(eup)
      /\ TP!gc_tunnel_response(m.port, m.fd, m.body)
      /\ UNCHANGED <<endpoints, est, erb, got, ecrashed, sent, taken, owner>>
  BY DeviceSteps DEF DeviceReceives
<1>2. m \in Response /\ eup' \in Seq(Response \cup Denied \cup Offline)
  BY <1>1, OldestMessage DEF Denied, Offline
<1> HIDE DEF m
<1>3. m.port \in Port /\ m.fd \in Fd /\ m.body \in Body
  BY <1>2 DEF Response, Body
<1>4. /\ UNCHANGED <<tunnels, info, listening, clients, tst, tfd, parent, tup>>
      /\ IF found = NULL THEN UNCHANGED <<trb, tcrashed>> ELSE TP!gc_gen_ev_send(found, m.body)
  BY <1>1 DEF TP!gc_tunnel_response, TP!lists
<1>5. TP!TunnelInv /\ TP!OrphanInv
  BY DEF Base, TP!OrphanInv
<1>6. CASE found = NULL
  <2>1. ASSUME NEW c \in OpenLocal, tfd[c] = m.fd, Where(c) = m.port PROVE FALSE
    <3>1. c \in Local /\ TP!Open(c) /\ TP!Held(c)
      BY <1>5 DEF TP!OrphanInv, TP!OpenIsHeld, TP!Open, OpenLocal
    <3>2. parent[c] \in TP!Listed /\ listening[parent[c]] /\ parent[c] \in Tunnel
      BY <1>5, <3>1, TP!ListedTunnels, DeviceAssumption DEF TP!Held, TP!TunnelInv
    <3>3. TP!HtGet(clients[parent[c]], m.fd) # NULL
      BY <1>3, <1>5, <2>1, <3>1, <3>2, TP!GetFindsHeld, DeviceAssumption
    <3>4. TP!Answers(parent[c], m.port, m.fd)
      BY <2>1, <3>2, <3>3 DEF TP!Answers, Where
    <3>5. found # NULL
      BY <1>3, <1>5, <3>2, <3>4, TP!AnsweredIsFound, DeviceAssumption
    <3>6. QED
      BY <1>6, <3>5
  <2> HIDE DEF found
  <2>2. TP!OrphanInv' /\ Leads'
    BY <1>4, <1>6, DeviceKept, DeviceTypes
  <2>3. Base'
    BY <1>1, <1>2, <1>4, <2>2, RemoteKept DEF Base
  <2>4. Dropped
    BY <1>1, <1>4, <1>6, <2>1 DEF Dropped, DeviceSame, RemoteSame, Where, m
  <2>5. QED
    BY <1>4, <1>6, <2>3, <2>4
<1>7. CASE found # NULL
  <2>1. /\ found \in Local /\ TP!Open(found) /\ Where(found) = m.port
        /\ ht_key[tfd[found]] = ht_key[m.fd] /\ tfd[found] \in Fd
    BY <1>3, <1>5, <1>7, TP!FoundIsHere, DeviceAssumption DEF Where
  <2> HIDE DEF found
  <2>2. tst[found] = "open" /\ (NoCollision => tfd[found] = m.fd)
    BY <1>3, <2>1 DEF NoCollision, TP!Open
  <2>3. trb' = [trb EXCEPT ![found] = Append(@, m.body)] /\ ~tcrashed'
    BY <1>4, <1>7, <2>1 DEF TP!gc_gen_ev_send
  <2>4. trb' \in [Local -> Seq(Body)]
    <3>1. trb[found] \in Seq(Body)
      BY <2>1, DeviceTypes
    <3>2. Append(trb[found], m.body) \in Seq(Body)
      BY <1>3, <3>1, AppendProperties
    <3>3. QED
      BY <2>3, <3>2, DeviceTypes
  <2>5. TP!OrphanInv' /\ Leads'
    BY <1>4, <2>4, DeviceKept
  <2>6. Base'
    BY <1>1, <1>2, <1>4, <2>5, RemoteKept DEF Base
  <2>7. Delivered(found)
    BY <1>1, <1>2, <1>4, <2>1, <2>2, <2>3 DEF Delivered, RemoteSame, Where, m
  <2>8. QED
    BY <2>1, <2>3, <2>6, <2>7
<1>8. QED
  BY <1>6, <1>7

(* The tunnels of the device end, and with them its open clients. *)
LEMMA AllLeave ==
  ASSUME Base, TP!StopTunnels(TP!Listed), taken' = taken
  PROVE  TP!OrphanInv' /\ Leads' /\ Leave(OpenLocal) /\ ~tcrashed'
<1>1. /\ TP!FreeClients(TP!Stopped(TP!Listed))
      /\ tcrashed' = (\E c \in TP!Stopped(TP!Listed) : ~TP!Open(c))
      /\ UNCHANGED <<info, tfd, parent>>
  BY DEF TP!StopTunnels
<1>2. TP!OrphanInv /\ TP!TunnelInv /\ TP!Listed \in SUBSET TP!Listed
  BY DEF Base, TP!OrphanInv
<1>3. TP!OrphanInv'
  BY <1>2, TP!StopHolds, DeviceAssumption
<1>4. TP!Stopped(TP!Listed) \cap Local = OpenLocal
  <2>1. ASSUME NEW c \in OpenLocal PROVE c \in TP!Stopped(TP!Listed)
    <3>1. c \in Local /\ TP!Open(c) /\ parent[c] \in TP!Listed
      BY DeviceTypes DEF OpenLocal, TP!Open
    <3>2. QED
      BY <1>2, <3>1, TP!OpenIsStopped, DeviceAssumption
  <2>2. ASSUME NEW c \in TP!Stopped(TP!Listed) PROVE TP!Open(c)
    BY <1>2, TP!StoppedWereOpen, DeviceAssumption
  <2>3. QED
    BY <2>1, <2>2 DEF OpenLocal, TP!Open
<1>5. ~tcrashed'
  BY <1>1, <1>2, TP!StoppedWereOpen, DeviceAssumption
<1>6. /\ tst' = [c \in Local |-> IF c \in OpenLocal THEN "freed" ELSE tst[c]]
      /\ trb' = [c \in Local |-> IF c \in OpenLocal THEN <<>> ELSE trb[c]]
  BY <1>1, <1>4 DEF TP!FreeClients
<1>7. Leads'
  <2>1. \A c \in Local : Used(c)' => Used(c)
    BY <1>6 DEF Used, OpenLocal
  <2>2. QED
    BY <1>1, <2>1 DEF Base, Leads
<1>8. Leave(OpenLocal)
  BY <1>1, <1>6 DEF Leave, OpenLocal, Where
<1>9. QED
  BY <1>3, <1>5, <1>7, <1>8

(* The news that the other process is offline reaches the device. *)
LEMMA OfflineStep ==
  ASSUME Base, DeviceReceives, Head(eup).type = "offline"
  PROVE  Base' /\ HeardOffline /\ ~tcrashed'
<1>1. /\ eup # <<>> /\ eup' = Tail(eup)
      /\ TP!gc_tunnel_stop(Remote)
      /\ UNCHANGED <<endpoints, est, erb, got, ecrashed, sent, taken, owner>>
  BY DeviceSteps DEF DeviceReceives
<1>2. {t \in TP!Listed : info[t].pid = Remote} = TP!Listed
  <2>1. ASSUME NEW t \in TP!Listed PROVE info[t].pid = Remote
    <3>1. t \in Tunnel /\ info[t] # NULL
      BY TP!ListedTunnels, DeviceAssumption DEF Base, TP!OrphanInv, TP!ListedLead, TP!TunnelInv
    <3>2. info[t] \in [pid : {Remote}, port_remote : Port]
      BY <3>1, DeviceTypes
    <3>3. QED
      BY <3>2
  <2>2. QED
    BY <2>1
<1>3. TP!gc_packet_sends(TP!StopMessages(TP!Listed)) /\ TP!StopTunnels(TP!Listed)
  BY <1>1, <1>2 DEF TP!gc_tunnel_stop
<1>4. TP!StopMessages(TP!Listed) \in Seq(Stop)
  BY TP!StopMessagesSeq, DeviceAssumption DEF Base, Stop
<1>5. tup' = tup \o TP!StopMessages(TP!Listed)
  BY <1>3 DEF TP!gc_packet_sends
<1>6. tup' \in Seq(Request \cup Stop \cup Offline)
  <2> DEFINE ms == TP!StopMessages(TP!Listed)
  <2>1. ms \in Seq(Request \cup Stop \cup Offline)
    <3>1. \A i \in 1..Len(ms) : ms[i] \in Request \cup Stop \cup Offline
      BY <1>4, ElementOfSeq
    <3>2. Len(ms) \in Nat /\ ms = [i \in 1..Len(ms) |-> ms[i]]
      BY <1>4, LenProperties
    <3> HIDE DEF ms
    <3>3. QED
      BY <3>1, <3>2, IsASeq
  <2>2. tup \in Seq(Request \cup Stop \cup Offline)
    BY DEF Base
  <2> HIDE DEF ms
  <2>3. tup \o ms \in Seq(Request \cup Stop \cup Offline)
    BY <2>1, <2>2, ConcatProperties
  <2>4. QED
    BY <1>5, <2>3 DEF ms
<1>7. TP!OrphanInv' /\ Leads' /\ Leave(OpenLocal) /\ ~tcrashed'
  BY <1>1, <1>3, AllLeave
<1>8. eup' \in Seq(Response \cup Denied \cup Offline)
  BY <1>1, OldestMessage
<1>9. Base'
  BY <1>1, <1>6, <1>7, <1>8, RemoteKept DEF Base
<1>10. HeardOffline
  BY <1>1, <1>4, <1>5, <1>7 DEF HeardOffline, RemoteSame
<1>11. QED
  BY <1>7, <1>9, <1>10

(* A tunnel_denied reaches the device. *)
LEMMA DeniedStep ==
  ASSUME Base, DeviceReceives, Head(eup).type = "tunnel_denied"
  PROVE  Base' /\ Dropped /\ Head(eup) \in Denied
<1>1. /\ eup # <<>> /\ eup' = Tail(eup)
      /\ UNCHANGED <<tunnels, info, listening, clients, tst, tfd, parent, trb, tup>>
      /\ UNCHANGED <<endpoints, est, erb, got, sent, taken, owner>>
  BY DEF DeviceReceives
<1>2. Head(eup) \in Denied /\ Head(eup) \notin Response /\ eup' \in Seq(Response \cup Denied \cup Offline)
  BY <1>1, OldestMessage DEF Response, Offline
<1>3. TP!OrphanInv' /\ Leads'
  BY <1>1, DeviceKept, DeviceTypes
<1>4. Base'
  BY <1>1, <1>2, <1>3, RemoteKept DEF Base
<1>5. Dropped
  BY <1>1, <1>2 DEF Dropped, DeviceSame, RemoteSame, Where
<1>6. QED
  BY <1>2, <1>4, <1>5
(* A process loses the relay. *)
LEMMA DeviceLosesStep ==
  ASSUME Base, DeviceLosesRelay PROVE Base' /\ DeviceLost /\ ~tcrashed'
<1>1. /\ TP!StopTunnels(TP!Listed)
      /\ UNCHANGED <<endpoints, est, erb, got, ecrashed, sent, taken, owner>>
  <2>1. T!StopTunnels(T!Listed) <=> TP!StopTunnels(TP!Listed)
    BY DeviceSteps
  <2>2. QED
    BY <2>1 DEF DeviceLosesRelay
<1>2. PICK i \in 0..Len(tup), j \in 0..Len(eup) : tup' = Taken(tup, i) /\ eup' = Left(eup, j)
  BY DEF DeviceLosesRelay
<1>3. TP!OrphanInv' /\ Leads' /\ Leave(OpenLocal) /\ ~tcrashed'
  BY <1>1, AllLeave
<1>4. tup' \in Seq(Request \cup Stop \cup Offline) /\ eup' \in Seq(Response \cup Denied \cup Offline)
  <2>1. [type |-> "offline"] \in Offline
    BY DEF Offline
  <2>2. QED
    BY <1>2, <2>1, KeptByRelay DEF Base
<1>5. Base'
  BY <1>1, <1>3, <1>4, RemoteKept DEF Base
<1>6. DeviceLost
  BY <1>1, <1>2, <1>3 DEF DeviceLost, RemoteSame
<1>7. QED
  BY <1>3, <1>5, <1>6

(* Remote loses the relay: every endpoint is stopped.                      *)
LEMMA RemoteLosesStep ==
  ASSUME Base, RemoteLosesRelay PROVE Base' /\ RemoteLost /\ ~ecrashed'
<1>1. /\ EP!StopEndpoints
      /\ UNCHANGED <<tunnels, info, listening, clients, tst, tfd, parent, trb, tcrashed,
                     sent, taken, owner>>
  BY RemoteSteps DEF RemoteLosesRelay
<1>2. PICK i \in 0..Len(eup), j \in 0..Len(tup) : eup' = Taken(eup, i) /\ tup' = Left(tup, j)
  BY DEF RemoteLosesRelay
<1>3. EP!LinksInv' /\ DOMAIN endpoints' = {}
  BY <1>1, EP!StopAllLinks, RemoteAssumption DEF Base
<1> DEFINE linked == {endpoints[l].client : l \in DOMAIN endpoints}
<1>4. linked = OpenConn
  <2>1. linked \subseteq OpenConn
    BY LinkedOpen
  <2>2. ASSUME NEW k \in OpenConn PROVE k \in linked
    <3>1. \E l \in DOMAIN endpoints : endpoints[l].client = k
      BY DEF OpenConn, Base, EP!LinksInv, EP!OpenIsLinked
    <3>2. QED
      BY <3>1
  <2>3. QED
    BY <2>1, <2>2
<1>5. /\ est' = [k \in Conn |-> IF k \in OpenConn THEN "freed" ELSE est[k]]
      /\ erb' = [k \in Conn |-> IF k \in OpenConn THEN <<>> ELSE erb[k]]
      /\ ecrashed' = (\E k \in OpenConn : est[k] # "open")
      /\ got' = got
  <2>1. /\ est' = [k \in Conn |-> IF k \in linked /\ est[k] = "open" THEN "freed" ELSE est[k]]
        /\ erb' = [k \in Conn |-> IF k \in linked THEN <<>> ELSE erb[k]]
        /\ ecrashed' = (\E k \in linked : est[k] # "open")
        /\ got' = got
    BY <1>1 DEF EP!StopEndpoints
  <2> HIDE DEF linked
  <2>2. QED
    BY <1>4, <2>1 DEF OpenConn
<1>6. Close(OpenConn) /\ ~ecrashed'
  BY <1>1, <1>3, <1>5 DEF Close, OpenConn
<1>7. tup' \in Seq(Request \cup Stop \cup Offline) /\ eup' \in Seq(Response \cup Denied \cup Offline)
  <2>1. [type |-> "offline"] \in Offline
    BY DEF Offline
  <2>2. QED
    BY <1>2, <2>1, KeptByRelay DEF Base
<1>8. TP!OrphanInv' /\ Leads'
  BY <1>1, DeviceKept, DeviceTypes
<1>9. \A k \in Conn : est'[k] # "dropped"
  BY <1>5 DEF Base
<1>10. Base'
  BY <1>1, <1>3, <1>7, <1>8, <1>9 DEF Base
<1>11. RemoteLost
  BY <1>1, <1>2, <1>6 DEF RemoteLost, DeviceSame, Where
<1>12. QED
  BY <1>6, <1>10, <1>11
-----------------------------------------------------------------------------
(* The processes start with empty tables. *)
LEMMA BaseInit == ASSUME Init PROVE Base
<1>1. TP!Init /\ EP!Init
  BY DeviceSteps, RemoteSteps DEF Init
<1>2. TP!OrphanInv
  <2>1. TP!TunnelInv
    BY <1>1, TP!TunnelInit, DeviceAssumption
  <2>2. TP!Listed = {}
    BY <1>1 DEF TP!Init, TP!Listed, TP!Range
  <2>3. trb = [c \in Local |-> <<>>] /\ \A c \in Local : ~TP!Open(c)
    BY <1>1 DEF TP!Init, TP!Open
  <2>4. QED
    BY <2>1, <2>2, <2>3, EmptySeq
    DEF TP!OrphanInv, TP!OpenIsHeld, TP!OneFdEach, TP!ListedLead
<1>3. EP!LinksInv
  BY <1>1, EP!InitLinks, RemoteAssumption
<1>4. Leads
  BY <1>1 DEF TP!Init, Leads, Used
<1>5. \A k \in Conn : est[k] # "dropped"
  BY <1>1 DEF EP!Init
<1>6. tup = <<>> /\ eup = <<>>
  BY <1>1 DEF TP!Init, EP!Init
<1>7. /\ sent \in [Local \cup Conn -> Nat]
      /\ taken \in [Local -> Seq(Body)]
      /\ owner \in [Conn -> Local \cup {NULL}]
  BY EmptySeq DEF Init
<1>8. QED
  BY <1>2, <1>3, <1>4, <1>5, <1>6, <1>7, EmptySeq DEF Base

(* Nothing at all changes. *)
LEMMA BaseKept == ASSUME Base, UNCHANGED vars PROVE Base' /\ Paired
<1>1. /\ UNCHANGED <<tunnels, info, listening, clients, tst, tfd, parent, trb, tup>>
      /\ UNCHANGED <<endpoints, est, erb, got, eup, sent, taken, owner>>
  BY DEF vars, deviceVars, remoteVars
<1>2. TP!OrphanInv' /\ Leads'
  BY <1>1, DeviceKept, DeviceTypes
<1>3. Base'
  BY <1>1, <1>2, RemoteKept DEF Base
<1>4. Paired
  BY <1>1 DEF Paired, DeviceSame, RemoteSame, Where
<1>5. QED
  BY <1>3, <1>4

(* A message reaches one of the processes. *)
LEMMA RemoteReceivesStep ==
  ASSUME Base, RemoteReceives
  PROVE  /\ Base'
         /\ Refused \/ Stopped \/ \E k \in Conn : Queued(k) \/ Connected(k)
         /\ ecrashed' = ecrashed \/ ~ecrashed'
  BY RequestStep, StopStep

(* A message reaches the device.                                           *)
LEMMA DeviceReceivesStep ==
  ASSUME Base, DeviceReceives
  PROVE  /\ Base'
         /\ Dropped \/ HeardOffline \/ \E c \in Local : Delivered(c)
         /\ tcrashed' = tcrashed \/ ~tcrashed' \/ Head(eup) \in Denied
<1>1. Head(eup).type \in {"tunnel_response", "offline", "tunnel_denied"}
  BY DEF DeviceReceives
<1>2. QED
  BY <1>1, ResponseStep, OfflineStep, DeniedStep

(* What every step keeps, and what it does to the two processes.           *)
LEMMA Steps == ASSUME Sparse, Base, [Next]_vars PROVE Base' /\ Effect
<1>1. CASE UNCHANGED vars
  BY <1>1, BaseKept DEF Effect
<1>2. CASE \E port \in Port : Pair(port)
  BY <1>2, PairStep DEF Effect
<1>3. CASE \E t \in Tunnel, f \in Fd : Accept(t, f)
  BY <1>3, AcceptStep DEF Effect
<1>4. ASSUME NEW c \in Local, LocalSends(c) \/ LocalTakes(c) \/ LocalEnds(c)
      PROVE  Base' /\ Effect
  BY <1>4, LocalSendsStep, LocalTakesStep, LocalEndsStep DEF Effect
<1>5. ASSUME NEW k \in Conn, BackendSends(k) \/ BackendTakes(k) \/ BackendEnds(k)
      PROVE  Base' /\ Effect
  BY <1>5, BackendSendsStep, BackendTakesStep, BackendEndsStep DEF Effect
<1>6. CASE RemoteReceives
  BY <1>6, RemoteReceivesStep DEF Effect
<1>7. CASE DeviceReceives
  BY <1>7, DeviceReceivesStep DEF Effect
<1>8. CASE DeviceLosesRelay
  BY <1>8, DeviceLosesStep DEF Effect
<1>9. CASE RemoteLosesRelay
  BY <1>9, RemoteLosesStep DEF Effect
<1>10. QED
  BY <1>1, <1>2, <1>3, <1>4, <1>5, <1>6, <1>7, <1>8, <1>9 DEF Next

(* The tables of both processes stay correct. *)
LEMMA BaseAlways == ASSUME Sparse PROVE Spec => []Base
<1>1. Base /\ [Next]_vars => Base'
  BY Steps
<1>2. QED
  BY <1>1, BaseInit, PTL DEF Spec

(* What the lists and tables of both processes show of the ends follows    *)
(* from what makes them correct.                                           *)
LEMMA BaseEnds == (Base => Ends) /\ (Base' => Ends')
<1>1. Base => Ends
  <2>1. SUFFICES ASSUME Base PROVE Ends
    OBVIOUS
  <2>2. /\ endpoints \in Seq(E!Entry) /\ E!KeysUnique /\ E!OpenIsLinked
        /\ est \in [Conn -> E!State]
    BY <2>1, RemoteTypes DEF Base, EP!LinksInv, EP!Entry, E!Entry, EP!State, E!State,
       EP!KeysUnique, E!KeysUnique, EP!OpenIsLinked, E!OpenIsLinked
  <2>3. \A i \in DOMAIN endpoints : endpoints[i].client \in OpenConn
    BY <2>1, LinkedOpen
  <2>4. QED
    BY <2>1, <2>2, <2>3, DeviceTypes, RemoteTypes DEF Base, Ends
<1>2. QED
  BY <1>1, PTL
-----------------------------------------------------------------------------
(* Nothing has crashed, and no request was denied. *)
NoCrash == Base /\ NoDenial /\ NeverCrashes

(* No step but the receipt of a denial crashes a process. *)
LEMMA CrashStep ==
  ASSUME NoCrash, [Next]_vars PROVE NeverCrashes'
<1>1. Base /\ ~tcrashed /\ ~ecrashed
  BY DEF NoCrash, NeverCrashes
<1>2. ASSUME NEW port \in Port, Pair(port) PROVE NeverCrashes'
  <2>1. TP!gc_tunnel_add(Remote, port, FALSE)
    BY <1>2, DeviceSteps DEF Pair
  <2>2. UNCHANGED <<tcrashed, ecrashed>>
    BY <1>2, <2>1 DEF Pair, TP!gc_tunnel_add, remoteVars
  <2>3. QED
    BY <1>1, <2>2 DEF NeverCrashes
<1>3. ASSUME NEW t \in Tunnel, NEW f \in Fd, Accept(t, f) PROVE NeverCrashes'
  <2>1. TP!server_async_client(t, f)
    BY <1>3, DeviceSteps DEF Accept
  <2>2. UNCHANGED <<tcrashed, ecrashed>>
    BY <1>3, <2>1 DEF Accept, TP!server_async_client, remoteVars
  <2>3. QED
    BY <1>1, <2>2 DEF NeverCrashes
<1>4. ASSUME NEW c \in Local, LocalSends(c) \/ LocalEnds(c) PROVE NeverCrashes'
  <2>1. TP!async_read(c, NextBody(c)) \/ TP!client_error(c)
    BY <1>4, DeviceSteps DEF LocalSends, LocalEnds
  <2>2. TP!Open(c)
    BY <2>1 DEF TP!async_read, TP!client_error
  <2>3. TP!Linked(parent[c])
    BY <1>1, <2>2, DeviceTypes DEF OpenLocal, TP!Open, TP!Linked
  <2>4. tcrashed' = tcrashed
    BY <2>1, <2>3 DEF TP!async_read, TP!client_data, TP!client_error
  <2>5. ecrashed' = ecrashed
    BY <1>4 DEF LocalSends, LocalEnds, remoteVars
  <2>6. QED
    BY <1>1, <2>4, <2>5 DEF NeverCrashes
<1>5. ASSUME NEW c \in Local, LocalTakes(c) PROVE NeverCrashes'
  <2>1. TP!async_write(c)
    BY <1>5, DeviceSteps DEF LocalTakes
  <2>2. UNCHANGED <<tcrashed, ecrashed>>
    BY <1>5, <2>1 DEF LocalTakes, TP!async_write, remoteVars
  <2>3. QED
    BY <1>1, <2>2 DEF NeverCrashes
<1>6. ASSUME NEW k \in Conn, BackendSends(k) PROVE NeverCrashes'
  <2>1. EP!async_read(k, NextBody(k))
    BY <1>6, RemoteSteps DEF BackendSends
  <2>2. ecrashed' = ecrashed
    BY <1>1, <2>1, EP!ReadSends, RemoteAssumption DEF Base
  <2>3. tcrashed' = tcrashed
    BY <1>6 DEF BackendSends, deviceVars
  <2>4. QED
    BY <1>1, <2>2, <2>3 DEF NeverCrashes
<1>7. ASSUME NEW k \in Conn, BackendTakes(k) PROVE NeverCrashes'
  <2>1. EP!async_write(k)
    BY <1>7, RemoteSteps DEF BackendTakes
  <2>2. UNCHANGED <<tcrashed, ecrashed>>
    BY <1>7, <2>1 DEF BackendTakes, EP!async_write, deviceVars
  <2>3. QED
    BY <1>1, <2>2 DEF NeverCrashes
<1>8. ASSUME NEW k \in Conn, BackendEnds(k) PROVE NeverCrashes'
  <2>1. ecrashed' = FALSE
    BY <1>1, <1>8, BackendEndsStep
  <2>2. tcrashed' = tcrashed
    BY <1>8 DEF BackendEnds, deviceVars
  <2>3. QED
    BY <1>1, <2>1, <2>2 DEF NeverCrashes
<1>9. CASE RemoteReceives
  <2>1. ~ecrashed'
    BY <1>1, <1>9, RemoteReceivesStep
  <2>2. tcrashed' = tcrashed
    BY <1>9 DEF RemoteReceives
  <2>3. QED
    BY <1>1, <2>1, <2>2 DEF NeverCrashes
<1>10. CASE DeviceReceives
  <2>1. Head(eup) \notin Denied
    <3>1. Head(eup) \in Response \cup Offline
      BY <1>10, HeadTailProperties DEF NoCrash, NoDenial, DeviceReceives
    <3>2. QED
      BY <3>1 DEF Response, Offline, Denied
  <2>2. ~tcrashed'
    BY <1>1, <1>10, <2>1, DeviceReceivesStep
  <2>3. ecrashed' = ecrashed
    BY <1>10 DEF DeviceReceives
  <2>4. QED
    BY <1>1, <2>2, <2>3 DEF NeverCrashes
<1>11. CASE DeviceLosesRelay
  <2>1. ~tcrashed' /\ ecrashed' = ecrashed
    BY <1>1, <1>11, DeviceLosesStep DEF DeviceLosesRelay
  <2>2. QED
    BY <1>1, <2>1 DEF NeverCrashes
<1>12. CASE RemoteLosesRelay
  <2>1. ~ecrashed' /\ tcrashed' = tcrashed
    BY <1>1, <1>12, RemoteLosesStep DEF RemoteLosesRelay
  <2>2. QED
    BY <1>1, <2>1 DEF NeverCrashes
<1>13. CASE UNCHANGED vars
  BY <1>1, <1>13 DEF NeverCrashes, vars, deviceVars, remoteVars
<1>14. QED
  BY <1>2, <1>3, <1>4, <1>5, <1>6, <1>7, <1>8, <1>9, <1>10, <1>11, <1>12, <1>13 DEF Next

(* When Remote allows every port that it is asked for, and no two clients  *)
(* that are open at once have descriptors of one bucket, no interleaving   *)
(* of the two processes, and no loss of the relay, makes either of them    *)
(* abort or follow a pointer to freed memory.                              *)
THEOREM NeitherCrashes ==
  ASSUME Sparse, Port \subseteq Allowed PROVE Spec => []NeverCrashes
<1>1. Init => NoCrash
  <2>1. Init => eup = <<>> /\ ~tcrashed /\ ~ecrashed
    BY DEF Init, T!Init, E!Init
  <2>2. QED
    BY <2>1, BaseInit, EmptySeq DEF NoCrash, NoDenial, NeverCrashes
<1>2. NoCrash /\ [Next]_vars => NoCrash'
  BY Steps, BaseEnds, NoDenialStep, CrashStep DEF NoCrash
<1>3. Spec => []NoCrash
  BY <1>1, <1>2, PTL DEF Spec
<1>4. NoCrash => NeverCrashes
  BY DEF NoCrash
<1>5. QED
  BY <1>3, <1>4, PTL
(* Each backend reads what a client sent without a gap, a repetition or a  *)
(* change of order, in everything that it reads from that client: the      *)
(* queue of the relay, the lookup of the endpoint by its descriptor and    *)
(* the send list keep the order, and what is lost with the relay's         *)
(* connection is at the end of it.  Descriptors may be used again and the  *)
(* relay be lost at will, but no two clients that are open at once have    *)
(* descriptors of one bucket.                                              *)
THEOREM RequestsStayInOrder == ASSUME Sparse PROVE Spec => []RequestsInOrder
<1> DEFINE I == Base /\ Faithful /\ Order
<1>1. Init => I
  BY BaseInit, FaithfulInit, OrderInit
<1>2. I /\ [Next]_vars => I'
  BY Steps, BaseEnds, FaithfulStep, OrderStep
<1>3. I => RequestsInOrder
  <2>1. ASSUME I, NEW k \in Conn PROVE Consecutive(got[k])
    <3>1. got[k] \in Seq(Body) /\ erb[k] \in Seq(Body)
      BY <2>1, RemoteTypes
    <3>2. Consecutive(got[k] \o erb[k])
      BY <2>1 DEF Order, All
    <3>3. QED
      BY <3>1, <3>2, BehindEachOther
  <2>2. QED
    BY <2>1 DEF RequestsInOrder
<1> HIDE DEF I
<1>4. QED
  BY <1>1, <1>2, <1>3, PTL DEF Spec
(* The descriptor of a client leads to its connection, and back. *)
LEMMA OwnersAlways ==
  ASSUME ~Reuse, Sparse PROVE Spec => [](Base /\ Faithful /\ FdIsName /\ Owned)
<1> DEFINE I == Base /\ Faithful /\ FdIsName /\ Owned
<1>1. Init => I
  BY BaseInit, FaithfulInit, RoutingInit DEF Routing
<1>2. I /\ [Next]_vars => I'
  <2>1. ASSUME I, [Next]_vars PROVE I'
    <3>1. Base' /\ Effect /\ Ends
      BY <2>1, Steps, BaseEnds
    <3>2. QED
      BY <2>1, <3>1, FaithfulStep, FdIsNameStep, OwnedStep
  <2>2. QED
    BY <2>1
<1> HIDE DEF I
<1>3. Spec => []I
  BY <1>1, <1>2, PTL DEF Spec
<1>4. QED
  BY <1>3 DEF I

LEMMA RoutingAlways ==
  ASSUME ~Reuse, NoCollision PROVE Spec => [](Base /\ Faithful /\ Routing)
<1>1. Init => Base /\ Faithful /\ Routing
  BY BaseInit, FaithfulInit, RoutingInit
<1>2. Base /\ Faithful /\ Routing /\ [Next]_vars => (Base /\ Faithful /\ Routing)'
  <2>1. ASSUME Base, Faithful, Routing, [Next]_vars PROVE Base' /\ Faithful' /\ Routing'
    <3>1. Base' /\ Effect /\ Ends
      BY <2>1, Steps, BaseEnds DEF Sparse
    <3>2. Faithful'
      BY <2>1, <3>1, FaithfulStep
    <3>3. FdIsName' /\ Owned'
      BY <2>1, <3>1, FdIsNameStep, OwnedStep DEF Routing
    <3>4. Returned'
      BY <2>1, <3>1, ReturnedStep
    <3>5. QED
      BY <3>1, <3>2, <3>3, <3>4 DEF Routing
  <2>2. QED
    BY <2>1
<1>3. QED
  BY <1>1, <1>2, PTL DEF Spec

(* tunnel.h: a response is a "Message to deliver to our client that made   *)
(* request earlier".  What a local client reads came from a connection     *)
(* that was opened for it, as long as no descriptor is used again and no   *)
(* two share a bucket: the other process is told descriptors and not       *)
(* clients, and the device finds no more than a bucket, so that a response *)
(* still on its way when a client ends goes to the next client with that   *)
(* descriptor, or in that bucket.                                          *)
THEOREM ResponsesReachTheirOwner ==
  ASSUME ~Reuse, NoCollision PROVE Spec => []ResponseToOwner
<1>1. Routing => ResponseToOwner
  <2>1. ASSUME Routing, NEW c \in Local, NEW i \in DOMAIN taken[c]
        PROVE  owner[taken[c][i].from] = c
    <3>1. taken[c] \in Seq(Given(c))
      BY <2>1 DEF Routing, Returned
    <3>2. taken[c][i] \in Given(c)
      BY <2>1, <3>1, ElementOfSeq, LenProperties
    <3>3. QED
      BY <3>2 DEF Given
  <2>2. QED
    BY <2>1 DEF ResponseToOwner
<1>2. QED
  BY <1>1, RoutingAlways, PTL

(* README.md: "if you go to port 1230, all your data will be redirected to *)
(* port 22".  What waits to be written to a backend came in on a tunnel to *)
(* the port that the connection is to, as long as no descriptor is used    *)
(* again and no two clients that are open at once share a bucket.          *)
THEOREM PortsAreRight == ASSUME ~Reuse, Sparse PROVE Spec => []RightPort
<1>1. Base /\ Faithful /\ Owned => RightPort
  <2>1. ASSUME Base, Faithful, Owned, NEW k \in Conn, NEW i \in DOMAIN erb[k]
        PROVE  \E e \in DOMAIN endpoints : /\ endpoints[e].client = k
                 /\ endpoints[e].backend_port = info[parent[erb[k][i].from]].port_remote
    <3>1. got[k] \in Seq(Body) /\ erb[k] \in Seq(Body)
      BY <2>1, RemoteTypes
    <3>2. i \in 1..Len(erb[k]) /\ erb[k] # <<>>
      BY <2>1, <3>1, LenProperties
    <3>3. est[k] = "open"
      BY <2>1, <3>2 DEF Faithful, Drained
    <3>4. PICK e \in DOMAIN endpoints : endpoints[e].client = k
      BY <2>1, <3>3 DEF Base, EP!LinksInv, EP!OpenIsLinked
    <3>5. All(k) \in Seq(From(owner[k])) /\ endpoints[e].backend_port = Where(owner[k])
      BY <2>1, <3>3, <3>4 DEF Owned
    <3>6. erb[k][i] \in From(owner[k])
      BY <3>1, <3>2, <3>5, FirstPart DEF All
    <3>7. QED
      BY <3>4, <3>5, <3>6 DEF From, Where
  <2>2. QED
    BY <2>1 DEF RightPort
<1>2. QED
  BY <1>1, OwnersAlways, PTL
(* Which step closes a connection. *)
LEMMA ClosingStep ==
  ASSUME Sparse, Base, Faithful, Alone, [Next]_vars,
         NEW k \in Conn, est[k] = "open", est'[k] # "open"
  PROVE  BackendEnds(k) \/ tst[owner[k]] = "freed" \/ RemoteLosesRelay
<1>0. est \in [Conn -> EP!State]
  BY RemoteTypes
<1>1. ASSUME RemoteSame PROVE FALSE
  BY <1>1 DEF RemoteSame
<1>2. CASE UNCHANGED vars
  BY <1>2 DEF vars, remoteVars
<1>3. CASE \E port \in Port : Pair(port)
  BY <1>1, <1>3, PairStep DEF Paired
<1>4. CASE \E t \in Tunnel, f \in Fd : Accept(t, f)
  BY <1>1, <1>4, AcceptStep DEF Accepted
<1>5. ASSUME NEW c \in Local, LocalSends(c) \/ LocalTakes(c) \/ LocalEnds(c) PROVE FALSE
  BY <1>1, <1>5, LocalSendsStep, LocalTakesStep, LocalEndsStep DEF Asked, Took, LeftAlone
<1>6. ASSUME NEW l \in Conn, BackendSends(l) PROVE FALSE
  BY <1>1, <1>6, BackendSendsStep DEF Responded
<1>7. ASSUME NEW l \in Conn, BackendTakes(l) PROVE FALSE
  BY <1>7, BackendTakesStep DEF Wrote
<1>8. ASSUME NEW l \in Conn, BackendEnds(l) PROVE l = k
  <2>1. Close({l})
    BY <1>8, BackendEndsStep DEF ClosedAlone
  <2>2. QED
    BY <2>1 DEF Close
<1>9. CASE RemoteReceives
  <2>1. Refused \/ Stopped \/ \E l \in Conn : Queued(l) \/ Connected(l)
    BY <1>9, RemoteReceivesStep
  <2>2. CASE Refused
    BY <1>1, <2>2 DEF Refused
  <2>3. CASE \E l \in Conn : Queued(l) \/ Connected(l)
    BY <1>0, <2>3 DEF Queued, Connected
  <2>4. CASE Stopped
    <3>1. tup # <<>> /\ Head(tup) \in Stop \cup Offline /\ Head(tup) = tup[1]
      BY <2>4 DEF Stopped
    <3>2. 1 \in 1..Len(tup)
      <4>1. Len(tup) \in Nat /\ Len(tup) # 0
        BY <3>1, EmptySeq, LenProperties DEF Base
      <4>2. QED
        BY <4>1
    <3>3. QED
      BY <3>1, <3>2 DEF Alone, Between, News, OpenConn
  <2>5. QED
    BY <2>1, <2>2, <2>3, <2>4
<1>10. CASE DeviceReceives
  <2>1. Dropped \/ HeardOffline \/ \E c \in Local : Delivered(c)
    BY <1>10, DeviceReceivesStep
  <2>2. QED
    BY <1>1, <2>1 DEF Dropped, HeardOffline, Delivered
<1>11. CASE DeviceLosesRelay
  BY <1>1, <1>11, DeviceLosesStep DEF DeviceLost
<1>12. QED
  BY <1>2, <1>3, <1>4, <1>5, <1>6, <1>7, <1>8, <1>9, <1>10, <1>11 DEF Next

(* README.md, as above: a connection to the backend is closed only when    *)
(* the backend ends it, when its local client has ended or when Remote     *)
(* loses the relay.  One client is open at a time, with whatever bucket:   *)
(* an endpoint_stop ends the newest connection of its sender, whatever     *)
(* descriptor it names, and run dp_two shows what two clients do to each   *)
(* other.                                                                  *)
THEOREM ClosedByTheirEnds == ASSUME MaxOpen = 1 PROVE Spec => ClosedByItsEnds
<1> DEFINE I == Base /\ Faithful /\ Alone
<1>1. Init => I
  BY BaseInit, FaithfulInit, AloneInit
<1>2. I /\ [Next]_vars => I'
  <2>1. ASSUME I, [Next]_vars PROVE I'
    <3>1. Base' /\ Effect /\ Ends /\ Ends' /\ Faithful'
      BY <2>1, Steps, BaseEnds, FaithfulStep DEF Sparse
    <3>2. OneOpen' /\ OwnersUsed'
      BY <2>1, <3>1, OneOpenStep, OwnersUsedStep DEF Alone
    <3>3. Between'
      BY <2>1, <3>1, BetweenStep
    <3>4. QED
      BY <3>1, <3>2, <3>3 DEF Alone
  <2>2. QED
    BY <2>1
<1>3. I /\ [Next]_vars
      => [\A k \in Conn : est[k] = "open" /\ est'[k] # "open"
            => BackendEnds(k) \/ tst[owner[k]] = "freed" \/ RemoteLosesRelay]_vars
  BY ClosingStep DEF Sparse
<1> HIDE DEF I
<1>4. QED
  BY <1>1, <1>2, <1>3, PTL DEF Spec, ClosedByItsEnds
(* The two processes together are a splice of each local connection and    *)
(* one to the backend, although what joins them is a descriptor, which two *)
(* tables have to look up: as long as no descriptor is used again and no   *)
(* two share a bucket of the device's tables.                              *)
THEOREM DataPathIsSplice ==
  ASSUME ~Reuse, NoCollision PROVE Spec => ImplementsSplice
<1>1. Init => Base /\ Joint /\ S!Init
  <2>1. ASSUME Init PROVE Base /\ Joint /\ S!Init
    <3>1. /\ tst = [c \in Local |-> "unused"] /\ est = [k \in Conn |-> "unused"]
          /\ got = [k \in Conn |-> <<>>] /\ erb = [k \in Conn |-> <<>>]
          /\ sent = [c \in Local \cup Conn |-> 0]
          /\ taken = [c \in Local |-> <<>>] /\ owner = [k \in Conn |-> NULL]
      BY <2>1 DEF Init, T!Init, E!Init
    <3>2. Base /\ Ends /\ Faithful /\ Order /\ Routing
      BY <2>1, BaseInit, BaseEnds, FaithfulInit, OrderInit, RoutingInit
    <3>3. Answered
      BY <3>1 DEF Answered, OpenLocal
    <3>4. \A k \in Conn : All(k) = <<>>
      <4>1. <<>> \o <<>> = <<>>
        OBVIOUS
      <4>2. QED
        BY <3>1, <4>1 DEF All
    <3>5. AllSent
      BY <3>4, EmptySeq DEF AllSent
    <3>6. Spliced = [x \in S!End |-> "unused"]
      BY <3>1 DEF Spliced, S!End
    <3>7. S!Init
      BY <3>1, <3>6 DEF S!Init, S!End, Spliced
    <3>8. QED
      BY <3>2, <3>3, <3>5, <3>7 DEF Joint
  <2>2. QED
    BY <2>1
<1>2. Base /\ Joint /\ [Next]_vars => Base' /\ Joint' /\ [S!Next]_(S!vars)
  <2>1. ASSUME Base, Joint, [Next]_vars PROVE Base' /\ Joint' /\ [S!Next]_(S!vars)
    <3>1. Ends /\ Faithful /\ Order /\ AllSent /\ Routing /\ Answered
      BY <2>1 DEF Joint
    <3>2. Base' /\ Ends' /\ Effect
      BY <2>1, Steps, BaseEnds DEF Sparse
    <3>3. Faithful' /\ Order' /\ AllSent'
      BY <3>1, <3>2, FaithfulStep, OrderStep, AllSentStep
    <3>4. FdIsName' /\ Owned' /\ Returned'
      BY <3>1, <3>2, FdIsNameStep, OwnedStep, ReturnedStep DEF Routing
    <3>5. Answered'
      BY <3>1, <3>2, AnsweredStep
    <3>6. [S!Next]_(S!vars)
      BY <2>1, <3>2, SpliceStep
    <3>7. QED
      BY <3>2, <3>3, <3>4, <3>5, <3>6 DEF Joint, Routing
  <2>2. QED
    BY <2>1
<1>3. QED
  BY <1>1, <1>2, PTL DEF Spec, ImplementsSplice, S!Spec
=============================================================================
