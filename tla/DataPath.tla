------------------------------ MODULE DataPath ------------------------------
(***************************************************************************)
(* Two processes joined by the relay: Device listens for local clients     *)
(* (TunnelServer) and Remote connects to backends for them (Endpoint).     *)
(* The relay hands each process the messages of the other in the order     *)
(* they were sent, and stamps them with the sender's address.  What one    *)
(* process has queued, what the relay holds and what the other has not yet *)
(* read is one queue here.                                                 *)
(*                                                                         *)
(* A process may lose its connection to the relay, which then tells the    *)
(* other one that it is offline.  The time until it is back is one step:   *)
(* of the messages sent by it only the older ones arrive, followed by the  *)
(* news, and of those sent to it only the newer ones.                      *)
(*                                                                         *)
(* A body remembers who sent it and its place in what that one sent.       *)
(***************************************************************************)
EXTENDS Naturals, Sequences, FiniteSets

CONSTANTS Device, Remote,  \* the addresses of the two processes
          Tunnel,          \* tunnels of Device
          Port, Allowed,   \* backend ports, and the ones Remote allows
          Fd,              \* descriptors of Device
          Bucket,          \* indexes of a server's table of clients
          ht_key,          \* the bucket of a descriptor
          Local,           \* connections of local clients
          Conn,            \* connections to the backend
          NULL,
          MaxMsgs,         \* TLC's bound on what a local client sends
          MaxAnswers,      \* TLC's bound on what a backend connection sends
          MaxUp,           \* TLC's bound on what is under way
          MaxOpen,         \* how many local clients are open at once
          Reuse,           \* whether a descriptor is ever used again
          MaxLosses        \* TLC's bound on lost connections to the relay

ASSUME DataPathAssumption ==
  /\ MaxMsgs \in Nat /\ MaxAnswers \in Nat /\ MaxUp \in Nat
  /\ MaxOpen \in Nat /\ MaxLosses \in Nat /\ Reuse \in BOOLEAN
  /\ IsFiniteSet(Fd) /\ IsFiniteSet(Local) /\ IsFiniteSet(Conn)
  /\ Bucket \subseteq Nat /\ IsFiniteSet(Bucket) /\ ht_key \in [Fd -> Bucket]
  /\ Local \cap Conn = {}
  /\ NULL \notin Local \cup [pid : {Remote}, port_remote : Port] \cup [k : Fd, s : Local]

Body == [from : Local, n : 1..MaxMsgs] \cup [from : Conn, n : 1..MaxAnswers]

MaxBodies == MaxMsgs * Cardinality(Local) + MaxAnswers * Cardinality(Conn)

VARIABLES tunnels, info, listening, clients, tst, tfd, parent, trb, tup, tcrashed,
          endpoints, est, erb, got, eup, ecrashed,
          term,   \* SIGTERM, which neither process gets
          sent,   \* connection -> how much it has sent
          taken,  \* Local -> what was written to it
          owner,  \* Conn -> the local client whose request opened it
          losses  \* how often a process lost the relay

deviceVars == <<tunnels, info, listening, clients, tst, tfd, parent, trb, tup, tcrashed>>
remoteVars == <<endpoints, est, erb, got, eup, ecrashed>>
vars == <<deviceVars, remoteVars, term, sent, taken, owner, losses>>

T == INSTANCE TunnelServer WITH
       Pid <- {Remote}, Client <- Local,
       st <- tst, fd <- tfd, rb <- trb, up <- tup, crashed <- tcrashed,
       gc_sigterm <- term

(* The key of an endpoint is its address and descriptor. *)
Key    == {Device} \X Fd
key_of == [k \in Key |-> k]

E == INSTANCE Endpoint WITH
       Pid <- {Device}, Client <- Conn,
       Outcome <- {"connecting"}, st <- est, rb <- erb, up <- eup,
       crashed <- ecrashed, gc_sigterm <- term

Init == /\ T!Init
        /\ E!Init
        /\ sent = [c \in Local \cup Conn |-> 0]
        /\ taken = [c \in Local |-> <<>>]
        /\ owner = [k \in Conn |-> NULL]
        /\ losses = 0

(* What c sends next. *)
NextBody(c) == [from |-> c, n |-> sent[c] + 1]

Sends(c) == /\ sent[c] < IF c \in Local THEN MaxMsgs ELSE MaxAnswers
            /\ sent' = [sent EXCEPT ![c] = @ + 1]
-----------------------------------------------------------------------------
(* At the device.  A port has one tunnel at a time. *)
Pair(port) ==
  /\ \A i \in DOMAIN tunnels : info[tunnels[i]].port_remote # port
  /\ T!gc_tunnel_add(Remote, port, FALSE)
  /\ UNCHANGED <<remoteVars, sent, taken, owner, losses>>

Accept(t, f) ==
  /\ Cardinality({c \in Local : T!Open(c)}) < MaxOpen
  /\ ~Reuse => \A c \in Local : tfd[c] # f
  /\ T!server_async_client(t, f)
  /\ UNCHANGED <<remoteVars, sent, taken, owner, losses>>

LocalSends(c) ==
  /\ T!async_read(c, NextBody(c))
  /\ Sends(c)
  /\ UNCHANGED <<remoteVars, taken, owner, losses>>

LocalTakes(c) ==
  /\ T!async_write(c)
  /\ taken' = [taken EXCEPT ![c] = Append(@, Head(trb[c]))]
  /\ UNCHANGED <<remoteVars, sent, owner, losses>>

LocalEnds(c) ==
  /\ T!client_error(c)
  /\ UNCHANGED <<remoteVars, sent, taken, owner, losses>>

(* At the other process. *)
BackendSends(k) ==
  /\ E!async_read(k, NextBody(k))
  /\ Sends(k)
  /\ UNCHANGED <<deviceVars, taken, owner, losses>>

BackendTakes(k) ==
  /\ E!async_write(k)
  /\ UNCHANGED <<deviceVars, sent, taken, owner, losses>>

BackendEnds(k) ==
  /\ E!endpoint_error(k)
  /\ UNCHANGED <<deviceVars, sent, taken, owner, losses>>

(* message_from() at the other process.  It dispatches on the type of the  *)
(* oldest message; the descriptor of an endpoint_stop is not looked at.    *)
RemoteReceives ==
  /\ tup # <<>>
  /\ tup' = Tail(tup)
  /\ LET m == Head(tup)
     IN \/ /\ m.type = "tunnel_request"
           /\ E!gc_endpoint_request(Device, m.port, m.fd, m.body)
           /\ owner' = [k \in Conn |-> IF est[k] = "unused" /\ est'[k] # "unused"
                                       THEN m.body.from ELSE owner[k]]
        \/ /\ m.type \in {"endpoint_stop", "offline"}
           /\ E!gc_endpoint_stop(Device)
           /\ UNCHANGED owner
  /\ UNCHANGED <<tunnels, info, listening, clients, tst, tfd, parent, trb, tcrashed,
                 sent, taken, losses>>

(* message_from() at the device.  No branch of it knows a tunnel_denied,   *)
(* and the last one calls abort().                                         *)
DeviceReceives ==
  /\ eup # <<>>
  /\ eup' = Tail(eup)
  /\ LET m == Head(eup)
     IN \/ /\ m.type = "tunnel_response"
           /\ T!gc_tunnel_response(m.port, m.fd, m.body)
        \/ /\ m.type = "offline"
           /\ T!gc_tunnel_stop(Remote)
        \/ /\ m.type = "tunnel_denied"
           /\ T!Running
           /\ tcrashed' = TRUE
           /\ UNCHANGED <<tunnels, info, listening, clients, tst, tfd, parent, trb, tup, term>>
  /\ UNCHANGED <<endpoints, est, erb, got, ecrashed, sent, taken, owner, losses>>

(* What the relay holds of a queue of which it has taken n messages from   *)
(* the sender that is lost, or given n to the receiver that is.            *)
Taken(s, n) == Append(SubSeq(s, 1, n), [type |-> "offline"])
Left(s, n)  == SubSeq(s, n + 1, Len(s))

(* upstream_error() at the device, which has no endpoints, ends its        *)
(* tunnels and their clients.                                              *)
DeviceLosesRelay ==
  /\ losses < MaxLosses
  /\ losses' = losses + 1
  /\ T!Running
  /\ T!StopTunnels(T!Listed)
  /\ \E i \in 0..Len(tup), j \in 0..Len(eup) : tup' = Taken(tup, i) /\ eup' = Left(eup, j)
  /\ UNCHANGED <<endpoints, est, erb, got, ecrashed, sent, taken, owner>>

(* upstream_error() at the other process, which has no tunnels. *)
RemoteLosesRelay ==
  /\ losses < MaxLosses
  /\ losses' = losses + 1
  /\ E!Running
  /\ E!StopEndpoints
  /\ \E i \in 0..Len(eup), j \in 0..Len(tup) : eup' = Taken(eup, i) /\ tup' = Left(tup, j)
  /\ UNCHANGED <<tunnels, info, listening, clients, tst, tfd, parent, trb, tcrashed,
                 sent, taken, owner>>

Next == \/ \E port \in Port : Pair(port)
        \/ \E t \in Tunnel, f \in Fd : Accept(t, f)
        \/ \E c \in Local : LocalSends(c) \/ LocalTakes(c) \/ LocalEnds(c)
        \/ \E k \in Conn : BackendSends(k) \/ BackendTakes(k) \/ BackendEnds(k)
        \/ RemoteReceives
        \/ DeviceReceives
        \/ DeviceLosesRelay
        \/ RemoteLosesRelay

(* The event loop of the other process keeps taking what the relay sends. *)
Spec == Init /\ [][Next]_vars /\ WF_vars(RemoteReceives)
-----------------------------------------------------------------------------
(* Nothing is lost, repeated or reordered in the middle of what one side   *)
(* of a connection reads.                                                  *)
Consecutive(s) ==
  \A i \in 1..(Len(s) - 1) : s[i].from = s[i + 1].from => s[i + 1].n = s[i].n + 1

RequestsInOrder == \A k \in Conn : Consecutive(got[k])

(* tunnel.h: a response is a "Message to deliver to our client that made   *)
(* request earlier".  What a local client reads came from a connection     *)
(* that was opened for it.                                                 *)
ResponseToOwner ==
  \A c \in Local : \A i \in DOMAIN taken[c] : owner[taken[c][i].from] = c

(* The two processes together are a splice of each local connection and    *)
(* one to the backend, although what joins them is a descriptor, which two *)
(* tables have to look up.                                                 *)
S == INSTANCE Splice WITH
       st <- [x \in Local \cup Conn |-> IF x \in Local THEN tst[x] ELSE est[x]]

ImplementsSplice == S!Spec

(* README.md: "if you go to port 1230, all your data will be redirected to *)
(* port 22".  A backend connection is to the port of the tunnel on which   *)
(* what it carries came in.                                                *)
RightPort ==
  \A k \in Conn : \A i \in DOMAIN erb[k] :
    LET c == erb[k][i].from
    IN \E e \in DOMAIN endpoints : /\ endpoints[e].client = k
                                   /\ endpoints[e].backend_port = info[parent[c]].port_remote

(* README.md, as above: a connection to the backend is closed, and what    *)
(* waits to be written to it dropped, only when the backend ends it, when  *)
(* the local client that it was opened for has ended, or when Remote loses *)
(* the relay.                                                              *)
ClosedByItsEnds ==
  [][\A k \in Conn : est[k] = "open" /\ est'[k] # "open"
       => BackendEnds(k) \/ tst[owner[k]] = "freed" \/ RemoteLosesRelay]_vars

(* When a local client has ended, its connections to the backend are       *)
(* eventually closed.                                                      *)
EndReachesBackend ==
  \A k \in Conn, c \in Local :
    (tst[c] = "freed" /\ owner[k] = c) ~> est[k] # "open"

(* Neither process aborts or follows a pointer to freed memory. *)
NeverCrashes == ~tcrashed /\ ~ecrashed
=============================================================================
