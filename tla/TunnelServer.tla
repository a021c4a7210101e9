---------------------------- MODULE TunnelServer ----------------------------
(***************************************************************************)
(* tunnel.c with async_server.c: the side of a tunnel that listens for     *)
(* local connections.  What a local client sends goes upstream as a        *)
(* tunnel_request that names the client by its descriptor; a               *)
(* tunnel_response names a port and a descriptor, and is given to the      *)
(* client found under them.                                                *)
(*                                                                         *)
(* Each tunnel has a server with a table of its clients; tunnel and server *)
(* are created and freed together and are one model value here.  A handler *)
(* runs to its end in the event loop, so each is one action.               *)
(***************************************************************************)
EXTENDS Naturals, Lists

CONSTANTS Tunnel,     \* tunnel structures, each with its server
          Pid,        \* addresses of the processes at the other end
          Port,       \* backend ports
          Fd,         \* descriptors that accept() may return
          Client,     \* client structures, one per accepted connection
          Body,       \* what a read or a message carries
          Bucket,     \* indexes of a server's table of clients
          ht_key,     \* the bucket of a descriptor
          NULL,
          MaxBodies,  \* TLC's bound on what waits for one client
          MaxUp       \* TLC's bound on what waits to be sent upstream

INSTANCE Hashtable WITH Key <- Fd, Value <- Client

ASSUME TunnelAssumption == /\ Bucket \subseteq Nat /\ IsFiniteSet(Bucket)
                           /\ MaxBodies \in Nat /\ MaxUp \in Nat
                           /\ ht_key \in [Fd -> Bucket]
                           /\ NULL \notin [pid : Pid, port_remote : Port]
                           /\ NULL \notin Entry /\ NULL \notin Client

VARIABLES tunnels,    \* the linked list, newest first
          info,       \* Tunnel -> the process and the port it leads to
          listening,  \* Tunnel -> whether it has a server
          clients,    \* Tunnel -> the table of its server's clients
          st,         \* Client -> "unused", "open" or "freed"
          fd,         \* Client -> its descriptor
          parent,     \* Client -> the tunnel that accepted it
          rb,         \* Client -> bodies waiting to be written to it
          up,         \* messages handed to gc_packet_send
          crashed,    \* abort() was called, or freed memory was used
          gc_sigterm  \* the flag of the signal handler

lists == <<tunnels, info, listening>>
conns == <<clients, st, fd, parent, rb>>
vars  == <<lists, conns, up, crashed, gc_sigterm>>

Message == [type : {"tunnel_request"}, to : Pid, port : Port, fd : Fd, body : Body]
             \cup [type : {"endpoint_stop"}, to : Pid, fd : Fd]

TypeOK == /\ tunnels \in Seq(Tunnel)
          /\ info \in [Tunnel -> [pid : Pid, port_remote : Port] \cup {NULL}]
          /\ listening \in [Tunnel -> BOOLEAN]
          /\ clients \in [Tunnel -> [Bucket -> Seq(Entry)]]
          /\ st \in [Client -> {"unused", "open", "freed"}]
          /\ fd \in [Client -> Fd \cup {NULL}]
          /\ parent \in [Client -> Tunnel \cup {NULL}]
          /\ rb \in [Client -> Seq(Body)]
          /\ up \in Seq(Message)
          /\ crashed \in BOOLEAN
          /\ gc_sigterm \in BOOLEAN

Init == /\ tunnels = <<>>
        /\ info = [t \in Tunnel |-> NULL]
        /\ listening = [t \in Tunnel |-> FALSE]
        /\ clients = [t \in Tunnel |-> HtInit]
        /\ st = [c \in Client |-> "unused"]
        /\ fd = [c \in Client |-> NULL]
        /\ parent = [c \in Client |-> NULL]
        /\ rb = [c \in Client |-> <<>>]
        /\ up = <<>>
        /\ crashed = FALSE
        /\ gc_sigterm = FALSE

(* Callbacks of the event loop return at once after SIGTERM. *)
Running == ~crashed /\ ~gc_sigterm

Open(c) == st[c] = "open"

(* Tunnels are freed when they leave the list. *)
Listed    == Range(tunnels)
Linked(t) == t \in Listed

Fresh(t) == info[t] = NULL
-----------------------------------------------------------------------------
\* With a bug: messages overtake those that wait.
gc_packet_sends_front(ms) == Len(up) + Len(ms) <= MaxUp /\ up' = ms \o up

(* gc_packet_send() appends to the upstream queue and cannot fail here. *)
gc_packet_sends(ms) == Len(up) + Len(ms) <= MaxUp /\ up' = up \o ms

endpoint_stop(c) == [type |-> "endpoint_stop", to |-> info[parent[c]].pid, fd |-> fd[c]]

(* The server of t listens, with an empty table. *)
async_server(t) ==
  /\ listening' = [listening EXCEPT ![t] = TRUE]
  /\ clients' = [clients EXCEPT ![t] = HtInit]

(* A pair reply makes a tunnel.  One of type "forced" gets no server. *)
gc_tunnel_add(pid, port, forced) ==
  /\ Running
  /\ \E t \in Tunnel :
       /\ Fresh(t)
       /\ IF forced THEN UNCHANGED <<listening, clients>> ELSE async_server(t)
       /\ tunnels' = Cons(t, tunnels)
       /\ info' = [info EXCEPT ![t] = [pid |-> pid, port_remote |-> port]]
  /\ UNCHANGED <<st, fd, parent, rb, up, crashed, gc_sigterm>>

(* The accepted client is stored under its descriptor. *)
connector_addclient(t, f, c) == clients' = [clients EXCEPT ![t] = HtAdd(@, f, c)]

(* accept() on t's listener returned f, which was not in use. *)
server_async_client(t, f) ==
  /\ Running
  /\ Linked(t) /\ listening[t]
  /\ \A c \in Client : Open(c) => fd[c] # f
  /\ \E c \in Client :
       /\ st[c] = "unused"
       /\ st' = [st EXCEPT ![c] = "open"]
       /\ fd' = [fd EXCEPT ![c] = f]
       /\ parent' = [parent EXCEPT ![c] = t]
       /\ connector_addclient(t, f, c)
  /\ UNCHANGED <<lists, rb, up, crashed, gc_sigterm>>

(* What a client sent goes to the process of its tunnel.  This and the     *)
(* shutdown of c follow c's pointer to its server and the tunnel.          *)
client_data(c, body) ==
  \/ /\ Linked(parent[c])
     /\ gc_packet_sends(<<[type |-> "tunnel_request", to |-> info[parent[c]].pid,
                           port |-> info[parent[c]].port_remote, fd |-> fd[c],
                           body |-> body]>>)
     /\ UNCHANGED crashed
  \/ /\ ~Linked(parent[c])
     /\ crashed' = TRUE
     /\ UNCHANGED up

(* recv() returned body on client c. *)
async_read(c, body) ==
  /\ Running
  /\ Open(c)
  /\ client_data(c, body)
  /\ UNCHANGED <<lists, conns, gc_sigterm>>

(* async_client_shutdown() for the clients of cs: all watchers are stopped *)
(* and what was to be written is dropped.                                  *)
FreeClients(cs) ==
  /\ st' = [c \in Client |-> IF c \in cs THEN "freed" ELSE st[c]]
  /\ rb' = [c \in Client |-> IF c \in cs THEN <<>> ELSE rb[c]]

\* With a bug each: the client stays in the table, or the other end is not told.
client_error_keeps(c) ==
  /\ Running
  /\ Open(c) /\ Linked(parent[c])
  /\ gc_packet_sends(<<endpoint_stop(c)>>)
  /\ FreeClients({c})
  /\ UNCHANGED <<lists, clients, fd, parent, crashed, gc_sigterm>>

client_error_silent(c) ==
  /\ Running
  /\ Open(c) /\ Linked(parent[c])
  /\ FreeClients({c})
  /\ clients' = [clients EXCEPT ![parent[c]] = HtRem(@, fd[c])]
  /\ UNCHANGED <<lists, fd, parent, up, crashed, gc_sigterm>>

(* A read or a write on c failed, or its peer closed it. *)
client_error(c) ==
  /\ Running
  /\ Open(c)
  /\ \/ /\ Linked(parent[c])
        /\ gc_packet_sends(<<endpoint_stop(c)>>)
        /\ FreeClients({c})
        /\ clients' = [clients EXCEPT ![parent[c]] = HtRem(@, fd[c])]
        /\ UNCHANGED crashed
     \/ /\ ~Linked(parent[c])
        /\ crashed' = TRUE
        /\ UNCHANGED <<up, st, rb, clients>>
  /\ UNCHANGED <<lists, fd, parent, gc_sigterm>>

\* With a bug: the port of the tunnel is not compared.
AnswersAnyPort(t, port, f) == listening[t] /\ HtGet(clients[t], f) # NULL

(* The tunnels a response may belong to, and whether the table of one has  *)
(* an answer for descriptor f.                                             *)
Answers(t, port, f) ==
  info[t].port_remote = port /\ listening[t] /\ HtGet(clients[t], f) # NULL

\* With a bug: any client of the tunnel will do.
tunnel_client_find_any(port, f) ==
  LET first == SelectInSeq(tunnels, LAMBDA t : \E b \in Bucket : clients[t][b] # <<>>)
  IN IF first = 0 THEN NULL
     ELSE Head(clients[tunnels[first]][CHOOSE b \in Bucket :
                                         clients[tunnels[first]][b] # <<>>]).s

(* The client of the first tunnel that has an answer; the process that     *)
(* sent the response plays no part.                                        *)
tunnel_client_find(port, f) ==
  LET first == SelectInSeq(tunnels, LAMBDA t : Answers(t, port, f))
  IN IF first = 0 THEN NULL ELSE HtGet(clients[tunnels[first]], f).s

\* With a bug: the body is put before those that wait.
gc_gen_ev_send_front(c, body) ==
  /\ Open(c) => Len(rb[c]) < MaxBodies
  /\ rb' = IF Open(c) THEN [rb EXCEPT ![c] = <<body>> \o @] ELSE rb
  /\ crashed' = ~Open(c)

(* gc_gen_ev_send() on a client; on a freed one the behaviour is undefined. *)
gc_gen_ev_send(c, body) ==
  /\ Open(c) => Len(rb[c]) < MaxBodies
  /\ rb' = IF Open(c) THEN [rb EXCEPT ![c] = Append(@, body)] ELSE rb
  /\ crashed' = ~Open(c)

(* A tunnel_response from the relay. *)
gc_tunnel_response(port, f, body) ==
  LET c == tunnel_client_find(port, f)
  IN /\ Running
     /\ IF c = NULL THEN UNCHANGED <<rb, crashed>> ELSE gc_gen_ev_send(c, body)
     /\ UNCHANGED <<lists, clients, st, fd, parent, up, gc_sigterm>>

(* async_write() to c, one body at a time. *)
async_write(c) ==
  /\ Running
  /\ Open(c)
  /\ rb[c] # <<>>
  /\ rb' = [rb EXCEPT ![c] = Tail(@)]
  /\ UNCHANGED <<lists, clients, st, fd, parent, up, crashed, gc_sigterm>>

\* With a bug: the loop ends before the last bucket.
UsedButLast(t) ==
  {b \in Bucket : listening[t] /\ clients[t][b] # <<>> /\ \E last \in Bucket : b < last}

(* What async_server_shutdown() meets: the chains that are not empty, of   *)
(* each of which it takes the head.                                        *)
Used(t) == {b \in Bucket : listening[t] /\ clients[t][b] # <<>>}

HeadOf(t, b) == clients[t][b][1].s

Stopped(gone) == UNION {{HeadOf(t, b) : b \in Used(t)} : t \in gone}

StopMessagesOf(t) ==
  LET order == Ascending(Used(t))
  IN [i \in DOMAIN order |-> endpoint_stop(HeadOf(t, order[i]))]

\* With a bug: one message, however many clients there are.
StopMessagesOnce(gone) ==
  LET all == FlattenSeq([i \in DOMAIN Among(tunnels, gone) |->
                           StopMessagesOf(Among(tunnels, gone)[i])])
  IN SubSeq(all, 1, IF all = <<>> THEN 0 ELSE 1)

(* What stopping the tunnels of gone sends to the other ends. *)
StopMessages(gone) ==
  FlattenSeq([i \in DOMAIN Among(tunnels, gone) |-> StopMessagesOf(Among(tunnels, gone)[i])])

(* Their heads are shut down, and servers and tunnels are freed. *)
StopTunnels(gone) ==
  /\ FreeClients(Stopped(gone))
  /\ crashed' = (\E c \in Stopped(gone) : ~Open(c))
  /\ clients' = [t \in Tunnel |-> IF t \in gone THEN HtInit ELSE clients[t]]
  /\ tunnels' = Among(tunnels, Tunnel \ gone)
  /\ UNCHANGED <<info, listening, fd, parent, gc_sigterm>>

(* The relay reported process pid offline. *)
gc_tunnel_stop(pid) ==
  LET gone == {t \in Listed : info[t].pid = pid}
  IN /\ Running
     /\ gc_packet_sends(StopMessages(gone))
     /\ StopTunnels(gone)

(* gc_tunnel_stop_all() from upstream_error(): the upstream connection is  *)
(* shut down after it, which drops all that was to be sent.                *)
upstream_error ==
  /\ Running
  /\ StopTunnels(Listed)
  /\ up' = <<>>

(* gc_tunnel_stop_all() from stop(), after SIGTERM too: the upstream       *)
(* connection was shut down before it.                                     *)
stop ==
  /\ ~crashed
  /\ Len(StopMessages(Listed)) <= MaxUp
  /\ StopTunnels(Listed)
  /\ up' = StopMessages(Listed)

sigh_terminate ==
  /\ Running
  /\ gc_sigterm' = TRUE
  /\ UNCHANGED <<lists, conns, up, crashed>>

(* The upstream connection took the oldest message. *)
upstream_sent ==
  /\ Running
  /\ up # <<>>
  /\ up' = Tail(up)
  /\ UNCHANGED <<lists, conns, crashed, gc_sigterm>>

Next == \/ \E pid \in Pid : \/ \E port \in Port, forced \in BOOLEAN :
                                  gc_tunnel_add(pid, port, forced)
                            \/ gc_tunnel_stop(pid)
        \/ \E t \in Tunnel, f \in Fd : server_async_client(t, f)
        \/ \E c \in Client : \/ \E body \in Body : async_read(c, body)
                             \/ client_error(c)
                             \/ async_write(c)
        \/ \E port \in Port, f \in Fd, body \in Body : gc_tunnel_response(port, f, body)
        \/ upstream_error
        \/ stop
        \/ sigh_terminate
        \/ upstream_sent

Spec == Init /\ [][Next]_vars
-----------------------------------------------------------------------------
(* Every entry of a table is an open client, stored under its descriptor,  *)
(* of the table's own tunnel: a response and the end of the tunnel follow  *)
(* the pointer.                                                            *)
TableHoldsOpen ==
  \A t \in Tunnel, b \in Bucket : \A i \in DOMAIN clients[t][b] :
    LET e == clients[t][b][i]
    IN Linked(t) /\ Open(e.s) /\ fd[e.s] = e.k /\ parent[e.s] = t

(* assert(tunnel) in client_data(): the server and the tunnel of every     *)
(* open client exist, since whatever ends them ended their clients first.  *)
NoOrphan == \A c \in Client : Open(c) => Linked(parent[c])

(* tunnel.h: gc_tunnel_response() takes a "Message to deliver to our       *)
(* client that made request earlier".  A response is given to the open     *)
(* client that has its descriptor and a tunnel to its port, and to nobody  *)
(* else.                                                                   *)
ResponseReachesItsClient ==
  [][\A port \in Port, f \in Fd, body \in Body :
       gc_tunnel_response(port, f, body) =>
         \A c \in Client : rb'[c] # rb[c] <=>
           Open(c) /\ fd[c] = f /\ info[parent[c]].port_remote = port]_vars

(* When a client ends, or the relay takes its tunnel down, the process at  *)
(* the other end is told, once per client; nothing tells it otherwise that *)
(* the backend connection is of no more use.                               *)
EndIsAnnounced ==
  [][\A c \in Client :
       /\ Open(c) /\ st'[c] = "freed"
       /\ client_error(c) \/ gc_tunnel_stop(info[parent[c]].pid)
       => Cardinality({i \in DOMAIN up' : i > Len(up) /\ up'[i] = endpoint_stop(c)}) = 1]_vars
=============================================================================
