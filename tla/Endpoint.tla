------------------------------ MODULE Endpoint ------------------------------
(***************************************************************************)
(* endpoint.c with the TCP client of async_client.c: the side of a tunnel  *)
(* that talks to the backend.  A tunnel_request of a remote process opens  *)
(* (or reuses) one connection to the backend per key, the key being the    *)
(* sender's address followed by the descriptor of its local client; what   *)
(* the backend answers goes back as a tunnel_response.                     *)
(*                                                                         *)
(* A handler runs to its end in the event loop, so each is one action.     *)
(* The bytes of one read or one message are one body.                      *)
(***************************************************************************)
EXTENDS Naturals, SequencesExt

CONSTANTS Pid,        \* addresses of remote processes
          Fd,         \* descriptors of their local clients
          Port,       \* backend ports that a request may name
          Allowed,    \* gc->config.allowed
          Key,        \* the strings that identify endpoints
          key_of,     \* the concatenation of an address and a descriptor
          Client,     \* client structures, one per connection attempt
          Body,       \* what messages and reads carry
          Outcome,    \* what socket() and connect() may answer
          MaxBodies,  \* TLC's bound on what one connection is sent
          MaxUp       \* TLC's bound on what waits to be sent upstream

ASSUME EndpointAssumption == /\ key_of \in [Pid \X Fd -> Key]
                             /\ Outcome \subseteq {"connecting", "no_socket", "immediate"}
                             /\ MaxBodies \in Nat /\ MaxUp \in Nat

VARIABLES endpoints,  \* the linked list, newest first
          st,         \* Client -> its state
          rb,         \* Client -> bodies waiting to be written
          got,        \* Client -> bodies the backend was sent
          up,         \* messages handed to gc_packet_send
          crashed,    \* abort() was called, or freed memory was used
          gc_sigterm  \* the flag of the signal handler

vars == <<endpoints, st, rb, got, up, crashed, gc_sigterm>>

(* A connection is unused, open, freed with its endpoint unlinked, or      *)
(* dropped: freed while its endpoint stays in the list.                    *)
State == {"unused", "open", "freed", "dropped"}

(* struct gc_endpoint_s *)
Entry == [key : Key, remote_fd : Fd, backend_port : Port, pid : Pid, client : Client]

Message == [type : {"tunnel_response"}, to : Pid, port : Port, fd : Fd, body : Body]
             \cup [type : {"tunnel_denied"}, to : Pid, port : Port]

TypeOK == /\ endpoints \in Seq(Entry)
          /\ st \in [Client -> State]
          /\ rb \in [Client -> Seq(Body)]
          /\ got \in [Client -> Seq(Body)]
          /\ up \in Seq(Message)
          /\ crashed \in BOOLEAN
          /\ gc_sigterm \in BOOLEAN

Init == /\ endpoints = <<>>
        /\ st = [c \in Client |-> "unused"]
        /\ rb = [c \in Client |-> <<>>]
        /\ got = [c \in Client |-> <<>>]
        /\ up = <<>>
        /\ crashed = FALSE
        /\ gc_sigterm = FALSE

(* Callbacks of the event loop return at once after SIGTERM. *)
Running == ~crashed /\ ~gc_sigterm

(* Variants with a bug each, as the properties must notice: lookups that   *)
(* look at the head only, or at nothing but the head's presence.           *)
endpoint_find_head(key) == IF endpoints # <<>> /\ Head(endpoints).key = key THEN 1 ELSE 0
endpoint_find_any(key)  == IF endpoints # <<>> THEN 1 ELSE 0
FindPidAny(pid)         == IF endpoints # <<>> THEN 1 ELSE 0

(* The list traversals: the first match, 0 when there is none. *)
endpoint_find(key) == SelectInSeq(endpoints, LAMBDA e : e.key = key)
FindClient(c)      == SelectInSeq(endpoints, LAMBDA e : e.client = c)
FindPid(pid)       == SelectInSeq(endpoints, LAMBDA e : e.pid = pid)
-----------------------------------------------------------------------------
(* gc_packet_send() appends to the upstream queue and cannot fail here. *)
gc_packet_send(m) == Len(up) < MaxUp /\ up' = Append(up, m)

\* With a bug: the body is put before those that wait.
gc_gen_ev_send_front(c, body) ==
  IF st[c] = "open"
  THEN /\ Len(rb[c]) + Len(got[c]) < MaxBodies
       /\ rb' = [rb EXCEPT ![c] = <<body>> \o @]
       /\ UNCHANGED crashed
  ELSE crashed' = TRUE /\ UNCHANGED rb

(* gc_gen_ev_send() on a client; on a freed one the behaviour is undefined. *)
gc_gen_ev_send(c, body) ==
  IF st[c] = "open"
  THEN /\ Len(rb[c]) + Len(got[c]) < MaxBodies
       /\ rb' = [rb EXCEPT ![c] = Append(@, body)]
       /\ UNCHANGED crashed
  ELSE crashed' = TRUE /\ UNCHANGED rb

(* The part of async_client_shutdown() that a client without a parent runs; *)
(* shutting down one that was freed before is undefined.                    *)
async_client_shutdown(c) ==
  /\ st' = [st EXCEPT ![c] = IF @ = "open" THEN "freed" ELSE @]
  /\ rb' = [rb EXCEPT ![c] = <<>>]
  /\ crashed' = (st[c] # "open")

(* async_client(): socket, then connect.  When socket() fails, the error   *)
(* callback unlinks the endpoint ent and frees the client c.  When         *)
(* connect() succeeds at once, it is taken for a failure and the client is *)
(* freed, and the endpoint stays linked.                                   *)
async_client(c, ent, body) ==
  \/ /\ "connecting" \in Outcome
     /\ endpoints' = Cons(ent, endpoints)
     /\ st' = [st EXCEPT ![c] = "open"]
     /\ rb' = [rb EXCEPT ![c] = <<body>>]
  \/ /\ "no_socket" \in Outcome
     /\ st' = [st EXCEPT ![c] = "freed"]
     /\ UNCHANGED <<endpoints, rb>>
  \/ /\ "immediate" \in Outcome
     /\ endpoints' = Cons(ent, endpoints)
     /\ st' = [st EXCEPT ![c] = "dropped"]
     /\ UNCHANGED rb

(* endpoint_add(): a new endpoint is linked and its client connects; when  *)
(* that goes on, the body waits for the connection.                        *)
endpoint_add(key, fd, port, pid, body) ==
  /\ \E c \in Client :
       /\ st[c] = "unused"
       /\ async_client(c, [key |-> key, remote_fd |-> fd, backend_port |-> port,
                           pid |-> pid, client |-> c], body)
  /\ UNCHANGED <<got, up, crashed, gc_sigterm>>

(* A tunnel_request from process pid. *)
gc_endpoint_request(pid, port, fd, body) ==
  /\ Running
  /\ \/ /\ port \notin Allowed
        /\ gc_packet_send([type |-> "tunnel_denied", to |-> pid, port |-> port])
        /\ UNCHANGED <<endpoints, st, rb, got, crashed, gc_sigterm>>
     \/ /\ port \in Allowed
        /\ endpoint_find(key_of[pid, fd]) # 0
        /\ gc_gen_ev_send(endpoints[endpoint_find(key_of[pid, fd])].client, body)
        /\ UNCHANGED <<endpoints, st, got, up, gc_sigterm>>
     \/ /\ port \in Allowed
        /\ endpoint_find(key_of[pid, fd]) = 0
        /\ endpoint_add(key_of[pid, fd], fd, port, pid, body)

\* With a bug: the endpoint is unlinked and its client left open.
gc_endpoint_stop_unlinks(pid) ==
  /\ Running
  /\ FindPid(pid) # 0
  /\ endpoints' = RemoveAt(endpoints, FindPid(pid))
  /\ UNCHANGED <<st, rb, got, up, crashed, gc_sigterm>>

(* An endpoint_stop message, or the news that process pid is offline: the  *)
(* first endpoint of that process is stopped.                              *)
gc_endpoint_stop(pid) ==
  /\ Running
  /\ \/ /\ FindPid(pid) # 0
        /\ async_client_shutdown(endpoints[FindPid(pid)].client)
        /\ endpoints' = RemoveAt(endpoints, FindPid(pid))
        /\ UNCHANGED <<got, up, gc_sigterm>>
     \/ /\ FindPid(pid) = 0
        /\ UNCHANGED vars

(* What came from the backend goes to the process of the endpoint; that    *)
(* there is no endpoint is the abort() of endpoint_recv().                 *)
endpoint_recv(c, body) ==
  IF FindClient(c) # 0
  THEN /\ LET ent == endpoints[FindClient(c)]
          IN gc_packet_send([type |-> "tunnel_response", to |-> ent.pid,
                             port |-> ent.backend_port, fd |-> ent.remote_fd,
                             body |-> body])
       /\ UNCHANGED crashed
  ELSE crashed' = TRUE /\ UNCHANGED up

(* recv() returned body on connection c. *)
async_read(c, body) ==
  /\ Running
  /\ st[c] = "open"
  /\ endpoint_recv(c, body)
  /\ UNCHANGED <<endpoints, st, rb, got, gc_sigterm>>

\* With a bug: the endpoint stays in the list.
endpoint_error_keeps(c) ==
  /\ Running
  /\ st[c] = "open"
  /\ async_client_shutdown(c)
  /\ UNCHANGED <<endpoints, got, up, gc_sigterm>>

(* A read or a write on c failed, or the backend closed it. *)
endpoint_error(c) ==
  /\ Running
  /\ st[c] = "open"
  /\ endpoints' = IF FindClient(c) # 0 THEN RemoveAt(endpoints, FindClient(c)) ELSE endpoints
  /\ async_client_shutdown(c)
  /\ UNCHANGED <<got, up, gc_sigterm>>

(* async_write() on c, one body at a time. *)
async_write(c) ==
  /\ Running
  /\ st[c] = "open"
  /\ rb[c] # <<>>
  /\ got' = [got EXCEPT ![c] = Append(@, Head(rb[c]))]
  /\ rb' = [rb EXCEPT ![c] = Tail(@)]
  /\ UNCHANGED <<endpoints, st, up, crashed, gc_sigterm>>

\* With a bug: the list is left as it was.
gc_endpoints_stop_all_keeps ==
  /\ ~crashed
  /\ LET linked == {endpoints[i].client : i \in DOMAIN endpoints}
     IN /\ st' = [c \in Client |-> IF c \in linked /\ st[c] = "open"
                                  THEN "freed" ELSE st[c]]
        /\ rb' = [c \in Client |-> IF c \in linked THEN <<>> ELSE rb[c]]
        /\ crashed' = (\E c \in linked : st[c] # "open")
  /\ up' = <<>>
  /\ UNCHANGED <<endpoints, got, gc_sigterm>>

(* Every endpoint of the list is freed with its client. *)
StopEndpoints ==
  /\ ~crashed
  /\ LET linked == {endpoints[i].client : i \in DOMAIN endpoints}
     IN /\ st' = [c \in Client |-> IF c \in linked /\ st[c] = "open"
                                  THEN "freed" ELSE st[c]]
        /\ rb' = [c \in Client |-> IF c \in linked THEN <<>> ELSE rb[c]]
        /\ crashed' = (\E c \in linked : st[c] # "open")
  /\ endpoints' = <<>>
  /\ UNCHANGED <<got, gc_sigterm>>

(* From upstream_error() and from stop(), the latter also after SIGTERM.   *)
(* Both shut the upstream connection down, which drops what was to be sent *)
(* on it.                                                                  *)
gc_endpoints_stop_all == StopEndpoints /\ up' = <<>>

sigh_terminate ==
  /\ Running
  /\ gc_sigterm' = TRUE
  /\ UNCHANGED <<endpoints, st, rb, got, up, crashed>>

(* The upstream connection took the oldest message. *)
upstream_sent ==
  /\ Running
  /\ up # <<>>
  /\ up' = Tail(up)
  /\ UNCHANGED <<endpoints, st, rb, got, crashed, gc_sigterm>>

Next == \/ \E pid \in Pid, port \in Port, fd \in Fd, body \in Body :
             gc_endpoint_request(pid, port, fd, body)
        \/ \E pid \in Pid : gc_endpoint_stop(pid)
        \/ \E c \in Client : \/ \E body \in Body : async_read(c, body)
                             \/ endpoint_error(c)
                             \/ async_write(c)
        \/ gc_endpoints_stop_all
        \/ sigh_terminate
        \/ upstream_sent

Spec == Init /\ [][Next]_vars
-----------------------------------------------------------------------------
(* A process and a descriptor have one endpoint, so that the bodies of one *)
(* remote client all go down one connection, in order.                     *)
KeysUnique ==
  \A i, j \in DOMAIN endpoints : endpoints[i].key = endpoints[j].key => i = j

(* endpoint_recv(): "We should never receive data from client that doesn't *)
(* exist in list of endpoints".  Every connection whose read watcher can   *)
(* fire is in the list, and once, so that unlinking it leaves no entry     *)
(* pointing to the freed client.                                           *)
OpenIsLinked ==
  /\ \A c \in Client : st[c] = "open" => \E i \in DOMAIN endpoints : endpoints[i].client = c
  /\ \A i, j \in DOMAIN endpoints : endpoints[i].client = endpoints[j].client => i = j

(* Every endpoint of the list has a live connection, except one whose      *)
(* connection was dropped when it was made: a request, a stop message and  *)
(* the end of the program all follow the pointer.                          *)
LinkedIsLive == \A i \in DOMAIN endpoints : st[endpoints[i].client] \in {"open", "dropped"}

(* The process neither calls abort() nor follows a pointer to freed memory *)
(* unless some connect() succeeded at once and left an endpoint behind.    *)
CrashNeedsDropped == crashed => \E c \in Client : st[c] = "dropped"

(* The inductive invariant behind the theorems of Endpoint_proofs. *)
ListInv == TypeOK /\ KeysUnique /\ OpenIsLinked /\ LinkedIsLive

(* A stop message of one process, or its going offline, closes a           *)
(* connection of that process at most, and no other process loses one.     *)
StopsOwnConnections ==
  [][\A pid \in Pid, c \in Client :
       gc_endpoint_stop(pid) /\ st[c] = "open" /\ st'[c] # "open"
         => \E i \in DOMAIN endpoints : endpoints[i].client = c /\ endpoints[i].pid = pid]_vars
=============================================================================
