------------------------------ MODULE Upstream ------------------------------
(***************************************************************************)
(* gcapi.c with the SSL client of async_client.c: the connection to the    *)
(* relay from the first attempt to stop(), the five timers around it, and  *)
(* what the end of either does to the connections of tunnels and           *)
(* endpoints, which are only counted here.                                 *)
(*                                                                         *)
(* A handler runs to its end in the event loop, so each is one action.     *)
(* The loop ends when no watcher and no timer is left.  Time is not        *)
(* measured: a started timer may fire at any moment.                       *)
(***************************************************************************)
EXTENDS Naturals

CONSTANTS Connects,    \* what socket() and connect() may answer
          MaxLocals,   \* TLC's bound on clients of the tunnels' servers
          MaxRemotes,  \* TLC's bound on connections to backends
          MaxQueue,    \* TLC's bound on packets waiting to be sent
          Module       \* modules_available, each of which may have a server

ASSUME UpstreamAssumption ==
  /\ Connects \subseteq {"connecting", "no_socket", "immediate"}
  /\ MaxLocals \in Nat /\ MaxRemotes \in Nat /\ MaxQueue \in Nat

VARIABLES action,     \* gc->config.action
          clientterm, \* "Terminate when first client disconnects"
          active,     \* gc->client.base.active
          watchers,   \* the started watchers of gc->client
          queue,      \* packets in its send list
          dangling,   \* its send list was freed while it was not empty
          timers,     \* the started timers
          login,      \* how far the dialogue with the relay is
          tunnel,     \* whether a tunnel, and so a listener, exists
          locals,     \* number of open clients of the tunnels' servers
          remotes,    \* number of open connections to backends
          servers,    \* modules whose server listens
          gc_sigterm, \* the flag of the signal handler
          freed,      \* stop() freed the configuration
          bad,        \* the kinds of undefined behaviour met
          exited      \* exit() was called

opts  == <<action, clientterm>>
conn  == <<active, watchers, queue, dangling>>
peers == <<tunnel, locals, remotes>>
ends  == <<servers, gc_sigterm, freed, exited>>
vars  == <<opts, conn, timers, login, peers, ends, bad>>

Watchers == {"read", "write", "r_handshake", "w_handshake", "w_connect"}
Timers   == {"connect", "hang", "ping", "pair", "shutdown"}

TypeOK == /\ action \in {"", "traffic", "account"} /\ clientterm \in BOOLEAN
          /\ active \in BOOLEAN
          /\ watchers \subseteq Watchers
          /\ queue \in 0..(MaxQueue + MaxLocals)
          /\ dangling \in BOOLEAN
          /\ timers \subseteq Timers
          /\ login \in {"none", "asked", "in", "traffic", "over"}
          /\ tunnel \in BOOLEAN
          /\ locals \in 0..MaxLocals /\ remotes \in 0..MaxRemotes
          /\ gc_sigterm \in BOOLEAN /\ servers \subseteq Module /\ freed \in BOOLEAN /\ exited \in BOOLEAN
          /\ bad \subseteq {"freed_slot", "freed_config", "active_timer"}

(* Before the timers of gc_init() are started, and after. *)
Idle == /\ active = FALSE /\ watchers = {} /\ queue = 0 /\ dangling = FALSE
        /\ login = "none"
        /\ tunnel = FALSE /\ locals = 0 /\ remotes = 0 /\ servers = {}
        /\ gc_sigterm = FALSE /\ freed = FALSE /\ exited = FALSE
        /\ bad = {} /\ clientterm \in BOOLEAN

Init == Idle /\ action \in {"", "traffic", "account"} /\ timers = {"connect"}

(* ev_run() has returned. *)
Ended == timers = {} /\ watchers = {} /\ ~tunnel /\ locals = 0 /\ remotes = 0 /\ servers = {}

Running == ~exited /\ bad = {} /\ ~Ended

(* The callbacks of sockets, but not those of timers, look at the flag. *)
Reading == Running /\ ~gc_sigterm

If(condition, set) == IF condition THEN set ELSE {}
-----------------------------------------------------------------------------
(* gc_packet_send(), n times: the write watcher is started, whatever the   *)
(* state of the connection is.                                             *)
gc_packet_send(n) ==
  /\ queue + n <= MaxQueue
  /\ queue' = queue + n
  /\ watchers' = watchers \cup If(n > 0, {"write"})
  /\ bad' = bad \cup If(n > 0 /\ dangling, {"freed_slot"})
  /\ UNCHANGED <<active, dangling>>

(* async_client_shutdown() of n clients: gc_force_stop() under clientterm. *)
Forced(n) == If(clientterm /\ n > 0, {"shutdown"})

(* memset() of the client in upstream_connect(). *)
Cleared == queue' = 0 /\ dangling' = FALSE

\* With a bug: the repeating timer is not stopped.
ConnectTimersRepeat == timers

ConnectTimers == timers \ {"connect"}

(* The connect timer fired.  connect() is under way; or there is no        *)
(* socket, or connect() succeeded at once and was taken for a failure, and *)
(* then nothing is left that would try again.                              *)
upstream_connect ==
  /\ Running
  /\ "connect" \in timers
  /\ timers' = ConnectTimers
  /\ Cleared
  /\ \/ "connecting" \in Connects /\ active' = TRUE /\ watchers' = {"read", "w_connect"}
     \/ Connects \cap {"no_socket", "immediate"} # {} /\ active' = FALSE /\ watchers' = {}
  /\ login' = "none"
  /\ UNCHANGED <<opts, peers, ends, bad>>

exit == /\ exited' = TRUE
        /\ UNCHANGED <<opts, conn, timers, login, peers, servers, gc_sigterm, freed, bad>>

\* With a bug: the read watcher stays started.
start_handshake_reading == (watchers \ {"write"}) \cup {"w_handshake"}

start_handshake == (watchers \ {"read", "write"}) \cup {"w_handshake"}

handle_connect ==
  /\ Running
  /\ "w_connect" \in watchers
  /\ \/ /\ watchers' = start_handshake \ {"w_connect"}
        /\ UNCHANGED <<opts, active, queue, dangling, timers, login, peers, ends, bad>>
     \/ exit

(* The application asks for what config.action says, or logs in. *)
callback_state_changed ==
  /\ queue + 1 <= MaxQueue
  /\ queue' = queue + 1
  /\ login' = "asked"
  /\ bad' = bad \cup If(freed, {"freed_config"}) \cup If(dangling, {"freed_slot"})

(* The two timers of the connection start before that. *)
state_changed == timers' = timers \cup {"hang", "ping"} /\ callback_state_changed

(* The packet of callback_state_changed() starts the write watcher. *)
end_handshake ==
  /\ watchers' = {"read", "write"}
  /\ state_changed
  /\ UNCHANGED <<opts, active, dangling, peers, ends>>

client_handshake ==
  /\ Running
  /\ watchers \cap {"r_handshake", "w_handshake"} # {}
  /\ \/ end_handshake
     \/ /\ \/ watchers' = (watchers \ {"w_handshake"}) \cup {"r_handshake"}
           \/ watchers' = (watchers \ {"r_handshake"}) \cup {"w_handshake"}
        /\ UNCHANGED <<opts, active, queue, dangling, timers, login, peers, ends, bad>>
     \/ exit

\* With a bug each: a timer of the lost connection goes on.
ErrorTimersPing == (timers \ {"pair", "hang"}) \cup {"connect"}
ErrorTimersPair == (timers \ {"ping", "hang"}) \cup {"connect"}
ErrorTimersIfLogged == (timers \ {"pair", "ping", "hang"}) \cup If(login = "in", {"connect"})

ErrorTimers == (timers \ {"pair", "ping", "hang"}) \cup {"connect"}

(* Tunnels and endpoints end first, which may queue a message per local    *)
(* client, and the connection last, which drops the queue.  Of a           *)
(* connection that was shut down before, only the watchers ws are left.    *)
upstream_error(ws) ==
  /\ timers' = ErrorTimers \cup Forced(locals + remotes)
  /\ tunnel' = FALSE /\ locals' = 0 /\ remotes' = 0
  /\ bad' = bad \cup If(locals > 0 /\ dangling, {"freed_slot"})
  /\ active' = FALSE
  /\ IF active
     THEN watchers' = {} /\ queue' = 0 /\ dangling' = (queue + locals > 0)
     ELSE /\ watchers' = ws \cup If(locals > 0, {"write"})
          /\ queue' = queue + locals
          /\ UNCHANGED dangling
  /\ UNCHANGED <<opts, login, ends>>
-----------------------------------------------------------------------------
(* async_read_ssl(): SSL_read() failed.  Before the handshake too, since   *)
(* the watcher is started before connect() is called.                      *)
read_error ==
  /\ Reading
  /\ "read" \in watchers
  /\ upstream_error(watchers)

(* A packet can be read once the handshake is over. *)
Received == Reading /\ "read" \in watchers /\ "w_connect" \notin watchers

\* With a bug: the timer is stopped and not started again.
hang_reset_stops == timers \ {"hang"}

hang_reset == timers \cup {"hang"}

(* callback_data(), by the type of the packet. *)
login_reply ==
  /\ Received
  /\ login = "asked" /\ action # "account"
  /\ \/ action = "traffic" /\ login' = "traffic" /\ timers' = hang_reset /\ gc_packet_send(1)
     \/ /\ action = "" /\ login' = "in"
        /\ bad' = bad \cup If("pair" \in timers, {"active_timer"})
        /\ timers' = hang_reset \cup {"pair"}
        /\ UNCHANGED conn
     \/ login' = "over" /\ timers' = hang_reset \cup {"shutdown"} /\ UNCHANGED <<conn, bad>>
  /\ UNCHANGED <<opts, peers, ends>>

(* The answers after which the program has nothing left to do. *)
final_reply ==
  /\ Received
  /\ login = "traffic" \/ (login = "asked" /\ action = "account")
  /\ login' = "over"
  /\ timers' = hang_reset \cup {"shutdown"}
  /\ UNCHANGED <<opts, conn, peers, ends, bad>>

(* A tunnel is made for it; when its listener can't be bound, the program  *)
(* stops.                                                                  *)
device_pair_reply ==
  /\ Received
  /\ login = "in"
  /\ \/ tunnel' = TRUE /\ timers' = hang_reset
     \/ timers' = hang_reset \cup {"shutdown"} /\ UNCHANGED tunnel
  /\ UNCHANGED <<opts, conn, login, locals, remotes, ends, bad>>

(* A tunnel_request may open a connection to a backend. *)
tunnel_request ==
  /\ Received
  /\ login = "in"
  /\ remotes < MaxRemotes
  /\ remotes' = remotes + 1
  /\ timers' = hang_reset
  /\ UNCHANGED <<opts, conn, login, tunnel, locals, ends, bad>>

(* gc_endpoint_stop(): the first endpoint that matches, if any. *)
OneStopped == IF remotes > 0 THEN remotes - 1 ELSE 0

(* The process at the other end of the tunnels went offline. *)
cloud_offline ==
  /\ Received
  /\ login = "in"
  /\ gc_packet_send(locals)
  /\ tunnel' = FALSE /\ locals' = 0
  /\ remotes' = OneStopped
  /\ timers' = hang_reset \cup Forced(locals + remotes)
  /\ UNCHANGED <<opts, login, ends>>

(* An endpoint_stop message. *)
endpoint_stop ==
  /\ Received
  /\ login = "in"
  /\ remotes' = OneStopped
  /\ timers' = hang_reset \cup Forced(remotes)
  /\ UNCHANGED <<opts, conn, login, tunnel, locals, ends, bad>>

(* Any other packet. *)
other_packet ==
  /\ Received
  /\ timers' = hang_reset
  /\ UNCHANGED <<opts, conn, login, peers, ends, bad>>

callback_data == \/ login_reply \/ final_reply \/ device_pair_reply \/ tunnel_request
                 \/ cloud_offline \/ endpoint_stop \/ other_packet

(* The write watcher fired on an open connection. *)
async_write_ssl ==
  /\ Reading
  /\ "write" \in watchers /\ active
  /\ \/ /\ queue > 0
        /\ queue' = queue - 1
        /\ watchers' = watchers \ If(queue = 1, {"write"})
        /\ UNCHANGED <<opts, active, dangling, timers, login, peers, ends, bad>>
     \/ queue > 0 /\ upstream_error(watchers)

(* The write watcher was started after the descriptor was closed: libev    *)
(* stops it and calls it once.                                             *)
async_write_ssl_closed ==
  /\ Running
  /\ "write" \in watchers /\ ~active
  /\ \/ ~gc_sigterm /\ upstream_error(watchers \ {"write"})
     \/ /\ gc_sigterm
        /\ watchers' = watchers \ {"write"}
        /\ UNCHANGED <<opts, active, queue, dangling, timers, login, peers, ends, bad>>
-----------------------------------------------------------------------------
(* The timers of the connection. *)
hang == Running /\ "hang" \in timers /\ upstream_error(watchers)

ping ==
  /\ Running
  /\ "ping" \in timers
  /\ gc_packet_send(1)
  /\ UNCHANGED <<opts, timers, login, peers, ends>>

(* The tunnel of the configuration is asked for as long as there is none. *)
devices_pair ==
  /\ Running
  /\ "pair" \in timers /\ ~tunnel
  /\ gc_packet_send(1)
  /\ UNCHANGED <<opts, timers, login, peers, ends>>

(* The clients of the tunnels' servers, and the connections to backends.   *)
accept ==
  /\ Reading
  /\ tunnel /\ locals < MaxLocals
  /\ locals' = locals + 1
  /\ UNCHANGED <<opts, conn, timers, login, tunnel, remotes, ends, bad>>

(* Either may have read something, which goes to the relay. *)
peer_data ==
  /\ Reading
  /\ locals + remotes > 0
  /\ gc_packet_send(1)
  /\ UNCHANGED <<opts, timers, login, peers, ends>>

client_error ==
  /\ Reading
  /\ locals > 0
  /\ gc_packet_send(1)
  /\ locals' = locals - 1
  /\ timers' = timers \cup Forced(1)
  /\ UNCHANGED <<opts, login, tunnel, remotes, ends>>

endpoint_error ==
  /\ Reading
  /\ remotes > 0
  /\ remotes' = remotes - 1
  /\ timers' = timers \cup Forced(1)
  /\ UNCHANGED <<opts, conn, login, tunnel, locals, ends, bad>>
-----------------------------------------------------------------------------
sigh_terminate ==
  /\ Reading
  /\ gc_sigterm' = TRUE
  /\ timers' = timers \cup {"shutdown"}
  /\ UNCHANGED <<opts, conn, login, peers, servers, freed, exited, bad>>

(* All timers are stopped, the shutdown timer first. *)
StopTimers == Forced(locals + remotes)

(* The list that the messages to the other ends are appended to: the       *)
(* connection was shut down before the tunnels are.                        *)
StopDangling == IF active THEN queue > 0 ELSE dangling

\* With a bug: the connection is left open.
StopWatchersLeft == watchers \cup If(locals > 0, {"write"})

StopWatchers == (IF active THEN {} ELSE watchers) \cup If(locals > 0, {"write"})

stop ==
  /\ Running
  /\ "shutdown" \in timers
  /\ timers' = StopTimers
  /\ servers' = {}
  /\ freed' = TRUE
  /\ active' = FALSE
  /\ dangling' = StopDangling
  /\ queue' = (IF active THEN 0 ELSE queue) + locals
  /\ watchers' = StopWatchers
  /\ bad' = bad \cup If(freed, {"freed_config"}) \cup If(locals > 0 /\ StopDangling, {"freed_slot"})
  /\ tunnel' = FALSE /\ locals' = 0 /\ remotes' = 0
  /\ UNCHANGED <<opts, login, gc_sigterm, exited>>

Next == \/ upstream_connect \/ handle_connect \/ client_handshake
        \/ read_error \/ callback_data \/ async_write_ssl \/ async_write_ssl_closed
        \/ hang \/ ping \/ devices_pair
        \/ accept \/ peer_data \/ client_error \/ endpoint_error
        \/ sigh_terminate \/ stop

Spec == Init /\ [][Next]_vars
-----------------------------------------------------------------------------
(* A connection that ends, for whatever reason, leaves the timer that makes *)
(* the next one started, unless the program is stopped.                    *)
LossStartsTimer == [][active /\ ~active' => "connect" \in timers' \/ freed']_vars

(* An attempt to connect clears the client structure; its watchers must    *)
(* not be started, nor its descriptor be open, when it does.               *)
ConnectsFromIdle == "connect" \in timers /\ ~freed => ~active /\ watchers = {}

(* Nothing is there that would queue a packet: no timer of the connection, *)
(* no client of a tunnel, no connection to a backend.                      *)
NothingSends ==
  timers \cap {"ping", "pair", "hang"} = {} /\ ~tunnel /\ locals = 0 /\ remotes = 0

(* Without a connection nothing is left that would queue a packet.         *)
NothingSendsWhileDown == ~active => NothingSends

(* From its first step to its last nothing but the handshake drives the    *)
(* SSL session, and until it is over no packet is queued, nor anything     *)
(* there that would queue one.  One exception: while connect() is under    *)
(* way the watcher for reading is started as well (async_client.c:399), so *)
(* that SSL_read() may run before the handshake does.                      *)
HandshakeAlone ==
  watchers \cap {"w_connect", "r_handshake", "w_handshake"} # {} =>
    /\ watchers \in {{"read", "w_connect"}, {"r_handshake"}, {"w_handshake"}}
    /\ queue = 0 /\ NothingSends

(* A connection that is in use is watched by the hang timer, and kept      *)
(* alive by the ping timer.                                                *)
HangGuards ==
  active /\ "read" \in watchers /\ "w_connect" \notin watchers => {"hang", "ping"} \subseteq timers

(* Until stop() no freed memory is used and no started timer is            *)
(* initialised again.                                                      *)
DefinedUntilStop == ~freed => bad = {}

(* gcapi.h on gc_force_stop(): "Interrupt activity and clean any library   *)
(* related structures".  After stop() the program does not connect again.  *)
StopIsFinal == freed => ~active /\ "connect" \notin timers
=============================================================================
