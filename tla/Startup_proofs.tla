--------------------------- MODULE Startup_proofs ---------------------------
(***************************************************************************)
(* The connection to the relay keeps its watchers, timers and dependants   *)
(* consistent, from gc_init() on and for any number of clients of tunnels, *)
(* connections to backends, modules and relays.                            *)
(*                                                                         *)
(* The properties are not inductive one by one: each forbids some handler  *)
(* to run in a state that another one excludes.  Consistent joins them.    *)
(* Three kinds of steps preserve it: those of a connection that is in use  *)
(* (Steady), those that lose it (Lost), and the few that open it or stop.  *)
(***************************************************************************)
EXTENDS Startup, SeqLemmas

Handshaking == \E w \in {"w_connect", "r_handshake", "w_handshake"} : w \in watchers

(* Nothing is there that would queue a packet. *)
Quiet == /\ "ping" \notin timers /\ "pair" \notin timers /\ "hang" \notin timers
         /\ ~tunnel /\ locals = 0 /\ remotes = 0

Counted == queue \in Nat /\ locals \in Nat /\ remotes \in Nat

OpenOrNot == active \in BOOLEAN

(* The connect timer runs between connections only. *)
OneConnection == "connect" \in timers => ~active

(* Of a connection that is down no watcher is started; after stop() it may *)
(* be the one for writing.                                                 *)
DownIsUnwatched == ~active => IF freed THEN watchers \subseteq {"write"} ELSE watchers = {}

OpenIsSound == active => ~dangling

DownIsQuiet == ~active => Quiet

HandshakeIsQuiet == Handshaking => Quiet /\ queue = 0 /\ "write" \notin watchers

(* The watchers of the connect phase, or one of the handshake's. *)
HandshakeWatchers ==
  Handshaking => watchers \in {{"read", "w_connect"}, {"r_handshake"}, {"w_handshake"}}

PairsWhenLogged == "pair" \in timers => login = "in"

Consistent == /\ Counted /\ OpenOrNot
              /\ OneConnection /\ DownIsUnwatched /\ OpenIsSound /\ DownIsQuiet
              /\ HandshakeIsQuiet /\ HandshakeWatchers /\ PairsWhenLogged
              /\ HangGuards /\ DefinedUntilStop

(* A connection that is in use: the handshake is over. *)
Up == active /\ ~Handshaking

(* What the handlers of such a connection may do to it. *)
Steady == /\ active' /\ dangling' = dangling /\ bad' = bad /\ freed' = freed
          /\ queue' \in Nat /\ locals' \in Nat /\ remotes' \in Nat
          /\ watchers' \subseteq watchers \cup {"write"}
          /\ timers \subseteq timers' /\ "connect" \notin timers' \ timers
          /\ "pair" \in timers' => login' = "in"
-----------------------------------------------------------------------------
(* Such a step leaves everything consistent. *)
LEMMA SteadyStep == ASSUME Consistent, Up, Steady, active' \in BOOLEAN PROVE Consistent'
<1>1. ~Handshaking'
  BY DEF Up, Steady, Handshaking
<1>2. Counted' /\ OpenOrNot' /\ OneConnection' /\ OpenIsSound' /\ DownIsUnwatched' /\ DownIsQuiet'
  BY DEF Consistent, Counted, OpenOrNot, OneConnection, OpenIsSound, DownIsUnwatched, DownIsQuiet,
         Up, Steady
<1>3. HandshakeWatchers' /\ HandshakeIsQuiet'
  BY <1>1 DEF HandshakeWatchers, HandshakeIsQuiet, Handshaking
<1>4. PairsWhenLogged' /\ DefinedUntilStop'
  BY DEF Consistent, PairsWhenLogged, DefinedUntilStop, Steady
<1>5. HangGuards'
  BY <1>1 DEF Consistent, HangGuards, Up, Steady, Handshaking
<1>6. QED
  BY <1>2, <1>3, <1>4, <1>5 DEF Consistent

(* What depends on the connection is there only when it is in use. *)
LEMMA UsedIsUp ==
  ASSUME Consistent,
         \/ "ping" \in timers \/ "pair" \in timers \/ "hang" \in timers
         \/ tunnel \/ locals # 0 \/ remotes # 0
         \/ "write" \in watchers /\ active
  PROVE Up
  BY DEF Consistent, DownIsQuiet, HandshakeIsQuiet, Quiet, Up

(* A packet arrives on a connection in use, which the timers watch. *)
LEMMA ReceivedIsUp ==
  ASSUME Consistent, Received
  PROVE Up /\ "hang" \in timers /\ "ping" \in timers
<1>1. active
  BY DEF Consistent, Received, DownIsUnwatched
<1>2. "r_handshake" \notin watchers /\ "w_handshake" \notin watchers
  BY DEF Consistent, Received, HandshakeWatchers, Handshaking
<1>3. QED
  BY <1>1, <1>2 DEF Consistent, Received, HangGuards, Up, Handshaking

(* A packet queued for a connection in use is a steady step. *)
LEMMA SendIsSteady ==
  ASSUME Consistent, Up, NEW n \in Nat, gc_packet_send(n)
  PROVE /\ active' = active /\ dangling' = dangling /\ bad' = bad
        /\ queue' \in Nat /\ watchers' \subseteq watchers \cup {"write"}
  BY DEF Consistent, Counted, OpenIsSound, Up, gc_packet_send, If

(* upstream_error(), with the watchers ws left of a connection that was    *)
(* shut down before, leaves everything consistent.                         *)
LEMMA Lost ==
  ASSUME Consistent, Running, NEW STATE ws, upstream_error(ws),
         ~active => ws \subseteq watchers
  PROVE Consistent'
<1>1. active' = FALSE /\ Quiet' /\ freed' = freed /\ login' = login
  BY DEF upstream_error, ErrorTimers, Forced, If, Quiet, ends
<1>2. Counted'
  <2>1. queue' = 0 \/ queue' = queue + locals
    BY DEF upstream_error
  <2>2. locals' = 0 /\ remotes' = 0
    BY DEF upstream_error
  <2>3. QED
    BY <2>1, <2>2 DEF Consistent, Counted
<1>3. bad' = bad
  BY SMT DEF Consistent, Counted, OpenIsSound, DownIsQuiet, Quiet, upstream_error, If
<1>4. IF freed THEN watchers' \subseteq {"write"} ELSE watchers' = {}
  BY DEF Consistent, Counted, DownIsUnwatched, DownIsQuiet, Quiet, upstream_error, If
<1>5. ~Handshaking' /\ "read" \notin watchers'
  BY <1>4 DEF Handshaking
<1>6. OpenOrNot' /\ OneConnection' /\ OpenIsSound' /\ DownIsUnwatched' /\ DownIsQuiet'
  BY <1>1, <1>4 DEF OpenOrNot, OneConnection, OpenIsSound, DownIsUnwatched, DownIsQuiet
<1>7. HandshakeWatchers' /\ HandshakeIsQuiet' /\ HangGuards' /\ PairsWhenLogged'
  BY <1>1, <1>5 DEF HandshakeWatchers, HandshakeIsQuiet, HangGuards, PairsWhenLogged, Quiet
<1>8. DefinedUntilStop'
  BY <1>3 DEF Running, DefinedUntilStop
<1>9. QED
  BY <1>2, <1>6, <1>7, <1>8 DEF Consistent
-----------------------------------------------------------------------------
(* A connection is tried only when there is none, and what is left of the  *)
(* last one is empty.                                                      *)
LEMMA ConnectStep == ASSUME Consistent, upstream_connect PROVE Consistent'
<1>1. ~active /\ Quiet
  BY DEF Consistent, OneConnection, DownIsQuiet, upstream_connect
<1>2. Quiet' /\ queue' = 0 /\ ~dangling' /\ freed' = freed /\ bad' = bad
      /\ "connect" \notin timers' /\ "write" \notin watchers'
  BY <1>1 DEF upstream_connect, ConnectTimers, Cleared, Quiet, peers, ends
<1>3. \/ active' = TRUE /\ watchers' = {"read", "w_connect"}
      \/ active' = FALSE /\ watchers' = {}
  BY DEF upstream_connect
<1>4. Counted'
  BY <1>2, <1>3 DEF Counted, Quiet
<1>5. OpenOrNot' /\ OneConnection' /\ OpenIsSound' /\ DownIsUnwatched' /\ DownIsQuiet'
  BY <1>2, <1>3 DEF OpenOrNot, OneConnection, OpenIsSound, DownIsUnwatched, DownIsQuiet
<1>6. HandshakeWatchers' /\ HandshakeIsQuiet' /\ HangGuards' /\ PairsWhenLogged'
  <2>1. HandshakeWatchers'
    BY <1>3 DEF HandshakeWatchers, Handshaking
  <2>2. HandshakeIsQuiet' /\ HangGuards' /\ PairsWhenLogged'
    BY <1>2, <1>3 DEF HandshakeIsQuiet, HangGuards, PairsWhenLogged, Quiet
  <2>3. QED
    BY <2>1, <2>2
<1>7. DefinedUntilStop'
  BY <1>2 DEF Consistent, DefinedUntilStop
<1>8. QED
  BY <1>4, <1>5, <1>6, <1>7 DEF Consistent

(* Consistent does not depend on anything else. *)
LEMMA Unchanged ==
  ASSUME Consistent, UNCHANGED <<active, watchers, queue, dangling, login, tunnel, locals,
                                 remotes, freed, bad>>,
         \/ timers' = timers \/ timers' = timers \cup {"shutdown"}
  PROVE Consistent'
<1>1. \A t \in {"connect", "ping", "pair", "hang"} : t \in timers' <=> t \in timers
  OBVIOUS
<1>2. Quiet' <=> Quiet
  BY <1>1 DEF Quiet
<1>3. Handshaking' <=> Handshaking
  BY DEF Handshaking
<1>4. Counted' /\ OpenOrNot' /\ OneConnection' /\ DownIsUnwatched' /\ OpenIsSound' /\ DownIsQuiet'
  BY <1>1, <1>2 DEF Consistent, Counted, OpenOrNot, OneConnection, DownIsUnwatched, OpenIsSound,
                    DownIsQuiet
<1>5. HandshakeIsQuiet' /\ HandshakeWatchers' /\ PairsWhenLogged' /\ DefinedUntilStop'
  BY <1>1, <1>2, <1>3 DEF Consistent, HandshakeIsQuiet, HandshakeWatchers, PairsWhenLogged,
                          DefinedUntilStop
<1>6. HangGuards'
  BY <1>1 DEF Consistent, HangGuards
<1>7. QED
  BY <1>4, <1>5, <1>6 DEF Consistent

(* While the handshake goes on, the watchers are only those it needs. *)
LEMMA HandshakeStep == ASSUME Consistent, handle_connect \/ client_handshake PROVE Consistent'
<1>1. CASE exit
  BY <1>1, Unchanged DEF exit, conn, peers
<1>2. CASE ~exit /\ ~(client_handshake /\ end_handshake)
  <2>0. watchers \in {{"read", "w_connect"}, {"r_handshake"}, {"w_handshake"}}
    BY DEF Consistent, HandshakeWatchers, handle_connect, client_handshake, Handshaking
  <2>1. /\ UNCHANGED <<active, queue, dangling, timers, login, tunnel, locals, remotes, freed, bad>>
        /\ Handshaking
        /\ watchers' \in {{"r_handshake"}, {"w_handshake"}}
    BY <1>2, <2>0 DEF handle_connect, client_handshake, start_handshake, Handshaking, peers, ends
  <2>2. active
    BY <2>1 DEF Consistent, DownIsUnwatched, Handshaking
  <2>3. Quiet' /\ queue' = 0 /\ "write" \notin watchers' /\ "read" \notin watchers'
    BY <2>1 DEF Consistent, HandshakeIsQuiet, Quiet
  <2>4. Counted' /\ OpenOrNot' /\ OneConnection' /\ DownIsUnwatched' /\ OpenIsSound' /\ DownIsQuiet'
    BY <2>1, <2>2, <2>3 DEF Consistent, Counted, OpenOrNot, OneConnection, DownIsUnwatched,
                            OpenIsSound,
                            DownIsQuiet
  <2>5. HandshakeIsQuiet' /\ HandshakeWatchers' /\ PairsWhenLogged' /\ DefinedUntilStop'
    BY <2>1, <2>3 DEF Consistent, HandshakeIsQuiet, HandshakeWatchers, PairsWhenLogged,
                      DefinedUntilStop, Quiet
  <2>6. HangGuards'
    BY <2>3 DEF HangGuards
  <2>7. QED
    BY <2>4, <2>5, <2>6 DEF Consistent
<1>3. CASE client_handshake /\ end_handshake
  <2>1. Handshaking /\ active
    BY <1>3 DEF Consistent, DownIsUnwatched, client_handshake, Handshaking
  <2>2. Quiet /\ queue = 0 /\ ~dangling
    BY <2>1 DEF Consistent, HandshakeIsQuiet, OpenIsSound
  <2>3. /\ active' /\ active' = active /\ ~dangling' /\ queue' = 1 /\ freed' = freed
        /\ watchers' = {"read", "write"}
        /\ UNCHANGED <<tunnel, locals, remotes>>
        /\ timers' = timers \cup {"hang", "ping"}
    BY <1>3, <2>1, <2>2 DEF end_handshake, state_changed, callback_state_changed, peers, ends
  <2>4. ~freed => bad' = bad
    BY <1>3, <2>2 DEF end_handshake, state_changed, callback_state_changed, If
  <2>5. ~Handshaking' /\ "pair" \notin timers'
    BY <2>2, <2>3 DEF Handshaking, Quiet
  <2>6. Counted' /\ OpenOrNot' /\ OneConnection' /\ DownIsUnwatched' /\ OpenIsSound' /\ DownIsQuiet'
    BY <2>1, <2>3 DEF Consistent, Counted, OpenOrNot, OneConnection, DownIsUnwatched,
                      OpenIsSound, DownIsQuiet
  <2>7. HandshakeIsQuiet' /\ HandshakeWatchers' /\ PairsWhenLogged'
    BY <2>3, <2>5 DEF HandshakeIsQuiet, HandshakeWatchers, PairsWhenLogged
  <2>8. HangGuards' /\ DefinedUntilStop'
    BY <2>3, <2>4 DEF Consistent, HangGuards, DefinedUntilStop
  <2>9. QED
    BY <2>6, <2>7, <2>8 DEF Consistent
<1>4. QED
  BY <1>1, <1>2, <1>3
-----------------------------------------------------------------------------
(* stop() leaves nothing but, it may be, a write watcher that can't send. *)
LEMMA StopStep == ASSUME Consistent, stop PROVE Consistent'
<1>1. active' = FALSE /\ freed' /\ Quiet' /\ "connect" \notin timers'
  BY DEF stop, StopTimers, Forced, If, Quiet
<1>2. watchers' \subseteq {"write"}
  BY DEF Consistent, DownIsUnwatched, stop, StopWatchers, If
<1>3. Counted'
  <2>1. queue' = locals \/ queue' = queue + locals
    BY DEF Consistent, Counted, stop
  <2>2. locals' = 0 /\ remotes' = 0
    BY DEF stop
  <2>3. QED
    BY <2>1, <2>2 DEF Consistent, Counted
<1>4. ~Handshaking' /\ "read" \notin watchers'
  BY <1>2 DEF Handshaking
<1>5. OpenOrNot' /\ OneConnection' /\ OpenIsSound' /\ DownIsUnwatched' /\ DownIsQuiet'
  BY <1>1, <1>2 DEF OpenOrNot, OneConnection, OpenIsSound, DownIsUnwatched, DownIsQuiet
<1>6. HandshakeWatchers' /\ HandshakeIsQuiet' /\ HangGuards' /\ PairsWhenLogged'
  BY <1>1, <1>4 DEF HandshakeWatchers, HandshakeIsQuiet, HangGuards, PairsWhenLogged, Quiet
<1>7. DefinedUntilStop'
  BY <1>1 DEF DefinedUntilStop
<1>8. QED
  BY <1>3, <1>5, <1>6, <1>7 DEF Consistent

(* Every packet of the relay leaves the connection as it should be. *)
LEMMA PacketStep == ASSUME Consistent, callback_data PROVE Consistent'
<1>1. Up /\ active = TRUE /\ "hang" \in timers /\ Received
  BY ReceivedIsUp DEF callback_data, login_reply, final_reply, device_pair_reply, tunnel_request,
                      cloud_offline, endpoint_stop, other_packet, Up, Consistent, OpenOrNot
<1>2. hang_reset = timers
  BY <1>1 DEF hang_reset
<1>3. queue \in Nat /\ locals \in Nat /\ remotes \in Nat
  BY DEF Consistent, Counted
<1>4. OneStopped \in Nat
  BY <1>3 DEF OneStopped
<1>5. login = "in" \/ "pair" \notin timers
  BY DEF Consistent, PairsWhenLogged
<1>6. CASE login_reply
  <2>1. CASE gc_packet_send(1) /\ timers' = timers
    BY <1>1, <1>3, <1>5, <1>6, <2>1, SendIsSteady, SteadyStep DEF login_reply, Steady, peers, ends
  <2>2. CASE UNCHANGED conn /\ timers' = timers \cup {"pair"} /\ login' = "in" /\ bad' = bad
    BY <1>1, <1>3, <1>6, <2>2, SteadyStep DEF login_reply, Steady, conn, peers, ends
  <2>3. CASE UNCHANGED <<conn, bad>> /\ timers' = timers \cup {"shutdown"}
    BY <1>1, <1>3, <1>5, <1>6, <2>3, SteadyStep DEF login_reply, Steady, conn, peers, ends
  <2>4. QED
    BY <1>2, <1>5, <1>6, <2>1, <2>2, <2>3 DEF login_reply, If
<1>7. CASE final_reply
  BY <1>1, <1>2, <1>3, <1>5, <1>7, SteadyStep DEF final_reply, Steady, conn, peers, ends
<1>8. CASE device_pair_reply
  BY <1>1, <1>2, <1>3, <1>8, SteadyStep DEF device_pair_reply, Steady, conn, ends
<1>9. CASE tunnel_request
  BY <1>1, <1>2, <1>3, <1>9, SteadyStep DEF tunnel_request, Steady, conn, ends
<1>10. CASE cloud_offline
  <2>1. /\ active' = active /\ dangling' = dangling /\ bad' = bad
        /\ queue' \in Nat /\ watchers' \subseteq watchers \cup {"write"}
    BY <1>1, <1>3, <1>10, SendIsSteady DEF cloud_offline
  <2>2. timers \subseteq timers' /\ "connect" \notin timers' \ timers
    BY <1>2, <1>10 DEF cloud_offline, Forced, If
  <2>3. QED
    BY <1>1, <1>4, <1>10, <2>1, <2>2, SteadyStep DEF cloud_offline, Steady, ends
<1>11. CASE endpoint_stop
  <2>1. timers \subseteq timers' /\ "connect" \notin timers' \ timers
    BY <1>2, <1>11 DEF endpoint_stop, Forced, If
  <2>2. QED
    BY <1>1, <1>3, <1>4, <1>11, <2>1, SteadyStep DEF endpoint_stop, Steady, conn, ends
<1>12. CASE other_packet
  BY <1>2, <1>12, Unchanged DEF other_packet, conn, peers, ends
<1>13. QED
  BY <1>6, <1>7, <1>8, <1>9, <1>10, <1>11, <1>12 DEF callback_data

(* So do the timers, and the clients of tunnels and connections to         *)
(* backends, which exist only while it is in use.                          *)
LEMMA PeerStep ==
  ASSUME Consistent, ping \/ devices_pair \/ accept \/ peer_data \/ client_error \/ endpoint_error
  PROVE Consistent'
<1>1. queue \in Nat /\ locals \in Nat /\ remotes \in Nat
  BY DEF Consistent, Counted
<1>2. \/ "ping" \in timers \/ "pair" \in timers \/ tunnel \/ locals # 0 \/ remotes # 0
  BY <1>1 DEF ping, devices_pair, accept, peer_data, client_error, endpoint_error
<1>3. Up /\ active = TRUE
  BY <1>2, UsedIsUp DEF Up, Consistent, OpenOrNot
<1>4. /\ active' = active /\ dangling' = dangling /\ bad' = bad
      /\ queue' \in Nat /\ watchers' \subseteq watchers \cup {"write"}
  <2>1. CASE gc_packet_send(1)
    BY <1>3, <2>1, SendIsSteady
  <2>2. CASE UNCHANGED <<conn, bad>>
    BY <1>1, <2>2 DEF conn
  <2>3. QED
    BY <2>1, <2>2 DEF ping, devices_pair, accept, peer_data, client_error, endpoint_error
<1>5. /\ locals' \in Nat /\ remotes' \in Nat
  BY <1>1 DEF ping, devices_pair, accept, peer_data, client_error, endpoint_error, peers
<1>6. timers \subseteq timers' /\ timers' \subseteq timers \cup {"shutdown"}
  BY DEF ping, devices_pair, accept, peer_data, client_error, endpoint_error, Forced, If
<1>7. login' = login /\ freed' = freed
  BY DEF ping, devices_pair, accept, peer_data, client_error, endpoint_error, ends
<1>8. Steady
  BY <1>3, <1>4, <1>5, <1>6, <1>7 DEF Steady, Consistent, PairsWhenLogged
<1>9. QED
  BY <1>3, <1>4, <1>8, SteadyStep

(* So does the write watcher, which a connection that was shut down may    *)
(* have kept.                                                              *)
LEMMA WriteStep ==
  ASSUME Consistent, async_write_ssl \/ async_write_ssl_closed PROVE Consistent'
<1>1. CASE upstream_error(watchers) \/ upstream_error(watchers \ {"write"})
  <2>1. Running /\ watchers \ {"write"} \subseteq watchers
    BY DEF async_write_ssl, async_write_ssl_closed, Reading
  <2>2. QED
    BY <1>1, <2>1, Lost
<1>2. CASE async_write_ssl /\ ~upstream_error(watchers)
  <2>1. Up /\ active = TRUE
    BY <1>2, UsedIsUp DEF async_write_ssl, Up, Consistent, OpenOrNot
  <2>2. queue' \in Nat
    <3>1. queue > 0 /\ queue' = queue - 1
      BY <1>2 DEF async_write_ssl
    <3>2. QED
      BY <3>1 DEF Consistent, Counted
  <2>3. watchers' \subseteq watchers \cup {"write"}
    BY <1>2 DEF async_write_ssl
  <2>4. UNCHANGED <<active, dangling, bad, freed, timers, login, locals, remotes>>
    BY <1>2 DEF async_write_ssl, ends, peers
  <2>5. Steady
    BY <2>1, <2>2, <2>3, <2>4 DEF Steady, Consistent, Counted, PairsWhenLogged
  <2>6. QED
    BY <2>1, <2>4, <2>5, SteadyStep
<1>3. CASE /\ ~active /\ watchers' = watchers \ {"write"}
           /\ UNCHANGED <<opts, active, queue, dangling, timers, login, peers, ends, bad>>
  <2>1. ~active' /\ (Quiet' <=> Quiet) /\ freed' = freed
    BY <1>3 DEF Quiet, peers, ends
  <2>2. Counted' /\ OpenOrNot' /\ OneConnection' /\ DownIsUnwatched' /\ OpenIsSound' /\ DownIsQuiet'
    BY <1>3, <2>1 DEF Consistent, Counted, OpenOrNot, OneConnection, DownIsUnwatched, OpenIsSound,
                      DownIsQuiet, peers
  <2>3. ~Handshaking'
    BY <1>3 DEF Consistent, DownIsUnwatched, Handshaking
  <2>4. HandshakeIsQuiet' /\ HandshakeWatchers' /\ PairsWhenLogged' /\ DefinedUntilStop'
    BY <1>3, <2>1, <2>3 DEF Consistent, HandshakeIsQuiet, HandshakeWatchers, PairsWhenLogged,
                            DefinedUntilStop, Handshaking
  <2>5. HangGuards'
    BY <2>1 DEF HangGuards
  <2>6. QED
    BY <2>2, <2>4, <2>5 DEF Consistent
<1>4. QED
  BY <1>1, <1>2, <1>3 DEF async_write_ssl, async_write_ssl_closed

(* No handler of the event loop can break any of it. *)
LEMMA NextStep == ASSUME Consistent, Next PROVE Consistent'
<1>1. CASE read_error \/ hang
  BY <1>1, Lost DEF read_error, hang, Reading
<1>2. CASE sigh_terminate
  BY <1>2, Unchanged DEF sigh_terminate, conn, peers
<1>3. QED
  BY <1>1, <1>2, ConnectStep, HandshakeStep, PacketStep, WriteStep, PeerStep, StopStep DEF Next
-----------------------------------------------------------------------------
(* Until gc_init() returns, no attempt to connect was made. *)
StartsDown == phase # "run" => ~active /\ watchers = {} /\ Quiet

Invariant == Consistent /\ StartsDown

(* It holds when gc_init() begins. *)
LEMMA InvariantInit == ASSUME StartupInit PROVE Invariant
<1>1. active = FALSE /\ freed = FALSE /\ dangling = FALSE
  BY DEF StartupInit, Idle
<1>2. queue = 0 /\ locals = 0 /\ remotes = 0
  BY DEF StartupInit, Idle
<1>3. watchers = {} /\ timers = {} /\ bad = {}
  BY DEF StartupInit, Idle
<1>4. Quiet /\ ~Handshaking
  BY <1>2, <1>3 DEF StartupInit, Idle, Quiet, Handshaking
<1>5. Counted
  BY <1>2 DEF Counted
<1>6. OpenOrNot /\ OneConnection /\ DownIsUnwatched /\ OpenIsSound /\ DownIsQuiet
  BY <1>1, <1>3, <1>4 DEF OpenOrNot, OneConnection, DownIsUnwatched, OpenIsSound, DownIsQuiet
<1>7. HandshakeIsQuiet /\ HandshakeWatchers /\ PairsWhenLogged /\ HangGuards /\ DefinedUntilStop
  BY <1>1, <1>3, <1>4 DEF HandshakeIsQuiet, HandshakeWatchers, PairsWhenLogged, HangGuards,
                          DefinedUntilStop
<1>8. QED
  BY <1>1, <1>3, <1>4, <1>5, <1>6, <1>7 DEF Invariant, Consistent, StartsDown

(* Its steps, and a signal between them, start timers and nothing else. *)
LEMMA InitStep ==
  ASSUME Invariant, gc_init \/ sigh_terminate_early
                            \/ (phase = "modules" /\ sigh_terminate /\ UNCHANGED startVars)
  PROVE Invariant'
<1>1. phase # "run"
  BY DEF gc_init, config_init, backend_ping, gc_backend_init, start_timers, modules_start,
         sigh_terminate_early
<1>2. UNCHANGED <<active, watchers, queue, dangling, login, tunnel, locals, remotes, freed, bad>>
  BY DEF gc_init, config_init, backend_ping, gc_backend_init, start_timers, modules_start,
         sigh_terminate_early, sigh_terminate, Fail, vars, conn, peers, ends
<1>3. \/ timers' = timers \/ timers' = timers \cup {"shutdown"} \/ timers' = {"connect"}
  BY DEF gc_init, config_init, backend_ping, gc_backend_init, start_timers, modules_start,
         sigh_terminate_early, sigh_terminate, Fail, vars
<1>4. ~active /\ watchers = {} /\ Quiet
  BY <1>1 DEF Invariant, StartsDown
<1>5. ~active' /\ watchers' = {} /\ Quiet'
  BY <1>2, <1>3, <1>4 DEF Quiet
<1>6. Counted' /\ OpenOrNot' /\ OneConnection' /\ DownIsUnwatched' /\ OpenIsSound' /\ DownIsQuiet'
  BY <1>2, <1>5 DEF Invariant, Consistent, Counted, OpenOrNot, OneConnection, DownIsUnwatched,
                    OpenIsSound,
                    DownIsQuiet
<1>7. HandshakeIsQuiet' /\ HandshakeWatchers' /\ PairsWhenLogged' /\ HangGuards'
  BY <1>5 DEF HandshakeIsQuiet, Handshaking, HandshakeWatchers, PairsWhenLogged, Quiet,
              HangGuards
<1>8. DefinedUntilStop'
  BY <1>2 DEF Invariant, Consistent, DefinedUntilStop
<1>9. QED
  BY <1>5, <1>6, <1>7, <1>8 DEF Invariant, Consistent, StartsDown

(* It is inductive: gc_init() and the event loop preserve it. *)
LEMMA InvariantStep == Invariant /\ [StartupNext]_all => Invariant'
<1>1. ASSUME Invariant, Runs(Next /\ Served) PROVE Invariant'
  <2>1. phase' = "run"
    BY <1>1 DEF Runs, startVars
  <2>2. QED
    BY <1>1, <2>1, NextStep DEF Runs, Invariant, StartsDown
<1>2. ASSUME Invariant, UNCHANGED all PROVE Invariant'
  <2>1. Consistent'
    BY <1>2, Unchanged DEF Invariant, all, vars, conn, peers, ends
  <2>2. StartsDown'
    BY <1>2 DEF Invariant, StartsDown, Quiet, all, startVars, vars, conn, peers
  <2>3. QED
    BY <2>1, <2>2 DEF Invariant
<1>3. QED
  BY <1>1, <1>2, InitStep DEF StartupNext

(* The connection is consistent at every moment. *)
THEOREM StartupConsistent == StartupSpec => []Invariant
  BY InvariantInit, InvariantStep, PTL DEF StartupSpec

(* Without a connection nothing is left that would queue a packet: no      *)
(* timer of the connection, no client of a tunnel, no backend.             *)
THEOREM DownIsSilent == StartupSpec => []NothingSendsWhileDown
<1>1. Invariant => NothingSendsWhileDown
  BY DEF Invariant, Consistent, DownIsQuiet, Quiet, NothingSendsWhileDown, NothingSends
<1>2. QED
  BY <1>1, StartupConsistent, PTL

(* An attempt to connect never clears a client that is open or watched.    *)
THEOREM ConnectIsFromIdle == StartupSpec => []ConnectsFromIdle
<1>1. Invariant => ConnectsFromIdle
  BY DEF Invariant, Consistent, OneConnection, DownIsUnwatched, ConnectsFromIdle
<1>2. QED
  BY <1>1, StartupConsistent, PTL

(* From its first step to its last only the handshake drives the SSL       *)
(* session, and until it is over nothing is queued.  While connect() is    *)
(* under way the watcher for reading is started too.                       *)
THEOREM HandshakeIsAlone == StartupSpec => []HandshakeAlone
<1>1. Invariant => HandshakeAlone
  BY DEF Invariant, Consistent, HandshakeIsQuiet, HandshakeWatchers, Handshaking, Quiet,
         HandshakeAlone, NothingSends
<1>2. QED
  BY <1>1, StartupConsistent, PTL

(* A connection in use has its hang and ping timers started.               *)
THEOREM HangIsGuarded == StartupSpec => []HangGuards
<1>1. Invariant => HangGuards
  BY DEF Invariant, Consistent
<1>2. QED
  BY <1>1, StartupConsistent, PTL

(* Until stop() no handler uses freed memory, nor initialises a timer that *)
(* is started.                                                             *)
THEOREM DefinedWhileRunning == StartupSpec => []DefinedUntilStop
<1>1. Invariant => DefinedUntilStop
  BY DEF Invariant, Consistent
<1>2. QED
  BY <1>1, StartupConsistent, PTL

(* A lost connection always leaves the timer that makes the next one.      *)
THEOREM LossIsRetried == StartupSpec => LossStartsTimer
<1>1. ASSUME Invariant, [StartupNext]_all, active, ~active'
      PROVE "connect" \in timers' \/ freed'
  <2>1. Runs(Next /\ Served)
    BY <1>1 DEF StartupNext, gc_init, config_init, backend_ping, gc_backend_init, start_timers,
                modules_start, sigh_terminate_early, sigh_terminate, Fail, all, vars, conn
  <2>2. ASSUME NEW STATE ws, upstream_error(ws) PROVE "connect" \in timers'
    BY <2>2 DEF upstream_error, ErrorTimers
  <2>3. ~upstream_connect
    BY <1>1 DEF Invariant, Consistent, OneConnection, upstream_connect
  <2>4. stop \/ upstream_error(watchers) \/ upstream_error(watchers \ {"write"})
    BY <1>1, <2>1, <2>3
       DEF Runs, Next, handle_connect, client_handshake, exit, end_handshake, read_error,
           callback_data, login_reply, final_reply, device_pair_reply, tunnel_request,
           cloud_offline, endpoint_stop, other_packet, gc_packet_send, async_write_ssl,
           async_write_ssl_closed, hang, ping, devices_pair, accept, peer_data, client_error,
           endpoint_error, sigh_terminate, conn
  <2>5. QED
    BY <2>2, <2>4 DEF stop
<1>2. Invariant /\ [StartupNext]_all
        => [active /\ ~active' => "connect" \in timers' \/ freed']_vars
  BY <1>1
<1>3. QED
  BY <1>2, StartupConsistent, PTL DEF StartupSpec, LossStartsTimer
-----------------------------------------------------------------------------
(* Lists that are put behind each other have the elements they had. *)
LEMMA FlattenRange ==
  ASSUME NEW X, NEW seqs \in Seq(Seq(X))
  PROVE  Range(FlattenSeq(seqs)) = UNION {Range(seqs[i]) : i \in 1..Len(seqs)}
<1> DEFINE N == Len(seqs)
<1>1. N \in Nat /\ seqs \in [1..N -> Seq(X)] /\ <<>> \in Seq(X)
  BY LenProperties, EmptySeq
<1>2. PICK upto : /\ FlattenSeq(seqs) = IF N = 0 THEN <<>> ELSE upto[N]
                  /\ \A n \in 1..N : upto[n] = IF n = 1 THEN seqs[n] ELSE upto[n - 1] \o seqs[n]
  BY FlattenUpto
<1> HIDE DEF N
<1> DEFINE Good(n) == upto[n] \in Seq(X) /\ Range(upto[n]) = UNION {Range(seqs[i]) : i \in 1..n}
           P == {n \in 0..N : n # 0 => Good(n)}
<1>3. 0 \in P
  BY <1>1
<1>4. ASSUME NEW n \in 0..(N - 1), n \in P PROVE n + 1 \in P
  <2>1. n + 1 \in 1..N /\ n + 1 \in 0..N /\ (n + 1) - 1 = n /\ seqs[n + 1] \in Seq(X)
    BY <1>1
  <2>2. upto[n + 1] = IF n + 1 = 1 THEN seqs[n + 1] ELSE upto[n] \o seqs[n + 1]
    BY <1>2, <2>1
  <2>3. 1..(n + 1) = 1..n \cup {n + 1}
    BY <2>1
  <2>4. CASE n = 0
    <3>1. upto[n + 1] = seqs[n + 1] /\ 1..(n + 1) = {n + 1}
      BY <2>2, <2>4
    <3>2. Good(n + 1)
      BY <2>1, <3>1
    <3>3. QED
      BY <2>1, <3>2
  <2>5. CASE n # 0
    <3>0. Good(n)
      BY <1>4, <2>5
    <3>1. upto[n] \in Seq(X) /\ upto[n + 1] = upto[n] \o seqs[n + 1]
      <4>1. n + 1 # 1
        BY <1>1, <2>5
      <4>2. QED
        BY <2>2, <3>0, <4>1
    <3>2. Range(upto[n + 1]) = Range(upto[n]) \cup Range(seqs[n + 1])
      BY <2>1, <3>1, RangeConcatenation
    <3>3. upto[n + 1] \in Seq(X)
      BY <2>1, <3>1, ConcatProperties
    <3>4. Good(n + 1)
      BY <2>3, <3>0, <3>2, <3>3
    <3>5. QED
      BY <2>1, <3>4
  <2>6. QED
    BY <2>4, <2>5
<1>5. N \in P
  <2> HIDE DEF P
  <2>1. N \in 0..N
    BY <1>1
  <2>2. QED
    BY <1>1, <1>3, <1>4, <2>1, Upwards
<1>6. CASE N = 0
  <2>1. FlattenSeq(seqs) = <<>> /\ 1..N = {} /\ Range(<<>>) = {}
    BY <1>2, <1>6 DEF Range
  <2>2. QED
    BY <2>1 DEF N
<1>7. CASE N # 0
  BY <1>2, <1>5, <1>7 DEF N
<1>8. QED
  BY <1>6, <1>7

(* What backend_ping() lists: relays, and what ping measured of each. *)
Pinged == [node : Node \cup {NULL}, ping : Seq(Time)]
Answer == [node : Node \cup {NULL}, time : Time]

IsListed(list) == /\ list \in Seq(Answer)
                  /\ \A h \in Range(bnd) : \A t \in Range(h.ping) :
                       \E a \in Range(list) : a.node = h.node /\ a.time = t
                  /\ \A a \in Range(list) : \E h \in Range(bnd) :
                       a.node = h.node /\ a.time \in Range(h.ping)

(* Every answer of every relay is listed, and nothing else. *)
LEMMA ListedAnswers ==
  ASSUME bnd \in Seq(Pinged)
  PROVE  IsListed(Listed)
<1> DEFINE Of(h) == [i \in DOMAIN bnd[h].ping |-> [node |-> bnd[h].node, time |-> bnd[h].ping[i]]]
           lists == [h \in DOMAIN bnd |-> Of(h)]
<1>1. /\ DOMAIN bnd = 1..Len(bnd) /\ Len(bnd) \in Nat
      /\ \A h \in DOMAIN bnd : bnd[h] \in Pinged
  BY LenProperties
<1>2. \A h \in DOMAIN bnd : bnd[h].node \in Node \cup {NULL} /\ bnd[h].ping \in Seq(Time)
  BY <1>1 DEF Pinged
<1>3. ASSUME NEW h \in DOMAIN bnd
      PROVE  Of(h) \in Seq(Answer) /\ DOMAIN Of(h) = DOMAIN bnd[h].ping
  <2>1. /\ DOMAIN bnd[h].ping = 1..Len(bnd[h].ping) /\ Len(bnd[h].ping) \in Nat
        /\ \A i \in DOMAIN bnd[h].ping : bnd[h].ping[i] \in Time
    BY <1>2, LenProperties
  <2>2. Of(h) \in [1..Len(bnd[h].ping) -> Answer]
    BY <1>2, <2>1 DEF Answer
  <2>3. QED
    BY <2>1, <2>2, IsASeq
<1>4. lists \in Seq(Seq(Answer)) /\ Len(lists) = Len(bnd)
  <2>1. lists \in [1..Len(bnd) -> Seq(Answer)]
    BY <1>1, <1>3
  <2>2. QED
    BY <1>1, <2>1, IsASeq
<1>5. Listed = FlattenSeq(lists)
  BY DEF Listed
<1>6. Listed \in Seq(Answer) /\ Range(Listed) = UNION {Range(lists[h]) : h \in 1..Len(lists)}
  BY <1>4, <1>5, FlattenProperties, FlattenRange
<1>7. \A h \in DOMAIN bnd : lists[h] = Of(h)
  OBVIOUS
<1> HIDE DEF lists
<1>8. Range(Listed) = UNION {Range(Of(h)) : h \in DOMAIN bnd}
  <2> HIDE DEF Of
  <2>1. {Range(lists[h]) : h \in DOMAIN bnd} = {Range(Of(h)) : h \in DOMAIN bnd}
    BY <1>7
  <2>2. QED
    BY <1>1, <1>4, <1>6, <2>1
<1>9. ASSUME NEW h \in Range(bnd), NEW t \in Range(h.ping)
      PROVE  \E a \in Range(Listed) : a.node = h.node /\ a.time = t
  <2>1. PICK k \in DOMAIN bnd : h = bnd[k]
    BY DEF Range
  <2>2. PICK i \in DOMAIN bnd[k].ping : t = bnd[k].ping[i]
    BY <2>1 DEF Range
  <2>3. Of(k)[i] \in Range(Of(k)) /\ Of(k)[i].node = h.node /\ Of(k)[i].time = t
    BY <2>1, <2>2 DEF Range
  <2>4. QED
    BY <1>8, <2>3
<1>10. ASSUME NEW a \in Range(Listed)
       PROVE  \E h \in Range(bnd) : a.node = h.node /\ a.time \in Range(h.ping)
  <2>1. PICK k \in DOMAIN bnd : a \in Range(Of(k))
    BY <1>8
  <2>2. PICK i \in DOMAIN bnd[k].ping : a = Of(k)[i]
    BY <2>1 DEF Range
  <2>3. bnd[k] \in Range(bnd) /\ bnd[k].ping[i] \in Range(bnd[k].ping)
    BY <2>2 DEF Range
  <2>4. QED
    BY <2>2, <2>3
<1>11. QED
  BY <1>6, <1>9, <1>10 DEF IsListed

(* The place that backend_choose() ends with is that of an answer which no *)
(* other one is below, and there is one unless all are beyond the limit.   *)
LEMMA LowestAnswer ==
  ASSUME bnd \in Seq(Pinged)
  PROVE  /\ Lowest # 0 => /\ Listed[Lowest] \in Range(Listed)
                          /\ \A b \in Range(Listed) : Listed[Lowest].time <= b.time
         /\ Lowest = 0 => \A b \in Range(Listed) : b.time >= 999
<1>1. /\ DOMAIN Listed = 1..Len(Listed) /\ Len(Listed) \in Nat
      /\ \A b \in Range(Listed) : b.time \in Nat
  <2>1. Listed \in Seq(Answer)
    BY ListedAnswers DEF IsListed
  <2>2. \A b \in Range(Listed) : b \in Answer
    BY <2>1, LenProperties DEF Range
  <2>3. QED
    BY <2>1, <2>2, LenProperties, StartupAssumption DEF StartupAssumption, Answer
<1> DEFINE Least(a) == a.time < 999 /\ \A b \in Range(Listed) : a.time <= b.time
           I == {i \in 1..Len(Listed) : Least(Listed[i])}
<1>2. Lowest = IF I # {} THEN Min(I) ELSE 0
  BY DEF Lowest, SelectInSeq
<1>3. CASE I # {}
  <2>1. Min(I) \in I
    <3>1. I \in SUBSET Nat
      BY <1>1
    <3>2. QED
      BY <1>3, <3>1, MinOfNat
  <2>2. Lowest \in 1..Len(Listed) /\ Least(Listed[Lowest]) /\ Lowest # 0
    BY <1>2, <1>3, <2>1
  <2>3. Listed[Lowest] \in Range(Listed)
    BY <1>1, <2>2 DEF Range
  <2>4. QED
    BY <2>2, <2>3
<1>4. CASE I = {}
  <2>1. SUFFICES ASSUME NEW b \in Range(Listed), b.time < 999 PROVE FALSE
    BY <1>1, <1>2, <1>4
  <2> DEFINE times == {a.time : a \in Range(Listed)}
  <2>2. times \in SUBSET Nat /\ times # {}
    BY <1>1, <2>1
  <2>3. Min(times) \in times /\ \A t \in times : Min(times) <= t
    BY <2>2, MinOfNat
  <2>4. PICK a \in Range(Listed) : a.time = Min(times)
    BY <2>3
  <2>5. \A c \in Range(Listed) : a.time <= c.time
    BY <2>3, <2>4
  <2>6. a.time < 999
    BY <1>1, <2>1, <2>4, <2>5
  <2>7. PICK i \in 1..Len(Listed) : Listed[i] = a
    BY <1>1, <2>4 DEF Range
  <2>8. i \in I
    BY <2>5, <2>6, <2>7
  <2>9. QED
    BY <1>4, <2>8
<1>5. QED
  BY <1>3, <1>4

(* When a relay is chosen the list holds what backend_ping() measured. *)
ListIsPinged == phase = "choose" => bnd \in Seq(Pinged)

LEMMA ListIsPingedStep == ListIsPinged /\ [StartupNext]_all => ListIsPinged'
<1>1. ASSUME backend_ping PROVE bnd' \in Seq(Pinged)
  <2>1. PICK item \in UNION {[1..n -> Node] : n \in 0..MaxNodes} :
          \/ bnd' = <<[node |-> IF item = <<>> THEN NULL ELSE item[1], ping |-> <<>>]>>
          \/ \E n \in 0..Len(item) : \E answers \in [1..n -> Pings] :
               bnd' = [j \in 1..n |-> [node |-> item[n + 1 - j], ping |-> answers[n + 1 - j]]]
    BY <1>1 DEF backend_ping
  <2>2. PICK m \in 0..MaxNodes : item \in [1..m -> Node]
    OBVIOUS
  <2>3. m \in Nat /\ item \in Seq(Node) /\ Len(item) = m
    BY <2>2, StartupAssumption DEF StartupAssumption
  <2>4. CASE bnd' = <<[node |-> IF item = <<>> THEN NULL ELSE item[1], ping |-> <<>>]>>
    <3>1. item # <<>> => item[1] \in Node
      BY <2>3
    <3>2. [node |-> IF item = <<>> THEN NULL ELSE item[1], ping |-> <<>>] \in Pinged
      BY <3>1 DEF Pinged
    <3>3. QED
      BY <2>4, <3>2
  <2>5. ASSUME NEW n \in 0..Len(item), NEW answers \in [1..n -> Pings],
               bnd' = [j \in 1..n |-> [node |-> item[n + 1 - j], ping |-> answers[n + 1 - j]]]
        PROVE  bnd' \in Seq(Pinged)
    <3>1. n \in Nat /\ n <= m
      BY <2>3
    <3>2. ASSUME NEW j \in 1..n
          PROVE  [node |-> item[n + 1 - j], ping |-> answers[n + 1 - j]] \in Pinged
      <4>1. n + 1 - j \in 1..n /\ n + 1 - j \in 1..m
        BY <3>1, <2>3
      <4>2. item[n + 1 - j] \in Node /\ answers[n + 1 - j] \in Pings
        BY <2>2, <2>5, <4>1
      <4>3. \A s \in Pings : s \in Seq(Time)
        <5>1. SUFFICES ASSUME NEW s \in Pings PROVE s \in Seq(Time)
          OBVIOUS
        <5>2. PICK k \in 0..MaxPings : s \in [1..k -> Time]
          BY DEF Pings
        <5>3. k \in Nat
          BY StartupAssumption DEF StartupAssumption
        <5>4. QED
          BY <5>2, <5>3, IsASeq
      <4>4. QED
        BY <4>2, <4>3 DEF Pinged
    <3>3. bnd' \in [1..n -> Pinged]
      BY <2>5, <3>2
    <3>4. QED
      BY <3>1, <3>3, IsASeq
  <2>6. QED
    BY <2>1, <2>4, <2>5
<1>2. ASSUME [StartupNext]_all, phase' = "choose" PROVE backend_ping \/ UNCHANGED <<phase, bnd>>
  BY <1>2 DEF StartupNext, gc_init, config_init, gc_backend_init, start_timers, modules_start,
              sigh_terminate_early, Fail, Runs, all, startVars
<1>3. QED
  BY <1>1, <1>2 DEF ListIsPinged

(* The relay chosen gave the fastest answer of all; gc_init() fails only   *)
(* if no relay answered below the limit.                                   *)
THEOREM ChosenIsFastest == StartupSpec => FastestChosen
<1>1. StartupInit => ListIsPinged
  BY DEF StartupInit, ListIsPinged
<1>2. StartupSpec => []ListIsPinged
  BY <1>1, ListIsPingedStep, PTL DEF StartupSpec
<1>3. ASSUME ListIsPinged, StartupNext, phase = "choose", compare
      PROVE  IF exited'
             THEN \A h \in Range(bnd) : \A t \in Range(h.ping) : t >= 999
             ELSE \E h \in Range(bnd) :
                    /\ h.node = hostname'
                    /\ \E t \in Range(h.ping) :
                         \A g \in Range(bnd) : \A u \in Range(g.ping) : t <= u
  <2>1. gc_backend_init
    BY <1>3 DEF StartupNext, gc_init, config_init, backend_ping, start_timers, modules_start,
                sigh_terminate_early, Runs
  <2>2. bnd \in Seq(Pinged) /\ IsListed(Listed)
    BY <1>3, ListedAnswers DEF ListIsPinged
  <2>3. CASE Lowest = 0
    <3>1. exited'
      BY <1>3, <2>1, <2>3 DEF gc_backend_init, Fail
    <3>2. \A b \in Range(Listed) : b.time >= 999
      BY <2>2, <2>3, LowestAnswer
    <3>3. ASSUME NEW h \in Range(bnd), NEW t \in Range(h.ping) PROVE t >= 999
      <4>1. PICK a \in Range(Listed) : a.time = t
        BY <2>2, <3>3 DEF IsListed
      <4>2. QED
        BY <3>2, <4>1
    <3>4. QED
      BY <3>1, <3>3
  <2>4. CASE Lowest # 0
    <3>0. ~exited /\ hostname' = backend_choose /\ UNCHANGED vars
      BY <1>3, <2>1, <2>4 DEF gc_backend_init
    <3>1. ~exited' /\ hostname' = Listed[Lowest].node
      BY <1>3, <2>4, <3>0 DEF backend_choose, vars, ends
    <3>2. PICK a \in Range(Listed) : a.node = hostname' /\ \A b \in Range(Listed) : a.time <= b.time
      BY <2>2, <2>4, <3>1, LowestAnswer
    <3>3. PICK h \in Range(bnd) : h.node = hostname' /\ a.time \in Range(h.ping)
      BY <2>2, <3>2 DEF IsListed
    <3>4. \A g \in Range(bnd) : \A u \in Range(g.ping) : a.time <= u
      BY <2>2, <3>2 DEF IsListed
    <3>5. QED
      BY <3>1, <3>3, <3>4
  <2>5. QED
    BY <2>3, <2>4
<1>4. ListIsPinged /\ [StartupNext]_all
        => [phase = "choose" /\ compare =>
              IF exited'
              THEN \A h \in Range(bnd) : \A t \in Range(h.ping) : t >= 999
              ELSE \E h \in Range(bnd) :
                     /\ h.node = hostname'
                     /\ \E t \in Range(h.ping) :
                          \A g \in Range(bnd) : \A u \in Range(g.ping) : t <= u]_all
  BY <1>3
<1>5. QED
  BY <1>2, <1>4, PTL DEF StartupSpec, FastestChosen
=============================================================================
