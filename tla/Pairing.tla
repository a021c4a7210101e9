------------------------------ MODULE Pairing ------------------------------
(***************************************************************************)
(* The pairing part of gcapi.c and tunnel.c, with fs.c: the tunnels of the *)
(* configuration are asked for every two seconds until the relay answers   *)
(* with the process to talk to; an answer makes a tunnel that listens, and *)
(* a file that announces it; the news that the process went offline, or    *)
(* the loss of the relay, undo both.                                       *)
(*                                                                         *)
(* The relay, the devices and the kernel's ports are external.  Clouds are *)
(* left out: a device stands for itself and its cloud.                     *)
(***************************************************************************)
EXTENDS Naturals, Lists

CONSTANTS Device,      \* the devices the configuration names
          Pid,         \* addresses of their processes, one per start
          NTunnels,    \* gc->config.ntunnels
          device,      \* of each configured tunnel: its device,
          port,        \*   its remote port,
          port_local,  \*   and the local port that the file gives it
          Ephemeral,   \* what the kernel may choose for local port 0
          NULL,
          BindFails,   \* whether others may hold a local port, or connections
                       \* of a closed server that wait to die
          MaxAsked     \* TLC's bound on requests under way

Tunnels == 1..NTunnels

ASSUME PairingAssumption == /\ NTunnels \in Nat /\ MaxAsked \in Nat
                            /\ BindFails \in BOOLEAN
                            /\ device \in [Tunnels -> Device]
                            /\ port \in [Tunnels -> Nat \ {0}]
                            /\ port_local \in [Tunnels -> Nat]
                            /\ Ephemeral \subseteq Nat \ {0}
                            /\ NULL \notin Pid /\ NULL \notin Nat

VARIABLES pid,       \* config.tunnels[i].pid, NULL when it is empty
          local,     \* config.tunnels[i].port_local
          tunnels,   \* the linked list, newest first
          files,     \* the files of fs_pair
          up,        \* logged in at the relay, the pair timer started
          stopping,  \* gc_force_stop() was called
          asked,     \* DEVICE_PAIR packets on their way to the relay
          inbox,     \* packets on their way from it
          online,    \* Device -> its process, or NULL
          fresh      \* processes that were not started yet

config == <<pid, local, tunnels, files>>
relay  == <<asked, inbox>>
world  == <<online, fresh>>
vars   == <<config, up, stopping, relay, world>>

(* struct gc_tunnel_s; a forced tunnel has no server. *)
Entry == [pid : Pid, device : Device, port_remote : Nat, port_local : Nat,
          listens : (Nat \ {0}) \cup {NULL}]

Request == [device : Device, port : Nat, local : Nat]

Packet == [type : {"pair", "forced"}, pid : Pid, device : Device, port : Nat, local : Nat]
            \cup [type : {"offline"}, pid : Pid]

TypeOK == /\ pid \in [Tunnels -> Pid \cup {NULL}]
          /\ local \in [Tunnels -> Nat]
          /\ tunnels \in Seq(Entry)
          /\ files \subseteq (Pid \X Nat)
          /\ up \in BOOLEAN /\ stopping \in BOOLEAN
          /\ asked \in Seq(Request) /\ inbox \in Seq(Packet)
          /\ online \in [Device -> Pid \cup {NULL}] /\ fresh \subseteq Pid

Init == /\ pid = [i \in Tunnels |-> NULL]
        /\ local = port_local
        /\ tunnels = <<>>
        /\ files = {}
        /\ up = FALSE /\ stopping = FALSE
        /\ asked = <<>> /\ inbox = <<>>
        /\ online = [d \in Device |-> NULL]
        /\ fresh = Pid

Servers   == {t \in Range(tunnels) : t.listens # NULL}
Listening == {t.listens : t \in Servers}
-----------------------------------------------------------------------------
(* The handshake and the login succeeded. *)
client_logged ==
  /\ ~up /\ ~stopping
  /\ up' = TRUE
  /\ UNCHANGED <<config, stopping, relay, world>>

\* With a bug: the loop ends at the first tunnel that is paired.
UnpairedPrefix == {i \in Tunnels : \A j \in 1..i : pid[j] = NULL}

Unpaired == {i \in Tunnels : pid[i] = NULL}

(* The pair timer: every tunnel without a process is asked for, whether or *)
(* not an answer is under way.                                             *)
devices_pair ==
  /\ up
  /\ Unpaired # {} /\ Len(asked) + Len(inbox) + Cardinality(Unpaired) <= MaxAsked
  /\ LET order == Among([i \in Tunnels |-> i], Unpaired)
     IN asked' = asked \o [k \in DOMAIN order |-> [device |-> device[order[k]],
                                                   port |-> port[order[k]],
                                                   local |-> local[order[k]]]]
  /\ UNCHANGED <<config, up, stopping, inbox, world>>

(* The ports a server may get when it asks for p. *)
Bound(p) == (IF p = 0 THEN Ephemeral ELSE {p}) \ Listening

(* The configured tunnels that m answers, once port p is known for it. *)
Answered(m, locals, p) ==
  {i \in Tunnels : device[i] = m.device /\ port[i] = m.port /\ locals[i] = p}

First(S) == IF S = {} THEN {} ELSE {CHOOSE i \in S : \A j \in S : i <= j}

(* port_update(): an answer for local port 0 gives the configured tunnel,  *)
(* and itself, the port that the kernel chose.                             *)
Updated(m, p) ==
  [i \in Tunnels |-> IF m.local = 0 /\ i \in First(Answered(m, local, 0)) THEN p ELSE local[i]]

AnswerPort(m, p) == IF m.local = 0 /\ Answered(m, local, 0) # {} THEN p ELSE m.local

(* The answer's tunnel is listening on p: it is linked, and the configured *)
(* tunnel it belongs to, if any, is paired and announced.                  *)
paired(m, p) ==
  /\ local' = Updated(m, p)
  /\ tunnels' = Cons([pid |-> m.pid, device |-> m.device, port_remote |-> m.port,
                      port_local |-> AnswerPort(m, p), listens |-> p], tunnels)
  /\ LET mine == First(Answered(m, local', AnswerPort(m, p)))
     IN /\ pid' = [i \in Tunnels |-> IF i \in mine THEN m.pid ELSE pid[i]]
        /\ files' = files \cup {<<m.pid, m.port>> : i \in mine}
  /\ UNCHANGED stopping

(* gc_tunnel_add() and what follows it.  When bind() fails, the program is *)
(* to stop; a forced tunnel gets no server and is not looked for in the    *)
(* configuration.                                                          *)
device_pair_reply(m) ==
  \/ m.type = "pair" /\ \E p \in Bound(m.local) : paired(m, p)
  \/ /\ m.type = "pair"
     /\ Bound(m.local) = {} \/ BindFails
     /\ stopping' = TRUE
     /\ UNCHANGED config
  \/ /\ m.type = "forced"
     /\ tunnels' = Cons([pid |-> m.pid, device |-> m.device, port_remote |-> m.port,
                         port_local |-> m.local, listens |-> NULL], tunnels)
     /\ UNCHANGED <<pid, local, files, stopping>>

\* With a bug: only the first such tunnel is taken.
OfflineFirst(p) == First({i \in Tunnels : pid[i] = p})

Offline(p) == {i \in Tunnels : pid[i] = p}

\* With a bug each: the file of the local port, the first tunnel only.
FileOfLocal(t) == <<t.pid, t.port_local>>
StopsFirst(t, p) == t.pid = p /\ t = tunnels[1]

FileOf(t)   == <<t.pid, t.port_remote>>
Stops(t, p) == t.pid = p

(* cloud_offline(): pairs_offline(), which names the file by the local     *)
(* port, and gc_tunnel_stop(), which names it by the remote one.           *)
cloud_offline(p) ==
  LET stopped == {t \in Range(tunnels) : Stops(t, p)}
  IN /\ pid' = [i \in Tunnels |-> IF i \in Offline(p) THEN NULL ELSE pid[i]]
     /\ tunnels' = Among(tunnels, Range(tunnels) \ stopped)
     /\ files' = (files \ {<<p, local[i]>> : i \in Offline(p)}) \ {FileOf(t) : t \in stopped}
     /\ UNCHANGED <<local, stopping>>

callback_data ==
  /\ up /\ inbox # <<>>
  /\ inbox' = Tail(inbox)
  /\ LET m == Head(inbox)
     IN \/ m.type \in {"pair", "forced"} /\ device_pair_reply(m)
        \/ m.type = "offline" /\ cloud_offline(m.pid)
  /\ UNCHANGED <<up, asked, world>>

(* pairs_offline() and gc_tunnel_stop_all(); packets of the lost           *)
(* connection are lost with it.                                            *)
upstream_error ==
  /\ up
  /\ pid' = [i \in Tunnels |-> NULL]
  /\ files' = (files \ {<<pid[i], local[i]>> : i \in Tunnels}) \ {FileOf(t) : t \in Range(tunnels)}
  /\ tunnels' = <<>>
  /\ up' = FALSE
  /\ asked' = <<>> /\ inbox' = <<>>
  /\ UNCHANGED <<local, stopping, world>>
-----------------------------------------------------------------------------
(* The relay answers a request for a device that is online, and says when  *)
(* a process goes offline; it may announce that one paired with us.        *)
RelayAnswers ==
  /\ up /\ asked # <<>>
  /\ asked' = Tail(asked)
  /\ LET r == Head(asked)
     IN inbox' = IF online[r.device] = NULL THEN inbox
                 ELSE Append(inbox, [type |-> "pair", pid |-> online[r.device],
                                     device |-> r.device, port |-> r.port, local |-> r.local])
  /\ UNCHANGED <<config, up, stopping, world>>

RelayForces(d) ==
  /\ up /\ online[d] # NULL /\ NTunnels > 0
  /\ Len(asked) + Len(inbox) < MaxAsked
  /\ \A t \in Range(tunnels) : t.listens = NULL => t.pid # online[d]
  /\ \A k \in DOMAIN inbox : inbox[k].type # "forced"
  /\ inbox' = Append(inbox, [type |-> "forced", pid |-> online[d], device |-> d,
                             port |-> port[1], local |-> port_local[1]])
  /\ UNCHANGED <<config, up, stopping, asked, world>>

Starts(d) ==
  /\ online[d] = NULL
  /\ \E p \in fresh : online' = [online EXCEPT ![d] = p] /\ fresh' = fresh \ {p}
  /\ UNCHANGED <<config, up, stopping, relay>>

Ends(d) ==
  /\ online[d] # NULL
  /\ online' = [online EXCEPT ![d] = NULL]
  /\ inbox' = IF up THEN Append(inbox, [type |-> "offline", pid |-> online[d]]) ELSE inbox
  /\ UNCHANGED <<config, up, stopping, asked, fresh>>

Next == \/ ~stopping /\ (\/ client_logged \/ devices_pair \/ callback_data \/ upstream_error
                         \/ RelayAnswers)
        \/ \E d \in Device : ~stopping /\ (RelayForces(d) \/ Starts(d) \/ Ends(d))

(* The pair timer repeats, the event loop reads, the relay answers. *)
Spec == /\ Init /\ [][Next]_vars
        /\ WF_vars(~stopping /\ devices_pair)
        /\ WF_vars(~stopping /\ callback_data)
        /\ WF_vars(~stopping /\ RelayAnswers)
-----------------------------------------------------------------------------
(* A configured tunnel that has a process, and so is not asked for again,  *)
(* has a server that listens on its local port for that process.           *)
PairedIsListening ==
  \A i \in Tunnels : pid[i] # NULL =>
    \E t \in Servers : t.pid = pid[i] /\ t.port_remote = port[i] /\ t.listens = local[i]

(* Every server belongs to a configured tunnel that has its process, so    *)
(* that the news that it went offline finds it, and it is not asked for.   *)
(* A second answer for a port that the kernel chose is the exception: it   *)
(* leaves a server that belongs to no configured tunnel, on port_local 0.  *)
ListeningIsPaired ==
  \A t \in Servers : t.port_local # 0 =>
    \E i \in Tunnels : pid[i] = t.pid /\ port[i] = t.port_remote /\ local[i] = t.listens

(* fs.h: fs_pair() is to "Announce successful pair to the filesystem".     *)
(* There is a file for each tunnel that is paired, and none for another.   *)
FilesMatchPairs == files = {<<pid[i], port[i]>> : i \in Tunnels \ Unpaired}

(* A tunnel whose device stays online gets paired, as long as the relay    *)
(* stays connected and the program is not stopped.                         *)
PairsEventually ==
  \A i \in Tunnels, p \in Pid :
    (up /\ online[device[i]] = p) ~> (pid[i] = p \/ ~up \/ online[device[i]] # p \/ stopping)

(* README.md: "if you go to port 1230, all your data will be redirected to *)
(* port 22".  While the relay is connected and no process goes offline,    *)
(* nothing of the pairing itself takes a working tunnel down.              *)
AnswersStopNothing == stopping => \A i \in Tunnels : pid[i] = NULL
=============================================================================
