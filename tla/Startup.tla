------------------------------ MODULE Startup ------------------------------
(***************************************************************************)
(* gc_init() of gcapi.c, with the configuration of utils.c and the choice  *)
(* of a relay of backend.c, before the event loop of Upstream.  gc_init()  *)
(* runs in one go, but SIGTERM may come between its steps.  When it fails, *)
(* the program ends.                                                       *)
(*                                                                         *)
(* Of a configuration only matters which of its parts are there.  The two  *)
(* files are read first; what the second one lists is chosen here when     *)
(* the relays of the list are tried.                                       *)
(***************************************************************************)
EXTENDS Upstream, SequencesExt

CONSTANTS Node,       \* relays a backends file may name
          Time,       \* what ping may measure, in milliseconds
          MaxNodes,   \* TLC's bound on the length of the list
          MaxPings,   \* TLC's bound on the answers of one relay
          NULL

ASSUME StartupAssumption == Time \subseteq Nat /\ MaxNodes \in Nat /\ MaxPings \in Nat

VARIABLES phase,     \* what gc_init() does next, or "run"
          type,      \* gc->config.type
          compare,   \* gc->config.backends.compare
          bnd,       \* the list of backend_ping(), newest first
          hostname,  \* gc->hostname
          deaf       \* SIGTERM came when there was no shutdown timer yet

startVars == <<phase, type, compare, bnd, hostname, deaf>>
all       == <<startVars, vars>>

StartupInit ==
  /\ Idle /\ action = "" /\ timers = {}
  /\ phase = "config"
  /\ type = NULL /\ compare = FALSE /\ bnd = <<>> /\ hostname = NULL /\ deaf = FALSE

(* gc_init() returned NULL, and main() returns. *)
Fail == /\ exited' = TRUE
        /\ UNCHANGED <<startVars, opts, conn, timers, login, peers, servers, gc_sigterm,
                       freed, bad>>

(* What gc_config_parse() and gc_backend_parse() may return.  Of an action *)
(* that is not known only matters that there is one.                       *)
Config == [username : BOOLEAN, password : BOOLEAN, device : BOOLEAN, tunnels : BOOLEAN,
           allowed : BOOLEAN, action : {"", "traffic", "account", "unknown"}]

config_required(c) ==
  /\ c.username /\ c.password
  /\ c.device \/ c.action # ""
  /\ c.tunnels \/ c.allowed \/ c.action # ""

TypeOf(c) == CASE c.tunnels /\ c.allowed -> "hybrid"
               [] c.tunnels /\ ~c.allowed -> "client"
               [] ~c.tunnels /\ c.allowed -> "server"
               [] OTHER -> "action"

(* Either file may be missing or no JSON. *)
config_init ==
  /\ phase = "config" /\ ~exited
  /\ \/ \E c \in Config :
          /\ config_required(c)
          /\ type' = TypeOf(c)
          /\ action' = IF c.action = "unknown" THEN "" ELSE c.action
          /\ phase' = "ping"
          /\ UNCHANGED <<compare, bnd, hostname, deaf, clientterm, conn, timers, login, peers,
                         ends, bad>>
     \/ Fail
-----------------------------------------------------------------------------
Pings == UNION {[1..n -> Time] : n \in 0..MaxPings}

(* Nodes are pinged in order until a ping can't be run or says nothing at  *)
(* all; n of them were.                                                    *)
backend_ping ==
  /\ phase = "ping"
  /\ phase' = "choose"
  /\ compare' \in BOOLEAN
  /\ \E item \in UNION {[1..n -> Node] : n \in 0..MaxNodes} :
       \/ /\ ~compare'
          /\ bnd' = <<[node |-> IF item = <<>> THEN NULL ELSE item[1], ping |-> <<>>]>>
       \/ /\ compare'
          /\ \E n \in 0..Len(item) : \E answers \in [1..n -> Pings] :
               bnd' = [j \in 1..n |-> [node |-> item[n + 1 - j], ping |-> answers[n + 1 - j]]]
  /\ UNCHANGED <<type, hostname, deaf, vars>>

(* All answers in the order in which backend_choose() looks at them.       *)
Listed  == FlattenSeq([h \in DOMAIN bnd |->
             [i \in DOMAIN bnd[h].ping |-> [node |-> bnd[h].node, time |-> bnd[h].ping[i]]]])

\* With a bug: the limit is never lowered.
LowestNotUpdated == SelectLastInSeq(Listed, LAMBDA a : a.time < 999)

(* The first of the lowest below the limit, 0 when there is none. *)
Lowest == SelectInSeq(Listed, LAMBDA a : /\ a.time < 999
                                         /\ \A b \in Range(Listed) : a.time <= b.time)

backend_choose ==
  IF ~compare THEN bnd[1].node ELSE IF Lowest = 0 THEN NULL ELSE Listed[Lowest].node

(* A list that was not compared may be empty: the name chosen is empty     *)
(* then, which is no failure.                                              *)
gc_backend_init ==
  /\ phase = "choose" /\ ~exited
  /\ \/ /\ ~compare \/ Lowest # 0
        /\ hostname' = backend_choose
        /\ bnd' = <<>>
        /\ phase' = "signals"
        /\ UNCHANGED <<type, compare, deaf, vars>>
     \/ /\ compare /\ Lowest = 0
        /\ Fail
-----------------------------------------------------------------------------
(* The handlers are installed; the timers follow once the SSL library is   *)
(* ready.  Starting a timer that is not initialised does nothing, and the  *)
(* handler ignores every signal after the first.                           *)
sigh_terminate_early ==
  /\ phase = "signals" /\ ~gc_sigterm
  /\ gc_sigterm' = TRUE
  /\ deaf' = TRUE
  /\ UNCHANGED <<phase, type, compare, bnd, hostname, opts, conn, timers, login, peers,
                 servers, freed, exited, bad>>

start_timers ==
  /\ phase = "signals"
  /\ phase' = "modules"
  /\ timers' = {"connect"}
  /\ UNCHANGED <<type, compare, bnd, hostname, deaf, opts, conn, login, peers, ends, bad>>

(* All modules or none are asked for.  One whose server can't be bound     *)
(* ends the program.                                                       *)
modules_start ==
  /\ phase = "modules" /\ ~exited
  /\ \/ /\ phase' = "run"
        /\ servers' \in {{}, Module}
        /\ UNCHANGED <<type, compare, bnd, hostname, deaf, opts, conn, timers, login, peers,
                       gc_sigterm, freed, exited, bad>>
     \/ Module # {} /\ Fail

gc_init == \/ config_init \/ backend_ping \/ gc_backend_init \/ start_timers \/ modules_start

(* Without allowed ports every tunnel_request is denied. *)
Served == remotes' > remotes => type \in {"hybrid", "server"}

Runs(A) == phase = "run" /\ A /\ UNCHANGED startVars

StartupNext == \/ gc_init
               \/ sigh_terminate_early
               \/ phase = "modules" /\ sigh_terminate /\ UNCHANGED startVars
               \/ Runs(Next /\ Served)

(* gc_init() waits for nobody but ping, which counts to three.  A timer    *)
(* that stays started fires, and libev calls the watcher of a closed       *)
(* descriptor.  Nothing is assumed of the relay or of clients.             *)
StartupSpec == /\ StartupInit /\ [][StartupNext]_all
               /\ WF_all(gc_init)
               /\ WF_all(Runs(upstream_connect))
               /\ WF_all(Runs(stop))
               /\ WF_all(Runs(async_write_ssl_closed))
-----------------------------------------------------------------------------
(* backend.h: "Pick one of the available backend nodes."  When nodes are   *)
(* compared, the one chosen gave the fastest answer of all, and nothing is *)
(* chosen only if no node answered in less than 999 milliseconds.          *)
FastestChosen ==
  [][phase = "choose" /\ compare =>
       IF exited'
       THEN \A h \in Range(bnd) : \A t \in Range(h.ping) : t >= 999
       ELSE \E h \in Range(bnd) :
              /\ h.node = hostname'
              /\ \E t \in Range(h.ping) : \A g \in Range(bnd) : \A u \in Range(g.ping) : t <= u]_all

(* Told to terminate by a signal that the shutdown timer can act on. *)
Told == gc_sigterm /\ ~deaf /\ ~freed

(* No timer, watcher or server is left that keeps the event loop going. *)
Stops == exited \/ (phase = "run" /\ Ended)

(* gcapi.h on gc_force_stop(): "Called after receiving SIGTERM."  Once     *)
(* told to terminate, the program ends, from whatever state of the         *)
(* connection, of the timers and of the connections to backends, if no     *)
(* client of a tunnel is open.  Two exceptions are stated, in which it     *)
(* goes on with memory that is freed.  Messages for the clients that are   *)
(* open may be appended to the list of packets that was freed before       *)
(* (gcapi.c:699-702).  With clientterm, a client or backend closed by      *)
(* stop() starts the shutdown timer, and stop() runs twice                 *)
(* (gcapi.c:685-688).                                                      *)
TerminateEndsLoop ==
  /\ Told /\ locals = 0 /\ (clientterm => remotes = 0) ~> Stops
  /\ Told ~> Stops \/ "freed_slot" \in bad \/ (clientterm /\ "freed_config" \in bad)
=============================================================================
