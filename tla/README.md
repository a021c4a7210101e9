# Verification of libgrizzlycloud

TLA+ models of libgrizzlycloud, the library behind the GrizzlyCloud client: a
process on one device opens local TCP ports that lead, through a relay (the
"upstream"), to TCP ports of another device. The models are translated from
the C code under `src/src`; TLC checks them on small instances, and TLAPS
proves the central results for every value of the constants. Source lines
below refer to `src/src/<file>` unless a path is given.

## 1. Inventory of the system

The library is one thread around a libev event loop. Every handler (a socket
became readable or writable, a timer fired) runs to its end before the next,
so **one handler is one action** in the models. What makes the code hard is
therefore not preemption but the order in which handlers run: state kept
between callbacks, messages of the other side under way, descriptors and
ports that are used again, and shutdown paths that call back into the parts
being shut down. The one asynchronous piece is the signal handler, which sets
`gc_sigterm` and starts a timer.

| Part | State | Operations | Talks to | What makes it hard | What makes it correct |
|---|---|---|---|---|---|
| Client tables (`hashtable.c`) | array of chains | `ht_add` `ht_rem` `ht_get` | used by servers and `tunnel_client_find` | keys that share a bucket; lookups of keys that are gone | it is a map; it never holds a freed client |
| Send queue (`ringbuffer.c`, `ev_send`, `async_write`) | list of slots, write watcher | append, send next, skip, pop all | every TCP and SSL client | partial sends; the watcher stopped and started | one stream of bytes, complete and in order |
| Endpoints (`endpoint.c`, TCP client of `async_client.c`) | list of endpoints, client structures | request, stop, data, error, write, stop all | relay messages, the backend | list and clients must agree on every error path | unique keys, linked iff open, no dangling pointer, stops hit their process only |
| Tunnel servers (`tunnel.c`, `async_server.c`) | list of tunnels, one listener and one table each | add, accept, data, error, response, stop, stop all | local clients, relay messages | descriptors used again; servers freed with clients open | responses reach their client, ends are announced, no client outlives its server |
| Data path | both of the above on two processes | messages `tunnel_request`, `tunnel_response`, `endpoint_stop`, `tunnel_denied` | through the relay | messages under way while either end changes | streams are not mixed, each is closed by its own ends |
| Upstream (`gcapi.c`, SSL client of `async_client.c`) | connection, watchers, five timers | connect, handshake, read, write, error, hang, ping, stop | everything | errors and stop in any state, `clientterm`, SIGTERM | it reconnects until it is stopped, and stops once and completely |
| Pairing (`gcapi.c`, `tunnel.c`, `fs.c`) | `config.tunnels`, tunnels, files in /tmp | ask, answer, offline | relay | duplicate and late answers, restarts of processes, kernel-chosen ports | configuration, servers and files agree; a tunnel is asked for until paired |
| Framing (`net_send`, `recv_append` of `async_client.c`) | receive buffer, target | frame, append, pop | upstream, codec | packets cut anywhere; half a packet left by a lost connection | packets arrive once, in order, whole |
| Codec (`proto.c`, lists and headers in `gcapi.c`, `utils.c`) | - | serialize, deserialize, parse a header, a pair list, a traffic list | framing, `callback_data` | lengths at the boundary, swapped words, strings that are not terminated | what is read is what was written |
| Backend choice (`backend.c`) | list of ping results | ping each, take the fastest | `ping` | nodes that answer in part or not at all | the fastest answer wins; a failure only without answers |
| Start (`gc_init`, configuration) | `gc->config`, handlers, timers, modules | parse, check, choose, install handlers, start | all of the above | SIGTERM between its steps; failures half way | it ends in a running program or in none |
| Modules (`modules/`), example client | one server each; callbacks | start, stop; first packet | devices by HTTP | servers that keep the loop alive | partly modelled (section 7) |
| Pool, log, tests | - | - | - | - | not modelled (section 7) |

The hazards of the code, each at its line with the properties that cover it,
are listed in `PROJECT.json`.

## 2. The modules

| Module | Models | Notes |
|---|---|---|
| `KeyValueMap` | what callers can rely on: a map in which peers may be confused | abstract specification |
| `Hashtable` | `hashtable.c` | operators on tables, no state |
| `ClientTable` | the table of one server under its callers | refines `KeyValueMap`, the peers of a key being the keys of its bucket |
| `ByteStream` | what a connection promises its writer | abstract specification |
| `SendQueue` | `ringbuffer.c` (sending half), `ev_send`, `async_write` | refines `ByteStream` |
| `Codec` | `proto.c`, the readers of headers and lists | operators on byte sequences, no state |
| `Wire` | framing on both sides, `recv_append`, the receiving half of `ringbuffer.c` | extends `SendQueue` with `Codec` |
| `Endpoint` | `endpoint.c` with its TCP clients | the backend side of a tunnel |
| `TunnelServer` | `tunnel.c` with `async_server.c` | the listening side of a tunnel |
| `Splice` | what a tunnel promises the programs at its two ends | abstract specification |
| `DataPath` | two processes and the messages between them | composes `TunnelServer` and `Endpoint`, refines `Splice` |
| `Upstream` | the relay connection, timers, stop | tunnels' clients and endpoints are counted |
| `Startup` | `gc_init`, configuration, `backend.c`, start of the modules | extends `Upstream`, which it runs into |
| `Pairing` | pairing, offline messages, announcement files | relay, devices and ports external |
| `Lists` | what a traversal leaves of a linked list, in which order a loop meets the buckets in use | two operators, of `TunnelServer` and `Pairing` |
| `MC*` | model values and named configurations | |
| `SeqLemmas` | lemmas about lists, recursive functions and concatenations | |
| `ClientTable_proofs`, `Wire_proofs`, `Endpoint_proofs`, `TunnelServer_proofs`, `DataPath_proofs`, `Startup_proofs`, `Pairing_proofs` | theorems and proofs | |

Names in the models are names of the code: `gc_endpoint_request` is the
action for the function of that name with all it calls. `PROJECT.json` maps
every definition to its lines. Operators introduced by a comment "With a bug"
are variants of the definition beside them; no specification uses them. Each
breaks one property when it takes the place of the original, which shows that
the property depends on that code.

**ClientTable.** `ht` is `cs->clients`: a function from buckets to chains,
newest entry first. `ht_add` overwrites in place or prepends; `ht_rem` unlinks
and then sets the whole bucket to NULL (line 157), which drops the rest of the
chain; `ht_get` returns the only entry of a bucket without comparing its key
(line 176). `open` is what the kernel and the client structures say, against
which the table is judged. The refinement says how far the two faults reach: a
removal may forget the peers of its key and a lookup may answer with a peer's
value, and nothing outside the bucket is touched. `given` of the abstract map,
what its caller asked to keep, is `open`: without it a removal that does
nothing would pass for no step at all. With one key per bucket `KeyValueMap` is
an ordinary map. `MCClientTable` computes buckets with the code's `ht_key` from
decimal descriptors: 14 and 23 collide, 14 and 15 do not.

**SendQueue.** A byte is its position in the stream, a slot a range of them,
so that lost, repeated and reordered bytes all show. `wire` is what the socket
took. A buffer may be empty: a message with an empty body, which this client
does not send but which the relay may carry. Once such a slot is at the head,
the queue is `Stuck`: `send()` of no bytes returns 0, and the slot is never
popped. The refinement maps `total`, `wire` and `closed` to `ByteStream`, whose
`Reopen` is the cleared client structure of a new connection.

**Codec and Wire.** A string is its sequence of bytes; the literals of
`proto.c` are one byte each, since the code only compares and copies them. An
int has `Word` bytes and is swapped into network order as in `gc_swap_memory`.
`Written` and `Taken` are the fields of each packet type, the first from the
cases of `gc_serialize`, the second from those of `gc_deserialize`. The readers
are recursive functions (`Starts`, `Entry`, `Offsets`), so that they can be
reasoned about. `Wire` gives the slots of `SendQueue` their contents: for a TCP
client any bytes (`kind = "tcp"`), for the SSL client packets with their length
in front. `flight` are the records of TLS under way, each what one `SSL_write`
took; `async_read_ssl` takes one, appends it to `recv` and hands a packet that
is complete to `callback_data` (`data`), `got` being what that makes of it. A
connection that is lost takes `flight` with it; what had been read of a packet
stays in `recv` until the client structure is cleared. `PairLists` and
`Reports` are what the relay puts into the lists of its answers. The two ends
are clients of this library: the relay between them is not part of the code and
is taken to pass records on as they are (section 3, deviations).

**Endpoint.** The list `endpoints` and, for each client structure, whether it
is unused, open, freed or dropped. `Outcome` selects what `socket()` and
`connect()` may return. A `connect()` that succeeds at once makes the code close
the descriptor and keep the structure (state "dropped"): the entry stays in the
list. `crashed` stands for `abort()` (line 96) and for following a pointer to a
freed client; `CrashNeedsDropped` says that it takes such a dropped client.

**TunnelServer.** Tunnels with their tables of clients. A tunnel and its
server are freed together. A handler that follows a client's pointer to a
freed server sets `crashed`. `Stopped` are the clients that the end of a server
finds: the heads of the chains (`async_server.c` 446-451). `Among` (module
`Lists`) is the list without the tunnels that go, in their order.

**DataPath.** The device of a user runs `TunnelServer`, the other process
`Endpoint`; the upstream queue of each is the channel to the other, since the
relay delivers in order. `message_from` dispatches as in `gcapi.c` 38-89,
including the `abort()` on a type it does not know. A body carries the
connection that sent it and a counter, so that mixing, loss and misdelivery
show; `owner` records for which local client a backend connection was opened.
`Splice` has the ends of each connection and what went in and came out of them,
and no messages, tables or descriptors: what is under way may be lost when an
end is cut off, and only then. `DataPath` refines it as long as no descriptor
is used twice and no two share a bucket; the state of an end is the `st` of its
module. The hash (`ht_key`, `Bucket`) is a constant, as in `TunnelServer`, and
`MCDataPath` computes it with the code's digit sum.
`Reuse` tells whether `accept()` may return a descriptor again. Either process
may lose its connection to the relay (`DeviceLosesRelay`, `RemoteLosesRelay`):
`upstream_error` ends its tunnels or endpoints, and of the messages it had
sent the relay passes on a prefix followed by the news that it is offline, of
those sent to it a suffix once it is back. The time in between is one step:
nothing of the process acts while it is offline, and what the other one does
then it may as well do before or after.

**Upstream.** `watchers` and `timers` are the sets of started ones; a started
timer may fire at any time. `dangling` says that the send list was freed while
not empty (`gc_ringbuffer_send_pop_all` does not clear the list), `bad`
collects the kinds of undefined behaviour met. The action `stop` has the order
of lines 692-705: timers, configuration, upstream connection, tunnels,
endpoints. A watcher that is started on a closed descriptor is called once by
libev with an error (`async_write_ssl_closed`); this is taken from libev's
`fd_kill` and the way the code's callbacks react. `servers` are the modules
whose server listens. `HandshakeAlone` says that from the first step of the
handshake to its last no other watcher drives the SSL session. While
`connect()` is under way the watcher for reading is started as well
(`async_client.c` 399), and `SSL_read` may run on a session that has not begun
its handshake (`read_error`); the property states this exception. All the
while nothing is queued, nor anything there that would queue it
(`NothingSends`).

**Startup.** The steps of `gc_init` in their order: configuration, pings,
choice, signal handlers, timers, modules. They run in one go, but SIGTERM may
come between any two; `deaf` records that it came after the handlers were
installed (line 648) and before the shutdown timer was initialised (line 671).
Of a configuration only matters which parts are there. A step that fails ends
the program, as `main` does. Once `phase` is "run" every step is one of
`Upstream`. `TerminateEndsLoop` has two parts. A program that was told to end
does, if no client of a tunnel is open then and, with `clientterm`, no
connection to a backend. With open ones it ends too, or its `stop()` has used
memory that was freed: a message for an open client is appended to the list of
packets that was freed before (lines 699-702), or, with `clientterm`, the
closing of a connection starts the shutdown timer again and `stop()` runs twice
(lines 685-688). What happens after that is undefined, and the model rests.

**Pairing.** `pid` and `local` are the two fields of `config.tunnels` that
change, `tunnels` the linked list, `files` the announcements. `cloud_offline`
does what `pairs_offline` and `gc_tunnel_stop` do, in that order, the first
naming the file by the local port and the second by the remote one. The
devices start and end processes (`Pid`), the relay answers requests and
reports processes that go. Once `gc_force_stop()` was called the model rests:
the shutdown timer and what follows are the matter of `Upstream`.

## 3. What the runs check

| Run | Bounds | Shows |
|---|---|---|
| `ct_table` | 4 descriptors, 3 of them in one bucket; 3 clients | no freed client in a table, a stored key is found, and keys are confused within a bucket only |
| `sq_stream` | TCP: 6 bytes in buffers of 0 to 3. SSL: one packet of every type and 5 more with empty fields, sent alone; 3 of them in any two; slots cut after 1 or 5 bytes or not; 2 records under way, 2 connections | the queue is contiguous, watched while not empty, implements the stream, and sends everything unless an empty buffer holds it up; packets arrive in order, complete, with their fields, arguments and lists |
| `ep` | 2 processes, 2 descriptors, 3 connections, 2 bodies each, 2 ports (1 allowed), all outcomes of connecting | unique keys; open connections linked exactly once; what is linked was not shut down; a crash needs a `connect()` that succeeded at once; stops hit their process only |
| `ts` | 2 tunnels, 2 clients in 2 buckets, 2 processes, 2 ports | tables hold open clients only, no client outlives its server, responses reach their client, ends are announced |
| `dp_one` | one local connection at a time (2 in all, one descriptor), 2 backend connections, 2 requests and 1 answer each, the relay lost once | connections are closed by their own ends only, and closed when the local end is; requests in order; no crash |
| `dp_shared` | two connections at a time on 2 tunnels, 3 ports of which 1 is not allowed, no descriptor used twice, distinct buckets, 1 request and 2 answers each, the relay lost once | the two processes implement `Splice`: streams in order, without gaps, unmixed, answers to their owner; and to the right port |
| `up` | 2 relays, lists of 2 and 2 answers each, times 0, 1 and 999; 3 local and 3 backend connections, 2 modules, with `clientterm` and without, all outcomes of connecting | the fastest relay is chosen; watchers, timers, connection and dependants agree; a loss starts the connect timer; the program ends when told to, also with open connections to backends and, but for the two exceptions stated, with open clients |
| `pa` | 3 tunnels (fixed and kernel-chosen ports), 2 devices, 2 processes, failing binds, duplicate answers | configuration, servers and files agree; tunnels are asked for until paired |

Runs that find what the code does against its documents (quoted in
`PROJECT.json` under "findings"):

| Run | Property | What happens |
|---|---|---|
| `ts_orphan` | `NoOrphan` | stopping a server forgets clients that share a bucket |
| `dp_two` | `ClosedByItsEnds` | the end of one connection closes another one's backend connection |
| `up_again` | `StopIsFinal` | `stop()` with an open client leads to a new connection |
| `pa_duplicate` | `AnswersStopNothing` | a duplicate answer stops the program |

The passing runs have the bounds under which the same promise holds: distinct
buckets (`ts`), one connection at a time (`dp_one`), no reuse of descriptors
and distinct buckets (`dp_shared`). Together they mark the border between what may be relied on and
what may not.

The models show further deviations, which have no run of their own. Each is
part of an action above and can be seen by changing one constant or by
stating the property named here:

- Keys of one bucket: `ht_get` answers with the only entry of a bucket for any
  key and `ht_rem` drops the whole bucket (`ImplementsMap` with every set of
  peers empty). In `ts` with `EqualSums` a response goes to the client of
  another tunnel (`ResponseReachesItsClient`). In `dp_shared` with `EqualSums`
  the client on descriptor 14 asks and ends, the next one is accepted on 23, and
  the response to the first is written to the second (`ResponseToOwner`),
  against `tunnel.h` 75: "Message to deliver to our client that made request
  earlier."
- Descriptors used again (`Reuse = TRUE` in `dp_shared`): a late response goes
  to the next user of the descriptor (`ResponseToOwner`), and a descriptor used
  again is spliced to a connection to another port (`RightPort`).
- A failed `socket()` leaves the connect timer stopped: nothing reconnects.
  `LossStartsTimer` is about connections that were open.
- `stop()` with open clients queues messages on the freed send list, and with
  `clientterm` it runs twice. `DefinedUntilStop` says that nothing of the kind
  happens before the first `stop()`, and `TerminateEndsLoop` excepts both.
- A node that says nothing ends the pings, and those behind it are not asked
  (`backend.c` 96). `FastestChosen` is about those that were.
- An empty buffer holds up the send queue for good (`EverythingIsSent` without
  `Stuck`).
- SIGTERM between lines 648 and 671 of `gcapi.c` is lost for ever: the handler
  sets `gc_sigterm`, the shutdown timer is not initialised yet and does not
  start, and later signals are ignored (line 505). `gcapi.h` 218 says "Called
  after receiving SIGTERM." `TerminateEndsLoop` without `~deaf` shows it.
- A second entry in the list of a pair reply is read one byte late, since the
  loop counts up once more (`gcapi.c` 399). `ListsRead` is about one entry.
- `recv_append` hands on one packet per read and drops what follows it in the
  buffer. It follows no packet as long as no record holds parts of two; a relay
  that joins them would lose packets (`PacketsInOrder`).
- The lists of accepted values in `gc_serialize` refuse nothing: `sn_memcmp` is
  true of equal strings and is compared with 0 (`Refused`).
- Without `compare`, an empty list of relays is no failure: the name chosen is
  empty, against `backend.h`'s "Pick one of the available backend nodes."
- `gc_ringbuffer_send_size` counts bytes that were sent already; it has no
  caller in the library. `gc->config.type` is set and never read.
- A duplicate answer for a kernel-chosen port binds another port, and the
  first server is left without an owner. `ListeningIsPaired` is about the
  fixed ports for this reason.

### Bounds and why they are enough

Every bound is a named constant (`Max*`, the sizes of the sets). Two
connections are needed for any confusion of two, a third one shows that the
second is not special; chains of three entries have a head, a middle and an
end; a stream of six bytes in buffers of at most three has slots of every
length before and behind each other, and partial sends at each place; two
processes show a restart, three tunnels a pair on one device and one on
another, with the local port of one equal to the remote port of another. Two
bodies on a connection are the least that can change places. Words of two
bytes and 256 values keep the order of bytes visible and the numbers small; a
cut after 1 byte leaves half a length word, one after 5 leaves a record that
ends within the header or within a field; two connections are what a left-over
of the first needs to show. One lost connection to the relay, with up to two
messages in each direction, has every way to split what is under way. A time
of 999 is the limit of `backend_choose`. Queues are bounded
by guards on the appending action, never by dropping. Where client structures
are interchangeable and no liveness is checked, runs use symmetry.

`CHECK_DEADLOCK FALSE` is set where the modelled system really stops: after
SIGTERM, after `stop()`, after a crash, or when a bounded supply (bytes,
clients, processes) is used up.

## 4. Fairness

- `SendQueue`: `WF(Writing)`. libev calls the write callback while its
  watcher is started and the socket is writable. A peer that never reads again
  is ended by keepalive, which is `async_client_shutdown`.
- `Wire`: the same of the writer, and `WF` of reading what has arrived.
- `DataPath`: `WF(RemoteReceives)`. The event loop of the remote process keeps
  reading what the relay sends. Nothing is assumed of clients or backends.
- `Startup`: `WF` of the steps of `gc_init`, which waits for `ping -c 3` only;
  of the connect and shutdown timers, which repeat until they
  are stopped; and of libev's call for a closed descriptor. Nothing is assumed
  of the relay or of clients.
- `Pairing`: `WF` of the pair timer, of reading from the relay, and of the
  relay's answers to requests for devices that are online. Without the last,
  which is a premise on the relay, nothing could be promised.

## 5. What is proved

Every safety invariant that a run checks is a theorem, and so is every action
property and every refinement, some under a premise that the run shares (the
table below); liveness is left to TLC (section 6).

All proofs hold for every value of the constants under the `ASSUME`s of the
modules, which say that constants have their types, that `NULL` is no value,
and, but for `Wire` and `Codec` (below), no more; for `TunnelServer` also that
there are finitely many buckets (`HT_MAX`), for `DataPath` that descriptors,
clients and connections are finitely many and that no client is a connection.
Where a theorem needs more it states its premise with `ASSUME`.

**ClientTable_proofs.** The inductive invariant `TableInv` is `TypeOK`, that
every entry sits in its key's bucket and no key twice in a chain (`ChainsOK`),
and that what is stored is open (`NoFreedClient`). `NoFreedClient` alone is
not inductive: an overwrite or a removal meets only the first entry of a key,
so a second one would survive. `TableCorrect` proves the invariant,
`NoFreedClientStored` restates its parts, `LookupCorrect` proves the action
property that a stored key is found with the client open on it, and
`TableImplementsMap` that the table refines `KeyValueMap`. All four hold for
every hash: nothing is assumed about collisions. The link between chains and
the map is in `ContentOfEntry` (an entry of a chain is what the map holds for
its key) and `ContentOfBucket` (buckets that are equal give equal maps).

**Wire_proofs, the queue.** `QueueInv` is `TypeOK`, `SlotsContiguous` and
`WatchedWhilePending` with three more parts: no slot reaches beyond what was
appended and none was sent further than its length (`Within`), a client that
was shut down has an empty list, and what left the socket is the first bytes
of the stream (`InOrder`). `SlotsContiguous` ties only the first and the last
slot to the stream; `Within` is what shows, when a slot is sent in part, that
the bytes taken were ones that had been appended. The argument splits a send
on whether it empties the slot (`SlotFreed`, where the next slot becomes the
head) or not (`SlotBegun`). From the invariant follow `SlotsStayContiguous`,
`PendingIsWatched` and the refinement `QueueImplementsStream`; they hold for
buffers of any length, also empty ones, and none of TLC's bounds is used.

**Wire_proofs, framing.** `PacketsInOrder` compares what came out with what went
in and says nothing of the bytes between. The inductive invariant `PacketInv`
says where they are, by cursors: a cursor is a packet of `sent` and how many of
its bytes are before the place. The slots are the packets that were not written
out, the `Writer` is in the first of them (`SlotsArePackets`), and as many
bytes left the socket as come before it (`WrittenOut`). The `Reader` has read
whole packets (`data`) and the beginning of the next one (`recv`), whose length
it knows or not (`Received`). Each record under way is a part of one packet,
from one cursor to the next, and together they lead from the reader to the
writer (`Leading`). One record never holds bytes of two packets, since a slot is
one packet and `SSL_write` gets one slot: without this the rest of a record
would be dropped. When a connection is lost the stream starts anew, and the
left-over of the old one goes with the client structure. `WireCorrect` proves
the invariant of both uses of the list; `WireSlotsContiguous`,
`WirePendingIsWatched` and `WireImplementsStream` are the theorems about the
queue for its users.

**Wire_proofs, packets.** `ReadBack` says that `gc_deserialize` makes of what
`gc_serialize` wrote the same type and fields, for every packet and for every
size of an int. It rests on `Digits` and `Horner`, that the bytes of a number
put together give the number; on `MemoryRead` and `IntRead`, that the two swaps
cancel and the sign comes out right; and on `OffsetsRead`, that the reader, which
walks from length to length, meets the places where the parts begin (`Begins`).
With the framing it gives `PacketsStayInOrder`. `ArgumentsAreRead` has two
halves. What the parser takes is the header, split at its slashes
(`ArgumentsSeparated`, `ArgumentsJoin`); and it does stop at the end of the
header, although nothing terminates it there: the next byte is the highest of
the body's length, which is 0 (`HighByteZero`, `HeaderClosed`). `ListsAreRead`
follows the reader through the entries of a list: where each begins
(`StartsRead`), what it takes of one (`EntryRead`) and where that leaves it
(`EntryPast`); the loop ends with the last one.

These theorems assume what makes the C code right, and why it may be assumed:

| Assumption | Why the code justifies it |
|---|---|
| `CodecAssumption`, `TypesAssumption`: an int has two bytes or more and holds the numbers of the types | it has 4 bytes, there are 24 types |
| `WireAssumption`: packets have the fields of their type and pass `gc_serialize` | its callers fill one structure per type; it refuses nothing (`Refused`) |
| `IsMessage`: the header of a message has no byte 0, and its body is short enough for the highest byte of its length to be 0 | headers are printed with `%s` and `%d`; bodies come from buffers of 32 KiB (`RB_SLOT_SIZE`, `ringbuffer.h` 23), or are a picture of a camera (`mod_webcam.c`), far below 16 MiB |
| `RelayAssumption`: lists are entries with their fields in order, at most one in a pair answer | the relay is external; a request names one device, and a second entry is read one byte late (section 3) |

**Endpoint_proofs.** `ListInv` is inductive for every outcome of connecting: it
has the types, unique keys, every open connection linked exactly once, and that
whatever is linked is open or dropped (`LinkedIsLive`). The last conjunct is
what makes a new client distinct from those linked. `ListCorrect` proves it,
`OneEndpointPerConnection` and `EndpointsStayLive` restate its parts, and so
does `KeysStayUnique`: no two endpoints answer to one address and descriptor.
`CrashesNeedDropped` proves that nothing aborts and no freed client is
followed unless some `connect()` succeeded at once, and `StopsAreTargeted` that
a stop message closes a connection of the named process only; it needs that a
client is linked once. The lemmas about list traversal and unlinking are
stated once (`FindProperties`, `UnlinkedList`, `LinkedList`) and rest on
`SeqLemmas`.

**TunnelServer_proofs.** Two invariants. `TunnelInv` holds for every hash: the
types, and that every entry of a table sits in its key's bucket and is an open
client of that table's tunnel, which is listed (`TablesOK`). It gives
`TablesHoldOpen`: what a response or the end of a server follows is there.
The converse, that every open client is found in a table, is false when
descriptors collide (`ts_orphan`). `OrphanInv` proves it from `NoCollision`,
that no two descriptors share a bucket: every open client is the head of its
chain, in the table of a tunnel that is listed and listens (`OpenIsHeld`), and
no two open clients have one descriptor (`OneFdEach`), without which a removal
could drop another's entry. From it follow `NoOrphanWithoutCollision`,
`NoAbortWithoutCollision` (neither the `assert(tunnel)` of `client_data` nor a
freed client is met) and `ResponseWithoutCollision`. `NoCollision` is a premise
of these three theorems, not an assumption of the module. That a list filtered
by `Among` keeps exactly what it should is shown by induction over its length
(`AmongProperties`): `Upwards` in `SeqLemmas` states induction about the
elements of a set, where the library's theorems are about an operator.

`EndsAreAnnounced` is `EndIsAnnounced` under `NoCollision`: a client that ends,
by itself or because its tunnel's process goes, puts exactly one `endpoint_stop`
of its own into the queue. `ToldInv` adds to `OrphanInv` that no tunnel is
linked twice, without which the end of a process would shut a server down, and
announce its clients, two times. The messages are the concatenation, over the
tunnels that go, of one message for each bucket in use; `FlattenPlaces` finds
the one tunnel and `AscendingAll` the one bucket that the message comes from,
and `StopNamesClient` shows that no other message names that descriptor.

**DataPath_proofs.** Both processes, what is under way between them and the
loss of the relay. `TP` and `EP` are the proofs of `TunnelServer` and
`Endpoint` with the constants and variables of `DataPath`; their invariants are
parts of `Base`, and `Ends` is what they show of the ends without
mention of the tables. Seventeen operators, joined in
`Effect`, say what each kind of step does to the two ends and to the queues
without tables, lists or handlers: `Asked` for a request that is queued,
`Wrote` for bytes a backend takes, `Dropped` for a message that changes
nothing. Every step has one of these effects (`Steps`), and the further
invariants are proved from `Ends` and the effects alone, in the first half of
the module.

What each theorem assumes, and why it has to:

| Theorem | Premise | Without it |
|---|---|---|
| `NeitherCrashes` | every port is allowed (`Port \subseteq Allowed`); `Sparse` | a request for another port is answered with a type that makes `message_from` abort (`gcapi.c` 83); `ts_orphan`: a client follows its freed server |
| `RequestsStayInOrder` | `Sparse` | the tables lose open clients (`ts_orphan`); what becomes of their requests is not defined |
| `ClosedByTheirEnds` | one local client at a time (`MaxOpen = 1`), any hash | `dp_two`: an `endpoint_stop` ends another connection of its sender |
| `PortsAreRight` | no descriptor is used again (`~Reuse`); `Sparse` | an endpoint that outlived its client is found by the next one with its descriptor, on another port |
| `ResponsesReachTheirOwner`, `DataPathIsSplice` | `~Reuse`; `NoCollision` | a response under way meets the next user of its descriptor, or of its bucket (`dp_shared` with `EqualSums`, section 3) |

`NoCollision` says that no two descriptors share a bucket, `Sparse` that no two
clients that are open at once do: `NoCollision`, or one client at a time. They
are premises on the descriptors that the kernel hands out, which the code does
not meet by itself: its hash is the sum of a descriptor's digits, and 14 and 23
collide. Where a theorem has neither it holds for every hash. The lemmas about
`TunnelServer` that these proofs use ask for less: `AcceptHolds` only that no
open client of the tunnel is in the new one's bucket.

`RequestsStayInOrder` rests on `Run(s, x, a, z)`: what `x` has in `s` is
numbered from `a + 1` to `z`, without a gap. `Order` says that each client's
requests in the queue are such a run, which reaches what the client has sent
for as long as it has not ended, and that an open connection whose youngest
bytes came from it stands just before the run. Losing the relay cuts a run at
its end, and the client ends with it; hence `z <= sent[c]`, with equality only
for clients that have not ended. `Faithful` says that what is queued names its
sender's descriptor and that what is given to a connection came under the
descriptor it is listed for: with unique keys, and descriptors that no two open
clients share, two connections never take turns in one run, although
descriptors are used again.

`Routing` adds, without reuse, that a descriptor names its client for good
(`FdIsName`), so that each connection has one owner, on the same descriptor and
port (`Owned`), and what is under way back to a descriptor came from a
connection of that client (`Returned`). For `ClosedByTheirEnds` descriptors may
be used again: `Between` says that the news of an end lies behind all requests
of that client and before those of the next one, so that when it is received
every connection that is open belongs to a client that has ended.

`DataPathIsSplice` proves the refinement of `Splice` from `Joint`, which joins
these parts with `Answered`, the same numbering on the way back in three pieces
(what the client took, what waits for it, what is in the queue), and `AllSent`,
that a backend is given nothing its client has not sent. Each effect is mapped
to a step of `Splice` or to none; `Wrote` and `Took`, where bytes come out,
need the order and the routing, the others little more than `Ends`.

**Startup_proofs.** The invariant `Invariant` holds from the first line of
`gc_init` to the end of the program. `Consistent` has the properties of the
run `up` with what they need of each other: a connection is open or nothing
watches it, there are no timers of the connection, clients or backends without
one, the handshake has the watchers to itself (but for the read watcher during
`connect()`), and pairing is asked for only when logged in. `StartsDown` says that nothing of a connection is there before
`gc_init` is through. Handlers fall into three kinds: those that leave a
connection in use in use (`SteadyStep`), those that lose it through
`upstream_error`, and the few that open one or stop the program. The
theorems `DownIsSilent`, `ConnectIsFromIdle`, `HandshakeIsAlone`,
`HangIsGuarded` and `DefinedWhileRunning` are its parts, and `LossIsRetried` is
an action property of it. They hold for any number of clients, backends,
relays, modules and queued packets. `ChosenIsFastest` is about the step that
chooses: the list of results it goes through holds exactly the answers of all
relays (`ListedAnswers`), and the scan ends at a least one (`LowestAnswer`), so
the name chosen gave the fastest answer and none is chosen only when no answer
was below the limit. Which of several equally fast relays is taken it does not say.

**Pairing_proofs.** `PairingInv` has the types, the three safety properties of
the run `pa`, and that every request and answer under way for a port other than
0 names a configured tunnel with that port (`KnownRequest`, `KnownPacket`). The
last is what `ListeningIsPaired` needs: without it an answer could make a
server that no tunnel of the configuration claims. The argument for the others
is that an answer never takes a tunnel from the process it is paired with: that
tunnel's server holds its local port, so a second server cannot get it
(`PairedHoldsPort`, step 11 of `PairedKeeps`). Hence no file of an earlier
process is left behind, although nothing in `device_pair_reply` removes one.
`PairedListens`, `ListeningPaired` and `FilesAnnouncePairs` are its parts; they
hold for any number of tunnels, devices, processes and packets under way.

## 6. What is model-checked only

Liveness (`EverythingIsSent`, `PacketsArrive`, `EndReachesBackend`,
`TerminateEndsLoop`, `PairsEventually`) and everything about `ENABLED` is out
of the prover's reach. So is the induction that the library's theorems take as
an operator: what a fold such as `HtKey` computes is evaluated by TLC, and the
proofs about tables hold for every hash instead. Where induction is needed over
numbers, positions or bytes it is stated about the elements of a set (`Upwards`
and `Recursion` in `SeqLemmas`). The properties of the four runs that find a
violation are false of the code there; `ClosedByItsEnds` and `NoOrphan` are
proved under the premises named above. The type invariants are proved
where there are proofs; no run lists them.

## 7. What is not modelled, and why

- **libev, OpenSSL, json-c, curl, the kernel and the relay** are external;
  the models take from them what the code relies on.
- **Memory pool**: `include/pool.h` defines `POOL_STDLIB`, so it is malloc and
  free. Failing allocations are left out everywhere.
- **Modules**: the start and stop of their servers are in `Startup` and
  `Upstream`; what they say to their devices, by HTTP or by running a command,
  is not.
- **The example client**: its callback for a new connection and its failure
  exit are modelled, argument parsing and printing are not.
- **Logging, `gc_config_dump`, `gc_proto_dump`, the tests**: output without
  state. Expectations stated in tests serve as documents.
- **Lengths out of range**: packets are those that `gc_serialize` writes; what
  the readers make of other bytes is not a question the models ask.
- **`gc_tunnel_update`**: changes the text of a tunnel's local port, which
  only the header of a request repeats and no receiver compares.
- **A relay that answers a login twice**: a second reply on one connection
  would initialise the pair timer while it is started (`gcapi.c` 274). The
  models take it that there is one.
- **The interrupted event loop**: the signal handler calls libev from signal
  context. The models let it run between callbacks.

## 8. Plan

In the order of their importance; all are done. The runs are kept to one for
each question: a later module takes the place of a weaker run, or is joined
with one by composition, so that the whole project can be checked in minutes.

1. `Hashtable`, `ClientTable`, refinement of `KeyValueMap`, proofs.
2. `SendQueue`, refinement of `ByteStream`, proofs; `Codec` and `Wire`.
3. `Endpoint`, proofs; `TunnelServer`; `DataPath` composes both, with the loss
   of the relay.
4. `Upstream`: lifecycle, timers, stop; `Startup`.
5. `Pairing`.
6. `Splice`, which `DataPath` refines.
7. Proofs: `TunnelServer`, `Startup` with `Upstream`, `Pairing`.
8. Proofs about `DataPath`, which use those of its two parts: its invariants,
   the action property `ClosedByItsEnds`, the refinement of `Splice`; that the
   end of a client is announced.
9. Proofs about `Wire` and `Codec`: framing, the round trip of a packet,
   arguments and lists; that the fastest relay is chosen.

What could follow: `Splice` with descriptors used again, once the code
compares the port and the process of a response; a model of the signal handler
inside the event loop.
