-------------------------------- MODULE Wire --------------------------------
(***************************************************************************)
(* The list of slots of SendQueue in its two uses: by a TCP client, which  *)
(* appends what it is to forward, and by the SSL client, which appends     *)
(* packets.  What the SSL client sends reaches the library at the other    *)
(* end as records of TLS; async_read_ssl() there reads one at a time,      *)
(* recv_append() puts packets together from them and callback_data()       *)
(* takes the packets apart (Codec).                                        *)
(*                                                                         *)
(* The relay between the two ends is not part of this code.  It is taken   *)
(* to pass records on as they are: a record never holds more than one slot *)
(* at the sender, so it never holds parts of two packets.                  *)
(***************************************************************************)
EXTENDS SendQueue, Codec

CONSTANTS Packets,      \* the packets that may be sent, and
          Followers,    \* those that may be sent after another one
          Cuts,         \* how much SSL_write() takes, if not the whole slot
          MaxPackets,   \* TLC's bound on packets of one connection,
          MaxRecords,   \* on records under way
          MaxConnections, \* and on connections
          PairLists,    \* what the relay lists: the pairs of an answer,
          Reports       \* and the entries of a report of traffic

(* A header is text, and a body is at most what recv() puts into the       *)
(* buffer of a connection: its length does not reach the highest byte.     *)
IsMessage(p) == 0 \notin ToSet(p.u.tp) /\ Len(p.u.body) * Base < IntValues

ASSUME WireAssumption ==
  /\ Followers \subseteq Packets
  /\ \A p \in Packets : /\ IsPacket(p) /\ ~Refused(p)
                        /\ p.type = "MESSAGE_FROM" => IsMessage(p)

(* A list as the relay writes it: the fields of each entry in their order. *)
ListOf(fields, entries) ==
  FlattenSeq([e \in DOMAIN entries |->
    FlattenSeq([k \in DOMAIN fields |-> add_intern(entries[e][fields[k]])])])

(* An answer lists the one pair that was asked for, or none. *)
ASSUME RelayAssumption ==
  /\ \A pairs \in PairLists : /\ pairs \in Seq([ToSet(PairFields) -> Seq(Byte)])
                              /\ Len(pairs) <= 1
  /\ \A report \in Reports : report \in Seq([ToSet(TrafficFields) -> Seq(Byte)])
  /\ \A p \in Packets :
       /\ p.type = "DEVICE_PAIR_REPLY" =>
            \E pairs \in PairLists : p.u.list = ListOf(PairFields, pairs)
       /\ p.type = "TRAFFIC_GET_REPLY" =>
            \E report \in Reports : p.u.list = ListOf(TrafficFields, report)

VARIABLES kind,        \* "tcp" or "ssl"
          connections, \* how many connections there were
          sent,        \* packets appended on this one
          flight,      \* records that SSL_read() has not returned
          recv,        \* rb->recv of the reader
          data         \* the buffers handed to callback_data(), in order

packetVars == <<sent, flight, recv, data>>
wireVars   == <<vars, kind, connections, packetVars>>

NothingRead == [buf |-> <<>>, target |-> 0]

WireInit == /\ Init
            /\ kind \in {"tcp", "ssl"}
            /\ connections = 1
            /\ sent = <<>> /\ flight = <<>> /\ recv = NothingRead /\ data = <<>>
-----------------------------------------------------------------------------
(* A TCP client: data of the peer is forwarded, written out, and the       *)
(* client is shut down in the end.                                         *)
Forwarding ==
  /\ kind = "tcp"
  /\ \/ \E n \in MinLen..MaxLen : Bounded(n) /\ ev_send(n)
     \/ Writing
     \/ async_client_shutdown
     \/ sigh_terminate
  /\ UNCHANGED <<kind, connections, packetVars>>

(* net_send(): the length of the packet in front of it. *)
net_send(packet) == BigEndian(Len(packet)) \o packet

(* What gc_packet_send() appends for each packet, and the bytes appended   *)
(* on this connection.                                                     *)
Frame    == [p \in Packets |-> net_send(gc_serialize(p))]
Outgoing == FlattenSeq([i \in DOMAIN sent |-> Frame[sent[i]]])

gc_packet_send(p) ==
  /\ kind = "ssl"
  /\ Len(sent) < MaxPackets
  /\ sent # <<>> => p \in Followers /\ sent[1] \in Followers
  /\ ~Refused(p)
  /\ ev_send(Len(Frame[p]))
  /\ sent' = Append(sent, p)
  /\ UNCHANGED <<kind, connections, flight, recv, data>>

(* SSL_write() of what is left of the first slot took n bytes; the other   *)
(* outcomes are to try again, which changes nothing, and an error.         *)
async_write_ssl(n) ==
  /\ kind = "ssl"
  /\ n \in Cuts \/ n = NextSize
  /\ Len(flight) < MaxRecords
  /\ async_write(n)
  /\ flight' = Append(flight, SubSeq(Outgoing, Len(wire) + 1, Len(wire) + n))
  /\ UNCHANGED <<kind, connections, sent, recv, data>>

\* With a bug: a packet without fields is taken for a header.
TargetLate(buf) ==
  IF recv.target = 0 /\ Len(buf) > 3 * Word THEN IntAt(buf, 0) + Word ELSE recv.target

(* recv_append(): once more than two words were read, the first is the     *)
(* length of the packet.  Packets have one, so it is never refused.        *)
Target(buf) ==
  IF recv.target = 0 /\ Len(buf) > 2 * Word THEN IntAt(buf, 0) + Word ELSE recv.target

async_read_ssl ==
  /\ flight # <<>>
  /\ flight' = Tail(flight)
  /\ LET buf    == recv.buf \o Head(flight)
         target == Target(buf)
     IN \/ /\ target # 0 /\ target <= Len(buf)
           /\ recv' = NothingRead
           /\ data' = Append(data, SubSeq(buf, 1, target))
        \/ /\ target = 0 \/ target > Len(buf)
           /\ recv' = [buf |-> buf, target |-> target]
           /\ UNCHANGED data
  /\ UNCHANGED <<vars, kind, connections, sent>>

(* Either end met an error, or was told to stop: what was on its way is    *)
(* lost, and async_client_ssl_shutdown() frees the list.  What had been    *)
(* read of a packet stays until the client structure is cleared.           *)
upstream_error ==
  /\ kind = "ssl"
  /\ async_client_shutdown
  /\ flight' = <<>>
  /\ UNCHANGED <<kind, connections, sent, recv, data>>

\* With a bug: the reader's buffer is not cleared with the rest.
ClearedRecvKept == recv

(* memset() of the client structure, at the reader. *)
ClearedRecv == NothingRead

upstream_connect ==
  /\ kind = "ssl" /\ closed
  /\ connections < MaxConnections
  /\ connections' = connections + 1
  /\ send' = <<>> /\ watching' = FALSE /\ closed' = FALSE /\ total' = 0 /\ wire' = <<>>
  /\ sent' = <<>> /\ data' = <<>>
  /\ recv' = ClearedRecv
  /\ UNCHANGED <<gc_sigterm, kind, flight>>

ssl_sigh_terminate ==
  /\ kind = "ssl"
  /\ sigh_terminate
  /\ UNCHANGED <<kind, connections, packetVars>>

WireWriting == \/ Writing /\ kind = "tcp" /\ UNCHANGED <<kind, connections, packetVars>>
               \/ \E n \in 1..NextSize : async_write_ssl(n)

WireNext == \/ Forwarding
            \/ \E p \in Packets : gc_packet_send(p)
            \/ \E n \in 1..NextSize : async_write_ssl(n)
            \/ async_read_ssl
            \/ upstream_error \/ upstream_connect \/ ssl_sigh_terminate

(* libev calls the callback of a watcher that is started for as long as    *)
(* the socket can be written, or read.                                     *)
WireSpec == WireInit /\ [][WireNext]_wireVars
            /\ WF_wireVars(WireWriting) /\ WF_wireVars(async_read_ssl)
-----------------------------------------------------------------------------
(* callback_data(): the buffers that can be taken apart, without the       *)
(* length of the packet, and what is made of each.                         *)
Bodies  == [i \in DOMAIN data |-> SubSeq(data[i], Word + 1, Len(data[i]))]
Sources == Among(Bodies, {src \in ToSet(Bodies) : gc_deserialize(src).ok})

got == [i \in DOMAIN Sources |-> gc_deserialize(Sources[i])]

(* async_client.c and proto.c: the packets that callback_data() gets on a  *)
(* connection are those that were sent on it, with the same fields, in the *)
(* order of sending and without one left out, however SSL_write() cut them *)
(* and whatever had been read when the connection before this one ended.   *)
PacketsInOrder ==
  IsPrefix([i \in DOMAIN got |-> [type |-> got[i].type, u |-> got[i].u]], sent)

(* A packet that was sent is received, unless the connection ends.         *)
PacketsArrive ==
  \A n \in 1..MaxPackets : (Len(sent) >= n) ~> (Len(got) >= n \/ closed \/ gc_sigterm)

Joined(args) ==
  FlattenSeq([k \in DOMAIN args |-> IF k = 1 THEN args[1] ELSE <<Slash>> \o args[k]])

(* gc_parse_delimiter(): the arguments of a message are the parts of its   *)
(* header, though nothing of the header ends the last of them.             *)
ArgumentsRead ==
  \A i \in DOMAIN got : got[i].type = "MESSAGE_FROM" =>
    LET argv == gc_parse_delimiter(Sources[i], got[i].at["tp"], Len(got[i].u.tp))
    IN /\ Joined(argv) = got[i].u.tp
       /\ \A k \in DOMAIN argv : ~Contains(argv[k], Slash)

(* The pair of an answer, and each entry of a traffic report, are read as  *)
(* they were written.                                                      *)
ListsRead ==
  \A i \in DOMAIN got :
    /\ got[i].type = "DEVICE_PAIR_REPLY" =>
         got[i].u.list = ListOf(PairFields, PairsOf(got[i].u.list))
    /\ got[i].type = "TRAFFIC_GET_REPLY" /\ got[i].u.list # <<>> =>
         got[i].u.list = ListOf(TrafficFields, parse_traffic(got[i].u.list))
=============================================================================
