------------------------------ MODULE SendQueue ------------------------------
(***************************************************************************)
(* The sending half of a TCP client: the list of slots of ringbuffer.c,    *)
(* ev_send() of utils.c that appends to it and starts the write watcher,   *)
(* and async_write() that drains it.  A byte is identified by its place in *)
(* the stream, so a slot is the range of bytes its buffer holds.           *)
(***************************************************************************)
EXTENDS Naturals, SequencesExt

CONSTANTS MinLen,     \* the shortest and
          MaxLen,     \* the longest buffer handed to ev_send
          MaxBytes,   \* TLC's bound on the length of the stream
          MaxSlots    \* TLC's bound on the length of the list

(* This library never sends an empty buffer: a packet has a length prefix, *)
(* and what is forwarded to a client is what the peer's recv() returned.   *)
(* MinLen = 0 is a message with an empty body, which only another          *)
(* implementation of the protocol would send.                              *)
ASSUME SendQueueAssumption == MinLen \in Nat /\ MaxLen \in Nat /\ MaxBytes \in Nat
                               /\ MaxSlots \in Nat

VARIABLES send,       \* rb->send .. rb->tail
          watching,   \* the write watcher is started
          closed,     \* the client was shut down and freed
          gc_sigterm, \* the flag of the signal handler
          total,      \* bytes appended so far
          wire        \* bytes the socket took, in order

vars == <<send, watching, closed, gc_sigterm, total, wire>>

Slot == [first : Nat, len : Nat, sent : Nat]

TypeOK == /\ send \in Seq(Slot)
          /\ watching \in BOOLEAN
          /\ closed \in BOOLEAN
          /\ gc_sigterm \in BOOLEAN
          /\ total \in Nat
          /\ wire \in Seq(Nat)

Init == /\ send = <<>>
        /\ watching = FALSE
        /\ closed = FALSE
        /\ gc_sigterm = FALSE
        /\ total = 0
        /\ wire = <<>>

(* Variants with a bug each, as the properties must notice: a slot freed   *)
(* one byte early, a partial send that is forgotten.                       *)
SkippedEarly(n) ==
  IF Head(send).sent + n + 1 >= Head(send).len
  THEN Tail(send)
  ELSE [send EXCEPT ![1].sent = @ + n]

SkippedForgets(n) == IF n = Head(send).len THEN Tail(send) ELSE send

(* gc_ringbuffer_send_append(): a copy of the buffer is the new tail. *)
Appended(n) == Append(send, [first |-> total + 1, len |-> n, sent |-> 0])

(* gc_ringbuffer_send_next(): what is left of the first slot. *)
NextSize == IF send = <<>> THEN 0 ELSE Head(send).len - Head(send).sent

(* gc_ringbuffer_send_skip() and gc_ringbuffer_next(): the first slot is   *)
(* freed when all of it was sent.                                          *)
Skipped(n) ==
  IF Head(send).sent + n = Head(send).len
  THEN Tail(send)
  ELSE [send EXCEPT ![1].sent = @ + n]
-----------------------------------------------------------------------------
\* With a bug: the watcher is not started.
ev_send_unwatched(n) ==
  /\ ~closed
  /\ send' = Appended(n)
  /\ total' = total + n
  /\ UNCHANGED <<watching, closed, gc_sigterm, wire>>

ev_send(n) ==
  /\ ~closed
  /\ send' = Appended(n)
  /\ watching' = TRUE
  /\ total' = total + n
  /\ UNCHANGED <<closed, gc_sigterm, wire>>

\* With a bug: the watcher is stopped with the slot.
async_write_unwatched(n) ==
  /\ watching /\ ~gc_sigterm
  /\ n \in 1..NextSize
  /\ wire' = wire \o [i \in 1..n |-> Head(send).first + Head(send).sent + i - 1]
  /\ send' = Skipped(n)
  /\ watching' = (Len(Skipped(n)) = Len(send))
  /\ UNCHANGED <<closed, gc_sigterm, total>>

(* send() took n bytes. *)
async_write(n) ==
  /\ watching /\ ~gc_sigterm
  /\ n \in 1..NextSize
  /\ wire' = wire \o [i \in 1..n |-> Head(send).first + Head(send).sent + i - 1]
  /\ send' = Skipped(n)
  /\ watching' = (Skipped(n) # <<>>)
  /\ UNCHANGED <<closed, gc_sigterm, total>>

(* The watcher fired with nothing to send: the list, or its first slot, is *)
(* empty.  An empty slot is not freed here, so it stays at the head.       *)
async_write_idle ==
  /\ watching /\ ~gc_sigterm
  /\ NextSize = 0
  /\ watching' = FALSE
  /\ UNCHANGED <<send, closed, gc_sigterm, total, wire>>

(* async_client_shutdown(): from a write error (EAGAIN counts as one), a   *)
(* read error, an endpoint_stop message, or the library's stop().          *)
async_client_shutdown ==
  /\ ~closed
  /\ closed' = TRUE
  /\ watching' = FALSE
  /\ send' = <<>>
  /\ UNCHANGED <<gc_sigterm, total, wire>>

sigh_terminate ==
  /\ ~gc_sigterm
  /\ gc_sigterm' = TRUE
  /\ UNCHANGED <<send, watching, closed, total, wire>>

Writing == (\E n \in 1..MaxLen : async_write(n)) \/ async_write_idle

Bounded(n) == total + n <= MaxBytes /\ Len(send) < MaxSlots

Next == \/ \E n \in MinLen..MaxLen : Bounded(n) /\ ev_send(n)
        \/ Writing
        \/ async_client_shutdown
        \/ sigh_terminate

(* libev calls the write callback again and again while the watcher is     *)
(* started and the socket can be written; a peer that stops reading for    *)
(* ever is ended by the keepalive error, which is async_client_shutdown.   *)
Spec == Init /\ [][Next]_vars /\ WF_vars(Writing)
-----------------------------------------------------------------------------
Stream == INSTANCE ByteStream

(* The list of slots delivers what was appended as one stream of bytes,    *)
(* nothing lost, repeated or reordered, whatever partial sends occur.      *)
ImplementsStream == Stream!Spec

(* The slots are the bytes between what was sent and what was appended, in *)
(* order and without a gap; no slot but the first was begun, and none that *)
(* held a byte is left when all of it was sent.                            *)
SlotsContiguous ==
  /\ \A i \in DOMAIN send :
       /\ send[i].sent < send[i].len \/ send[i].len = 0
       /\ i > 1 => send[i].sent = 0
       /\ i < Len(send) => send[i + 1].first = send[i].first + send[i].len
  /\ send # <<>> =>
       /\ send[1].first + send[1].sent = Len(wire) + 1
       /\ send[Len(send)].first + send[Len(send)].len = total + 1
  /\ send = <<>> /\ ~closed => Len(wire) = total

(* An empty buffer at the head: async_write() never frees it.              *)
Stuck == send # <<>> /\ Head(send).len = 0

(* A client with something to send is watched for writing: async_write()   *)
(* stops the watcher, and the last append must not be the one it forgets.  *)
WatchedWhilePending == send # <<>> /\ ~Stuck => watching

(* What was appended is sent, unless the client is closed, the process was *)
(* told to terminate, or an empty buffer came to stand in front of it.     *)
EverythingIsSent ==
  \A n \in 1..MaxBytes : (total >= n) ~> (Len(wire) >= n \/ closed \/ gc_sigterm \/ Stuck)
=============================================================================
