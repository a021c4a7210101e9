------------------------------ MODULE Wire_proofs ------------------------------
(***************************************************************************)
(* The send queue, what it carries, and what is read of it, for buffers,   *)
(* streams, lists and packets of any length: TLC's bounds occur in no      *)
(* proof.                                                                  *)
(*                                                                         *)
(* SlotsContiguous relates the first and the last slot to the stream but   *)
(* not those between; QueueInv adds that no slot reaches beyond what was   *)
(* appended, which is what a partial send needs, and that the stream left  *)
(* the socket in order.                                                    *)
(*                                                                         *)
(* PacketsInOrder says nothing of the bytes that are under way; PacketInv  *)
(* says where they lie.  A cursor is a place in the stream of packets: a   *)
(* packet, and how much of it is before the place.  The slots are the      *)
(* packets that were not written out, and the writer's cursor is in the    *)
(* first of them; the reader has whole packets and the beginning of one,   *)
(* where its cursor is; and each record under way is a part of one packet  *)
(* that leads from one cursor to the next, from the reader to the writer.  *)
(* What is read of a packet then rests on gc_deserialize() taking apart    *)
(* what gc_serialize() put together: on the digits of a number in memory,  *)
(* on where the parts of a concatenation begin, and on the recursive       *)
(* functions that step through them.                                       *)
(***************************************************************************)
EXTENDS Wire, SeqLemmas

(* No slot reaches beyond the stream, and none was sent further than it goes. *)
Within == \A i \in DOMAIN send :
            send[i].first + send[i].len <= total + 1 /\ send[i].sent <= send[i].len

(* A client that was shut down has nothing left to send. *)
ClosedIsEmpty == closed => send = <<>>

InOrder == wire = Stream!FirstBytes(Len(wire)) /\ Len(wire) <= total

QueueInv == TypeOK /\ SlotsContiguous /\ WatchedWhilePending /\ Within /\ ClosedIsEmpty /\ InOrder

(* A step appends an actual length and writes at least a byte. *)
LEMMA NextCases ==
  ASSUME Next
  PROVE  \/ \E n \in Nat : ev_send(n)
         \/ \E n \in Nat \ {0} : async_write(n)
         \/ async_write_idle
         \/ async_client_shutdown
         \/ sigh_terminate
  BY SendQueueAssumption DEF Next, Writing, SendQueueAssumption

(* A step of arithmetic that needs neither sequences nor records. *)
LEMMA Shifted ==
  ASSUME NEW f \in Nat, NEW t \in Nat, NEW l \in Nat, NEW k \in Nat, NEW n \in Nat,
         f + t = k + 1
  PROVE  t + n = l => f + l = (k + n) + 1
  OBVIOUS

(* The parts of a slot are numbers. *)
LEMMA SlotFields ==
  ASSUME NEW s \in Slot
  PROVE  s.first \in Nat /\ s.len \in Nat /\ s.sent \in Nat
  BY DEF Slot

(* The first n bytes are a sequence of their places. *)
LEMMA FirstBytesType ==
  ASSUME NEW n \in Nat
  PROVE  /\ Stream!FirstBytes(n) \in Seq(Nat) /\ Len(Stream!FirstBytes(n)) = n
         /\ \A i \in 1..n : Stream!FirstBytes(n)[i] = i
  BY DEF Stream!FirstBytes

(* Bytes that go on where the first ones end are first bytes again. *)
LEMMA FirstBytesExtend ==
  ASSUME NEW k \in Nat, NEW n \in Nat, NEW s \in Seq(Nat), Len(s) = n,
         \A i \in 1..n : s[i] = k + i
  PROVE  Stream!FirstBytes(k) \o s = Stream!FirstBytes(k + n)
<1> DEFINE f == Stream!FirstBytes(k)
           g == Stream!FirstBytes(k + n)
<1>1. f \in Seq(Nat) /\ Len(f) = k /\ \A i \in 1..k : f[i] = i
  BY FirstBytesType
<1>2. k + n \in Nat /\ g \in Seq(Nat) /\ Len(g) = k + n /\ \A i \in 1..(k + n) : g[i] = i
  BY FirstBytesType
<1> HIDE DEF f, g
<1>3. /\ f \o s \in Seq(Nat)
      /\ Len(f \o s) = k + n
      /\ \A i \in 1..(k + n) : (f \o s)[i] = IF i <= k THEN f[i] ELSE s[i - k]
  BY <1>1, ConcatProperties
<1>4. ASSUME NEW i \in 1..(k + n)
      PROVE  (f \o s)[i] = g[i]
  <2>1. CASE i <= k
    BY <2>1, <1>1, <1>2, <1>3
  <2>2. CASE ~(i <= k)
    <3>1. i - k \in 1..n
      BY <2>2
    <3>2. QED
      BY <3>1, <2>2, <1>2, <1>3
  <2>3. QED
    BY <2>1, <2>2
<1>5. f \o s = g
  BY <1>2, <1>3, <1>4, SeqEqual
<1>6. QED
  BY <1>5 DEF f, g

(* The empty list is correct. *)
LEMMA InitCorrect == Init => QueueInv
<1> SUFFICES ASSUME Init PROVE QueueInv
  OBVIOUS
<1>1. TypeOK
  <2>1. <<>> \in Seq(Slot) /\ <<>> \in Seq(Nat)
    OBVIOUS
  <2>2. QED
    BY <2>1 DEF Init, TypeOK
<1>2. Len(wire) = 0 /\ total = 0 /\ send = <<>> /\ ~closed
  BY DEF Init
<1>3. wire = Stream!FirstBytes(0)
  <2>1. <<>> \in Seq(Nat) /\ Len(<<>>) = 0
    OBVIOUS
  <2>2. \A i \in 1..0 : <<>>[i] = Stream!FirstBytes(0)[i]
    OBVIOUS
  <2>3. <<>> = Stream!FirstBytes(0)
    BY <2>1, <2>2, FirstBytesType, SeqEqual
  <2>4. QED
    BY <2>3 DEF Init
<1>4. SlotsContiguous
  BY <1>2 DEF SlotsContiguous
<1>5. WatchedWhilePending /\ Within /\ ClosedIsEmpty /\ InOrder
  BY <1>2, <1>3 DEF WatchedWhilePending, Within, ClosedIsEmpty, InOrder
<1>6. QED
  BY <1>1, <1>4, <1>5 DEF QueueInv

(* ev_send(): the new slot begins where the last one ends. *)
LEMMA AppendCorrect ==
  ASSUME QueueInv, NEW n \in Nat, ev_send(n)
  PROVE  QueueInv'
<1> DEFINE new == [first |-> total + 1, len |-> n, sent |-> 0]
<1>1. /\ total \in Nat /\ send \in Seq(Slot) /\ Len(send) \in Nat /\ new \in Slot
      /\ \A i \in 1..Len(send) : send[i] \in Slot
  <2>1. total \in Nat /\ send \in Seq(Slot)
    BY DEF QueueInv, TypeOK
  <2>2. Len(send) \in Nat /\ \A i \in 1..Len(send) : send[i] \in Slot
    BY <2>1
  <2>3. new \in Slot
    BY <2>1 DEF Slot
  <2>4. QED
    BY <2>1, <2>2, <2>3
<1>2. /\ send' \in Seq(Slot)
      /\ Len(send') = Len(send) + 1
      /\ \A i \in 1..Len(send) : send'[i] = send[i]
      /\ send'[Len(send) + 1] = new
  BY <1>1, AppendProperties DEF ev_send, Appended
<1>3. TypeOK'
  BY <1>1, <1>2 DEF QueueInv, TypeOK, ev_send
<1> HIDE DEF new
<1>4. new.first = total + 1 /\ new.len = n /\ new.sent = 0
  BY DEF new
<1>5. DOMAIN send = 1..Len(send) /\ DOMAIN send' = 1..(Len(send) + 1) /\ send' # <<>>
  BY <1>1, <1>2
<1>6. UNCHANGED <<closed, wire>> /\ total' = total + n /\ watching' /\ ~closed
  BY DEF ev_send
<1>7. SlotsContiguous'
  <2>1. ASSUME NEW i \in 1..(Len(send) + 1)
        PROVE  /\ send'[i].sent < send'[i].len \/ send'[i].len = 0
               /\ i > 1 => send'[i].sent = 0
               /\ i < Len(send) + 1 => send'[i + 1].first = send'[i].first + send'[i].len
    <3>1. CASE i < Len(send)
      BY <3>1, <1>1, <1>2, <1>5 DEF QueueInv, SlotsContiguous
    <3>2. CASE i = Len(send)
      BY <3>2, <1>1, <1>2, <1>4, <1>5 DEF QueueInv, SlotsContiguous
    <3>3. CASE i = Len(send) + 1
      BY <3>3, <1>1, <1>2, <1>4
    <3>4. QED
      BY <3>1, <3>2, <3>3, <1>1
  <2>2. send'[1].first + send'[1].sent = Len(wire) + 1
    <3>1. CASE send = <<>>
      BY <3>1, <1>2, <1>4, <1>6 DEF QueueInv, SlotsContiguous
    <3>2. CASE send # <<>>
      BY <3>2, <1>1, <1>2 DEF QueueInv, SlotsContiguous
    <3>3. QED
      BY <3>1, <3>2
  <2>3. send'[Len(send')].first + send'[Len(send')].len = total' + 1
    BY <1>1, <1>2, <1>4, <1>6
  <2>4. QED
    BY <2>1, <2>2, <2>3, <1>2, <1>5, <1>6 DEF SlotsContiguous
<1>8. Within'
  <2>1. ASSUME NEW i \in 1..(Len(send) + 1)
        PROVE  send'[i].first + send'[i].len <= total' + 1 /\ send'[i].sent <= send'[i].len
    <3>1. CASE i <= Len(send)
      <4>1. i \in 1..Len(send) /\ send'[i] = send[i]
        BY <3>1, <1>1, <1>2
      <4>2. send[i].first + send[i].len <= total + 1 /\ send[i].sent <= send[i].len
        BY <4>1, <1>5 DEF QueueInv, Within
      <4>3. send[i].first \in Nat /\ send[i].len \in Nat
        BY <4>1, <1>1, SlotFields
      <4>4. QED
        BY <4>1, <4>2, <4>3, <1>1, <1>6
    <3>2. CASE i = Len(send) + 1
      BY <3>2, <1>1, <1>2, <1>4, <1>6
    <3>3. QED
      BY <3>1, <3>2, <1>1
  <2>2. QED
    BY <2>1, <1>5 DEF Within
<1>9. WatchedWhilePending' /\ ClosedIsEmpty' /\ InOrder'
  BY <1>1, <1>6 DEF QueueInv, WatchedWhilePending, ClosedIsEmpty, InOrder, TypeOK
<1>10. QED
  BY <1>3, <1>7, <1>8, <1>9 DEF QueueInv

(* What a send of n bytes finds at the head of the list. *)
LEMMA HeadSlot ==
  ASSUME QueueInv, NEW n \in Nat \ {0}, async_write(n)
  PROVE  /\ send # <<>> /\ ~closed
         /\ Head(send) = send[1] /\ send[1] \in Slot
         /\ send[1].first + send[1].sent = Len(wire) + 1
         /\ send[1].sent + n <= send[1].len
         /\ send[1].first + send[1].len <= total + 1
<1>1. send # <<>>
  BY DEF async_write, NextSize
<1>2. send \in Seq(Slot) /\ Len(send) \in Nat /\ 1 \in DOMAIN send
  BY <1>1 DEF QueueInv, TypeOK
<1>3. send[1] \in Slot /\ Head(send) = send[1]
  BY <1>1, <1>2
<1>4. send[1].sent + n <= send[1].len
  BY <1>1, <1>3 DEF async_write, NextSize, Slot
<1>5. QED
  BY <1>1, <1>2, <1>3, <1>4 DEF QueueInv, SlotsContiguous, Within, ClosedIsEmpty

(* async_write(): the stream goes on where it ended. *)
LEMMA WriteInOrder ==
  ASSUME QueueInv, NEW n \in Nat \ {0}, async_write(n)
  PROVE  /\ wire' \in Seq(Nat)
         /\ Len(wire') = Len(wire) + n
         /\ wire' = Stream!FirstBytes(Len(wire'))
         /\ Len(wire') <= total
<1> DEFINE part == [i \in 1..n |-> Head(send).first + Head(send).sent + i - 1]
<1>1. Len(wire) \in Nat /\ total \in Nat /\ wire = Stream!FirstBytes(Len(wire))
  BY DEF QueueInv, TypeOK, InOrder
<1>2. Head(send).first + Head(send).sent = Len(wire) + 1
  BY HeadSlot
<1>3. Head(send).first \in Nat /\ Head(send).sent \in Nat
  BY HeadSlot DEF Slot
<1>4. part \in Seq(Nat) /\ Len(part) = n /\ \A i \in 1..n : part[i] = Len(wire) + i
  BY <1>1, <1>2, <1>3
<1>5. wire' = wire \o part
  BY DEF async_write
<1> HIDE DEF part
<1>6. wire' = Stream!FirstBytes(Len(wire) + n)
  BY <1>1, <1>4, <1>5, FirstBytesExtend
<1>7. Len(wire) + n <= total
  <2>1. send[1].first \in Nat /\ send[1].sent \in Nat /\ send[1].len \in Nat
    BY HeadSlot, SlotFields
  <2>2. QED
    BY <2>1, <1>1, HeadSlot
<1>8. Len(wire) + n \in Nat
  BY <1>1
<1>9. wire' \in Seq(Nat) /\ Len(wire') = Len(wire) + n
  BY <1>6, <1>8, FirstBytesType
<1>10. QED
  BY <1>6, <1>7, <1>9

(* The list after a slot of it was sent whole. *)
LEMMA SlotFreed ==
  ASSUME QueueInv, NEW n \in Nat \ {0}, async_write(n),
         Head(send).sent + n = Head(send).len
  PROVE  TypeOK' /\ SlotsContiguous' /\ Within'
<1>1. send' = Tail(send) /\ UNCHANGED <<closed, gc_sigterm, total>>
  BY DEF async_write, Skipped
<1>2. send \in Seq(Slot) /\ send # <<>> /\ Len(send) \in Nat \ {0} /\ total \in Nat
  BY HeadSlot DEF QueueInv, TypeOK
<1>3. /\ send' \in Seq(Slot)
      /\ Len(send') = Len(send) - 1
      /\ \A i \in 1..(Len(send) - 1) : send'[i] = send[i + 1]
      /\ DOMAIN send' = 1..(Len(send) - 1) /\ DOMAIN send = 1..Len(send)
  BY <1>1, <1>2, HeadTailProperties
<1>4. \A i \in 1..Len(send) : send[i] \in Slot
  BY <1>2
<1>5. /\ Len(wire') = Len(wire) + n /\ Len(wire) \in Nat
      /\ send[1].first + send[1].len = Len(wire') + 1
  <2>1. Len(wire') = Len(wire) + n /\ Len(wire) \in Nat
    BY WriteInOrder DEF QueueInv, TypeOK
  <2>2. send[1].first \in Nat /\ send[1].sent \in Nat /\ send[1].len \in Nat
    BY HeadSlot, SlotFields
  <2>3. send[1].sent + n = send[1].len /\ send[1].first + send[1].sent = Len(wire) + 1
    BY HeadSlot
  <2> DEFINE f == send[1].first
             t == send[1].sent
             l == send[1].len
             k == Len(wire)
  <2>4. f \in Nat /\ t \in Nat /\ l \in Nat /\ k \in Nat /\ n \in Nat
    BY <2>1, <2>2
  <2>5. f + t = k + 1 /\ t + n = l
    BY <2>3
  <2>6. Len(wire') = k + n
    BY <2>1
  <2> HIDE DEF f, t, l, k
  <2>7. f + l = (k + n) + 1
    BY <2>4, <2>5, Shifted
  <2>8. f + l = Len(wire') + 1
    BY <2>6, <2>7
  <2>9. QED
    BY <2>1, <2>8 DEF f, l
<1>6. TypeOK'
  <2>1. watching' \in BOOLEAN
    BY DEF async_write
  <2>2. QED
    BY <2>1, <1>1, <1>3, WriteInOrder DEF QueueInv, TypeOK
<1>7. SlotsContiguous'
  <2>1. ASSUME NEW i \in 1..(Len(send) - 1)
        PROVE  /\ send'[i].sent < send'[i].len \/ send'[i].len = 0
               /\ send'[i].sent = 0
               /\ i < Len(send) - 1 => send'[i + 1].first = send'[i].first + send'[i].len
    <3>1. /\ i + 1 \in 1..Len(send) /\ i + 1 > 1 /\ send'[i] = send[i + 1]
          /\ i < Len(send) - 1 => i + 1 < Len(send) /\ send'[i + 1] = send[(i + 1) + 1]
      BY <1>2, <1>3
    <3>2. QED
      BY <3>1, <1>3 DEF QueueInv, SlotsContiguous
  <2>2. ASSUME send' # <<>>
        PROVE  /\ send'[1].first + send'[1].sent = Len(wire') + 1
               /\ send'[Len(send')].first + send'[Len(send')].len = total' + 1
    <3>1. Len(send) > 1 /\ send'[1] = send[2] /\ send'[Len(send')] = send[Len(send)]
      BY <2>2, <1>2, <1>3
    <3>2. send[2].first = send[1].first + send[1].len /\ send[2].sent = 0
      BY <3>1, <1>2, <1>3 DEF QueueInv, SlotsContiguous
    <3>3. send[2].first \in Nat
      <4>1. 2 \in 1..Len(send)
        BY <3>1, <1>2
      <4>2. QED
        BY <4>1, <1>4, SlotFields
    <3>4. QED
      BY <3>1, <3>2, <3>3, <1>1, <1>2, <1>5 DEF QueueInv, SlotsContiguous
  <2>3. ASSUME send' = <<>>
        PROVE  Len(wire') = total'
    <3>1. Len(send) = 1
      BY <2>3, <1>2, <1>3
    <3>2. send[1].first + send[1].len = total + 1
      BY <3>1, <1>2 DEF QueueInv, SlotsContiguous
    <3>3. QED
      BY <3>2, <1>1, <1>2, <1>5
  <2>4. QED
    BY <2>1, <2>2, <2>3, <1>3 DEF SlotsContiguous
<1>8. Within'
  <2>1. ASSUME NEW i \in 1..(Len(send) - 1)
        PROVE  send'[i].first + send'[i].len <= total' + 1 /\ send'[i].sent <= send'[i].len
    <3>1. i + 1 \in DOMAIN send /\ send'[i] = send[i + 1]
      BY <1>2, <1>3
    <3>2. QED
      BY <3>1, <1>1 DEF QueueInv, Within
  <2>2. QED
    BY <2>1, <1>3 DEF Within
<1>9. QED
  BY <1>6, <1>7, <1>8

(* The list after a slot of it was sent in part. *)
LEMMA SlotBegun ==
  ASSUME QueueInv, NEW n \in Nat \ {0}, async_write(n),
         Head(send).sent + n # Head(send).len
  PROVE  TypeOK' /\ SlotsContiguous' /\ Within'
<1> DEFINE slot == [send[1] EXCEPT !.sent = @ + n]
<1>1. send' = [send EXCEPT ![1] = slot] /\ UNCHANGED <<closed, gc_sigterm, total>>
  BY DEF async_write, Skipped
<1>2. /\ send \in Seq(Slot) /\ send # <<>> /\ Len(send) \in Nat \ {0} /\ total \in Nat
      /\ 1 \in 1..Len(send)
  BY HeadSlot DEF QueueInv, TypeOK
<1>3. /\ slot \in Slot
      /\ slot.first = send[1].first /\ slot.len = send[1].len /\ slot.sent = send[1].sent + n
  BY HeadSlot DEF Slot
<1>4. slot.sent < slot.len
  <2>1. send[1].sent + n # send[1].len /\ send[1].sent + n <= send[1].len
    BY HeadSlot
  <2>2. slot.sent \in Nat /\ slot.len \in Nat
    BY <1>3 DEF Slot
  <2>3. QED
    BY <2>1, <2>2, <1>3
<1> HIDE DEF slot
<1>5. /\ send' \in Seq(Slot)
      /\ Len(send') = Len(send)
      /\ send'[1] = slot
      /\ \A i \in 2..Len(send) : send'[i] = send[i]
      /\ DOMAIN send' = 1..Len(send) /\ DOMAIN send = 1..Len(send)
      /\ send' # <<>>
  BY <1>1, <1>2, <1>3, ExceptSeq
<1>6. /\ Len(wire') = Len(wire) + n /\ Len(wire) \in Nat
      /\ slot.first + slot.sent = Len(wire') + 1
  <2>1. Len(wire') = Len(wire) + n /\ Len(wire) \in Nat
    BY WriteInOrder DEF QueueInv, TypeOK
  <2>2. send[1].first \in Nat /\ send[1].sent \in Nat /\ send[1].len \in Nat
    BY HeadSlot, SlotFields
  <2>3. send[1].first + send[1].sent = Len(wire) + 1
    BY HeadSlot
  <2> DEFINE f == slot.first
             t == send[1].sent
             l == slot.sent
             k == Len(wire)
  <2>4. f \in Nat /\ t \in Nat /\ l \in Nat /\ k \in Nat /\ n \in Nat
    BY <2>1, <2>2, <1>3
  <2>5. f + t = k + 1 /\ t + n = l
    BY <2>3, <1>3
  <2>6. Len(wire') = k + n
    BY <2>1
  <2> HIDE DEF f, t, l, k
  <2>7. f + l = (k + n) + 1
    BY <2>4, <2>5, Shifted
  <2>8. f + l = Len(wire') + 1
    BY <2>6, <2>7
  <2>9. QED
    BY <2>1, <2>8 DEF f, l
<1>7. TypeOK'
  <2>1. watching' \in BOOLEAN
    BY DEF async_write
  <2>2. QED
    BY <2>1, <1>1, <1>5, WriteInOrder DEF QueueInv, TypeOK
<1>8. SlotsContiguous'
  <2>1. ASSUME NEW i \in 1..Len(send)
        PROVE  /\ send'[i].sent < send'[i].len \/ send'[i].len = 0
               /\ i > 1 => send'[i].sent = 0
               /\ i < Len(send) => send'[i + 1].first = send'[i].first + send'[i].len
    <3>1. i < Len(send) => i + 1 \in 2..Len(send) /\ send'[i + 1] = send[i + 1]
      BY <1>2, <1>5
    <3>2. CASE i = 1
      BY <3>1, <3>2, <1>2, <1>3, <1>4, <1>5 DEF QueueInv, SlotsContiguous
    <3>3. CASE i > 1
      <4>1. send'[i] = send[i]
        BY <3>3, <1>5
      <4>2. QED
        BY <4>1, <3>1, <1>5 DEF QueueInv, SlotsContiguous
    <3>4. QED
      BY <3>2, <3>3
  <2>2. send'[Len(send')].first + send'[Len(send')].len = total' + 1
    <3>1. send[Len(send)].first + send[Len(send)].len = total + 1
      BY <1>2 DEF QueueInv, SlotsContiguous
    <3>2. CASE Len(send) = 1
      BY <3>1, <3>2, <1>1, <1>3, <1>5
    <3>3. CASE Len(send) # 1
      BY <3>1, <3>3, <1>1, <1>2, <1>5
    <3>4. QED
      BY <3>2, <3>3
  <2>3. QED
    BY <2>1, <2>2, <1>5, <1>6 DEF SlotsContiguous
<1>9. Within'
  <2>1. ASSUME NEW i \in 1..Len(send)
        PROVE  send'[i].first + send'[i].len <= total' + 1 /\ send'[i].sent <= send'[i].len
    <3>1. CASE i = 1
      BY <3>1, <1>1, <1>3, <1>5, HeadSlot
    <3>2. CASE i > 1
      BY <3>2, <1>1, <1>5 DEF QueueInv, Within
    <3>3. QED
      BY <3>1, <3>2
  <2>2. QED
    BY <2>1, <1>5 DEF Within
<1>10. QED
  BY <1>7, <1>8, <1>9

(* async_write(), in both cases. *)
LEMMA WriteCorrect ==
  ASSUME QueueInv, NEW n \in Nat \ {0}, async_write(n)
  PROVE  QueueInv'
<1>1. TypeOK' /\ SlotsContiguous' /\ Within'
  BY SlotFreed, SlotBegun
<1>2. watching' = (send' # <<>>)
  BY DEF async_write
<1>3. WatchedWhilePending'
  BY <1>2 DEF WatchedWhilePending
<1>4. ClosedIsEmpty'
  BY HeadSlot DEF ClosedIsEmpty, async_write
<1>5. InOrder'
  BY WriteInOrder DEF InOrder, async_write
<1>6. QED
  BY <1>1, <1>3, <1>4, <1>5 DEF QueueInv

(* The watcher is stopped only if there is nothing to send, or the slot at *)
(* the head is empty.                                                      *)
LEMMA IdleCorrect ==
  ASSUME QueueInv, async_write_idle
  PROVE  QueueInv'
<1>1. UNCHANGED <<send, closed, gc_sigterm, total, wire>> /\ watching' = FALSE
  BY DEF async_write_idle
<1>2. ASSUME send # <<>>
      PROVE  Head(send).len = 0
  <2>1. 1 \in DOMAIN send /\ Head(send) = send[1] /\ send[1] \in Slot
    BY <1>2 DEF QueueInv, TypeOK
  <2>2. send[1].len - send[1].sent = 0
    BY <1>2, <2>1 DEF async_write_idle, NextSize
  <2>3. send[1].sent < send[1].len \/ send[1].len = 0
    BY <2>1 DEF QueueInv, SlotsContiguous
  <2>4. QED
    BY <2>1, <2>2, <2>3 DEF Slot
<1>3. WatchedWhilePending'
  BY <1>1, <1>2 DEF WatchedWhilePending, Stuck
<1>4. QED
  BY <1>1, <1>3 DEF QueueInv, TypeOK, SlotsContiguous, Within, ClosedIsEmpty, InOrder

(* async_client_shutdown() frees the whole list. *)
LEMMA ShutdownCorrect ==
  ASSUME QueueInv, async_client_shutdown
  PROVE  QueueInv'
<1>1. send' = <<>> /\ closed' = TRUE /\ watching' = FALSE /\ UNCHANGED <<gc_sigterm, total, wire>>
  BY DEF async_client_shutdown
<1>2. <<>> \in Seq(Slot)
  OBVIOUS
<1>3. TypeOK'
  BY <1>1, <1>2 DEF QueueInv, TypeOK
<1>4. SlotsContiguous' /\ Within'
  BY <1>1 DEF SlotsContiguous, Within
<1>5. WatchedWhilePending' /\ ClosedIsEmpty' /\ InOrder'
  BY <1>1 DEF QueueInv, WatchedWhilePending, ClosedIsEmpty, InOrder
<1>6. QED
  BY <1>3, <1>4, <1>5 DEF QueueInv

(* Nothing depends on the flag of the signal handler. *)
LEMMA StutterCorrect ==
  ASSUME QueueInv, UNCHANGED <<send, watching, closed, total, wire>>, gc_sigterm' \in BOOLEAN
  PROVE  QueueInv'
  BY DEF QueueInv, TypeOK, SlotsContiguous, WatchedWhilePending, Within, ClosedIsEmpty,
         InOrder, Stuck

(* The inductive invariant. *)
THEOREM QueueCorrect == Spec => []QueueInv
<1>1. ASSUME QueueInv, [Next]_vars
      PROVE  QueueInv'
  <2>1. CASE \E n \in Nat : ev_send(n)
    BY <1>1, <2>1, AppendCorrect
  <2>2. CASE \E n \in Nat \ {0} : async_write(n)
    BY <1>1, <2>2, WriteCorrect
  <2>3. CASE async_write_idle
    BY <1>1, <2>3, IdleCorrect
  <2>4. CASE async_client_shutdown
    BY <1>1, <2>4, ShutdownCorrect
  <2>5. CASE sigh_terminate
    BY <1>1, <2>5, StutterCorrect DEF sigh_terminate
  <2>6. CASE UNCHANGED vars
    BY <1>1, <2>6, StutterCorrect DEF vars, QueueInv, TypeOK
  <2>7. QED
    BY <1>1, <2>1, <2>2, <2>3, <2>4, <2>5, <2>6, NextCases
<1>2. QED
  BY <1>1, InitCorrect, PTL DEF Spec

(* ringbuffer.c: the slots are the bytes between what was sent and what    *)
(* was appended, whatever partial sends occur.                             *)
THEOREM SlotsStayContiguous == Spec => []SlotsContiguous
<1>1. QueueInv => SlotsContiguous
  BY DEF QueueInv
<1>2. QED
  BY <1>1, QueueCorrect, PTL

(* async_write() and ev_send(): a client with something to send is watched *)
(* for writing.                                                            *)
THEOREM PendingIsWatched == Spec => []WatchedWhilePending
<1>1. QueueInv => WatchedWhilePending
  BY DEF QueueInv
<1>2. QED
  BY <1>1, QueueCorrect, PTL

(* The list of slots with its partial sends implements a stream of bytes.  *)
THEOREM QueueImplementsStream == Spec => ImplementsStream
<1>1. Init => Stream!Init
  BY DEF Init, Stream!Init
<1>2. ASSUME QueueInv, [Next]_vars
      PROVE  [Stream!Next]_(Stream!vars)
  <2>1. ASSUME NEW n \in Nat, ev_send(n)
        PROVE  Stream!Write
    BY <1>2, <2>1 DEF ev_send, Stream!Write, QueueInv, TypeOK
  <2>2. ASSUME NEW n \in Nat \ {0}, async_write(n)
        PROVE  Stream!Transmit
    <3>1. Len(wire) \in Nat /\ total \in Nat
      BY <1>2 DEF QueueInv, TypeOK
    <3>2. Len(wire') \in Len(wire)..total /\ wire' = Stream!FirstBytes(Len(wire'))
      BY <1>2, <2>2, <3>1, WriteInOrder
    <3>3. ~closed /\ UNCHANGED <<total, closed>>
      BY <1>2, <2>2, HeadSlot DEF async_write
    <3>4. QED
      BY <3>2, <3>3 DEF Stream!Transmit
  <2>3. ASSUME async_client_shutdown
        PROVE  Stream!Close
    BY <2>3 DEF async_client_shutdown, Stream!Close
  <2>4. ASSUME async_write_idle \/ sigh_terminate \/ UNCHANGED vars
        PROVE  UNCHANGED Stream!vars
    BY <2>4 DEF async_write_idle, sigh_terminate, vars, Stream!vars
  <2>5. QED
    BY <1>2, <2>1, <2>2, <2>3, <2>4, NextCases DEF Stream!Next
<1>3. QED
  BY <1>1, <1>2, QueueCorrect, PTL DEF Spec, ImplementsStream, Stream!Spec
-----------------------------------------------------------------------------
LEMMA DivMod ==
  ASSUME NEW n \in Nat, NEW b \in Nat \ {0}
  PROVE  /\ n \div b \in Nat /\ (n % b) \in 0..(b - 1)
         /\ n = (n \div b) * b + (n % b)
<1>1. n \div b \in Nat
  OBVIOUS
<1>2. (n % b) \in 0..(b - 1)
  OBVIOUS
<1>3. n = (n \div b) * b + (n % b)
  OBVIOUS
<1>4. QED
  BY <1>1, <1>2, <1>3

LEMMA DivLess ==
  ASSUME NEW n \in Nat, NEW b \in Nat \ {0}, NEW m \in Nat, n < m * b
  PROVE  n \div b < m
<1> DEFINE q == n \div b
           r == n % b
<1>1. q \in Nat /\ r \in 0..(b - 1) /\ n = q * b + r
  BY DivMod
<1> HIDE DEF q, r
<1>2. SUFFICES ASSUME q >= m PROVE FALSE
  BY <1>1 DEF q
<1>3. q * b >= m * b
  BY <1>1, <1>2
<1>4. q * b \in Nat /\ m * b \in Nat
  BY <1>1
<1>5. QED
  BY <1>1, <1>3, <1>4

(* The powers of Base, up to IntValues. *)
LEMMA Powers ==
  \E power \in [0..Word -> Nat] :
    /\ power[0] = 1 /\ power[Word] = IntValues
    /\ \A i \in 1..Word : power[i] = power[i - 1] * Base
<1> DEFINE g == [i \in 1..Word |-> [x \in Nat |-> x * Base]]
           Is(f) == f = [i \in 0..Word |-> IF i = 0 THEN 1 ELSE f[i - 1] * Base]
           power == CHOOSE f : Is(f)
<1>1. Word \in Nat /\ Base \in Nat
  BY CodecAssumption DEF CodecAssumption
<1>2. g \in [1..Word -> [Nat -> Nat]]
  BY <1>1
<1>3. PICK f : Recurs(f, Word, Nat, 1, g)
  <2>1. g \in StepsOf(Word, Nat)
    BY <1>2 DEF StepsOf
  <2> HIDE DEF g
  <2>2. QED
    BY <1>1, <2>1, Recursion
<1>13. f \in [0..Word -> Nat] /\ f[0] = 1 /\ \A i \in 1..Word : f[i] = g[i][f[i - 1]]
  <2> HIDE DEF g
  <2>1. QED
    BY <1>3 DEF Recurs
<1>4. ASSUME NEW i \in 1..Word PROVE i - 1 \in 0..Word /\ f[i] = f[i - 1] * Base
  <2>1. i - 1 \in 0..Word /\ f[i - 1] \in Nat
    BY <1>1, <1>13
  <2>2. g[i][f[i - 1]] = f[i - 1] * Base
    BY <2>1
  <2>3. QED
    BY <1>13, <2>1, <2>2
<1>5. Is(f)
  BY <1>1, <1>13, <1>4
<1>6. Is(power)
  <2> HIDE DEF Is
  <2>1. QED
    BY <1>5
<1>7. IntValues = power[Word]
  BY DEF IntValues
<1> HIDE DEF power
<1>8. \A i \in 0..Word : power[i] = IF i = 0 THEN 1 ELSE power[i - 1] * Base
  BY <1>6
<1>9. power \in [0..Word -> Nat]
  <2> DEFINE P == {i \in 0..Word : power[i] \in Nat}
  <2>1. 0 \in P
    BY <1>1, <1>8
  <2>2. ASSUME NEW n \in 0..(Word - 1), n \in P PROVE n + 1 \in P
    <3>1. n + 1 \in 0..Word /\ n + 1 # 0 /\ (n + 1) - 1 = n
      BY <1>1
    <3>2. power[n + 1] = power[n] * Base
      BY <1>8, <3>1
    <3>3. QED
      BY <1>1, <2>2, <3>1, <3>2
  <2>3. \A i \in 0..Word : i \in P
    <3> HIDE DEF P
    <3>1. QED
      BY <1>1, <2>1, <2>2, Upwards
  <2>4. QED
    BY <1>6, <2>3
<1>10. 0 \in 0..Word /\ \A i \in 1..Word : i \in 0..Word /\ i # 0
  BY <1>1
<1>11. power[0] = 1 /\ \A i \in 1..Word : power[i] = power[i - 1] * Base
  BY <1>8, <1>10
<1>12. QED
  BY <1>7, <1>9, <1>11

(* The digits of a number, the lowest one first. *)
LEMMA Digits ==
  ASSUME NEW n \in Nat
  PROVE  \E rest \in [0..Word -> Nat] :
           /\ rest[0] = n /\ \A i \in 1..Word : rest[i] = rest[i - 1] \div Base
           /\ InMemory(n) = [i \in 1..Word |-> (rest[i - 1] % Base)]
<1> DEFINE g == [i \in 1..Word |-> [x \in Nat |-> x \div Base]]
           Is(f) == f = [i \in 0..Word |-> IF i = 0 THEN n ELSE f[i - 1] \div Base]
           rest == CHOOSE f : Is(f)
<1>1. Word \in Nat /\ Base \in Nat \ {0}
  BY CodecAssumption DEF CodecAssumption
<1>2. g \in [1..Word -> [Nat -> Nat]]
  <2>1. \A x \in Nat : x \div Base \in Nat
    BY <1>1, DivMod
  <2>2. QED
    BY <2>1
<1>3. PICK f : Recurs(f, Word, Nat, n, g)
  <2>1. g \in StepsOf(Word, Nat)
    BY <1>2 DEF StepsOf
  <2> HIDE DEF g
  <2>2. QED
    BY <1>1, <2>1, Recursion
<1>4. f \in [0..Word -> Nat] /\ f[0] = n /\ \A i \in 1..Word : f[i] = g[i][f[i - 1]]
  <2> HIDE DEF g
  <2>1. QED
    BY <1>3 DEF Recurs
<1>5. ASSUME NEW i \in 1..Word PROVE f[i] = f[i - 1] \div Base
  <2>1. i - 1 \in 0..Word /\ f[i - 1] \in Nat
    BY <1>1, <1>4
  <2>2. g[i][f[i - 1]] = f[i - 1] \div Base
    BY <2>1
  <2>3. QED
    BY <1>4, <2>1, <2>2
<1>6. Is(f)
  <2>1. \A i \in 0..Word : f[i] = IF i = 0 THEN n ELSE f[i - 1] \div Base
    BY <1>1, <1>4, <1>5
  <2>2. f = [i \in 0..Word |-> f[i]]
    BY <1>4
  <2>3. QED
    BY <2>1, <2>2
<1>7. Is(rest)
  <2> HIDE DEF Is
  <2>1. QED
    BY <1>6
<1>8. InMemory(n) = [i \in 1..Word |-> (rest[i - 1] % Base)]
  BY DEF InMemory
<1> HIDE DEF rest
<1>9. \A i \in 0..Word : rest[i] = IF i = 0 THEN n ELSE rest[i - 1] \div Base
  BY <1>7
<1>10. rest \in [0..Word -> Nat]
  <2> DEFINE P == {i \in 0..Word : rest[i] \in Nat}
  <2>1. 0 \in P
    BY <1>1, <1>9
  <2>2. ASSUME NEW k \in 0..(Word - 1), k \in P PROVE k + 1 \in P
    <3>1. k + 1 \in 0..Word /\ k + 1 # 0 /\ (k + 1) - 1 = k
      BY <1>1
    <3>2. rest[k + 1] = rest[k] \div Base /\ rest[k] \in Nat
      BY <1>9, <2>2, <3>1
    <3>3. rest[k] \div Base \in Nat
      BY <1>1, <3>2, DivMod
    <3>4. QED
      BY <3>1, <3>2, <3>3
  <2>3. \A i \in 0..Word : i \in P
    <3> HIDE DEF P
    <3>1. QED
      BY <1>1, <2>1, <2>2, Upwards
  <2>4. QED
    BY <1>7, <2>3
<1>11. 0 \in 0..Word /\ \A i \in 1..Word : i \in 0..Word /\ i # 0
  BY <1>1
<1>12. rest[0] = n /\ \A i \in 1..Word : rest[i] = rest[i - 1] \div Base
  BY <1>9, <1>11
<1>13. QED
  BY <1>8, <1>10, <1>12

(* The number that bytes of a word are, from the highest one on. *)
LEMMA Horner ==
  ASSUME NEW bytes \in [1..Word -> Nat]
  PROVE  \E upper \in [0..Word -> Nat] :
           /\ upper[0] = 0
           /\ \A i \in 1..Word : upper[i] = upper[i - 1] * Base + bytes[Word + 1 - i]
           /\ AsInt(bytes) = IF 2 * upper[Word] < IntValues THEN upper[Word]
                             ELSE upper[Word] - IntValues
<1> DEFINE g == [i \in 1..Word |-> [x \in Nat |-> x * Base + bytes[Word + 1 - i]]]
           Is(f) == f = [i \in 0..Word |-> IF i = 0 THEN 0
                                           ELSE f[i - 1] * Base + bytes[Word + 1 - i]]
           upper == CHOOSE f : Is(f)
<1>1. Word \in Nat /\ Base \in Nat
  BY CodecAssumption DEF CodecAssumption
<1>2. g \in [1..Word -> [Nat -> Nat]]
  <2>1. \A i \in 1..Word : bytes[Word + 1 - i] \in Nat
    <3>1. \A i \in 1..Word : Word + 1 - i \in 1..Word
      BY <1>1
    <3>2. QED
      BY <3>1
  <2>2. \A i \in 1..Word : \A x \in Nat : x * Base + bytes[Word + 1 - i] \in Nat
    BY <1>1, <2>1
  <2>3. QED
    BY <2>2
<1>3. PICK f : Recurs(f, Word, Nat, 0, g)
  <2>1. g \in StepsOf(Word, Nat)
    BY <1>2 DEF StepsOf
  <2> HIDE DEF g
  <2>2. QED
    BY <1>1, <2>1, Recursion
<1>4. f \in [0..Word -> Nat] /\ f[0] = 0 /\ \A i \in 1..Word : f[i] = g[i][f[i - 1]]
  <2> HIDE DEF g
  <2>1. QED
    BY <1>3 DEF Recurs
<1>5. ASSUME NEW i \in 1..Word PROVE f[i] = f[i - 1] * Base + bytes[Word + 1 - i]
  <2>1. i - 1 \in 0..Word /\ f[i - 1] \in Nat
    BY <1>1, <1>4
  <2>2. g[i][f[i - 1]] = f[i - 1] * Base + bytes[Word + 1 - i]
    BY <2>1
  <2>3. QED
    BY <1>4, <2>1, <2>2
<1>6. Is(f)
  <2>1. \A i \in 0..Word : f[i] = IF i = 0 THEN 0 ELSE f[i - 1] * Base + bytes[Word + 1 - i]
    BY <1>1, <1>4, <1>5
  <2>2. f = [i \in 0..Word |-> f[i]]
    BY <1>4
  <2>3. QED
    BY <2>1, <2>2
<1>7. Is(upper)
  <2> HIDE DEF Is
  <2>1. QED
    BY <1>6
<1>8. AsInt(bytes) = IF 2 * upper[Word] < IntValues THEN upper[Word] ELSE upper[Word] - IntValues
  BY DEF AsInt
<1> HIDE DEF upper
<1>9. \A i \in 0..Word : upper[i] = IF i = 0 THEN 0 ELSE upper[i - 1] * Base + bytes[Word + 1 - i]
  BY <1>7
<1>10. upper \in [0..Word -> Nat]
  <2> DEFINE P == {i \in 0..Word : upper[i] \in Nat}
  <2>1. 0 \in P
    BY <1>1, <1>9
  <2>2. ASSUME NEW k \in 0..(Word - 1), k \in P PROVE k + 1 \in P
    <3>1. k + 1 \in 0..Word /\ k + 1 # 0 /\ (k + 1) - 1 = k /\ Word + 1 - (k + 1) \in 1..Word
      BY <1>1
    <3>2. upper[k + 1] = upper[k] * Base + bytes[Word + 1 - (k + 1)]
      BY <1>9, <3>1
    <3>3. bytes[Word + 1 - (k + 1)] \in Nat /\ upper[k] \in Nat
      BY <2>2, <3>1
    <3> DEFINE d == bytes[Word + 1 - (k + 1)]
               u == upper[k]
    <3>4. d \in Nat /\ u \in Nat /\ upper[k + 1] = u * Base + d
      BY <3>2, <3>3
    <3> HIDE DEF d, u
    <3>5. u * Base + d \in Nat
      BY <1>1, <3>4
    <3>6. QED
      BY <3>1, <3>4, <3>5
  <2>3. \A i \in 0..Word : i \in P
    <3> HIDE DEF P
    <3>1. QED
      BY <1>1, <2>1, <2>2, Upwards
  <2>4. QED
    BY <1>7, <2>3
<1>11. 0 \in 0..Word /\ \A i \in 1..Word : i \in 0..Word /\ i # 0
  BY <1>1
<1>12. upper[0] = 0 /\ \A i \in 1..Word : upper[i] = upper[i - 1] * Base + bytes[Word + 1 - i]
  BY <1>9, <1>11
<1>13. QED
  BY <1>8, <1>10, <1>12

(* A number that an int can be is what its bytes say, in memory. *)
LEMMA MemoryRead ==
  ASSUME NEW n \in Nat, 2 * n < IntValues
  PROVE  /\ InMemory(n) \in [1..Word -> Byte] /\ InMemory(n) \in [1..Word -> Nat]
         /\ AsInt(InMemory(n)) = n
<1>1. Word \in Nat /\ Base \in Nat \ {0}
  BY CodecAssumption DEF CodecAssumption
<1>2. PICK rest \in [0..Word -> Nat] :
         /\ rest[0] = n /\ \A i \in 1..Word : rest[i] = rest[i - 1] \div Base
         /\ InMemory(n) = [i \in 1..Word |-> (rest[i - 1] % Base)]
  BY Digits
<1>3. ASSUME NEW i \in 1..Word
      PROVE  /\ i - 1 \in 0..Word /\ InMemory(n)[i] \in 0..(Base - 1)
             /\ InMemory(n)[i] = (rest[i - 1] % Base)
             /\ rest[i - 1] = rest[i] * Base + InMemory(n)[i]
  <2>1. i - 1 \in 0..Word /\ rest[i - 1] \in Nat
    BY <1>1, <1>2
  <2>2. InMemory(n)[i] = (rest[i - 1] % Base)
    BY <1>2
  <2>3. /\ (rest[i - 1] % Base) \in 0..(Base - 1)
        /\ rest[i - 1] = (rest[i - 1] \div Base) * Base + (rest[i - 1] % Base)
    BY <1>1, <2>1, DivMod
  <2>4. rest[i] = rest[i - 1] \div Base
    BY <1>2
  <2>5. QED
    BY <2>1, <2>2, <2>3, <2>4
<1>4. InMemory(n) \in [1..Word -> Byte] /\ InMemory(n) \in [1..Word -> Nat]
  <2> DEFINE memory == InMemory(n)
  <2>1. \A i \in 1..Word : memory[i] \in 0..(Base - 1)
    BY <1>3
  <2>2. memory = [i \in 1..Word |-> (rest[i - 1] % Base)]
    BY <1>2
  <2> HIDE DEF memory
  <2>3. memory = [i \in 1..Word |-> memory[i]]
    BY <2>2
  <2>4. 0..(Base - 1) \subseteq Nat
    BY <1>1
  <2>5. memory \in [1..Word -> 0..(Base - 1)] /\ memory \in [1..Word -> Nat]
    BY <2>1, <2>3, <2>4
  <2>6. QED
    BY <2>5 DEF memory, Byte
<1>5. PICK upper \in [0..Word -> Nat] :
         /\ upper[0] = 0
         /\ \A i \in 1..Word : upper[i] = upper[i - 1] * Base + InMemory(n)[Word + 1 - i]
         /\ AsInt(InMemory(n)) = IF 2 * upper[Word] < IntValues THEN upper[Word]
                                 ELSE upper[Word] - IntValues
  BY <1>4, Horner
<1>6. PICK power \in [0..Word -> Nat] :
         /\ power[0] = 1 /\ power[Word] = IntValues
         /\ \A i \in 1..Word : power[i] = power[i - 1] * Base
  BY Powers
<1>7. rest[Word] = 0
  <2> DEFINE P == {i \in 0..Word : rest[i] < power[Word - i]}
  <2>1. 0 \in P
    <3>1. n < IntValues
      <4>1. IntValues \in Nat
        BY <1>1, <1>6
      <4>2. QED
        BY <4>1
    <3>2. Word - 0 = Word /\ 0 \in 0..Word
      BY <1>1
    <3>3. QED
      BY <1>2, <1>6, <3>1, <3>2
  <2>2. ASSUME NEW k \in 0..(Word - 1), k \in P PROVE k + 1 \in P
    <3>1. /\ k + 1 \in 1..Word /\ k + 1 \in 0..Word /\ k \in 0..Word /\ (k + 1) - 1 = k
          /\ Word - k \in 1..Word /\ (Word - k) - 1 = Word - (k + 1) /\ Word - (k + 1) \in 0..Word
      BY <1>1
    <3>2. rest[k + 1] = rest[k] \div Base /\ rest[k] \in Nat
      BY <1>2, <3>1
    <3>3. power[Word - k] = power[Word - (k + 1)] * Base /\ power[Word - (k + 1)] \in Nat
      BY <1>6, <3>1
    <3>4. rest[k] < power[Word - (k + 1)] * Base
      BY <2>2, <3>3
    <3>5. rest[k] \div Base < power[Word - (k + 1)]
      BY <1>1, <3>2, <3>3, <3>4, DivLess
    <3>6. QED
      BY <3>1, <3>2, <3>5
  <2>3. \A i \in 0..Word : i \in P
    <3> HIDE DEF P
    <3>1. QED
      BY <1>1, <2>1, <2>2, Upwards
  <2>4. Word \in 0..Word /\ Word - Word = 0
    BY <1>1
  <2>5. rest[Word] < 1 /\ rest[Word] \in Nat
    BY <1>2, <1>6, <2>3, <2>4
  <2>6. QED
    BY <2>5
<1>8. upper[Word] = n
  <2> DEFINE P == {i \in 0..Word : upper[i] = rest[Word - i]}
  <2>1. 0 \in P
    BY <1>1, <1>5, <1>7
  <2>2. ASSUME NEW k \in 0..(Word - 1), k \in P PROVE k + 1 \in P
    <3>1. /\ k + 1 \in 1..Word /\ k + 1 \in 0..Word /\ (k + 1) - 1 = k
          /\ Word + 1 - (k + 1) = Word - k /\ Word - k \in 1..Word
          /\ (Word - k) - 1 = Word - (k + 1)
      BY <1>1
    <3>2. upper[k + 1] = upper[k] * Base + InMemory(n)[Word - k]
      BY <1>5, <3>1
    <3>3. rest[Word - (k + 1)] = rest[Word - k] * Base + InMemory(n)[Word - k]
      BY <1>3, <3>1
    <3>4. QED
      BY <2>2, <3>1, <3>2, <3>3
  <2>3. \A i \in 0..Word : i \in P
    <3> HIDE DEF P
    <3>1. QED
      BY <1>1, <2>1, <2>2, Upwards
  <2>4. Word \in 0..Word /\ Word - Word = 0
    BY <1>1
  <2>5. QED
    BY <1>2, <2>3, <2>4
<1>9. QED
  BY <1>4, <1>5, <1>8

(* The fields of a type are a list. *)
LEMMA WrittenFields ==
  ASSUME NEW t \in DOMAIN Written
  PROVE  Written[t] \in Seq(ToSet(Written[t]))
<1>1. CASE t \in {"PING_SET", "PONG_SET", "ACCOUNT_LIST", "TRAFFIC_MI",
                  "TRAFFIC_GET", "ACCOUNT_GET"}
  <2>1. Written[t] = [i \in 1..0 |-> Written[t][i]]
    BY <1>1 DEF Written
  <2>2. QED
    BY <2>1, IsASeq DEF ToSet
<1>2. CASE t \in {"MESSAGE_TO_SET_REPLY", "ACCOUNT_SET_REPLY", "ACCOUNT_DATA_SET_REPLY"}
  <2>1. Written[t] = [i \in 1..1 |-> Written[t][i]]
    BY <1>2 DEF Written
  <2>2. QED
    BY <2>1, IsASeq DEF ToSet
<1>3. CASE t \in {"ACCOUNT_LIST_REPLY", "TRAFFIC_GET_REPLY", "ACCOUNT_SET"}
  <2>1. Written[t] = [i \in 1..2 |-> Written[t][i]]
    BY <1>3 DEF Written
  <2>2. QED
    BY <2>1, IsASeq DEF ToSet
<1>8. CASE t \in {"ACCOUNT_LOGIN_REPLY", "ACCOUNT_EXISTS"}
  <2>1. Written[t] = [i \in 1..2 |-> Written[t][i]]
    BY <1>8 DEF Written
  <2>2. QED
    BY <2>1, IsASeq DEF ToSet
<1>9. CASE t = "ACCOUNT_EXISTS_REPLY"
  <2>1. Written[t] = [i \in 1..2 |-> Written[t][i]]
    BY <1>9 DEF Written
  <2>2. QED
    BY <2>1, IsASeq DEF ToSet
<1>10. CASE t = "VERSION_MISMATCH"
  <2>1. Written[t] = [i \in 1..2 |-> Written[t][i]]
    BY <1>10 DEF Written
  <2>2. QED
    BY <2>1, IsASeq DEF ToSet
<1>4. CASE t \in {"OFFLINE_SET", "ACCOUNT_LOGIN", "ACCOUNT_DATA_SET", "CLIENT_STOP_SET"}
  <2>1. Written[t] = [i \in 1..3 |-> Written[t][i]]
    BY <1>4 DEF Written
  <2>2. QED
    BY <2>1, IsASeq DEF ToSet
<1>5. CASE t \in {"MESSAGE_TO", "DEVICE_PAIR", "DEVICE_PAIR_REPLY"}
  <2>1. Written[t] = [i \in 1..4 |-> Written[t][i]]
    BY <1>5 DEF Written
  <2>2. QED
    BY <2>1, IsASeq DEF ToSet
<1>6. CASE t \in {"MESSAGE_FROM"}
  <2>1. Written[t] = [i \in 1..5 |-> Written[t][i]]
    BY <1>6 DEF Written
  <2>2. QED
    BY <2>1, IsASeq DEF ToSet
<1>7. QED
  BY <1>1, <1>2, <1>3, <1>4, <1>5, <1>6, <1>8, <1>9, <1>10 DEF Written

(* A type has a number that an int can be. *)
LEMMA NumberOfType ==
  ASSUME NEW t \in DOMAIN Written
  PROVE  /\ TypeNumber(t) \in Nat /\ TypeNumber(t) + 1 \in DOMAIN Types
         /\ Types[TypeNumber(t) + 1] = t /\ 2 * TypeNumber(t) < IntValues
<1>1. Len(Types) = 24 /\ DOMAIN Types = 1..24
  BY DEF Types
<1>2. \E i \in DOMAIN Types : Types[i] = t
  BY DEF Written, Types
<1> DEFINE i == CHOOSE i \in DOMAIN Types : Types[i] = t
<1>3. i \in DOMAIN Types /\ Types[i] = t
  BY <1>2
<1>4. TypeNumber(t) = i - 1
  BY DEF TypeNumber
<1> HIDE DEF i
<1>5. i \in 1..24
  BY <1>1, <1>3
<1>6. i - 1 \in Nat /\ (i - 1) + 1 = i /\ i - 1 < 24
  BY <1>5
<1>7. IntValues \in Nat
  <2>1. PICK power \in [0..Word -> Nat] : power[Word] = IntValues
    BY Powers
  <2>2. Word \in 0..Word
    BY CodecAssumption DEF CodecAssumption
  <2>3. QED
    BY <2>1, <2>2
<1>8. 2 * (i - 1) < IntValues
  BY <1>1, <1>6, <1>7, TypesAssumption DEF TypesAssumption
<1>9. QED
  BY <1>3, <1>4, <1>6, <1>8

LEMMA WordType == Word \in Nat \ {0, 1} /\ IntValues \in Nat /\ 2 * 24 < IntValues
<1>1. PICK power \in [0..Word -> Nat] : power[Word] = IntValues
  BY Powers
<1>2. Word \in 0..Word /\ Word \in Nat \ {0, 1}
  BY CodecAssumption DEF CodecAssumption
<1>3. Len(Types) = 24
  BY DEF Types
<1>4. QED
  BY <1>1, <1>2, <1>3, TypesAssumption DEF TypesAssumption

(* A word of memory holds a word of bytes. *)
LEMMA MemoryType ==
  ASSUME NEW n \in Nat
  PROVE  InMemory(n) \in [1..Word -> Byte]
<1>1. Word \in Nat /\ Base \in Nat \ {0}
  BY CodecAssumption DEF CodecAssumption
<1>2. PICK rest \in [0..Word -> Nat] : InMemory(n) = [i \in 1..Word |-> (rest[i - 1] % Base)]
  BY Digits
<1>3. ASSUME NEW i \in 1..Word PROVE (rest[i - 1] % Base) \in Byte
  <2>1. i - 1 \in 0..Word /\ rest[i - 1] \in Nat
    BY <1>1, <1>2
  <2>2. QED
    BY <1>1, <2>1, DivMod DEF Byte
<1> DEFINE memory == InMemory(n)
<1>4. memory = [i \in 1..Word |-> (rest[i - 1] % Base)]
  BY <1>2
<1> HIDE DEF memory
<1>5. \A i \in 1..Word : memory[i] \in Byte
  BY <1>3, <1>4
<1>6. memory = [i \in 1..Word |-> memory[i]]
  BY <1>4
<1>7. memory \in [1..Word -> Byte]
  BY <1>5, <1>6
<1>8. QED
  BY <1>7 DEF memory

(* The bytes of an int, the highest first. *)
LEMMA BigEndianProperties ==
  ASSUME NEW n \in Nat
  PROVE  /\ BigEndian(n) \in Seq(Byte) /\ Len(BigEndian(n)) = Word
         /\ \A i \in 1..Word : BigEndian(n)[i] = InMemory(n)[Word + 1 - i]
<1> DEFINE m == InMemory(n)
<1>1. m \in [1..Word -> Byte] /\ Word \in Nat
  BY MemoryType, WordType
<1> HIDE DEF m
<1>2. Len(m) = Word /\ m \in Seq(Byte)
  BY <1>1
<1>3. BigEndian(n) = [i \in 1..Word |-> m[(Word - i) + 1]]
  BY <1>2 DEF BigEndian, gc_swap_memory, Reverse, m
<1>4. \A i \in 1..Word : (Word - i) + 1 = Word + 1 - i /\ (Word - i) + 1 \in 1..Word
  BY <1>1
<1>5. \A i \in 1..Word : m[(Word - i) + 1] \in Byte
  BY <1>1, <1>4
<1>6. BigEndian(n) \in [1..Word -> Byte]
  BY <1>3, <1>5
<1>7. BigEndian(n) \in Seq(Byte) /\ Len(BigEndian(n)) = Word
  BY <1>1, <1>6
<1>8. ASSUME NEW i \in 1..Word PROVE BigEndian(n)[i] = m[Word + 1 - i]
  <2>1. BigEndian(n)[i] = m[(Word - i) + 1]
    BY <1>3
  <2>2. QED
    BY <1>4, <2>1
<1>9. QED
  BY <1>7, <1>8 DEF m

(* An int is read where its bytes are. *)
LEMMA IntRead ==
  ASSUME NEW s, NEW i \in Nat, NEW n \in Nat, 2 * n < IntValues,
         \A j \in 1..Word : i + j \in DOMAIN s /\ s[i + j] = BigEndian(n)[j]
  PROVE  IntAt(s, i) = n
<1> DEFINE b == Bytes(s, i, Word)
           m == InMemory(n)
<1>1. m \in [1..Word -> Byte] /\ Word \in Nat /\ AsInt(m) = n
  BY MemoryRead, WordType
<1>2. b = [j \in 1..Word |-> BigEndian(n)[j]]
  BY DEF Bytes
<1>3. \A j \in 1..Word : BigEndian(n)[j] = m[Word + 1 - j]
  BY BigEndianProperties
<1>4. b = [j \in 1..Word |-> m[Word + 1 - j]]
  BY <1>2, <1>3
<1> HIDE DEF b, m
<1>5. Len(b) = Word
  BY <1>1, <1>4
<1>6. Reverse(b) = [j \in 1..Word |-> b[(Word - j) + 1]]
  BY <1>5 DEF Reverse
<1>7. ASSUME NEW j \in 1..Word PROVE b[(Word - j) + 1] = m[j]
  <2>1. (Word - j) + 1 \in 1..Word /\ Word + 1 - ((Word - j) + 1) = j
    BY <1>1
  <2>2. QED
    BY <1>4, <2>1
<1>8. Reverse(b) = [j \in 1..Word |-> m[j]]
  BY <1>6, <1>7
<1>9. m = [j \in 1..Word |-> m[j]]
  BY <1>1
<1>10. Reverse(b) = m
  BY <1>8, <1>9
<1>11. QED
  BY <1>1, <1>10 DEF IntAt, gc_swap_memory, b

(* What add_intern() appends: the length of a field, and the field. *)
LEMMA InternProperties ==
  ASSUME NEW u \in Seq(Byte)
  PROVE  /\ add_intern(u) \in Seq(Byte) /\ Len(add_intern(u)) = Word + Len(u)
         /\ \A j \in 1..Word : add_intern(u)[j] = BigEndian(Len(u))[j]
         /\ \A j \in 1..Len(u) : add_intern(u)[Word + j] = u[j]
<1> DEFINE b == BigEndian(Len(u))
<1>1. Len(u) \in Nat /\ Word \in Nat
  BY WordType
<1>2. b \in Seq(Byte) /\ Len(b) = Word
  BY <1>1, BigEndianProperties
<1>3. add_intern(u) = b \o u
  BY DEF add_intern
<1> HIDE DEF b
<1>4. /\ b \o u \in Seq(Byte) /\ Len(b \o u) = Word + Len(u)
      /\ \A i \in 1..(Word + Len(u)) : (b \o u)[i] = IF i <= Word THEN b[i] ELSE u[i - Word]
  BY <1>2, ConcatProperties
<1>5. \A j \in 1..Word : j \in 1..(Word + Len(u)) /\ j <= Word
  BY <1>1
<1>6. \A j \in 1..Len(u) : Word + j \in 1..(Word + Len(u)) /\ ~(Word + j <= Word) /\ (Word + j) - Word = j
  BY <1>1
<1>7. QED
  BY <1>3, <1>4, <1>5, <1>6 DEF b

(* The fields of a packet, as they are appended. *)
Parts(p) == [k \in DOMAIN Written[p.type] |-> add_intern(p.u[Written[p.type][k]])]

(* What a packet is made of. *)
LEMMA PacketParts ==
  ASSUME NEW p, IsPacket(p)
  PROVE  /\ p.type \in DOMAIN Written
         /\ DOMAIN Written[p.type] = 1..Len(Written[p.type]) /\ Len(Written[p.type]) \in Nat
         /\ \A k \in 1..Len(Written[p.type]) :
              Written[p.type][k] \in ToSet(Written[p.type]) /\ p.u[Written[p.type][k]] \in Seq(Byte)
<1> DEFINE fields == Written[p.type]
<1>1. p.type \in DOMAIN Written /\ p.u \in [ToSet(fields) -> Seq(Byte)]
  BY DEF IsPacket
<1>2. fields \in Seq(ToSet(fields))
  BY <1>1, WrittenFields
<1> HIDE DEF fields
<1>3. DOMAIN fields = 1..Len(fields) /\ Len(fields) \in Nat
  BY <1>2
<1>4. \A k \in 1..Len(fields) : fields[k] \in ToSet(fields)
  BY <1>2
<1>5. QED
  BY <1>1, <1>3, <1>4 DEF fields

(* A packet as a string: its version, its type and its fields. *)
LEMMA Serialized ==
  ASSUME NEW p, IsPacket(p)
  PROVE  /\ Parts(p) \in Seq(Seq(Byte)) /\ Len(Parts(p)) = Len(Written[p.type])
         /\ gc_serialize(p) \in Seq(Byte)
         /\ Len(gc_serialize(p)) = 2 * Word + Len(FlattenSeq(Parts(p)))
         /\ \A j \in 1..Word : /\ gc_serialize(p)[j] = BigEndian(GCPROTO_VERSION)[j]
                               /\ gc_serialize(p)[Word + j] = BigEndian(TypeNumber(p.type))[j]
         /\ \A j \in 1..Len(FlattenSeq(Parts(p))) :
              gc_serialize(p)[2 * Word + j] = FlattenSeq(Parts(p))[j]
<1> DEFINE fields == Written[p.type]
           v == BigEndian(GCPROTO_VERSION)
           t == BigEndian(TypeNumber(p.type))
           f == FlattenSeq(Parts(p))
<1>1. /\ p.type \in DOMAIN Written
      /\ DOMAIN fields = 1..Len(fields) /\ Len(fields) \in Nat
      /\ \A k \in 1..Len(fields) : p.u[fields[k]] \in Seq(Byte)
  BY PacketParts
<1>2. Word \in Nat /\ IntValues \in Nat /\ 2 * 1 < IntValues
  BY WordType
<1>3. v \in Seq(Byte) /\ Len(v) = Word
  <2>1. v = BigEndian(1)
    BY DEF GCPROTO_VERSION
  <2>2. QED
    BY <1>2, <2>1, BigEndianProperties
<1>4. t \in Seq(Byte) /\ Len(t) = Word
  BY <1>1, NumberOfType, BigEndianProperties
<1>5. gc_serialize(p) = (v \o t) \o f
  BY DEF gc_serialize, Parts
<1>6. Parts(p) \in Seq(Seq(Byte)) /\ Len(Parts(p)) = Len(fields)
  <2>1. ASSUME NEW k \in 1..Len(fields) PROVE add_intern(p.u[fields[k]]) \in Seq(Byte)
    <3> DEFINE x == p.u[fields[k]]
    <3>1. x \in Seq(Byte)
      BY <1>1
    <3> HIDE DEF x
    <3>2. QED
      BY <3>1, InternProperties DEF x
  <2>2. Parts(p) = [k \in 1..Len(fields) |-> add_intern(p.u[fields[k]])]
    BY <1>1 DEF Parts
  <2> HIDE DEF fields
  <2>3. Parts(p) \in [1..Len(fields) -> Seq(Byte)]
    BY <2>1, <2>2
  <2>4. QED
    BY <1>1, <2>3
<1>7. f \in Seq(Byte) /\ Len(f) \in Nat
  <2>1. f \in Seq(Byte)
    BY <1>6, FlattenProperties
  <2>2. QED
    BY <2>1
<1> HIDE DEF v, t, f
<1> DEFINE h == v \o t
<1>8. /\ h \in Seq(Byte) /\ Len(h) = 2 * Word
      /\ \A j \in 1..Word : h[j] = v[j] /\ h[Word + j] = t[j]
  <2>3. /\ h \in Seq(Byte) /\ Len(h) = Len(v) + Len(t)
        /\ \A i \in 1..(Len(v) + Len(t)) : h[i] = IF i <= Len(v) THEN v[i] ELSE t[i - Len(v)]
    BY <1>3, <1>4, ConcatProperties
  <2> HIDE DEF h
  <2>1. /\ h \in Seq(Byte) /\ Len(h) = Word + Word
        /\ \A i \in 1..(Word + Word) : h[i] = IF i <= Word THEN v[i] ELSE t[i - Word]
    BY <1>3, <1>4, <2>3
  <2>2. \A j \in 1..Word : /\ j \in 1..(Word + Word) /\ Word + j \in 1..(Word + Word)
                           /\ ~(Word + j <= Word) /\ (Word + j) - Word = j /\ j <= Word
    BY <1>2
  <2>4. QED
    BY <1>2, <2>1, <2>2
<1> HIDE DEF h
<1> DEFINE s == h \o f
<1>9. /\ s \in Seq(Byte) /\ Len(s) = 2 * Word + Len(f)
      /\ \A i \in 1..(2 * Word + Len(f)) : s[i] = IF i <= 2 * Word THEN h[i] ELSE f[i - 2 * Word]
  BY <1>7, <1>8, ConcatProperties
<1> HIDE DEF s
<1>10. ASSUME NEW j \in 1..Word PROVE s[j] = v[j] /\ s[Word + j] = t[j]
  <2>1. /\ j \in 1..(2 * Word + Len(f)) /\ Word + j \in 1..(2 * Word + Len(f))
        /\ j <= 2 * Word /\ Word + j <= 2 * Word
    BY <1>2, <1>7
  <2>2. QED
    BY <1>8, <1>9, <2>1
<1>11. ASSUME NEW j \in 1..Len(f) PROVE s[2 * Word + j] = f[j]
  <2>1. /\ 2 * Word + j \in 1..(2 * Word + Len(f))
        /\ ~(2 * Word + j <= 2 * Word) /\ (2 * Word + j) - 2 * Word = j
    BY <1>2, <1>7
  <2>2. QED
    BY <1>9, <2>1
<1>12. gc_serialize(p) = s
  BY <1>5 DEF s, h
<1>13. QED
  BY <1>6, <1>9, <1>10, <1>11, <1>12 DEF v, t, f

(* The field k of a packet is in its string, behind its length. *)
FieldIn(p, off, k) ==
  LET src == gc_serialize(p)
      u   == p.u[Written[p.type][k]]
      b   == 2 * Word + off[k - 1]
  IN /\ b \in Nat /\ off[k - 1] \in Nat /\ off[k] \in Nat /\ 2 * Len(u) < IntValues
     /\ off[k] = off[k - 1] + Word + Len(u) /\ 2 * Word + off[k] <= Len(src)
     /\ IntAt(src, b) = Len(u)
     /\ \A j \in 1..Len(u) : b + Word + j \in DOMAIN src /\ src[b + Word + j] = u[j]

(* Every one is. *)
LEMMA FieldsInString ==
  ASSUME NEW p, IsPacket(p), NEW off, Begins(Parts(p), off), NEW k \in 1..Len(Written[p.type])
  PROVE  FieldIn(p, off, k)
<1> DEFINE src == gc_serialize(p)
           parts == Parts(p)
           n == Len(Written[p.type])
           u == p.u[Written[p.type][k]]
           b == 2 * Word + off[k - 1]
           f == FlattenSeq(parts)
<1>1. /\ parts \in Seq(Seq(Byte)) /\ Len(parts) = n /\ src \in Seq(Byte)
      /\ Len(src) = 2 * Word + Len(f) /\ \A j \in 1..Len(f) : src[2 * Word + j] = f[j]
  BY Serialized
<1>2. /\ n \in Nat /\ k \in 1..n /\ Word \in Nat /\ IntValues \in Nat
      /\ u \in Seq(Byte) /\ Len(u) \in Nat
  <2>1. u \in Seq(Byte) /\ n \in Nat
    BY PacketParts
  <2>2. QED
    BY <2>1, WordType
<1>3. parts[k] = add_intern(u)
  BY <1>2, PacketParts DEF Parts
<1>4. /\ f \in Seq(Byte) /\ Len(f) = off[n]
      /\ \A j \in 1..Len(parts[k]) : off[k - 1] + j \in 1..Len(f) /\ f[off[k - 1] + j] = parts[k][j]
  <2>1. Begins(parts, off)
    OBVIOUS
  <2>2. parts \in Seq(Seq(Byte)) /\ Len(parts) = n
    BY <1>1
  <2> HIDE DEF parts
  <2>3. /\ f \in Seq(Byte) /\ Len(f) = off[Len(parts)]
        /\ \A i \in 1..Len(parts) : \A j \in 1..Len(parts[i]) :
             off[i - 1] + j \in 1..Len(f) /\ f[off[i - 1] + j] = parts[i][j]
    BY <2>1, <2>2, FlattenAt
  <2>4. QED
    BY <1>2, <2>2, <2>3
<1>5. off[k] <= off[n] /\ off[n] \in Nat /\ off[k] \in Nat /\ off[k - 1] \in Nat
  <2>1. k \in 0..n /\ n \in 0..n /\ k - 1 \in 0..n /\ k <= n /\ k - 1 <= n
    BY <1>2
  <2>2. QED
    BY <1>1, <2>1, BeginsOrdered
<1>6. off[k] = off[k - 1] + Len(parts[k])
  BY <1>1 DEF Begins
<1>7. 2 * Len(src) < IntValues
  BY DEF IsPacket
<1> HIDE DEF src, parts, u, f, n
<1>12. /\ Len(parts[k]) = Word + Len(u)
       /\ \A j \in 1..Word : parts[k][j] = BigEndian(Len(u))[j]
       /\ \A j \in 1..Len(u) : parts[k][Word + j] = u[j]
  BY <1>2, <1>3, InternProperties
<1>9. Len(u) <= off[k]
  BY <1>2, <1>5, <1>6, <1>12
<1>10. Len(src) = 2 * Word + off[n] /\ Len(src) \in Nat /\ DOMAIN src = 1..Len(src)
  BY <1>1, <1>2, <1>4, <1>5
<1>11. 2 * Len(u) < IntValues
  BY <1>2, <1>5, <1>7, <1>9, <1>10
<1>13. ASSUME NEW j \in 1..(Word + Len(u))
       PROVE  b + j \in DOMAIN src /\ src[b + j] = parts[k][j]
  <2>1. j \in 1..Len(parts[k])
    BY <1>12
  <2>2. off[k - 1] + j \in 1..Len(f) /\ f[off[k - 1] + j] = parts[k][j]
    BY <1>4, <2>1
  <2>3. src[2 * Word + (off[k - 1] + j)] = f[off[k - 1] + j]
    BY <1>1, <2>2
  <2>4. 2 * Word + (off[k - 1] + j) = b + j /\ b + j \in 1..Len(src)
    <3> DEFINE o == off[k - 1]
               x == o + j
    <3>1. o \in Nat /\ 2 * Word + x = b + j
      BY <1>2, <1>5
    <3>2. x \in 1..Len(f) /\ Len(f) \in Nat
      BY <1>4, <2>2
    <3> HIDE DEF x, o
    <3>3. 2 * Word + x \in 1..Len(src)
      BY <1>1, <1>2, <3>2
    <3>4. QED
      BY <3>1, <3>3 DEF x, o
  <2>5. QED
    BY <1>10, <2>2, <2>3, <2>4
<1>14. IntAt(src, b) = Len(u)
  <2>1. ASSUME NEW j \in 1..Word PROVE b + j \in DOMAIN src /\ src[b + j] = BigEndian(Len(u))[j]
    <3>1. j \in 1..(Word + Len(u))
      BY <1>2
    <3>2. QED
      BY <1>12, <1>13, <3>1
  <2>2. b \in Nat
    BY <1>2, <1>5
  <2> HIDE DEF b
  <2>3. QED
    BY <1>2, <1>11, <2>1, <2>2, IntRead
<1>15. ASSUME NEW j \in 1..Len(u) PROVE b + Word + j \in DOMAIN src /\ src[b + Word + j] = u[j]
  <2>1. Word + j \in 1..(Word + Len(u)) /\ b + (Word + j) = b + Word + j
    BY <1>2, <1>5
  <2>2. parts[k][Word + j] = u[j]
    BY <1>12
  <2>3. b + (Word + j) \in DOMAIN src /\ src[b + (Word + j)] = parts[k][Word + j]
    BY <1>13, <2>1
  <2>4. QED
    BY <2>1, <2>2, <2>3
<1>16. off[k] = off[k - 1] + Word + Len(u)
  BY <1>2, <1>5, <1>6, <1>12
<1>17. b \in Nat /\ 2 * Word + off[k] <= Len(src)
  BY <1>2, <1>5, <1>10
<1>18. QED
  BY <1>5, <1>11, <1>14, <1>15, <1>16, <1>17 DEF src, u, b, FieldIn

(* The offsets that reading a packet goes through are those of its fields. *)
LEMMA OffsetsRead ==
  ASSUME NEW p, IsPacket(p), NEW off, Begins(Parts(p), off)
  PROVE  \A k \in 0..Len(Written[p.type]) :
           Offsets(gc_serialize(p), 2 * Word, Len(Written[p.type]))[k] = 2 * Word + off[k]
<1> DEFINE src == gc_serialize(p)
           n == Len(Written[p.type])
           Is(f) == f = [k \in 0..n |-> IF k = 0 THEN 2 * Word ELSE get_intern(src, f[k - 1])]
           offset == CHOOSE f : Is(f)
           g == [k \in 0..n |-> 2 * Word + off[k]]
<1>1. n \in Nat /\ Word \in Nat /\ off \in [0..n -> Nat] /\ off[0] = 0
  BY PacketParts, WordType, Serialized DEF Begins
<1>2. ASSUME NEW k \in 1..n
      PROVE  get_intern(src, 2 * Word + off[k - 1]) = 2 * Word + off[k]
  <2>1. /\ off[k - 1] \in Nat /\ off[k] \in Nat /\ Len(p.u[Written[p.type][k]]) \in Nat
        /\ off[k] = off[k - 1] + Word + Len(p.u[Written[p.type][k]])
        /\ IntAt(src, 2 * Word + off[k - 1]) = Len(p.u[Written[p.type][k]])
    <3>1. p.u[Written[p.type][k]] \in Seq(Byte)
      BY PacketParts
    <3>2. QED
      BY <3>1, FieldsInString DEF FieldIn
  <2> DEFINE a == off[k - 1]
             l == Len(p.u[Written[p.type][k]])
  <2>2. get_intern(src, 2 * Word + a) = (2 * Word + a) + Word + l
    BY <2>1 DEF get_intern
  <2>3. a \in Nat /\ l \in Nat /\ off[k] = a + Word + l
    BY <2>1
  <2> HIDE DEF a, l
  <2>4. get_intern(src, 2 * Word + a) = 2 * Word + off[k]
    BY <1>1, <2>2, <2>3
  <2>5. QED
    BY <2>4 DEF a
<1> HIDE DEF src, n
<1>3. Is(g)
  <2>1. ASSUME NEW k \in 0..n
        PROVE  g[k] = IF k = 0 THEN 2 * Word ELSE get_intern(src, g[k - 1])
    <3>1. CASE k = 0
      BY <1>1, <3>1
    <3>2. CASE k # 0
      <4>1. k \in 1..n /\ k - 1 \in 0..n
        BY <1>1, <3>2
      <4>2. g[k - 1] = 2 * Word + off[k - 1] /\ g[k] = 2 * Word + off[k]
        BY <4>1
      <4>3. QED
        BY <1>2, <3>2, <4>1, <4>2
    <3>3. QED
      BY <3>1, <3>2
  <2>2. g = [k \in 0..n |-> g[k]]
    OBVIOUS
  <2> HIDE DEF g
  <2>3. QED
    BY <2>1, <2>2
<1>4. Is(offset)
  <2> HIDE DEF Is, g
  <2>1. QED
    BY <1>3
<1>5. Offsets(src, 2 * Word, n) = offset
  BY DEF Offsets
<1> HIDE DEF offset
<1>6. \A k \in 0..n : offset[k] = IF k = 0 THEN 2 * Word ELSE get_intern(src, offset[k - 1])
  BY <1>4
<1> DEFINE P == {k \in 0..n : offset[k] = 2 * Word + off[k]}
<1>7. 0 \in P
  BY <1>1, <1>6
<1>8. ASSUME NEW k \in 0..(n - 1), k \in P PROVE k + 1 \in P
  <2>1. k + 1 \in 0..n /\ k + 1 \in 1..n /\ k + 1 # 0 /\ (k + 1) - 1 = k
    BY <1>1
  <2>2. offset[k + 1] = get_intern(src, offset[k])
    BY <1>6, <2>1
  <2>3. get_intern(src, 2 * Word + off[k]) = 2 * Word + off[k + 1]
    BY <1>2, <2>1
  <2>4. QED
    BY <1>8, <2>1, <2>2, <2>3
<1>9. \A k \in 0..n : k \in P
  <2> HIDE DEF P
  <2>1. QED
    BY <1>1, <1>7, <1>8, Upwards
<1>10. QED
  BY <1>5, <1>9 DEF src, n

(* A field has a place among the fields. *)
LEMMA PlaceOf ==
  ASSUME NEW fields, NEW f \in ToSet(fields)
  PROVE  Place(fields, f) \in DOMAIN fields /\ fields[Place(fields, f)] = f
<1>1. \E k \in DOMAIN fields : fields[k] = f
  BY DEF ToSet
<1>2. QED
  BY <1>1 DEF Place

(* gc_deserialize() reads back what gc_serialize() wrote: the type, every  *)
(* field, and where in the string the field is.                            *)
THEOREM ReadBack ==
  ASSUME NEW p, IsPacket(p), NEW off, Begins(Parts(p), off)
  PROVE  LET got1 == gc_deserialize(gc_serialize(p))
         IN /\ got1.ok /\ got1.type = p.type /\ got1.u = p.u
            /\ \A f \in ToSet(Written[p.type]) :
                 got1.at[f] = 2 * Word + off[Place(Written[p.type], f) - 1] + Word
<1> DEFINE src == gc_serialize(p)
           fields == Written[p.type]
           n == Len(fields)
           offset == Offsets(src, 2 * Word, n)
           Before(f) == offset[Place(fields, f) - 1]
           u == [f \in ToSet(fields) |-> Bytes(src, Before(f) + Word, IntAt(src, Before(f)))]
           at == [f \in ToSet(fields) |-> Before(f) + Word]
<1>1. /\ p.type \in DOMAIN Written /\ n \in Nat /\ DOMAIN fields = 1..n /\ Word \in Nat
      /\ p.u \in [ToSet(fields) -> Seq(Byte)]
  BY PacketParts, WordType DEF IsPacket
<1>2. /\ src \in Seq(Byte) /\ Len(src) = 2 * Word + Len(FlattenSeq(Parts(p)))
      /\ Len(FlattenSeq(Parts(p))) \in Nat
      /\ \A j \in 1..Word : /\ src[j] = BigEndian(GCPROTO_VERSION)[j]
                            /\ src[Word + j] = BigEndian(TypeNumber(p.type))[j]
  <2>1. FlattenSeq(Parts(p)) \in Seq(Byte)
    BY Serialized, FlattenProperties
  <2>2. QED
    BY <2>1, Serialized
<1>3. 2 * Word <= Len(src) /\ DOMAIN src = 1..Len(src) /\ Len(src) \in Nat
  <2>1. Len(src) \in Nat /\ DOMAIN src = 1..Len(src)
    BY <1>2
  <2>2. QED
    BY <1>1, <1>2, <2>1
<1> HIDE DEF src
<1>4. IntAt(src, 0) = GCPROTO_VERSION
  <2>1. \A j \in 1..Word : 0 + j \in DOMAIN src /\ src[0 + j] = BigEndian(1)[j]
    <3>1. \A j \in 1..Word : 0 + j = j /\ j \in 1..Len(src)
      BY <1>1, <1>3
    <3>2. QED
      BY <1>2, <1>3, <3>1 DEF GCPROTO_VERSION
  <2>2. 2 * 1 < IntValues
    BY WordType
  <2>3. IntAt(src, 0) = 1
    BY <2>1, <2>2, IntRead
  <2>4. QED
    BY <2>3 DEF GCPROTO_VERSION
<1>5. IntAt(src, Word) = TypeNumber(p.type)
  <2>1. \A j \in 1..Word : Word + j \in DOMAIN src
    BY <1>1, <1>3
  <2>2. QED
    BY <1>1, <1>2, <2>1, NumberOfType, IntRead
<1>6. /\ IntAt(src, Word) + 1 \in DOMAIN Types /\ Types[IntAt(src, Word) + 1] = p.type
      /\ Taken[p.type] = fields
  BY <1>1, <1>5, NumberOfType DEF Taken, Written
<1>7. \A k \in 0..n : offset[k] = 2 * Word + off[k]
  BY OffsetsRead DEF src
<1> HIDE DEF offset, fields, n
<1>8. ASSUME NEW k \in 1..n
      PROVE  /\ offset[k - 1] = 2 * Word + off[k - 1] /\ offset[k - 1] \in Nat
             /\ offset[k - 1] + Word <= Len(src)
             /\ IntAt(src, offset[k - 1]) = Len(p.u[fields[k]])
             /\ \A j \in 1..Len(p.u[fields[k]]) :
                  /\ offset[k - 1] + Word + j \in DOMAIN src
                  /\ src[offset[k - 1] + Word + j] = p.u[fields[k]][j]
  <2>1. k - 1 \in 0..n
    BY <1>1
  <2>2. offset[k - 1] = 2 * Word + off[k - 1]
    BY <1>7, <2>1
  <2>3. /\ 2 * Word + off[k - 1] \in Nat /\ off[k - 1] \in Nat /\ off[k] \in Nat
        /\ off[k] = off[k - 1] + Word + Len(p.u[fields[k]]) /\ 2 * Word + off[k] <= Len(src)
        /\ IntAt(src, 2 * Word + off[k - 1]) = Len(p.u[fields[k]])
        /\ \A j \in 1..Len(p.u[fields[k]]) :
             /\ 2 * Word + off[k - 1] + Word + j \in DOMAIN src
             /\ src[2 * Word + off[k - 1] + Word + j] = p.u[fields[k]][j]
    <3>1. k \in 1..Len(Written[p.type])
      BY DEF n, fields
    <3>2. FieldIn(p, off, k)
      BY <3>1, FieldsInString
    <3>3. QED
      BY <3>2 DEF src, fields, FieldIn
  <2>4. Len(p.u[fields[k]]) \in Nat
    <3>1. p.u[fields[k]] \in Seq(Byte)
      BY PacketParts DEF fields, n
    <3>2. QED
      BY <3>1
  <2>5. 2 * Word + off[k - 1] + Word <= Len(src)
    <3> DEFINE a == off[k - 1]
               l == Len(p.u[fields[k]])
    <3>1. a \in Nat /\ l \in Nat /\ off[k] = a + Word + l /\ 2 * Word + off[k] <= Len(src)
      BY <2>3, <2>4
    <3> HIDE DEF a, l
    <3>2. 2 * Word + a + Word <= Len(src)
      BY <1>1, <1>3, <3>1
    <3>3. QED
      BY <3>2 DEF a
  <2>6. QED
    BY <2>2, <2>3, <2>5
<1>9. ~ \E k \in DOMAIN fields : offset[k - 1] + Word > Len(src)
  <2>1. ASSUME NEW k \in 1..n PROVE ~(offset[k - 1] + Word > Len(src))
    <3> DEFINE a == offset[k - 1]
    <3>1. a \in Nat /\ a + Word <= Len(src)
      BY <1>8
    <3> HIDE DEF a
    <3>2. ~(a + Word > Len(src))
      BY <1>1, <1>3, <3>1
    <3>3. QED
      BY <3>2 DEF a
  <2>2. QED
    BY <1>1, <2>1
<1>10. ~(2 * Word > Len(src))
  BY <1>1, <1>3
<1>11. gc_deserialize(src) = [ok |-> TRUE, type |-> p.type, u |-> u, at |-> at]
  BY <1>4, <1>6, <1>9, <1>10 DEF gc_deserialize, offset, n
<1>12. ASSUME NEW f \in ToSet(fields)
       PROVE  /\ Before(f) = 2 * Word + off[Place(fields, f) - 1]
              /\ Bytes(src, Before(f) + Word, IntAt(src, Before(f))) = p.u[f]
  <2> DEFINE k == Place(fields, f)
             s == p.u[f]
  <2>1. k \in 1..n /\ fields[k] = f
    BY <1>1, PlaceOf
  <2>2. s \in Seq(Byte)
    BY <1>1
  <2> HIDE DEF k, s
  <2>3. /\ offset[k - 1] = 2 * Word + off[k - 1]
        /\ IntAt(src, offset[k - 1]) = Len(s)
        /\ \A j \in 1..Len(s) : /\ offset[k - 1] + Word + j \in DOMAIN src
                                /\ src[offset[k - 1] + Word + j] = s[j]
    BY <1>8, <2>1 DEF s
  <2>4. Bytes(src, offset[k - 1] + Word, Len(s)) = [j \in 1..Len(s) |-> s[j]]
    BY <2>3 DEF Bytes
  <2>5. s = [j \in 1..Len(s) |-> s[j]]
    BY <2>2
  <2>6. QED
    BY <2>3, <2>4, <2>5 DEF k, s
<1>13. u = p.u
  <2>1. u = [f \in ToSet(fields) |-> p.u[f]]
    BY <1>12
  <2>2. p.u = [f \in ToSet(fields) |-> p.u[f]]
    BY <1>1
  <2>3. QED
    BY <2>1, <2>2
<1>14. ASSUME NEW f \in ToSet(fields) PROVE at[f] = 2 * Word + off[Place(fields, f) - 1] + Word
  <2>1. at[f] = Before(f) + Word
    OBVIOUS
  <2>2. QED
    BY <1>12, <2>1
<1> HIDE DEF u, at
<1>15. QED
  BY <1>11, <1>13, <1>14 DEF src, fields
-----------------------------------------------------------------------------
(* What is appended for a packet: its length, and its string. *)
LEMMA FrameProperties ==
  ASSUME NEW p \in Packets
  PROVE  LET frame == Frame[p]
             src   == gc_serialize(p)
         IN /\ frame \in Seq(Byte) /\ src \in Seq(Byte)
            /\ Len(src) >= 2 * Word /\ 2 * Len(src) < IntValues /\ Len(frame) = Word + Len(src)
            /\ \A j \in 1..Word : frame[j] = BigEndian(Len(src))[j]
            /\ \A j \in 1..Len(src) : frame[Word + j] = src[j]
<1> DEFINE src == gc_serialize(p)
           b == BigEndian(Len(src))
<1>1. IsPacket(p)
  BY WireAssumption DEF WireAssumption
<1>2. /\ src \in Seq(Byte) /\ Len(src) = 2 * Word + Len(FlattenSeq(Parts(p)))
      /\ FlattenSeq(Parts(p)) \in Seq(Byte)
  BY <1>1, Serialized, FlattenProperties
<1>3. /\ Word \in Nat /\ Len(FlattenSeq(Parts(p))) \in Nat /\ Len(src) \in Nat
      /\ 2 * Len(src) < IntValues
  BY <1>1, <1>2, WordType DEF IsPacket
<1>4. Len(src) >= 2 * Word
  BY <1>2, <1>3
<1>5. Frame[p] = add_intern(src)
  BY DEF Frame, net_send, add_intern
<1> HIDE DEF src
<1>6. /\ add_intern(src) \in Seq(Byte) /\ Len(add_intern(src)) = Word + Len(src)
      /\ \A j \in 1..Word : add_intern(src)[j] = BigEndian(Len(src))[j]
      /\ \A j \in 1..Len(src) : add_intern(src)[Word + j] = src[j]
  BY <1>2, InternProperties
<1>7. QED
  BY <1>2, <1>3, <1>4, <1>5, <1>6 DEF src

(* The length of a packet is read from the beginning of it. *)
LEMMA LengthRead ==
  ASSUME NEW p \in Packets, NEW buf, NEW n \in Nat, n >= Word, n <= Len(Frame[p]),
         DOMAIN buf = 1..n, \A j \in 1..n : buf[j] = Frame[p][j]
  PROVE  IntAt(buf, 0) + Word = Len(Frame[p])
<1> DEFINE src == gc_serialize(p)
<1>1. /\ src \in Seq(Byte) /\ 2 * Len(src) < IntValues /\ Len(Frame[p]) = Word + Len(src)
      /\ \A j \in 1..Word : Frame[p][j] = BigEndian(Len(src))[j]
  BY FrameProperties
<1> HIDE DEF src
<1>2. Len(src) \in Nat /\ Word \in Nat
  BY <1>1, WordType
<1>3. \A j \in 1..Word : 0 + j \in DOMAIN buf /\ buf[0 + j] = BigEndian(Len(src))[j]
  <2>1. \A j \in 1..Word : 0 + j = j /\ j \in 1..n
    BY <1>2
  <2>2. QED
    BY <1>1, <2>1
<1>4. IntAt(buf, 0) = Len(src)
  BY <1>1, <1>2, <1>3, IntRead
<1>5. QED
  BY <1>1, <1>2, <1>4

(* What follows the length is the packet. *)
LEMMA BodyOfFrame ==
  ASSUME NEW p \in Packets
  PROVE  SubSeq(Frame[p], Word + 1, Len(Frame[p])) = gc_serialize(p)
<1> DEFINE src == gc_serialize(p)
           frame == Frame[p]
           b == SubSeq(frame, Word + 1, Len(frame))
<1>1. /\ frame \in Seq(Byte) /\ src \in Seq(Byte) /\ Len(frame) = Word + Len(src)
      /\ \A j \in 1..Len(src) : frame[Word + j] = src[j]
  BY FrameProperties
<1> HIDE DEF src, frame
<1>2. Word \in Nat /\ Len(src) \in Nat /\ Len(frame) \in Nat
  BY <1>1, WordType
<1>3. b \in Seq(Byte) /\ Len(b) = Len(src) /\ \A i \in 1..Len(src) : b[i] = frame[Word + i]
  <2>1. ASSUME NEW i \in (Word + 1)..Len(frame) PROVE frame[i] \in Byte
    <3>1. i \in 1..Len(frame)
      BY <1>2
    <3>2. QED
      BY <1>1, <3>1
  <2>2. /\ b \in Seq(Byte)
        /\ Len(b) = IF Word + 1 <= Len(frame) THEN Len(frame) - (Word + 1) + 1 ELSE 0
        /\ \A i \in 1..(Len(frame) - (Word + 1) + 1) : b[i] = frame[(Word + 1) + i - 1]
    BY <1>2, <2>1, SubSeqProperties
  <2> HIDE DEF b
  <2>3. Len(frame) - (Word + 1) + 1 = Len(src)
    BY <1>1, <1>2
  <2>4. Len(b) = Len(src)
    BY <1>1, <1>2, <2>2, <2>3
  <2>5. \A i \in 1..Len(src) : (Word + 1) + i - 1 = Word + i
    BY <1>2
  <2>6. QED
    BY <2>2, <2>3, <2>4, <2>5
<1> HIDE DEF b
<1>4. b = src
  BY <1>1, <1>3, SeqEqual
<1>5. QED
  BY <1>4 DEF b, src, frame

-----------------------------------------------------------------------------
Frames == [i \in DOMAIN sent |-> Frame[sent[i]]]

(* A place in the stream of packets: how much of which packet is before it. *)
Cursor == [k : Nat, at : Nat]

Reader == [k |-> Len(data) + 1, at |-> Len(recv.buf)]

Writer == [k  |-> (Len(sent) - Len(send)) + 1,
           at |-> IF send = <<>> THEN 0 ELSE Head(send).sent]

(* The place behind n bytes from a place within a packet. *)
Moved(frames, c, n) == IF c.at + n = Len(frames[c.k]) THEN [k |-> c.k + 1, at |-> 0]
                       ELSE [k |-> c.k, at |-> c.at + n]

(* A record is a part of one packet. *)
PartAt(frames, c, r) == /\ c.k \in 1..Len(frames) /\ c.at + Len(r) <= Len(frames[c.k])
                        /\ r = SubSeq(frames[c.k], c.at + 1, c.at + Len(r))

(* The records under way lead from the reader to the writer. *)
Leading(c) ==
  /\ c \in Seq(Cursor) /\ Len(c) = Len(flight) + 1
  /\ c[1] = Reader /\ c[Len(flight) + 1] = Writer
  /\ \A j \in 1..Len(flight) : /\ PartAt(Frames, c[j], flight[j])
                               /\ c[j + 1] = Moved(Frames, c[j], Len(flight[j]))

WireType == /\ kind \in {"tcp", "ssl"} /\ sent \in Seq(Packets)
            /\ flight \in Seq(Seq(Byte)) /\ data \in Seq(Seq(Byte))
            /\ recv \in [buf : Seq(Byte), target : Int]

(* A connection that is not of packets, or was closed, has none under way. *)
Idle == /\ kind = "tcp" => sent = <<>> /\ data = <<>> /\ recv = NothingRead
        /\ kind = "tcp" \/ closed => flight = <<>>

(* What was read is whole packets, and the beginning of one. *)
Received ==
  /\ Len(data) <= Len(sent)
  /\ \A i \in 1..Len(data) : data[i] = Frames[i]
  /\ Len(data) = Len(sent) => recv.buf = <<>>
  /\ Len(data) < Len(sent) => /\ Len(recv.buf) < Len(Frames[Len(data) + 1])
                              /\ recv.buf = SubSeq(Frames[Len(data) + 1], 1, Len(recv.buf))
  /\ recv.target = IF Len(recv.buf) > 2 * Word THEN Len(Frames[Len(data) + 1]) ELSE 0

(* The slots are the packets that were not written out. *)
SlotsArePackets ==
  /\ Len(send) <= Len(sent)
  /\ \A j \in 1..Len(send) : send[j].len = Len(Frames[(Len(sent) - Len(send)) + j])

(* As many bytes were written out as come before the writer's place. *)
WrittenOut == \E off : Begins(Frames, off) /\ Len(wire) = off[Writer.k - 1] + Writer.at

PacketInv == /\ WireType /\ Idle /\ Received
             /\ kind = "ssl" /\ ~closed => SlotsArePackets /\ WrittenOut /\ \E c : Leading(c)

WireInv == QueueInv /\ PacketInv

(* The packets as they are appended are strings of bytes. *)
LEMMA FramesType ==
  ASSUME sent \in Seq(Packets)
  PROVE  /\ Frames \in Seq(Seq(Byte)) /\ Len(Frames) = Len(sent) /\ Len(sent) \in Nat
         /\ \A i \in 1..Len(sent) : /\ sent[i] \in Packets /\ Frames[i] = Frame[sent[i]]
                                    /\ Frames[i] \in Seq(Byte) /\ Len(Frames[i]) \in Nat
                                    /\ Len(Frames[i]) >= 3 * Word
<1>1. Len(sent) \in Nat /\ DOMAIN sent = 1..Len(sent) /\ \A i \in 1..Len(sent) : sent[i] \in Packets
  OBVIOUS
<1>2. Frames = [i \in 1..Len(sent) |-> Frame[sent[i]]]
  BY <1>1 DEF Frames
<1>3. ASSUME NEW p \in Packets
      PROVE  Frame[p] \in Seq(Byte) /\ Len(Frame[p]) \in Nat /\ Len(Frame[p]) >= 3 * Word
  <2> DEFINE src == gc_serialize(p)
  <2>1. /\ Frame[p] \in Seq(Byte) /\ src \in Seq(Byte) /\ Len(src) >= 2 * Word
        /\ Len(Frame[p]) = Word + Len(src)
    BY FrameProperties
  <2> HIDE DEF src
  <2>2. QED
    BY <2>1, WordType
<1>4. Frames \in [1..Len(sent) -> Seq(Byte)]
  BY <1>1, <1>2, <1>3
<1>5. Frames \in Seq(Seq(Byte)) /\ Len(Frames) = Len(sent)
  BY <1>1, <1>4
<1>6. QED
  BY <1>1, <1>2, <1>3, <1>5

(* A new connection finds an empty list. *)
LEMMA ConnectCorrect ==
  ASSUME QueueInv, upstream_connect
  PROVE  QueueInv'
<1>1. /\ send' = <<>> /\ watching' = FALSE /\ closed' = FALSE /\ total' = 0 /\ wire' = <<>>
      /\ gc_sigterm' = gc_sigterm
  BY DEF upstream_connect
<1>2. TypeOK'
  <2>1. <<>> \in Seq(Slot) /\ <<>> \in Seq(Nat)
    OBVIOUS
  <2>2. QED
    BY <1>1, <2>1 DEF QueueInv, TypeOK
<1>3. Len(wire') = 0
  BY <1>1
<1>4. wire' = Stream!FirstBytes(0)
  <2>1. <<>> \in Seq(Nat) /\ Len(<<>>) = 0
    OBVIOUS
  <2>2. \A i \in 1..0 : <<>>[i] = Stream!FirstBytes(0)[i]
    OBVIOUS
  <2>3. <<>> = Stream!FirstBytes(0)
    BY <2>1, <2>2, FirstBytesType, SeqEqual
  <2>4. QED
    BY <1>1, <2>3
<1>5. SlotsContiguous'
  BY <1>1, <1>3 DEF SlotsContiguous
<1>6. WatchedWhilePending' /\ Within' /\ ClosedIsEmpty' /\ InOrder'
  BY <1>1, <1>3, <1>4 DEF WatchedWhilePending, Within, ClosedIsEmpty, InOrder
<1>7. QED
  BY <1>2, <1>5, <1>6 DEF QueueInv

(* What the steps of the two uses do with the list. *)
LEMMA WireCases ==
  ASSUME WireNext
  PROVE  \/ kind = "tcp" /\ Next /\ UNCHANGED <<kind, connections, packetVars>>
         \/ \E p \in Packets : gc_packet_send(p)
         \/ \E n \in Nat \ {0} : async_write_ssl(n)
         \/ async_read_ssl
         \/ upstream_error
         \/ upstream_connect
         \/ ssl_sigh_terminate
<1>1. CASE Forwarding
  BY <1>1 DEF Forwarding, Next
<1>2. CASE \E n \in 1..NextSize : async_write_ssl(n)
  <2>1. PICK n \in 1..NextSize : async_write_ssl(n)
    BY <1>2
  <2>2. n \in Nat \ {0}
    BY <2>1
  <2>3. QED
    BY <2>1, <2>2
<1>3. QED
  BY <1>1, <1>2 DEF WireNext

(* The list is correct in both uses. *)
LEMMA QueueStep ==
  ASSUME QueueInv, WireType, [WireNext]_wireVars
  PROVE  QueueInv'
<1>1. CASE kind = "tcp" /\ Next /\ UNCHANGED <<kind, connections, packetVars>>
  <2>1. CASE \E n \in Nat : ev_send(n)
    BY <2>1, AppendCorrect
  <2>2. CASE \E n \in Nat \ {0} : async_write(n)
    BY <2>2, WriteCorrect
  <2>3. CASE async_write_idle
    BY <2>3, IdleCorrect
  <2>4. CASE async_client_shutdown
    BY <2>4, ShutdownCorrect
  <2>5. CASE sigh_terminate
    BY <2>5, StutterCorrect DEF sigh_terminate
  <2>6. QED
    BY <1>1, <2>1, <2>2, <2>3, <2>4, <2>5, NextCases
<1>2. CASE \E p \in Packets : gc_packet_send(p)
  <2>1. PICK p \in Packets : gc_packet_send(p)
    BY <1>2
  <2> DEFINE n == Len(Frame[p])
  <2>2. n \in Nat
    <3>1. Frame[p] \in Seq(Byte)
      BY FrameProperties
    <3>2. QED
      BY <3>1
  <2>3. ev_send(n)
    BY <2>1 DEF gc_packet_send
  <2> HIDE DEF n
  <2>4. QED
    BY <2>2, <2>3, AppendCorrect
<1>3. CASE \E n \in Nat \ {0} : async_write_ssl(n)
  BY <1>3, WriteCorrect DEF async_write_ssl
<1>4. CASE upstream_error
  BY <1>4, ShutdownCorrect DEF upstream_error
<1>5. CASE upstream_connect
  BY <1>5, ConnectCorrect
<1>6. CASE async_read_ssl \/ ssl_sigh_terminate \/ UNCHANGED wireVars
  <2>1. UNCHANGED <<send, watching, closed, total, wire>> /\ gc_sigterm' \in BOOLEAN
    BY <1>6 DEF async_read_ssl, ssl_sigh_terminate, sigh_terminate, wireVars, vars, QueueInv, TypeOK
  <2>2. QED
    BY <2>1, StutterCorrect
<1>7. QED
  BY <1>1, <1>2, <1>3, <1>4, <1>5, <1>6, WireCases

-----------------------------------------------------------------------------
(* What was appended stays as it is when a packet is appended behind it. *)
LEMMA FramesGrow ==
  ASSUME sent \in Seq(Packets), NEW p \in Packets, sent' = Append(sent, p)
  PROVE  /\ sent' \in Seq(Packets) /\ Len(sent') = Len(sent) + 1 /\ Len(sent) \in Nat
         /\ Frames' \in Seq(Seq(Byte)) /\ Len(Frames') = Len(sent) + 1
         /\ Frames'[Len(sent) + 1] = Frame[p]
         /\ \A i \in 1..Len(sent) : Frames'[i] = Frames[i]
<1>1. /\ sent' \in Seq(Packets) /\ Len(sent') = Len(sent) + 1 /\ Len(sent) \in Nat
      /\ \A i \in 1..Len(sent) : sent'[i] = sent[i]
      /\ sent'[Len(sent) + 1] = p
      /\ DOMAIN sent = 1..Len(sent) /\ DOMAIN sent' = 1..(Len(sent) + 1)
  BY AppendProperties
<1>2. Frames' = [i \in 1..(Len(sent) + 1) |-> Frame[sent'[i]]]
  BY <1>1 DEF Frames
<1>3. Frames = [i \in 1..Len(sent) |-> Frame[sent[i]]]
  BY <1>1 DEF Frames
<1>4. \A q \in Packets : Frame[q] \in Seq(Byte)
  BY FrameProperties
<1>5. \A i \in 1..(Len(sent) + 1) : sent'[i] \in Packets
  BY <1>1
<1>6. Frames' \in [1..(Len(sent) + 1) -> Seq(Byte)]
  BY <1>2, <1>4, <1>5
<1>7. Frames' \in Seq(Seq(Byte)) /\ Len(Frames') = Len(sent) + 1
  BY <1>1, <1>6
<1>8. Frames'[Len(sent) + 1] = Frame[p]
  BY <1>1, <1>2
<1>9. ASSUME NEW i \in 1..Len(sent) PROVE Frames'[i] = Frames[i]
  BY <1>1, <1>2, <1>3
<1>10. QED
  BY <1>1, <1>7, <1>8, <1>9

(* gc_packet_send(): the reader, the records under way and the writer's    *)
(* place do not change.                                                    *)
LEMMA SendKeepsPackets ==
  ASSUME WireInv, NEW p \in Packets, gc_packet_send(p)
  PROVE  PacketInv'
<1>1. /\ kind = "ssl" /\ ~closed /\ UNCHANGED <<kind, connections, flight, recv, data, closed, wire>>
      /\ ev_send(Len(Frame[p])) /\ sent' = Append(sent, p)
  BY DEF gc_packet_send, ev_send
<1>2. /\ WireType /\ Idle /\ Received /\ SlotsArePackets /\ WrittenOut /\ (\E c : Leading(c))
      /\ send \in Seq(Slot)
  BY <1>1 DEF WireInv, PacketInv, QueueInv, TypeOK
<1>3. /\ sent \in Seq(Packets) /\ sent' \in Seq(Packets) /\ Len(sent') = Len(sent) + 1
      /\ Len(sent) \in Nat /\ Frames' \in Seq(Seq(Byte)) /\ Len(Frames') = Len(sent) + 1
      /\ Frames'[Len(sent) + 1] = Frame[p]
      /\ \A i \in 1..Len(sent) : Frames'[i] = Frames[i]
      /\ Frames \in Seq(Seq(Byte)) /\ Len(Frames) = Len(sent)
  BY <1>1, <1>2, FramesGrow, FramesType DEF WireType
<1>4. Frame[p] \in Seq(Byte) /\ Len(Frame[p]) \in Nat /\ Len(Frame[p]) > 0 /\ Word \in Nat
  <2> DEFINE src == gc_serialize(p)
  <2>1. Frame[p] \in Seq(Byte) /\ src \in Seq(Byte) /\ Len(Frame[p]) = Word + Len(src)
    BY FrameProperties
  <2> HIDE DEF src
  <2>2. QED
    BY <2>1, WordType
<1> DEFINE slot == [first |-> total + 1, len |-> Len(Frame[p]), sent |-> 0]
<1>5. /\ Len(send) \in Nat /\ Len(send') = Len(send) + 1 /\ send' # <<>>
      /\ \A i \in 1..Len(send) : send'[i] = send[i]
      /\ send'[Len(send) + 1] = slot
      /\ Head(send') = send'[1] /\ (send # <<>> => Head(send) = send[1])
  <2>1. slot \in Slot
    BY <1>2, <1>4 DEF Slot, WireInv, QueueInv, TypeOK
  <2>2. send' = Append(send, slot)
    BY <1>1 DEF ev_send, Appended
  <2> HIDE DEF slot
  <2>3. /\ Len(send) \in Nat /\ send' \in Seq(Slot) /\ Len(send') = Len(send) + 1
        /\ \A i \in 1..Len(send) : send'[i] = send[i]
        /\ send'[Len(send) + 1] = slot
    BY <1>2, <2>1, <2>2, AppendProperties
  <2>4. send' # <<>> /\ Head(send') = send'[1]
    BY <2>3
  <2>5. QED
    BY <2>3, <2>4
<1>6. slot.len = Len(Frame[p]) /\ slot.sent = 0
  OBVIOUS
<1> HIDE DEF slot
<1>7. data \in Seq(Seq(Byte)) /\ Len(data) \in Nat /\ recv.buf \in Seq(Byte) /\ Len(recv.buf) \in Nat
  BY <1>2 DEF WireType
<1>8. WireType' /\ Idle'
  BY <1>1, <1>2, <1>3 DEF WireType, Idle
<1>9. Received'
  <2>1. Len(data) <= Len(sent)
    BY <1>2 DEF Received
  <2>2. CASE Len(data) = Len(sent)
    <3>1. recv.buf = <<>> /\ recv.target = 0
      BY <1>2, <1>4, <2>2 DEF Received
    <3>2. Len(<<>>) = 0 /\ SubSeq(Frame[p], 1, 0) = <<>>
      BY <1>4
    <3>3. \A i \in 1..Len(data) : data[i] = Frames'[i]
      BY <1>2, <1>3, <2>2 DEF Received
    <3>4. Len(data) + 1 = Len(sent) + 1 /\ Len(data) < Len(sent') /\ Len(data) # Len(sent')
      BY <1>3, <2>2
    <3>5. Frames'[Len(data) + 1] = Frame[p]
      BY <1>3, <3>4
    <3>6. QED
      BY <1>1, <1>3, <1>4, <3>1, <3>2, <3>3, <3>4, <3>5 DEF Received
  <2>3. CASE Len(data) # Len(sent)
    <3>1. /\ Len(data) < Len(sent) /\ Len(data) < Len(sent') /\ Len(data) # Len(sent')
          /\ Len(data) <= Len(sent') /\ Len(data) + 1 \in 1..Len(sent)
      BY <1>3, <1>7, <2>1, <2>3
    <3>2. Frames'[Len(data) + 1] = Frames[Len(data) + 1]
      BY <1>3, <3>1
    <3>3. \A i \in 1..Len(data) : data[i] = Frames'[i]
      <4>1. \A i \in 1..Len(data) : i \in 1..Len(sent)
        BY <1>3, <1>7, <3>1
      <4>2. QED
        BY <1>2, <1>3, <4>1 DEF Received
    <3>4. QED
      BY <1>1, <1>2, <3>1, <3>2, <3>3 DEF Received
  <2>4. QED
    BY <2>2, <2>3
<1>10. Len(send) <= Len(sent) /\ Len(sent') - Len(send') = Len(sent) - Len(send)
  BY <1>2, <1>3, <1>5 DEF SlotsArePackets
<1>11. SlotsArePackets'
  <2>1. ASSUME NEW j \in 1..(Len(send) + 1)
        PROVE  send'[j].len = Len(Frames'[(Len(sent) - Len(send)) + j])
    <3>1. CASE j \in 1..Len(send)
      <4>1. (Len(sent) - Len(send)) + j \in 1..Len(sent)
        BY <1>3, <1>5, <1>10, <3>1
      <4>2. send'[j] = send[j] /\ send[j].len = Len(Frames[(Len(sent) - Len(send)) + j])
        BY <1>2, <1>5, <3>1 DEF SlotsArePackets
      <4>3. QED
        BY <1>3, <4>1, <4>2
    <3>2. CASE j = Len(send) + 1
      <4>1. (Len(sent) - Len(send)) + j = Len(sent) + 1
        BY <1>3, <1>5, <3>2
      <4>2. QED
        BY <1>3, <1>5, <1>6, <3>2, <4>1
    <3>3. QED
      BY <1>5, <3>1, <3>2
  <2>2. Len(send') <= Len(sent')
    BY <1>3, <1>5, <1>10
  <2>3. QED
    BY <1>5, <1>10, <2>1, <2>2 DEF SlotsArePackets
<1>12. Writer' = Writer /\ Reader' = Reader
  <2>1. CASE send = <<>>
    BY <1>1, <1>5, <1>6, <1>10, <2>1 DEF Writer, Reader
  <2>2. CASE send # <<>>
    <3>1. 1 \in 1..Len(send)
      BY <1>2, <2>2
    <3>2. Head(send') = Head(send)
      BY <1>5, <2>2, <3>1
    <3>3. QED
      BY <1>1, <1>5, <1>10, <2>2, <3>2 DEF Writer, Reader
  <2>3. QED
    BY <2>1, <2>2
<1>13. WrittenOut'
  <2>1. PICK off : Begins(Frames, off) /\ Len(wire) = off[Writer.k - 1] + Writer.at
    BY <1>2 DEF WrittenOut
  <2>2. PICK oft : Begins(Frames', oft)
    BY <1>3, BeginsExists
  <2>3. \A i \in 0..Len(sent) : off[i] = oft[i]
    <3> DEFINE f == Frames
               g == Frames'
    <3>1. f \in Seq(Seq(Byte)) /\ g \in Seq(Seq(Byte)) /\ Len(f) = Len(sent) /\ Len(g) = Len(sent) + 1
      BY <1>3
    <3>2. Begins(f, off) /\ Begins(g, oft) /\ \A i \in 1..Len(sent) : f[i] = g[i]
      BY <1>3, <2>1, <2>2
    <3> DEFINE n == Len(sent)
    <3>3. n \in 0..Len(f) /\ n <= Len(g) /\ SameUpto(f, g, n)
      BY <1>3, <3>1, <3>2 DEF SameUpto
    <3> HIDE DEF f, g, n
    <3>4. \A i \in 0..n : off[i] = oft[i]
      BY <3>1, <3>2, <3>3, BeginsSame
    <3>5. QED
      BY <3>4 DEF n
  <2>4. Writer.k - 1 \in 0..Len(sent)
    BY <1>3, <1>5, <1>10 DEF Writer
  <2>5. Len(wire') = oft[Writer'.k - 1] + Writer'.at
    BY <1>1, <1>12, <2>1, <2>3, <2>4
  <2>6. QED
    BY <2>2, <2>5 DEF WrittenOut
<1>14. \E c : Leading(c)'
  <2>1. PICK c : Leading(c)
    BY <1>2
  <2>2. ASSUME NEW j \in 1..Len(flight)
        PROVE  /\ PartAt(Frames', c[j], flight[j])
               /\ c[j + 1] = Moved(Frames', c[j], Len(flight[j]))
    <3>1. PartAt(Frames, c[j], flight[j]) /\ c[j + 1] = Moved(Frames, c[j], Len(flight[j]))
      BY <2>1 DEF Leading
    <3>2. c[j].k \in 1..Len(sent) /\ c[j].k \in 1..(Len(sent) + 1)
      BY <1>3, <3>1 DEF PartAt
    <3>3. Frames'[c[j].k] = Frames[c[j].k]
      BY <1>3, <3>2
    <3>4. QED
      BY <1>3, <3>1, <3>2, <3>3 DEF PartAt, Moved
  <2>3. Leading(c)'
    BY <1>1, <1>12, <2>1, <2>2 DEF Leading
  <2>4. QED
    BY <2>3
<1>15. QED
  BY <1>8, <1>9, <1>11, <1>13, <1>14 DEF PacketInv

(* Nothing that was appended changes when nothing is appended. *)
LEMMA FramesStay ==
  ASSUME sent' = sent
  PROVE  Frames' = Frames
  BY DEF Frames

(* What async_write() of n bytes finds, and does to the writer's place. *)
LEMMA WriterMoves ==
  ASSUME WireInv, kind = "ssl", NEW n \in Nat \ {0}, async_write(n), sent' = sent
  PROVE  /\ Writer.k \in 1..Len(Frames) /\ Writer.at \in Nat
         /\ Writer.at + n <= Len(Frames[Writer.k])
         /\ Writer' = Moved(Frames, Writer, n) /\ SlotsArePackets'
<1> DEFINE k == (Len(sent) - Len(send)) + 1
<1>1. /\ send # <<>> /\ ~closed /\ Head(send) = send[1] /\ send[1] \in Slot
      /\ send[1].sent + n <= send[1].len
  BY HeadSlot DEF WireInv
<1>2. WireType /\ SlotsArePackets /\ send \in Seq(Slot) /\ SlotsContiguous
  BY <1>1 DEF WireInv, PacketInv, QueueInv, TypeOK
<1>3. /\ Len(Frames) = Len(sent) /\ Len(sent) \in Nat
      /\ \A i \in 1..Len(sent) : Len(Frames[i]) \in Nat
  BY <1>2, FramesType DEF WireType
<1>4. Len(send) \in Nat \ {0} /\ Len(send) <= Len(sent)
      /\ DOMAIN send = 1..Len(send) /\ \A j \in 1..Len(send) : send[j] \in Slot
  BY <1>1, <1>2 DEF SlotsArePackets
<1>5. k \in 1..Len(sent) /\ (Len(sent) - Len(send)) + 1 = k
  BY <1>3, <1>4
<1>6. send[1].len = Len(Frames[k]) /\ send[1].sent \in Nat
  <2>1. 1 \in 1..Len(send)
    BY <1>4
  <2>2. send[1].len = Len(Frames[(Len(sent) - Len(send)) + 1])
    BY <1>2, <2>1 DEF SlotsArePackets
  <2>3. QED
    BY <1>1, <2>2, SlotFields
<1> HIDE DEF k
<1>7. Writer.k = k /\ Writer.at = send[1].sent
  BY <1>1, <1>5 DEF Writer
<1>8. Frames' = Frames /\ Len(sent') = Len(sent)
  BY FramesStay
<1>9. CASE Head(send).sent + n = Head(send).len
  <2>1. send' = Tail(send)
    BY <1>9 DEF async_write, Skipped
  <2>2. /\ Len(send') = Len(send) - 1
        /\ \A i \in 1..(Len(send) - 1) : send'[i] = send[i + 1]
        /\ send' \in Seq(Slot)
    BY <1>1, <1>2, <2>1, HeadTailProperties
  <2>3. (Len(sent') - Len(send')) + 1 = k + 1
    <3> DEFINE a == Len(sent)
               b == Len(send)
    <3>1. a \in Nat /\ b \in Nat /\ (a - b) + 1 = k /\ Len(sent') = a /\ Len(send') = b - 1
      BY <1>3, <1>4, <1>5, <1>8, <2>2
    <3> HIDE DEF a, b
    <3>2. (a - (b - 1)) + 1 = k + 1
      BY <3>1
    <3>3. QED
      BY <3>1, <3>2
  <2>4. send' # <<>> => Head(send').sent = 0
    <3>1. SUFFICES ASSUME send' # <<>> PROVE Head(send').sent = 0
      OBVIOUS
    <3>2. Len(send) > 1 /\ Head(send') = send'[1] /\ send'[1] = send[2] /\ 2 \in 1..Len(send)
      BY <1>4, <2>2, <3>1
    <3>3. send[2].sent = 0
      BY <1>2, <1>4, <3>2 DEF SlotsContiguous
    <3>4. QED
      BY <3>2, <3>3
  <2>5. Writer' = [k |-> k + 1, at |-> 0]
    BY <2>3, <2>4 DEF Writer
  <2>6. Moved(Frames, Writer, n) = [k |-> k + 1, at |-> 0]
    <3>1. Writer.at + n = Len(Frames[Writer.k])
      BY <1>1, <1>6, <1>7, <1>9
    <3>2. QED
      BY <1>7, <3>1 DEF Moved
  <2>7. SlotsArePackets'
    <3>1. ASSUME NEW j \in 1..(Len(send) - 1)
          PROVE  send'[j].len = Len(Frames[(Len(sent) - (Len(send) - 1)) + j])
      <4>1. j + 1 \in 1..Len(send) /\ (Len(sent) - (Len(send) - 1)) + j = (Len(sent) - Len(send)) + (j + 1)
        BY <1>3, <1>4
      <4>2. send[j + 1].len = Len(Frames[(Len(sent) - Len(send)) + (j + 1)])
        BY <1>2, <4>1 DEF SlotsArePackets
      <4>3. QED
        BY <2>2, <4>1, <4>2
    <3>2. Len(send) - 1 <= Len(sent)
      BY <1>3, <1>4
    <3>3. QED
      BY <1>8, <2>2, <3>1, <3>2 DEF SlotsArePackets
  <2>8. QED
    BY <1>1, <1>3, <1>5, <1>6, <1>7, <2>5, <2>6, <2>7
<1>10. CASE Head(send).sent + n # Head(send).len
  <2> DEFINE slot == [send[1] EXCEPT !.sent = @ + n]
  <2>1. send' = [send EXCEPT ![1] = slot]
    BY <1>10 DEF async_write, Skipped
  <2>2. slot \in Slot /\ slot.len = send[1].len /\ slot.sent = send[1].sent + n
    BY <1>1 DEF Slot
  <2> HIDE DEF slot
  <2>3. /\ send' \in Seq(Slot) /\ Len(send') = Len(send) /\ send'[1] = slot
        /\ \A j \in 2..Len(send) : send'[j] = send[j]
    <3>1. 1 \in 1..Len(send)
      BY <1>4
    <3>2. QED
      BY <1>2, <2>1, <2>2, <3>1, ExceptSeq
  <2>4. send' # <<>> /\ Head(send') = slot
    BY <1>4, <2>3
  <2>5. Writer' = [k |-> k, at |-> send[1].sent + n]
    BY <1>5, <1>8, <2>2, <2>3, <2>4 DEF Writer
  <2>6. Moved(Frames, Writer, n) = [k |-> k, at |-> send[1].sent + n]
    <3>1. Writer.at + n # Len(Frames[Writer.k])
      BY <1>1, <1>6, <1>7, <1>10
    <3>2. QED
      BY <1>7, <3>1 DEF Moved
  <2>7. SlotsArePackets'
    <3>1. ASSUME NEW j \in 1..Len(send)
          PROVE  send'[j].len = Len(Frames[(Len(sent) - Len(send)) + j])
      <4>1. send'[j].len = send[j].len
        <5>1. CASE j = 1
          BY <2>2, <2>3, <5>1
        <5>2. CASE j # 1
          BY <1>4, <2>3, <5>2
        <5>3. QED
          BY <5>1, <5>2
      <4>2. QED
        BY <1>2, <4>1 DEF SlotsArePackets
    <3>2. QED
      BY <1>4, <1>8, <2>3, <3>1 DEF SlotsArePackets
  <2>8. QED
    BY <1>1, <1>3, <1>5, <1>6, <1>7, <2>5, <2>6, <2>7
<1>11. QED
  BY <1>9, <1>10

(* async_write_ssl(): the record is the part of a packet from the writer's *)
(* place on.                                                               *)
LEMMA WriteKeepsPackets ==
  ASSUME WireInv, NEW n \in Nat \ {0}, async_write_ssl(n)
  PROVE  PacketInv'
<1> DEFINE r == SubSeq(Outgoing, Len(wire) + 1, Len(wire) + n)
           part == SubSeq(Frames[Writer.k], Writer.at + 1, Writer.at + n)
<1>1. /\ kind = "ssl" /\ async_write(n) /\ flight' = Append(flight, r)
      /\ UNCHANGED <<kind, connections, sent, recv, data, closed>>
  BY DEF async_write_ssl, async_write
<1>2. ~closed /\ WireType /\ Idle /\ Received /\ WrittenOut /\ (\E c : Leading(c)) /\ QueueInv
  BY <1>1, HeadSlot DEF WireInv, PacketInv
<1>3. /\ Writer.k \in 1..Len(Frames) /\ Writer.at \in Nat
      /\ Writer.at + n <= Len(Frames[Writer.k])
      /\ Writer' = Moved(Frames, Writer, n) /\ SlotsArePackets'
  BY <1>1, WriterMoves
<1>4. /\ Frames \in Seq(Seq(Byte)) /\ Len(Frames) = Len(sent) /\ Len(sent) \in Nat
      /\ \A i \in 1..Len(sent) : Frames[i] \in Seq(Byte) /\ Len(Frames[i]) \in Nat
  BY <1>2, FramesType DEF WireType
<1>5. PICK off : Begins(Frames, off) /\ Len(wire) = off[Writer.k - 1] + Writer.at
  BY <1>2 DEF WrittenOut
<1>6. /\ off[Writer.k - 1] \in Nat /\ off[Writer.k] \in Nat
      /\ off[Writer.k] = off[Writer.k - 1] + Len(Frames[Writer.k])
  <2> DEFINE f == Frames
             k == Writer.k
  <2>1. Begins(f, off) /\ k \in 1..Len(f) /\ Len(f) \in Nat
    BY <1>3, <1>4, <1>5
  <2> HIDE DEF f, k
  <2>2. k - 1 \in 0..Len(f) /\ k \in 0..Len(f)
    BY <2>1
  <2>3. off[k - 1] \in Nat /\ off[k] \in Nat /\ off[k] = off[k - 1] + Len(f[k])
    BY <2>1, <2>2 DEF Begins
  <2>4. QED
    BY <2>3 DEF f, k
<1>7. r = part
  <2> DEFINE f == Frames
             k == Writer.k
             a == Writer.at
  <2>1. f \in Seq(Seq(Byte)) /\ Begins(f, off) /\ InPart(f, k, a, n)
    BY <1>3, <1>4, <1>5 DEF InPart
  <2>2. Outgoing = FlattenSeq(f)
    BY DEF Outgoing, Frames
  <2>3. Len(wire) = off[k - 1] + a
    BY <1>5
  <2> HIDE DEF f, k, a
  <2>4. FoundAt(FlattenSeq(f), f, off, k, a, n)
    BY <2>1, FlattenPart
  <2>5. QED
    BY <2>2, <2>3, <2>4 DEF f, k, a, FoundAt
<1> HIDE DEF r
<1>8. part \in Seq(Byte) /\ Len(part) = n
  <2> DEFINE f == Frames[Writer.k]
             a == Writer.at
  <2>1. f \in Seq(Byte) /\ Len(f) \in Nat /\ a \in Nat /\ a + n <= Len(f)
    BY <1>3, <1>4
  <2> HIDE DEF f, a
  <2>2. \A i \in (a + 1)..(a + n) : f[i] \in Byte
    <3>1. \A i \in (a + 1)..(a + n) : i \in 1..Len(f)
      BY <2>1
    <3>2. QED
      BY <2>1, <3>1
  <2>3. /\ SubSeq(f, a + 1, a + n) \in Seq(Byte)
        /\ Len(SubSeq(f, a + 1, a + n)) = IF a + 1 <= a + n THEN (a + n) - (a + 1) + 1 ELSE 0
    BY <2>1, <2>2, SubSeqProperties
  <2>4. (a + n) - (a + 1) + 1 = n /\ a + 1 <= a + n
    BY <2>1
  <2>5. QED
    BY <2>3, <2>4 DEF f, a
<1>9. /\ flight' \in Seq(Seq(Byte)) /\ Len(flight') = Len(flight) + 1 /\ Len(flight) \in Nat
      /\ \A j \in 1..Len(flight) : flight'[j] = flight[j]
      /\ flight'[Len(flight) + 1] = part
  <2>1. flight \in Seq(Seq(Byte)) /\ flight' = Append(flight, part)
    BY <1>1, <1>2, <1>7 DEF WireType
  <2> HIDE DEF part
  <2>2. QED
    BY <1>8, <2>1, AppendProperties
<1>10. Frames' = Frames /\ Reader' = Reader
  BY <1>1, FramesStay DEF Reader
<1>11. WireType' /\ Idle' /\ Received'
  <2>1. WireType' /\ Idle'
    BY <1>1, <1>2, <1>9 DEF WireType, Idle
  <2>2. Received'
    BY <1>1, <1>2, <1>10 DEF Received
  <2>3. QED
    BY <2>1, <2>2
<1>12. Writer' \in Cursor
  BY <1>3, <1>4 DEF Moved, Cursor
<1>13. WrittenOut'
  <2>1. Len(wire') = Len(wire) + n
    BY <1>1, <1>2, WriteInOrder
  <2> DEFINE k == Writer.k
             a == Writer.at
             l == Len(Frames[Writer.k])
             o == off[Writer.k - 1]
  <2>2. k \in Nat /\ a \in Nat /\ l \in Nat /\ o \in Nat
    BY <1>3, <1>4, <1>6
  <2>3. Len(wire') = (o + a) + n
    BY <1>5, <2>1
  <2>4. CASE a + n = l
    <3>1. Writer'.k = k + 1 /\ Writer'.at = 0
      BY <1>3, <2>4 DEF Moved
    <3>2. (k + 1) - 1 = k /\ off[k] = o + l
      BY <1>6, <2>2
    <3> HIDE DEF k, a, l, o
    <3>3. Len(wire') = off[k] + 0
      BY <2>2, <2>3, <2>4, <3>2
    <3>4. QED
      BY <1>5, <1>10, <3>1, <3>2, <3>3 DEF WrittenOut
  <2>5. CASE a + n # l
    <3>1. Writer'.k = k /\ Writer'.at = a + n
      BY <1>3, <2>5 DEF Moved
    <3>2. Len(wire') = o + (a + n)
      <4> HIDE DEF a, o
      <4>1. QED
        BY <2>2, <2>3
    <3>3. Len(wire') = off[Writer'.k - 1] + Writer'.at
      BY <3>1, <3>2
    <3>4. QED
      BY <1>5, <1>10, <3>3 DEF WrittenOut
  <2>6. QED
    BY <2>4, <2>5
<1>14. \E c : Leading(c)'
  <2>1. PICK c : Leading(c)
    BY <1>2
  <2>2. c \in Seq(Cursor) /\ Len(c) = Len(flight) + 1
    BY <2>1 DEF Leading
  <2>3. PICK d : /\ d \in Seq(Cursor) /\ Len(d) = Len(flight') + 1
                 /\ \A j \in 1..(Len(flight) + 1) : d[j] = c[j]
                 /\ d[Len(flight) + 2] = Writer'
    <3> DEFINE e == Append(c, Writer')
    <3>1. /\ e \in Seq(Cursor) /\ Len(e) = Len(c) + 1
          /\ \A j \in 1..Len(c) : e[j] = c[j]
          /\ e[Len(c) + 1] = Writer'
      BY <1>12, <2>2, AppendProperties
    <3> HIDE DEF e
    <3>2. Len(c) + 1 = Len(flight) + 2
      BY <1>9, <2>2
    <3>3. QED
      BY <1>9, <2>2, <3>1, <3>2
  <2>4. ASSUME NEW j \in 1..Len(flight')
        PROVE  /\ PartAt(Frames', d[j], flight'[j])
               /\ d[j + 1] = Moved(Frames', d[j], Len(flight'[j]))
    <3>1. CASE j \in 1..Len(flight)
      <4>1. j \in 1..(Len(flight) + 1) /\ j + 1 \in 1..(Len(flight) + 1)
        BY <1>9, <3>1
      <4>2. d[j] = c[j] /\ d[j + 1] = c[j + 1] /\ flight'[j] = flight[j]
        BY <1>9, <2>3, <3>1, <4>1
      <4>3. PartAt(Frames, c[j], flight[j]) /\ c[j + 1] = Moved(Frames, c[j], Len(flight[j]))
        BY <2>1, <3>1 DEF Leading
      <4>4. QED
        BY <1>10, <4>2, <4>3
    <3>2. CASE j = Len(flight) + 1
      <4>1. d[j] = Writer
        BY <1>9, <2>1, <2>3, <3>2 DEF Leading
      <4>2. j + 1 = Len(flight) + 2
        BY <1>9, <3>2
      <4>3. d[j + 1] = Writer' /\ flight'[j] = part
        BY <1>9, <2>3, <3>2, <4>2
      <4> HIDE DEF part
      <4>4. PartAt(Frames, Writer, part)
        BY <1>3, <1>8 DEF PartAt, part
      <4>5. QED
        BY <1>3, <1>8, <1>10, <4>1, <4>3, <4>4
    <3>3. QED
      BY <1>9, <3>1, <3>2
  <2>5. d[1] = Reader' /\ d[Len(flight') + 1] = Writer'
    <3>1. 1 \in 1..(Len(flight) + 1) /\ Len(flight') + 1 = Len(flight) + 2
      BY <1>9
    <3>2. QED
      BY <1>10, <2>1, <2>3, <3>1 DEF Leading
  <2>6. Leading(d)'
    BY <2>3, <2>4, <2>5 DEF Leading
  <2>7. QED
    BY <2>6
<1>15. QED
  BY <1>3, <1>11, <1>13, <1>14 DEF PacketInv

(* async_read_ssl() and recv_append(): the record goes on with the packet  *)
(* that was begun, and completes it if it reaches the packet's end.        *)
LEMMA ReadMoves ==
  ASSUME WireInv, kind = "ssl", async_read_ssl, PartAt(Frames, Reader, Head(flight)),
         Len(Head(flight)) \in Nat
  PROVE  /\ Received' /\ Reader' = Moved(Frames, Reader, Len(Head(flight)))
         /\ recv' \in [buf : Seq(Byte), target : Int] /\ data' \in Seq(Seq(Byte))
<1> DEFINE r == Head(flight)
           n == Len(r)
           k == Len(data) + 1
           a == Len(recv.buf)
           f == Frames[k]
           buf == recv.buf \o r
<1>1. WireType /\ Received /\ sent' = sent
  BY DEF WireInv, PacketInv, async_read_ssl
<1>2. /\ data \in Seq(Seq(Byte)) /\ Len(data) \in Nat /\ recv.buf \in Seq(Byte) /\ a \in Nat
      /\ recv \in [buf : Seq(Byte), target : Int]
  <2>1. data \in Seq(Seq(Byte)) /\ recv \in [buf : Seq(Byte), target : Int]
    BY <1>1 DEF WireType
  <2>2. recv.buf \in Seq(Byte)
    BY <2>1
  <2>3. QED
    BY <2>1, <2>2
<1>3. k \in 1..Len(Frames) /\ a + n <= Len(f) /\ r = SubSeq(f, a + 1, a + n)
  BY DEF PartAt, Reader
<1>4. /\ Len(Frames) = Len(sent) /\ Len(sent) \in Nat /\ sent[k] \in Packets /\ f = Frame[sent[k]]
      /\ f \in Seq(Byte) /\ Len(f) \in Nat /\ Len(f) >= 3 * Word /\ Word \in Nat \ {0, 1}
  BY <1>1, <1>3, FramesType, WordType DEF WireType
<1>5. Len(data) < Len(sent) /\ a < Len(f) /\ recv.buf = SubSeq(f, 1, a)
      /\ recv.target = IF a > 2 * Word THEN Len(f) ELSE 0
  <2>1. Len(data) < Len(sent)
    BY <1>2, <1>3, <1>4
  <2>2. QED
    BY <1>1, <2>1 DEF Received
<1>6. n \in Nat
  OBVIOUS
<1>7. /\ buf = SubSeq(f, 1, a + n) /\ buf \in Seq(Byte) /\ Len(buf) = a + n
      /\ DOMAIN buf = 1..(a + n) /\ \A j \in 1..(a + n) : buf[j] = f[j]
  <2>1. recv.buf = SubSeq(f, 1, a) /\ r = SubSeq(f, a + 1, a + n)
    BY <1>3, <1>5
  <2>2. f \in Seq(Byte) /\ a \in Nat /\ n \in Nat /\ a + n <= Len(f)
    BY <1>2, <1>3, <1>4, <1>6
  <2> HIDE DEF a, n, f, r
  <2>3. /\ SubSeq(f, 1, a) \o SubSeq(f, a + 1, a + n) = SubSeq(f, 1, a + n)
        /\ SubSeq(f, 1, a + n) \in Seq(Byte) /\ Len(SubSeq(f, 1, a + n)) = a + n
        /\ DOMAIN SubSeq(f, 1, a + n) = 1..(a + n)
        /\ \A j \in 1..(a + n) : SubSeq(f, 1, a + n)[j] = f[j]
    BY <2>2, PartsJoin
  <2>4. QED
    BY <2>1, <2>3
<1>8. Target(buf) = IF a + n > 2 * Word THEN Len(f) ELSE 0
  <2>1. CASE recv.target # 0
    <3>1. recv.target = Len(f) /\ a + n > 2 * Word
      BY <1>2, <1>4, <1>5, <1>6, <2>1
    <3>2. QED
      BY <2>1, <3>1 DEF Target
  <2>2. CASE recv.target = 0
    <3>1. CASE a + n > 2 * Word
      <4>1. IntAt(buf, 0) + Word = Len(f)
        <5> DEFINE m == a + n
                   p == sent[k]
        <5>1. /\ p \in Packets /\ m \in Nat /\ m >= Word /\ m <= Len(Frame[p]) /\ f = Frame[p]
              /\ DOMAIN buf = 1..m /\ \A j \in 1..m : buf[j] = Frame[p][j]
          BY <1>2, <1>3, <1>4, <1>6, <1>7, <3>1
        <5> HIDE DEF m, p, buf
        <5>2. IntAt(buf, 0) + Word = Len(Frame[p])
          BY <5>1, LengthRead
        <5>3. QED
          BY <5>1, <5>2
      <4>2. Len(buf) > 2 * Word
        BY <1>7, <3>1
      <4>3. QED
        BY <2>2, <3>1, <4>1, <4>2 DEF Target
    <3>2. CASE ~(a + n > 2 * Word)
      <4>1. ~(Len(buf) > 2 * Word)
        BY <1>7, <3>2
      <4>2. QED
        BY <2>2, <3>2, <4>1 DEF Target
    <3>3. QED
      BY <3>1, <3>2
  <2>3. QED
    BY <2>1, <2>2
<1>9. \/ /\ Target(buf) # 0 /\ Target(buf) <= Len(buf)
         /\ recv' = NothingRead /\ data' = Append(data, SubSeq(buf, 1, Target(buf)))
      \/ /\ Target(buf) = 0 \/ Target(buf) > Len(buf)
         /\ recv' = [buf |-> buf, target |-> Target(buf)] /\ data' = data
  BY DEF async_read_ssl
<1>10. Frames' = Frames
  BY <1>1, FramesStay
<1>11. Reader.k = k /\ Reader.at = a
  BY DEF Reader
<1>12. \A i \in 1..Len(data) : data[i] = Frames[i]
  BY <1>1 DEF Received
<1>15. a \in Nat /\ n \in Nat /\ Len(f) \in Nat /\ a + n <= Len(f)
  BY <1>2, <1>3, <1>4, <1>6
<1> HIDE DEF buf, f, r, a
<1>13. CASE a + n = Len(f)
  <2>1. a + n > 2 * Word
    BY <1>4, <1>13
  <2>2. Target(buf) = Len(f) /\ Target(buf) = Len(buf) /\ Target(buf) # 0
    BY <1>4, <1>7, <1>8, <1>13, <2>1
  <2>3. SubSeq(buf, 1, Len(f)) = f
    <3>1. f = SubSeq(f, 1, Len(f))
      BY <1>4
    <3>2. buf = f
      BY <1>7, <1>13, <3>1
    <3>3. QED
      BY <3>1, <3>2
  <2>4. ~(Target(buf) = 0 \/ Target(buf) > Len(buf))
    BY <1>4, <2>2
  <2>5. recv' = NothingRead /\ data' = Append(data, f)
    BY <1>9, <2>2, <2>3, <2>4
  <2>6. /\ data' \in Seq(Seq(Byte)) /\ Len(data') = Len(data) + 1
        /\ \A i \in 1..Len(data) : data'[i] = data[i]
        /\ data'[Len(data) + 1] = f
    BY <1>2, <1>4, <2>5, AppendProperties
  <2>7. /\ recv'.buf = <<>> /\ recv'.target = 0 /\ Len(recv'.buf) = 0
        /\ recv' \in [buf : Seq(Byte), target : Int]
    <3>1. <<>> \in Seq(Byte) /\ Len(<<>>) = 0 /\ 0 \in Int
      OBVIOUS
    <3>2. QED
      BY <2>5, <3>1 DEF NothingRead
  <2>8. Reader' = Moved(Frames, Reader, n)
    <3>1. Reader' = [k |-> k + 1, at |-> 0]
      BY <2>6, <2>7 DEF Reader
    <3>2. QED
      BY <1>11, <1>13, <3>1 DEF Moved, f
  <2>9. Received'
    <3>1. \A i \in 1..Len(data') : data'[i] = Frames'[i]
      <4>1. ASSUME NEW i \in 1..(Len(data) + 1) PROVE data'[i] = Frames[i]
        <5>1. CASE i \in 1..Len(data)
          BY <1>12, <2>6, <5>1
        <5>2. CASE i = Len(data) + 1
          BY <2>6, <5>2 DEF f
        <5>3. QED
          BY <1>2, <5>1, <5>2
      <4>2. QED
        BY <1>10, <2>6, <4>1
    <3>2. Len(data') <= Len(sent')
      BY <1>1, <1>2, <1>4, <1>5, <2>6
    <3>3. ~(Len(recv'.buf) > 2 * Word)
      BY <1>4, <2>7
    <3>4. ASSUME Len(data') < Len(sent')
          PROVE  /\ Len(recv'.buf) < Len(Frames'[Len(data') + 1])
                 /\ recv'.buf = SubSeq(Frames'[Len(data') + 1], 1, Len(recv'.buf))
      <4>1. Len(data') + 1 \in 1..Len(sent)
        BY <1>1, <1>2, <1>4, <2>6, <3>4
      <4> DEFINE g == Frames[Len(data') + 1]
      <4>2. g \in Seq(Byte) /\ Len(g) \in Nat /\ Len(g) >= 3 * Word
        BY <1>1, <4>1, FramesType DEF WireType
      <4> HIDE DEF g
      <4>3. 0 < Len(g) /\ <<>> = SubSeq(g, 1, 0)
        BY <1>4, <4>2
      <4>4. QED
        BY <1>10, <2>7, <4>3 DEF g
    <3>5. QED
      BY <2>7, <3>1, <3>2, <3>3, <3>4 DEF Received
  <2>10. QED
    BY <2>6, <2>7, <2>8, <2>9 DEF n, r
<1>14. CASE a + n # Len(f)
  <2>1. a + n < Len(f)
    BY <1>14, <1>15
  <2>2. Target(buf) = 0 \/ Target(buf) > Len(buf)
    BY <1>4, <1>7, <1>8, <2>1
  <2>3. ~(Target(buf) # 0 /\ Target(buf) <= Len(buf))
    BY <1>4, <1>7, <1>8, <2>1
  <2>4. recv' = [buf |-> buf, target |-> Target(buf)] /\ data' = data
    BY <1>9, <2>3
  <2>5. recv'.buf = buf /\ recv'.target = Target(buf) /\ Target(buf) \in Int
    BY <1>4, <1>8, <2>4
  <2>6. recv' \in [buf : Seq(Byte), target : Int]
    BY <1>7, <2>4, <2>5
  <2>7. Reader' = Moved(Frames, Reader, n)
    <3>1. Reader' = [k |-> k, at |-> a + n]
      BY <1>7, <2>4, <2>5 DEF Reader
    <3>2. QED
      BY <1>11, <1>14, <3>1 DEF Moved, f
  <2>8. Received'
    <3>1. Len(recv'.buf) = a + n /\ Len(data') # Len(sent') /\ Len(data') <= Len(sent')
      BY <1>1, <1>2, <1>4, <1>5, <1>7, <2>4, <2>5
    <3>2. /\ Len(recv'.buf) < Len(Frames'[Len(data') + 1])
          /\ recv'.buf = SubSeq(Frames'[Len(data') + 1], 1, Len(recv'.buf))
      BY <1>7, <1>10, <2>1, <2>4, <2>5, <3>1 DEF f
    <3>3. recv'.target = IF Len(recv'.buf) > 2 * Word THEN Len(Frames'[Len(data') + 1]) ELSE 0
      BY <1>8, <1>10, <2>4, <2>5, <3>1 DEF f
    <3>4. \A i \in 1..Len(data') : data'[i] = Frames'[i]
      BY <1>10, <1>12, <2>4
    <3>5. QED
      BY <3>1, <3>2, <3>3, <3>4 DEF Received
  <2>9. QED
    BY <1>2, <2>4, <2>6, <2>7, <2>8 DEF n, r
<1>16. QED
  BY <1>13, <1>14

(* A record that is read leaves the others where they were. *)
LEMMA ReadKeepsPackets ==
  ASSUME WireInv, async_read_ssl
  PROVE  PacketInv'
<1>1. /\ flight # <<>> /\ flight' = Tail(flight)
      /\ UNCHANGED <<send, watching, closed, total, wire, kind, connections, sent>>
  BY DEF async_read_ssl, vars
<1>2. WireType /\ Idle /\ kind = "ssl" /\ ~closed
  BY <1>1 DEF WireInv, PacketInv, WireType, Idle
<1>3. SlotsArePackets /\ WrittenOut /\ \E c : Leading(c)
  BY <1>2 DEF WireInv, PacketInv
<1>4. /\ flight \in Seq(Seq(Byte)) /\ Len(flight) \in Nat \ {0} /\ Head(flight) = flight[1]
      /\ Len(flight[1]) \in Nat
      /\ flight' \in Seq(Seq(Byte)) /\ Len(flight') = Len(flight) - 1
      /\ \A j \in 1..(Len(flight) - 1) : flight'[j] = flight[j + 1]
  <2>1. flight \in Seq(Seq(Byte))
    BY <1>2 DEF WireType
  <2>2. flight[1] \in Seq(Byte)
    BY <1>1, <2>1
  <2>3. Len(flight[1]) \in Nat
    BY <2>2
  <2>4. Len(flight) \in Nat \ {0} /\ Head(flight) = flight[1]
    BY <1>1, <2>1
  <2>5. /\ flight' \in Seq(Seq(Byte)) /\ Len(flight') = Len(flight) - 1
        /\ \A j \in 1..(Len(flight) - 1) : flight'[j] = flight[j + 1]
    BY <1>1, <2>1, HeadTailProperties
  <2>6. QED
    BY <2>1, <2>3, <2>4, <2>5
<1>5. PICK c : Leading(c)
  BY <1>3
<1>6. /\ c \in Seq(Cursor) /\ Len(c) = Len(flight) + 1
      /\ c[1] = Reader /\ c[Len(flight) + 1] = Writer
      /\ \A j \in 1..Len(flight) : /\ PartAt(Frames, c[j], flight[j])
                                   /\ c[j + 1] = Moved(Frames, c[j], Len(flight[j]))
  BY <1>5 DEF Leading
<1>7. PartAt(Frames, Reader, Head(flight)) /\ c[2] = Moved(Frames, Reader, Len(Head(flight)))
  <2>1. 1 \in 1..Len(flight) /\ 1 + 1 = 2
    BY <1>4
  <2>2. QED
    BY <1>4, <1>6, <2>1
<1>8. /\ Received' /\ Reader' = Moved(Frames, Reader, Len(Head(flight)))
      /\ recv' \in [buf : Seq(Byte), target : Int] /\ data' \in Seq(Seq(Byte))
  BY <1>2, <1>4, <1>7, ReadMoves
<1>9. Frames' = Frames
  BY <1>1, FramesStay
<1>10. Writer' = Writer
  BY <1>1 DEF Writer
<1>11. WireType' /\ Idle'
  BY <1>1, <1>2, <1>4, <1>8 DEF WireType, Idle
<1>12. SlotsArePackets' /\ WrittenOut'
  BY <1>1, <1>3, <1>9, <1>10 DEF SlotsArePackets, WrittenOut
<1>13. PICK d : /\ d \in Seq(Cursor) /\ Len(d) = Len(flight)
                /\ \A j \in 1..Len(flight) : d[j] = c[j + 1]
  <2>1. c # <<>>
    BY <1>4, <1>6
  <2> DEFINE e == Tail(c)
  <2>2. /\ e \in Seq(Cursor) /\ Len(e) = Len(c) - 1
        /\ \A j \in 1..(Len(c) - 1) : e[j] = c[j + 1]
    BY <1>6, <2>1, HeadTailProperties
  <2> HIDE DEF e
  <2>3. Len(c) - 1 = Len(flight)
    BY <1>4, <1>6
  <2>4. QED
    BY <2>2, <2>3
<1>14. Leading(d)'
  <2>1. Len(d) = Len(flight') + 1
    BY <1>4, <1>13
  <2>2. d[1] = Reader'
    BY <1>4, <1>7, <1>8, <1>13
  <2>3. d[Len(flight') + 1] = Writer'
    BY <1>4, <1>6, <1>10, <1>13
  <2>4. ASSUME NEW j \in 1..Len(flight')
        PROVE  /\ PartAt(Frames', d[j], flight'[j])
               /\ d[j + 1] = Moved(Frames', d[j], Len(flight'[j]))
    <3>1. j \in 1..(Len(flight) - 1) /\ j \in 1..Len(flight) /\ j + 1 \in 1..Len(flight)
      BY <1>4
    <3>2. d[j] = c[j + 1] /\ d[j + 1] = c[(j + 1) + 1] /\ flight'[j] = flight[j + 1]
      BY <1>4, <1>13, <3>1
    <3>3. /\ PartAt(Frames, c[j + 1], flight[j + 1])
          /\ c[(j + 1) + 1] = Moved(Frames, c[j + 1], Len(flight[j + 1]))
      BY <1>6, <3>1
    <3>4. QED
      BY <1>9, <3>2, <3>3
  <2>5. QED
    BY <1>13, <2>1, <2>2, <2>3, <2>4 DEF Leading
<1>15. QED
  BY <1>8, <1>11, <1>12, <1>14 DEF PacketInv

(* A connection that ends, or begins, has no record under way. *)
LEMMA ConnectionKeepsPackets ==
  ASSUME WireInv, upstream_error \/ upstream_connect
  PROVE  PacketInv'
<1>1. <<>> \in Seq(Seq(Byte)) /\ <<>> \in Seq(Byte) /\ <<>> \in Seq(Packets)
      /\ <<>> \in Seq(Cursor) /\ Len(<<>>) = 0
  OBVIOUS
<1>2. WireType /\ Idle /\ Received /\ Word \in Nat
  BY WordType DEF WireInv, PacketInv
<1>3. CASE upstream_error
  <2>1. /\ kind = "ssl" /\ closed' /\ flight' = <<>>
        /\ UNCHANGED <<kind, connections, sent, recv, data>>
    BY <1>3 DEF upstream_error, async_client_shutdown
  <2>2. Frames' = Frames
    BY <2>1, FramesStay
  <2>3. WireType' /\ Idle' /\ Received'
    BY <1>1, <1>2, <2>1, <2>2 DEF WireType, Idle, Received
  <2>4. QED
    BY <2>1, <2>3 DEF PacketInv
<1>4. CASE upstream_connect
  <2>1. /\ kind = "ssl" /\ closed /\ ~closed' /\ flight' = flight /\ kind' = kind
        /\ sent' = <<>> /\ data' = <<>> /\ recv' = NothingRead /\ send' = <<>> /\ wire' = <<>>
    BY <1>4 DEF upstream_connect, ClearedRecv
  <2>2. flight' = <<>>
    BY <1>2, <2>1 DEF Idle
  <2>3. recv'.buf = <<>> /\ recv'.target = 0 /\ recv' \in [buf : Seq(Byte), target : Int]
    BY <1>1, <2>1 DEF NothingRead
  <2>4. WireType' /\ Idle'
    BY <1>1, <1>2, <2>1, <2>2, <2>3 DEF WireType, Idle
  <2>5. Received'
    BY <1>1, <1>2, <2>1, <2>3 DEF Received
  <2>6. SlotsArePackets'
    BY <1>1, <2>1 DEF SlotsArePackets
  <2>7. Writer' = [k |-> 1, at |-> 0] /\ Reader' = [k |-> 1, at |-> 0]
    BY <1>1, <2>1, <2>3 DEF Writer, Reader
  <2>8. WrittenOut'
    <3> DEFINE off == [i \in 0..0 |-> 0]
    <3>1. Frames' = <<>> /\ Len(<<>>) = 0
      <4>1. Frames' = [i \in DOMAIN <<>> |-> Frame[<<>>[i]]]
        BY <2>1 DEF Frames
      <4>2. DOMAIN <<>> = 1..0
        OBVIOUS
      <4>3. QED
        BY <4>1, <4>2
    <3>2. Begins(<<>>, off)
      BY DEF Begins
    <3>3. 1 - 1 = 0 /\ off[0] = 0 /\ 0 + 0 = 0
      OBVIOUS
    <3>4. Len(wire') = off[Writer'.k - 1] + Writer'.at
      BY <1>1, <2>1, <2>7, <3>3
    <3> HIDE DEF off
    <3>5. QED
      BY <3>1, <3>2, <3>4 DEF WrittenOut
  <2>9. \E c : Leading(c)'
    <3>1. PICK c : c = <<[k |-> 1, at |-> 0]>>
      OBVIOUS
    <3>2. [k |-> 1, at |-> 0] \in Cursor
      BY DEF Cursor
    <3>3. c \in Seq(Cursor) /\ Len(c) = 1 /\ c[1] = [k |-> 1, at |-> 0]
      BY <3>1, <3>2
    <3>4. Len(flight') = 0
      BY <1>1, <2>2
    <3>5. Leading(c)'
      BY <2>7, <3>3, <3>4 DEF Leading
    <3>6. QED
      BY <3>5
  <2>10. QED
    BY <2>1, <2>4, <2>5, <2>6, <2>8, <2>9 DEF PacketInv
<1>5. QED
  BY <1>3, <1>4

(* A step that leaves the packets alone. *)
LEMMA OthersKeepPackets ==
  ASSUME WireInv, UNCHANGED <<kind, packetVars>>,
         kind = "tcp" \/ UNCHANGED <<send, wire, closed>>
  PROVE  PacketInv'
<1>1. UNCHANGED <<kind, sent, flight, recv, data>> /\ WireType /\ Idle /\ Received
  BY DEF packetVars, WireInv, PacketInv
<1>2. Frames' = Frames
  BY <1>1, FramesStay
<1>3. WireType' /\ Idle' /\ Received'
  BY <1>1, <1>2 DEF WireType, Idle, Received
<1>4. CASE kind = "tcp"
  BY <1>1, <1>3, <1>4 DEF PacketInv
<1>5. CASE kind = "ssl"
  <2>1. UNCHANGED <<send, wire, closed>>
    BY <1>5
  <2>2. Reader' = Reader /\ Writer' = Writer
    BY <1>1, <2>1 DEF Reader, Writer
  <2>3. SUFFICES ASSUME ~closed PROVE SlotsArePackets' /\ WrittenOut' /\ \E c : Leading(c)'
    BY <1>1, <1>3, <2>1 DEF PacketInv
  <2>4. SlotsArePackets /\ WrittenOut /\ \E c : Leading(c)
    BY <1>5, <2>3 DEF WireInv, PacketInv
  <2>5. SlotsArePackets' /\ WrittenOut'
    BY <1>1, <1>2, <2>1, <2>2, <2>4 DEF SlotsArePackets, WrittenOut
  <2>6. PICK c : Leading(c)
    BY <2>4
  <2>7. Leading(c)'
    BY <1>1, <1>2, <2>2, <2>6 DEF Leading
  <2>8. QED
    BY <2>5, <2>7
<1>6. QED
  BY <1>1, <1>4, <1>5 DEF WireType

(* Nothing has been sent. *)
LEMMA WireInitCorrect == WireInit => WireInv
<1> SUFFICES ASSUME WireInit PROVE WireInv
  OBVIOUS
<1>1. QueueInv
  BY InitCorrect DEF WireInit
<1>2. /\ sent = <<>> /\ flight = <<>> /\ recv = NothingRead /\ data = <<>> /\ kind \in {"tcp", "ssl"}
      /\ send = <<>> /\ wire = <<>>
  BY DEF WireInit, Init
<1>3. <<>> \in Seq(Seq(Byte)) /\ <<>> \in Seq(Byte) /\ <<>> \in Seq(Packets)
      /\ <<>> \in Seq(Cursor) /\ Len(<<>>) = 0 /\ Word \in Nat
  BY WordType
<1>4. recv.buf = <<>> /\ recv.target = 0 /\ recv \in [buf : Seq(Byte), target : Int]
  BY <1>2, <1>3 DEF NothingRead
<1>5. WireType /\ Idle /\ Received /\ SlotsArePackets
  BY <1>2, <1>3, <1>4 DEF WireType, Idle, Received, SlotsArePackets
<1>6. Writer = [k |-> 1, at |-> 0] /\ Reader = [k |-> 1, at |-> 0]
  BY <1>2, <1>3, <1>4 DEF Writer, Reader
<1>7. WrittenOut
  <2> DEFINE off == [i \in 0..0 |-> 0]
  <2>1. Frames = <<>>
    <3>1. Frames = [i \in DOMAIN <<>> |-> Frame[<<>>[i]]]
      BY <1>2 DEF Frames
    <3>2. DOMAIN <<>> = 1..0
      OBVIOUS
    <3>3. QED
      BY <3>1, <3>2
  <2>2. Begins(<<>>, off)
    BY DEF Begins
  <2>3. 1 - 1 = 0 /\ off[0] = 0 /\ 0 + 0 = 0
    OBVIOUS
  <2>4. Len(wire) = off[Writer.k - 1] + Writer.at
    BY <1>2, <1>3, <1>6, <2>3
  <2> HIDE DEF off
  <2>5. QED
    BY <2>1, <2>2, <2>4 DEF WrittenOut
<1>8. \E c : Leading(c)
  <2>1. PICK c : c = <<[k |-> 1, at |-> 0]>>
    OBVIOUS
  <2>2. [k |-> 1, at |-> 0] \in Cursor
    BY DEF Cursor
  <2>3. c \in Seq(Cursor) /\ Len(c) = 1 /\ c[1] = [k |-> 1, at |-> 0]
    BY <2>1, <2>2
  <2>4. Len(flight) = 0
    BY <1>2, <1>3
  <2>5. Leading(c)
    BY <1>6, <2>3, <2>4 DEF Leading
  <2>6. QED
    BY <2>5
<1>9. QED
  BY <1>1, <1>5, <1>7, <1>8 DEF WireInv, PacketInv

(* The inductive invariant of both uses of the list. *)
THEOREM WireCorrect == WireSpec => []WireInv
<1>1. ASSUME WireInv, [WireNext]_wireVars
      PROVE  WireInv'
  <2>1. QueueInv /\ WireType
    BY <1>1 DEF WireInv, PacketInv
  <2>2. QueueInv'
    BY <1>1, <2>1, QueueStep
  <2>3. PacketInv'
    <3>1. CASE kind = "tcp" /\ Next /\ UNCHANGED <<kind, connections, packetVars>>
      BY <1>1, <3>1, OthersKeepPackets
    <3>2. CASE \E p \in Packets : gc_packet_send(p)
      BY <1>1, <3>2, SendKeepsPackets
    <3>3. CASE \E n \in Nat \ {0} : async_write_ssl(n)
      BY <1>1, <3>3, WriteKeepsPackets
    <3>4. CASE async_read_ssl
      BY <1>1, <3>4, ReadKeepsPackets
    <3>5. CASE upstream_error \/ upstream_connect
      BY <1>1, <3>5, ConnectionKeepsPackets
    <3>6. CASE ssl_sigh_terminate \/ UNCHANGED wireVars
      <4>1. UNCHANGED <<kind, packetVars>> /\ UNCHANGED <<send, wire, closed>>
        BY <3>6 DEF ssl_sigh_terminate, sigh_terminate, wireVars, vars
      <4>2. QED
        BY <1>1, <4>1, OthersKeepPackets
    <3>7. QED
      BY <1>1, <3>1, <3>2, <3>3, <3>4, <3>5, <3>6, WireCases
  <2>4. QED
    BY <2>2, <2>3 DEF WireInv
<1>2. QED
  BY <1>1, WireInitCorrect, PTL DEF WireSpec

(* What callback_data() gets is what was sent, read back. *)
LEMMA GotIsSent ==
  ASSUME WireInv
  PROVE  /\ DOMAIN got = 1..Len(data) /\ Len(data) \in Nat /\ Len(data) <= Len(sent)
         /\ Len(got) = Len(data) /\ sent \in Seq(Packets)
         /\ \A i \in 1..Len(data) : /\ sent[i] \in Packets /\ IsPacket(sent[i])
                                    /\ Sources[i] = gc_serialize(sent[i])
                                    /\ got[i] = gc_deserialize(gc_serialize(sent[i]))
<1>1. WireType /\ Received
  BY DEF WireInv, PacketInv
<1>2. /\ data \in Seq(Seq(Byte)) /\ Len(data) \in Nat /\ DOMAIN data = 1..Len(data)
      /\ sent \in Seq(Packets) /\ Len(sent) \in Nat /\ Len(data) <= Len(sent)
      /\ \A i \in 1..Len(data) : data[i] = Frames[i]
  BY <1>1 DEF WireType, Received
<1>3. ASSUME NEW i \in 1..Len(data)
      PROVE  /\ sent[i] \in Packets /\ IsPacket(sent[i])
             /\ SubSeq(data[i], Word + 1, Len(data[i])) = gc_serialize(sent[i])
             /\ gc_serialize(sent[i]) \in Seq(Byte)
  <2>1. i \in 1..Len(sent)
    BY <1>2
  <2>2. sent[i] \in Packets /\ Frames[i] = Frame[sent[i]]
    BY <1>2, <2>1, FramesType
  <2>3. IsPacket(sent[i])
    BY <2>2, WireAssumption DEF WireAssumption
  <2>4. gc_serialize(sent[i]) \in Seq(Byte)
    BY <2>3, Serialized
  <2>5. QED
    BY <1>2, <2>2, <2>3, <2>4, BodyOfFrame
<1>4. Bodies = [i \in 1..Len(data) |-> SubSeq(data[i], Word + 1, Len(data[i]))]
  BY <1>2 DEF Bodies
<1>5. /\ Bodies \in Seq(Seq(Byte)) /\ Len(Bodies) = Len(data) /\ DOMAIN Bodies = 1..Len(data)
      /\ \A i \in 1..Len(data) : Bodies[i] = gc_serialize(sent[i])
  <2>1. \A i \in 1..Len(data) : Bodies[i] = gc_serialize(sent[i]) /\ Bodies[i] \in Seq(Byte)
    BY <1>3, <1>4
  <2>2. Bodies \in [1..Len(data) -> Seq(Byte)]
    BY <1>4, <2>1
  <2>3. QED
    BY <1>2, <2>1, <2>2
<1>6. ASSUME NEW i \in 1..Len(Bodies)
      PROVE  Bodies[i] \in {src \in ToSet(Bodies) : gc_deserialize(src).ok}
  <2>1. i \in 1..Len(data) /\ i \in DOMAIN Bodies
    BY <1>5
  <2>2. gc_deserialize(gc_serialize(sent[i])).ok
    <3> DEFINE p == sent[i]
    <3>1. IsPacket(p)
      BY <1>3, <2>1
    <3> HIDE DEF p
    <3>2. Parts(p) \in Seq(Seq(Byte))
      BY <3>1, Serialized
    <3>3. PICK off : Begins(Parts(p), off)
      BY <3>2, BeginsExists
    <3>4. gc_deserialize(gc_serialize(p)).ok
      BY <3>1, <3>3, ReadBack
    <3>5. QED
      BY <3>4 DEF p
  <2>3. Bodies[i] \in ToSet(Bodies)
    BY <2>1 DEF ToSet
  <2>4. QED
    BY <1>5, <2>1, <2>2, <2>3
<1>7. Sources = Bodies
  <2> DEFINE S == {src \in ToSet(Bodies) : gc_deserialize(src).ok}
             b == Bodies
  <2>1. b \in Seq(Seq(Byte)) /\ \A i \in 1..Len(b) : b[i] \in S
    BY <1>5, <1>6
  <2>2. Sources = Among(b, S)
    BY DEF Sources
  <2> HIDE DEF S, b
  <2>3. Among(b, S) = b
    BY <2>1, AmongAll
  <2>4. QED
    BY <2>2, <2>3 DEF b
<1>8. got = [i \in 1..Len(data) |-> gc_deserialize(Sources[i])]
  BY <1>5, <1>7 DEF got
<1>9. \A i \in 1..Len(data) : got[i] = gc_deserialize(gc_serialize(sent[i]))
  BY <1>5, <1>7, <1>8
<1>10. DOMAIN got = 1..Len(data) /\ Len(got) = Len(data)
  BY <1>2, <1>8
<1>11. QED
  BY <1>2, <1>3, <1>5, <1>7, <1>9, <1>10

(* async_client.c and proto.c: the packets that callback_data() gets are   *)
(* those that were sent, in their order and without one left out.          *)
THEOREM PacketsStayInOrder == WireSpec => []PacketsInOrder
<1>1. ASSUME WireInv PROVE PacketsInOrder
  <2> DEFINE r == [i \in DOMAIN got |-> [type |-> got[i].type, u |-> got[i].u]]
             n == Len(data)
  <2>1. /\ DOMAIN got = 1..n /\ n \in Nat /\ n <= Len(sent) /\ sent \in Seq(Packets)
        /\ \A i \in 1..n : /\ sent[i] \in Packets /\ IsPacket(sent[i])
                           /\ got[i] = gc_deserialize(gc_serialize(sent[i]))
    BY <1>1, GotIsSent
  <2>2. ASSUME NEW i \in 1..n PROVE [type |-> got[i].type, u |-> got[i].u] = sent[i]
    <3> DEFINE p == sent[i]
    <3>1. IsPacket(p) /\ got[i] = gc_deserialize(gc_serialize(p))
      BY <2>1
    <3> HIDE DEF p
    <3>2. Parts(p) \in Seq(Seq(Byte))
      BY <3>1, Serialized
    <3>3. PICK off : Begins(Parts(p), off)
      BY <3>2, BeginsExists
    <3>4. gc_deserialize(gc_serialize(p)).type = p.type /\ gc_deserialize(gc_serialize(p)).u = p.u
      BY <3>1, <3>3, ReadBack
    <3>5. p = [type |-> p.type, u |-> p.u]
      BY <3>1 DEF IsPacket
    <3>6. QED
      BY <3>1, <3>4, <3>5 DEF p
  <2>3. r = [i \in 1..n |-> sent[i]]
    BY <2>1, <2>2
  <2> HIDE DEF r, n
  <2>4. \A i \in 1..n : sent[i] \in Packets
    BY <2>1
  <2>5. r \in Seq(Packets) /\ Len(r) = n /\ \A i \in 1..n : r[i] = sent[i]
    BY <2>1, <2>3, <2>4
  <2>6. SubSeq(r, 1, n) = SubSeq(sent, 1, n)
    <3>1. SubSeq(r, 1, n) = r
      BY <2>1, <2>5
    <3>2. /\ SubSeq(sent, 1, n) \in Seq(Packets) /\ Len(SubSeq(sent, 1, n)) = n
          /\ \A j \in 1..n : SubSeq(sent, 1, n)[j] = sent[j]
      <4>1. sent \in Seq(Packets) /\ 0 \in Nat /\ n \in Nat /\ n + 0 <= Len(sent) /\ n + 0 = n
        BY <2>1
      <4>2. /\ SubSeq(sent, 1, n + 0) \in Seq(Packets) /\ Len(SubSeq(sent, 1, n + 0)) = n + 0
            /\ \A j \in 1..(n + 0) : SubSeq(sent, 1, n + 0)[j] = sent[j]
        BY <4>1, PartsJoin
      <4>3. QED
        BY <4>1, <4>2
    <3>3. r = SubSeq(sent, 1, n)
      BY <2>5, <3>2, SeqEqual
    <3>4. QED
      BY <3>1, <3>3
  <2>7. IsPrefix(r, sent)
    BY <2>1, <2>5, <2>6 DEF IsPrefix
  <2>8. QED
    BY <2>7 DEF PacketsInOrder, r
<1>2. QED
  BY <1>1, WireCorrect, PTL

(* The slots are contiguous, and what is pending is watched, in both uses. *)
THEOREM WireSlotsContiguous == WireSpec => []SlotsContiguous
<1>1. WireInv => SlotsContiguous
  BY DEF WireInv, QueueInv
<1>2. QED
  BY <1>1, WireCorrect, PTL

THEOREM WirePendingIsWatched == WireSpec => []WatchedWhilePending
<1>1. WireInv => WatchedWhilePending
  BY DEF WireInv, QueueInv
<1>2. QED
  BY <1>1, WireCorrect, PTL

(* Both uses of the list implement a stream of bytes for each connection. *)
THEOREM WireImplementsStream == WireSpec => ImplementsStream
<1>1. WireInit => Stream!Init
  BY DEF WireInit, Init, Stream!Init
<1>2. ASSUME WireInv, [WireNext]_wireVars
      PROVE  [Stream!Next]_(Stream!vars)
  <2>1. ASSUME NEW n \in Nat, ev_send(n)
        PROVE  Stream!Write
    BY <1>2, <2>1 DEF ev_send, Stream!Write, WireInv, QueueInv, TypeOK
  <2>2. ASSUME NEW n \in Nat \ {0}, async_write(n)
        PROVE  Stream!Transmit
    <3>1. QueueInv /\ Len(wire) \in Nat /\ total \in Nat
      BY <1>2 DEF WireInv, QueueInv, TypeOK
    <3>2. Len(wire') \in Len(wire)..total /\ wire' = Stream!FirstBytes(Len(wire'))
      BY <2>2, <3>1, WriteInOrder
    <3>3. ~closed /\ UNCHANGED <<total, closed>>
      BY <2>2, <3>1, HeadSlot DEF async_write
    <3>4. QED
      BY <3>2, <3>3 DEF Stream!Transmit
  <2>3. ASSUME async_client_shutdown
        PROVE  Stream!Close
    BY <2>3 DEF async_client_shutdown, Stream!Close
  <2>4. ASSUME async_write_idle \/ sigh_terminate \/ async_read_ssl \/ UNCHANGED wireVars
        PROVE  UNCHANGED Stream!vars
    BY <2>4 DEF async_write_idle, sigh_terminate, async_read_ssl, wireVars, vars, Stream!vars
  <2>5. CASE kind = "tcp" /\ Next /\ UNCHANGED <<kind, connections, packetVars>>
    BY <2>1, <2>2, <2>3, <2>4, <2>5, NextCases DEF Stream!Next
  <2>6. CASE \E p \in Packets : gc_packet_send(p)
    <3>1. PICK p \in Packets : ev_send(Len(Frame[p]))
      BY <2>6 DEF gc_packet_send
    <3> DEFINE n == Len(Frame[p])
    <3>2. n \in Nat
      <4>1. Frame[p] \in Seq(Byte)
        BY FrameProperties
      <4>2. QED
        BY <4>1
    <3>3. ev_send(n)
      BY <3>1
    <3> HIDE DEF n
    <3>4. QED
      BY <2>1, <3>2, <3>3 DEF Stream!Next
  <2>7. CASE \E n \in Nat \ {0} : async_write_ssl(n)
    BY <2>2, <2>7 DEF async_write_ssl, Stream!Next
  <2>8. CASE upstream_error
    BY <2>3, <2>8 DEF upstream_error, Stream!Next
  <2>9. CASE upstream_connect
    BY <2>9 DEF upstream_connect, Stream!Reopen, Stream!Next
  <2>10. CASE ssl_sigh_terminate
    BY <2>4, <2>10 DEF ssl_sigh_terminate
  <2>11. QED
    BY <1>2, <2>4, <2>5, <2>6, <2>7, <2>8, <2>9, <2>10, WireCases
<1>3. QED
  BY <1>1, <1>2, WireCorrect, PTL DEF WireSpec, ImplementsStream, Stream!Spec
-----------------------------------------------------------------------------
(* The n bytes behind the first m. *)
LEMMA Cut ==
  ASSUME NEW X, NEW s \in Seq(X), NEW m \in Nat, NEW n \in Nat, m + n <= Len(s)
  PROVE  /\ SubSeq(s, m + 1, m + n) \in Seq(X) /\ Len(SubSeq(s, m + 1, m + n)) = n
         /\ \A i \in 1..n : SubSeq(s, m + 1, m + n)[i] = s[m + i]
<1> DEFINE a == m + 1
           z == m + n
           u == SubSeq(s, a, z)
<1>1. a \in Int /\ z \in Int /\ z - a + 1 = n /\ (n # 0 => a <= z) /\ (n = 0 => ~(a <= z))
  OBVIOUS
<1>2. \A i \in a..z : s[i] \in X
  OBVIOUS
<1>3. \A i \in 1..n : a + i - 1 = m + i
  OBVIOUS
<1> HIDE DEF a, z
<1>4. /\ u \in Seq(X) /\ Len(u) = IF a <= z THEN z - a + 1 ELSE 0
      /\ \A i \in 1..(z - a + 1) : u[i] = s[a + i - 1]
  BY <1>1, <1>2, SubSeqProperties
<1> HIDE DEF u
<1>5. u \in Seq(X) /\ Len(u) = n /\ \A i \in 1..n : u[i] = s[m + i]
  <2>1. Len(u) = n
    BY <1>1, <1>4
  <2>2. ASSUME NEW i \in 1..n PROVE u[i] = s[m + i]
    <3>1. u[i] = s[a + i - 1]
      BY <1>1, <1>4
    <3>2. QED
      BY <1>3, <3>1
  <2>3. QED
    BY <1>4, <2>1, <2>2
<1>6. QED
  BY <1>5 DEF u, a, z

(* n bytes of r are n bytes of s. *)
LEMMA SamePart ==
  ASSUME NEW X, NEW r \in Seq(X), NEW s \in Seq(X), NEW k \in Nat, NEW m \in Nat, NEW n \in Nat,
         k + n <= Len(r), m + n <= Len(s), \A i \in 1..n : r[k + i] = s[m + i]
  PROVE  SubSeq(r, k + 1, k + n) = SubSeq(s, m + 1, m + n)
<1> DEFINE u == SubSeq(r, k + 1, k + n)
           v == SubSeq(s, m + 1, m + n)
<1>1. u \in Seq(X) /\ Len(u) = n /\ \A i \in 1..n : u[i] = r[k + i]
  BY Cut
<1>2. v \in Seq(X) /\ Len(v) = n /\ \A i \in 1..n : v[i] = s[m + i]
  BY Cut
<1> HIDE DEF u, v
<1>3. \A i \in 1..n : u[i] = v[i]
  BY <1>1, <1>2
<1>4. u = v
  BY <1>1, <1>2, <1>3, SeqEqual
<1>5. QED
  BY <1>4 DEF u, v

(* A string is read up to the first zero. *)
LEMMA StringRead ==
  ASSUME NEW t \in Seq(Nat), NEW b \in Nat, NEW e \in (b + 1)..Len(t), t[e] = 0,
         \A j \in (b + 1)..(e - 1) : t[j] # 0
  PROVE  CString(t, b) = SubSeq(t, b + 1, e - 1)
<1> DEFINE rest == SubSeq(t, b + 1, Len(t))
           I == {j \in 1..Len(rest) : rest[j] = 0}
<1>1. Len(t) \in Nat /\ e \in Nat /\ b + 1 <= e /\ e <= Len(t) /\ DOMAIN t = 1..Len(t)
  OBVIOUS
<1>2. /\ rest \in Seq(Nat) /\ Len(rest) = Len(t) - b
      /\ \A j \in 1..(Len(t) - b) : rest[j] = t[b + j]
  <2> DEFINE d == Len(t) - b
  <2>1. d \in Nat /\ b + d = Len(t) /\ b + d <= Len(t)
    BY <1>1
  <2>2. rest = SubSeq(t, b + 1, b + d)
    BY <2>1
  <2> HIDE DEF rest, d
  <2>3. rest \in Seq(Nat) /\ Len(rest) = d /\ \A j \in 1..d : rest[j] = t[b + j]
    BY <2>1, <2>2, Cut
  <2>4. QED
    BY <2>3 DEF d
<1> HIDE DEF rest
<1>3. e - b \in I
  <2>1. e - b \in 1..(Len(t) - b) /\ b + (e - b) = e
    BY <1>1
  <2>2. QED
    BY <1>2, <2>1
<1>4. \A j \in I : e - b <= j
  <2>1. ASSUME NEW j \in I, j < e - b PROVE FALSE
    <3>1. j \in 1..(Len(t) - b) /\ rest[j] = 0
      BY <1>2
    <3>2. b + j \in (b + 1)..(e - 1)
      BY <1>1, <2>1, <3>1
    <3>3. QED
      BY <1>2, <3>1, <3>2
  <2>2. I \subseteq Int /\ e - b \in Int
    BY <1>1
  <2> HIDE DEF I
  <2>3. QED
    BY <2>1, <2>2
<1>5. I \in SUBSET Nat /\ I # {}
  BY <1>3
<1>6. SelectInSeq(rest, LAMBDA x : x = 0) = Min(I)
  BY <1>5 DEF SelectInSeq
<1>7. Min(I) = e - b
  <2>1. Min(I) \in I /\ \A j \in I : Min(I) <= j
    BY <1>5, MinOfNat
  <2>2. I \subseteq Int /\ e - b \in Int
    BY <1>1
  <2> HIDE DEF I
  <2>3. Min(I) <= e - b /\ e - b <= Min(I) /\ Min(I) \in Int
    BY <1>3, <1>4, <2>1, <2>2
  <2>4. QED
    BY <2>2, <2>3
<1>8. CString(t, b) = SubSeq(rest, 1, e - b - 1)
  <2>1. e - b # 0
    BY <1>1
  <2>2. QED
    BY <1>6, <1>7, <2>1 DEF CString, rest
<1> DEFINE n == e - b - 1
<1>9. n \in Nat /\ b + n <= Len(t) /\ n <= Len(rest) /\ n <= Len(t) - b /\ e - 1 = b + n
  BY <1>1, <1>2
<1> HIDE DEF n, I
<1> DEFINE z == 0
<1>10. /\ z \in Nat /\ z + n <= Len(rest) /\ z + 1 = 1 /\ z + n = n
       /\ \A i \in 1..n : rest[z + i] = t[b + i]
  BY <1>1, <1>2, <1>9
<1> HIDE DEF z
<1>11. SubSeq(rest, z + 1, z + n) = SubSeq(t, b + 1, b + n)
  BY <1>2, <1>9, <1>10, SamePart
<1>12. QED
  BY <1>8, <1>9, <1>10, <1>11 DEF n

(* A field of n bytes behind the first i of a string, which has no zero     *)
(* but is followed by one.                                                 *)
Closed(s, i, n) ==
  /\ s \in Seq(Nat) /\ i \in Nat /\ n \in Nat
  /\ i + n + 1 \in 1..Len(s) /\ s[i + n + 1] = 0
  /\ \A j \in (i + 1)..(i + n) : s[j] # 0

(* Its delimiters, where its parts begin, and where each of them ends.      *)
Delimiters(s, i, n) == {j \in DOMAIN s : i < j /\ j <= i + n /\ s[j] = Slash}

PartsBegin(s, i, n) == <<i>> \o Ascending(Delimiters(s, i, n))

PartEnd(s, i, n, k) ==
  IF k < Len(PartsBegin(s, i, n)) THEN PartsBegin(s, i, n)[k + 1] ELSE i + n + 1

(* What is between the beginning and the end of a part has no delimiter, and *)
(* what ends a part but the last is one.                                   *)
IsPart(s, i, n, k) ==
  LET b == PartsBegin(s, i, n)[k]
      e == PartEnd(s, i, n, k)
  IN /\ b \in i..(i + n) /\ e \in (b + 1)..(i + n + 1)
     /\ k # 1 => b \in Delimiters(s, i, n) /\ PartEnd(s, i, n, k - 1) = b
     /\ k < Len(PartsBegin(s, i, n)) => e \in Delimiters(s, i, n)
     /\ \A j \in (b + 1)..(e - 1) : j \notin Delimiters(s, i, n)

(* The parts follow each other, from the beginning of the field to its end. *)
LEMMA PartsOfField ==
  ASSUME NEW s, NEW i, NEW n, Closed(s, i, n)
  PROVE  LET c == Len(PartsBegin(s, i, n))
         IN /\ c \in Nat \ {0} /\ DOMAIN PartsBegin(s, i, n) = 1..c
            /\ PartsBegin(s, i, n)[1] = i /\ PartEnd(s, i, n, c) = i + n + 1
            /\ \A k \in 1..c : IsPart(s, i, n, k)
<1> DEFINE D == Delimiters(s, i, n)
           a == Ascending(D)
           m == Cardinality(D)
           b == PartsBegin(s, i, n)
<1>1. /\ s \in Seq(Nat) /\ i \in Nat /\ n \in Nat /\ Len(s) \in Nat /\ DOMAIN s = 1..Len(s)
      /\ i + n + 1 <= Len(s)
  BY DEF Closed
<1>2. \A j \in D : j \in Nat /\ i < j /\ j <= i + n
  BY <1>1 DEF Delimiters
<1>3. D \in SUBSET Nat /\ IsFiniteSet(D)
  <2>1. IsFiniteSet(1..Len(s))
    BY <1>1, FS_Interval
  <2>2. D \subseteq 1..Len(s)
    BY <1>1 DEF Delimiters
  <2> HIDE DEF D
  <2>3. QED
    BY <1>2, <2>1, <2>2, FS_Subset
<1> HIDE DEF D
<1>4. m \in Nat
  BY <1>3, FS_CardinalityType
<1>5. /\ a \in Seq(D) /\ DOMAIN a = 1..m
      /\ \A p, q \in 1..m : p < q => a[p] < a[q]
  BY <1>3, AscendingProperties
<1>6. \A j \in D : \E p \in 1..m : a[p] = j
  BY <1>3, <1>5, AscendingAll
<1> HIDE DEF m, a
<1>7. a \in Seq(Nat) /\ Len(a) = m /\ \A p \in 1..m : a[p] \in D
  <2>1. Len(a) = m /\ a \in [1..m -> D]
    BY <1>4, <1>5
  <2>2. a \in [1..m -> Nat]
    BY <1>3, <2>1
  <2>3. QED
    BY <1>4, <2>1, <2>2
<1>8. b = <<i>> \o a
  BY DEF PartsBegin, D, a
<1>9. /\ b \in Seq(Nat) /\ Len(b) = m + 1 /\ DOMAIN b = 1..(m + 1) /\ b[1] = i
      /\ \A k \in 2..(m + 1) : b[k] = a[k - 1]
  <2>1. <<i>> \in Seq(Nat) /\ Len(<<i>>) = 1 /\ <<i>>[1] = i
    BY <1>1
  <2>2. /\ b \in Seq(Nat) /\ Len(b) = 1 + m
        /\ \A k \in 1..(1 + m) : b[k] = IF k <= 1 THEN <<i>>[k] ELSE a[k - 1]
    BY <1>7, <1>8, <2>1, ConcatProperties
  <2> HIDE DEF b
  <2>3. QED
    BY <1>4, <2>1, <2>2
<1>10. ASSUME NEW k \in 1..(m + 1) PROVE PartEnd(s, i, n, k) = IF k <= m THEN a[k] ELSE i + n + 1
  <2>1. k < m + 1 <=> k <= m
    BY <1>4
  <2>2. k <= m => k + 1 \in 2..(m + 1) /\ (k + 1) - 1 = k
    BY <1>4
  <2> HIDE DEF b
  <2>3. k <= m => b[k + 1] = a[k]
    BY <1>9, <2>2
  <2>4. PartEnd(s, i, n, k) = IF k < Len(b) THEN b[k + 1] ELSE i + n + 1
    BY DEF PartEnd, b
  <2>5. QED
    BY <1>9, <2>1, <2>3, <2>4
<1> HIDE DEF b
<1>11. ASSUME NEW k \in 1..(m + 1) PROVE IsPart(s, i, n, k)
  <2> DEFINE x == b[k]
             e == PartEnd(s, i, n, k)
  <2>1. k # 1 => k - 1 \in 1..m /\ k - 1 \in 1..(m + 1) /\ k \in 2..(m + 1)
    BY <1>4
  <2>2. k # 1 => x = a[k - 1] /\ x \in D /\ PartEnd(s, i, n, k - 1) = x
    BY <1>7, <1>9, <1>10, <2>1
  <2>3. x \in i..(i + n)
    <3>1. CASE k = 1
      BY <1>1, <1>9, <3>1
    <3>2. CASE k # 1
      BY <1>1, <1>2, <2>2, <3>2
    <3>3. QED
      BY <3>1, <3>2
  <2>4. k <= m => e = a[k] /\ e \in D /\ k \in 1..m
    BY <1>4, <1>7, <1>10
  <2>5. ~(k <= m) => e = i + n + 1
    BY <1>10
  <2> HIDE DEF e, x
  <2>6. e \in (x + 1)..(i + n + 1)
    <3>1. CASE ~(k <= m)
      BY <1>1, <2>3, <2>5, <3>1
    <3>2. CASE k <= m
      <4>1. e \in Nat /\ i < e /\ e <= i + n
        BY <1>2, <2>4, <3>2
      <4>2. x < e
        <5>1. CASE k = 1
          BY <1>9, <4>1, <5>1 DEF x
        <5>2. CASE k # 1
          <6>1. a[k - 1] < a[k]
            <7>1. k - 1 \in 1..m /\ k \in 1..m /\ k - 1 < k
              BY <2>1, <2>4, <3>2, <5>2
            <7>2. QED
              BY <1>5, <7>1
          <6>2. QED
            BY <2>2, <2>4, <3>2, <5>2, <6>1
        <5>3. QED
          BY <5>1, <5>2
      <4>3. QED
        BY <1>1, <2>3, <4>1, <4>2
    <3>3. QED
      BY <3>1, <3>2
  <2>7. ASSUME NEW j \in (x + 1)..(e - 1), j \in D PROVE FALSE
    <3>1. PICK p \in 1..m : a[p] = j
      BY <1>6, <2>7
    <3>2. x \in Int /\ e \in Int /\ x < j /\ j < e
      BY <1>1, <2>3, <2>6, <2>7
    <3>3. k # 1 => ~(p <= k - 1)
      <4>1. ASSUME k # 1, p <= k - 1 PROVE FALSE
        <5>1. p = k - 1 \/ p < k - 1
          BY <1>4, <4>1
        <5>2. k - 1 \in 1..m
          BY <2>1, <4>1
        <5>3. p = k - 1 \/ a[p] < a[k - 1]
          BY <1>5, <5>1, <5>2
        <5>4. j = x \/ j < x
          BY <2>2, <3>1, <4>1, <5>3
        <5>5. QED
          BY <3>2, <5>4
      <4>2. QED
        BY <4>1
    <3>4. k <= p
      BY <1>4, <3>3
    <3>5. k <= m
      BY <1>4, <3>4
    <3>6. p = k \/ a[k] < a[p]
      <4>1. p = k \/ k < p
        BY <3>4
      <4>2. k \in 1..m
        BY <2>4, <3>5
      <4>3. QED
        BY <1>5, <4>1, <4>2
    <3>7. e = j \/ e < j
      BY <2>4, <3>1, <3>5, <3>6
    <3>8. QED
      BY <3>2, <3>7
  <2>8. k < m + 1 => k <= m
    BY <1>4
  <2>9. QED
    BY <1>9, <2>2, <2>3, <2>4, <2>6, <2>7, <2>8 DEF IsPart, x, e, b, D
<1>12. PartEnd(s, i, n, m + 1) = i + n + 1
  <2>1. m + 1 \in 1..(m + 1) /\ ~(m + 1 <= m)
    BY <1>4
  <2>2. QED
    BY <1>10, <2>1
<1>13. m + 1 \in Nat \ {0}
  BY <1>4
<1>14. QED
  BY <1>9, <1>11, <1>12, <1>13 DEF b

(* gc_parse_delimiter(): each argument is what is between the beginning of *)
(* a part and its end.                                                     *)
LEMMA ArgumentIsPart ==
  ASSUME NEW s, NEW i, NEW n, Closed(s, i, n)
  PROVE  LET argv == gc_parse_delimiter(s, i, n)
             b    == PartsBegin(s, i, n)
         IN /\ DOMAIN argv = 1..Len(b)
            /\ \A k \in 1..Len(b) : argv[k] = SubSeq(s, b[k] + 1, PartEnd(s, i, n, k) - 1)
<1> DEFINE D == Delimiters(s, i, n)
           b == PartsBegin(s, i, n)
           argv == gc_parse_delimiter(s, i, n)
           t == [j \in DOMAIN s |-> IF i < j /\ j <= i + n /\ s[j] = Slash THEN 0 ELSE s[j]]
<1>1. /\ s \in Seq(Nat) /\ i \in Nat /\ n \in Nat /\ Len(s) \in Nat /\ DOMAIN s = 1..Len(s)
      /\ i + n + 1 \in 1..Len(s) /\ s[i + n + 1] = 0
      /\ \A j \in (i + 1)..(i + n) : s[j] # 0
  BY DEF Closed
<1>2. argv = [k \in DOMAIN b |-> CString(t, b[k])]
  BY DEF gc_parse_delimiter, PartsBegin, Delimiters
<1>3. /\ DOMAIN b = 1..Len(b) /\ \A k \in 1..Len(b) : IsPart(s, i, n, k)
      /\ PartEnd(s, i, n, Len(b)) = i + n + 1 /\ Len(b) \in Nat \ {0}
  BY PartsOfField
<1> HIDE DEF argv
<1>4. t \in Seq(Nat) /\ Len(t) = Len(s) /\ \A j \in 1..Len(s) : t[j] = IF j \in D THEN 0 ELSE s[j]
  <2>1. \A j \in 1..Len(s) : s[j] \in Nat
    BY <1>1
  <2>2. t \in [1..Len(s) -> Nat]
    BY <1>1, <2>1
  <2>3. \A j \in 1..Len(s) : t[j] = IF j \in D THEN 0 ELSE s[j]
    BY <1>1 DEF Delimiters
  <2> HIDE DEF t
  <2>4. Len(t) = Len(s) /\ t \in Seq(Nat)
    <3> DEFINE l == Len(s)
    <3>1. l \in Nat /\ t \in [1..l -> Nat]
      BY <1>1, <2>2
    <3> HIDE DEF l
    <3>2. Len(t) = l /\ t \in Seq(Nat)
      BY <3>1
    <3>3. QED
      BY <3>2 DEF l
  <2>5. QED
    BY <2>3, <2>4
<1> HIDE DEF t
<1>5. ASSUME NEW k \in 1..Len(b)
      PROVE  CString(t, b[k]) = SubSeq(s, b[k] + 1, PartEnd(s, i, n, k) - 1)
  <2> DEFINE x == b[k]
             e == PartEnd(s, i, n, k)
  <2>1. /\ x \in i..(i + n) /\ e \in (x + 1)..(i + n + 1)
        /\ k < Len(b) => e \in D
        /\ \A j \in (x + 1)..(e - 1) : j \notin D
    <3>1. IsPart(s, i, n, k)
      BY <1>3
    <3>2. QED
      BY <3>1 DEF IsPart
  <2>2. k = Len(b) => e = i + n + 1
    BY <1>3
  <2>3. k < Len(b) \/ k = Len(b)
    <3> DEFINE l == Len(b)
    <3>1. l \in Nat /\ k \in 1..l
      BY <1>3
    <3> HIDE DEF l
    <3>2. k < l \/ k = l
      BY <3>1
    <3>3. QED
      BY <3>2 DEF l
  <2> HIDE DEF D, b, x, e
  <2>4. x \in Nat /\ e \in (x + 1)..Len(s) /\ e \in 1..Len(s)
    BY <1>1, <2>1
  <2>5. t[e] = 0
    <3>1. CASE k < Len(b)
      BY <1>4, <2>1, <2>4, <3>1
    <3>2. CASE k = Len(b)
      BY <1>1, <1>4, <2>2, <2>4, <3>2
    <3>3. QED
      BY <2>3, <3>1, <3>2
  <2>6. ASSUME NEW j \in (x + 1)..(e - 1) PROVE j \in 1..Len(s) /\ t[j] = s[j] /\ t[j] # 0
    <3>1. j \in 1..Len(s) /\ j \in (i + 1)..(i + n)
      BY <1>1, <2>1, <2>4
    <3>2. QED
      BY <1>1, <1>4, <2>1, <3>1
  <2>7. CString(t, x) = SubSeq(t, x + 1, e - 1)
    BY <1>4, <2>4, <2>5, <2>6, StringRead
  <2>8. SubSeq(t, x + 1, e - 1) = SubSeq(s, x + 1, e - 1)
    <3> DEFINE u == SubSeq(t, x + 1, e - 1)
               v == SubSeq(s, x + 1, e - 1)
               m == (e - 1) - (x + 1) + 1
    <3>1. x + 1 \in Int /\ e - 1 \in Int
      BY <2>4
    <3>2. \A j \in (x + 1)..(e - 1) : t[j] \in Nat /\ s[j] \in Nat
      BY <1>1, <1>4, <2>6
    <3>3. /\ u \in Seq(Nat) /\ Len(u) = IF x + 1 <= e - 1 THEN m ELSE 0
          /\ \A j \in 1..m : u[j] = t[(x + 1) + j - 1]
      BY <3>1, <3>2, SubSeqProperties
    <3>4. /\ v \in Seq(Nat) /\ Len(v) = IF x + 1 <= e - 1 THEN m ELSE 0
          /\ \A j \in 1..m : v[j] = s[(x + 1) + j - 1]
      BY <3>1, <3>2, SubSeqProperties
    <3>5. \A j \in 1..m : (x + 1) + j - 1 \in (x + 1)..(e - 1)
      BY <2>4
    <3> HIDE DEF u, v
    <3>6. \A j \in 1..m : u[j] = v[j]
      BY <2>6, <3>3, <3>4, <3>5
    <3>7. 1..Len(u) \subseteq 1..m /\ Len(u) = Len(v)
      BY <2>4, <3>3, <3>4
    <3>8. u = v
      BY <3>3, <3>4, <3>6, <3>7, SeqEqual
    <3>9. QED
      BY <3>8 DEF u, v
  <2>9. QED
    BY <2>7, <2>8 DEF x, e
<1>6. QED
  BY <1>2, <1>3, <1>5 DEF argv

(* No argument has a delimiter.                                            *)
LEMMA ArgumentsSeparated ==
  ASSUME NEW s, NEW i, NEW n, Closed(s, i, n)
  PROVE  \A k \in DOMAIN gc_parse_delimiter(s, i, n) :
           ~Contains(gc_parse_delimiter(s, i, n)[k], Slash)
<1> DEFINE b == PartsBegin(s, i, n)
           argv == gc_parse_delimiter(s, i, n)
<1>1. /\ s \in Seq(Nat) /\ i \in Nat /\ n \in Nat /\ Len(s) \in Nat /\ DOMAIN s = 1..Len(s)
      /\ i + n + 1 \in 1..Len(s)
  BY DEF Closed
<1>2. /\ DOMAIN argv = 1..Len(b)
      /\ \A k \in 1..Len(b) : argv[k] = SubSeq(s, b[k] + 1, PartEnd(s, i, n, k) - 1)
  BY ArgumentIsPart
<1> HIDE DEF argv
<1>3. ASSUME NEW k \in 1..Len(b) PROVE ~Contains(argv[k], Slash)
  <2> DEFINE x == b[k]
             e == PartEnd(s, i, n, k)
             v == SubSeq(s, x + 1, e - 1)
             m == (e - 1) - (x + 1) + 1
  <2>1. /\ x \in i..(i + n) /\ e \in (x + 1)..(i + n + 1)
        /\ \A j \in (x + 1)..(e - 1) : j \notin Delimiters(s, i, n)
    <3>1. IsPart(s, i, n, k)
      BY PartsOfField
    <3>2. QED
      BY <3>1 DEF IsPart
  <2>2. argv[k] = v
    BY <1>2
  <2> HIDE DEF b, x, e
  <2>3. x + 1 \in Int /\ e - 1 \in Int
    BY <1>1, <2>1
  <2>4. ASSUME NEW j \in (x + 1)..(e - 1) PROVE s[j] # Slash /\ s[j] \in Nat
    <3>1. j \in 1..Len(s) /\ i < j /\ j <= i + n
      BY <1>1, <2>1
    <3>2. QED
      BY <1>1, <2>1, <3>1 DEF Delimiters
  <2>5. /\ v \in Seq(Nat) /\ Len(v) = IF x + 1 <= e - 1 THEN m ELSE 0
        /\ \A j \in 1..m : v[j] = s[(x + 1) + j - 1]
    <3>1. \A j \in (x + 1)..(e - 1) : s[j] \in Nat
      BY <2>4
    <3>2. QED
      BY <2>3, <3>1, SubSeqProperties
  <2>6. \A j \in 1..m : (x + 1) + j - 1 \in (x + 1)..(e - 1)
    BY <2>3
  <2> HIDE DEF v
  <2>7. \A j \in 1..Len(v) : v[j] # Slash
    <3>1. 1..Len(v) \subseteq 1..m
      BY <2>3, <2>5
    <3> HIDE DEF m
    <3>2. QED
      BY <2>4, <2>5, <2>6, <3>1
  <2>8. ~Contains(v, Slash)
    BY <2>5, <2>7 DEF Contains
  <2>9. QED
    BY <2>2, <2>8
<1>4. QED
  BY <1>2, <1>3 DEF argv

(* The arguments, with delimiters between them, are the field.             *)
LEMMA ArgumentsJoin ==
  ASSUME NEW s, NEW i, NEW n, Closed(s, i, n)
  PROVE  Joined(gc_parse_delimiter(s, i, n)) = SubSeq(s, i + 1, i + n)
<1> DEFINE b == PartsBegin(s, i, n)
           argv == gc_parse_delimiter(s, i, n)
           c == Len(b)
           seqs == [k \in DOMAIN argv |-> IF k = 1 THEN argv[1] ELSE <<Slash>> \o argv[k]]
           End(k) == PartEnd(s, i, n, k)
           Upto(k) == SubSeq(s, i + 1, End(k) - 1)
<1>1. /\ s \in Seq(Nat) /\ i \in Nat /\ n \in Nat /\ Len(s) \in Nat /\ DOMAIN s = 1..Len(s)
      /\ i + n + 1 \in 1..Len(s)
  BY DEF Closed
<1>2. /\ c \in Nat \ {0} /\ DOMAIN argv = 1..c
      /\ \A k \in 1..c : argv[k] = SubSeq(s, b[k] + 1, End(k) - 1)
      /\ b[1] = i /\ End(c) = i + n + 1
  BY PartsOfField, ArgumentIsPart
<1>3. ASSUME NEW k \in 1..c
      PROVE  /\ b[k] \in Nat /\ End(k) \in Nat /\ i <= b[k] /\ b[k] < End(k) /\ End(k) <= Len(s)
             /\ k # 1 => b[k] \in 1..Len(s) /\ i < b[k] /\ s[b[k]] = Slash /\ End(k - 1) = b[k]
  <2> DEFINE x == b[k]
             e == End(k)
  <2>1. /\ x \in i..(i + n) /\ e \in (x + 1)..(i + n + 1)
        /\ k # 1 => x \in Delimiters(s, i, n) /\ End(k - 1) = x
    <3>1. IsPart(s, i, n, k)
      BY PartsOfField
    <3>2. QED
      BY <3>1 DEF IsPart
  <2>2. k # 1 => x \in 1..Len(s) /\ i < x /\ s[x] = Slash
    BY <1>1, <2>1 DEF Delimiters
  <2> HIDE DEF x, e, b
  <2>3. x \in Nat /\ e \in Nat /\ i <= x /\ x < e /\ e <= Len(s)
    BY <1>1, <2>1
  <2>4. QED
    BY <2>1, <2>2, <2>3 DEF x, e
<1> HIDE DEF argv, b, c, End
<1>4. ASSUME NEW k \in 1..c
      PROVE  /\ argv[k] \in Seq(Nat) /\ <<Slash>> \o argv[k] \in Seq(Nat)
             /\ k # 1 => <<Slash>> \o argv[k] = SubSeq(s, b[k], End(k) - 1)
  <2> DEFINE x == b[k]
             e == End(k) - 1
  <2>1. x \in Nat /\ e \in Nat /\ x <= e /\ e <= Len(s) /\ argv[k] = SubSeq(s, x + 1, e)
    <3>1. b[k] \in Nat /\ End(k) \in Nat /\ b[k] < End(k) /\ End(k) <= Len(s)
      BY <1>3
    <3>2. argv[k] = SubSeq(s, x + 1, e)
      BY <1>2
    <3>3. \A y, z \in Nat : y < z /\ z <= Len(s) => z - 1 \in Nat /\ y <= z - 1 /\ z - 1 <= Len(s)
      BY <1>1
    <3> HIDE DEF End
    <3>4. QED
      BY <3>1, <3>2, <3>3
  <2>2. k # 1 => x \in 1..Len(s) /\ s[x] = Slash
    BY <1>3
  <2> HIDE DEF x, e
  <2>3. argv[k] \in Seq(Nat)
    <3>1. \A j \in (x + 1)..e : s[j] \in Nat
      BY <1>1, <2>1
    <3>2. x + 1 \in Int /\ e \in Int
      BY <2>1
    <3>3. QED
      BY <2>1, <3>1, <3>2, SubSeqProperties
  <2>4. <<Slash>> \in Seq(Nat)
    BY DEF Slash
  <2>5. <<Slash>> \o argv[k] \in Seq(Nat)
    BY <2>3, <2>4, ConcatProperties
  <2>6. k # 1 => <<Slash>> \o argv[k] = SubSeq(s, x, e)
    <3>1. k # 1 => x \in 1..Len(s) /\ e \in x..Len(s)
      BY <2>1, <2>2
    <3>2. k # 1 => SubSeq(s, x, e) = <<s[x]>> \o SubSeq(s, x + 1, e)
      BY <1>1, <3>1, SubSeqRecursiveFirst
    <3>3. QED
      BY <2>1, <2>2, <3>2
  <2>7. QED
    BY <2>3, <2>5, <2>6 DEF x, e
<1>5. seqs \in Seq(Seq(Nat)) /\ Len(seqs) = c
  <2>1. seqs \in [1..c -> Seq(Nat)]
    <3>1. ASSUME NEW k \in 1..c
          PROVE  (IF k = 1 THEN argv[1] ELSE <<Slash>> \o argv[k]) \in Seq(Nat)
      <4>1. 1 \in 1..c
        BY <1>2
      <4>2. QED
        BY <1>4, <4>1
    <3>2. QED
      BY <1>2, <3>1
  <2> HIDE DEF seqs
  <2>2. QED
    BY <1>2, <2>1
<1>6. seqs[1] = argv[1] /\ \A k \in 1..c : k # 1 => seqs[k] = SubSeq(s, b[k], End(k) - 1)
  <2>1. 1 \in DOMAIN argv
    BY <1>2
  <2>2. QED
    BY <1>2, <1>4, <2>1
<1>7. Joined(argv) = FlattenSeq(seqs)
  BY DEF Joined
<1> HIDE DEF seqs
<1>8. PICK upto : /\ FlattenSeq(seqs) = upto[c]
                  /\ \A k \in 1..c : upto[k] = IF k = 1 THEN seqs[k] ELSE upto[k - 1] \o seqs[k]
  <2>1. PICK upto : /\ FlattenSeq(seqs) = IF Len(seqs) = 0 THEN <<>> ELSE upto[Len(seqs)]
                    /\ \A k \in 1..Len(seqs) :
                         upto[k] = IF k = 1 THEN seqs[k] ELSE upto[k - 1] \o seqs[k]
    BY <1>5, FlattenUpto
  <2>2. QED
    BY <1>2, <1>5, <2>1
<1> DEFINE P == {k \in 0..(c - 1) : upto[k + 1] = Upto(k + 1)}
<1>9. 0 \in P
  <2>1. 1 \in 1..c /\ 0 \in 0..(c - 1) /\ 0 + 1 = 1
    BY <1>2
  <2>2. upto[1] = seqs[1]
    BY <1>8, <2>1
  <2>3. argv[1] = SubSeq(s, i + 1, End(1) - 1)
    BY <1>2, <2>1
  <2>4. upto[1] = Upto(1)
    BY <1>6, <2>2, <2>3
  <2> HIDE DEF Upto
  <2>5. QED
    BY <2>1, <2>4
<1>10. ASSUME NEW k \in 0..((c - 1) - 1), k \in P PROVE k + 1 \in P
  <2> DEFINE m == k + 2
             x == b[m]
             e == End(m) - 1
  <2>1. /\ m \in 1..c /\ m # 1 /\ k + 1 \in 0..(c - 1) /\ (k + 1) + 1 = m /\ m - 1 = k + 1
    BY <1>2
  <2>2. upto[k + 1] = Upto(k + 1)
    BY <1>10
  <2>3. upto[m] = upto[m - 1] \o seqs[m]
    BY <1>8, <2>1
  <2>4. seqs[m] = SubSeq(s, x, e)
    BY <1>6, <2>1
  <2>5. /\ x \in Nat /\ End(m) \in Nat /\ i < x /\ x < End(m) /\ End(m) <= Len(s)
        /\ End(m - 1) = x
    BY <1>3, <2>1
  <2>6. upto[m - 1] = SubSeq(s, i + 1, x - 1)
    BY <2>1, <2>2, <2>5
  <2> HIDE DEF x, m, Upto
  <2>7. e \in Nat /\ x <= e /\ e <= Len(s)
    BY <1>1, <2>5
  <2>8. e = End(m) - 1
    OBVIOUS
  <2> HIDE DEF e
  <2>9. SubSeq(s, i + 1, x - 1) \o SubSeq(s, (x - 1) + 1, e) = SubSeq(s, i + 1, e)
    <3>1. i + 1 \in 1..(Len(s) + 1) /\ x - 1 \in ((i + 1) - 1)..Len(s) /\ e \in (x - 1)..Len(s)
      BY <1>1, <2>5, <2>7
    <3>2. QED
      BY <1>1, <3>1, ConcatAdjacentSubSeq
  <2>10. (x - 1) + 1 = x
    BY <2>5
  <2>11. upto[m] = SubSeq(s, i + 1, e)
    BY <2>3, <2>4, <2>6, <2>9, <2>10
  <2>12. upto[m] = Upto(m)
    BY <2>8, <2>11 DEF Upto
  <2>13. QED
    BY <2>1, <2>12
<1>11. c - 1 \in P
  <2> HIDE DEF P
  <2>1. c - 1 \in Nat /\ c - 1 \in 0..(c - 1)
    BY <1>2
  <2>2. \A k \in 0..(c - 1) : k \in P
    BY <1>9, <1>10, <2>1, Upwards
  <2>3. QED
    BY <2>1, <2>2
<1>12. upto[c] = SubSeq(s, i + 1, i + n)
  <2>1. (c - 1) + 1 = c
    BY <1>2
  <2>2. upto[c] = SubSeq(s, i + 1, (i + n + 1) - 1)
    BY <1>2, <1>11, <2>1
  <2>3. (i + n + 1) - 1 = i + n
    BY <1>1
  <2>4. QED
    BY <2>2, <2>3
<1>13. QED
  BY <1>7, <1>8, <1>12 DEF argv

(* The highest byte of a number that does not reach it is a zero.          *)
LEMMA HighByteZero ==
  ASSUME NEW n \in Nat, n * Base < IntValues
  PROVE  BigEndian(n)[1] = 0
<1>1. Word \in Nat \ {0, 1} /\ Base \in Nat \ {0}
  BY CodecAssumption DEF CodecAssumption
<1>2. PICK rest \in [0..Word -> Nat] :
         /\ rest[0] = n /\ \A i \in 1..Word : rest[i] = rest[i - 1] \div Base
         /\ InMemory(n) = [i \in 1..Word |-> (rest[i - 1] % Base)]
  BY Digits
<1>3. PICK power \in [0..Word -> Nat] :
         /\ power[0] = 1 /\ power[Word] = IntValues
         /\ \A i \in 1..Word : power[i] = power[i - 1] * Base
  BY Powers
<1> DEFINE last == Word - 1
           P == {i \in 0..last : rest[i] < power[last - i]}
<1>4. last \in Nat /\ last \in 0..Word /\ last \in 0..last /\ last - last = 0
  BY <1>1
<1>5. 0 \in P
  <2> DEFINE x == power[last]
  <2>1. x \in Nat /\ x * Base = IntValues
    <3>1. Word \in 1..Word /\ Word - 1 = last
      BY <1>1
    <3>2. QED
      BY <1>3, <1>4, <3>1
  <2> HIDE DEF x
  <2>2. n < x
    <3>1. SUFFICES ASSUME n >= x PROVE FALSE
      BY <2>1
    <3>2. n * Base >= x * Base
      BY <1>1, <2>1, <3>1
    <3>3. n * Base \in Nat /\ x * Base \in Nat
      BY <1>1, <2>1
    <3>4. QED
      BY <2>1, <3>2, <3>3
  <2>3. last - 0 = last /\ 0 \in 0..last
    BY <1>4
  <2> HIDE DEF last
  <2>4. QED
    BY <1>2, <2>2, <2>3 DEF x
<1>6. ASSUME NEW k \in 0..(last - 1), k \in P PROVE k + 1 \in P
  <2>1. /\ k \in 0..Word /\ k + 1 \in 0..last /\ k + 1 \in 1..Word /\ (k + 1) - 1 = k
        /\ last - k \in 1..Word /\ (last - k) - 1 = last - (k + 1) /\ last - (k + 1) \in 0..Word
    BY <1>1
  <2> DEFINE x == rest[k]
             m == power[last - (k + 1)]
  <2>2. x \in Nat /\ m \in Nat /\ power[last - k] = m * Base
    BY <1>2, <1>3, <2>1
  <2>3. rest[k] < power[last - k]
    BY <1>6
  <2>4. x < m * Base
    BY <2>2, <2>3
  <2>5. rest[k + 1] = x \div Base
    BY <1>2, <2>1
  <2> HIDE DEF x, m
  <2>6. x \div Base < m
    BY <1>1, <2>2, <2>4, DivLess
  <2>7. rest[k + 1] < power[last - (k + 1)]
    BY <2>5, <2>6 DEF m
  <2>8. QED
    BY <2>1, <2>7
<1>7. last \in P
  <2>1. \A i \in 0..last : i \in P
    <3> HIDE DEF P
    <3>1. QED
      BY <1>4, <1>5, <1>6, Upwards
  <2>2. QED
    BY <1>4, <2>1
<1>8. rest[last] = 0
  <2>1. rest[last] \in Nat /\ rest[last] < 1
    BY <1>2, <1>3, <1>4, <1>7
  <2>2. QED
    BY <2>1
<1>9. InMemory(n)[Word] = 0
  <2>1. InMemory(n)[Word] = (rest[last] % Base)
    BY <1>1, <1>2
  <2>2. (0 % Base) = 0
    BY <1>1
  <2>3. QED
    BY <1>8, <2>1, <2>2
<1>10. BigEndian(n)[1] = InMemory(n)[Word]
  <2>1. 1 \in 1..Word /\ (Word + 1) - 1 = Word
    BY <1>1
  <2>2. QED
    BY <2>1, BigEndianProperties
<1>11. QED
  BY <1>9, <1>10

(* A header lies in its packet with the length of the body behind it, whose *)
(* first byte is a zero.                                                   *)
LEMMA HeaderClosed ==
  ASSUME NEW p, IsPacket(p), p.type = "MESSAGE_FROM", IsMessage(p)
  PROVE  LET src == gc_serialize(p)
             a   == gc_deserialize(src).at["tp"]
         IN /\ Closed(src, a, Len(p.u.tp)) /\ a \in Nat
            /\ SubSeq(src, a + 1, a + Len(p.u.tp)) = p.u.tp
<1> DEFINE src == gc_serialize(p)
           tp  == p.u.tp
           body == p.u.body
           n   == Len(tp)
           a   == gc_deserialize(src).at["tp"]
           fields == Written[p.type]
<1>1. fields = <<"from_cloud", "from_device", "from_address", "tp", "body">>
  BY DEF Written
<1>2. Len(fields) = 5 /\ fields[4] = "tp" /\ fields[5] = "body" /\ DOMAIN fields = 1..5
  BY <1>1
<1>3. "tp" \in ToSet(fields) /\ Place(fields, "tp") = 4
  <2>1. "tp" \in ToSet(fields)
    BY <1>2 DEF ToSet
  <2>2. \A k \in 1..5 : fields[k] = "tp" => k = 4
    BY <1>1
  <2>3. Place(fields, "tp") \in 1..5 /\ fields[Place(fields, "tp")] = "tp"
    BY <1>2, <2>1, PlaceOf
  <2>4. QED
    BY <2>1, <2>2, <2>3
<1>4. /\ Parts(p) \in Seq(Seq(Byte)) /\ Len(Parts(p)) = 5 /\ src \in Seq(Byte)
      /\ Len(src) = 2 * Word + Len(FlattenSeq(Parts(p)))
      /\ \A j \in 1..Len(FlattenSeq(Parts(p))) : src[2 * Word + j] = FlattenSeq(Parts(p))[j]
  BY <1>2, Serialized
<1>5. PICK off : Begins(Parts(p), off)
  BY <1>4, BeginsExists
<1>6. a = 2 * Word + off[3] + Word
  <2>1. a = 2 * Word + off[Place(fields, "tp") - 1] + Word
    BY <1>3, <1>5, ReadBack
  <2>2. QED
    BY <1>3, <2>1
<1>7. /\ tp \in Seq(Byte) /\ n \in Nat /\ body \in Seq(Byte) /\ Len(body) \in Nat /\ Word \in Nat \ {0, 1}
  <2>1. p.u[fields[4]] \in Seq(Byte) /\ p.u[fields[5]] \in Seq(Byte)
    BY <1>2, PacketParts
  <2>2. tp \in Seq(Byte) /\ body \in Seq(Byte)
    BY <1>2, <2>1
  <2>3. QED
    BY <2>2, WordType
<1>8. /\ off[3] \in Nat /\ off[4] = off[3] + Word + n
      /\ \A j \in 1..n : 2 * Word + off[3] + Word + j \in DOMAIN src
                         /\ src[2 * Word + off[3] + Word + j] = tp[j]
  <2>1. FieldIn(p, off, 4)
    BY <1>2, <1>5, FieldsInString
  <2>2. p.u[Written[p.type][4]] = tp /\ 4 - 1 = 3
    BY <1>2
  <2>3. QED
    BY <2>1, <2>2 DEF FieldIn
<1>9. 2 * Word + (off[4] + 1) \in 1..Len(src) /\ src[2 * Word + (off[4] + 1)] = 0
  <2> DEFINE f == FlattenSeq(Parts(p))
             x == off[4] + 1
  <2>1. f \in Seq(Byte) /\ Len(f) \in Nat
    BY <1>4, FlattenProperties
  <2>2. Parts(p)[5] = add_intern(body)
    <3>1. Parts(p)[5] = add_intern(p.u[fields[5]])
      BY <1>2 DEF Parts
    <3>2. QED
      BY <1>2, <3>1
  <2>3. /\ Len(Parts(p)[5]) = Word + Len(body)
        /\ Parts(p)[5][1] = BigEndian(Len(body))[1]
    <3>1. body \in Seq(Byte) /\ 1 \in 1..Word
      BY <1>7
    <3> HIDE DEF body
    <3>2. Len(add_intern(body)) = Word + Len(body) /\ add_intern(body)[1] = BigEndian(Len(body))[1]
      BY <3>1, InternProperties
    <3>3. QED
      BY <2>2, <3>2
  <2>4. 5 \in 1..Len(Parts(p)) /\ 1 \in 1..Len(Parts(p)[5]) /\ 5 - 1 = 4
    BY <1>4, <1>7, <2>3
  <2>5. \A k \in 1..Len(Parts(p)) : \A j \in 1..Len(Parts(p)[k]) :
          off[k - 1] + j \in 1..Len(f) /\ f[off[k - 1] + j] = Parts(p)[k][j]
    <3> DEFINE parts == Parts(p)
    <3>1. parts \in Seq(Seq(Byte)) /\ Begins(parts, off)
      BY <1>4, <1>5
    <3> HIDE DEF parts
    <3>2. \A k \in 1..Len(parts) : \A j \in 1..Len(parts[k]) :
            /\ off[k - 1] + j \in 1..Len(FlattenSeq(parts))
            /\ FlattenSeq(parts)[off[k - 1] + j] = parts[k][j]
      BY <3>1, FlattenAt
    <3>3. QED
      BY <3>2 DEF parts
  <2>6. x \in 1..Len(f) /\ f[x] = Parts(p)[5][1]
    BY <2>4, <2>5
  <2>7. BigEndian(Len(body))[1] = 0
    BY <1>7, HighByteZero DEF IsMessage
  <2> HIDE DEF f, x
  <2>8. 2 * Word + x \in 1..Len(src) /\ src[2 * Word + x] = f[x]
    BY <1>4, <1>7, <2>1, <2>6 DEF f
  <2>9. QED
    BY <2>3, <2>6, <2>7, <2>8 DEF x
<1>10. 0 \notin ToSet(tp)
  BY DEF IsMessage
<1> HIDE DEF src, tp, body, n, a, fields
<1>11. a \in Nat /\ a + n + 1 = 2 * Word + (off[4] + 1)
  <2> DEFINE x == off[3]
             y == off[4]
  <2>1. x \in Nat /\ y = x + Word + n /\ a = 2 * Word + x + Word
    BY <1>6, <1>8
  <2> HIDE DEF x, y
  <2>2. a \in Nat /\ a + n + 1 = 2 * Word + (y + 1)
    BY <1>7, <2>1
  <2>3. QED
    BY <2>2 DEF y
<1>12. DOMAIN tp = 1..n /\ \A j \in 1..n : tp[j] # 0 /\ tp[j] \in Nat
  <2>1. DOMAIN tp = 1..n
    BY <1>7 DEF n
  <2>2. \A j \in 1..n : tp[j] # 0
    BY <1>10, <2>1 DEF ToSet
  <2>3. \A j \in 1..n : tp[j] \in Nat
    <3>1. Byte \subseteq Nat
      BY CodecAssumption DEF Byte, CodecAssumption
    <3>2. \A j \in 1..n : tp[j] \in Byte
      BY <1>7, <2>1
    <3>3. QED
      BY <3>1, <3>2
  <2>4. QED
    BY <2>1, <2>2, <2>3
<1>13. src \in Seq(Nat)
  <2>1. Byte \subseteq Nat
    BY CodecAssumption DEF Byte, CodecAssumption
  <2>2. src \in [1..Len(src) -> Byte] /\ Len(src) \in Nat
    BY <1>4
  <2>3. src \in [1..Len(src) -> Nat]
    BY <2>1, <2>2
  <2>4. QED
    BY <2>2, <2>3
<1>14. \A j \in 1..n : a + j \in DOMAIN src /\ src[a + j] = tp[j]
  BY <1>6, <1>8
<1>15. ASSUME NEW j \in (a + 1)..(a + n) PROVE src[j] # 0
  <2>1. j - a \in 1..n /\ a + (j - a) = j
    BY <1>7, <1>11
  <2>2. QED
    BY <1>12, <1>14, <2>1
<1>16. Closed(src, a, n)
  BY <1>7, <1>9, <1>11, <1>13, <1>15 DEF Closed
<1>17. SubSeq(src, a + 1, a + n) = tp
  <2> DEFINE u == SubSeq(src, a + 1, a + n)
  <2>1. a + n <= Len(src) /\ a + 1 \in Int /\ a + n \in Int /\ Len(src) \in Nat /\ DOMAIN src = 1..Len(src)
    BY <1>7, <1>9, <1>11, <1>13
  <2>2. \A j \in (a + 1)..(a + n) : src[j] \in Nat
    BY <1>11, <1>13, <2>1
  <2>3. /\ u \in Seq(Nat)
        /\ Len(u) = IF a + 1 <= a + n THEN (a + n) - (a + 1) + 1 ELSE 0
        /\ \A j \in 1..((a + n) - (a + 1) + 1) : u[j] = src[(a + 1) + j - 1]
    BY <2>1, <2>2, SubSeqProperties
  <2> HIDE DEF u
  <2>4. (a + n) - (a + 1) + 1 = n /\ (a + 1 <= a + n <=> n # 0)
    BY <1>7, <1>11
  <2>5. \A j \in 1..n : (a + 1) + j - 1 = a + j
    BY <1>7, <1>11
  <2>6. Len(u) = n
    BY <1>7, <2>3, <2>4
  <2>7. \A j \in 1..n : u[j] = tp[j]
    BY <1>14, <2>3, <2>4, <2>5
  <2>8. tp \in Seq(Nat) /\ Len(tp) = n
    <3>1. tp = [j \in 1..n |-> tp[j]]
      BY <1>7, <1>12
    <3>2. tp \in [1..n -> Nat]
      BY <1>12, <3>1
    <3>3. QED
      BY <1>7, <3>2 DEF n
  <2>9. u = tp
    BY <2>3, <2>6, <2>7, <2>8, SeqEqual
  <2>10. QED
    BY <2>9 DEF u
<1>18. QED
  BY <1>11, <1>16, <1>17 DEF src, n, a, tp

(* gc_parse_delimiter(): the arguments of every message that arrives are   *)
(* the parts of its header.                                                *)
THEOREM ArgumentsAreRead == WireSpec => []ArgumentsRead
<1>1. ASSUME WireInv PROVE ArgumentsRead
  <2>1. /\ DOMAIN got = 1..Len(data)
        /\ \A i \in 1..Len(data) : /\ sent[i] \in Packets /\ IsPacket(sent[i])
                                   /\ Sources[i] = gc_serialize(sent[i])
                                   /\ got[i] = gc_deserialize(gc_serialize(sent[i]))
    BY <1>1, GotIsSent
  <2>2. ASSUME NEW i \in 1..Len(data), got[i].type = "MESSAGE_FROM"
        PROVE  LET argv == gc_parse_delimiter(Sources[i], got[i].at["tp"], Len(got[i].u.tp))
               IN /\ Joined(argv) = got[i].u.tp
                  /\ \A k \in DOMAIN argv : ~Contains(argv[k], Slash)
    <3> DEFINE p == sent[i]
               src == gc_serialize(p)
               a == gc_deserialize(src).at["tp"]
    <3>1. p \in Packets /\ IsPacket(p) /\ Sources[i] = src /\ got[i] = gc_deserialize(src)
      BY <2>1
    <3> HIDE DEF p
    <3>2. Parts(p) \in Seq(Seq(Byte))
      BY <3>1, Serialized
    <3>3. PICK off : Begins(Parts(p), off)
      BY <3>2, BeginsExists
    <3>4. gc_deserialize(src).type = p.type /\ gc_deserialize(src).u = p.u
      BY <3>1, <3>3, ReadBack
    <3>5. p.type = "MESSAGE_FROM"
      BY <2>2, <3>1, <3>4
    <3>6. IsMessage(p)
      BY <3>1, <3>5, WireAssumption DEF WireAssumption
    <3>7. Closed(src, a, Len(p.u.tp)) /\ SubSeq(src, a + 1, a + Len(p.u.tp)) = p.u.tp
      BY <3>1, <3>5, <3>6, HeaderClosed
    <3>8. got[i].at["tp"] = a /\ got[i].u.tp = p.u.tp
      BY <3>1, <3>4
    <3> HIDE DEF a, src
    <3>9. Joined(gc_parse_delimiter(src, a, Len(p.u.tp))) = p.u.tp
      BY <3>7, ArgumentsJoin
    <3>10. \A k \in DOMAIN gc_parse_delimiter(src, a, Len(p.u.tp)) :
             ~Contains(gc_parse_delimiter(src, a, Len(p.u.tp))[k], Slash)
      BY <3>7, ArgumentsSeparated
    <3>11. QED
      BY <3>1, <3>8, <3>9, <3>10
  <2>3. QED
    BY <2>1, <2>2 DEF ArgumentsRead
<1>2. QED
  BY <1>1, WireCorrect, PTL
-----------------------------------------------------------------------------
(* An entry of a list, as it is written. *)
FieldParts(fields, x) == [k \in DOMAIN fields |-> add_intern(x[fields[k]])]

EntryBytes(fields, x) == FlattenSeq(FieldParts(fields, x))

(* What an entry consists of. *)
IsEntry(fields, x) == /\ fields \in Seq(ToSet(fields)) /\ fields # <<>>
                      /\ x \in [ToSet(fields) -> Seq(Byte)]

(* It is in a list, behind the first i bytes. *)
EntryIn(list, fields, x, i) ==
  /\ list \in Seq(Byte) /\ 2 * Len(list) < IntValues /\ i \in Nat /\ IsEntry(fields, x)
  /\ \A j \in 1..Len(EntryBytes(fields, x)) :
       i + j \in 1..Len(list) /\ list[i + j] = EntryBytes(fields, x)[j]

(* Its field k is there, behind its length, if its fields are at off. *)
EntryField(list, fields, x, i, off, k) ==
  LET u == x[fields[k]]
      b == i + off[k - 1]
  IN /\ b \in Nat /\ off[k - 1] \in Nat /\ off[k] \in Nat /\ u \in Seq(Byte)
     /\ off[k] = off[k - 1] + Word + Len(u) /\ b < Len(list)
     /\ IntAt(list, b) = Len(u)
     /\ \A j \in 1..Len(u) : b + Word + j \in DOMAIN list /\ list[b + Word + j] = u[j]

(* The parts of an entry are strings. *)
LEMMA FieldPartsType ==
  ASSUME NEW fields, NEW x, IsEntry(fields, x)
  PROVE  /\ FieldParts(fields, x) \in Seq(Seq(Byte))
         /\ Len(FieldParts(fields, x)) = Len(fields) /\ Len(fields) \in Nat \ {0}
         /\ DOMAIN fields = 1..Len(fields)
         /\ \A k \in 1..Len(fields) : /\ fields[k] \in ToSet(fields) /\ x[fields[k]] \in Seq(Byte)
                                      /\ FieldParts(fields, x)[k] = add_intern(x[fields[k]])
<1> DEFINE n == Len(fields)
           parts == FieldParts(fields, x)
<1>1. /\ n \in Nat \ {0} /\ DOMAIN fields = 1..n
      /\ \A k \in 1..n : fields[k] \in ToSet(fields)
  <2>1. fields \in Seq(ToSet(fields)) /\ fields # <<>>
    BY DEF IsEntry
  <2>2. n \in Nat /\ DOMAIN fields = 1..n /\ \A k \in 1..n : fields[k] \in ToSet(fields)
    BY <2>1
  <2>3. n # 0
    BY <2>1, EmptySeq
  <2>4. QED
    BY <2>2, <2>3
<1>2. \A k \in 1..n : x[fields[k]] \in Seq(Byte)
  BY <1>1 DEF IsEntry
<1>3. parts = [k \in 1..n |-> add_intern(x[fields[k]])]
  BY <1>1 DEF FieldParts
<1> HIDE DEF n, parts
<1>4. ASSUME NEW k \in 1..n PROVE parts[k] \in Seq(Byte) /\ parts[k] = add_intern(x[fields[k]])
  <2> DEFINE u == x[fields[k]]
  <2>1. u \in Seq(Byte) /\ parts[k] = add_intern(u)
    BY <1>2, <1>3
  <2> HIDE DEF u
  <2>2. parts[k] \in Seq(Byte)
    BY <2>1, InternProperties
  <2>3. QED
    BY <2>1, <2>2 DEF u
<1>5. parts \in [1..n -> Seq(Byte)]
  <2>1. parts = [k \in 1..n |-> parts[k]]
    BY <1>3
  <2>2. QED
    BY <1>4, <2>1
<1>6. parts \in Seq(Seq(Byte)) /\ Len(parts) = n
  BY <1>1, <1>5
<1>7. QED
  BY <1>1, <1>2, <1>4, <1>6 DEF n, parts

(* Every field is where its offset says. *)
LEMMA FieldsInEntry ==
  ASSUME NEW list, NEW fields, NEW x, NEW i, EntryIn(list, fields, x, i),
         NEW off, Begins(FieldParts(fields, x), off), NEW k \in 1..Len(fields)
  PROVE  EntryField(list, fields, x, i, off, k)
<1> DEFINE n == Len(fields)
           parts == FieldParts(fields, x)
           u == x[fields[k]]
           b == i + off[k - 1]
           f == FlattenSeq(parts)
<1>1. /\ list \in Seq(Byte) /\ Len(list) \in Nat /\ DOMAIN list = 1..Len(list)
      /\ 2 * Len(list) < IntValues /\ i \in Nat /\ IsEntry(fields, x)
      /\ \A j \in 1..Len(f) : i + j \in 1..Len(list) /\ list[i + j] = f[j]
  BY DEF EntryIn, EntryBytes
<1>2. /\ parts \in Seq(Seq(Byte)) /\ Len(parts) = n /\ n \in Nat \ {0}
      /\ u \in Seq(Byte) /\ Len(u) \in Nat /\ parts[k] = add_intern(u)
  <2>1. /\ parts \in Seq(Seq(Byte)) /\ Len(parts) = n /\ n \in Nat \ {0}
        /\ u \in Seq(Byte) /\ parts[k] = add_intern(u)
    BY <1>1, FieldPartsType
  <2>2. QED
    BY <2>1
<1>3. Word \in Nat \ {0, 1} /\ IntValues \in Nat
  BY WordType
<1>4. \A j \in 1..Len(parts[k]) : off[k - 1] + j \in 1..Len(f) /\ f[off[k - 1] + j] = parts[k][j]
  <2>1. Begins(parts, off) /\ parts \in Seq(Seq(Byte))
    BY <1>2
  <2> HIDE DEF parts
  <2>2. \A m \in 1..Len(parts) : \A j \in 1..Len(parts[m]) :
          off[m - 1] + j \in 1..Len(f) /\ f[off[m - 1] + j] = parts[m][j]
    BY <2>1, FlattenAt
  <2>3. k \in 1..Len(parts)
    BY <1>2
  <2> HIDE DEF f
  <2>4. QED
    BY <2>2, <2>3
<1>5. off[k] = off[k - 1] + Len(parts[k]) /\ off[k] \in Nat /\ off[k - 1] \in Nat
  <2>1. k \in 1..Len(parts) /\ k - 1 \in 0..Len(parts) /\ k \in 0..Len(parts)
    BY <1>2
  <2> HIDE DEF parts
  <2>2. QED
    BY <2>1 DEF Begins, parts
<1> HIDE DEF parts, u, f, n
<1>6. /\ Len(parts[k]) = Word + Len(u)
      /\ \A j \in 1..Word : parts[k][j] = BigEndian(Len(u))[j]
      /\ \A j \in 1..Len(u) : parts[k][Word + j] = u[j]
  BY <1>2, InternProperties
<1>7. ASSUME NEW j \in 1..(Word + Len(u))
      PROVE  b + j \in 1..Len(list) /\ list[b + j] = parts[k][j]
  <2>1. off[k - 1] + j \in 1..Len(f) /\ f[off[k - 1] + j] = parts[k][j]
    BY <1>4, <1>6
  <2> DEFINE o == off[k - 1] + j
  <2>2. i + o \in 1..Len(list) /\ list[i + o] = f[o]
    BY <1>1, <2>1
  <2>3. i + o = b + j
    <3> DEFINE a == off[k - 1]
    <3>1. a \in Nat
      BY <1>5
    <3> HIDE DEF a
    <3>2. i + (a + j) = (i + a) + j
      BY <1>1, <1>2, <1>3, <3>1
    <3>3. QED
      BY <3>2 DEF a
  <2>4. QED
    BY <2>1, <2>2, <2>3
<1>8. b \in Nat
  BY <1>1, <1>5
<1>9. b < Len(list) /\ 2 * Len(u) < IntValues
  <2> DEFINE l == Len(u)
  <2>1. l \in Nat /\ Word + l \in 1..(Word + l)
    BY <1>2, <1>3
  <2>2. b + (Word + l) \in 1..Len(list)
    BY <1>7, <2>1
  <2> HIDE DEF l, b
  <2>3. b < Len(list) /\ l <= Len(list)
    BY <1>1, <1>3, <1>8, <2>1, <2>2
  <2>4. 2 * l < IntValues
    BY <1>1, <1>3, <2>1, <2>3
  <2>5. QED
    BY <2>3, <2>4 DEF l
<1> HIDE DEF b
<1>10. IntAt(list, b) = Len(u)
  <2>1. ASSUME NEW j \in 1..Word PROVE b + j \in DOMAIN list /\ list[b + j] = BigEndian(Len(u))[j]
    <3>1. j \in 1..(Word + Len(u))
      BY <1>2, <1>3
    <3>2. QED
      BY <1>1, <1>6, <1>7, <3>1
  <2>2. Len(u) \in Nat /\ 2 * Len(u) < IntValues
    BY <1>2, <1>9
  <2> DEFINE l == Len(u)
  <2>3. l \in Nat /\ 2 * l < IntValues /\ \A j \in 1..Word : b + j \in DOMAIN list /\ list[b + j] = BigEndian(l)[j]
    BY <2>1, <2>2
  <2> HIDE DEF l
  <2>4. IntAt(list, b) = l
    BY <1>8, <2>3, IntRead
  <2>5. QED
    BY <2>4 DEF l
<1>11. ASSUME NEW j \in 1..Len(u) PROVE b + Word + j \in DOMAIN list /\ list[b + Word + j] = u[j]
  <2>1. Word + j \in 1..(Word + Len(u)) /\ b + (Word + j) = b + Word + j
    BY <1>2, <1>3, <1>8
  <2>2. parts[k][Word + j] = u[j]
    BY <1>6
  <2>3. b + (Word + j) \in 1..Len(list) /\ list[b + (Word + j)] = parts[k][Word + j]
    BY <1>7, <2>1
  <2>4. QED
    BY <1>1, <2>1, <2>2, <2>3
<1>12. off[k] = off[k - 1] + Word + Len(u)
  <2> DEFINE o == off[k - 1]
             l == Len(u)
  <2>1. o \in Nat /\ l \in Nat /\ off[k] = o + (Word + l)
    BY <1>2, <1>5, <1>6
  <2> HIDE DEF o, l
  <2>2. off[k] = o + Word + l
    BY <1>3, <2>1
  <2>3. QED
    BY <2>2 DEF o, l
<1>13. QED
  BY <1>2, <1>5, <1>8, <1>9, <1>10, <1>11, <1>12 DEF u, b, EntryField

(* The places that reading an entry goes through. *)
Places(list, fields, i) ==
  LET place[k \in 0..Len(fields)] == IF k = 0 THEN i ELSE READ(list, place[k - 1])
  IN place

(* They are the places behind its fields. *)
LEMMA PlacesRead ==
  ASSUME NEW list, NEW fields, NEW x, NEW i, EntryIn(list, fields, x, i),
         NEW off, Begins(FieldParts(fields, x), off)
  PROVE  \A k \in 0..Len(fields) : Places(list, fields, i)[k] = i + off[k]
<1> DEFINE n == Len(fields)
           Is(f) == f = [k \in 0..n |-> IF k = 0 THEN i ELSE READ(list, f[k - 1])]
           place == CHOOSE f : Is(f)
           g == [k \in 0..n |-> i + off[k]]
<1>0. IsEntry(fields, x) /\ i \in Nat
  BY DEF EntryIn
<1>1. n \in Nat \ {0} /\ off[0] = 0
  BY <1>0, FieldPartsType DEF Begins
<1>2. ASSUME NEW k \in 1..n PROVE READ(list, i + off[k - 1]) = i + off[k]
  <2> DEFINE a == off[k - 1]
             l == Len(x[fields[k]])
  <2>1. EntryField(list, fields, x, i, off, k)
    BY FieldsInEntry
  <2>2. /\ a \in Nat /\ l \in Nat /\ off[k] = a + Word + l /\ i + a < Len(list)
        /\ IntAt(list, i + a) = l
    <3>1. x[fields[k]] \in Seq(Byte)
      BY <2>1 DEF EntryField
    <3>2. QED
      BY <2>1, <3>1 DEF EntryField
  <2>3. READ(list, i + a) = (i + a) + Word + l
    BY <2>2 DEF READ
  <2> HIDE DEF a, l
  <2>4. (i + a) + Word + l = i + off[k]
    BY <1>0, <2>2, WordType
  <2>5. QED
    BY <2>3, <2>4 DEF a
<1> HIDE DEF n
<1>3. Is(g)
  <2>1. ASSUME NEW k \in 0..n
        PROVE  g[k] = IF k = 0 THEN i ELSE READ(list, g[k - 1])
    <3>1. CASE k = 0
      BY <1>0, <1>1, <3>1
    <3>2. CASE k # 0
      <4>1. k \in 1..n /\ k - 1 \in 0..n
        BY <1>1, <3>2
      <4>2. g[k - 1] = i + off[k - 1] /\ g[k] = i + off[k]
        BY <4>1
      <4>3. QED
        BY <1>2, <3>2, <4>1, <4>2
    <3>3. QED
      BY <3>1, <3>2
  <2>2. g = [k \in 0..n |-> g[k]]
    OBVIOUS
  <2> HIDE DEF g
  <2>3. QED
    BY <2>1, <2>2
<1>4. Is(place)
  <2> HIDE DEF Is, g
  <2>1. QED
    BY <1>3
<1>5. Places(list, fields, i) = place
  BY DEF Places, n
<1> HIDE DEF place
<1>6. \A k \in 0..n : place[k] = IF k = 0 THEN i ELSE READ(list, place[k - 1])
  BY <1>4
<1> DEFINE P == {k \in 0..n : place[k] = i + off[k]}
<1>7. 0 \in P
  BY <1>0, <1>1, <1>6
<1>8. ASSUME NEW k \in 0..(n - 1), k \in P PROVE k + 1 \in P
  <2>1. k + 1 \in 0..n /\ k + 1 \in 1..n /\ k + 1 # 0 /\ (k + 1) - 1 = k
    BY <1>1
  <2>2. place[k + 1] = READ(list, place[k])
    BY <1>6, <2>1
  <2>3. READ(list, i + off[k]) = i + off[k + 1]
    BY <1>2, <2>1
  <2>4. QED
    BY <1>8, <2>1, <2>2, <2>3
<1>9. \A k \in 0..n : k \in P
  <2> HIDE DEF P
  <2>1. QED
    BY <1>1, <1>7, <1>8, Upwards
<1>10. QED
  BY <1>5, <1>9 DEF n

(* Past the end of the list reading does not move. *)
LEMMA PlacesPast ==
  ASSUME NEW list, Len(list) \in Nat, NEW fields, Len(fields) \in Nat \ {0},
         NEW i \in Nat, ~(i < Len(list))
  PROVE  \A k \in 0..Len(fields) : Places(list, fields, i)[k] = i
<1> DEFINE n == Len(fields)
           Is(f) == f = [k \in 0..n |-> IF k = 0 THEN i ELSE READ(list, f[k - 1])]
           place == CHOOSE f : Is(f)
           g == [k \in 0..n |-> i]
<1>1. n \in Nat \ {0}
  OBVIOUS
<1>2. READ(list, i) = i
  BY DEF READ
<1> HIDE DEF n
<1>3. Is(g)
  <2>1. ASSUME NEW k \in 0..n PROVE g[k] = IF k = 0 THEN i ELSE READ(list, g[k - 1])
    <3>1. k # 0 => k - 1 \in 0..n
      BY <1>1
    <3>2. QED
      BY <1>2, <3>1
  <2>2. g = [k \in 0..n |-> g[k]]
    OBVIOUS
  <2> HIDE DEF g
  <2>3. QED
    BY <2>1, <2>2
<1>4. Is(place)
  <2> HIDE DEF Is, g
  <2>1. QED
    BY <1>3
<1>5. Places(list, fields, i) = place
  BY DEF Places, n
<1> HIDE DEF place
<1>6. \A k \in 0..n : place[k] = IF k = 0 THEN i ELSE READ(list, place[k - 1])
  BY <1>4
<1> DEFINE P == {k \in 0..n : place[k] = i}
<1>7. 0 \in P
  BY <1>1, <1>6
<1>8. ASSUME NEW k \in 0..(n - 1), k \in P PROVE k + 1 \in P
  <2>1. k + 1 \in 0..n /\ k + 1 # 0 /\ (k + 1) - 1 = k
    BY <1>1
  <2>2. place[k + 1] = READ(list, place[k])
    BY <1>6, <2>1
  <2>3. QED
    BY <1>2, <1>8, <2>1, <2>2
<1>9. \A k \in 0..n : k \in P
  <2> HIDE DEF P
  <2>1. QED
    BY <1>1, <1>7, <1>8, Upwards
<1>10. QED
  BY <1>5, <1>9 DEF n

(* READCPY and PT: an entry that is in the list is read as it was written. *)
LEMMA EntryRead ==
  ASSUME NEW list, NEW fields, NEW x, NEW i, EntryIn(list, fields, x, i)
  PROVE  /\ Entry(list, fields, i).u = x
         /\ Entry(list, fields, i).end = i + Len(EntryBytes(fields, x))
<1> DEFINE n == Len(fields)
           place == Places(list, fields, i)
           Before(f) == place[Place(fields, f) - 1]
           S == ToSet(fields)
           parts == FieldParts(fields, x)
           R == [u |-> [f \in {h \in S : Before(h) < Len(list)} |->
                          Bytes(list, Before(f) + Word, IntAt(list, Before(f)))],
                 end |-> place[n]]
<1>1. IsEntry(fields, x) /\ i \in Nat /\ x \in [S -> Seq(Byte)]
  BY DEF EntryIn, IsEntry
<1>2. parts \in Seq(Seq(Byte)) /\ Len(parts) = n /\ n \in Nat \ {0} /\ DOMAIN fields = 1..n
  BY <1>1, FieldPartsType
<1>3. PICK off : Begins(parts, off)
  BY <1>2, BeginsExists
<1>4. \A k \in 0..n : place[k] = i + off[k]
  BY <1>3, PlacesRead
<1>5. Entry(list, fields, i) = R
  BY DEF Entry, Places
<1> HIDE DEF place
<1>6. ASSUME NEW f \in S
      PROVE  Before(f) < Len(list) /\ Bytes(list, Before(f) + Word, IntAt(list, Before(f))) = x[f]
  <2> DEFINE k == Place(fields, f)
             u == x[fields[k]]
             b == i + off[k - 1]
  <2>1. k \in 1..n /\ fields[k] = f
    BY <1>2, PlaceOf
  <2>2. k - 1 \in 0..n
    BY <1>2, <2>1
  <2>3. Before(f) = b
    BY <1>4, <2>2
  <2>4. EntryField(list, fields, x, i, off, k)
    BY <1>3, <2>1, FieldsInEntry
  <2>5. /\ u \in Seq(Byte) /\ b < Len(list) /\ IntAt(list, b) = Len(u)
        /\ \A j \in 1..Len(u) : b + Word + j \in DOMAIN list /\ list[b + Word + j] = u[j]
    BY <2>4 DEF EntryField
  <2>6. x[f] = u
    BY <2>1
  <2> HIDE DEF u, b
  <2>7. Bytes(list, b + Word, Len(u)) = [j \in 1..Len(u) |-> u[j]]
    BY <2>5 DEF Bytes
  <2>8. u = [j \in 1..Len(u) |-> u[j]]
    BY <2>5
  <2>9. QED
    BY <2>3, <2>5, <2>6, <2>7, <2>8
<1>7. R.u = x
  <2>1. {h \in S : Before(h) < Len(list)} = S
    BY <1>6
  <2>2. R.u = [f \in S |-> x[f]]
    BY <1>6, <2>1
  <2>3. QED
    BY <1>1, <2>2
<1>8. place[n] = i + Len(FlattenSeq(parts))
  <2> HIDE DEF parts
  <2>1. Len(FlattenSeq(parts)) = off[n] /\ n \in 0..n
    BY <1>2, <1>3, FlattenAt
  <2>2. QED
    BY <1>4, <2>1
<1>9. QED
  BY <1>5, <1>7, <1>8 DEF EntryBytes

(* Past the end nothing is read of an entry.                               *)
LEMMA EntryPast ==
  ASSUME NEW list, Len(list) \in Nat, NEW fields, Len(fields) \in Nat \ {0},
         DOMAIN fields = 1..Len(fields), NEW i \in Nat, ~(i < Len(list))
  PROVE  /\ DOMAIN Entry(list, fields, i).u = {} /\ Entry(list, fields, i).end = i
<1> DEFINE n == Len(fields)
           place == Places(list, fields, i)
           Before(f) == place[Place(fields, f) - 1]
           S == ToSet(fields)
           R == [u |-> [f \in {h \in S : Before(h) < Len(list)} |->
                          Bytes(list, Before(f) + Word, IntAt(list, Before(f)))],
                 end |-> place[n]]
<1>1. \A k \in 0..n : place[k] = i
  BY PlacesPast
<1>2. Entry(list, fields, i) = R
  BY DEF Entry, Places
<1> HIDE DEF place
<1>3. ASSUME NEW f \in S PROVE ~(Before(f) < Len(list))
  <2>1. Place(fields, f) \in 1..n
    BY PlaceOf
  <2>2. Place(fields, f) - 1 \in 0..n
    BY <2>1
  <2>3. Before(f) = i
    BY <1>1, <2>2
  <2>4. QED
    BY <2>3
<1>4. {h \in S : Before(h) < Len(list)} = {}
  BY <1>3
<1>5. place[n] = i
  BY <1>1
<1>6. QED
  BY <1>2, <1>4, <1>5

(* Where the entries of a list begin, if that is where reading each of     *)
(* them takes the loop.                                                    *)
StartsAt(list, fields, gap, n, h) ==
  /\ h[0] = 0
  /\ \A e \in 1..n : h[e] = Entry(list, fields, h[e - 1]).end + gap

(* The loop begins to read an entry there.                                 *)
LEMMA StartsRead ==
  ASSUME NEW list, NEW fields, NEW gap, NEW n \in Nat, NEW h, StartsAt(list, fields, gap, n, h)
  PROVE  \A e \in 0..n : Starts(list, fields, gap, n)[e] = h[e]
<1> DEFINE Behind(y) == Entry(list, fields, y).end + gap
           Is(f) == f = [e \in 0..n |-> IF e = 0 THEN 0 ELSE Behind(f[e - 1])]
           start == CHOOSE f : Is(f)
           g == [e \in 0..n |-> h[e]]
<1>1. h[0] = 0 /\ \A e \in 1..n : h[e] = Behind(h[e - 1])
  BY DEF StartsAt
<1>2. Starts(list, fields, gap, n) = start
  BY DEF Starts
<1> HIDE DEF Behind
<1>3. Is(g)
  <2>1. ASSUME NEW e \in 0..n PROVE g[e] = IF e = 0 THEN 0 ELSE Behind(g[e - 1])
    <3>1. CASE e = 0
      BY <1>1, <3>1
    <3>2. CASE e # 0
      <4>1. e \in 1..n /\ e - 1 \in 0..n
        BY <3>2
      <4>2. g[e - 1] = h[e - 1] /\ g[e] = h[e]
        BY <4>1
      <4>3. QED
        BY <1>1, <3>2, <4>1, <4>2
    <3>3. QED
      BY <3>1, <3>2
  <2>2. g = [e \in 0..n |-> g[e]]
    OBVIOUS
  <2> HIDE DEF g
  <2>3. QED
    BY <2>1, <2>2
<1>4. Is(start)
  <2> HIDE DEF Is, g
  <2>1. QED
    BY <1>3
<1> HIDE DEF start
<1>5. \A e \in 0..n : start[e] = IF e = 0 THEN 0 ELSE Behind(start[e - 1])
  BY <1>4
<1> DEFINE P == {e \in 0..n : start[e] = h[e]}
<1>6. 0 \in P
  BY <1>1, <1>5
<1>7. ASSUME NEW e \in 0..(n - 1), e \in P PROVE e + 1 \in P
  <2>1. e + 1 \in 0..n /\ e + 1 \in 1..n /\ e + 1 # 0 /\ (e + 1) - 1 = e
    OBVIOUS
  <2>2. start[e + 1] = Behind(start[e])
    BY <1>5, <2>1
  <2>3. h[e + 1] = Behind(h[e])
    BY <1>1, <2>1
  <2>4. QED
    BY <1>7, <2>1, <2>2, <2>3
<1>8. \A e \in 0..n : e \in P
  <2> HIDE DEF P
  <2>1. QED
    BY <1>6, <1>7, Upwards
<1>9. QED
  BY <1>2, <1>8

(* The entries of a list, as they are written. *)
Blocks(fields, entries) == [e \in DOMAIN entries |-> EntryBytes(fields, entries[e])]

(* A list of the relay. *)
IsList(list, fields, entries) ==
  /\ fields \in Seq(ToSet(fields)) /\ fields # <<>>
  /\ entries \in Seq([ToSet(fields) -> Seq(Byte)])
  /\ list = ListOf(fields, entries) /\ 2 * Len(list) < IntValues

(* The offsets of its entries. *)
EntryAt(list, fields, entries, off, e) ==
  /\ EntryIn(list, fields, entries[e], off[e - 1])
  /\ off[e] = off[e - 1] + Len(EntryBytes(fields, entries[e]))
  /\ off[e - 1] \in Nat /\ off[e] \in Nat /\ off[e - 1] < off[e]

(* A list is the entries, one behind the other, and none is empty. *)
LEMMA EntriesInList ==
  ASSUME NEW list, NEW fields, NEW entries, IsList(list, fields, entries)
  PROVE  \E off : /\ off \in [0..Len(entries) -> Nat] /\ off[0] = 0
                  /\ Len(entries) \in Nat /\ Len(list) = off[Len(entries)]
                  /\ Len(entries) <= Len(list) /\ list \in Seq(Byte)
                  /\ \A e \in 1..Len(entries) : EntryAt(list, fields, entries, off, e)
<1> DEFINE m == Len(entries)
           blocks == Blocks(fields, entries)
           b(e) == EntryBytes(fields, entries[e])
<1>1. /\ m \in Nat /\ DOMAIN entries = 1..m
      /\ \A e \in 1..m : IsEntry(fields, entries[e])
  <2>1. /\ fields \in Seq(ToSet(fields)) /\ fields # <<>>
        /\ entries \in Seq([ToSet(fields) -> Seq(Byte)])
    BY DEF IsList
  <2>2. m \in Nat /\ DOMAIN entries = 1..m /\ \A e \in 1..m : entries[e] \in [ToSet(fields) -> Seq(Byte)]
    BY <2>1
  <2>3. QED
    BY <2>1, <2>2 DEF IsEntry
<1>2. ASSUME NEW e \in 1..m PROVE b(e) \in Seq(Byte) /\ Len(b(e)) \in Nat \ {0}
  <2> DEFINE x == entries[e]
             parts == FieldParts(fields, x)
             n == Len(fields)
  <2>1. IsEntry(fields, x)
    BY <1>1
  <2> HIDE DEF x
  <2>2. /\ parts \in Seq(Seq(Byte)) /\ Len(parts) = n /\ n \in Nat \ {0}
        /\ x[fields[1]] \in Seq(Byte) /\ parts[1] = add_intern(x[fields[1]])
    <3>1. parts \in Seq(Seq(Byte)) /\ Len(parts) = n /\ n \in Nat \ {0}
      BY <2>1, FieldPartsType
    <3>2. 1 \in 1..n
      BY <3>1
    <3>3. x[fields[1]] \in Seq(Byte) /\ parts[1] = add_intern(x[fields[1]])
      BY <2>1, <3>2, FieldPartsType
    <3>4. QED
      BY <3>1, <3>3
  <2> DEFINE u == x[fields[1]]
             f == FlattenSeq(parts)
  <2>3. Len(parts[1]) = Word + Len(u) /\ Len(u) \in Nat /\ Word \in Nat \ {0, 1}
    <3>1. u \in Seq(Byte) /\ parts[1] = add_intern(u)
      BY <2>2
    <3> HIDE DEF u, parts
    <3>2. QED
      BY <3>1, InternProperties, WordType
  <2> HIDE DEF parts, u, n
  <2>4. PICK off : Begins(parts, off)
    BY <2>2, BeginsExists
  <2>5. f \in Seq(Byte) /\ Len(f) \in Nat
    <3>1. f \in Seq(Byte)
      BY <2>2, FlattenProperties
    <3>2. QED
      BY <3>1
  <2>6. 1 \in 1..Len(parts) /\ 1 \in 1..Len(parts[1])
    BY <2>2, <2>3
  <2>7. off[1 - 1] + 1 \in 1..Len(f)
    BY <2>2, <2>4, <2>6, FlattenAt
  <2>8. Len(f) # 0
    BY <2>7
  <2>9. b(e) = f
    BY DEF EntryBytes, parts, x
  <2> HIDE DEF f, b
  <2>10. QED
    BY <2>5, <2>8, <2>9
<1>3. blocks = [e \in 1..m |-> b(e)]
  BY <1>1 DEF Blocks
<1>4. list = FlattenSeq(blocks)
  BY DEF IsList, ListOf, Blocks, EntryBytes, FieldParts
<1> HIDE DEF b, m, blocks
<1>5. /\ blocks \in Seq(Seq(Byte)) /\ Len(blocks) = m
      /\ \A e \in 1..m : blocks[e] = b(e)
  <2>1. blocks \in [1..m -> Seq(Byte)]
    BY <1>2, <1>3
  <2>2. QED
    BY <1>1, <1>3, <2>1
<1>6. PICK off : Begins(blocks, off)
  BY <1>5, BeginsExists
<1>7. /\ off \in [0..m -> Nat] /\ off[0] = 0
      /\ \A e \in 1..m : off[e] = off[e - 1] + Len(b(e))
  BY <1>5, <1>6 DEF Begins
<1>8. /\ list \in Seq(Byte) /\ Len(list) = off[m]
      /\ \A e \in 1..m : \A j \in 1..Len(b(e)) :
           off[e - 1] + j \in 1..Len(list) /\ list[off[e - 1] + j] = b(e)[j]
  <2>1. /\ FlattenSeq(blocks) \in Seq(Byte) /\ Len(FlattenSeq(blocks)) = off[Len(blocks)]
        /\ \A e \in 1..Len(blocks) : \A j \in 1..Len(blocks[e]) :
             /\ off[e - 1] + j \in 1..Len(FlattenSeq(blocks))
             /\ FlattenSeq(blocks)[off[e - 1] + j] = blocks[e][j]
    BY <1>5, <1>6, FlattenAt
  <2>2. QED
    BY <1>4, <1>5, <2>1
<1>9. ASSUME NEW e \in 1..m
      PROVE  e - 1 \in 0..m /\ off[e - 1] \in Nat /\ off[e] \in Nat /\ off[e - 1] < off[e]
  <2>1. e - 1 \in 0..m /\ e \in 0..m
    BY <1>1
  <2>2. off[e - 1] \in Nat /\ off[e] \in Nat
    BY <1>7, <2>1
  <2> DEFINE o == off[e - 1]
             l == Len(b(e))
  <2>3. o \in Nat /\ l \in Nat \ {0} /\ off[e] = o + l
    BY <1>2, <1>7, <2>2
  <2> HIDE DEF o, l
  <2>4. o < off[e]
    BY <2>3
  <2>5. QED
    BY <2>1, <2>2, <2>4 DEF o
<1>10. ASSUME NEW e \in 1..m PROVE EntryAt(list, fields, entries, off, e)
  <2>1. 2 * Len(list) < IntValues
    BY DEF IsList
  <2>2. IsEntry(fields, entries[e])
    BY <1>1
  <2>3. EntryIn(list, fields, entries[e], off[e - 1])
    BY <1>8, <1>9, <2>1, <2>2 DEF EntryIn, b
  <2>4. QED
    BY <1>7, <1>9, <2>3 DEF EntryAt, b
<1>11. m <= Len(list)
  <2> DEFINE P == {e \in 0..m : e <= off[e]}
  <2>1. 0 \in P
    BY <1>1, <1>7
  <2>2. ASSUME NEW e \in 0..(m - 1), e \in P PROVE e + 1 \in P
    <3>1. e + 1 \in 1..m /\ e + 1 \in 0..m /\ (e + 1) - 1 = e /\ e \in Nat
      BY <1>1
    <3>2. off[e] \in Nat /\ off[e + 1] \in Nat /\ off[e] < off[e + 1]
      BY <1>9, <3>1
    <3>3. e <= off[e]
      BY <2>2
    <3>4. e + 1 <= off[e + 1]
      BY <3>1, <3>2, <3>3
    <3>5. QED
      BY <3>1, <3>4
  <2>3. m \in P
    <3> HIDE DEF P
    <3>1. m \in 0..m
      BY <1>1
    <3>2. QED
      BY <1>1, <2>1, <2>2, <3>1, Upwards
  <2>4. QED
    BY <1>8, <2>3
<1>12. QED
  BY <1>1, <1>7, <1>8, <1>10, <1>11 DEF m

(* Each entry is read from where it begins, up to the next one.            *)
LEMMA EntriesRead ==
  ASSUME NEW list, NEW fields, NEW entries, NEW off, NEW e, EntryAt(list, fields, entries, off, e)
  PROVE  /\ Entry(list, fields, off[e - 1]).u = entries[e]
         /\ Entry(list, fields, off[e - 1]).end = off[e]
<1>1. EntryIn(list, fields, entries[e], off[e - 1])
  BY DEF EntryAt
<1>2. off[e] = off[e - 1] + Len(EntryBytes(fields, entries[e]))
  BY DEF EntryAt
<1>3. QED
  BY <1>1, <1>2, EntryRead

(* parse_traffic(): a report that has entries is read as it was written.   *)
LEMMA ReportRead ==
  ASSUME NEW list, NEW report, IsList(list, TrafficFields, report), list # <<>>
  PROVE  parse_traffic(list) = report
<1> DEFINE F == TrafficFields
           m == Len(report)
           n == Len(list)
           start == Starts(list, F, 0, n)
           Whole(e) == DOMAIN Entry(list, F, start[e - 1]).u = ToSet(F)
           W == {k \in 1..n : \A d \in 1..k : Whole(d)}
<1>1. PICK off : /\ off \in [0..m -> Nat] /\ off[0] = 0
                 /\ m \in Nat /\ n = off[m] /\ m <= n /\ list \in Seq(Byte)
                 /\ \A e \in 1..m : EntryAt(list, F, report, off, e)
  BY EntriesInList
<1>2. /\ F \in Seq(ToSet(F)) /\ Len(F) = 5 /\ DOMAIN F = 1..5 /\ ToSet(F) # {}
      /\ report \in Seq([ToSet(F) -> Seq(Byte)])
  <2>1. F \in Seq(ToSet(F)) /\ report \in Seq([ToSet(F) -> Seq(Byte)])
    BY DEF IsList
  <2>2. Len(F) = 5 /\ DOMAIN F = 1..5
    BY DEF TrafficFields
  <2>3. F[1] \in ToSet(F)
    BY <2>2 DEF ToSet
  <2>4. QED
    BY <2>1, <2>2, <2>3
<1>3. n \in Nat /\ m \in Nat
  BY <1>1
<1> DEFINE h == [e \in 0..n |-> IF e <= m THEN off[e] ELSE n]
<1>4. parse_traffic(list) = [e \in W |-> Entry(list, F, start[e - 1]).u]
  BY DEF parse_traffic
<1> HIDE DEF F, m, n, start
<1>5. ASSUME NEW e \in 1..m
      PROVE  /\ e - 1 \in 0..n /\ e \in 0..n /\ h[e - 1] = off[e - 1] /\ h[e] = off[e]
             /\ Entry(list, F, h[e - 1]).u = report[e] /\ Entry(list, F, h[e - 1]).end = h[e]
  <2>1. e - 1 \in 0..n /\ e \in 0..n /\ e - 1 <= m /\ e <= m
    BY <1>1, <1>3
  <2>2. h[e - 1] = off[e - 1] /\ h[e] = off[e]
    BY <2>1
  <2>3. EntryAt(list, F, report, off, e)
    BY <1>1
  <2>4. Entry(list, F, off[e - 1]).u = report[e] /\ Entry(list, F, off[e - 1]).end = off[e]
    BY <2>3, EntriesRead
  <2>5. QED
    BY <2>1, <2>2, <2>4
<1>6. ASSUME NEW e \in (m + 1)..n
      PROVE  /\ e - 1 \in 0..n /\ h[e - 1] = n /\ h[e] = n
             /\ DOMAIN Entry(list, F, h[e - 1]).u = {} /\ Entry(list, F, h[e - 1]).end = h[e]
  <2>1. e - 1 \in 0..n /\ e \in 0..n /\ ~(e <= m)
    BY <1>3
  <2>2. h[e] = n
    BY <2>1
  <2>3. h[e - 1] = n
    <3>1. e - 1 <= m => e - 1 = m
      BY <1>3
    <3>2. e - 1 <= m => off[e - 1] = n
      BY <1>1, <3>1
    <3>3. QED
      BY <2>1, <3>2
  <2>4. DOMAIN Entry(list, F, n).u = {} /\ Entry(list, F, n).end = n
    <3>1. ~(n < Len(list)) /\ Len(list) \in Nat
      BY <1>3 DEF n
    <3>2. Len(F) \in Nat \ {0} /\ DOMAIN F = 1..Len(F)
      BY <1>2
    <3>3. QED
      BY <1>3, <3>1, <3>2, EntryPast
  <2>5. QED
    BY <2>1, <2>2, <2>3, <2>4
<1>7. StartsAt(list, F, 0, n, h)
  <2>1. h[0] = 0
    <3>1. 0 \in 0..n /\ 0 <= m
      BY <1>3
    <3>2. QED
      BY <1>1, <3>1
  <2>2. ASSUME NEW e \in 1..n PROVE h[e] = Entry(list, F, h[e - 1]).end + 0
    <3>1. e \in 1..m \/ e \in (m + 1)..n
      BY <1>3
    <3>2. Entry(list, F, h[e - 1]).end = h[e]
      BY <1>5, <1>6, <3>1
    <3>3. h[e] \in Nat
      <4>1. e \in 1..m => h[e] = off[e] /\ e \in 0..m
        BY <1>3, <1>5
      <4>2. e \in 1..m => h[e] \in Nat
        BY <1>1, <4>1
      <4>3. e \in (m + 1)..n => h[e] = n
        BY <1>6
      <4>4. QED
        BY <1>3, <3>1, <4>2, <4>3
    <3> HIDE DEF h
    <3>4. h[e] + 0 = h[e]
      BY <3>3
    <3>5. QED
      BY <3>2, <3>4
  <2> HIDE DEF h
  <2>3. QED
    BY <2>1, <2>2 DEF StartsAt
<1> HIDE DEF h
<1>8. \A e \in 0..n : start[e] = h[e]
  BY <1>3, <1>7, StartsRead DEF start
<1>9. \A e \in 1..m : Entry(list, F, start[e - 1]).u = report[e]
  BY <1>5, <1>8
<1>10. \A e \in 1..m : report[e] \in [ToSet(F) -> Seq(Byte)]
  BY <1>2 DEF m
<1>11. \A e \in 1..m : Whole(e)
  BY <1>9, <1>10
<1>12. \A e \in (m + 1)..n : ~Whole(e)
  BY <1>2, <1>6, <1>8
<1>13. W = 1..m
  <2> HIDE DEF Whole
  <2>1. ASSUME NEW k \in 1..m PROVE k \in W
    <3>1. k \in 1..n /\ \A d \in 1..k : d \in 1..m
      BY <1>1, <1>3
    <3>2. QED
      BY <1>11, <3>1
  <2>2. ASSUME NEW k \in W PROVE k \in 1..m
    <3>1. k \in 1..n /\ \A d \in 1..k : Whole(d)
      OBVIOUS
    <3>2. ~(m + 1 \in 1..k)
      <4>1. ASSUME m + 1 \in 1..k PROVE FALSE
        <5>1. Whole(m + 1) /\ m + 1 \in (m + 1)..n
          BY <1>3, <3>1, <4>1
        <5>2. QED
          BY <1>12, <5>1
      <4>2. QED
        BY <4>1
    <3>3. QED
      BY <1>3, <3>1, <3>2
  <2> HIDE DEF W
  <2>3. QED
    BY <2>1, <2>2
<1>14. parse_traffic(list) = [e \in 1..m |-> report[e]]
  BY <1>4, <1>9, <1>13
<1>15. report = [e \in 1..m |-> report[e]]
  BY <1>2 DEF m
<1>16. QED
  BY <1>14, <1>15

(* callback_data(): a list of one pair, or of none, is read as it was      *)
(* written, though the loop counts up once more behind the pair.           *)
LEMMA PairRead ==
  ASSUME NEW list, NEW pairs, IsList(list, PairFields, pairs), Len(pairs) <= 1
  PROVE  PairsOf(list) = pairs
<1> DEFINE F == PairFields
           m == Len(pairs)
           n == Len(list)
           start == Starts(list, F, 1, n)
           W == {k \in 1..n : \A d \in 1..k : start[d - 1] < n}
           h == [e \in 0..n |-> IF e = 0 THEN 0 ELSE n + e]
<1>1. PICK off : /\ off \in [0..m -> Nat] /\ off[0] = 0
                 /\ m \in Nat /\ n = off[m] /\ m <= n /\ list \in Seq(Byte)
                 /\ \A e \in 1..m : EntryAt(list, F, pairs, off, e)
  BY EntriesInList
<1>2. Len(F) = 4 /\ DOMAIN F = 1..4 /\ pairs \in Seq([ToSet(F) -> Seq(Byte)])
  <2>1. pairs \in Seq([ToSet(F) -> Seq(Byte)])
    BY DEF IsList
  <2>2. QED
    BY <2>1 DEF PairFields
<1>3. n \in Nat /\ (m = 0 \/ m = 1) /\ m <= n /\ (m = 0 => n = 0)
  <2>1. n \in Nat
    BY <1>1
  <2>2. m \in Nat /\ m <= 1 /\ m <= n /\ n = off[m] /\ off[0] = 0
    BY <1>1
  <2> HIDE DEF m, n
  <2>3. QED
    BY <2>1, <2>2
<1>4. PairsOf(list) = [e \in W |-> Entry(list, F, start[e - 1]).u]
  BY DEF PairsOf
<1>5. m = 1 => Entry(list, F, 0).u = pairs[1] /\ Entry(list, F, 0).end = n
  <2>1. ASSUME m = 1
        PROVE  Entry(list, F, off[1 - 1]).u = pairs[1] /\ Entry(list, F, off[1 - 1]).end = off[1]
    <3>1. EntryAt(list, F, pairs, off, 1)
      BY <1>1, <2>1
    <3> HIDE DEF F
    <3>2. QED
      BY <3>1, EntriesRead
  <2>2. 1 - 1 = 0
    OBVIOUS
  <2> HIDE DEF F, m, n
  <2>3. QED
    BY <1>1, <2>1, <2>2
<1> HIDE DEF F, m, n, start
<1>6. ASSUME NEW e \in 2..n
      PROVE  e - 1 \in 0..n /\ e \in 0..n /\ h[e - 1] = n + (e - 1) /\ h[e] = n + e
             /\ Entry(list, F, n + (e - 1)).end = n + (e - 1)
  <2>1. e - 1 \in 0..n /\ e \in 0..n /\ e - 1 # 0 /\ e # 0
    BY <1>3
  <2>2. h[e - 1] = n + (e - 1) /\ h[e] = n + e
    BY <2>1
  <2> DEFINE i == n + (e - 1)
  <2>3. i \in Nat /\ ~(i < n)
    BY <1>3
  <2>4. Len(list) \in Nat /\ ~(i < Len(list))
    BY <1>3, <2>3 DEF n
  <2>5. Len(F) \in Nat \ {0} /\ DOMAIN F = 1..Len(F)
    BY <1>2
  <2> HIDE DEF i
  <2>6. Entry(list, F, i).end = i
    BY <2>3, <2>4, <2>5, EntryPast
  <2>7. QED
    BY <2>1, <2>2, <2>6 DEF i
<1>7. h[0] = 0 /\ (n # 0 => h[1] = n + 1)
  BY <1>3
<1>8. StartsAt(list, F, 1, n, h)
  <2>1. ASSUME NEW e \in 1..n PROVE h[e] = Entry(list, F, h[e - 1]).end + 1
    <3>1. CASE e = 1
      <4>1. n # 0 /\ m = 1 /\ e - 1 = 0
        BY <1>3, <3>1
      <4>2. h[1] = n + 1 /\ h[e - 1] = 0
        BY <1>7, <4>1
      <4> HIDE DEF h
      <4>3. QED
        BY <1>5, <3>1, <4>1, <4>2
    <3>2. CASE e # 1
      <4>1. e \in 2..n
        BY <3>2
      <4>2. Entry(list, F, h[e - 1]).end = n + (e - 1) /\ h[e] = n + e
        BY <1>6, <4>1
      <4>3. (n + (e - 1)) + 1 = n + e
        BY <1>3
      <4> HIDE DEF h
      <4>4. QED
        BY <4>2, <4>3
    <3>3. QED
      BY <3>1, <3>2
  <2> HIDE DEF h
  <2>2. QED
    BY <1>7, <2>1 DEF StartsAt
<1> HIDE DEF h
<1>9. \A e \in 0..n : start[e] = h[e]
  BY <1>3, <1>8, StartsRead DEF start
<1>10. start[0] = 0 /\ (n # 0 => start[1] = n + 1)
  <2>1. 0 \in 0..n /\ (n # 0 => 1 \in 0..n)
    BY <1>3
  <2>2. QED
    BY <1>7, <1>9, <2>1
<1>11. W = 1..m
  <2>1. ASSUME NEW k \in 1..m PROVE k \in W
    <3>1. k = 1 /\ k \in 1..n /\ 0 < n
      BY <1>3
    <3>2. \A d \in 1..k : d - 1 = 0
      BY <3>1
    <3>3. QED
      BY <1>10, <3>1, <3>2
  <2>2. ASSUME NEW k \in W PROVE k \in 1..m
    <3>1. k \in 1..n /\ \A d \in 1..k : start[d - 1] < n
      OBVIOUS
    <3>2. m = 1
      BY <1>3, <3>1
    <3>3. ~(2 \in 1..k)
      <4>1. ASSUME 2 \in 1..k PROVE FALSE
        <5>1. start[1] < n /\ n # 0
          <6>1. 2 - 1 = 1
            OBVIOUS
          <6>2. start[2 - 1] < n
            BY <3>1, <4>1
          <6>3. QED
            BY <1>3, <3>1, <6>1, <6>2
        <5>2. QED
          BY <1>3, <1>10, <5>1
      <4>2. QED
        BY <4>1
    <3>4. QED
      BY <1>3, <3>1, <3>2, <3>3
  <2> HIDE DEF W
  <2>3. QED
    BY <2>1, <2>2
<1>12. ASSUME NEW e \in 1..m PROVE Entry(list, F, start[e - 1]).u = pairs[e]
  <2>1. e = 1 /\ m = 1 /\ e - 1 = 0
    BY <1>3
  <2>2. QED
    BY <1>5, <1>10, <2>1
<1>13. PairsOf(list) = [e \in 1..m |-> pairs[e]]
  BY <1>4, <1>11, <1>12
<1>14. pairs = [e \in 1..m |-> pairs[e]]
  BY <1>2 DEF m
<1>15. QED
  BY <1>13, <1>14

(* The list of a packet is a list that an int can be the length of. *)
LEMMA ListShort ==
  ASSUME NEW p, IsPacket(p), NEW k \in 1..Len(Written[p.type])
  PROVE  2 * Len(p.u[Written[p.type][k]]) < IntValues
<1>1. Parts(p) \in Seq(Seq(Byte))
  BY Serialized
<1>2. PICK off : Begins(Parts(p), off)
  BY <1>1, BeginsExists
<1>3. FieldIn(p, off, k)
  BY <1>2, FieldsInString
<1>4. QED
  BY <1>3 DEF FieldIn

(* gcapi.c: the pair of an answer, and each entry of a report of traffic,  *)
(* are read as the relay wrote them.                                       *)
THEOREM ListsAreRead == WireSpec => []ListsRead
<1>1. ASSUME WireInv PROVE ListsRead
  <2>1. /\ DOMAIN got = 1..Len(data)
        /\ \A i \in 1..Len(data) : /\ sent[i] \in Packets /\ IsPacket(sent[i])
                                   /\ got[i] = gc_deserialize(gc_serialize(sent[i]))
    BY <1>1, GotIsSent
  <2>2. ASSUME NEW i \in 1..Len(data)
        PROVE  /\ got[i].type = "DEVICE_PAIR_REPLY" =>
                    got[i].u.list = ListOf(PairFields, PairsOf(got[i].u.list))
               /\ got[i].type = "TRAFFIC_GET_REPLY" /\ got[i].u.list # <<>> =>
                    got[i].u.list = ListOf(TrafficFields, parse_traffic(got[i].u.list))
    <3> DEFINE p == sent[i]
    <3>1. p \in Packets /\ IsPacket(p) /\ got[i] = gc_deserialize(gc_serialize(p))
      BY <2>1
    <3> HIDE DEF p
    <3>2. Parts(p) \in Seq(Seq(Byte))
      BY <3>1, Serialized
    <3>3. PICK off : Begins(Parts(p), off)
      BY <3>2, BeginsExists
    <3>4. got[i].type = p.type /\ got[i].u = p.u
      BY <3>1, <3>3, ReadBack
    <3> DEFINE list == p.u.list
    <3>5. ASSUME p.type = "DEVICE_PAIR_REPLY" PROVE list = ListOf(PairFields, PairsOf(list))
      <4>1. 3 \in 1..Len(Written[p.type]) /\ Written[p.type][3] = "list"
        BY <3>5 DEF Written
      <4>2. 2 * Len(list) < IntValues
        BY <3>1, <4>1, ListShort
      <4>3. PICK pairs \in PairLists : list = ListOf(PairFields, pairs)
        BY <3>1, <3>5, RelayAssumption DEF RelayAssumption
      <4>4. pairs \in Seq([ToSet(PairFields) -> Seq(Byte)]) /\ Len(pairs) <= 1
        BY RelayAssumption DEF RelayAssumption
      <4>5. PairFields \in Seq(ToSet(PairFields)) /\ PairFields # <<>>
        <5>1. PairFields = [k \in 1..4 |-> PairFields[k]]
          BY DEF PairFields
        <5>2. Len(PairFields) = 4
          BY DEF PairFields
        <5>3. PairFields \in Seq(ToSet(PairFields))
          BY <5>1, IsASeq DEF ToSet
        <5>4. Len(<<>>) = 0
          OBVIOUS
        <5>5. PairFields # <<>>
          BY <5>2, <5>4
        <5>6. QED
          BY <5>3, <5>5
      <4> HIDE DEF list
      <4>6. IsList(list, PairFields, pairs)
        BY <4>2, <4>3, <4>4, <4>5 DEF IsList
      <4>7. PairsOf(list) = pairs
        BY <4>4, <4>6, PairRead
      <4>8. QED
        BY <4>3, <4>7
    <3>6. ASSUME p.type = "TRAFFIC_GET_REPLY", list # <<>>
          PROVE  list = ListOf(TrafficFields, parse_traffic(list))
      <4>1. 1 \in 1..Len(Written[p.type]) /\ Written[p.type][1] = "list"
        BY <3>6 DEF Written
      <4>2. 2 * Len(list) < IntValues
        BY <3>1, <4>1, ListShort
      <4>3. PICK report \in Reports : list = ListOf(TrafficFields, report)
        BY <3>1, <3>6, RelayAssumption DEF RelayAssumption
      <4>4. report \in Seq([ToSet(TrafficFields) -> Seq(Byte)])
        BY RelayAssumption DEF RelayAssumption
      <4>5. TrafficFields \in Seq(ToSet(TrafficFields)) /\ TrafficFields # <<>>
        <5>1. TrafficFields = [k \in 1..5 |-> TrafficFields[k]]
          BY DEF TrafficFields
        <5>2. Len(TrafficFields) = 5
          BY DEF TrafficFields
        <5>3. TrafficFields \in Seq(ToSet(TrafficFields))
          BY <5>1, IsASeq DEF ToSet
        <5>4. QED
          BY <5>2, <5>3, EmptySeq
      <4> HIDE DEF list
      <4>6. IsList(list, TrafficFields, report)
        BY <4>2, <4>3, <4>4, <4>5 DEF IsList
      <4>7. parse_traffic(list) = report
        BY <3>6, <4>6, ReportRead
      <4>8. QED
        BY <4>3, <4>7
    <3>7. QED
      BY <3>4, <3>5, <3>6
  <2>3. QED
    BY <2>1, <2>2 DEF ListsRead
<1>2. QED
  BY <1>1, WireCorrect, PTL
=============================================================================
