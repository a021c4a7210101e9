----------------------------- MODULE ByteStream -----------------------------
(***************************************************************************)
(* What a connection promises its writer: the bytes written come out of    *)
(* the socket once each and in the order they were written, until the      *)
(* connection is closed.  A byte is identified by its place in the stream, *)
(* and a connection that takes the place of a closed one has a new stream. *)
(***************************************************************************)
EXTENDS Naturals, Sequences

VARIABLES total,    \* how many bytes were written
          wire,     \* the bytes that left through the socket
          closed

vars == <<total, wire, closed>>

FirstBytes(n) == [i \in 1..n |-> i]

Init == total = 0 /\ wire = <<>> /\ closed = FALSE

Write == /\ ~closed
         /\ total' \in Nat /\ total' >= total
         /\ UNCHANGED <<wire, closed>>

Transmit == /\ ~closed
            /\ \E n \in Len(wire)..total : wire' = FirstBytes(n)
            /\ UNCHANGED <<total, closed>>

Close == closed' = TRUE /\ UNCHANGED <<total, wire>>

Reopen == closed /\ total' = 0 /\ wire' = <<>> /\ closed' = FALSE

Next == Write \/ Transmit \/ Close \/ Reopen

Spec == Init /\ [][Next]_vars
=============================================================================
