----------------------------- MODULE MCEndpoint -----------------------------
(***************************************************************************)
(* Model values for Endpoint.  The addresses that the relay hands out have *)
(* one length, so a key stands for one address and one descriptor.         *)
(***************************************************************************)
EXTENDS Endpoint

MCKey == Pid \X Fd

MCkey_of == [k \in MCKey |-> k]

AnyClient == Permutations(Client)
=============================================================================
