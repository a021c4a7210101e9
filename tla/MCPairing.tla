----------------------------- MODULE MCPairing -----------------------------
(***************************************************************************)
(* Configurations for Pairing.                                             *)
(***************************************************************************)
EXTENDS Pairing

CONSTANTS d1, d2

\* Two tunnels to one device, the local port of one the remote port of the
\* other, and a tunnel to another device on a port that the kernel chooses
MixedDevice    == <<d1, d1, d2>>
MixedPort      == <<22, 80, 22>>
MixedPortLocal == <<80, 1230, 0>>

\* One tunnel, on a given port
OneDevice    == <<d1>>
OnePort      == <<22>>
OnePortLocal == <<1230>>
=============================================================================
