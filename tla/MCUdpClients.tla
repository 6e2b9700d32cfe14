----------------------------- MODULE MCUdpClients -----------------------------
(* Instances of UdpClients for TLC. *)
EXTENDS UdpClients
CONSTANTS c1, c2
=============================================================================
