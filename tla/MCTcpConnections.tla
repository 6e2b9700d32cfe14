--------------------------- MODULE MCTcpConnections ---------------------------
(* Instances of TcpConnections for TLC. *)
EXTENDS TcpConnections
CONSTANTS c1, c2
=============================================================================
