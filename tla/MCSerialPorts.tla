----------------------------- MODULE MCSerialPorts -----------------------------
(* Instances of SerialPorts for TLC. *)
EXTENDS SerialPorts, TLC
CONSTANTS p1, p2, r1, r2, r3
=============================================================================
