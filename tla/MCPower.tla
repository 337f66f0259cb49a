------------------------------ MODULE MCPower ------------------------------
(* Instance of Power: the second wiring is the right one; the supply       *)
(* changes twice, one transfer fails, and a queue of two fills.          *)
EXTENDS Power
=============================================================================
