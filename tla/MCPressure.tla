------------------------------ MODULE MCPressure ------------------------------
(* Instances of Pressure for TLC.                                          *)
EXTENDS Pressure
=============================================================================
