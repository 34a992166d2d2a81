------------------------------ MODULE MCEpisodes ------------------------------
(***************************************************************************)
(* Instances of Monitor and Episodes for TLC.  The memory of a process is  *)
(* resident and shared (so not its own), compressed (so not resident), or  *)
(* of a footprint nobody may read.                                         *)
(***************************************************************************)
EXTENDS Monitor

MCHoldings == {[resident |-> 4, footprint |-> {0}],
               [resident |-> 0, footprint |-> {4}],
               [resident |-> 4, footprint |-> {}]}
=============================================================================
