---------------------------- MODULE MCProcesses ----------------------------
(***************************************************************************)
(* Model values for Processes: three pids, one of a heavy process whose    *)
(* start time is withheld, one of a service manager, and a budget of two.  *)
(***************************************************************************)
EXTENDS Processes

=============================================================================
