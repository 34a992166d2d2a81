------------------------------ MODULE MCRecords ------------------------------
(* The metrics files with the daemon and a Monitor writing: MCRecords.cfg. *)
EXTENDS Records
=============================================================================
