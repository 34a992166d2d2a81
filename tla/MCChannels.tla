----------------------------- MODULE MCChannels -----------------------------
(***************************************************************************)
(* Model values for Channels: two units, a channel read on every collect   *)
(* or every second instant.                                                *)
(***************************************************************************)
EXTENDS Channels

=============================================================================
