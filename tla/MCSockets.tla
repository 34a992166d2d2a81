------------------------------ MODULE MCSockets ------------------------------
(***************************************************************************)
(* Model values for Sockets: two sockets, one of either family, three      *)
(* processes of which the caller may not look into one.                    *)
(***************************************************************************)
EXTENDS Sockets, SocketTable

\* The rows a finished call joins with the process table are the kernel's own on
\* either platform: on macOS a table whose records do not come in the order of
\* the layout is refused, and no socket is ever given another one's owner, state
\* or traffic (src/listeners/pcblist.rs:35, 356-512).
FramingIsStrict == call # Idle => EveryTableReadAsMeant

=============================================================================
