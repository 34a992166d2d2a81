-------------------------------- MODULE Sums --------------------------------
(***************************************************************************)
(* The one sum that the readings of sockets and of processes both take.    *)
(***************************************************************************)
EXTENDS FiniteSetsExt

\* The counts of the members of S taken together.
Sum(S, count) == MapThenSumSet(LAMBDA i : count[i], S)

=============================================================================
