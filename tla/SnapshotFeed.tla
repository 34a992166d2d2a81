----------------------------- MODULE SnapshotFeed -----------------------------
(***************************************************************************)
(* What the scheduler promises to its sinks: every sink sees a             *)
(* subsequence of the snapshots the collector took, in the order in which  *)
(* they were taken and none of them twice.  A sink may miss snapshots (its *)
(* write failed, the collect was late), it never goes back to an old one.  *)
(***************************************************************************)
EXTENDS Naturals

CONSTANT Sinks

VARIABLES
  taken,      \* the number of snapshots taken so far
  received    \* the number of the last snapshot every sink has taken in

Init ==
  /\ taken = 0
  /\ received = [s \in Sinks |-> 0]

Take ==
  /\ taken' = taken + 1
  /\ UNCHANGED received

Receive(s) ==
  /\ \E n \in (received[s] + 1) .. taken :
       received' = [received EXCEPT ![s] = n]
  /\ UNCHANGED taken

Next == Take \/ \E s \in Sinks : Receive(s)

Spec == Init /\ [][Next]_<<taken, received>>
=============================================================================
