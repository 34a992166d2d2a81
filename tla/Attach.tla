-------------------------------- MODULE Attach --------------------------------
(***************************************************************************)
(* How the daemon serves snapshots to attached clients (bin/zstats/        *)
(* daemon.rs, client.rs).  The scheduler's sink pushes every snapshot into *)
(* the history buffer and then broadcasts it; a client's task subscribes   *)
(* to the broadcast, copies the history, replays the copy and follows the  *)
(* broadcast.  The push, the send, the subscription and the copy are       *)
(* separate steps of two tasks.                                            *)
(*                                                                         *)
(* Snapshots are numbered in the order in which they are collected.  The   *)
(* history is always a contiguous run of them, oldest .. newest, because   *)
(* it grows at the back and is pruned at the front.  How much is pruned    *)
(* depends on timestamps of the wall clock, which may jump either way: any *)
(* prefix that leaves the newest snapshot may go.                          *)
(***************************************************************************)
EXTENDS Naturals

CONSTANTS
  Clients,       \* connections
  Capacity,      \* how many snapshots the broadcast channel retains (64)
  MaxSnapshots   \* bound: how many snapshots are collected

ASSUME AttachAssumption ==
  /\ Capacity \in Nat \ {0}
  /\ MaxSnapshots \in Nat

VARIABLES
  oldest, newest,   \* HistoryBuffer::snapshots, empty when newest < oldest
  sent,             \* the last snapshot sent on the broadcast
  stage,            \* where a client's task is
  next,             \* its receiver's cursor: the next snapshot to receive
  replay,           \* the rest of its copy of the history: [lo, hi]
  got,              \* the snapshots written to the client
  lagged            \* the receiver has ever been told that it lagged

vars == <<oldest, newest, sent, stage, next, replay, got, lagged>>
history == <<oldest, newest>>

Stages == {"away", "connected", "subscribed", "replay", "live"}
Snapshots == 1 .. MaxSnapshots

Init ==
  /\ oldest = 1
  /\ newest = 0
  /\ sent = 0
  /\ stage = [c \in Clients |-> "away"]
  /\ next = [c \in Clients |-> 1]
  /\ replay = [c \in Clients |-> [lo |-> 1, hi |-> 0]]
  /\ got = [c \in Clients |-> {}]
  /\ lagged = [c \in Clients |-> FALSE]

-----------------------------------------------------------------------------
(* ServeSink::write, called by the scheduler for one snapshot at a time.   *)

\* HistoryBuffer::push, with its pruning.
Push ==
  /\ newest = sent
  /\ newest < MaxSnapshots
  /\ newest' = newest + 1
  /\ oldest' \in oldest .. newest + 1
  /\ UNCHANGED <<sent, stage, next, replay, got, lagged>>

\* The broadcast send.
Send ==
  /\ sent < newest
  /\ sent' = sent + 1
  /\ UNCHANGED <<history, stage, next, replay, got, lagged>>

-----------------------------------------------------------------------------
(* handle_client for ATTACH.                                               *)

Goto(c, s) == stage' = [stage EXCEPT ![c] = s]

\* accept spawns the client's task.
Connect(c) ==
  /\ stage[c] = "away"
  /\ Goto(c, "connected")
  /\ UNCHANGED <<history, sent, next, replay, got, lagged>>

\* The command is ATTACH: the new receiver sees what is sent from now on.
Subscribe(c) ==
  /\ stage[c] = "connected"
  /\ Goto(c, "subscribed")
  /\ next' = [next EXCEPT ![c] = sent + 1]
  /\ UNCHANGED <<history, sent, replay, got, lagged>>

\* history.to_json_lines, under the history's mutex.
CopyHistory(c) ==
  /\ stage[c] = "subscribed"
  /\ Goto(c, "replay")
  /\ replay' = [replay EXCEPT ![c] = [lo |-> oldest, hi |-> newest]]
  /\ UNCHANGED <<history, sent, next, got, lagged>>

\* One buffered line is written.
Replay(c) ==
  /\ stage[c] = "replay"
  /\ replay[c].lo <= replay[c].hi
  /\ got' = [got EXCEPT ![c] = @ \cup {replay[c].lo}]
  /\ replay' = [replay EXCEPT ![c].lo = @ + 1]
  /\ UNCHANGED <<history, sent, stage, next, lagged>>

\* Mutants of GoLive: the last buffered line is left out; the task subscribes
\* only after the replay.
GoLiveEarly(c) ==
  /\ stage[c] = "replay"
  /\ replay[c].lo >= replay[c].hi
  /\ Goto(c, "live")
  /\ UNCHANGED <<history, sent, next, replay, got, lagged>>

GoLiveSubscribes(c) ==
  /\ stage[c] = "replay"
  /\ replay[c].lo > replay[c].hi
  /\ Goto(c, "live")
  /\ next' = [next EXCEPT ![c] = sent + 1]
  /\ UNCHANGED <<history, sent, replay, got, lagged>>

\* All buffered lines are written: on to the receive loop.
GoLive(c) ==
  /\ stage[c] = "replay"
  /\ replay[c].lo > replay[c].hi
  /\ Goto(c, "live")
  /\ UNCHANGED <<history, sent, next, replay, got, lagged>>

\* recv returns the snapshot at the cursor, which is written.
Receive(c) ==
  /\ stage[c] = "live"
  /\ next[c] <= sent
  /\ sent < next[c] + Capacity
  /\ got' = [got EXCEPT ![c] = @ \cup {next[c]}]
  /\ next' = [next EXCEPT ![c] = @ + 1]
  /\ UNCHANGED <<history, sent, stage, replay, lagged>>

\* Mutant of Lag: the receiver resumes at the newest snapshot.
LagToNewest(c) ==
  /\ stage[c] = "live"
  /\ sent >= next[c] + Capacity
  /\ next' = [next EXCEPT ![c] = sent + 1]
  /\ lagged' = [lagged EXCEPT ![c] = TRUE]
  /\ UNCHANGED <<history, sent, stage, replay, got>>

\* The channel has dropped the snapshot at the cursor: recv says Lagged and
\* moves on to the oldest one retained, the task continues.
Lag(c) ==
  /\ stage[c] = "live"
  /\ sent >= next[c] + Capacity
  /\ next' = [next EXCEPT ![c] = sent + 1 - Capacity]
  /\ lagged' = [lagged EXCEPT ![c] = TRUE]
  /\ UNCHANGED <<history, sent, stage, replay, got>>

\* The task ends: no command in time or another one, a failed write.  A new
\* connection starts from nothing.
Leave(c) ==
  /\ stage[c] # "away"
  /\ Goto(c, "away")
  /\ next' = [next EXCEPT ![c] = 1]
  /\ replay' = [replay EXCEPT ![c] = [lo |-> 1, hi |-> 0]]
  /\ got' = [got EXCEPT ![c] = {}]
  /\ lagged' = [lagged EXCEPT ![c] = FALSE]
  /\ UNCHANGED <<history, sent>>

ClientStep(c) ==
  \/ Subscribe(c)
  \/ CopyHistory(c)
  \/ Replay(c)
  \/ GoLive(c)
  \/ Receive(c)
  \/ Lag(c)

Next ==
  \/ Push
  \/ Send
  \/ \E c \in Clients : Connect(c) \/ ClientStep(c) \/ Leave(c)

Spec == Init /\ [][Next]_vars

-----------------------------------------------------------------------------
(* Properties.                                                             *)

TypeOK ==
  /\ oldest \in Nat \ {0}
  /\ newest \in 0 .. MaxSnapshots
  /\ oldest <= newest + 1
  /\ sent \in 0 .. MaxSnapshots
  /\ stage \in [Clients -> Stages]
  /\ next \in [Clients -> Nat \ {0}]
  /\ replay \in [Clients -> [lo : Nat \ {0}, hi : 0 .. MaxSnapshots]]
  /\ got \in [Clients -> SUBSET Snapshots]
  /\ lagged \in [Clients -> BOOLEAN]

\* "A duplicate frame is harmless, a hole is not": a client that has kept up
\* has every snapshot between the first frame it was sent and its receiver's
\* cursor (daemon.rs:243-246).
NoHole ==
  \A c \in Clients :
    stage[c] = "live" /\ ~lagged[c] =>
      \A n \in Snapshots :
        n < next[c] /\ (\E m \in got[c] : m <= n) => n \in got[c]

\* A client too slow for the channel loses the oldest snapshots only: of the
\* last Capacity ones sent, it has all between its first frame and its
\* cursor, however often it lagged (daemon.rs:262).
LagKeepsTail ==
  \A c \in Clients :
    stage[c] = "live" =>
      \A n \in Snapshots :
        /\ sent < n + Capacity
        /\ n < next[c]
        /\ \E m \in got[c] : m <= n
        => n \in got[c]
=============================================================================
