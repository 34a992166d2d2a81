-------------------------------- MODULE Viewer --------------------------------
(***************************************************************************)
(* The other end of an attachment: `zstats attach` (bin/zstats/daemon.rs   *)
(* attach, client.rs).  Its stream reads the header and then one line after *)
(* another; while announced lines remain the front end only absorbs them    *)
(* into its rolling windows, the last one and every later line is shown.    *)
(* The daemon's task of Attach writes into the socket, whose buffer is      *)
(* bounded: a viewer that reads slowly stops the task, which then lags.     *)
(* Either end may go first.                                                *)
(***************************************************************************)
EXTENDS Attach, Sequences

CONSTANTS
  PipeCapacity,   \* lines the socket's buffer holds, and the one half written
  Garbled         \* snapshots the viewer's version cannot parse

ASSUME ViewerAssumption ==
  /\ PipeCapacity \in Nat \ {0}
  /\ Garbled \subseteq Nat

VARIABLES
  pipe,        \* the lines written and not yet read
  announced,   \* what HISTORY counts: the copy [lo, hi] of the history
  view,        \* where the viewer is
  remaining,   \* DaemonStream::history_remaining
  seen,        \* the snapshots in TextSink's rolling windows
  screen       \* the snapshot last shown, 0 before the first

viewVars == <<pipe, announced, view, remaining, seen, screen>>
allVars == <<vars, viewVars>>

Header == 0
Views == {"out", "attaching", "replaying", "following"}

ViewInit ==
  /\ Init
  /\ pipe = [c \in Clients |-> <<>>]
  /\ announced = [c \in Clients |-> [lo |-> 1, hi |-> 0]]
  /\ view = [c \in Clients |-> "out"]
  /\ remaining = [c \in Clients |-> 0]
  /\ seen = [c \in Clients |-> {}]
  /\ screen = [c \in Clients |-> 0]

-----------------------------------------------------------------------------
(* The daemon's side: Attach's steps, writing into the socket.  A write to *)
(* a viewer that has gone fails, which leaves Leave.                       *)

Writable(c) == view[c] # "out" /\ Len(pipe[c]) < PipeCapacity

\* write_all, of one line.
Written(c, line) ==
  /\ Writable(c)
  /\ pipe' = [pipe EXCEPT ![c] = Append(@, line)]

WriteHeader(c) ==
  /\ CopyHistory(c)
  /\ Written(c, Header)
  /\ announced' = [announced EXCEPT ![c] = [lo |-> oldest, hi |-> newest]]
  /\ UNCHANGED <<view, remaining, seen, screen>>

WriteBuffered(c) ==
  /\ Replay(c)
  /\ Written(c, replay[c].lo)
  /\ UNCHANGED <<announced, view, remaining, seen, screen>>

WriteLive(c) ==
  /\ Receive(c)
  /\ Written(c, next[c])
  /\ UNCHANGED <<announced, view, remaining, seen, screen>>

\* recv runs only between two writes: a task with a line to finish does not
\* notice that it lags.
Serving(c) ==
  \/ (Subscribe(c) \/ GoLive(c)) /\ UNCHANGED viewVars
  \/ Lag(c) /\ Len(pipe[c]) < PipeCapacity /\ UNCHANGED viewVars
  \/ WriteHeader(c)
  \/ WriteBuffered(c)
  \/ WriteLive(c)

Collecting == (Push \/ Send) /\ UNCHANGED viewVars

\* The task ends (Attach's Leave).  What it wrote can still be read, except
\* for the line it was writing, which may be cut off.
HangUp(c) ==
  /\ Leave(c)
  /\ \/ UNCHANGED pipe
     \/ /\ Len(pipe[c]) = PipeCapacity
        /\ pipe' = [pipe EXCEPT ![c] = SubSeq(@, 1, PipeCapacity - 1)]
  /\ UNCHANGED <<announced, view, remaining, seen, screen>>

-----------------------------------------------------------------------------
(* The viewer's side: client::attach_at, DaemonStream::next, attach.       *)

\* It connects and writes ATTACH; the daemon accepts.  A viewer takes a
\* connection of its own: the daemon's task of the last one is gone.
Join(c) ==
  /\ view[c] = "out"
  /\ Connect(c)
  /\ pipe' = [pipe EXCEPT ![c] = <<>>]
  /\ announced' = [announced EXCEPT ![c] = [lo |-> 1, hi |-> 0]]
  /\ view' = [view EXCEPT ![c] = "attaching"]
  /\ remaining' = [remaining EXCEPT ![c] = 0]
  /\ seen' = [seen EXCEPT ![c] = {}]
  /\ screen' = [screen EXCEPT ![c] = 0]

\* attach_at has the header: with nothing buffered the viewer follows at once.
ReadHeader(c) ==
  /\ view[c] = "attaching"
  /\ pipe[c] # <<>>
  /\ pipe' = [pipe EXCEPT ![c] = Tail(@)]
  /\ LET count == announced[c].hi + 1 - announced[c].lo
     IN  /\ remaining' = [remaining EXCEPT ![c] = count]
         /\ view' = [view EXCEPT ![c] =
                       IF count > 0 THEN "replaying" ELSE "following"]
  /\ UNCHANGED <<vars, announced, seen, screen>>

\* DaemonStream::next takes a line, and with it a slot of the history, even
\* when the line does not parse.
NextLine(c) ==
  /\ view[c] \in {"replaying", "following"}
  /\ pipe[c] # <<>>
  /\ pipe' = [pipe EXCEPT ![c] = Tail(@)]
  /\ remaining' = [remaining EXCEPT ![c] = IF @ > 0 THEN @ - 1 ELSE 0]
  /\ UNCHANGED <<vars, announced>>

\* Mutant of Skip: a line that does not parse keeps its slot.
SkipKeepsSlot(c) ==
  /\ view[c] \in {"replaying", "following"}
  /\ pipe[c] # <<>>
  /\ Head(pipe[c]) \in Garbled
  /\ pipe' = [pipe EXCEPT ![c] = Tail(@)]
  /\ UNCHANGED <<vars, announced, view, remaining, seen, screen>>

\* The line is skipped.
Skip(c) ==
  /\ NextLine(c)
  /\ Head(pipe[c]) \in Garbled
  /\ UNCHANGED <<view, seen, screen>>

\* TextSink::averages records the snapshot's samples.
Record(c) == seen' = [seen EXCEPT ![c] = @ \cup {Head(pipe[c])}]

\* More of the history follows: TextSink::absorb.
Absorb(c) ==
  /\ NextLine(c)
  /\ Head(pipe[c]) \notin Garbled
  /\ remaining'[c] > 0
  /\ Record(c)
  /\ UNCHANGED <<view, screen>>

\* The last announced snapshot, or a live one: TextSink::write.  It is also
\* where a replay ends whose last line was skipped.
Show(c) ==
  /\ NextLine(c)
  /\ Head(pipe[c]) \notin Garbled
  /\ remaining'[c] = 0
  /\ Record(c)
  /\ screen' = [screen EXCEPT ![c] = Head(pipe[c])]
  /\ view' = [view EXCEPT ![c] = "following"]

Out(c) ==
  /\ view' = [view EXCEPT ![c] = "out"]
  /\ UNCHANGED <<vars, pipe, announced, remaining, seen, screen>>

\* The daemon has closed the connection and everything is read: no header, or
\* "zstats daemon closed the connection".
Eof(c) ==
  /\ view[c] # "out"
  /\ stage[c] = "away"
  /\ pipe[c] = <<>>
  /\ Out(c)

\* q, d or Ctrl+C while it follows; before that only Ctrl+C, which kills it.
Quit(c) ==
  /\ view[c] # "out"
  /\ Out(c)

Viewing(c) == ReadHeader(c) \/ Skip(c) \/ Absorb(c) \/ Show(c) \/ Eof(c)

ViewNext ==
  \/ Collecting
  \/ \E c \in Clients :
       \/ Serving(c)
       \/ HangUp(c)
       \/ Join(c)
       \/ Viewing(c)
       \/ Quit(c)

ViewSpec == ViewInit /\ [][ViewNext]_allVars

\* The sink's write goes on, so does the task of a client whose socket takes
\* the line, and the viewer reads what is there.
FairViewSpec ==
  /\ ViewSpec
  /\ WF_allVars(Send /\ UNCHANGED viewVars)
  /\ \A c \in Clients :
       /\ WF_allVars(Serving(c))
       /\ WF_allVars(Viewing(c))

-----------------------------------------------------------------------------
(* Properties.                                                             *)

\* The types of the viewer's variables.
ViewTypeOK ==
  /\ TypeOK
  /\ pipe \in [Clients -> Seq(Snapshots \cup {Header})]
  /\ announced \in [Clients -> [lo : Nat \ {0}, hi : 0 .. MaxSnapshots]]
  /\ view \in [Clients -> Views]
  /\ remaining \in [Clients -> 0 .. MaxSnapshots]
  /\ seen \in [Clients -> SUBSET Snapshots]
  /\ screen \in [Clients -> 0 .. MaxSnapshots]

\* A snapshot sent to an attached client enters the viewer's averages, unless
\* the client lags, either end goes, or the viewer cannot parse it
\* (daemon.rs:252-261, client.rs:80-94).
Arrives ==
  \A c \in Clients, n \in Snapshots \ Garbled :
    /\ stage[c] \in {"subscribed", "replay", "live"}
    /\ next[c] <= n
    /\ n <= sent
    ~> n \in seen[c] \/ lagged[c] \/ stage[c] = "away" \/ view[c] = "out"

\* Repeated frames are harmless (daemon.rs:243-244): the picture goes back
\* only from inside the history that was announced; once something newer is
\* on the screen, it only moves forward.
ScreenAdvances ==
  [][\A c \in Clients :
       screen[c] > announced[c].hi /\ screen'[c] # 0
         => screen'[c] >= screen[c]]_allVars

\* What the daemon replays is not shown as if it were live: the first picture
\* is the newest announced snapshot, however many lines before it the viewer
\* cannot parse (daemon.rs:296-312, client.rs:89-90).
StartsAtNewest ==
  [][\A c \in Clients :
       /\ screen[c] = 0 /\ screen'[c] # 0
       /\ announced[c].lo <= announced[c].hi
       /\ announced[c].hi \notin Garbled
       => screen'[c] = announced[c].hi]_allVars

\* A viewer's three promises.
Delivered == Arrives /\ ScreenAdvances /\ StartsAtNewest
=============================================================================
