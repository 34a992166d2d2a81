# zstats in TLA+

zstats is a system monitor written in Rust: a library that collects snapshots
of the machine, a scheduler that does so on every tick and hands them to sinks,
an alert engine, and a command-line front end that can run as a daemon to which
viewers attach.  This directory models the parts whose correctness depends on
interleavings, timing, failures or long histories, checks the models with TLC,
and proves what matters most with TLAPS.

Paths such as `scheduler.rs:112` are relative to `src/` of the repository;
`daemon.rs` is `src/bin/zstats/daemon.rs`.

## 1. Inventory

| Component | State | Operations | Talks to |
|---|---|---|---|
| **Scheduler** (`scheduler.rs`) | `shutdown_tx`, `in_flight`, the collector's mutex, the loop task and blocking tasks | `start`, `stop`, `collect_once`, `drop`, the loop's tick, `collect_snapshot`, `dispatch` | the collector on a blocking thread, every sink |
| **Sinks** (`sink/`) | the latest snapshot (watch channel); nothing for stdout | `write` | called by the scheduler's dispatch |
| **Daemon serving** (`bin/zstats/daemon.rs`) | the history buffer, the broadcast channel, one task per client | `HistoryBuffer::push`, `ServeSink::write`, `handle_client` | the scheduler pushes, clients read |
| **Client and attached view** (`client.rs`, `daemon.rs`, `render.rs`) | the stream's count of announced lines, the rolling windows, the picture | `attach_at`, `next`, `absorb`, `write`, quit | the daemon through a socket |
| **Daemon life cycle** (`daemon.rs`, `main.rs`, `client.rs`) | the socket path, the listener, the shutdown `Notify` | `serve`, `detach_self`, `stop`, signals, crashes | other zstats processes through the path |
| **Alert engine** (`alerts.rs`) | rolling windows, episodes, cooldowns, the pressure episode, disarmed disks, the recording clock | `evaluate` per snapshot; thresholds are passed in | called by the alert sink or the monitor |
| **Rolling usage** (`rolling.rs`) | samples per pid | `record` | called by the engine, the monitor and the screen |
| **Alert sink** (`bin/zstats/alerts.rs`) | engine, thresholds, rounds and mtimes of the last look at the files | `write`, `maybe_reload`, notifications | the two files, records, the engine, a helper program |
| **Records** (`records.rs`) | one file per day, the date of the last cleanup | `append`, `read_range`, `cleanup` | the file system, several processes |
| **Monitor** (`monitor.rs`) | collector, engine, windows, settings | `tick`, `reload_settings`, toggles | composes the above in one process |
| **Local collector** (`collector/local.rs`, `utils/rate.rs`) | refresh times, baselines and cached readings of every channel; the process table of the last refresh | `collect`, toggles | the operating system |
| **Configuration** (`settings.rs`, `config.rs`) | the config file | `load`, `save`, `apply_add`, `apply_remove` | several editors and a reloading daemon |
| **Thresholds and templates** (`alerts.rs`, `templates.rs`) | none | merging of overrides, a template and defaults; look-up by name | the engine and the sink |
| **Listeners** (`listeners.rs`, `listeners/`) | none between calls | `listeners`, `process_traffic` | the kernel's socket tables, `/proc` |
| I/O Registry probe, snapshot types, rendering | none | stateless queries, data and output | |

What is hard in each, and what makes it correct:

* **Scheduler.** A collect is a blocking call nobody can cancel: it may outlive
  its timeout and the loop's stop, fail, or panic.  A mutex serialises collects
  and a flag must keep a second one from being queued.  Correct: one collect at
  a time; the flag is always cleared by someone; rounds do not overlap; sinks
  never go back in time; `stop` returns; the loop goes on after every failure.
* **Daemon serving and the view.** A client subscribes, copies the history and
  follows the broadcast, in three steps, while another task pushes, prunes and
  sends; the socket between them is bounded and the reader may be slow.
  Correct: no hole between replay and live frames; a slow client loses old
  frames only; what is sent enters the averages; the picture does not go back.
* **Daemon life cycle.** Everything goes through one path and no lock: daemons
  look, probe, remove and bind, and remove again when they stop, each a separate
  system call, with crashes in between.  Correct: a serving daemon can be
  reached; a crash does not keep the next one from starting; nothing is left
  behind; `stop` stops.
* **Alert engine.** Noisy input over hours against persistence, cooldowns,
  reminders and re-arming, under thresholds that are reloaded meanwhile.
  Correct: news is new and has persisted; neither spam nor silence.
* **Alert sink and configuration.** Two files are edited in place by others
  while the sink looks at their mtimes now and then; a notification goes through
  a helper that may hang.  Correct: the sink comes to apply what the files say,
  the user's word beats a template's, a command keeps what it does not name, a
  write ends in time.
* **Records.**  Several processes, no lock, two system calls per line, crashes
  and full disks between them, and a daily sweep.  Correct: what was
  acknowledged is read back once, and is dropped by whole days only; a day that
  cannot be read costs no other range than those it lies in.
* **Collector.** Rates are differences to a baseline kept across refreshes on
  separate cadences, with failed reads, live toggles, recycled pids and budgets
  in between.  Correct: a rate is a true average of one thing; nothing stale is
  shown; what takes most is in the list.
* **Listeners.** Tables, dumps and descriptors are read one after the other
  while sockets come and go; the macOS table is an undocumented format.
  Correct: an owner named did hold the socket; traffic is counted once; a table
  is read as meant or refused.

`PROJECT.json` lists the hazards of the code line by line, each with the
properties that would catch it or with the reason why none does.

## 2. Modules

| Module | Models | Builds on | Proofs |
|---|---|---|---|
| `SnapshotFeed` | abstract: what the scheduler promises its sinks | | |
| `Scheduler` | `scheduler.rs`, all of it | | `ServeProofs` |
| `Attach` | history, broadcast and attached clients of the daemon | | `AttachProofs` |
| `Viewer` | the socket and the attached view at its other end | `Attach` | `AttachProofs` |
| `Daemon` | serve processes and stop commands around the socket path | | `ServeProofs` |
| `Pressure` | the memory-pressure rule of the alert engine | | `AlertProofs` |
| `Episodes` | the CPU and memory rules for processes and applications, their windows, the choice of records | `Sums` | `EpisodesProofs` |
| `Monitor` | a front end's loop: collect, evaluate, append, reload | `Episodes` | `EpisodesProofs` |
| `MetricHistory` | abstract: what the daily files promise their readers | | |
| `Records` | `records.rs`: writers, files, sweeps, readers | | `AlertProofs` |
| `AlertSink` | the daemon's alert sink, the disk rule, notifications | | `AlertSinkProofs` |
| `Thresholds` | the merging of overrides, templates and defaults, patterns | | `AlertSinkProofs` |
| `Settings` | the config file as keys, its commands, units and defaults | `Thresholds` | `AlertSinkProofs` |
| `Channels` | the sampling channels of the collector | | `ProbeProofs` |
| `Processes` | the process table, the list, the trees, attribution | `Sums` | `ProcessesProofs` |
| `Sockets` | the Linux socket queries | `Sums` | `ProbeProofs` |
| `SocketTable` | the macOS socket table's parser | `Sums` | `ProbeProofs` |
| `Sums` | the sum over a set that three of these take | | `SumProofs` |

`MC*` modules are the instances for TLC; `MCAlertSink` also composes `AlertSink`
with `Settings`.  Definitions whose comment begins with "Mutant of" are wrong
variants of the definition that follows them, kept to show that the properties
notice them.  A variable whose comment begins with "history" or "the machine" is
no state of the program: the first records what happened, the second is the
world the program reads, and properties compare the program's state with both.

How the modules meet: `Scheduler` writes to sinks; the serving sink is
`Attach`'s `Push` and `Send`, the alert sink is `AlertSink`'s `Sink`, whose
engine is `Pressure`, `Episodes` and the disk rule, whose records go to
`Records`.  They share no state beyond that hand-over, which
is why each is checked on its own; where state is shared, modules are composed
(`Viewer` with `Attach`, `Monitor` with `Episodes`, `MCAlertSink`).

### Scheduler, SnapshotFeed

Two actors, `"loop"` and `"owner"`, share `collect_snapshot` and `dispatch`;
`pc` says where each of them is.  The owner makes one call at a time because the
methods take `&mut self`.  A blocking task goes `queued` (waiting for a thread
and for the mutex), `collecting` (holds the mutex), `collected` (guard dropped,
flag not yet cleared), `finished` or `panicked`.  A waiter that times out drops
its handle and the task lives on.  Each of `Timeout`, `JoinFailed`,
`JoinPanicked` and `JoinOk` is one way for the waiter to go on; a tick that
finds the flag set is skipped, which is a step that changes nothing.  Snapshots
are numbers in the order in which the collector produced them.  `WriteLost` is a
failed write or one that ran into the write timeout.  `SnapshotFeed` says what a
sink can rely on: an increasing subsequence of the snapshots taken.  `FeedSpec`
is that module instantiated with the scheduler's own `taken` and `received`.

The history variable `asked` remembers for each actor how many snapshots there
were when its round began.

### Attach, Viewer

`Push` and `Send` are the two halves of `ServeSink::write`; `Subscribe`,
`CopyHistory`, `Replay`, `GoLive`, `Receive` and `Lag` are `handle_client` for
`ATTACH` step by step.  The history is an interval of snapshot numbers.  Pruning
goes by wall-clock timestamps, and the clock can jump, so `Push` may prune any
prefix; the newest snapshot stays, as `HistoryBuffer::push` guarantees.  The
broadcast channel is a cursor per receiver with a capacity, and `Lag` moves the
cursor to the oldest snapshot retained, which is what tokio's channel does.
A client may leave at any moment and connect again.

`Viewer` is the other end.  Its actions on the daemon's side are `Attach`'s,
each with a write into a socket buffer of `PipeCapacity` lines that blocks when
full; on the viewer's side it reads the header, counts the announced lines down
(`DaemonStream::history_remaining`), absorbs each into its windows and shows the
last one and every later one.  A line the viewer's version cannot parse takes
its slot and nothing else.

### Daemon

`CheckPath`, `Probe`, `CleanStale`, `Bind` and `Listen` are the separate system
calls of `serve`'s start; `SchedulerStopped`, `RemoveSocket`, `DropListener` and
`Exit` those of its end.  `Kill` is a signal without a handler, a crash or a
power cut, at any step.  `Launch` is the parent of a detached daemon, with its
own probe; `Serve` is the foreground daemon.  `AcceptFatal` is the break out of
the accept loop after which the daemon collects on without a listener.  A stop
command and the handler of its connection are two more processes per client.

When daemons may be started is a parameter, `operator`: only after the last one
has exited; as soon as `zstats stop` has reported it stopped; or at any time.
What holds depends on it, and each property says for whom it speaks.

### Pressure

One action per way through the pressure part of `AlertEngine::evaluate`:
`Ignore`, `Dip`, `News`, `Remind`, `Quiet`, and `Reload` for new thresholds.
`episode` is the engine's state, field for field.  The history variables say
what really happened, independently of that state: since when it has been calm,
when the trouble began, since when the verdict has reached the threshold, what
has been told.  The properties compare the two.

### Episodes, Monitor

`Record` is `ProcessWindows::record`: samples of the listed processes joined,
old ones and those of unlisted processes dropped.  The rule a behaviour is about
is `kind`: the CPU of a process, with an acute and a chronic window, or its
memory, or the CPU or memory of an application, with the chronic one.  The
memory rule measures the footprint where every sample has one and the resident
size otherwise.  `Repeats`, `Begins` and `EpisodeAfter` are `EpisodeState`, and
`Evaluate` (`EvaluateApps` for applications, which a snapshot may lack) puts
them together in the order of the code; a snapshot without processes is `Skip`.
The records of a minute are chosen with the rule of the records (`Qualify`).  An
average is compared as a sum, so it is exact.  `Monitor` adds what a front end
does with the records, an append that may fail included, and reloads.

### Records, MetricHistory

A file is the sequence of what write calls put into it: the line and the newline
are two of them (`writeln!` on an unbuffered file), so another process may write
in between, a crash may fall between them, and a full disk may cut a line off:
between two characters (`Torn`), or inside one (`Garbled`).  `Append_fails` is
the early return that skips the sweep; `maybe_cleanup` marks its date before it
removes files.  Readers parse what stands on lines of its own, and `read_range`
fails as a whole on a line that is not valid UTF-8 (`Refuses`): the `?` of
`records.rs:184` is the reader's error, not the parser's.  `MetricHistory` is
what readers may rely on: beside the records of each day it has the days that
are `spoiled`, and the `Answer` for a range of days.  `HistorySpec` reads the
files back to map one to the other and compares every answer.

### AlertSink, Thresholds, Settings

`AlertSink` keeps of a config file the disk bar it sets and of a template its
identity, each with a content and an mtime from a coarse clock; an editor
truncates and writes in two steps.  A start reads the config, then the template,
then the mtimes; a reload looks at the mtimes first.  The disk rule runs with
its hysteresis, and every notification has a helper that may hang until its
timeout.  `blind` says that an edit fell where mtimes cannot show it.
`Thresholds` and `Settings` have no steps of their own: they are the functions
that turn files into bars and commands into files, checked over small inputs in
the same run.

### Channels, Processes

`Channels` follows one channel of `LocalCollector`, which `Init` chooses among
eight: the channels share no state, and each differs from the others in what a
failed read, a switch or a unit that vanishes does to its baseline and its
reading, and in what it publishes of a unit without a baseline (`Unclaimed`: an
interface shows zero bytes a second).  Rates are kept as the delta and the time
it is divided by, so nothing is rounded.  `Processes` gives every process a life
besides its pid, which the code cannot see: the properties are about lives.  It
has the refresh (on its cadence or at once under load), the percentages, the
selection of the top processes, the trees with `is_plausible_parent`, their cut
to the busiest, and the choice of applications a pressure alert names among
those that are left.  The sample also keeps all the trees (`trees`, history), so
that a property can speak of an application that was cut.

### Sockets, SocketTable

A call of `listeners` or `process_traffic` reads one table or one dump, then one
process' descriptors, per step, while processes open, inherit and close sockets
that carry bytes.  `SocketTable` is the parser of the macOS table as a fold over
records.  It looks at a record's length before its kind, so a record of 24 bytes
is the closing header whatever it was written as; `Damaged` has the tables wrong
in one place otherwise, `Ended` those in which one record has that length.
`FramingIsStrict` runs the parser over every small table of either sort.

## 3. Runs

| Run | Question | Bounds | Result |
|---|---|---|---|
| `scheduler_loop` | the daemon's use: `start` and `stop`, no `collect_once`, collects may hang or fail | two sinks, two task slots, three snapshots | all hold |
| `scheduler_once` | the embedder's use: `collect_once` beside the loop, collects that panic | two sinks, three task slots, three snapshots | each round is its own |
| `attach` | a viewer that connects at any point of the history's life and reads as slowly as it likes | a broadcast of two, a socket of two lines, five snapshots, one garbled | all hold |
| `daemon` | two daemons, a stop command, three kinds of operator, crashes anywhere | two processes, one client | all hold |
| `daemon_restart` | does a silent `stop` mean that nothing serves? | two processes, two clients | **no** |
| `pressure` | noisy verdicts and a moving threshold | twenty instants, two pauses | all hold |
| `episodes` | a process or application coming, going and flapping under each of four rules, in a front end's loop | nine instants, two pauses, two thresholds | all hold |
| `records` | two processes appending across midnights, full disks, crashes and sweeps that fail; readers of any range | three days, three records | all hold, with the refusals below |
| `alert_sink` | files edited, cut short and removed at any step of a start or a reload; helpers that hang | two edits, two ticks of the mtime clock, two volumes | all hold |
| `channels` | each of the eight channels against reads that fail, units that come and go, switches | two units, two intervals, five instants | all hold, with the drives' rate below |
| `processes` | pids recycled by short-lived processes, one without a start time, one compressed, one opaque | three pids, three lives, four instants | all hold, with the cut below |
| `sockets` | one query while processes open, share and close sockets; every small macOS table | two sockets, three processes, two changes | all hold, with the early end below |

**Properties.**  Each is stated in words above its definition.

* Scheduler: `SingleCollect`, `FlagHasOwner`, `WritesSettled`, `FeedSpec`
  (refinement), `StopReturns` and `RoundsContinue` (liveness).  With
  `collect_once` beside the loop, `RoundsAreOwn`: what a round dispatches was
  collected after it began, and no sink is given what it has just taken in or is
  being given.
* Attached clients: `NoHole`, `LagKeepsTail`, and `Delivered`: what is sent
  enters the viewer's averages (liveness), the picture does not go back, and the
  first picture is the newest of the history.
* Daemons: `ServingIsReachable`, `NothingLeftBehind`, `StartSucceeds` and
  `StopHonoured` (liveness); `SilentStopMeansStopped` fails.
* Pressure: `Pulse`, `Sparse`, `NewsOnce`, `NewsPersisted`.
* Episodes: `FollowUp`, `Told`, `Sustained`, `Spaced`, and `Noticed`: a runaway
  is reported in time and recorded every minute.
* Records: `AckedIsRead`, `HistorySpec` (refinement).
* Alert sink: `WithinBudget`, `CrossingOnce`, `Follows` (liveness),
  `UserDecides` and `CommandsKeepTheRest` over the merged settings.
* Collector: `TrueRates`, `Fresh`, `MountsHaveCapacity`; `TrueCpu`,
  `HogsListed`, `NoStrangers`, `FamiliesTogether`.
* Listeners: `SocketsNamed`, `TrafficCountedOnce`, `FramingIsStrict`.

**What the failing run shows.**  `zstats stop` returns at the `OK`, long before
the daemon removes the path.  A daemon started in between is left without its
socket, and the next `zstats stop` succeeds silently while it serves.

**Where the code falls short of a property, and how to see it.**  These are
not runs of their own; each takes a change of one line in a configuration.

* *A panic after the timeout.*  With `Panics = TRUE` in `MCSchedulerLoop.cfg`,
  `FlagHasOwner` and `RoundsContinue` fail: a collect that panics after its
  waiter has given up leaves `in_flight` set, and the loop skips every later
  tick although every collect comes back.
* *`collect_once` beside the loop.*  With `SingleCollect`, `FlagHasOwner` or
  `FeedSpec` added to `MCSchedulerOnce.cfg`, each fails: `collect_once` sets the
  flag without looking and has a dispatch of its own, so whichever collect ends
  first clears the flag of the other, and a sink can be left with the older of
  two snapshots.
* *The pressure rule switched off.*  With `0` added to `Settings` in
  `MCPressure.cfg`, `NewsPersisted` fails: switching the rule off freezes its
  episode, and back on the first warning is reported at once for pressure that
  had ended.
* *A collect interval that does not fit.*  With an interval of 40 s (and 16 s,
  21 to 24 s, 31 to 49 s or more than 60 s) no 60 s window of samples spans the
  required 50 s, so the acute rule never fires.  Units of 20 s show it: with
  `Window = 3`, `MinSpan = 3` and `Pauses = {2}` in `MCEpisodes.cfg`, `Noticed`
  fails.

**Where a comment promises more than the code does.**  Each of these is part of
what a property says, so that it is exact about the code.

* *A line cut inside a character.*  "Missing files are skipped [...] and so are
  lines that fail to parse" (`records.rs:171-172`): a line that a full disk cut
  inside a multi-byte character is not.  It fails `read_range` for every range
  its day lies in, and with it every other record of that range, until the day
  is swept.  `AckedIsRead` and `HistorySpec` say that nothing else does.
* *Drives after a failed read.*  The code keeps the baselines so that "the next
  successful one still diffs against real counters" (`local.rs:505-506`), but
  moves the instant they are divided from (`508`).  The next rate is the whole
  gain since the last good read over the time since the failed one: too large.
  `TrueRates` says so through `Since`.
* *A record of 24 bytes.*  "Any mismatch refuses the whole table"
  (`listeners/pcblist.rs:35`), but any record of that length is taken for the
  closing header (`239-245`) before its kind is looked at (`250`).  The sockets
  behind it are then missing from a table that is accepted.  `FramingIsStrict`
  says that those in front of it are all there and unchanged.
* *An idle application that holds most.*  "Who is holding the RAM at the moment
  the kernel called memory short" (`alerts.rs:678`): the alert chooses among the
  groups of the snapshot, and those are cut by CPU (`local.rs:1475-1481`).
  `HolderNamed` says that the application holding most is named unless the
  published groups are as many as there may be, each at least as busy.

**What a property does not see.**

* `ServingIsReachable` and `StartSucceeds` speak of operators who wait;
  `StopHonoured` exempts the daemon that has lost its listener, whose false
  success is modelled (`AcceptFatal`) but contradicts nothing.
* `Follows` exempts the edits that mtimes cannot show (`blind`).
* `CommandsKeepTheRest` compares whole files and the thresholds for all names,
  not entries for one name (their bars are `UserDecides`), and takes a save as
  one step: a save read half-way is `Follows`.
* `SocketsNamed` is about pids.  The names are looked up by pid at the very end
  of a query (`listeners.rs:562-615`), and pids do not recycle during one in
  `Sockets`: a name of a later process of the same pid is not seen.
* `TrafficCountedOnce` assumes that the kernel flags every dump that a change of
  its table interrupted.

**Bounds.**

* *Scheduler*: two sinks and three snapshots let a sink lag, miss one and take a
  later one; two task slots suffice for a straggler and its would-be successor,
  three where `collect_once` can add another; three snapshots then let the loop
  and `collect_once` each have one while a straggler brings a third.  Slots are
  reused for ever, and a collect may fail any number of times.  In
  `scheduler_once` task slots are interchangeable, so symmetry is sound (the run
  has no liveness property).
* *Attach*: a channel of two and five snapshots allow two lags in a row and a
  copy that overlaps the live part; a socket of two lines makes the daemon's
  task wait for the viewer; the garbled snapshot may be announced, the last one
  announced, or live.  One client: clients share only the history and the
  channel, which none of them changes.
* *Daemon*: two processes are the smallest number that can get in each other's
  way; in `daemon` a third would multiply the states without a new kind of
  conflict, since every step concerns a daemon and the owner of the path.  The
  restart needs a second stop command, so `daemon_restart` has two.
* *Pressure*: the durations keep their order (critical sooner than warning,
  normal as long as warning, reminders doubling once to the ceiling) and pauses
  of two lengths make evaluations fall before, on and after each deadline.
  Twenty instants hold three reminders, an escalation and a second episode.
* *Episodes*: one process, because processes share nothing but the list they
  appear in.  The chronic window is three acute ones and a runaway is twice the
  threshold, so that neither tier implies the other.  Nine instants hold a first
  report, the cooldown, a second episode, the follow-up and two records.
* *Records*: two writers are the smallest number that can mix their lines up;
  with a retention of one day the third day sweeps the first file and keeps the
  second, so a range of days has a spoiled day in front of, in or behind it.
* *Alert sink*: two edits are an edit under way during a look at the mtimes and
  one after it; two ticks let edits share one or not.  The bars are one margin
  apart, so a reload can arm a volume or leave it.  The settings' names have up
  to three letters and patterns every placement of a star.
* *Channels*: an interval of none and of two instants, with capacities on a
  cadence of their own that fits neither; four steps of time hold a good read,
  a failed one, a switch and the reads after them.
* *Processes*: three pids are a manager, a parent and a child, recycled once
  each; the budget of two is the smallest that has a half for either ranking.
* *Sockets*: one socket per address family; three attempts would repeat the
  second, and the last one is kept as it is.

Deadlock is checked in `alert_sink` and `channels`, where some step is always
possible.  Elsewhere the system may really stop: a dropped
scheduler with no task left, a stop command that has returned, an exited daemon,
or a model that has used up its instants, records or snapshots.  That something
must not stop is stated as a liveness property instead.

## 4. Fairness

* *Scheduler*: the runtime runs what is ready and fires timers that are due, so
  waits, writes (bounded by the write timeout), ticks and the continuation of a
  call are weakly fair.  The loop's `select!` picks a ready branch at random, so
  its shutdown branch is strongly fair.  `TaskCollect` is *not* fair, since the
  operating system may never answer, and neither are the owner's calls.
  `RoundsContinue` assumes explicitly that collects come back (`CollectsEnd`).
* *Attach, Viewer*: the sink's write continues after the push (`Send`); a
  client's task continues while the socket takes the line (`Serving`); the
  attached view, whose loop does nothing but wait for lines and keys, reads what
  is there (`Viewing`).  `Push`, leaving and joining are the environment's.
* *Daemon*: a process that is starting or stopping goes on, and a handler that
  has answered notifies.  Starting, signals, crashes, clients and the exit
  itself (which a hanging collect can hold up) have no fairness.
* *AlertSink*: rounds go on, as the scheduler's liveness says, and a write's own
  steps are not held up (`Sink`); a helper that does not answer runs into its
  timeout.  Nothing is assumed of editors, helpers, or who starts the daemon.
* The other modules state no liveness and assume no fairness.

## 5. Proofs

All theorems hold for every value of the constants that satisfies the module's
named assumption; the conditions of some theorems are in their `ASSUME`.

* **SumProofs.**  What the other proofs share: a set of numbers has a least
  element (`Smallest`), induction on numbers and on finite sets, for a set given
  beforehand (`Inductive`, `InductiveParts`), folds and sums.  A fold is a
  recursive function on the parts of a set: that it exists is proved by
  induction (`FoldExists`).  A sum is one (`AddsExists`), and any element can be
  taken out of it (`SumRemove`), more counted of more is more (`SumGrows`), and
  sums of disjoint sets add up (`SumApart`).
* **ServeProofs, Scheduler.**  Type correctness needs `OneLoop`: without a
  shutdown sender there is no loop, unless a stop or a drop is under way, so
  `start` never makes a second one.  `RoundsSettle` is `WritesSettled`.
  `FlagOwned`, for collects that do not panic, rests on `FlagInv`: a set flag
  has a running task.  `RoundsAreTheirOwn` (`RoundsAreOwn`) covers
  `collect_once` and panics: no task is awaited twice (`Awaited`), what a task
  has collected and nobody has dispatched is known to no sink and to no other
  task (`Undispatched`), and is newer than the round that awaits it (`Newer`).
  `CollectsAlone`, without `collect_once` but with panics,
  rests on `LoopAlone`: at most one task is alive, and between its end and the
  loop hearing of it the loop cannot tick.  `ImplementsFeed` adds `Fresh` (every
  write and result is newer than what any sink has) and shows that each step of
  the scheduler is a step or a stutter of `SnapshotFeed`.
* **AttachProofs.**  `NoHole` and `LagKeepsTail` are inductive together with
  `Order` (send follows push by at most one; a cursor is never beyond the next
  send; the copy reaches the cursor) and `Contiguous` (no gap while replaying).
  `ViewerImplementsAttach` carries them over to behaviours with viewers.
  `ScreenMovesForward`, the middle part of `Delivered`, rests on `OnTheWay`:
  beyond the announced history the lines in the socket rise, above what is shown
  (`Rising`) and below what the task writes next (`Below`).  The last part,
  `StartsAtNewest`, is `FirstPictureIsNewest`.  It rests on `Counted`: viewer
  and task agree on the number of announced lines, those still awaited are in
  the socket or about to be written unless the connection has ended, and nothing
  is on the screen before the last of them is read.  With `ViewerTypeCorrect`
  both safety parts of `Delivered` are proved.
* **ServeProofs, Daemon.**  `NothingLeftBehind` follows from `SocketOwned`: the
  file at the path is that of a daemon that has bound it and not yet removed it,
  or was killed.  `ServingIsReachable` follows from `Alone`: an operator who
  waits for the exit never has two daemons alive.
* **AlertProofs, Pressure.**  `PulseHolds` rests on `Older`: the episode is at
  least as old as the loud stretch, so once that has lasted, a report is due or
  one is recent.  `NewsIsNew` and `NewsIsOld` rest on `EpisodeInv`: as long as
  the rule is never switched off, the episode begins with the first verdict
  above normal and ends exactly when it has been calm, and what was told in it
  is at most what was alerted.  The condition is necessary, as section 3 shows.
  `RemindersSparse` (`Sparse`) is about a bound that doubles: that its recursive
  functions exist is proved by induction on the numbers (`Iterated`), which
  gives their equations (`Gaps`, `Totals`), and `SpacedInv` says that the gap
  the rule waits for next is the one after the reminders given.
* **EpisodesProofs.**  `NeverSilent` (`Told`) and `EpisodesSpaced` (`Spaced`)
  rest on `Agrees`: a process is in an episode exactly if it has been reported
  since it is over, what the engine remembers as its last report is the last one
  or was forgotten with its place in the list, and while nothing is reported the
  last report is older than the heat.  `FollowedUp` (`FollowUp`) rests on
  `Pursuit`, which ties the instants of the reports to the episode's own: the
  first is its beginning, there is a second exactly if its follow-up is marked
  as sent, and as long as it is not the first is younger than the reminder.  In
  these three the averages stay opaque: any set of listed processes may be over.
  `OnlySustained` (`Sustained`) opens them: an average is at most its greatest
  sample, so one over the threshold belongs to a window with a sample over it
  (`Grounds` says what the samples of a window are).  `BusyNoticed` (`Noticed`)
  goes the other way: a window whose samples are all over the bar is over on
  average, so what is left is that it is full in time (`Blazes`).  That needs
  `Brisk`: no pause between two evaluations is longer than the part of the
  window that may be missing (with the code's 60 and 50 seconds: 11 seconds; the
  default is two, but a config may set any interval, and with one of 40 seconds
  that window is never full).  What is over or below the bar in each sample is
  so in the sum (`SumBounds`, by induction over finite sets).  `RecordedInTime`
  is the half of `Noticed` that needs no such condition.
  `MonitorImplementsEpisodes` makes all of them theorems of a front end's loop.
* **AlertProofs, Records.**  `Kept` says where a record on its way stands,
  `Distinct` that no record is in two places, `Whole` that on a day nobody
  disturbed the open line belongs to the one append about to finish it, and
  `Decodable` that a file no reader can decode is one of a disturbed day: only
  the append that fails writes such a line (`StepDecodable`, `AppendRefuses`).
  From the four follow `RecordsAcked` and `RecordsImplementHistory`, the
  refinement of `MetricHistory` by what a reader makes of the files, with the
  answers for all ranges of days (`AnswersOfHistory`).
* **ProbeProofs, Sockets.**  `CallInv` says what a call knows: what the machine
  did since it began (`Watched`), that what was read of a socket is a value it
  had since then (`TrulyRead`), that a socket nobody touched is among those read
  or the answer is marked as incomplete (`CompletelyRead`), and that of the
  processes looked into, in the order of their pids, the first that holds a
  socket is its owner (`Owned`).  `OwnersAreTrue` (`SocketsNamed`) follows at
  the end of a call. `BytesCountedOnce` (`TrafficCountedOnce`) also needs that
  the totals of all owners are the sum over their sockets (`TotalsAre`).  Every
  attempt and every change of a table is covered; that the sets of sockets and
  of processes are finite is assumed.
* **ProbeProofs, SocketTable.**  `TablesAreReadAsMeant` is about tables of any
  length and any sockets, `TablesReadAsMeant` (`FramingIsStrict`) about those of
  the run.  As a fold the parser has a state after each record (`ParseRuns`,
  `Trace`), known for every record of an intact table (`Here`, `Intact`).  On a
  damaged table it is never ahead: it has failed, is where it would be, or has
  only part of the run it would have (`Behind`), and each further record keeps
  that so (`BehindStep`).  What is left is that a record lost, doubled, moved or
  of a wrong length leaves it so (`Removed`, `Doubled`, `CutShort`, `Swapped`):
  then it fails, or closes with the rows of the intact table.  A record as long
  as the closing header closes the run it is in: if that is complete, the rows
  are those of the first sockets (`ClosedEarly`), else the table is refused
  (`FullLacks`), and nothing behind it changes that (`DoneStays`, `EndedEarly`).
  What a process is shown has all its bytes, socket by socket (`ShownIs`).
* **ProbeProofs, Channels.**  `ChannelsInv`: a baseline and the instant it is
  divided from belong to one good read of the units still present, or for a
  drive the instant to the read that failed since (`Together`), what is cached
  is true and fresh, and a unit unknown to the last listing has its capacity
  read (`LateKnown`).  It gives `TrueRates`, `Fresh` and `MountsHaveCapacity`,
  and needs no bound on time or counters.
* **ProcessesProofs.**  `ProcessesInv` has three parts.  `MachineInv` is about
  the world: lives are told apart and, as far as start times are known, a parent
  is no younger than its child, what took over the parent's pid no older
  (`Lineage`).  `Remembered` says that the baselines are those of the table read
  last, and that a process found again with the same life has the same start and
  no less CPU time; `Reported`, that the last refresh reports what it read.  The
  rest is about one table.  *Trees*: the climb from a process is the least set
  closed under taking plausible parents (`ChainIs`); of two processes on it one
  is on the climb of the other (`ChainLinear`), so it has a root even on a cycle
  (`RootsNonempty`), and a step up does not change the root (`RootsOfParent`).
  With `Lineage` a believed parent is of the same application unless start times
  cannot tell (`LineageIsKin`): `TreesAreOfOneFamily` (`NoStrangers`) and
  `FamiliesStayTogether` (`FamiliesTogether`) follow.  *Budgets*: cutting a
  finite order after n leaves n or all of it (`FirstAtLeast`, `FirstAtMost`),
  and never its foremost (`Foremost`, `ForemostIsFirst`).  The comparisons of
  the code are such orders (`CpuOrderTotal`, `MemoryOrderTotal`,
  `TreeOrderTotal`, as disjoint trees have different roots), which gives
  `HogsAreShown` (`HogsListed`): a tree that was cut has as many as there may be
  ahead of it (`GroupsCut`), each at least as busy (`BusierAhead`), and of those
  published the holder of most is named (`HolderIsNamed`).  `PercentagesAreTrue`
  is `TrueCpu`.
* **AlertSinkProofs.**  `Budget`: while a helper runs, the write is younger than
  one timeout.  `Recovered`: an armed volume has been below some bar by the
  margin since its last notification.  `UserEntryDecides`: the ranks of matching
  entries are a strict weak order, so a best one exists (`TopExists`), the first
  of the best decides (`DecidingEntry`), and one of the user's outranks every
  one of a template, in lists of any length.  `UserHasTheLastWord` adds the
  merging of defaults, ceilings and switched-off rules on top (`AskedBar`,
  `SwitchedOffBar`, `NothingEnabledBar`) for the situations of `Thresholds`.
  `CommandsAreObeyed` takes a command apart into its actions (`TwoActions`,
  `ActionStep`) and needs that printing a duration or a size and reading it back
  is the same value (`DurationRoundTrip`, `SizeRoundTrip`), hence the whole file
  (`ReloadedSame`).  Both hold of each file and command, whatever came before.

The assumptions on the constants say no more than the code's types and the order
of its durations: a process name is a sequence of letters, a percentage and a
size are natural numbers, the reminder of `Episodes` is longer than nothing.

Only model-checked: the liveness properties (`StopReturns`, `RoundsContinue`,
the first part of `Delivered`, `StartSucceeds`, `StopHonoured`, `Follows`),
which TLAPS does not reach.

## 6. Not modelled

* Cancelling the future of `stop` or `collect_once` half way; the number of
  runtime workers that a wait for the mutex can block.
* `StdoutSink` and the watch channel of `LocalChannelSink`: one call each,
  without state of their own.
* A rule for processes, applications or disks that a reload switches off while
  an episode is open (`Pressure` has it for its own rule); the wording of
  notifications.
* The TOML grammar, the formatting of printed settings, the values of the
  built-in template; two `zstats -add` at once, which may lose an update.
* Of the collector: a climb of more than 512 generations, which the code cuts;
  per-platform probes, names and their clean-up, per-process
  disk I/O, CPU performance levels; decoding the I/O Registry's plist and the
  deadline on the program that prints it.
* Of the listeners: the look-up of names by pid, pids that are recycled during a
  query, a dump whose interruption the kernel does not flag, the Windows table
  and the decoding of addresses.
* Layout, raw mode, the keys of watch mode and argument parsing; snapshot types
  are data.

The map in `PROJECT.json` covers about 31 % of the implementation's lines; most
of what it leaves out is in this list, tests and platform code apart.

## 7. What is left

The rule for processes switched off and on again, with the properties of
`Episodes` restated for episodes that outlive their condition; names and
recycled pids in a socket query.  Every safety property the runs check is a
theorem, except what the violated run refutes.
