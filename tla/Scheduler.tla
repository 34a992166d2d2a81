------------------------------ MODULE Scheduler ------------------------------
(***************************************************************************)
(* The collection scheduler (scheduler.rs): one background loop that       *)
(* collects on every tick and dispatches the snapshot to all sinks, and    *)
(* the scheduler's owner, who starts and stops the loop and may ask for an *)
(* immediate collect_once.  Both run a collect as a blocking task that     *)
(* cannot be cancelled: the collector's mutex serialises the tasks, the    *)
(* in_flight flag is meant to keep a second one from being started.        *)
(*                                                                         *)
(* Snapshots are numbered in the order in which the collector produced     *)
(* them; a number is all that the properties need to know of a snapshot.   *)
(***************************************************************************)
EXTENDS Naturals

CONSTANTS
  Sinks,         \* the registered sinks
  Tasks,         \* slots for blocking tasks that are alive at the same time
  NoTask,        \* "no task": the mutex is free, an actor awaits nothing
  UsesOnce,      \* may the owner call collect_once?
  Panics,        \* may Collector::collect panic?
  MaxSnapshots   \* bound: how many collects may succeed

ASSUME SchedulerAssumption ==
  /\ NoTask \notin Tasks
  /\ UsesOnce \in BOOLEAN
  /\ Panics \in BOOLEAN
  /\ MaxSnapshots \in Nat

VARIABLES
  pc,            \* where the loop and the owner are
  shutdown_tx,   \* Scheduler::shutdown_tx is Some
  shutdown_rx,   \* the loop's receiver has been signalled
  in_flight,     \* Scheduler::in_flight
  lock,          \* the task that holds the collector's mutex
  task,          \* the stage of every blocking task
  result,        \* what a task's collect returned: a snapshot, or Failed
  awaits,        \* the join handle an actor is waiting on
  writes,        \* sink writes that are running
  taken,         \* how many snapshots the collector has produced
  received,      \* the last snapshot every sink has taken in
  asked          \* history: how many snapshots there were when an actor's
                 \* round began, 0 when it is in none

vars == <<pc, shutdown_tx, shutdown_rx, in_flight, lock, task, result, awaits,
          writes, taken, received, asked>>
control == <<shutdown_tx, shutdown_rx>>
tasks == <<lock, task, result>>
output == <<writes, received>>

Actors == {"loop", "owner"}
Failed == 0
Snapshots == 1 .. MaxSnapshots

LoopStates == {"off", "select", "collect", "dispatch"}
OwnerStates == {"idle", "start", "config", "spawn", "collect", "dispatch",
                "stop", "dropped"}

\* "collected": collect has returned and the guard is gone, the flag is not
\* cleared yet; "finished" and "panicked": the join handle is ready.
TaskStates == {"free", "queued", "collecting", "collected", "finished",
               "panicked"}
Running == {"queued", "collecting", "collected"}

Alive == {t \in Tasks : task[t] # "free"}
Collecting == {t \in Tasks : task[t] \in Running}

Write == [by : Actors, sink : Sinks, snap : Snapshots]

Init ==
  /\ pc = [a \in Actors |-> IF a = "loop" THEN "off" ELSE "idle"]
  /\ shutdown_tx = FALSE
  /\ shutdown_rx = FALSE
  /\ in_flight = FALSE
  /\ lock = NoTask
  /\ task = [t \in Tasks |-> "free"]
  /\ result = [t \in Tasks |-> Failed]
  /\ awaits = [a \in Actors |-> NoTask]
  /\ writes = {}
  /\ taken = 0
  /\ received = [s \in Sinks |-> 0]
  /\ asked = [a \in Actors |-> 0]

-----------------------------------------------------------------------------
(* What collect_snapshot and dispatch do for either actor.                 *)

\* An actor is in a round from its tick, or its call of collect_once, on.
InRound(state) == state \in {"config", "spawn", "collect", "dispatch"}
AskedIn(a, state) == IF ~InRound(state) THEN 0
                     ELSE IF InRound(pc[a]) THEN asked[a] ELSE taken

Goto(a, state) ==
  /\ pc' = [pc EXCEPT ![a] = state]
  /\ asked' = [asked EXCEPT ![a] = AskedIn(a, state)]

\* The state an actor returns to when its round is over.
Resting(a) == IF a = "loop" THEN "select" ELSE "idle"

\* Mutant of SpawnCollect: a collect that is in flight is awaited instead of
\* starting another one.
SpawnJoins(a) ==
  \E t \in Tasks :
    /\ task[t] \in Running \/ (task[t] = "free" /\ Collecting = {})
    /\ in_flight' = TRUE
    /\ task' = IF task[t] = "free" THEN [task EXCEPT ![t] = "queued"] ELSE task
    /\ awaits' = [awaits EXCEPT ![a] = t]
    /\ Goto(a, "collect")
    /\ UNCHANGED <<control, lock, result, output, taken>>

\* collect_snapshot: set the flag, hand the collect to the blocking pool and
\* wait on its handle.
SpawnCollect(a) ==
  \E t \in Tasks :
    /\ task[t] = "free"
    /\ in_flight' = TRUE
    /\ task' = [task EXCEPT ![t] = "queued"]
    /\ awaits' = [awaits EXCEPT ![a] = t]
    /\ Goto(a, "collect")
    /\ UNCHANGED <<control, lock, result, output, taken>>

\* The actor is done with the task it awaited; a finished task's slot is free.
Forget(a) ==
  /\ awaits' = [awaits EXCEPT ![a] = NoTask]
  /\ task' = [task EXCEPT ![awaits[a]] =
                IF @ \in {"finished", "panicked"} THEN "free" ELSE @]

\* Mutants of Timeout: the waiter clears the flag of a collect that still runs;
\* it waits for ever.
TimeoutClearsFlag(a) ==
  /\ pc[a] = "collect"
  /\ task[awaits[a]] \in Running
  /\ Forget(a)
  /\ in_flight' = FALSE
  /\ Goto(a, Resting(a))
  /\ UNCHANGED <<control, lock, result, output, taken>>

TimeoutNever(a) == FALSE

\* collect_timeout elapses: the actor gives up, the task keeps running.
Timeout(a) ==
  /\ pc[a] = "collect"
  /\ task[awaits[a]] \in Running
  /\ Forget(a)
  /\ Goto(a, Resting(a))
  /\ UNCHANGED <<control, in_flight, lock, result, output, taken>>

\* The collect ended in time with an error: only logged, or returned.
JoinFailed(a) ==
  /\ pc[a] = "collect"
  /\ task[awaits[a]] = "finished"
  /\ result[awaits[a]] = Failed
  /\ Forget(a)
  /\ Goto(a, Resting(a))
  /\ UNCHANGED <<control, in_flight, lock, result, output, taken>>

\* The collect panicked while it was awaited: the waiter clears the flag.
JoinPanicked(a) ==
  /\ pc[a] = "collect"
  /\ task[awaits[a]] = "panicked"
  /\ Forget(a)
  /\ in_flight' = FALSE
  /\ Goto(a, Resting(a))
  /\ UNCHANGED <<control, lock, result, output, taken>>

\* The collect succeeded in time: one write per sink is spawned.
JoinOk(a) ==
  /\ pc[a] = "collect"
  /\ task[awaits[a]] = "finished"
  /\ result[awaits[a]] # Failed
  /\ Forget(a)
  /\ writes' = writes \cup
       {[by |-> a, sink |-> s, snap |-> result[awaits[a]]] : s \in Sinks}
  /\ Goto(a, "dispatch")
  /\ UNCHANGED <<control, in_flight, lock, result, received, taken>>

\* A sink takes the snapshot in.
WriteDone(w) ==
  /\ writes' = writes \ {w}
  /\ received' = [received EXCEPT ![w.sink] = w.snap]
  /\ UNCHANGED <<pc, asked, control, in_flight, tasks, awaits, taken>>

\* A sink's write fails or runs into sink_write_timeout without effect.
WriteLost(w) ==
  /\ writes' = writes \ {w}
  /\ UNCHANGED <<pc, asked, control, in_flight, tasks, awaits, taken, received>>

\* Mutant of DispatchDone: the spawned writes are not awaited.
DispatchDetached(a) ==
  /\ pc[a] = "dispatch"
  /\ Goto(a, Resting(a))
  /\ UNCHANGED <<control, in_flight, tasks, awaits, output, taken>>

\* dispatch returns when every write it spawned has ended.
DispatchDone(a) ==
  /\ pc[a] = "dispatch"
  /\ \A w \in writes : w.by # a
  /\ Goto(a, Resting(a))
  /\ UNCHANGED <<control, in_flight, tasks, awaits, output, taken>>

-----------------------------------------------------------------------------
(* The blocking task.                                                      *)

\* A blocking thread runs the task and acquires the collector's mutex.
TaskLock(t) ==
  /\ task[t] = "queued"
  /\ lock = NoTask
  /\ lock' = t
  /\ task' = [task EXCEPT ![t] = "collecting"]
  /\ UNCHANGED <<pc, asked, control, in_flight, result, awaits, output, taken>>

\* Collector::collect returns; the mutex guard is dropped with the statement.
TaskCollect(t) ==
  /\ task[t] = "collecting"
  /\ \/ /\ taken < MaxSnapshots
        /\ taken' = taken + 1
        /\ result' = [result EXCEPT ![t] = taken + 1]
     \/ /\ result' = [result EXCEPT ![t] = Failed]
        /\ UNCHANGED taken
  /\ lock' = NoTask
  /\ task' = [task EXCEPT ![t] = "collected"]
  /\ UNCHANGED <<pc, asked, control, in_flight, awaits, output>>

\* Mutant of TaskClear: the task ends with the flag set.
TaskForgetsFlag(t) ==
  /\ task[t] = "collected"
  /\ task' = [task EXCEPT ![t] =
                IF \E a \in Actors : awaits[a] = t THEN "finished" ELSE "free"]
  /\ UNCHANGED <<pc, asked, control, in_flight, lock, result, awaits, output, taken>>

\* The task clears the flag and ends.
TaskClear(t) ==
  /\ task[t] = "collected"
  /\ in_flight' = FALSE
  /\ task' = [task EXCEPT ![t] =
                IF \E a \in Actors : awaits[a] = t THEN "finished" ELSE "free"]
  /\ UNCHANGED <<pc, asked, control, lock, result, awaits, output, taken>>

\* Collector::collect panics: the mutex is poisoned, which lock_collector
\* ignores, and the flag is left as it is.
TaskPanic(t) ==
  /\ Panics
  /\ task[t] = "collecting"
  /\ lock' = NoTask
  /\ task' = [task EXCEPT ![t] =
                IF \E a \in Actors : awaits[a] = t THEN "panicked" ELSE "free"]
  /\ UNCHANGED <<pc, asked, control, in_flight, result, awaits, output, taken>>

-----------------------------------------------------------------------------
(* The loop.                                                               *)

\* A tick with no collect in flight.  A tick that finds the flag set changes
\* nothing: it is skipped.
Tick ==
  /\ pc["loop"] = "select"
  /\ ~in_flight
  /\ SpawnCollect("loop")

\* The select takes the shutdown branch.
LoopExit ==
  /\ pc["loop"] = "select"
  /\ shutdown_rx
  /\ shutdown_rx' = FALSE
  /\ Goto("loop", "off")
  /\ UNCHANGED <<shutdown_tx, in_flight, tasks, awaits, output, taken>>

-----------------------------------------------------------------------------
(* The owner.  Every method takes &mut self: one call at a time.           *)

OwnerCalls(state) ==
  /\ pc["owner"] = "idle"
  /\ Goto("owner", state)

\* start, when it does not return AlreadyRunning.
Start ==
  /\ ~shutdown_tx
  /\ OwnerCalls("start")
  /\ UNCHANGED <<control, in_flight, tasks, awaits, output, taken>>

\* start reads the timeout under the collector's mutex and spawns the loop.
StartLoop ==
  /\ pc["owner"] = "start"
  /\ lock = NoTask
  /\ shutdown_tx' = TRUE
  /\ pc' = [pc EXCEPT !["owner"] = "idle", !["loop"] = "select"]
  /\ UNCHANGED <<asked, shutdown_rx, in_flight, tasks, awaits, output, taken>>

CollectOnce ==
  /\ UsesOnce
  /\ OwnerCalls("config")
  /\ UNCHANGED <<control, in_flight, tasks, awaits, output, taken>>

\* collect_once reads the timeout under the collector's mutex.
OnceConfig ==
  /\ pc["owner"] = "config"
  /\ lock = NoTask
  /\ Goto("owner", "spawn")
  /\ UNCHANGED <<control, in_flight, tasks, awaits, output, taken>>

OnceSpawn ==
  /\ pc["owner"] = "spawn"
  /\ SpawnCollect("owner")

\* stop signals the loop and awaits its handle.
Stop ==
  /\ OwnerCalls("stop")
  /\ shutdown_tx' = FALSE
  /\ shutdown_rx' = shutdown_tx
  /\ UNCHANGED <<in_flight, tasks, awaits, output, taken>>

StopDone ==
  /\ pc["owner"] = "stop"
  /\ pc["loop"] = "off"
  /\ Goto("owner", "idle")
  /\ UNCHANGED <<control, in_flight, tasks, awaits, output, taken>>

\* Drop signals the loop and waits for nothing.
DropScheduler ==
  /\ OwnerCalls("dropped")
  /\ shutdown_tx' = FALSE
  /\ shutdown_rx' = shutdown_tx
  /\ UNCHANGED <<in_flight, tasks, awaits, output, taken>>

-----------------------------------------------------------------------------
ActorStep(a) ==
  \/ Timeout(a)
  \/ JoinFailed(a)
  \/ JoinPanicked(a)
  \/ JoinOk(a)
  \/ DispatchDone(a)

TaskStep(t) ==
  \/ TaskLock(t)
  \/ TaskCollect(t)
  \/ TaskClear(t)
  \/ TaskPanic(t)

OwnerStep ==
  \/ Start
  \/ StartLoop
  \/ CollectOnce
  \/ OnceConfig
  \/ OnceSpawn
  \/ Stop
  \/ StopDone
  \/ DropScheduler

Next ==
  \/ \E a \in Actors : ActorStep(a)
  \/ \E t \in Tasks : TaskStep(t)
  \/ \E w \in writes : WriteDone(w) \/ WriteLost(w)
  \/ Tick
  \/ LoopExit
  \/ OwnerStep

\* The runtime runs every task that is ready and every timer that is due:
\* awaits end, writes end, ticks come.  The select picks its ready branch at
\* random, so a branch that is ready again and again is taken: strong
\* fairness.  A collect may take forever and the owner need not call
\* anything, but a call it has made goes on when it can.
Fairness ==
  /\ \A a \in Actors : WF_vars(ActorStep(a))
  /\ \A s \in Sinks : WF_vars(\E w \in writes :
                                /\ w.sink = s
                                /\ WriteDone(w) \/ WriteLost(w))
  /\ \A t \in Tasks : WF_vars(TaskLock(t)) /\ WF_vars(TaskClear(t))
  /\ WF_vars(Tick)
  /\ SF_vars(LoopExit)
  /\ WF_vars(StartLoop) /\ WF_vars(OnceConfig)
  /\ WF_vars(OnceSpawn) /\ WF_vars(StopDone)

Spec == Init /\ [][Next]_vars

FairSpec == Spec /\ Fairness

-----------------------------------------------------------------------------
(* Properties.                                                             *)

TypeOK ==
  /\ pc \in [Actors -> LoopStates \cup OwnerStates]
  /\ pc["loop"] \in LoopStates
  /\ pc["owner"] \in OwnerStates
  /\ shutdown_tx \in BOOLEAN
  /\ shutdown_rx \in BOOLEAN
  /\ in_flight \in BOOLEAN
  /\ lock \in Tasks \cup {NoTask}
  /\ task \in [Tasks -> TaskStates]
  /\ result \in [Tasks -> Snapshots \cup {Failed}]
  /\ awaits \in [Actors -> Tasks \cup {NoTask}]
  /\ \A a \in Actors : pc[a] = "collect" <=> awaits[a] \in Tasks
  /\ writes \subseteq Write
  /\ taken \in 0 .. MaxSnapshots
  /\ received \in [Sinks -> 0 .. MaxSnapshots]
  /\ asked \in [Actors -> 0 .. taken]

\* "The loop therefore also refuses to start a second collect while one is
\* still in flight": never two collects, running or queued behind the mutex
\* (scheduler.rs:25-28).
SingleCollect == \A t1, t2 \in Collecting : t1 = t2

\* in_flight is "set while a collect is running": a flag that is set has a
\* task, or a waiter about to see a panic, that will clear it
\* (scheduler.rs:58-60).
FlagHasOwner ==
  in_flight =>
    \/ Collecting # {}
    \/ \E a \in Actors : pc[a] = "collect" /\ task[awaits[a]] = "panicked"

\* dispatch awaits what it spawns: an actor that is not dispatching has no
\* write running.  So a round never overlaps the next one of the same actor,
\* and once stop has returned the loop touches no sink any more
\* (scheduler.rs:133-140, 204-220).
WritesSettled == \A w \in writes : pc[w.by] = "dispatch"

\* Each round is an actor's own: whatever collects are in flight, hang or are
\* abandoned, what a tick or collect_once dispatches was collected after it
\* began ("collect and dispatch immediately", scheduler.rs:142), and no sink is
\* given a snapshot that it is being given already or has just taken in, so
\* that none counts twice towards an alert (scheduler.rs:160-192, 204-220).
RoundsAreOwn ==
  \A w \in writes :
    /\ w.snap > asked[w.by]
    /\ w.snap # received[w.sink]
    /\ \A v \in writes : v.snap = w.snap => v.by = w.by

\* The sinks see what SnapshotFeed promises: snapshots the collector took, in
\* their order, none twice (scheduler.rs:16-31, README.md:128).
Feed == INSTANCE SnapshotFeed
FeedSpec == Feed!Spec

\* stop returns, even while a collect hangs: the loop waits collect_timeout
\* at most (scheduler.rs:21-24, 133-140).
StopReturns == pc["owner"] = "stop" ~> pc["owner"] # "stop"

\* A collect that hangs comes back in the end.
CollectsEnd ==
  \A t \in Tasks : task[t] = "collecting" ~> task[t] # "collecting"

\* As long as collects come back, late or failing, the loop keeps starting
\* rounds: skipped ticks and errors never stop it for good
\* (scheduler.rs:31, error.rs:18-19).
RoundsContinue ==
  CollectsEnd => (pc["loop"] = "select" ~> pc["loop"] \in {"collect", "off"})
=============================================================================
