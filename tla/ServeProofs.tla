---------------------------- MODULE ServeProofs ------------------------------
(***************************************************************************)
(* Proofs about zstats serve: the scheduler that runs in it (Scheduler), for*)
(* every set of sinks, every number of blocking tasks and of snapshots, and*)
(* its life around the socket path (Daemon), for every number of serve     *)
(* processes and of stop commands.                                         *)
(***************************************************************************)
EXTENDS Scheduler, Daemon, TLAPS

-----------------------------------------------------------------------------
(* Type correctness.  It rests on the owner never spawning a loop while    *)
(* another one lives: start refuses while shutdown_tx is set, and stop     *)
(* waits for the loop it has signalled.                                    *)

OneLoop ==
  /\ pc["owner"] \notin {"stop", "dropped"} /\ ~shutdown_tx => pc["loop"] = "off"
  /\ pc["owner"] = "start" => ~shutdown_tx

TypeInv == TypeOK /\ OneLoop

USE SchedulerAssumption DEF SchedulerAssumption

LEMMA InitTypeInv == Init => TypeInv
<1> SUFFICES ASSUME Init PROVE TypeInv
  OBVIOUS
<1> USE DEF Init, Actors
<1>1. /\ pc \in [Actors -> LoopStates \cup OwnerStates]
      /\ pc["loop"] = "off"
      /\ pc["owner"] = "idle"
  BY DEF LoopStates, OwnerStates
<1>2. /\ task \in [Tasks -> TaskStates]
      /\ result \in [Tasks -> Snapshots \cup {Failed}]
  BY DEF TaskStates
<1>3. /\ awaits \in [Actors -> Tasks \cup {NoTask}]
      /\ \A a \in Actors : pc[a] # "collect" /\ awaits[a] \notin Tasks
  OBVIOUS
<1>4. /\ taken \in 0 .. MaxSnapshots /\ received \in [Sinks -> 0 .. MaxSnapshots]
      /\ asked \in [Actors -> 0 .. taken]
  OBVIOUS
<1>5. QED
  BY <1>1, <1>2, <1>3, <1>4
     DEF TypeInv, TypeOK, OneLoop, LoopStates, OwnerStates

\* What is remembered of the beginning of a round is a number of snapshots.
LEMMA AskedType ==
  ASSUME TypeInv, NEW a \in Actors, NEW state PROVE AskedIn(a, state) \in 0 .. taken
BY DEF TypeInv, TypeOK, AskedIn

\* A step of collect_snapshot or dispatch keeps the types and the loop.
LEMMA ActorTypeInv ==
  ASSUME TypeInv, NEW a \in Actors, ActorStep(a)
  PROVE  TypeInv'
<1> USE DEF TypeInv, TypeOK, OneLoop, Actors, LoopStates, OwnerStates,
            TaskStates, Running, Failed, Goto, Resting, Forget, control,
            output, tasks
<1> USE AskedType
<1>1. CASE Timeout(a)
  BY <1>1 DEF Timeout
<1>2. CASE JoinFailed(a)
  BY <1>2 DEF JoinFailed
<1>3. CASE JoinPanicked(a)
  BY <1>3 DEF JoinPanicked
<1>4. CASE JoinOk(a)
  <2>1. writes' \subseteq Write
    BY <1>4 DEF JoinOk, Write, Snapshots
  <2>2. QED
    BY <1>4, <2>1 DEF JoinOk
<1>5. CASE DispatchDone(a)
  BY <1>5 DEF DispatchDone
<1>6. QED
  BY <1>1, <1>2, <1>3, <1>4, <1>5 DEF ActorStep

\* A step of a blocking task keeps the types and the loop.
LEMMA TaskTypeInv ==
  ASSUME TypeInv, NEW t \in Tasks, TaskStep(t)
  PROVE  TypeInv'
<1> USE DEF TypeInv, TypeOK, OneLoop, Actors, TaskStates, Failed, control,
            output
<1>1. CASE TaskLock(t)
  BY <1>1 DEF TaskLock
<1>2. CASE TaskCollect(t)
  BY <1>2 DEF TaskCollect, Snapshots
<1>3. CASE TaskClear(t)
  BY <1>3 DEF TaskClear
<1>4. CASE TaskPanic(t)
  BY <1>4 DEF TaskPanic
<1>5. QED
  BY <1>1, <1>2, <1>3, <1>4 DEF TaskStep

\* The end of a sink's write keeps the types and the loop.
LEMMA WriteTypeInv ==
  ASSUME TypeInv, NEW w \in writes, WriteDone(w) \/ WriteLost(w)
  PROVE  TypeInv'
<1> USE DEF TypeInv, TypeOK, OneLoop, control, tasks
<1>1. w \in Write
  OBVIOUS
<1>2. CASE WriteDone(w)
  BY <1>1, <1>2 DEF WriteDone, Write, Snapshots
<1>3. CASE WriteLost(w)
  BY <1>3 DEF WriteLost
<1>4. QED
  BY <1>2, <1>3

\* A call of the owner keeps the types and never makes a second loop.
LEMMA OwnerTypeInv ==
  ASSUME TypeInv, OwnerStep
  PROVE  TypeInv'
<1> USE DEF TypeInv, TypeOK, OneLoop, Actors, LoopStates, OwnerStates,
            TaskStates, Goto, OwnerCalls, control, output, tasks
<1> USE AskedType
<1>1. CASE Start
  BY <1>1 DEF Start
<1>2. CASE StartLoop
  BY <1>2 DEF StartLoop
<1>3. CASE CollectOnce
  BY <1>3 DEF CollectOnce
<1>4. CASE OnceConfig
  BY <1>4 DEF OnceConfig
<1>5. CASE OnceSpawn
  BY <1>5 DEF OnceSpawn, SpawnCollect
<1>6. CASE Stop
  BY <1>6 DEF Stop
<1>7. CASE StopDone
  BY <1>7 DEF StopDone
<1>8. CASE DropScheduler
  BY <1>8 DEF DropScheduler
<1>9. QED
  BY <1>1, <1>2, <1>3, <1>4, <1>5, <1>6, <1>7, <1>8 DEF OwnerStep

LEMMA NextTypeInv == TypeInv /\ [Next]_vars => TypeInv'
<1> SUFFICES ASSUME TypeInv, [Next]_vars PROVE TypeInv'
  OBVIOUS
<1>1. ASSUME NEW a \in Actors, ActorStep(a) PROVE TypeInv'
  BY <1>1, ActorTypeInv
<1>2. ASSUME NEW t \in Tasks, TaskStep(t) PROVE TypeInv'
  BY <1>2, TaskTypeInv
<1>3. ASSUME NEW w \in writes, WriteDone(w) \/ WriteLost(w) PROVE TypeInv'
  BY <1>3, WriteTypeInv
<1>4. CASE Tick
  BY <1>4, AskedType DEF TypeInv, TypeOK, OneLoop, Actors, LoopStates, TaskStates, Goto,
              Tick, SpawnCollect, control, output
<1>5. CASE LoopExit
  BY <1>5, AskedType DEF TypeInv, TypeOK, OneLoop, Actors, LoopStates, Goto, LoopExit,
              output, tasks
<1>6. CASE OwnerStep
  BY <1>6, OwnerTypeInv
<1>7. CASE UNCHANGED vars
  BY <1>7 DEF TypeInv, TypeOK, OneLoop, vars
<1>8. QED
  BY <1>1, <1>2, <1>3, <1>4, <1>5, <1>6, <1>7 DEF Next

LEMMA TypeInvariance == Spec => []TypeInv
<1>1. QED
  BY InitTypeInv, NextTypeInv, PTL DEF Spec

\* Every variable keeps its type, an actor awaits a task exactly while it is
\* in collect_snapshot (scheduler.rs:167-192).
THEOREM TypeCorrect == Spec => []TypeOK
<1>1. TypeInv => TypeOK
  BY DEF TypeInv
<1>2. QED
  BY <1>1, TypeInvariance, PTL

-----------------------------------------------------------------------------
(* A round of an actor is over when all its writes are.                    *)

LEMMA NextWritesSettled ==
  TypeInv /\ WritesSettled /\ [Next]_vars => WritesSettled'
<1> SUFFICES ASSUME TypeInv, WritesSettled, [Next]_vars
             PROVE  WritesSettled'
  OBVIOUS
<1> USE DEF TypeInv, TypeOK, OneLoop, WritesSettled, Write, Goto, control,
            output, tasks
<1>1. ASSUME NEW a \in Actors, ActorStep(a) PROVE WritesSettled'
  <2>1. CASE Timeout(a)
    BY <1>1, <2>1 DEF Timeout
  <2>2. CASE JoinFailed(a)
    BY <1>1, <2>2 DEF JoinFailed
  <2>3. CASE JoinPanicked(a)
    BY <1>1, <2>3 DEF JoinPanicked
  <2>4. CASE JoinOk(a)
    BY <1>1, <2>4 DEF JoinOk
  <2>5. CASE DispatchDone(a)
    BY <1>1, <2>5 DEF DispatchDone
  <2>6. QED
    BY <1>1, <2>1, <2>2, <2>3, <2>4, <2>5 DEF ActorStep
<1>2. ASSUME NEW t \in Tasks, TaskStep(t) PROVE WritesSettled'
  BY <1>2 DEF TaskStep, TaskLock, TaskCollect, TaskClear, TaskPanic
<1>3. ASSUME NEW w \in writes, WriteDone(w) \/ WriteLost(w)
      PROVE  WritesSettled'
  BY <1>3 DEF WriteDone, WriteLost
<1>4. CASE Tick
  BY <1>4 DEF Tick, SpawnCollect
<1>5. CASE LoopExit
  BY <1>5 DEF LoopExit
<1>6. CASE OwnerStep
  BY <1>6 DEF OwnerStep, OwnerCalls, Start, StartLoop, CollectOnce,
              OnceConfig, OnceSpawn, SpawnCollect, Stop, StopDone,
              DropScheduler
<1>7. CASE UNCHANGED vars
  BY <1>7 DEF vars
<1>8. QED
  BY <1>1, <1>2, <1>3, <1>4, <1>5, <1>6, <1>7 DEF Next

\* Rounds of one actor never overlap, and once stop has returned the loop
\* touches no sink (scheduler.rs:133-140, 204-220).
THEOREM RoundsSettle == Spec => []WritesSettled
<1>1. Init => WritesSettled
  BY DEF Init, WritesSettled
<1>2. QED
  BY <1>1, NextWritesSettled, TypeInvariance, PTL DEF Spec

-----------------------------------------------------------------------------
(* The flag never outlives the collect it stands for, if no collect        *)
(* panics: with or without collect_once.                                   *)

FlagInv ==
  /\ in_flight => Collecting # {}
  /\ \A t \in Tasks : task[t] # "panicked"

LEMMA NextFlagInv ==
  ASSUME ~Panics
  PROVE  TypeInv /\ FlagInv /\ [Next]_vars => FlagInv'
<1> SUFFICES ASSUME TypeInv, FlagInv, [Next]_vars
             PROVE  FlagInv'
  OBVIOUS
<1> USE DEF TypeInv, TypeOK, FlagInv, Collecting, Running, Goto, control,
            output, tasks
<1>1. ASSUME NEW a \in Actors, ActorStep(a) PROVE FlagInv'
  BY <1>1 DEF ActorStep, Timeout, JoinFailed, JoinPanicked, JoinOk,
              DispatchDone, Forget
<1>2. ASSUME NEW t \in Tasks, TaskStep(t) PROVE FlagInv'
  BY <1>2 DEF TaskStep, TaskLock, TaskCollect, TaskClear, TaskPanic
<1>3. ASSUME NEW w \in writes, WriteDone(w) \/ WriteLost(w) PROVE FlagInv'
  BY <1>3 DEF WriteDone, WriteLost
<1>4. CASE Tick
  BY <1>4 DEF Tick, SpawnCollect
<1>5. CASE LoopExit
  BY <1>5 DEF LoopExit
<1>6. CASE OwnerStep
  BY <1>6 DEF OwnerStep, OwnerCalls, Start, StartLoop, CollectOnce,
              OnceConfig, OnceSpawn, SpawnCollect, Stop, StopDone,
              DropScheduler
<1>7. CASE UNCHANGED vars
  BY <1>7 DEF vars
<1>8. QED
  BY <1>1, <1>2, <1>3, <1>4, <1>5, <1>6, <1>7 DEF Next

\* Without panics a set flag always has a running collect that will clear it
\* (scheduler.rs:58-60, 163-166).
THEOREM FlagOwned ==
  ASSUME ~Panics
  PROVE  Spec => []FlagHasOwner
<1>1. Init => FlagInv
  BY DEF Init, FlagInv
<1>2. TypeInv /\ FlagInv /\ [Next]_vars => FlagInv'
  BY NextFlagInv
<1>3. FlagInv => FlagHasOwner
  BY DEF FlagInv, FlagHasOwner
<1>4. QED
  BY <1>1, <1>2, <1>3, TypeInvariance, PTL DEF Spec
-----------------------------------------------------------------------------
(* Rounds with collect_once beside the loop and with panics.  No task is   *)
(* awaited twice; what a task has collected and nobody has dispatched yet  *)
(* is known to no sink and to no other task, and is newer than the round   *)
(* that awaits it.                                                         *)

Ready(t) == task[t] \in {"collected", "finished"} /\ result[t] # Failed

Awaited ==
  /\ \A a, b \in Actors : awaits[a] \in Tasks /\ awaits[a] = awaits[b] => a = b
  /\ \A a \in Actors : awaits[a] \in Tasks => task[awaits[a]] # "free"

Undispatched ==
  /\ \A s \in Sinks : received[s] <= taken
  /\ \A w \in writes : w.snap <= taken
  /\ \A t \in Tasks : Ready(t) =>
       /\ result[t] <= taken
       /\ \A s \in Sinks : received[s] # result[t]
       /\ \A w \in writes : w.snap # result[t]
       /\ \A u \in Tasks : Ready(u) /\ result[u] = result[t] => u = t

Newer ==
  \A a \in Actors :
    awaits[a] \in Tasks /\ Ready(awaits[a]) => result[awaits[a]] > asked[a]

RoundsInv == Awaited /\ Undispatched /\ Newer /\ RoundsAreOwn

\* No task is ever awaited by both actors, nor one that is gone.
LEMMA NextAwaited == TypeInv /\ Awaited /\ [Next]_vars => Awaited'
<1> SUFFICES ASSUME TypeInv, Awaited, [Next]_vars
             PROVE  Awaited'
  OBVIOUS
<1> USE DEF TypeInv, TypeOK, Awaited, Actors, Goto, control, output, tasks
<1>1. ASSUME NEW a \in Actors, ActorStep(a) PROVE Awaited'
  BY <1>1 DEF ActorStep, Timeout, JoinFailed, JoinPanicked, JoinOk,
              DispatchDone, Forget, Running
<1>2. ASSUME NEW t \in Tasks, TaskStep(t) PROVE Awaited'
  BY <1>2 DEF TaskStep, TaskLock, TaskCollect, TaskClear, TaskPanic
<1>3. ASSUME NEW w \in writes, WriteDone(w) \/ WriteLost(w) PROVE Awaited'
  BY <1>3 DEF WriteDone, WriteLost
<1>4. CASE Tick
  BY <1>4 DEF Tick, SpawnCollect
<1>5. CASE LoopExit
  BY <1>5 DEF LoopExit
<1>6. CASE OwnerStep
  BY <1>6 DEF OwnerStep, OwnerCalls, Start, StartLoop, CollectOnce,
              OnceConfig, OnceSpawn, SpawnCollect, Stop, StopDone,
              DropScheduler
<1>7. CASE UNCHANGED vars
  BY <1>7 DEF vars
<1>8. QED
  BY <1>1, <1>2, <1>3, <1>4, <1>5, <1>6, <1>7 DEF Next

\* A step that starts, ends or abandons a round dispatches nothing, finds no
\* write of that actor under way, and whatever it awaits was asked for before.
LEMMA TurnKeepsRounds ==
  ASSUME TypeInv, WritesSettled, RoundsInv, Awaited',
         NEW a \in Actors, NEW state, Goto(a, state),
         pc[a] # "dispatch" \/ \A w \in writes : w.by # a,
         \A b \in Actors :
           (awaits[b] \in Tasks /\ Ready(awaits[b]))' =>
             awaits'[b] = awaits[b] /\ InRound(pc[b]) /\ (b = a => InRound(state)),
         \A t \in Tasks : Ready(t)' => Ready(t),
         UNCHANGED <<result, writes, received, taken>>
  PROVE  RoundsInv'
<1> USE DEF TypeInv, TypeOK, WritesSettled, RoundsInv
<1>1. \A b \in Actors : asked'[b] = IF b = a THEN AskedIn(a, state) ELSE asked[b]
  BY DEF Goto
<1>2. InRound(pc[a]) /\ InRound(state) => asked'[a] = asked[a]
  BY <1>1 DEF AskedIn
<1>3. Undispatched'
  <2>1. \A t \in Tasks : Ready(t)' =>
          /\ result[t] <= taken
          /\ \A s \in Sinks : received[s] # result[t]
          /\ \A w \in writes : w.snap # result[t]
          /\ \A u \in Tasks : Ready(u)' /\ result[u] = result[t] => u = t
    BY DEF Undispatched
  <2>2. QED
    BY <2>1 DEF Undispatched
<1>4. Newer'
  BY <1>1, <1>2 DEF Newer, Ready
<1>5. RoundsAreOwn'
  BY <1>1 DEF RoundsAreOwn, Write
<1>6. QED
  BY <1>3, <1>4, <1>5

LEMMA NoTaskIsNone == NoTask \notin Tasks
BY SchedulerAssumption DEF SchedulerAssumption

\* A dispatch hands out what no sink and no other task has.
LEMMA JoinKeepsRounds ==
  ASSUME TypeInv, RoundsInv, Awaited', NEW a \in Actors, JoinOk(a)
  PROVE  RoundsInv'
<1> USE DEF TypeInv, TypeOK, RoundsInv
<1> DEFINE t == awaits[a]
           spawned == {[by |-> a, sink |-> s, snap |-> result[t]] : s \in Sinks}
<1>1. t \in Tasks /\ Ready(t)
  BY DEF JoinOk, Ready
<1>2. /\ UNCHANGED <<result, received, taken>>
      /\ writes' = writes \cup spawned
      /\ \A w \in spawned : w.by = a /\ w.sink \in Sinks /\ w.snap = result[t]
  BY DEF JoinOk
<1>3. asked' = asked
  <2>1. InRound(pc[a]) /\ InRound("dispatch")
    BY DEF JoinOk, InRound
  <2>2. QED
    BY <2>1 DEF JoinOk, Goto, AskedIn
<1>4. \A u \in Tasks : Ready(u)' => Ready(u) /\ u # t
  BY <1>1 DEF JoinOk, Forget, Ready
<1>5. /\ result[t] <= taken /\ result[t] > asked[a]
      /\ \A s \in Sinks : received[s] # result[t]
      /\ \A w \in writes : w.snap # result[t]
      /\ \A u \in Tasks : Ready(u) /\ result[u] = result[t] => u = t
  BY <1>1 DEF Undispatched, Newer
<1>6. Undispatched'
  <2>1. \A w \in writes' : w.snap <= taken
    BY <1>2, <1>5 DEF Undispatched
  <2>2. \A u \in Tasks : Ready(u)' =>
          /\ result[u] <= taken
          /\ \A s \in Sinks : received[s] # result[u]
          /\ \A w \in writes' : w.snap # result[u]
          /\ \A v \in Tasks : Ready(v)' /\ result[v] = result[u] => v = u
    BY <1>2, <1>4, <1>5 DEF Undispatched
  <2>3. QED
    BY <1>2, <2>1, <2>2 DEF Undispatched
<1>7. Newer'
  <2>1. \A b \in Actors : awaits'[b] \in Tasks => awaits'[b] = awaits[b]
    BY NoTaskIsNone DEF JoinOk, Forget
  <2>2. QED
    BY <1>2, <1>3, <1>4, <2>1 DEF Newer
<1>8. RoundsAreOwn'
  BY <1>2, <1>3, <1>5 DEF RoundsAreOwn, Write
<1>9. QED
  BY <1>6, <1>7, <1>8

\* What a task collects is newer than everything.
LEMMA TaskKeepsRounds ==
  ASSUME TypeInv, RoundsInv, Awaited', NEW t \in Tasks, TaskStep(t)
  PROVE  RoundsInv'
<1> USE DEF TypeInv, TypeOK, RoundsInv
<1>1. UNCHANGED <<writes, received, awaits, asked>>
  BY DEF TaskStep, TaskLock, TaskCollect, TaskClear, TaskPanic, output
<1>2. RoundsAreOwn'
  BY <1>1 DEF RoundsAreOwn
<1>3. CASE TaskCollect(t) /\ result'[t] # Failed
  <2>1. /\ taken' = taken + 1 /\ result'[t] = taken + 1
        /\ \A u \in Tasks \ {t} : (Ready(u)' <=> Ready(u)) /\ result'[u] = result[u]
    BY <1>3 DEF TaskCollect, Ready, Failed
  <2>2. \A u \in Tasks : Ready(u) => result[u] <= taken
    BY DEF Undispatched
  <2>3. \A s \in Sinks : received[s] <= taken
    BY DEF Undispatched
  <2>4. \A w \in writes : w.snap <= taken
    BY DEF Undispatched
  <2>5. \A u \in Tasks : Ready(u)' =>
          /\ result'[u] <= taken + 1
          /\ \A s \in Sinks : received[s] # result'[u]
          /\ \A w \in writes : w.snap # result'[u]
          /\ \A v \in Tasks : Ready(v)' /\ result'[v] = result'[u] => v = u
    <3>1. \A w \in writes : w.snap \in Nat
      BY DEF Write, Snapshots
    <3>2. QED
      BY <2>1, <2>2, <2>3, <2>4, <3>1 DEF Undispatched, Snapshots, Failed
  <2>6. Undispatched'
    <3>1. \A w \in writes : w.snap \in Nat /\ w.snap <= taken + 1
      BY <2>4 DEF Write, Snapshots
    <3>2. QED
      BY <1>1, <2>1, <2>3, <2>5, <3>1 DEF Undispatched
  <2>7. Newer'
    BY <1>1, <2>1 DEF Newer
  <2>8. QED
    BY <1>2, <2>6, <2>7
<1>4. CASE ~(TaskCollect(t) /\ result'[t] # Failed)
  <2>1. \A u \in Tasks : Ready(u)' => Ready(u) /\ result'[u] = result[u]
    BY <1>4 DEF TaskStep, TaskLock, TaskCollect, TaskClear, TaskPanic, Ready
  <2>2. taken' = taken
    BY <1>4 DEF TaskStep, TaskLock, TaskCollect, TaskClear, TaskPanic, Failed
  <2>3. \A u \in Tasks : Ready(u)' =>
          /\ result'[u] <= taken
          /\ \A s \in Sinks : received[s] # result'[u]
          /\ \A w \in writes : w.snap # result'[u]
          /\ \A v \in Tasks : Ready(v)' /\ result'[v] = result'[u] => v = u
    BY <2>1 DEF Undispatched
  <2>4. Undispatched'
    BY <1>1, <2>2, <2>3 DEF Undispatched
  <2>5. Newer'
    BY <1>1, <2>1 DEF Newer
  <2>6. QED
    BY <1>2, <2>4, <2>5
<1>5. QED
  BY <1>3, <1>4

\* A sink takes in what no other actor and no later write has for it.
LEMMA WriteKeepsRounds ==
  ASSUME TypeInv, RoundsInv, Awaited', NEW w \in writes,
         WriteDone(w) \/ WriteLost(w)
  PROVE  RoundsInv'
<1> USE DEF TypeInv, TypeOK, RoundsInv
<1>1. /\ UNCHANGED <<result, task, taken, awaits, asked>>
      /\ writes' = writes \ {w}
  BY DEF WriteDone, WriteLost, tasks
<1>2. \A s \in Sinks :
        received'[s] = received[s] \/ (s = w.sink /\ received'[s] = w.snap)
  BY DEF WriteDone, WriteLost
<1>3. \A t \in Tasks : Ready(t)' <=> Ready(t)
  BY <1>1 DEF Ready
<1>4. Undispatched'
  <2>1. \A s \in Sinks : received'[s] <= taken
    BY <1>2 DEF Undispatched
  <2>2. \A t \in Tasks : Ready(t)' =>
          /\ result[t] <= taken
          /\ \A s \in Sinks : received'[s] # result[t]
          /\ \A v \in writes' : v.snap # result[t]
          /\ \A u \in Tasks : Ready(u)' /\ result[u] = result[t] => u = t
    BY <1>1, <1>2, <1>3 DEF Undispatched
  <2>3. QED
    BY <1>1, <2>1, <2>2 DEF Undispatched
<1>5. Newer'
  BY <1>1, <1>3 DEF Newer
<1>6. \A v \in writes' : v.snap # received'[v.sink]
  <2>1. SUFFICES ASSUME NEW v \in writes', v.sink = w.sink, v.snap = w.snap
                 PROVE  FALSE
    BY <1>1, <1>2 DEF RoundsAreOwn, Write
  <2>2. v.by = w.by
    BY <1>1, <2>1 DEF RoundsAreOwn
  <2>3. v = w
    BY <1>1, <2>1, <2>2 DEF Write
  <2>4. QED
    BY <1>1, <2>3
<1>7. RoundsAreOwn'
  BY <1>1, <1>6 DEF RoundsAreOwn
<1>8. QED
  BY <1>4, <1>5, <1>7

LEMMA NextRounds == TypeInv /\ WritesSettled /\ RoundsInv /\ [Next]_vars => RoundsInv'
<1> SUFFICES ASSUME TypeInv, WritesSettled, RoundsInv, [Next]_vars
             PROVE  RoundsInv'
  OBVIOUS
<1>1. Awaited'
  BY NextAwaited DEF RoundsInv
<1>2. \A b \in Actors : awaits[b] \in Tasks => InRound(pc[b])
  BY DEF TypeInv, TypeOK, InRound
<1>3. ASSUME NEW a \in Actors, ActorStep(a) PROVE RoundsInv'
  <2>1. CASE JoinOk(a)
    BY <1>1, <2>1, JoinKeepsRounds
  <2>2. CASE ~JoinOk(a)
    <3>1. /\ Goto(a, Resting(a))
          /\ UNCHANGED <<result, writes, received, taken>>
          /\ pc[a] # "dispatch" \/ \A w \in writes : w.by # a
      BY <1>3, <2>2 DEF ActorStep, Timeout, JoinFailed, JoinPanicked,
                        DispatchDone, output, tasks
    <3>2. \A t \in Tasks : Ready(t)' => Ready(t)
      BY <1>3, <2>2 DEF ActorStep, Timeout, JoinFailed, JoinPanicked,
           DispatchDone, Forget, output, tasks, Ready, TypeInv, TypeOK
    <3>3. \A b \in Actors :
            awaits'[b] \in Tasks => awaits'[b] = awaits[b] /\ b # a
      BY <1>3, <2>2, NoTaskIsNone DEF ActorStep, Timeout, JoinFailed,
           JoinPanicked, DispatchDone, Forget, tasks, TypeInv, TypeOK
    <3>4. QED
      BY <1>1, <1>2, <3>1, <3>2, <3>3, TurnKeepsRounds
  <2>3. QED
    BY <2>1, <2>2
<1>4. ASSUME NEW t \in Tasks, TaskStep(t) PROVE RoundsInv'
  BY <1>1, <1>4, TaskKeepsRounds
<1>5. ASSUME NEW w \in writes, WriteDone(w) \/ WriteLost(w) PROVE RoundsInv'
  BY <1>1, <1>5, WriteKeepsRounds
<1>6. ASSUME NEW a \in Actors, SpawnCollect(a), pc[a] # "dispatch"
      PROVE  RoundsInv'
  <2>1. Goto(a, "collect") /\ UNCHANGED <<result, writes, received, taken>>
    BY <1>6 DEF SpawnCollect, output
  <2>2. \A t \in Tasks : Ready(t)' => Ready(t)
    BY <1>6 DEF SpawnCollect, Ready, TypeInv, TypeOK
  <2>3. \A b \in Actors :
          (awaits[b] \in Tasks /\ Ready(awaits[b]))' =>
            awaits'[b] = awaits[b] /\ b # a
    BY <1>6 DEF SpawnCollect, Ready, TypeInv, TypeOK
  <2>4. QED
    BY <1>1, <1>2, <1>6, <2>1, <2>2, <2>3, TurnKeepsRounds
<1>7. ASSUME NEW a \in Actors, NEW state, Goto(a, state),
             pc[a] \in {"select", "idle", "config", "stop"},
             UNCHANGED <<tasks, awaits, output, taken>>
      PROVE  RoundsInv'
  <2>1. \A t \in Tasks : Ready(t)' => Ready(t)
    BY <1>7 DEF Ready, tasks
  <2>2. awaits[a] \notin Tasks
    BY <1>7 DEF TypeInv, TypeOK
  <2>3. \A b \in Actors : awaits'[b] \in Tasks => awaits'[b] = awaits[b] /\ b # a
    BY <1>7, <2>2
  <2>4. UNCHANGED <<result, writes, received, taken>>
    BY <1>7 DEF tasks, output
  <2>5. QED
    BY <1>1, <1>2, <1>7, <2>1, <2>3, <2>4, TurnKeepsRounds
<1>8. CASE Tick
  BY <1>6, <1>8 DEF Tick, Actors
<1>9. CASE LoopExit
  BY <1>7, <1>9 DEF LoopExit, Actors
<1>10. CASE OwnerStep
  <2>1. CASE OnceSpawn
    BY <1>6, <2>1 DEF OnceSpawn, Actors
  <2>2. CASE StartLoop
    <3>1. UNCHANGED <<asked, tasks, awaits, output, taken>>
      BY <2>2 DEF StartLoop
    <3>2. QED
      BY <1>1, <3>1 DEF RoundsInv, Undispatched, Newer, RoundsAreOwn, Ready,
                        tasks, output
  <2>3. CASE ~OnceSpawn /\ ~StartLoop
    <3>1. \E state : Goto("owner", state)
      BY <1>10, <2>3 DEF OwnerStep, OwnerCalls, Start, CollectOnce, OnceConfig,
                         Stop, StopDone, DropScheduler
    <3>2. pc["owner"] \in {"idle", "config", "stop"}
      BY <1>10, <2>3 DEF OwnerStep, OwnerCalls, Start, CollectOnce, OnceConfig,
                         Stop, StopDone, DropScheduler
    <3>3. UNCHANGED <<tasks, awaits, output, taken>>
      BY <1>10, <2>3 DEF OwnerStep, Start, CollectOnce, OnceConfig, Stop,
                         StopDone, DropScheduler
    <3>4. QED
      BY <1>7, <3>1, <3>2, <3>3 DEF Actors
  <2>4. QED
    BY <2>1, <2>2, <2>3
<1>11. CASE UNCHANGED vars
  BY <1>1, <1>11 DEF vars, RoundsInv, Undispatched, Newer, RoundsAreOwn, Ready
<1>12. QED
  BY <1>3, <1>4, <1>5, <1>8, <1>9, <1>10, <1>11 DEF Next

\* With collect_once beside the loop and collects that hang, fail or panic:
\* what a round dispatches was collected after the round began, and no sink is
\* given a snapshot it has or is being given (scheduler.rs:142, 160-220).
THEOREM RoundsAreTheirOwn == Spec => []RoundsAreOwn
<1>1. Init => RoundsInv
  BY NoTaskIsNone DEF Init, RoundsInv, Awaited, Undispatched, Newer,
                      RoundsAreOwn, Ready, Actors
<1>2. RoundsInv => RoundsAreOwn
  BY DEF RoundsInv
<1>3. QED
  BY <1>1, <1>2, NextRounds, RoundsSettle, TypeInvariance, PTL DEF Spec

-----------------------------------------------------------------------------
(* A scheduler whose owner never calls collect_once: then in_flight does   *)
(* what it is for.  The invariant ties the flag to the tasks: at most one  *)
(* task is alive, the flag is set while it runs, and when it has ended the *)
(* loop is still waiting to hear of it, so no tick can be taken.           *)

LoopAlone ==
  /\ pc["owner"] \notin {"config", "spawn", "collect", "dispatch"}
  /\ \A t1, t2 \in Alive : t1 = t2
  /\ \A t \in Tasks : task[t] \in Running => in_flight
  /\ \A t \in Tasks :
       task[t] \in {"finished", "panicked"} => awaits["loop"] = t
  /\ pc["loop"] = "collect" => task[awaits["loop"]] # "free"
  /\ pc["loop"] = "dispatch" => Alive = {}

LEMMA NextLoopAlone ==
  ASSUME ~UsesOnce
  PROVE  TypeInv /\ LoopAlone /\ [Next]_vars => LoopAlone'
<1> SUFFICES ASSUME TypeInv, LoopAlone, [Next]_vars
             PROVE  LoopAlone'
  OBVIOUS
<1> USE DEF TypeInv, TypeOK, OneLoop, LoopAlone, Alive, Running, Actors,
            TaskStates, Goto, control, output, tasks
<1>1. ASSUME NEW a \in Actors, ActorStep(a) PROVE LoopAlone'
  <2>1. a = "loop"
    BY <1>1 DEF ActorStep, Timeout, JoinFailed, JoinPanicked, JoinOk,
                DispatchDone
  <2>2. CASE Timeout(a)
    BY <1>1, <2>1, <2>2 DEF Timeout, Forget, Resting
  <2>3. CASE JoinFailed(a)
    BY <1>1, <2>1, <2>3 DEF JoinFailed, Forget, Resting
  <2>4. CASE JoinPanicked(a)
    BY <1>1, <2>1, <2>4 DEF JoinPanicked, Forget, Resting
  <2>5. CASE JoinOk(a)
    BY <1>1, <2>1, <2>5 DEF JoinOk, Forget
  <2>6. CASE DispatchDone(a)
    BY <1>1, <2>1, <2>6 DEF DispatchDone, Resting
  <2>7. QED
    BY <1>1, <2>2, <2>3, <2>4, <2>5, <2>6 DEF ActorStep
<1>2. ASSUME NEW t \in Tasks, TaskStep(t) PROVE LoopAlone'
  <2>1. CASE TaskLock(t)
    BY <2>1 DEF TaskLock
  <2>2. CASE TaskCollect(t)
    BY <2>2 DEF TaskCollect
  <2>3. CASE TaskClear(t)
    BY <2>3 DEF TaskClear
  <2>4. CASE TaskPanic(t)
    BY <2>4 DEF TaskPanic
  <2>5. QED
    BY <1>2, <2>1, <2>2, <2>3, <2>4 DEF TaskStep
<1>3. ASSUME NEW w \in writes, WriteDone(w) \/ WriteLost(w) PROVE LoopAlone'
  BY <1>3 DEF WriteDone, WriteLost
<1>4. CASE Tick
  BY <1>4 DEF Tick, SpawnCollect
<1>5. CASE LoopExit
  BY <1>5 DEF LoopExit
<1>6. CASE OwnerStep
  BY <1>6 DEF OwnerStep, OwnerCalls, Start, StartLoop, CollectOnce,
              OnceConfig, OnceSpawn, Stop, StopDone, DropScheduler
<1>7. CASE UNCHANGED vars
  BY <1>7 DEF vars
<1>8. QED
  BY <1>1, <1>2, <1>3, <1>4, <1>5, <1>6, <1>7 DEF Next

LEMMA LoopAloneInvariance ==
  ASSUME ~UsesOnce
  PROVE  Spec => []LoopAlone
<1>1. Init => LoopAlone
  BY DEF Init, LoopAlone, Alive, Running, Actors
<1>2. TypeInv /\ LoopAlone /\ [Next]_vars => LoopAlone'
  BY NextLoopAlone
<1>3. QED
  BY <1>1, <1>2, TypeInvariance, PTL DEF Spec

\* Without collect_once no collect is ever started, or queued behind the
\* mutex, while another one is in flight: not after timeouts, not after
\* panics, not across stop and start (scheduler.rs:25-28).
THEOREM CollectsAlone ==
  ASSUME ~UsesOnce
  PROVE  Spec => []SingleCollect
<1>1. LoopAlone => SingleCollect
  BY DEF LoopAlone, SingleCollect, Alive, Collecting, Running
<1>2. QED
  BY <1>1, LoopAloneInvariance, PTL

-----------------------------------------------------------------------------
(* The scheduler implements SnapshotFeed.                                  *)

\* A snapshot on its way to the sinks is newer than all they have.
Fresh ==
  /\ \A s \in Sinks : received[s] <= taken
  /\ \A t \in Tasks :
       task[t] \in {"collected", "finished"} /\ result[t] # Failed =>
         /\ result[t] <= taken
         /\ \A s \in Sinks : received[s] < result[t]
  /\ \A w \in writes : received[w.sink] < w.snap /\ w.snap <= taken
  /\ \A w1, w2 \in writes : w1.sink = w2.sink => w1 = w2

FeedInv == TypeInv /\ WritesSettled /\ LoopAlone /\ Fresh

LEMMA NextFresh == FeedInv /\ [Next]_vars => Fresh'
<1> SUFFICES ASSUME FeedInv, [Next]_vars
             PROVE  Fresh'
  OBVIOUS
<1> USE DEF FeedInv, TypeInv, TypeOK, WritesSettled, Fresh, Actors, Failed,
            Snapshots, Goto, control, output, tasks
<1>1. ASSUME NEW a \in Actors, ActorStep(a) PROVE Fresh'
  <2>1. CASE Timeout(a)
    BY <2>1 DEF Timeout, Forget, Running
  <2>2. CASE JoinFailed(a)
    BY <2>2 DEF JoinFailed, Forget
  <2>3. CASE JoinPanicked(a)
    BY <2>3 DEF JoinPanicked, Forget
  <2>4. CASE JoinOk(a)
    <3>1. writes = {}
      BY <2>4 DEF JoinOk, LoopAlone, Write
    <3>2. \A s \in Sinks : received[s] < result[awaits[a]]
                           /\ result[awaits[a]] <= taken
      BY <2>4 DEF JoinOk
    <3>3. \A w \in writes' : w.sink \in Sinks /\ w.snap = result[awaits[a]]
                            /\ w = [by |-> a, sink |-> w.sink,
                                    snap |-> result[awaits[a]]]
      BY <2>4, <3>1 DEF JoinOk
    <3>4. \A t \in Tasks : task'[t] = "finished" => task[t] = "finished"
      BY <2>4 DEF JoinOk, Forget
    <3>5. \A t \in Tasks : task'[t] = "collected" => task[t] = "collected"
      BY <2>4 DEF JoinOk, Forget
    <3>6. UNCHANGED <<taken, received, result>>
      BY <2>4 DEF JoinOk
    <3>7. \A w1, w2 \in writes' : w1.sink = w2.sink => w1 = w2
      BY <3>3
    <3>8. QED
      BY <3>2, <3>3, <3>4, <3>5, <3>6, <3>7
  <2>5. CASE DispatchDone(a)
    BY <2>5 DEF DispatchDone
  <2>6. QED
    BY <1>1, <2>1, <2>2, <2>3, <2>4, <2>5 DEF ActorStep
<1>2. ASSUME NEW t \in Tasks, TaskStep(t) PROVE Fresh'
  <2>1. CASE TaskLock(t)
    BY <2>1 DEF TaskLock
  <2>2. CASE TaskCollect(t)
    <3>1. \A u \in Tasks : u # t => task[u] = "free"
      BY <2>2 DEF TaskCollect, LoopAlone, Alive
    <3>2. QED
      BY <2>2, <3>1 DEF TaskCollect, Write
  <2>3. CASE TaskClear(t)
    BY <2>3 DEF TaskClear
  <2>4. CASE TaskPanic(t)
    BY <2>4 DEF TaskPanic
  <2>5. QED
    BY <1>2, <2>1, <2>2, <2>3, <2>4 DEF TaskStep
<1>3. ASSUME NEW w \in writes, WriteDone(w) \/ WriteLost(w) PROVE Fresh'
  <2>1. Alive = {}
    BY DEF LoopAlone, Write
  <2>2. w \in Write
    OBVIOUS
  <2>3. CASE WriteDone(w)
    BY <2>1, <2>2, <2>3 DEF WriteDone, Alive, Write
  <2>4. CASE WriteLost(w)
    BY <2>4 DEF WriteLost
  <2>5. QED
    BY <1>3, <2>3, <2>4
<1>4. CASE Tick
  BY <1>4 DEF Tick, SpawnCollect
<1>5. CASE LoopExit
  BY <1>5 DEF LoopExit
<1>6. CASE OwnerStep
  BY <1>6 DEF OwnerStep, OwnerCalls, Start, StartLoop, CollectOnce,
              OnceConfig, OnceSpawn, SpawnCollect, Stop, StopDone,
              DropScheduler
<1>7. CASE UNCHANGED vars
  BY <1>7 DEF vars
<1>8. QED
  BY <1>1, <1>2, <1>3, <1>4, <1>5, <1>6, <1>7 DEF Next

\* Every step of the scheduler is a step of SnapshotFeed, or none.
LEMMA NextFeed ==
  FeedInv /\ [Next]_vars => [Feed!Next]_<<taken, received>>
<1> SUFFICES ASSUME FeedInv, [Next]_vars
             PROVE  Feed!Next \/ UNCHANGED <<taken, received>>
  OBVIOUS
<1> USE DEF control, output, tasks
<1>1. ASSUME NEW a \in Actors, ActorStep(a)
      PROVE  UNCHANGED <<taken, received>>
  BY <1>1 DEF ActorStep, Timeout, JoinFailed, JoinPanicked, JoinOk,
              DispatchDone
<1>2. ASSUME NEW t \in Tasks, TaskStep(t)
      PROVE  Feed!Take \/ UNCHANGED <<taken, received>>
  BY <1>2 DEF TaskStep, TaskLock, TaskCollect, TaskClear, TaskPanic, Feed!Take
<1>3. ASSUME NEW w \in writes, WriteDone(w)
      PROVE  w.sink \in Sinks /\ Feed!Receive(w.sink)
  <2>1. w \in Write /\ taken \in Nat /\ received[w.sink] \in Nat
    BY DEF FeedInv, TypeInv, TypeOK, Write
  <2>2. w.snap \in (received[w.sink] + 1) .. taken
    BY <2>1 DEF FeedInv, Fresh, Write, Snapshots
  <2>3. QED
    BY <1>3, <2>1, <2>2 DEF WriteDone, Feed!Receive, Write
<1>4. ASSUME NEW w \in writes, WriteLost(w)
      PROVE  UNCHANGED <<taken, received>>
  BY <1>4 DEF WriteLost
<1>5. CASE Tick
  BY <1>5 DEF Tick, SpawnCollect
<1>6. CASE LoopExit
  BY <1>6 DEF LoopExit
<1>7. CASE OwnerStep
  BY <1>7 DEF OwnerStep, OwnerCalls, Start, StartLoop, CollectOnce,
              OnceConfig, OnceSpawn, SpawnCollect, Stop, StopDone,
              DropScheduler
<1>8. CASE UNCHANGED vars
  BY <1>8 DEF vars
<1>9. QED
  BY <1>1, <1>2, <1>3, <1>4, <1>5, <1>6, <1>7, <1>8 DEF Next, Feed!Next

\* Without collect_once the scheduler implements SnapshotFeed: no sink is
\* ever given an old snapshot, or the same one twice
\* (scheduler.rs:105-127, 167-220).
THEOREM ImplementsFeed ==
  ASSUME ~UsesOnce
  PROVE  Spec => FeedSpec
<1>1. Init => Fresh
  BY DEF Init, Fresh
<1>2. Init => Feed!Init
  BY DEF Init, Feed!Init
<1>3. Spec => []FeedInv
  BY <1>1, NextFresh, LoopAloneInvariance, TypeInvariance, RoundsSettle, PTL
     DEF Spec, FeedInv
<1>4. QED
  BY <1>2, <1>3, NextFeed, PTL DEF Spec, FeedSpec, Feed!Spec

-----------------------------------------------------------------------------
(* The life of the daemon.                                                 *)

USE DaemonAssumption DEF DaemonAssumption

\* The file at the path belongs to a daemon that has bound it and has not
\* come to remove it, or that was killed before it could.
SocketOwned ==
  socket # NoDaemon =>
    stage[socket] \in {"bound", "setup", "serving", "deaf", "stopping",
                       "closing", "killed"}

\* A patient operator never has two daemons alive, so nobody takes the path
\* from one that has bound it, and its listener is open until it stops.
Alone ==
  operator = "exited" =>
    /\ \A d, e \in Daemons : stage[d] \in Executing /\ stage[e] \in Executing => d = e
    /\ \A d \in Daemons : stage[d] \in {"bound", "setup", "serving"} => socket = d
    /\ \A d \in Daemons : stage[d] \in {"setup", "serving"} => listening[d]

DaemonInv == DaemonTypeOK /\ SocketOwned /\ Alone

LEMMA InitDaemonInv == DaemonInit => DaemonInv
BY DEF DaemonInit, DaemonInv, DaemonTypeOK, SocketOwned, Alone, Stages, ClientStages,
       HandlerStages, Executing, Starting, Up, Stopping

\* A daemon that starts.
LEMMA StartDaemonInv ==
  ASSUME DaemonInv, NEW d \in Daemons,
         Launch(d) \/ Serve(d) \/ StartStep(d)
  PROVE  DaemonInv'
<1> USE DEF DaemonInv, DaemonTypeOK, SocketOwned, Alone, Stages, Executing, Starting, Up,
            Stopping, Open, DaemonGoto, clients, ClientGoto, HandlerGoto,
            ClientStages, HandlerStages, Reachable, MayStart, CloseListener,
            CloseAll
<1>1. CASE Launch(d)
  BY <1>1 DEF Launch
<1>2. CASE Serve(d)
  BY <1>2 DEF Serve
<1>3. CASE CheckPath(d)
  BY <1>3 DEF CheckPath
<1>4. CASE Probe(d)
  BY <1>4 DEF Probe
<1>5. CASE CleanStale(d)
  BY <1>5 DEF CleanStale
<1>6. CASE Bind(d)
  BY <1>6 DEF Bind
<1>7. CASE Listen(d)
  BY <1>7 DEF Listen
<1>8. CASE StartServing(d)
  BY <1>8 DEF StartServing
<1>9. QED
  BY <1>1, <1>2, <1>3, <1>4, <1>5, <1>6, <1>7, <1>8 DEF StartStep, StopStep, DaemonStep, ClientStep

\* A daemon that stops, or fails.
LEMMA StopDaemonInv ==
  ASSUME DaemonInv, NEW d \in Daemons,
         AcceptFatal(d) \/ Interrupt(d) \/ StopStep(d) \/ DropListener(d)
           \/ Exit(d) \/ Kill(d)
  PROVE  DaemonInv'
<1> USE DEF DaemonInv, DaemonTypeOK, SocketOwned, Alone, Stages, Executing, Starting, Up,
            Stopping, Open, DaemonGoto, clients, ClientGoto, HandlerGoto,
            ClientStages, HandlerStages, Reachable, MayStart, CloseListener,
            CloseAll
<1>1. CASE AcceptFatal(d)
  BY <1>1 DEF AcceptFatal
<1>2. CASE Interrupt(d)
  BY <1>2 DEF Interrupt
<1>3. CASE StopNotified(d)
  BY <1>3 DEF StopNotified
<1>4. CASE SchedulerStopped(d)
  BY <1>4 DEF SchedulerStopped
<1>5. CASE DropListener(d)
  BY <1>5 DEF DropListener
<1>6. CASE RemoveSocket(d)
  BY <1>6 DEF RemoveSocket
<1>7. CASE Exit(d)
  BY <1>7 DEF Exit
<1>8. CASE Kill(d)
  BY <1>8 DEF Kill
<1>9. QED
  BY <1>1, <1>2, <1>3, <1>4, <1>5, <1>6, <1>7, <1>8 DEF StartStep, StopStep, DaemonStep, ClientStep

\* A stop command and its handler.
LEMMA ClientDaemonInv ==
  ASSUME DaemonInv, NEW c \in Clients,
         ClientStep(c)
  PROVE  DaemonInv'
<1> USE DEF DaemonInv, DaemonTypeOK, SocketOwned, Alone, Stages, Executing, Starting, Up,
            Stopping, Open, DaemonGoto, clients, ClientGoto, HandlerGoto,
            ClientStages, HandlerStages, Reachable, MayStart, CloseListener,
            CloseAll
<1>1. CASE Connect(c)
  BY <1>1 DEF Connect
<1>2. CASE Send(c)
  BY <1>2 DEF Send
<1>3. CASE Accept(c)
  BY <1>3 DEF Accept
<1>4. CASE Answer(c)
  BY <1>4 DEF Answer
<1>5. CASE GiveUp(c)
  BY <1>5 DEF GiveUp
<1>6. CASE Notify(c)
  BY <1>6 DEF Notify
<1>7. CASE Return(c)
  BY <1>7 DEF Return
<1>8. CASE Abandon(c)
  BY <1>8 DEF Abandon
<1>9. QED
  BY <1>1, <1>2, <1>3, <1>4, <1>5, <1>6, <1>7, <1>8 DEF StartStep, StopStep, DaemonStep, ClientStep

LEMMA DaemonInvariant == DaemonSpec => []DaemonInv
<1>1. DaemonInv /\ [DaemonNext]_daemonVars => DaemonInv'
  <2> SUFFICES ASSUME DaemonInv, [DaemonNext]_daemonVars
               PROVE  DaemonInv'
    OBVIOUS
  <2>1. CASE \E d \in Daemons : DaemonStep(d)
    BY <2>1, StartDaemonInv, StopDaemonInv DEF DaemonStep
  <2>2. CASE \E c \in Clients : ClientStep(c)
    BY <2>2, ClientDaemonInv
  <2>3. CASE UNCHANGED daemonVars
    BY <2>3 DEF daemonVars, clients, DaemonInv, DaemonTypeOK, SocketOwned, Alone
  <2>4. QED
    BY <2>1, <2>2, <2>3 DEF DaemonNext
<1>2. QED
  BY <1>1, InitDaemonInv, PTL DEF DaemonSpec

-----------------------------------------------------------------------------
\* Types, and the end of every connection: a handler that is not closed has a
\* daemon whose listener has been open and whose process is alive
\* (daemon.rs:161-204).
THEOREM DaemonTypeCorrect == DaemonSpec => []DaemonTypeOK
<1>1. DaemonInv => DaemonTypeOK
  BY DEF DaemonInv
<1>2. QED
  BY <1>1, DaemonInvariant, PTL

\* Started one after the other, a daemon that serves is the one at the path,
\* however its predecessors ended (daemon.rs:122-136).
THEOREM PatientIsReachable == DaemonSpec => []ServingIsReachable
<1>1. DaemonInv => ServingIsReachable
  BY DEF DaemonInv, Alone, ServingIsReachable
<1>2. QED
  BY <1>1, DaemonInvariant, PTL

\* However daemons are started, one that exits by itself leaves no file
\* (daemon.rs:201).
THEOREM ExitLeavesNothing == DaemonSpec => []NothingLeftBehind
<1>1. DaemonInv => NothingLeftBehind
  BY DEF DaemonInv, SocketOwned, NothingLeftBehind, Executing, Starting, Up,
         Stopping
<1>2. QED
  BY <1>1, DaemonInvariant, PTL

=============================================================================
