----------------------------- MODULE Processes -----------------------------
(***************************************************************************)
(* The process side of LocalCollector (collector/local.rs): a refresh of   *)
(* the process table on its own cadence or at once under load, the CPU     *)
(* percentages diffed against the previous refresh, the list of the top    *)
(* processes and the trees that stand for applications.  The machine       *)
(* spawns, reparents and recycles; a pid says nothing about who holds it,  *)
(* so each process also has a life, which the code cannot see.             *)
(*                                                                         *)
(* A percentage is kept as the CPU time gained and the time it is divided  *)
(* by.  Collects are at least an instant apart.  Disk I/O per process is   *)
(* off, the default.  The applications it finds are what a memory-pressure *)
(* alert names (alerts.rs).  A footprint is a set of at most one reading.  *)
(***************************************************************************)
EXTENDS Integers, FiniteSets, Sums

CONSTANTS
    Pids,        \* the pids in use, pid 1 not among them
    Managers,    \* the pids a service manager runs under
    Heavy,       \* the pids of the processes with much memory
    Compressed,  \* the pids of processes the kernel keeps half in its compressor
    Denied,      \* the pids of processes that may not be inspected
    Hidden,      \* the pids whose start time cannot be read
    Top,         \* max_processes
    Interval,    \* process_refresh_interval
    Boost,       \* process_boost_cpu_cores, in cores, 0 for off
    Cores,       \* the logical cores
    TotalMemory, \* the machine's memory
    Floor,       \* a share worth naming is one of that many (20)
    Named,       \* how many an alert names (3)
    MaxLives, MaxWork, MaxTime   \* bounds

ASSUME ProcessesAssumption ==
    /\ Pids \subseteq Nat \ {0, 1} /\ IsFiniteSet(Pids)
    /\ Managers \subseteq Pids /\ Heavy \subseteq Pids
    /\ Compressed \subseteq Pids /\ Denied \subseteq Pids
    /\ Hidden \subseteq Pids
    /\ Top \in Nat \ {0} /\ Interval \in Nat /\ Boost \in Nat /\ Cores \in Nat
    /\ TotalMemory \in Nat /\ Floor \in Nat \ {0} /\ Named \in Nat \ {0}
    /\ MaxLives \in Nat /\ MaxWork \in Nat /\ MaxTime \in Nat

INIT_PID == 1
None == [none |-> TRUE]

VARIABLES
    reparents,  \* the platform hands an orphan to pid 1 (Unix), or does not
    now,        \* seconds, and the instants of the refreshes
    table,      \* the machine: pid |-> process
    lives,      \* the processes there have been
    last,       \* last_process_refresh
    base,       \* last_cpu_times: pid |-> [work, start]
    cached      \* cached_processes and cached_process_groups, one refresh:
                \* what every collect publishes until the next refresh

vars == <<reparents, now, table, lives, last, base, cached>>

-----------------------------------------------------------------------------
(* CPU percentages.                                                        *)

\* Mutant of PercentBetween: a pid stands for a process.
PercentOfPid(prev, current, span) ==
    [delta |-> IF current.work < prev.work \/ span = 0 THEN 0
               ELSE current.work - prev.work, span |-> span]

\* percent_between: nothing across a recycled pid, a counter that went back
\* or an empty window.
PercentBetween(prev, current, span) ==
    [delta |-> IF current.start # prev.start \/ current.work < prev.work \/ span = 0
                 THEN 0 ELSE current.work - prev.work,
     span |-> span]

Baseline(t) == [p \in DOMAIN t |-> [work |-> t[p].work, start |-> t[p].start]]

\* update_cpu_percents.
Percents(t) ==
    [p \in DOMAIN t |->
        IF last # None /\ p \in DOMAIN base
          THEN PercentBetween(base[p], Baseline(t)[p], now - last.at)
          ELSE [delta |-> 0, span |-> 0]]

-----------------------------------------------------------------------------
(* The memory of a process.                                                *)

\* Its resident size, which leaves out what the kernel has compressed.
Mem(p) == IF p \in Heavy THEN 2 ELSE 1

\* process_footprint: what it really holds; "no answer, never zero" where the
\* kernel does not tell.
Footprint(p) ==
    IF p \in Denied THEN {} ELSE {IF p \in Compressed THEN 2 * Mem(p) ELSE Mem(p)}

\* The footprint where there is one, the resident size otherwise.
BestOf(footprint, resident) ==
    IF footprint = {} THEN resident ELSE CHOOSE f \in footprint : TRUE

-----------------------------------------------------------------------------
(* The top of the table.                                                   *)

ByCpuThenMemory(percent, p, q) ==
    \/ percent[p].delta > percent[q].delta
    \/ /\ percent[p].delta = percent[q].delta
       /\ \/ Mem(p) > Mem(q)
          \/ Mem(p) = Mem(q) /\ p < q

ByMemory(percent, p, q) ==
    \/ Mem(p) > Mem(q)
    \/ Mem(p) = Mem(q) /\ ByCpuThenMemory(percent, p, q)

\* The first n of an order that gives, for each element, those ahead of it.
First(n, ahead) == {p \in DOMAIN ahead : Cardinality(ahead[p]) < n}

\* Mutant of SelectTop: the whole budget goes to the CPU ranking.
SelectTopCpu(percent, S) ==
    First(Top, [p \in S |-> {q \in S : ByCpuThenMemory(percent, q, p)}])

\* select_top_pids: half of the budget for the CPU ranking, what is left of
\* the table competes for the other half by memory.
SelectTop(percent, S) ==
    LET busy == First(Top \div 2,
                      [p \in S |-> {q \in S : ByCpuThenMemory(percent, q, p)}])
        rest == S \ busy
    IN IF Cardinality(S) <= Top THEN S
       ELSE busy \cup First(Top - Top \div 2,
                            [p \in rest |-> {q \in rest : ByMemory(percent, q, p)}])

-----------------------------------------------------------------------------
(* Process trees.                                                          *)

\* Mutant of IsPlausibleParent: a pid in the table is taken at its word.
IsInTable(t, child, parent) == parent \in DOMAIN t

\* Mutant of IsPlausibleParent: a parent started strictly before its child.
IsOlder(t, child, parent) ==
    parent \in DOMAIN t /\ (0 \in {t[child].start, t[parent].start}
                            \/ t[parent].start < t[child].start)

\* is_plausible_parent: a parent cannot have started after its child.
IsPlausibleParent(t, child, parent) ==
    /\ parent \in DOMAIN t
    /\ \/ 0 \in {t[child].start, t[parent].start}
       \/ t[parent].start <= t[child].start

\* is_service_manager: the children of one are applications of their own.
IsServiceManager(t, p) == p \in Managers \cap DOMAIN t

\* The climb goes on from p to its parent.
Climbs(t, p) ==
    LET parent == t[p].parent IN
    /\ parent # INIT_PID
    /\ ~IsServiceManager(t, parent)
    /\ parent # p
    /\ IsPlausibleParent(t, p, parent)

\* No climb leaves S.
Closed(t, S) == \A q \in S : Climbs(t, q) => t[q].parent \in S

\* The processes a climb from p passes, p included.
Chain(t, p) ==
    {q \in DOMAIN t : \A S \in SUBSET DOMAIN t : p \in S /\ Closed(t, S) => q \in S}

\* Where it ends: at the one process it cannot leave, or, on a ppid cycle,
\* at the process the walk of 512 steps happens to stop at, the same for the
\* whole cycle: the roots a tree may be published under.
\* (A line of more than 512 generations, which the walk would cut, is left out.)
Roots(t, p) ==
    LET ends == {q \in Chain(t, p) : ~Climbs(t, q)}
    IN IF ends # {} THEN ends
       ELSE {q \in Chain(t, p) : \A r \in Chain(t, p) : q \in Chain(t, r)}

\* aggregate_process_groups: one tree per root, the busiest Top of them.
Trees(t) == {[roots |-> Roots(t, p),
              members |-> {q \in DOMAIN t : Roots(t, q) = Roots(t, p)}] : p \in DOMAIN t}

\* Mutant of Totals: only what could be read is summed.
TotalsRead(g) ==
    [mem |-> Sum(g.members, [p \in g.members |-> Mem(p)]),
     footprint |-> {Sum(g.members, [p \in g.members |-> BestOf(Footprint(p), 0)])}]

\* What the processes in S hold together: a member that may not be inspected
\* counts with its resident size.
Held(S) == Sum(S, [p \in S |-> BestOf(Footprint(p), Mem(p))])

\* The memory of a tree: no footprint where none could be read.
Totals(g) ==
    [mem |-> Sum(g.members, [p \in g.members |-> Mem(p)]),
     footprint |->
       IF \A p \in g.members : Footprint(p) = {} THEN {} ELSE {Held(g.members)}]

TotalCpu(percent, g) == Sum(g.members, [p \in g.members |-> percent[p].delta])

ByTotalCpu(percent, g, h) ==
    \/ TotalCpu(percent, g) > TotalCpu(percent, h)
    \/ /\ TotalCpu(percent, g) = TotalCpu(percent, h)
       /\ \/ Totals(g).mem > Totals(h).mem
          \/ Totals(g).mem = Totals(h).mem /\ Min(g.roots) < Min(h.roots)

Groups(t, percent) ==
    LET trees == Trees(t)
    IN First(Top, [g \in trees |-> {h \in trees : ByTotalCpu(percent, h, g)}])

-----------------------------------------------------------------------------
(* Collect.                                                                *)

\* process_boost_active, for a load given in busy cores.
BoostActive(busy) == Cores # 0 /\ Boost > 0 /\ busy >= Boost

ProcessesDue(busy) ==
    \/ BoostActive(busy)
    \/ last = None
    \/ last # None /\ now - last.at >= Interval

\* collect_processes and collect_process_groups, after a refresh.
CollectProcesses(percent) == SelectTop(percent, DOMAIN table)

CollectProcessGroups(percent) == Groups(table, percent)

\* A refresh reads the table once; list and groups come from it.  The table
\* it read, its trees and the table before are kept for the properties.
Sample ==
    LET percent == Percents(table) IN
    [at |-> now, percent |-> percent,
     list |-> CollectProcesses(percent),
     groups |-> CollectProcessGroups(percent),
     table |-> table,
     trees |-> Trees(table),
     before |-> IF cached = None THEN None
                ELSE [at |-> cached.at,
                      table |-> [p \in DOMAIN cached.table |->
                                   [f \in {"life", "work", "start"} |-> cached.table[p][f]]]]]

refresh_process_table ==
    /\ last' = [at |-> now]
    /\ base' = Baseline(table)

Collect(busy) ==
    /\ last # None => last.at < now
    /\ IF ProcessesDue(busy)
         THEN /\ refresh_process_table
              /\ cached' = Sample
              /\ UNCHANGED <<reparents, now, table, lives>>
         ELSE UNCHANGED vars

-----------------------------------------------------------------------------
(* The attribution of a memory-pressure alert.                             *)

\* What a consumer is said to hold.
Consumer(pids, members, totals) ==
    [pid |-> Min(pids), members |-> members,
     bytes |-> BestOf(totals.footprint, totals.mem)]

Consumers(sample, grouped) ==
    IF grouped /\ sample.groups # {}
      THEN {Consumer(g.roots, g.members, Totals(g)) : g \in sample.groups}
      ELSE {Consumer({p}, {p}, [footprint |-> Footprint(p), mem |-> Mem(p)]) :
              p \in sample.list}

HoldsMore(c, d) == c.bytes > d.bytes \/ (c.bytes = d.bytes /\ c.pid < d.pid)

\* top_memory_consumers: the applications of a snapshot that hold most, or the
\* processes of its list where it has no applications.
TopMemoryConsumers(sample, grouped) ==
    LET worth == {c \in Consumers(sample, grouped) : c.bytes * Floor >= TotalMemory}
    IN IF TotalMemory = 0 THEN {}
       ELSE First(Named, [c \in worth |-> {d \in worth : HoldsMore(d, c)}])

-----------------------------------------------------------------------------
(* The machine.                                                            *)

\* The application a new process belongs to: its parent's, or its own when
\* pid 1 or a service manager started it.
Spawn(pid, parent) ==
    /\ lives < MaxLives
    /\ pid \in Pids \ DOMAIN table
    /\ parent \in DOMAIN table \cup {INIT_PID}
    /\ lives' = lives + 1
    /\ LET process ==
             [life |-> lives, parent |-> parent, work |-> 0,
              start |-> IF pid \in Hidden THEN 0 ELSE now,
              line |-> IF parent \in Managers \cup {INIT_PID} THEN lives
                       ELSE table[parent].line,
              parentLife |-> IF parent = INIT_PID THEN -1 ELSE table[parent].life]
       IN table' = [p \in DOMAIN table \cup {pid} |-> IF p = pid THEN process ELSE table[p]]
    /\ UNCHANGED <<reparents, now, last, base, cached>>

Exit(pid) ==
    /\ pid \in DOMAIN table
    /\ table' = [p \in DOMAIN table \ {pid} |->
                   IF reparents /\ table[p].parent = pid
                     THEN [table[p] EXCEPT !.parent = INIT_PID] ELSE table[p]]
    /\ UNCHANGED <<reparents, now, lives, last, base, cached>>

Run(pid) ==
    /\ pid \in DOMAIN table
    /\ table[pid].work < MaxWork
    /\ table' = [table EXCEPT ![pid].work = @ + 1]
    /\ UNCHANGED <<reparents, now, lives, last, base, cached>>

Tick ==
    /\ now < MaxTime
    /\ now' = now + 1
    /\ UNCHANGED <<reparents, table, lives, last, base, cached>>

Init ==
    /\ reparents \in BOOLEAN
    /\ now = 1
    /\ table = <<>> /\ lives = 0
    /\ last = None /\ base = <<>> /\ cached = None

Next ==
    \/ \E busy \in 0..Cores : Collect(busy)
    \/ \E pid \in Pids : \/ \E parent \in Pids \cup {INIT_PID} : Spawn(pid, parent)
                         \/ Exit(pid)
                         \/ Run(pid)
    \/ Tick

Spec == Init /\ [][Next]_vars

-----------------------------------------------------------------------------
(* Properties.                                                             *)

\* The percentage of a process is the CPU time it gained since the refresh
\* before, over the time since that refresh: never that of another process
\* that held its pid, however often pids were recycled between refreshes
\* (unless the two started in the same second, which is all the code sees).
TrueCpu ==
    cached # None =>
        \A p \in DOMAIN cached.percent :
            LET r == cached.percent[p]
                current == cached.table[p]
                known == cached.before # None /\ p \in DOMAIN cached.before.table
            IN IF known /\ cached.before.table[p].life = current.life
                 THEN cached.at > cached.before.at =>
                        /\ r.span = cached.at - cached.before.at
                        /\ r.delta = current.work - cached.before.table[p].work
                 ELSE \/ r.delta = 0
                      \/ known /\ cached.before.table[p].start = current.start

\* "Who is holding the RAM at the moment the kernel called memory short"
\* (alerts.rs:678): as long as the machine's memory is known, a pressure alert
\* names, of all the applications on the machine, the one that holds most, if
\* it holds a share worth naming, whatever of it is compressed or may not be
\* inspected.  But the alert chooses among the groups of the snapshot, and
\* those are cut by CPU (local.rs:1475-1481): an application that holds more
\* than anything named is missing from it if as many others as the snapshot
\* has room for use at least as much CPU.  For an idle one that is against
\* the sentence quoted.
HolderNamed ==
    cached # None /\ TotalMemory # 0 =>
        LET named == TopMemoryConsumers(cached, TRUE) IN
        \A g \in cached.trees :
            Held(g.members) * Floor >= TotalMemory =>
              \/ \E c \in named : Held(c.members) >= Held(g.members)
              \/ /\ g \notin cached.groups
                 /\ Cardinality(cached.groups) = Top
                 /\ \A h \in cached.groups :
                       TotalCpu(cached.percent, h) >= TotalCpu(cached.percent, g)

\* However busy the machine, the list holds the process with the most resident
\* memory and, from a budget of two, the one with the most CPU.
HogsInList ==
    cached # None /\ DOMAIN cached.table # {} =>
        LET S == DOMAIN cached.table IN
        /\ Cardinality(cached.list) = IF Cardinality(S) < Top THEN Cardinality(S) ELSE Top
        /\ \E p \in cached.list : \A q \in S : Mem(q) <= Mem(p)
        /\ Top > 1 => \E p \in cached.list :
                         \A q \in S : cached.percent[q].delta <= cached.percent[p].delta

\* What takes the most of a machine is shown: in the list, whichever way it
\* takes it, and in a pressure alert unless busier ones have filled it.
HogsListed == HogsInList /\ HolderNamed

\* The recorded parent of p is another process than the one that started it,
\* and the start times cannot tell.
Mistaken(t, p) ==
    /\ t[p].parent \in DOMAIN t
    /\ t[t[p].parent].life # t[p].parentLife
    /\ 0 \in {t[p].start, t[t[p].parent].start} \/ t[p].start = t[t[p].parent].start

\* No tree mixes two applications: a process is never billed to a stranger
\* that took over its parent's pid, on a platform that reparents orphans and
\* on one that does not.
NoStrangers ==
    cached # None =>
        \A g \in cached.groups :
            \/ \E p \in g.members : Mistaken(cached.table, p)
            \/ \A p, q \in g.members : cached.table[p].line = cached.table[q].line

\* The trees cover every process once, as far as the budget goes, and a
\* process is in the tree of the parent that started it while that one lives.
FamiliesTogether ==
    cached # None =>
        LET t == cached.table IN
        /\ \A g, h \in cached.groups : g # h => g.members \cap h.members = {}
        /\ Cardinality(cached.groups) < Top => UNION {g.members : g \in cached.groups} = DOMAIN t
        /\ \A g \in cached.groups : \A p \in DOMAIN t :
             /\ t[p].parent \in DOMAIN t \ Managers
             /\ t[t[p].parent].life = t[p].parentLife
             => (p \in g.members <=> t[p].parent \in g.members)

=============================================================================
