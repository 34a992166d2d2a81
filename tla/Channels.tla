------------------------------ MODULE Channels ------------------------------
(***************************************************************************)
(* The sampling channels of LocalCollector (collector/local.rs): disks,    *)
(* networks, drives, swap, gpu, battery, temperatures and the CPU          *)
(* frequency.  Each keeps the instant of its last refresh, the sample it   *)
(* shows between refreshes and, where it publishes rates, the counters it  *)
(* diffs the next reading against.  The channels share no state, so one    *)
(* behaviour follows one channel, chosen with its refresh interval by      *)
(* Init; the actions are the collect of that channel, the switches of a    *)
(* frontend, and the machine: time, counters, units that come and go.      *)
(*                                                                         *)
(* A collect takes no time.  A rate is kept as the delta and the time it   *)
(* is divided by, a reading as the set of its units, its instant and its   *)
(* rates.  A counter is one number, where the code reads a few together.   *)
(***************************************************************************)
EXTENDS Integers, FiniteSets

CONSTANTS
    Units,       \* names of the volumes, interfaces or drives
    Intervals,   \* the refresh intervals a configuration may ask for
    StorageInterval,  \* disk_storage_refresh_interval
    MaxCount,    \* bound: what a counter reaches
    MaxTime      \* bound: the length of a behaviour

ASSUME ChannelsAssumption ==
    /\ Intervals \subseteq Nat
    /\ StorageInterval \in Nat /\ MaxCount \in Nat /\ MaxTime \in Nat

Channel == {"disks", "networks", "drives", "swap",
            "gpu", "battery", "temperatures", "frequency"}

\* The channels that diff cumulative counters, and those a frontend switches
\* at run time.
Counted == {"disks", "networks", "drives", "swap"}
Switched == {"gpu", "drives"}

None == [none |-> TRUE]
NoRate == [delta |-> 0, span |-> -1]   \* a rate that is not claimed
ZeroRate == [delta |-> 0, span |-> 0]  \* a rate of zero for want of a window

VARIABLES
    channel, interval,   \* the channel followed and its refresh interval
    now,                 \* Instant::now()
    counter,             \* the machine: unit |-> its counter, while present
    on,                  \* config.collect_*, or battery_manager is Some
    last,                \* last_*_refresh
    base,                \* last_*_counters: unit |-> counter
    storage,             \* last_disk_storage_refresh
    listed,              \* sysinfo's disk list: unit |-> its capacity is known
    cached,              \* cached_*
    shown,               \* what the last collect published
    prior,               \* history: the last successful read
    switchedOn,          \* history: when the channel was last switched on
    late,                \* history: units mounted beside a known one
    missed               \* history: the read that failed since the last good one

config == <<channel, interval>>
machine == <<now, counter>>
refresh == <<last, base, storage, listed, cached>>
vars == <<channel, interval, now, counter, on, last, base, storage, listed,
          cached, shown, prior, switchedOn, late, missed>>

Without(f, u) == [x \in DOMAIN f \ {u} |-> f[x]]

-----------------------------------------------------------------------------
(* rate.rs, and the two ways a channel treats an unusable window.          *)

\* A counter that went backwards was reset: its rate is zero.
RatePerSec(prev, curr, span) ==
    [delta |-> IF curr < prev \/ span = 0 THEN 0 ELSE curr - prev, span |-> span]

\* Disks and networks publish zero over an empty window, drives and swap
\* publish nothing.
Diffed(prev, curr, span) ==
    IF span = 0 /\ channel \in {"drives", "swap"} THEN NoRate
                                                  ELSE RatePerSec(prev, curr, span)

-----------------------------------------------------------------------------
(* The collect of the channel.                                             *)

\* Mutant of Due: one instant late.
DueAfter == IF channel = "swap" \/ interval = 0 \/ last = None
              THEN TRUE ELSE now - last.at > interval

\* The swap counters are diffed by every collect; every other channel waits
\* for its interval.
Due == \/ channel = "swap"
       \/ interval = 0
       \/ last = None
       \/ last # None /\ now - last.at >= interval

\* The capacity of a volume is read on a cadence of its own, and at once for
\* a volume that was not there at the previous refresh, if any was.
StorageDue == storage = None \/ now - storage.at >= StorageInterval

\* Mutant of IsNewMount: every volume waits for the cadence.
NeverNew(unit) == FALSE

IsNewMount(unit) == DOMAIN base # {} /\ unit \notin DOMAIN base

HasCapacity(unit) ==
    \/ StorageDue
    \/ IsNewMount(unit)
    \/ unit \in DOMAIN listed /\ listed[unit]

\* What is published of a unit without a baseline: an interface moves zero
\* bytes a second (its packets and errors claim nothing), the others claim
\* nothing.
Unclaimed == IF channel = "networks" THEN ZeroRate ELSE NoRate

\* The reading of this instant: every unit present, its rate over the time
\* since the last refresh if it has a baseline.  Its last three fields are
\* history: the counters it read, the good read before it, and the failed one
\* between them, if any.
Sample ==
    [at |-> now,
     rate |-> [u \in DOMAIN counter |->
                 IF last # None /\ u \in DOMAIN base
                   THEN Diffed(base[u], counter[u], now - last.at)
                   ELSE Unclaimed],
     blank |-> IF channel = "disks"
                 THEN {u \in DOMAIN counter : ~HasCapacity(u)} ELSE {},
     counter |-> counter, before |-> prior, missed |-> missed]

Publish(sample) ==
    shown' = IF sample = None THEN None ELSE [sample |-> sample, when |-> now]

CollectOff ==
    /\ ~on
    /\ shown' = None
    /\ UNCHANGED <<config, machine, on, refresh, prior, switchedOn, late, missed>>

CollectCached ==
    /\ on /\ ~Due
    /\ Publish(cached)
    /\ UNCHANGED <<config, machine, on, refresh, prior, switchedOn, late, missed>>

\* Mutant of NextBase: a unit that is gone keeps its baseline.
MergedBase == [u \in DOMAIN base \cup DOMAIN counter |->
                 IF u \in DOMAIN counter THEN counter[u] ELSE base[u]]

\* The baselines are replaced wholesale: a unit that is gone drops out.
NextBase == IF channel \in Counted THEN counter ELSE base

CollectRead ==
    /\ on /\ Due
    /\ Publish(Sample)
    /\ cached' = Sample
    /\ last' = [at |-> now]
    /\ base' = NextBase
    /\ IF channel = "disks"
         THEN /\ storage' = IF StorageDue THEN [at |-> now] ELSE storage
              /\ listed' = [u \in DOMAIN counter |-> HasCapacity(u)]
         ELSE UNCHANGED <<storage, listed>>
    /\ prior' = [at |-> now, counter |-> counter]
    /\ missed' = None
    /\ UNCHANGED <<config, machine, on, switchedOn, late>>

\* A read that fails publishes nothing.  A failed drive read keeps the
\* baselines but not the instant they were read at; the swap counters keep
\* both, stored together.
CollectFailed ==
    /\ on /\ Due
    /\ shown' = None
    /\ last' = IF channel = "swap" THEN last ELSE [at |-> now]
    /\ \/ cached' = None
       \/ channel = "battery" /\ cached' = cached   \* batteries()? or next()?
    /\ missed' = [at |-> now]
    /\ UNCHANGED <<config, machine, on, base, storage, listed, prior, switchedOn, late>>

\* What each channel's own function does of it.
Cycle == CollectOff \/ CollectCached \/ CollectRead

refresh_cpu == channel = "frequency" /\ (CollectCached \/ CollectRead)
collect_memory == channel = "swap" /\ (CollectRead \/ CollectFailed)
collect_disks == channel = "disks" /\ Cycle
collect_networks == channel = "networks" /\ Cycle
collect_drives == channel = "drives" /\ (Cycle \/ CollectFailed)
collect_gpus == channel = "gpu" /\ (Cycle \/ CollectFailed)
collect_battery == channel = "battery" /\ (Cycle \/ CollectFailed)
collect_temperatures == channel = "temperatures" /\ Cycle

\* set_collect_gpu and set_collect_drives: a repeat changes nothing, a
\* change drops the sample, the schedule and the baselines.
SetCollect(flag) ==
    /\ channel \in Switched
    /\ flag # on
    /\ on' = flag
    /\ last' = None
    /\ cached' = None
    /\ base' = <<>>
    /\ prior' = None
    /\ missed' = None
    /\ switchedOn' = now
    /\ UNCHANGED <<config, machine, storage, listed, shown, late>>

-----------------------------------------------------------------------------
(* The machine.                                                            *)

Tick ==
    /\ now < MaxTime
    /\ now' = now + 1
    /\ UNCHANGED <<config, counter, on, refresh, shown, prior, switchedOn, late, missed>>

Work(unit) ==
    /\ channel \in Counted
    /\ unit \in DOMAIN counter
    /\ counter[unit] < MaxCount
    /\ counter' = [counter EXCEPT ![unit] = @ + 1]
    /\ UNCHANGED <<config, now, on, refresh, shown, prior, switchedOn, late, missed>>

\* A volume, interface or drive appears with its counter at zero.
Attach(unit) ==
    /\ channel \in Counted \ {"swap"}
    /\ unit \notin DOMAIN counter
    /\ counter' = [u \in DOMAIN counter \cup {unit} |->
                     IF u = unit THEN 0 ELSE counter[u]]
    /\ late' = IF DOMAIN base # {} /\ unit \notin DOMAIN base
                 THEN late \cup {unit} ELSE late \ {unit}
    /\ UNCHANGED <<config, now, on, refresh, shown, prior, switchedOn, missed>>

Detach(unit) ==
    /\ channel \in Counted \ {"swap"}
    /\ unit \in DOMAIN counter
    /\ counter' = Without(counter, unit)
    /\ UNCHANGED <<config, now, on, refresh, shown, prior, switchedOn, late, missed>>

-----------------------------------------------------------------------------
\* LocalCollector::new: the disk list is enumerated with its capacities, the
\* frequency is read, nothing else is.
Init ==
    /\ channel \in Channel
    /\ interval \in Intervals
    /\ now = 0
    /\ IF channel \in Counted
         THEN \E present \in SUBSET Units : counter = [u \in present |-> 0]
         ELSE counter = <<>>
    /\ on \in IF channel \in {"swap", "frequency"} THEN {TRUE} ELSE BOOLEAN
    /\ last = IF channel = "frequency" THEN [at |-> 0] ELSE None
    /\ base = <<>>
    /\ storage = IF channel = "disks" /\ on THEN [at |-> 0] ELSE None
    /\ listed = IF channel = "disks" /\ on THEN [u \in DOMAIN counter |-> TRUE] ELSE <<>>
    /\ shown = None
    /\ prior = None
    /\ switchedOn = 0
    /\ late = {}
    /\ missed = None
    /\ cached = IF channel = "frequency" THEN Sample ELSE None

Next ==
    \/ refresh_cpu \/ collect_memory \/ collect_disks \/ collect_networks
    \/ collect_drives \/ collect_gpus \/ collect_battery \/ collect_temperatures
    \/ \E flag \in BOOLEAN : SetCollect(flag)
    \/ Tick
    \/ \E unit \in Units : Work(unit) \/ Attach(unit) \/ Detach(unit)

Spec == Init /\ [][Next]_vars

-----------------------------------------------------------------------------
(* Properties.                                                             *)

Counters == UNION {[S -> 0..MaxCount] : S \in SUBSET Units}
Read == [at : 0..MaxTime, counter : Counters]
Rate == [delta : 0..MaxCount, span : -1..MaxTime]

IsSample(s) ==
    /\ s.at \in 0..now
    /\ s.counter \in Counters
    /\ DOMAIN s.rate = DOMAIN s.counter
    /\ \A u \in DOMAIN s.rate : s.rate[u] \in Rate
    /\ s.blank \subseteq DOMAIN s.rate
    /\ s.before \in Read \cup {None}
    /\ s.missed = None \/ s.missed \in [at : 0..s.at]

\* The state of a channel has its type; no instant kept is in the future.
TypeOK ==
    /\ channel \in Channel /\ interval \in Intervals
    /\ now \in 0..MaxTime /\ switchedOn \in 0..now
    /\ counter \in Counters /\ base \in Counters
    /\ on \in BOOLEAN
    /\ missed = None \/ missed \in [at : 0..now]
    /\ last = None \/ last \in [at : 0..now]
    /\ storage = None \/ storage \in [at : 0..now]
    /\ listed \in UNION {[S -> BOOLEAN] : S \in SUBSET Units}
    /\ late \subseteq Units
    /\ prior \in Read \cup {None}
    /\ cached = None \/ IsSample(cached)
    /\ shown = None \/ (DOMAIN shown = {"sample", "when"} /\ IsSample(shown.sample)
                       /\ shown.when \in shown.sample.at..now)

\* The instant the rates of a reading are divided from: the good read before
\* it; for the drives, the read that failed since, if one did.
Since(s) == IF channel = "drives" /\ s.missed # None THEN s.missed.at ELSE s.before.at

\* What a rate of a reading has to be: what the counter gained since the good
\* read before it, over the time since Since; without such a read of the unit
\* there is no rate, or zero for an interface, and over no time at all none or
\* zero.
RateIsTrue(s, u) ==
    IF s.before = None \/ u \notin DOMAIN s.before.counter
      THEN s.rate[u] = IF channel = "networks" THEN ZeroRate ELSE NoRate
      ELSE /\ s.at = Since(s) => s.rate[u].delta = 0 /\ s.rate[u].span <= 0
           /\ s.at > Since(s) =>
                /\ s.rate[u].span = s.at - Since(s)
                /\ s.rate[u].delta = IF s.counter[u] > s.before.counter[u]
                                       THEN s.counter[u] - s.before.counter[u] ELSE 0

\* Every rate shown is the true average between two successive good reads of
\* the same unit, whatever units came and went, reads failed and switches
\* were thrown in between: a baseline and the instant it is divided from
\* belong together, and no rate averages over the time a channel was off.  A
\* unit seen again after a gap claims nothing, but for an interface, which
\* shows zero (local.rs:700-709).  The first rate of a drive after a failed
\* read is not an average: the whole gain since the last good read is divided
\* by the time since the failed one, so it comes out too large, and a comment
\* that says the kept baselines make the next read good overlooks the instant
\* (local.rs:505-511).
TrueRates ==
    shown # None =>
        \A u \in DOMAIN shown.sample.rate : RateIsTrue(shown.sample, u)

\* A reading is shown for less than its refresh interval, is gone once a
\* later read has failed, and is never one from before the channel was last
\* switched on.  (A battery that stops answering keeps showing its last
\* reading between the reads that fail.)
Fresh ==
    shown # None =>
        /\ \/ shown.when = shown.sample.at
           \/ shown.when - shown.sample.at < interval
           \/ (channel = "battery" /\ missed # None)
        /\ shown.when > switchedOn => shown.sample.at >= switchedOn

\* A volume mounted while another one was known is never shown without its
\* capacity, whenever in the slow capacity cadence it appears.
MountsHaveCapacity ==
    shown # None => shown.sample.blank \cap late = {}

=============================================================================
