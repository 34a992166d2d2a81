------------------------------- MODULE Settings -------------------------------
(***************************************************************************)
(* The config file as a set of keys: what `zstats -add` and `-remove` make *)
(* of it (src/settings.rs, run_config_actions of src/bin/zstats/main.rs),  *)
(* how its durations and sizes are written and read back (src/config.rs),  *)
(* and what the daemon that reads it runs with.                            *)
(*                                                                         *)
(* A value on the command line is the number it parses to, or Junk; a      *)
(* name=value of an override carries the name too.  Durations are in       *)
(* milliseconds.                                                           *)
(***************************************************************************)
EXTENDS Thresholds, SequencesExt

CONSTANTS Width,      \* 2^64, the range of u64
          Inputs,     \* the values given to -add in the checked inputs
          Names,      \* the names of overrides in them
          ThenKeys    \* the keys the second action of a command may have

ASSUME SettingsAssumption ==
    /\ Width \in Nat \ {0}
    /\ Inputs \subseteq Nat /\ \A n \in Inputs : n < Width

None == <<>>
Some(x) == <<x>>
Junk == -3            \* a value that does not parse
NoName == <<>>
Automatic == -4            \* process_boost_cpu_cores: None

-----------------------------------------------------------------------------
(* The keys *)

DaemonKeys == {"interval", "history", "detach"}
Cadences == {"process-interval", "disk-interval", "disk-storage-interval",
             "network-interval", "temp-interval", "battery-interval", "gpu-interval",
             "drive-interval", "cpu-freq-interval"}
Toggles == {"collect-processes", "collect-disks", "collect-networks",
            "collect-temperatures", "collect-battery", "collect-gpu", "collect-drives",
            "process-disk-io", "process-groups", "dedupe-disks", "per-core-cpu"}
CollectorKeys == Cadences \cup Toggles \cup {"process-boost", "max-processes"}
OverrideKeys == {"alert-cpu", "alert-mem", "alert-disk", "alert-app-cpu", "alert-app-mem"}
SizeKeys == {"alert-mem-bytes", "alert-app-mem-bytes"}
AlertKeys == OverrideKeys \cup SizeKeys \cup
             {"alert-cooldown", "alert-pressure", "alert-template"}
Keys == DaemonKeys \cup CollectorKeys \cup AlertKeys
DurationKeys == Cadences \cup {"interval", "history", "alert-cooldown"}

(* CollectorConfig::default; a toggle is 1 or 0.                           *)
CollectorDefault == [k \in CollectorKeys |->
    CASE k \in {"process-interval", "disk-interval", "network-interval"} -> 0
      [] k \in {"cpu-freq-interval", "battery-interval"} -> 30000
      [] k = "disk-storage-interval" -> 60000
      [] k = "temp-interval" -> 15000
      [] k \in {"gpu-interval", "drive-interval"} -> 10000
      [] k = "process-boost" -> Automatic
      [] k = "max-processes" -> 50
      [] k \in Toggles -> IF k = "process-disk-io" THEN 0 ELSE 1]

(* FileConfig: the [collector] section is an option as a whole, the other  *)
(* keys one by one; the overrides are a map by name.                       *)
EmptyFile ==
    [collector |-> None,
     single |-> [k \in DaemonKeys \cup AlertKeys |-> Unset],
     overrides |-> [k \in OverrideKeys |-> [n \in {} |-> 0]]]

-----------------------------------------------------------------------------
(* apply_add and apply_remove: the new config, or None for an error *)

(* The first change of a collector key writes out the whole section.       *)
collector_mut(config) ==
    IF config.collector = None THEN CollectorDefault ELSE config.collector[1]

SetCollector(config, key, n) ==
    [config EXCEPT !.collector = Some([collector_mut(config) EXCEPT ![key] = n])]

(* Mutant: a boost of 0 is kept as an unset one.                           *)
StoredOrNone(key, n) == IF key = "process-boost" /\ n = 0 THEN Automatic ELSE n

(* The boost of 0 is stored as it is: unset would mean the automatic bar.  *)
Stored(key, n) == n

Insert(map, name, n) == [x \in DOMAIN map \cup {name} |-> IF x = name THEN n ELSE map[x]]
Without(map, name) == [x \in DOMAIN map \ {name} |-> map[x]]

Valid(key, value) ==
    /\ value.n # Junk
    /\ key = "interval" => value.n > 0
    /\ value.name # NoName => key \in OverrideKeys /\ Parses(value.name)

apply_add(config, key, value) ==
    IF key \notin Keys \/ ~Valid(key, value) THEN None
    ELSE IF value.name # NoName
    THEN Some([config EXCEPT !.overrides[key] = Insert(@, value.name, value.n)])
    ELSE IF key \in CollectorKeys
    THEN Some(SetCollector(config, key, Stored(key, value.n)))
    ELSE Some([config EXCEPT !.single[key] = value.n])

apply_remove(config, key, name) ==
    IF name # NoName
    THEN IF key \in OverrideKeys /\ name \in DOMAIN config.overrides[key]
         THEN Some([config EXCEPT !.overrides[key] = Without(@, name)])
         ELSE None
    ELSE IF key \in CollectorKeys
    THEN Some(SetCollector(config, key, CollectorDefault[key]))
    ELSE IF key \in Keys THEN Some([config EXCEPT !.single[key] = Unset])
    ELSE None

Apply(config, action) ==
    IF action.verb = "add" THEN apply_add(config, action.key, action.value)
    ELSE apply_remove(config, action.key, action.value.name)

(* run_config_actions: the first error ends the command before it saves.   *)
run_config_actions(config, actions) ==
    FoldLeft(LAMBDA result, action : IF result = None THEN None ELSE Apply(result[1], action),
             Some(config), actions)

-----------------------------------------------------------------------------
(* Durations and sizes in the file *)

Scale(unit) ==
    CASE unit = "h" -> 3600000 [] unit = "m" -> 60000
      [] unit = "s" -> 1000 [] unit = "ms" -> 1

(* n * factor, unchecked: a release build wraps around.                    *)
parse_duration(text) == (text.n * Scale(text.unit)) % Width

format_duration(ms) ==
    IF ms = 0 THEN [n |-> 0, unit |-> "s"]
    ELSE LET unit == CASE ms % 3600000 = 0 -> "h"
                       [] ms % 3600000 # 0 /\ ms % 60000 = 0 -> "m"
                       [] ms % 60000 # 0 /\ ms % 1000 = 0 -> "s"
                       [] OTHER -> "ms"
         IN  [n |-> ms \div Scale(unit), unit |-> unit]

Kibi == 1024
SizeScale(unit) ==
    CASE unit = "TiB" -> Kibi * Kibi * Kibi * Kibi [] unit = "GiB" -> Kibi * Kibi * Kibi
      [] unit = "MiB" -> Kibi * Kibi [] unit = "KiB" -> Kibi [] unit = "B" -> 1

(* checked_mul: None when it does not fit.                                 *)
parse_size(text) ==
    LET bytes == text.n * SizeScale(text.unit)
    IN  IF bytes < Width THEN Some(bytes) ELSE None

(* The largest unit that divides the size; `units` in falling order.       *)
format_size(bytes, units) ==
    LET exact == {i \in DOMAIN units : /\ bytes >= SizeScale(units[i])
                                       /\ bytes % SizeScale(units[i]) = 0}
        unit == IF exact = {} THEN "B"
                ELSE units[CHOOSE i \in exact : \A j \in exact : i <= j]
    IN  [n |-> bytes \div SizeScale(unit), unit |-> unit]

(* What a number is after save and load.  (The units from GiB on exceed    *)
(* the integers of the checked instance.)                                  *)
Reloaded(key, n) ==
    IF n < 0 THEN n
    ELSE IF key \in DurationKeys THEN parse_duration(format_duration(n))
    ELSE IF key \in SizeKeys THEN parse_size(format_size(n, <<"MiB", "KiB">>))[1]
    ELSE n

-----------------------------------------------------------------------------
(* What the daemon runs with *)

ServeDefault == [k \in DaemonKeys |->
    CASE k = "interval" -> 2000 [] k = "history" -> 300000 [] k = "detach" -> 1]

(* serve reads a process cadence of 0 as unset.                            *)
Effective(config, key) ==
    LET n == IF key \in CollectorKeys THEN collector_mut(config)[key] ELSE config.single[key]
        read == Reloaded(key, n)
    IN  IF key = "process-interval" /\ read = 0 THEN 10000
        ELSE IF key \in DaemonKeys /\ read = Unset THEN ServeDefault[key]
        ELSE read

-----------------------------------------------------------------------------
(* Properties *)

Actions(keys) ==
    [verb : {"add"}, key : keys, value : [name : {NoName} \cup Names, n : Inputs \cup {Junk}]]
    \cup [verb : {"remove"}, key : keys, value : [name : {NoName} \cup Names, n : {0}]]

Touches(action, key) == action.key = key /\ action.value.name = NoName

(* What a command says about a key, after the daemon has read the file.    *)
Asked(config, actions, key) ==
    LET about == {i \in DOMAIN actions : Touches(actions[i], key)}
        last == actions[CHOOSE i \in about : \A j \in about : j <= i]
    IN  IF about = {} \/ last.verb = "remove"
        THEN Effective(IF about = {} THEN config ELSE EmptyFile, key)
        ELSE IF key = "process-interval" /\ last.value.n = 0 THEN 10000
        ELSE last.value.n

(* A fresh file, and one with a [collector] section of its own.            *)
BaseFiles == {EmptyFile,
           [EmptyFile EXCEPT !.collector =
               Some([CollectorDefault EXCEPT !["process-boost"] = 0])]}

(* A command of two actions is saved whole or not at all; the daemon that  *)
(* reads the file back runs with what was added last, with the built-in    *)
(* value of what was removed, and with every other key as it was           *)
(* (src/settings.rs:277-524, src/bin/zstats/main.rs:145-240).              *)
Obeyed(config, actions) ==
    LET result == run_config_actions(config, actions)
    IN  result # None =>
          /\ \A key \in Keys : Effective(result[1], key) = Asked(config, actions, key)
          /\ \A i \in DOMAIN actions :
                actions[i].verb = "add" => Valid(actions[i].key, actions[i].value)

EveryCommandObeyed ==
    \A config \in BaseFiles, first \in Actions(Keys), second \in Actions(ThenKeys) :
        Obeyed(config, <<first, second>>)
=============================================================================
