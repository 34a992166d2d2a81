------------------------------ MODULE AlertSink ------------------------------
(***************************************************************************)
(* The daemon's alert sink (src/bin/zstats/alerts.rs): how it follows the  *)
(* two files its thresholds come from while they are being edited, the     *)
(* disk rule of the engine it drives (src/alerts.rs:1288-1320), and the    *)
(* delivery of notifications by a helper process that may hang.            *)
(*                                                                         *)
(* Of a config file the model keeps the disk bar it sets, of a template    *)
(* its identity.  The mtime clock is coarse: two edits may carry one tick. *)
(* The other rules of the engine are Pressure.tla and Episodes.tla, the    *)
(* records the sink appends Records.tla, the reading of the files          *)
(* Thresholds.tla and Settings.tla.                                        *)
(***************************************************************************)
EXTENDS Integers, FiniteSets

CONSTANTS Volumes,        \* mount points
          Levels,         \* how full a volume is
          Bars,           \* the disk thresholds a config file may set
          DefaultBar,     \* DEFAULT_DISK_FRACTION
          Margin,         \* DISK_REARM_MARGIN
          ReloadEvery,    \* RELOAD_CHECK_EVERY
          NotifyTimeout,  \* NOTIFY_TIMEOUT, in seconds
          SinkTimeout,    \* the scheduler's budget for one write
          MaxEdits,       \* bound: edits of the files
          MaxNow          \* bound: ticks of the mtime clock

ASSUME AlertSinkAssumption ==
    /\ Levels \subseteq Nat
    /\ Bars \subseteq Nat /\ DefaultBar \in Bars
    /\ Margin \in Nat
    /\ ReloadEvery \in Nat \ {0}
    /\ Margin < DefaultBar
    /\ NotifyTimeout \in Nat \ {0} /\ SinkTimeout \in Nat
    /\ NotifyTimeout < SinkTimeout
    /\ MaxEdits \in Nat /\ MaxNow \in Nat \ {0}

Files == {"config", "template"}

(* What a file can hold, besides the bar a config sets.  Empty is a file   *)
(* truncated by std::fs::write whose content has not been written yet.     *)
Missing == -1
Empty == -2
Bad == -3
AllOff == -4               \* a config that switches every rule off
Builtin == -5              \* the compiled-in template
Refreshed == -6            \* a template file
NotLoaded == -7
Written(f) == IF f = "config" THEN Bars \cup {AllOff} ELSE {Refreshed}

VARIABLES now,        \* the clock mtimes are taken from
          content,    \* the content of each file
          mtime,      \* its mtime; 0 when there is no file
          editing,    \* the files an editor has truncated and not written
          edits,      \* bound: edits made so far
          phase,      \* where the daemon is
          half,       \* what it has read of each file in a start or a reload
          active,     \* AlertSink.active: what the thresholds were built from
          rounds,     \* ReloadState.rounds_since_check
          last_mtime, \* ReloadState.last_mtime
          disarmed,   \* AlertEngine.disk_disarmed
          running,    \* the deliveries whose helper has not answered
          age,        \* seconds since the current write began to wait
          blind,      \* history: an edit the sink has no means to notice
          dip         \* history: the least usage since a volume was notified

fileVars == <<now, content, mtime, editing, edits>>
engineVars == <<disarmed, running, age, dip>>
vars == <<fileVars, phase, half, active, rounds, last_mtime, engineVars, blind>>

Starting == {"template", "stat"}
Reloading == {"reload config", "reload template"}
Waiting == "deliver"
Live == Reloading \cup {"idle", "evaluate", Waiting}

NoFiles == [f \in Files |-> NotLoaded]

Usable(f) == IF f = "config" THEN Bars \cup {AllOff} ELSE {Builtin, Refreshed}

TypeOK ==
    /\ now \in 1..MaxNow
    /\ content \in [Files -> Int]
    /\ \A f \in Files : content[f] \in {Missing, Empty, Bad} \cup Written(f)
    /\ mtime \in [Files -> 0..MaxNow]
    /\ editing \subseteq Files
    /\ edits \in 0..MaxEdits
    /\ phase \in Live \cup Starting \cup {"down", "absent"}
    /\ half \in [Files -> Int] /\ active \in [Files -> Int]
    /\ \A f \in Files : {half[f], active[f]} \subseteq Usable(f) \cup {NotLoaded}
    /\ phase = "template" => half["config"] # NotLoaded
    /\ phase = "stat" => \A f \in Files : half[f] # NotLoaded
    /\ phase \in Live => \A f \in Files : active[f] # NotLoaded
    /\ rounds \in 0..ReloadEvery - 1
    /\ last_mtime \in [Files -> 0..MaxNow]
    /\ disarmed \subseteq Volumes
    /\ running \subseteq disarmed
    /\ age \in 0..SinkTimeout
    /\ phase # Waiting => age = 0 /\ running = {}
    /\ blind \in BOOLEAN
    /\ dip \in [Volumes -> Levels \cup {0}]

Init ==
    /\ now = 1
    /\ content = [f \in Files |-> Missing] /\ mtime = [f \in Files |-> 0]
    /\ editing = {} /\ edits = 0
    /\ phase = "down"
    /\ half = NoFiles /\ active = NoFiles
    /\ rounds = 0 /\ last_mtime = [f \in Files |-> 0]
    /\ disarmed = {} /\ running = {} /\ age = 0
    /\ blind = FALSE
    /\ dip = [v \in Volumes |-> 0]

-----------------------------------------------------------------------------
(* Reading the files *)

(* settings::load: a missing file is an empty config, and so is the empty  *)
(* text of a file cut short.  settings::load_template: a missing file is   *)
(* the compiled-in template; an empty one lacks its version.               *)
Loads(f, text) == text \notin (IF f = "config" THEN {Bad} ELSE {Bad, Empty})

Loaded(f, text) ==
    IF text \in {Missing, Empty}
    THEN IF f = "config" THEN DefaultBar ELSE Builtin
    ELSE text

Loadable == \A f \in Files : Loads(f, content[f])
Current == [f \in Files |-> Loaded(f, content[f])]

-----------------------------------------------------------------------------
(* Whoever edits the files: settings::save, an editor, curl -o *)

(* History: the edit falls between the sink's reading of the file and its  *)
(* noting of the mtime, or carries the mtime already noted.                *)
Unnoticed(f, stamp) ==
    \/ phase = "stat"
    \/ phase = "template" /\ f = "config"
    \/ phase \in Live /\ stamp = last_mtime[f]

Edit(f, text, stamp) ==
    /\ content' = [content EXCEPT ![f] = text]
    /\ mtime' = [mtime EXCEPT ![f] = stamp]
    /\ blind' = (blind \/ Unnoticed(f, stamp))
    /\ UNCHANGED <<now, phase, half, active, rounds, last_mtime, engineVars>>

(* std::fs::write first truncates the file ...                             *)
Truncate(f) ==
    /\ edits < MaxEdits /\ edits' = edits + 1
    /\ editing' = editing \cup {f}
    /\ Edit(f, Empty, now)

(* ... and then writes it, unless the editor dies in between.              *)
WriteOut(f) ==
    /\ f \in editing /\ editing' = editing \ {f}
    /\ \E text \in Written(f) \cup {Bad} : Edit(f, text, now)
    /\ UNCHANGED edits

RemoveFile(f) ==
    /\ content[f] # Missing /\ f \notin editing
    /\ edits < MaxEdits /\ edits' = edits + 1
    /\ Edit(f, Missing, 0)
    /\ UNCHANGED editing

Tick ==
    /\ now < MaxNow
    /\ now' = now + 1
    /\ UNCHANGED <<content, mtime, editing, edits, phase, half, active, rounds,
                   last_mtime, engineVars, blind>>

-----------------------------------------------------------------------------
(* zstats serve *)

(* A file that does not load ends the process.                             *)
Read(f, next) ==
    IF Loads(f, content[f])
    THEN half' = [half EXCEPT ![f] = Loaded(f, content[f])] /\ phase' = next
    ELSE half' = NoFiles /\ phase' = "down"

Serve_load ==
    /\ phase = "down"
    /\ Read("config", "template")
    /\ blind' = FALSE
    /\ UNCHANGED <<fileVars, active, rounds, last_mtime, engineVars>>

Serve_template ==
    /\ phase = "template"
    /\ Read("template", "stat")
    /\ UNCHANGED <<fileVars, active, rounds, last_mtime, engineVars, blind>>

(* from_config, and the sink is installed if any rule is enabled.          *)
Serve_from_config ==
    /\ phase = "stat"
    /\ active' = half /\ half' = NoFiles
    /\ last_mtime' = mtime
    /\ rounds' = 0
    /\ phase' = IF active'["config"] = AllOff THEN "absent" ELSE "idle"
    /\ UNCHANGED <<fileVars, engineVars, blind>>

(* The daemon stops or dies: helpers are not waited for, and the next one  *)
(* starts with an engine that remembers nothing.                           *)
Exit ==
    /\ phase # "down" /\ phase' = "down"
    /\ half' = NoFiles /\ active' = NoFiles
    /\ rounds' = 0 /\ last_mtime' = [f \in Files |-> 0]
    /\ disarmed' = {} /\ running' = {} /\ age' = 0
    /\ dip' = [v \in Volumes |-> 0]
    /\ blind' = FALSE
    /\ UNCHANGED fileVars

-----------------------------------------------------------------------------
(* AlertSink::write *)

(* Mutant: the mtimes are noted only after the files have been read.       *)
NoteAfterLoading == last_mtime' = IF phase = "reload template" THEN mtime ELSE last_mtime

Note == last_mtime' = IF phase = "idle" THEN mtime ELSE last_mtime

(* The first half of maybe_reload: one round in ReloadEvery looks at the   *)
(* mtimes, and notes them before it reads the files.                       *)
Write ==
    /\ phase = "idle"
    /\ rounds' = (rounds + 1) % ReloadEvery
    /\ \/ /\ rounds' # 0 \/ mtime = last_mtime
          /\ phase' = "evaluate"
          /\ UNCHANGED <<last_mtime, blind>>
       \/ /\ rounds' = 0 /\ mtime # last_mtime
          /\ phase' = "reload config"
          /\ Note
          /\ blind' = FALSE
    /\ UNCHANGED <<fileVars, half, active, engineVars>>

Reload_config ==
    /\ phase = "reload config" /\ phase' = "reload template"
    /\ half' = IF Loads("config", content["config"])
               THEN [half EXCEPT !["config"] = Loaded("config", content["config"])]
               ELSE half
    /\ Note
    /\ UNCHANGED <<fileVars, active, rounds, engineVars, blind>>

(* Both files must have loaded before either is applied.                   *)
Reload_template ==
    LET text == content["template"]
        both == half["config"] # NotLoaded /\ Loads("template", text)
    IN
    /\ phase = "reload template" /\ phase' = "evaluate"
    /\ active' = IF both THEN [half EXCEPT !["template"] = Loaded("template", text)] ELSE active
    /\ half' = NoFiles
    /\ Note
    /\ UNCHANGED <<fileVars, rounds, engineVars, blind>>

(* Mutant: hysteresis without a margin.                                    *)
RearmsAtTheBar(used, bar) == used < bar

Rearms(used, bar) == used + Margin < bar

(* The disk rule over the volumes of one snapshot: `used` has those of     *)
(* them whose size is not zero.  With the rule off only the volumes that   *)
(* are gone are forgotten.                                                 *)
DiskRule(present, used) ==
    LET bar == active["config"]
        known == disarmed \cap present
        sized == IF bar = AllOff THEN {} ELSE DOMAIN used
        rearmed == {v \in sized \cap known : Rearms(used[v], bar)}
        told == {v \in sized \ known : used[v] >= bar}
    IN
    /\ disarmed' = (known \ rearmed) \cup told
    /\ running' = told
    /\ dip' = [v \in Volumes |->
                  CASE v \in told -> used[v]
                    [] v \notin present -> 0
                    [] v \in DOMAIN used /\ used[v] < dip[v] -> used[v]
                    [] OTHER -> dip[v]]

(* evaluate, and a task per event, without an await in between.            *)
Evaluate ==
    /\ phase = "evaluate" /\ phase' = Waiting
    /\ \/ \E present \in SUBSET Volumes : \E sized \in SUBSET present :
             \E used \in [sized -> Levels] : DiskRule(present, used)
       \/ UNCHANGED <<disarmed, running, dip>>     \* a snapshot without disks
    /\ UNCHANGED <<fileVars, half, active, rounds, last_mtime, age, blind>>

(* The helper accepts, refuses or cannot be run.                           *)
Answered(v) ==
    /\ phase = Waiting /\ v \in running
    /\ running' = running \ {v}
    /\ UNCHANGED <<fileVars, phase, half, active, rounds, last_mtime, disarmed, age,
                   blind, dip>>

(* Mutant: the notifications are sent one after another, each with its own *)
(* timeout.                                                                *)
OneTimesOut(t) ==
    IF t % NotifyTimeout = 0 THEN {CHOOSE v \in running : TRUE} ELSE {}

(* The helpers whose timeout is reached: all of a batch were started       *)
(* together.                                                               *)
TimesOut(t) == IF t >= NotifyTimeout THEN running ELSE {}

(* One second passes; a timer that is due fires before the next one.       *)
Second ==
    /\ phase = Waiting /\ running # {}
    /\ age < SinkTimeout
    /\ age' = age + 1
    /\ running' = running \ TimesOut(age + 1)
    /\ UNCHANGED <<fileVars, phase, half, active, rounds, last_mtime, disarmed, blind, dip>>

(* Every delivery has been awaited; the records are appended and write     *)
(* returns.                                                                *)
Done ==
    /\ phase = Waiting /\ running = {}
    /\ phase' = "idle" /\ age' = 0
    /\ UNCHANGED <<fileVars, half, active, rounds, last_mtime, disarmed, running,
                   blind, dip>>

-----------------------------------------------------------------------------
Sink == Write \/ Reload_config \/ Reload_template \/ Evaluate \/ Second \/ Done

Next ==
    \/ \E f \in Files : Truncate(f) \/ WriteOut(f) \/ RemoveFile(f)
    \/ Tick
    \/ Serve_load \/ Serve_template \/ Serve_from_config \/ Exit
    \/ Sink
    \/ \E v \in Volumes : Answered(v)

(* Rounds go on (Scheduler.tla) and a write's own steps are not held up;   *)
(* nothing is assumed of the editors, the helpers or the one who starts    *)
(* and stops the daemon.                                                   *)
Spec == Init /\ [][Next]_vars /\ WF_vars(Sink)

-----------------------------------------------------------------------------
(* Properties *)

(* Once the files are left alone, a running sink comes to apply what they  *)
(* say (src/bin/zstats/alerts.rs:85-120) -- unless they do not parse, or   *)
(* the last edit fell into the start-up window or shares its mtime with an *)
(* edit already seen: the mtimes are noted before the files are read, so   *)
(* an edit under way during a reload is never lost.                        *)
Follows == <>[](phase \notin Live \/ ~Loadable \/ blind \/ active = Current)

(* However many volumes alert at once and however the helper hangs, a      *)
(* write waits no longer than one helper timeout and is not cut off by the *)
(* scheduler (src/bin/zstats/alerts.rs:217-235).                           *)
WithinBudget == age <= NotifyTimeout /\ age < SinkTimeout

(* A volume is notified again, in the life of one engine, only after it    *)
(* was gone or had dropped below the highest bar by more than the margin   *)
(* since the last time -- across hot reloads that move the bar or switch   *)
(* the rule off in between (src/alerts.rs:1288-1320).                      *)
CrossingOnce ==
    [][\A v \in running' \ running :
          \E bar \in Bars : dip[v] + Margin < bar]_vars
=============================================================================
