--------------------------- MODULE AlertSinkProofs ---------------------------
(***************************************************************************)
(* What holds of the alert sink for every set of volumes, levels and bars, *)
(* every margin, reload cadence and timeout that satisfy                   *)
(* AlertSinkAssumption: its type, that a write waits for one helper        *)
(* timeout at most, and that a volume is notified once per crossing; and   *)
(* of the bars and the settings it runs with, for every set of names,      *)
(* override keys, percentages, memory sizes and values.  That the sink     *)
(* comes to follow its files is liveness and stays with TLC.               *)
(***************************************************************************)
EXTENDS MCAlertSink, SumProofs

-----------------------------------------------------------------------------
(* What a file that loads amounts to can be used as its kind is used.      *)
LEMMA LoadedIsUsable ==
    ASSUME NEW f \in Files, NEW text \in {Missing, Empty, Bad} \cup Written(f),
           Loads(f, text)
    PROVE  /\ Loaded(f, text) \in Usable(f)
           /\ Loaded(f, text) \in Int
           /\ Loaded(f, text) # NotLoaded
<1>1. CASE f = "config"
    BY <1>1, AlertSinkAssumption DEF AlertSinkAssumption, Loads, Loaded, Written, Usable,
       Missing, Empty, Bad, AllOff, Builtin, Refreshed, NotLoaded
<1>2. CASE f = "template"
    BY <1>2, AlertSinkAssumption DEF AlertSinkAssumption, Loads, Loaded, Written, Usable,
       Missing, Empty, Bad, AllOff, Builtin, Refreshed, NotLoaded
<1> QED BY <1>1, <1>2 DEF Files

(* An edit of a file keeps the types of the two it concerns.               *)
LEMMA EditKeepsType ==
    ASSUME TypeOK, NEW f \in Files, NEW stamp \in 0..MaxNow,
           NEW text \in {Missing, Empty, Bad} \cup Written(f),
           editing' \subseteq Files, edits' \in 0..MaxEdits,
           Edit(f, text, stamp)
    PROVE  TypeOK'
<1>1. text \in Int
    BY AlertSinkAssumption DEF AlertSinkAssumption, Written, Missing, Empty, Bad,
       AllOff, Refreshed
<1>2. /\ content' \in [Files -> Int]
      /\ \A g \in Files : content'[g] \in {Missing, Empty, Bad} \cup Written(g)
      /\ mtime' \in [Files -> 0..MaxNow]
    BY <1>1 DEF TypeOK, Edit
<1>3. blind' \in BOOLEAN
    BY DEF Edit, TypeOK, Unnoticed
<1>4. UNCHANGED <<now, phase, half, active, rounds, last_mtime, disarmed, running, age, dip>>
    BY DEF Edit, engineVars
<1> QED BY <1>2, <1>3, <1>4 DEF TypeOK, Live, Waiting

(* The disk rule remembers and notifies volumes, each told one remembered. *)
LEMMA DiskRuleType ==
    ASSUME TypeOK, NEW present \in SUBSET Volumes, NEW sized \in SUBSET present,
           NEW used \in [sized -> Levels], DiskRule(present, used)
    PROVE  /\ disarmed' \subseteq Volumes
           /\ running' \subseteq disarmed'
           /\ dip' \in [Volumes -> Levels \cup {0}]
<1> DEFINE told == {v \in (IF active["config"] = AllOff THEN {} ELSE DOMAIN used)
                              \ (disarmed \cap present) : used[v] >= active["config"]}
<1>1. DOMAIN used = sized /\ \A v \in sized : used[v] \in Levels
    OBVIOUS
<1>2. told \subseteq sized
    BY <1>1
<1>3. running' = told
    BY DEF DiskRule
<1>4. disarmed' \subseteq (disarmed \cup told) /\ told \subseteq disarmed'
    BY DEF DiskRule
<1>5. disarmed \subseteq Volumes /\ dip \in [Volumes -> Levels \cup {0}]
    BY DEF TypeOK
<1>6. dip' = [v \in Volumes |->
                CASE v \in told -> used[v]
                  [] v \notin present -> 0
                  [] v \in DOMAIN used /\ used[v] < dip[v] -> used[v]
                  [] OTHER -> dip[v]]
    BY DEF DiskRule
<1> HIDE DEF told
<1>7. dip' \in [Volumes -> Levels \cup {0}]
    BY <1>1, <1>2, <1>5, <1>6
<1> QED BY <1>2, <1>3, <1>4, <1>5, <1>7

(* Before anything is read, nothing is loaded.                             *)
LEMMA NoFilesType == NoFiles \in [Files -> Int] /\ \A f \in Files : NoFiles[f] = NotLoaded
<1>1. NotLoaded \in Int
    BY DEF NotLoaded
<1> QED BY <1>1 DEF NoFiles

LEMMA InitType == Init => TypeOK
<1> SUFFICES ASSUME Init PROVE TypeOK
    OBVIOUS
<1>1. content \in [Files -> Int] /\ half \in [Files -> Int] /\ active \in [Files -> Int]
    BY DEF Init, NoFiles, Missing, NotLoaded
<1>2. \A f \in Files : content[f] = Missing /\ half[f] = NotLoaded /\ active[f] = NotLoaded
    BY DEF Init, NoFiles
<1>3. mtime \in [Files -> 0..MaxNow] /\ last_mtime \in [Files -> 0..MaxNow]
    BY AlertSinkAssumption DEF AlertSinkAssumption, Init
<1>4. now \in 1..MaxNow /\ edits \in 0..MaxEdits /\ rounds \in 0..ReloadEvery - 1
      /\ age \in 0..SinkTimeout
    BY AlertSinkAssumption DEF AlertSinkAssumption, Init
<1> QED BY <1>1, <1>2, <1>3, <1>4 DEF Init, TypeOK, Live, Starting, Reloading, Waiting

\* The parts of the type: what the editors move, what the engine moves, what
\* has been read.
FilesTyped ==
    /\ now \in 1..MaxNow
    /\ content \in [Files -> Int]
    /\ \A f \in Files : content[f] \in {Missing, Empty, Bad} \cup Written(f)
    /\ mtime \in [Files -> 0..MaxNow]
    /\ editing \subseteq Files
    /\ edits \in 0..MaxEdits

EngineTyped ==
    /\ disarmed \subseteq Volumes
    /\ running \subseteq disarmed
    /\ age \in 0..SinkTimeout
    /\ blind \in BOOLEAN
    /\ dip \in [Volumes -> Levels \cup {0}]

ReadTyped ==
    /\ half \in [Files -> Int] /\ active \in [Files -> Int]
    /\ \A f \in Files : {half[f], active[f]} \subseteq Usable(f) \cup {NotLoaded}
    /\ rounds \in 0..ReloadEvery - 1
    /\ last_mtime \in [Files -> 0..MaxNow]

PhaseTyped ==
    /\ phase \in Live \cup Starting \cup {"down", "absent"}
    /\ phase = "template" => half["config"] # NotLoaded
    /\ phase = "stat" => \A f \in Files : half[f] # NotLoaded
    /\ phase \in Live => \A f \in Files : active[f] # NotLoaded
    /\ phase # Waiting => age = 0 /\ running = {}

LEMMA TypeParts == TypeOK' <=> FilesTyped' /\ EngineTyped' /\ ReadTyped' /\ PhaseTyped'
BY DEF TypeOK, FilesTyped, EngineTyped, ReadTyped, PhaseTyped

LEMMA FilesKept == TypeOK /\ UNCHANGED fileVars => FilesTyped'
BY DEF TypeOK, FilesTyped, fileVars

LEMMA EngineKept == TypeOK /\ UNCHANGED <<engineVars, blind>> => EngineTyped'
BY DEF TypeOK, EngineTyped, engineVars

LEMMA StepType == TypeOK /\ [Next]_vars => TypeOK'
<1> SUFFICES ASSUME TypeOK, [Next]_vars PROVE TypeOK'
    OBVIOUS
<1> USE AlertSinkAssumption DEF AlertSinkAssumption
<1>0. "config" \in Files /\ "template" \in Files /\ Live \cap Starting = {}
      /\ Live = {"reload config", "reload template", "idle", "evaluate", "deliver"}
      /\ Starting = {"template", "stat"}
    BY DEF Files, Live, Starting, Reloading, Waiting
<1>1. ASSUME NEW f \in Files, Truncate(f) PROVE TypeOK'
    <2>1. now \in 0..MaxNow /\ editing' \subseteq Files /\ edits' \in 0..MaxEdits
        BY <1>1 DEF Truncate, TypeOK
    <2> QED BY <1>1, <2>1, EditKeepsType DEF Truncate
<1>2. ASSUME NEW f \in Files, WriteOut(f) PROVE TypeOK'
    <2>1. now \in 0..MaxNow /\ editing' \subseteq Files /\ edits' \in 0..MaxEdits
        BY <1>2 DEF WriteOut, TypeOK
    <2>2. PICK text \in Written(f) \cup {Bad} : Edit(f, text, now)
        BY <1>2 DEF WriteOut
    <2> QED BY <2>1, <2>2, EditKeepsType
<1>3. ASSUME NEW f \in Files, RemoveFile(f) PROVE TypeOK'
    <2>1. 0 \in 0..MaxNow /\ editing' \subseteq Files /\ edits' \in 0..MaxEdits
        BY <1>3 DEF RemoveFile, TypeOK
    <2> QED BY <1>3, <2>1, EditKeepsType DEF RemoveFile
<1>4. CASE Tick
    <2>1. now' \in 1..MaxNow
        BY <1>4 DEF Tick, TypeOK
    <2> QED BY <1>0, <1>4, <2>1 DEF Tick, TypeOK, engineVars, Waiting
<1>5. CASE Serve_load
    <2>1. CASE Loads("config", content["config"])
        <3>1. Loaded("config", content["config"]) \in Usable("config") \cap Int
              /\ Loaded("config", content["config"]) # NotLoaded
            BY <1>0, <2>1, LoadedIsUsable DEF TypeOK
        <3>2. half' = [half EXCEPT !["config"] = Loaded("config", content["config"])]
              /\ phase' = "template"
            BY <1>5, <2>1 DEF Serve_load, Read
        <3> QED BY <1>0, <1>5, <3>1, <3>2 DEF Serve_load, TypeOK, fileVars, engineVars, Waiting
    <2>2. CASE ~Loads("config", content["config"])
        <3>1. half' = NoFiles /\ phase' = "down"
            BY <1>5, <2>2 DEF Serve_load, Read
        <3> QED BY <1>0, <1>5, <3>1, NoFilesType DEF Serve_load, TypeOK, fileVars, engineVars,
                   Waiting
    <2> QED BY <2>1, <2>2
<1>6. CASE Serve_template
    <2>1. CASE Loads("template", content["template"])
        <3>1. Loaded("template", content["template"]) \in Usable("template") \cap Int
              /\ Loaded("template", content["template"]) # NotLoaded
            BY <1>0, <2>1, LoadedIsUsable DEF TypeOK
        <3>2. half' = [half EXCEPT !["template"] = Loaded("template", content["template"])]
              /\ phase' = "stat"
            BY <1>6, <2>1 DEF Serve_template, Read
        <3>3. half["config"] # NotLoaded
            BY <1>6 DEF Serve_template, TypeOK
        <3> QED BY <1>0, <1>6, <3>1, <3>2, <3>3 DEF Serve_template, TypeOK, Files, fileVars,
                   engineVars, Waiting
    <2>2. CASE ~Loads("template", content["template"])
        <3>1. half' = NoFiles /\ phase' = "down"
            BY <1>6, <2>2 DEF Serve_template, Read
        <3> QED BY <1>0, <1>6, <3>1, NoFilesType DEF Serve_template, TypeOK, fileVars,
                   engineVars, Waiting
    <2> QED BY <2>1, <2>2
<1>7. CASE Serve_from_config
    <2>1. phase = "stat" /\ phase' \in {"absent", "idle"}
        BY <1>7 DEF Serve_from_config
    <2>2. active' \in [Files -> Int] /\ half' \in [Files -> Int] /\ rounds' \in 0..ReloadEvery - 1
        BY <1>7, NoFilesType DEF Serve_from_config, TypeOK
    <2>3. \A f \in Files : active'[f] # NotLoaded /\ active'[f] \in Usable(f) \cup {NotLoaded}
                           /\ half'[f] = NotLoaded
        BY <1>7, NoFilesType DEF Serve_from_config, TypeOK
    <2>4. UNCHANGED <<fileVars, engineVars, blind>> /\ last_mtime' = mtime
        BY <1>7 DEF Serve_from_config
    <2>5. ReadTyped'
        BY <2>2, <2>3, <2>4 DEF ReadTyped, TypeOK
    <2>6. PhaseTyped'
        BY <1>0, <2>1, <2>3, <2>4 DEF PhaseTyped, TypeOK, engineVars, Waiting
    <2> QED BY <2>4, <2>5, <2>6, TypeParts, FilesKept, EngineKept
<1>8. CASE Exit
    <2>1. 0 \in 0..ReloadEvery - 1 /\ 0 \in 0..SinkTimeout /\ 0 \in 0..MaxNow
        OBVIOUS
    <2>2. last_mtime' \in [Files -> 0..MaxNow] /\ dip' \in [Volumes -> Levels \cup {0}]
        BY <1>8, <2>1 DEF Exit
    <2> QED BY <1>0, <1>8, <2>1, <2>2, NoFilesType DEF Exit, TypeOK, fileVars, Waiting
<1>9. CASE Write
    <2>1. phase' \in {"evaluate", "reload config"} /\ phase = "idle"
        BY <1>9 DEF Write
    <2>2. last_mtime' \in [Files -> 0..MaxNow] /\ blind' \in BOOLEAN
        BY <1>9 DEF Write, Note, TypeOK
    <2>3. rounds' = (rounds + 1) % ReloadEvery
        BY <1>9 DEF Write
    <2>4. rounds + 1 \in Int
        BY DEF TypeOK
    <2>5. rounds' \in 0..ReloadEvery - 1
        BY ONLY <2>3, <2>4, AlertSinkAssumption DEF AlertSinkAssumption
    <2> QED BY <1>0, <1>9, <2>1, <2>2, <2>5 DEF Write, TypeOK, fileVars, engineVars, Waiting
<1>10. CASE Reload_config
    <2>1. half' \in [Files -> Int] /\ \A f \in Files : half'[f] \in Usable(f) \cup {NotLoaded}
        <3>1. CASE Loads("config", content["config"])
            <4>1. Loaded("config", content["config"]) \in Usable("config") \cap Int
                BY <1>0, <3>1, LoadedIsUsable DEF TypeOK
            <4> QED BY <1>10, <3>1, <4>1 DEF Reload_config, TypeOK
        <3>2. CASE ~Loads("config", content["config"])
            BY <1>10, <3>2 DEF Reload_config, TypeOK
        <3> QED BY <3>1, <3>2
    <2>2. last_mtime' \in [Files -> 0..MaxNow]
        BY <1>10 DEF Reload_config, Note, TypeOK
    <2>3. UNCHANGED <<fileVars, active, rounds, engineVars, blind>>
          /\ phase = "reload config" /\ phase' = "reload template"
        BY <1>10 DEF Reload_config
    <2>4. ReadTyped'
        BY <2>1, <2>2, <2>3 DEF ReadTyped, TypeOK
    <2>5. PhaseTyped'
        BY <1>0, <2>3 DEF PhaseTyped, TypeOK, engineVars, Waiting
    <2> QED BY <2>3, <2>4, <2>5, TypeParts, FilesKept, EngineKept
<1>11. CASE Reload_template
    <2> DEFINE text == content["template"]
               both == half["config"] # NotLoaded /\ Loads("template", text)
    <2>1. /\ active' \in [Files -> Int]
          /\ \A f \in Files : active'[f] # NotLoaded /\ active'[f] \in Usable(f) \cup {NotLoaded}
        <3>1. CASE both
            <4>1. Loaded("template", text) \in Usable("template") \cap Int
                  /\ Loaded("template", text) # NotLoaded
                BY <1>0, <3>1, LoadedIsUsable DEF TypeOK
            <4>2. active' = [half EXCEPT !["template"] = Loaded("template", text)]
                BY <1>11, <3>1 DEF Reload_template
            <4> QED BY <3>1, <4>1, <4>2 DEF TypeOK, Files
        <3>2. CASE ~both
            BY <1>0, <1>11, <3>2 DEF Reload_template, TypeOK
        <3> QED BY <3>1, <3>2
    <2>2. last_mtime' \in [Files -> 0..MaxNow] /\ phase = "reload template" /\ phase' = "evaluate"
        BY <1>11 DEF Reload_template, Note, TypeOK
    <2>3. half' \in [Files -> Int] /\ \A f \in Files : half'[f] = NotLoaded
        BY <1>11, NoFilesType DEF Reload_template
    <2>4. UNCHANGED <<fileVars, rounds, engineVars, blind>>
        BY <1>11 DEF Reload_template
    <2>5. ReadTyped'
        <3>1. rounds' \in 0..ReloadEvery - 1
            BY <2>4 DEF TypeOK
        <3>2. half' \in [Files -> Int]
              /\ \A f \in Files : {half'[f], active'[f]} \subseteq Usable(f) \cup {NotLoaded}
            BY ONLY <2>1, <2>3
        <3> QED BY ONLY <2>1, <2>2, <3>1, <3>2 DEF ReadTyped
    <2>6. PhaseTyped'
        BY <1>0, <2>1, <2>2, <2>4 DEF PhaseTyped, TypeOK, engineVars, Waiting
    <2> QED BY <2>4, <2>5, <2>6, TypeParts, FilesKept, EngineKept
<1>12. CASE Evaluate
    <2>1. /\ disarmed' \subseteq Volumes
          /\ running' \subseteq disarmed'
          /\ dip' \in [Volumes -> Levels \cup {0}]
        <3>1. CASE UNCHANGED <<disarmed, running, dip>>
            BY <3>1 DEF TypeOK
        <3>2. ASSUME NEW present \in SUBSET Volumes, NEW sized \in SUBSET present,
                     NEW used \in [sized -> Levels], DiskRule(present, used)
              PROVE  /\ disarmed' \subseteq Volumes
                     /\ running' \subseteq disarmed'
                     /\ dip' \in [Volumes -> Levels \cup {0}]
            BY <3>2, DiskRuleType
        <3> QED BY <1>12, <3>1, <3>2 DEF Evaluate
    <2>2. phase = "evaluate" /\ phase' = "deliver"
        BY <1>12 DEF Evaluate, Waiting
    <2> QED BY <1>0, <1>12, <2>1, <2>2 DEF Evaluate, TypeOK, fileVars, engineVars, Waiting
<1>13. ASSUME NEW v \in Volumes, Answered(v) PROVE TypeOK'
    <2>1. running' \subseteq disarmed
        BY <1>13 DEF Answered, TypeOK
    <2> QED BY <1>0, <1>13, <2>1 DEF Answered, TypeOK, fileVars, Waiting
<1>14. CASE Second
    <2>1. age' \in 0..SinkTimeout /\ running' \subseteq running
        BY <1>14 DEF Second, TypeOK
    <2> QED BY <1>0, <1>14, <2>1 DEF Second, TypeOK, fileVars, Waiting
<1>15. CASE Done
    <2>1. age' \in 0..SinkTimeout /\ phase' = "idle" /\ age' = 0 /\ running' = {}
        BY <1>15 DEF Done
    <2> QED BY <1>0, <1>15, <2>1 DEF Done, TypeOK, fileVars, Waiting
<1>16. CASE UNCHANGED vars
    BY <1>0, <1>16 DEF vars, fileVars, engineVars, TypeOK, Waiting
<1> QED BY <1>1, <1>2, <1>3, <1>4, <1>5, <1>6, <1>7, <1>8, <1>9, <1>10, <1>11, <1>12,
           <1>13, <1>14, <1>15, <1>16 DEF Next, Sink

(* The files, what was read of them and the engine keep their types.       *)
THEOREM AlertSinkType == Spec => []TypeOK
<1> QED BY InitType, StepType, PTL DEF Spec

-----------------------------------------------------------------------------
(* A write with helpers still running has waited less than their timeout.  *)
Budget == age \in 0..NotifyTimeout /\ (running # {} => age < NotifyTimeout)

LEMMA StepBudget == TypeOK /\ Budget /\ [Next]_vars => Budget'
<1> SUFFICES ASSUME TypeOK, Budget, [Next]_vars PROVE Budget'
    OBVIOUS
<1> USE AlertSinkAssumption DEF AlertSinkAssumption, Budget
<1>1. CASE UNCHANGED <<running, age>>
    BY <1>1
<1>2. CASE Exit
    BY <1>2 DEF Exit
<1>3. CASE Evaluate
    <2>1. age = 0
        BY <1>3 DEF Evaluate, TypeOK, Waiting
    <2> QED BY <1>3, <2>1 DEF Evaluate
<1>4. ASSUME NEW v \in Volumes, Answered(v) PROVE Budget'
    BY <1>4 DEF Answered
<1>5. CASE Second
    <2>1. age \in Nat /\ age < NotifyTimeout /\ age' = age + 1
        BY <1>5 DEF Second
    <2>2. CASE age + 1 >= NotifyTimeout
        BY <1>5, <2>1, <2>2 DEF Second, TimesOut
    <2>3. CASE age + 1 < NotifyTimeout
        BY <2>1, <2>3
    <2> QED BY <2>1, <2>2, <2>3
<1>6. CASE Done
    BY <1>6 DEF Done
<1> QED BY <1>1, <1>2, <1>3, <1>4, <1>5, <1>6
    DEF Next, Sink, Truncate, WriteOut, RemoveFile, Edit, Tick, Serve_load, Serve_template,
        Serve_from_config, Write, Reload_config, Reload_template, vars, fileVars, engineVars

(* For any number of volumes alerting at once, and whatever the helpers    *)
(* do, AlertSink::write returns within one helper timeout.                 *)
THEOREM AlertSinkBudget == Spec => []WithinBudget
<1>1. Init => Budget
    BY AlertSinkAssumption DEF AlertSinkAssumption, Init, Budget
<1>2. Budget => WithinBudget
    BY AlertSinkAssumption DEF AlertSinkAssumption, Budget, WithinBudget
<1> QED BY <1>1, <1>2, StepBudget, AlertSinkType, PTL DEF Spec

-----------------------------------------------------------------------------
(* A volume the engine is ready to notify has been below the highest bar   *)
(* by more than the margin since it was last notified.                     *)
Recovered == \A v \in Volumes \ disarmed : \E bar \in Bars : dip[v] + Margin < bar

(* What is below a bar by more than the margin stays so when it is lower.  *)
LEMMA LowerRecovers ==
    ASSUME NEW low \in Nat, NEW high \in Nat, low <= high,
           \E bar \in Bars : high + Margin < bar
    PROVE  \E bar \in Bars : low + Margin < bar
<1>1. PICK bar \in Bars : high + Margin < bar
    OBVIOUS
<1>2. low + Margin < bar
    BY <1>1, AlertSinkAssumption DEF AlertSinkAssumption
<1> QED BY <1>2

(* The disk rule re-arms only what has recovered, and notifies only what   *)
(* was armed.                                                              *)
LEMMA DiskRuleRecovers ==
    ASSUME TypeOK, phase \in Live, Recovered,
           NEW present \in SUBSET Volumes, NEW sized \in SUBSET present,
           NEW used \in [sized -> Levels], DiskRule(present, used)
    PROVE  /\ Recovered'
           /\ running' \subseteq Volumes \ disarmed
<1> DEFINE bar == active["config"]
           known == disarmed \cap present
           over == IF bar = AllOff THEN {} ELSE DOMAIN used
           rearmed == {v \in over \cap known : Rearms(used[v], bar)}
           told == {v \in over \ known : used[v] >= bar}
<1>1. /\ disarmed' = (known \ rearmed) \cup told
      /\ running' = told
      /\ dip' = [v \in Volumes |->
                   CASE v \in told -> used[v]
                     [] v \notin present -> 0
                     [] v \in DOMAIN used /\ used[v] < dip[v] -> used[v]
                     [] OTHER -> dip[v]]
    BY DEF DiskRule
<1>2. /\ DOMAIN used = sized /\ \A v \in sized : used[v] \in Nat
      /\ \A v \in Volumes : dip[v] \in Nat
      /\ sized \subseteq Volumes
    <2>1. DOMAIN used = sized /\ \A v \in sized : used[v] \in Levels
        OBVIOUS
    <2>2. \A v \in Volumes : dip[v] \in Levels \cup {0}
        BY DEF TypeOK
    <2>3. \A n \in Levels \cup {0} : n \in Nat
        BY AlertSinkAssumption DEF AlertSinkAssumption
    <2> QED BY <2>1, <2>2, <2>3
<1>3. bar = AllOff \/ bar \in Bars
    BY DEF TypeOK, Usable, Files
<1>4. over \subseteq sized /\ told \subseteq sized \ known /\ rearmed \subseteq known
    BY <1>2
<1>5. \A v \in rearmed : bar \in Bars /\ used[v] + Margin < bar
    BY <1>3 DEF Rearms
<1>9. rearmed \subseteq over
    OBVIOUS
<1> HIDE DEF over, told, rearmed
<1>6. told \subseteq Volumes \ disarmed
    BY <1>2, <1>4
<1>7. ASSUME NEW v \in Volumes \ disarmed'
      PROVE  \E b \in Bars : dip'[v] + Margin < b
    <2>1. v \notin told /\ v \notin known \ rearmed
        BY <1>1
    <2>2. dip'[v] = IF v \notin present THEN 0
                    ELSE IF v \in DOMAIN used /\ used[v] < dip[v] THEN used[v] ELSE dip[v]
        BY <1>1, <2>1
    <2>3. CASE v \notin present
        <3>1. dip'[v] = 0
            BY <2>2, <2>3
        <3>2. DefaultBar \in Bars /\ dip'[v] + Margin < DefaultBar
            BY <3>1, AlertSinkAssumption DEF AlertSinkAssumption
        <3> QED BY <3>2
    <2>4. CASE v \in rearmed
        <3>1. v \in present /\ v \in DOMAIN used
            BY <1>2, <1>4, <1>9, <2>4
        <3>2. dip'[v] \in Nat /\ used[v] \in Nat /\ dip'[v] <= used[v]
            BY <1>2, <2>2, <3>1
        <3>3. \E b \in Bars : used[v] + Margin < b
            BY <1>5, <2>4
        <3> QED BY <3>2, <3>3, LowerRecovers
    <2>5. CASE v \in present /\ v \notin disarmed
        <3>1. dip'[v] \in Nat /\ dip[v] \in Nat /\ dip'[v] <= dip[v]
            BY <1>2, <2>2, <2>5
        <3>2. \E b \in Bars : dip[v] + Margin < b
            BY <2>5 DEF Recovered
        <3> QED BY <3>1, <3>2, LowerRecovers
    <2> QED BY <2>1, <2>3, <2>4, <2>5
<1>8. Recovered'
    BY <1>7 DEF Recovered
<1> QED BY <1>1, <1>6, <1>8

(* Every step keeps Recovered, and starts deliveries for armed volumes     *)
(* only.                                                                   *)
LEMMA StepRecovered ==
    TypeOK /\ Recovered /\ [Next]_vars =>
        Recovered' /\ running' \subseteq running \cup (Volumes \ disarmed)
<1> SUFFICES ASSUME TypeOK, Recovered, [Next]_vars
             PROVE  Recovered' /\ running' \subseteq running \cup (Volumes \ disarmed)
    OBVIOUS
<1>1. CASE UNCHANGED <<disarmed, dip>> /\ running' \subseteq running
    BY <1>1 DEF Recovered
<1>2. CASE Exit
    <2>1. DefaultBar \in Bars /\ 0 + Margin < DefaultBar
        BY AlertSinkAssumption DEF AlertSinkAssumption
    <2>2. running' = {} /\ \A v \in Volumes : dip'[v] = 0
        BY <1>2 DEF Exit
    <2> QED BY <2>1, <2>2 DEF Recovered
<1>3. CASE Evaluate
    <2>1. phase \in Live
        BY <1>3 DEF Evaluate, Live
    <2>2. CASE UNCHANGED <<disarmed, running, dip>>
        BY <2>2 DEF Recovered
    <2>3. ASSUME NEW present \in SUBSET Volumes, NEW sized \in SUBSET present,
                 NEW used \in [sized -> Levels], DiskRule(present, used)
          PROVE  Recovered' /\ running' \subseteq running \cup (Volumes \ disarmed)
        BY <2>1, <2>3, DiskRuleRecovers
    <2> QED BY <1>3, <2>2, <2>3 DEF Evaluate
<1>4. ASSUME NEW v \in Volumes, Answered(v)
      PROVE  UNCHANGED <<disarmed, dip>> /\ running' \subseteq running
    BY <1>4 DEF Answered
<1>5. CASE Second
    BY <1>1, <1>5 DEF Second
<1>6. CASE Done
    BY <1>1, <1>6 DEF Done
<1> QED BY <1>1, <1>2, <1>3, <1>4, <1>5, <1>6
    DEF Next, Sink, Truncate, WriteOut, RemoveFile, Edit, Tick, Serve_load, Serve_template,
        Serve_from_config, Write, Reload_config, Reload_template, vars, fileVars, engineVars

(* Whatever reloads do to the bar in between, a volume is notified again   *)
(* only after it was gone or dropped below the highest bar by more than    *)
(* the margin.                                                             *)
THEOREM AlertSinkCrossing == Spec => CrossingOnce
<1>1. Init => Recovered
    <2> SUFFICES ASSUME Init PROVE Recovered
        OBVIOUS
    <2>1. DefaultBar \in Bars /\ 0 + Margin < DefaultBar
        BY AlertSinkAssumption DEF AlertSinkAssumption
    <2>2. \A v \in Volumes : dip[v] = 0
        BY DEF Init
    <2> QED BY <2>1, <2>2 DEF Recovered
<1>2. TypeOK /\ TypeOK' /\ Recovered /\ [Next]_vars =>
         [\A v \in running' \ running : \E bar \in Bars : dip[v] + Margin < bar]_vars
    <2> SUFFICES ASSUME Recovered, TypeOK, [Next]_vars, NEW v \in running' \ running
                 PROVE  \E bar \in Bars : dip[v] + Margin < bar
        OBVIOUS
    <2>1. v \in Volumes \ disarmed
        BY StepRecovered
    <2> QED BY <2>1 DEF Recovered
<1> QED BY <1>1, <1>2, StepRecovered, AlertSinkType, PTL DEF Spec, CrossingOnce

-----------------------------------------------------------------------------
(* The bars.  Ranks compare as an order should, so among the entries that  *)
(* match there is always one to decide, however many there are; and no     *)
(* entry of a template decides where one of the user matches.              *)

\* The entries a rule is refined by.
Entry == [matcher : [literal : Seq(Nat), leading : BOOLEAN, trailing : BOOLEAN],
          user : BOOLEAN, value : Int]

\* The literal of a key is a sequence of letters, and its matcher a matcher.
LEMMA LiteralType ==
  ASSUME NEW key \in Seq(Nat)
  PROVE  Literal(key) \in Seq(Nat)
<1>1. AfterLeading(key) \in Seq(Nat)
  BY DEF AfterLeading, Leading
<1>2. \A s \in Seq(Nat) : s # <<>> => SubSeq(s, 1, Len(s) - 1) \in Seq(Nat)
  <2> SUFFICES ASSUME NEW s \in Seq(Nat), s # <<>> PROVE SubSeq(s, 1, Len(s) - 1) \in Seq(Nat)
    OBVIOUS
  <2>1. Len(s) - 1 \in Nat /\ \A i \in 1..Len(s) - 1 : s[i] \in Nat
    OBVIOUS
  <2> QED
    BY <2>1
<1> QED
  BY <1>1, <1>2 DEF Literal, Trailing

LEMMA MatcherType ==
  ASSUME NEW key \in Seq(Nat)
  PROVE  Matcher(key) \in [literal : Seq(Nat), leading : BOOLEAN, trailing : BOOLEAN]
<1>1. Leading(key) \in BOOLEAN /\ Trailing(key) \in BOOLEAN
  BY DEF Leading, Trailing
<1> QED
  BY <1>1, LiteralType DEF Matcher

\* Ranks are compared as they should: strictly, transitively, and what ranks
\* below another ranks below all that the other does not rank above.
LEMMA RanksOrdered ==
  ASSUME NEW a \in Entry, NEW b \in Entry, NEW c \in Entry
  PROVE  /\ ~Outranks(a, a)
         /\ Outranks(a, b) => ~Outranks(b, a)
         /\ Outranks(a, b) /\ ~Outranks(c, b) => Outranks(a, c)
<1>1. \A x \in Entry : Len(x.matcher.literal) \in Nat /\ x.user \in BOOLEAN
  BY DEF Entry
<1> DEFINE la == Len(a.matcher.literal) lb == Len(b.matcher.literal) lc == Len(c.matcher.literal)
<1>2. la \in Nat /\ lb \in Nat /\ lc \in Nat
  BY <1>1
<1> HIDE DEF la, lb, lc
<1>3. /\ Outranks(a, a) <=> la > la
      /\ Outranks(a, b) <=> \/ a.user /\ ~b.user
                            \/ /\ a.user = b.user
                               /\ \/ Exact(a.matcher) /\ ~Exact(b.matcher)
                                  \/ Exact(a.matcher) = Exact(b.matcher) /\ la > lb
      /\ Outranks(b, a) <=> \/ b.user /\ ~a.user
                            \/ /\ b.user = a.user
                               /\ \/ Exact(b.matcher) /\ ~Exact(a.matcher)
                                  \/ Exact(b.matcher) = Exact(a.matcher) /\ lb > la
      /\ Outranks(c, b) <=> \/ c.user /\ ~b.user
                            \/ /\ c.user = b.user
                               /\ \/ Exact(c.matcher) /\ ~Exact(b.matcher)
                                  \/ Exact(c.matcher) = Exact(b.matcher) /\ lc > lb
      /\ Outranks(a, c) <=> \/ a.user /\ ~c.user
                            \/ /\ a.user = c.user
                               /\ \/ Exact(a.matcher) /\ ~Exact(c.matcher)
                                  \/ Exact(a.matcher) = Exact(c.matcher) /\ la > lc
  BY DEF Outranks, la, lb, lc
<1>4. /\ a.user \in BOOLEAN /\ b.user \in BOOLEAN /\ c.user \in BOOLEAN
      /\ Exact(a.matcher) \in BOOLEAN /\ Exact(b.matcher) \in BOOLEAN /\ Exact(c.matcher) \in BOOLEAN
  BY <1>1 DEF Exact
<1> QED
  BY <1>2, <1>3, <1>4

\* Among the entries that match there is one that none outranks.
LEMMA TopExists ==
  ASSUME NEW t, NEW name, t.overrides \in Seq(Entry), Overridden(t, name)
  PROVE  \E i \in Matching(t, name) :
           \A j \in Matching(t, name) : ~Outranks(t.overrides[j], t.overrides[i])
<1> DEFINE M == Matching(t, name)
           o == t.overrides
           Best(n, i) == i \in M /\ \A j \in M : j <= n => ~Outranks(o[j], o[i])
           G == {n \in Nat : (\E i \in M : i <= n) => \E i : Best(n, i)}
<1>1. M \subseteq 1..Len(o) /\ M # {} /\ Len(o) \in Nat
  BY DEF Matching, Overridden
<1>2. \A i \in M : o[i] \in Entry /\ i \in Nat /\ 1 <= i
  BY <1>1
<1> HIDE DEF M, o
<1>3. 0 \in G
  BY <1>2
<1>4. ASSUME NEW n \in Nat, n \in G PROVE n + 1 \in G
  <2> SUFFICES ASSUME \E i \in M : i <= n + 1 PROVE \E i : Best(n + 1, i)
    OBVIOUS
  <2>1. \A j \in M : j <= n + 1 => j <= n \/ j = n + 1
    BY <1>2
  <2>2. CASE n + 1 \notin M
    <3>1. PICK i : Best(n, i)
      BY <1>4, <2>1, <2>2
    <3>2. Best(n + 1, i)
      BY <2>1, <2>2, <3>1
    <3> QED
      BY <3>2
  <2>3. CASE n + 1 \in M /\ \A j \in M : j <= n => ~Outranks(o[j], o[n + 1])
    <3>1. Best(n + 1, n + 1)
      <4>1. ~Outranks(o[n + 1], o[n + 1])
        BY <1>2, <2>3, RanksOrdered
      <4> QED
        BY <2>1, <2>3, <4>1
    <3> QED
      BY <3>1
  <2>4. CASE n + 1 \in M /\ \E j \in M : j <= n /\ Outranks(o[j], o[n + 1])
    <3>1. PICK j \in M : j <= n /\ Outranks(o[j], o[n + 1])
      BY <2>4
    <3>2. PICK i : Best(n, i)
      BY <1>4, <3>1
    <3>3. ~Outranks(o[j], o[i])
      BY <3>1, <3>2
    \* what outranks the entry before would be outranked by the best so far
    <3>4. ~Outranks(o[n + 1], o[i])
      <4>1. o[i] \in Entry /\ o[j] \in Entry /\ o[n + 1] \in Entry
        BY <1>2, <2>4, <3>1, <3>2
      <4>2. Outranks(o[n + 1], o[i]) /\ ~Outranks(o[j], o[i]) => Outranks(o[n + 1], o[j])
        BY <4>1, RanksOrdered
      <4>3. ~Outranks(o[n + 1], o[j])
        BY <3>1, <4>1, RanksOrdered
      <4> QED
        BY <3>3, <4>2, <4>3
    <3>5. Best(n + 1, i)
      BY <2>1, <3>2, <3>4
    <3> QED
      BY <3>5
  <2> QED
    BY <2>2, <2>3, <2>4
<1>5. Nat \subseteq G
  <2> HIDE DEF G
  <2> QED
    BY <1>3, <1>4, Inductive
<1>6. PICK i : Best(Len(o), i)
  BY <1>1, <1>2, <1>5
<1> QED
  BY <1>1, <1>2, <1>6 DEF M, o

\* The deciding entry matches, and none that matches outranks it.
LEMMA DecidingEntry ==
  ASSUME NEW t, NEW name, t.overrides \in Seq(Entry), Overridden(t, name)
  PROVE  /\ Deciding(t, name) \in Matching(t, name)
         /\ \A j \in Matching(t, name) :
              ~Outranks(t.overrides[j], t.overrides[Deciding(t, name)])
<1> DEFINE top == {i \in Matching(t, name) : \A j \in Matching(t, name) :
                     ~Outranks(t.overrides[j], t.overrides[i])}
<1>1. top # {} /\ top \subseteq Nat
  <2>1. top # {}
    BY TopExists
  <2>2. Matching(t, name) \subseteq 1..Len(t.overrides) /\ Len(t.overrides) \in Nat
    BY DEF Matching
  <2> QED
    BY <2>1, <2>2
<1>2. Deciding(t, name) = CHOOSE i \in top : \A j \in top : i <= j
  BY DEF Deciding
<1> HIDE DEF top
<1>3. \E i \in top : \A j \in top : i <= j
  BY <1>1, Smallest
<1>4. Deciding(t, name) \in top
  BY <1>2, <1>3
<1> QED
  BY <1>4 DEF top

(* However many entries there are, a user's entry that matches a name is   *)
(* not overruled by a template's: an entry of the user decides             *)
(* (rank and override_for, alerts.rs:856-943).                             *)
THEOREM UserEntryDecides ==
  ASSUME NEW t, NEW name, t.overrides \in Seq(Entry),
         NEW mine \in Matching(t, name), t.overrides[mine].user
  PROVE  t.overrides[Deciding(t, name)].user
<1>1. Overridden(t, name)
  BY DEF Overridden
<1>2. /\ Deciding(t, name) \in Matching(t, name)
      /\ ~Outranks(t.overrides[mine], t.overrides[Deciding(t, name)])
  BY <1>1, DecidingEntry
<1>3. t.overrides[Deciding(t, name)] \in Entry
  BY <1>2 DEF Matching
<1> QED
  BY <1>2, <1>3 DEF Outranks, Entry

\* What the bars are merged from in a situation.
LEMMA SituationType ==
  ASSUME NEW s \in Situations
  PROVE  /\ s.rule \in Rules /\ s.mine \in Overrides /\ s.theirs \in Overrides
         /\ s.pct \in Nat \cup {Unset} /\ s.bytes \in Nat \cup {Unset}
         /\ s.template \in BOOLEAN /\ s.total \in Nat
<1>1. /\ s.rule \in Rules /\ s.mine \in Overrides /\ s.theirs \in Overrides
      /\ s.pct \in Percents \cup {Unset} /\ s.bytes \in {Unset, 0} \cup Totals
      /\ s.template \in BOOLEAN /\ s.total \in Totals
  BY DEF Situations
<1>2. Percents \subseteq Nat /\ Totals \subseteq Nat
  BY ThresholdsAssumption DEF ThresholdsAssumption
<1>3. Percents \cup {Unset} \subseteq Nat \cup {Unset}
  BY <1>2
<1>4. {Unset, 0} \cup Totals \subseteq Nat \cup {Unset}
  BY <1>2 DEF Unset
<1> QED
  BY <1>1, <1>2, <1>3, <1>4

\* A default is a positive number or Off, and Off where the config says 0.
LEMMA DefaultType ==
  ASSUME NEW p \in Nat \cup {Unset}, NEW builtin \in Nat \ {0}
  PROVE  /\ Default(p, builtin) \in Nat \cup {Off}
         /\ Default(p, builtin) # 0
         /\ Default(0, builtin) = Off
  BY DEF Default, IfPositive, Unset, Off

\* The entries made of an override: none, or one that says what it says.
LEMMA EntriesType ==
  ASSUME NEW o \in Overrides, NEW user \in BOOLEAN
  PROVE  /\ Entries(o, user) \in Seq(Entry)
         /\ o = <<>> => Entries(o, user) = <<>>
         /\ o # <<>> => /\ Entries(o, user) =
                              <<[matcher |-> Matcher(o[1].key), user |-> user,
                                 value |-> IfPositive(o[1].pct)]>>
                        /\ o[1].pct \in Nat
<1>1. CASE o = <<>>
  BY <1>1 DEF Entries
<1>2. CASE o # <<>>
  <2>1. PICK k \in Patterns, p \in Percents : o = <<[key |-> k, pct |-> p]>>
    BY <1>2 DEF Overrides
  <2>2. k \in Seq(Nat) /\ p \in Nat
    BY ThresholdsAssumption DEF ThresholdsAssumption
  <2>3. IfPositive(p) \in Int
    BY <2>2 DEF IfPositive, Off
  <2>4. [matcher |-> Matcher(k), user |-> user, value |-> IfPositive(p)] \in Entry
    BY <2>2, <2>3, MatcherType DEF Entry
  <2>5. DOMAIN o = {1} /\ o[1].key = k /\ o[1].pct = p
    BY <2>1
  <2>6. Entries(o, user) = [i \in {1} |-> [matcher |-> Matcher(k), user |-> user, value |-> IfPositive(p)]]
    BY <2>5 DEF Entries
  <2> DEFINE e == [matcher |-> Matcher(k), user |-> user, value |-> IfPositive(p)]
  <2> HIDE DEF e
  <2>7. [i \in {1} |-> e] = <<e>>
    OBVIOUS
  <2>8. Entries(o, user) = <<e>> /\ e \in Entry
    BY <2>4, <2>6, <2>7 DEF e
  <2>9. Entries(o, user) \in Seq(Entry)
    BY <2>8
  <2>10. <<e>> = <<[matcher |-> Matcher(o[1].key), user |-> user,
                    value |-> IfPositive(o[1].pct)]>>
    BY <2>5 DEF e
  <2> QED
    BY <1>2, <2>2, <2>5, <2>8, <2>9, <2>10
<1> QED
  BY <1>1, <1>2

\* The rule a situation is about, once merged.
\* The bars of situation s, the rule it is about and the default of that.
IsMerged(s, merged, t, default) ==
  /\ s \in Situations
  /\ merged = ActiveIn(s)
  /\ t = merged.rule[s.rule]
  /\ default = Default(s.pct, Defaults.base[s.rule])

\* What the merging makes of the rule and of its ceiling.
LEMMA MergedRule ==
  ASSUME NEW s, NEW merged, NEW t, NEW default, IsMerged(s, merged, t, default)
  PROVE  /\ t.default = default
         /\ default \in Nat \cup {Off}
         /\ t.overrides = Entries(s.mine, TRUE) \o
               IF s.rule \in Templated /\ s.template /\ default # Off
                 THEN Entries(s.theirs, FALSE) ELSE <<>>
         /\ t.overrides \in Seq(Entry)
         /\ s.rule \in Ceilings =>
              merged.bytes[s.rule] =
                IF default = Off THEN Off ELSE Default(s.bytes, Defaults.bytes[s.rule])
<1>0. /\ s \in Situations
      /\ merged = ActiveIn(s)
      /\ t = merged.rule[s.rule]
      /\ default = Default(s.pct, Defaults.base[s.rule])
  BY DEF IsMerged
<1>1. s.rule \in Rules
  BY <1>0, SituationType
<1>2. default \in Nat \cup {Off}
  BY <1>0, <1>1, SituationType, DefaultType, ThresholdsAssumption DEF ThresholdsAssumption
<1>3. t = RuleOf([base |-> [r \in Rules |-> IF r = s.rule THEN s.pct ELSE 0],
                  overrides |-> [r \in Rules |-> IF r = s.rule THEN s.mine ELSE <<>>],
                  bytes |-> [r \in Ceilings |-> s.bytes],
                  pressure |-> Off, template |-> s.template],
                 [r \in Templated |-> s.theirs], s.rule)
  BY <1>0, <1>1 DEF ActiveIn, from_config_with_template
<1> DEFINE both == s.rule \in Templated /\ s.template /\ default # Off
           mine == Entries(s.mine, TRUE)
           theirs == Entries(s.theirs, FALSE)
           all == mine \o IF both THEN theirs ELSE <<>>
<1>4. t = [default |-> default, overrides |-> all]
  BY <1>0, <1>1, <1>3 DEF RuleOf, TemplateApplies
<1>5. s.rule \in Ceilings =>
        merged.bytes[s.rule] =
          IF default = Off THEN Off ELSE Default(s.bytes, Defaults.bytes[s.rule])
  BY <1>0, <1>1 DEF ActiveIn, from_config_with_template, CeilingOf, Ceilings, Rules
<1>6. all \in Seq(Entry)
  <2>1. mine \in Seq(Entry) /\ theirs \in Seq(Entry)
    BY <1>0, SituationType, EntriesType
  <2> HIDE DEF mine, theirs, both
  <2>2. (IF both THEN theirs ELSE <<>>) \in Seq(Entry)
    BY <2>1
  <2> QED
    BY <2>1, <2>2
<1> HIDE DEF all
<1>7. t.default = default /\ t.overrides = all
  BY <1>4
<1> QED
  BY <1>2, <1>5, <1>6, <1>7 DEF all

\* A name that no entry matches has no bar if its rule is off.
LEMMA PlainBar ==
  ASSUME NEW s, NEW merged, NEW t, NEW default, IsMerged(s, merged, t, default),
         ~Overridden(t, s.name), default = Off
  PROVE  Bar(merged, s.rule, s.name, s.total) = Off
<1>1. t.default = default
  BY MergedRule
<1>2. s.rule \in Ceilings => merged.bytes[s.rule] = Off
  BY MergedRule
<1>0. t = merged.rule[s.rule]
  BY DEF IsMerged
<1>3. CASE s.rule \in Ceilings
  BY <1>0, <1>1, <1>2, <1>3 DEF Bar, bar_bytes, base_bytes, Lower
<1>4. CASE s.rule \notin Ceilings
  BY <1>0, <1>1, <1>4 DEF Bar, for_process
<1> QED
  BY <1>3, <1>4

\* The user's override that matches gives the bar, alone.
LEMMA AskedBar ==
  ASSUME NEW s, NEW merged, NEW t, NEW default, IsMerged(s, merged, t, default),
         s.mine # <<>>, Matches(Matcher(s.mine[1].key), s.name)
  PROVE  Bar(merged, s.rule, s.name, s.total) = AskedFor(s)
<1> DEFINE e == [matcher |-> Matcher(s.mine[1].key), user |-> TRUE,
                 value |-> IfPositive(s.mine[1].pct)]
           theirs == Entries(s.theirs, FALSE)
           both == s.rule \in Templated /\ s.template /\ default # Off
<1>1. s \in Situations /\ t = merged.rule[s.rule]
  BY DEF IsMerged
<1>2. s.mine \in Overrides /\ s.theirs \in Overrides
  BY <1>1, SituationType
<1>3. Entries(s.mine, TRUE) = <<e>> /\ s.mine[1].pct \in Nat
  BY <1>2, EntriesType
<1>4. /\ theirs \in Seq(Entry)
      /\ \A i \in DOMAIN theirs : theirs[i].user = FALSE
  <2>1. theirs \in Seq(Entry)
    BY <1>2, EntriesType
  <2>2. \A i \in DOMAIN theirs : theirs[i].user = FALSE
    BY DEF Entries
  <2> QED
    BY <2>1, <2>2
<1>5. t.overrides = <<e>> \o IF both THEN theirs ELSE <<>>
  <2>1. t.overrides = Entries(s.mine, TRUE) \o IF both THEN theirs ELSE <<>>
    BY MergedRule
  <2> HIDE DEF e, theirs, both
  <2> QED
    BY <1>3, <2>1
<1>6. t.overrides \in Seq(Entry)
  BY MergedRule
<1> HIDE DEF e, theirs, both
<1>7. /\ 1 \in DOMAIN t.overrides /\ t.overrides[1] = e
      /\ \A i \in DOMAIN t.overrides : i # 1 => t.overrides[i].user = FALSE
  <2> DEFINE rest == IF both THEN theirs ELSE <<>>
  <2>1. rest \in Seq(Entry) /\ \A i \in DOMAIN rest : rest[i].user = FALSE
    BY <1>4
  <2>2. t.overrides = <<e>> \o rest
    BY <1>5
  <2> HIDE DEF rest
  <2>3. Len(t.overrides) = 1 + Len(rest) /\ Len(rest) \in Nat /\ t.overrides[1] = e
        /\ DOMAIN t.overrides = 1..Len(t.overrides)
    <3>1. Len(<<e>>) = 1 /\ <<e>>[1] = e /\ <<e>> \in Seq({e}) /\ rest \in Seq(Entry \cup {e})
      BY <2>1
    <3>2. <<e>> \in Seq(Entry \cup {e})
      OBVIOUS
    <3> QED
      BY <1>6, <2>2, <3>1, <3>2
  <2>4. ASSUME NEW i \in DOMAIN t.overrides, i # 1 PROVE t.overrides[i].user = FALSE
    <3>1. i - 1 \in 1..Len(rest) /\ i \in Nat
      BY <2>3, <2>4
    <3>2. t.overrides[i] = rest[i - 1]
      BY <2>1, <2>2, <3>1
    <3> QED
      BY <2>1, <3>1, <3>2
  <2>5. 1 \in DOMAIN t.overrides
    BY <2>3
  <2> QED
    BY <2>3, <2>4, <2>5
<1>8. e.user = TRUE /\ e.value = IfPositive(s.mine[1].pct)
      /\ e.matcher = Matcher(s.mine[1].key)
  BY DEF e
<1>9. 1 \in Matching(t, s.name)
  BY <1>7, <1>8 DEF Matching
<1>10. Overridden(t, s.name)
  BY <1>9 DEF Overridden
<1>11. t.overrides[Deciding(t, s.name)].user
  BY <1>6, <1>7, <1>8, <1>9, UserEntryDecides
<1>12. Deciding(t, s.name) \in DOMAIN t.overrides
  BY <1>6, <1>10, DecidingEntry DEF Matching
<1>13. Deciding(t, s.name) = 1
  BY <1>7, <1>11, <1>12
<1>14. override_for(t, s.name) = IfPositive(s.mine[1].pct)
  BY <1>7, <1>8, <1>13 DEF override_for
<1>15. IfPositive(s.mine[1].pct) = IF s.mine[1].pct = 0 THEN Off ELSE s.mine[1].pct
  BY <1>3 DEF IfPositive
<1>16. s.mine[1].pct # Off
  BY <1>3 DEF Off
<1>17. CASE s.rule \in Ceilings
  BY <1>1, <1>10, <1>14, <1>15, <1>16, <1>17 DEF Bar, bar_bytes, AskedFor
<1>18. CASE s.rule \notin Ceilings
  BY <1>1, <1>10, <1>14, <1>15, <1>16, <1>18 DEF Bar, for_process, AskedFor
<1> QED
  BY <1>17, <1>18

\* A rule that is switched off has a bar for no other name.
LEMMA SwitchedOffBar ==
  ASSUME NEW s, NEW merged, NEW t, NEW default, IsMerged(s, merged, t, default),
         s.mine # <<>> => ~Matches(Matcher(s.mine[1].key), s.name), s.pct = 0
  PROVE  Bar(merged, s.rule, s.name, s.total) = Off
<1>1. s \in Situations /\ default = Default(s.pct, Defaults.base[s.rule])
  BY DEF IsMerged
<1>2. default = Off
  BY <1>1 DEF Default, IfPositive, Unset
<1>3. s.mine \in Overrides
  BY <1>1, SituationType
<1>4. t.overrides = Entries(s.mine, TRUE)
  <2>1. Entries(s.mine, TRUE) \in Seq(Entry)
    BY <1>3, EntriesType
  <2>2. t.overrides = Entries(s.mine, TRUE) \o <<>>
    BY <1>2, MergedRule
  <2> QED
    BY <2>1, <2>2
<1>5. ~Overridden(t, s.name)
  <2>1. CASE s.mine = <<>>
    <3>1. t.overrides = <<>>
      BY <1>3, <1>4, <2>1, EntriesType
    <3> QED
      BY <3>1 DEF Overridden, Matching
  <2>2. CASE s.mine # <<>>
    <3> DEFINE e == [matcher |-> Matcher(s.mine[1].key), user |-> TRUE,
                     value |-> IfPositive(s.mine[1].pct)]
    <3>1. t.overrides = <<e>>
      BY <1>3, <1>4, <2>2, EntriesType
    <3>2. e.matcher = Matcher(s.mine[1].key)
      OBVIOUS
    <3> HIDE DEF e
    <3>3. \A i \in DOMAIN t.overrides : t.overrides[i] = e
      BY <3>1
    <3> QED
      BY <2>2, <3>2, <3>3 DEF Overridden, Matching
  <2> QED
    BY <2>1, <2>2
<1> QED
  BY <1>2, <1>5, PlainBar

\* Where no rule counts as enabled, no name has a bar.
LEMMA NothingEnabledBar ==
  ASSUME NEW s, NEW merged, NEW t, NEW default, IsMerged(s, merged, t, default),
         ~any_enabled(merged, FALSE)
  PROVE  Bar(merged, s.rule, s.name, s.total) = Off
<1>1. s.rule \in Rules /\ t = merged.rule[s.rule]
  BY SituationType DEF IsMerged
<1>2. ~rule_any_enabled(t)
  BY <1>1 DEF any_enabled
<1>3. default = Off /\ t.default = Off /\ t.overrides \in Seq(Entry)
  BY <1>2, MergedRule DEF rule_any_enabled
<1>4. CASE Overridden(t, s.name)
  <2>1. Deciding(t, s.name) \in DOMAIN t.overrides
    BY <1>3, <1>4, DecidingEntry DEF Matching
  <2>2. override_for(t, s.name) = Off
    BY <1>2, <2>1 DEF rule_any_enabled, override_for
  <2> QED
    BY <1>1, <1>4, <2>2 DEF Bar, bar_bytes, for_process
<1>5. CASE ~Overridden(t, s.name)
  BY <1>3, <1>5, PlainBar
<1> QED
  BY <1>4, <1>5

\* The user has the last word in every situation.
LEMMA Respects == EveryoneRespected
<1> SUFFICES ASSUME NEW s \in Situations PROVE Respected(s)
  BY DEF EveryoneRespected
<1> DEFINE merged == ActiveIn(s)
           t == merged.rule[s.rule]
           default == Default(s.pct, Defaults.base[s.rule])
           asked == s.mine # <<>> /\ Matches(Matcher(s.mine[1].key), s.name)
<1>1. IsMerged(s, merged, t, default)
  BY DEF IsMerged
<1>2. Respected(s) <=>
        /\ asked => Bar(merged, s.rule, s.name, s.total) = AskedFor(s)
        /\ ~asked /\ s.pct = 0 => Bar(merged, s.rule, s.name, s.total) = Off
        /\ ~any_enabled(merged, FALSE) => Bar(merged, s.rule, s.name, s.total) = Off
  BY DEF Respected
<1> HIDE DEF merged, t, default
<1>3. asked => Bar(merged, s.rule, s.name, s.total) = AskedFor(s)
  BY <1>1, AskedBar
<1>4. ~asked /\ s.pct = 0 => Bar(merged, s.rule, s.name, s.total) = Off
  BY <1>1, SwitchedOffBar
<1>5. ~any_enabled(merged, FALSE) => Bar(merged, s.rule, s.name, s.total) = Off
  BY <1>1, NothingEnabledBar
<1> QED
  BY <1>2, <1>3, <1>4, <1>5

(* Whatever rule, setting, ceiling, override, template entry, name and      *)
(* machine: the running sink's bar is the one the user asked for, and none *)
(* where the user switched the rule off (alerts.rs:840-1166).              *)
THEOREM UserHasTheLastWord == Spec => []UserDecides
<1>1. UserDecides
  BY Respects DEF UserDecides
<1> QED
  BY <1>1, PTL

-----------------------------------------------------------------------------
(* The commands.  One action changes what the daemon runs with for the key *)
(* it is about, and for no other; two actions are one after the other.     *)

\* An action on the outcome of those before it.
Then(result, action) == IF result = None THEN None ELSE Apply(result[1], action)

\* A command of two actions: the second is applied to what the first made.
LEMMA TwoActions ==
  ASSUME NEW config, NEW a, NEW b
  PROVE  run_config_actions(config, <<a, b>>) = Then(Apply(config, a), b)
<1> DEFINE D == {1, 2}
           seq == <<a, b>>
           base == Some(config)
           ra == Then(base, a)
           rb == Then(base, b)
           rab == Then(ra, b)
           top(s) == Max(s)
           Is(g) == g = [s \in SUBSET D |->
                           IF s = {} THEN base ELSE Then(g[s \ {top(s)}], seq[top(s)])]
           fold == [s \in SUBSET D |-> IF s = {} THEN base
                                       ELSE IF s = {1} THEN ra
                                       ELSE IF s = {2} THEN rb ELSE rab]
<1>1. top({1}) = 1 /\ top({2}) = 2 /\ top(D) = 2
  BY DEF Max
<1>2. \A s \in SUBSET D : s = {} \/ s = {1} \/ s = {2} \/ s = D
  OBVIOUS
<1>3. /\ {1} \ {1} = {} /\ {2} \ {2} = {} /\ D \ {2} = {1}
      /\ {} # D /\ {1} # D /\ {2} # D /\ {} # {1} /\ {} # {2} /\ {1} # {2}
  OBVIOUS
<1>4. seq[1] = a /\ seq[2] = b /\ DOMAIN seq = D
  OBVIOUS
<1> HIDE DEF seq, base, ra, rb, rab, top
<1>5. /\ fold[{}] = base /\ fold[{1}] = ra /\ fold[{2}] = rb /\ fold[D] = rab
  BY <1>3
<1>6. Is(fold)
  <2> SUFFICES ASSUME NEW s \in SUBSET D
               PROVE  fold[s] = IF s = {} THEN base ELSE Then(fold[s \ {top(s)}], seq[top(s)])
    OBVIOUS
  <2> HIDE DEF fold, D
  <2>1. CASE s = {}
    BY <1>5, <2>1
  <2>2. CASE s = {1}
    BY <1>1, <1>3, <1>4, <1>5, <2>2 DEF ra
  <2>3. CASE s = {2}
    BY <1>1, <1>3, <1>4, <1>5, <2>3 DEF rb
  <2>4. CASE s = D
    BY <1>1, <1>3, <1>4, <1>5, <2>4 DEF rab
  <2> QED
    BY <1>2, <2>1, <2>2, <2>3, <2>4
<1>7. Is(CHOOSE g : Is(g))
  <2> HIDE DEF Is, fold
  <2> QED
    BY <1>6
<1> DEFINE g == CHOOSE f : Is(f)
<1>8. run_config_actions(config, <<a, b>>) = g[D]
  BY <1>4 DEF run_config_actions, FoldLeft, MapThenFoldSet, Then, seq, base, top
<1>9. g = [s \in SUBSET D |->
                           IF s = {} THEN base ELSE Then(g[s \ {top(s)}], seq[top(s)])]
  BY <1>7
<1> HIDE DEF g, Is
<1>10. g[{}] = base
  BY <1>9
<1>11. g[{1}] = ra
  BY <1>1, <1>3, <1>4, <1>9, <1>10 DEF ra
<1>12. g[D] = rab
  BY <1>1, <1>3, <1>4, <1>9, <1>11 DEF rab
<1>13. ra = Apply(config, a)
  BY DEF ra, base, Then, Some, None
<1> QED
  BY <1>8, <1>12, <1>13 DEF rab

\* A duration that fits is read back from the file as it was written.
LEMMA DurationRoundTrip ==
  ASSUME NEW n \in Nat, n < Width
  PROVE  parse_duration(format_duration(n)) = n
<1>0. Width \in Nat \ {0}
  BY SettingsAssumption DEF SettingsAssumption
<1>1. n % Width = n
  BY <1>0
<1>2. \A k \in {3600000, 60000, 1000, 1} : n % k = 0 => (n \div k) * k = n
  OBVIOUS
<1>3. CASE n = 0
  <2>1. format_duration(n) = [n |-> 0, unit |-> "s"]
    BY <1>3 DEF format_duration
  <2>2. parse_duration(format_duration(n)) = (0 * 1000) % Width
    BY <2>1 DEF parse_duration, Scale
  <2> QED
    BY <1>1, <1>3, <2>2
<1>4. CASE n # 0
  <2>1. PICK unit \in {"h", "m", "s", "ms"} :
          /\ n % Scale(unit) = 0
          /\ format_duration(n) = [n |-> n \div Scale(unit), unit |-> unit]
    <3>1. CASE n % 3600000 = 0
      BY <1>4, <3>1 DEF format_duration, Scale
    <3>2. CASE n % 3600000 # 0 /\ n % 60000 = 0
      BY <1>4, <3>2 DEF format_duration, Scale
    <3>3. CASE n % 60000 # 0 /\ n % 1000 = 0
      <4>1. n % 3600000 # 0
        BY <3>3
      <4> QED
        BY <1>4, <3>3, <4>1 DEF format_duration, Scale
    <3>4. CASE n % 3600000 # 0 /\ n % 60000 # 0 /\ n % 1000 # 0
      <4>1. n % 1 = 0
        OBVIOUS
      <4> QED
        BY <1>4, <3>4, <4>1 DEF format_duration, Scale
    <3> QED
      BY <3>1, <3>2, <3>3, <3>4
  <2>2. Scale(unit) \in {3600000, 60000, 1000, 1}
    BY DEF Scale
  <2>3. (n \div Scale(unit)) * Scale(unit) = n
    BY <1>2, <2>1, <2>2
  <2>4. parse_duration(format_duration(n)) = ((n \div Scale(unit)) * Scale(unit)) % Width
    BY <2>1 DEF parse_duration
  <2> QED
    BY <1>1, <2>3, <2>4
<1> QED
  BY <1>3, <1>4

\* So is a size.
LEMMA SizeRoundTrip ==
  ASSUME NEW n \in Nat, n < Width
  PROVE  parse_size(format_size(n, <<"MiB", "KiB">>))[1] = n
<1> DEFINE units == <<"MiB", "KiB">>
           exact == {i \in DOMAIN units : /\ n >= SizeScale(units[i])
                                          /\ n % SizeScale(units[i]) = 0}
           unit == IF exact = {} THEN "B"
                   ELSE units[CHOOSE i \in exact : \A j \in exact : i <= j]
<1>1. DOMAIN units = {1, 2} /\ units[1] = "MiB" /\ units[2] = "KiB"
  OBVIOUS
<1>2. /\ SizeScale("MiB") = 1048576 /\ SizeScale("KiB") = 1024 /\ SizeScale("B") = 1
  BY DEF SizeScale, Kibi
<1>3. format_size(n, units) = [n |-> n \div SizeScale(unit), unit |-> unit]
  BY DEF format_size
<1>4. unit \in {"MiB", "KiB", "B"} /\ n % SizeScale(unit) = 0
  <2>1. CASE exact = {}
    <3>1. n % 1 = 0
      OBVIOUS
    <3> QED
      BY <1>2, <2>1, <3>1
  <2>2. CASE exact # {}
    <3>1. exact \subseteq {1, 2}
      BY <1>1
    <3> DEFINE least == CHOOSE i \in exact : \A j \in exact : i <= j
    <3>2. \E i \in exact : \A j \in exact : i <= j
      <4> HIDE DEF exact
      <4>1. CASE 1 \in exact
        BY <3>1, <4>1
      <4>2. CASE 1 \notin exact
        <5>1. exact = {2}
          BY <2>2, <3>1, <4>2
        <5> QED
          BY <5>1
      <4> QED
        BY <4>1, <4>2
    <3>3. least \in exact
      <4> HIDE DEF exact
      <4> QED
        BY <3>2
    <3>4. unit = units[least]
      BY <2>2
    <3> HIDE DEF least, unit
    <3>5. least \in {1, 2} /\ n % SizeScale(units[least]) = 0
      BY <3>1, <3>3
    <3> QED
      BY <1>1, <3>4, <3>5
  <2> QED
    BY <2>1, <2>2
<1> HIDE DEF unit, units
<1>5. (n \div SizeScale(unit)) * SizeScale(unit) = n
  BY <1>2, <1>4
<1>6. parse_size([n |-> n \div SizeScale(unit), unit |-> unit]) = Some(n)
  BY <1>5 DEF parse_size
<1> QED
  BY <1>3, <1>6 DEF Some, units

\* What a number is after save and load.
LEMMA ReloadedSame ==
  ASSUME NEW key, NEW n \in Nat, n < Width
  PROVE  Reloaded(key, n) = n
  BY DurationRoundTrip, SizeRoundTrip DEF Reloaded

\* What Effective reads of a config.
IsConfig(c) ==
  /\ DOMAIN c = {"collector", "single", "overrides"}
  /\ c = [f \in {"collector", "single", "overrides"} |-> c[f]]
  /\ \/ c.collector = None
     \/ \E section \in [CollectorKeys -> Int] : c.collector = Some(section)
  /\ c.single \in [DaemonKeys \cup AlertKeys -> Int]

\* The [collector] section written out has every key of it.
LEMMA DefaultSection == CollectorDefault \in [CollectorKeys -> Int]
<1> DEFINE value(k) ==
             CASE k \in {"process-interval", "disk-interval", "network-interval"} -> 0
               [] k \in {"cpu-freq-interval", "battery-interval"} -> 30000
               [] k = "disk-storage-interval" -> 60000
               [] k = "temp-interval" -> 15000
               [] k \in {"gpu-interval", "drive-interval"} -> 10000
               [] k = "process-boost" -> Automatic
               [] k = "max-processes" -> 50
               [] k \in Toggles -> IF k = "process-disk-io" THEN 0 ELSE 1
<1>1. \A k \in Cadences : value(k) \in Int
  BY DEF Cadences, Automatic, Toggles
<1>2. \A k \in Toggles : value(k) \in Int
  BY DEF Automatic, Toggles
<1>3. \A k \in {"process-boost", "max-processes"} : value(k) \in Int
  BY DEF Automatic, Toggles
<1>4. CollectorDefault = [k \in CollectorKeys |-> value(k)]
  BY DEF CollectorDefault
<1> HIDE DEF value
<1>5. \A k \in CollectorKeys : value(k) \in Int
  BY <1>1, <1>2, <1>3 DEF CollectorKeys
<1> QED
  BY <1>4, <1>5

LEMMA SectionType ==
  ASSUME NEW c, IsConfig(c)
  PROVE  collector_mut(c) \in [CollectorKeys -> Int]
  BY DefaultSection DEF IsConfig, collector_mut, Some, None

\* Setting a key of the collector changes that key alone.
LEMMA SetCollectorKey ==
  ASSUME NEW c, IsConfig(c), NEW key \in CollectorKeys, NEW n \in Int,
         NEW d, d = SetCollector(c, key, n)
  PROVE  /\ IsConfig(d)
         /\ d.single = c.single
         /\ collector_mut(d)[key] = n
         /\ \A k \in CollectorKeys : k # key => collector_mut(d)[k] = collector_mut(c)[k]
<1> DEFINE section == [collector_mut(c) EXCEPT ![key] = n]
<1>1. section \in [CollectorKeys -> Int] /\ section[key] = n
      /\ \A k \in CollectorKeys : k # key => section[k] = collector_mut(c)[k]
  BY SectionType
<1>2. d = [c EXCEPT !.collector = Some(section)]
  BY DEF SetCollector
<1> HIDE DEF section
<1>3. d.collector = Some(section) /\ d.single = c.single
      /\ DOMAIN d = {"collector", "single", "overrides"}
      /\ d = [f \in {"collector", "single", "overrides"} |-> d[f]]
  BY <1>2 DEF IsConfig
<1>4. d.collector # None /\ d.collector[1] = section
  BY <1>3 DEF Some, None
<1>5. collector_mut(d) = section
  BY <1>4 DEF collector_mut
<1>6. IsConfig(d)
  BY <1>1, <1>3 DEF IsConfig
<1> QED
  BY <1>1, <1>3, <1>5, <1>6

\* Setting a key of its own changes that key alone.
LEMMA SetSingle ==
  ASSUME NEW c, IsConfig(c), NEW key \in DaemonKeys \cup AlertKeys, NEW n \in Int,
         NEW d, d = [c EXCEPT !.single[key] = n]
  PROVE  /\ IsConfig(d)
         /\ d.single[key] = n
         /\ \A k \in DaemonKeys \cup AlertKeys : k # key => d.single[k] = c.single[k]
         /\ d.collector = c.collector
<1> DEFINE single == [c.single EXCEPT ![key] = n]
<1>1. /\ single \in [DaemonKeys \cup AlertKeys -> Int] /\ single[key] = n
      /\ \A k \in DaemonKeys \cup AlertKeys : k # key => single[k] = c.single[k]
  BY DEF IsConfig
<1>2. d = [c EXCEPT !.single = single]
  OBVIOUS
<1> HIDE DEF single
<1>3. d.single = single /\ d.collector = c.collector
      /\ DOMAIN d = {"collector", "single", "overrides"}
      /\ d = [f \in {"collector", "single", "overrides"} |-> d[f]]
  BY <1>2 DEF IsConfig
<1> QED
  BY <1>1, <1>3 DEF IsConfig

\* The overrides by name are no setting of Effective.
LEMMA SetOverrides ==
  ASSUME NEW c, IsConfig(c), NEW key, NEW map, NEW d, d = [c EXCEPT !.overrides[key] = map]
  PROVE  IsConfig(d) /\ d.single = c.single /\ d.collector = c.collector
<1>1. d.single = c.single /\ d.collector = c.collector
      /\ DOMAIN d = {"collector", "single", "overrides"}
      /\ d = [f \in {"collector", "single", "overrides"} |-> d[f]]
  BY DEF IsConfig
<1> QED
  BY <1>1 DEF IsConfig

\* The empty file leaves every key to its built-in value.
LEMMA EmptyConfig ==
  /\ IsConfig(EmptyFile)
  /\ collector_mut(EmptyFile) = CollectorDefault
  /\ \A k \in DaemonKeys \cup AlertKeys : EmptyFile.single[k] = Unset
<1>1. EmptyFile.collector = None /\ DOMAIN EmptyFile = {"collector", "single", "overrides"}
      /\ EmptyFile = [f \in {"collector", "single", "overrides"} |-> EmptyFile[f]]
      /\ EmptyFile.single = [k \in DaemonKeys \cup AlertKeys |-> Unset]
  BY DEF EmptyFile
<1>2. Unset \in Int
  BY DEF Unset
<1> QED
  BY <1>1, <1>2 DEF IsConfig, collector_mut

\* Where the file says the same, the daemon runs with the same.
LEMMA SameReading ==
  ASSUME NEW c, NEW d, NEW key,
         key \in CollectorKeys => collector_mut(d)[key] = collector_mut(c)[key],
         key \notin CollectorKeys => d.single[key] = c.single[key]
  PROVE  Effective(d, key) = Effective(c, key)
  BY DEF Effective

\* What the daemon runs with for a number that stands in the file.
LEMMA AddedReading ==
  ASSUME NEW d, NEW key, NEW n \in Nat, n < Width,
         key \in CollectorKeys => collector_mut(d)[key] = n,
         key \notin CollectorKeys => d.single[key] = n
  PROVE  Effective(d, key) = IF key = "process-interval" /\ n = 0 THEN 10000 ELSE n
<1>1. Reloaded(key, n) = n
  BY ReloadedSame
<1>2. n # Unset
  BY DEF Unset
<1> QED
  BY <1>1, <1>2 DEF Effective

\* What the daemon runs with after an action on a file that says c.
Outcome(c, action, key) ==
  IF ~Touches(action, key) THEN Effective(c, key)
  ELSE IF action.verb = "remove" THEN Effective(EmptyFile, key)
  ELSE IF key = "process-interval" /\ action.value.n = 0 THEN 10000
  ELSE action.value.n

\* What one action makes of a config, unless it is refused.
LEMMA ActionStep ==
  ASSUME NEW c, IsConfig(c), NEW K, NEW action \in Actions(K), Apply(c, action) # None
  PROVE  \E d : /\ Apply(c, action) = Some(d)
                /\ IsConfig(d)
                /\ \A key \in Keys : Effective(d, key) = Outcome(c, action, key)
                /\ action.verb = "add" => Valid(action.key, action.value)
<1> DEFINE k == action.key name == action.value.name n == action.value.n
<1>1. CASE action.verb = "add"
  <2>1. k \in Keys /\ Valid(k, action.value) /\ Apply(c, action) = apply_add(c, k, action.value)
    BY <1>1 DEF Apply, apply_add
  <2>2. n \in Nat /\ n < Width
    <3>1. n \in Inputs \cup {Junk}
      BY <1>1 DEF Actions
    <3> QED
      BY <2>1, <3>1, SettingsAssumption DEF SettingsAssumption, Valid
  <2>3. CASE name # NoName
    <3> DEFINE d == [c EXCEPT !.overrides[k] = Insert(c.overrides[k], name, n)]
    <3>1. Apply(c, action) = Some(d)
      BY <2>1, <2>3 DEF apply_add
    <3>2. IsConfig(d) /\ d.single = c.single /\ d.collector = c.collector
      <4> HIDE DEF k, name, n
      <4> QED
        BY SetOverrides
    <3> HIDE DEF d
    <3>3. ASSUME NEW key \in Keys PROVE Effective(d, key) = Outcome(c, action, key)
      <4>1. ~Touches(action, key)
        BY <2>3 DEF Touches
      <4>2. Effective(d, key) = Effective(c, key)
        BY <3>2, SameReading DEF collector_mut
      <4> QED
        BY <4>1, <4>2 DEF Outcome
    <3> QED
      BY <2>1, <3>1, <3>2, <3>3
  <2>4. CASE name = NoName /\ k \in CollectorKeys
    <3> DEFINE d == SetCollector(c, k, n)
    <3>1. Apply(c, action) = Some(d)
      BY <2>1, <2>4 DEF apply_add, Stored
    <3>2. /\ IsConfig(d) /\ d.single = c.single /\ collector_mut(d)[k] = n
          /\ \A key \in CollectorKeys : key # k => collector_mut(d)[key] = collector_mut(c)[key]
      <4>1. n \in Int
        BY <2>2
      <4> HIDE DEF k, n
      <4> QED
        BY <2>4, <4>1, SetCollectorKey
    <3> HIDE DEF d
    <3>3. ASSUME NEW key \in Keys PROVE Effective(d, key) = Outcome(c, action, key)
      <4>1. CASE key = k
        <5>1. Touches(action, key)
          BY <2>4, <4>1 DEF Touches
        <5>2. Effective(d, key) = IF key = "process-interval" /\ n = 0 THEN 10000 ELSE n
          <6> HIDE DEF k, n
          <6> QED
            BY <2>2, <2>4, <3>2, <4>1, AddedReading
        <5> QED
          BY <1>1, <5>1, <5>2 DEF Outcome
      <4>2. CASE key # k
        <5>1. ~Touches(action, key)
          BY <4>2 DEF Touches
        <5>2. Effective(d, key) = Effective(c, key)
          BY <3>2, <4>2, SameReading
        <5> QED
          BY <5>1, <5>2 DEF Outcome
      <4> QED
        BY <4>1, <4>2
    <3> QED
      BY <2>1, <3>1, <3>2, <3>3
  <2>5. CASE name = NoName /\ k \notin CollectorKeys
    <3> DEFINE d == [c EXCEPT !.single[k] = n]
    <3>1. Apply(c, action) = Some(d)
      BY <2>1, <2>5 DEF apply_add
    <3>2. /\ IsConfig(d) /\ d.collector = c.collector /\ d.single[k] = n
          /\ \A key \in DaemonKeys \cup AlertKeys : key # k => d.single[key] = c.single[key]
      <4>1. n \in Int /\ k \in DaemonKeys \cup AlertKeys
        BY <2>1, <2>2, <2>5 DEF Keys
      <4> HIDE DEF k, n
      <4> QED
        BY <4>1, SetSingle
    <3> HIDE DEF d
    <3>3. ASSUME NEW key \in Keys PROVE Effective(d, key) = Outcome(c, action, key)
      <4>1. CASE key = k
        <5>1. Touches(action, key)
          BY <2>5, <4>1 DEF Touches
        <5>2. Effective(d, key) = IF key = "process-interval" /\ n = 0 THEN 10000 ELSE n
          <6> HIDE DEF k, n
          <6> QED
            BY <2>2, <2>5, <3>2, <4>1, AddedReading
        <5> QED
          BY <1>1, <5>1, <5>2 DEF Outcome
      <4>2. CASE key # k
        <5>1. ~Touches(action, key)
          BY <4>2 DEF Touches
        <5>2. key \notin CollectorKeys => key \in DaemonKeys \cup AlertKeys
          BY DEF Keys
        <5>3. Effective(d, key) = Effective(c, key)
          BY <3>2, <4>2, <5>2, SameReading DEF collector_mut
        <5> QED
          BY <5>1, <5>3 DEF Outcome
      <4> QED
        BY <4>1, <4>2
    <3> QED
      BY <2>1, <3>1, <3>2, <3>3
  <2> QED
    BY <2>3, <2>4, <2>5
<1>2. CASE action.verb # "add"
  <2>1. action.verb = "remove" /\ Apply(c, action) = apply_remove(c, k, name)
    BY <1>2 DEF Apply, Actions
  <2>2. CASE name # NoName
    <3> DEFINE d == [c EXCEPT !.overrides[k] = Without(c.overrides[k], name)]
    <3>1. Apply(c, action) = Some(d)
      BY <2>1, <2>2 DEF apply_remove
    <3>2. IsConfig(d) /\ d.single = c.single /\ d.collector = c.collector
      <4> HIDE DEF k, name
      <4> QED
        BY SetOverrides
    <3> HIDE DEF d
    <3>3. ASSUME NEW key \in Keys PROVE Effective(d, key) = Outcome(c, action, key)
      <4>1. ~Touches(action, key)
        BY <2>2 DEF Touches
      <4>2. Effective(d, key) = Effective(c, key)
        BY <3>2, SameReading DEF collector_mut
      <4> QED
        BY <4>1, <4>2 DEF Outcome
    <3> QED
      BY <1>2, <3>1, <3>2, <3>3
  <2>3. CASE name = NoName /\ k \in CollectorKeys
    <3> DEFINE n0 == CollectorDefault[k]
               d == SetCollector(c, k, n0)
    <3>1. Apply(c, action) = Some(d)
      BY <2>1, <2>3 DEF apply_remove
    <3>2. /\ IsConfig(d) /\ d.single = c.single /\ collector_mut(d)[k] = n0
          /\ \A key \in CollectorKeys : key # k => collector_mut(d)[key] = collector_mut(c)[key]
      <4>1. n0 \in Int
        BY <2>3, DefaultSection
      <4> HIDE DEF k, n0
      <4> QED
        BY <2>3, <4>1, SetCollectorKey
    <3> HIDE DEF d
    <3>3. ASSUME NEW key \in Keys PROVE Effective(d, key) = Outcome(c, action, key)
      <4>1. CASE key = k
        <5>1. Touches(action, key)
          BY <2>3, <4>1 DEF Touches
        <5>2. collector_mut(d)[key] = collector_mut(EmptyFile)[key]
          BY <3>2, <4>1, EmptyConfig
        <5>3. Effective(d, key) = Effective(EmptyFile, key)
          BY <2>3, <4>1, <5>2, SameReading
        <5> QED
          BY <2>1, <5>1, <5>3 DEF Outcome
      <4>2. CASE key # k
        <5>1. ~Touches(action, key)
          BY <4>2 DEF Touches
        <5>2. Effective(d, key) = Effective(c, key)
          BY <3>2, <4>2, SameReading
        <5> QED
          BY <5>1, <5>2 DEF Outcome
      <4> QED
        BY <4>1, <4>2
    <3> QED
      BY <1>2, <3>1, <3>2, <3>3
  <2>4. CASE name = NoName /\ k \notin CollectorKeys
    <3> DEFINE d == [c EXCEPT !.single[k] = Unset]
    <3>0. k \in DaemonKeys \cup AlertKeys
      BY <2>1, <2>4 DEF apply_remove, Keys
    <3>1. Apply(c, action) = Some(d)
      BY <2>1, <2>4 DEF apply_remove
    <3>2. /\ IsConfig(d) /\ d.collector = c.collector /\ d.single[k] = Unset
          /\ \A key \in DaemonKeys \cup AlertKeys : key # k => d.single[key] = c.single[key]
      <4>1. Unset \in Int
        BY DEF Unset
      <4> HIDE DEF k
      <4> QED
        BY <3>0, <4>1, SetSingle
    <3> HIDE DEF d
    <3>3. ASSUME NEW key \in Keys PROVE Effective(d, key) = Outcome(c, action, key)
      <4>1. CASE key = k
        <5>1. Touches(action, key)
          BY <2>4, <4>1 DEF Touches
        <5>2. d.single[key] = EmptyFile.single[key]
          BY <3>0, <3>2, <4>1, EmptyConfig
        <5>3. Effective(d, key) = Effective(EmptyFile, key)
          BY <2>4, <4>1, <5>2, SameReading
        <5> QED
          BY <2>1, <5>1, <5>3 DEF Outcome
      <4>2. CASE key # k
        <5>1. ~Touches(action, key)
          BY <4>2 DEF Touches
        <5>2. key \notin CollectorKeys => key \in DaemonKeys \cup AlertKeys
          BY DEF Keys
        <5>3. Effective(d, key) = Effective(c, key)
          BY <3>2, <4>2, <5>2, SameReading DEF collector_mut
        <5> QED
          BY <5>1, <5>3 DEF Outcome
      <4> QED
        BY <4>1, <4>2
    <3> QED
      BY <1>2, <3>1, <3>2, <3>3
  <2> QED
    BY <2>2, <2>3, <2>4
<1> QED
  BY <1>1, <1>2

\* The files the commands are given.
LEMMA BaseConfigs == \A config \in BaseFiles : IsConfig(config)
<1> DEFINE section == [CollectorDefault EXCEPT !["process-boost"] = 0]
           other == [EmptyFile EXCEPT !.collector = Some(section)]
<1>1. section \in [CollectorKeys -> Int]
  <2>1. \A f \in [CollectorKeys -> Int], k \in CollectorKeys : [f EXCEPT ![k] = 0] \in [CollectorKeys -> Int]
    OBVIOUS
  <2>2. "process-boost" \in CollectorKeys
    BY DEF CollectorKeys
  <2> QED
    BY <2>1, <2>2, DefaultSection
<1> HIDE DEF section
<1>2. IsConfig(other)
  BY <1>1, EmptyConfig DEF IsConfig
<1> QED
  BY <1>2, EmptyConfig DEF BaseFiles, section

\* What a command of two actions asks for is what its last action on a key does.
LEMMA AskedOfTwo ==
  ASSUME NEW config, NEW a, NEW b, NEW key
  PROVE  Asked(config, <<a, b>>, key) =
           IF Touches(b, key) THEN Outcome(config, b, key)
           ELSE Outcome(config, a, key)
<1> DEFINE seq == <<a, b>>
           about == {i \in DOMAIN seq : Touches(seq[i], key)}
           latest == CHOOSE i \in about : \A j \in about : j <= i
           last == seq[latest]
<1>1. DOMAIN seq = {1, 2} /\ seq[1] = a /\ seq[2] = b
  OBVIOUS
<1>2. Asked(config, seq, key) =
        IF about = {} \/ last.verb = "remove"
        THEN Effective(IF about = {} THEN config ELSE EmptyFile, key)
        ELSE IF key = "process-interval" /\ last.value.n = 0 THEN 10000
        ELSE last.value.n
  BY DEF Asked
<1>3. about \subseteq {1, 2} /\ (1 \in about <=> Touches(a, key)) /\ (2 \in about <=> Touches(b, key))
  BY <1>1
<1> HIDE DEF about, last, seq
<1>4. CASE Touches(b, key)
  <2>1. 2 \in about /\ \A j \in about : j <= 2
    BY <1>3, <1>4
  <2>2. \A i \in about : (\A j \in about : j <= i) => i = 2
    BY <1>3, <2>1
  <2>3. latest = 2
    BY <2>1, <2>2
  <2>4. last = b /\ about # {}
    BY <1>1, <2>1, <2>3 DEF last
  <2> QED
    BY <1>2, <1>4, <2>4 DEF Outcome, seq
<1>5. CASE ~Touches(b, key) /\ Touches(a, key)
  <2>1. about = {1}
    BY <1>3, <1>5
  <2>2. latest = 1
    BY <2>1
  <2>3. last = a /\ about # {}
    BY <1>1, <2>1, <2>2 DEF last
  <2> QED
    BY <1>2, <1>5, <2>3 DEF Outcome, seq
<1>6. CASE ~Touches(b, key) /\ ~Touches(a, key)
  <2>1. about = {}
    BY <1>3, <1>6
  <2> QED
    BY <1>2, <1>6, <2>1 DEF Outcome, seq
<1> QED
  BY <1>4, <1>5, <1>6

\* Every command is obeyed.
LEMMA CommandsObeyed == EveryCommandObeyed
<1> SUFFICES ASSUME NEW config \in BaseFiles, NEW a \in Actions(Keys), NEW b \in Actions(ThenKeys)
             PROVE  Obeyed(config, <<a, b>>)
  BY DEF EveryCommandObeyed
<1> DEFINE seq == <<a, b>>
           result == run_config_actions(config, seq)
<1>1. Obeyed(config, seq) <=>
        (result # None =>
          /\ \A key \in Keys : Effective(result[1], key) = Asked(config, seq, key)
          /\ \A i \in DOMAIN seq : seq[i].verb = "add" => Valid(seq[i].key, seq[i].value))
  BY DEF Obeyed
<1>2. result = Then(Apply(config, a), b)
  BY TwoActions
<1> HIDE DEF result
<1> SUFFICES ASSUME result # None
             PROVE  /\ \A key \in Keys : Effective(result[1], key) = Asked(config, seq, key)
                    /\ \A i \in DOMAIN seq : seq[i].verb = "add" => Valid(seq[i].key, seq[i].value)
  BY <1>1
<1>3. IsConfig(config)
  BY BaseConfigs
<1>4. Apply(config, a) # None
  BY <1>2 DEF Then
<1>5. PICK d : /\ Apply(config, a) = Some(d)
               /\ IsConfig(d)
               /\ \A key \in Keys : Effective(d, key) = Outcome(config, a, key)
               /\ a.verb = "add" => Valid(a.key, a.value)
  BY <1>3, <1>4, ActionStep
<1>6. result = Apply(d, b)
  BY <1>2, <1>4, <1>5 DEF Then, Some
<1>7. PICK e : /\ Apply(d, b) = Some(e)
               /\ \A key \in Keys : Effective(e, key) = Outcome(d, b, key)
               /\ b.verb = "add" => Valid(b.key, b.value)
  BY <1>5, <1>6, ActionStep
<1>8. result[1] = e
  BY <1>6, <1>7 DEF Some
<1>9. ASSUME NEW key \in Keys PROVE Effective(e, key) = Asked(config, seq, key)
  <2>1. Effective(e, key) = Outcome(d, b, key) /\ Effective(d, key) = Outcome(config, a, key)
    BY <1>5, <1>7
  <2>2. Outcome(d, b, key) = IF Touches(b, key) THEN Outcome(config, b, key) ELSE Effective(d, key)
    BY DEF Outcome
  <2> QED
    BY <2>1, <2>2, AskedOfTwo
<1>10. \A i \in DOMAIN seq : seq[i].verb = "add" => Valid(seq[i].key, seq[i].value)
  <2>1. DOMAIN seq = {1, 2} /\ seq[1] = a /\ seq[2] = b
    OBVIOUS
  <2> HIDE DEF seq
  <2> QED
    BY <1>5, <1>7, <2>1
<1> QED
  BY <1>8, <1>9, <1>10

(* Whatever the values, names and keys: a command is saved whole or not at *)
(* all, and changes what the daemon that reads the file back runs with for *)
(* the keys it names and no other (settings.rs:277-524, main.rs:145-240).  *)
THEOREM CommandsAreObeyed == Spec => []CommandsKeepTheRest
<1>1. CommandsKeepTheRest
  BY CommandsObeyed DEF CommandsKeepTheRest
<1> QED
  BY <1>1, PTL
=============================================================================
