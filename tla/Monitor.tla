------------------------------- MODULE Monitor -------------------------------
(***************************************************************************)
(* A frontend's loop (monitor.rs): a tick collects, has the snapshot       *)
(* evaluated and appends the records it yields to the daily files; a       *)
(* failing append is logged and swallowed.  The settings are read again    *)
(* when the frontend asks for it, both files or neither.                   *)
(*                                                                         *)
(* LocalCollector::collect does not fail.  The windows of the display are  *)
(* fed like the acute ones.                                                *)
(***************************************************************************)
EXTENDS Episodes

VARIABLE
  unwritten   \* history: since when every tick found a process worth a record,
              \* with none written since; from the last one that was lost

monitorVars == <<vars, unwritten>>

\* with_settings: a new engine, thresholds from both files.
MonitorInit == Init /\ unwritten = [p \in Pids |-> Never]

\* What tick does with the records of an evaluation: appended or lost, and
\* tried again a minute later in either case.
Persist(list, t) ==
  \E written \in BOOLEAN :
    unwritten' = [p \in Pids |->
      IF p \notin Qualify(fast', list, t) THEN Never
      ELSE IF p \in records' THEN IF written THEN Never ELSE t
      ELSE IF unwritten[p] = Never THEN t ELSE unwritten[p]]

\* tick, for a snapshot at t.
Tick(t) ==
  \/ \E listed \in SUBSET Pids : \E list \in [listed -> Uses] :
       Evaluate(t, list) /\ Persist(list, t)
  \/ \E listed \in SUBSET Pids : \E list \in [listed -> Uses] :
       EvaluateApps(t, list) /\ UNCHANGED unwritten
  \/ Skip(t) /\ unwritten' = [p \in Pids |-> Never]

\* reload_settings: the thresholds of both files, or nothing at all where one
\* cannot be read.
ReloadSettings == Reload /\ UNCHANGED unwritten

MonitorNext ==
  \/ \E pause \in Pauses : now + pause <= MaxTime /\ Tick(now + pause)
  \/ ReloadSettings

MonitorSpec == MonitorInit /\ [][MonitorNext]_monitorVars

-----------------------------------------------------------------------------
(* Properties.                                                             *)

\* "Once a minute, qualifying processes become metric records"
\* (alerts.rs:1508): a process that stays worth a record waits a minute for
\* one, and one more for every append that fails.
Recorded ==
  \A p \in Pids : unwritten[p] # Never => now - unwritten[p] < RecordEvery

\* What a busy process is owed: to be reported (Prompt), and to be recorded.
Noticed == Prompt /\ Recorded
=============================================================================
