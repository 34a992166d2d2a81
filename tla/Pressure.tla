------------------------------- MODULE Pressure -------------------------------
(***************************************************************************)
(* The memory-pressure rule of the alert engine (alerts.rs).  Every        *)
(* snapshot brings the kernel's verdict; the rule turns it into episodes:  *)
(* a first alert once pressure has persisted, a first alert again when it  *)
(* worsens, reminders that back off, and an end only after a stretch of    *)
(* normal.  The thresholds may be reloaded while an episode is going on.   *)
(*                                                                         *)
(* Instants are natural numbers, and Never stands for None.                *)
(***************************************************************************)
EXTENDS Naturals

CONSTANTS
  Window,        \* how long critical must persist (60 s)
  SlowWindow,    \* how long warning must persist (5 min)
  Rearm,         \* how long normal must hold to end an episode (5 min)
  Reminder,      \* the first gap between reminders (30 min)
  ReminderMax,   \* the longest one (4 h)
  Settings,      \* the levels that may be configured while it runs
  Pauses,        \* how much time may pass between two snapshots
  MaxTime        \* bound: the last instant

Unknown == 0     \* no verdict in the snapshot
Normal == 1
Severities == {2, 4}
Levels == {Unknown, Normal} \cup Severities

Off == 0         \* the setting that disables the rule

ASSUME PressureAssumption ==
  /\ Window \in Nat /\ SlowWindow \in Nat /\ Rearm \in Nat
  /\ 0 < Window /\ Window <= SlowWindow /\ 0 < Rearm
  /\ Reminder \in Nat /\ ReminderMax \in Nat
  /\ 0 < Reminder /\ Reminder <= ReminderMax
  /\ Settings \subseteq {Off} \cup Severities
  /\ Pauses \subseteq Nat \ {0}
  /\ MaxTime \in Nat \ {0}

VARIABLES
  now,
  threshold,       \* ActiveThresholds::pressure
  since,           \* AlertEngine::pressure_since
  normal_since,    \* pressure_normal_since
  alerted,         \* pressure_alerted
  last_alert,      \* pressure_last_alert
  first_alert,     \* pressure_first_alert
  gap,             \* pressure_reminder_gap
  event,           \* what the last evaluation reported
  calm_from,       \* history: since when every verdict has been normal
  trouble_from,    \* history: the first verdict above normal since it was calm
  loud_from,       \* history: since when the verdict has reached the threshold
  told,            \* history: the severities reported as news since then
  news_at,         \* history: when news was last reported
  repeats          \* history: how many reminders since

episode == <<since, normal_since, alerted, last_alert, first_alert, gap>>
history == <<calm_from, trouble_from, loud_from>>
reports == <<event, told, news_at, repeats>>
vars == <<now, threshold, episode, history, reports>>

Never == 0
Times == 0 .. MaxTime

Init ==
  /\ now = 1
  /\ threshold \in Settings
  /\ since = Never
  /\ normal_since = Never
  /\ alerted = 0
  /\ last_alert = Never
  /\ first_alert = Never
  /\ gap = 0
  /\ event = "none"
  /\ calm_from = Never
  /\ trouble_from = Never
  /\ loud_from = Never
  /\ told = {}
  /\ news_at = Never
  /\ repeats = 0

-----------------------------------------------------------------------------
\* Option::get_or_insert.
GetOrInsert(x, t) == IF x = Never THEN t ELSE x

Required(level) == IF level >= 4 THEN Window ELSE SlowWindow

AtMost(x, bound) == IF x <= bound THEN x ELSE bound

(* What really happened, whether the rule looked at it or not.             *)

CalmSince(t, level) ==
  CASE level = Normal -> GetOrInsert(calm_from, t)
    [] level = Unknown -> calm_from
    [] OTHER -> Never

IsCalm(t, level) == level = Normal /\ t - CalmSince(t, level) >= Rearm

\* A snapshot at instant t says level.
Snapshot(t, level) ==
  /\ now' = t
  /\ calm_from' = CalmSince(t, level)
  /\ trouble_from' = CASE IsCalm(t, level) -> Never
                       [] level \in Severities -> GetOrInsert(trouble_from, t)
                       [] OTHER -> trouble_from
  /\ loud_from' = IF threshold # Off /\ level >= threshold
                    THEN GetOrInsert(loud_from, t) ELSE Never
  /\ UNCHANGED threshold

\* The evaluation reports nothing.
NoReport(t, level) ==
  /\ event' = "none"
  /\ told' = IF IsCalm(t, level) THEN {} ELSE told
  /\ UNCHANGED <<news_at, repeats>>

-----------------------------------------------------------------------------
(* The pressure part of AlertEngine::evaluate.                             *)

\* The rule is off, or there is no verdict: everything stays as it is.
Ignore(t, level) ==
  /\ threshold = Off \/ level = Unknown
  /\ Snapshot(t, level)
  /\ NoReport(t, level)
  /\ UNCHANGED episode

\* Mutant of ClearPressure: the episode's beginning is kept.
ClearKeepsSince ==
  /\ since' = since
  /\ normal_since' = Never
  /\ alerted' = 0
  /\ last_alert' = Never
  /\ first_alert' = Never
  /\ gap' = 0

\* clear_pressure: the episode is over.
ClearPressure ==
  /\ since' = Never
  /\ normal_since' = Never
  /\ alerted' = 0
  /\ last_alert' = Never
  /\ first_alert' = Never
  /\ gap' = 0

\* Mutant of Dip: a single normal verdict ends the episode.
DipEnds(t) ==
  /\ threshold # Off
  /\ Snapshot(t, Normal)
  /\ NoReport(t, Normal)
  /\ ClearPressure

\* Normal ends the episode once it has held.
Dip(t) ==
  /\ threshold # Off
  /\ Snapshot(t, Normal)
  /\ NoReport(t, Normal)
  /\ IF t - GetOrInsert(normal_since, t) >= Rearm
       THEN ClearPressure
       ELSE /\ normal_since' = GetOrInsert(normal_since, t)
            /\ UNCHANGED <<since, alerted, last_alert, first_alert, gap>>

\* A verdict above normal continues the episode, or begins one.
Above(t, level) ==
  /\ threshold # Off
  /\ level \in Severities
  /\ Snapshot(t, level)
  /\ normal_since' = Never
  /\ since' = GetOrInsert(since, t)

\* A severity not yet reported that has persisted is due.
NewsDue(t, level) ==
  /\ level >= threshold
  /\ level > alerted
  /\ t - GetOrInsert(since, t) >= Required(level)

ReminderDue(t, level) ==
  /\ level >= threshold
  /\ alerted > 0
  /\ last_alert # Never
  /\ t - last_alert >= gap

\* Mutant of News: the backoff is not started.
NewsKeepsGap(t, level) ==
  /\ Above(t, level)
  /\ NewsDue(t, level)
  /\ alerted' = level
  /\ gap' = gap
  /\ first_alert' = GetOrInsert(first_alert, t)
  /\ last_alert' = t
  /\ event' = "news"
  /\ told' = told \cup {level}
  /\ news_at' = t
  /\ repeats' = 0

\* The first alert at this severity.
News(t, level) ==
  /\ Above(t, level)
  /\ NewsDue(t, level)
  /\ alerted' = level
  /\ gap' = Reminder
  /\ first_alert' = GetOrInsert(first_alert, t)
  /\ last_alert' = t
  /\ event' = "news"
  /\ told' = told \cup {level}
  /\ news_at' = t
  /\ repeats' = 0

\* Mutant of Remind: the gap grows without a ceiling.
RemindUncapped(t, level) ==
  /\ Above(t, level)
  /\ ~NewsDue(t, level)
  /\ ReminderDue(t, level)
  /\ gap' = gap * 2
  /\ last_alert' = t
  /\ event' = "reminder"
  /\ repeats' = repeats + 1
  /\ UNCHANGED <<alerted, first_alert, told, news_at>>

\* Still going: a reminder, and a longer gap to the next.
Remind(t, level) ==
  /\ Above(t, level)
  /\ ~NewsDue(t, level)
  /\ ReminderDue(t, level)
  /\ gap' = AtMost(gap * 2, ReminderMax)
  /\ last_alert' = t
  /\ event' = "reminder"
  /\ repeats' = repeats + 1
  /\ UNCHANGED <<alerted, first_alert, told, news_at>>

Quiet(t, level) ==
  /\ Above(t, level)
  /\ ~NewsDue(t, level)
  /\ ~ReminderDue(t, level)
  /\ NoReport(t, level)
  /\ UNCHANGED <<alerted, last_alert, first_alert, gap>>

\* The alert settings are reloaded; the engine's state is not touched.
Reload ==
  /\ threshold' \in Settings \ {threshold}
  /\ loud_from' = Never
  /\ UNCHANGED <<now, episode, calm_from, trouble_from, reports>>

Evaluate(t, level) ==
  \/ Ignore(t, level)
  \/ level = Normal /\ Dip(t)
  \/ News(t, level)
  \/ Remind(t, level)
  \/ Quiet(t, level)

Next ==
  \/ \E pause \in Pauses, level \in Levels :
       now + pause <= MaxTime /\ Evaluate(now + pause, level)
  \/ Reload

Spec == Init /\ [][Next]_vars

-----------------------------------------------------------------------------
(* Properties.                                                             *)

TypeOK ==
  /\ now \in Times
  /\ threshold \in Settings
  /\ since \in Times
  /\ normal_since \in Times
  /\ alerted \in {0} \cup Severities
  /\ last_alert \in Times
  /\ first_alert \in Times
  /\ gap \in 0 .. ReminderMax
  /\ event \in {"none", "news", "reminder"}
  /\ calm_from \in Times
  /\ trouble_from \in Times
  /\ loud_from \in Times
  /\ told \subseteq Severities
  /\ news_at \in Times
  /\ repeats \in Nat
  /\ alerted # 0 <=> last_alert # Never
  /\ alerted # 0 <=> first_alert # Never
  /\ alerted # 0 => since # Never

\* "One FIRST alert per severity", and a dip to normal shorter than Rearm is
\* noise: a severity is news only once until it has really been calm
\* (alerts.rs:118-130, 1212-1215).
NewsOnce ==
  [][event' = "news" /\ now' # now => alerted' \notin told]_vars

\* News needs persistence: whatever is reported as news began that long ago,
\* and it has not been calm in between (alerts.rs:56-62).
NewsPersisted ==
  [][event' = "news" /\ now' # now =>
       trouble_from' # Never /\ now' - trouble_from' >= Required(alerted')]_vars

\* "A sparse pulse going for as long as the machine is actually swapping":
\* while verdicts reach the threshold, the last report is never older than
\* the longest gap (alerts.rs:136-144).
Pulse ==
  loud_from # Never /\ now - loud_from >= SlowWindow =>
    last_alert # Never /\ now - last_alert < ReminderMax

\* The time the first n reminders after news take together: the gaps double
\* up to the longest one.
GapBefore[n \in Nat] ==
  IF n = 0 THEN Reminder ELSE AtMost(2 * GapBefore[n - 1], ReminderMax)
Total[n \in Nat] == IF n = 0 THEN 0 ELSE Total[n - 1] + GapBefore[n - 1]

\* "30m, 1h, 2h, 4h, 4h...": reminders are never closer than that
\* (alerts.rs:132-144).
Sparse == last_alert # Never => last_alert - news_at >= Total[repeats]
=============================================================================
