---------------------------- MODULE AlertProofs ------------------------------
(***************************************************************************)
(* Proofs about the memory-pressure alerts (Pressure), for all settings and*)
(* runs of any length, and about the alert records (Records), for every set*)
(* of writers, every retention, and any number of days and of records.     *)
(***************************************************************************)
EXTENDS Pressure, Records, SequenceTheorems, SumProofs

\* Instants are natural numbers, and every level is a natural number.
LEMMA Numbers ==
  /\ MaxTime \in Nat /\ 0 < MaxTime
  /\ Window \in Nat /\ SlowWindow \in Nat /\ Rearm \in Nat
  /\ Reminder \in Nat /\ ReminderMax \in Nat /\ 0 < Rearm
  /\ 0 < Window /\ Window <= SlowWindow
  /\ 0 < Reminder /\ Reminder <= ReminderMax
  /\ Pauses \subseteq Nat \ {0}
  /\ Settings \subseteq {0, 2, 4}
  BY PressureAssumption DEF Off, Severities

-----------------------------------------------------------------------------
(* Type correctness.                                                       *)

\* Whatever the snapshot says, the history stays well-typed.
LEMMA SnapshotType ==
  ASSUME TypeOK, NEW pause \in Pauses, NEW level \in Levels,
         now + pause <= MaxTime, Snapshot(now + pause, level)
  PROVE  /\ now' \in Times
         /\ threshold' \in Settings
         /\ calm_from' \in Times
         /\ trouble_from' \in Times
         /\ loud_from' \in Times
  <1>1. now + pause \in Times
    BY Numbers DEF TypeOK, Times
  <1>2. CalmSince(now + pause, level) \in Times
    BY <1>1, Numbers DEF TypeOK, CalmSince, GetOrInsert, Times, Never
  <1>3. trouble_from' \in Times
    BY <1>1, Numbers DEF TypeOK, Snapshot, GetOrInsert, Times, Never
  <1> QED
    BY <1>1, <1>2, <1>3, Numbers
    DEF TypeOK, Snapshot, GetOrInsert, Times, Never

LEMMA TypeStep == TypeOK /\ [Next]_vars => TypeOK'
  <1> SUFFICES ASSUME TypeOK, [Next]_vars PROVE TypeOK'
    OBVIOUS
  <1>1. CASE UNCHANGED vars
    BY <1>1 DEF vars, episode, history, reports, TypeOK
  <1>2. CASE Reload
    BY <1>2, Numbers
    DEF Reload, episode, reports, TypeOK, Times, Never
  <1>3. ASSUME NEW pause \in Pauses, NEW level \in Levels,
               now + pause <= MaxTime, Evaluate(now + pause, level)
        PROVE  TypeOK'
    <2> DEFINE t == now + pause
    <2>1. t \in Times /\ t # Never
      BY <1>3, Numbers DEF TypeOK, Times, Never
    <2>2. Times \subseteq Nat /\ Never \in Times
      BY Numbers DEF Times, Never
    <2>3. CASE Ignore(t, level)
      <3>1. /\ now' \in Times /\ threshold' \in Settings
            /\ calm_from' \in Times /\ trouble_from' \in Times
            /\ loud_from' \in Times
        BY <1>3, <2>3, SnapshotType DEF Ignore
      <3> QED
        BY <2>3, <3>1 DEF Ignore, NoReport, episode, TypeOK
    <2>4. CASE level = Normal /\ Dip(t)
      <3>1. /\ now' \in Times /\ threshold' \in Settings
            /\ calm_from' \in Times /\ trouble_from' \in Times
            /\ loud_from' \in Times
        BY <1>3, <2>4, SnapshotType DEF Dip
      <3>2. /\ event' = "none" /\ news_at' = news_at /\ repeats' = repeats
            /\ told' \subseteq Severities
        BY <2>4 DEF Dip, NoReport, TypeOK
      <3>3. CASE ClearPressure
        BY <3>1, <3>2, <3>3, <2>2, Numbers
        DEF ClearPressure, TypeOK, Never
      <3>4. CASE /\ normal_since' = GetOrInsert(normal_since, t)
                 /\ UNCHANGED <<since, alerted, last_alert, first_alert, gap>>
        BY <3>1, <3>2, <3>4, <2>1 DEF GetOrInsert, TypeOK
      <3> QED
        BY <2>4, <3>3, <3>4 DEF Dip
    <2>5. ASSUME Above(t, level)
          PROVE  /\ now' \in Times /\ threshold' \in Settings
                 /\ calm_from' \in Times /\ trouble_from' \in Times
                 /\ loud_from' \in Times
                 /\ normal_since' \in Times
                 /\ since' \in Times /\ since' # Never
                 /\ level \in Severities
      <3>1. Snapshot(t, level)
        BY <2>5 DEF Above
      <3> QED
        BY <1>3, <3>1, <2>1, <2>2, <2>5, SnapshotType
        DEF Above, GetOrInsert, TypeOK
    <2>6. CASE News(t, level)
      <3>1. Above(t, level)
        BY <2>6 DEF News
      <3>2. first_alert' \in Times /\ first_alert' # Never
        BY <2>1, <2>6 DEF News, GetOrInsert, TypeOK
      <3>3. level # 0
        BY <2>5, <3>1 DEF Severities
      <3> QED
        BY <2>1, <2>5, <2>6, <3>1, <3>2, <3>3, Numbers DEF News, TypeOK
    <2>7. CASE Remind(t, level)
      <3>1. Above(t, level)
        BY <2>7 DEF Remind
      <3>2. gap' \in 0 .. ReminderMax
        BY <2>7, Numbers DEF Remind, AtMost, TypeOK
      <3>3. repeats' \in Nat
        BY <2>7 DEF Remind, TypeOK
      <3>4. alerted # 0
        BY <2>7 DEF Remind, ReminderDue
      <3> QED
        BY <2>1, <2>5, <2>7, <3>1, <3>2, <3>3, <3>4 DEF Remind, TypeOK
    <2>8. CASE Quiet(t, level)
      <3>1. Above(t, level)
        BY <2>8 DEF Quiet
      <3> QED
        BY <2>5, <2>8, <3>1 DEF Quiet, NoReport, TypeOK
    <2> QED
      BY <1>3, <2>3, <2>4, <2>6, <2>7, <2>8 DEF Evaluate
  <1> QED
    BY <1>1, <1>2, <1>3 DEF Next

\* The rule's state has its type, and what was alerted has an instant
\* (alerts.rs:1205-1227).
THEOREM PressureTypeCorrect == Spec => []TypeOK
  <1>1. Init => TypeOK
    <2>1. 1 \in Times /\ Never \in Times /\ 0 \in 0 .. ReminderMax
      BY Numbers DEF Times, Never
    <2> QED
      BY <2>1 DEF Init, TypeOK
  <1> QED
    BY <1>1, TypeStep, PTL DEF Spec

-----------------------------------------------------------------------------
(* Whatever ends the episode ends the loud stretch too, so the episode is  *)
(* at least as old as the loud stretch.                                    *)

Older ==
  /\ since <= now
  /\ loud_from # Never => since # Never /\ since <= loud_from

LoudInv == TypeOK /\ Older /\ Pulse

\* A snapshot below the threshold is not loud.
LEMMA NotLoud ==
  ASSUME TypeOK, NEW t, NEW level \in {Unknown, Normal},
         Snapshot(t, level)
  PROVE  loud_from' = Never
  BY Numbers DEF TypeOK, Snapshot, Unknown, Normal, Off, Never

\* A verdict above normal keeps the episode older than the loud stretch,
\* and the stretch long only if the episode is.
LEMMA LoudStep ==
  ASSUME LoudInv, NEW pause \in Pauses, NEW level \in Levels,
         now + pause <= MaxTime, Above(now + pause, level)
  PROVE  /\ Older'
         /\ loud_from' # Never /\ now' - loud_from' >= SlowWindow =>
              /\ level >= threshold
              /\ (now + pause) - GetOrInsert(since, now + pause) >= Required(level)
  <1> DEFINE t == now + pause
  <1>1. /\ t \in Nat /\ t # Never /\ loud_from \in Nat /\ since \in Nat
        /\ since <= t
    BY Numbers DEF LoudInv, Older, TypeOK, Times, Never
  <1>2. /\ now' = t
        /\ since' = GetOrInsert(since, t)
        /\ loud_from' = IF threshold # Off /\ level >= threshold
                          THEN GetOrInsert(loud_from, t) ELSE Never
    BY DEF Above, Snapshot
  <1>3. Required(level) \in Nat /\ Required(level) <= SlowWindow
    BY Numbers DEF Required
  <1>4. loud_from' # Never => /\ level >= threshold
                              /\ since' # Never
                              /\ since' <= loud_from'
    BY <1>1, <1>2 DEF LoudInv, Older, GetOrInsert, Never
  <1>5. since' \in Nat /\ loud_from' \in Nat
    BY <1>1, <1>2 DEF GetOrInsert, Never
  <1>6. Older'
    BY <1>1, <1>2, <1>4 DEF Older, GetOrInsert
  <1>7. loud_from' # Never /\ now' - loud_from' >= SlowWindow =>
          t - since' >= Required(level)
    BY <1>1, <1>2, <1>3, <1>4, <1>5, Numbers
  <1> QED
    BY <1>2, <1>4, <1>6, <1>7

LEMMA PulseStep == LoudInv /\ [Next]_vars => LoudInv'
  <1> SUFFICES ASSUME LoudInv, [Next]_vars PROVE Older' /\ Pulse'
    BY TypeStep DEF LoudInv
  <1>1. CASE UNCHANGED vars
    BY <1>1 DEF vars, episode, history, reports, LoudInv, Older, Pulse
  <1>2. CASE Reload
    BY <1>2 DEF Reload, episode, LoudInv, Older, Pulse
  <1>3. ASSUME NEW pause \in Pauses, NEW level \in Levels,
               now + pause <= MaxTime, Evaluate(now + pause, level)
        PROVE  Older' /\ Pulse'
    <2> DEFINE t == now + pause
    <2>1. /\ TypeOK /\ Older /\ Pulse /\ TypeOK'
      BY TypeStep DEF LoudInv
    <2>2. /\ t \in Nat /\ t # Never /\ threshold \in {0, 2, 4}
          /\ alerted \in {0, 2, 4} /\ gap \in Nat /\ gap <= ReminderMax
      BY <2>1, Numbers DEF TypeOK, Times, Never, Severities
    <2>8. since \in Nat /\ now \in Nat /\ now <= t
      BY <2>1, Numbers DEF TypeOK, Times
    <2>3. CASE Ignore(t, level)
      <3>1. loud_from' = Never
        BY <1>3, <2>1, <2>3, NotLoud DEF Ignore, Snapshot
      <3>2. now' = t /\ since' = since
        BY <2>3 DEF Ignore, Snapshot, episode
      <3> QED
        BY <2>1, <2>8, <3>1, <3>2 DEF Older, Pulse
    <2>4. CASE level = Normal /\ Dip(t)
      <3>1. loud_from' = Never
        BY <2>1, <2>4, NotLoud DEF Dip
      <3>2. now' = t /\ since' \in {since, Never}
        BY <2>4 DEF Dip, Snapshot, ClearPressure
      <3> QED
        BY <2>1, <2>8, <3>1, <3>2 DEF Older, Pulse, Never
    <2>5. CASE News(t, level)
      <3>1. Older'
        BY <1>3, <2>5, LoudStep DEF News
      <3>2. now' = t /\ last_alert' = t
        BY <2>5 DEF News, Above, Snapshot
      <3> QED
        BY <2>2, <3>1, <3>2, Numbers DEF Pulse
    <2>6. CASE Remind(t, level)
      <3>1. Older'
        BY <1>3, <2>6, LoudStep DEF Remind
      <3>2. now' = t /\ last_alert' = t
        BY <2>6 DEF Remind, Above, Snapshot
      <3> QED
        BY <2>2, <3>1, <3>2, Numbers DEF Pulse
    <2>7. CASE Quiet(t, level)
      \* Were the stretch long and the last report old, one would be due.
      <3>1. Above(t, level)
        BY <2>7 DEF Quiet
      <3>2. now' = t /\ last_alert' = last_alert
        BY <2>7, <3>1 DEF Quiet, Above, Snapshot
      <3>3. Older'
        BY <1>3, <3>1, LoudStep
      <3>4. ASSUME loud_from' # Never, now' - loud_from' >= SlowWindow
            PROVE  last_alert # Never /\ t - last_alert < ReminderMax
        <4>1. level >= threshold /\ t - GetOrInsert(since, t) >= Required(level)
          BY <1>3, <3>1, <3>4, LoudStep
        <4>2. level \in {2, 4}
          BY <3>1 DEF Above, Severities
        <4>3. level <= alerted
          BY <2>2, <2>7, <4>1, <4>2 DEF Quiet, NewsDue
        <4>4. alerted > 0 /\ last_alert # Never
          BY <2>1, <2>2, <4>2, <4>3 DEF TypeOK
        <4>5. ~(t - last_alert >= gap)
          BY <2>7, <4>1, <4>4 DEF Quiet, ReminderDue
        <4>6. last_alert \in Nat
          BY <2>1, Numbers DEF TypeOK, Times
        <4> QED
          BY <2>2, <4>4, <4>5, <4>6, Numbers
      <3> QED
        BY <3>2, <3>3, <3>4 DEF Pulse
    <2> QED
      BY <1>3, <2>3, <2>4, <2>5, <2>6, <2>7 DEF Evaluate
  <1> QED
    BY <1>1, <1>2, <1>3 DEF Next

\* While the verdict stays at the threshold or above, the last report is
\* never older than the longest gap (alerts.rs:136-144).
THEOREM PulseHolds == Spec => []Pulse
  <1>1. Init => LoudInv
    <2>1. 1 \in Times /\ Never \in Times /\ 0 \in 0 .. ReminderMax
      BY Numbers DEF Times, Never
    <2> QED
      BY <2>1 DEF Init, LoudInv, TypeOK, Older, Pulse, Never
  <1>2. LoudInv => Pulse
    BY DEF LoudInv
  <1> QED
    BY <1>1, <1>2, PulseStep, PTL DEF Spec

-----------------------------------------------------------------------------
(* As long as the rule is not switched off, the episode begins with the    *)
(* first verdict above normal and ends when it has been calm, so what was  *)
(* told in it is at most what was alerted.                                 *)

EpisodeInv ==
  /\ TypeOK
  /\ since # Never => normal_since = calm_from
  /\ trouble_from = since
  /\ \A severity \in told : severity <= alerted

LEMMA EpisodeStep ==
  ASSUME Off \notin Settings
  PROVE  EpisodeInv /\ [Next]_vars => EpisodeInv'
  <1> SUFFICES ASSUME EpisodeInv, [Next]_vars PROVE EpisodeInv'
    OBVIOUS
  <1>1. TypeOK /\ TypeOK'
    BY TypeStep DEF EpisodeInv
  <1>2. CASE UNCHANGED vars
    BY <1>1, <1>2 DEF vars, episode, history, reports, EpisodeInv
  <1>3. CASE Reload
    BY <1>1, <1>3 DEF Reload, episode, reports, EpisodeInv
  <1>4. ASSUME NEW pause \in Pauses, NEW level \in Levels,
               now + pause <= MaxTime, Evaluate(now + pause, level)
        PROVE  EpisodeInv'
    <2> DEFINE t == now + pause
    <2>1. t \in Nat /\ t # Never /\ alerted \in {0, 2, 4}
      BY <1>1, Numbers DEF TypeOK, Times, Never, Severities
    <2>2. CASE Ignore(t, level)
      <3>1. level = Unknown
        BY <1>1, <2>2 DEF Ignore, TypeOK
      <3>2. calm_from' = calm_from /\ trouble_from' = trouble_from
        BY <2>2, <3>1
        DEF Ignore, Snapshot, CalmSince, IsCalm, Unknown, Normal, Severities
      <3>3. told' = told
        BY <2>2, <3>1 DEF Ignore, NoReport, IsCalm, Unknown, Normal
      <3> QED
        BY <1>1, <2>2, <3>2, <3>3 DEF Ignore, episode, EpisodeInv
    <2>3. CASE level = Normal /\ Dip(t)
      <3>1. /\ calm_from' = GetOrInsert(calm_from, t)
            /\ IsCalm(t, Normal) <=> t - GetOrInsert(calm_from, t) >= Rearm
            /\ trouble_from' = IF IsCalm(t, Normal) THEN Never ELSE trouble_from
            /\ told' = IF IsCalm(t, Normal) THEN {} ELSE told
        <4>1. /\ CalmSince(t, Normal) = GetOrInsert(calm_from, t)
              /\ IsCalm(t, Normal) <=> t - GetOrInsert(calm_from, t) >= Rearm
          BY DEF CalmSince, IsCalm, Normal, Unknown
        <4> QED
          BY <2>3, <4>1 DEF Dip, Snapshot, NoReport, Normal, Severities
      <3>2. CASE since = Never
        <4>1. alerted = 0 /\ told = {} /\ since' = Never /\ alerted' = 0
          <5>1. alerted = 0
            BY <1>1, <3>2 DEF TypeOK
          <5>2. told = {}
            BY <1>1, <5>1 DEF EpisodeInv, TypeOK, Severities
          <5> QED
            BY <2>3, <3>2, <5>1, <5>2 DEF Dip, ClearPressure
        <4> QED
          BY <1>1, <3>1, <3>2, <4>1 DEF EpisodeInv
      <3>3. CASE since # Never /\ t - GetOrInsert(calm_from, t) >= Rearm
        BY <1>1, <2>3, <3>1, <3>3 DEF Dip, ClearPressure, EpisodeInv
      <3>4. CASE since # Never /\ ~(t - GetOrInsert(calm_from, t) >= Rearm)
        BY <1>1, <2>3, <3>1, <3>4 DEF Dip, EpisodeInv
      <3> QED
        BY <3>2, <3>3, <3>4
    <2>4. ASSUME Above(t, level)
          PROVE  /\ normal_since' = calm_from'
                 /\ trouble_from' = since'
                 /\ ~IsCalm(t, level)
                 /\ level \in {2, 4}
      BY <2>4, <1>1
      DEF Above, Snapshot, CalmSince, IsCalm, Severities, Normal, Unknown,
          EpisodeInv
    <2>5. CASE News(t, level)
      <3>1. level > alerted /\ alerted' = level /\ told' = told \cup {level}
        BY <2>5 DEF News, NewsDue
      <3>2. told \subseteq {2, 4}
        BY <1>1 DEF TypeOK, Severities
      <3>3. /\ normal_since' = calm_from' /\ trouble_from' = since'
            /\ level \in {2, 4}
        BY <2>4, <2>5 DEF News
      <3>4. \A severity \in told' : severity <= alerted'
        BY <2>1, <3>1, <3>2, <3>3 DEF EpisodeInv
      <3> QED
        BY <1>1, <3>3, <3>4 DEF EpisodeInv
    <2>6. CASE Remind(t, level)
      BY <1>1, <2>4, <2>6 DEF Remind, EpisodeInv
    <2>7. CASE Quiet(t, level)
      BY <1>1, <2>4, <2>7 DEF Quiet, NoReport, EpisodeInv
    <2> QED
      BY <1>4, <2>2, <2>3, <2>5, <2>6, <2>7 DEF Evaluate
  <1> QED
    BY <1>2, <1>3, <1>4 DEF Next

LEMMA EpisodeInvariant ==
  ASSUME Off \notin Settings
  PROVE  Spec => []EpisodeInv
  <1>1. Init => EpisodeInv
    <2>1. 1 \in Times /\ Never \in Times /\ 0 \in 0 .. ReminderMax
      BY Numbers DEF Times, Never
    <2> QED
      BY <2>1 DEF Init, EpisodeInv, TypeOK
  <1> QED
    BY <1>1, EpisodeStep, PTL DEF Spec

\* Only News reports news, and time passes only with a snapshot.
LEMMA NewsOnly ==
  ASSUME [Next]_vars, event' = "news", now' # now
  PROVE  \E pause \in Pauses, level \in Levels :
           now + pause <= MaxTime /\ News(now + pause, level)
  <1>1. ~UNCHANGED vars /\ ~Reload
    BY DEF vars, Reload
  <1>2. PICK pause \in Pauses, level \in Levels :
          now + pause <= MaxTime /\ Evaluate(now + pause, level)
    BY <1>1 DEF Next
  <1> QED
    BY <1>2 DEF Evaluate, Ignore, Dip, Remind, Quiet, NoReport

\* As long as the rule is not switched off, a severity is news only once
\* until it has been calm (alerts.rs:1212-1215).
THEOREM NewsIsNew ==
  ASSUME Off \notin Settings
  PROVE  Spec => NewsOnce
  <1>1. EpisodeInv /\ [Next]_vars =>
          [event' = "news" /\ now' # now => alerted' \notin told]_vars
    <2> SUFFICES ASSUME EpisodeInv, [Next]_vars, event' = "news", now' # now
                 PROVE  alerted' \notin told
      OBVIOUS
    <2>1. PICK pause \in Pauses, level \in Levels : News(now + pause, level)
      BY NewsOnly
    <2>2. level > alerted /\ alerted' = level
      BY <2>1 DEF News, NewsDue
    <2>3. level \in Nat /\ alerted \in Nat
      BY DEF Levels, Unknown, Normal, Severities, EpisodeInv, TypeOK
    <2> QED
      BY <2>2, <2>3 DEF EpisodeInv
  <1> QED
    BY <1>1, EpisodeInvariant, PTL DEF Spec, NewsOnce

\* As long as the rule is not switched off, what is reported as news began
\* the required time ago, with no calm since (alerts.rs:56-62).
THEOREM NewsIsOld ==
  ASSUME Off \notin Settings
  PROVE  Spec => NewsPersisted
  <1> DEFINE Persisted ==
        event' = "news" /\ now' # now =>
          /\ trouble_from' # Never
          /\ now' - trouble_from' >= Required(alerted')
  <1>1. EpisodeInv /\ [Next]_vars => Persisted
    <2> SUFFICES ASSUME EpisodeInv, [Next]_vars, event' = "news", now' # now
                 PROVE  /\ trouble_from' # Never
                        /\ now' - trouble_from' >= Required(alerted')
      OBVIOUS
    <2>1. PICK pause \in Pauses, level \in Levels :
            now + pause <= MaxTime /\ News(now + pause, level)
      BY NewsOnly
    <2>2. /\ now' = now + pause
          /\ alerted' = level
          /\ since' = GetOrInsert(since, now + pause)
          /\ (now + pause) - GetOrInsert(since, now + pause) >= Required(level)
      <3>1. Above(now + pause, level) /\ NewsDue(now + pause, level)
        BY <2>1 DEF News
      <3>2. now' = now + pause /\ since' = GetOrInsert(since, now + pause)
        BY <3>1 DEF Above, Snapshot
      <3>3. alerted' = level
        BY <2>1 DEF News
      <3> QED
        BY <3>1, <3>2, <3>3 DEF NewsDue
    <2>3. EpisodeInv'
      BY EpisodeStep
    <2>4. since' # Never
      BY <2>2, Numbers DEF GetOrInsert, EpisodeInv, TypeOK, Times, Never
    <2> QED
      BY <2>2, <2>3, <2>4 DEF EpisodeInv
  <1> QED
    BY <1>1, EpisodeInvariant, PTL DEF Spec, NewsPersisted

-----------------------------------------------------------------------------
(* The reminders of an episode back off.  Their gaps are defined by         *)
(* recursion, so what the definitions yield is proved by induction first.  *)

\* A function on the natural numbers may be defined by its first value and a
\* step from each value to the next.
LEMMA Iterated ==
  ASSUME NEW first \in Nat, NEW step \in [Nat -> [Nat -> Nat]]
  PROVE  \E f \in [Nat -> Nat] : f[0] = first /\ \A n \in Nat : f[n + 1] = step[n][f[n]]
  <1> DEFINE To(n, f) == /\ f \in [Nat -> Nat] /\ f[0] = first
                         /\ \A m \in Nat : m < n => f[m + 1] = step[m][f[m]]
             Reached == {n \in Nat : \E f : To(n, f)}
             pick(n) == CHOOSE f : To(n, f)
             f == [n \in Nat |-> pick(n)[n]]
  <1>1. 0 \in Reached
    <2>1. To(0, [m \in Nat |-> first])
      OBVIOUS
    <2> QED
      BY <2>1
  <1>2. ASSUME NEW n \in Nat, n \in Reached PROVE n + 1 \in Reached
    <2>1. PICK g : To(n, g)
      BY <1>2
    <2> DEFINE value == step[n][g[n]]
               h == [m \in Nat |-> IF m = n + 1 THEN value ELSE g[m]]
    <2>2. value \in Nat
      <3>1. g \in [Nat -> Nat] /\ g[n] \in Nat
        BY <2>1
      <3>2. step[n] \in [Nat -> Nat]
        OBVIOUS
      <3> QED
        BY <3>1, <3>2
    <2> HIDE DEF value
    <2>6. h \in [Nat -> Nat] /\ h[n + 1] = value
      <3>1. \A m \in Nat : g[m] \in Nat
        BY <2>1
      <3> QED
        BY <2>2, <3>1
    <2>3. \A m \in Nat : m <= n => h[m] = g[m]
      OBVIOUS
    <2>4. ASSUME NEW m \in Nat, m < n + 1 PROVE h[m + 1] = step[m][h[m]]
      <3> HIDE DEF h
      <3>1. CASE m = n
        <4>1. h[m] = g[n]
          <5>1. m <= n
            BY <3>1
          <5> QED
            BY <2>3, <3>1, <5>1
        <4> QED
          BY <2>6, <3>1, <4>1 DEF value
      <3>2. CASE m < n
        <4>1. m + 1 \in Nat /\ m + 1 <= n /\ m <= n
          BY <3>2
        <4>2. h[m + 1] = g[m + 1] /\ h[m] = g[m]
          BY <2>3, <4>1
        <4>3. g[m + 1] = step[m][g[m]]
          BY <2>1, <3>2
        <4> QED
          BY <4>2, <4>3
      <3> QED
        BY <2>4, <3>1, <3>2
    <2>5. To(n + 1, h)
      <3>1. h[0] = first
        BY <2>1, <2>3
      <3> HIDE DEF h
      <3> QED
        BY <2>4, <2>6, <3>1
    <2> HIDE DEF To, h
    <2> QED
      BY <2>5
  <1>3. \A n \in Nat : To(n, pick(n))
    <2>1. Nat \subseteq Reached
      <3> HIDE DEF Reached
      <3> QED
        BY <1>1, <1>2, Inductive
    <2> HIDE DEF To
    <2> QED
      BY <2>1
  <1> HIDE DEF pick
  <1>4. ASSUME NEW n \in Nat PROVE pick(n + 1)[n] = pick(n)[n]
    <2> DEFINE Same == {m \in Nat : m <= n => pick(n + 1)[m] = pick(n)[m]}
    <2>5. n + 1 \in Nat
      OBVIOUS
    <2>1. To(n, pick(n)) /\ To(n + 1, pick(n + 1))
      <3> HIDE DEF To
      <3> QED
        BY <1>3, <2>5
    <2>2. 0 \in Same
      BY <2>1
    <2>3. ASSUME NEW m \in Nat, m \in Same PROVE m + 1 \in Same
      <3> SUFFICES ASSUME m + 1 <= n PROVE pick(n + 1)[m + 1] = pick(n)[m + 1]
        OBVIOUS
      <3>1. pick(n + 1)[m] = pick(n)[m]
        BY <2>3
      <3>2. m < n /\ m < n + 1
        OBVIOUS
      <3>3. pick(n)[m + 1] = step[m][pick(n)[m]]
        BY <2>1, <3>2
      <3>4. pick(n + 1)[m + 1] = step[m][pick(n + 1)[m]]
        BY <2>1, <3>2
      <3> QED
        BY <3>1, <3>3, <3>4
    <2>4. Nat \subseteq Same
      <3> HIDE DEF Same
      <3> QED
        BY <2>2, <2>3, Inductive
    <2> QED
      BY <2>4
  <1>5. f \in [Nat -> Nat] /\ f[0] = first
    BY <1>3
  <1>6. ASSUME NEW n \in Nat PROVE f[n + 1] = step[n][f[n]]
    <2>1. f[n + 1] = pick(n + 1)[n + 1] /\ f[n] = pick(n)[n]
      OBVIOUS
    <2>2. pick(n + 1)[n + 1] = step[n][pick(n + 1)[n]]
      BY <1>3
    <2> QED
      BY <1>4, <2>1, <2>2
  <1> HIDE DEF f
  <1> QED
    BY <1>5, <1>6

\* The gaps are natural numbers, the first is Reminder, and each is twice the
\* one before up to the longest.
LEMMA Gaps ==
  /\ GapBefore \in [Nat -> Nat]
  /\ GapBefore[0] = Reminder
  /\ \A n \in Nat : GapBefore[n + 1] = AtMost(2 * GapBefore[n], ReminderMax)
  <1> DEFINE step == [n \in Nat |-> [x \in Nat |-> AtMost(2 * x, ReminderMax)]]
  <1>1. step \in [Nat -> [Nat -> Nat]]
    BY Numbers DEF AtMost
  <1>2. PICK f \in [Nat -> Nat] : f[0] = Reminder /\ \A n \in Nat : f[n + 1] = step[n][f[n]]
    <2> HIDE DEF step
    <2>1. Reminder \in Nat
      BY Numbers
    <2> QED
      BY <1>1, <2>1, Iterated
  <1>3. f = [n \in Nat |-> IF n = 0 THEN Reminder ELSE AtMost(2 * f[n - 1], ReminderMax)]
    <2>1. ASSUME NEW n \in Nat, n # 0 PROVE f[n] = AtMost(2 * f[n - 1], ReminderMax)
      <3>1. n - 1 \in Nat /\ (n - 1) + 1 = n
        BY <2>1
      <3>2. f[(n - 1) + 1] = step[n - 1][f[n - 1]]
        BY <1>2, <3>1
      <3> QED
        BY <1>2, <3>1, <3>2
    <2> QED
      BY <1>2, <2>1
  <1>4. GapBefore = [n \in Nat |-> IF n = 0 THEN Reminder ELSE AtMost(2 * GapBefore[n - 1], ReminderMax)]
    BY <1>3 DEF GapBefore
  <1>5. GapBefore[0] = Reminder
    BY <1>4
  <1>6. ASSUME NEW n \in Nat PROVE GapBefore[n + 1] = AtMost(2 * GapBefore[n], ReminderMax)
    <2>1. n + 1 \in Nat /\ n + 1 # 0 /\ (n + 1) - 1 = n
      OBVIOUS
    <2> QED
      BY <1>4, <2>1
  <1>7. GapBefore \in [Nat -> Nat]
    <2> DEFINE G == {n \in Nat : GapBefore[n] \in Nat}
    <2>1. 0 \in G
      BY <1>5, Numbers
    <2>2. \A n \in Nat : n \in G => n + 1 \in G
      BY <1>6, Numbers DEF AtMost
    <2>3. Nat \subseteq G
      <3> HIDE DEF G
      <3> QED
        BY <2>1, <2>2, Inductive
    <2>4. \A n \in Nat : GapBefore[n] \in Nat
      BY <2>3
    <2> QED
      BY <1>4, <2>4
  <1> QED
    BY <1>5, <1>6, <1>7

\* So are their sums, each the one before and a gap.
LEMMA Totals ==
  /\ Total \in [Nat -> Nat]
  /\ Total[0] = 0
  /\ \A n \in Nat : Total[n + 1] = Total[n] + GapBefore[n]
  <1> DEFINE step == [n \in Nat |-> [x \in Nat |-> x + GapBefore[n]]]
  <1>0. \A n \in Nat : GapBefore[n] \in Nat
    BY Gaps
  <1>1. step \in [Nat -> [Nat -> Nat]]
    BY <1>0
  <1>2. PICK f \in [Nat -> Nat] : f[0] = 0 /\ \A n \in Nat : f[n + 1] = step[n][f[n]]
    <2> HIDE DEF step
    <2> QED
      BY <1>1, Iterated
  <1>3. f = [n \in Nat |-> IF n = 0 THEN 0 ELSE f[n - 1] + GapBefore[n - 1]]
    <2>1. ASSUME NEW n \in Nat, n # 0 PROVE f[n] = f[n - 1] + GapBefore[n - 1]
      <3>1. n - 1 \in Nat /\ (n - 1) + 1 = n
        BY <2>1
      <3>2. f[(n - 1) + 1] = step[n - 1][f[n - 1]]
        BY <1>2, <3>1
      <3>3. f[n - 1] \in Nat
        BY <1>2, <3>1
      <3> QED
        BY <3>1, <3>2, <3>3
    <2> QED
      BY <1>2, <2>1
  <1>4. Total = [n \in Nat |-> IF n = 0 THEN 0 ELSE Total[n - 1] + GapBefore[n - 1]]
    BY <1>3 DEF Total
  <1>5. Total[0] = 0
    BY <1>4
  <1>6. ASSUME NEW n \in Nat PROVE Total[n + 1] = Total[n] + GapBefore[n]
    <2>1. n + 1 \in Nat /\ n + 1 # 0 /\ (n + 1) - 1 = n
      OBVIOUS
    <2> QED
      BY <1>4, <2>1
  <1>7. Total \in [Nat -> Nat]
    <2> DEFINE G == {n \in Nat : Total[n] \in Nat}
    <2>1. 0 \in G
      BY <1>5
    <2>2. \A n \in Nat : n \in G => n + 1 \in G
      BY <1>0, <1>6
    <2>3. Nat \subseteq G
      <3> HIDE DEF G
      <3> QED
        BY <2>1, <2>2, Inductive
    <2>4. \A n \in Nat : Total[n] \in Nat
      BY <2>3
    <2> QED
      BY <1>4, <2>4
  <1> QED
    BY <1>5, <1>6, <1>7

-----------------------------------------------------------------------------

\* The gap is the one the count of reminders calls for, and the reminders so
\* far were at least their gaps apart.
Spaced ==
  last_alert # Never =>
    /\ gap = GapBefore[repeats]
    /\ news_at <= last_alert
    /\ last_alert - news_at >= Total[repeats]

SpacedInv == TypeOK /\ Spaced

LEMMA SpacedStep == SpacedInv /\ [Next]_vars => SpacedInv'
  <1> SUFFICES ASSUME SpacedInv, [Next]_vars PROVE Spaced'
    BY TypeStep DEF SpacedInv
  <1>1. TypeOK /\ Spaced /\ TypeOK'
    BY TypeStep DEF SpacedInv
  <1>2. ASSUME UNCHANGED <<last_alert, gap, news_at, repeats>> PROVE Spaced'
    BY <1>1, <1>2 DEF Spaced
  <1>3. CASE UNCHANGED vars
    BY <1>2, <1>3 DEF vars, episode, reports
  <1>4. CASE Reload
    BY <1>2, <1>4 DEF Reload, episode, reports
  <1>5. ASSUME NEW pause \in Pauses, NEW level \in Levels,
               now + pause <= MaxTime, Evaluate(now + pause, level)
        PROVE  Spaced'
    <2> DEFINE t == now + pause
    <2>1. CASE Ignore(t, level)
      BY <1>2, <2>1 DEF Ignore, NoReport, episode
    <2>2. CASE level = Normal /\ Dip(t)
      <3>1. CASE last_alert' = Never
        BY <3>1 DEF Spaced
      <3>2. CASE last_alert' # Never
        BY <1>2, <2>2, <3>2 DEF Dip, NoReport, ClearPressure
      <3> QED
        BY <3>1, <3>2
    <2>3. CASE News(t, level)
      <3>1. gap' = Reminder /\ last_alert' = t /\ news_at' = t /\ repeats' = 0
        BY <2>3 DEF News
      <3>2. t \in Nat
        BY <1>1, Numbers DEF TypeOK, Times
      <3> QED
        BY <3>1, <3>2, Gaps, Totals DEF Spaced
    <2>4. CASE Remind(t, level)
      <3>1. /\ gap' = AtMost(gap * 2, ReminderMax) /\ last_alert' = t
            /\ news_at' = news_at /\ repeats' = repeats + 1
            /\ last_alert # Never /\ t - last_alert >= gap
        BY <2>4 DEF Remind, ReminderDue
      <3>2. /\ t \in Nat /\ last_alert \in Nat /\ news_at \in Nat
            /\ repeats \in Nat /\ gap \in Nat
        BY <1>1, Numbers DEF TypeOK, Times
      <3>3. /\ gap = GapBefore[repeats] /\ news_at <= last_alert
            /\ last_alert - news_at >= Total[repeats]
        BY <1>1, <3>1 DEF Spaced
      <3>4. gap' = GapBefore[repeats + 1]
        BY <3>1, <3>2, <3>3, Gaps
      <3>5. Total[repeats + 1] = Total[repeats] + gap /\ Total[repeats] \in Nat
        BY <3>2, <3>3, Totals
      <3>6. t - news_at >= Total[repeats] + gap /\ news_at <= t
        BY <3>1, <3>2, <3>3, <3>5
      <3> QED
        BY <3>1, <3>4, <3>5, <3>6 DEF Spaced
    <2>5. CASE Quiet(t, level)
      BY <1>2, <2>5 DEF Quiet, NoReport
    <2> QED
      BY <1>5, <2>1, <2>2, <2>3, <2>4, <2>5 DEF Evaluate
  <1> QED
    BY <1>3, <1>4, <1>5 DEF Next

\* Reminders come no closer than 30m, 1h, 2h, 4h, 4h... (alerts.rs:132-144):
\* however often the settings are reloaded and however long the episode, the
\* last report is at least the sum of the gaps so far after the news.
THEOREM RemindersSparse == Spec => []Sparse
  <1>1. Init => SpacedInv
    <2>1. 1 \in Times /\ Never \in Times /\ 0 \in 0 .. ReminderMax
      BY Numbers DEF Times, Never
    <2> QED
      BY <2>1 DEF Init, SpacedInv, TypeOK, Spaced
  <1>2. SpacedInv => Sparse
    BY DEF SpacedInv, Spaced, Sparse
  <1> QED
    BY <1>1, <1>2, SpacedStep, PTL DEF Spec

-----------------------------------------------------------------------------
(* Records: its type, that an acknowledged record is read back, and that   *)
(* the files implement MetricHistory.                                      *)

USE RecordsAssumption DEF RecordsAssumption, Days, Submissions, Newline, Torn,
    Garbled

-----------------------------------------------------------------------------
(* What one write call does to what a reader finds in a file.              *)

LEMMA AppendDomain ==
  ASSUME NEW s \in Seq(Nat), NEW x \in Nat
  PROVE  LET t == Append(s, x) IN
         /\ t \in Seq(Nat)
         /\ Len(t) = Len(s) + 1
         /\ DOMAIN s = 1..Len(s) /\ Len(s) \in Nat
         /\ DOMAIN t = 1..(Len(s) + 1)
         /\ \A i \in DOMAIN s : t[i] = s[i]
         /\ t[Len(s) + 1] = x
OBVIOUS

LEMMA Positions ==
  ASSUME NEW n \in Nat, NEW i \in 1..(n + 1)
  PROVE  /\ i < n \/ i = n \/ i = n + 1
         /\ i > 1 => i - 1 \in 1..n
         /\ i < n => i \in 1..n /\ i + 1 \in 1..n /\ i < n + 1
         /\ i = n => i \in 1..n /\ i + 1 = n + 1 /\ i < n + 1 /\ ~(i < n)
         /\ i = n + 1 => i \notin 1..n /\ i - 1 = n /\ ~(i < n + 1) /\ ~(i < n) /\ i # n
         /\ i = n + 1 => (i > 1 <=> n # 0)
OBVIOUS

LEMMA AppendParsed ==
  ASSUME NEW s \in Seq(Nat), NEW x \in Nat,
         NEW i \in 1..(Len(s) + 1)
  PROVE  i \in Parsed(Append(s, x)) <=>
           \/ i < Len(s) /\ i \in Parsed(s)
           \/ i = Len(s) /\ i \in Parsed(s) /\ x = Newline
           \/ i = Len(s) + 1 /\ x \in Submissions /\ ~Unfinished(s)
<1> DEFINE t == Append(s, x)
<1>1. /\ t \in Seq(Nat) /\ Len(t) = Len(s) + 1 /\ DOMAIN s = 1..Len(s) /\ Len(s) \in Nat
      /\ DOMAIN t = 1..(Len(s) + 1) /\ \A j \in DOMAIN s : t[j] = s[j]
      /\ t[Len(s) + 1] = x
  BY AppendDomain
<1>2. i \in Parsed(t) <=> /\ t[i] \in Submissions
                          /\ i > 1 => t[i - 1] = Newline
                          /\ i < Len(t) => t[i + 1] = Newline
  BY <1>1 DEF Parsed
<1>3. i \in Parsed(s) <=> /\ i \in DOMAIN s
                          /\ s[i] \in Submissions
                          /\ i > 1 => s[i - 1] = Newline
                          /\ i < Len(s) => s[i + 1] = Newline
  BY <1>1 DEF Parsed
<1> DEFINE n == Len(s)
<1>4. /\ i < n \/ i = n \/ i = n + 1
      /\ i > 1 => i - 1 \in 1..n
      /\ i < n => i \in 1..n /\ i + 1 \in 1..n /\ i < n + 1
      /\ i = n => i \in 1..n /\ i + 1 = n + 1 /\ i < n + 1 /\ ~(i < n)
      /\ i = n + 1 => i \notin 1..n /\ i - 1 = n /\ ~(i < n + 1) /\ ~(i < n) /\ i # n
      /\ i = n + 1 => (i > 1 <=> n # 0)
  BY <1>1, Positions
<1>5. i = n + 1 => (Unfinished(s) <=> i > 1 /\ s[i - 1] # Newline)
  <2>1. s = <<>> <=> n = 0
    OBVIOUS
  <2>2. i = n + 1 => (Unfinished(s) <=> n # 0 /\ s[n] # Newline)
    BY <2>1 DEF Unfinished
  <2> QED BY <2>2, <1>4
<1> HIDE DEF n, t
<1>6. DOMAIN s = 1..n /\ Len(s) = n /\ Len(t) = n + 1 /\ t[n + 1] = x
      /\ \A j \in 1..n : t[j] = s[j]
  BY <1>1 DEF n
<1>7. CASE i < n
  BY <1>2, <1>3, <1>4, <1>6, <1>7 DEF t
<1>8. CASE i = n
  BY <1>2, <1>3, <1>4, <1>6, <1>8 DEF t
<1>9. CASE i = n + 1
  BY <1>2, <1>3, <1>4, <1>5, <1>6, <1>9 DEF t
<1> QED BY <1>4, <1>7, <1>8, <1>9 DEF n

\* A newline finishes the open line; anything else leaves the finished lines
\* alone and stands on the last line if that had been finished.
LEMMA AppendToFile ==
  ASSUME NEW s \in Seq(Nat), NEW x \in Nat
  PROVE  /\ Finished(Append(s, x)) =
              IF x = Newline THEN Finished(s) \cup Open(s) ELSE Finished(s)
         /\ Open(Append(s, x)) =
              IF x \in Submissions /\ ~Unfinished(s) THEN {x} ELSE {}
         /\ x # Newline => Unfinished(Append(s, x))
<1> DEFINE t == Append(s, x)
<1>1. /\ t \in Seq(Nat) /\ Len(t) = Len(s) + 1 /\ DOMAIN s = 1..Len(s) /\ Len(s) \in Nat
      /\ DOMAIN t = 1..(Len(s) + 1) /\ \A j \in DOMAIN s : t[j] = s[j]
      /\ t[Len(s) + 1] = x
  BY AppendDomain
<1>2. Parsed(s) \subseteq 1..Len(s) /\ Parsed(t) \subseteq 1..(Len(s) + 1)
  BY <1>1 DEF Parsed
<1>3. Parsed(t) \ {Len(t)} = IF x = Newline THEN Parsed(s) ELSE Parsed(s) \ {Len(s)}
  BY <1>1, <1>2, AppendParsed
<1>4. Parsed(t) \cap {Len(t)} =
        IF x \in Submissions /\ ~Unfinished(s) THEN {Len(t)} ELSE {}
  BY <1>1, <1>2, AppendParsed
<1>5. \A j \in Parsed(s) : t[j] = s[j]
  BY <1>1, <1>2
<1>6. Finished(t) = IF x = Newline THEN Finished(s) \cup Open(s) ELSE Finished(s)
  BY <1>3, <1>5 DEF Finished, Open
<1>7. Open(t) = IF x \in Submissions /\ ~Unfinished(s) THEN {x} ELSE {}
  BY <1>1, <1>4 DEF Open
<1>8. x # Newline => Unfinished(t)
  BY <1>1 DEF Unfinished
<1> QED BY <1>6, <1>7, <1>8

\* What was written stays there to refuse a reader, and only a line cut inside
\* a character adds to it.
LEMMA AppendRefuses ==
  ASSUME NEW s \in Seq(Nat), NEW x \in Nat
  PROVE  Refuses(Append(s, x)) <=> Refuses(s) \/ x = Garbled
<1> DEFINE t == Append(s, x)
<1>1. /\ DOMAIN s = 1..Len(s) /\ Len(s) \in Nat
      /\ DOMAIN t = 1..(Len(s) + 1) /\ \A i \in DOMAIN s : t[i] = s[i]
      /\ t[Len(s) + 1] = x
  BY AppendDomain
<1>2. DOMAIN t = DOMAIN s \cup {Len(s) + 1}
  BY <1>1
<1> HIDE DEF t
<1>3. Refuses(t) <=> Refuses(s) \/ x = Garbled
  BY <1>1, <1>2 DEF Refuses
<1> QED BY <1>3 DEF t

LEMMA NothingInNoFile ==
  Finished(<<>>) = {} /\ Open(<<>>) = {} /\ ~Refuses(<<>>)
BY DEF Finished, Open, Parsed, Refuses

LEMMA ReadIsWritten ==
  ASSUME NEW s
  PROVE  /\ Finished(s) \cup Open(s) \subseteq {s[i] : i \in DOMAIN s} \cap Submissions
BY DEF Finished, Open, Parsed

-----------------------------------------------------------------------------
(* The type invariant.                                                     *)

LEMMA PutType ==
  ASSUME file \in [Days -> Seq(0..MaxRecords + 2)], NEW d \in Days,
         NEW x \in 0..MaxRecords + 2, Put(d, x)
  PROVE  file' \in [Days -> Seq(0..MaxRecords + 2)]
BY DEF Put

LEMMA InitType == RecordsInit => RecordsTypeOK
BY DEF RecordsInit, RecordsTypeOK, Job, Idle

LEMMA OpenType ==
  ASSUME RecordsTypeOK, NEW w \in Writers, NEW n \in 1..2, Append_open(w, n)
  PROVE  RecordsTypeOK'
<1> DEFINE rs == [i \in 1..n |-> submitted + i]
<1>1. rs \in Seq(Submissions) /\ rs # <<>>
  <2>1. \A i \in 1..n : submitted + i \in Submissions
    BY DEF RecordsTypeOK, Append_open
  <2>2. rs \in [1..n -> Submissions] /\ 1 \in DOMAIN rs
    BY <2>1
  <2> QED BY <2>2
<1> DEFINE new == [at |-> "line", day |-> today, lines |-> rs, left |-> rs]
<1>2. new \in Job
  BY <1>1 DEF RecordsTypeOK, Job
<1> HIDE DEF rs
<1>3. job' = [job EXCEPT ![w] = new]
  BY DEF Append_open, rs
<1>4. job' \in [Writers -> Job]
  BY <1>2, <1>3 DEF RecordsTypeOK
<1>5. \A v \in Writers :
        /\ job'[v].at # "idle" => job'[v].day \in Days
        /\ job'[v].at \in {"line", "newline"} => job'[v].left # <<>>
  BY <1>1, <1>3 DEF RecordsTypeOK
<1>6. today \in Days /\ exists' \in SUBSET Days /\ submitted' \in 0..MaxRecords
  BY DEF RecordsTypeOK, Append_open
<1> QED BY <1>4, <1>5, <1>6 DEF RecordsTypeOK, Append_open

LEMMA LineType ==
  ASSUME RecordsTypeOK, NEW w \in Writers, Append_line(w)
  PROVE  RecordsTypeOK'
<1>1. job[w] \in Job /\ job[w].day \in Days /\ job[w].left # <<>>
  BY DEF RecordsTypeOK, Append_line
<1>2. Head(job[w].left) \in Submissions
  BY <1>1 DEF Job
<1>3. file' \in [Days -> Seq(0..MaxRecords + 2)]
  <2>1. Head(job[w].left) \in 0..MaxRecords + 2
    BY <1>2
  <2>2. Put(job[w].day, Head(job[w].left)) /\ file \in [Days -> Seq(0..MaxRecords + 2)]
    BY DEF RecordsTypeOK, Append_line
  <2> QED BY <1>1, <2>1, <2>2, PutType
<1>4. job' = [job EXCEPT ![w] = [job[w] EXCEPT !.at = "newline"]]
  BY DEF Append_line
<1>5. [job[w] EXCEPT !.at = "newline"] \in Job
  BY <1>1 DEF Job
<1>6. job' \in [Writers -> Job]
  BY <1>4, <1>5 DEF RecordsTypeOK
<1>7. \A v \in Writers :
        /\ job'[v].at # "idle" => job'[v].day \in Days
        /\ job'[v].at \in {"line", "newline"} => job'[v].left # <<>>
  BY <1>1, <1>4 DEF RecordsTypeOK, Job
<1> QED BY <1>1, <1>3, <1>6, <1>7 DEF RecordsTypeOK, Append_line

LEMMA NewlineType ==
  ASSUME RecordsTypeOK, NEW w \in Writers, Append_newline(w)
  PROVE  RecordsTypeOK'
<1>1. job[w] \in Job /\ job[w].day \in Days /\ job[w].left # <<>>
  BY DEF RecordsTypeOK, Append_newline
<1>2. file' \in [Days -> Seq(0..MaxRecords + 2)]
  <2>1. Newline \in 0..MaxRecords + 2
    OBVIOUS
  <2>2. Put(job[w].day, Newline) /\ file \in [Days -> Seq(0..MaxRecords + 2)]
    BY DEF RecordsTypeOK, Append_newline
  <2> QED BY <1>1, <2>1, <2>2, PutType
<1> DEFINE tail == Tail(job[w].left)
           next == IF Len(job[w].left) = 1 THEN "sweep" ELSE "line"
<1>3. tail \in Seq(Submissions) /\ (next = "line" => tail # <<>>)
  <2>1. job[w].left \in Seq(Submissions)
    BY <1>1 DEF Job
  <2>2. /\ Len(tail) = Len(job[w].left) - 1 /\ tail \in Seq(Submissions)
        /\ Len(job[w].left) \in Nat
    BY <1>1, <2>1, HeadTailProperties, LenProperties
  <2> HIDE DEF tail
  <2>3. next = "line" => Len(tail) # 0
    BY <2>2
  <2>4. tail = <<>> => Len(tail) = 0
    OBVIOUS
  <2> QED BY <2>2, <2>3, <2>4
<1> HIDE DEF tail
<1>4. job' = [job EXCEPT ![w] = [job[w] EXCEPT !.left = tail, !.at = next]]
  BY DEF Append_newline, tail
<1>5. [job[w] EXCEPT !.left = tail, !.at = next] \in Job
  BY <1>1, <1>3 DEF Job
<1>6. job' \in [Writers -> Job]
  BY <1>4, <1>5 DEF RecordsTypeOK
<1>7. \A v \in Writers :
        /\ job'[v].at # "idle" => job'[v].day \in Days
        /\ job'[v].at \in {"line", "newline"} => job'[v].left # <<>>
  BY <1>1, <1>3, <1>4 DEF RecordsTypeOK, Job
<1> QED BY <1>2, <1>6, <1>7 DEF RecordsTypeOK, Append_newline

LEMMA IdleType ==
  ASSUME RecordsTypeOK, NEW w \in Writers, job' = [job EXCEPT ![w] = Idle]
  PROVE  /\ job' \in [Writers -> Job]
         /\ \A v \in Writers :
              /\ job'[v].at # "idle" => job'[v].day \in Days
              /\ job'[v].at \in {"line", "newline"} => job'[v].left # <<>>
<1>1. Idle \in Job
  BY DEF Idle, Job
<1> QED BY <1>1 DEF RecordsTypeOK, Idle

LEMMA FailsType ==
  ASSUME RecordsTypeOK, NEW w \in Writers, Append_fails(w)
  PROVE  RecordsTypeOK'
<1>1. job[w].day \in Days
  BY DEF RecordsTypeOK, Append_fails
<1>2. file' \in [Days -> Seq(0..MaxRecords + 2)]
  <2>1. {Torn, Garbled} \subseteq 0..MaxRecords + 2
    OBVIOUS
  <2>2. file \in [Days -> Seq(0..MaxRecords + 2)]
    BY DEF RecordsTypeOK
  <2>3. (\E x \in {Torn, Garbled} : Put(job[w].day, x)) \/ UNCHANGED file
    BY DEF Append_fails
  <2>4. CASE \E x \in {Torn, Garbled} : Put(job[w].day, x)
    <3>1. PICK x \in {Torn, Garbled} : Put(job[w].day, x)
      BY <2>4
    <3>2. x \in 0..MaxRecords + 2
      BY <2>1
    <3> QED BY <1>1, <2>2, <3>1, <3>2, PutType
  <2> QED BY <2>2, <2>3, <2>4
<1>3. job' = [job EXCEPT ![w] = Idle]
  BY DEF Append_fails
<1> QED BY <1>1, <1>2, <1>3, IdleType DEF RecordsTypeOK, Append_fails

LEMMA CleanupType ==
  ASSUME RecordsTypeOK, NEW w \in Writers, NEW stuck, maybe_cleanup(w, stuck)
  PROVE  RecordsTypeOK'
<1>1. job[w] \in Job /\ job[w].day \in Days
  BY DEF RecordsTypeOK, maybe_cleanup
<1>2. {job[w].lines[i] : i \in DOMAIN job[w].lines} \subseteq Submissions
  BY <1>1 DEF Job
<1>3. file' \in [Days -> Seq(0..MaxRecords + 2)] /\ exists' \in SUBSET Days
  <2> DEFINE gone == Expired(job[w].day) \ stuck
  <2>1. <<>> \in Seq(0..MaxRecords + 2)
    OBVIOUS
  <2>2. \/ UNCHANGED <<exists, file>>
        \/ /\ exists' = exists \ gone
           /\ file' = [old \in Days |-> IF old \in gone THEN <<>> ELSE file[old]]
    BY DEF maybe_cleanup
  <2> HIDE DEF gone
  <2> QED BY <2>1, <2>2 DEF RecordsTypeOK
<1>4. sweptOn' \in [Writers -> 0..MaxDay] /\ acked' \in [Days -> SUBSET Submissions]
  BY <1>1, <1>2 DEF RecordsTypeOK, maybe_cleanup
<1>5. job' = [job EXCEPT ![w] = Idle]
  BY DEF maybe_cleanup
<1>6. UNCHANGED <<today, submitted, disturbed>>
  BY DEF maybe_cleanup
<1> QED BY <1>3, <1>4, <1>5, <1>6, IdleType DEF RecordsTypeOK

LEMMA CrashType ==
  ASSUME RecordsTypeOK, NEW w \in Writers, Crash(w)
  PROVE  RecordsTypeOK'
<1>1. job[w].at = "newline" => job[w].day \in Days
  BY DEF RecordsTypeOK
<1>2. job' \in [Writers -> Job]
      /\ \A v \in Writers :
           /\ job'[v].at # "idle" => job'[v].day \in Days
           /\ job'[v].at \in {"line", "newline"} => job'[v].left # <<>>
  BY IdleType DEF Crash
<1>3. sweptOn' \in [Writers -> 0..MaxDay]
  <2>1. sweptOn \in [Writers -> 0..MaxDay] /\ 0 \in 0..MaxDay
    BY DEF RecordsTypeOK
  <2>2. sweptOn' = [sweptOn EXCEPT ![w] = 0]
    BY DEF Crash
  <2> QED BY ONLY <2>1, <2>2
<1>4. disturbed' \in SUBSET Days
  <2>1. disturbed \in SUBSET Days
    BY DEF RecordsTypeOK
  <2>2. disturbed' = IF job[w].at = "newline" THEN disturbed \cup {job[w].day} ELSE disturbed
    BY DEF Crash
  <2> QED BY ONLY <1>1, <2>1, <2>2
<1>5. UNCHANGED <<today, exists, file, submitted, acked>>
  BY DEF Crash
<1> QED BY <1>2, <1>3, <1>4, <1>5 DEF RecordsTypeOK

LEMMA MidnightType == RecordsTypeOK /\ Midnight => RecordsTypeOK'
BY DEF RecordsTypeOK, Midnight

LEMMA StutterType == RecordsTypeOK /\ UNCHANGED recordsVars => RecordsTypeOK'
BY DEF RecordsTypeOK, recordsVars

LEMMA StepType == RecordsTypeOK /\ [RecordsNext]_recordsVars => RecordsTypeOK'
BY OpenType, LineType, NewlineType, FailsType, CleanupType, CrashType,
   MidnightType, StutterType DEF RecordsNext

\* Whatever the writers do and however they die, the state of the files and
\* of the appends under way has its type (src/records.rs:134-224).
THEOREM RecordsType == RecordsSpec => []RecordsTypeOK
BY InitType, StepType, PTL DEF RecordsSpec

-----------------------------------------------------------------------------
(* The invariant.                                                          *)

\* An append under way is about a day whose file is there and is not due.
Kept ==
  /\ \A w \in Writers : job[w].at # "idle" =>
        /\ job[w].day \in exists
        /\ job[w].day <= today /\ today <= job[w].day + Retention
  /\ \A d \in Days \ exists : file[d] = <<>>
  /\ \A d \in Days : acked[d] # {} => d <= today /\ (d \in exists \/ d < today)

\* The records an append has still to write the line of.
Ahead(w) == {i \in DOMAIN job[w].left :
               job[w].at = "line" \/ (job[w].at = "newline" /\ i > 1)}
Pending(w) == {job[w].left[i] : i \in Ahead(w)}

LeftOnce ==
  \A w \in Writers : \A i, j \in DOMAIN job[w].left :
     job[w].left[i] = job[w].left[j] => i = j

Apart ==
  /\ \A w \in Writers : Pending(w) \subseteq 1..submitted
  /\ \A w, v \in Writers : w # v => Pending(w) \cap Pending(v) = {}

\* What is in a file was submitted, and nobody will write it again.
Fresh ==
  \A d \in Days : \A i \in DOMAIN file[d] : file[d][i] \in Submissions =>
     file[d][i] <= submitted /\ \A w \in Writers : file[d][i] \notin Pending(w)

Once ==
  \A d \in Days : \A i, j \in DOMAIN file[d] :
     file[d][i] \in Submissions /\ file[d][i] = file[d][j] => i = j

Distinct == LeftOnce /\ Apart /\ Fresh /\ Once

Lines(w) == {job[w].lines[i] : i \in DOMAIN job[w].lines}
Left(w) == {job[w].left[i] : i \in DOMAIN job[w].left}

\* On a day nobody has disturbed, the open line belongs to the one append
\* that is about to finish it, and what an append has dealt with is finished.
Whole(d) ==
  /\ \A w, v \in Writers :
        job[w].at = "newline" /\ job[w].day = d /\ job[v].at = "newline" /\ job[v].day = d
          => w = v
  /\ \A w \in Writers : job[w].at = "newline" /\ job[w].day = d =>
        Open(file[d]) = {Head(job[w].left)} /\ Unfinished(file[d])
  /\ \A w \in Writers : job[w].at # "idle" /\ job[w].day = d =>
        /\ Lines(w) \subseteq Left(w) \cup Finished(file[d])
        /\ job[w].at = "sweep" => job[w].left = <<>>
  /\ d \in exists => acked[d] \subseteq Finished(file[d])

\* A day nobody has disturbed can be read.
Decodable == \A d \in Days \ disturbed : ~Refuses(file[d])

RecordsInv ==
  /\ RecordsTypeOK
  /\ Kept
  /\ Distinct
  /\ \A d \in Days \ disturbed : Whole(d)
  /\ Decodable

-----------------------------------------------------------------------------
(* Kept.                                                                   *)

LEMMA InitKept == RecordsInit => Kept
BY DEF RecordsInit, Kept, Idle

LEMMA OpenKept ==
  ASSUME RecordsTypeOK, Kept, NEW w \in Writers, NEW n \in 1..2, Append_open(w, n)
  PROVE  Kept'
<1>1. /\ \A v \in Writers \ {w} : job'[v] = job[v]
      /\ job'[w].day = today /\ today' = today /\ exists' = exists \cup {today}
      /\ file' = file /\ acked' = acked
  BY DEF Append_open, RecordsTypeOK
<1>2. today \in Nat
  BY DEF RecordsTypeOK
<1> QED BY <1>1, <1>2 DEF Kept

LEMMA PutKept ==
  ASSUME RecordsTypeOK, Kept, NEW d \in exists, NEW x, Put(d, x)
  PROVE  \A old \in Days \ exists : file'[old] = <<>>
BY DEF Kept, Put, RecordsTypeOK

LEMMA LineKept ==
  ASSUME RecordsTypeOK, Kept, NEW w \in Writers,
         Append_line(w) \/ Append_newline(w) \/ Append_fails(w)
  PROVE  Kept'
<1>1. /\ \A v \in Writers \ {w} : job'[v] = job[v]
      /\ job'[w].day = job[w].day \/ job'[w].at = "idle"
      /\ job[w].at # "idle"
      /\ today' = today /\ exists' = exists /\ acked' = acked
  <2>1. job \in [Writers -> Job] /\ job[w] \in Job
    BY DEF RecordsTypeOK
  <2>2. CASE Append_line(w)
    BY <2>1, <2>2 DEF Append_line, Job
  <2>3. CASE Append_newline(w)
    BY <2>1, <2>3 DEF Append_newline, Job
  <2>4. CASE Append_fails(w)
    BY <2>1, <2>4 DEF Append_fails, Idle
  <2> QED BY <2>2, <2>3, <2>4
<1>2. job[w].day \in exists
  BY <1>1 DEF Kept
<1>3. (\E x : Put(job[w].day, x)) \/ UNCHANGED file
  BY DEF Append_line, Append_newline, Append_fails
<1>4. \A old \in Days \ exists : file'[old] = <<>>
  BY <1>2, <1>3, PutKept DEF Kept
<1> QED BY <1>1, <1>4 DEF Kept

LEMMA CleanupKept ==
  ASSUME RecordsTypeOK, Kept, NEW w \in Writers, NEW stuck, maybe_cleanup(w, stuck)
  PROVE  Kept'
<1> DEFINE D == job[w].day
           gone == Expired(D) \ stuck
<1>1. /\ D \in exists /\ D \in Days /\ D <= today
      /\ today \in Nat /\ D \in Nat /\ exists \subseteq Days /\ Days \subseteq Nat
  <2>1. D \in exists /\ D <= today
    BY DEF Kept, maybe_cleanup
  <2>2. today \in Nat /\ exists \subseteq Days /\ Days \subseteq Nat
    BY DEF RecordsTypeOK
  <2> QED BY <2>1, <2>2
<1>2. \A old \in gone : old \in exists /\ old + Retention < D
  BY DEF Expired
<1>3. /\ \/ UNCHANGED <<exists, file>>
         \/ /\ exists' = exists \ gone
            /\ file' = [old \in Days |-> IF old \in gone THEN <<>> ELSE file[old]]
      /\ acked' = [acked EXCEPT ![D] = @ \cup Lines(w)]
      /\ job' = [job EXCEPT ![w] = Idle] /\ today' = today
  BY DEF maybe_cleanup, Lines
<1> HIDE DEF gone
<1>4. D \notin gone /\ \A old \in gone : old < D /\ old < today
  <2> SUFFICES ASSUME NEW old \in gone PROVE old < D /\ old < today /\ old # D
    OBVIOUS
  <2>1. old \in Nat /\ old + Retention < D
    BY <1>1, <1>2 DEF gone
  <2> QED BY <2>1, <1>1
<1>5. \A v \in Writers : job'[v].at # "idle" =>
        /\ job'[v].day \in exists'
        /\ job'[v].day <= today' /\ today' <= job'[v].day + Retention
  <2> SUFFICES ASSUME NEW v \in Writers, job'[v].at # "idle"
               PROVE  /\ job'[v].day \in exists'
                      /\ job'[v].day <= today' /\ today' <= job'[v].day + Retention
    OBVIOUS
  <2>1. job'[v] = job[v]
    BY <1>3 DEF Idle, RecordsTypeOK
  <2>2. job[v].day \in exists /\ job[v].day <= today /\ today <= job[v].day + Retention
    BY <2>1 DEF Kept
  <2>3. job[v].day \in Nat
    BY <2>2, <1>1
  <2>4. job[v].day \notin gone
    BY <1>1, <1>2, <2>2, <2>3 DEF gone
  <2> QED BY <1>3, <2>1, <2>2, <2>4
<1>6. \A d \in Days \ exists' : file'[d] = <<>>
  BY <1>3 DEF Kept
<1>7. \A d \in Days : acked'[d] # {} => d <= today' /\ (d \in exists' \/ d < today')
  <2> SUFFICES ASSUME NEW d \in Days, acked'[d] # {}
               PROVE  d <= today' /\ (d \in exists' \/ d < today')
    OBVIOUS
  <2>1. CASE d = D
    BY <1>1, <1>3, <1>4, <2>1
  <2>2. CASE d # D
    <3>1. acked[d] # {}
      BY <1>3, <2>2 DEF RecordsTypeOK
    <3>2. d <= today /\ (d \in exists \/ d < today)
      BY <3>1 DEF Kept
    <3> QED BY <1>3, <1>4, <3>2
  <2> QED BY <2>1, <2>2
<1> QED BY <1>5, <1>6, <1>7 DEF Kept

LEMMA CrashKept ==
  ASSUME RecordsTypeOK, Kept, NEW w \in Writers, Crash(w)
  PROVE  Kept'
BY DEF Kept, Crash, RecordsTypeOK, Idle

LEMMA MidnightKept == RecordsTypeOK /\ Kept /\ Midnight => Kept'
<1> SUFFICES ASSUME RecordsTypeOK, Kept, Midnight PROVE Kept'
  OBVIOUS
<1>1. /\ today \in Nat /\ today' = today + 1 /\ exists \subseteq Days
      /\ \A w \in Writers : job[w].day \in Nat
  BY DEF RecordsTypeOK, Midnight, Job
<1>2. \A w \in Writers : job[w].at # "idle" => job[w] # Idle
  BY DEF Idle
<1>3. \A w \in Writers : job[w].at # "idle" => today < job[w].day + Retention
  BY <1>2 DEF Midnight
<1>4. UNCHANGED <<exists, file, job, acked>>
  BY DEF Midnight
<1> QED BY <1>1, <1>3, <1>4 DEF Kept

LEMMA StepKept == RecordsTypeOK /\ Kept /\ [RecordsNext]_recordsVars => Kept'
<1>1. RecordsTypeOK /\ Kept /\ UNCHANGED recordsVars => Kept'
  BY DEF Kept, recordsVars
<1> QED BY <1>1, OpenKept, LineKept, CleanupKept, CrashKept, MidnightKept DEF RecordsNext

-----------------------------------------------------------------------------
(* Distinct.                                                               *)

LEMMA InitDistinct == RecordsInit => Distinct
<1> SUFFICES ASSUME RecordsInit PROVE Distinct
  OBVIOUS
<1>1. \A w \in Writers : DOMAIN job[w].left = {}
  BY DEF RecordsInit, Idle
<1>2. \A d \in Days : DOMAIN file[d] = {}
  BY DEF RecordsInit
<1>3. \A w \in Writers : Pending(w) = {}
  BY <1>1 DEF Pending, Ahead
<1> QED BY <1>1, <1>2, <1>3 DEF Distinct, LeftOnce, Apart, Fresh, Once

LEMMA FileType ==
  ASSUME RecordsTypeOK, NEW d \in Days
  PROVE  /\ file[d] \in Seq(Nat) /\ DOMAIN file[d] = 1..Len(file[d]) /\ Len(file[d]) \in Nat
         /\ \A i \in DOMAIN file[d] : file[d][i] \in 0..MaxRecords + 2
<1>1. file[d] \in Seq(0..MaxRecords + 2)
  BY DEF RecordsTypeOK
<1> QED BY <1>1

\* An append dealt with one record, and the others went on as they were.
LEMMA PendingOfOthers ==
  ASSUME NEW w \in Writers, NEW v \in Writers, job'[v] = job[v]
  PROVE  Pending(v)' = Pending(v) /\ Ahead(v)' = Ahead(v)
BY DEF Pending, Ahead

LEMMA PendingWhenIdle ==
  ASSUME RecordsTypeOK, NEW w \in Writers, job' = [job EXCEPT ![w] = Idle]
  PROVE  /\ Pending(w)' = {}
         /\ \A v \in Writers \ {w} : Pending(v)' = Pending(v)
         /\ LeftOnce => LeftOnce'
<1>1. job'[w] = Idle /\ \A v \in Writers \ {w} : job'[v] = job[v]
  BY DEF RecordsTypeOK
<1>2. Pending(w)' = {}
  BY <1>1 DEF Pending, Ahead, Idle
<1>3. LeftOnce => LeftOnce'
  BY <1>1 DEF LeftOnce, Idle
<1> QED BY <1>1, <1>2, <1>3, PendingOfOthers

\* A step that submits nothing and puts no record into a file.
LEMMA QuietDistinct ==
  ASSUME RecordsTypeOK, RecordsTypeOK', Apart, Fresh, Once, submitted' = submitted,
         \A w \in Writers : Pending(w)' \subseteq Pending(w),
         \A d \in Days : \/ file'[d] = file[d]
                         \/ file'[d] = <<>>
                         \/ \E x \in Nat \ Submissions : file'[d] = Append(file[d], x)
  PROVE  Apart' /\ Fresh' /\ Once'
<1>1. Apart'
  BY DEF Apart
<1>2. ASSUME NEW d \in Days
      PROVE  \A i \in DOMAIN file'[d] : file'[d][i] \in Submissions =>
                i \in DOMAIN file[d] /\ file[d][i] = file'[d][i]
  <2>1. CASE file'[d] = file[d]
    BY <2>1
  <2>2. CASE file'[d] = <<>>
    BY <2>2
  <2>3. CASE \E x \in Nat \ Submissions : file'[d] = Append(file[d], x)
    <3>1. PICK x \in Nat \ Submissions : file'[d] = Append(file[d], x)
      BY <2>3
    <3>2. /\ DOMAIN file[d] = 1..Len(file[d]) /\ Len(file[d]) \in Nat
          /\ DOMAIN file'[d] = 1..(Len(file[d]) + 1)
          /\ \A i \in DOMAIN file[d] : file'[d][i] = file[d][i]
          /\ file'[d][Len(file[d]) + 1] = x
      BY <3>1, FileType, AppendDomain
    <3> HIDE DEF Submissions
    <3> QED BY <3>2
  <2> QED BY <2>1, <2>2, <2>3
<1>3. Fresh'
  BY <1>2 DEF Fresh
<1>4. Once'
  BY <1>2 DEF Once
<1> QED BY <1>1, <1>3, <1>4

LEMMA OpenDistinct ==
  ASSUME RecordsTypeOK, RecordsTypeOK', Distinct, NEW w \in Writers, NEW n \in 1..2, Append_open(w, n)
  PROVE  Distinct'
<1> DEFINE rs == [i \in 1..n |-> submitted + i]
<1>1. /\ job'[w] = [at |-> "line", day |-> today, lines |-> rs, left |-> rs]
      /\ \A v \in Writers \ {w} : job'[v] = job[v]
      /\ submitted' = submitted + n /\ file' = file /\ submitted \in Nat /\ n \in Nat
  BY DEF RecordsTypeOK, Append_open
<1>2. Pending(w)' = {submitted + i : i \in 1..n}
  BY <1>1 DEF Pending, Ahead
<1>3. \A v \in Writers \ {w} : Pending(v)' = Pending(v)
  BY <1>1, PendingOfOthers
<1>4. LeftOnce'
  <2>1. \A i, j \in DOMAIN rs : rs[i] = rs[j] => i = j
    BY <1>1
  <2> QED BY <1>1, <2>1 DEF LeftOnce, Distinct
<1>5. \A k \in 1..submitted : k \notin {submitted + i : i \in 1..n} /\ k \in 1..submitted'
  BY <1>1
<1>6. {submitted + i : i \in 1..n} \subseteq 1..submitted'
  BY <1>1
<1>7. Apart'
  BY <1>2, <1>3, <1>5, <1>6 DEF Apart, Distinct
<1>8. Fresh'
  <2> SUFFICES ASSUME NEW d \in Days, NEW i \in DOMAIN file[d], file[d][i] \in Submissions
               PROVE  file[d][i] <= submitted' /\ \A v \in Writers : file[d][i] \notin Pending(v)'
    BY <1>1 DEF Fresh
  <2>1. file[d][i] \in 1..submitted /\ \A v \in Writers : file[d][i] \notin Pending(v)
    BY <1>1 DEF Fresh, Distinct
  <2> QED BY <2>1, <1>1, <1>2, <1>3, <1>5
<1>9. Once'
  BY <1>1 DEF Once, Distinct
<1> QED BY <1>4, <1>7, <1>8, <1>9 DEF Distinct

LEMMA LineDistinct ==
  ASSUME RecordsTypeOK, RecordsTypeOK', Distinct, NEW w \in Writers, Append_line(w)
  PROVE  Distinct'
<1> DEFINE D == job[w].day
           h == Head(job[w].left)
<1>1. /\ job[w].at = "line" /\ D \in Days /\ job[w].left \in Seq(Submissions)
      /\ job[w].left # <<>>
      /\ job'[w].at = "newline" /\ job'[w].left = job[w].left
      /\ \A v \in Writers \ {w} : job'[v] = job[v]
      /\ submitted' = submitted /\ submitted \in Nat
  BY DEF RecordsTypeOK, Append_line, Job
<1>2. /\ file'[D] = Append(file[D], h)
      /\ \A d \in Days \ {D} : file'[d] = file[d]
  BY DEF RecordsTypeOK, Append_line, Put
<1>3. h \in Submissions /\ 1 \in DOMAIN job[w].left /\ h = job[w].left[1]
      /\ DOMAIN job[w].left \subseteq Nat \ {0}
  BY <1>1
<1>4. LeftOnce
  BY DEF Distinct
<1> HIDE DEF h
<1>5. h \in Pending(w) /\ Pending(w)' \subseteq Pending(w) \ {h}
  <2>1. Ahead(w) = DOMAIN job[w].left
    BY <1>1 DEF Ahead
  <2>2. Ahead(w)' = {i \in DOMAIN job[w].left : i > 1}
    BY <1>1 DEF Ahead
  <2>3. \A i \in Ahead(w)' : job[w].left[i] # h
    BY <1>3, <1>4, <2>2 DEF LeftOnce
  <2> QED BY <1>1, <1>3, <2>1, <2>2, <2>3 DEF Pending
<1>6. \A v \in Writers \ {w} : Pending(v)' = Pending(v)
  BY <1>1, PendingOfOthers
<1>7. LeftOnce'
  BY <1>1, <1>4 DEF LeftOnce
<1>8. Apart'
  <2>1. \A v \in Writers : Pending(v)' \subseteq Pending(v)
    BY <1>5, <1>6
  <2>2. Apart /\ submitted' = submitted
    BY <1>1 DEF Distinct
  <2> QED BY ONLY <2>1, <2>2 DEF Apart
<1>9. h \in 1..submitted /\ \A v \in Writers : h \notin Pending(v)'
  BY <1>5, <1>6 DEF Apart, Distinct
<1>10. /\ DOMAIN file[D] = 1..Len(file[D]) /\ Len(file[D]) \in Nat
       /\ DOMAIN file'[D] = 1..(Len(file[D]) + 1)
       /\ \A i \in DOMAIN file[D] : file'[D][i] = file[D][i]
       /\ file'[D][Len(file[D]) + 1] = h
  <2>1. file[D] \in Seq(Nat) /\ h \in Nat
    BY <1>1, <1>3, FileType
  <2> DEFINE s == file[D]
  <2> HIDE DEF s
  <2>2. /\ DOMAIN s = 1..Len(s) /\ Len(s) \in Nat
        /\ DOMAIN Append(s, h) = 1..(Len(s) + 1)
        /\ \A i \in DOMAIN s : Append(s, h)[i] = s[i]
        /\ Append(s, h)[Len(s) + 1] = h
    BY <2>1, AppendDomain DEF s
  <2> QED BY <1>2, <2>2 DEF s
<1>11. \A i \in DOMAIN file'[D] : i \in DOMAIN file[D] \/ i = Len(file[D]) + 1
  BY <1>10
<1>12. Fresh'
  <2> SUFFICES ASSUME NEW d \in Days, NEW i \in DOMAIN file'[d], file'[d][i] \in Submissions
               PROVE  /\ file'[d][i] <= submitted'
                      /\ \A v \in Writers : file'[d][i] \notin Pending(v)'
    BY DEF Fresh
  <2>1. CASE i \in DOMAIN file[d] /\ file'[d][i] = file[d][i]
    BY <1>1, <1>5, <1>6, <2>1 DEF Fresh, Distinct
  <2>2. CASE file'[d][i] = h
    BY <1>1, <1>9, <2>2
  <2> QED BY <1>2, <1>10, <1>11, <2>1, <2>2
<1>13. \A i \in DOMAIN file[D] : file[D][i] # h
  BY <1>1, <1>3, <1>5 DEF Fresh, Distinct
<1>14. Once'
  <2> SUFFICES ASSUME NEW d \in Days, NEW i \in DOMAIN file'[d], NEW j \in DOMAIN file'[d],
                      file'[d][i] \in Submissions, file'[d][i] = file'[d][j]
               PROVE  i = j
    BY DEF Once
  <2>1. CASE d = D
    <3>1. CASE i \in DOMAIN file[D] /\ j \in DOMAIN file[D]
      <4>1. file[D][i] \in Submissions /\ file[D][i] = file[D][j]
        BY <1>10, <2>1, <3>1
      <4> QED BY <1>1, <3>1, <4>1 DEF Once, Distinct
    <3>2. CASE i \notin DOMAIN file[D] /\ j \notin DOMAIN file[D]
      BY <1>11, <2>1, <3>2
    <3>3. CASE i \in DOMAIN file[D] /\ j \notin DOMAIN file[D]
      BY <1>10, <1>11, <1>13, <2>1, <3>3
    <3>4. CASE i \notin DOMAIN file[D] /\ j \in DOMAIN file[D]
      BY <1>10, <1>11, <1>13, <2>1, <3>4
    <3> QED BY <3>1, <3>2, <3>3, <3>4
  <2>2. CASE d # D
    BY <1>2, <2>2 DEF Once, Distinct
  <2> QED BY <2>1, <2>2
<1> QED BY <1>7, <1>8, <1>12, <1>14 DEF Distinct

LEMMA NewlineDistinct ==
  ASSUME RecordsTypeOK, RecordsTypeOK', Distinct, NEW w \in Writers, Append_newline(w)
  PROVE  Distinct'
<1> DEFINE tail == Tail(job[w].left)
<1>1. /\ job[w].at = "newline" /\ job[w].left \in Seq(Submissions) /\ job[w].left # <<>>
      /\ job'[w].left = tail
      /\ \A v \in Writers \ {w} : job'[v] = job[v]
      /\ submitted' = submitted
  <2>1. job[w] \in Job /\ job \in [Writers -> Job]
    BY DEF RecordsTypeOK
  <2>2. job[w].at = "newline" /\ job[w].left # <<>> /\ submitted' = submitted
    BY DEF RecordsTypeOK, Append_newline
  <2>3. job[w].left \in Seq(Submissions)
    BY <2>1 DEF Job
  <2> HIDE DEF tail
  <2>4. job' = [job EXCEPT ![w].left = tail,
                           ![w].at = IF Len(job[w].left) = 1 THEN "sweep" ELSE "line"]
    BY DEF Append_newline, tail
  <2>5. job'[w].left = tail /\ \A v \in Writers \ {w} : job'[v] = job[v]
    BY <2>1, <2>4 DEF Job
  <2> QED BY <2>2, <2>3, <2>5
<1>2. \A d \in Days : file'[d] = file[d] \/ file'[d] = Append(file[d], Newline)
  BY DEF RecordsTypeOK, Append_newline, Put
<1>3. DOMAIN tail \subseteq Nat /\ \A i \in DOMAIN tail :
         /\ i + 1 \in DOMAIN job[w].left /\ i + 1 > 1
         /\ tail[i] = job[w].left[i + 1]
  BY <1>1
<1> HIDE DEF tail
<1>4. Pending(w)' \subseteq Pending(w)
  BY <1>1, <1>3 DEF Pending, Ahead
<1>5. LeftOnce'
  <2>1. \A i, j \in DOMAIN tail : tail[i] = tail[j] => i = j
    <3> SUFFICES ASSUME NEW i \in DOMAIN tail, NEW j \in DOMAIN tail, tail[i] = tail[j]
                 PROVE  i = j
      OBVIOUS
    <3>1. i + 1 = j + 1
      BY <1>3 DEF LeftOnce, Distinct
    <3> QED BY <3>1, <1>3
  <2> QED BY <1>1, <2>1 DEF LeftOnce, Distinct
<1>6. \A v \in Writers : Pending(v)' \subseteq Pending(v)
  BY <1>1, <1>4, PendingOfOthers
<1>7. Newline \in Nat \ Submissions
  OBVIOUS
<1> QED BY <1>1, <1>2, <1>5, <1>6, <1>7, QuietDistinct DEF Distinct

\* A step that ends an append, or none.
LEMMA EndDistinct ==
  ASSUME RecordsTypeOK, RecordsTypeOK', Distinct, NEW w \in Writers,
         Append_fails(w) \/ Crash(w) \/ \E stuck : maybe_cleanup(w, stuck)
  PROVE  Distinct'
<1>1. job' = [job EXCEPT ![w] = Idle] /\ submitted' = submitted
  BY DEF Append_fails, Crash, maybe_cleanup
<1>2. LeftOnce' /\ \A v \in Writers : Pending(v)' \subseteq Pending(v)
  BY <1>1, PendingWhenIdle DEF Distinct
<1>3. {Torn, Garbled} \subseteq Nat \ Submissions
  OBVIOUS
<1>4. \A d \in Days : \/ file'[d] = file[d]
                      \/ file'[d] = <<>>
                      \/ \E x \in Nat \ Submissions : file'[d] = Append(file[d], x)
  <2>1. CASE Append_fails(w)
    BY <1>3, <2>1 DEF Append_fails, Put, RecordsTypeOK
  <2>2. CASE Crash(w)
    BY <2>2 DEF Crash
  <2>3. CASE \E stuck : maybe_cleanup(w, stuck)
    <3>1. PICK gone : UNCHANGED file \/ file' = [d \in Days |-> IF d \in gone THEN <<>> ELSE file[d]]
      BY <2>3 DEF maybe_cleanup
    <3> QED BY <3>1
  <2> QED BY <2>1, <2>2, <2>3
<1> QED BY <1>1, <1>2, <1>4, QuietDistinct DEF Distinct

LEMMA StepDistinct == RecordsTypeOK /\ RecordsTypeOK' /\ Distinct /\ [RecordsNext]_recordsVars => Distinct'
<1>1. Distinct /\ UNCHANGED <<job, submitted, file>> => Distinct'
  <2> SUFFICES ASSUME Distinct, UNCHANGED <<job, submitted, file>> PROVE Distinct'
    OBVIOUS
  <2>1. \A w \in Writers : Pending(w)' = Pending(w)
    BY PendingOfOthers
  <2>2. LeftOnce'
    BY DEF LeftOnce, Distinct
  <2>3. Apart'
    BY <2>1 DEF Apart, Distinct
  <2>4. Fresh'
    BY <2>1 DEF Fresh, Distinct
  <2>5. Once'
    BY DEF Once, Distinct
  <2> QED BY <2>2, <2>3, <2>4, <2>5 DEF Distinct
<1>2. Midnight \/ UNCHANGED recordsVars => UNCHANGED <<job, submitted, file>>
  BY DEF Midnight, recordsVars
<1> QED BY <1>1, <1>2, OpenDistinct, LineDistinct, NewlineDistinct, EndDistinct DEF RecordsNext

-----------------------------------------------------------------------------
(* Whole.                                                                  *)

LEMMA InitWhole == RecordsInit => \A d \in Days : Whole(d)
BY DEF RecordsInit, Whole, Idle

LEMMA SameJob ==
  ASSUME NEW v \in Writers, job'[v] = job[v]
  PROVE  Lines(v)' = Lines(v) /\ Left(v)' = Left(v)
BY DEF Lines, Left

\* A day is as whole as it was if the step is about another one.
LEMMA WholeElsewhere ==
  ASSUME NEW d \in Days, Whole(d), file'[d] = file[d],
         d \in exists' => d \in exists, acked'[d] = acked[d],
         \A v \in Writers : job'[v].at # "idle" /\ job'[v].day = d => job'[v] = job[v]
  PROVE  Whole(d)'
BY SameJob DEF Whole

LEMMA OpenWhole ==
  ASSUME RecordsTypeOK, Kept, NEW w \in Writers, NEW n \in 1..2, Append_open(w, n),
         NEW d \in Days, Whole(d)
  PROVE  Whole(d)'
<1> DEFINE rs == [i \in 1..n |-> submitted + i]
<1>1. /\ job'[w] = [at |-> "line", day |-> today, lines |-> rs, left |-> rs]
      /\ \A v \in Writers \ {w} : job'[v] = job[v]
      /\ file' = file /\ acked' = acked /\ exists' = exists \cup {today}
  BY DEF RecordsTypeOK, Append_open
<1> HIDE DEF rs
<1>2. Lines(w)' = Left(w)'
  BY <1>1 DEF Lines, Left
<1>3. today \notin exists => acked[today] = {}
  <2>1. today \in Days /\ ~(today < today)
    BY DEF RecordsTypeOK
  <2> QED BY <2>1 DEF Kept
<1>4. \A v \in Writers \ {w} : Lines(v)' = Lines(v) /\ Left(v)' = Left(v)
  BY <1>1, SameJob
<1> QED BY <1>1, <1>2, <1>3, <1>4 DEF Whole

LEMMA LineWhole ==
  ASSUME RecordsTypeOK, NEW w \in Writers, Append_line(w),
         NEW d \in Days \ disturbed', Whole(d)
  PROVE  Whole(d)'
<1> DEFINE D == job[w].day
           h == Head(job[w].left)
<1>1. job \in [Writers -> Job] /\ job[w] \in Job /\ D \in Days /\ job[w].left # <<>>
  BY DEF RecordsTypeOK, Append_line
<1>2. /\ job[w].at = "line" /\ job'[w].at = "newline" /\ job'[w].left = job[w].left
      /\ job'[w].day = D /\ job'[w].lines = job[w].lines
      /\ \A v \in Writers \ {w} : job'[v] = job[v]
      /\ acked' = acked /\ exists' = exists
  BY <1>1 DEF Append_line, Job
<1>3. /\ file'[D] = Append(file[D], h)
      /\ \A old \in Days \ {D} : file'[old] = file[old]
  BY <1>1 DEF RecordsTypeOK, Append_line, Put
<1>4. CASE d # D
  BY <1>2, <1>3, <1>4, WholeElsewhere
<1>5. CASE d = D
  <2>1. ~Unfinished(file[D])
    BY <1>5 DEF Append_line
  <2>2. file[D] \in Seq(Nat) /\ h \in Submissions /\ h \in Nat
    BY <1>1, FileType DEF Job
  <2>3. Finished(file'[D]) = Finished(file[D]) /\ Open(file'[D]) = {h}
        /\ Unfinished(file'[D])
    BY <1>3, <2>1, <2>2, AppendToFile
  <2>4. \A v \in Writers : ~(job[v].at = "newline" /\ job[v].day = D)
    BY <1>5, <2>1 DEF Whole
  <2>5. \A v \in Writers : Lines(v)' = Lines(v) /\ Left(v)' = Left(v)
    BY <1>2 DEF Lines, Left
  <2> QED BY <1>2, <1>5, <2>3, <2>4, <2>5 DEF Whole
<1> QED BY <1>4, <1>5

LEMMA TailOf ==
  ASSUME NEW S, NEW s \in Seq(S), s # <<>>
  PROVE  /\ \A i \in DOMAIN s : s[i] = Head(s) \/
               (i - 1 \in DOMAIN Tail(s) /\ Tail(s)[i - 1] = s[i])
         /\ Len(s) = 1 => Tail(s) = <<>>
<1> DEFINE t == Tail(s)
           n == Len(s)
<1>1. /\ n \in Nat \ {0} /\ DOMAIN s = 1..n /\ t \in Seq(S) /\ Len(t) = n - 1
      /\ DOMAIN t = 1..Len(t) /\ Head(s) = s[1]
      /\ \A i \in 1..Len(t) : t[i] = s[i + 1]
  BY HeadTailProperties, LenProperties, EmptySeq
<1> HIDE DEF t, n
<1>2. \A i \in 1..n : i = 1 \/ (i - 1 \in 1..(n - 1) /\ (i - 1) + 1 = i)
  BY <1>1
<1>3. n = 1 => t = <<>>
  BY <1>1, EmptySeq
<1> QED BY <1>1, <1>2, <1>3 DEF t, n

LEMMA NewlineWhole ==
  ASSUME RecordsTypeOK, NEW w \in Writers, Append_newline(w), NEW d \in Days, Whole(d)
  PROVE  Whole(d)'
<1> DEFINE D == job[w].day
           s == job[w].left
           next == IF Len(s) = 1 THEN "sweep" ELSE "line"
<1>1. /\ job \in [Writers -> Job] /\ job[w] \in Job /\ D \in Days /\ s # <<>>
      /\ job[w].at = "newline"
  BY DEF RecordsTypeOK, Append_newline
<1>2. /\ job' = [job EXCEPT ![w] = [job[w] EXCEPT !.left = Tail(s), !.at = next]]
      /\ acked' = acked /\ exists' = exists
  BY DEF Append_newline
<1>3. /\ file'[D] = Append(file[D], Newline)
      /\ \A old \in Days \ {D} : file'[old] = file[old]
  BY <1>1 DEF RecordsTypeOK, Append_newline, Put
<1>4. s \in Seq(Submissions)
  BY <1>1 DEF Job
<1>5. /\ \A i \in DOMAIN s : s[i] = Head(s) \/
            (i - 1 \in DOMAIN Tail(s) /\ Tail(s)[i - 1] = s[i])
      /\ Len(s) = 1 => Tail(s) = <<>>
  BY <1>1, <1>4, TailOf
<1>6. next = "sweep" => Tail(s) = <<>>
  BY <1>5
<1>7. /\ job'[w].at = next /\ job'[w].left = Tail(s)
      /\ job'[w].day = D /\ job'[w].lines = job[w].lines
      /\ \A v \in Writers \ {w} : job'[v] = job[v]
  BY <1>1, <1>2 DEF Job
<1>8. CASE d # D
  BY <1>2, <1>3, <1>7, <1>8, WholeElsewhere
<1>9. CASE d = D
  <2>1. file[D] \in Seq(Nat) /\ Newline \in Nat
    BY <1>1, FileType
  <2>2. Finished(file'[D]) = Finished(file[D]) \cup {Head(s)}
    BY <1>1, <1>3, <1>9, <2>1, AppendToFile DEF Whole
  <2>3. Left(w) \subseteq Left(w)' \cup {Head(s)}
    <3>1. Left(w) = {s[i] : i \in DOMAIN s} /\ Left(w)' = {Tail(s)[i] : i \in DOMAIN Tail(s)}
      BY <1>7 DEF Left
    <3>2. ASSUME NEW i \in DOMAIN s
          PROVE  s[i] \in {Tail(s)[k] : k \in DOMAIN Tail(s)} \cup {Head(s)}
      BY ONLY <1>5
    <3> QED BY ONLY <3>1, <3>2
  <2>4. Lines(w)' = Lines(w)
    BY <1>7 DEF Lines
  <2>5. \A v \in Writers \ {w} : Lines(v)' = Lines(v) /\ Left(v)' = Left(v)
    BY <1>7, SameJob
  <2>6. \A v \in Writers : ~(job'[v].at = "newline" /\ job'[v].day = D)
    BY <1>1, <1>7, <1>9 DEF Whole
  <2>7. Lines(w)' \subseteq Left(w)' \cup Finished(file'[D])
    BY <1>1, <1>9, <2>2, <2>3, <2>4 DEF Whole
  <2>8. ASSUME NEW v \in Writers, job'[v].at # "idle", job'[v].day = D
        PROVE  /\ Lines(v)' \subseteq Left(v)' \cup Finished(file'[D])
               /\ job'[v].at = "sweep" => job'[v].left = <<>>
    <3>1. CASE v = w
      BY <1>6, <1>7, <2>7, <2>8, <3>1
    <3>2. CASE v # w
      BY <1>7, <1>9, <2>2, <2>5, <2>8, <3>2 DEF Whole
    <3> QED BY <3>1, <3>2
  <2>9. D \in exists' => acked'[D] \subseteq Finished(file'[D])
    BY <1>2, <1>9, <2>2 DEF Whole
  <2> QED BY <1>9, <2>6, <2>8, <2>9 DEF Whole
<1> QED BY <1>8, <1>9

LEMMA FailsWhole ==
  ASSUME RecordsTypeOK, NEW w \in Writers, Append_fails(w) \/ Crash(w),
         NEW d \in Days \ disturbed', Whole(d)
  PROVE  Whole(d)'
<1>1. /\ job'[w] = Idle /\ \A v \in Writers \ {w} : job'[v] = job[v]
      /\ acked' = acked /\ exists' = exists
  BY DEF RecordsTypeOK, Append_fails, Crash
<1>2. file'[d] = file[d]
  BY DEF RecordsTypeOK, Append_fails, Crash, Put
<1> QED BY <1>1, <1>2, WholeElsewhere DEF Idle

LEMMA CleanupWhole ==
  ASSUME RecordsTypeOK, Kept', NEW w \in Writers, NEW stuck, maybe_cleanup(w, stuck),
         NEW d \in Days, Whole(d)
  PROVE  Whole(d)'
<1> DEFINE D == job[w].day
           gone == Expired(D) \ stuck
<1>1. /\ \/ UNCHANGED <<exists, file>>
         \/ /\ exists' = exists \ gone
            /\ file' = [old \in Days |-> IF old \in gone THEN <<>> ELSE file[old]]
      /\ acked' = [acked EXCEPT ![D] = @ \cup Lines(w)]
      /\ job[w].at = "sweep"
  BY DEF maybe_cleanup, Lines
<1> HIDE DEF gone
<1>2. job'[w] = Idle /\ \A v \in Writers \ {w} : job'[v] = job[v]
  BY DEF RecordsTypeOK, maybe_cleanup
<1>3. CASE d \notin exists'
  <2>1. \A v \in Writers : ~(job'[v].at # "idle" /\ job'[v].day = d)
    BY <1>3 DEF Kept
  <2> QED BY <1>3, <2>1 DEF Whole
<1>4. CASE d \in exists'
  <2>1. file'[d] = file[d] /\ d \in exists
    BY <1>1, <1>4
  <2>2. d = D => Lines(w) \subseteq Finished(file[d])
    BY <1>1 DEF Whole, Left
  <2>3. acked'[d] \subseteq Finished(file'[d])
    BY <1>1, <2>1, <2>2 DEF Whole, RecordsTypeOK
  <2>4. \A v \in Writers \ {w} : Lines(v)' = Lines(v) /\ Left(v)' = Left(v)
    BY <1>2, SameJob
  <2> QED BY <1>2, <2>1, <2>3, <2>4 DEF Whole, Idle
<1> QED BY <1>3, <1>4

-----------------------------------------------------------------------------
LEMMA InitRecords == RecordsInit => RecordsInv
<1>1. RecordsInit => Decodable
  BY NothingInNoFile DEF RecordsInit, Decodable
<1> QED BY <1>1, InitType, InitKept, InitDistinct, InitWhole DEF RecordsInv

LEMMA Disturbed ==
  ASSUME RecordsTypeOK, [RecordsNext]_recordsVars
  PROVE  disturbed \subseteq disturbed'
BY DEF RecordsNext, recordsVars, Append_open, Append_line, Append_newline, Append_fails,
       maybe_cleanup, Crash, Midnight

\* A write that succeeds leaves nothing that cannot be decoded.
LEMMA PutDecodable ==
  ASSUME RecordsTypeOK, NEW d \in Days, NEW x \in Nat \ {Garbled}, Put(d, x),
         NEW old \in Days, ~Refuses(file[old])
  PROVE  ~Refuses(file'[old])
<1>1. file' = [file EXCEPT ![d] = Append(file[d], x)] /\ DOMAIN file = Days
  BY DEF Put, RecordsTypeOK
<1>2. file[d] \in Seq(Nat)
  BY FileType
<1>3. CASE old = d
  BY <1>1, <1>2, <1>3, AppendRefuses
<1>4. CASE old # d
  BY <1>1, <1>4
<1> QED BY <1>3, <1>4

LEMMA StepDecodable ==
  ASSUME RecordsTypeOK, Decodable, [RecordsNext]_recordsVars
  PROVE  Decodable'
<1> SUFFICES ASSUME NEW d \in Days \ disturbed' PROVE ~Refuses(file'[d])
  BY DEF Decodable
<1>1. ~Refuses(file[d])
  BY Disturbed DEF Decodable
<1>2. CASE file' = file
  BY <1>1, <1>2
<1>3. ASSUME NEW w \in Writers, Append_line(w) PROVE ~Refuses(file'[d])
  <2>1. job[w] \in Job /\ job[w].left # <<>> /\ job[w].day \in Days
    BY <1>3 DEF RecordsTypeOK, Append_line
  <2>2. Head(job[w].left) \in Submissions
    BY <2>1 DEF Job
  <2>3. Put(job[w].day, Head(job[w].left))
    BY <1>3 DEF Append_line
  <2>4. Head(job[w].left) \in Nat \ {Garbled}
    BY <2>2
  <2> QED BY <1>1, <2>1, <2>3, <2>4, PutDecodable
<1>4. ASSUME NEW w \in Writers, Append_newline(w) PROVE ~Refuses(file'[d])
  <2>1. job[w].day \in Days /\ Put(job[w].day, Newline)
    BY <1>4 DEF RecordsTypeOK, Append_newline
  <2>2. Newline \in Nat \ {Garbled}
    OBVIOUS
  <2> QED BY <1>1, <2>1, <2>2, PutDecodable
<1>5. ASSUME NEW w \in Writers, Append_fails(w) PROVE ~Refuses(file'[d])
  <2>1. file'[d] = file[d]
    BY <1>5 DEF RecordsTypeOK, Append_fails, Put
  <2> QED BY <1>1, <2>1
<1>6. ASSUME NEW w \in Writers, NEW stuck, maybe_cleanup(w, stuck) PROVE ~Refuses(file'[d])
  <2>1. PICK gone : UNCHANGED file \/ file' = [old \in Days |-> IF old \in gone THEN <<>> ELSE file[old]]
    BY <1>6 DEF maybe_cleanup
  <2>2. file'[d] = file[d] \/ file'[d] = <<>>
    BY <2>1
  <2> QED BY <1>1, <2>2, NothingInNoFile
<1>7. \/ file' = file
      \/ \E w \in Writers :
           \/ Append_line(w) \/ Append_newline(w) \/ Append_fails(w)
           \/ \E stuck : maybe_cleanup(w, stuck)
  BY DEF RecordsNext, recordsVars, Midnight, Append_open, Crash
<1> QED BY <1>2, <1>3, <1>4, <1>5, <1>6, <1>7

LEMMA StepRecords == RecordsInv /\ [RecordsNext]_recordsVars => RecordsInv'
<1> SUFFICES ASSUME RecordsInv, [RecordsNext]_recordsVars PROVE RecordsInv'
  OBVIOUS
<1>1. /\ RecordsTypeOK /\ Kept /\ Distinct /\ \A d \in Days \ disturbed : Whole(d)
      /\ Decodable
  BY DEF RecordsInv
<1>2. RecordsTypeOK'
  BY <1>1, StepType
<1>3. Kept'
  BY <1>1, StepKept
<1>4. Distinct'
  BY <1>1, <1>2, StepDistinct
<1>5. ASSUME NEW d \in Days \ disturbed' PROVE Whole(d)'
  <2>1. Whole(d)
    BY <1>1, Disturbed
  <2>2. CASE Midnight \/ UNCHANGED recordsVars
    BY <2>1, <2>2, WholeElsewhere DEF Midnight, recordsVars
  <2>3. ASSUME NEW w \in Writers, NEW n \in 1..2, Append_open(w, n) PROVE Whole(d)'
    BY <1>1, <2>1, <2>3, OpenWhole
  <2>4. ASSUME NEW w \in Writers, Append_line(w) PROVE Whole(d)'
    BY <1>1, <2>1, <2>4, LineWhole
  <2>5. ASSUME NEW w \in Writers, Append_newline(w) PROVE Whole(d)'
    BY <1>1, <2>1, <2>5, NewlineWhole
  <2>6. ASSUME NEW w \in Writers, Append_fails(w) \/ Crash(w) PROVE Whole(d)'
    BY <1>1, <2>1, <2>6, FailsWhole
  <2>7. ASSUME NEW w \in Writers, NEW stuck, maybe_cleanup(w, stuck) PROVE Whole(d)'
    BY <1>1, <1>3, <2>1, <2>7, CleanupWhole
  <2> QED BY <2>2, <2>3, <2>4, <2>5, <2>6, <2>7 DEF RecordsNext
<1>6. Decodable'
  BY <1>1, StepDecodable
<1> QED BY <1>2, <1>3, <1>4, <1>5, <1>6 DEF RecordsInv

LEMMA RecordsAreRead == RecordsInv => AckedIsRead
<1> SUFFICES ASSUME RecordsInv, NEW from \in Days, NEW to \in Days
             PROVE  LET dates == exists \cap (from..to)
                        reading == read_range(from, to)
                    IN  IF reading.ok
                          THEN \A d \in dates \ disturbed :
                                 /\ acked[d] \subseteq reading.records
                                 /\ \A i, j \in Parsed(file[d]) :
                                      file[d][i] = file[d][j] => i = j
                          ELSE dates \cap disturbed # {}
  BY Zenon DEF AckedIsRead
<1> DEFINE dates == exists \cap (from..to)
           reading == read_range(from, to)
           each(d) == Finished(file[d]) \cup Open(file[d])
<1>1. CASE \E d \in dates : Refuses(file[d])
  <2>1. PICK d \in dates : Refuses(file[d])
    BY <1>1
  <2>2. d \in Days
    BY DEF RecordsInv, RecordsTypeOK
  <2>3. d \in disturbed
    BY <2>1, <2>2 DEF RecordsInv, Decodable
  <2>4. reading = [ok |-> FALSE, records |-> {}]
    BY <1>1 DEF read_range
  <2> QED BY <2>3, <2>4
<1>2. CASE ~\E d \in dates : Refuses(file[d])
  <2>1. reading = [ok |-> TRUE, records |-> UNION {each(d) : d \in dates}]
    BY <1>2 DEF read_range
  <2> SUFFICES ASSUME NEW d \in dates \ disturbed
               PROVE  /\ acked[d] \subseteq reading.records
                      /\ \A i, j \in Parsed(file[d]) : file[d][i] = file[d][j] => i = j
    BY <2>1
  <2>2. d \in Days
    BY DEF RecordsInv, RecordsTypeOK
  <2>3. acked[d] \subseteq each(d)
    BY <2>2 DEF RecordsInv, Whole
  <2>4. each(d) \subseteq reading.records
    BY <2>1
  <2>5. \A i, j \in Parsed(file[d]) : file[d][i] = file[d][j] => i = j
    BY <2>2 DEF RecordsInv, Distinct, Once, Parsed
  <2> QED BY <2>3, <2>4, <2>5
<1> QED BY <1>1, <1>2

\* With any number of writers, crashes and failing sweeps, a reader of a range
\* of days is refused only if an append failed or died on one of them, and
\* else gets, once, every record whose append returned Ok on a day with no
\* line cut off or mixed up (src/records.rs:134-224).
THEOREM RecordsAcked == RecordsSpec => []AckedIsRead
BY InitRecords, StepRecords, RecordsAreRead, PTL DEF RecordsSpec

-----------------------------------------------------------------------------
(* The refinement.                                                         *)

\* What a reader finds, by day: the values given to the abstract variables.
finished == [d \in Days |-> IF d \in exists THEN Finished(file[d]) ELSE {}]
open == [d \in Days |-> IF d \in exists THEN Open(file[d]) ELSE {}]
spoiled == {d \in exists : Refuses(file[d])}

LEMMA ReadByDay ==
  ASSUME Kept
  PROVE  /\ finished = [d \in Days |-> Finished(file[d])]
         /\ open = [d \in Days |-> Open(file[d])]
BY NothingInNoFile DEF Kept, finished, open

LEMMA SpoiledByDay ==
  ASSUME Kept, exists \in SUBSET Days
  PROVE  spoiled = {d \in Days : Refuses(file[d])}
BY NothingInNoFile DEF Kept, spoiled

LEMMA SameFiles ==
  ASSUME Kept, Kept', exists \in SUBSET Days, exists' \in SUBSET Days, file' = file
  PROVE  finished' = finished /\ open' = open /\ spoiled' = spoiled
<1>1. finished' = [d \in Days |-> Finished(file'[d])] /\ open' = [d \in Days |-> Open(file'[d])]
  BY NothingInNoFile DEF Kept, finished, open
<1>2. spoiled' = {d \in Days : Refuses(file'[d])}
  BY NothingInNoFile DEF Kept, spoiled
<1>3. spoiled' = spoiled
  BY <1>2, SpoiledByDay
<1> QED BY <1>1, <1>3, ReadByDay

\* One write call, seen by a reader.
LEMMA PutOneDay ==
  ASSUME RecordsTypeOK, RecordsTypeOK', Kept, Kept', NEW d \in Days, NEW x \in Nat,
         Put(d, x)
  PROVE  /\ finished' = [finished EXCEPT ![d] =
                            IF x = Newline THEN @ \cup open[d] ELSE @]
         /\ open' = [open EXCEPT ![d] =
                        IF x \in Submissions /\ ~Unfinished(file[d]) THEN {x} ELSE {}]
         /\ spoiled' = IF x = Garbled THEN spoiled \cup {d} ELSE spoiled
<1>1. file' = [file EXCEPT ![d] = Append(file[d], x)] /\ DOMAIN file = Days
  BY DEF Put, RecordsTypeOK
<1>2. file[d] \in Seq(Nat)
  BY FileType
<1>3. /\ Finished(file'[d]) =
            IF x = Newline THEN Finished(file[d]) \cup Open(file[d]) ELSE Finished(file[d])
      /\ Open(file'[d]) = IF x \in Submissions /\ ~Unfinished(file[d]) THEN {x} ELSE {}
  BY <1>1, <1>2, AppendToFile
<1>4. \A old \in Days \ {d} : file'[old] = file[old]
  BY <1>1
<1>5. finished' = [old \in Days |-> Finished(file'[old])] /\ open' = [old \in Days |-> Open(file'[old])]
  BY NothingInNoFile DEF Kept, finished, open
<1>6. finished = [old \in Days |-> Finished(file[old])] /\ open = [old \in Days |-> Open(file[old])]
  BY ReadByDay
<1>7. finished' = [finished EXCEPT ![d] = IF x = Newline THEN @ \cup open[d] ELSE @]
  BY <1>3, <1>4, <1>5, <1>6
<1>8. open' = [open EXCEPT ![d] =
                 IF x \in Submissions /\ ~Unfinished(file[d]) THEN {x} ELSE {}]
  BY <1>3, <1>4, <1>5, <1>6
<1>9. Refuses(file'[d]) <=> Refuses(file[d]) \/ x = Garbled
  BY <1>1, <1>2, AppendRefuses
<1>10. spoiled' = {old \in Days : Refuses(file'[old])}
  BY NothingInNoFile DEF Kept, spoiled, RecordsTypeOK
<1>11. spoiled = {old \in Days : Refuses(file[old])}
  BY SpoiledByDay DEF RecordsTypeOK
<1>12. spoiled' = IF x = Garbled THEN spoiled \cup {d} ELSE spoiled
  BY <1>4, <1>9, <1>10, <1>11
<1> QED BY <1>7, <1>8, <1>12

LEMMA InitHistory == RecordsInit => History!Init
BY NothingInNoFile DEF RecordsInit, History!Init

LEMMA LineHistory ==
  ASSUME RecordsInv, RecordsInv', NEW w \in Writers, Append_line(w)
  PROVE  History!Next
<1>0. PICK d \in Days : d = job[w].day
  BY DEF RecordsInv, RecordsTypeOK, Append_line
<1>1. RecordsTypeOK /\ RecordsTypeOK' /\ Kept /\ Kept' /\ Distinct
  BY DEF RecordsInv
<1> DEFINE h == Head(job[w].left)
           r == IF ~Unfinished(file[d]) THEN {h} ELSE {}
<1>2. job[w] \in Job /\ job[w].left # <<>> /\ job[w].at = "line"
  BY <1>1 DEF RecordsTypeOK, Append_line
<1>3. h \in Submissions /\ h \in Nat /\ h # Newline /\ h # Garbled /\ 1 \in Ahead(w) /\ h = job[w].left[1]
  BY <1>2 DEF Job, Ahead
<1>4. h \in 1..submitted /\ \A i \in DOMAIN file[d] : file[d][i] # h
  <2>1. h \in Pending(w)
    BY <1>3 DEF Pending
  <2> HIDE DEF h
  <2> QED BY <1>1, <1>2, <1>3, <2>1 DEF Distinct, Apart, Fresh
<1>5. h \notin Finished(file[d]) \cup Open(file[d])
  BY <1>4, ReadIsWritten
<1>6. h \notin finished[d] \cup open[d]
  BY <1>1, <1>2, <1>5, ReadByDay
<1>7. Put(d, h) /\ today' = today /\ submitted' = submitted
  BY <1>0 DEF Append_line
<1> HIDE DEF h
<1>8. finished' = finished /\ open' = [open EXCEPT ![d] = r] /\ spoiled' = spoiled
  <2>1. finished' = [finished EXCEPT ![d] = @]
    BY <1>1, <1>2, <1>3, <1>7, PutOneDay
  <2>2. open' = [open EXCEPT ![d] = r]
    BY <1>1, <1>2, <1>3, <1>7, PutOneDay
  <2>3. spoiled' = spoiled
    BY <1>1, <1>3, <1>7, PutOneDay
  <2> QED BY <2>1, <2>2, <2>3 DEF finished
<1>9. r \in SUBSET ((1..submitted) \ (finished[d] \cup open[d]))
  BY <1>4, <1>6
<1>10. History!Touch(d)
  BY <1>7, <1>8, <1>9 DEF History!Touch, History!Readable, finished, open, spoiled
<1> QED BY <1>10 DEF History!Next

LEMMA NewlineHistory ==
  ASSUME RecordsInv, RecordsInv', NEW w \in Writers, Append_newline(w)
  PROVE  History!Next
<1>0. PICK d \in Days : d = job[w].day
  BY DEF RecordsInv, RecordsTypeOK, Append_newline
<1>1. RecordsTypeOK /\ RecordsTypeOK' /\ Kept /\ Kept'
  BY DEF RecordsInv
<1>2. Put(d, Newline) /\ today' = today /\ submitted' = submitted
  BY <1>0 DEF Append_newline
<1>3. /\ finished' = [finished EXCEPT ![d] = @ \cup open[d]]
      /\ open' = [open EXCEPT ![d] = {}]
      /\ spoiled' = spoiled
  <2>1. Newline \in Nat /\ Newline \notin Submissions /\ Newline # Garbled
    OBVIOUS
  <2> QED BY <1>1, <1>2, <2>1, PutOneDay
<1>4. History!Finish(d)
  BY <1>2, <1>3 DEF History!Finish, finished, open, spoiled
<1> QED BY <1>4 DEF History!Next

LEMMA FailsHistory ==
  ASSUME RecordsInv, RecordsInv', NEW w \in Writers, Append_fails(w)
  PROVE  [History!Next]_(History!vars)
<1>0. PICK d \in Days : d = job[w].day
  BY DEF RecordsInv, RecordsTypeOK, Append_fails
<1>1. /\ RecordsTypeOK /\ RecordsTypeOK' /\ Kept /\ Kept'
      /\ exists \in SUBSET Days /\ exists' \in SUBSET Days
  BY DEF RecordsInv, RecordsTypeOK
<1>2. /\ Put(d, Torn) \/ Put(d, Garbled) \/ UNCHANGED file
      /\ today' = today /\ submitted' = submitted
  BY <1>0 DEF Append_fails
<1>3. CASE Put(d, Torn)
  <2>1. Torn \in Nat /\ Torn # Newline /\ Torn \notin Submissions /\ Torn # Garbled
    OBVIOUS
  <2>2. /\ finished' = [finished EXCEPT ![d] = @] /\ open' = [open EXCEPT ![d] = {}]
        /\ spoiled' = spoiled
    BY <1>1, <1>3, <2>1, PutOneDay
  <2>3. finished' = finished
    BY <2>2 DEF finished
  <2>4. History!Touch(d)
    BY <1>2, <2>2, <2>3 DEF History!Touch, finished, open, spoiled
  <2> QED BY <2>4 DEF History!Next
<1>4. CASE Put(d, Garbled)
  <2>1. Garbled \in Nat /\ Garbled # Newline /\ Garbled \notin Submissions
    OBVIOUS
  <2>2. /\ finished' = [finished EXCEPT ![d] = @] /\ open' = [open EXCEPT ![d] = {}]
        /\ spoiled' = spoiled \cup {d}
    BY <1>1, <1>4, <2>1, PutOneDay
  <2>3. finished' = finished
    BY <2>2 DEF finished
  <2>4. History!Spoil(d)
    BY <1>2, <2>2, <2>3 DEF History!Spoil, finished, open, spoiled
  <2> QED BY <2>4 DEF History!Next
<1>5. CASE UNCHANGED file
  BY <1>1, <1>2, <1>5, SameFiles DEF History!vars, finished, open, spoiled
<1> QED BY <1>2, <1>3, <1>4, <1>5

LEMMA CleanupHistory ==
  ASSUME RecordsInv, RecordsInv', NEW w \in Writers, NEW stuck, maybe_cleanup(w, stuck)
  PROVE  [History!Next]_(History!vars)
<1> DEFINE D == job[w].day
           gone == Expired(D) \ stuck
<1>1. RecordsTypeOK /\ Kept /\ Kept' /\ D \in Days /\ D <= today /\ today \in Days
      /\ exists \in SUBSET Days /\ exists' \in SUBSET Days
  BY DEF RecordsInv, Kept, RecordsTypeOK, maybe_cleanup
<1>2. today' = today /\ submitted' = submitted
  BY DEF maybe_cleanup
<1>3. CASE UNCHANGED <<exists, file>>
  BY <1>1, <1>2, <1>3, SameFiles DEF History!vars, finished, open, spoiled
<1>4. CASE exists' = exists \ gone /\ file' = [old \in Days |-> IF old \in gone THEN <<>> ELSE file[old]]
  <2>1. gone \in SUBSET {old \in Days : old + Retention < today}
    <3> SUFFICES ASSUME NEW old \in gone PROVE old \in Days /\ old + Retention < today
      OBVIOUS
    <3>1. old \in Days /\ old + Retention < D
      BY <1>1 DEF Expired
    <3> QED BY <1>1, <3>1
  <2> HIDE DEF gone
  <2>2. /\ finished' = [old \in Days |-> IF old \in gone THEN {} ELSE finished[old]]
        /\ open' = [old \in Days |-> IF old \in gone THEN {} ELSE open[old]]
    BY <1>4 DEF finished, open
  <2>3. spoiled' = spoiled \ gone
    BY <1>1, <1>4 DEF spoiled
  <2>4. History!Expire
    BY <1>2, <2>1, <2>2, <2>3 DEF History!Expire, finished, open, spoiled
  <2> QED BY <2>4 DEF History!Next
<1> QED BY <1>3, <1>4 DEF maybe_cleanup

LEMMA StepHistory ==
  RecordsInv /\ RecordsInv' /\ [RecordsNext]_recordsVars => [History!Next]_(History!vars)
<1> SUFFICES ASSUME RecordsInv, RecordsInv', [RecordsNext]_recordsVars
             PROVE  [History!Next]_(History!vars)
  OBVIOUS
<1>1. /\ RecordsTypeOK /\ Kept /\ Kept'
      /\ exists \in SUBSET Days /\ exists' \in SUBSET Days
  BY DEF RecordsInv, RecordsTypeOK
<1>2. ASSUME NEW w \in Writers, NEW n \in 1..2, Append_open(w, n)
      PROVE  History!Next
  <2>1. file' = file /\ today' = today /\ submitted' = submitted + n
    BY <1>2 DEF Append_open
  <2>2. 1..submitted \subseteq 1..submitted'
    BY <1>1, <2>1 DEF RecordsTypeOK
  <2>3. finished' = finished /\ open' = open /\ spoiled' = spoiled
    BY <1>1, <2>1, SameFiles
  <2>4. History!Submit
    BY <2>1, <2>2, <2>3 DEF History!Submit, finished, open, spoiled
  <2> QED BY <2>4 DEF History!Next
<1>3. ASSUME NEW w \in Writers, Crash(w) PROVE UNCHANGED History!vars
  BY <1>1, <1>3, SameFiles DEF Crash, History!vars, finished, open, spoiled
<1>4. CASE Midnight
  <2>1. today' > today /\ submitted' = submitted /\ file' = file
    BY <1>1, <1>4 DEF Midnight, RecordsTypeOK
  <2>2. History!Midnight
    BY <1>1, <2>1, SameFiles DEF History!Midnight, finished, open, spoiled
  <2> QED BY <2>2 DEF History!Next
<1>5. CASE UNCHANGED recordsVars
  BY <1>5 DEF recordsVars, History!vars
<1> QED BY <1>2, <1>3, <1>4, <1>5, LineHistory, NewlineHistory, FailsHistory,
           CleanupHistory DEF RecordsNext

LEMMA AnswersOfHistory == RecordsInv => AnswersAgree
<1> SUFFICES ASSUME RecordsInv, NEW from \in Days, NEW to \in Days
             PROVE  read_range(from, to) = History!Answer(from, to)
  BY Zenon DEF AnswersAgree
<1> DEFINE dates == exists \cap (from..to)
           span == Days \cap (from..to)
<1>1. exists \in SUBSET Days /\ Kept
  BY DEF RecordsInv, RecordsTypeOK
<1>2. (\E d \in dates : Refuses(file[d])) <=> span \cap spoiled # {}
  BY <1>1 DEF spoiled
<1>3. UNION {Finished(file[d]) \cup Open(file[d]) : d \in dates}
        = UNION {finished[d] \cup open[d] : d \in span}
  BY <1>1 DEF finished, open
<1>4. History!Answer(from, to) =
        IF span \cap spoiled # {}
          THEN [ok |-> FALSE, records |-> {}]
          ELSE [ok |-> TRUE, records |-> UNION {finished[d] \cup open[d] : d \in span}]
  BY Zenon DEF History!Answer, History!Readable, finished, open, spoiled
<1>5. read_range(from, to) =
        IF \E d \in dates : Refuses(file[d])
          THEN [ok |-> FALSE, records |-> {}]
          ELSE [ok |-> TRUE,
                records |-> UNION {Finished(file[d]) \cup Open(file[d]) : d \in dates}]
  BY Zenon DEF read_range
<1> HIDE DEF dates, span
<1> QED BY <1>2, <1>3, <1>4, <1>5, Zenon

\* The files as appends, crashes and sweeps leave them implement the history
\* readers are promised: records stay once their line is finished, days expire
\* whole and on time, nothing is read that was not submitted; and whatever
\* range of days a reader asks for, it is answered what that history says: an
\* error if a line of the range was cut inside a character, and else every
\* record of the range (src/records.rs:134-224 against MetricHistory).
THEOREM RecordsImplementHistory == RecordsSpec => HistorySpec
<1>1. RecordsInv /\ [RecordsNext]_recordsVars => RecordsInv'
  BY StepRecords
<1> QED BY InitRecords, InitHistory, StepHistory, AnswersOfHistory, <1>1,
           PTL DEF RecordsSpec, HistorySpec, History!Spec

=============================================================================
