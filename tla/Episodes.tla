------------------------------- MODULE Episodes -------------------------------
(***************************************************************************)
(* The sustained rules of the alert engine (alerts.rs): the CPU and the    *)
(* memory of a process, the CPU and the memory of an application, with the *)
(* rolling windows they average over (rolling.rs), the episodes that       *)
(* decide when a rule speaks (once when the average crosses the threshold, *)
(* once more if it is still there later, then not until it has fallen      *)
(* back, and never twice within the cooldown), and the records made of     *)
(* processes once a minute.                                                *)
(*                                                                         *)
(* An episode is kept per process and rule, and the rules share nothing    *)
(* but the clock: a behaviour is about the processes, or the applications, *)
(* under one of them.  A snapshot may come without their list, and they    *)
(* come and go in it.  Instants are natural numbers, Never stands for      *)
(* None, and a footprint is a set of at most one reading.                  *)
(***************************************************************************)
EXTENDS Naturals, Sums

CONSTANTS
  Kinds,         \* the rules
  Pids,          \* processes, or the roots of applications
  Loads,         \* the CPU one may use in a snapshot
  Holdings,      \* the memory: [resident, footprint]
  Settings,      \* the thresholds that may be configured while it runs
  Base,          \* the threshold of the records, which no override moves
  AcuteFactor,   \* a runaway uses this many times the threshold (3)
  Window,        \* the acute window (60 s)
  MinSpan,       \* how full it must be (50 s)
  SlowFactor,    \* the chronic window is this many acute ones (5)
  Cooldown,      \* between two episodes (10 min)
  Reminder,      \* from the first report to the follow-up (30 min)
  RecordEvery,   \* between two rounds of records (60 s)
  RecordTop,     \* that many spenders of CPU time are recorded anyway (5)
  Pauses,        \* how much time may pass between two snapshots
  MaxTime        \* bound: the last instant

CpuKinds == {"Cpu", "AppCpu"}
AppKinds == {"AppCpu", "AppMemory"}

ASSUME EpisodesAssumption ==
  /\ Kinds \subseteq CpuKinds \cup AppKinds \cup {"Memory"}
  /\ Pids \subseteq Nat
  /\ Loads \subseteq Nat
  /\ Holdings \subseteq [resident : Nat, footprint : SUBSET Nat]
  /\ Settings \subseteq Nat \ {0} /\ Base \in Nat
  /\ AcuteFactor \in Nat \ {0}
  /\ Window \in Nat /\ MinSpan \in Nat
  /\ 0 < MinSpan /\ MinSpan <= Window
  /\ SlowFactor \in Nat \ {0}
  /\ Cooldown \in Nat /\ Reminder \in Nat \ {0}
  /\ RecordEvery \in Nat \ {0} /\ RecordTop \in Nat
  /\ Pauses \subseteq Nat \ {0}
  /\ MaxTime \in Nat \ {0}

VARIABLES
  kind,           \* the rule
  now,
  threshold,      \* ActiveThresholds: the bar of these processes
  fast, slow,     \* AlertEngine::fast, slow (for applications apps): the
                  \* samples of each
  active,         \* EpisodeState::active
  last_alert,     \* EpisodeState::last_alert
  last_record,    \* AlertEngine::last_record
  records,        \* Evaluation::records of the last snapshot
  report,         \* Evaluation::events of this step: whom it reported, and how
  judged,         \* history: when the rule last came to a conclusion
  here_from,      \* history: since when the process has been in every list
  reached,        \* history: when it last used as much as each setting
  hot_from,       \* history: since when every conclusion found it over
  blazing_from,   \* history: since when every sample was at the bar
  told,           \* history: the reports made since hot_from
  said            \* history: the last report of all

settings == <<kind, now, threshold>>
windows == <<fast, slow>>
episodes == <<active, last_alert>>
recording == <<last_record, records>>
history == <<judged, here_from, reached, hot_from, blazing_from, told, said>>
vars == <<settings, windows, episodes, recording, report, history>>

Never == 0
Times == 0 .. MaxTime
NoEpisode == [started |-> Never, reminded |-> FALSE]

SlowWindow == SlowFactor * Window
SlowMinSpan == SlowFactor * MinSpan

\* What one sample may say.
Uses == IF kind \in CpuKinds THEN Loads ELSE Holdings

Init ==
  /\ kind \in Kinds
  /\ now = 1
  /\ threshold \in Settings
  /\ fast = [p \in Pids |-> {}]
  /\ slow = [p \in Pids |-> {}]
  /\ active = [p \in Pids |-> NoEpisode]
  /\ last_alert = [p \in Pids |-> Never]
  /\ last_record = Never
  /\ records = {}
  /\ report = [p \in Pids |-> "none"]
  /\ judged = [p \in Pids |-> Never]
  /\ here_from = [p \in Pids |-> Never]
  /\ reached = [p \in Pids |-> [s \in Settings |-> Never]]
  /\ hot_from = [p \in Pids |-> Never]
  /\ blazing_from = [p \in Pids |-> Never]
  /\ told = [p \in Pids |-> {}]
  /\ said = [p \in Pids |-> Never]

-----------------------------------------------------------------------------
(* ProcessWindows.                                                         *)

Span(samples, t) == t - Min({s.at : s \in samples})

\* What a sample counts for: the CPU, or the footprint where it could be
\* read and the resident size where it could not.
Held(use) ==
  IF kind \in CpuKinds THEN use
  ELSE IF use.footprint = {} THEN use.resident
  ELSE CHOOSE f \in use.footprint : TRUE

\* The samples an average is taken over: those with a footprint, if any.
Measured(samples) ==
  LET read == {s \in samples : s.use.footprint # {}}
  IN IF kind \in CpuKinds \/ read = {} THEN samples ELSE read

\* Whether the average is at least this much.
Averages(samples, bar) ==
  LET measured == Measured(samples)
  IN Sum(measured, [s \in measured |-> Held(s.use)]) >= bar * Cardinality(measured)

\* cpu_time_delta_ms: what was spent between the oldest sample and the newest.
Spent(samples) ==
  LET before(s) == {r.at : r \in {q \in samples : q.at < s.at}}
      later == {s \in samples : before(s) # {}}
  IN Sum(later, [s \in later |-> s.use * (s.at - Max(before(s)))])

\* Mutant of Record: a process that left the list keeps its samples.
RecordKeepsGone(samples, t, list, window) ==
  [p \in Pids |->
     {s \in samples[p] : t - s.at <= window} \cup
       (IF p \in DOMAIN list THEN {[at |-> t, use |-> list[p]]} ELSE {})]

\* record: the list seen at t joins the samples of a window.
Record(samples, t, list, window) ==
  [p \in Pids |->
     IF p \in DOMAIN list
       THEN {s \in samples[p] : t - s.at <= window}
              \cup {[at |-> t, use |-> list[p]]}
       ELSE {}]

-----------------------------------------------------------------------------
(* EpisodeState::notify.                                                   *)

\* Mutant of Repeats: every evaluation after the gap reminds.
RepeatsAgain(p, t) ==
  /\ active[p] # NoEpisode
  /\ t - active[p].started >= Reminder

\* Still true long after the first report, and not yet repeated.
Repeats(p, t) ==
  /\ active[p] # NoEpisode
  /\ ~active[p].reminded
  /\ t - active[p].started >= Reminder

\* Mutants of Begins: no floor between two episodes; a process is reported
\* once and for all.
BeginsAtOnce(p, t) == active[p] = NoEpisode

BeginsOnce(p, t) == active[p] = NoEpisode /\ last_alert[p] = Never

\* A new episode, unless the last report is too recent.
Begins(p, t) ==
  /\ active[p] = NoEpisode
  /\ last_alert[p] # Never => t - last_alert[p] >= Cooldown

-----------------------------------------------------------------------------
(* The rules.                                                              *)

\* Mutant of IsRunaway: it must be busy over the chronic window too.
IsRunawayForLong(quick, long, t) ==
  /\ Span(quick, t) >= MinSpan
  /\ Span(long, t) >= SlowMinSpan
  /\ Averages(quick, AcuteFactor * threshold)

\* The acute tier, of the CPU rule for processes alone.
IsRunaway(quick, long, t) ==
  /\ Span(quick, t) >= MinSpan
  /\ Averages(quick, AcuteFactor * threshold)

\* The chronic tier.
IsChronic(long, t) == Span(long, t) >= SlowMinSpan /\ Averages(long, threshold)

\* Where the chronic window is not full enough the CPU rule finds a process
\* below the bar, and the others come to no conclusion: they neither speak
\* nor end an episode.
Concludes(long, t) == kind = "Cpu" \/ Span(long, t) >= SlowMinSpan

IsOver(quick, long, t) ==
  \/ kind = "Cpu" /\ IsRunaway(quick, long, t)
  \/ IsChronic(long, t)

\* The episode of a process after a snapshot at t; it ends when the rule finds
\* the process below the bar, and is forgotten when it is gone.
EpisodeAfter(p, t, list, concluded, over) ==
  CASE p \notin DOMAIN list \/ p \in concluded \ over -> NoEpisode
    [] p \in over /\ Begins(p, t) -> [started |-> t, reminded |-> FALSE]
    [] p \in over /\ Repeats(p, t) -> [active[p] EXCEPT !.reminded = TRUE]
    [] OTHER -> active[p]

\* What a sample at the bar, or at the acute one, stays for before it must be
\* reported.
Bar == IF kind = "Cpu" THEN AcuteFactor * threshold ELSE threshold
Patience == IF kind = "Cpu" THEN Window ELSE SlowWindow

\* What is remembered of the processes in the list.
Remember(t, list, concluded, over) ==
  /\ judged' = [p \in Pids |-> IF p \notin DOMAIN list THEN Never
                               ELSE IF p \in concluded THEN t ELSE judged[p]]
  /\ here_from' =
       [p \in Pids |-> IF p \notin DOMAIN list THEN Never
                       ELSE IF here_from[p] = Never THEN t ELSE here_from[p]]
  /\ reached' =
       [p \in Pids |-> [s \in Settings |->
          IF p \in DOMAIN list /\ Held(list[p]) >= s THEN t ELSE reached[p][s]]]
  /\ hot_from' =
       [p \in Pids |-> IF p \notin DOMAIN list \/ p \in concluded \ over THEN Never
                       ELSE IF p \in over /\ hot_from[p] = Never THEN t
                       ELSE hot_from[p]]
  /\ blazing_from' =
       [p \in Pids |-> IF p \notin DOMAIN list THEN Never
                       ELSE IF Held(list[p]) < Bar THEN Never
                       ELSE IF blazing_from[p] = Never THEN t
                       ELSE blazing_from[p]]
  /\ told' = [p \in Pids |->
                IF p \notin DOMAIN list \/ p \in concluded \ over THEN {}
                ELSE IF report'[p] = "none" THEN told[p] ELSE told[p] \cup {t}]
  /\ said' = [p \in Pids |-> IF report'[p] = "none" THEN said[p] ELSE t]

\* What a rule does with its conclusions about the processes in a list.
Conclude(t, list, concluded, over) ==
  LET begun == {p \in over : Begins(p, t)}
      repeated == {p \in over : Repeats(p, t)}
  IN  /\ now' = t
      /\ active' = [p \in Pids |-> EpisodeAfter(p, t, list, concluded, over)]
      /\ last_alert' = [p \in Pids |->
                          CASE p \notin DOMAIN list -> Never
                            [] p \in begun \cup repeated -> t
                            [] OTHER -> last_alert[p]]
      /\ report' = [p \in Pids |-> CASE p \in begun -> "new"
                                     [] p \in repeated -> "reminder"
                                     [] OTHER -> "none"]
      /\ Remember(t, list, concluded, over)
      /\ UNCHANGED <<kind, threshold>>

-----------------------------------------------------------------------------
(* The records.                                                            *)

RecordDue(t) == last_record # Never => t - last_record >= RecordEvery

\* The biggest spenders of CPU time of the acute window, by their pid where
\* they spent the same.
Spenders(quick, list, t) ==
  LET spent == [p \in {q \in DOMAIN list : Span(quick[q], t) >= MinSpan} |-> Spent(quick[p])]
      busy == {p \in DOMAIN spent : spent[p] > 0}
      before(q, p) == spent[q] > spent[p] \/ (spent[q] = spent[p] /\ q < p)
  IN {p \in busy : Cardinality({q \in busy : before(q, p)}) < RecordTop}

\* Who is worth a record: over the base threshold for an acute window, or one
\* of the biggest spenders.
Qualify(quick, list, t) ==
  {p \in DOMAIN list : Span(quick[p], t) >= MinSpan /\ Averages(quick[p], Base)}
    \cup (IF kind = "Cpu" THEN Spenders(quick, list, t) ELSE {})

-----------------------------------------------------------------------------
(* The evaluation of one snapshot.                                         *)

\* A snapshot at t with this list of processes.
Evaluate(t, list) ==
  LET quick == Record(fast, t, list, Window)
      long == Record(slow, t, list, SlowWindow)
      concluded == {p \in DOMAIN list : Concludes(long[p], t)}
      over == {p \in DOMAIN list : IsOver(quick[p], long[p], t)}
  IN  /\ kind \notin AppKinds
      /\ fast' = quick
      /\ slow' = long
      /\ Conclude(t, list, concluded, over)
      /\ IF RecordDue(t)
           THEN last_record' = t /\ records' = Qualify(quick, list, t)
           ELSE last_record' = last_record /\ records' = {}

\* A snapshot at t with this list of applications.
EvaluateApps(t, list) ==
  LET long == Record(slow, t, list, SlowWindow)
      concluded == {p \in DOMAIN list : Concludes(long[p], t)}
      over == {p \in DOMAIN list : IsOver({}, long[p], t)}
  IN  /\ kind \in AppKinds
      /\ slow' = long
      /\ Conclude(t, list, concluded, over)
      /\ UNCHANGED <<fast, recording>>

\* A snapshot without the list: nothing is measured, nothing is concluded.
Skip(t) ==
  /\ now' = t
  /\ report' = [p \in Pids |-> "none"]
  /\ records' = {}
  /\ blazing_from' = [p \in Pids |-> Never]
  /\ UNCHANGED <<kind, threshold, windows, episodes, last_record, judged,
                 here_from, reached, hot_from, told, said>>

\* The alert settings are reloaded; the engine's state is not touched.
Reload ==
  /\ threshold' \in Settings \ {threshold}
  /\ report' = [p \in Pids |-> "none"]
  /\ blazing_from' = [p \in Pids |-> Never]
  /\ UNCHANGED <<kind, now, windows, episodes, recording, judged,
                 here_from, reached, hot_from, told, said>>

Snapshot(t) ==
  \/ \E listed \in SUBSET Pids : \E list \in [listed -> Uses] :
       Evaluate(t, list) \/ EvaluateApps(t, list)
  \/ Skip(t)

Next ==
  \/ \E pause \in Pauses : now + pause <= MaxTime /\ Snapshot(now + pause)
  \/ Reload

Spec == Init /\ [][Next]_vars

-----------------------------------------------------------------------------
(* Properties.                                                             *)

Sample == [at : Times, use : Uses]

TypeOK ==
  /\ kind \in Kinds
  /\ now \in Times
  /\ threshold \in Settings
  /\ fast \in [Pids -> SUBSET Sample]
  /\ slow \in [Pids -> SUBSET Sample]
  /\ active \in [Pids -> [started : Times, reminded : BOOLEAN]]
  /\ last_alert \in [Pids -> Times]
  /\ last_record \in Times
  /\ records \subseteq Pids
  /\ report \in [Pids -> {"none", "new", "reminder"}]
  /\ judged \in [Pids -> Times]
  /\ here_from \in [Pids -> Times]
  /\ reached \in [Pids -> [Settings -> Times]]
  /\ hot_from \in [Pids -> Times]
  /\ blazing_from \in [Pids -> Times]
  /\ told \in [Pids -> SUBSET Times]
  /\ said \in [Pids -> Times]
  /\ \A p \in Pids :
       /\ fast[p] \subseteq slow[p]
       /\ active[p].started <= last_alert[p]

\* "Exactly one follow-up after 30 minutes if it is still true, then silence
\* until the value falls back" (docs/metrics.md:401-404): a process that is
\* over the threshold at every conclusion is reported once, and once more
\* exactly when the first report is that old.
FollowUp ==
  \A p \in Pids : told[p] # {} =>
    Cardinality(told[p]) = IF judged[p] - Min(told[p]) >= Reminder THEN 2 ELSE 1

\* "Going silent forever is its own failure mode" (alerts.rs:1694-1696): a
\* process that has been over for a cooldown has been reported.
Told ==
  \A p \in Pids :
    hot_from[p] # Never /\ judged[p] - hot_from[p] >= Cooldown => told[p] # {}

\* "Startup blips never alert" (alerts.rs:78-79), and an alert is about the
\* present: who is reported has been listed that long without a gap, and has
\* reached the threshold within the chronic window.
Sustained ==
  \A p \in Pids : report[p] # "none" =>
    /\ here_from[p] # Never
    /\ now - here_from[p] >= IF kind = "Cpu" THEN MinSpan ELSE SlowMinSpan
    /\ now - reached[p][threshold] <= SlowWindow

\* One cooldown between two episodes of a process that stays in the list,
\* however often it crosses the threshold (alerts.rs:1717-1725).
Spaced ==
  [][\A p \in Pids :
       report'[p] = "new" /\ now' # now /\ said[p] # Never =>
         here_from'[p] > said[p] \/ now' - said[p] >= Cooldown]_vars

\* "A runaway, worth interrupting fast" (alerts.rs:1252-1253), and "interrupted
\* only once persistence is established": who has been at the bar in every
\* snapshot of the window of the rule has been reported, or had been within
\* the cooldown.
Prompt ==
  \A p \in Pids : blazing_from[p] # Never /\ now - blazing_from[p] >= Patience =>
    told[p] # {} \/ (said[p] # Never /\ now - said[p] < Cooldown)
=============================================================================
