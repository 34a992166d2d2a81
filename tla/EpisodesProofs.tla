---------------------------- MODULE EpisodesProofs ----------------------------
(***************************************************************************)
(* Proofs about Episodes and Monitor, for every set of processes, every    *)
(* window, pause, threshold and cooldown, and for all four rules.  Where   *)
(* the averages play no part any set of listed processes may be over; the  *)
(* last two sections bound them by the samples they are taken of.          *)
(***************************************************************************)
EXTENDS Monitor, SumProofs

\* A multiple is no smaller.
LEMMA Multiples ==
  ASSUME NEW factor \in Nat \ {0}, NEW window \in Nat
  PROVE  factor * window \in Nat /\ window <= factor * window
  <1>1. factor - 1 \in Nat /\ factor * window = window + (factor - 1) * window
    OBVIOUS
  <1>2. (factor - 1) * window \in Nat
    BY <1>1
  <1> QED
    BY <1>1, <1>2

LEMMA Durations ==
  /\ MaxTime \in Nat /\ 0 < MaxTime
  /\ Pauses \subseteq Nat \ {0}
  /\ Cooldown \in Nat /\ Reminder \in Nat /\ 0 < Reminder
  /\ Window \in Nat /\ SlowWindow \in Nat /\ Window <= SlowWindow
  BY EpisodesAssumption, Multiples DEF SlowWindow

LEMMA Spans ==
  /\ MinSpan \in Nat /\ SlowMinSpan \in Nat /\ SlowFactor \in Nat \ {0}
  /\ MinSpan <= SlowMinSpan /\ AcuteFactor \in Nat \ {0} /\ 0 < MinSpan
  BY EpisodesAssumption, Multiples DEF SlowMinSpan

-----------------------------------------------------------------------------
(* Averages.                                                               *)

\* What the samples of S count for together.
Load(S) == Sum(S, [s \in S |-> Held(s.use)])

\* An average of samples at a bar is at the bar; of samples below it, below.
LEMMA SumBounds ==
  ASSUME NEW S, IsFiniteSet(S), \A s \in S : Held(s.use) \in Nat, NEW bar \in Nat
  PROVE  /\ (\A s \in S : Held(s.use) >= bar) => Load(S) >= bar * Cardinality(S)
         /\ S # {} /\ (\A s \in S : Held(s.use) < bar) => ~(Load(S) >= bar * Cardinality(S))
  <1> DEFINE count == [s \in S |-> Held(s.use)]
             size(T) == bar * Cardinality(T)
             G == {T \in SUBSET S :
                     /\ (\A s \in T : Held(s.use) >= bar) => Sum(T, count) >= size(T)
                     /\ T # {} /\ (\A s \in T : Held(s.use) < bar) => Sum(T, count) < size(T)}
  <1>1. \A s \in S : count[s] = Held(s.use) /\ count[s] \in Nat
    OBVIOUS
  <1>2. /\ Sum({}, count) = 0
        /\ \A T \in SUBSET S : Sum(T, count) \in Nat
        /\ \A T \in SUBSET S : \A s \in T :
             Sum(T, count) = count[s] + Sum(T \ {s}, count)
    <2> HIDE DEF count
    <2> QED
      BY <1>1, SumRemove
  <1> HIDE DEF count
  <1>3. \A T \in SUBSET S : /\ IsFiniteSet(T) /\ Cardinality(T) \in Nat
                            /\ T = {} <=> Cardinality(T) = 0
    BY FS_Subset, FS_CardinalityType, FS_EmptySet
  <1>4. size({}) = 0 /\ \A T \in SUBSET S : size(T) \in Nat
    BY <1>3, FS_EmptySet
  <1>5. ASSUME NEW T \in SUBSET S, T # {}, \A s \in T : T \ {s} \in G PROVE T \in G
    <2>1. PICK s \in T : TRUE
      BY <1>5
    <2> DEFINE less == T \ {s}
    <2>2. size(T) = size(less) + bar
      <3>1. Cardinality(T) = Cardinality(less) + 1 /\ Cardinality(less) \in Nat
        <4>1. Cardinality(T \ {s}) = Cardinality(T) - 1
          BY <1>3, <2>1, FS_RemoveElement
        <4>2. less \in SUBSET S
          OBVIOUS
        <4> HIDE DEF less
        <4>3. Cardinality(less) \in Nat /\ Cardinality(T) \in Nat
          BY <1>3, <4>2
        <4>4. Cardinality(less) = Cardinality(T) - 1
          BY <4>1 DEF less
        <4> QED
          BY <4>3, <4>4
      <3>2. \A n \in Nat : bar * (n + 1) = bar * n + bar
        OBVIOUS
      <3> HIDE DEF less
      <3> QED
        BY <3>1, <3>2
    <2>3. less \in G /\ less \in SUBSET S
      BY <1>5, <2>1
    <2>4. /\ Sum(T, count) = Held(s.use) + Sum(less, count) /\ Held(s.use) \in Nat
          /\ Sum(less, count) \in Nat /\ size(less) \in Nat
      BY <1>1, <1>2, <1>4, <2>1, <2>3
    <2> HIDE DEF size
    <2>5. (\A r \in T : Held(r.use) >= bar) => Sum(T, count) >= size(T)
      BY <2>1, <2>2, <2>3, <2>4
    <2>6. (\A r \in T : Held(r.use) < bar) => Sum(T, count) < size(T)
      <3>1. SUFFICES ASSUME \A r \in T : Held(r.use) < bar PROVE Sum(T, count) < size(T)
        OBVIOUS
      <3>2. Sum(less, count) <= size(less)
        <4>1. CASE less = {}
          <5> HIDE DEF less
          <5>1. Sum(less, count) = 0 /\ size(less) = 0
            BY <1>2, <1>4, <4>1
          <5> QED
            BY <5>1
        <4>2. CASE less # {}
          <5>1. Sum(less, count) < size(less)
            BY <2>3, <3>1, <4>2
          <5> HIDE DEF less
          <5> QED
            BY <2>4, <5>1
        <4> QED
          BY <4>1, <4>2
      <3>3. Held(s.use) < bar
        BY <2>1, <3>1
      <3> HIDE DEF less
      <3> QED
        BY <2>2, <2>4, <3>2, <3>3
    <2> QED
      BY <2>5, <2>6
  <1>6. {} \in G
    BY <1>2, <1>4
  <1>7. S \in G
    <2>1. \A T \in SUBSET S : T \in G
      <3> HIDE DEF G
      <3> QED
        BY <1>5, <1>6, InductiveParts
    <2> QED
      BY <2>1
  <1>8. Load(S) = Sum(S, count) /\ Load(S) \in Nat
    BY <1>2 DEF Load, count
  <1> QED
    BY <1>4, <1>7, <1>8

-----------------------------------------------------------------------------
(* The windows.                                                            *)

\* What a window holds after an evaluation.
LEMMA WindowAfter ==
  ASSUME NEW samples, NEW t, NEW list, NEW window, NEW p \in Pids
  PROVE  /\ p \notin DOMAIN list => Record(samples, t, list, window)[p] = {}
         /\ p \in DOMAIN list =>
              Record(samples, t, list, window)[p] =
                {s \in samples[p] : t - s.at <= window} \cup {[at |-> t, use |-> list[p]]}
  BY DEF Record

\* A window spans as much as its oldest sample is old.
LEMMA SpanBounds ==
  ASSUME NEW S, S # {}, \A s \in S : s.at \in Nat, NEW t \in Nat, NEW span \in Nat
  PROVE  Span(S, t) >= span <=> \E s \in S : t - s.at >= span
  <1> DEFINE instants == {s.at : s \in S}
  <1>1. instants \in SUBSET Nat /\ instants # {}
    OBVIOUS
  <1>2. Min(instants) \in instants /\ \A m \in instants : Min(instants) <= m
    <2> HIDE DEF instants
    <2> QED
      BY <1>1, Smallest
  <1>3. PICK s \in S : Min(instants) = s.at
    BY <1>2
  <1>4. Span(S, t) = t - s.at
    BY <1>3 DEF Span
  <1>5. \A r \in S : s.at <= r.at
    BY <1>2, <1>3
  <1> QED
    BY <1>4, <1>5

-----------------------------------------------------------------------------
(* What an evaluation does.                                                *)

\* What an evaluation does to a process that is not listed, about which the
\* rule comes to no conclusion, that is not over, and that is over with a first
\* report, a follow-up or none.
Gone(p, t) ==
  /\ active'[p] = NoEpisode
  /\ last_alert'[p] = Never
  /\ report'[p] = "none"
  /\ judged'[p] = Never
  /\ hot_from'[p] = Never
  /\ told'[p] = {}
  /\ said'[p] = said[p]
  /\ here_from'[p] = Never

Open(p, t) ==
  /\ active'[p] = active[p]
  /\ last_alert'[p] = last_alert[p]
  /\ report'[p] = "none"
  /\ judged'[p] = judged[p]
  /\ hot_from'[p] = hot_from[p]
  /\ told'[p] = told[p]
  /\ said'[p] = said[p]
  /\ here_from'[p] = IF here_from[p] = Never THEN t ELSE here_from[p]

Calm(p, t) ==
  /\ active'[p] = NoEpisode
  /\ last_alert'[p] = last_alert[p]
  /\ report'[p] = "none"
  /\ judged'[p] = t
  /\ hot_from'[p] = Never
  /\ told'[p] = {}
  /\ said'[p] = said[p]
  /\ here_from'[p] = IF here_from[p] = Never THEN t ELSE here_from[p]

Hot(p, t) ==
  /\ judged'[p] = t
  /\ hot_from'[p] = IF hot_from[p] = Never THEN t ELSE hot_from[p]
  /\ here_from'[p] = IF here_from[p] = Never THEN t ELSE here_from[p]

First(p, t) ==
  /\ Hot(p, t)
  /\ Begins(p, t)
  /\ active'[p] = [started |-> t, reminded |-> FALSE]
  /\ last_alert'[p] = t
  /\ report'[p] = "new"
  /\ told'[p] = told[p] \cup {t}
  /\ said'[p] = t

Again(p, t) ==
  /\ Hot(p, t)
  /\ Repeats(p, t)
  /\ active'[p] = [active[p] EXCEPT !.reminded = TRUE]
  /\ last_alert'[p] = t
  /\ report'[p] = "reminder"
  /\ told'[p] = told[p] \cup {t}
  /\ said'[p] = t

Silent(p, t) ==
  /\ Hot(p, t)
  /\ ~Begins(p, t)
  /\ ~Repeats(p, t)
  /\ active'[p] = active[p]
  /\ last_alert'[p] = last_alert[p]
  /\ report'[p] = "none"
  /\ told'[p] = told[p]
  /\ said'[p] = said[p]

One(p, t) ==
  \/ Gone(p, t) \/ Open(p, t) \/ Calm(p, t)
  \/ First(p, t) \/ Again(p, t) \/ Silent(p, t)

LEMMA ConcludeOne ==
  ASSUME NEW t, NEW list, NEW concluded, NEW over,
         over \subseteq concluded, concluded \subseteq DOMAIN list,
         Conclude(t, list, concluded, over), NEW p \in Pids
  PROVE  /\ One(p, t)
         /\ IF p \in over THEN First(p, t) \/ Again(p, t) \/ Silent(p, t)
                          ELSE report'[p] = "none"
  <1> DEFINE begun == {q \in over : Begins(q, t)}
             repeated == {q \in over : Repeats(q, t)}
  <1>1. /\ active' = [q \in Pids |-> EpisodeAfter(q, t, list, concluded, over)]
        /\ last_alert' = [q \in Pids |->
                           CASE q \notin DOMAIN list -> Never
                             [] q \in begun \cup repeated -> t
                             [] OTHER -> last_alert[q]]
        /\ report' = [q \in Pids |-> CASE q \in begun -> "new"
                                       [] q \in repeated -> "reminder"
                                       [] OTHER -> "none"]
        /\ Remember(t, list, concluded, over)
    BY DEF Conclude
  <1>2. over \subseteq concluded /\ concluded \subseteq DOMAIN list
    OBVIOUS
  <1>3. Begins(p, t) => ~Repeats(p, t)
    BY DEF Begins, Repeats
  <1>4. p \in begun <=> p \in over /\ Begins(p, t)
    OBVIOUS
  <1>5. p \in repeated <=> p \in over /\ Repeats(p, t)
    OBVIOUS
  <1> HIDE DEF begun, repeated
  <1>6. /\ judged'[p] = IF p \notin DOMAIN list THEN Never
                        ELSE IF p \in concluded THEN t ELSE judged[p]
        /\ here_from'[p] = IF p \notin DOMAIN list THEN Never
                           ELSE IF here_from[p] = Never THEN t ELSE here_from[p]
        /\ hot_from'[p] = IF p \notin DOMAIN list \/ p \in concluded \ over THEN Never
                          ELSE IF p \in over /\ hot_from[p] = Never THEN t
                          ELSE hot_from[p]
        /\ told'[p] = IF p \notin DOMAIN list \/ p \in concluded \ over THEN {}
                      ELSE IF report'[p] = "none" THEN told[p]
                      ELSE told[p] \cup {t}
        /\ said'[p] = IF report'[p] = "none" THEN said[p] ELSE t
    BY <1>1 DEF Remember
  <1>7. CASE p \notin DOMAIN list
    BY <1>1, <1>2, <1>4, <1>5, <1>6, <1>7 DEF EpisodeAfter, Gone, One
  <1>8. CASE p \in DOMAIN list /\ p \notin concluded
    BY <1>1, <1>2, <1>4, <1>5, <1>6, <1>8 DEF EpisodeAfter, Open, One
  <1>9. CASE p \in concluded /\ p \notin over
    BY <1>1, <1>2, <1>4, <1>5, <1>6, <1>9 DEF EpisodeAfter, Calm, One
  <1>10. CASE p \in over /\ Begins(p, t)
    BY <1>1, <1>2, <1>3, <1>4, <1>5, <1>6, <1>10 DEF EpisodeAfter, First, Hot, One
  <1>11. CASE p \in over /\ Repeats(p, t)
    BY <1>1, <1>2, <1>3, <1>4, <1>5, <1>6, <1>11 DEF EpisodeAfter, Again, Hot, One
  <1>12. CASE p \in over /\ ~Begins(p, t) /\ ~Repeats(p, t)
    BY <1>1, <1>2, <1>4, <1>5, <1>6, <1>12 DEF EpisodeAfter, Silent, Hot, One
  <1> QED
    BY <1>2, <1>7, <1>8, <1>9, <1>10, <1>11, <1>12 DEF Gone, Open, Calm

\* Whatever the rule, an evaluation concludes about listed processes, and finds
\* over only those it concludes about.
LEMMA EvaluateConcludes ==
  ASSUME NEW t, NEW list, Evaluate(t, list) \/ EvaluateApps(t, list)
  PROVE  /\ \E concluded, over :
              /\ over \subseteq concluded /\ concluded \subseteq DOMAIN list
              /\ Conclude(t, list, concluded, over)
         /\ now' = t /\ kind' = kind /\ threshold' = threshold
         /\ \A p \in Pids : One(p, t)
  <1>1. \E concluded, over :
          /\ over \subseteq concluded /\ concluded \subseteq DOMAIN list
          /\ Conclude(t, list, concluded, over)
    <2>1. \A quick, long : IsOver(quick, long, t) => Concludes(long, t)
      BY DEF IsOver, IsChronic, Concludes
    <2>2. CASE Evaluate(t, list)
      <3> DEFINE quick == Record(fast, t, list, Window)
                 long == Record(slow, t, list, SlowWindow)
                 concluded == {p \in DOMAIN list : Concludes(long[p], t)}
                 over == {p \in DOMAIN list : IsOver(quick[p], long[p], t)}
      <3>1. Conclude(t, list, concluded, over)
        BY <2>2 DEF Evaluate
      <3>2. over \subseteq concluded /\ concluded \subseteq DOMAIN list
        BY <2>1
      <3> QED
        BY <3>1, <3>2
    <2>3. CASE EvaluateApps(t, list)
      <3> DEFINE long == Record(slow, t, list, SlowWindow)
                 concluded == {p \in DOMAIN list : Concludes(long[p], t)}
                 over == {p \in DOMAIN list : IsOver({}, long[p], t)}
      <3>1. Conclude(t, list, concluded, over)
        BY <2>3 DEF EvaluateApps
      <3>2. over \subseteq concluded /\ concluded \subseteq DOMAIN list
        BY <2>1
      <3> QED
        BY <3>1, <3>2
    <2> QED
      BY <2>2, <2>3
  <1>2. PICK concluded, over :
          /\ over \subseteq concluded /\ concluded \subseteq DOMAIN list
          /\ Conclude(t, list, concluded, over)
    BY <1>1
  <1> QED
    BY <1>1, <1>2, ConcludeOne DEF Conclude

\* What an evaluation does to the windows and the history of a process.
LEMMA EvaluateWindows ==
  ASSUME NEW t, NEW list, Evaluate(t, list) \/ EvaluateApps(t, list), NEW p \in Pids
  PROVE  /\ slow' = Record(slow, t, list, SlowWindow)
         /\ kind \notin AppKinds => fast' = Record(fast, t, list, Window)
         /\ kind \in AppKinds => fast' = fast
         /\ here_from'[p] = IF p \notin DOMAIN list THEN Never
                            ELSE IF here_from[p] = Never THEN t ELSE here_from[p]
         /\ reached'[p] = [s \in Settings |->
              IF p \in DOMAIN list /\ Held(list[p]) >= s THEN t ELSE reached[p][s]]
         /\ blazing_from'[p] = IF p \notin DOMAIN list THEN Never
                               ELSE IF Held(list[p]) < Bar THEN Never
                               ELSE IF blazing_from[p] = Never THEN t
                               ELSE blazing_from[p]
  <1>1. PICK concluded, over : Conclude(t, list, concluded, over)
    BY EvaluateConcludes
  <1>2. Remember(t, list, concluded, over)
    BY <1>1 DEF Conclude
  <1>3. /\ slow' = Record(slow, t, list, SlowWindow)
        /\ kind \notin AppKinds => fast' = Record(fast, t, list, Window)
        /\ kind \in AppKinds => fast' = fast
    BY DEF Evaluate, EvaluateApps
  <1> QED
    BY <1>2, <1>3 DEF Remember

\* Whom it reports is over; who is over is hot.
LEMMA EvaluateOver ==
  ASSUME NEW t, NEW list, Evaluate(t, list) \/ EvaluateApps(t, list), NEW p \in Pids
  PROVE  LET over == \/ kind = "Cpu" /\ IsRunaway(fast'[p], slow'[p], t)
                     \/ IsChronic(slow'[p], t)
         IN  /\ report'[p] # "none" => p \in DOMAIN list /\ over
             /\ p \in DOMAIN list /\ over =>
                  First(p, t) \/ Again(p, t) \/ Silent(p, t)
  <1> DEFINE Over(q) == IF kind \in AppKinds
                          THEN IsOver({}, slow'[q], t)
                          ELSE IsOver(fast'[q], slow'[q], t)
             over == {q \in DOMAIN list : Over(q)}
             concluded == {q \in DOMAIN list : Concludes(slow'[q], t)}
  <1>1. Conclude(t, list, concluded, over)
    <2>1. CASE Evaluate(t, list)
      BY <2>1 DEF Evaluate
    <2>2. CASE EvaluateApps(t, list)
      BY <2>2 DEF EvaluateApps
    <2> QED
      BY <2>1, <2>2
  <1>2. over \subseteq concluded /\ concluded \subseteq DOMAIN list
    BY DEF IsOver, IsChronic, Concludes
  <1>3. p \in over <=>
          /\ p \in DOMAIN list
          /\ \/ kind = "Cpu" /\ IsRunaway(fast'[p], slow'[p], t)
             \/ IsChronic(slow'[p], t)
    BY DEF IsOver, AppKinds
  <1> HIDE DEF over, concluded
  <1>4. IF p \in over THEN First(p, t) \/ Again(p, t) \/ Silent(p, t)
                      ELSE report'[p] = "none"
    BY <1>1, <1>2, ConcludeOne
  <1> QED
    BY <1>3, <1>4

-----------------------------------------------------------------------------
(* The invariant.                                                          *)

\* A process's record agrees with what has been reported: it is in an episode
\* exactly if it was reported since it is over, its last report is the last
\* one of all or was forgotten with its place in the list, and as long as
\* nothing is reported, the last report is older than the heat.
Agrees(p) ==
  /\ hot_from[p] = Never => told[p] = {}
  /\ told[p] = {} <=> active[p] = NoEpisode
  /\ last_alert[p] \in {Never, said[p]}
  /\ last_alert[p] = Never /\ said[p] # Never =>
       here_from[p] = Never \/ here_from[p] > said[p]
  /\ told[p] = {} /\ hot_from[p] # Never => last_alert[p] <= hot_from[p]
  /\ hot_from[p] <= now /\ said[p] <= now

EpisodesInv ==
  /\ TypeOK
  /\ kind \in AppKinds => \A p \in Pids : fast[p] = {}
  /\ \A p \in Pids : Agrees(p) /\ judged[p] <= now
  /\ Told

LEMMA InitEpisodesInv == Init => EpisodesInv
  <1> SUFFICES ASSUME Init PROVE EpisodesInv
    OBVIOUS
  <1>1. 1 \in Times /\ Never \in Times /\ Times \subseteq Nat
    BY Durations DEF Times, Never
  <1>2. TypeOK
    BY <1>1 DEF Init, TypeOK, NoEpisode, Never
  <1>3. /\ kind \in AppKinds => \A p \in Pids : fast[p] = {}
        /\ \A p \in Pids : Agrees(p) /\ judged[p] <= now
    BY DEF Init, Agrees, NoEpisode, Never
  <1>4. Told
    BY DEF Init, Told
  <1> QED
    BY <1>2, <1>3, <1>4 DEF EpisodesInv

\* The instants of a snapshot.
LEMMA Instants ==
  ASSUME EpisodesInv, NEW pause \in Pauses, now + pause <= MaxTime
  PROVE  /\ now + pause \in Times /\ now + pause # Never
         /\ now \in Nat /\ now + pause \in Nat /\ now < now + pause
         /\ Times \subseteq Nat /\ Never \in Times
  BY Durations DEF EpisodesInv, TypeOK, Times, Never

\* The samples keep their type, and the acute window is part of the other.
LEMMA WindowsType ==
  ASSUME EpisodesInv, NEW t \in Times, t \in Nat,
         NEW listed \in SUBSET Pids, NEW list \in [listed -> Uses]
  PROVE  /\ Record(fast, t, list, Window) \in [Pids -> SUBSET Sample]
         /\ Record(slow, t, list, SlowWindow) \in [Pids -> SUBSET Sample]
         /\ \A p \in Pids : Record(fast, t, list, Window)[p]
                             \subseteq Record(slow, t, list, SlowWindow)[p]
  <1>1. /\ fast \in [Pids -> SUBSET Sample] /\ slow \in [Pids -> SUBSET Sample]
        /\ \A p \in Pids : fast[p] \subseteq slow[p]
    BY DEF EpisodesInv, TypeOK
  <1>2. \A p \in DOMAIN list : [at |-> t, use |-> list[p]] \in Sample
    BY DEF Sample
  <1>3. ASSUME NEW p \in Pids, NEW s \in fast[p], t - s.at <= Window
        PROVE  t - s.at <= SlowWindow
    <2>1. s \in Sample
      BY <1>1, <1>3
    <2>2. s.at \in Nat
      BY <2>1, Durations DEF Sample, Times
    <2> QED
      BY <1>3, <2>2, Durations
  <1> QED
    BY <1>1, <1>2, <1>3 DEF Record

LEMMA EvaluateType ==
  ASSUME EpisodesInv, NEW pause \in Pauses, now + pause <= MaxTime,
         NEW listed \in SUBSET Pids, NEW list \in [listed -> Uses],
         \/ Evaluate(now + pause, list)
         \/ EvaluateApps(now + pause, list)
  PROVE  /\ TypeOK'
         /\ kind' \in AppKinds => \A p \in Pids : fast'[p] = {}
  <1> DEFINE t == now + pause
  <1>1. t \in Times /\ t \in Nat /\ Times \subseteq Nat /\ Never \in Times
    BY Instants
  <1>2. TypeOK
    BY DEF EpisodesInv
  <1>3. kind' = kind /\ now' = t /\ threshold' = threshold
    BY EvaluateConcludes
  <1>4. Sample' = Sample
    BY <1>3 DEF Sample, Uses
  <1>5. /\ fast' \in [Pids -> SUBSET Sample] /\ slow' \in [Pids -> SUBSET Sample]
        /\ \A p \in Pids : fast'[p] \subseteq slow'[p]
        /\ kind' \in AppKinds => \A p \in Pids : fast'[p] = {}
    <2>1. CASE Evaluate(t, list)
      BY <1>1, <1>3, <2>1, WindowsType DEF Evaluate
    <2>2. CASE EvaluateApps(t, list)
      <3>1. slow' = Record(slow, t, list, SlowWindow) /\ fast' = fast /\ kind \in AppKinds
        BY <2>2 DEF EvaluateApps
      <3>2. \A p \in Pids : fast'[p] = {}
        BY <3>1 DEF EpisodesInv
      <3>3. fast' \in [Pids -> SUBSET Sample]
        BY <1>2, <3>1 DEF TypeOK
      <3> QED
        BY <1>1, <3>1, <3>2, <3>3, WindowsType
    <2> QED
      BY <2>1, <2>2
  <1>6. last_record' \in Times /\ records' \subseteq Pids
    <2>1. last_record \in Times /\ records \subseteq Pids
      BY <1>2 DEF TypeOK
    <2>2. CASE Evaluate(t, list)
      <3>1. \A quick : Qualify(quick, list, t) \subseteq Pids
        BY DEF Qualify, Spenders
      <3> QED
        BY <1>1, <2>1, <2>2, <3>1 DEF Evaluate
    <2>3. CASE EvaluateApps(t, list)
      BY <2>1, <2>3 DEF EvaluateApps, recording
    <2> QED
      BY <2>2, <2>3
  <1>7. PICK concluded, over : Conclude(t, list, concluded, over)
    BY EvaluateConcludes
  <1>8. /\ reached' \in [Pids -> [Settings -> Times]]
        /\ blazing_from' \in [Pids -> Times]
        /\ judged' = [p \in Pids |-> judged'[p]]
        /\ active' = [p \in Pids |-> active'[p]]
        /\ last_alert' = [p \in Pids |-> last_alert'[p]]
        /\ report' = [p \in Pids |-> report'[p]]
        /\ here_from' = [p \in Pids |-> here_from'[p]]
        /\ hot_from' = [p \in Pids |-> hot_from'[p]]
        /\ told' = [p \in Pids |-> told'[p]]
        /\ said' = [p \in Pids |-> said'[p]]
    <2>1. Remember(t, list, concluded, over)
      BY <1>7 DEF Conclude
    <2>2. /\ reached' \in [Pids -> [Settings -> Times]]
          /\ blazing_from' \in [Pids -> Times]
      BY <1>1, <1>2, <2>1 DEF Remember, TypeOK
    <2>3. /\ active' = [p \in Pids |-> active'[p]]
          /\ last_alert' = [p \in Pids |-> last_alert'[p]]
          /\ report' = [p \in Pids |-> report'[p]]
      BY <1>7 DEF Conclude
    <2>4. /\ judged' = [p \in Pids |-> judged'[p]]
          /\ here_from' = [p \in Pids |-> here_from'[p]]
          /\ hot_from' = [p \in Pids |-> hot_from'[p]]
          /\ told' = [p \in Pids |-> told'[p]]
          /\ said' = [p \in Pids |-> said'[p]]
      BY <2>1 DEF Remember
    <2> QED
      BY <2>2, <2>3, <2>4
  <1>9. ASSUME NEW p \in Pids
        PROVE  /\ active'[p] \in [started : Times, reminded : BOOLEAN]
               /\ last_alert'[p] \in Times
               /\ report'[p] \in {"none", "new", "reminder"}
               /\ judged'[p] \in Times
               /\ here_from'[p] \in Times
               /\ hot_from'[p] \in Times
               /\ told'[p] \in SUBSET Times
               /\ said'[p] \in Times
               /\ active'[p].started <= last_alert'[p]
    <2>1. /\ active[p] \in [started : Times, reminded : BOOLEAN]
          /\ last_alert[p] \in Times /\ said[p] \in Times
          /\ hot_from[p] \in Times /\ told[p] \in SUBSET Times
          /\ here_from[p] \in Times /\ judged[p] \in Times
          /\ active[p].started <= last_alert[p]
      BY <1>2 DEF TypeOK
    <2>2. One(p, t)
      BY EvaluateConcludes
    <2>3. /\ active[p].started \in Nat /\ last_alert[p] \in Nat
          /\ last_alert[p] <= now /\ now \in Nat /\ now < t
      <3>1. last_alert[p] \in {Never, said[p]} /\ said[p] <= now
        BY DEF EpisodesInv, Agrees
      <3>2. now \in Nat /\ now < t
        BY Instants
      <3>3. active[p].started \in Times /\ last_alert[p] \in Nat
        BY <1>1, <2>1
      <3>4. last_alert[p] <= now
        BY <3>1, <3>2, <3>3 DEF Never
      <3> QED
        BY <1>1, <3>2, <3>3, <3>4
    <2>4. CASE Gone(p, t)
      BY <1>1, <2>1, <2>4 DEF Gone, NoEpisode, Never
    <2>5. CASE Open(p, t)
      BY <1>1, <2>1, <2>5 DEF Open
    <2>6. CASE Calm(p, t)
      BY <1>1, <2>1, <2>3, <2>6 DEF Calm, NoEpisode, Never
    <2>7. CASE First(p, t)
      BY <1>1, <2>1, <2>7 DEF First, Hot
    <2>8. CASE Again(p, t)
      <3>1. /\ active'[p].started = active[p].started
            /\ active'[p] \in [started : Times, reminded : BOOLEAN]
        BY <2>1, <2>8 DEF Again
      <3>2. active'[p].started <= last_alert'[p]
        BY <1>1, <2>1, <2>3, <2>8, <3>1 DEF Again
      <3> QED
        BY <1>1, <2>1, <2>8, <3>1, <3>2 DEF Again, Hot
    <2>9. CASE Silent(p, t)
      BY <1>1, <2>1, <2>9 DEF Silent, Hot
    <2> QED
      BY <2>2, <2>4, <2>5, <2>6, <2>7, <2>8, <2>9 DEF One
  <1>10. kind' \in Kinds /\ now' \in Times /\ threshold' \in Settings
    BY <1>1, <1>2, <1>3 DEF TypeOK
  <1>11. TypeOK'
    BY <1>4, <1>5, <1>6, <1>8, <1>9, <1>10 DEF TypeOK
  <1> QED
    BY <1>5, <1>11

LEMMA EvaluateAgrees ==
  ASSUME EpisodesInv, NEW pause \in Pauses, now + pause <= MaxTime, NEW list,
         \/ Evaluate(now + pause, list)
         \/ EvaluateApps(now + pause, list),
         NEW p \in Pids
  PROVE  /\ Agrees(p)' /\ judged'[p] <= now'
         /\ hot_from'[p] # Never /\ judged'[p] - hot_from'[p] >= Cooldown =>
              told'[p] # {}
  <1> DEFINE t == now + pause
  <1>1. t \in Nat /\ t # Never /\ now \in Nat /\ now < t
    BY Instants
  <1>2. now' = t /\ One(p, t)
    BY EvaluateConcludes
  <1>3. /\ hot_from[p] \in Nat /\ said[p] \in Nat /\ last_alert[p] \in Nat
        /\ here_from[p] \in Nat /\ judged[p] \in Nat /\ judged[p] <= now
        /\ active[p] \in [started : Times, reminded : BOOLEAN]
        /\ Agrees(p)
        /\ hot_from[p] # Never /\ judged[p] - hot_from[p] >= Cooldown =>
             told[p] # {}
    BY Instants DEF EpisodesInv, TypeOK, Told
  <1>4. CASE Gone(p, t)
    BY <1>1, <1>2, <1>3, <1>4 DEF Gone, Agrees, Never
  <1>5. CASE Open(p, t)
    BY <1>1, <1>2, <1>3, <1>5 DEF Open, Agrees, Never
  <1>6. CASE Calm(p, t)
    BY <1>1, <1>2, <1>3, <1>6 DEF Calm, Agrees, Never
  <1>7. CASE First(p, t)
    <2>1. active'[p] # NoEpisode /\ told'[p] # {}
      BY <1>1, <1>7 DEF First, NoEpisode, Never
    <2> QED
      BY <1>1, <1>2, <1>3, <1>7, <2>1 DEF First, Hot, Agrees, Never
  <1>8. CASE Again(p, t)
    <2>1. active'[p] # NoEpisode /\ told'[p] # {}
      BY <1>3, <1>8 DEF Again, NoEpisode
    <2> QED
      BY <1>1, <1>2, <1>3, <1>8, <2>1 DEF Again, Hot, Agrees, Never
  <1>9. CASE Silent(p, t)
    \* Not reported, so in no episode, so the last report is too recent; but it
    \* is older than the heat.
    <2>1. Agrees(p)' /\ judged'[p] <= now'
      BY <1>1, <1>2, <1>3, <1>9 DEF Silent, Hot, Agrees, Never
    <2>2. ASSUME told'[p] = {}
          PROVE  ~(judged'[p] - hot_from'[p] >= Cooldown)
      <3>1. active[p] = NoEpisode
        BY <1>3, <1>9, <2>2 DEF Silent, Agrees
      <3>2. last_alert[p] # Never /\ ~(t - last_alert[p] >= Cooldown)
        BY <1>9, <3>1 DEF Silent, Begins
      <3>3. last_alert[p] <= hot_from'[p] /\ hot_from'[p] \in Nat /\ judged'[p] = t
        BY <1>1, <1>3, <1>9, <2>2 DEF Silent, Hot, Agrees, Never
      <3> QED
        BY <1>1, <1>2, <1>3, <3>2, <3>3, Durations
    <2> QED
      BY <2>1, <2>2
  <1> QED
    BY <1>2, <1>4, <1>5, <1>6, <1>7, <1>8, <1>9 DEF One

\* What a step may be.
LEMMA StepKinds ==
  ASSUME [Next]_vars
  PROVE  \/ \E pause \in Pauses, listed \in SUBSET Pids : \E list \in [listed -> Uses] :
              /\ now + pause <= MaxTime
              /\ \/ Evaluate(now + pause, list)
                 \/ EvaluateApps(now + pause, list)
         \/ \E pause \in Pauses : now + pause <= MaxTime /\ Skip(now + pause)
         \/ Reload
         \/ UNCHANGED vars
  BY DEF Next, Snapshot

LEMMA EpisodesStep == EpisodesInv /\ [Next]_vars => EpisodesInv'
  <1> SUFFICES ASSUME EpisodesInv, [Next]_vars PROVE EpisodesInv'
    OBVIOUS
  <1>1. ASSUME NEW pause \in Pauses, now + pause <= MaxTime,
               NEW listed \in SUBSET Pids, NEW list \in [listed -> Uses],
               \/ Evaluate(now + pause, list)
               \/ EvaluateApps(now + pause, list)
        PROVE  EpisodesInv'
    <2>1. TypeOK' /\ (kind' \in AppKinds => \A p \in Pids : fast'[p] = {})
      BY <1>1, EvaluateType
    <2>2. \A p \in Pids :
            /\ Agrees(p)' /\ judged'[p] <= now'
            /\ hot_from'[p] # Never /\ judged'[p] - hot_from'[p] >= Cooldown =>
                 told'[p] # {}
      BY <1>1, EvaluateAgrees
    <2> QED
      BY <2>1, <2>2 DEF EpisodesInv, Told
  <1>2. ASSUME NEW pause \in Pauses, now + pause <= MaxTime, Skip(now + pause)
        PROVE  EpisodesInv'
    <2>1. now' \in Times /\ now \in Nat /\ now < now' /\ now' \in Nat
      BY <1>2, Instants DEF Skip
    <2>2. blazing_from' \in [Pids -> Times] /\ Times \subseteq Nat
      BY <1>2, Instants DEF Skip
    <2>3. report' \in [Pids -> {"none", "new", "reminder"}] /\ records' = {}
      BY <1>2 DEF Skip
    <2>4. UNCHANGED <<kind, threshold, windows, episodes, last_record, judged,
                      here_from, reached, hot_from, told, said>>
      BY <1>2 DEF Skip
    <2>5. Sample' = Sample
      BY <2>4 DEF Sample, Uses
    <2>6. TypeOK'
      BY <2>1, <2>2, <2>3, <2>4, <2>5 DEF EpisodesInv, TypeOK, windows, episodes
    <2>7. ASSUME NEW p \in Pids PROVE Agrees(p)' /\ judged'[p] <= now'
      <3>1. /\ hot_from[p] \in Nat /\ said[p] \in Nat /\ Agrees(p)
            /\ judged[p] \in Nat /\ judged[p] <= now
        BY <2>2 DEF EpisodesInv, TypeOK
      <3> QED
        BY <2>1, <2>4, <3>1 DEF Agrees, episodes
    <2>8. Told'
      BY <2>4 DEF EpisodesInv, Told
    <2>9. kind' \in AppKinds => \A p \in Pids : fast'[p] = {}
      BY <2>4 DEF EpisodesInv, windows
    <2> QED
      BY <2>6, <2>7, <2>8, <2>9 DEF EpisodesInv
  <1>3. CASE Reload
    <2>1. /\ blazing_from' \in [Pids -> Times] /\ threshold' \in Settings
          /\ report' \in [Pids -> {"none", "new", "reminder"}]
      BY <1>3, Durations DEF Reload, Times, Never
    <2>2. UNCHANGED <<kind, now, windows, episodes, recording, judged,
                      here_from, reached, hot_from, told, said>>
      BY <1>3 DEF Reload
    <2>3. Sample' = Sample
      BY <2>2 DEF Sample, Uses
    <2>4. TypeOK'
      BY <2>1, <2>2, <2>3 DEF EpisodesInv, TypeOK, windows, episodes, recording
    <2> QED
      BY <2>2, <2>4 DEF EpisodesInv, Agrees, Told, windows, episodes
  <1>4. CASE UNCHANGED vars
    <2>1. /\ UNCHANGED <<kind, now, threshold, fast, slow, active, last_alert>>
          /\ UNCHANGED <<last_record, records, report, judged, here_from, reached,
                         hot_from, blazing_from, told, said>>
      BY <1>4 DEF vars, settings, windows, episodes, recording, history
    <2>2. Sample' = Sample
      BY <2>1 DEF Sample, Uses
    <2>3. TypeOK'
      BY <2>1, <2>2 DEF EpisodesInv, TypeOK
    <2> QED
      BY <2>1, <2>3 DEF EpisodesInv, Agrees, Told
  <1> QED
    BY <1>1, <1>2, <1>3, <1>4 DEF Next, Snapshot

LEMMA EpisodesInvariant == Spec => []EpisodesInv
  BY InitEpisodesInv, EpisodesStep, PTL DEF Spec

\* A frontend's loop adds the records to the rules, and changes nothing of what
\* they do (monitor.rs:122-157).
THEOREM MonitorImplementsEpisodes == MonitorSpec => Spec
  <1>1. MonitorInit => Init
    BY DEF MonitorInit
  <1>2. [MonitorNext]_monitorVars => [Next]_vars
    <2>1. ASSUME NEW t, Tick(t) PROVE Snapshot(t)
      BY <2>1 DEF Tick, Snapshot
    <2>2. ReloadSettings => Reload
      BY DEF ReloadSettings
    <2> QED
      BY <2>1, <2>2 DEF MonitorNext, Next, monitorVars
  <1> QED
    BY <1>1, <1>2, PTL DEF MonitorSpec, Spec

\* The rule's state has its type; the acute window is part of the chronic one
\* and an episode began no later than its last report (alerts.rs:1194-1201).
THEOREM EpisodesTypeCorrect == MonitorSpec => []TypeOK
  <1>1. EpisodesInv => TypeOK
    BY DEF EpisodesInv
  <1> QED
    BY <1>1, EpisodesInvariant, MonitorImplementsEpisodes, PTL

\* A process that has been over for a cooldown has been reported, whatever
\* it did before and however the threshold moved (alerts.rs:1694-1696).
THEOREM NeverSilent == MonitorSpec => []Told
  <1>1. EpisodesInv => Told
    BY DEF EpisodesInv
  <1> QED
    BY <1>1, EpisodesInvariant, MonitorImplementsEpisodes, PTL

\* Two episodes of a process that stays in the list are a cooldown apart
\* (alerts.rs:1717-1725).
THEOREM EpisodesSpaced == MonitorSpec => Spaced
  <1> DEFINE Apart ==
        \A p \in Pids : report'[p] = "new" /\ now' # now /\ said[p] # Never =>
          here_from'[p] > said[p] \/ now' - said[p] >= Cooldown
  <1>1. EpisodesInv /\ [Next]_vars => [Apart]_vars
    <2> SUFFICES ASSUME EpisodesInv, [Next]_vars,
                        NEW p \in Pids, report'[p] = "new", now' # now,
                        said[p] # Never
                 PROVE  here_from'[p] > said[p] \/ now' - said[p] >= Cooldown
      OBVIOUS
    <2>1. ~UNCHANGED vars /\ ~Reload
      BY DEF vars, settings, Reload
    <2>2. PICK pause \in Pauses : now + pause <= MaxTime /\ Snapshot(now + pause)
      BY <2>1 DEF Next
    <2>3. ~Skip(now + pause)
      BY DEF Skip
    <2>4. PICK list : Evaluate(now + pause, list) \/ EvaluateApps(now + pause, list)
      BY <2>2, <2>3 DEF Snapshot
    <2> DEFINE t == now + pause
    <2>5. First(p, t) /\ now' = t
      <3>1. One(p, t) /\ now' = t
        BY <2>4, EvaluateConcludes
      <3> QED
        BY <3>1 DEF One, Gone, Open, Calm, Again, Silent
    <2>6. /\ t \in Nat /\ now \in Nat /\ now < t /\ said[p] \in Nat
          /\ here_from[p] \in Nat /\ Agrees(p)
      BY <2>2, Instants DEF EpisodesInv, TypeOK
    <2>7. CASE last_alert[p] = Never
      BY <2>5, <2>6, <2>7 DEF First, Hot, Agrees, Never
    <2>8. CASE last_alert[p] # Never
      BY <2>5, <2>6, <2>8 DEF First, Begins, Agrees
    <2> QED
      BY <2>7, <2>8
  <1> QED
    BY <1>1, EpisodesInvariant, MonitorImplementsEpisodes, PTL DEF Spec, Spaced

-----------------------------------------------------------------------------
(* One follow-up.                                                          *)

\* What a process in an episode has been told: its start and, once it was
\* reminded, that.
Pursued(p) ==
  told[p] # {} =>
    IF active[p].reminded
      THEN \E again \in Times : /\ told[p] = {active[p].started, again}
                                /\ again - active[p].started >= Reminder
                                /\ again <= judged[p]
      ELSE /\ told[p] = {active[p].started}
           /\ judged[p] - active[p].started < Reminder

Pursuit == \A p \in Pids : Pursued(p)

LEMMA PursuedStep ==
  ASSUME EpisodesInv, NEW pause \in Pauses, now + pause <= MaxTime, NEW list,
         \/ Evaluate(now + pause, list)
         \/ EvaluateApps(now + pause, list),
         NEW p \in Pids, Pursued(p)
  PROVE  Pursued(p)'
  <1> DEFINE t == now + pause
  <1>1. t \in Nat /\ t \in Times /\ t # Never /\ now \in Nat /\ now < t
    BY Instants
  <1>2. now' = t /\ One(p, t)
    BY EvaluateConcludes
  <1>3. /\ judged[p] \in Nat /\ judged[p] <= now
        /\ active[p] \in [started : Times, reminded : BOOLEAN]
        /\ active[p].started \in Nat
        /\ told[p] = {} <=> active[p] = NoEpisode
    BY Instants DEF EpisodesInv, TypeOK, Agrees
  <1>4. CASE Gone(p, t) \/ Calm(p, t)
    BY <1>4 DEF Gone, Calm, Pursued
  <1>5. CASE Open(p, t)
    BY <1>5 DEF Open, Pursued
  <1>6. CASE First(p, t)
    <2>1. told'[p] = {t} /\ active'[p].started = t /\ ~active'[p].reminded
      BY <1>3, <1>6 DEF First, Begins
    <2>2. judged'[p] - t < Reminder
      BY <1>1, <1>6, Durations DEF First, Hot
    <2> QED
      BY <2>1, <2>2 DEF Pursued
  <1>7. CASE Again(p, t)
    <2>1. told'[p] = {active[p].started, t} /\ t - active[p].started >= Reminder
      BY <1>3, <1>7 DEF Again, Repeats, Pursued
    <2>2. active'[p].started = active[p].started /\ active'[p].reminded
      BY <1>3, <1>7 DEF Again
    <2>3. judged'[p] = t
      BY <1>7 DEF Again, Hot
    <2> QED
      BY <1>1, <2>1, <2>2, <2>3 DEF Pursued
  <1>8. CASE Silent(p, t)
    <2>1. /\ active'[p] = active[p] /\ told'[p] = told[p] /\ judged'[p] = t
          /\ ~Repeats(p, t)
      BY <1>8 DEF Silent, Hot
    <2>2. CASE told[p] = {}
      BY <2>1, <2>2 DEF Pursued
    <2>3. CASE told[p] # {} /\ active[p].reminded
      <3>1. PICK again \in Times : /\ told[p] = {active[p].started, again}
                                   /\ again - active[p].started >= Reminder
                                   /\ again <= judged[p]
        BY <2>3 DEF Pursued
      <3>2. again <= t
        BY <1>1, <1>3, <3>1, Instants
      <3> QED
        BY <2>1, <2>3, <3>1, <3>2 DEF Pursued
    <2>4. CASE told[p] # {} /\ ~active[p].reminded
      <3>1. ~(t - active[p].started >= Reminder)
        BY <1>3, <2>1, <2>4 DEF Repeats
      <3>2. t - active[p].started < Reminder
        BY <1>1, <1>3, <3>1, Durations
      <3> QED
        BY <2>1, <2>4, <3>2 DEF Pursued
    <2> QED
      BY <2>2, <2>3, <2>4
  <1> QED
    BY <1>2, <1>4, <1>5, <1>6, <1>7, <1>8 DEF One

LEMMA PursuitStep == EpisodesInv /\ Pursuit /\ [Next]_vars => Pursuit'
  <1> SUFFICES ASSUME EpisodesInv, Pursuit, [Next]_vars PROVE Pursuit'
    OBVIOUS
  <1>1. ASSUME NEW pause \in Pauses, now + pause <= MaxTime, NEW list,
               \/ Evaluate(now + pause, list)
               \/ EvaluateApps(now + pause, list)
        PROVE  Pursuit'
    BY <1>1, PursuedStep DEF Pursuit
  <1>2. CASE UNCHANGED <<active, told, judged>>
    BY <1>2 DEF Pursuit, Pursued
  <1>3. ASSUME NEW t, Skip(t) PROVE UNCHANGED <<active, told, judged>>
    BY <1>3 DEF Skip, episodes
  <1>4. Reload \/ UNCHANGED vars => UNCHANGED <<active, told, judged>>
    BY DEF Reload, vars, episodes, history
  <1> QED
    BY <1>1, <1>2, <1>3, <1>4, StepKinds

LEMMA PursuedFollowUp ==
  ASSUME EpisodesInv, NEW p \in Pids, Pursued(p), told[p] # {}
  PROVE  Cardinality(told[p]) =
           IF judged[p] - Min(told[p]) >= Reminder THEN 2 ELSE 1
  <1> DEFINE first == active[p].started
  <1>1. first \in Nat /\ judged[p] \in Nat /\ told[p] \in SUBSET Nat
    BY Durations DEF EpisodesInv, TypeOK, Times, Never
  <1>2. Min(told[p]) \in told[p] /\ \A m \in told[p] : Min(told[p]) <= m
    BY <1>1, Smallest
  <1>3. CASE ~active[p].reminded
    <2>1. told[p] = {first} /\ judged[p] - first < Reminder
      BY <1>3 DEF Pursued
    <2>2. Cardinality(told[p]) = 1
      BY <2>1, FS_Singleton
    <2>3. Min(told[p]) = first
      BY <1>2, <2>1
    <2> QED
      BY <1>1, <2>1, <2>2, <2>3, Durations
  <1>4. CASE active[p].reminded
    <2>1. PICK again \in Times : /\ told[p] = {first, again}
                                 /\ again - first >= Reminder
                                 /\ again <= judged[p]
      BY <1>4 DEF Pursued
    <2>2. again \in Nat /\ first < again
      BY <1>1, <2>1, Durations
    <2>3. Min(told[p]) = first
      BY <1>1, <1>2, <2>1, <2>2
    <2>4. judged[p] - first >= Reminder
      BY <1>1, <2>1, <2>2, Durations
    <2>5. Cardinality({first} \cup {again}) = 2
      <3>1. IsFiniteSet({first}) /\ Cardinality({first}) = 1
        BY FS_Singleton
      <3>2. again \notin {first}
        BY <1>1, <2>2
      <3>3. Cardinality({first} \cup {again}) = Cardinality({first}) + 1
        BY <3>1, <3>2, FS_AddElement
      <3> QED
        BY <3>1, <3>3
    <2>6. {first} \cup {again} = told[p]
      BY <2>1
    <2> QED
      BY <2>3, <2>4, <2>5, <2>6
  <1> QED
    BY <1>3, <1>4

\* "Exactly one follow-up after 30 minutes if it is still true"
\* (docs/metrics.md:401-404): whoever is over at every conclusion is reported
\* once, and once more exactly when that report is as old as the reminder.
THEOREM FollowedUp == MonitorSpec => []FollowUp
  <1>1. Init => Pursuit
    BY DEF Init, Pursuit, Pursued
  <1>2. EpisodesInv /\ Pursuit => FollowUp
    BY PursuedFollowUp DEF Pursuit, FollowUp
  <1> QED
    BY <1>1, <1>2, PursuitStep, EpisodesInvariant, MonitorImplementsEpisodes, PTL DEF Spec

-----------------------------------------------------------------------------
(* The alerts are about the present.                                       *)

LEMMA HeldType ==
  ASSUME EpisodesInv, NEW s \in Sample
  PROVE  Held(s.use) \in Nat
  <1>1. s.use \in Uses
    BY DEF Sample
  <1>2. CASE kind \in CpuKinds
    BY <1>1, <1>2, EpisodesAssumption DEF Uses, Held
  <1>3. CASE kind \notin CpuKinds
    <2>1. s.use.resident \in Nat /\ s.use.footprint \subseteq Nat
      BY <1>1, <1>3, EpisodesAssumption DEF Uses
    <2>2. s.use.footprint # {} => (CHOOSE f \in s.use.footprint : TRUE) \in s.use.footprint
      OBVIOUS
    <2> QED
      BY <1>3, <2>1, <2>2 DEF Held
  <1> QED
    BY <1>2, <1>3

LEMMA AverageBounds ==
  ASSUME NEW S, IsFiniteSet(S), \A s \in S : Held(s.use) \in Nat, NEW bar \in Nat
  PROVE  /\ (\A s \in S : Held(s.use) >= bar) => Averages(S, bar)
         /\ S # {} /\ Averages(S, bar) => \E s \in S : Held(s.use) >= bar
  <1> DEFINE measured == Measured(S)
  <1>1. measured \subseteq S /\ (S # {} => measured # {})
    BY DEF Measured
  <1>2. IsFiniteSet(measured)
    BY <1>1, FS_Subset
  <1>3. Averages(S, bar) <=>
          Load(measured) >= bar * Cardinality(measured)
    BY DEF Averages, Load
  <1> HIDE DEF measured
  <1>4. \A s \in measured : Held(s.use) \in Nat
    BY <1>1
  <1>5. /\ (\A s \in measured : Held(s.use) >= bar) => Averages(S, bar)
        /\ measured # {} /\ (\A s \in measured : Held(s.use) < bar) => ~Averages(S, bar)
    BY <1>2, <1>3, <1>4, SumBounds
  <1>6. ASSUME S # {}, Averages(S, bar) PROVE \E s \in S : Held(s.use) >= bar
    <2>1. PICK s \in measured : ~(Held(s.use) < bar)
      BY <1>1, <1>5, <1>6
    <2> QED
      BY <1>1, <1>4, <2>1
  <1> QED
    BY <1>1, <1>5, <1>6

\* The samples of a process are from a time it was in the list, and what it
\* used in them is remembered.
Grounded(p) ==
  /\ IsFiniteSet(slow[p]) /\ here_from[p] <= now
  /\ \A s \in slow[p] :
       /\ here_from[p] # Never /\ here_from[p] <= s.at /\ s.at <= now
       /\ \A bar \in Settings : Held(s.use) >= bar => reached[p][bar] >= s.at

Grounds == \A p \in Pids : Grounded(p)

LEMMA GroundedStep ==
  ASSUME EpisodesInv, NEW pause \in Pauses, now + pause <= MaxTime,
         NEW listed \in SUBSET Pids, NEW list \in [listed -> Uses],
         \/ Evaluate(now + pause, list)
         \/ EvaluateApps(now + pause, list),
         NEW p \in Pids, Grounded(p)
  PROVE  Grounded(p)'
  <1> DEFINE t == now + pause
             fresh == [at |-> t, use |-> list[p]]
             kept == {s \in slow[p] : t - s.at <= SlowWindow}
  <1>1. t \in Nat /\ t # Never /\ now \in Nat /\ now < t /\ Times \subseteq Nat
    BY Instants
  <1>2. now' = t /\ kind' = kind
    BY EvaluateConcludes
  <1>3. \A use : Held(use)' = Held(use)
    BY <1>2 DEF Held
  <1>4. /\ slow[p] \in SUBSET Sample /\ here_from[p] \in Nat
        /\ reached[p] \in [Settings -> Nat]
    <2>1. reached[p] \in [Settings -> Times]
      BY DEF EpisodesInv, TypeOK
    <2> QED
      BY <1>1, <2>1 DEF EpisodesInv, TypeOK
  <1>5. \A s \in slow[p] : s.at \in Nat
    BY <1>1, <1>4 DEF Sample
  <1>6. /\ p \notin DOMAIN list => slow'[p] = {}
        /\ p \in DOMAIN list =>
             /\ slow'[p] = kept \cup {fresh}
             /\ here_from'[p] = IF here_from[p] = Never THEN t ELSE here_from[p]
             /\ reached'[p] = [s \in Settings |->
                                 IF Held(list[p]) >= s THEN t ELSE reached[p][s]]
    <2>1. /\ slow' = Record(slow, t, list, SlowWindow)
          /\ here_from'[p] = IF p \notin DOMAIN list THEN Never
                             ELSE IF here_from[p] = Never THEN t ELSE here_from[p]
          /\ reached'[p] = [s \in Settings |->
               IF p \in DOMAIN list /\ Held(list[p]) >= s THEN t ELSE reached[p][s]]
      BY EvaluateWindows
    <2>2. /\ p \notin DOMAIN list => slow'[p] = {}
          /\ p \in DOMAIN list => slow'[p] = kept \cup {fresh}
      BY <2>1, WindowAfter
    <2> QED
      BY <2>1, <2>2
  <1>7. CASE p \notin DOMAIN list
    <2>1. slow'[p] = {} /\ here_from'[p] = Never
      BY <1>6, <1>7, EvaluateWindows
    <2> QED
      BY <1>1, <1>2, <2>1, FS_EmptySet DEF Grounded, Never
  <1>8. CASE p \in DOMAIN list
    <2>1. IsFiniteSet(slow'[p])
      <3>1. IsFiniteSet(kept)
        BY FS_Subset DEF Grounded
      <3> HIDE DEF kept, fresh
      <3> QED
        BY <1>6, <1>8, <3>1, FS_AddElement
    <2>2. ASSUME NEW s \in slow'[p]
          PROVE  /\ here_from'[p] # Never /\ here_from'[p] <= s.at /\ s.at <= t
                 /\ \A bar \in Settings : Held(s.use) >= bar => reached'[p][bar] >= s.at
      <3>1. CASE s \in slow[p]
        <4>1. /\ here_from[p] # Never /\ here_from[p] <= s.at /\ s.at <= now
              /\ \A bar \in Settings : Held(s.use) >= bar => reached[p][bar] >= s.at
          BY <3>1 DEF Grounded
        <4>2. s.at \in Nat
          BY <1>5, <3>1
        <4>3. here_from'[p] = here_from[p]
          BY <1>6, <1>8, <4>1
        <4>4. \A bar \in Settings : reached'[p][bar] \in {t, reached[p][bar]}
          BY <1>6, <1>8
        <4> QED
          BY <1>1, <1>4, <4>1, <4>2, <4>3, <4>4
      <3>2. CASE s = fresh
        <4>1. s.at = t /\ s.use = list[p]
          BY <3>2
        <4>2. here_from'[p] # Never /\ here_from'[p] <= t
          <5>1. CASE here_from[p] = Never
            BY <1>1, <1>6, <1>8, <5>1
          <5>2. CASE here_from[p] # Never
            <6>1. here_from[p] <= now
              BY DEF Grounded
            <6> QED
              BY <1>1, <1>4, <1>6, <1>8, <5>2, <6>1
          <5> QED
            BY <5>1, <5>2
        <4>3. \A bar \in Settings : Held(s.use) >= bar => reached'[p][bar] = t
          BY <1>6, <1>8, <4>1
        <4> QED
          BY <1>1, <4>1, <4>2, <4>3
      <3> QED
        BY <1>6, <1>8, <3>1, <3>2
    <2>3. here_from'[p] <= t
      BY <1>1, <1>4, <1>6, <1>8 DEF Grounded
    <2> QED
      BY <1>2, <1>3, <2>1, <2>2, <2>3 DEF Grounded
  <1> QED
    BY <1>7, <1>8

LEMMA ReportsSustained ==
  ASSUME EpisodesInv, NEW pause \in Pauses, now + pause <= MaxTime,
         NEW listed \in SUBSET Pids, NEW list \in [listed -> Uses],
         \/ Evaluate(now + pause, list)
         \/ EvaluateApps(now + pause, list),
         EpisodesInv', NEW p \in Pids, Grounded(p)', report'[p] # "none"
  PROVE  /\ here_from'[p] # Never
         /\ now' - here_from'[p] >= IF kind' = "Cpu" THEN MinSpan ELSE SlowMinSpan
         /\ now' - reached'[p][threshold'] <= SlowWindow
  <1> DEFINE t == now + pause
             quick == fast'[p]
             long == slow'[p]
             bar == AcuteFactor * threshold
  <1>1. t \in Nat /\ Times \subseteq Nat /\ t # Never
    BY Instants
  <1>2. now' = t /\ kind' = kind /\ threshold' = threshold
    BY EvaluateConcludes
  <1>3. Held(0)' = Held(0) /\ \A use : Held(use)' = Held(use)
    BY <1>2 DEF Held
  <1>4. /\ p \in DOMAIN list
        /\ \/ kind = "Cpu" /\ IsRunaway(quick, long, t)
           \/ IsChronic(long, t)
    BY EvaluateOver
  <1>5. /\ long \in SUBSET Sample /\ quick \subseteq long
        /\ here_from'[p] \in Nat /\ threshold \in Settings /\ threshold \in Nat
        /\ reached'[p] \in [Settings -> Nat]
    <2>1. Sample' = Sample
      BY <1>2 DEF Sample, Uses
    <2>2. slow' \in [Pids -> SUBSET Sample] /\ fast'[p] \subseteq slow'[p]
      BY <2>1 DEF EpisodesInv, TypeOK
    <2>3. here_from'[p] \in Nat
      BY <1>1 DEF EpisodesInv, TypeOK
    <2>4. reached' \in [Pids -> [Settings -> Times]]
      BY DEF EpisodesInv, TypeOK
    <2>5. threshold \in Settings
      BY DEF EpisodesInv, TypeOK
    <2>6. reached'[p] \in [Settings -> Nat]
      BY <1>1, <2>4
    <2> QED
      BY <2>2, <2>3, <2>5, <2>6, EpisodesAssumption
  <1>6. [at |-> t, use |-> list[p]] \in long
    <2>1. slow' = Record(slow, t, list, SlowWindow)
      BY EvaluateWindows
    <2> QED
      BY <1>4, <2>1, WindowAfter
  <1>7. kind = "Cpu" => [at |-> t, use |-> list[p]] \in quick
    <2>1. kind = "Cpu" => fast' = Record(fast, t, list, Window)
      BY EvaluateWindows DEF AppKinds
    <2> QED
      BY <1>4, <2>1, WindowAfter
  <1>8. \A s \in long :
          /\ s.at \in Nat /\ Held(s.use) \in Nat
          /\ here_from'[p] # Never /\ here_from'[p] <= s.at /\ s.at <= t
          /\ \A th \in Settings : Held(s.use) >= th => reached'[p][th] >= s.at
    <2>1. \A s \in long : s.at \in Nat /\ Held(s.use) \in Nat
      BY <1>1, <1>5, HeldType DEF Sample
    <2> QED
      BY <1>2, <1>3, <2>1 DEF Grounded
  <1>9. IsFiniteSet(long)
    BY DEF Grounded
  <1>10. \A s \in long : t - s.at <= SlowWindow
    <2>1. slow' = Record(slow, t, list, SlowWindow)
      BY EvaluateWindows
    <2>2. long = {s \in slow[p] : t - s.at <= SlowWindow}
                   \cup {[at |-> t, use |-> list[p]]}
      BY <1>4, <2>1, WindowAfter
    <2> QED
      BY <1>1, <2>2, Durations
  <1> HIDE DEF quick, long
  <1>11. CASE kind = "Cpu" /\ IsRunaway(quick, long, t)
    <2>1. PICK s \in quick : t - s.at >= MinSpan
      BY <1>1, <1>5, <1>7, <1>8, <1>11, SpanBounds, Spans DEF IsRunaway
    <2>2. bar \in Nat /\ threshold <= bar
      <3>1. threshold \in Nat /\ AcuteFactor \in Nat \ {0}
        BY <1>5, Spans
      <3>2. AcuteFactor - 1 \in Nat /\ (AcuteFactor - 1) * threshold \in Nat
        BY <3>1
      <3>3. AcuteFactor * threshold = threshold + (AcuteFactor - 1) * threshold
        BY <3>1
      <3> QED
        BY <3>1, <3>2, <3>3
    <2>3. IsFiniteSet(quick) /\ quick # {} /\ \A r \in quick : Held(r.use) \in Nat
      BY <1>5, <1>7, <1>8, <1>9, <1>11, FS_Subset
    <2>4. PICK r \in quick : Held(r.use) >= bar
      <3>1. Averages(quick, bar)
        BY <1>11 DEF IsRunaway
      <3> HIDE DEF bar
      <3> QED
        BY <2>2, <2>3, <3>1, AverageBounds
    <2>5. Held(r.use) >= threshold
      BY <1>5, <1>8, <2>2, <2>4
    <2>6. reached'[p][threshold] >= r.at /\ t - r.at <= SlowWindow /\ r.at \in Nat
      BY <1>5, <1>8, <1>10, <2>5
    <2> QED
      BY <1>1, <1>2, <1>5, <1>8, <1>11, <2>1, <2>6, Spans, Durations
  <1>12. CASE IsChronic(long, t)
    <2>1. PICK s \in long : t - s.at >= SlowMinSpan
      BY <1>1, <1>6, <1>8, <1>12, SpanBounds, Spans DEF IsChronic
    <2>2. PICK r \in long : Held(r.use) >= threshold
      BY <1>5, <1>6, <1>8, <1>9, <1>12, AverageBounds DEF IsChronic
    <2>3. reached'[p][threshold] >= r.at /\ t - r.at <= SlowWindow /\ r.at \in Nat
      BY <1>5, <1>8, <1>10, <2>2
    <2> QED
      BY <1>1, <1>2, <1>5, <1>8, <2>1, <2>3, Spans, Durations
  <1> QED
    BY <1>4, <1>11, <1>12

LEMMA GroundsStep ==
  EpisodesInv /\ EpisodesInv' /\ Grounds /\ Sustained /\ [Next]_vars =>
    Grounds' /\ Sustained'
  <1> SUFFICES ASSUME EpisodesInv, EpisodesInv', Grounds, Sustained, [Next]_vars
               PROVE  Grounds' /\ Sustained'
    OBVIOUS
  <1>1. ASSUME NEW pause \in Pauses, now + pause <= MaxTime,
               NEW listed \in SUBSET Pids, NEW list \in [listed -> Uses],
               \/ Evaluate(now + pause, list)
               \/ EvaluateApps(now + pause, list)
        PROVE  Grounds' /\ Sustained'
    <2>1. \A p \in Pids : Grounded(p)'
      BY <1>1, GroundedStep DEF Grounds
    <2>2. Sustained'
      BY <1>1, <2>1, ReportsSustained DEF Sustained
    <2> QED
      BY <2>1, <2>2 DEF Grounds
  <1>2. ASSUME now' >= now, UNCHANGED <<kind, slow, here_from, reached>> PROVE Grounds'
    <2>1. \A use : Held(use)' = Held(use)
      BY <1>2 DEF Held
    <2>2. ASSUME NEW p \in Pids PROVE Grounded(p)'
      <3>1. now \in Nat /\ now' \in Nat /\ here_from[p] \in Nat /\ slow[p] \in SUBSET Sample
        BY Durations DEF EpisodesInv, TypeOK, Times, Never
      <3>2. \A s \in slow[p] : s.at \in Nat
        BY <3>1, Durations DEF Sample, Times, Never
      <3> QED
        BY <1>2, <2>1, <3>1, <3>2 DEF Grounded, Grounds
    <2> QED
      BY <2>2 DEF Grounds
  <1>3. ASSUME NEW pause \in Pauses, now + pause <= MaxTime, Skip(now + pause)
        PROVE  Grounds' /\ Sustained'
    <2>1. /\ now' >= now /\ UNCHANGED <<kind, slow, here_from, reached>>
          /\ report' = [p \in Pids |-> "none"]
      BY <1>3, Instants DEF Skip, windows
    <2> QED
      BY <1>2, <2>1 DEF Sustained
  <1>4. CASE Reload
    <2>1. /\ now' = now /\ UNCHANGED <<kind, slow, here_from, reached>>
          /\ report' = [p \in Pids |-> "none"]
      BY <1>4 DEF Reload, windows
    <2>2. now' >= now
      BY <2>1, Durations DEF EpisodesInv, TypeOK, Times, Never
    <2> QED
      BY <1>2, <2>1, <2>2 DEF Sustained
  <1>5. CASE UNCHANGED vars
    <2>1. UNCHANGED <<kind, now, threshold, slow, here_from, reached, report>>
      BY <1>5 DEF vars, settings, windows, history
    <2>2. now' >= now
      BY <2>1, Durations DEF EpisodesInv, TypeOK, Times, Never
    <2> QED
      BY <1>2, <2>1, <2>2 DEF Sustained
  <1> QED
    BY <1>1, <1>3, <1>4, <1>5, StepKinds

\* "Startup blips never alert" (alerts.rs:78-79): an average over the threshold
\* is one of a window that is full enough and holds a sample over it, so whoever
\* is reported was listed that long and reached the threshold in that window.
THEOREM OnlySustained == MonitorSpec => []Sustained
  <1>1. Init => Grounds /\ Sustained
    <2> SUFFICES ASSUME Init PROVE Grounds /\ Sustained
      OBVIOUS
    <2>1. \A p \in Pids : slow[p] = {} /\ here_from[p] <= now /\ report[p] = "none"
      BY DEF Init, Never
    <2> QED
      BY <2>1, FS_EmptySet DEF Grounds, Grounded, Sustained
  <1> QED
    BY <1>1, GroundsStep, EpisodesInvariant, MonitorImplementsEpisodes, PTL DEF Spec

-----------------------------------------------------------------------------
(* The records.                                                            *)

\* Who is owed a record has been for less than a round of records: the last
\* round found it not worth one, or its record was lost.
Owed(p) ==
  unwritten[p] # Never =>
    /\ kind \notin AppKinds
    /\ last_record # Never /\ last_record <= unwritten[p]
    /\ now - last_record < RecordEvery

OwedInv ==
  /\ unwritten \in [Pids -> Times] /\ last_record <= now
  /\ \A p \in Pids : Owed(p)

LEMMA OwedInit == MonitorInit => OwedInv
  <1> SUFFICES ASSUME MonitorInit PROVE OwedInv
    OBVIOUS
  <1>1. Never \in Times
    BY Durations DEF Times, Never
  <1> QED
    BY <1>1 DEF MonitorInit, Init, OwedInv, Owed, Never

LEMMA OwedStep == EpisodesInv /\ OwedInv /\ [MonitorNext]_monitorVars => OwedInv'
  <1> SUFFICES ASSUME EpisodesInv, OwedInv, [MonitorNext]_monitorVars PROVE OwedInv'
    OBVIOUS
  <1>1. /\ last_record \in Nat /\ now \in Nat /\ last_record <= now
        /\ unwritten \in [Pids -> Times] /\ Times \subseteq Nat /\ Never \in Times
        /\ RecordEvery \in Nat /\ 0 < RecordEvery
    <2>1. Times \subseteq Nat /\ Never \in Times
      BY Durations DEF Times, Never
    <2> QED
      BY <2>1, EpisodesAssumption DEF EpisodesInv, TypeOK, OwedInv
  <1>2. ASSUME NEW pause \in Pauses, now + pause <= MaxTime,
               NEW listed \in SUBSET Pids, NEW list \in [listed -> Uses],
               Evaluate(now + pause, list), Persist(list, now + pause)
        PROVE  OwedInv'
    <2> DEFINE t == now + pause
    <2>1. t \in Times /\ t \in Nat /\ t # Never /\ now < t
      BY <1>2, Instants
    <2>2. now' = t /\ kind' = kind /\ kind \notin AppKinds
      BY <1>2, EvaluateConcludes DEF Evaluate
    <2>3. PICK written \in BOOLEAN :
            unwritten' = [p \in Pids |->
              IF p \notin Qualify(fast', list, t) THEN Never
              ELSE IF p \in records' THEN IF written THEN Never ELSE t
              ELSE IF unwritten[p] = Never THEN t ELSE unwritten[p]]
      BY <1>2 DEF Persist
    <2>4. unwritten' \in [Pids -> Times]
      BY <1>1, <2>1, <2>3
    <2>5. CASE RecordDue(t)
      <3>1. last_record' = t /\ records' = Qualify(fast', list, t)
        BY <1>2, <2>5 DEF Evaluate
      <3>2. \A p \in Pids : unwritten'[p] \in {Never, t}
        BY <2>3, <3>1
      <3> QED
        BY <1>1, <2>1, <2>2, <2>4, <3>1, <3>2 DEF OwedInv, Owed
    <2>6. CASE ~RecordDue(t)
      <3>1. last_record' = last_record
        BY <1>2, <2>6 DEF Evaluate
      <3>2. last_record # Never /\ t - last_record < RecordEvery
        BY <1>1, <2>1, <2>6 DEF RecordDue
      <3>3. \A p \in Pids : unwritten'[p] \in {Never, t, unwritten[p]}
        BY <2>3
      <3>4. \A p \in Pids : unwritten[p] # Never => last_record <= unwritten[p]
        BY DEF OwedInv, Owed
      <3> QED
        BY <1>1, <2>1, <2>2, <2>4, <3>1, <3>2, <3>3, <3>4 DEF OwedInv, Owed
    <2> QED
      BY <2>5, <2>6
  <1>3. ASSUME NEW pause \in Pauses, now + pause <= MaxTime,
               NEW list, EvaluateApps(now + pause, list), UNCHANGED unwritten
        PROVE  OwedInv'
    <2>1. /\ now' = now + pause /\ now < now' /\ now' \in Nat
          /\ kind' = kind /\ kind \in AppKinds /\ last_record' = last_record
      BY <1>3, Instants, EvaluateConcludes DEF EvaluateApps, recording
    <2>2. \A p \in Pids : unwritten[p] = Never
      BY <2>1 DEF OwedInv, Owed
    <2> QED
      BY <1>1, <1>3, <2>1, <2>2 DEF OwedInv, Owed
  <1>4. ASSUME NEW pause \in Pauses, now + pause <= MaxTime,
               Skip(now + pause), unwritten' = [p \in Pids |-> Never]
        PROVE  OwedInv'
    <2>1. now' = now + pause /\ now < now' /\ now' \in Nat /\ last_record' = last_record
      BY <1>4, Instants DEF Skip
    <2> QED
      BY <1>1, <1>4, <2>1 DEF OwedInv, Owed
  <1>5. CASE ReloadSettings
    <2>1. UNCHANGED <<kind, now, last_record, unwritten>>
      BY <1>5 DEF ReloadSettings, Reload, recording
    <2> QED
      BY <2>1 DEF OwedInv, Owed
  <1>6. CASE UNCHANGED monitorVars
    <2>1. UNCHANGED <<kind, now, last_record, unwritten>>
      BY <1>6 DEF monitorVars, vars, settings, recording
    <2> QED
      BY <2>1 DEF OwedInv, Owed
  <1> QED
    BY <1>2, <1>3, <1>4, <1>5, <1>6 DEF MonitorNext, Tick

LEMMA OwedRecorded == EpisodesInv /\ OwedInv => Recorded
  <1> SUFFICES ASSUME EpisodesInv, OwedInv, NEW p \in Pids, unwritten[p] # Never
               PROVE  now - unwritten[p] < RecordEvery
    BY DEF Recorded
  <1>1. /\ last_record \in Nat /\ now \in Nat /\ unwritten[p] \in Nat
        /\ RecordEvery \in Nat
    BY Durations, EpisodesAssumption DEF EpisodesInv, TypeOK, OwedInv, Times, Never
  <1>2. last_record <= unwritten[p] /\ now - last_record < RecordEvery
    BY DEF OwedInv, Owed
  <1> QED
    BY <1>1, <1>2

\* "Once a minute, qualifying processes become metric records" (alerts.rs:1508):
\* whoever stays worth a record waits less than a round of records for it, and
\* for less again after every append that failed.
THEOREM RecordedInTime == MonitorSpec => []Recorded
  <1>1. MonitorSpec => []EpisodesInv
    BY EpisodesInvariant, MonitorImplementsEpisodes, PTL
  <1> QED
    BY <1>1, OwedInit, OwedStep, OwedRecorded, PTL DEF MonitorSpec

-----------------------------------------------------------------------------
(* Nobody busy goes unnoticed.                                             *)

\* The longest pause that leaves a sample in every window as old as it must be
\* for the window to count as full.
Longest == Window - MinSpan + 1
Brisk == \A pause \in Pauses : pause <= Longest

LEMMA Pacing ==
  /\ Longest \in Nat /\ Longest <= Window /\ Longest <= SlowWindow
  /\ MinSpan + Longest <= Window + 1 /\ SlowMinSpan + Longest <= SlowWindow + 1
  /\ SlowMinSpan <= SlowWindow /\ MinSpan <= Window
  <1>1. /\ Window \in Nat /\ MinSpan \in Nat /\ 0 < MinSpan /\ MinSpan <= Window
        /\ SlowFactor \in Nat \ {0}
    BY EpisodesAssumption
  <1>2. Longest \in Nat /\ Longest <= Window /\ MinSpan + Longest <= Window + 1
    BY <1>1 DEF Longest
  <1>3. Window - MinSpan \in Nat /\ SlowFactor - 1 \in Nat
    BY <1>1
  <1>4. (SlowFactor - 1) * (Window - MinSpan) \in Nat
    BY <1>3
  <1>5. SlowWindow = SlowMinSpan + (Window - MinSpan) + (SlowFactor - 1) * (Window - MinSpan)
    BY <1>1 DEF SlowWindow, SlowMinSpan
  <1> QED
    BY <1>1, <1>2, <1>3, <1>4, <1>5, Durations, Spans DEF Longest

\* A window that took a sample at every tick since that instant: there is one
\* of now, and one shortly before every instant the window still covers.
Followed(S, window, from, n) ==
  /\ \E s \in S : s.at = n
  /\ \A x \in Nat : from <= x /\ x <= n /\ n - x + Longest <= window + 1 =>
       \E s \in S : s.at <= x /\ x < s.at + Longest

LEMMA FollowedStep ==
  ASSUME NEW n \in Nat, NEW t \in Nat, n < t, t - n <= Longest,
         NEW window \in Nat, Longest <= window,
         NEW S, \A s \in S : s.at \in Nat, NEW fresh, fresh.at = t,
         NEW R, fresh \in R, \A s \in S : t - s.at <= window => s \in R,
         NEW from \in Nat, from = t \/ Followed(S, window, from, n)
  PROVE  Followed(R, window, from, t)
  <1>1. fresh \in R /\ fresh.at = t /\ Longest \in Nat
    BY Pacing
  <1>2. ASSUME NEW x \in Nat, from <= x, x <= t, t - x + Longest <= window + 1
        PROVE  \E s \in R : s.at <= x /\ x < s.at + Longest
    <2>1. 0 < Longest
      BY <1>1
    <2>2. CASE x = t
      BY <1>1, <2>1, <2>2
    <2>3. CASE x # t
      <3>1. Followed(S, window, from, n) /\ x < t
        BY <1>2, <2>3
      <3>2. CASE x <= n
        <4>1. PICK s \in S : s.at <= x /\ x < s.at + Longest
          <5>1. n - x + Longest <= window + 1
            BY <1>1, <1>2, <3>2
          <5> QED
            BY <1>2, <3>1, <3>2, <5>1 DEF Followed
        <4>2. t - s.at <= window
          BY <1>1, <1>2, <4>1
        <4> QED
          BY <4>1, <4>2
      <3>3. CASE n < x
        <4>1. PICK s \in S : s.at = n
          BY <3>1 DEF Followed
        <4>2. t - s.at <= window /\ s.at <= x /\ x < s.at + Longest
          BY <1>1, <3>1, <3>3, <4>1
        <4> QED
          BY <4>1, <4>2
      <3> QED
        BY <3>2, <3>3
    <2> QED
      BY <2>2, <2>3
  <1> QED
    BY <1>1, <1>2 DEF Followed

\* A process that is at the bar since an instant: so are all its samples since,
\* and there is one of every tick.
Blazed(p) ==
  blazing_from[p] # Never =>
    /\ blazing_from[p] <= now
    /\ \A s \in slow[p] : s.at >= blazing_from[p] => Held(s.use) >= Bar
    /\ Followed(slow[p], SlowWindow, blazing_from[p], now)
    /\ kind \notin AppKinds => Followed(fast[p], Window, blazing_from[p], now)

Blazes == \A p \in Pids : Blazed(p)

LEMMA BlazedStep ==
  ASSUME Brisk, EpisodesInv, NEW pause \in Pauses, now + pause <= MaxTime,
         NEW listed \in SUBSET Pids, NEW list \in [listed -> Uses],
         \/ Evaluate(now + pause, list)
         \/ EvaluateApps(now + pause, list),
         NEW p \in Pids, Grounded(p), Blazed(p)
  PROVE  Blazed(p)'
  <1> DEFINE t == now + pause
             fresh == [at |-> t, use |-> list[p]]
             from == IF blazing_from[p] = Never THEN t ELSE blazing_from[p]
  <1>1. /\ t \in Nat /\ t # Never /\ now \in Nat /\ now < t /\ Times \subseteq Nat
        /\ pause \in Nat \ {0} /\ pause <= Longest
    BY Instants, Durations DEF Brisk
  <1>2. now' = t /\ kind' = kind /\ threshold' = threshold
    BY EvaluateConcludes
  <1>3. Bar' = Bar /\ \A use : Held(use)' = Held(use)
    BY <1>2 DEF Held, Bar
  <1>4. /\ slow[p] \in SUBSET Sample /\ fast[p] \subseteq slow[p]
        /\ blazing_from[p] \in Nat
    BY <1>1 DEF EpisodesInv, TypeOK
  <1>5. \A s \in slow[p] : s.at \in Nat /\ s.at <= now
    BY <1>1, <1>4 DEF Sample, Grounded
  <1>6. /\ slow' = Record(slow, t, list, SlowWindow)
        /\ kind \notin AppKinds => fast' = Record(fast, t, list, Window)
        /\ blazing_from'[p] = IF p \notin DOMAIN list THEN Never
                              ELSE IF Held(list[p]) < Bar THEN Never
                              ELSE from
    BY EvaluateWindows
  <1> SUFFICES ASSUME blazing_from'[p] # Never PROVE Blazed(p)'
    BY DEF Blazed
  <1>7. p \in DOMAIN list /\ ~(Held(list[p]) < Bar) /\ blazing_from'[p] = from
    BY <1>6
  <1>8. /\ slow'[p] = {s \in slow[p] : t - s.at <= SlowWindow} \cup {fresh}
        /\ kind \notin AppKinds =>
             fast'[p] = {s \in fast[p] : t - s.at <= Window} \cup {fresh}
    BY <1>6, <1>7, WindowAfter
  <1>9. from \in Nat /\ from <= t
    BY <1>1, <1>4 DEF Blazed
  <1>10. \A s \in slow'[p] : s.at >= from => Held(s.use) >= Bar
    <2>1. Held(list[p]) \in Nat /\ Bar \in Nat
      <3>1. list[p] \in Uses
        BY <1>7
      <3>2. 0 \in Times
        BY Durations DEF Times
      <3>3. [at |-> 0, use |-> list[p]] \in Sample
        BY <3>1, <3>2 DEF Sample
      <3>4. Held([at |-> 0, use |-> list[p]].use) \in Nat
        BY <3>3, HeldType
      <3>5. threshold \in Nat /\ AcuteFactor \in Nat
        BY EpisodesAssumption DEF EpisodesInv, TypeOK
      <3> QED
        BY <3>4, <3>5 DEF Bar
    <2>2. ASSUME NEW s \in slow'[p], s.at >= from PROVE Held(s.use) >= Bar
      <3>1. CASE s = fresh
        BY <1>7, <2>1, <3>1
      <3>2. CASE s \in slow[p]
        BY <1>1, <1>5, <2>2, <3>2 DEF Blazed
      <3> QED
        BY <1>8, <3>1, <3>2
    <2> QED
      BY <2>2
  <1>11. from = t \/ (blazing_from[p] # Never /\ from = blazing_from[p])
    OBVIOUS
  <1>12. Followed(slow'[p], SlowWindow, from, t)
    <2>1. from = t \/ Followed(slow[p], SlowWindow, from, now)
      BY <1>11 DEF Blazed
    <2>2. fresh.at = t
      OBVIOUS
    <2>3. \A s \in slow[p] : s.at \in Nat
      BY <1>5
    <2>4. SlowWindow \in Nat /\ Longest <= SlowWindow
      BY Pacing, Durations
    <2> HIDE DEF from, fresh
    <2>5. fresh \in slow'[p] /\ \A s \in slow[p] : t - s.at <= SlowWindow => s \in slow'[p]
      BY <1>8
    <2>6. now \in Nat /\ t \in Nat /\ now < t /\ t - now <= Longest /\ from \in Nat
      BY <1>1, <1>9
    <2> HIDE DEF t
    <2> QED
      BY <2>1, <2>2, <2>3, <2>4, <2>5, <2>6, FollowedStep
  <1>13. kind \notin AppKinds => Followed(fast'[p], Window, from, t)
    <2> SUFFICES ASSUME kind \notin AppKinds PROVE Followed(fast'[p], Window, from, t)
      OBVIOUS
    <2>1. from = t \/ Followed(fast[p], Window, from, now)
      BY <1>11 DEF Blazed
    <2>2. fresh.at = t
      OBVIOUS
    <2>3. \A s \in fast[p] : s.at \in Nat
      BY <1>4, <1>5
    <2>4. Window \in Nat /\ Longest <= Window
      BY Pacing, Durations
    <2> HIDE DEF from, fresh
    <2>5. fresh \in fast'[p] /\ \A s \in fast[p] : t - s.at <= Window => s \in fast'[p]
      BY <1>8
    <2>6. now \in Nat /\ t \in Nat /\ now < t /\ t - now <= Longest /\ from \in Nat
      BY <1>1, <1>9
    <2> HIDE DEF t
    <2> QED
      BY <2>1, <2>2, <2>3, <2>4, <2>5, <2>6, FollowedStep
  <1> HIDE DEF from, fresh
  <1> QED
    BY <1>2, <1>3, <1>7, <1>9, <1>10, <1>12, <1>13 DEF Blazed

\* A window in which a process was at the bar for as long as it reaches back
\* is full enough, and averages the bar.
LEMMA FullWindow ==
  ASSUME NEW S, IsFiniteSet(S), NEW t \in Nat, NEW from \in Nat, NEW bar \in Nat,
         NEW window \in Nat, NEW span \in Nat,
         \A s \in S : /\ s.at \in Nat /\ Held(s.use) \in Nat /\ t - s.at <= window
                      /\ s.at >= from => Held(s.use) >= bar,
         Followed(S, window, from, t), t - from >= window,
         span <= window, span + Longest <= window + 1
  PROVE  Span(S, t) >= span /\ Averages(S, bar)
  <1>1. Longest \in Nat
    BY Pacing
  <1>2. PICK s \in S : s.at <= t - span
    <2>1. /\ t - span \in Nat /\ from <= t - span /\ t - span <= t
          /\ t - (t - span) + Longest <= window + 1
      BY <1>1
    <2> QED
      BY <2>1 DEF Followed
  <1>3. Span(S, t) >= span
    <2>1. t - s.at >= span
      BY <1>2
    <2>2. S # {} /\ \A r \in S : r.at \in Nat
      OBVIOUS
    <2> QED
      BY <2>1, <2>2, SpanBounds
  <1>4. \A r \in S : Held(r.use) >= bar
    OBVIOUS
  <1> QED
    BY <1>3, <1>4, AverageBounds

LEMMA EvaluatePrompt ==
  ASSUME Brisk, EpisodesInv, NEW pause \in Pauses, now + pause <= MaxTime,
         NEW listed \in SUBSET Pids, NEW list \in [listed -> Uses],
         \/ Evaluate(now + pause, list)
         \/ EvaluateApps(now + pause, list),
         EpisodesInv', NEW p \in Pids, Grounded(p)', Blazed(p)',
         blazing_from'[p] # Never, now' - blazing_from'[p] >= Patience'
  PROVE  told'[p] # {} \/ (said'[p] # Never /\ now' - said'[p] < Cooldown)
  <1> DEFINE t == now + pause
             from == blazing_from'[p]
  <1>1. t \in Nat /\ now \in Nat /\ now < t /\ Times \subseteq Nat
    BY Instants
  <1>2. now' = t /\ kind' = kind /\ threshold' = threshold
    BY EvaluateConcludes
  <1>3. /\ Bar' = Bar /\ Patience' = Patience /\ \A use : Held(use)' = Held(use)
        /\ Sample' = Sample
    BY <1>2 DEF Held, Bar, Patience, Sample, Uses
  <1>4. p \in DOMAIN list
    BY EvaluateWindows
  <1>5. /\ slow'[p] \in SUBSET Sample /\ fast'[p] \subseteq slow'[p]
        /\ from \in Nat /\ threshold \in Nat
    <2>1. slow' \in [Pids -> SUBSET Sample] /\ fast'[p] \subseteq slow'[p]
      BY <1>3 DEF EpisodesInv, TypeOK
    <2>2. from \in Nat
      BY <1>1 DEF EpisodesInv, TypeOK
    <2> QED
      BY <2>1, <2>2, EpisodesAssumption DEF EpisodesInv, TypeOK
  <1>6. IsFiniteSet(slow'[p]) /\ IsFiniteSet(fast'[p])
    BY <1>5, FS_Subset DEF Grounded
  <1>7. \A s \in slow'[p] :
          /\ s.at \in Nat /\ Held(s.use) \in Nat
          /\ s.at >= from => Held(s.use) >= Bar
    <2>1. \A s \in slow'[p] : s.at \in Nat /\ Held(s.use) \in Nat
      BY <1>1, <1>5, HeldType DEF Sample
    <2> QED
      BY <1>2, <1>3, <2>1 DEF Blazed
  <1>8. /\ Followed(slow'[p], SlowWindow, from, t)
        /\ kind \notin AppKinds => Followed(fast'[p], Window, from, t)
    BY <1>2 DEF Blazed
  <1>9. /\ \A s \in slow'[p] : t - s.at <= SlowWindow
        /\ kind \notin AppKinds => \A s \in fast'[p] : t - s.at <= Window
    <2>1. /\ slow' = Record(slow, t, list, SlowWindow)
          /\ kind \notin AppKinds => fast' = Record(fast, t, list, Window)
      BY EvaluateWindows
    <2>2. slow'[p] = {s \in slow[p] : t - s.at <= SlowWindow}
                       \cup {[at |-> t, use |-> list[p]]}
      BY <1>4, <2>1, WindowAfter
    <2>3. kind \notin AppKinds =>
            fast'[p] = {s \in fast[p] : t - s.at <= Window}
                         \cup {[at |-> t, use |-> list[p]]}
      BY <1>4, <2>1, WindowAfter
    <2> QED
      BY <1>1, <2>2, <2>3, Durations
  <1>10. \/ kind = "Cpu" /\ IsRunaway(fast'[p], slow'[p], t)
         \/ IsChronic(slow'[p], t)
    <2>1. CASE kind = "Cpu"
      <3>1. Bar = AcuteFactor * threshold /\ Bar \in Nat /\ t - from >= Window
        BY <1>2, <1>3, <1>5, <2>1, EpisodesAssumption DEF Bar, Patience
      <3>2. \A s \in fast'[p] :
              /\ s.at \in Nat /\ Held(s.use) \in Nat /\ t - s.at <= Window
              /\ s.at >= from => Held(s.use) >= Bar
        BY <1>5, <1>7, <1>9, <2>1 DEF AppKinds
      <3>3. Followed(fast'[p], Window, from, t)
        BY <1>8, <2>1 DEF AppKinds
      <3>4. Span(fast'[p], t) >= MinSpan /\ Averages(fast'[p], Bar)
        BY <1>1, <1>5, <1>6, <3>1, <3>2, <3>3, FullWindow, Pacing, Spans, Durations
      <3> QED
        BY <2>1, <3>1, <3>4 DEF IsRunaway
    <2>2. CASE kind # "Cpu"
      <3>1. Bar = threshold /\ t - from >= SlowWindow
        BY <1>2, <1>3, <2>2 DEF Bar, Patience
      <3>2. \A s \in slow'[p] :
              /\ s.at \in Nat /\ Held(s.use) \in Nat /\ t - s.at <= SlowWindow
              /\ s.at >= from => Held(s.use) >= Bar
        BY <1>7, <1>9
      <3>3. Span(slow'[p], t) >= SlowMinSpan /\ Averages(slow'[p], Bar)
        BY <1>1, <1>5, <1>6, <1>8, <3>1, <3>2, FullWindow, Pacing, Spans, Durations
      <3> QED
        BY <3>1, <3>3 DEF IsChronic
    <2> QED
      BY <2>1, <2>2
  <1>11. First(p, t) \/ Again(p, t) \/ Silent(p, t)
    BY <1>4, <1>10, EvaluateOver
  <1>12. CASE First(p, t) \/ Again(p, t)
    BY <1>12 DEF First, Again
  <1>13. CASE Silent(p, t)
    <2> SUFFICES ASSUME told'[p] = {}
                 PROVE  said'[p] # Never /\ t - said'[p] < Cooldown
      BY <1>2
    <2>1. told[p] = {} /\ said'[p] = said[p] /\ ~Begins(p, t)
      BY <1>13 DEF Silent
    <2>2. Agrees(p) /\ last_alert[p] \in Nat
      BY <1>1 DEF EpisodesInv, TypeOK
    <2>3. active[p] = NoEpisode
      BY <2>1, <2>2 DEF Agrees
    <2>4. last_alert[p] # Never /\ ~(t - last_alert[p] >= Cooldown)
      BY <2>1, <2>3 DEF Begins
    <2> QED
      BY <1>1, <2>1, <2>2, <2>4, Durations DEF Agrees
  <1> QED
    BY <1>11, <1>12, <1>13

LEMMA BlazesStep ==
  Brisk => (EpisodesInv /\ EpisodesInv' /\ Grounds /\ Grounds' /\ Blazes /\ Prompt
              /\ [Next]_vars => Blazes' /\ Prompt')
  <1> SUFFICES ASSUME Brisk, EpisodesInv, EpisodesInv', Grounds, Grounds', Blazes,
                      Prompt, [Next]_vars
               PROVE  Blazes' /\ Prompt'
    OBVIOUS
  <1>1. ASSUME NEW pause \in Pauses, now + pause <= MaxTime,
               NEW listed \in SUBSET Pids, NEW list \in [listed -> Uses],
               \/ Evaluate(now + pause, list)
               \/ EvaluateApps(now + pause, list)
        PROVE  Blazes' /\ Prompt'
    <2>1. \A p \in Pids : Blazed(p)'
      BY <1>1, BlazedStep DEF Blazes, Grounds
    <2>2. \A p \in Pids : Grounded(p)'
      BY DEF Grounds
    <2>3. Prompt'
      BY <1>1, <2>1, <2>2, EvaluatePrompt DEF Prompt
    <2> QED
      BY <2>1, <2>3 DEF Blazes
  <1>2. ASSUME blazing_from' = [p \in Pids |-> Never] PROVE Blazes' /\ Prompt'
    BY <1>2 DEF Blazes, Blazed, Prompt
  <1>3. ASSUME NEW t, Skip(t) PROVE Blazes' /\ Prompt'
    BY <1>2, <1>3 DEF Skip
  <1>4. CASE Reload
    BY <1>2, <1>4 DEF Reload
  <1>5. CASE UNCHANGED vars
    <2>1. UNCHANGED <<kind, now, threshold, fast, slow, blazing_from, told, said>>
      BY <1>5 DEF vars, settings, windows, history
    <2>2. Bar' = Bar /\ Patience' = Patience /\ \A use : Held(use)' = Held(use)
      BY <2>1 DEF Bar, Patience, Held
    <2> QED
      BY <2>1, <2>2 DEF Blazes, Blazed, Prompt
  <1> QED
    BY <1>1, <1>3, <1>4, <1>5, StepKinds

\* Both halves of what a busy process is owed.  Over the runaway bar for the
\* whole acute window it is reported (alerts.rs:1252-1253), if evaluations come
\* often enough for that window to fill up; it is recorded (alerts.rs:1508).
THEOREM BusyNoticed ==
  ASSUME Brisk PROVE MonitorSpec => []Noticed
  <1>1. Init => Grounds /\ Sustained /\ Blazes /\ Prompt
    <2> SUFFICES ASSUME Init PROVE Grounds /\ Sustained /\ Blazes /\ Prompt
      OBVIOUS
    <2>1. \A p \in Pids : /\ slow[p] = {} /\ here_from[p] <= now /\ report[p] = "none"
                          /\ blazing_from[p] = Never
      BY DEF Init, Never
    <2> QED
      BY <2>1, FS_EmptySet DEF Grounds, Grounded, Sustained, Blazes, Blazed, Prompt
  <1>2. EpisodesInv /\ EpisodesInv' /\ Grounds /\ Grounds' /\ Blazes /\ Prompt
              /\ [Next]_vars => Blazes' /\ Prompt'
    BY BlazesStep
  <1>3. Prompt /\ Recorded => Noticed
    BY DEF Noticed
  <1> QED
    BY <1>1, <1>2, <1>3, GroundsStep, EpisodesInvariant, MonitorImplementsEpisodes,
       RecordedInTime, PTL DEF Spec
=============================================================================
