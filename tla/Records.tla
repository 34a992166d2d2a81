------------------------------- MODULE Records -------------------------------
(***************************************************************************)
(* The daily metrics files <config-dir>/data/YYYY-MM-DD.jsonl              *)
(* (src/records.rs) and the processes that append to them: the daemon's    *)
(* alert sink and any frontend built on Monitor.                           *)
(*                                                                         *)
(* A file is the sequence of what write calls put into it.  `writeln!` on  *)
(* an unbuffered file is two of them, the line and its newline; the file   *)
(* is opened for appending, so each lands whole at the end, whatever other *)
(* processes write in between, unless the disk fills up half-way.          *)
(***************************************************************************)
EXTENDS Naturals, Sequences, FiniteSets

CONSTANTS Writers,      \* the processes that append
          MaxDay,       \* bound: the last local date considered
          Retention,    \* RETENTION_DAYS
          MaxRecords    \* bound: the records submitted in a behaviour

ASSUME RecordsAssumption ==
    /\ MaxDay \in Nat \ {0}
    /\ Retention \in Nat
    /\ MaxRecords \in Nat

Days == 1..MaxDay
Submissions == 1..MaxRecords
Newline == 0               \* the "\n" that writeln! adds
Torn == MaxRecords + 1     \* a line of which only the beginning was written
Garbled == MaxRecords + 2  \* one cut inside a multi-byte character

VARIABLES today,      \* what jiff::Zoned::now().date() answers
          exists,     \* the days whose file is in the data directory
          file,       \* the content of each day's file
          sweptOn,    \* LAST_CLEANUP of each process; 0 when it has no entry
          job,        \* the append each process is in the middle of
          submitted,  \* history: how many records were handed to append
          acked,      \* history: the records whose append returned Ok, by day
          disturbed   \* history: the days with a cut-off or mixed-up line

recordsVars == <<today, exists, file, sweptOn, job, submitted, acked, disturbed>>

Idle == [at |-> "idle", day |-> 0, lines |-> <<>>, left |-> <<>>]
Job == [at : {"idle", "line", "newline", "sweep"}, day : 0..MaxDay,
        lines : Seq(Submissions), left : Seq(Submissions)]

RecordsTypeOK ==
    /\ today \in Days
    /\ exists \in SUBSET Days
    /\ file \in [Days -> Seq(0..MaxRecords + 2)]
    /\ sweptOn \in [Writers -> 0..MaxDay]
    /\ job \in [Writers -> Job]
    /\ \A w \in Writers :
          /\ job[w].at # "idle" => job[w].day \in Days
          /\ job[w].at \in {"line", "newline"} => job[w].left # <<>>
    /\ submitted \in 0..MaxRecords
    /\ acked \in [Days -> SUBSET Submissions]
    /\ disturbed \in SUBSET Days

RecordsInit ==
    /\ today \in Days
    /\ exists = {}
    /\ file = [d \in Days |-> <<>>]
    /\ sweptOn = [w \in Writers |-> 0]
    /\ job = [w \in Writers |-> Idle]
    /\ submitted = 0
    /\ acked = [d \in Days |-> {}]
    /\ disturbed = {}

-----------------------------------------------------------------------------
(* Reading back *)

(* `lines` splits a file s at the newlines and serde accepts a line that is *)
(* exactly one record: the places where a record stands alone on its line. *)
(* The last line needs no newline.                                         *)
Parsed(s) == {i \in DOMAIN s : /\ s[i] \in Submissions
                               /\ i > 1 => s[i - 1] = Newline
                               /\ i < Len(s) => s[i + 1] = Newline}

Finished(s) == {s[i] : i \in Parsed(s) \ {Len(s)}}
Open(s) == {s[i] : i \in Parsed(s) \cap {Len(s)}}

(* `line?`: a line that is not valid UTF-8 is an error of the reader, not  *)
(* a line that fails to parse, and glueing more to it does not mend it.    *)
Refuses(s) == \E i \in DOMAIN s : s[i] = Garbled

(* read_range: the records of the files dated from..to, or the first error *)
(* any of them gives; a missing file has nothing in it.                    *)
read_range(from, to) ==
    LET dates == exists \cap (from..to) IN
    IF \E d \in dates : Refuses(file[d])
      THEN [ok |-> FALSE, records |-> {}]
      ELSE [ok |-> TRUE,
            records |-> UNION {Finished(file[d]) \cup Open(file[d]) : d \in dates}]

(* Whether the last line has no newline yet: what comes next is glued to   *)
(* it.                                                                     *)
Unfinished(s) == s # <<>> /\ s[Len(s)] # Newline

-----------------------------------------------------------------------------
(* append *)

(* The data directory and the file are created as needed.                  *)
Append_open(w, n) ==
    /\ job[w].at = "idle"
    /\ submitted + n <= MaxRecords
    /\ LET rs == [i \in 1..n |-> submitted + i]
       IN  job' = [job EXCEPT ![w] = [at |-> "line", day |-> today, lines |-> rs, left |-> rs]]
    /\ exists' = exists \cup {today}
    /\ submitted' = submitted + n
    /\ UNCHANGED <<today, file, sweptOn, acked, disturbed>>

(* Mutant: the file is opened without append(true), each process writing   *)
(* where the previous content starts.                                      *)
PutAtStart(d, x) == file' = [file EXCEPT ![d] = <<x>> \o SubSeq(@, 2, Len(@))]

Put(d, x) == file' = [file EXCEPT ![d] = Append(@, x)]

Append_line(w) ==
    LET d == job[w].day IN
    /\ job[w].at = "line"
    /\ Put(d, Head(job[w].left))
    /\ job' = [job EXCEPT ![w].at = "newline"]
    /\ disturbed' = IF Unfinished(file[d]) THEN disturbed \cup {d} ELSE disturbed
    /\ UNCHANGED <<today, exists, sweptOn, submitted, acked>>

Append_newline(w) ==
    /\ job[w].at = "newline"
    /\ Put(job[w].day, Newline)
    /\ job' = [job EXCEPT ![w].left = Tail(@),
                          ![w].at = IF Len(job[w].left) = 1 THEN "sweep" ELSE "line"]
    /\ UNCHANGED <<today, exists, sweptOn, submitted, acked, disturbed>>

(* The disk is full: the line is cut off, between two characters or inside *)
(* one, or not there, or its newline is missing, and the error returns     *)
(* from append before the sweep.                                           *)
Append_fails(w) ==
    /\ job[w].at \in {"line", "newline"}
    /\ job' = [job EXCEPT ![w] = Idle]
    /\ disturbed' = disturbed \cup {job[w].day}
    /\ \/ job[w].at = "line" /\ \E x \in {Torn, Garbled} : Put(job[w].day, x)
       \/ UNCHANGED file
    /\ UNCHANGED <<today, exists, sweptOn, submitted, acked>>

(* Mutant: the file of the cutoff day itself goes as well.                 *)
ExpiredWithCutoff(d) == {old \in exists : old + Retention <= d}

(* What cleanup deletes: the files dated before the cutoff.                *)
Expired(d) == {old \in exists : old + Retention < d}

(* maybe_cleanup: once per process and date, the date being noted first;   *)
(* `stuck` are the files whose removal fails.                              *)
maybe_cleanup(w, stuck) ==
    LET d == job[w].day
        gone == Expired(d) \ stuck
    IN
    /\ job[w].at = "sweep"
    /\ sweptOn' = [sweptOn EXCEPT ![w] = d]
    /\ \/ /\ sweptOn[w] = d
          /\ UNCHANGED <<exists, file>>
       \/ /\ sweptOn[w] # d
          /\ exists' = exists \ gone
          /\ file' = [old \in Days |-> IF old \in gone THEN <<>> ELSE file[old]]
    /\ acked' = [acked EXCEPT ![d] = @ \cup {job[w].lines[i] : i \in DOMAIN job[w].lines}]
    /\ job' = [job EXCEPT ![w] = Idle]
    /\ UNCHANGED <<today, submitted, disturbed>>

-----------------------------------------------------------------------------
(* The process dies: with it the map of swept dates.  Between a line and   *)
(* its newline it leaves the line open.                                    *)
Crash(w) ==
    /\ job[w] # Idle \/ sweptOn[w] # 0
    /\ job' = [job EXCEPT ![w] = Idle]
    /\ sweptOn' = [sweptOn EXCEPT ![w] = 0]
    /\ disturbed' = IF job[w].at = "newline" THEN disturbed \cup {job[w].day} ELSE disturbed
    /\ UNCHANGED <<today, exists, file, submitted, acked>>

(* Bound: an append does not outlast the retention, here MaxDay days       *)
(* against the code's thirty.                                              *)
Midnight ==
    /\ today < MaxDay
    /\ \A w \in Writers : job[w] # Idle => today < job[w].day + Retention
    /\ today' = today + 1
    /\ UNCHANGED <<exists, file, sweptOn, job, submitted, acked, disturbed>>

RecordsNext ==
    \/ Midnight
    \/ \E w \in Writers :
          \/ \E n \in 1..2 : Append_open(w, n)
          \/ Append_line(w)
          \/ Append_newline(w)
          \/ Append_fails(w)
          \/ \E stuck \in SUBSET exists : maybe_cleanup(w, stuck)
          \/ Crash(w)

RecordsSpec == RecordsInit /\ [][RecordsNext]_recordsVars

-----------------------------------------------------------------------------
(* Properties *)

(* The days a reader cannot read, and what lies on the other days.         *)
History == INSTANCE MetricHistory
               WITH submitted <- 1..submitted,
                    finished <- [d \in Days |-> IF d \in exists THEN Finished(file[d]) ELSE {}],
                    open <- [d \in Days |-> IF d \in exists THEN Open(file[d]) ELSE {}],
                    spoiled <- {d \in exists : Refuses(file[d])}

(* A reader is answered what the history says, for whatever range of days. *)
AnswersAgree ==
    \A from, to \in Days : read_range(from, to) = History!Answer(from, to)

(* The files follow the promise of the history: a record stays once its    *)
(* line is finished, days expire whole and on time, nothing is read that   *)
(* was not submitted, and only a day with a line cut inside a character    *)
(* keeps a reader from the range it lies in, until that day is swept: not, *)
(* as the doc comment of src/records.rs:171-172 has it, never (the         *)
(* append-only file of src/records.rs:134-152, the reading of :173-196 and *)
(* the sweep of :202-224).                                                 *)
HistorySpec == History!Spec /\ []AnswersAgree

(* A reader of a range of days is refused only if the range holds a day on *)
(* which an append failed or died; otherwise every record whose append     *)
(* returned Ok is among the answer, and each once, for every day of the    *)
(* range on which no line was cut off and no two processes wrote into the  *)
(* same line: an append that reports success has lost nothing to its own   *)
(* second system call, whatever befell other days of the range             *)
(* (src/records.rs:145-149, 173-196).                                      *)
AckedIsRead ==
    \A from, to \in Days :
        LET dates == exists \cap (from..to)
            reading == read_range(from, to)
        IN  IF reading.ok
              THEN \A d \in dates \ disturbed :
                      /\ acked[d] \subseteq reading.records
                      /\ \A i, j \in Parsed(file[d]) : file[d][i] = file[d][j] => i = j
              ELSE dates \cap disturbed # {}
=============================================================================
