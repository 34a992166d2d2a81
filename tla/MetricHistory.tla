--------------------------- MODULE MetricHistory ---------------------------
(***************************************************************************)
(* What the daily metrics history promises its readers, whoever writes it: *)
(* a record whose line is finished stays readable for as long as its day   *)
(* is kept, a day is dropped as a whole and never before its time, and     *)
(* nothing is read that was not submitted.  Only the newest record of a    *)
(* day, whose line is still open, may be lost again.  A day may be spoiled *)
(* by a line that no reader can decode: until it expires, whoever asks for *)
(* a range of days that it lies in gets an error and no record at all.     *)
(***************************************************************************)
EXTENDS Naturals

CONSTANTS Days,        \* the local dates that name the files
          Retention,   \* RETENTION_DAYS
          Submissions  \* the records that writers may submit

VARIABLES today,       \* the local date
          submitted,   \* the records handed to append so far
          finished,    \* for every day the records on a finished line
          open,        \* for every day the record on its unfinished line
          spoiled      \* the days with a line that cannot be decoded

vars == <<today, submitted, finished, open, spoiled>>

Readable(d) == finished[d] \cup open[d]

(* What a reader of the days from..to is answered.                         *)
Answer(from, to) ==
    LET dates == Days \cap (from..to) IN
    IF dates \cap spoiled # {}
      THEN [ok |-> FALSE, records |-> {}]
      ELSE [ok |-> TRUE, records |-> UNION {Readable(d) : d \in dates}]

Init == /\ today \in Days
        /\ submitted = {}
        /\ finished = [d \in Days |-> {}]
        /\ open = [d \in Days |-> {}]
        /\ spoiled = {}

Midnight == /\ today' > today
            /\ UNCHANGED <<submitted, finished, open, spoiled>>

Submit == /\ submitted \subseteq submitted'
          /\ UNCHANGED <<today, finished, open, spoiled>>

(* The day's last line gets something new on it, or is lost.               *)
Touch(d) == /\ \E r \in SUBSET (submitted \ Readable(d)) :
                  open' = [open EXCEPT ![d] = r]
            /\ UNCHANGED <<today, submitted, finished, spoiled>>

(* The day's last line is finished with what is on it.                     *)
Finish(d) == /\ finished' = [finished EXCEPT ![d] = @ \cup open[d]]
             /\ open' = [open EXCEPT ![d] = {}]
             /\ UNCHANGED <<today, submitted, spoiled>>

(* The day's last line is left with something on it that cannot be decoded. *)
Spoil(d) == /\ spoiled' = spoiled \cup {d}
            /\ open' = [open EXCEPT ![d] = {}]
            /\ UNCHANGED <<today, submitted, finished>>

(* A sweep drops whole days, all of them older than the retention.         *)
Expire == /\ \E old \in SUBSET {d \in Days : d + Retention < today} :
                /\ finished' = [d \in Days |-> IF d \in old THEN {} ELSE finished[d]]
                /\ open' = [d \in Days |-> IF d \in old THEN {} ELSE open[d]]
                /\ spoiled' = spoiled \ old
          /\ UNCHANGED <<today, submitted>>

Next == Midnight \/ Submit \/ Expire \/ \E d \in Days : Touch(d) \/ Finish(d) \/ Spoil(d)

Spec == Init /\ [][Next]_vars
=============================================================================
