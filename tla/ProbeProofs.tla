----------------------------- MODULE ProbeProofs -----------------------------
(***************************************************************************)
(* Proofs about what is read of the machine while it goes on: the socket   *)
(* queries (Sockets), for any number of sockets and processes and however  *)
(* often a dump is done again, the parser of the macOS socket tables       *)
(* (SocketTable), for tables of any length, and the sampling channels      *)
(* (Channels), for every set of units, every refresh interval and runs of  *)
(* any length.                                                             *)
(***************************************************************************)
EXTENDS MCSockets, Channels, SequenceTheorems, SumProofs

-----------------------------------------------------------------------------
(* The type invariant of Sockets.                                          *)

Readings == UNION {[S -> Nat] : S \in SUBSET Inodes}
Ownings == UNION {[S -> Pids] : S \in SUBSET Inodes}

ReadingCalls ==
  [at : {"listeners", "traffic"}, family : {"v4", "v6"}, found : Readings,
   kept : Readings, attempt : Nat, changed : BOOLEAN, lossy : BOOLEAN]
ScanningCalls ==
  [at : {"scan"}, kind : {"listeners", "traffic"}, found : Readings,
   left : SUBSET Pids, owner : Ownings, denied : BOOLEAN, lossy : BOOLEAN]

SocketsType ==
  /\ bytes \in [Inodes -> Nat \cup {-1}]
  /\ holds \in [Pids -> SUBSET Inodes]
  /\ \A p \in Pids : \A i \in holds[p] : bytes[i] \in Nat
  /\ call \in {Idle} \cup ReadingCalls \cup ScanningCalls
  /\ result # Nothing => call = Idle

LEMMA ReadingsAre ==
  /\ \A f \in Readings : /\ DOMAIN f \subseteq Inodes /\ \A i \in DOMAIN f : f[i] \in Nat
                         /\ f = [i \in DOMAIN f |-> f[i]]
  /\ \A S \in SUBSET Inodes : [S -> Nat] \subseteq Readings
  /\ <<>> \in Readings /\ DOMAIN <<>> = {}
  <1>1. <<>> \in [{} -> Nat] /\ {} \in SUBSET Inodes /\ DOMAIN <<>> = {}
    OBVIOUS
  <1> QED
    BY <1>1 DEF Readings

LEMMA OwningsAre ==
  /\ \A f \in Ownings : DOMAIN f \subseteq Inodes /\ \A i \in DOMAIN f : f[i] \in Pids
  /\ \A S \in SUBSET Inodes : [S -> Pids] \subseteq Ownings
  /\ <<>> \in Ownings
  <1>1. <<>> \in [{} -> Pids] /\ {} \in SUBSET Inodes
    OBVIOUS
  <1> QED
    BY <1>1 DEF Ownings

LEMMA MergeIs ==
  ASSUME NEW f \in Readings, NEW g \in Readings
  PROVE  /\ Merge(f, g) \in Readings
         /\ DOMAIN Merge(f, g) = DOMAIN f \cup DOMAIN g
         /\ \A i \in DOMAIN Merge(f, g) :
              Merge(f, g)[i] = IF i \in DOMAIN g THEN g[i] ELSE f[i]
  <1>1. \A i \in DOMAIN f \cup DOMAIN g : (IF i \in DOMAIN g THEN g[i] ELSE f[i]) \in Nat
    BY ReadingsAre
  <1>2. DOMAIN f \cup DOMAIN g \in SUBSET Inodes
    BY ReadingsAre
  <1>3. Merge(f, g) \in [DOMAIN f \cup DOMAIN g -> Nat]
    BY <1>1 DEF Merge
  <1> QED
    BY <1>2, <1>3, ReadingsAre DEF Merge

\* Where a call is tells what it is.
LEMMA CallAt ==
  ASSUME SocketsType
  PROVE  /\ call = Idle <=> call.at = "idle"
         /\ call.at \in {"listeners", "traffic"} <=> call \in ReadingCalls
         /\ call.at = "scan" <=> call \in ScanningCalls
         /\ call # Idle => result = Nothing
  BY DEF SocketsType, Idle, ReadingCalls, ScanningCalls

\* The next family, and after it the processes.
Continues(c, f) ==
  /\ call.family = "v4"
  /\ c \in ReadingCalls /\ c.at = call.at /\ c.family = "v6" /\ c.found = f
  /\ c.kept = <<>> /\ c.changed = FALSE /\ c.lossy = call.changed
Searches(c, f) ==
  /\ call.family = "v6"
  /\ c \in ScanningCalls /\ c.at = "scan" /\ c.kind = call.at /\ c.found = f
  /\ c.left = Pids /\ c.owner = <<>> /\ c.denied = FALSE
  /\ c.lossy = (call.lossy \/ call.changed)

LEMMA NextFamilyIs ==
  ASSUME SocketsType, call.at \in {"listeners", "traffic"}, NEW f \in Readings
  PROVE  Continues(NextFamily(call.at, f), f) \/ Searches(NextFamily(call.at, f), f)
  <1>1. call \in ReadingCalls
    BY CallAt
  <1>2. <<>> \in Readings /\ <<>> \in Ownings
    BY ReadingsAre, OwningsAre
  <1>3. CASE call.family = "v4"
    <2>1. NextFamily(call.at, f) = [call EXCEPT !.family = "v6", !.found = f, !.kept = <<>>,
                        !.attempt = 1, !.changed = FALSE, !.lossy = call.changed]
      BY <1>3 DEF NextFamily
    <2>2. NextFamily(call.at, f) = [at |-> call.at, family |-> "v6", found |-> f,
             kept |-> <<>>, attempt |-> 1, changed |-> FALSE, lossy |-> call.changed]
      BY <1>1, <2>1 DEF ReadingCalls
    <2>3. call.changed \in BOOLEAN
      BY <1>1 DEF ReadingCalls
    <2>4. NextFamily(call.at, f) \in ReadingCalls
      BY <1>2, <2>2, <2>3 DEF ReadingCalls
    <2>5. Continues(NextFamily(call.at, f), f)
      BY <1>3, <2>2, <2>4 DEF Continues
    <2> QED
      BY <2>5
  <1>4. CASE call.family = "v6"
    <2>1. NextFamily(call.at, f) = Scan(call.at, f)
      BY <1>4 DEF NextFamily
    <2>2. Searches(NextFamily(call.at, f), f)
      BY <1>1, <1>2, <1>4, <2>1 DEF Searches, Scan, ReadingCalls, ScanningCalls
    <2> QED
      BY <2>2
  <1> QED
    BY <1>1, <1>3, <1>4 DEF ReadingCalls

\* What each step does to the call.
Starts(kind) ==
  /\ call = Idle /\ result = Nothing
  /\ call' \in ReadingCalls /\ call'.at = kind /\ call'.family = "v4"
  /\ call'.found = <<>> /\ call'.kept = <<>> /\ call'.changed = FALSE /\ call'.lossy = FALSE
  /\ began' = [bytes |-> bytes, holds |-> holds]
  /\ held' = {pair \in Pids \X Inodes : pair[2] \in holds[pair[1]]}
  /\ moved' = {}
  /\ UNCHANGED <<bytes, holds, result>>

Dumped == [i \in {j \in OfFamily(call.family) : Open(j)} |-> 0]
Still == UNCHANGED <<bytes, holds, began, held, moved>>
ReadsTable ==
  /\ call.at = "listeners" /\ Still /\ result' = result
  /\ Continues(call', Merge(call.found, Dumped)) \/ Searches(call', Merge(call.found, Dumped))

Hears(i) ==
  /\ call.at = "traffic" /\ Still /\ result' = result
  /\ i \in OfFamily(call.family) /\ Open(i)
  /\ call' \in ReadingCalls
  /\ call'.kept = Merge(call.kept, [j \in {i} |-> bytes[i]])
  /\ \A field \in {"at", "family", "found", "changed", "lossy"} : call'[field] = call[field]

Repeats ==
  /\ call.at = "traffic" /\ Still /\ result' = result
  /\ call' \in ReadingCalls /\ call'.kept = <<>> /\ call'.changed = FALSE
  /\ \A field \in {"at", "family", "found", "lossy"} : call'[field] = call[field]

Finishes ==
  /\ call.at = "traffic" /\ Still /\ result' = result
  /\ call.changed \/ {i \in OfFamily(call.family) : Open(i)} \subseteq DOMAIN call.kept
  /\ \/ Continues(call', Merge(call.found, call.kept))
     \/ Searches(call', Merge(call.found, call.kept))

Looks ==
  /\ call.at = "scan" /\ Still /\ result' = result
  /\ call' \in ScanningCalls
  /\ \A field \in {"at", "kind", "found", "lossy"} : call'[field] = call[field]
  /\ call.left # {} /\ call'.left = call.left \ {Min(call.left)}
  /\ \/ /\ Min(call.left) \in Denied
        /\ call'.denied = TRUE /\ call'.owner = call.owner
     \/ /\ Min(call.left) \notin Denied
        /\ call'.denied = call.denied
        /\ call'.owner = Owners(call.owner, Min(call.left), DOMAIN call.found)

Ends == Fail \/ Finish

\* The machine goes on: at most it marks the table of a dump as changed.
Meanwhile ==
  /\ result' = result /\ began' = began
  /\ call = Idle <=> call' = Idle
  /\ call' \in {Idle} \cup ReadingCalls \cup ScanningCalls
  /\ \/ call' = call
     \/ /\ call.at = "traffic" /\ call'.changed = TRUE
        /\ \A field \in {"at", "family", "found", "kept", "lossy"} : call'[field] = call[field]

Moves(i) ==
  /\ Meanwhile
  /\ call = Idle => moved' = moved /\ held' = held
  /\ call # Idle => moved' = moved \cup {i}

LEMMA CallSteps ==
  ASSUME SocketsType, SocketsNext
  PROVE  \/ \E kind \in {"listeners", "traffic"} : Starts(kind)
         \/ ReadsTable \/ Finishes \/ Repeats \/ Looks \/ Ends
         \/ \E i \in Inodes : Hears(i) \/ Carry(i)
         \/ \E p \in Pids, i \in Inodes : Take(p, i) \/ Drop(p, i)
  <1>1. ASSUME NEW kind \in {"listeners", "traffic"}, Begin(kind) PROVE Starts(kind)
    <2>1. call' \in ReadingCalls
      BY <1>1, ReadingsAre DEF Begin, ReadingCalls
    <2> QED
      BY <1>1, <2>1 DEF Begin, Starts, kernel
  <1>2. ASSUME ReadTable PROVE ReadsTable
    <2>1. Merge(call.found, Dumped) \in Readings
      <3>1. Dumped \in [{j \in OfFamily(call.family) : Open(j)} -> Nat]
        BY DEF Dumped
      <3>2. {j \in OfFamily(call.family) : Open(j)} \in SUBSET Inodes
        BY SocketsAssumption DEF OfFamily
      <3>3. call.found \in Readings
        BY <1>2, CallAt DEF ReadTable, ReadingCalls
      <3> QED
        BY <3>1, <3>2, <3>3, MergeIs, ReadingsAre
    <2>2. call.at = "listeners" /\ call' = NextFamily(call.at, Merge(call.found, Dumped))
      BY <1>2 DEF ReadTable, Dumped
    <2>3. Still /\ result' = result
      BY <1>2 DEF ReadTable, Still, kernel
    <2> QED
      BY <2>1, <2>2, <2>3, NextFamilyIs DEF ReadsTable
  <1>3. ASSUME NEW i \in Inodes, Receive(i) PROVE Hears(i)
    <2> DEFINE heard == [j \in {i} |-> bytes[i]]
    <2>1. call.at = "traffic" /\ call \in ReadingCalls /\ call.kept \in Readings
      BY <1>3, CallAt DEF Receive, ReadingCalls
    <2>2. bytes[i] \in Nat
      BY <1>3 DEF Receive, Open, SocketsType
    <2>3. heard \in [{i} -> Nat]
      BY <2>2
    <2>4. Merge(call.kept, heard) \in Readings
      <3>1. {i} \in SUBSET Inodes
        OBVIOUS
      <3>2. heard \in Readings
        BY <2>3, <3>1, ReadingsAre
      <3> HIDE DEF heard
      <3> QED
        BY <2>1, <3>2, MergeIs
    <2>5. call' = [call EXCEPT !.kept = Merge(call.kept, heard)]
      BY <1>3 DEF Receive
    <2>6. Still /\ result' = result /\ i \in OfFamily(call.family) /\ Open(i)
      BY <1>3 DEF Receive, Still, kernel
    <2> HIDE DEF heard
    <2>7. /\ call' \in ReadingCalls /\ call'.kept = Merge(call.kept, heard)
          /\ \A field \in {"at", "family", "found", "changed", "lossy"} :
                call'[field] = call[field]
      BY <2>1, <2>4, <2>5 DEF ReadingCalls
    <2> QED
      BY <2>1, <2>6, <2>7 DEF Hears, heard
  <1>4. ASSUME Done PROVE Repeats \/ Finishes
    <2>1. call.at = "traffic" /\ call \in ReadingCalls /\ Still /\ result' = result
      BY <1>4, CallAt DEF Done, Still, kernel
    <2>2. CASE call.changed /\ call.attempt < Attempts
      <3>1. call' = [call EXCEPT !.attempt = call.attempt + 1, !.changed = FALSE,
                                 !.kept = <<>>]
        BY <1>4, <2>2 DEF Done, Retry
      <3>2. call' = [at |-> call.at, family |-> call.family, found |-> call.found,
                     kept |-> <<>>, attempt |-> call.attempt + 1, changed |-> FALSE,
                     lossy |-> call.lossy]
        BY <2>1, <3>1 DEF ReadingCalls
      <3>3. /\ call.family \in {"v4", "v6"} /\ call.found \in Readings
            /\ call.attempt + 1 \in Nat /\ call.lossy \in BOOLEAN
        BY <2>1 DEF ReadingCalls
      <3>4. call' \in ReadingCalls
        BY <2>1, <3>2, <3>3, ReadingsAre DEF ReadingCalls
      <3> QED
        BY <2>1, <3>2, <3>4 DEF Repeats
    <2>3. CASE ~(call.changed /\ call.attempt < Attempts)
      <3>1. call' = NextFamily(call.at, Merge(call.found, call.kept))
        BY <1>4, <2>1, <2>3 DEF Done
      <3>2. call.found \in Readings /\ call.kept \in Readings
        BY <2>1 DEF ReadingCalls
      <3>3. Merge(call.found, call.kept) \in Readings
        BY <3>2, MergeIs
      <3>4. call.changed \/ {i \in OfFamily(call.family) : Open(i)} \subseteq DOMAIN call.kept
        BY <1>4 DEF Done
      <3> QED
        BY <2>1, <3>1, <3>3, <3>4, NextFamilyIs DEF Finishes
    <2> QED
      BY <2>2, <2>3
  <1>5. ASSUME ScanProcess PROVE Looks
    <2> DEFINE p == Min(call.left)
               owned == Owners(call.owner, p, DOMAIN call.found)
    <2>1. call.at = "scan" /\ call \in ScanningCalls /\ call.left # {}
          /\ Still /\ result' = result
      BY <1>5, CallAt DEF ScanProcess, Still, kernel
    <2>2. p \in Pids
      <3>1. call.left \subseteq Pids /\ Pids \subseteq Nat
        BY <2>1, SocketsAssumption DEF ScanningCalls
      <3>2. p \in call.left
        BY <2>1, <3>1, Smallest
      <3> QED
        BY <3>1, <3>2
    <2>3. owned \in Ownings
      <3> DEFINE all == DOMAIN call.owner \cup (holds[p] \cap DOMAIN call.found)
      <3>1. call.owner \in Ownings /\ call.found \in Readings
        BY <2>1 DEF ScanningCalls
      <3>2. all \in SUBSET Inodes
        BY <3>1, OwningsAre, ReadingsAre
      <3>3. owned \in [all -> Pids]
        BY <2>2, <3>1, OwningsAre DEF Owners
      <3> QED
        BY <3>2, <3>3, OwningsAre
    <2>4. call' = IF p \in Denied THEN [call EXCEPT !.left = call.left \ {p}, !.denied = TRUE]
                  ELSE [call EXCEPT !.left = call.left \ {p}, !.owner = owned]
      BY <1>5 DEF ScanProcess
    <2> HIDE DEF p, owned
    <2>5. CASE p \in Denied
      <3>1. /\ call' \in ScanningCalls /\ call'.left = call.left \ {p}
            /\ call'.denied = TRUE /\ call'.owner = call.owner
            /\ \A field \in {"at", "kind", "found", "lossy"} : call'[field] = call[field]
        BY <2>1, <2>4, <2>5 DEF ScanningCalls
      <3> QED
        BY <2>1, <2>5, <3>1 DEF Looks, p
    <2>6. CASE p \notin Denied
      <3>1. /\ call' \in ScanningCalls /\ call'.left = call.left \ {p}
            /\ call'.denied = call.denied /\ call'.owner = owned
            /\ \A field \in {"at", "kind", "found", "lossy"} : call'[field] = call[field]
        BY <2>1, <2>3, <2>4, <2>6 DEF ScanningCalls
      <3> QED
        BY <2>1, <2>6, <3>1 DEF Looks, p, owned
    <2> QED
      BY <2>5, <2>6
  <1> QED
    BY <1>1, <1>2, <1>3, <1>4, <1>5 DEF SocketsNext, Ends

\* The machine's steps leave the call where it is.
LEMMA MachineSteps ==
  ASSUME SocketsType
  PROVE  /\ \A i \in Inodes : Carry(i) => Meanwhile /\ UNCHANGED <<holds, call, held, moved>>
         /\ \A p \in Pids, i \in Inodes : Take(p, i) \/ Drop(p, i) => Moves(i)
  <1>1. ASSUME NEW i \in Inodes, Carry(i)
        PROVE  Meanwhile /\ UNCHANGED <<holds, call, held, moved>>
    BY <1>1 DEF Carry, Meanwhile, SocketsType
  <1>2. ASSUME NEW p \in Pids, NEW i \in Inodes, Take(p, i) \/ Drop(p, i)
        PROVE  Moves(i)
    <2>1. call' = IF call.at = "traffic" THEN [call EXCEPT !.changed = TRUE] ELSE call
      BY <1>2 DEF Take, Drop
    <2>2. /\ result' = result /\ began' = began
          /\ call = Idle => moved' = moved /\ held' = held
          /\ call # Idle => moved' = moved \cup {i}
      BY <1>2 DEF Take, Drop
    <2>3. CASE call.at = "traffic"
      <3>1. call \in ReadingCalls /\ call # Idle
        BY <2>3, CallAt DEF Idle
      <3>2. /\ call' \in ReadingCalls /\ call'.changed = TRUE
            /\ \A field \in {"at", "family", "found", "kept", "lossy"} :
                  call'[field] = call[field]
        BY <2>1, <2>3, <3>1 DEF ReadingCalls
      <3>3. call' # Idle
        BY <2>3, <3>2 DEF Idle
      <3> QED
        BY <2>2, <2>3, <3>1, <3>2, <3>3 DEF Meanwhile, Moves
    <2>4. CASE call.at # "traffic"
      BY <2>1, <2>2, <2>4 DEF Meanwhile, Moves, SocketsType
    <2> QED
      BY <2>3, <2>4
  <1> QED
    BY <1>1, <1>2

LEMMA SocketsTypeStep ==
  SocketsType /\ [SocketsNext]_socketVars => SocketsType'
  <1> SUFFICES ASSUME SocketsType, [SocketsNext]_socketVars PROVE SocketsType'
    OBVIOUS
  <1> DEFINE Machine == /\ bytes \in [Inodes -> Nat \cup {-1}]
                        /\ holds \in [Pids -> SUBSET Inodes]
                        /\ \A p \in Pids : \A i \in holds[p] : bytes[i] \in Nat
  <1>1. ASSUME UNCHANGED <<bytes, holds>>,
               call' \in ReadingCalls \cup ScanningCalls, result' = Nothing
        PROVE  SocketsType'
    BY <1>1 DEF SocketsType
  <1>2. ASSUME NEW kind \in {"listeners", "traffic"}, Starts(kind) PROVE SocketsType'
    BY <1>1, <1>2 DEF Starts
  <1>3. ASSUME call # Idle, result' = result, Still,
               call' \in ReadingCalls \cup ScanningCalls
        PROVE  SocketsType'
    BY <1>1, <1>3 DEF SocketsType, Still
  <1>4. CASE ReadsTable
    BY <1>3, <1>4 DEF ReadsTable, Idle, Continues, Searches
  <1>5. CASE Finishes
    BY <1>3, <1>5 DEF Finishes, Idle, Continues, Searches
  <1>6. CASE Repeats
    BY <1>3, <1>6 DEF Repeats, Idle
  <1>7. CASE Looks
    BY <1>3, <1>7 DEF Looks, Idle
  <1>8. ASSUME NEW i \in Inodes, Hears(i) PROVE SocketsType'
    BY <1>3, <1>8 DEF Hears, Idle
  <1>9. CASE Ends
    BY <1>9 DEF Ends, Fail, Finish, kernel, SocketsType
  <1>10. ASSUME Meanwhile, Machine' PROVE SocketsType'
    BY <1>10 DEF Meanwhile, SocketsType
  <1>11. ASSUME NEW i \in Inodes, Carry(i) PROVE SocketsType'
    <2>1. bytes' = [bytes EXCEPT ![i] = bytes[i] + 1] /\ holds' = holds
      BY <1>11 DEF Carry
    <2>2. bytes[i] \in Nat
      BY <1>11 DEF Carry, Open, SocketsType
    <2>3. Machine'
      BY <2>1, <2>2 DEF SocketsType
    <2> QED
      BY <1>10, <1>11, <2>3, MachineSteps
  <1>12. ASSUME NEW p \in Pids, NEW i \in Inodes, Take(p, i) PROVE SocketsType'
    <2>1. /\ holds' = [holds EXCEPT ![p] = holds[p] \cup {i}]
          /\ bytes' = [bytes EXCEPT ![i] = IF Open(i) THEN bytes[i] ELSE 0]
      BY <1>12 DEF Take
    <2>2. (IF Open(i) THEN bytes[i] ELSE 0) \in Nat
      BY DEF Open, SocketsType
    <2>3. Machine'
      BY <2>1, <2>2 DEF SocketsType
    <2> QED
      BY <1>10, <1>12, <2>3, MachineSteps DEF Moves
  <1>13. ASSUME NEW p \in Pids, NEW i \in Inodes, Drop(p, i) PROVE SocketsType'
    <2>1. holds' = [holds EXCEPT ![p] = holds[p] \ {i}] /\ bytes' = bytes
      BY <1>13 DEF Drop
    <2>2. Machine'
      BY <2>1 DEF SocketsType
    <2> QED
      BY <1>10, <1>13, <2>2, MachineSteps DEF Moves
  <1>14. CASE UNCHANGED socketVars
    BY <1>14 DEF socketVars, SocketsType
  <1> QED
    BY <1>2, <1>4, <1>5, <1>6, <1>7, <1>8, <1>9, <1>11, <1>12, <1>13, <1>14, CallSteps

LEMMA SocketsTypeInit == SocketsInit => SocketsType
  BY DEF SocketsInit, SocketsType, Open

-----------------------------------------------------------------------------
(* The inductive invariant of a call.                                      *)

\* What is known of the machine since the call began.
Watched ==
  /\ began.bytes \in [Inodes -> Nat \cup {-1}] /\ began.holds \in [Pids -> SUBSET Inodes]
  /\ held \subseteq Pids \X Inodes
  /\ \A p \in Pids, i \in Inodes :
       /\ i \in holds[p] \/ i \in began.holds[p] => <<p, i>> \in held
       /\ i \notin moved => (i \in holds[p] <=> i \in began.holds[p])
       /\ i \in began.holds[p] => began.bytes[i] \in Nat
       /\ <<p, i>> \in held => bytes[i] \in Nat
  /\ \A i \in Inodes : began.bytes[i] <= bytes[i]

\* What was read of a socket is what it had carried at some time of the call.
Seen(f) ==
  \A i \in DOMAIN f : /\ \E p \in Pids : <<p, i>> \in held
                      /\ began.bytes[i] <= f[i] /\ f[i] <= bytes[i]

TrulyRead ==
  /\ call.at = "traffic" => Seen(call.kept) /\ Seen(call.found)
  /\ call.at = "scan" => (call.kind = "traffic" => Seen(call.found))

\* What stayed put was found, or the answer says that it may lack something.
CompletelyRead ==
  /\ call.at = "listeners" => ~call.changed
  /\ call.at \in {"listeners", "traffic"} => (call.family = "v6" =>
       \A i \in Stable \ V6 : i \in DOMAIN call.found \/ call.lossy)
  /\ call.at = "scan" => \A i \in Stable : i \in DOMAIN call.found \/ call.lossy

\* Of the processes looked into so far, the first that holds a socket owns it.
Owned ==
  /\ \A p \in call.left, q \in Pids \ call.left : q < p
  /\ Denied \ call.left # {} => call.denied
  /\ \A i \in DOMAIN call.owner :
       /\ i \in DOMAIN call.found
       /\ call.owner[i] \in (Pids \ Denied) \ call.left
       /\ <<call.owner[i], i>> \in held
  /\ \A i \in Stable \cap DOMAIN call.found :
       /\ i \in DOMAIN call.owner => call.owner[i] \in Readable(i)
       /\ \A q \in Readable(i) \ call.left : i \in DOMAIN call.owner /\ call.owner[i] <= q

CallInv ==
  call # Idle => Watched /\ TrulyRead /\ CompletelyRead /\ (call.at = "scan" => Owned)

\* Whatever the machine does, what was true of the past stays so.
Grows ==
  /\ began' = began /\ held \subseteq held' /\ moved \subseteq moved'
  /\ \A i \in Inodes : bytes[i] <= bytes'[i]

LEMMA MachineGrows ==
  ASSUME SocketsType, SocketsType', Watched, call # Idle,
         \/ \E i \in Inodes : Carry(i)
         \/ \E p \in Pids, i \in Inodes : Take(p, i) \/ Drop(p, i)
  PROVE  Watched' /\ Grows /\ Meanwhile /\ call' # Idle
  <1>1. ASSUME NEW i \in Inodes, Carry(i)
        PROVE  Watched' /\ Grows /\ Meanwhile /\ call' # Idle
    <2>1. Meanwhile /\ UNCHANGED <<holds, call, held, moved>> /\ began' = began
      BY <1>1, MachineSteps DEF Meanwhile
    <2>2. bytes' = [bytes EXCEPT ![i] = bytes[i] + 1] /\ bytes[i] \in Nat
      BY <1>1 DEF Carry, Open, SocketsType
    <2>3. \A j \in Inodes : bytes[j] <= bytes'[j] /\ (bytes[j] \in Nat => bytes'[j] \in Nat)
      BY <2>2 DEF SocketsType
    <2>4. Grows
      BY <2>1, <2>3 DEF Grows
    <2>5. \A j \in Inodes : began.bytes[j] <= bytes'[j]
      <3>1. ASSUME NEW j \in Inodes PROVE began.bytes[j] <= bytes'[j]
        <4>1. /\ bytes[j] \in Int /\ bytes'[j] \in Int /\ began.bytes[j] \in Int
              /\ began.bytes[j] <= bytes[j] /\ bytes[j] <= bytes'[j]
          BY <2>3 DEF Watched, SocketsType
        <4> QED
          BY <4>1
      <3> QED
        BY <3>1
    <2> QED
      BY <2>1, <2>3, <2>4, <2>5 DEF Watched
  <1>2. ASSUME NEW p \in Pids, NEW i \in Inodes, Take(p, i)
        PROVE  Watched' /\ Grows /\ Meanwhile /\ call' # Idle
    <2>1. /\ Meanwhile /\ moved' = moved \cup {i} /\ began' = began /\ call' # Idle
          /\ held' = held \cup {<<p, i>>}
      BY <1>2, MachineSteps DEF Moves, Meanwhile, Take
    <2>2. /\ bytes' = [bytes EXCEPT ![i] = IF Open(i) THEN bytes[i] ELSE 0]
          /\ Open(i) \/ bytes[i] = -1
          /\ holds' = [holds EXCEPT ![p] = holds[p] \cup {i}]
      BY <1>2 DEF Take
    <2>3. Open(i) => bytes[i] \in Nat
      BY DEF Open, SocketsType
    <2>4. /\ \A j \in Inodes : bytes[j] <= bytes'[j] /\ (bytes[j] \in Nat => bytes'[j] \in Nat)
          /\ bytes'[i] \in Nat
      BY <2>2, <2>3 DEF SocketsType
    <2>5. Grows
      BY <2>1, <2>4 DEF Grows
    <2>6. \A j \in Inodes : began.bytes[j] <= bytes'[j]
      <3>1. ASSUME NEW j \in Inodes PROVE began.bytes[j] <= bytes'[j]
        <4>1. /\ bytes[j] \in Int /\ bytes'[j] \in Int /\ began.bytes[j] \in Int
              /\ began.bytes[j] <= bytes[j] /\ bytes[j] <= bytes'[j]
          BY <2>4 DEF Watched, SocketsType
        <4> QED
          BY <4>1
      <3> QED
        BY <3>1
    <2>7. \A q \in Pids, j \in Inodes :
            j \in holds'[q] => j \in holds[q] \/ (q = p /\ j = i)
      BY <2>2 DEF SocketsType
    <2>8. \A q \in Pids, j \in Inodes : j # i => (j \in holds'[q] <=> j \in holds[q])
      BY <2>2 DEF SocketsType
    <2>9. ASSUME NEW q \in Pids, NEW j \in Inodes
          PROVE  /\ j \in holds'[q] \/ j \in began.holds[q] => <<q, j>> \in held'
                 /\ j \notin moved' => (j \in holds'[q] <=> j \in began.holds[q])
                 /\ <<q, j>> \in held' => bytes'[j] \in Nat
      <3>1. <<q, j>> = <<p, i>> => q = p /\ j = i
        OBVIOUS
      <3> QED
        BY <2>1, <2>4, <2>7, <2>8, <3>1 DEF Watched
    <2>10. held' \subseteq Pids \X Inodes
      BY <2>1 DEF Watched
    <2> QED
      BY <2>1, <2>5, <2>6, <2>9, <2>10 DEF Watched
  <1>3. ASSUME NEW p \in Pids, NEW i \in Inodes, Drop(p, i)
        PROVE  Watched' /\ Grows /\ Meanwhile /\ call' # Idle
    <2>1. Meanwhile /\ moved' = moved \cup {i} /\ UNCHANGED <<bytes, began, held>> /\ call' # Idle
      BY <1>3, MachineSteps DEF Moves, Meanwhile, Drop
    <2>2. holds' = [holds EXCEPT ![p] = holds[p] \ {i}]
      BY <1>3 DEF Drop
    <2>3. \A q \in Pids, j \in Inodes : /\ j \in holds'[q] => j \in holds[q]
                                        /\ j # i => (j \in holds'[q] <=> j \in holds[q])
      BY <2>2 DEF SocketsType
    <2>4. \A j \in Inodes : bytes[j] <= bytes'[j]
      BY <2>1 DEF SocketsType
    <2> QED
      BY <2>1, <2>3, <2>4 DEF Watched, Grows
  <1> QED
    BY <1>1, <1>2, <1>3

\* Nobody touched a stable socket: it is open.
LEMMA StableOpen ==
  ASSUME SocketsType, Watched, NEW i \in Stable
  PROVE  i \in Inodes /\ Open(i)
  BY DEF Stable, Open, Watched

LEMMA StartsInv ==
  ASSUME SocketsType, NEW kind \in {"listeners", "traffic"}, Starts(kind)
  PROVE  CallInv'
  <1>1. /\ began'.bytes = bytes /\ began'.holds = holds
        /\ bytes' = bytes /\ holds' = holds /\ moved' = {}
        /\ held' = {pair \in Pids \X Inodes : pair[2] \in holds[pair[1]]}
    BY DEF Starts
  <1>2. /\ held' \subseteq Pids \X Inodes
        /\ \A p \in Pids, i \in Inodes : <<p, i>> \in held' <=> i \in holds[p]
    BY <1>1
  <1>3. \A i \in Inodes : bytes[i] <= bytes[i]
    BY DEF SocketsType
  <1>4. Watched'
    BY <1>1, <1>2, <1>3 DEF Watched, SocketsType
  <1>5. /\ call'.at = kind /\ call'.family = "v4" /\ call'.changed = FALSE
        /\ DOMAIN call'.found = {} /\ DOMAIN call'.kept = {}
    BY ReadingsAre DEF Starts
  <1>6. TrulyRead' /\ CompletelyRead' /\ call'.at # "scan"
    BY <1>5 DEF TrulyRead, CompletelyRead, Seen
  <1> QED
    BY <1>4, <1>6 DEF CallInv

\* What a table read in full adds.
LEMMA ReadInFull ==
  ASSUME SocketsType, Watched, CompletelyRead, Still, call.at \in {"listeners", "traffic"},
         NEW f \in Readings,
         call.changed \/ {i \in OfFamily(call.family) : Open(i)} \subseteq DOMAIN f,
         Continues(call', Merge(call.found, f)) \/ Searches(call', Merge(call.found, f))
  PROVE  CompletelyRead'
  <1>1. Stable' = Stable
    BY DEF Still, Stable
  <1>2. call.found \in Readings /\ call.changed \in BOOLEAN /\ call.lossy \in BOOLEAN
    BY CallAt DEF ReadingCalls
  <1>3. DOMAIN Merge(call.found, f) = DOMAIN call.found \cup DOMAIN f
    BY <1>2, MergeIs
  <1>4. call.family \in {"v4", "v6"} /\ (call.at = "listeners" => ~call.changed)
    BY CallAt DEF ReadingCalls, CompletelyRead
  <1>5. CASE Continues(call', Merge(call.found, f))
    <2>1. /\ call.family = "v4" /\ call'.at = call.at /\ call'.family = "v6"
          /\ DOMAIN call'.found = DOMAIN call.found \cup DOMAIN f
          /\ call'.lossy = call.changed /\ call'.changed = FALSE
      BY <1>3, <1>5 DEF Continues
    <2>2. ASSUME NEW i \in Stable \ V6 PROVE i \in DOMAIN call'.found \/ call'.lossy
      <3>1. i \in OfFamily(call.family) /\ Open(i)
        BY <2>1, StableOpen DEF OfFamily
      <3> QED
        BY <2>1, <3>1
    <2> QED
      BY <1>1, <1>4, <2>1, <2>2 DEF CompletelyRead
  <1>6. CASE Searches(call', Merge(call.found, f))
    <2>1. /\ call.family = "v6" /\ call'.at = "scan"
          /\ DOMAIN call'.found = DOMAIN call.found \cup DOMAIN f
          /\ call'.lossy = (call.lossy \/ call.changed)
      BY <1>3, <1>6 DEF Searches
    <2>2. ASSUME NEW i \in Stable PROVE i \in DOMAIN call'.found \/ call'.lossy
      <3>1. Open(i) /\ (i \in V6 => i \in OfFamily(call.family))
        BY <2>1, StableOpen DEF OfFamily
      <3>2. i \notin V6 => i \in DOMAIN call.found \/ call.lossy
        BY <2>1 DEF CompletelyRead
      <3> QED
        BY <2>1, <3>1, <3>2
    <2> QED
      BY <1>1, <2>1, <2>2 DEF CompletelyRead
  <1> QED
    BY <1>5, <1>6

\* Nobody has been looked into when the search begins.
LEMMA SearchBegins ==
  ASSUME NEW f, Searches(call', f), held' = held
  PROVE  Owned'
  <1>1. call'.left = Pids /\ DOMAIN call'.owner = {}
    BY ReadingsAre DEF Searches
  <1>2. \A i : Readable(i)' \subseteq Pids
    BY DEF Readable
  <1> QED
    BY <1>1, <1>2, SocketsAssumption DEF Owned

LEMMA ReadsTableInv ==
  ASSUME SocketsType, CallInv, ReadsTable
  PROVE  CallInv'
  <1>1. /\ call.at = "listeners" /\ call # Idle /\ Still
        /\ Watched /\ CompletelyRead
    BY DEF ReadsTable, Idle, CallInv
  <1>2. Watched'
    BY <1>1 DEF Still, Watched
  <1>3. Dumped \in Readings /\ {i \in OfFamily(call.family) : Open(i)} \subseteq DOMAIN Dumped
    <2>1. {j \in OfFamily(call.family) : Open(j)} \in SUBSET Inodes
      BY SocketsAssumption DEF OfFamily
    <2>2. Dumped \in [{j \in OfFamily(call.family) : Open(j)} -> Nat]
      BY DEF Dumped
    <2> QED
      BY <2>1, <2>2, ReadingsAre
  <1>4. \/ Continues(call', Merge(call.found, Dumped))
        \/ Searches(call', Merge(call.found, Dumped))
    BY DEF ReadsTable
  <1>5. CompletelyRead'
    BY <1>1, <1>3, <1>4, ReadInFull
  <1>6. call'.at = "scan" => Owned'
    BY <1>1, <1>4, SearchBegins DEF Continues, Still
  <1>7. TrulyRead'
    BY <1>1, <1>4 DEF TrulyRead, Continues, Searches
  <1> QED
    BY <1>2, <1>5, <1>6, <1>7 DEF CallInv

LEMMA SeenMerge ==
  ASSUME NEW f \in Readings, NEW g \in Readings, Seen(f), Seen(g)
  PROVE  Seen(Merge(f, g))
  <1> DEFINE all == Merge(f, g)
  <1>1. ASSUME NEW i \in DOMAIN all
        PROVE  /\ \E p \in Pids : <<p, i>> \in held
               /\ began.bytes[i] <= all[i] /\ all[i] <= bytes[i]
    <2>1. all[i] = IF i \in DOMAIN g THEN g[i] ELSE f[i]
      BY <1>1 DEF Merge
    <2>2. i \in DOMAIN f \cup DOMAIN g
      BY <1>1, MergeIs
    <2> HIDE DEF all
    <2>3. CASE i \in DOMAIN g
      BY <2>1, <2>3 DEF Seen
    <2>4. CASE i \notin DOMAIN g
      BY <2>1, <2>2, <2>4 DEF Seen
    <2> QED
      BY <2>3, <2>4
  <1> QED
    BY <1>1 DEF Seen

LEMMA FinishesInv ==
  ASSUME SocketsType, CallInv, Finishes
  PROVE  CallInv'
  <1>1. /\ call.at = "traffic" /\ call # Idle /\ Still
        /\ Watched /\ CompletelyRead /\ Seen(call.found) /\ Seen(call.kept)
    BY DEF Finishes, Idle, CallInv, TrulyRead
  <1>2. Watched'
    BY <1>1 DEF Still, Watched
  <1>3. call.found \in Readings /\ call.kept \in Readings
    BY <1>1, CallAt DEF ReadingCalls
  <1> DEFINE all == Merge(call.found, call.kept)
  <1>4. Continues(call', all) \/ Searches(call', all)
    BY DEF Finishes
  <1>5. CompletelyRead'
    BY <1>1, <1>3, <1>4, ReadInFull DEF Finishes
  <1>6. Seen(all)
    BY <1>1, <1>3, SeenMerge
  <1> HIDE DEF all
  <1>7. call'.at = "scan" => Owned'
    BY <1>1, <1>4, SearchBegins DEF Continues, Still
  <1>8. TrulyRead'
    <2>1. /\ call'.found = all
          /\ call'.at = "traffic" => DOMAIN call'.kept = {}
      BY <1>4, ReadingsAre DEF Continues, Searches
    <2>2. Seen(call.found)' /\ (call'.at = "traffic" => Seen(call.kept)')
      BY <1>1, <1>6, <2>1 DEF Seen, Still
    <2> QED
      BY <2>2 DEF TrulyRead
  <1> QED
    BY <1>2, <1>5, <1>7, <1>8 DEF CallInv

LEMMA HearsInv ==
  ASSUME SocketsType, CallInv, NEW i \in Inodes, Hears(i)
  PROVE  CallInv'
  <1>1. /\ call.at = "traffic" /\ call # Idle /\ Still
        /\ Watched /\ CompletelyRead /\ Seen(call.found) /\ Seen(call.kept)
    BY DEF Hears, Idle, CallInv, TrulyRead
  <1>2. Watched'
    BY <1>1 DEF Still, Watched
  <1> DEFINE heard == [j \in {i} |-> bytes[i]]
  <1>3. call.kept \in Readings /\ heard \in Readings
    <2>1. bytes[i] \in Nat
      BY DEF Hears, Open, SocketsType
    <2>2. {i} \in SUBSET Inodes /\ heard \in [{i} -> Nat]
      BY <2>1
    <2> QED
      BY <1>1, <2>2, CallAt, ReadingsAre DEF ReadingCalls
  <1>4. Seen(heard)
    <2>1. \E p \in Pids : <<p, i>> \in held
      BY <1>1 DEF Hears, Open, Watched
    <2>2. began.bytes[i] <= bytes[i] /\ bytes[i] <= bytes[i]
      BY <1>1 DEF Watched, SocketsType
    <2> QED
      BY <2>1, <2>2 DEF Seen
  <1>5. call'.kept = Merge(call.kept, heard)
    BY DEF Hears
  <1> HIDE DEF heard
  <1>6. Seen(call'.kept)
    BY <1>1, <1>3, <1>4, <1>5, SeenMerge
  <1>7. /\ call'.at = call.at /\ call'.family = call.family /\ call'.found = call.found
        /\ call'.lossy = call.lossy
    BY DEF Hears
  <1>8. TrulyRead' /\ CompletelyRead' /\ call'.at # "scan"
    BY <1>1, <1>6, <1>7 DEF TrulyRead, CompletelyRead, Seen, Stable, Still
  <1> QED
    BY <1>2, <1>8 DEF CallInv

LEMMA RepeatsInv ==
  ASSUME SocketsType, CallInv, Repeats
  PROVE  CallInv'
  <1>1. /\ call.at = "traffic" /\ call # Idle /\ Still
        /\ Watched /\ CompletelyRead /\ Seen(call.found)
    BY DEF Repeats, Idle, CallInv, TrulyRead
  <1>2. Watched'
    BY <1>1 DEF Still, Watched
  <1>3. /\ call'.at = call.at /\ call'.family = call.family /\ call'.found = call.found
        /\ call'.lossy = call.lossy /\ DOMAIN call'.kept = {}
    BY ReadingsAre DEF Repeats
  <1>4. TrulyRead' /\ CompletelyRead' /\ call'.at # "scan"
    BY <1>1, <1>3 DEF TrulyRead, CompletelyRead, Seen, Stable, Still
  <1> QED
    BY <1>2, <1>4 DEF CallInv

LEMMA LooksInv ==
  ASSUME SocketsType, CallInv, Looks
  PROVE  CallInv'
  <1>1. /\ call.at = "scan" /\ call # Idle /\ Still /\ call \in ScanningCalls
        /\ Watched /\ CompletelyRead /\ TrulyRead /\ Owned
    BY CallAt DEF Looks, Idle, CallInv
  <1>2. Watched' /\ Stable' = Stable /\ \A i : Readable(i)' = Readable(i)
    BY <1>1 DEF Still, Watched, Stable, Readable
  <1>3. /\ call'.at = "scan" /\ call'.kind = call.kind
        /\ call'.found = call.found /\ call'.lossy = call.lossy
    BY <1>1 DEF Looks
  <1>4. TrulyRead' /\ CompletelyRead'
    BY <1>1, <1>2, <1>3 DEF TrulyRead, CompletelyRead, Seen, Still
  <1> DEFINE p == Min(call.left)
  <1>5. /\ p \in call.left /\ \A q \in call.left : p <= q
        /\ call.left \subseteq Pids /\ Pids \subseteq Nat
    <2>1. call.left \subseteq Pids /\ call.left # {}
      BY <1>1 DEF Looks, ScanningCalls
    <2>2. call.left \in SUBSET Nat
      BY <2>1, SocketsAssumption
    <2> QED
      BY <2>1, <2>2, Smallest, SocketsAssumption
  <1>6. call'.left = call.left \ {p}
    BY DEF Looks
  <1>7. \/ p \in Denied /\ call'.denied = TRUE /\ call'.owner = call.owner
        \/ /\ p \notin Denied /\ call'.denied = call.denied
           /\ call'.owner = Owners(call.owner, p, DOMAIN call.found)
    BY DEF Looks
  <1> HIDE DEF p
  <1>8. \A q \in call'.left, r \in Pids \ call'.left : r < q
    <2>1. ASSUME NEW q \in call'.left, NEW r \in Pids \ call'.left PROVE r < q
      <3>1. q \in call.left /\ q # p /\ p <= q /\ p \in Nat /\ q \in Nat /\ r \in Nat
        BY <1>5, <1>6, <2>1
      <3>2. r = p \/ r \in Pids \ call.left
        BY <1>6, <2>1
      <3>3. r = p \/ r < q
        BY <1>1, <3>1, <3>2 DEF Owned
      <3> QED
        BY <3>1, <3>3
    <2> QED
      BY <2>1
  <1>9. Denied \ call'.left # {} => call'.denied
    BY <1>1, <1>5, <1>6, <1>7 DEF Owned
  <1>10. CASE p \in Denied
    <2>1. \A i : Readable(i) \ call'.left = Readable(i) \ call.left
      BY <1>5, <1>6, <1>10 DEF Readable
    <2>2. call'.owner = call.owner
      BY <1>7, <1>10
    <2>3. Owned'
      BY <1>1, <1>2, <1>3, <1>6, <1>8, <1>9, <2>1, <2>2 DEF Owned, Still
    <2> QED
      BY <1>2, <1>4, <2>3 DEF CallInv
  <1>11. CASE p \notin Denied
    <2> DEFINE owned == call'.owner
               new == holds[p] \cap DOMAIN call.found
    <2>1. /\ DOMAIN owned = DOMAIN call.owner \cup new
          /\ \A i \in DOMAIN owned :
               owned[i] = IF i \in DOMAIN call.owner THEN call.owner[i] ELSE p
      BY <1>7, <1>11 DEF Owners
    <2>2. ASSUME NEW i \in DOMAIN owned
          PROVE  /\ i \in DOMAIN call.found
                 /\ owned[i] \in (Pids \ Denied) \ call'.left
                 /\ <<owned[i], i>> \in held
      <3>1. CASE i \in DOMAIN call.owner
        BY <1>1, <1>6, <2>1, <2>2, <3>1 DEF Owned
      <3>2. CASE i \notin DOMAIN call.owner
        <4>1. owned[i] = p /\ i \in holds[p] /\ i \in DOMAIN call.found
          BY <2>1, <2>2, <3>2
        <4>2. i \in Inodes /\ p \in Pids
          BY <1>5, <4>1 DEF SocketsType
        <4>3. <<p, i>> \in held
          BY <1>1, <4>1, <4>2 DEF Watched
        <4> QED
          BY <1>5, <1>6, <1>11, <4>1, <4>2, <4>3
      <3> QED
        BY <3>1, <3>2
    <2>3. ASSUME NEW i \in Stable \cap DOMAIN call.found
          PROVE  /\ i \in DOMAIN owned => owned[i] \in Readable(i)
                 /\ \A q \in Readable(i) \ call'.left : i \in DOMAIN owned /\ owned[i] <= q
      <3>1. i \in Inodes /\ i \notin moved /\ p \in Pids
        BY <1>5, <2>3 DEF Stable
      <3>2. i \in holds[p] <=> i \in began.holds[p]
        BY <1>1, <3>1 DEF Watched
      <3>3. p \in Readable(i) <=> i \in holds[p]
        BY <1>11, <3>1, <3>2 DEF Readable
      <3>4. i \in DOMAIN owned => owned[i] \in Readable(i)
        <4>1. CASE i \in DOMAIN call.owner
          BY <1>1, <2>1, <2>3, <4>1 DEF Owned
        <4>2. CASE i \notin DOMAIN call.owner
          BY <2>1, <3>3, <4>2
        <4> QED
          BY <4>1, <4>2
      <3>5. ASSUME NEW q \in Readable(i) \ call'.left
            PROVE  i \in DOMAIN owned /\ owned[i] <= q
        <4>1. q = p \/ q \in Readable(i) \ call.left
          BY <1>6, <3>5
        <4>2. CASE q \in Readable(i) \ call.left
          <5>1. i \in DOMAIN call.owner /\ call.owner[i] <= q
            BY <1>1, <2>3, <4>2 DEF Owned
          <5> QED
            BY <2>1, <5>1
        <4>3. CASE q = p
          <5>1. i \in DOMAIN owned
            BY <2>1, <2>3, <3>3, <3>5, <4>3
          <5>2. CASE i \in DOMAIN call.owner
            <6>1. call.owner[i] \in Pids \ call.left
              BY <1>1, <5>2 DEF Owned
            <6>2. call.owner[i] < p /\ call.owner[i] \in Nat /\ p \in Nat
              BY <1>1, <1>5, <6>1 DEF Owned
            <6>3. owned[i] = call.owner[i]
              BY <2>1, <5>1, <5>2
            <6> QED
              BY <4>3, <5>1, <6>2, <6>3
          <5>3. CASE i \notin DOMAIN call.owner
            <6>1. owned[i] = p /\ p \in Nat
              BY <1>5, <2>1, <5>1, <5>3
            <6> QED
              BY <4>3, <5>1, <6>1
          <5> QED
            BY <5>2, <5>3
        <4> QED
          BY <4>1, <4>2, <4>3
      <3> QED
        BY <3>4, <3>5
    <2> HIDE DEF owned
    <2>4. held' = held
      BY <1>1 DEF Still
    <2>5. Owned'
      BY <1>2, <1>3, <1>8, <1>9, <2>2, <2>3, <2>4 DEF Owned, owned
    <2> QED
      BY <1>2, <1>4, <2>5 DEF CallInv
  <1> QED
    BY <1>10, <1>11

LEMMA MeanwhileInv ==
  ASSUME SocketsType, SocketsType', CallInv,
         \/ \E i \in Inodes : Carry(i)
         \/ \E p \in Pids, i \in Inodes : Take(p, i) \/ Drop(p, i)
  PROVE  CallInv'
  <1>1. CASE call = Idle
    <2>1. Meanwhile
      BY MachineSteps DEF Moves
    <2> QED
      BY <1>1, <2>1 DEF Meanwhile, CallInv
  <1>2. CASE call # Idle
    <2>1. Watched /\ TrulyRead /\ CompletelyRead /\ (call.at = "scan" => Owned)
      BY <1>2 DEF CallInv
    <2>2. Watched' /\ Grows /\ Meanwhile
      BY <1>2, <2>1, MachineGrows
    <2>3. /\ call'.at = call.at
          /\ call.at = "scan" => call' = call
          /\ call.at = "listeners" => call' = call
          /\ call.at = "traffic" =>
               /\ call'.found = call.found /\ call'.kept = call.kept
               /\ call'.family = call.family /\ call'.lossy = call.lossy
      BY <2>2 DEF Meanwhile
    <2>4. /\ Stable' \subseteq Stable /\ \A i : Readable(i)' = Readable(i)
          /\ held \subseteq held'
      BY <2>2 DEF Grows, Stable, Readable
    <2>5. ASSUME NEW f \in Readings, Seen(f) PROVE Seen(f)'
      <3>1. ASSUME NEW i \in DOMAIN f
            PROVE  began'.bytes[i] <= f[i] /\ f[i] <= bytes'[i]
        <4>1. i \in Inodes /\ f[i] \in Nat
          BY <2>5, <3>1, ReadingsAre
        <4>2. began.bytes[i] <= f[i] /\ f[i] <= bytes[i] /\ bytes[i] <= bytes'[i]
              /\ began' = began
          BY <2>2, <2>5, <3>1, <4>1 DEF Seen, Grows
        <4>3. bytes[i] \in Int /\ bytes'[i] \in Int
          BY <4>1 DEF SocketsType
        <4> QED
          BY <4>1, <4>2, <4>3
      <3> QED
        BY <2>4, <2>5, <3>1 DEF Seen
    <2>6. TrulyRead'
      <3>1. /\ call.at = "traffic" => call.kept \in Readings /\ call.found \in Readings
            /\ call.at = "scan" => call.found \in Readings
        BY CallAt DEF ReadingCalls, ScanningCalls
      <3>2. ASSUME call.at = "traffic" PROVE Seen(call.kept)' /\ Seen(call.found)'
        <4>1. PICK f, g : f = call.kept /\ g = call.found
          OBVIOUS
        <4>2. f \in Readings /\ g \in Readings /\ Seen(f) /\ Seen(g)
          BY <2>1, <3>1, <3>2, <4>1 DEF TrulyRead
        <4>3. Seen(f)' /\ Seen(g)'
          BY <2>5, <4>2
        <4> QED
          BY <2>3, <3>2, <4>1, <4>3 DEF Seen
      <3>3. ASSUME call.at = "scan", call.kind = "traffic" PROVE Seen(call.found)'
        <4>1. PICK f : f = call.found
          OBVIOUS
        <4>2. f \in Readings /\ Seen(f)
          BY <2>1, <3>1, <3>3, <4>1 DEF TrulyRead
        <4>3. Seen(f)'
          BY <2>5, <4>2
        <4> QED
          BY <2>3, <3>3, <4>1, <4>3 DEF Seen
      <3> QED
        BY <2>3, <3>2, <3>3 DEF TrulyRead
    <2>7. CompletelyRead'
      BY <2>1, <2>3, <2>4 DEF CompletelyRead
    <2>8. call'.at = "scan" => Owned'
      BY <2>1, <2>3, <2>4 DEF Owned
    <2> QED
      BY <2>2, <2>6, <2>7, <2>8 DEF CallInv
  <1> QED
    BY <1>1, <1>2

LEMMA CallInvStep ==
  SocketsType /\ SocketsType' /\ CallInv /\ [SocketsNext]_socketVars => CallInv'
  <1> SUFFICES ASSUME SocketsType, SocketsType', CallInv, [SocketsNext]_socketVars
               PROVE  CallInv'
    OBVIOUS
  <1>1. CASE Ends
    <2>1. call' = Idle
      BY <1>1 DEF Ends, Fail, Finish
    <2> QED
      BY <2>1 DEF CallInv
  <1>2. CASE UNCHANGED socketVars
    BY <1>2 DEF socketVars, CallInv, Watched, TrulyRead, Seen, CompletelyRead, Stable,
                Owned, Readable
  <1> QED
    BY <1>1, <1>2, CallSteps, StartsInv, ReadsTableInv, FinishesInv, RepeatsInv, LooksInv,
       HearsInv, MeanwhileInv

-----------------------------------------------------------------------------
(* The answers.                                                            *)

\* The totals of some owners are the sum over their sockets.
LEMMA TotalsAre ==
  ASSUME NEW owner \in Ownings, NEW found \in Readings, DOMAIN owner \subseteq DOMAIN found
  PROVE  LET total == Totals(owner, found)
         IN  /\ DOMAIN total = {owner[i] : i \in DOMAIN owner}
             /\ \A p \in DOMAIN total :
                  total[p] = Sum({i \in DOMAIN owner : owner[i] = p}, found)
             /\ Sum(DOMAIN total, total) = Sum(DOMAIN owner, found)
  <1> DEFINE total == Totals(owner, found)
             of(Q) == {i \in DOMAIN owner : owner[i] \in Q}
             G == {Q \in SUBSET DOMAIN total : Sum(Q, total) = Sum(of(Q), found)}
  <1>1. /\ DOMAIN total = {owner[i] : i \in DOMAIN owner}
        /\ \A p \in DOMAIN total :
             total[p] = Sum({i \in DOMAIN owner : owner[i] = p}, found)
    BY DEF Totals
  <1> HIDE DEF total
  <1>2. /\ IsFiniteSet(DOMAIN owner) /\ IsFiniteSet(DOMAIN total)
        /\ \A i \in DOMAIN owner : found[i] \in Nat
    <2>1. DOMAIN owner \subseteq Inodes /\ DOMAIN total \subseteq Pids
      BY <1>1, OwningsAre
    <2> QED
      BY <2>1, FS_Subset, SocketsAssumption, ReadingsAre
  <1>3. /\ Sum({}, found) = 0
        /\ \A T \in SUBSET DOMAIN owner : Sum(T, found) \in Nat
    BY <1>2, SumRemove
  <1>4. \A p \in DOMAIN total : total[p] \in Nat
    BY <1>1, <1>3
  <1>5. /\ Sum({}, total) = 0
        /\ \A Q \in SUBSET DOMAIN total : \A p \in Q :
             Sum(Q, total) = total[p] + Sum(Q \ {p}, total)
    BY <1>2, <1>4, SumRemove
  <1>6. {} \in G
    <2>1. of({}) = {}
      OBVIOUS
    <2> QED
      BY <1>3, <1>5, <2>1
  <1>7. ASSUME NEW Q \in SUBSET DOMAIN total, Q # {}, \A p \in Q : Q \ {p} \in G PROVE Q \in G
    <2>1. PICK p \in Q : TRUE
      BY <1>7
    <2> DEFINE one == {i \in DOMAIN owner : owner[i] = p}
               rest == of(Q \ {p})
    <2>2. Sum(Q, total) = total[p] + Sum(Q \ {p}, total)
      BY <1>5, <2>1
    <2>3. total[p] = Sum(one, found) /\ Sum(Q \ {p}, total) = Sum(rest, found)
      BY <1>1, <1>7, <2>1
    <2>4. /\ of(Q) = one \cup rest /\ one \cap rest = {}
          /\ one \subseteq DOMAIN owner /\ rest \subseteq DOMAIN owner
      BY <2>1
    <2>5. Sum(one \cup rest, found) = Sum(one, found) + Sum(rest, found)
      <3>1. IsFiniteSet(one) /\ IsFiniteSet(rest) /\ \A i \in one \cup rest : found[i] \in Nat
        BY <1>2, <2>4, FS_Subset
      <3> HIDE DEF one, rest
      <3> QED
        BY <2>4, <3>1, SumApart
    <2>6. Sum(Q, total) = Sum(of(Q), found)
      BY <2>2, <2>3, <2>4, <2>5
    <2> QED
      BY <2>6
  <1>8. DOMAIN total \in G
    <2> DEFINE owners == DOMAIN total
    <2>1. IsFiniteSet(owners) /\ owners \in SUBSET owners
      BY <1>2
    <2>2. \A Q \in SUBSET owners : Q # {} /\ (\A p \in Q : Q \ {p} \in G) => Q \in G
      BY <1>7
    <2> HIDE DEF G, owners
    <2>3. owners \in G
      BY <1>6, <2>1, <2>2, InductiveParts
    <2> QED
      BY <2>3 DEF owners
  <1>9. of(DOMAIN total) = DOMAIN owner
    BY <1>1
  <1> QED
    BY <1>1, <1>8, <1>9 DEF total

\* What a call that ends has gathered.
LEMMA FinishGathers ==
  ASSUME SocketsType, CallInv, Finish
  PROVE  /\ call.at = "scan" /\ call \in ScanningCalls
         /\ Watched /\ CompletelyRead /\ TrulyRead /\ Owned
         /\ call.left = {} \/ DOMAIN call.owner = DOMAIN call.found
         /\ DOMAIN call.owner \subseteq DOMAIN call.found
         /\ UNCHANGED <<began, held, moved>>
         /\ result'.owner = call.owner /\ result'.found = call.found
         /\ result'.lossy = call.lossy /\ result'.kind = call.kind /\ result'.bytes = bytes
         /\ result'.coverage = Coverage(call.denied, call.owner, DOMAIN call.found)
         /\ call.kind = "traffic" => result'.total = Totals(call.owner, call.found)
  <1>1. call.at = "scan" /\ call # Idle
    BY DEF Finish, Idle
  <1>2. call \in ScanningCalls /\ Watched /\ CompletelyRead /\ TrulyRead /\ Owned
    BY <1>1, CallAt DEF CallInv
  <1>3. DOMAIN call.owner \subseteq DOMAIN call.found
    BY <1>2 DEF Owned
  <1> QED
    BY <1>1, <1>2, <1>3 DEF Finish

LEMMA LeastReadable ==
  \A i : /\ Readable(i) \in SUBSET Nat
         /\ Readable(i) # {} => /\ Min(Readable(i)) \in Readable(i)
                                /\ \A q \in Readable(i) : Min(Readable(i)) <= q
  <1>1. \A i : Readable(i) \in SUBSET Nat
    BY SocketsAssumption DEF Readable
  <1> QED
    BY <1>1, Smallest

\* A stable socket that was found has its least reader as its owner, or none
\* and the answer says so.
LEMMA FinishNames ==
  ASSUME SocketsType, CallInv, Finish, NEW i \in Stable, i \in DOMAIN call.found
  PROVE  IF Readable(i) # {}
           THEN i \in DOMAIN call.owner /\ call.owner[i] = Min(Readable(i))
           ELSE /\ i \notin DOMAIN call.owner
                /\ Coverage(call.denied, call.owner, DOMAIN call.found) = "own_processes_only"
  <1>1. /\ Owned /\ DOMAIN call.owner \subseteq DOMAIN call.found
        /\ call.left = {} \/ DOMAIN call.owner = DOMAIN call.found
        /\ call.left \subseteq Pids /\ call.denied \in BOOLEAN
    BY FinishGathers DEF ScanningCalls
  <1>2. i \in DOMAIN call.owner => call.owner[i] \in Readable(i)
    BY <1>1 DEF Owned
  <1>3. CASE Readable(i) # {}
    <2> DEFINE m == Min(Readable(i))
    <2>1. m \in Readable(i) /\ m \in Nat /\ \A q \in Readable(i) : m <= q
      BY <1>3, LeastReadable
    <2> HIDE DEF m
    <2>2. i \in DOMAIN call.owner
      BY <1>1, <2>1 DEF Owned
    <2>3. call.owner[i] \in Readable(i) /\ call.owner[i] \in Nat /\ m <= call.owner[i]
      BY <1>2, <2>1, <2>2, LeastReadable
    <2>4. call.owner[i] <= m
      <3>1. CASE m \notin call.left
        BY <1>1, <2>1, <3>1 DEF Owned
      <3>2. CASE m \in call.left
        <4>1. call.owner[i] \in Pids \ call.left
          BY <1>1, <2>2 DEF Owned
        <4>2. call.owner[i] < m
          BY <1>1, <3>2, <4>1 DEF Owned
        <4> QED
          BY <2>1, <2>3, <4>2
      <3> QED
        BY <3>1, <3>2
    <2>5. call.owner[i] = m
      BY <2>1, <2>3, <2>4
    <2> QED
      BY <1>3, <2>2, <2>5 DEF m
  <1>4. CASE Readable(i) = {}
    <2>1. i \notin DOMAIN call.owner
      BY <1>2, <1>4
    <2>2. call.left = {} /\ DOMAIN call.owner # DOMAIN call.found
      BY <1>1, <2>1
    <2>3. \E p \in Pids : i \in began.holds[p]
      BY DEF Stable
    <2>4. Denied # {}
      BY <1>4, <2>3 DEF Readable
    <2>5. call.denied
      BY <1>1, <2>2, <2>4 DEF Owned
    <2> QED
      BY <1>4, <2>1, <2>2, <2>5 DEF Coverage
  <1> QED
    BY <1>3, <1>4

LEMMA FinishNamed ==
  ASSUME SocketsType, CallInv, Finish
  PROVE  SocketsNamed'
  <1>1. /\ UNCHANGED <<began, held, moved>>
        /\ result'.owner = call.owner /\ result'.found = call.found
        /\ result'.lossy = call.lossy
        /\ result'.coverage = Coverage(call.denied, call.owner, DOMAIN call.found)
    BY FinishGathers
  <1>2. Stable' = Stable /\ \A i : Readable(i)' = Readable(i)
    BY <1>1 DEF Stable, Readable
  <1>3. \A i \in DOMAIN call.owner : <<call.owner[i], i>> \in held
    BY FinishGathers DEF Owned
  <1>4. \A i \in Stable : i \in DOMAIN call.found \/ call.lossy
    BY FinishGathers DEF CompletelyRead
  <1> QED
    BY <1>1, <1>2, <1>3, <1>4, FinishNames DEF SocketsNamed

LEMMA FinishCounted ==
  ASSUME SocketsType, CallInv, Finish
  PROVE  TrafficCountedOnce'
  <1> SUFFICES ASSUME result'.kind = "traffic" PROVE TrafficCountedOnce'
    BY DEF TrafficCountedOnce
  <1> DEFINE owner == call.owner
             found == call.found
             total == result'.total
             ofOne(p) == {i \in DOMAIN owner : owner[i] = p}
             heldBy(p) == {i \in Inodes : <<p, i>> \in held}
             heldAtAll == {i \in Inodes : \E p \in Pids : <<p, i>> \in held}
             own(p) == {i \in Stable : Readable(i) # {} /\ Min(Readable(i)) = p}
  <1>1. /\ UNCHANGED <<began, held, moved>> /\ result'.bytes = bytes
        /\ result'.lossy = call.lossy
        /\ owner \in Ownings /\ found \in Readings /\ DOMAIN owner \subseteq DOMAIN found
        /\ total = Totals(owner, found)
    BY FinishGathers DEF ScanningCalls
  <1>2. Stable' = Stable /\ \A i : Readable(i)' = Readable(i)
    BY <1>1 DEF Stable, Readable
  <1> HIDE DEF owner, found, total
  <1>3. /\ DOMAIN total = {owner[i] : i \in DOMAIN owner}
        /\ \A p \in DOMAIN total : total[p] = Sum(ofOne(p), found)
        /\ Sum(DOMAIN total, total) = Sum(DOMAIN owner, found)
    BY <1>1, TotalsAre
  <1>4. /\ DOMAIN owner \subseteq heldAtAll
        /\ \A p : ofOne(p) \subseteq heldBy(p)
    <2>1. ASSUME NEW i \in DOMAIN owner
          PROVE  i \in Inodes /\ owner[i] \in Pids /\ <<owner[i], i>> \in held
      BY <1>1, <2>1, FinishGathers, OwningsAre DEF Owned, owner
    <2> QED
      BY <2>1
  <1>5. /\ \A i \in DOMAIN owner : /\ found[i] \in Nat
                                   /\ began.bytes[i] <= found[i] /\ found[i] <= bytes[i]
        /\ \A i \in heldAtAll : bytes[i] \in Nat
    <2>1. Seen(found)
      BY <1>1, FinishGathers DEF TrulyRead, found
    <2>2. \A i \in heldAtAll : bytes[i] \in Nat
      BY FinishGathers DEF Watched
    <2> QED
      BY <1>1, <2>1, <2>2, ReadingsAre DEF Seen
  <1>6. \A S \in SUBSET Inodes : IsFiniteSet(S)
    BY SocketsAssumption, FS_Subset
  <1>7. ASSUME NEW p \in DOMAIN total PROVE total[p] <= Sum(heldBy(p), bytes)
    <2>1. heldBy(p) \subseteq heldAtAll
      <3>1. held \subseteq Pids \X Inodes
        BY FinishGathers DEF Watched
      <3> QED
        BY <3>1
    <2>2. /\ IsFiniteSet(heldBy(p)) /\ ofOne(p) \in SUBSET heldBy(p)
          /\ \A i \in heldBy(p) : bytes[i] \in Nat
          /\ \A i \in ofOne(p) : found[i] \in Nat /\ found[i] <= bytes[i]
      BY <1>4, <1>5, <1>6, <2>1
    <2> HIDE DEF heldBy, ofOne
    <2>3. Sum(ofOne(p), found) <= Sum(heldBy(p), bytes)
      BY <2>2, SumGrows
    <2> QED
      BY <1>3, <2>3 DEF ofOne
  <1>8. Sum(DOMAIN total, total) <= Sum(heldAtAll, bytes)
    <2>1. /\ IsFiniteSet(heldAtAll) /\ DOMAIN owner \in SUBSET heldAtAll
          /\ \A i \in heldAtAll : bytes[i] \in Nat
          /\ \A i \in DOMAIN owner : found[i] \in Nat /\ found[i] <= bytes[i]
      BY <1>4, <1>5, <1>6
    <2> HIDE DEF heldAtAll
    <2>2. Sum(DOMAIN owner, found) <= Sum(heldAtAll, bytes)
      BY <2>1, SumGrows
    <2> QED
      BY <1>3, <2>2
  <1>9. ASSUME ~call.lossy, NEW p \in Pids, own(p) # {}
        PROVE  p \in DOMAIN total /\ total[p] >= Sum(own(p), began.bytes)
    <2>1. ASSUME NEW i \in own(p) PROVE i \in ofOne(p) /\ began.bytes[i] \in Nat
      <3>1. i \in Stable /\ Readable(i) # {} /\ Min(Readable(i)) = p
        BY <2>1
      <3>2. i \in DOMAIN call.found
        BY <1>9, <3>1, FinishGathers DEF CompletelyRead
      <3>3. i \in DOMAIN owner /\ owner[i] = p
        BY <3>1, <3>2, FinishNames DEF owner
      <3>4. began.bytes[i] \in Nat
        BY <3>1, FinishGathers DEF Stable, Watched
      <3> QED
        BY <3>3, <3>4
    <2>2. p \in DOMAIN total
      BY <1>3, <1>9, <2>1
    <2>3. /\ IsFiniteSet(ofOne(p)) /\ own(p) \in SUBSET ofOne(p)
          /\ \A i \in ofOne(p) : found[i] \in Nat
          /\ \A i \in own(p) : began.bytes[i] \in Nat /\ began.bytes[i] <= found[i]
      BY <1>4, <1>5, <1>6, <2>1
    <2> HIDE DEF own, ofOne
    <2>4. PICK few : few = began.bytes
      OBVIOUS
    <2>5. Sum(own(p), few) <= Sum(ofOne(p), found)
      BY <2>3, <2>4, SumGrows
    <2>6. Sum(own(p), few) \in Nat /\ Sum(ofOne(p), found) \in Nat
      <3>1. IsFiniteSet(own(p))
        BY <2>3, FS_Subset
      <3>2. \A i \in own(p) : few[i] \in Nat
        BY <2>3, <2>4
      <3>3. Sum(own(p), few) \in Nat
        BY <3>1, <3>2, SumRemove
      <3>4. Sum(ofOne(p), found) \in Nat
        BY <2>3, SumRemove
      <3> QED
        BY <3>3, <3>4
    <2>7. total[p] = Sum(ofOne(p), found)
      BY <1>3, <2>2 DEF ofOne
    <2> QED
      BY <2>2, <2>4, <2>5, <2>6, <2>7
  <1> QED
    BY <1>1, <1>2, <1>7, <1>8, <1>9 DEF TrafficCountedOnce, total

\* An answer is not touched again.
LEMMA AnswersStep ==
  SocketsType /\ CallInv /\ SocketsNamed /\ TrafficCountedOnce
     /\ [SocketsNext]_socketVars => SocketsNamed' /\ TrafficCountedOnce'
  <1> SUFFICES ASSUME SocketsType, CallInv, SocketsNamed, TrafficCountedOnce,
                      [SocketsNext]_socketVars
               PROVE  SocketsNamed' /\ TrafficCountedOnce'
    OBVIOUS
  <1>1. ASSUME ~Answered' PROVE SocketsNamed' /\ TrafficCountedOnce'
    BY <1>1 DEF SocketsNamed, TrafficCountedOnce
  <1>2. ASSUME call # Idle, result' = result PROVE ~Answered'
    BY <1>2 DEF SocketsType, Answered
  <1>3. ASSUME UNCHANGED <<result, began, held, moved>>
        PROVE  SocketsNamed' /\ TrafficCountedOnce'
    <2>1. /\ Stable' = Stable /\ Answered' = Answered
          /\ \A i : Readable(i)' = Readable(i)
      BY <1>3 DEF Stable, Readable, Answered
    <2>2. SocketsNamed'
      BY <1>3, <2>1 DEF SocketsNamed
    <2>3. TrafficCountedOnce'
      BY <1>3, <2>1 DEF TrafficCountedOnce
    <2> QED
      BY <2>2, <2>3
  <1>4. ASSUME NEW kind \in {"listeners", "traffic"}, Starts(kind) PROVE ~Answered'
    BY <1>4 DEF Starts, Answered
  <1>5. CASE ReadsTable \/ Finishes \/ Repeats \/ Looks \/ \E i \in Inodes : Hears(i)
    <2>1. call.at # "idle" /\ result' = result
      BY <1>5 DEF ReadsTable, Finishes, Repeats, Looks, Hears
    <2> QED
      BY <1>1, <1>2, <2>1, CallAt
  <1>6. CASE Fail
    <2>1. result' = [kind |-> "error"]
      BY <1>6 DEF Fail
    <2> QED
      BY <1>1, <2>1 DEF Answered
  <1>7. CASE Finish
    BY <1>7, FinishNamed, FinishCounted
  <1>8. ASSUME NEW i \in Inodes, Carry(i) PROVE SocketsNamed' /\ TrafficCountedOnce'
    BY <1>3, <1>8 DEF Carry
  <1>9. ASSUME NEW p \in Pids, NEW i \in Inodes, Take(p, i) \/ Drop(p, i)
        PROVE  SocketsNamed' /\ TrafficCountedOnce'
    <2>1. Moves(i)
      BY <1>9, MachineSteps
    <2> QED
      BY <1>1, <1>2, <1>3, <2>1 DEF Moves, Meanwhile
  <1>10. CASE UNCHANGED socketVars
    BY <1>3, <1>10 DEF socketVars
  <1> QED
    BY <1>1, <1>4, <1>5, <1>6, <1>7, <1>8, <1>9, <1>10, CallSteps DEF Ends

LEMMA SocketsInvariant ==
  SocketsSpec => [](SocketsType /\ CallInv /\ SocketsNamed /\ TrafficCountedOnce)
  <1>1. SocketsInit => CallInv /\ SocketsNamed /\ TrafficCountedOnce
    BY DEF SocketsInit, CallInv, SocketsNamed, TrafficCountedOnce, Answered
  <1> QED
    BY <1>1, SocketsTypeInit, SocketsTypeStep, CallInvStep, AnswersStep, PTL
       DEF SocketsSpec

\* The state of the kernel, of a call and of its answer has its type, for any
\* number of sockets and processes (listeners.rs, listeners/diag.rs).
THEOREM SocketsTypeCorrect == SocketsSpec => []SocketsType
  BY SocketsInvariant, PTL

\* Whatever the tables miss, whoever passes a socket on and however often a dump
\* is done again: an owner named did hold the socket, and a socket left alone is
\* named after its least reader (listeners/procnet.rs:138-185).
THEOREM OwnersAreTrue == SocketsSpec => []SocketsNamed
  BY SocketsInvariant, PTL

\* Each byte is in one total at most, and in one at least if its socket was
\* left alone (listeners.rs:319-335, listeners/diag.rs:108-181).
THEOREM BytesCountedOnce == SocketsSpec => []TrafficCountedOnce
  BY SocketsInvariant, PTL

-----------------------------------------------------------------------------
(* SocketTable: the parser at every record.                                *)

\* A socket as the kernel may have it, whoever owns it and whatever it moved;
\* the records a table is made of, and the states the parser can be in.
Socket ==
  {s \in [detached : BOOLEAN, owner : Nat, bytes : Nat, port : Nat,
          listens : BOOLEAN, connected : BOOLEAN] : s.connected = ~s.listens}
RowType == [owner : Nat, bytes : Nat, listens : BOOLEAN, port : Nat]
Kinds == {"inpcb", "socket", "buffer", "stats", "tcpcb"}
Records ==
  [kind : Kinds \cup {"closing", "bad"}, of : Socket] \cup [kind : {"closing", "bad"}]
Runs == [inpcb : Socket, slot : UNION {[K -> Socket] : K \in SUBSET Slots}]
States == [at : {"open", "closed"}, run : Runs \cup {NoRun}, rows : Seq(RowType)] \cup {Failed}
Start == [at |-> "open", run |-> NoRun, rows |-> <<>>]

\* What a run holds.
LEMMA RunIs ==
  ASSUME NEW r \in Runs
  PROVE  /\ DOMAIN r.slot \in SUBSET Slots /\ \A k \in DOMAIN r.slot : r.slot[k] \in Socket
         /\ r.inpcb \in Socket /\ r = [inpcb |-> r.inpcb, slot |-> r.slot]
         /\ r # NoRun
  <1>1. PICK K \in SUBSET Slots : r.slot \in [K -> Socket]
    BY DEF Runs
  <1>2. r # NoRun
    BY DEF Runs, NoRun
  <1> QED
    BY <1>1, <1>2 DEF Runs

\* A run that is sound gives a row.
LEMMA RowIs ==
  ASSUME NEW r \in Runs, NEW tcp \in BOOLEAN, Sound(r, tcp)
  PROVE  Row(r, tcp) \in RowType
  <1>1. \A s \in Socket : /\ s.owner \in Nat /\ s.bytes \in Nat /\ s.port \in Nat
                          /\ s.listens \in BOOLEAN /\ s.detached \in BOOLEAN
    BY DEF Socket
  <1>2. CASE r.slot["socket"].detached
    BY <1>2 DEF Row, RowType
  <1>3. CASE ~r.slot["socket"].detached
    <2> DEFINE socket == r.slot["socket"]
               listens == r.inpcb.port # 0
                          /\ IF tcp THEN r.slot["tcpcb"].listens ELSE ~r.inpcb.connected
    <2>1. socket \in Socket /\ r.slot["stats"] \in Socket /\ r.inpcb \in Socket
      BY <1>3, RunIs DEF Sound
    <2>2. Row(r, tcp) = [owner |-> socket.owner, bytes |-> r.slot["stats"].bytes,
                         port |-> r.inpcb.port, listens |-> listens]
      BY <1>3 DEF Row
    <2>3. listens \in BOOLEAN
      OBVIOUS
    <2> HIDE DEF listens, socket
    <2> QED
      BY <1>1, <2>1, <2>2, <2>3 DEF RowType
  <1> QED
    BY <1>2, <1>3

\* Where a parser that has not failed is.
LEMMA StateIs ==
  ASSUME NEW x \in States, x # Failed
  PROVE  /\ x = [at |-> x.at, run |-> x.run, rows |-> x.rows]
         /\ x.at \in {"open", "closed"} /\ x.run \in Runs \cup {NoRun}
         /\ x.rows \in Seq(RowType)
  BY DEF States

\* A parser that closes has failed or is closed, with the row of its run.
LEMMA CloseIs ==
  ASSUME NEW x \in States, x # Failed, NEW tcp \in BOOLEAN
  PROVE  /\ Close(x, tcp) \in States
         /\ x.run = NoRun => Close(x, tcp) = [at |-> "closed", run |-> NoRun, rows |-> x.rows]
         /\ x.run # NoRun /\ Sound(x.run, tcp) =>
              Close(x, tcp) = [at |-> "closed", run |-> NoRun,
                               rows |-> Append(x.rows, Row(x.run, tcp))]
         /\ x.run # NoRun /\ ~Sound(x.run, tcp) => Close(x, tcp) = Failed
  <1>1. CASE x.run = NoRun
    BY <1>1, StateIs DEF Close, States
  <1>2. CASE x.run # NoRun /\ Sound(x.run, tcp)
    <2>1. Row(x.run, tcp) \in RowType
      BY <1>2, StateIs, RowIs
    <2>2. Append(x.rows, Row(x.run, tcp)) \in Seq(RowType)
      BY <2>1, StateIs
    <2>3. Close(x, tcp) = [at |-> "closed", run |-> NoRun,
                           rows |-> Append(x.rows, Row(x.run, tcp))]
      <3>1. PICK at, run, rows : x = [at |-> at, run |-> run, rows |-> rows]
        BY StateIs, Zenon
      <3>2. Close(x, tcp) = [x EXCEPT !.rows = Append(x.rows, Row(x.run, tcp)),
                                      !.run = NoRun, !.at = "closed"]
        BY <1>2 DEF Close
      <3> QED
        BY <3>1, <3>2
    <2> QED
      BY <1>2, <2>2, <2>3 DEF States
  <1>3. CASE x.run # NoRun /\ ~Sound(x.run, tcp)
    BY <1>3 DEF Close, States
  <1> QED
    BY <1>1, <1>2, <1>3

\* A record that fills a slot.
LEMMA FillIs ==
  ASSUME NEW r \in Runs, NEW record \in Records, record.kind \in Slots
  PROVE  /\ Fill(r, record) \in Runs
         /\ Fill(r, record) = [inpcb |-> r.inpcb, slot |-> Fill(r, record).slot]
         /\ DOMAIN Fill(r, record).slot = DOMAIN r.slot \cup {record.kind}
         /\ \A k \in DOMAIN Fill(r, record).slot :
              Fill(r, record).slot[k] = IF k = record.kind THEN record.of ELSE r.slot[k]
  <1> DEFINE slot == [k \in DOMAIN r.slot \cup {record.kind} |->
                        IF k = record.kind THEN record.of ELSE r.slot[k]]
  <1>1. record.of \in Socket
    BY DEF Records, Slots
  <1>2. slot \in [DOMAIN r.slot \cup {record.kind} -> Socket]
        /\ DOMAIN r.slot \cup {record.kind} \in SUBSET Slots
    BY <1>1, RunIs
  <1>3. Fill(r, record) = [inpcb |-> r.inpcb, slot |-> slot]
    BY RunIs DEF Fill
  <1>4. slot \in UNION {[K -> Socket] : K \in SUBSET Slots}
    BY <1>2
  <1>5. Fill(r, record) \in Runs
    <2> HIDE DEF slot
    <2> QED
      BY <1>3, <1>4, RunIs DEF Runs
  <1> QED
    BY <1>3, <1>5

\* Every record takes a state to a state.
LEMMA StepIs ==
  ASSUME NEW x \in States, NEW record \in Records, NEW tcp \in BOOLEAN
  PROVE  Step(tcp, x, record) \in States
  <1>1. Failed \in States /\ Failed.at # "open"
    BY DEF States, Failed
  <1>2. CASE x.at # "open"
    BY <1>2 DEF Step
  <1>3. CASE x.at = "open"
    <2>0. x # Failed
      BY <1>1, <1>3
    <2>1. CASE record.kind = "closing"
      <3>1. Step(tcp, x, record) = Close(x, tcp)
        BY <1>3, <2>1 DEF Step, Slots
      <3> QED
        BY <2>0, <3>1, CloseIs
    <2>2. CASE record.kind = "inpcb"
      <3>1. record.of \in Socket
        BY <2>2 DEF Records
      <3>2. NewRun(record.of) \in Runs
        <4>1. <<>> \in [{} -> Socket] /\ {} \in SUBSET Slots
          OBVIOUS
        <4> QED
          BY <3>1, <4>1 DEF NewRun, Runs
      <3>3. Close(x, tcp) \in States
        BY <2>0, CloseIs
      <3>4. Reopen(Close(x, tcp), record.of) \in States
        <4>1. CASE Close(x, tcp) = Failed
          BY <1>1, <4>1 DEF Reopen
        <4>2. CASE Close(x, tcp) # Failed
          <5> DEFINE y == Close(x, tcp)
          <5>1. Reopen(y, record.of) = [at |-> "open", run |-> NewRun(record.of), rows |-> y.rows]
            <6>1. PICK at, run, rows : y = [at |-> at, run |-> run, rows |-> rows]
              BY <3>3, <4>2, StateIs, Zenon
            <6>2. Reopen(y, record.of) = [y EXCEPT !.at = "open", !.run = NewRun(record.of)]
              BY <4>2 DEF Reopen
            <6> HIDE DEF y
            <6> QED
              BY <6>1, <6>2
          <5>2. y.rows \in Seq(RowType)
            BY <3>3, <4>2, StateIs
          <5> QED
            BY <3>2, <5>1, <5>2 DEF States
        <4> QED
          BY <4>1, <4>2
      <3> QED
        <4>1. Step(tcp, x, record) = Reopen(Close(x, tcp), record.of)
          BY <1>3, <2>2 DEF Step, Slots
        <4> QED
          BY <3>4, <4>1
    <2>3. CASE record.kind \in Slots
      <3>1. CASE x.run = NoRun \/ record.kind \in DOMAIN x.run.slot
        BY <1>1, <1>3, <2>3, <3>1 DEF Step, Accept, Slots
      <3>2. CASE x.run # NoRun /\ record.kind \notin DOMAIN x.run.slot
        <4>1. x.run \in Runs
          BY <2>0, <3>2, StateIs
        <4>2. Fill(x.run, record) \in Runs
          BY <2>3, <4>1, FillIs
        <4>3. Step(tcp, x, record) = [x EXCEPT !.run = Fill(x.run, record)]
          BY <1>3, <2>3, <3>2 DEF Step, Accept, Slots
        <4> QED
          BY <2>0, <4>2, <4>3, StateIs DEF States
      <3> QED
        BY <3>1, <3>2
    <2>4. CASE record.kind = "buffer"
      BY <1>1, <1>3, <2>4 DEF Step, Slots
    <2>5. CASE record.kind = "bad"
      BY <1>1, <1>3, <2>5 DEF Step, Slots
    <2> QED
      BY <2>1, <2>2, <2>3, <2>4, <2>5 DEF Records, Kinds, Slots
  <1> QED
    BY <1>2, <1>3

\* The states the parser goes through.
Trace(t, tcp, run) ==
  /\ run[0] = Start
  /\ \A p \in 1..Len(t) : run[p-1] \in States /\ run[p] = Step(tcp, run[p-1], t[p])
  /\ run[Len(t)] \in States

\* A table is parsed one record after the other.
LEMMA ParseRuns ==
  ASSUME NEW t \in Seq(Records), NEW tcp \in BOOLEAN
  PROVE  \E run : /\ Trace(t, tcp, run)
                  /\ Parse(t, tcp) = IF run[Len(t)].at = "closed"
                                       THEN [ok |-> TRUE, rows |-> run[Len(t)].rows]
                                       ELSE [ok |-> FALSE, rows |-> <<>>]
  <1> DEFINE n == Len(t)
             step == [p \in 1..n |-> [x \in States |-> Step(tcp, x, t[p])]]
             first == [T \in SUBSET (1..n) |-> Latest(T)]
  <1>1. n \in Nat /\ DOMAIN t = 1..n /\ \A p \in 1..n : t[p] \in Records
    OBVIOUS
  <1>2. Start \in States
    BY DEF Start, States
  <1>3. \A p \in 1..n : \A x \in States : step[p][x] \in States
    BY <1>1, StepIs
  <1>4. PICK fold : FoldOf(1..n, States, Start, first, step, fold)
    <2> HIDE DEF step, n
    <2> QED
      BY <1>1, <1>2, <1>3, FoldLeftExists, Zenon
  <1> DEFINE value(f, T) == IF T = {} THEN Start ELSE Step(tcp, f[T \ {Latest(T)}], t[Latest(T)])
  <1>5. ASSUME NEW T \in SUBSET (1..n) PROVE fold[T] = value(fold, T)
    <2>1. CASE T = {}
      BY <1>4, <2>1 DEF FoldOf
    <2>2. CASE T # {}
      <3>1. Latest(T) \in 1..n /\ first[T] = Latest(T)
        BY <1>1, <2>2, LatestIs
      <3>2. fold[T] = step[first[T]][fold[T \ {first[T]}]]
        <4> HIDE DEF first, step
        <4> QED
          BY <1>4, <2>2 DEF FoldOf
      <3>3. fold[T \ {Latest(T)}] \in States
        BY <1>4 DEF FoldOf
      <3> HIDE DEF first
      <3> QED
        BY <2>2, <3>1, <3>2, <3>3
    <2> QED
      BY <2>1, <2>2
  <1> DEFINE chosen == CHOOSE f : f = [T \in SUBSET (1..n) |-> value(f, T)]
  <1>6. fold = [T \in SUBSET (1..n) |-> value(fold, T)]
    <2>1. fold = [T \in SUBSET (1..n) |-> fold[T]]
      BY <1>4 DEF FoldOf
    <2> HIDE DEF value
    <2> QED
      BY <1>5, <2>1
  <1>7. chosen = [T \in SUBSET (1..n) |-> value(chosen, T)]
    BY <1>6
  <1>8. Parse(t, tcp) = IF chosen[1..n].at = "closed"
                          THEN [ok |-> TRUE, rows |-> chosen[1..n].rows]
                          ELSE [ok |-> FALSE, rows |-> <<>>]
    BY <1>1 DEF Parse, Seqs!FoldLeft, Seqs!MapThenFoldSet, Seqs!Max, Latest, Start
  <1> HIDE DEF chosen
  <1> DEFINE run == [p \in 0..n |-> chosen[1..p]]
  <1>9. run[0] = Start
    <2>1. 1..0 = {} /\ {} \in SUBSET (1..n)
      OBVIOUS
    <2> QED
      BY <1>7, <2>1
  <1>10. ASSUME NEW p \in 1..n PROVE run[p] = Step(tcp, run[p-1], t[p])
    <2>0. p \in 1..p /\ p - 1 \in 0..n /\ p \in 0..n /\ n \in Nat
      BY <1>1
    <2>1. 1..p \in SUBSET (1..n) /\ 1..p # {}
      BY <2>0
    <2>2. Latest(1..p) = p /\ (1..p) \ {p} = 1..(p-1)
      BY LatestIs
    <2>3. chosen[1..p] = value(chosen, 1..p)
      <3> HIDE DEF value
      <3> QED
        BY <1>7, <2>1
    <2>4. chosen[1..p] = Step(tcp, chosen[(1..p) \ {Latest(1..p)}], t[Latest(1..p)])
      BY <2>1, <2>3
    <2> QED
      BY <2>0, <2>2, <2>4
  <1>11. run[n] = chosen[1..n]
    BY <1>1
  <1> HIDE DEF run
  <1>12. \A p \in Nat : p \in 0..n => run[p] \in States
    <2> DEFINE G == {p \in Nat : p \in 0..n => run[p] \in States}
    <2>1. 0 \in G
      BY <1>2, <1>9
    <2>2. ASSUME NEW p \in Nat, p \in G PROVE p + 1 \in G
      <3>1. p + 1 \in 0..n => run[p+1] = Step(tcp, run[p], t[p+1])
        BY <1>10
      <3> QED
        BY <1>1, <2>2, <3>1, StepIs
    <2> HIDE DEF G
    <2>3. Nat \subseteq G
      BY <2>1, <2>2, Inductive
    <2> QED
      BY <2>3 DEF G
  <1>13. Trace(t, tcp, run)
    BY <1>1, <1>9, <1>10, <1>12 DEF Trace
  <1> QED
    BY <1>8, <1>11, <1>13

-----------------------------------------------------------------------------
(* Where the records of a written table are.                               *)

Width(tcp) == IF tcp THEN 5 ELSE 4
\* Where the j-th record of the k-th socket is; after the n-th socket the
\* closing header is where the first record of another would be.
At(tcp, k, j) == IF tcp THEN 5 * (k - 1) + j ELSE 4 * (k - 1) + j

\* The records of one socket.
LEMMA LayoutIs ==
  ASSUME NEW tcp \in BOOLEAN
  PROVE  /\ Len(Layout(tcp)) = Width(tcp)
         /\ Layout(tcp)[1] = "inpcb" /\ Layout(tcp)[2] = "socket"
         /\ Layout(tcp)[3] = "buffer" /\ Layout(tcp)[4] = "stats"
         /\ tcp => Layout(tcp)[5] = "tcpcb"
  BY DEF Layout, Width

\* Records are numbered one after the other.
LEMMA AtSteps ==
  ASSUME NEW tcp \in BOOLEAN
  PROVE  /\ Width(tcp) \in 4..5 /\ At(tcp, 1, 1) = 1
         /\ \A k \in Nat \ {0}, j \in 1..Width(tcp) :
              /\ At(tcp, k, j) \in Nat \ {0}
              /\ j < Width(tcp) => At(tcp, k, j) + 1 = At(tcp, k, j + 1)
              /\ j = Width(tcp) => At(tcp, k, j) + 1 = At(tcp, k + 1, 1)
  BY DEF At, Width

\* The records of the sockets come before the closing header.
LEMMA AtBefore ==
  ASSUME NEW tcp \in BOOLEAN, NEW n \in Nat, NEW k \in Nat \ {0}, NEW j \in 1..Width(tcp)
  PROVE  k <= n <=> At(tcp, k, j) < At(tcp, n + 1, 1)
  BY DEF At, Width

\* The closing header is after the last of them.
LEMMA AtLast ==
  ASSUME NEW tcp \in BOOLEAN, NEW n \in Nat
  PROVE  At(tcp, n + 1, 1) = (n * Width(tcp)) + 1 /\ n * Width(tcp) \in Nat
  <1>1. CASE tcp
    BY <1>1 DEF At, Width
  <1>2. CASE ~tcp
    BY <1>2 DEF At, Width
  <1> QED
    BY <1>1, <1>2

\* From its place the socket and the kind of a record can be told.
LEMMA AtPlace ==
  ASSUME NEW tcp \in BOOLEAN, NEW k \in Nat \ {0}, NEW j \in 1..Width(tcp)
  PROVE  /\ ((At(tcp, k, j) - 1) % Width(tcp)) + 1 = j
         /\ ((At(tcp, k, j) - 1) \div Width(tcp)) + 1 = k
  BY DEF At, Width

\* Every place is that of some record of some socket.
LEMMA AtAll ==
  ASSUME NEW tcp \in BOOLEAN, NEW i \in Nat \ {0}
  PROVE  \E k \in Nat \ {0}, j \in 1..Width(tcp) : i = At(tcp, k, j)
  <1>1. CASE tcp
    <2> DEFINE k == ((i - 1) \div 5) + 1
               j == ((i - 1) % 5) + 1
    <2>1. k \in Nat \ {0} /\ j \in 1..5 /\ i = 5 * (k - 1) + j
      OBVIOUS
    <2> QED
      BY <1>1, <2>1 DEF At, Width
  <1>2. CASE ~tcp
    <2> DEFINE k == ((i - 1) \div 4) + 1
               j == ((i - 1) % 4) + 1
    <2>1. k \in Nat \ {0} /\ j \in 1..4 /\ i = 4 * (k - 1) + j
      OBVIOUS
    <2> QED
      BY <1>2, <2>1 DEF At, Width
  <1> QED
    BY <1>1, <1>2

Closing == [kind |-> "closing"]

\* The table the kernel writes.
LEMMA TableIs ==
  ASSUME NEW sockets \in Seq(Socket), NEW tcp \in BOOLEAN
  PROVE  LET t == Table(sockets, tcp)
             n == Len(sockets)
         IN /\ t \in Seq(Records) /\ n \in Nat
            /\ Len(t) = At(tcp, n + 1, 1)
            /\ t[At(tcp, n + 1, 1)] = Closing
            /\ \A k \in 1..n, j \in 1..Width(tcp) :
                 t[At(tcp, k, j)] = [kind |-> Layout(tcp)[j], of |-> sockets[k]]
  <1> DEFINE n == Len(sockets)
             w == Width(tcp)
             final == n * w
             record(k, j) == [kind |-> Layout(tcp)[j], of |-> sockets[k]]
             body == [p \in 1..final |-> record(((p - 1) \div w) + 1, ((p - 1) % w) + 1)]
  <1>1. n \in Nat /\ w \in 4..5 /\ final \in Nat /\ At(tcp, n + 1, 1) = final + 1
    BY AtSteps, AtLast
  <1>2. Table(sockets, tcp) = body \o <<Closing>>
    BY LayoutIs DEF Table, Closing
  <1>3. ASSUME NEW k \in 1..n, NEW j \in 1..w
        PROVE  At(tcp, k, j) \in 1..final /\ body[At(tcp, k, j)] = record(k, j)
    <2>1. /\ At(tcp, k, j) \in Nat \ {0} /\ At(tcp, k, j) < final + 1
          /\ ((At(tcp, k, j) - 1) % w) + 1 = j /\ ((At(tcp, k, j) - 1) \div w) + 1 = k
      <3> HIDE DEF w, final
      <3>1. k \in Nat \ {0} /\ k <= n /\ j \in 1..Width(tcp)
        BY <1>1 DEF w
      <3>2. At(tcp, k, j) < At(tcp, n + 1, 1)
        BY <1>1, <3>1, AtBefore
      <3>3. At(tcp, k, j) \in Nat \ {0}
        BY <3>1, AtSteps
      <3> QED
        BY <1>1, <3>1, <3>2, <3>3, AtPlace DEF w
    <2>2. At(tcp, k, j) \in 1..final
      BY <1>1, <2>1
    <2> HIDE DEF final, w, record
    <2> QED
      BY <2>1, <2>2
  <1>4. ASSUME NEW p \in 1..final
        PROVE  \E k \in 1..n, j \in 1..w : p = At(tcp, k, j)
    <2>1. PICK k \in Nat \ {0}, j \in 1..w : p = At(tcp, k, j)
      <3>1. p \in Nat \ {0}
        BY <1>1
      <3> QED
        BY <3>1, AtAll
    <2>2. k <= n
      <3> HIDE DEF w, final
      <3>1. At(tcp, k, j) < At(tcp, n + 1, 1) /\ j \in 1..Width(tcp)
        BY <1>1, <2>1 DEF w
      <3> QED
        BY <1>1, <3>1, AtBefore
    <2> QED
      BY <2>1, <2>2
  <1>5. \A k \in 1..n, j \in 1..w : record(k, j) \in Records
    <2>1. \A k \in 1..n : sockets[k] \in Socket
      OBVIOUS
    <2>2. \A j \in 1..w : Layout(tcp)[j] \in Kinds
      BY LayoutIs DEF Width, Kinds
    <2> QED
      BY <2>1, <2>2 DEF Records
  <1> HIDE DEF final, w, record, n
  <1>6. body \in [1..final -> Records]
    <2>1. \A p \in 1..final : body[p] \in Records
      <3> HIDE DEF body
      <3> QED
        BY <1>3, <1>4, <1>5
    <2> QED
      BY <2>1
  <1>7. /\ body \in Seq(Records) /\ Len(body) = final
        /\ Closing \in Records
    BY <1>1, <1>6 DEF Closing, Records
  <1> HIDE DEF body
  <1>8. /\ body \o <<Closing>> \in Seq(Records) /\ Len(body \o <<Closing>>) = final + 1
        /\ (body \o <<Closing>>)[final + 1] = Closing
        /\ \A p \in 1..final : (body \o <<Closing>>)[p] = body[p]
    BY <1>1, <1>7
  <1>9. \A k \in 1..n, j \in 1..w : (body \o <<Closing>>)[At(tcp, k, j)] = record(k, j)
    BY <1>3, <1>8
  <1> QED
    BY <1>1, <1>2, <1>8, <1>9 DEF n, w, record

-----------------------------------------------------------------------------
(* The rows of a table, and the parser on one as the kernel writes it.     *)

Plain(socket) ==
  IF socket.detached THEN [owner |-> 0, bytes |-> 0, listens |-> FALSE, port |-> 0]
  ELSE [owner |-> socket.owner, bytes |-> socket.bytes, port |-> socket.port,
        listens |-> socket.port # 0 /\ socket.listens]
RowsOf(sockets, m) == [i \in 1..m |-> Plain(sockets[i])]

\* The rows of the first sockets, one more at a time.
LEMMA ReadIs ==
  ASSUME NEW sockets \in Seq(Socket)
  PROVE  /\ Expected(sockets) = RowsOf(sockets, Len(sockets))
         /\ \A m \in 0..Len(sockets) : RowsOf(sockets, m) \in Seq(RowType)
         /\ \A m \in 1..Len(sockets) :
              Append(RowsOf(sockets, m - 1), Plain(sockets[m])) = RowsOf(sockets, m)
         /\ RowsOf(sockets, 0) = <<>>
  <1>1. \A i \in 1..Len(sockets) : Plain(sockets[i]) \in RowType
    <2>1. \A s \in Socket : Plain(s) \in RowType
      BY DEF Plain, RowType, Socket
    <2> QED
      BY <2>1
  <1>2. Expected(sockets) = RowsOf(sockets, Len(sockets))
    <2>1. DOMAIN sockets = 1..Len(sockets)
      OBVIOUS
    <2> QED
      BY <2>1 DEF Expected, RowsOf, Plain
  <1>3. ASSUME NEW m \in 0..Len(sockets)
        PROVE  RowsOf(sockets, m) \in Seq(RowType) /\ Len(RowsOf(sockets, m)) = m
    <2>1. RowsOf(sockets, m) \in [1..m -> RowType]
      BY <1>1 DEF RowsOf
    <2> QED
      BY <2>1
  <1>4. ASSUME NEW m \in 1..Len(sockets)
        PROVE  Append(RowsOf(sockets, m - 1), Plain(sockets[m])) = RowsOf(sockets, m)
    <2> DEFINE more == Append(RowsOf(sockets, m - 1), Plain(sockets[m]))
    <2>1. RowsOf(sockets, m - 1) \in Seq(RowType) /\ Len(RowsOf(sockets, m - 1)) = m - 1
      BY <1>3
    <2>2. RowsOf(sockets, m) \in Seq(RowType) /\ Len(RowsOf(sockets, m)) = m
      BY <1>3
    <2>3. more \in Seq(RowType) /\ Len(more) = m
      BY <1>1, <2>1
    <2>4. ASSUME NEW i \in 1..m PROVE more[i] = RowsOf(sockets, m)[i]
      <3>1. CASE i = m
        BY <1>1, <2>1, <3>1 DEF RowsOf
      <3>2. CASE i # m
        <4>1. more[i] = RowsOf(sockets, m - 1)[i] /\ i \in 1..(m - 1)
          BY <1>1, <2>1, <3>2
        <4> QED
          BY <4>1 DEF RowsOf
      <3> QED
        BY <3>1, <3>2
    <2> HIDE DEF more
    <2>5. more = RowsOf(sockets, m)
      BY <2>2, <2>3, <2>4, SeqEqual
    <2> QED
      BY <2>5 DEF more
  <1>5. RowsOf(sockets, 0) = <<>>
    BY DEF RowsOf
  <1> QED
    BY <1>2, <1>3, <1>4, <1>5

\* The parser after the j-th record of the k-th socket.
Filled(j) ==
  {kind \in Slots : \/ kind = "socket" /\ j >= 2
                    \/ kind = "stats" /\ j >= 4
                    \/ kind = "tcpcb" /\ j >= 5}
Part(sockets, k, K) ==
  [at |-> "open", run |-> [inpcb |-> sockets[k], slot |-> [q \in K |-> sockets[k]]],
   rows |-> RowsOf(sockets, k - 1)]
Full(sockets, k, j) == Part(sockets, k, Filled(j))
Over(sockets) == [at |-> "closed", run |-> NoRun, rows |-> Expected(sockets)]

\* A run in progress is a state of the parser.
LEMMA PartIs ==
  ASSUME NEW sockets \in Seq(Socket), NEW k \in 1..Len(sockets), NEW K \in SUBSET Slots
  PROVE  LET x == Part(sockets, k, K)
         IN /\ x \in States /\ x # Failed /\ x.at = "open"
            /\ x.run \in Runs /\ x.run # NoRun
            /\ x.run.inpcb = sockets[k] /\ DOMAIN x.run.slot = K
            /\ \A q \in K : x.run.slot[q] = sockets[k]
            /\ x.rows = RowsOf(sockets, k - 1)
  <1>1. sockets[k] \in Socket /\ k - 1 \in 0..Len(sockets)
    OBVIOUS
  <1>2. [q \in K |-> sockets[k]] \in [K -> Socket]
    BY <1>1
  <1>3. [inpcb |-> sockets[k], slot |-> [q \in K |-> sockets[k]]] \in Runs
    BY <1>1, <1>2 DEF Runs
  <1>4. RowsOf(sockets, k - 1) \in Seq(RowType)
    BY <1>1, ReadIs
  <1>5. Part(sockets, k, K) \in States
    BY <1>3, <1>4 DEF Part, States
  <1> QED
    BY <1>3, <1>5, RunIs DEF Part, Failed

\* A record of a kind that the run has not got yet is kept, one that it has is
\* refused; a buffer record changes nothing.
LEMMA PartStep ==
  ASSUME NEW sockets \in Seq(Socket), NEW tcp \in BOOLEAN, NEW k \in 1..Len(sockets),
         NEW K \in SUBSET Slots, NEW kind
  PROVE  LET next == Step(tcp, Part(sockets, k, K), [kind |-> kind, of |-> sockets[k]])
         IN /\ kind \in Slots \ K => next = Part(sockets, k, K \cup {kind})
            /\ kind \in K => next = Failed
  <1> DEFINE record == [kind |-> kind, of |-> sockets[k]]
             part == Part(sockets, k, K)
  <1>1. /\ part.at = "open" /\ part.run # NoRun /\ DOMAIN part.run.slot = K
        /\ part.run = [inpcb |-> sockets[k], slot |-> [q \in K |-> sockets[k]]]
    <2>1. part.run = [inpcb |-> sockets[k], slot |-> [q \in K |-> sockets[k]]]
      BY DEF Part
    <2> QED
      BY <2>1, PartIs
  <1>2. record.kind = kind
    OBVIOUS
  <1>3. CASE kind \in Slots
    <2>1. Step(tcp, part, record) = Accept(part, record)
      <3> HIDE DEF part, record
      <3> QED
        BY <1>1, <1>2, <1>3 DEF Step, Slots
    <2>2. kind \in K => Accept(part, record) = Failed
      <3> HIDE DEF part, record
      <3> QED
        BY <1>1, <1>2 DEF Accept
    <2>3. ASSUME kind \notin K PROVE Accept(part, record) = Part(sockets, k, K \cup {kind})
      <3> DEFINE more == Fill(part.run, record)
      <3>1. Accept(part, record) = [part EXCEPT !.run = more]
        <4> HIDE DEF part, record
        <4> QED
          BY <1>1, <1>2, <2>3 DEF Accept
      <3>2. more = [inpcb |-> sockets[k], slot |-> [q \in K \cup {kind} |-> sockets[k]]]
        <4>1. [q \in K \cup {kind} |->
                 IF q = kind THEN sockets[k] ELSE [p \in K |-> sockets[k]][q]]
               = [q \in K \cup {kind} |-> sockets[k]]
          OBVIOUS
        <4> HIDE DEF part
        <4> QED
          BY <1>1, <4>1 DEF Fill
      <3>3. [part EXCEPT !.run = more]
              = [at |-> "open", run |-> more, rows |-> RowsOf(sockets, k - 1)]
        <4> HIDE DEF more
        <4> QED
          BY DEF Part
      <3> HIDE DEF part, more, record
      <3> QED
        BY <3>1, <3>2, <3>3 DEF Part
    <2> QED
      BY <2>1, <2>2, <2>3
  <1>4. CASE kind \notin Slots
    BY <1>4
  <1> QED
    BY <1>3, <1>4

\* A buffer record is stepped over.
LEMMA PartBuffer ==
  ASSUME NEW sockets \in Seq(Socket), NEW tcp \in BOOLEAN, NEW k \in 1..Len(sockets),
         NEW K \in SUBSET Slots, NEW of
  PROVE  Step(tcp, Part(sockets, k, K), [kind |-> "buffer", of |-> of]) = Part(sockets, k, K)
  <1> DEFINE part == Part(sockets, k, K)
  <1>1. part.at = "open" /\ part.run # NoRun
    BY PartIs
  <1> HIDE DEF part
  <1>2. Step(tcp, part, [kind |-> "buffer", of |-> of]) = part
    BY <1>1 DEF Step, Slots
  <1> QED
    BY <1>2 DEF part

\* What the records of a socket fill one by one.
LEMMA FilledIs ==
  ASSUME NEW tcp \in BOOLEAN, NEW j \in 1..Width(tcp)
  PROVE  /\ Filled(j) \in SUBSET Slots /\ Filled(1) = {} /\ Filled(3) = Filled(2)
         /\ j = 3 <=> Layout(tcp)[j] = "buffer"
         /\ j = 1 <=> Layout(tcp)[j] = "inpcb"
         /\ j \notin {1, 3} => /\ Layout(tcp)[j] \in Slots
                               /\ Filled(j) = Filled(j - 1) \cup {Layout(tcp)[j]}
                               /\ Layout(tcp)[j] \notin Filled(j - 1)
  BY LayoutIs DEF Filled, Slots, Width

\* The parser at the next record of a socket.
LEMMA FullNext ==
  ASSUME NEW sockets \in Seq(Socket), NEW tcp \in BOOLEAN, NEW k \in 1..Len(sockets),
         NEW j \in 1..Width(tcp), j < Width(tcp)
  PROVE  Step(tcp, Full(sockets, k, j), [kind |-> Layout(tcp)[j + 1], of |-> sockets[k]])
           = Full(sockets, k, j + 1)
  <1>1. j + 1 \in 1..Width(tcp) /\ j + 1 # 1 /\ (j + 1) - 1 = j
    BY DEF Width
  <1>2. Filled(j) \in SUBSET Slots
    BY FilledIs
  <1>3. CASE j = 2
    <2>1. Layout(tcp)[j + 1] = "buffer" /\ Filled(j + 1) = Filled(j)
      BY <1>1, <1>3, FilledIs
    <2>2. Full(sockets, k, j + 1) = Part(sockets, k, Filled(j))
      BY <2>1 DEF Full
    <2>3. Step(tcp, Part(sockets, k, Filled(j)), [kind |-> Layout(tcp)[j + 1], of |-> sockets[k]])
            = Part(sockets, k, Filled(j))
      BY <1>2, <2>1, PartBuffer
    <2> QED
      BY <2>1, <2>2, <2>3 DEF Full
  <1>4. CASE j # 2
    <2>1. /\ Layout(tcp)[j + 1] \in Slots \ Filled(j)
          /\ Filled(j + 1) = Filled(j) \cup {Layout(tcp)[j + 1]}
      BY <1>1, <1>4, FilledIs
    <2> QED
      BY <1>2, <2>1, PartStep DEF Full
  <1> QED
    BY <1>3, <1>4

\* After the last one the run is sound and gives the row of the socket.
LEMMA FullClose ==
  ASSUME NEW sockets \in Seq(Socket), NEW tcp \in BOOLEAN, NEW k \in 1..Len(sockets)
  PROVE  Close(Full(sockets, k, Width(tcp)), tcp)
           = [at |-> "closed", run |-> NoRun, rows |-> RowsOf(sockets, k)]
  <1> DEFINE w == Width(tcp)
             full == Full(sockets, k, w)
             socket == sockets[k]
  <1>1. w \in 1..5 /\ "socket" \in Filled(w) /\ "stats" \in Filled(w)
        /\ (tcp => "tcpcb" \in Filled(w))
    BY DEF Width, Filled, Slots
  <1>2. full \in States /\ full # Failed /\ full.run # NoRun
    <2>1. Filled(w) \in SUBSET Slots
      BY DEF Filled
    <2> QED
      BY <2>1, PartIs DEF Full
  <1>3. /\ full.run.inpcb = socket /\ DOMAIN full.run.slot = Filled(w)
        /\ \A q \in Filled(w) : full.run.slot[q] = socket
        /\ full.rows = RowsOf(sockets, k - 1)
    BY DEF Full, Part
  <1> HIDE DEF full
  <1>4. Sound(full.run, tcp)
    BY <1>1, <1>3 DEF Sound
  <1>5. Row(full.run, tcp) = Plain(socket)
    <2>1. socket \in Socket
      OBVIOUS
    <2>2. CASE socket.detached
      BY <1>1, <1>3, <2>2 DEF Row, Plain
    <2>3. CASE ~socket.detached
      <3>1. socket.listens \in BOOLEAN /\ socket.connected = ~socket.listens
        BY <2>1 DEF Socket
      <3> HIDE DEF socket
      <3>2. (full.run.inpcb.port # 0 /\ IF tcp THEN full.run.slot["tcpcb"].listens
                                               ELSE ~full.run.inpcb.connected)
              = (socket.port # 0 /\ socket.listens)
        BY <1>1, <1>3, <3>1
      <3> QED
        BY <1>1, <1>3, <2>3, <3>2 DEF Row, Plain
    <2> QED
      BY <2>2, <2>3
  <1>6. Append(RowsOf(sockets, k - 1), Plain(socket)) = RowsOf(sockets, k)
    BY ReadIs
  <1>7. Close(full, tcp) = [at |-> "closed", run |-> NoRun,
                            rows |-> Append(full.rows, Row(full.run, tcp))]
    BY <1>2, <1>4, CloseIs
  <1> QED
    BY <1>3, <1>5, <1>6, <1>7 DEF full

\* The first record of a socket ends the run of the one before.
LEMMA Opens ==
  ASSUME NEW sockets \in Seq(Socket), NEW tcp \in BOOLEAN, NEW k \in 1..Len(sockets),
         NEW x, x.at = "open",
         Close(x, tcp) = [at |-> "closed", run |-> NoRun, rows |-> RowsOf(sockets, k - 1)]
  PROVE  Step(tcp, x, [kind |-> Layout(tcp)[1], of |-> sockets[k]]) = Full(sockets, k, 1)
  <1> DEFINE y == [at |-> "closed", run |-> NoRun, rows |-> RowsOf(sockets, k - 1)]
             record == [kind |-> "inpcb", of |-> sockets[k]]
  <1>1. Step(tcp, x, record) = Reopen(y, sockets[k])
    BY DEF Step, Slots
  <1>2. y # Failed
    BY DEF Failed
  <1>3. <<>> = [q \in Filled(1) |-> sockets[k]]
    BY DEF Filled
  <1>4. Reopen(y, sockets[k]) = Full(sockets, k, 1)
    BY <1>2, <1>3 DEF Reopen, NewRun, Full, Part
  <1> QED
    BY <1>1, <1>4, LayoutIs

\* On a table as it was written the parser reads each socket.
LEMMA Intact ==
  ASSUME NEW sockets \in Seq(Socket), NEW tcp \in BOOLEAN,
         NEW run, Trace(Table(sockets, tcp), tcp, run)
  PROVE  /\ run[0] = Start
         /\ \A k \in 1..Len(sockets), j \in 1..Width(tcp) :
              run[At(tcp, k, j)] = Full(sockets, k, j)
         /\ run[At(tcp, Len(sockets) + 1, 1)] = Over(sockets)
  <1> DEFINE n == Len(sockets)
             w == Width(tcp)
             t == Table(sockets, tcp)
             end(k) == IF k = 0 THEN 0 ELSE At(tcp, k, w)
  <1>1. n \in Nat /\ w \in 4..5 /\ run[0] = Start
    BY AtSteps DEF Trace
  <1>10. At(tcp, n + 1, 1) \in Nat \ {0}
    <2>1. n + 1 \in Nat \ {0} /\ 1 \in 1..Width(tcp)
      BY <1>1
    <2> QED
      BY <2>1, AtSteps
  <1>2. \A p \in 1..At(tcp, n + 1, 1) : run[p] = Step(tcp, run[p-1], t[p])
    BY TableIs DEF Trace
  <1>3. ASSUME NEW k \in 1..n, NEW j \in 1..w
        PROVE  /\ At(tcp, k, j) \in 1..At(tcp, n + 1, 1)
               /\ t[At(tcp, k, j)] = [kind |-> Layout(tcp)[j], of |-> sockets[k]]
    <2>1. k \in Nat \ {0} /\ k <= n /\ j \in 1..Width(tcp)
      BY <1>1
    <2>2. At(tcp, k, j) \in Nat \ {0} /\ At(tcp, k, j) < At(tcp, n + 1, 1)
      BY <1>1, <2>1, AtBefore, AtSteps
    <2>3. At(tcp, n + 1, 1) \in Nat
      BY <1>10
    <2>4. t[At(tcp, k, j)] = [kind |-> Layout(tcp)[j], of |-> sockets[k]]
      BY TableIs
    <2> HIDE DEF t, w, n
    <2> QED
      BY <2>2, <2>3, <2>4
  <1> DEFINE Whole(k) == \A j \in 1..w : run[At(tcp, k, j)] = Full(sockets, k, j)
             Closes(k) == /\ run[At(tcp, k + 1, 1) - 1].at = "open"
                          /\ Close(run[At(tcp, k + 1, 1) - 1], tcp)
                               = [at |-> "closed", run |-> NoRun, rows |-> RowsOf(sockets, k)]
  <1> HIDE DEF t
  <1>4. Closes(0)
    <2>1. At(tcp, 1, 1) - 1 = 0
      BY AtSteps
    <2>2. Start.at = "open" /\ Close(Start, tcp) = [at |-> "closed", run |-> NoRun, rows |-> <<>>]
      BY DEF Start, Close
    <2> QED
      BY <1>1, <2>1, <2>2, ReadIs
  <1>5. ASSUME NEW k \in 1..n, Closes(k - 1) PROVE Whole(k) /\ Closes(k)
    <2> DEFINE G == {j \in Nat : j \in 1..w => run[At(tcp, k, j)] = Full(sockets, k, j)}
    <2>1. run[At(tcp, k, 1)] = Full(sockets, k, 1)
      <3>1. 1 \in 1..w /\ (k - 1) + 1 = k
        BY <1>1
      <3>2. /\ At(tcp, k, 1) \in 1..At(tcp, n + 1, 1)
            /\ t[At(tcp, k, 1)] = [kind |-> Layout(tcp)[1], of |-> sockets[k]]
        BY <1>3, <3>1
      <3>3. run[At(tcp, k, 1)] = Step(tcp, run[At(tcp, k, 1) - 1], t[At(tcp, k, 1)])
        BY <1>2, <3>2
      <3>4. /\ run[At(tcp, k, 1) - 1].at = "open"
            /\ Close(run[At(tcp, k, 1) - 1], tcp)
                 = [at |-> "closed", run |-> NoRun, rows |-> RowsOf(sockets, k - 1)]
        BY <1>5, <3>1
      <3> HIDE DEF n, w
      <3> QED
        BY <3>2, <3>3, <3>4, Opens DEF n
    <2>2. 0 \in G
      OBVIOUS
    <2>3. ASSUME NEW j \in Nat, j \in G PROVE j + 1 \in G
      <3>1. CASE j = 0
        BY <2>1, <3>1
      <3>2. CASE j # 0 /\ j + 1 \in 1..w
        <4>1. j \in 1..w /\ j < w
          BY <1>1, <3>2
        <4>2. run[At(tcp, k, j)] = Full(sockets, k, j)
          BY <2>3, <4>1
        <4>3. At(tcp, k, j) + 1 = At(tcp, k, j + 1) /\ At(tcp, k, j) \in Nat
          BY <4>1, AtSteps
        <4>4. /\ At(tcp, k, j + 1) \in 1..At(tcp, n + 1, 1)
              /\ t[At(tcp, k, j + 1)] = [kind |-> Layout(tcp)[j + 1], of |-> sockets[k]]
          BY <1>3, <3>2
        <4>5. run[At(tcp, k, j + 1)] = Step(tcp, run[At(tcp, k, j + 1) - 1], t[At(tcp, k, j + 1)])
          BY <1>2, <4>4
        <4>6. At(tcp, k, j + 1) - 1 = At(tcp, k, j)
          BY <4>3
        <4>7. run[At(tcp, k, j + 1)] = Full(sockets, k, j + 1)
          BY <4>1, <4>2, <4>4, <4>5, <4>6, FullNext
        <4> QED
          BY <4>7
      <3>3. CASE j + 1 \notin 1..w
        BY <3>3
      <3> QED
        BY <3>1, <3>2, <3>3
    <2>4. Nat \subseteq G
      <3> HIDE DEF G
      <3> QED
        BY <2>2, <2>3, Inductive
    <2>5. Whole(k)
      BY <1>1, <2>4
    <2>6. Closes(k)
      <3>1. w \in 1..w /\ At(tcp, k, w) + 1 = At(tcp, k + 1, 1) /\ At(tcp, k, w) \in Nat
        <4>1. w \in 1..w /\ k \in Nat \ {0} /\ w = Width(tcp)
          BY <1>1
        <4> QED
          BY <4>1, AtSteps
      <3>2. At(tcp, k + 1, 1) - 1 = At(tcp, k, w)
        BY <3>1
      <3>3. run[At(tcp, k, w)] = Full(sockets, k, w)
        BY <2>5, <3>1
      <3>4. Full(sockets, k, w).at = "open"
        BY DEF Full, Part
      <3> QED
        BY <3>2, <3>3, <3>4, FullClose
    <2> QED
      BY <2>5, <2>6
  <1>6. \A k \in 0..n : Closes(k)
    <2> DEFINE G == {k \in Nat : k \in 0..n => Closes(k)}
    <2> HIDE DEF Closes, Whole
    <2>1. 0 \in G
      BY <1>4
    <2>2. ASSUME NEW k \in Nat, k \in G PROVE k + 1 \in G
      <3>1. CASE k + 1 \in 0..n
        <4>1. k + 1 \in 1..n /\ k \in 0..n /\ (k + 1) - 1 = k
          BY <1>1, <3>1
        <4>2. Closes((k + 1) - 1)
          BY <2>2, <4>1
        <4> QED
          BY <1>5, <4>1, <4>2
      <3> QED
        BY <3>1
    <2>3. Nat \subseteq G
      <3> HIDE DEF G
      <3> QED
        BY <2>1, <2>2, Inductive
    <2> QED
      BY <2>3
  <1>7. \A k \in 1..n : Whole(k)
    <2> HIDE DEF Closes, Whole
    <2>1. \A k \in 1..n : k - 1 \in 0..n
      BY <1>1
    <2> QED
      BY <1>5, <1>6, <2>1
  <1>8. run[At(tcp, n + 1, 1)] = Over(sockets)
    <2> DEFINE x == run[At(tcp, n + 1, 1) - 1]
    <2>1. n \in 0..n /\ At(tcp, n + 1, 1) \in 1..At(tcp, n + 1, 1)
      BY <1>1, <1>10
    <2>2. /\ x.at = "open"
          /\ Close(x, tcp) = [at |-> "closed", run |-> NoRun, rows |-> RowsOf(sockets, n)]
      BY <1>6, <2>1
    <2>3. run[At(tcp, n + 1, 1)] = Step(tcp, x, Closing)
      BY <1>2, <2>1, TableIs DEF t
    <2> HIDE DEF x
    <2>4. Step(tcp, x, Closing) = Close(x, tcp)
      BY <2>2 DEF Step, Closing, Slots
    <2> QED
      BY <2>2, <2>3, <2>4, ReadIs DEF Over
  <1> QED
    BY <1>1, <1>7, <1>8

-----------------------------------------------------------------------------
(* The parser on a damaged table.                                          *)

\* A parser that is behind another has failed, is where the other is, or lacks
\* part of the run that the other has.
Lacks(y, x) ==
  /\ y.at = "open" /\ x.at = "open" /\ y.rows = x.rows
  /\ y.run \in Runs /\ x.run \in Runs /\ y.run.inpcb = x.run.inpcb
  /\ \A q \in DOMAIN y.run.slot : q \in DOMAIN x.run.slot /\ y.run.slot[q] = x.run.slot[q]
Behind(y, x) == y = Failed \/ y = x \/ Lacks(y, x)

\* A parser that failed goes on failing.
LEMMA FailedStays ==
  ASSUME NEW tcp, NEW record
  PROVE  Step(tcp, Failed, record) = Failed /\ Failed \in States /\ Failed.at = "failed"
  BY DEF Step, Failed, States

\* With part of a run the parser cannot close or gives the same row.
LEMMA LacksCloses ==
  ASSUME NEW x \in States, NEW y \in States, NEW tcp \in BOOLEAN, Lacks(y, x)
  PROVE  Close(y, tcp) = Failed \/ Close(y, tcp) = Close(x, tcp)
  <1>1. x # Failed /\ y # Failed
    BY FailedStays DEF Lacks
  <1>2. x.run # NoRun /\ y.run # NoRun
    BY RunIs DEF Lacks
  <1>3. SUFFICES ASSUME Sound(y.run, tcp) PROVE Close(y, tcp) = Close(x, tcp)
    BY <1>1, <1>2, CloseIs
  <1>4. Sound(x.run, tcp) /\ Row(x.run, tcp) = Row(y.run, tcp)
    BY <1>3 DEF Lacks, Sound, Row
  <1> QED
    BY <1>1, <1>2, <1>3, <1>4, CloseIs DEF Lacks

\* A record read by both leaves the one behind the other.
LEMMA BehindStep ==
  ASSUME NEW x \in States, NEW y \in States, NEW tcp \in BOOLEAN, NEW record \in Records,
         Behind(y, x), Step(tcp, x, record) # Failed
  PROVE  Behind(Step(tcp, y, record), Step(tcp, x, record))
  <1>1. CASE y = Failed \/ y = x
    BY <1>1, FailedStays DEF Behind
  <1>2. CASE Lacks(y, x)
    <2>1. y.at = "open" /\ x.at = "open" /\ x # Failed /\ y # Failed
      BY <1>2, FailedStays DEF Lacks
    <2>2. x.run \in Runs /\ y.run \in Runs /\ x.run # NoRun /\ y.run # NoRun
      BY <1>2, RunIs DEF Lacks
    <2>3. CASE record.kind = "closing"
      <3>1. Step(tcp, y, record) = Close(y, tcp) /\ Step(tcp, x, record) = Close(x, tcp)
        BY <2>1, <2>3 DEF Step, Slots
      <3> QED
        BY <1>2, <3>1, LacksCloses DEF Behind
    <2>4. CASE record.kind = "inpcb"
      <3>1. /\ Step(tcp, y, record) = Reopen(Close(y, tcp), record.of)
            /\ Step(tcp, x, record) = Reopen(Close(x, tcp), record.of)
        BY <2>1, <2>4 DEF Step, Slots
      <3>2. Reopen(Failed, record.of) = Failed
        BY DEF Reopen
      <3> QED
        BY <1>2, <3>1, <3>2, LacksCloses DEF Behind
    <2>5. CASE record.kind \in Slots
      <3>1. Step(tcp, y, record) = Accept(y, record) /\ Step(tcp, x, record) = Accept(x, record)
        BY <2>1, <2>5 DEF Step, Slots
      <3>2. record.kind \notin DOMAIN x.run.slot
        BY <2>2, <3>1 DEF Accept
      <3>3. record.kind \notin DOMAIN y.run.slot
        BY <1>2, <3>2 DEF Lacks
      <3> DEFINE moreX == Fill(x.run, record)
                 moreY == Fill(y.run, record)
                 nextX == [x EXCEPT !.run = moreX]
                 nextY == [y EXCEPT !.run = moreY]
      <3>4. Accept(x, record) = nextX /\ Accept(y, record) = nextY
        BY <2>2, <3>2, <3>3 DEF Accept
      <3>5. /\ moreX \in Runs /\ moreY \in Runs
            /\ moreX.inpcb = x.run.inpcb /\ moreY.inpcb = y.run.inpcb
            /\ DOMAIN moreX.slot = DOMAIN x.run.slot \cup {record.kind}
            /\ DOMAIN moreY.slot = DOMAIN y.run.slot \cup {record.kind}
            /\ \A k \in DOMAIN moreX.slot :
                 moreX.slot[k] = IF k = record.kind THEN record.of ELSE x.run.slot[k]
            /\ \A k \in DOMAIN moreY.slot :
                 moreY.slot[k] = IF k = record.kind THEN record.of ELSE y.run.slot[k]
        <4>1. moreX \in Runs /\ moreY \in Runs
          BY <2>2, <2>5, FillIs
        <4>2. \A r \in Runs : LET more == Fill(r, record) IN
                /\ more.inpcb = r.inpcb
                /\ DOMAIN more.slot = DOMAIN r.slot \cup {record.kind}
                /\ \A k \in DOMAIN more.slot :
                     more.slot[k] = IF k = record.kind THEN record.of ELSE r.slot[k]
          <5> SUFFICES ASSUME NEW r \in Runs
                       PROVE  LET more == Fill(r, record) IN
                              /\ more.inpcb = r.inpcb
                              /\ DOMAIN more.slot = DOMAIN r.slot \cup {record.kind}
                              /\ \A k \in DOMAIN more.slot :
                                   more.slot[k] = IF k = record.kind THEN record.of ELSE r.slot[k]
            OBVIOUS
          <5> DEFINE more == Fill(r, record)
          <5>1. more = [inpcb |-> r.inpcb, slot |-> more.slot]
            BY <2>5, FillIs
          <5>2. more.inpcb = r.inpcb
            <6> HIDE DEF more
            <6> QED
              BY <5>1
          <5> QED
            BY <2>5, <5>2, FillIs
        <4> QED
          BY <2>2, <4>1, <4>2
      <3> HIDE DEF moreX, moreY
      <3>6. /\ nextX.at = "open" /\ nextX.rows = x.rows /\ nextX.run = moreX
            /\ nextY.at = "open" /\ nextY.rows = y.rows /\ nextY.run = moreY
        <4>1. \A z \in States : z # Failed => \A r :
                LET next == [z EXCEPT !.run = r]
                IN next.at = z.at /\ next.rows = z.rows /\ next.run = r
          BY StateIs
        <4> QED
          BY <2>1, <4>1
      <3> HIDE DEF nextX, nextY
      <3>7. \A q \in DOMAIN moreY.slot : q \in DOMAIN moreX.slot /\ moreY.slot[q] = moreX.slot[q]
        BY <1>2, <3>5 DEF Lacks
      <3>8. Lacks(nextY, nextX)
        BY <1>2, <3>5, <3>6, <3>7 DEF Lacks
      <3> QED
        BY <3>1, <3>4, <3>8 DEF Behind
    <2>6. CASE record.kind = "buffer"
      <3>1. Step(tcp, y, record) = y /\ Step(tcp, x, record) = x
        BY <2>1, <2>2, <2>6 DEF Step, Slots
      <3> QED
        BY <1>2, <3>1 DEF Behind
    <2>7. CASE record.kind = "bad"
      BY <2>1, <2>7 DEF Step, Slots
    <2> QED
      BY <2>3, <2>4, <2>5, <2>6, <2>7 DEF Records, Kinds, Slots
  <1> QED
    BY <1>1, <1>2 DEF Behind

\* Two tables that are the same from some place on: who is behind there still
\* is at the end.
LEMMA Follow ==
  ASSUME NEW tcp \in BOOLEAN, NEW t \in Seq(Records), NEW s \in Seq(Records),
         NEW run, Trace(t, tcp, run), \A p \in 0..Len(t) : run[p] # Failed,
         NEW other, Trace(s, tcp, other),
         NEW a \in 0..Len(s), NEW b \in 0..Len(t), Len(s) - a = Len(t) - b,
         \A q \in 1..(Len(t) - b) : s[a + q] = t[b + q],
         Behind(other[a], run[b])
  PROVE  Behind(other[Len(s)], run[Len(t)])
  <1> DEFINE n == Len(t)
             m == Len(s)
             G == {q \in Nat : q \in 0..(n - b) => Behind(other[a + q], run[b + q])}
  <1>1. n \in Nat /\ m \in Nat /\ a \in Nat /\ b \in Nat /\ b <= n /\ a <= m /\ m - a = n - b
    OBVIOUS
  <1>2. 0 \in G
    <2>1. a + 0 = a /\ b + 0 = b
      BY <1>1
    <2> QED
      BY <2>1
  <1>3. ASSUME NEW q \in Nat, q \in G PROVE q + 1 \in G
    <2>1. CASE q + 1 \in 0..(n - b)
      <3>1. /\ q \in 0..(n - b) /\ q + 1 \in 1..(n - b)
            /\ a + (q + 1) \in 1..m /\ b + (q + 1) \in 1..n
            /\ (a + (q + 1)) - 1 = a + q /\ (b + (q + 1)) - 1 = b + q
            /\ b + (q + 1) \in 0..n
        BY <1>1, <2>1
      <3>2. Behind(other[a + q], run[b + q])
        BY <1>3, <3>1
      <3>3. /\ run[b + q] \in States
            /\ run[b + (q + 1)] = Step(tcp, run[b + q], t[b + (q + 1)])
        BY <3>1 DEF Trace
      <3>4. /\ other[a + q] \in States
            /\ other[a + (q + 1)] = Step(tcp, other[a + q], s[a + (q + 1)])
        BY <3>1 DEF Trace
      <3>5. s[a + (q + 1)] = t[b + (q + 1)] /\ t[b + (q + 1)] \in Records
        <4>1. t[b + (q + 1)] \in Records
          BY <3>1
        <4>2. q + 1 \in 1..(Len(t) - b)
          BY <3>1
        <4> HIDE DEF n, m
        <4> QED
          BY <4>1, <4>2
      <3>6. run[b + (q + 1)] # Failed
        BY <3>1
      <3>7. Behind(other[a + (q + 1)], run[b + (q + 1)])
        BY <3>2, <3>3, <3>4, <3>5, <3>6, BehindStep
      <3> QED
        BY <3>7
    <2> QED
      BY <2>1
  <1>4. Nat \subseteq G
    <2> HIDE DEF G
    <2> QED
      BY <1>2, <1>3, Inductive
  <1>5. n - b \in 0..(n - b) /\ a + (n - b) = m /\ b + (n - b) = n /\ n - b \in Nat
    BY <1>1
  <1>6. Behind(other[a + (n - b)], run[b + (n - b)])
    BY <1>4, <1>5
  <1> QED
    BY <1>5, <1>6

\* Two tables that are the same up to some place are read the same up to it.
LEMMA Prefix ==
  ASSUME NEW tcp \in BOOLEAN, NEW t \in Seq(Records), NEW s \in Seq(Records),
         NEW run, Trace(t, tcp, run), NEW other, Trace(s, tcp, other),
         NEW m \in Nat, m <= Len(t), m <= Len(s), \A p \in 1..m : s[p] = t[p]
  PROVE  other[m] = run[m]
  <1> DEFINE G == {p \in Nat : p <= m => other[p] = run[p]}
  <1>0. Len(t) \in Nat /\ Len(s) \in Nat
    OBVIOUS
  <1>1. 0 \in G
    BY DEF Trace
  <1>2. ASSUME NEW p \in Nat, p \in G PROVE p + 1 \in G
    <2>1. CASE p + 1 <= m
      <3>1. /\ p + 1 \in 1..Len(t) /\ p + 1 \in 1..Len(s) /\ (p + 1) - 1 = p
            /\ p + 1 \in 1..m /\ p <= m
        BY <1>0, <2>1
      <3>2. /\ run[p + 1] = Step(tcp, run[(p + 1) - 1], t[p + 1])
            /\ other[p + 1] = Step(tcp, other[(p + 1) - 1], s[p + 1])
        BY <3>1 DEF Trace
      <3> QED
        BY <1>2, <3>1, <3>2
    <2> QED
      BY <2>1
  <1>3. Nat \subseteq G
    <2> HIDE DEF G
    <2> QED
      BY <1>1, <1>2, Inductive
  <1> QED
    BY <1>3

\* A run that has a record of some kind is refused at the next one.
Has(x, kind) ==
  x = Failed \/ (x.at = "open" /\ x.run \in Runs /\ kind \in DOMAIN x.run.slot)

\* A run that has a slot filled keeps it until it is over.
LEMMA HasStep ==
  ASSUME NEW x \in States, NEW tcp \in BOOLEAN, NEW record \in Records,
         NEW kind \in Slots, Has(x, kind), record.kind \in Slots \cup {"buffer"}
  PROVE  /\ Has(Step(tcp, x, record), kind)
         /\ record.kind = kind => Step(tcp, x, record) = Failed
  <1>1. CASE x = Failed
    BY <1>1, FailedStays DEF Has
  <1>2. CASE x # Failed
    <2>1. x.at = "open" /\ x.run \in Runs /\ x.run # NoRun /\ kind \in DOMAIN x.run.slot
      BY <1>2, RunIs DEF Has
    <2>2. CASE record.kind = "buffer"
      <3>1. Step(tcp, x, record) = x /\ kind # "buffer"
        BY <2>1, <2>2 DEF Step, Slots
      <3> QED
        BY <2>1, <2>2, <3>1 DEF Has
    <2>3. CASE record.kind \in Slots
      <3>1. Step(tcp, x, record) = Accept(x, record)
        BY <2>1, <2>3 DEF Step, Slots
      <3>2. CASE record.kind \in DOMAIN x.run.slot
        <4>1. Accept(x, record) = Failed
          BY <3>2 DEF Accept
        <4> QED
          BY <3>1, <4>1 DEF Has
      <3>3. CASE record.kind \notin DOMAIN x.run.slot
        <4> DEFINE more == Fill(x.run, record)
                   next == [x EXCEPT !.run = more]
        <4>1. Accept(x, record) = next
          BY <2>1, <3>3 DEF Accept
        <4>2. more \in Runs /\ kind \in DOMAIN more.slot
          BY <2>1, <2>3, FillIs
        <4> HIDE DEF more
        <4>3. next.at = "open" /\ next.run = more
          BY <1>2, <2>1, StateIs
        <4> HIDE DEF next
        <4> QED
          BY <2>1, <3>1, <3>3, <4>1, <4>2, <4>3 DEF Has
      <3> QED
        BY <3>2, <3>3
    <2> QED
      BY <2>2, <2>3
  <1> QED
    BY <1>1, <1>2

\* Where a record of a written table is, what it is and what the parser has
\* read with it.
Before(sockets, tcp, k, j) ==
  IF j > 1 THEN Full(sockets, k, j - 1)
  ELSE IF k > 1 THEN Full(sockets, k - 1, Width(tcp)) ELSE Start

Spot(sockets, tcp, t, run, k, j, i) ==
  /\ i \in 1..(Len(t) - 1)
  /\ t[i] = [kind |-> Layout(tcp)[j], of |-> sockets[k]]
  /\ run[i] = Full(sockets, k, j)
  /\ run[i - 1] = Before(sockets, tcp, k, j)
  /\ j < Width(tcp) => /\ i + 1 = At(tcp, k, j + 1)
                       /\ t[i + 1] = [kind |-> Layout(tcp)[j + 1], of |-> sockets[k]]
                       /\ run[i + 1] = Full(sockets, k, j + 1)
  /\ j = Width(tcp) /\ k < Len(sockets) =>
       /\ i + 1 = At(tcp, k + 1, 1)
       /\ t[i + 1] = [kind |-> "inpcb", of |-> sockets[k + 1]]
       /\ run[i + 1] = Full(sockets, k + 1, 1)
  /\ j = Width(tcp) /\ k = Len(sockets) =>
       i + 1 = Len(t) /\ t[i + 1] = Closing /\ run[i + 1] = Over(sockets)

\* The parser at any record of a written table.
LEMMA Here ==
  ASSUME NEW sockets \in Seq(Socket), NEW tcp \in BOOLEAN, NEW t, t = Table(sockets, tcp),
         NEW run, Trace(t, tcp, run),
         NEW k \in 1..Len(sockets), NEW j \in 1..Width(tcp), NEW i, i = At(tcp, k, j)
  PROVE  Spot(sockets, tcp, t, run, k, j, i)
  <1> DEFINE n == Len(sockets)
             w == Width(tcp)
  <1>1. n \in Nat /\ w \in 4..5 /\ Len(t) = At(tcp, n + 1, 1) /\ t[Len(t)] = Closing
    BY TableIs, AtSteps
  <1>2. \A x \in 1..n, y \in 1..w :
          /\ t[At(tcp, x, y)] = [kind |-> Layout(tcp)[y], of |-> sockets[x]]
          /\ run[At(tcp, x, y)] = Full(sockets, x, y)
    BY TableIs, Intact
  <1>3. run[0] = Start /\ run[Len(t)] = Over(sockets)
    BY <1>1, Intact
  <1>4. k \in Nat \ {0} /\ k <= n
    BY <1>1
  <1>5. i \in Nat \ {0} /\ i < Len(t) /\ Len(t) \in Nat
    <2>1. n + 1 \in Nat \ {0} /\ 1 \in 1..Width(tcp)
      BY <1>1
    <2> HIDE DEF n, w
    <2> QED
      BY <1>1, <1>4, <2>1, AtBefore, AtSteps
  <1>6. run[i - 1] = Before(sockets, tcp, k, j)
    <2>1. CASE j > 1
      <3>1. j - 1 \in 1..w /\ j - 1 < w /\ (j - 1) + 1 = j
        BY <1>1, <2>1
      <3>2. At(tcp, k, j - 1) + 1 = At(tcp, k, j) /\ At(tcp, k, j - 1) \in Nat
        BY <1>4, <3>1, AtSteps
      <3>3. i - 1 = At(tcp, k, j - 1)
        BY <3>2
      <3> QED
        BY <1>2, <2>1, <3>1, <3>3 DEF Before
    <2>2. CASE j = 1 /\ k > 1
      <3>1. k - 1 \in 1..n /\ k - 1 \in Nat \ {0} /\ w \in 1..w /\ (k - 1) + 1 = k
        BY <1>1, <1>4, <2>2
      <3>2. At(tcp, k - 1, w) + 1 = At(tcp, k, 1) /\ At(tcp, k - 1, w) \in Nat
        <4>1. At(tcp, k - 1, w) + 1 = At(tcp, (k - 1) + 1, 1) /\ At(tcp, k - 1, w) \in Nat
          <5> DEFINE m == k - 1
          <5>1. m \in Nat \ {0} /\ w \in 1..w
            BY <3>1
          <5> HIDE DEF m
          <5>2. At(tcp, m, w) + 1 = At(tcp, m + 1, 1) /\ At(tcp, m, w) \in Nat
            BY <5>1, AtSteps
          <5> QED
            BY <5>2 DEF m
        <4> QED
          BY <3>1, <4>1
      <3>3. i - 1 = At(tcp, k - 1, w)
        BY <2>2, <3>2
      <3> QED
        <4>1. run[i - 1] = Full(sockets, k - 1, w)
          BY <1>2, <3>1, <3>3
        <4>2. Before(sockets, tcp, k, j) = Full(sockets, k - 1, w)
          BY <2>2 DEF Before
        <4> QED
          BY <4>1, <4>2
    <2>3. CASE j = 1 /\ k = 1
      <3>1. i = 1
        BY <2>3, AtSteps
      <3> QED
        BY <1>3, <2>3, <3>1 DEF Before
    <2> QED
      BY <1>1, <1>4, <2>1, <2>2, <2>3
  <1>7. ASSUME j < w
        PROVE  /\ i + 1 = At(tcp, k, j + 1)
               /\ t[i + 1] = [kind |-> Layout(tcp)[j + 1], of |-> sockets[k]]
               /\ run[i + 1] = Full(sockets, k, j + 1)
    <2>1. j + 1 \in 1..w
      BY <1>1, <1>7
    <2>2. i + 1 = At(tcp, k, j + 1)
      BY <1>4, <1>7, AtSteps
    <2> QED
      BY <1>2, <2>1, <2>2
  <1>8. ASSUME j = w PROVE i + 1 = At(tcp, k + 1, 1)
    BY <1>4, <1>8, AtSteps
  <1>9. ASSUME j = w, k < n
        PROVE  /\ t[i + 1] = [kind |-> "inpcb", of |-> sockets[k + 1]]
               /\ run[i + 1] = Full(sockets, k + 1, 1)
    <2>1. k + 1 \in 1..n /\ 1 \in 1..w /\ Layout(tcp)[1] = "inpcb"
      BY <1>1, <1>4, <1>9, LayoutIs
    <2> QED
      BY <1>2, <1>8, <1>9, <2>1
  <1>10. ASSUME j = w, k = n
         PROVE  i + 1 = Len(t) /\ t[i + 1] = Closing /\ run[i + 1] = Over(sockets)
    BY <1>1, <1>3, <1>8, <1>10
  <1> HIDE DEF n, w
  <1>11. i \in 1..(Len(t) - 1)
    BY <1>5
  <1>12. t[i] = [kind |-> Layout(tcp)[j], of |-> sockets[k]] /\ run[i] = Full(sockets, k, j)
    BY <1>2 DEF n, w
  <1> QED
    BY <1>6, <1>7, <1>8, <1>9, <1>10, <1>11, <1>12 DEF n, w, Spot

\* Every record but the closing header is some record of some socket.
LEMMA Where ==
  ASSUME NEW sockets \in Seq(Socket), NEW tcp \in BOOLEAN,
         NEW i \in 1..(Len(Table(sockets, tcp)) - 1)
  PROVE  \E k \in 1..Len(sockets), j \in 1..Width(tcp) : i = At(tcp, k, j)
  <1> DEFINE n == Len(sockets)
  <1>1. n \in Nat /\ Len(Table(sockets, tcp)) = At(tcp, n + 1, 1)
    BY TableIs
  <1>2. At(tcp, n + 1, 1) \in Nat
    <2>1. n + 1 \in Nat \ {0} /\ 1 \in 1..Width(tcp)
      BY <1>1, AtSteps
    <2> QED
      BY <2>1, AtSteps
  <1>3. i \in Nat \ {0} /\ i < At(tcp, n + 1, 1)
    BY <1>1, <1>2
  <1>4. PICK k \in Nat \ {0}, j \in 1..Width(tcp) : i = At(tcp, k, j)
    BY <1>3, AtAll
  <1>5. k <= n
    BY <1>1, <1>3, <1>4, AtBefore
  <1>6. k \in 1..n
    BY <1>1, <1>5
  <1> QED
    BY <1>4, <1>6

\* What the parser had read before it.
LEMMA BeforeIs ==
  ASSUME NEW sockets \in Seq(Socket), NEW tcp \in BOOLEAN,
         NEW k \in 1..Len(sockets), NEW j \in 1..Width(tcp)
  PROVE  LET x == Before(sockets, tcp, k, j) IN
         /\ x \in States /\ x.at = "open" /\ x # Failed
         /\ x.run = NoRun \/ (x.run \in Runs /\ (j # 2 => "socket" \in DOMAIN x.run.slot))
         /\ j = 1 => x = Start \/ "socket" \in DOMAIN x.run.slot
  <1>1. Width(tcp) \in 4..5
    BY AtSteps
  <1>2. Start \in States /\ Start.at = "open" /\ Start.run = NoRun /\ Start # Failed
    BY DEF Start, States, Failed
  <1>3. ASSUME NEW m \in 1..Len(sockets), NEW h \in 1..5
        PROVE  /\ Full(sockets, m, h) \in States /\ Full(sockets, m, h).at = "open"
               /\ Full(sockets, m, h) # Failed /\ Full(sockets, m, h).run \in Runs
               /\ h >= 2 => "socket" \in DOMAIN Full(sockets, m, h).run.slot
    <2>1. Filled(h) \in SUBSET Slots /\ (h >= 2 => "socket" \in Filled(h))
      BY DEF Filled, Slots
    <2> QED
      BY <2>1, PartIs DEF Full
  <1>4. CASE j > 1
    <2>1. j - 1 \in 1..5 /\ (j # 2 => j - 1 >= 2)
      BY <1>1, <1>4
    <2> QED
      BY <1>3, <1>4, <2>1 DEF Before
  <1>5. CASE j = 1 /\ k > 1
    <2>1. k - 1 \in 1..Len(sockets) /\ Width(tcp) \in 1..5 /\ Width(tcp) >= 2
      BY <1>1, <1>5
    <2> QED
      BY <1>3, <1>5, <2>1 DEF Before
  <1>6. CASE j = 1 /\ k = 1
    BY <1>2, <1>6 DEF Before
  <1> QED
    BY <1>1, <1>4, <1>5, <1>6

\* The parser never fails on a table as it was written, and is done only at its
\* end.
LEMMA NeverFails ==
  ASSUME NEW sockets \in Seq(Socket), NEW tcp \in BOOLEAN, NEW t, t = Table(sockets, tcp),
         NEW run, Trace(t, tcp, run)
  PROVE  /\ \A p \in 0..Len(t) : run[p] # Failed
         /\ \A p \in 0..(Len(t) - 1) : run[p].at = "open"
         /\ Len(t) \in Nat \ {0} /\ run[Len(t)] = Over(sockets)
  <1>1. Len(t) \in Nat \ {0} /\ run[0] = Start /\ run[Len(t)] = Over(sockets)
    <2>1. Len(sockets) + 1 \in Nat \ {0} /\ 1 \in 1..Width(tcp)
      BY TableIs, AtSteps
    <2> QED
      BY <2>1, TableIs, AtSteps, Intact
  <1>2. Start # Failed /\ Start.at = "open" /\ Over(sockets) # Failed
    BY DEF Start, Over, Failed
  <1>3. ASSUME NEW p \in 1..(Len(t) - 1) PROVE run[p] # Failed /\ run[p].at = "open"
    <2>1. PICK k \in 1..Len(sockets), j \in 1..Width(tcp) : p = At(tcp, k, j)
      BY Where
    <2>2. run[p] = Full(sockets, k, j) /\ Filled(j) \in SUBSET Slots
      BY <2>1, Intact, FilledIs
    <2> QED
      BY <2>2, PartIs DEF Full
  <1> QED
    BY <1>1, <1>2, <1>3

\* What is demanded of a table that is not as it was written.
Meant(sockets, x) == x.at = "closed" => x.rows = Expected(sockets)

\* A parser behind one that has read the table gives its rows if any.
LEMMA BehindIsMeant ==
  ASSUME NEW sockets, NEW y, Behind(y, Over(sockets))
  PROVE  Meant(sockets, y)
  BY FailedStays DEF Behind, Lacks, Over, Meant

\* A record for a slot is refused before the first socket and once there is one.
LEMMA Refused ==
  ASSUME NEW x \in States, NEW tcp \in BOOLEAN, NEW record, x.at = "open",
         record.kind \in Slots, x.run = NoRun \/ record.kind \in DOMAIN x.run.slot
  PROVE  Step(tcp, x, record) = Failed
  BY DEF Step, Accept, Slots

\* With fewer records of a socket a parser lacks some of them.
LEMMA FullLacks ==
  ASSUME NEW sockets \in Seq(Socket), NEW k \in 1..Len(sockets),
         NEW h \in 1..5, NEW j \in 1..5, h <= j
  PROVE  Lacks(Full(sockets, k, h), Full(sockets, k, j))
  <1>1. /\ Filled(h) \in SUBSET Slots /\ Filled(j) \in SUBSET Slots
        /\ Filled(h) \subseteq Filled(j)
    BY DEF Filled
  <1> DEFINE y == Part(sockets, k, Filled(h))
             x == Part(sockets, k, Filled(j))
  <1>2. /\ y.at = "open" /\ y.rows = RowsOf(sockets, k - 1) /\ y.run \in Runs
        /\ y.run.inpcb = sockets[k] /\ DOMAIN y.run.slot = Filled(h)
        /\ \A q \in Filled(h) : y.run.slot[q] = sockets[k]
    BY <1>1, PartIs
  <1>3. /\ x.at = "open" /\ x.rows = RowsOf(sockets, k - 1) /\ x.run \in Runs
        /\ x.run.inpcb = sockets[k] /\ DOMAIN x.run.slot = Filled(j)
        /\ \A q \in Filled(j) : x.run.slot[q] = sockets[k]
    BY <1>1, PartIs
  <1> HIDE DEF x, y
  <1>4. Lacks(y, x)
    BY <1>1, <1>2, <1>3 DEF Lacks
  <1> QED
    BY <1>4 DEF Full, x, y

\* With one record less a parser is behind.
LEMMA FullBehind ==
  ASSUME NEW sockets \in Seq(Socket), NEW tcp \in BOOLEAN, NEW k \in 1..Len(sockets),
         NEW j \in 1..Width(tcp), j > 1
  PROVE  Behind(Full(sockets, k, j - 1), Full(sockets, k, j))
  <1>1. j \in 1..5 /\ j - 1 \in 1..5 /\ j - 1 <= j
    BY AtSteps
  <1>2. Lacks(Full(sockets, k, j - 1), Full(sockets, k, j))
    BY <1>1, FullLacks
  <1> QED
    BY <1>2 DEF Behind

\* A run closed early is refused or gives the row of its socket.
Cut(sockets, m) == [at |-> "closed", run |-> NoRun, rows |-> RowsOf(sockets, m)]

LEMMA ClosedEarly ==
  ASSUME NEW sockets \in Seq(Socket), NEW tcp \in BOOLEAN,
         NEW k \in 1..Len(sockets), NEW j \in 1..Width(tcp)
  PROVE  LET x == Close(Before(sockets, tcp, k, j), tcp) IN
         x = Failed \/ \E m \in 0..Len(sockets) : x = Cut(sockets, m)
  <1>1. Width(tcp) \in 4..5
    BY AtSteps
  <1>2. CASE j > 1
    <2>1. j - 1 \in 1..5 /\ Width(tcp) \in 1..5 /\ j - 1 <= Width(tcp)
      BY <1>1, <1>2
    <2> DEFINE y == Full(sockets, k, j - 1)
               x == Full(sockets, k, Width(tcp))
    <2>2. Lacks(y, x)
      BY <2>1, FullLacks
    <2>3. y \in States /\ x \in States
      <3>1. Filled(j - 1) \in SUBSET Slots /\ Filled(Width(tcp)) \in SUBSET Slots
        BY DEF Filled
      <3> QED
        BY <3>1, PartIs DEF Full
    <2>4. Close(x, tcp) = Cut(sockets, k)
      BY FullClose DEF Cut
    <2> HIDE DEF x, y
    <2>5. Close(y, tcp) = Failed \/ Close(y, tcp) = Close(x, tcp)
      BY <2>2, <2>3, LacksCloses
    <2>6. k \in 0..Len(sockets)
      OBVIOUS
    <2>7. Before(sockets, tcp, k, j) = y
      BY <1>2 DEF Before, y
    <2> QED
      BY <2>4, <2>5, <2>6, <2>7
  <1>3. CASE j = 1 /\ k > 1
    <2>1. k - 1 \in 1..Len(sockets) /\ k - 1 \in 0..Len(sockets)
      BY <1>3
    <2>2. Before(sockets, tcp, k, j) = Full(sockets, k - 1, Width(tcp))
      BY <1>3 DEF Before
    <2>3. Close(Full(sockets, k - 1, Width(tcp)), tcp) = Cut(sockets, k - 1)
      BY <2>1, FullClose DEF Cut
    <2> QED
      BY <2>1, <2>2, <2>3
  <1>4. CASE j = 1 /\ k = 1
    <2>1. Before(sockets, tcp, k, j) = Start
      BY <1>4 DEF Before
    <2>2. Start \in States /\ Start # Failed /\ Start.run = NoRun /\ Start.rows = <<>>
      BY DEF Start, States, Failed
    <2>3. Close(Start, tcp) = [at |-> "closed", run |-> NoRun, rows |-> <<>>]
      BY <2>2, CloseIs
    <2>4. 0 \in 0..Len(sockets) /\ RowsOf(sockets, 0) = <<>>
      BY ReadIs
    <2> QED
      BY <2>1, <2>3, <2>4 DEF Cut
  <1> QED
    BY <1>1, <1>2, <1>3, <1>4

\* A parser that is done reads nothing more.
LEMMA DoneStays ==
  ASSUME NEW tcp \in BOOLEAN, NEW s \in Seq(Records), NEW other, Trace(s, tcp, other),
         NEW i \in 0..Len(s), other[i].at # "open"
  PROVE  other[Len(s)] = other[i]
  <1> DEFINE G == {p \in Nat : i <= p /\ p <= Len(s) => other[p] = other[i]}
  <1>0. Len(s) \in Nat /\ i \in Nat /\ i <= Len(s)
    OBVIOUS
  <1>1. 0 \in G
    BY <1>0
  <1>2. ASSUME NEW p \in Nat, p \in G PROVE p + 1 \in G
    <2>1. CASE i <= p /\ p + 1 <= Len(s)
      <3>1. p + 1 \in 1..Len(s) /\ (p + 1) - 1 = p /\ p <= Len(s)
        BY <1>0, <2>1
      <3>2. other[p + 1] = Step(tcp, other[p], s[p + 1])
        BY <3>1 DEF Trace
      <3>3. other[p] = other[i]
        BY <1>2, <2>1, <3>1
      <3>4. Step(tcp, other[i], s[p + 1]) = other[i]
        BY DEF Step
      <3> QED
        BY <3>2, <3>3, <3>4
    <2>2. CASE i = p + 1 \/ ~(i <= p + 1) \/ ~(p + 1 <= Len(s))
      BY <2>2
    <2> QED
      BY <1>0, <2>1, <2>2
  <1>3. Nat \subseteq G
    <2> HIDE DEF G
    <2> QED
      BY <1>1, <1>2, Inductive
  <1> QED
    BY <1>0, <1>3

\* What is demanded of a table that ends early.
MeantSoFar(sockets, x) ==
  x.at = "closed" => \E m \in 0..Len(sockets) : x.rows = RowsOf(sockets, m)

\* One record passes for the closing header.
LEMMA EndedEarly ==
  ASSUME NEW sockets \in Seq(Socket), NEW tcp \in BOOLEAN, NEW t, t = Table(sockets, tcp),
         NEW run, Trace(t, tcp, run), NEW i \in 1..(Len(t) - 1),
         NEW s \in Seq(Records), Len(s) = Len(t),
         \A p \in 1..Len(t) : p # i => s[p] = t[p], s[i].kind = "closing",
         NEW other, Trace(s, tcp, other)
  PROVE  MeantSoFar(sockets, other[Len(s)])
  <1>1. t \in Seq(Records) /\ Len(t) \in Nat \ {0}
    BY NeverFails, TableIs
  <1>2. /\ i - 1 \in Nat /\ i - 1 <= Len(t) /\ i - 1 <= Len(s)
        /\ \A p \in 1..(i - 1) : p \in 1..Len(t) /\ p # i
        /\ i \in 0..Len(s) /\ i \in 1..Len(s)
    BY <1>1
  <1>3. other[i - 1] = run[i - 1]
    <2>1. \A p \in 1..(i - 1) : s[p] = t[p]
      BY <1>2
    <2> QED
      BY <1>1, <1>2, <2>1, Prefix
  <1>4. PICK k \in 1..Len(sockets), j \in 1..Width(tcp) : i = At(tcp, k, j)
    BY Where
  <1>5. run[i - 1] = Before(sockets, tcp, k, j)
    <2>1. Spot(sockets, tcp, t, run, k, j, i)
      BY <1>4, Here, Zenon
    <2> QED
      BY <2>1 DEF Spot
  <1> DEFINE x == Before(sockets, tcp, k, j)
  <1>6. x.at = "open"
    BY BeforeIs
  <1>7. Close(x, tcp) = Failed \/ \E m \in 0..Len(sockets) : Close(x, tcp) = Cut(sockets, m)
    BY ClosedEarly
  <1> HIDE DEF x
  <1>8. other[i] = Close(x, tcp)
    <2>1. other[i] = Step(tcp, other[i - 1], s[i])
      BY <1>2 DEF Trace
    <2>2. Step(tcp, x, s[i]) = Close(x, tcp)
      BY <1>6 DEF Step, Slots
    <2> QED
      BY <1>3, <1>5, <2>1, <2>2 DEF x
  <1>9. CASE other[i] = Failed
    <2>1. other[i].at # "open" /\ other[i].at # "closed"
      BY <1>9 DEF Failed
    <2>2. other[Len(s)] = other[i]
      BY <1>2, <2>1, DoneStays
    <2> QED
      BY <2>1, <2>2 DEF MeantSoFar
  <1>10. CASE \E m \in 0..Len(sockets) : other[i] = Cut(sockets, m)
    <2>1. PICK m \in 0..Len(sockets) : other[i] = Cut(sockets, m)
      BY <1>10
    <2>2. other[i].at # "open" /\ other[i].rows = RowsOf(sockets, m)
      BY <2>1 DEF Cut
    <2>3. other[Len(s)] = other[i]
      BY <1>2, <2>2, DoneStays
    <2> QED
      BY <2>2, <2>3 DEF MeantSoFar
  <1> QED
    BY <1>7, <1>8, <1>9, <1>10

\* One record is missing.
LEMMA Removed ==
  ASSUME NEW sockets \in Seq(Socket), NEW tcp \in BOOLEAN, NEW t, t = Table(sockets, tcp),
         NEW run, Trace(t, tcp, run), NEW i \in 1..Len(t),
         NEW s \in Seq(Records), Len(s) = Len(t) - 1,
         \A p \in 1..(i - 1) : s[p] = t[p], \A p \in i..Len(s) : s[p] = t[p + 1],
         NEW other, Trace(s, tcp, other)
  PROVE  Meant(sockets, other[Len(s)])
  <1>1. /\ t \in Seq(Records) /\ Len(t) \in Nat \ {0}
        /\ \A p \in 0..Len(t) : run[p] # Failed
        /\ \A p \in 0..(Len(t) - 1) : run[p].at = "open"
        /\ run[Len(t)] = Over(sockets)
    BY NeverFails, TableIs
  <1>2. i - 1 \in Nat /\ i - 1 <= Len(t) /\ i - 1 <= Len(s)
    BY <1>1
  <1>3. other[i - 1] = run[i - 1]
    BY <1>1, <1>2, Prefix
  <1>4. CASE i = Len(t)
    <2>1. Len(s) = i - 1 /\ i - 1 \in 0..(Len(t) - 1)
      BY <1>1, <1>4
    <2>2. other[Len(s)].at = "open"
      BY <1>1, <1>3, <2>1
    <2> QED
      BY <2>2 DEF Meant
  <1>5. CASE i # Len(t)
    <2>1. i \in 1..(Len(Table(sockets, tcp)) - 1)
      BY <1>1, <1>5
    <2>2. PICK k \in 1..Len(sockets), j \in 1..Width(tcp) : i = At(tcp, k, j)
      BY <2>1, Where
    <2>0. Spot(sockets, tcp, t, run, k, j, i)
      BY <2>2, Here, Zenon
    <2>3. run[i] = Full(sockets, k, j) /\ run[i - 1] = Before(sockets, tcp, k, j)
      BY <2>0 DEF Spot
    <2>4. \E a \in 0..Len(s), b \in 0..Len(t) :
            Len(s) - a = Len(t) - b /\ a >= i - 1 /\ b = a + 1 /\ Behind(other[a], run[b])
      <3>1. CASE j > 1
        <4>1. Behind(other[i - 1], run[i])
          BY <1>3, <2>3, <3>1, FullBehind DEF Before
        <4>2. i - 1 \in 0..Len(s) /\ i \in 0..Len(t) /\ Len(s) - (i - 1) = Len(t) - i
          BY <1>1
        <4> QED
          BY <4>1, <4>2
      <3>2. CASE j = 1
        <4>1. j < Width(tcp)
          BY <3>2, AtSteps
        <4>2. t[i + 1] = [kind |-> "socket", of |-> sockets[k]]
          <5>1. t[i + 1] = [kind |-> Layout(tcp)[j + 1], of |-> sockets[k]]
            BY <2>0, <4>1 DEF Spot
          <5> QED
            BY <3>2, <5>1, LayoutIs
        <4>3. i \in 1..Len(s) /\ i \in i..Len(s)
          BY <1>1, <1>5
        <4>4. other[i] = Step(tcp, other[i - 1], t[i + 1])
          BY <4>3 DEF Trace
        <4>5. /\ run[i - 1] \in States /\ run[i - 1].at = "open"
              /\ run[i - 1].run = NoRun \/ "socket" \in DOMAIN run[i - 1].run.slot
          BY <2>3, <3>2, BeforeIs
        <4>6. other[i] = Failed
          <5> DEFINE record == [kind |-> "socket", of |-> sockets[k]]
          <5>1. record.kind = "socket" /\ record.kind \in Slots
            BY DEF Slots
          <5> HIDE DEF record
          <5>2. Step(tcp, run[i - 1], record) = Failed
            BY <4>5, <5>1, Refused
          <5> QED
            BY <1>3, <4>2, <4>4, <5>2 DEF record
        <4>7. i \in 0..Len(s) /\ i + 1 \in 0..Len(t) /\ Len(s) - i = Len(t) - (i + 1)
          BY <1>1, <1>5
        <4> QED
          BY <4>6, <4>7 DEF Behind
      <3> QED
        BY <3>1, <3>2
    <2>5. PICK a \in 0..Len(s), b \in 0..Len(t) :
            Len(s) - a = Len(t) - b /\ a >= i - 1 /\ b = a + 1 /\ Behind(other[a], run[b])
      BY <2>4
    <2>6. \A q \in 1..(Len(t) - b) : s[a + q] = t[b + q]
      <3> SUFFICES ASSUME NEW q \in 1..(Len(t) - b) PROVE s[a + q] = t[b + q]
        OBVIOUS
      <3>1. a + q \in i..Len(s) /\ (a + q) + 1 = b + q
        BY <1>1, <2>5
      <3>2. s[a + q] = t[(a + q) + 1]
        BY <3>1
      <3> QED
        BY <3>1, <3>2
    <2>7. Behind(other[Len(s)], run[Len(t)])
      <3>1. Len(s) - a = Len(t) - b
        BY <2>5
      <3>2. Behind(other[a], run[b])
        BY <2>5
      <3> QED
        BY <1>1, <2>6, <3>1, <3>2, Follow
    <2> QED
      BY <1>1, <2>7, BehindIsMeant
  <1> QED
    BY <1>4, <1>5

\* One record comes twice.
LEMMA Doubled ==
  ASSUME NEW sockets \in Seq(Socket), NEW tcp \in BOOLEAN, NEW t, t = Table(sockets, tcp),
         NEW run, Trace(t, tcp, run), NEW i \in 1..Len(t),
         NEW s \in Seq(Records), Len(s) = Len(t) + 1,
         \A p \in 1..i : s[p] = t[p], \A p \in (i + 1)..Len(s) : s[p] = t[p - 1],
         NEW other, Trace(s, tcp, other)
  PROVE  Meant(sockets, other[Len(s)])
  <1>1. /\ t \in Seq(Records) /\ Len(t) \in Nat \ {0}
        /\ \A p \in 0..Len(t) : run[p] # Failed
        /\ run[Len(t)] = Over(sockets)
    BY NeverFails, TableIs
  <1>2. i \in Nat /\ i <= Len(t) /\ i <= Len(s) /\ i + 1 \in 1..Len(s) /\ (i + 1) - 1 = i
        /\ i + 1 \in (i + 1)..Len(s)
    BY <1>1
  <1>3. other[i] = run[i]
    BY <1>1, <1>2, Prefix
  <1>4. other[i + 1] = Step(tcp, run[i], t[i])
    <2>1. s[i + 1] = t[(i + 1) - 1]
      BY <1>2
    <2>2. other[i + 1] = Step(tcp, other[(i + 1) - 1], s[i + 1])
      BY <1>2 DEF Trace
    <2> QED
      BY <1>2, <1>3, <2>1, <2>2
  <1>5. Behind(other[i + 1], run[i])
    <2>1. CASE i = Len(t)
      <3>1. Over(sockets).at # "open"
        BY DEF Over
      <3>2. Step(tcp, Over(sockets), t[i]) = Over(sockets)
        BY <3>1 DEF Step
      <3> QED
        BY <1>1, <1>4, <2>1, <3>2 DEF Behind
    <2>2. CASE i # Len(t)
      <3>1. i \in 1..(Len(Table(sockets, tcp)) - 1)
        BY <1>1, <2>2
      <3>2. PICK k \in 1..Len(sockets), j \in 1..Width(tcp) : i = At(tcp, k, j)
        BY <3>1, Where
      <3>3. run[i] = Full(sockets, k, j) /\ t[i] = [kind |-> Layout(tcp)[j], of |-> sockets[k]]
        <4>1. Spot(sockets, tcp, t, run, k, j, i)
          BY <3>2, Here, Zenon
        <4> QED
          BY <4>1 DEF Spot
      <3>4. Filled(j) \in SUBSET Slots
        BY FilledIs
      <3>5. CASE j = 1
        <4> DEFINE x == Full(sockets, k, 1)
        <4>1. Filled(1) = {} /\ {} \in SUBSET Slots
          BY FilledIs
        <4>2. /\ x \in States /\ x.at = "open" /\ x # Failed /\ x.run # NoRun
              /\ DOMAIN x.run.slot = {}
          BY <4>1, PartIs DEF Full
        <4>3. ~Sound(x.run, tcp)
          BY <4>2 DEF Sound
        <4>4. Close(x, tcp) = Failed
          BY <4>2, <4>3, CloseIs
        <4> HIDE DEF x
        <4>5. Step(tcp, x, [kind |-> "inpcb", of |-> sockets[k]]) = Failed
          BY <4>2, <4>4 DEF Step, Slots, Reopen
        <4>6. other[i + 1] = Failed
          BY <1>4, <3>3, <3>5, <4>5, LayoutIs DEF x
        <4> QED
          BY <4>6 DEF Behind
      <3>6. CASE j = 3
        <4>1. Layout(tcp)[j] = "buffer"
          BY <3>6, LayoutIs
        <4>2. Step(tcp, Full(sockets, k, j), [kind |-> "buffer", of |-> sockets[k]])
                = Full(sockets, k, j)
          BY <3>4, PartBuffer DEF Full
        <4> QED
          BY <1>4, <3>3, <4>1, <4>2 DEF Behind
      <3>7. CASE j \notin {1, 3}
        <4> DEFINE kind == Layout(tcp)[j]
                   K == Filled(j)
        <4>1. kind \in K /\ K \in SUBSET Slots
          BY <3>4, <3>7, FilledIs
        <4> HIDE DEF kind, K
        <4>2. Step(tcp, Part(sockets, k, K), [kind |-> kind, of |-> sockets[k]]) = Failed
          BY <4>1, PartStep
        <4> QED
          BY <1>4, <3>3, <4>2 DEF Behind, Full, kind, K
      <3> QED
        BY <3>5, <3>6, <3>7
    <2> QED
      BY <2>1, <2>2
  <1>6. \A q \in 1..(Len(t) - i) : s[(i + 1) + q] = t[i + q]
    <2> SUFFICES ASSUME NEW q \in 1..(Len(t) - i) PROVE s[(i + 1) + q] = t[i + q]
      OBVIOUS
    <2>1. (i + 1) + q \in (i + 1)..Len(s) /\ ((i + 1) + q) - 1 = i + q
      BY <1>1
    <2>2. s[(i + 1) + q] = t[((i + 1) + q) - 1]
      BY <2>1
    <2> QED
      BY <2>1, <2>2
  <1>7. i + 1 \in 0..Len(s) /\ i \in 0..Len(t) /\ Len(s) - (i + 1) = Len(t) - i
    BY <1>1
  <1>8. Behind(other[Len(s)], run[Len(t)])
    BY <1>1, <1>5, <1>6, <1>7, Follow
  <1> QED
    BY <1>1, <1>8, BehindIsMeant

\* One record is cut short.
LEMMA CutShort ==
  ASSUME NEW sockets \in Seq(Socket), NEW tcp \in BOOLEAN, NEW t, t = Table(sockets, tcp),
         NEW run, Trace(t, tcp, run), NEW i \in 1..Len(t),
         NEW s \in Seq(Records), Len(s) = Len(t),
         \A p \in 1..Len(t) : p # i => s[p] = t[p], s[i].kind = "bad",
         NEW other, Trace(s, tcp, other)
  PROVE  Meant(sockets, other[Len(s)])
  <1>1. /\ t \in Seq(Records) /\ Len(t) \in Nat \ {0}
        /\ \A p \in 0..Len(t) : run[p] # Failed
        /\ \A p \in 0..(Len(t) - 1) : run[p].at = "open"
        /\ run[Len(t)] = Over(sockets)
    BY NeverFails, TableIs
  <1>2. /\ i - 1 \in Nat /\ i - 1 <= Len(t) /\ i - 1 \in 0..(Len(t) - 1)
        /\ \A p \in 1..(i - 1) : p \in 1..Len(t) /\ p # i
        /\ i \in 0..Len(t) /\ i \in 0..Len(s) /\ i \in 1..Len(s)
    BY <1>1
  <1>3. other[i - 1] = run[i - 1]
    <2>1. \A p \in 1..(i - 1) : s[p] = t[p]
      BY <1>2
    <2> QED
      BY <1>1, <1>2, <2>1, Prefix
  <1>4. other[i] = Failed
    <2>1. other[i] = Step(tcp, run[i - 1], s[i]) /\ run[i - 1].at = "open"
      BY <1>1, <1>2, <1>3 DEF Trace
    <2> QED
      BY <2>1 DEF Step, Slots
  <1>5. \A q \in 1..(Len(t) - i) : s[i + q] = t[i + q]
    <2> SUFFICES ASSUME NEW q \in 1..(Len(t) - i) PROVE s[i + q] = t[i + q]
      OBVIOUS
    <2>1. i + q \in 1..Len(t) /\ i + q # i
      BY <1>1
    <2> QED
      BY <2>1
  <1>6. Behind(other[i], run[i])
    BY <1>4 DEF Behind
  <1>7. Behind(other[Len(s)], run[Len(t)])
    BY <1>1, <1>2, <1>5, <1>6, Follow
  <1> QED
    BY <1>1, <1>7, BehindIsMeant

\* A run that the records of another socket get into.
LEMMA OpensHas ==
  ASSUME NEW x \in States, x # Failed, x.at = "open", NEW tcp \in BOOLEAN,
         NEW a \in Socket, NEW b \in Socket, NEW kind \in Slots
  PROVE  LET z == Step(tcp, x, [kind |-> "inpcb", of |-> a])
         IN Has(Step(tcp, z, [kind |-> kind, of |-> b]), kind)
  <1> DEFINE y == Close(x, tcp)
             z == Step(tcp, x, [kind |-> "inpcb", of |-> a])
             record == [kind |-> kind, of |-> b]
  <1>1. z = Reopen(y, a)
    BY DEF Step, Slots
  <1>2. y \in States
    BY CloseIs
  <1>3. record \in Records /\ record.kind = kind
    BY DEF Records, Kinds, Slots
  <1> HIDE DEF y, z, record
  <1>4. CASE y = Failed
    <2>1. z = Failed
      BY <1>1, <1>4 DEF Reopen
    <2>2. Step(tcp, z, record) = Failed
      BY <2>1, FailedStays
    <2> QED
      BY <2>2 DEF Has, z, record
  <1>5. CASE y # Failed
    <2>1. PICK at, run, rows : y = [at |-> at, run |-> run, rows |-> rows]
      <3>1. y = [at |-> y.at, run |-> y.run, rows |-> y.rows]
        BY <1>2, <1>5, StateIs
      <3> QED
        BY <3>1, Zenon
    <2>2. z = [at |-> "open", run |-> NewRun(a), rows |-> rows]
      BY <1>1, <1>5, <2>1 DEF Reopen
    <2>3. NewRun(a) \in Runs /\ DOMAIN NewRun(a).slot = {}
      <3>1. <<>> \in [{} -> Socket] /\ {} \in SUBSET Slots /\ DOMAIN <<>> = {}
        OBVIOUS
      <3> QED
        BY <3>1 DEF NewRun, Runs
    <2>4. NewRun(a) # NoRun
      BY <2>3, RunIs
    <2> DEFINE more == Fill(NewRun(a), record)
    <2>5. more \in Runs /\ kind \in DOMAIN more.slot
      BY <1>3, <2>3, FillIs
    <2>6. Step(tcp, z, record) = Accept(z, record)
      BY <1>3, <2>2 DEF Step, Slots
    <2>7. Accept(z, record) = [z EXCEPT !.run = more]
      BY <1>3, <2>2, <2>3, <2>4 DEF Accept
    <2> HIDE DEF more
    <2>8. [z EXCEPT !.run = more] = [at |-> "open", run |-> more, rows |-> rows]
      BY <2>2
    <2>9. Has(Step(tcp, z, record), kind)
      BY <2>5, <2>6, <2>7, <2>8 DEF Has
    <2> QED
      BY <2>9 DEF z, record
  <1> QED
    BY <1>4, <1>5

\* Two records of one socket in each other's place.
LEMMA SwapWithin ==
  ASSUME NEW sockets \in Seq(Socket), NEW tcp \in BOOLEAN, NEW k \in 1..Len(sockets),
         NEW j \in 1..Width(tcp), j < Width(tcp)
  PROVE  LET record(h) == [kind |-> Layout(tcp)[h], of |-> sockets[k]]
             y == Step(tcp, Step(tcp, Before(sockets, tcp, k, j), record(j + 1)), record(j))
         IN y = Failed \/ y = Full(sockets, k, j + 1)
  <1> DEFINE record(h) == [kind |-> Layout(tcp)[h], of |-> sockets[k]]
             x == Before(sockets, tcp, k, j)
             one == Layout(tcp)[j]
             two == Layout(tcp)[j + 1]
  <1>1. Width(tcp) \in 4..5 /\ j + 1 \in 1..Width(tcp) /\ j \in 1..4 /\ (j + 1) - 1 = j
    BY AtSteps
  <1>2. CASE j = 1
    <2>1. two = "socket"
      BY <1>2, LayoutIs
    <2>2. /\ x \in States /\ x.at = "open"
          /\ x.run = NoRun \/ "socket" \in DOMAIN x.run.slot
      BY <1>2, BeforeIs
    <2>3. record(j + 1).kind = "socket" /\ "socket" \in Slots
      BY <2>1 DEF Slots
    <2> HIDE DEF x, record
    <2>4. Step(tcp, x, record(j + 1)) = Failed
      BY <2>2, <2>3, Refused
    <2>5. Step(tcp, Step(tcp, x, record(j + 1)), record(j)) = Failed
      BY <2>4, FailedStays
    <2> QED
      BY <2>5 DEF x, record
  <1>3. CASE j > 1
    <2> DEFINE K == Filled(j - 1)
    <2>1. x = Part(sockets, k, K) /\ K \in SUBSET Slots
      BY <1>1, <1>3 DEF Before, Full, Filled
    <2>2. CASE j = 2
      <3>1. one = "socket" /\ two = "buffer" /\ "socket" \in Slots
        BY <2>2, LayoutIs DEF Slots
      <3>2. "socket" \notin K /\ K \cup {"socket"} = Filled(j + 1)
        BY <2>2 DEF Filled, Slots
      <3> HIDE DEF K
      <3>3. Step(tcp, x, [kind |-> "buffer", of |-> sockets[k]]) = x
        BY <2>1, PartBuffer
      <3>4. Step(tcp, x, [kind |-> "socket", of |-> sockets[k]]) = Full(sockets, k, j + 1)
        <4> DEFINE kind == "socket"
        <4>1. kind \in Slots \ K /\ K \cup {kind} = Filled(j + 1)
          BY <3>1, <3>2
        <4> HIDE DEF kind
        <4>2. Step(tcp, Part(sockets, k, K), [kind |-> kind, of |-> sockets[k]])
                = Part(sockets, k, K \cup {kind})
          BY <2>1, <4>1, PartStep
        <4> QED
          BY <2>1, <4>1, <4>2 DEF kind, Full
      <3> QED
        BY <3>1, <3>3, <3>4
    <2>3. CASE j = 3
      <3>1. one = "buffer" /\ two = "stats" /\ "stats" \in Slots
        BY <2>3, LayoutIs DEF Slots
      <3>2. "stats" \notin K /\ K \cup {"stats"} = Filled(j + 1) /\ Filled(j + 1) \in SUBSET Slots
        BY <2>3 DEF Filled, Slots
      <3> HIDE DEF K
      <3>3. Step(tcp, x, [kind |-> "stats", of |-> sockets[k]]) = Full(sockets, k, j + 1)
        <4> DEFINE kind == "stats"
        <4>1. kind \in Slots \ K /\ K \cup {kind} = Filled(j + 1)
          BY <3>1, <3>2
        <4> HIDE DEF kind
        <4>2. Step(tcp, Part(sockets, k, K), [kind |-> kind, of |-> sockets[k]])
                = Part(sockets, k, K \cup {kind})
          BY <2>1, <4>1, PartStep
        <4> QED
          BY <2>1, <4>1, <4>2 DEF kind, Full
      <3>4. Step(tcp, Full(sockets, k, j + 1), [kind |-> "buffer", of |-> sockets[k]])
              = Full(sockets, k, j + 1)
        BY <3>2, PartBuffer DEF Full
      <3> QED
        BY <3>1, <3>3, <3>4
    <2>4. CASE j = 4
      <3>1. tcp /\ one = "stats" /\ two = "tcpcb" /\ "stats" \in Slots /\ "tcpcb" \in Slots
        BY <2>4, LayoutIs DEF Slots, Width
      <3> DEFINE L == K \cup {"tcpcb"}
      <3>2. /\ "tcpcb" \notin K /\ "stats" \notin L /\ L \cup {"stats"} = Filled(j + 1)
            /\ L \in SUBSET Slots
        BY <2>4 DEF Filled, Slots
      <3>3. Step(tcp, x, [kind |-> "tcpcb", of |-> sockets[k]]) = Part(sockets, k, L)
        <4> DEFINE kind == "tcpcb"
        <4>1. kind \in Slots \ K /\ L = K \cup {kind}
          BY <3>1, <3>2
        <4> HIDE DEF kind, K, L
        <4>2. Step(tcp, Part(sockets, k, K), [kind |-> kind, of |-> sockets[k]])
                = Part(sockets, k, K \cup {kind})
          BY <2>1, <4>1, PartStep
        <4> QED
          BY <2>1, <4>1, <4>2 DEF kind
      <3>4. Step(tcp, Part(sockets, k, L), [kind |-> "stats", of |-> sockets[k]])
              = Full(sockets, k, j + 1)
        <4> DEFINE kind == "stats"
        <4>1. kind \in Slots \ L /\ L \cup {kind} = Filled(j + 1)
          BY <3>1, <3>2
        <4> HIDE DEF kind, L
        <4>2. Step(tcp, Part(sockets, k, L), [kind |-> kind, of |-> sockets[k]])
                = Part(sockets, k, L \cup {kind})
          BY <3>2, <4>1, PartStep
        <4> QED
          BY <4>1, <4>2 DEF kind, Full
      <3> QED
        BY <3>1, <3>3, <3>4
    <2> QED
      BY <1>1, <1>3, <2>2, <2>3, <2>4
  <1> QED
    BY <1>1, <1>2, <1>3

\* One record is in the place of its neighbour.
LEMMA Swapped ==
  ASSUME NEW sockets \in Seq(Socket), NEW tcp \in BOOLEAN, NEW t, t = Table(sockets, tcp),
         NEW run, Trace(t, tcp, run), NEW i \in 1..(Len(t) - 1),
         NEW s \in Seq(Records), Len(s) = Len(t), s[i] = t[i + 1], s[i + 1] = t[i],
         \A p \in 1..Len(t) : p \notin {i, i + 1} => s[p] = t[p],
         NEW other, Trace(s, tcp, other)
  PROVE  Meant(sockets, other[Len(s)])
  <1>1. /\ t \in Seq(Records) /\ Len(t) \in Nat \ {0}
        /\ \A p \in 0..Len(t) : run[p] # Failed
        /\ run[Len(t)] = Over(sockets)
    BY NeverFails, TableIs
  <1>2. /\ i - 1 \in Nat /\ i - 1 <= Len(t) /\ (i + 1) - 1 = i
        /\ \A p \in 1..(i - 1) : p \in 1..Len(t) /\ p \notin {i, i + 1}
        /\ i \in 1..Len(t) /\ i + 1 \in 1..Len(t) /\ i + 1 \in 0..Len(t)
        /\ i \in 1..Len(s) /\ i + 1 \in 1..Len(s)
    BY <1>1
  <1>3. other[i - 1] = run[i - 1]
    <2>1. \A p \in 1..(i - 1) : s[p] = t[p]
      BY <1>2
    <2> QED
      BY <1>1, <1>2, <2>1, Prefix
  <1>4. /\ other[i] = Step(tcp, run[i - 1], t[i + 1])
        /\ other[i + 1] = Step(tcp, other[i], t[i])
        /\ other[i] \in States /\ other[i + 1] \in States
    <2>1. /\ other[i] = Step(tcp, other[i - 1], s[i])
          /\ other[i + 1] = Step(tcp, other[(i + 1) - 1], s[i + 1])
          /\ other[(i + 1) - 1] \in States
      BY <1>2 DEF Trace
    <2>2. t[i] \in Records
      BY <1>1, <1>2
    <2> QED
      BY <1>2, <1>3, <2>1, <2>2, StepIs
  <1>5. PICK k \in 1..Len(sockets), j \in 1..Width(tcp) : i = At(tcp, k, j)
    BY Where
  <1>6. Spot(sockets, tcp, t, run, k, j, i)
    BY <1>5, Here, Zenon
  <1>7. \E a \in (i + 1)..Len(t) : Behind(other[a], run[a])
    <2>0. i + 1 \in (i + 1)..Len(t)
      BY <1>1
    <2>1. CASE j < Width(tcp)
      <3>1. /\ t[i] = [kind |-> Layout(tcp)[j], of |-> sockets[k]]
            /\ t[i + 1] = [kind |-> Layout(tcp)[j + 1], of |-> sockets[k]]
            /\ run[i + 1] = Full(sockets, k, j + 1)
            /\ run[i - 1] = Before(sockets, tcp, k, j)
        BY <1>6, <2>1 DEF Spot
      <3>2. other[i + 1] = Failed \/ other[i + 1] = run[i + 1]
        BY <1>4, <2>1, <3>1, SwapWithin
      <3> QED
        BY <2>0, <3>2 DEF Behind
    <2>2. CASE j = Width(tcp) /\ k = Len(sockets)
      <3>1. /\ t[i + 1] = Closing /\ run[i + 1] = Over(sockets) /\ run[i] = Full(sockets, k, j)
            /\ run[i - 1] = Before(sockets, tcp, k, j)
        BY <1>6, <2>2 DEF Spot
      <3>2. Behind(run[i - 1], run[i]) /\ run[i - 1] \in States
        <4>0. Width(tcp) \in 4..5
          BY AtSteps
        <4>1. j > 1
          BY <2>2, <4>0
        <4> QED
          BY <3>1, <4>1, FullBehind, BeforeIs DEF Before
      <3>3. run[i + 1] = Step(tcp, run[i], Closing) /\ run[i] \in States
        <4>1. run[i + 1] = Step(tcp, run[(i + 1) - 1], t[i + 1]) /\ run[(i + 1) - 1] \in States
          BY <1>2 DEF Trace
        <4> QED
          BY <1>2, <3>1, <4>1
      <3>4. Closing \in Records /\ run[i + 1] # Failed
        BY <1>1, <1>2 DEF Closing, Records
      <3>5. Behind(other[i], run[i + 1])
        BY <1>4, <3>1, <3>2, <3>3, <3>4, BehindStep
      <3>6. other[i] = Failed \/ other[i] = Over(sockets)
        BY <3>1, <3>5 DEF Behind, Lacks, Over
      <3>7. Step(tcp, Over(sockets), t[i]) = Over(sockets)
        BY DEF Step, Over
      <3>8. other[i + 1] = Failed \/ other[i + 1] = run[i + 1]
        BY <1>4, <3>1, <3>6, <3>7, FailedStays
      <3> QED
        BY <2>0, <3>8 DEF Behind
    <2>3. CASE j = Width(tcp) /\ k < Len(sockets)
      <3> DEFINE w == Width(tcp)
                 final == Layout(tcp)[w]
                 m == k + 1
                 G == {h \in Nat : h \in 1..(w - 1) => Has(other[At(tcp, m, h)], final)}
      <3>1. /\ t[i] = [kind |-> final, of |-> sockets[k]]
            /\ t[i + 1] = [kind |-> "inpcb", of |-> sockets[m]]
            /\ i + 1 = At(tcp, m, 1) /\ run[i - 1] = Before(sockets, tcp, k, j)
        BY <1>6, <2>3 DEF Spot
      <3>2. w \in 4..5 /\ m \in 1..Len(sockets) /\ final \in Slots /\ w \in 1..w
        <4>0. w \in 4..5
          BY AtSteps
        <4>1. w \in 4..5 /\ w \in 1..w
          <5> HIDE DEF w
          <5> QED
            BY <4>0
        <4>2. m \in 1..Len(sockets)
          BY <2>3
        <4>3. final \in Slots
          BY <4>1, FilledIs
        <4> QED
          BY <4>1, <4>2, <4>3
      <3> HIDE DEF m, w, final
      <3>3. Has(other[i + 1], final)
        <4>1. run[i - 1] \in States /\ run[i - 1].at = "open" /\ run[i - 1] # Failed
          BY <3>1, BeforeIs
        <4>2. sockets[k] \in Socket /\ sockets[m] \in Socket
          BY <3>2
        <4> QED
          BY <1>4, <3>1, <3>2, <4>1, <4>2, OpensHas
      <3>4. ASSUME NEW h \in 1..(w - 1)
            PROVE  LET a == At(tcp, m, h + 1)
                       record == [kind |-> Layout(tcp)[h + 1], of |-> sockets[m]]
                   IN /\ a \in (i + 1)..Len(t) /\ other[At(tcp, m, h)] \in States
                      /\ other[a] = Step(tcp, other[At(tcp, m, h)], record)
                      /\ record \in Records /\ record.kind \in Slots \cup {"buffer"}
                      /\ h + 1 = w => record.kind = final
        <4> DEFINE a == At(tcp, m, h + 1)
                   record == [kind |-> Layout(tcp)[h + 1], of |-> sockets[m]]
        <4>1. h \in 1..w /\ h < w /\ h + 1 \in 1..w /\ h + 1 # 1 /\ w = Width(tcp)
          BY <3>2 DEF w
        <4>2. Spot(sockets, tcp, t, run, m, h + 1, a)
          BY <3>2, <4>1, Here, Zenon
        <4>3. a \in 1..(Len(t) - 1) /\ t[a] = record
          BY <4>2 DEF Spot
        <4>4. a - 1 = At(tcp, m, h) /\ At(tcp, m, h) >= At(tcp, m, 1)
          <5>1. m \in Nat \ {0}
            BY <3>2
          <5>2. At(tcp, m, h) + 1 = a /\ At(tcp, m, h) \in Nat
            <6>1. h \in 1..Width(tcp) /\ h < Width(tcp)
              BY <4>1
            <6> QED
              BY <5>1, <6>1 DEF At
          <5>3. At(tcp, m, h) >= At(tcp, m, 1)
            BY <4>1, <5>1 DEF At
          <5> HIDE DEF a
          <5> QED
            BY <5>2, <5>3
        <4>5. a \in (i + 1)..Len(t) /\ a \notin {i, i + 1} /\ a \in 1..Len(t)
          <5> HIDE DEF a
          <5>1. a \in 1..Len(t) /\ a - 1 >= i + 1
            BY <1>1, <3>1, <4>3, <4>4
          <5> QED
            BY <1>1, <5>1
        <4>6. other[a - 1] \in States /\ other[a] = Step(tcp, other[a - 1], s[a]) /\ s[a] = t[a]
          <5> HIDE DEF a
          <5> QED
            BY <4>5 DEF Trace
        <4>7. /\ record \in Records /\ record.kind \in Slots \cup {"buffer"}
              /\ h + 1 = w => record.kind = final
          <5>1. t[a] \in Records
            BY <1>1, <4>5
          <5>2. Layout(tcp)[h + 1] \in Slots \cup {"buffer"}
            BY <4>1, FilledIs
          <5> QED
            BY <4>3, <5>1, <5>2 DEF final
        <4> HIDE DEF a, record
        <4> QED
          BY <4>3, <4>4, <4>5, <4>6, <4>7 DEF a, record
      <3>5. Nat \subseteq G
        <4>1. 0 \in G
          OBVIOUS
        <4>2. ASSUME NEW h \in Nat, h \in G PROVE h + 1 \in G
          <5>1. CASE h = 0
            BY <3>1, <3>3, <5>1
          <5>2. CASE h # 0 /\ h + 1 \in 1..(w - 1)
            <6>1. h \in 1..(w - 1)
              BY <3>2, <5>2
            <6>2. Has(other[At(tcp, m, h)], final)
              BY <4>2, <6>1
            <6> DEFINE record == [kind |-> Layout(tcp)[h + 1], of |-> sockets[m]]
            <6>3. /\ other[At(tcp, m, h)] \in States
                  /\ other[At(tcp, m, h + 1)] = Step(tcp, other[At(tcp, m, h)], record)
                  /\ record \in Records /\ record.kind \in Slots \cup {"buffer"}
              BY <3>4, <6>1
            <6> HIDE DEF record
            <6>4. Has(other[At(tcp, m, h + 1)], final)
              BY <3>2, <6>2, <6>3, HasStep
            <6> QED
              BY <6>4
          <5>3. CASE h + 1 \notin 1..(w - 1)
            BY <5>3
          <5> QED
            BY <5>1, <5>2, <5>3
        <4> HIDE DEF G
        <4> QED
          BY <4>1, <4>2, Inductive
      <3>6. other[At(tcp, m, w)] = Failed /\ At(tcp, m, w) \in (i + 1)..Len(t)
        <4> DEFINE h == w - 1
                   record == [kind |-> Layout(tcp)[h + 1], of |-> sockets[m]]
        <4>1. h \in 1..(w - 1) /\ h \in Nat /\ h + 1 = w
          BY <3>2
        <4> HIDE DEF h
        <4>2. Has(other[At(tcp, m, h)], final)
          BY <3>5, <4>1
        <4>3. /\ other[At(tcp, m, h)] \in States /\ At(tcp, m, h + 1) \in (i + 1)..Len(t)
              /\ other[At(tcp, m, h + 1)] = Step(tcp, other[At(tcp, m, h)], record)
              /\ record \in Records /\ record.kind \in Slots \cup {"buffer"}
              /\ record.kind = final
          BY <3>4, <4>1
        <4> HIDE DEF record
        <4> QED
          BY <3>2, <4>1, <4>2, <4>3, HasStep
      <3> QED
        BY <3>6 DEF Behind
    <2>4. Len(sockets) \in Nat /\ Width(tcp) \in 4..5
      BY AtSteps
    <2> QED
      BY <2>1, <2>2, <2>3, <2>4
  <1>8. PICK a \in (i + 1)..Len(t) : Behind(other[a], run[a])
    BY <1>7
  <1>9. a \in 0..Len(t) /\ a \in 0..Len(s) /\ Len(s) - a = Len(t) - a
    BY <1>1
  <1>10. \A q \in 1..(Len(t) - a) : s[a + q] = t[a + q]
    <2> SUFFICES ASSUME NEW q \in 1..(Len(t) - a) PROVE s[a + q] = t[a + q]
      OBVIOUS
    <2>1. a + q \in 1..Len(t) /\ a + q \notin {i, i + 1}
      BY <1>1
    <2> QED
      BY <2>1
  <1>11. Behind(other[Len(s)], run[Len(t)])
    BY <1>1, <1>8, <1>9, <1>10, Follow
  <1> QED
    BY <1>1, <1>11, BehindIsMeant

\* A sequence without one element.
LEMMA RemoveAtIs ==
  ASSUME NEW V, NEW t \in Seq(V), NEW i \in 1..Len(t)
  PROVE  LET s == Seqs!RemoveAt(t, i) IN
         /\ s \in Seq(V) /\ Len(s) = Len(t) - 1
         /\ \A p \in 1..(i - 1) : s[p] = t[p]
         /\ \A p \in i..Len(s) : s[p] = t[p + 1]
  <1> DEFINE one == SubSeq(t, 1, i - 1)
             two == SubSeq(t, i + 1, Len(t))
             s == one \o two
  <1>0. Len(t) \in Nat
    OBVIOUS
  <1>1. one \in Seq(V) /\ Len(one) = i - 1 /\ \A p \in 1..(i - 1) : one[p] = t[p]
    OBVIOUS
  <1>2. two \in Seq(V) /\ Len(two) = Len(t) - i /\ \A p \in 1..(Len(t) - i) : two[p] = t[i + p]
    OBVIOUS
  <1> HIDE DEF one, two
  <1>3. s \in Seq(V) /\ Len(s) = Len(t) - 1
    <2>1. s \in Seq(V) /\ Len(s) = Len(one) + Len(two)
      BY <1>1, <1>2, ConcatProperties
    <2> HIDE DEF s
    <2> QED
      BY <1>0, <1>1, <1>2, <2>1
  <1>4. ASSUME NEW p \in 1..(i - 1) PROVE s[p] = t[p]
    BY <1>1, <1>2
  <1>5. ASSUME NEW p \in i..Len(s) PROVE s[p] = t[p + 1]
    <2>1. p - (i - 1) \in 1..(Len(t) - i) /\ i + (p - (i - 1)) = p + 1
      BY <1>0, <1>3
    <2>2. s[p] = two[p - (i - 1)]
      BY <1>0, <1>1, <1>2, <1>3
    <2> QED
      BY <1>2, <2>1, <2>2
  <1>6. Seqs!RemoveAt(t, i) = s
    BY DEF Seqs!RemoveAt, one, two
  <1> HIDE DEF s
  <1> QED
    BY <1>3, <1>4, <1>5, <1>6

\* A sequence with one more.
LEMMA InsertAtIs ==
  ASSUME NEW V, NEW t \in Seq(V), NEW i \in 1..Len(t)
  PROVE  LET s == Seqs!InsertAt(t, i, t[i]) IN
         /\ s \in Seq(V) /\ Len(s) = Len(t) + 1
         /\ \A p \in 1..i : s[p] = t[p]
         /\ \A p \in (i + 1)..Len(s) : s[p] = t[p - 1]
  <1> DEFINE one == SubSeq(t, 1, i - 1)
             mid == one \o <<t[i]>>
             two == SubSeq(t, i, Len(t))
             s == mid \o two
  <1>0. Len(t) \in Nat /\ t[i] \in V
    OBVIOUS
  <1>1. one \in Seq(V) /\ Len(one) = i - 1 /\ \A p \in 1..(i - 1) : one[p] = t[p]
    OBVIOUS
  <1>2. /\ two \in Seq(V) /\ Len(two) = Len(t) - (i - 1)
        /\ \A p \in 1..(Len(t) - (i - 1)) : two[p] = t[(i - 1) + p]
    OBVIOUS
  <1> HIDE DEF one, two
  <1>3. mid \in Seq(V) /\ Len(mid) = i /\ \A p \in 1..i : mid[p] = t[p]
    BY <1>0, <1>1
  <1> HIDE DEF mid
  <1>4. s \in Seq(V) /\ Len(s) = Len(t) + 1
    <2>1. s \in Seq(V) /\ Len(s) = Len(mid) + Len(two)
      BY <1>2, <1>3, ConcatProperties
    <2> HIDE DEF s
    <2> QED
      BY <1>0, <1>2, <1>3, <2>1
  <1>5. ASSUME NEW p \in 1..i PROVE s[p] = t[p]
    BY <1>2, <1>3
  <1>6. ASSUME NEW p \in (i + 1)..Len(s) PROVE s[p] = t[p - 1]
    <2>1. p - i \in 1..(Len(t) - (i - 1)) /\ (i - 1) + (p - i) = p - 1
      BY <1>0, <1>4
    <2>2. s[p] = two[p - i]
      BY <1>0, <1>2, <1>3, <1>4
    <2> QED
      BY <1>2, <2>1, <2>2
  <1>7. Seqs!InsertAt(t, i, t[i]) = s
    BY DEF Seqs!InsertAt, one, two, mid
  <1> HIDE DEF s
  <1> QED
    BY <1>4, <1>5, <1>6, <1>7

\* A table as it was written gives every socket as it is.
LEMMA WrittenIsRead ==
  ASSUME NEW sockets \in Seq(Socket), NEW tcp \in BOOLEAN
  PROVE  Parse(Table(sockets, tcp), tcp) = [ok |-> TRUE, rows |-> Expected(sockets)]
  <1> DEFINE t == Table(sockets, tcp)
  <1>1. t \in Seq(Records)
    BY TableIs
  <1>2. PICK run : /\ Trace(t, tcp, run)
                   /\ Parse(t, tcp) = IF run[Len(t)].at = "closed"
                                        THEN [ok |-> TRUE, rows |-> run[Len(t)].rows]
                                        ELSE [ok |-> FALSE, rows |-> <<>>]
    BY <1>1, ParseRuns
  <1>3. run[Len(t)] = Over(sockets)
    BY <1>2, NeverFails
  <1> QED
    BY <1>2, <1>3 DEF Over

\* A damaged one is refused or gives the same.
LEMMA DamagedIsRead ==
  ASSUME NEW sockets \in Seq(Socket), NEW tcp \in BOOLEAN,
         NEW s \in Damaged(Table(sockets, tcp))
  PROVE  Parse(s, tcp).ok => Parse(s, tcp).rows = Expected(sockets)
  <1> DEFINE t == Table(sockets, tcp)
  <1>1. t \in Seq(Records) /\ DOMAIN t = 1..Len(t) /\ Len(t) \in Nat
    BY TableIs
  <1>2. PICK run : Trace(t, tcp, run)
    BY <1>1, ParseRuns
  <1>3. \E i \in 1..Len(t) :
          s \in {Seqs!RemoveAt(t, i), Seqs!InsertAt(t, i, t[i]), [t EXCEPT ![i].kind = "bad"],
                 IF i < Len(t) THEN [t EXCEPT ![i] = t[i + 1], ![i + 1] = t[i]] ELSE t}
    <2> HIDE DEF t
    <2>1. s \in Damaged(t)
      BY DEF t
    <2> QED
      BY <1>1, <2>1 DEF Damaged
  <1>4. PICK i \in 1..Len(t) :
          s \in {Seqs!RemoveAt(t, i), Seqs!InsertAt(t, i, t[i]), [t EXCEPT ![i].kind = "bad"],
                 IF i < Len(t) THEN [t EXCEPT ![i] = t[i + 1], ![i + 1] = t[i]] ELSE t}
    BY <1>3
  <1>5. SUFFICES /\ s \in Seq(Records)
                 /\ \A other : Trace(s, tcp, other) => Meant(sockets, other[Len(s)])
    <2>1. ASSUME s \in Seq(Records),
                 \A other : Trace(s, tcp, other) => Meant(sockets, other[Len(s)])
          PROVE  Parse(s, tcp).ok => Parse(s, tcp).rows = Expected(sockets)
      <3>1. PICK other : /\ Trace(s, tcp, other)
                         /\ Parse(s, tcp) = IF other[Len(s)].at = "closed"
                                              THEN [ok |-> TRUE, rows |-> other[Len(s)].rows]
                                              ELSE [ok |-> FALSE, rows |-> <<>>]
        BY <2>1, ParseRuns
      <3>2. Meant(sockets, other[Len(s)])
        BY <2>1, <3>1
      <3> QED
        BY <3>1, <3>2 DEF Meant
    <2> QED
      BY <2>1
  <1>6. t = Table(sockets, tcp)
    OBVIOUS
  <1> HIDE DEF t
  <1>7. CASE s = Seqs!RemoveAt(t, i)
    <2>1. /\ s \in Seq(Records) /\ Len(s) = Len(t) - 1
          /\ \A p \in 1..(i - 1) : s[p] = t[p]
          /\ \A p \in i..Len(s) : s[p] = t[p + 1]
      BY <1>1, <1>7, RemoveAtIs
    <2> QED
      BY <1>2, <1>6, <2>1, Removed
  <1>8. CASE s = Seqs!InsertAt(t, i, t[i])
    <2>1. /\ s \in Seq(Records) /\ Len(s) = Len(t) + 1
          /\ \A p \in 1..i : s[p] = t[p]
          /\ \A p \in (i + 1)..Len(s) : s[p] = t[p - 1]
      BY <1>1, <1>8, InsertAtIs
    <2> QED
      BY <1>2, <1>6, <2>1, Doubled
  <1>9. CASE s = [t EXCEPT ![i].kind = "bad"]
    <2> DEFINE record == [t[i] EXCEPT !.kind = "bad"]
    <2>1. record \in Records /\ record.kind = "bad"
      <3>1. t[i] \in Records
        BY <1>1
      <3> QED
        BY <3>1 DEF Records, Kinds
    <2>2. s = [t EXCEPT ![i] = record]
      BY <1>9
    <2> HIDE DEF record
    <2>3. /\ s \in Seq(Records) /\ Len(s) = Len(t) /\ s[i].kind = "bad"
          /\ \A p \in 1..Len(t) : p # i => s[p] = t[p]
      BY <1>1, <2>1, <2>2
    <2> QED
      BY <1>2, <1>6, <2>3, CutShort
  <1>10. CASE i < Len(t) /\ s = [t EXCEPT ![i] = t[i + 1], ![i + 1] = t[i]]
    <2>1. i \in 1..(Len(t) - 1) /\ i + 1 \in 1..Len(t) /\ t[i] \in Records /\ t[i + 1] \in Records
      BY <1>1, <1>10
    <2>2. /\ s \in Seq(Records) /\ Len(s) = Len(t) /\ s[i] = t[i + 1] /\ s[i + 1] = t[i]
          /\ \A p \in 1..Len(t) : p \notin {i, i + 1} => s[p] = t[p]
      BY <1>1, <1>10, <2>1
    <2> QED
      BY <1>2, <1>6, <2>1, <2>2, Swapped
  <1>11. CASE s = t
    <2>1. \A other : Trace(t, tcp, other) => other[Len(t)] = Over(sockets)
      BY <1>6, NeverFails
    <2> QED
      BY <1>1, <1>11, <2>1 DEF Meant, Over
  <1> QED
    BY <1>4, <1>7, <1>8, <1>9, <1>10, <1>11

\* The rows of the first sockets are the first of the rows.
LEMMA FirstRows ==
  ASSUME NEW sockets \in Seq(Socket), NEW m \in 0..Len(sockets)
  PROVE  RowsOf(sockets, m) = SubSeq(Expected(sockets), 1, m)
  <1> DEFINE rows == RowsOf(sockets, Len(sockets))
             first == SubSeq(rows, 1, m)
  <1>1. \A q \in 0..Len(sockets) : /\ RowsOf(sockets, q) \in Seq(RowType)
                                    /\ Len(RowsOf(sockets, q)) = q
    <2> TAKE q \in 0..Len(sockets)
    <2>1. RowsOf(sockets, q) \in Seq(RowType) /\ DOMAIN RowsOf(sockets, q) = 1..q /\ q \in Nat
      BY ReadIs DEF RowsOf
    <2> QED
      BY <2>1
  <1>2. \A i \in 1..m : rows[i] \in RowType /\ rows[i] = RowsOf(sockets, m)[i]
    <2>1. rows \in Seq(RowType) /\ Len(rows) = Len(sockets) /\ Len(sockets) \in Nat
      BY <1>1
    <2>2. \A i \in 1..m : i \in 1..Len(sockets)
      OBVIOUS
    <2>3. \A i \in 1..m : rows[i] = RowsOf(sockets, m)[i]
      BY <2>2 DEF RowsOf
    <2> HIDE DEF rows
    <2> QED
      BY <2>1, <2>2, <2>3
  <1> HIDE DEF rows
  <1>3. first \in Seq(RowType) /\ Len(first) = m /\ \A i \in 1..m : first[i] = rows[i]
    <2>1. m \in Nat /\ 1 \in Int /\ m \in Int
      OBVIOUS
    <2> QED
      BY <1>2, <2>1, SubSeqProperties
  <1> HIDE DEF first
  <1>4. RowsOf(sockets, m) = first
    <2>1. RowsOf(sockets, m) \in Seq(RowType) /\ Len(RowsOf(sockets, m)) = m
      BY <1>1
    <2> QED
      BY <1>2, <1>3, <2>1, SeqEqual
  <1>5. Expected(sockets) = rows
    BY ReadIs DEF rows
  <1> QED
    BY <1>4, <1>5 DEF first

\* A table with a record as long as a closing header is refused or gives the
\* rows of the first sockets.
LEMMA EndedIsRead ==
  ASSUME NEW sockets \in Seq(Socket), NEW tcp \in BOOLEAN,
         NEW s \in Ended(Table(sockets, tcp))
  PROVE  Parse(s, tcp).ok =>
           \E m \in 0..Len(sockets) : Parse(s, tcp).rows = SubSeq(Expected(sockets), 1, m)
  <1> DEFINE t == Table(sockets, tcp)
  <1>1. /\ t \in Seq(Records) /\ DOMAIN t = 1..Len(t) /\ Len(t) \in Nat \ {0}
        /\ Len(sockets) \in Nat /\ t[Len(t)] = Closing
    <2>1. Len(sockets) + 1 \in Nat \ {0} /\ 1 \in 1..Width(tcp)
      BY AtSteps
    <2> QED
      BY <2>1, TableIs, AtSteps
  <1>2. PICK run : Trace(t, tcp, run)
    BY <1>1, ParseRuns
  <1>3. PICK i \in 1..Len(t) : s = [t EXCEPT ![i].kind = "closing"]
    <2> HIDE DEF t
    <2>1. s \in Ended(t)
      BY DEF t
    <2> QED
      BY <1>1, <2>1 DEF Ended
  <1>4. t = Table(sockets, tcp)
    OBVIOUS
  <1> HIDE DEF t
  <1> DEFINE record == [t[i] EXCEPT !.kind = "closing"]
  <1>5. record \in Records /\ record.kind = "closing"
    <2>1. t[i] \in Records
      BY <1>1
    <2> QED
      BY <2>1 DEF Records, Kinds
  <1>6. s = [t EXCEPT ![i] = record]
    BY <1>3
  <1>7. i = Len(t) => record = t[i]
    BY <1>1 DEF Closing
  <1> HIDE DEF record
  <1>8. /\ s \in Seq(Records) /\ Len(s) = Len(t) /\ s[i].kind = "closing"
        /\ \A p \in 1..Len(t) : p # i => s[p] = t[p]
        /\ i = Len(t) => s = t
    <2>1. s \in Seq(Records) /\ Len(s) = Len(t)
      BY <1>1, <1>5, <1>6
    <2>2. s[i] = record /\ \A p \in 1..Len(t) : p # i => s[p] = t[p]
      BY <1>1, <1>6
    <2>3. ASSUME i = Len(t) PROVE s = t
      <3>1. \A p \in 1..Len(t) : s[p] = t[p]
        BY <1>7, <2>2, <2>3
      <3> QED
        BY <1>1, <2>1, <3>1, SeqEqual
    <2> QED
      BY <1>5, <2>1, <2>2, <2>3
  <1>9. PICK other : /\ Trace(s, tcp, other)
                     /\ Parse(s, tcp) = IF other[Len(s)].at = "closed"
                                          THEN [ok |-> TRUE, rows |-> other[Len(s)].rows]
                                          ELSE [ok |-> FALSE, rows |-> <<>>]
    BY <1>8, ParseRuns
  <1>10. MeantSoFar(sockets, other[Len(s)])
    <2>1. CASE i = Len(t)
      <3>1. other[Len(s)] = Over(sockets)
        BY <1>4, <1>8, <1>9, <2>1, NeverFails
      <3>2. Over(sockets).rows = RowsOf(sockets, Len(sockets)) /\ Len(sockets) \in 0..Len(sockets)
        BY <1>1, ReadIs DEF Over
      <3> QED
        BY <3>1, <3>2 DEF MeantSoFar
    <2>2. CASE i # Len(t)
      <3>1. Len(t) \in Nat \ {0} /\ i \in 1..Len(t)
        BY <1>1
      <3>2. i \in 1..(Len(t) - 1)
        BY <2>2, <3>1
      <3> QED
        BY <1>2, <1>4, <1>8, <1>9, <3>2, EndedEarly
    <2> QED
      BY <2>1, <2>2
  <1>11. ASSUME other[Len(s)].at = "closed"
         PROVE  \E m \in 0..Len(sockets) : Parse(s, tcp).rows = SubSeq(Expected(sockets), 1, m)
    <2>1. PICK m \in 0..Len(sockets) : other[Len(s)].rows = RowsOf(sockets, m)
      BY <1>10, <1>11 DEF MeantSoFar
    <2>2. Parse(s, tcp).rows = RowsOf(sockets, m)
      BY <1>9, <1>11, <2>1
    <2> QED
      BY <2>2, FirstRows
  <1>12. ASSUME other[Len(s)].at # "closed" PROVE ~Parse(s, tcp).ok
    BY <1>9, <1>12
  <1> QED
    BY <1>11, <1>12

-----------------------------------------------------------------------------
(* What a process is shown, and its traffic.                               *)

\* What a process is shown of the first sockets.
LEMMA ShownRuns ==
  ASSUME NEW sockets \in Seq(Socket), NEW pid
  PROVE  \E run : /\ run \in [0..Len(sockets) -> Seq(Socket)]
                  /\ run[0] = <<>> /\ Shown(sockets, pid) = run[Len(sockets)]
                  /\ \A m \in 1..Len(sockets) :
                       run[m] = IF OwnedBy(pid, sockets[m])
                                  THEN Append(run[m - 1], sockets[m]) ELSE run[m - 1]
  <1> DEFINE n == Len(sockets)
             V == Seq(Socket)
             next(v, s) == IF OwnedBy(pid, s) THEN Append(v, s) ELSE v
             step == [p \in 1..n |-> [v \in V |-> next(v, sockets[p])]]
             first == [T \in SUBSET (1..n) |-> Latest(T)]
  <1>1. n \in Nat /\ DOMAIN sockets = 1..n /\ \A p \in 1..n : sockets[p] \in Socket
    OBVIOUS
  <1>2. <<>> \in V /\ \A p \in 1..n : \A v \in V : next(v, sockets[p]) \in V
    BY <1>1
  <1>3. \A p \in 1..n : \A v \in V : step[p][v] \in V
    BY <1>2
  <1> HIDE DEF V, next
  <1>4. PICK fold : FoldOf(1..n, V, <<>>, first, step, fold)
    <2> HIDE DEF step, n
    <2> QED
      BY <1>1, <1>2, <1>3, FoldLeftExists, Zenon
  <1> DEFINE value(f, T) == IF T = {} THEN <<>> ELSE next(f[T \ {Latest(T)}], sockets[Latest(T)])
  <1>5. ASSUME NEW T \in SUBSET (1..n) PROVE fold[T] = value(fold, T)
    <2>1. CASE T = {}
      BY <1>4, <2>1 DEF FoldOf
    <2>2. CASE T # {}
      <3>1. Latest(T) \in 1..n /\ first[T] = Latest(T)
        BY <1>1, <2>2, LatestIs
      <3>2. fold[T] = step[first[T]][fold[T \ {first[T]}]]
        <4> HIDE DEF first, step
        <4> QED
          BY <1>4, <2>2 DEF FoldOf
      <3>3. fold[T \ {Latest(T)}] \in V
        BY <1>4 DEF FoldOf
      <3> HIDE DEF first
      <3> QED
        BY <2>2, <3>1, <3>2, <3>3
    <2> QED
      BY <2>1, <2>2
  <1> DEFINE chosen == CHOOSE f : f = [T \in SUBSET (1..n) |-> value(f, T)]
  <1>6. fold = [T \in SUBSET (1..n) |-> value(fold, T)]
    <2>1. fold = [T \in SUBSET (1..n) |-> fold[T]]
      BY <1>4 DEF FoldOf
    <2> HIDE DEF value
    <2> QED
      BY <1>5, <2>1
  <1>7. chosen = [T \in SUBSET (1..n) |-> value(chosen, T)]
    BY <1>6
  <1>8. Shown(sockets, pid) = chosen[1..n]
    BY <1>1 DEF Shown, Seqs!FoldLeft, Seqs!MapThenFoldSet, Seqs!Max, Latest, next
  <1> HIDE DEF chosen
  <1> DEFINE run == [p \in 0..n |-> chosen[1..p]]
  <1>9. run[0] = <<>>
    <2>1. 1..0 = {} /\ {} \in SUBSET (1..n)
      OBVIOUS
    <2> QED
      BY <1>7, <2>1
  <1>10. ASSUME NEW p \in 1..n PROVE run[p] = next(run[p-1], sockets[p])
    <2>0. p \in 1..p /\ p - 1 \in 0..n /\ p \in 0..n /\ n \in Nat
      BY <1>1
    <2>1. 1..p \in SUBSET (1..n) /\ 1..p # {}
      <3> HIDE DEF n
      <3>1. \A x \in 1..p : x \in 1..n
        BY <2>0
      <3> QED
        BY <2>0, <3>1
    <2>2. Latest(1..p) = p /\ (1..p) \ {p} = 1..(p-1)
      BY LatestIs
    <2>3. chosen[1..p] = value(chosen, 1..p)
      <3> HIDE DEF value
      <3> QED
        BY <1>7, <2>1
    <2>4. chosen[1..p] = next(chosen[(1..p) \ {Latest(1..p)}], sockets[Latest(1..p)])
      BY <2>1, <2>3
    <2> QED
      BY <2>0, <2>2, <2>4
  <1>11. run[n] = chosen[1..n] /\ run = [p \in 0..n |-> run[p]]
    BY <1>1
  <1> HIDE DEF run
  <1>12. \A p \in Nat : p \in 0..n => run[p] \in V
    <2> DEFINE G == {p \in Nat : p \in 0..n => run[p] \in V}
    <2>1. 0 \in G
      BY <1>2, <1>9
    <2>2. ASSUME NEW p \in Nat, p \in G PROVE p + 1 \in G
      <3>1. p + 1 \in 0..n => run[p+1] = next(run[p], sockets[p+1])
        BY <1>10
      <3> QED
        BY <1>1, <1>2, <2>2, <3>1
    <2> HIDE DEF G
    <2>3. Nat \subseteq G
      BY <2>1, <2>2, Inductive
    <2> QED
      BY <2>3 DEF G
  <1>13. run \in [0..n -> V]
    <2>1. \A p \in 0..n : run[p] \in V
      BY <1>12
    <2> QED
      BY <1>11, <2>1
  <1> QED
    BY <1>8, <1>9, <1>10, <1>11, <1>13 DEF V, next

\* Sums of the same counts are the same.
LEMMA SumSame ==
  ASSUME NEW S, IsFiniteSet(S), NEW one, NEW two,
         \A x \in S : one[x] \in Nat /\ one[x] = two[x]
  PROVE  Sum(S, one) = Sum(S, two)
  <1>1. Sum(S, one) \in Nat /\ Sum(S, two) \in Nat
    BY SumRemove
  <1>2. Sum(S, one) <= Sum(S, two) /\ Sum(S, two) <= Sum(S, one)
    BY SumGrows
  <1> QED
    BY <1>1, <1>2

\* A row more adds its bytes if they are of that process.
LEMMA BytesAppend ==
  ASSUME NEW rows \in Seq(RowType), NEW row \in RowType, NEW pid
  PROVE  /\ BytesOf(<<>>, pid) = 0 /\ BytesOf(rows, pid) \in Nat
         /\ BytesOf(Append(rows, row), pid)
              = BytesOf(rows, pid) + (IF row.owner = pid THEN row.bytes ELSE 0)
  <1> DEFINE n == Len(rows)
             more == Append(rows, row)
             S == {i \in DOMAIN rows : rows[i].owner = pid}
             few == [i \in DOMAIN rows |-> rows[i].bytes]
             T == {i \in DOMAIN more : more[i].owner = pid}
             many == [i \in DOMAIN more |-> more[i].bytes]
  <1>1. \A r \in RowType : r.bytes \in Nat
    BY DEF RowType
  <1>2. /\ n \in Nat /\ DOMAIN rows = 1..n /\ DOMAIN more = 1..(n + 1)
        /\ \A i \in 1..n : rows[i] \in RowType /\ more[i] = rows[i]
        /\ more[n + 1] = row
    OBVIOUS
  <1> HIDE DEF n, more
  <1>3. IsFiniteSet(1..n) /\ IsFiniteSet(1..(n + 1))
    BY <1>2, FS_Interval
  <1>4. S \in SUBSET (1..n) /\ T \in SUBSET (1..(n + 1))
    BY <1>2
  <1>5. \A i \in 1..n : few[i] \in Nat /\ many[i] = few[i]
    BY <1>1, <1>2
  <1>6. \A i \in 1..(n + 1) : many[i] \in Nat
    BY <1>1, <1>2
  <1>7. many[n + 1] = row.bytes
    BY <1>2
  <1>8. IF row.owner = pid THEN n + 1 \in T /\ T \ {n + 1} = S ELSE T = S
    BY <1>2
  <1>9. BytesOf(<<>>, pid) = 0
    <2>1. {i \in DOMAIN <<>> : <<>>[i].owner = pid} = {}
      OBVIOUS
    <2>2. \A count : Sum({}, count) = 0
      <3> TAKE count
      <3>1. IsFiniteSet({})
        BY FS_EmptySet
      <3> QED
        BY <3>1, SumRemove
    <2> QED
      BY <2>1, <2>2 DEF BytesOf
  <1>10. BytesOf(rows, pid) = Sum(S, few) /\ BytesOf(more, pid) = Sum(T, many)
    BY DEF BytesOf
  <1> HIDE DEF S, T, few, many
  <1>11. Sum(S, few) \in Nat
    BY <1>2, <1>3, <1>4, <1>5, SumRemove
  <1>12. Sum(S, few) = Sum(S, many)
    <2>1. IsFiniteSet(S)
      BY <1>3, <1>4, FS_Subset
    <2>2. \A x \in S : few[x] \in Nat /\ few[x] = many[x]
      BY <1>4, <1>5
    <2> QED
      BY <2>1, <2>2, SumSame
  <1>13. Sum(T, many) = Sum(S, many) + (IF row.owner = pid THEN row.bytes ELSE 0)
    <2>1. CASE row.owner = pid
      <3>1. Sum(T, many) = many[n + 1] + Sum(T \ {n + 1}, many)
        BY <1>3, <1>4, <1>6, <1>8, <2>1, SumRemove
      <3>2. many[n + 1] \in Nat
        BY <1>2, <1>6
      <3>3. Sum(T \ {n + 1}, many) = Sum(S, many)
        BY <1>8, <2>1
      <3> QED
        BY <1>7, <1>11, <1>12, <2>1, <3>1, <3>2, <3>3
    <2>2. CASE row.owner # pid
      BY <1>8, <1>11, <1>12, <2>2
    <2> QED
      BY <2>1, <2>2
  <1> QED
    BY <1>9, <1>10, <1>11, <1>12, <1>13 DEF more

\* The bytes of two tables are those of both.
LEMMA BytesConcat ==
  ASSUME NEW one \in Seq(RowType), NEW two \in Seq(RowType), NEW pid
  PROVE  BytesOf(one \o two, pid) = BytesOf(one, pid) + BytesOf(two, pid)
  <1> DEFINE n == Len(two)
             part(m) == SubSeq(two, 1, m)
             G == {m \in Nat : m <= n =>
                     BytesOf(one \o part(m), pid) = BytesOf(one, pid) + BytesOf(part(m), pid)}
  <1>1. n \in Nat /\ part(n) = two
    OBVIOUS
  <1>2. \A r \in Seq(RowType) : BytesOf(r, pid) \in Nat
    <2>1. [owner |-> 0, bytes |-> 0, listens |-> FALSE, port |-> 0] \in RowType
      BY DEF RowType
    <2> QED
      BY <2>1, BytesAppend
  <1>3. 0 \in G
    <2>1. part(0) = <<>> /\ one \o <<>> = one
      OBVIOUS
    <2>2. BytesOf(<<>>, pid) = 0
      <3>1. [owner |-> 0, bytes |-> 0, listens |-> FALSE, port |-> 0] \in RowType
        BY DEF RowType
      <3> QED
        BY <3>1, BytesAppend
    <2> HIDE DEF part
    <2>3. BytesOf(one \o part(0), pid) = BytesOf(one, pid) + BytesOf(part(0), pid)
      <3>1. BytesOf(one \o part(0), pid) = BytesOf(one, pid)
        BY <2>1, Zenon
      <3>2. BytesOf(part(0), pid) = 0
        BY <2>1, <2>2, Zenon
      <3>3. BytesOf(one, pid) \in Nat
        BY <1>2
      <3> QED
        BY <3>1, <3>2, <3>3
    <2> QED
      BY <2>3
  <1>4. ASSUME NEW m \in Nat, m \in G PROVE m + 1 \in G
    <2>1. CASE m + 1 <= n
      <3> DEFINE row == two[m + 1]
                 before == part(m)
                 add == IF row.owner = pid THEN row.bytes ELSE 0
      <3>1. row \in RowType /\ before \in Seq(RowType) /\ one \o before \in Seq(RowType)
        BY <2>1
      <3>2. part(m + 1) = Append(before, row)
        BY <2>1
      <3>3. one \o Append(before, row) = Append(one \o before, row)
        <4> HIDE DEF row, before
        <4>1. one \o (before \o <<row>>) = (one \o before) \o <<row>>
          BY <3>1, ConcatAssociative
        <4>2. \A q \in Seq(RowType) : Append(q, row) = q \o <<row>>
          BY <3>1
        <4> QED
          BY <3>1, <4>1, <4>2
      <3>4. BytesOf(one \o before, pid) = BytesOf(one, pid) + BytesOf(before, pid)
        <4>1. m <= n
          BY <1>1, <2>1
        <4> QED
          BY <1>4, <4>1
      <3>5. add \in Nat
        <4>1. row.bytes \in Nat
          BY <3>1 DEF RowType
        <4> QED
          BY <4>1
      <3> HIDE DEF row, before
      <3>6. BytesOf(Append(one \o before, row), pid) = BytesOf(one \o before, pid) + add
        BY <3>1, BytesAppend
      <3>7. BytesOf(Append(before, row), pid) = BytesOf(before, pid) + add
        BY <3>1, BytesAppend
      <3>8. BytesOf(one, pid) \in Nat /\ BytesOf(before, pid) \in Nat
        BY <1>2, <3>1
      <3> HIDE DEF add, part
      <3>9. BytesOf(one \o part(m + 1), pid) = BytesOf(one, pid) + BytesOf(part(m + 1), pid)
        <4>1. /\ BytesOf(one \o part(m + 1), pid) = BytesOf(one \o before, pid) + add
              /\ BytesOf(part(m + 1), pid) = BytesOf(before, pid) + add
          BY <3>2, <3>3, <3>6, <3>7, Zenon
        <4> QED
          BY <3>4, <3>5, <3>8, <4>1
      <3> QED
        BY <3>9
    <2> QED
      BY <2>1
  <1>5. n \in G
    <2> HIDE DEF G
    <2>1. Nat \subseteq G
      BY <1>3, <1>4, Inductive
    <2> QED
      BY <1>1, <2>1
  <1> HIDE DEF part
  <1>6. n <= n
    BY <1>1
  <1> HIDE DEF n
  <1> QED
    BY <1>1, <1>5, <1>6

\* The row of a socket.
LEMMA PlainIs ==
  ASSUME NEW s \in Socket
  PROVE  /\ Plain(s) \in RowType
         /\ OwnedBy(1, s) => Plain(s).owner \in {0, 1}
         /\ ~OwnedBy(1, s) => Plain(s).owner # 1
  BY DEF Plain, RowType, OwnedBy, Socket

\* One row per socket.
LEMMA ExpectedIs ==
  ASSUME NEW q \in Seq(Socket)
  PROVE  /\ Expected(q) \in Seq(RowType) /\ Len(Expected(q)) = Len(q)
         /\ \A i \in 1..Len(q) : Expected(q)[i] = Plain(q[i])
         /\ \A s \in Socket : Expected(Append(q, s)) = Append(Expected(q), Plain(s))
  <1>1. Expected(q) = RowsOf(q, Len(q)) /\ Len(q) \in 0..Len(q) /\ Len(q) \in Nat
    BY ReadIs
  <1>2. Expected(q) \in Seq(RowType)
    BY <1>1, ReadIs
  <1>3. Len(Expected(q)) = Len(q) /\ \A i \in 1..Len(q) : Expected(q)[i] = Plain(q[i])
    BY <1>1, <1>2 DEF RowsOf
  <1>4. ASSUME NEW s \in Socket PROVE Expected(Append(q, s)) = Append(Expected(q), Plain(s))
    <2> DEFINE n == Len(q)
               more == Append(q, s)
    <2>1. more \in Seq(Socket) /\ Len(more) = n + 1 /\ more[n + 1] = s
          /\ \A i \in 1..n : more[i] = q[i]
      OBVIOUS
    <2> HIDE DEF more
    <2>2. n + 1 \in 1..Len(more) /\ (n + 1) - 1 = n
      BY <1>1, <2>1
    <2>3. Append(RowsOf(more, (n + 1) - 1), Plain(more[n + 1])) = RowsOf(more, n + 1)
      BY <2>1, <2>2, ReadIs
    <2>4. RowsOf(more, n) = RowsOf(q, n)
      BY <2>1 DEF RowsOf
    <2>5. Expected(more) = RowsOf(more, n + 1)
      BY <2>1, ReadIs
    <2> QED
      BY <1>1, <2>1, <2>2, <2>3, <2>4, <2>5 DEF more
  <1> QED
    BY <1>2, <1>3, <1>4

\* What a process is shown are its own sockets, all of its traffic among them.
LEMMA ShownIs ==
  ASSUME NEW sockets \in Seq(Socket)
  PROVE  LET its == Shown(sockets, 1) IN
         /\ its \in Seq(Socket)
         /\ Len(its) < Len(sockets) <=> \E i \in DOMAIN sockets : ~OwnedBy(1, sockets[i])
         /\ \A i \in 1..Len(its) : OwnedBy(1, its[i])
         /\ BytesOf(Expected(its), 1) = BytesOf(Expected(sockets), 1)
  <1> DEFINE n == Len(sockets)
  <1>1. PICK run : /\ run \in [0..n -> Seq(Socket)]
                   /\ run[0] = <<>> /\ Shown(sockets, 1) = run[n]
                   /\ \A m \in 1..n :
                        run[m] = IF OwnedBy(1, sockets[m])
                                   THEN Append(run[m - 1], sockets[m]) ELSE run[m - 1]
    BY ShownRuns
  <1>2. n \in Nat /\ DOMAIN sockets = 1..n /\ \A i \in 1..n : sockets[i] \in Socket
    OBVIOUS
  <1> DEFINE Few(m) == /\ Len(run[m]) <= m
                       /\ Len(run[m]) < m <=> \E i \in 1..m : ~OwnedBy(1, sockets[i])
             Own(m) == \A i \in 1..Len(run[m]) : OwnedBy(1, run[m][i])
             Bytes(m) == BytesOf(Expected(run[m]), 1) = BytesOf(RowsOf(sockets, m), 1)
             G == {m \in Nat : m \in 0..n => Few(m) /\ Own(m) /\ Bytes(m)}
  <1>3. 0 \in G
    <2>1. <<>> \in Seq(Socket) /\ Len(<<>>) = 0
      OBVIOUS
    <2>2. Expected(<<>>) = RowsOf(sockets, 0)
      <3>1. Expected(<<>>) = RowsOf(<<>>, 0)
        BY <2>1, ReadIs
      <3> QED
        BY <3>1 DEF RowsOf
    <2>3. Few(0) /\ Own(0)
      BY <1>1, <2>1
    <2>4. Bytes(0)
      BY <1>1, <2>2
    <2> HIDE DEF Few, Own, Bytes
    <2> QED
      BY <2>3, <2>4
  <1>4. ASSUME NEW m \in Nat, m \in G, m + 1 \in 0..n
        PROVE  Few(m + 1) /\ Own(m + 1) /\ Bytes(m + 1)
    <2> DEFINE s == sockets[m + 1]
               q == run[m]
    <2>1. m \in 0..n /\ m + 1 \in 1..n /\ (m + 1) - 1 = m
      BY <1>2, <1>4
    <2>2. Few(m) /\ Own(m) /\ Bytes(m)
      <3> HIDE DEF Few, Own, Bytes
      <3> QED
        BY <1>4, <2>1
    <2>3. /\ q \in Seq(Socket) /\ s \in Socket
          /\ run[m + 1] = IF OwnedBy(1, s) THEN Append(q, s) ELSE q
      BY <1>1, <1>2, <2>1
    <2>4. Len(q) \in Nat
      BY <2>3
    <2>5. BytesOf(RowsOf(sockets, m + 1), 1)
            = BytesOf(RowsOf(sockets, m), 1) + (IF Plain(s).owner = 1 THEN Plain(s).bytes ELSE 0)
      <3>1. Append(RowsOf(sockets, m), Plain(s)) = RowsOf(sockets, m + 1)
            /\ RowsOf(sockets, m) \in Seq(RowType)
        BY <2>1, ReadIs
      <3>2. Plain(s) \in RowType
        BY <2>3, PlainIs
      <3> DEFINE before == RowsOf(sockets, m)
                 row == Plain(s)
      <3>3. before \in Seq(RowType) /\ row \in RowType
        BY <3>1, <3>2
      <3>4. BytesOf(Append(before, row), 1)
              = BytesOf(before, 1) + (IF row.owner = 1 THEN row.bytes ELSE 0)
        <4> HIDE DEF before, row
        <4> QED
          BY <3>3, BytesAppend
      <3> QED
        BY <3>1, <3>4, Zenon
    <2>6. BytesOf(RowsOf(sockets, m), 1) \in Nat
      BY <2>1, <2>3, ReadIs, PlainIs, BytesAppend
    <2>7. \A i \in 1..(m + 1) : i \in 1..m \/ i = m + 1
      OBVIOUS
    <2>8. CASE OwnedBy(1, s)
      <3>1. run[m + 1] = Append(q, s)
        BY <2>3, <2>8
      <3>2. /\ Len(Append(q, s)) = Len(q) + 1 /\ Append(q, s)[Len(q) + 1] = s
            /\ \A i \in 1..Len(q) : Append(q, s)[i] = q[i]
        BY <2>3
      <3>3. Few(m + 1)
        <4>1. Len(run[m + 1]) = Len(q) + 1
          BY <3>1, <3>2
        <4>2. (\E i \in 1..(m + 1) : ~OwnedBy(1, sockets[i]))
                <=> \E i \in 1..m : ~OwnedBy(1, sockets[i])
          BY <2>7, <2>8
        <4> HIDE DEF q
        <4> QED
          BY <2>2, <2>4, <4>1, <4>2 DEF q
      <3>4. Own(m + 1)
        <4> SUFFICES ASSUME NEW i \in 1..(Len(q) + 1) PROVE OwnedBy(1, Append(q, s)[i])
          BY <3>1, <3>2
        <4>1. CASE i = Len(q) + 1
          BY <2>8, <3>2, <4>1
        <4>2. CASE i # Len(q) + 1
          <5>1. i \in 1..Len(q)
            BY <2>4, <4>2
          <5> QED
            BY <2>2, <3>2, <5>1
        <4> QED
          BY <4>1, <4>2
      <3>5. Bytes(m + 1)
        <4>1. Expected(run[m + 1]) = Append(Expected(q), Plain(s)) /\ Expected(q) \in Seq(RowType)
          BY <2>3, <3>1, ExpectedIs
        <4>2. Plain(s) \in RowType
          BY <2>3, PlainIs
        <4> HIDE DEF s
        <4>3. BytesOf(Append(Expected(q), Plain(s)), 1)
                = BytesOf(Expected(q), 1) + (IF Plain(s).owner = 1 THEN Plain(s).bytes ELSE 0)
          BY <4>1, <4>2, BytesAppend
        <4>4. BytesOf(Expected(q), 1) = BytesOf(RowsOf(sockets, m), 1)
          BY <2>2
        <4> QED
          BY <2>5, <4>1, <4>3, <4>4
      <3> QED
        BY <3>3, <3>4, <3>5
    <2>9. CASE ~OwnedBy(1, s)
      <3>1. run[m + 1] = q
        BY <2>3, <2>9
      <3>2. Few(m + 1)
        <4>1. \E i \in 1..(m + 1) : ~OwnedBy(1, sockets[i])
          BY <2>9
        <4>2. Len(q) <= m
          BY <2>2
        <4>3. Len(run[m + 1]) = Len(q)
          BY <3>1
        <4> HIDE DEF q
        <4> QED
          BY <2>4, <4>1, <4>2, <4>3
      <3>3. Own(m + 1)
        BY <2>2, <3>1
      <3>4. Bytes(m + 1)
        <4>1. Plain(s).owner # 1
          BY <2>3, <2>9, PlainIs
        <4>2. BytesOf(RowsOf(sockets, m + 1), 1) = BytesOf(RowsOf(sockets, m), 1)
          BY <2>5, <2>6, <4>1
        <4> QED
          BY <2>2, <3>1, <4>2
      <3> QED
        BY <3>2, <3>3, <3>4
    <2> QED
      BY <2>8, <2>9
  <1>5. Few(n) /\ Own(n) /\ Bytes(n)
    <2> HIDE DEF Few, Own, Bytes
    <2>1. Nat \subseteq G
      <3>1. ASSUME NEW m \in Nat, m \in G PROVE m + 1 \in G
        BY <1>4, <3>1
      <3> HIDE DEF G
      <3> QED
        BY <1>3, <3>1, Inductive
    <2>2. n \in G /\ n \in 0..n
      BY <1>2, <2>1
    <2> QED
      BY <2>2
  <1>6. Shown(sockets, 1) \in Seq(Socket)
    BY <1>1, <1>2
  <1>7. Expected(sockets) = RowsOf(sockets, n)
    BY ReadIs
  <1> QED
    BY <1>1, <1>2, <1>5, <1>6, <1>7

-----------------------------------------------------------------------------
(* Both tables.                                                            *)

\* Both tables are taken, or neither is.
LEMMA ReadTablesIs ==
  ASSUME NEW read, NEW own
  PROVE  LET tcp == Parse(read[TRUE].table, TRUE)
             udp == Parse(read[FALSE].table, FALSE)
             got == ReadTables(read, own)
         IN /\ tcp.ok /\ udp.ok =>
                 got = [ok |-> TRUE, rows |-> tcp.rows \o udp.rows,
                        restricted |-> \/ ShowsOnly(read[TRUE].count, tcp.rows, own)
                                       \/ ShowsOnly(read[FALSE].count, udp.rows, own)]
            /\ ~(tcp.ok /\ udp.ok) => got = [ok |-> FALSE]
  <1> DEFINE parsed == [tcp \in BOOLEAN |-> Parse(read[tcp].table, tcp)]
  <1>1. /\ parsed[TRUE] = Parse(read[TRUE].table, TRUE)
        /\ parsed[FALSE] = Parse(read[FALSE].table, FALSE)
    OBVIOUS
  <1>2. ReadTables(read, own) =
          IF \E tcp \in BOOLEAN : ~parsed[tcp].ok THEN [ok |-> FALSE]
          ELSE [ok |-> TRUE,
                rows |-> parsed[TRUE].rows \o parsed[FALSE].rows,
                restricted |-> \E tcp \in BOOLEAN :
                                 ShowsOnly(read[tcp].count, parsed[tcp].rows, own)]
    BY DEF ReadTables
  <1> HIDE DEF parsed
  <1>3. (\E tcp \in BOOLEAN : ~parsed[tcp].ok) <=> ~(parsed[TRUE].ok /\ parsed[FALSE].ok)
    OBVIOUS
  <1>4. (\E tcp \in BOOLEAN : ShowsOnly(read[tcp].count, parsed[tcp].rows, own))
          = \/ ShowsOnly(read[TRUE].count, parsed[TRUE].rows, own)
            \/ ShowsOnly(read[FALSE].count, parsed[FALSE].rows, own)
    OBVIOUS
  <1> QED
    BY <1>1, <1>2, <1>3, <1>4, Zenon

\* With another table in the place of one of the two, its rows stand beside
\* those of the other one.
LEMMA OneReplaced ==
  ASSUME NEW sockets \in Seq(Socket), NEW tcp \in BOOLEAN, NEW n, NEW t
  PROVE  LET written == [u \in BOOLEAN |-> [table |-> Table(sockets, u), count |-> n]]
             got == ReadTables([written EXCEPT ![tcp].table = t], 1)
         IN got.ok => /\ Parse(t, tcp).ok
                      /\ got.rows = IF tcp THEN Parse(t, tcp).rows \o Expected(sockets)
                                           ELSE Expected(sockets) \o Parse(t, tcp).rows
  <1> DEFINE written == [u \in BOOLEAN |-> [table |-> Table(sockets, u), count |-> n]]
             read == [written EXCEPT ![tcp].table = t]
             got == ReadTables(read, 1)
             rows == Expected(sockets)
  <1>1. /\ read[tcp].table = t
        /\ \A u \in BOOLEAN : u # tcp => read[u].table = Table(sockets, u)
    OBVIOUS
  <1>2. \A u \in BOOLEAN : Parse(Table(sockets, u), u).rows = rows
    BY WrittenIsRead
  <1> HIDE DEF read, rows
  <1> DEFINE one == Parse(read[TRUE].table, TRUE)
             two == Parse(read[FALSE].table, FALSE)
             limited == \/ ShowsOnly(read[TRUE].count, one.rows, 1)
                        \/ ShowsOnly(read[FALSE].count, two.rows, 1)
             joined == one.rows \o two.rows
  <1>3. /\ one.ok /\ two.ok => got = [ok |-> TRUE, rows |-> joined, restricted |-> limited]
        /\ ~(one.ok /\ two.ok) => got = [ok |-> FALSE]
    BY ReadTablesIs, Zenon
  <1>4. IF tcp THEN one = Parse(t, tcp) /\ two.rows = rows
               ELSE two = Parse(t, tcp) /\ one.rows = rows
    <2>1. CASE tcp
      <3>1. read[TRUE].table = t /\ read[FALSE].table = Table(sockets, FALSE) /\ tcp = TRUE
        BY <1>1, <2>1
      <3> QED
        BY <1>2, <2>1, <3>1
    <2>2. CASE ~tcp
      <3>1. read[FALSE].table = t /\ read[TRUE].table = Table(sockets, TRUE) /\ tcp = FALSE
        BY <1>1, <2>2
      <3> QED
        BY <1>2, <2>2, <3>1
    <2> QED
      BY <2>1, <2>2
  <1> HIDE DEF one, two, got, limited, joined
  <1>5. one.ok /\ two.ok => got.rows = joined
    BY <1>3
  <1>6. ~(one.ok /\ two.ok) => ~got.ok
    BY <1>3
  <1>7. ASSUME got.ok
        PROVE  /\ Parse(t, tcp).ok
               /\ got.rows = IF tcp THEN Parse(t, tcp).rows \o rows
                                    ELSE rows \o Parse(t, tcp).rows
    <2>1. one.ok /\ two.ok /\ got.rows = one.rows \o two.rows
      BY <1>5, <1>6, <1>7 DEF joined
    <2> QED
      BY <1>4, <2>1
  <1> QED
    BY <1>7 DEF got, read, rows

\* A table of any length, whatever its sockets are, is read as it was meant: as
\* the kernel wrote it, as a table of the caller's own sockets if it is one, not
\* at all, or right, if one of its records is missing, doubled, of a wrong length
\* or in the place of its neighbour, and if one is as long as the closing header
\* not at all or right as far as it was read (listeners/pcblist.rs:119-287).
THEOREM TablesAreReadAsMeant ==
  \A sockets \in Seq(Socket), tcp \in BOOLEAN : ReadAsMeant(sockets, tcp)
  <1> SUFFICES ASSUME NEW sockets \in Seq(Socket), NEW tcp \in BOOLEAN
               PROVE  ReadAsMeant(sockets, tcp)
    OBVIOUS
  <1> DEFINE n == Len(sockets)
             written(q) == [t \in BOOLEAN |-> [table |-> Table(q, t), count |-> n]]
             its == Shown(sockets, 1)
             mine == ReadTables(written(its), 1)
             all == ReadTables(written(sockets), 1)
  <1>1. ASSUME NEW q \in Seq(Socket)
        PROVE  ReadTables(written(q), 1) =
                 [ok |-> TRUE, rows |-> Expected(q) \o Expected(q),
                  restricted |-> ShowsOnly(n, Expected(q), 1)]
    <2> DEFINE read == written(q)
               rows == Expected(q)
    <2>1. /\ read[TRUE].table = Table(q, TRUE) /\ read[FALSE].table = Table(q, FALSE)
          /\ read[TRUE].count = n /\ read[FALSE].count = n
      OBVIOUS
    <2>2. /\ Parse(Table(q, TRUE), TRUE) = [ok |-> TRUE, rows |-> rows]
          /\ Parse(Table(q, FALSE), FALSE) = [ok |-> TRUE, rows |-> rows]
      BY WrittenIsRead
    <2> HIDE DEF read, rows, n
    <2> DEFINE found == [ok |-> TRUE, rows |-> rows]
    <2>3. Parse(read[TRUE].table, TRUE) = found /\ Parse(read[FALSE].table, FALSE) = found
      BY <2>1, <2>2, Zenon
    <2>4. found.ok /\ found.rows = rows
      OBVIOUS
    <2> HIDE DEF found
    <2>5. /\ Parse(read[TRUE].table, TRUE).ok /\ Parse(read[FALSE].table, FALSE).ok
          /\ Parse(read[TRUE].table, TRUE).rows = rows
          /\ Parse(read[FALSE].table, FALSE).rows = rows
      BY <2>3, <2>4, Zenon
    <2>6. ReadTables(read, 1) =
            [ok |-> TRUE,
             rows |-> Parse(read[TRUE].table, TRUE).rows \o Parse(read[FALSE].table, FALSE).rows,
             restricted |-> \/ ShowsOnly(read[TRUE].count, Parse(read[TRUE].table, TRUE).rows, 1)
                            \/ ShowsOnly(read[FALSE].count, Parse(read[FALSE].table, FALSE).rows, 1)]
      BY <2>5, ReadTablesIs
    <2>7. (ShowsOnly(n, rows, 1) \/ ShowsOnly(n, rows, 1)) = ShowsOnly(n, rows, 1)
      BY DEF ShowsOnly
    <2>8. ReadTables(read, 1) = [ok |-> TRUE, rows |-> rows \o rows,
                                 restricted |-> ShowsOnly(n, rows, 1)]
      BY <2>1, <2>5, <2>6, <2>7, Zenon
    <2> QED
      BY <2>8 DEF read, rows
  <1>2. its \in Seq(Socket) /\ n \in Nat
    BY ShownIs
  <1>3. mine = [ok |-> TRUE, rows |-> Expected(its) \o Expected(its),
                restricted |-> ShowsOnly(n, Expected(its), 1)]
    BY <1>1, <1>2
  <1>4. all = [ok |-> TRUE, rows |-> Expected(sockets) \o Expected(sockets),
               restricted |-> ShowsOnly(n, Expected(sockets), 1)]
    BY <1>1
  <1>5. mine.restricted <=> \E i \in DOMAIN sockets : ~OwnedBy(1, sockets[i])
    <2>1. ShowsOnly(n, Expected(its), 1) <=> Len(its) < n
      <3> HIDE DEF its
      <3>1. /\ Len(Expected(its)) = Len(its) /\ DOMAIN Expected(its) = 1..Len(its)
            /\ \A i \in 1..Len(its) : Expected(its)[i] = Plain(its[i])
        BY <1>2, ExpectedIs
      <3>2. \A i \in 1..Len(its) : its[i] \in Socket /\ OwnedBy(1, its[i])
        BY <1>2, ShownIs DEF its
      <3>3. \A i \in DOMAIN Expected(its) : Expected(its)[i].owner \in {0, 1}
        BY <3>1, <3>2, PlainIs
      <3> QED
        BY <3>1, <3>3 DEF ShowsOnly
    <2>2. Len(its) < n <=> \E i \in DOMAIN sockets : ~OwnedBy(1, sockets[i])
      BY ShownIs
    <2> QED
      BY <1>3, <2>1, <2>2
  <1>6. BytesOf(mine.rows, 1) = 2 * BytesOf(Expected(sockets), 1)
    <2>1. Expected(its) \in Seq(RowType)
      BY <1>2, ExpectedIs
    <2>2. BytesOf(Expected(its) \o Expected(its), 1)
            = BytesOf(Expected(its), 1) + BytesOf(Expected(its), 1)
      BY <2>1, BytesConcat
    <2>3. BytesOf(Expected(its), 1) = BytesOf(Expected(sockets), 1)
      BY ShownIs
    <2>4. BytesOf(Expected(its), 1) \in Nat
      <3>1. [owner |-> 0, bytes |-> 0, listens |-> FALSE, port |-> 0] \in RowType
        BY DEF RowType
      <3> QED
        BY <2>1, <3>1, BytesAppend
    <2>5. mine.rows = Expected(its) \o Expected(its)
      <3> HIDE DEF mine
      <3> QED
        BY <1>3
    <2> DEFINE x == BytesOf(Expected(its), 1)
               y == BytesOf(Expected(sockets), 1)
    <2>6. x + x = 2 * y
      <3>1. x = y /\ x \in Nat
        BY <2>3, <2>4
      <3> HIDE DEF x, y
      <3> QED
        BY <3>1
    <2> QED
      BY <2>2, <2>5, <2>6, Zenon
  <1>7. ShowsOnly(n, Expected(sockets), 1) = FALSE
    <2>1. Len(Expected(sockets)) = n
      BY ExpectedIs
    <2> QED
      BY <1>2, <2>1 DEF ShowsOnly
  <1> DEFINE with(t) == ReadTables([written(sockets) EXCEPT ![tcp].table = t], 1)
             rows == Expected(sockets)
  <1>8. ASSUME NEW t, with(t).ok
        PROVE  /\ Parse(t, tcp).ok
               /\ with(t).rows = IF tcp THEN Parse(t, tcp).rows \o rows
                                        ELSE rows \o Parse(t, tcp).rows
    BY <1>8, OneReplaced
  <1>9. mine.ok
    BY <1>3
  <1>10. all = [ok |-> TRUE, rows |-> rows \o rows, restricted |-> FALSE]
    BY <1>4, <1>7
  <1> HIDE DEF mine, all, with, rows
  <1>11. \A t \in Damaged(Table(sockets, tcp)) : with(t).ok => with(t).rows = all.rows
    <2> SUFFICES ASSUME NEW t \in Damaged(Table(sockets, tcp)), with(t).ok
                 PROVE  with(t).rows = all.rows
      OBVIOUS
    <2>1. Parse(t, tcp).rows = rows
      BY <1>8, DamagedIsRead DEF rows
    <2>2. with(t).rows = rows \o rows
      BY <1>8, <2>1
    <2>3. all.rows = rows \o rows
      BY <1>10
    <2> QED
      BY <2>2, <2>3
  <1>12. \A t \in Ended(Table(sockets, tcp)) :
           with(t).ok => \E m \in 0..n :
                           with(t).rows = IF tcp THEN SubSeq(rows, 1, m) \o rows
                                                 ELSE rows \o SubSeq(rows, 1, m)
    <2> SUFFICES ASSUME NEW t \in Ended(Table(sockets, tcp)), with(t).ok
                 PROVE  \E m \in 0..n :
                          with(t).rows = IF tcp THEN SubSeq(rows, 1, m) \o rows
                                                ELSE rows \o SubSeq(rows, 1, m)
      OBVIOUS
    <2>1. PICK m \in 0..n : Parse(t, tcp).rows = SubSeq(rows, 1, m)
      BY <1>8, EndedIsRead DEF rows
    <2> QED
      BY <1>8, <2>1
  <1> QED
    BY <1>5, <1>6, <1>9, <1>10, <1>11, <1>12 DEF ReadAsMeant, mine, all, with, rows

\* Therefore no call of a run joins rows of a table read wrong
\* (listeners.rs:355-395).
THEOREM TablesReadAsMeant == SocketsSpec => []FramingIsStrict
  <1>1. \A s \in KernelSockets : s \in Socket
    BY DEF KernelSockets, Socket
  <1>2. Tables \subseteq Seq(Socket)
    <2> SUFFICES ASSUME NEW a \in KernelSockets, NEW b \in KernelSockets
                 PROVE  <<a>> \in Seq(Socket) /\ <<a, b>> \in Seq(Socket)
      <3>1. ASSUME NEW t \in Tables
            PROVE  \E a \in KernelSockets, b \in KernelSockets : t = <<a>> \/ t = <<a, b>>
        BY <3>1 DEF Tables
      <3> QED
        BY <3>1
    <2> QED
      BY <1>1
  <1>3. EveryTableReadAsMeant
    BY <1>2, TablesAreReadAsMeant DEF EveryTableReadAsMeant
  <1>4. FramingIsStrict
    BY <1>3 DEF FramingIsStrict
  <1> QED
    BY <1>4, PTL

-----------------------------------------------------------------------------
(* Channels: the type, and that rates are true, readings fresh and late    *)
(* mounts complete.                                                        *)

USE ChannelsAssumption DEF ChannelsAssumption

\* What is not there differs from what is.
LEMMA Something ==
  /\ \A t : [at |-> t] # None
  /\ \A t, c : [at |-> t, counter |-> c] # None
  /\ \A s, t : [sample |-> s, when |-> t] # None
  /\ \A a, r, b, c, p, m :
       [at |-> a, rate |-> r, blank |-> b, counter |-> c, before |-> p, missed |-> m] # None
  /\ Sample # None
BY DEF None, Sample

-----------------------------------------------------------------------------
(* The type invariant.                                                     *)

LEMMA CountersAre ==
  ASSUME NEW f \in Counters
  PROVE  DOMAIN f \subseteq Units /\ \A u \in DOMAIN f : f[u] \in 0..MaxCount
BY DEF Counters

LEMMA RateType ==
  ASSUME NEW p \in 0..MaxCount, NEW c \in 0..MaxCount, NEW span \in 0..MaxTime
  PROVE  Diffed(p, c, span) \in Rate
BY DEF Diffed, RatePerSec, NoRate, Rate

LEMMA UnclaimedType == Unclaimed \in Rate
BY DEF Unclaimed, NoRate, ZeroRate, Rate, ChannelsAssumption

LEMMA SampleType == TypeOK => IsSample(Sample)
<1> SUFFICES ASSUME TypeOK PROVE IsSample(Sample)
  OBVIOUS
<1>1. counter \in Counters /\ base \in Counters /\ now \in 0..MaxTime
      /\ prior \in Read \cup {None} /\ (missed = None \/ missed \in [at : 0..now])
  BY DEF TypeOK
<1>2. Unclaimed \in Rate
  BY UnclaimedType
<1>3. ASSUME NEW u \in DOMAIN counter, last # None, u \in DOMAIN base
      PROVE  Diffed(base[u], counter[u], now - last.at) \in Rate
  <2>1. last.at \in 0..now
    BY <1>3 DEF TypeOK
  <2>2. now - last.at \in 0..MaxTime
    BY <1>1, <2>1
  <2>3. base[u] \in 0..MaxCount /\ counter[u] \in 0..MaxCount
    BY <1>1, <1>3, CountersAre
  <2> QED BY <2>2, <2>3, RateType
<1>4. \A u \in DOMAIN counter :
        (IF last # None /\ u \in DOMAIN base
           THEN Diffed(base[u], counter[u], now - last.at) ELSE Unclaimed) \in Rate
  BY <1>2, <1>3
<1>5. now \in 0..now
  BY <1>1
<1> QED BY <1>1, <1>4, <1>5 DEF IsSample, Sample

LEMMA InitType == Init => TypeOK
<1> SUFFICES ASSUME Init PROVE TypeOK
  OBVIOUS
<1>1. counter \in Counters /\ base \in Counters
  <2>1. \A S \in SUBSET Units : [u \in S |-> 0] \in Counters
    <3>1. \A S \in SUBSET Units : [u \in S |-> 0] \in [S -> 0..MaxCount]
      OBVIOUS
    <3> QED BY <3>1 DEF Counters
  <2>2. <<>> = [u \in {} |-> 0]
    OBVIOUS
  <2> QED BY <2>1, <2>2 DEF Init
<1>2. listed \in UNION {[S -> BOOLEAN] : S \in SUBSET Units}
  <2>1. DOMAIN counter \subseteq Units
    BY <1>1, CountersAre
  <2>2. listed = [u \in {} |-> TRUE] \/ listed = [u \in DOMAIN counter |-> TRUE]
    BY DEF Init
  <2>3. [u \in {} |-> TRUE] \in [{} -> BOOLEAN]
        /\ [u \in DOMAIN counter |-> TRUE] \in [DOMAIN counter -> BOOLEAN]
    OBVIOUS
  <2>4. \E S \in SUBSET Units : listed \in [S -> BOOLEAN]
    BY <2>1, <2>2, <2>3
  <2> QED BY <2>4
<1>3. /\ channel \in Channel /\ interval \in Intervals
      /\ now \in 0..MaxTime /\ switchedOn \in 0..now
      /\ on \in BOOLEAN /\ missed = None
      /\ last = None \/ last \in [at : 0..now]
      /\ storage = None \/ storage \in [at : 0..now]
      /\ late \subseteq Units
      /\ prior \in Read \cup {None}
      /\ shown = None
  <2>1. /\ channel \in Channel /\ interval \in Intervals /\ now = 0 /\ switchedOn = 0
        /\ missed = None /\ prior = None /\ shown = None /\ late = {}
    BY DEF Init
  <2>2. on \in BOOLEAN
    BY DEF Init
  <2>3. last = None \/ last = [at |-> 0]
    BY DEF Init
  <2>4. storage = None \/ storage = [at |-> 0]
    BY DEF Init
  <2>5. 0 \in 0..now /\ now \in 0..MaxTime
    BY <2>1
  <2>6. last = None \/ last \in [at : 0..now]
    BY <2>3, <2>5
  <2>7. storage = None \/ storage \in [at : 0..now]
    BY <2>4, <2>5
  <2> QED BY <2>1, <2>2, <2>5, <2>6, <2>7
<1>4. cached = None \/ IsSample(cached)
  <2>1. now = 0 /\ base = <<>> /\ prior = None /\ missed = None
    BY DEF Init
  <2>2. \A u \in DOMAIN base : FALSE
    BY <2>1
  <2>3. Sample.at = 0 /\ Sample.counter = counter /\ DOMAIN Sample.rate = DOMAIN counter
        /\ (\A u \in DOMAIN Sample.rate : Sample.rate[u] = Unclaimed)
        /\ Sample.blank \subseteq DOMAIN counter
        /\ Sample.before = None /\ Sample.missed = None
    BY <2>1, <2>2 DEF Sample
  <2>4. Unclaimed \in Rate
    BY UnclaimedType
  <2>5. IsSample(Sample)
    <3> DEFINE s == Sample
    <3>1. s.at \in 0..now /\ s.counter \in Counters
      BY <1>1, <2>1, <2>3
    <3>2. \A u \in DOMAIN s.rate : s.rate[u] \in Rate
      BY <2>3, <2>4
    <3>3. s.before \in Read \cup {None} /\ s.missed = None
      BY <2>3
    <3> QED BY <2>3, <3>1, <3>2, <3>3 DEF IsSample
  <2> QED BY <2>5 DEF Init
<1> QED BY <1>1, <1>2, <1>3, <1>4 DEF TypeOK

\* A step that reads nothing, switches nothing and leaves the units alone.
LEMMA PublishType ==
  ASSUME TypeOK, UNCHANGED <<config, machine, on, refresh, prior, switchedOn, late, missed>>,
         shown' = None \/ Publish(cached)
  PROVE  TypeOK'
<1>1. UNCHANGED <<channel, interval, now, counter, on, last, base, storage, listed,
                  cached, prior, switchedOn, late, missed>>
  BY DEF config, machine, refresh
<1>2. now \in now..now
  BY DEF TypeOK
<1>3. shown' = None \/ (DOMAIN shown' = {"sample", "when"} /\ IsSample(shown.sample)'
                        /\ shown'.when \in shown'.sample.at..now')
  <2>1. CASE shown' = None
    BY <2>1
  <2>2. CASE Publish(cached) /\ cached # None
    <3>1. shown' = [sample |-> cached, when |-> now]
      BY <2>2 DEF Publish
    <3>2. IsSample(cached) /\ cached.at \in 0..now
      BY <2>2 DEF TypeOK, IsSample
    <3>3. now \in cached.at..now
      BY <3>2 DEF TypeOK
    <3>4. IsSample(shown.sample)'
      BY <1>1, <3>1, <3>2 DEF IsSample
    <3> QED BY <1>1, <3>1, <3>3, <3>4
  <2>3. CASE Publish(cached) /\ cached = None
    BY <2>3 DEF Publish
  <2> QED BY <2>1, <2>2, <2>3
<1>4. (cached = None \/ IsSample(cached))'
  BY <1>1 DEF TypeOK, IsSample
<1> QED BY <1>1, <1>3, <1>4 DEF TypeOK

LEMMA ReadType == TypeOK /\ CollectRead => TypeOK'
<1> SUFFICES ASSUME TypeOK, CollectRead PROVE TypeOK'
  OBVIOUS
<1>1. UNCHANGED <<channel, interval, now, counter, on, switchedOn, late>>
  BY DEF CollectRead, config, machine
<1>2. now \in 0..MaxTime /\ counter \in Counters /\ base \in Counters
  BY DEF TypeOK
<1>3. IsSample(Sample) /\ Sample.at = now
  BY SampleType DEF Sample
<1> DEFINE s == Sample
<1>4. cached' = s /\ shown' = [sample |-> s, when |-> now]
  BY Something DEF CollectRead, Publish
<1> HIDE DEF s
<1>5. IsSample(s) /\ s.at = now
  BY <1>3 DEF s
<1>6. IsSample(cached)' /\ IsSample(shown.sample)' /\ DOMAIN shown' = {"sample", "when"}
  BY <1>1, <1>4, <1>5 DEF IsSample
<1>7. shown'.when \in shown'.sample.at..now'
  BY <1>1, <1>2, <1>4, <1>5
<1>8. last' \in [at : 0..now'] /\ (storage' = None \/ storage' \in [at : 0..now'])
  BY <1>1, <1>2 DEF CollectRead, TypeOK
<1>9. base' \in Counters /\ prior' \in Read /\ missed' = None
  BY <1>2 DEF CollectRead, NextBase, Read
<1>10. listed' \in UNION {[S -> BOOLEAN] : S \in SUBSET Units}
  <2>1. DOMAIN counter \subseteq Units
    BY <1>2, CountersAre
  <2>2. \A u \in DOMAIN counter : HasCapacity(u) \in BOOLEAN
    <3>1. \A u \in DOMAIN listed : listed[u] \in BOOLEAN
      BY DEF TypeOK
    <3> QED BY <3>1 DEF HasCapacity, StorageDue, IsNewMount
  <2>3. [u \in DOMAIN counter |-> HasCapacity(u)] \in [DOMAIN counter -> BOOLEAN]
    BY <2>2
  <2>4. listed' = listed \/ listed' = [u \in DOMAIN counter |-> HasCapacity(u)]
    BY DEF CollectRead
  <2> HIDE DEF HasCapacity
  <2> QED BY <2>1, <2>3, <2>4 DEF TypeOK
<1> QED BY <1>1, <1>6, <1>7, <1>8, <1>9, <1>10 DEF TypeOK

LEMMA FailedType == TypeOK /\ CollectFailed => TypeOK'
<1> SUFFICES ASSUME TypeOK, CollectFailed PROVE TypeOK'
  OBVIOUS
<1>1. UNCHANGED <<channel, interval, now, counter, on, base, storage, listed, prior,
                  switchedOn, late>>
  BY DEF CollectFailed, config, machine
<1>2. shown' = None /\ missed' = [at |-> now] /\ (cached' = None \/ cached' = cached)
  BY DEF CollectFailed
<1>3. last' = last \/ last' = [at |-> now]
  BY DEF CollectFailed
<1>4. last' = None \/ last' \in [at : 0..now']
  BY <1>1, <1>3 DEF TypeOK
<1>5. cached' = None \/ IsSample(cached)'
  BY <1>1, <1>2 DEF TypeOK, IsSample
<1>6. missed' \in [at : 0..now']
  BY <1>1, <1>2 DEF TypeOK
<1> QED BY <1>1, <1>2, <1>4, <1>5, <1>6 DEF TypeOK

LEMMA SwitchType ==
  ASSUME TypeOK, NEW flag \in BOOLEAN, SetCollect(flag)
  PROVE  TypeOK'
<1>1. UNCHANGED <<channel, interval, now, counter, storage, listed, shown, late>>
  BY DEF SetCollect, config, machine
<1>2. base' \in Counters
  <2>1. base' = [u \in {} |-> 0] /\ [u \in {} |-> 0] \in [{} -> 0..MaxCount]
    BY DEF SetCollect
  <2> QED BY <2>1 DEF Counters
<1>3. /\ on' \in BOOLEAN /\ last' = None /\ cached' = None /\ prior' = None
      /\ missed' = None /\ switchedOn' \in 0..now'
  BY <1>1 DEF SetCollect, TypeOK
<1>4. shown' = None \/ (DOMAIN shown' = {"sample", "when"} /\ IsSample(shown.sample)'
                        /\ shown'.when \in shown'.sample.at..now')
  BY <1>1 DEF TypeOK, IsSample
<1> QED BY <1>1, <1>2, <1>3, <1>4 DEF TypeOK

LEMMA MachineType ==
  ASSUME TypeOK,
         Tick \/ \E unit \in Units : Work(unit) \/ Attach(unit) \/ Detach(unit)
  PROVE  TypeOK'
<1>1. UNCHANGED <<channel, interval, on, last, base, storage, listed, cached, shown, prior,
                  switchedOn, missed>>
  BY DEF Tick, Work, Attach, Detach, config, refresh
<1>2. now \in Nat /\ now' \in 0..MaxTime /\ 0..now \subseteq 0..now'
  <2>1. now \in Nat /\ (now' = now \/ (now < MaxTime /\ now' = now + 1))
    <3>1. now' = now \/ (now < MaxTime /\ now' = now + 1)
      BY DEF Tick, Work, Attach, Detach
    <3> QED BY <3>1 DEF TypeOK
  <2> QED BY <2>1 DEF TypeOK
<1>3. late' \subseteq Units
  BY DEF TypeOK, Tick, Work, Attach, Detach
<1>4. counter' \in Counters
  <2>1. counter \in Counters /\ DOMAIN counter \subseteq Units
    BY CountersAre DEF TypeOK
  <2>2. CASE Tick
    BY <2>1, <2>2 DEF Tick
  <2>3. ASSUME NEW unit \in Units, Work(unit) PROVE counter' \in Counters
    <3>1. counter' = [counter EXCEPT ![unit] = @ + 1] /\ unit \in DOMAIN counter
          /\ counter[unit] < MaxCount
      BY <2>3 DEF Work
    <3>2. counter \in [DOMAIN counter -> 0..MaxCount]
      BY <2>1 DEF Counters
    <3>3. counter' \in [DOMAIN counter -> 0..MaxCount]
      BY <3>1, <3>2
    <3> QED BY <2>1, <3>3 DEF Counters
  <2>4. ASSUME NEW unit \in Units, Attach(unit) PROVE counter' \in Counters
    <3>1. counter' \in [DOMAIN counter \cup {unit} -> 0..MaxCount]
      BY <2>1, <2>4, CountersAre DEF Attach
    <3>2. DOMAIN counter \cup {unit} \in SUBSET Units
      BY <2>1
    <3> QED BY <3>1, <3>2 DEF Counters
  <2>5. ASSUME NEW unit \in Units, Detach(unit) PROVE counter' \in Counters
    <3>1. counter' \in [DOMAIN counter \cap (Units \ {unit}) -> 0..MaxCount]
      BY <2>1, <2>5, CountersAre DEF Detach, Without
    <3>2. DOMAIN counter \cap (Units \ {unit}) \in SUBSET Units
      OBVIOUS
    <3> QED BY <3>1, <3>2 DEF Counters
  <2> QED BY <2>2, <2>3, <2>4, <2>5
<1>5. \A s : IsSample(s) => IsSample(s)'
  BY <1>2 DEF IsSample
<1>6. cached' = None \/ IsSample(cached)'
  BY <1>1, <1>2 DEF TypeOK, IsSample
<1>7. shown' = None \/ (DOMAIN shown' = {"sample", "when"} /\ IsSample(shown.sample)'
                        /\ shown'.when \in shown'.sample.at..now')
  <2> SUFFICES ASSUME shown # None
               PROVE  DOMAIN shown = {"sample", "when"} /\ IsSample(shown.sample)'
                      /\ shown.when \in shown.sample.at..now'
    BY <1>1
  <2>1. DOMAIN shown = {"sample", "when"} /\ IsSample(shown.sample)
        /\ shown.when \in shown.sample.at..now
    BY DEF TypeOK
  <2>2. shown.sample.at \in 0..now
    BY <2>1 DEF IsSample
  <2>3. IsSample(shown.sample)'
    BY <1>1, <1>2, <2>1 DEF IsSample
  <2> QED BY <1>2, <2>1, <2>2, <2>3
<1>8. /\ switchedOn' \in 0..now'
      /\ missed' = None \/ missed' \in [at : 0..now']
      /\ last' = None \/ last' \in [at : 0..now']
      /\ storage' = None \/ storage' \in [at : 0..now']
  BY <1>1, <1>2 DEF TypeOK
<1> QED BY <1>1, <1>2, <1>3, <1>4, <1>6, <1>7, <1>8 DEF TypeOK

\* What every collect is, whatever the channel.
LEMMA CollectSteps ==
  ASSUME Next
  PROVE  \/ CollectOff \/ CollectCached \/ CollectRead
         \/ CollectFailed /\ channel \in {"drives", "swap", "gpu", "battery"}
         \/ \E flag \in BOOLEAN : SetCollect(flag)
         \/ Tick \/ \E unit \in Units : Work(unit) \/ Attach(unit) \/ Detach(unit)
BY DEF Next, Cycle, refresh_cpu, collect_memory, collect_disks, collect_networks,
       collect_drives, collect_gpus, collect_battery, collect_temperatures

LEMMA StepType == TypeOK /\ [Next]_vars => TypeOK'
<1>1. TypeOK /\ CollectOff => TypeOK'
  BY PublishType DEF CollectOff
<1>2. TypeOK /\ CollectCached => TypeOK'
  BY PublishType DEF CollectCached
<1>3. TypeOK /\ UNCHANGED vars => TypeOK'
  BY DEF vars, TypeOK, IsSample
<1> QED BY <1>1, <1>2, <1>3, ReadType, FailedType, SwitchType, MachineType, CollectSteps

\* The state of a channel has its type, and no instant it keeps lies in the
\* future, so that no elapsed time is negative (src/collector/local.rs:88-148).
THEOREM ChannelsType == Spec => []TypeOK
BY InitType, StepType, PTL DEF Spec

-----------------------------------------------------------------------------
(* The invariant.                                                          *)

\* The baselines are those of the last good read, and the instant they are
\* divided from is that of the same read, or of the drives' failed read after
\* it.
Together ==
  channel \in Counted =>
    /\ base = IF prior = None THEN <<>> ELSE prior.counter
    /\ last = None => prior = None
    /\ last # None =>
         IF channel = "drives" /\ missed # None
           THEN last.at = missed.at
           ELSE prior # None /\ last.at = prior.at

NoUnits == channel \notin Counted => DOMAIN counter = {}

SampleTrue(s) == \A u \in DOMAIN s.rate : RateIsTrue(s, u)

CachedTrue == cached # None => SampleTrue(cached)

\* What is kept between reads is the last good one, of the present schedule.
CachedFresh ==
  cached # None =>
    /\ cached.at >= switchedOn
    /\ (channel = "battery" /\ missed # None) \/ (last # None /\ last.at = cached.at)

\* A late mount is still new to the next read, or its capacity is known.
LateKnown ==
  channel = "disks" =>
    \A u \in late \cap DOMAIN counter :
       \/ DOMAIN base # {} /\ u \notin DOMAIN base
       \/ u \in DOMAIN listed /\ listed[u]

Complete(s) ==
  /\ s.blank \cap late = {}
  /\ IF channel = "disks" THEN s.blank \subseteq DOMAIN base ELSE s.blank = {}

AllComplete ==
  /\ cached # None => Complete(cached)
  /\ shown # None => Complete(shown.sample)

ChannelsInv ==
  /\ TypeOK
  /\ Together /\ NoUnits /\ CachedTrue /\ TrueRates
  /\ CachedFresh /\ Fresh
  /\ LateKnown /\ AllComplete

LEMMA InitInv == Init => ChannelsInv
<1> SUFFICES ASSUME Init PROVE ChannelsInv
  OBVIOUS
<1>1. TypeOK
  BY InitType
<1>2. /\ channel \in Counted => last = None
      /\ base = <<>> /\ prior = None /\ shown = None /\ late = {} /\ switchedOn = 0
      /\ now = 0 /\ missed = None
      /\ channel \notin Counted => DOMAIN counter = {}
      /\ channel # "frequency" => cached = None
      /\ channel = "frequency" => cached = Sample /\ last = [at |-> 0]
  BY DEF Init, Counted
<1>3. channel = "frequency" => channel \notin Counted /\ channel # "disks"
  BY DEF Counted
<1>4. /\ Sample.at = now /\ DOMAIN Sample.rate = DOMAIN counter
      /\ channel # "disks" => Sample.blank = {}
  BY DEF Sample
<1>5. Together /\ NoUnits /\ TrueRates /\ Fresh /\ LateKnown
  BY <1>2 DEF Together, NoUnits, TrueRates, Fresh, LateKnown
<1>6. CachedTrue
  BY <1>2, <1>3, <1>4 DEF CachedTrue, SampleTrue
<1>7. CachedFresh
  <2>1. [at |-> 0] # None
    BY Something
  <2> QED BY <1>2, <1>4, <2>1 DEF CachedFresh
<1>8. AllComplete
  BY <1>2, <1>3, <1>4 DEF AllComplete, Complete
<1> QED BY <1>1, <1>5, <1>6, <1>7, <1>8 DEF ChannelsInv

\* A reading is about the good read before it.
LEMMA SampleIsTrue == TypeOK /\ Together /\ NoUnits => SampleTrue(Sample)
<1> SUFFICES ASSUME TypeOK, Together, NoUnits, NEW u \in DOMAIN counter
             PROVE  RateIsTrue(Sample, u)
  BY DEF SampleTrue, Sample
<1>1. channel \in Counted
  BY DEF NoUnits
<1>2. /\ base = IF prior = None THEN <<>> ELSE prior.counter
      /\ last = None => prior = None
      /\ last # None => IF channel = "drives" /\ missed # None
                         THEN last.at = missed.at
                         ELSE prior # None /\ last.at = prior.at
  BY <1>1 DEF Together
<1>3. /\ Sample.at = now /\ Sample.before = prior /\ Sample.counter = counter
      /\ Sample.missed = missed
      /\ Sample.rate[u] = IF last # None /\ u \in DOMAIN base
                            THEN Diffed(base[u], counter[u], now - last.at) ELSE Unclaimed
  BY DEF Sample
<1>4. CASE prior = None \/ u \notin DOMAIN prior.counter
  <2>1. u \notin DOMAIN base
    BY <1>2, <1>4
  <2>2. Sample.rate[u] = IF channel = "networks" THEN ZeroRate ELSE NoRate
    BY <1>3, <2>1 DEF Unclaimed
  <2> QED BY <1>3, <1>4, <2>2 DEF RateIsTrue
<1>5. CASE prior # None /\ u \in DOMAIN prior.counter
  <2>1. last # None /\ base = prior.counter
    BY <1>2, <1>5
  <2>2. last.at = Since(Sample)
    BY <1>2, <1>3, <2>1 DEF Since
  <2>3. last.at \in Nat /\ now \in Nat /\ last.at <= now
    BY <2>1 DEF TypeOK
  <2>4. base[u] \in Nat /\ counter[u] \in Nat
    BY <1>5, <2>1, CountersAre DEF TypeOK
  <2> DEFINE span == now - last.at
             r == Diffed(base[u], counter[u], span)
  <2>5. span \in Nat /\ (now = last.at <=> span = 0) /\ (now > last.at <=> span # 0)
    BY <2>3
  <2>6. Sample.rate[u] = r
    BY <1>3, <1>5, <2>1
  <2>7. Sample.before # None /\ u \in DOMAIN Sample.before.counter
    BY <1>3, <1>5
  <2>8. Sample.counter[u] = counter[u] /\ Sample.before.counter[u] = base[u]
    BY <1>3, <2>1
  <2>9. /\ Sample.at = Since(Sample) <=> span = 0
        /\ Sample.at > Since(Sample) <=> span # 0
        /\ Sample.at - Since(Sample) = span
    BY <1>3, <2>2, <2>5
  <2> HIDE DEF span
  <2>10. span = 0 => r.delta = 0 /\ r.span <= 0
    BY <2>5 DEF Diffed, RatePerSec, NoRate
  <2>11. span # 0 => /\ r.span = span
                     /\ r.delta = IF counter[u] > base[u] THEN counter[u] - base[u] ELSE 0
    BY <2>4, <2>5 DEF Diffed, RatePerSec
  <2> HIDE DEF r
  <2> QED BY <2>6, <2>7, <2>8, <2>9, <2>10, <2>11 DEF RateIsTrue
<1> QED BY <1>4, <1>5

LEMMA OffInv == ChannelsInv /\ CollectOff => ChannelsInv'
<1> SUFFICES ASSUME ChannelsInv, CollectOff PROVE ChannelsInv'
  OBVIOUS
<1>1. TypeOK'
  BY PublishType DEF ChannelsInv, CollectOff
<1>2. UNCHANGED <<channel, counter, last, base, listed, cached, prior, switchedOn, late, missed>>
      /\ shown' = None
  BY DEF CollectOff, config, machine, refresh
<1>3. Together' /\ CachedTrue' /\ TrueRates'
  BY <1>2 DEF ChannelsInv, Together, CachedTrue, SampleTrue, TrueRates, RateIsTrue, Since
<1> QED BY <1>1, <1>2, <1>3 DEF ChannelsInv, NoUnits, CachedFresh, Fresh, LateKnown,
                                AllComplete, Complete

LEMMA CachedInv == ChannelsInv /\ CollectCached => ChannelsInv'
<1> SUFFICES ASSUME ChannelsInv, CollectCached PROVE ChannelsInv'
  OBVIOUS
<1>1. TypeOK /\ TypeOK'
  BY PublishType DEF ChannelsInv, CollectCached
<1>2. UNCHANGED <<channel, interval, now, counter, last, base, listed, cached, prior,
                  switchedOn, late, missed>>
  BY DEF CollectCached, config, machine, refresh
<1>3. shown' = IF cached = None THEN None ELSE [sample |-> cached, when |-> now]
  BY DEF CollectCached, Publish
<1>4. channel # "swap" /\ interval # 0 /\ last # None /\ ~(now - last.at >= interval)
  BY DEF CollectCached, Due
<1>5. Together' /\ NoUnits' /\ CachedTrue' /\ CachedFresh' /\ LateKnown'
  BY <1>2 DEF ChannelsInv, Together, NoUnits, CachedTrue, SampleTrue, CachedFresh, LateKnown,
              RateIsTrue, Since
<1>6. TrueRates'
  BY <1>2, <1>3 DEF ChannelsInv, CachedTrue, SampleTrue, TrueRates, RateIsTrue, Since
<1>7. Fresh'
  <2>1. cached # None => cached.at \in Nat /\ now \in Nat /\ interval \in Nat
    BY <1>1 DEF TypeOK, IsSample
  <2>2. cached # None =>
          /\ cached.at >= switchedOn
          /\ (channel = "battery" /\ missed # None) \/ last.at = cached.at
    BY DEF ChannelsInv, CachedFresh
  <2>3. cached # None => (channel = "battery" /\ missed # None) \/ now - cached.at < interval
    BY <1>4, <2>1, <2>2
  <2> QED BY <1>2, <1>3, <2>2, <2>3 DEF Fresh
<1>8. AllComplete'
  BY <1>2, <1>3 DEF ChannelsInv, AllComplete, Complete
<1> QED BY <1>1, <1>5, <1>6, <1>7, <1>8 DEF ChannelsInv

LEMMA ReadInv == ChannelsInv /\ CollectRead => ChannelsInv'
<1> SUFFICES ASSUME ChannelsInv, CollectRead PROVE ChannelsInv'
  OBVIOUS
<1>1. TypeOK /\ TypeOK' /\ Together /\ NoUnits /\ LateKnown
  BY ReadType DEF ChannelsInv
<1>2. UNCHANGED <<channel, interval, now, counter, on, switchedOn, late>>
  BY DEF CollectRead, config, machine
<1> DEFINE s == Sample
<1>3. /\ s # None /\ s.at = now /\ DOMAIN s.rate = DOMAIN counter
      /\ s.blank = IF channel = "disks" THEN {u \in DOMAIN counter : ~HasCapacity(u)} ELSE {}
  BY Something DEF Sample
<1>4. SampleTrue(s)
  BY <1>1, SampleIsTrue
<1>5. cached' = s /\ shown' = [sample |-> s, when |-> now]
  BY Something DEF CollectRead, Publish
<1> HIDE DEF s
<1>6. /\ last' = [at |-> now] /\ last' # None /\ missed' = None
      /\ prior' = [at |-> now, counter |-> counter] /\ prior' # None
      /\ base' = NextBase
  BY Something DEF CollectRead
<1>7. Together'
  BY <1>2, <1>6 DEF Together, NextBase
<1>8. NoUnits'
  BY <1>1, <1>2 DEF NoUnits
<1>9. CachedTrue' /\ TrueRates'
  BY <1>2, <1>3, <1>4, <1>5 DEF CachedTrue, SampleTrue, TrueRates, RateIsTrue, Since
<1>10. switchedOn \in Nat /\ now \in Nat /\ switchedOn <= now
  BY <1>1 DEF TypeOK
<1>11. CachedFresh'
  BY <1>2, <1>3, <1>5, <1>6, <1>10 DEF CachedFresh
<1>12. Fresh'
  BY <1>2, <1>3, <1>5, <1>10 DEF Fresh
<1>13. \A u \in late \cap DOMAIN counter : channel = "disks" => HasCapacity(u)
  BY <1>1 DEF LateKnown, HasCapacity, IsNewMount
<1>14. LateKnown'
  <2>1. channel = "disks" => listed' = [u \in DOMAIN counter |-> HasCapacity(u)]
    BY DEF CollectRead
  <2> HIDE DEF HasCapacity
  <2> QED BY <1>2, <1>13, <2>1 DEF LateKnown
<1>15. AllComplete'
  <2>1. channel = "disks" => base' = counter
    BY <1>6 DEF NextBase, Counted
  <2> HIDE DEF HasCapacity
  <2>2. s.blank \cap late' = {}
        /\ IF channel' = "disks" THEN s.blank \subseteq DOMAIN base' ELSE s.blank = {}
    BY <1>2, <1>3, <1>13, <2>1
  <2> QED BY <1>5, <2>2 DEF AllComplete, Complete
<1> QED BY <1>1, <1>7, <1>8, <1>9, <1>11, <1>12, <1>14, <1>15 DEF ChannelsInv

LEMMA FailedInv ==
  ASSUME ChannelsInv, CollectFailed, channel \in {"drives", "swap", "gpu", "battery"}
  PROVE  ChannelsInv'
<1>1. TypeOK'
  BY FailedType DEF ChannelsInv
<1>2. /\ UNCHANGED <<channel, counter, base, listed, prior, switchedOn, late>>
      /\ shown' = None /\ missed' = [at |-> now]
      /\ last' = IF channel = "swap" THEN last ELSE [at |-> now]
      /\ cached' = None \/ (channel = "battery" /\ cached' = cached)
  BY DEF CollectFailed, config, machine
<1> DEFINE failed == [at |-> now]
<1>3. failed # None
  BY Something
<1>4. /\ missed' = failed /\ (channel # "swap" => last' = failed)
      /\ (channel = "swap" => last' = last)
  BY <1>2
<1> HIDE DEF failed
<1>5. Together'
  <2>1. CASE channel = "swap"
    BY <1>2, <1>4, <2>1 DEF ChannelsInv, Together
  <2>2. CASE channel = "drives"
    BY <1>2, <1>3, <1>4, <2>2 DEF ChannelsInv, Together
  <2>3. CASE channel \in {"gpu", "battery"}
    BY <1>2, <1>3, <1>4, <2>3 DEF ChannelsInv, Together, Counted
  <2> QED BY <2>1, <2>2, <2>3
<1>6. CachedTrue' /\ TrueRates'
  BY <1>2 DEF ChannelsInv, CachedTrue, SampleTrue, TrueRates, RateIsTrue, Since
<1> QED BY <1>1, <1>2, <1>3, <1>4, <1>5, <1>6
        DEF ChannelsInv, NoUnits, CachedFresh, Fresh, LateKnown, AllComplete, Complete

LEMMA SwitchInv ==
  ASSUME ChannelsInv, NEW flag \in BOOLEAN, SetCollect(flag)
  PROVE  ChannelsInv'
<1>1. TypeOK /\ TypeOK'
  BY SwitchType DEF ChannelsInv
<1>2. /\ UNCHANGED <<channel, interval, now, counter, listed, shown, late>>
      /\ channel \in Switched
      /\ last' = None /\ cached' = None /\ base' = <<>> /\ prior' = None
      /\ missed' = None /\ switchedOn' = now
  BY DEF SetCollect, config, machine
<1>3. channel # "disks" /\ channel # "battery"
  BY <1>2 DEF Switched
<1>4. TrueRates'
  BY <1>2 DEF ChannelsInv, TrueRates, RateIsTrue, Since
<1>5. Fresh'
  <2>1. shown # None => ~(shown.when > now)
    BY <1>1 DEF TypeOK, IsSample
  <2> QED BY <1>2, <1>3, <2>1 DEF ChannelsInv, Fresh
<1>6. AllComplete'
  BY <1>2, <1>3 DEF ChannelsInv, AllComplete, Complete
<1> QED BY <1>1, <1>2, <1>3, <1>4, <1>5, <1>6
        DEF ChannelsInv, Together, NoUnits, CachedTrue, CachedFresh, LateKnown

LEMMA MachineInv ==
  ASSUME ChannelsInv,
         Tick \/ \E unit \in Units : Work(unit) \/ Attach(unit) \/ Detach(unit)
  PROVE  ChannelsInv'
<1>1. TypeOK'
  BY MachineType DEF ChannelsInv
<1>2. UNCHANGED <<channel, interval, last, base, listed, cached, shown, prior, switchedOn, missed>>
  BY DEF Tick, Work, Attach, Detach, config, refresh
<1>3. Together' /\ CachedTrue' /\ TrueRates' /\ CachedFresh' /\ Fresh'
  BY <1>2 DEF ChannelsInv, Together, CachedTrue, SampleTrue, TrueRates, RateIsTrue, Since,
              CachedFresh, Fresh
<1>4. NoUnits'
  BY <1>2 DEF ChannelsInv, NoUnits, Tick, Work, Attach, Detach
<1>5. LateKnown' /\ AllComplete'
  <2>1. CASE Tick
    BY <1>2, <2>1 DEF ChannelsInv, LateKnown, AllComplete, Complete, Tick
  <2>2. ASSUME NEW unit \in Units, Work(unit) PROVE LateKnown' /\ AllComplete'
    <3>1. DOMAIN counter' = DOMAIN counter /\ late' = late
      BY <2>2 DEF Work
    <3> QED BY <1>2, <3>1 DEF ChannelsInv, LateKnown, AllComplete, Complete
  <2>3. ASSUME NEW unit \in Units, Attach(unit) PROVE LateKnown' /\ AllComplete'
    <3>1. /\ DOMAIN counter' = DOMAIN counter \cup {unit}
          /\ late' = IF DOMAIN base # {} /\ unit \notin DOMAIN base
                       THEN late \cup {unit} ELSE late \ {unit}
      BY <2>3 DEF Attach
    <3>2. LateKnown'
      BY <1>2, <3>1 DEF ChannelsInv, LateKnown
    <3>3. AllComplete'
      BY <1>2, <3>1 DEF ChannelsInv, AllComplete, Complete
    <3> QED BY <3>2, <3>3
  <2>4. ASSUME NEW unit \in Units, Detach(unit) PROVE LateKnown' /\ AllComplete'
    <3>1. DOMAIN counter' \subseteq DOMAIN counter /\ late' = late
      BY <2>4 DEF Detach, Without
    <3> QED BY <1>2, <3>1 DEF ChannelsInv, LateKnown, AllComplete, Complete
  <2> QED BY <2>1, <2>2, <2>3, <2>4
<1> QED BY <1>1, <1>3, <1>4, <1>5 DEF ChannelsInv

LEMMA StepInv == ChannelsInv /\ [Next]_vars => ChannelsInv'
<1>1. ChannelsInv /\ UNCHANGED vars => ChannelsInv'
  BY StepType DEF vars, ChannelsInv, Together, NoUnits, CachedTrue, SampleTrue, TrueRates,
     RateIsTrue, Since, CachedFresh, Fresh, LateKnown, AllComplete, Complete
<1> QED BY <1>1, CollectSteps, OffInv, CachedInv, ReadInv, FailedInv, SwitchInv, MachineInv

LEMMA ChannelsSafe == Spec => []ChannelsInv
BY InitInv, StepInv, PTL DEF Spec

\* Every rate a channel shows is what its unit gained since the good read
\* before, over the time since that read, whatever units come and go, reads
\* fail and switches are thrown; a drive's first rate after a failed read is
\* that gain over the time since the failed one, and a unit without such a
\* read shows none, or zero for an interface
\* (src/collector/local.rs:432-719, src/utils/rate.rs:25-34).
THEOREM ChannelsTrueRates == Spec => []TrueRates
<1>1. ChannelsInv => TrueRates
  BY DEF ChannelsInv
<1> QED BY <1>1, ChannelsSafe, PTL

\* No reading is shown beyond its interval, beyond a failed read or from
\* before a switch (src/collector/local.rs:256-283, 472-529, 924-1003).
THEOREM ChannelsFresh == Spec => []Fresh
<1>1. ChannelsInv => Fresh
  BY DEF ChannelsInv
<1> QED BY <1>1, ChannelsSafe, PTL

\* A volume that appears beside others is shown with its capacity
\* (src/collector/local.rs:545-570).
THEOREM ChannelsMounts == Spec => []MountsHaveCapacity
<1>1. ChannelsInv => MountsHaveCapacity
  BY DEF ChannelsInv, AllComplete, Complete, MountsHaveCapacity
<1> QED BY <1>1, ChannelsSafe, PTL

=============================================================================
