------------------------------ MODULE Sockets ------------------------------
(***************************************************************************)
(* The socket queries of listeners.rs on Linux: listeners() and            *)
(* process_traffic().  A call reads the kernel's tables one after the      *)
(* other, then walks /proc/<pid>/fd to find who holds the sockets, while   *)
(* sockets are opened, handed on, closed and carry data.  Nothing ties the *)
(* steps of a call together but inode numbers.                             *)
(*                                                                         *)
(* There is one table per address family: the UDP tables are read as the   *)
(* TCP ones are, and every socket here is a listening one for listeners()  *)
(* and a TCP flow for process_traffic().  One table, one process and one   *)
(* message of a dump are each read in one step.  The bytes of a socket are *)
(* one counter.                                                            *)
(***************************************************************************)
EXTENDS Integers, FiniteSets, Sums

CONSTANTS
    Inodes,       \* the sockets, by inode
    V6,           \* those of the second address family
    Pids,         \* the processes
    Denied,       \* those whose descriptors the caller may not read
    MaxBytes, MaxChanges   \* bounds: the counters; opens, shares and closes

\* DUMP_ATTEMPTS
CONSTANT Attempts

ASSUME SocketsAssumption ==
    /\ IsFiniteSet(Inodes) /\ IsFiniteSet(Pids)
    /\ V6 \subseteq Inodes /\ Denied \subseteq Pids /\ Pids \subseteq Nat
    /\ Attempts \in Nat \ {0} /\ MaxBytes \in Nat /\ MaxChanges \in Nat

Nothing == [none |-> TRUE]

VARIABLES
    bytes,     \* the machine: inode |-> its byte counter, kept when closed
    holds,     \* pid |-> the inodes it has a descriptor of
    hasV6,     \* the kernel has the second family
    changes,   \* opens, shares and closes so far
    call,      \* the call under way: where it is and its locals
    result,    \* what the last call returned
    began,     \* history: bytes and holds when the call began
    held,      \* history: the pairs <<pid, inode>> seen during the call
    moved      \* history: the sockets opened, shared or closed during it

kernel == <<bytes, holds, hasV6>>
socketVars == <<bytes, holds, hasV6, changes, call, result, began, held, moved>>

Open(i) == \E p \in Pids : i \in holds[p]
OfFamily(f) == IF f = "v6" THEN V6 ELSE Inodes \ V6
Idle == [at |-> "idle"]

-----------------------------------------------------------------------------
(* procnet::owners: the processes in the order of their pids, the first    *)
(* one found with a socket being its owner.                                *)

Scan(kind, found) ==
    [at |-> "scan", kind |-> kind, found |-> found, left |-> Pids,
     owner |-> <<>>, denied |-> FALSE, lossy |-> call.lossy \/ call.changed]

\* Mutant of Owners: every process in turn takes the sockets it holds.
LastOwners(owner, p, wanted) ==
    [i \in DOMAIN owner \cup (holds[p] \cap wanted) |->
        IF i \in holds[p] THEN p ELSE owner[i]]

Owners(owner, p, wanted) ==
    [i \in DOMAIN owner \cup (holds[p] \cap wanted) |->
        IF i \in DOMAIN owner THEN owner[i] ELSE p]

ScanProcess ==
    /\ call.at = "scan"
    /\ call.left # {}
    /\ DOMAIN call.owner # DOMAIN call.found
    /\ LET p == Min(call.left) IN
       call' = IF p \in Denied
                 THEN [call EXCEPT !.left = @ \ {p}, !.denied = TRUE]
                 ELSE [call EXCEPT !.left = @ \ {p},
                                   !.owner = Owners(@, p, DOMAIN call.found)]
    /\ UNCHANGED <<kernel, changes, result, began, held, moved>>

Coverage(denied, owner, wanted) ==
    IF denied /\ DOMAIN owner # wanted THEN "own_processes_only" ELSE "all_processes"

\* finish and finish_traffic: a row per socket, with or without an owner, or
\* the bytes of each owner's sockets; a socket nobody was found with is in no
\* total.  (The name of an owner is looked up by pid only now.)
Totals(owner, found) ==
    [p \in {owner[i] : i \in DOMAIN owner} |->
        Sum({i \in DOMAIN owner : owner[i] = p}, found)]

Finish ==
    /\ call.at = "scan"
    /\ call.left = {} \/ DOMAIN call.owner = DOMAIN call.found
    /\ result' = [kind |-> call.kind, owner |-> call.owner, found |-> call.found,
                  total |-> IF call.kind = "traffic" THEN Totals(call.owner, call.found)
                            ELSE <<>>,
                  coverage |-> Coverage(call.denied, call.owner, DOMAIN call.found),
                  lossy |-> call.lossy, bytes |-> bytes]
    /\ call' = Idle
    /\ UNCHANGED <<kernel, changes, began, held, moved>>

-----------------------------------------------------------------------------
(* The start of a call, and listeners().                                   *)

Begin(kind) ==
    /\ call = Idle
    /\ result = Nothing
    /\ call' = [at |-> kind, family |-> "v4", found |-> <<>>,
                kept |-> <<>>, attempt |-> 1, changed |-> FALSE, lossy |-> FALSE]
    /\ began' = [bytes |-> bytes, holds |-> holds]
    /\ held' = {pair \in Pids \X Inodes : pair[2] \in holds[pair[1]]}
    /\ moved' = {}
    /\ UNCHANGED <<kernel, changes, result>>

\* Mutant of Merge: the counters of a socket met twice are added up.
MergeAdding(f, g) ==
    [i \in DOMAIN f \cup DOMAIN g |->
        (IF i \in DOMAIN f THEN f[i] ELSE 0) + (IF i \in DOMAIN g THEN g[i] ELSE 0)]

\* A HashMap by inode: a socket listed again replaces what was read of it.
Merge(f, g) == [i \in DOMAIN f \cup DOMAIN g |-> IF i \in DOMAIN g THEN g[i] ELSE f[i]]

\* After the first family the second, after the second the owners.
NextFamily(kind, found) ==
    IF call.family = "v4"
      THEN [call EXCEPT !.family = "v6", !.found = found, !.kept = <<>>,
                        !.attempt = 1, !.changed = FALSE,
                        !.lossy = call.changed]
      ELSE Scan(kind, found)

\* One /proc/net table; that of a family the kernel lacks does not exist.
ReadTable ==
    /\ call.at = "listeners"
    /\ LET table == {i \in OfFamily(call.family) : Open(i)}
       IN call' = NextFamily("listeners", Merge(call.found, [i \in table |-> 0]))
    /\ UNCHANGED <<kernel, changes, result, began, held, moved>>

-----------------------------------------------------------------------------
(* process_traffic(): read_dump and dump_family.                           *)

\* A message of the dump with one socket.  While the table changes the kernel
\* may list a socket twice.
Receive(i) ==
    /\ call.at = "traffic"
    /\ i \in OfFamily(call.family) /\ Open(i)
    /\ i \in DOMAIN call.kept => call.changed
    /\ call' = [call EXCEPT !.kept = Merge(@, [j \in {i} |-> bytes[i]])]
    /\ UNCHANGED <<kernel, changes, result, began, held, moved>>

\* kept.clear()
Retry == [call EXCEPT !.attempt = @ + 1, !.changed = FALSE, !.kept = <<>>]

\* NLMSG_DONE.  A dump the table changed under is flagged interrupted, may
\* have missed sockets, and is done again up to the last attempt.
Done ==
    /\ call.at = "traffic"
    /\ \/ call.changed
       \/ {i \in OfFamily(call.family) : Open(i)} \subseteq DOMAIN call.kept
    /\ call' = IF call.changed /\ call.attempt < Attempts THEN Retry
               ELSE NextFamily("traffic", Merge(call.found, call.kept))
    /\ UNCHANGED <<kernel, changes, result, began, held, moved>>

\* A time-out, an errno or a malformed reply fails the call; the errno of a
\* family the kernel lacks does not, it has no sockets.
Fail ==
    /\ call.at = "traffic"
    /\ result' = [kind |-> "error"]
    /\ call' = Idle
    /\ UNCHANGED <<kernel, changes, began, held, moved>>

-----------------------------------------------------------------------------
(* The machine.                                                            *)

\* Opens a socket, or takes one over from a process that has it.
Take(p, i) ==
    /\ changes < MaxChanges
    /\ i \notin holds[p]
    /\ i \in V6 => hasV6
    /\ holds' = [holds EXCEPT ![p] = @ \cup {i}]
    /\ bytes' = [bytes EXCEPT ![i] = IF Open(i) THEN @ ELSE 0]
    /\ Open(i) \/ bytes[i] = -1     \* an inode number is not used twice
    /\ changes' = changes + 1
    /\ call' = IF call.at = "traffic" THEN [call EXCEPT !.changed = TRUE] ELSE call
    /\ IF call = Idle THEN UNCHANGED <<held, moved>>
       ELSE held' = held \cup {<<p, i>>} /\ moved' = moved \cup {i}
    /\ UNCHANGED <<hasV6, result, began>>

Drop(p, i) ==
    /\ changes < MaxChanges
    /\ i \in holds[p]
    /\ holds' = [holds EXCEPT ![p] = @ \ {i}]
    /\ changes' = changes + 1
    /\ call' = IF call.at = "traffic" THEN [call EXCEPT !.changed = TRUE] ELSE call
    /\ moved' = IF call = Idle THEN moved ELSE moved \cup {i}
    /\ UNCHANGED <<bytes, hasV6, result, began, held>>

Carry(i) ==
    /\ Open(i)
    /\ bytes[i] < MaxBytes
    /\ bytes' = [bytes EXCEPT ![i] = @ + 1]
    /\ UNCHANGED <<holds, hasV6, changes, call, result, began, held, moved>>

SocketsInit ==
    /\ hasV6 \in BOOLEAN
    /\ holds \in [Pids -> SUBSET Inodes]
    /\ hasV6 \/ \A p \in Pids : holds[p] \cap V6 = {}
    /\ bytes = [i \in Inodes |-> IF Open(i) THEN 0 ELSE -1]
    /\ changes = 0
    /\ call = Idle /\ result = Nothing
    /\ began = Nothing /\ held = {} /\ moved = {}

SocketsNext ==
    \/ Begin("listeners") \/ Begin("traffic")
    \/ ReadTable \/ ScanProcess \/ Finish
    \/ \E i \in Inodes : Receive(i) \/ Carry(i)
    \/ Done \/ Fail
    \/ \E p \in Pids, i \in Inodes : Take(p, i) \/ Drop(p, i)

SocketsSpec == SocketsInit /\ [][SocketsNext]_socketVars

-----------------------------------------------------------------------------
(* Properties.                                                             *)

Answered == result # Nothing /\ result.kind # "error"

\* The processes that held socket i throughout the call, those the caller may
\* look into.
Readable(i) == {p \in Pids \ Denied : i \in began.holds[p]}

\* What the dump was bound to find: sockets that were open and changed hands
\* with nobody while the call ran.
Stable == {i \in Inodes \ moved : \E p \in Pids : i \in began.holds[p]}

\* Every owner reported did hold the socket during the call.  A socket that
\* nobody opened, passed on or closed meanwhile is in the answer, under the
\* least pid of those that hold it; and if none of them may be looked into it
\* has no owner and the answer says that it covers only the caller's own
\* processes.
SocketsNamed ==
    Answered =>
        /\ \A i \in DOMAIN result.owner : <<result.owner[i], i>> \in held
        /\ \A i \in Stable :
             \/ result.lossy /\ i \notin DOMAIN result.found
             \/ i \in DOMAIN result.found /\
                  IF Readable(i) # {}
                    THEN i \in DOMAIN result.owner /\ result.owner[i] = Min(Readable(i))
                    ELSE i \notin DOMAIN result.owner /\ result.coverage = "own_processes_only"

\* The total of a process lies between what its own sockets had carried when
\* the call began and what all it held had carried when it ended: dumps done
\* again, sockets listed twice and descriptors shared between processes are
\* counted once.
TrafficCountedOnce ==
    Answered /\ result.kind = "traffic" =>
        /\ \A p \in DOMAIN result.total :
             result.total[p] <= Sum({i \in Inodes : <<p, i>> \in held}, result.bytes)
        /\ Sum(DOMAIN result.total, result.total) <=
             Sum({i \in Inodes : \E p \in Pids : <<p, i>> \in held}, result.bytes)
        /\ ~result.lossy => \A p \in Pids :
             LET own == {i \in Stable : Readable(i) # {} /\ Min(Readable(i)) = p}
             IN own # {} => p \in DOMAIN result.total /\
                            result.total[p] >= Sum(own, began.bytes)

=============================================================================
