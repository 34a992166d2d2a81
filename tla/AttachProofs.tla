----------------------------- MODULE AttachProofs -----------------------------
(***************************************************************************)
(* Proofs about Attach and Viewer, for every number of clients, every      *)
(* capacity of the broadcast channel and of the sockets, and every number  *)
(* of snapshots.                                                           *)
(***************************************************************************)
EXTENDS Viewer, SequenceTheorems, TLAPS

USE AttachAssumption DEF AttachAssumption

\* The sink pushes before it sends, one snapshot at a time; a receiver never
\* points beyond what is sent next, and it was subscribed before the history
\* was copied: the copy reaches up to the cursor at least.
Order ==
  /\ sent <= newest
  /\ newest <= sent + 1
  /\ \A c \in Clients : next[c] <= sent + 1
  /\ \A c \in Clients : stage[c] = "replay" => next[c] <= replay[c].hi + 1

\* What a client has been sent so far has no gap: while it replays, up to the
\* next line; when it is live, up to the cursor, except where it lagged.
Contiguous(c) ==
  /\ stage[c] \in {"away", "connected", "subscribed"} =>
       got[c] = {} /\ ~lagged[c]
  /\ stage[c] = "replay" =>
       /\ replay[c].lo <= replay[c].hi + 1
       /\ \A n \in Snapshots :
            n < replay[c].lo /\ (\E m \in got[c] : m <= n) => n \in got[c]
       /\ ~lagged[c]

AttachInv ==
  /\ TypeOK
  /\ Order
  /\ \A c \in Clients : Contiguous(c)
  /\ NoHole
  /\ LagKeepsTail

\* Between a number and its successor there is none.
LEMMA BelowSuccessor ==
  ASSUME NEW k \in Nat, NEW n \in Nat, n < k + 1
  PROVE  n = k \/ n < k
OBVIOUS

LEMMA InitAttachInv == Init => AttachInv
BY DEF Init, AttachInv, TypeOK, Order, Contiguous, NoHole, LagKeepsTail,
       Stages, Snapshots, history

LEMMA PushAttachInv == AttachInv /\ Push => AttachInv'
BY DEF AttachInv, TypeOK, Order, Contiguous, NoHole, LagKeepsTail, Push

LEMMA SendAttachInv == AttachInv /\ Send => AttachInv'
BY DEF AttachInv, TypeOK, Order, Contiguous, NoHole, LagKeepsTail, Send,
       Snapshots, history

LEMMA ReceiveKeeps ==
  ASSUME AttachInv, NEW c \in Clients, Receive(c)
  PROVE  NoHole' /\ LagKeepsTail'
<1>1. /\ got'[c] = got[c] \cup {next[c]}
      /\ next'[c] = next[c] + 1 /\ next[c] \in Nat
      /\ \A d \in Clients \ {c} : got'[d] = got[d] /\ next'[d] = next[d]
      /\ UNCHANGED <<sent, stage, lagged>> /\ stage[c] = "live"
  BY DEF AttachInv, TypeOK, Receive
<1>2. NoHole /\ LagKeepsTail /\ got[c] \subseteq Nat
  BY DEF AttachInv, TypeOK, Snapshots
<1>3. ASSUME NEW n \in Snapshots, n < next[c] + 1,
             NEW m \in got[c] \cup {next[c]}, m <= n,
             ~lagged[c] \/ sent < n + Capacity
      PROVE  n \in got[c] \cup {next[c]}
  <2>1. n \in Nat
    BY DEF Snapshots
  <2>2. CASE n = next[c]
    BY <2>2
  <2>3. CASE n < next[c]
    <3>1. m \in got[c]
      BY <1>1, <1>2, <1>3, <2>1, <2>3
    <3>2. QED
      BY <1>1, <1>2, <1>3, <2>3, <3>1 DEF NoHole, LagKeepsTail
  <2>4. QED
    BY <1>1, <1>3, <2>1, <2>2, <2>3
<1>4. NoHole'
  <2>1. SUFFICES ASSUME NEW d \in Clients, stage[d] = "live", ~lagged[d],
                        NEW n \in Snapshots, n < next'[d],
                        NEW m \in got'[d], m <= n
                 PROVE  n \in got'[d]
    BY <1>1 DEF NoHole
  <2>2. CASE d = c
    BY <1>1, <1>3, <2>1, <2>2
  <2>3. CASE d # c
    BY <1>1, <1>2, <2>1, <2>3 DEF NoHole
  <2>4. QED
    BY <2>2, <2>3
<1>5. LagKeepsTail'
  <2>1. SUFFICES ASSUME NEW d \in Clients, stage[d] = "live",
                        NEW n \in Snapshots, sent < n + Capacity, n < next'[d],
                        NEW m \in got'[d], m <= n
                 PROVE  n \in got'[d]
    BY <1>1 DEF LagKeepsTail
  <2>2. CASE d = c
    BY <1>1, <1>3, <2>1, <2>2
  <2>3. CASE d # c
    BY <1>1, <1>2, <2>1, <2>3 DEF LagKeepsTail
  <2>4. QED
    BY <2>2, <2>3
<1>6. QED
  BY <1>4, <1>5

LEMMA ClientAttachInv ==
  ASSUME AttachInv, NEW c \in Clients,
         Connect(c) \/ ClientStep(c) \/ Leave(c)
  PROVE  AttachInv'
<1> USE DEF AttachInv, TypeOK, Order, Contiguous, NoHole, LagKeepsTail,
            Stages, Snapshots, Goto, history
<1>1. CASE Connect(c)
  BY <1>1 DEF Connect
<1>2. CASE Subscribe(c)
  BY <1>2 DEF Subscribe
<1>3. CASE CopyHistory(c)
  <2>1. TypeOK' /\ Order'
    BY <1>3 DEF CopyHistory
  <2>2. \A d \in Clients : Contiguous(d)'
    BY <1>3 DEF CopyHistory
  <2>3. NoHole' /\ LagKeepsTail'
    BY <1>3 DEF CopyHistory
  <2>4. QED
    BY <2>1, <2>2, <2>3
<1>4. CASE Replay(c)
  <2>1. TypeOK' /\ Order'
    BY <1>4 DEF Replay
  <2>2. /\ got'[c] = got[c] \cup {replay[c].lo}
        /\ replay'[c] = [lo |-> replay[c].lo + 1, hi |-> replay[c].hi]
        /\ \A d \in Clients \ {c} : got'[d] = got[d] /\ replay'[d] = replay[d]
        /\ UNCHANGED <<stage, lagged>> /\ stage[c] = "replay"
        /\ replay[c].lo <= replay[c].hi
    BY <1>4 DEF Replay
  <2>3. Contiguous(c)'
    <3>1. replay[c].lo \in Nat
      OBVIOUS
    <3>2. ASSUME NEW n \in Snapshots, n < replay[c].lo + 1,
                 NEW m \in got[c] \cup {replay[c].lo}, m <= n
          PROVE  n \in got[c] \cup {replay[c].lo}
      <4>1. CASE n = replay[c].lo
        BY <4>1
      <4>2. CASE n < replay[c].lo
        BY <2>2, <3>2, <4>2
      <4>3. n \in Nat /\ (n = replay[c].lo \/ n < replay[c].lo)
        <5>1. n \in Nat
          OBVIOUS
        <5>2. QED
          BY <3>1, <3>2, <5>1, BelowSuccessor
      <4>4. QED
        BY <4>1, <4>2, <4>3
    <3>3. QED
      BY <2>2, <3>2
  <2>4. \A d \in Clients : Contiguous(d)'
    BY <2>2, <2>3
  <2>5. NoHole' /\ LagKeepsTail'
    BY <1>4 DEF Replay
  <2>6. QED
    BY <2>1, <2>4, <2>5
<1>5. CASE GoLive(c)
  BY <1>5 DEF GoLive
<1>6. CASE Receive(c)
  <2>1. /\ got'[c] = got[c] \cup {next[c]}
        /\ next'[c] = next[c] + 1
        /\ \A d \in Clients \ {c} : got'[d] = got[d] /\ next'[d] = next[d]
        /\ UNCHANGED <<sent, stage, replay, lagged>> /\ stage[c] = "live"
    BY <1>6 DEF Receive
  <2>2. TypeOK' /\ Order'
    BY <1>6 DEF Receive
  <2>3. \A d \in Clients : Contiguous(d)'
    BY <2>1
  <2>4. NoHole' /\ LagKeepsTail'
    BY <1>6, ReceiveKeeps
  <2>5. QED
    BY <2>2, <2>3, <2>4
<1>7. CASE Lag(c)
  <2>1. next'[c] = sent + 1 - Capacity /\ next'[c] \in Nat \ {0}
    BY <1>7 DEF Lag
  <2>2. TypeOK' /\ Order'
    BY <1>7, <2>1 DEF Lag
  <2>3. \A d \in Clients : Contiguous(d)'
    BY <1>7 DEF Lag
  <2>4. NoHole'
    BY <1>7 DEF Lag
  <2>5. LagKeepsTail'
    BY <1>7, <2>1 DEF Lag
  <2>6. QED
    BY <2>2, <2>3, <2>4, <2>5
<1>8. CASE Leave(c)
  BY <1>8 DEF Leave
<1>9. QED
  BY <1>1, <1>2, <1>3, <1>4, <1>5, <1>6, <1>7, <1>8 DEF ClientStep

LEMMA AttachInvariance == Spec => []AttachInv
<1>1. AttachInv /\ [Next]_vars => AttachInv'
  <2> SUFFICES ASSUME AttachInv, [Next]_vars PROVE AttachInv'
    OBVIOUS
  <2>1. CASE UNCHANGED vars
    BY <2>1 DEF vars, AttachInv, TypeOK, Order, Contiguous, NoHole,
                LagKeepsTail
  <2>2. QED
    BY <2>1, PushAttachInv, SendAttachInv, ClientAttachInv DEF Next
<1>2. QED
  BY <1>1, InitAttachInv, PTL DEF Spec

-----------------------------------------------------------------------------
(* The viewer adds nothing to what Attach lets the daemon do.              *)

LEMMA ViewStep == ViewNext => [Next]_vars
<1> SUFFICES ASSUME ViewNext PROVE [Next]_vars
  OBVIOUS
<1>1. CASE Collecting
  BY <1>1 DEF Collecting, Next
<1>2. ASSUME NEW c \in Clients, Serving(c)
      PROVE  Next
  BY <1>2 DEF Serving, WriteHeader, WriteBuffered, WriteLive, Next, ClientStep
<1>3. ASSUME NEW c \in Clients, HangUp(c) \/ Join(c)
      PROVE  Next
  BY <1>3 DEF HangUp, Join, Next
<1>4. ASSUME NEW c \in Clients, Viewing(c) \/ Quit(c)
      PROVE  UNCHANGED vars
  BY <1>4 DEF Viewing, Quit, ReadHeader, Skip, Absorb, Show, Eof, NextLine, Out
<1>5. QED
  BY <1>1, <1>2, <1>3, <1>4 DEF ViewNext

LEMMA ViewerImplementsAttach == ViewSpec => Spec
<1>1. ViewInit => Init
  BY DEF ViewInit
<1>2. [ViewNext]_allVars => [Next]_vars
  BY ViewStep DEF allVars
<1>3. QED
  BY <1>1, <1>2, PTL DEF ViewSpec, Spec

\* Every variable keeps its type; the history stays a contiguous run.
THEOREM AttachTypeCorrect == ViewSpec => []TypeOK
<1>1. AttachInv => TypeOK
  BY DEF AttachInv
<1>2. QED
  BY <1>1, ViewerImplementsAttach, AttachInvariance, PTL

\* An attached client that keeps up sees no hole, whatever the history's
\* pruning, whenever it subscribes and however its viewer reads
\* (daemon.rs:243-262).
THEOREM AttachHasNoHole == ViewSpec => []NoHole
<1>1. AttachInv => NoHole
  BY DEF AttachInv
<1>2. QED
  BY <1>1, ViewerImplementsAttach, AttachInvariance, PTL

\* One that lags loses old snapshots only (daemon.rs:262).
THEOREM LaggingKeepsTail == ViewSpec => []LagKeepsTail
<1>1. AttachInv => LagKeepsTail
  BY DEF AttachInv
<1>2. QED
  BY <1>1, ViewerImplementsAttach, AttachInvariance, PTL

-----------------------------------------------------------------------------
(* What is on its way to a viewer.                                         *)

\* The lines on the way that are newer than hi come in rising order, and all
\* of them after what is on the screen once that is newer than hi.
Rising(line, hi, shown) ==
  /\ \A i, j \in 1 .. Len(line) : i < j /\ line[i] > hi => line[j] > line[i]
  /\ shown > hi => \A i \in 1 .. Len(line) : line[i] > shown

\* None of them is n or newer, beyond hi.
Below(line, hi, n) ==
  \A i \in 1 .. Len(line) : line[i] <= hi \/ line[i] < n

LEMMA AppendNewer ==
  ASSUME NEW line \in Seq(Nat), NEW hi \in Nat, NEW shown \in Nat,
         NEW n \in Nat, Rising(line, hi, shown), Below(line, hi, n),
         shown <= hi \/ shown < n
  PROVE  /\ Append(line, n) \in Seq(Nat)
         /\ Rising(Append(line, n), hi, shown)
         /\ Below(Append(line, n), hi, n + 1)
<1> DEFINE more == Append(line, n)
<1>1. /\ more \in Seq(Nat)
      /\ Len(more) = Len(line) + 1
      /\ \A i \in 1 .. Len(line) : more[i] = line[i] /\ line[i] \in Nat
      /\ more[Len(line) + 1] = n
      /\ Len(line) \in Nat
  BY AppendProperties, ElementOfSeq, LenProperties
<1>2. \A i \in 1 .. Len(more) : i \in 1 .. Len(line) \/ i = Len(line) + 1
  BY <1>1
<1> HIDE DEF more
<1>3. Below(more, hi, n + 1)
  <2> SUFFICES ASSUME NEW i \in 1 .. Len(more)
               PROVE  more[i] <= hi \/ more[i] < n + 1
    BY DEF Below
  <2>1. CASE i \in 1 .. Len(line)
    <3>1. more[i] = line[i] /\ line[i] \in Nat
      BY <1>1, <2>1
    <3>2. line[i] <= hi \/ line[i] < n
      BY <2>1 DEF Below
    <3>3. QED
      BY <3>1, <3>2
  <2>2. CASE i = Len(line) + 1
    BY <1>1, <2>2
  <2>3. QED
    BY <1>2, <2>1, <2>2
<1>4. \A i, j \in 1 .. Len(more) : i < j /\ more[i] > hi => more[j] > more[i]
  <2> SUFFICES ASSUME NEW i \in 1 .. Len(more), NEW j \in 1 .. Len(more),
                      i < j, more[i] > hi
               PROVE  more[j] > more[i]
    OBVIOUS
  <2>1. i \in 1 .. Len(line) /\ more[i] = line[i]
    <3>1. i \in Nat /\ j \in Nat /\ 1 <= i /\ j <= Len(line) + 1 /\ Len(line) \in Nat
      BY <1>1
    <3>2. i \in 1 .. Len(line)
      BY ONLY <3>1, i < j
    <3>3. QED
      BY <1>1, <3>2
  <2>2. CASE j \in 1 .. Len(line)
    BY <1>1, <2>1, <2>2 DEF Rising
  <2>3. CASE j = Len(line) + 1
    BY <1>1, <2>1, <2>3 DEF Below
  <2>4. QED
    BY <1>2, <2>2, <2>3
<1>5. shown > hi => \A i \in 1 .. Len(more) : more[i] > shown
  <2> SUFFICES ASSUME shown > hi, NEW i \in 1 .. Len(more)
               PROVE  more[i] > shown
    OBVIOUS
  <2>1. CASE i \in 1 .. Len(line)
    BY <1>1, <2>1 DEF Rising
  <2>2. CASE i = Len(line) + 1
    BY <1>1, <2>2
  <2>3. QED
    BY <1>2, <2>1, <2>2
<1>6. QED
  BY <1>1, <1>3, <1>4, <1>5 DEF Rising, more

LEMMA AppendBuffered ==
  ASSUME NEW line \in Seq(Nat), NEW hi \in Nat, NEW shown \in Nat,
         NEW n \in Nat, Below(line, hi, 0), n <= hi, shown <= hi
  PROVE  /\ Append(line, n) \in Seq(Nat)
         /\ Rising(Append(line, n), hi, shown)
         /\ Below(Append(line, n), hi, 0)
<1> DEFINE more == Append(line, n)
<1>1. /\ more \in Seq(Nat)
      /\ Len(more) = Len(line) + 1
      /\ \A i \in 1 .. Len(line) : more[i] = line[i] /\ line[i] \in Nat
      /\ more[Len(line) + 1] = n
      /\ Len(line) \in Nat
  BY AppendProperties, ElementOfSeq, LenProperties
<1>2. \A i \in 1 .. Len(more) : more[i] \in Nat /\ more[i] <= hi
  <2> SUFFICES ASSUME NEW i \in 1 .. Len(more)
               PROVE  more[i] \in Nat /\ more[i] <= hi
    OBVIOUS
  <2>1. i \in 1 .. Len(line) \/ i = Len(line) + 1
    BY <1>1
  <2>2. QED
    BY <1>1, <2>1 DEF Below
<1>3. QED
  BY <1>1, <1>2 DEF Rising, Below

LEMMA TakeLine ==
  ASSUME NEW line \in Seq(Nat), NEW hi \in Nat, NEW shown \in Nat,
         Rising(line, hi, shown), line # <<>>
  PROVE  /\ Tail(line) \in Seq(Nat) /\ Head(line) \in Nat
         /\ Rising(Tail(line), hi, shown)
         /\ Rising(Tail(line), hi, Head(line))
         /\ \A n \in Nat : Below(line, hi, n) =>
              /\ Below(Tail(line), hi, n)
              /\ Head(line) <= hi \/ Head(line) < n
         /\ shown > hi => Head(line) > shown
<1> DEFINE rest == Tail(line)
<1>1. /\ rest \in Seq(Nat)
      /\ Head(line) = line[1]
      /\ Len(line) \in Nat \ {0}
      /\ Len(rest) = Len(line) - 1
      /\ \A i \in 1 .. Len(rest) : rest[i] = line[i + 1]
      /\ \A i \in 1 .. Len(line) : line[i] \in Nat
  BY HeadTailProperties, ElementOfSeq, LenProperties, EmptySeq
<1> HIDE DEF rest
<1>2. /\ 1 \in 1 .. Len(line)
      /\ \A i \in 1 .. Len(rest) : i + 1 \in 1 .. Len(line) /\ 1 < i + 1
  BY <1>1
<1>3. Rising(rest, hi, shown) /\ Rising(rest, hi, line[1])
  <2>1. ASSUME NEW i \in 1 .. Len(rest), NEW j \in 1 .. Len(rest),
               i < j, rest[i] > hi
        PROVE  rest[j] > rest[i]
    <3>1. /\ rest[i] = line[i + 1] /\ rest[j] = line[j + 1]
          /\ i + 1 \in 1 .. Len(line) /\ j + 1 \in 1 .. Len(line)
      BY <1>1, <1>2
    <3>2. i + 1 < j + 1
      BY <2>1
    <3>3. QED
      BY <2>1, <3>1, <3>2 DEF Rising
  <2>2. ASSUME NEW i \in 1 .. Len(rest)
        PROVE  /\ shown > hi => rest[i] > shown
               /\ line[1] > hi => rest[i] > line[1]
    <3>1. rest[i] = line[i + 1] /\ i + 1 \in 1 .. Len(line) /\ 1 < i + 1
      BY <1>1, <1>2
    <3>2. QED
      BY <1>2, <3>1 DEF Rising
  <2>3. QED
    BY <2>1, <2>2 DEF Rising
<1>4. ASSUME NEW n \in Nat, Below(line, hi, n)
      PROVE  Below(rest, hi, n) /\ (line[1] <= hi \/ line[1] < n)
  BY <1>1, <1>2, <1>4 DEF Below
<1>5. shown > hi => line[1] > shown
  BY <1>2 DEF Rising
<1>6. QED
  BY <1>1, <1>2, <1>3, <1>4, <1>5 DEF rest

LEMMA CutLine ==
  ASSUME NEW line \in Seq(Nat), NEW hi \in Nat, NEW shown \in Nat,
         NEW k \in Nat \ {0}, Rising(line, hi, shown), Len(line) = k
  PROVE  /\ SubSeq(line, 1, k - 1) \in Seq(Nat)
         /\ Rising(SubSeq(line, 1, k - 1), hi, shown)
<1> DEFINE less == SubSeq(line, 1, k - 1)
<1>1. /\ less \in Seq(Nat)
      /\ Len(less) = k - 1
      /\ \A i \in 1 .. k - 1 : less[i] = line[i]
  BY SubSeqProperties
<1> HIDE DEF less
<1>2. QED
  BY <1>1 DEF Rising, less

\* The lines a viewer has still to read carry on where its screen is: up to
\* the end of the copy while the daemon replays, then up to the cursor.
OnTheWay(c) ==
  /\ Rising(pipe[c], announced[c].hi, screen[c])
  /\ stage[c] \in {"connected", "subscribed"} =>
       pipe[c] = <<>> /\ screen[c] = 0
  /\ stage[c] = "replay" =>
       /\ announced[c].hi = replay[c].hi
       /\ Below(pipe[c], announced[c].hi, 0)
       /\ screen[c] <= announced[c].hi
  /\ stage[c] = "live" =>
       /\ Below(pipe[c], announced[c].hi, next[c])
       /\ screen[c] <= announced[c].hi \/ screen[c] < next[c]

WireTypes ==
  /\ pipe \in [Clients -> Seq(Nat)]
  /\ screen \in [Clients -> Nat]
  /\ announced \in [Clients -> [lo : Nat, hi : Nat]]

ViewInv == TypeOK /\ WireTypes /\ \A c \in Clients : OnTheWay(c)

Unmoved(c) ==
  /\ stage'[c] = stage[c] /\ next'[c] = next[c] /\ replay'[c] = replay[c]
  /\ pipe'[c] = pipe[c] /\ announced'[c] = announced[c]
  /\ screen'[c] = screen[c]

LEMMA UnmovedOnTheWay ==
  ASSUME NEW c \in Clients, OnTheWay(c), Unmoved(c)
  PROVE  OnTheWay(c)'
BY DEF OnTheWay, Unmoved

LEMMA InitViewInv == ViewInit => ViewInv
<1> SUFFICES ASSUME ViewInit PROVE ViewInv
  OBVIOUS
<1>1. TypeOK
  BY DEF ViewInit, Init, TypeOK, Stages, Snapshots
<1>2. WireTypes
  BY EmptySeq DEF ViewInit, WireTypes
<1>3. ASSUME NEW c \in Clients PROVE OnTheWay(c)
  <2>1. /\ pipe[c] = <<>> /\ screen[c] = 0 /\ stage[c] = "away"
        /\ announced[c].hi = 0 /\ Len(<<>>) = 0
    BY DEF ViewInit, Init
  <2>2. QED
    BY <2>1 DEF OnTheWay, Rising
<1>4. QED
  BY <1>1, <1>2, <1>3 DEF ViewInv

\* The daemon's side of a connection.
LEMMA WriterViewInv ==
  ASSUME ViewInv, NEW c \in Clients, TypeOK',
         Serving(c) \/ HangUp(c) \/ Join(c)
  PROVE  ViewInv'
<1> USE DEF ViewInv
<1>1. pipe[c] \in Seq(Nat) /\ screen[c] \in Nat /\ announced[c].hi \in Nat
  BY DEF WireTypes
<1>2. CASE (Subscribe(c) \/ GoLive(c) \/ Lag(c)) /\ UNCHANGED viewVars
  <2>1. \A d \in Clients \ {c} : Unmoved(d)
    BY <1>2 DEF Unmoved, Subscribe, GoLive, Lag, Goto, TypeOK, viewVars
  <2>2. WireTypes'
    BY <1>2 DEF WireTypes, viewVars
  <2>3. OnTheWay(c)'
    <3>1. CASE Subscribe(c)
      BY <1>2, <3>1 DEF Subscribe, Goto, TypeOK, viewVars, OnTheWay
    <3>2. CASE GoLive(c)
      BY <1>1, <1>2, <3>2
      DEF GoLive, Goto, TypeOK, viewVars, OnTheWay, Below
    <3>3. CASE Lag(c)
      <4>1. next[c] \in Nat /\ next'[c] \in Nat /\ next'[c] > next[c]
        BY <3>3 DEF Lag, TypeOK
      <4>2. \A i \in 1 .. Len(pipe[c]) : pipe[c][i] \in Nat
        BY <1>1, ElementOfSeq
      <4>3. Below(pipe[c], announced[c].hi, next[c])
        BY <3>3 DEF Lag, OnTheWay
      <4>4. Below(pipe[c], announced[c].hi, next'[c])
        BY <1>1, <4>1, <4>2, <4>3 DEF Below
      <4>5. QED
        BY <1>1, <1>2, <3>3, <4>1, <4>4 DEF Lag, viewVars, OnTheWay
    <3>4. QED
      BY <1>2, <3>1, <3>2, <3>3
  <2>4. QED
    BY <2>1, <2>2, <2>3, UnmovedOnTheWay
<1>3. CASE WriteHeader(c)
  <2>1. \A d \in Clients \ {c} : Unmoved(d)
    BY <1>3 DEF Unmoved, WriteHeader, Written, CopyHistory, Goto, TypeOK,
                WireTypes
  <2>2. /\ pipe[c] = <<>> /\ screen[c] = 0
        /\ pipe'[c] = Append(<<>>, 0)
        /\ announced'[c] = [lo |-> oldest, hi |-> newest]
        /\ replay'[c] = announced'[c]
        /\ stage'[c] = "replay" /\ screen' = screen
        /\ newest \in Nat /\ oldest \in Nat
    <3>1. pipe[c] = <<>> /\ screen[c] = 0
      BY <1>3 DEF WriteHeader, CopyHistory, OnTheWay
    <3>2. pipe'[c] = Append(pipe[c], 0)
      BY <1>3 DEF WriteHeader, Written, Header, WireTypes
    <3>3. /\ announced'[c] = [lo |-> oldest, hi |-> newest]
          /\ screen' = screen
      BY <1>3 DEF WriteHeader, WireTypes
    <3>4. /\ replay'[c] = [lo |-> oldest, hi |-> newest]
          /\ stage'[c] = "replay"
          /\ newest \in Nat /\ oldest \in Nat
      BY <1>3 DEF WriteHeader, CopyHistory, Goto, TypeOK
    <3>5. QED
      BY <3>1, <3>2, <3>3, <3>4
  <2>3. /\ pipe'[c] \in Seq(Nat)
        /\ Rising(pipe'[c], newest, 0)
        /\ Below(pipe'[c], newest, 0)
    <3>1. Below(<<>>, newest, 0) /\ <<>> \in Seq(Nat)
      BY EmptySeq DEF Below
    <3>2. 0 \in Nat /\ 0 <= newest /\ newest \in Nat
      BY <2>2
    <3>3. /\ Append(<<>>, 0) \in Seq(Nat)
          /\ Rising(Append(<<>>, 0), newest, 0)
          /\ Below(Append(<<>>, 0), newest, 0)
      BY <3>1, <3>2, AppendBuffered
    <3>4. QED
      BY <2>2, <3>3
  <2>4. WireTypes'
    BY <1>3, <2>2, <2>3 DEF WireTypes, WriteHeader, Written
  <2>5. OnTheWay(c)'
    BY <2>2, <2>3 DEF OnTheWay
  <2>6. QED
    BY <2>1, <2>4, <2>5, UnmovedOnTheWay
<1>4. CASE WriteBuffered(c)
  <2>1. \A d \in Clients \ {c} : Unmoved(d)
    BY <1>4 DEF Unmoved, WriteBuffered, Written, Replay, TypeOK, WireTypes
  <2>2. /\ pipe'[c] = Append(pipe[c], replay[c].lo)
        /\ replay[c].lo \in Nat /\ replay[c].lo <= replay[c].hi
        /\ replay'[c].hi = replay[c].hi
        /\ stage[c] = "replay"
        /\ UNCHANGED <<stage, announced, screen>>
    <3>1. pipe'[c] = Append(pipe[c], replay[c].lo) /\ UNCHANGED <<announced, screen>>
      BY <1>4 DEF WriteBuffered, Written, WireTypes
    <3>2. /\ stage[c] = "replay" /\ stage' = stage
          /\ replay[c].lo <= replay[c].hi
          /\ replay' = [replay EXCEPT ![c].lo = @ + 1]
      BY <1>4 DEF WriteBuffered, Replay
    <3>3. /\ replay[c].lo \in Nat
          /\ replay \in [Clients -> [lo : Nat \ {0}, hi : 0 .. MaxSnapshots]]
      BY DEF TypeOK
    <3>4. replay'[c].hi = replay[c].hi
      BY ONLY <3>2, <3>3, c \in Clients
    <3>5. QED
      BY <3>1, <3>2, <3>3, <3>4
  <2>3. /\ pipe'[c] \in Seq(Nat)
        /\ Rising(pipe'[c], announced[c].hi, screen[c])
        /\ Below(pipe'[c], announced[c].hi, 0)
    BY <1>1, <2>2, AppendBuffered DEF OnTheWay
  <2>4. WireTypes'
    BY <1>4, <2>3 DEF WireTypes, WriteBuffered, Written
  <2>5. OnTheWay(c)'
    BY <2>2, <2>3 DEF OnTheWay
  <2>6. QED
    BY <2>1, <2>4, <2>5, UnmovedOnTheWay
<1>5. CASE WriteLive(c)
  <2>1. \A d \in Clients \ {c} : Unmoved(d)
    BY <1>5 DEF Unmoved, WriteLive, Written, Receive, TypeOK, WireTypes
  <2>2. /\ pipe'[c] = Append(pipe[c], next[c])
        /\ next[c] \in Nat /\ next'[c] = next[c] + 1
        /\ stage[c] = "live"
        /\ UNCHANGED <<stage, announced, screen>>
    BY <1>5 DEF WriteLive, Written, Receive, TypeOK, WireTypes
  <2>3. /\ pipe'[c] \in Seq(Nat)
        /\ Rising(pipe'[c], announced[c].hi, screen[c])
        /\ Below(pipe'[c], announced[c].hi, next[c] + 1)
    BY <1>1, <2>2, AppendNewer DEF OnTheWay
  <2>4. WireTypes'
    BY <1>5, <2>3 DEF WireTypes, WriteLive, Written
  <2>5. OnTheWay(c)'
    BY <1>1, <2>2, <2>3 DEF OnTheWay
  <2>6. QED
    BY <2>1, <2>4, <2>5, UnmovedOnTheWay
<1>6. CASE HangUp(c)
  <2>1. \A d \in Clients \ {c} : Unmoved(d)
    <3>1. SUFFICES ASSUME NEW d \in Clients, d # c
                   PROVE  Unmoved(d)
      OBVIOUS
    <3>2. pipe'[d] = pipe[d]
      BY <1>6, <3>1 DEF HangUp, WireTypes
    <3>3. stage'[d] = stage[d] /\ next'[d] = next[d] /\ replay'[d] = replay[d]
      BY <1>6, <3>1 DEF HangUp, Leave, Goto, TypeOK
    <3>4. announced'[d] = announced[d] /\ screen'[d] = screen[d]
      BY <1>6 DEF HangUp
    <3>5. QED
      BY <3>2, <3>3, <3>4 DEF Unmoved
  <2>2. stage'[c] = "away" /\ UNCHANGED <<announced, screen>>
    BY <1>6 DEF HangUp, Leave, Goto, TypeOK
  <2>3. pipe'[c] \in Seq(Nat) /\ Rising(pipe'[c], announced[c].hi, screen[c])
    <3>1. CASE UNCHANGED pipe
      BY <1>1, <3>1 DEF OnTheWay
    <3>2. CASE /\ Len(pipe[c]) = PipeCapacity
               /\ pipe' = [pipe EXCEPT ![c] = SubSeq(@, 1, PipeCapacity - 1)]
      <4>1. Rising(pipe[c], announced[c].hi, screen[c])
        BY DEF OnTheWay
      <4>2. pipe'[c] = SubSeq(pipe[c], 1, PipeCapacity - 1)
        BY <3>2 DEF WireTypes
      <4>3. QED
        BY <1>1, <3>2, <4>1, <4>2, CutLine, ViewerAssumption
        DEF ViewerAssumption
    <3>3. QED
      BY <1>6, <3>1, <3>2 DEF HangUp
  <2>4. WireTypes'
    BY <1>6, <2>3 DEF WireTypes, HangUp
  <2>5. OnTheWay(c)'
    BY <2>2, <2>3 DEF OnTheWay
  <2>6. QED
    BY <2>1, <2>4, <2>5, UnmovedOnTheWay
<1>7. CASE Join(c)
  <2>1. \A d \in Clients \ {c} : Unmoved(d)
    BY <1>7 DEF Unmoved, Join, Connect, Goto, TypeOK, WireTypes
  <2>2. /\ stage'[c] = "connected" /\ pipe'[c] = <<>> /\ screen'[c] = 0
        /\ announced'[c].hi = 0 /\ Len(<<>>) = 0
    BY <1>7 DEF Join, Connect, Goto, TypeOK, WireTypes
  <2>3. WireTypes'
    BY <1>7, EmptySeq DEF WireTypes, Join
  <2>4. OnTheWay(c)'
    BY <2>2 DEF OnTheWay, Rising
  <2>5. QED
    BY <2>1, <2>3, <2>4, UnmovedOnTheWay
<1>8. QED
  BY <1>2, <1>3, <1>4, <1>5, <1>6, <1>7 DEF Serving

\* The viewer's side: what it shows never goes back from beyond the copy.
LEMMA ReaderViewInv ==
  ASSUME ViewInv, NEW c \in Clients, TypeOK', Viewing(c) \/ Quit(c)
  PROVE  /\ ViewInv'
         /\ screen[c] > announced[c].hi => screen'[c] >= screen[c]
         /\ \A d \in Clients \ {c} : screen'[d] = screen[d]
<1> USE DEF ViewInv
<1>1. pipe[c] \in Seq(Nat) /\ screen[c] \in Nat /\ announced[c].hi \in Nat
  BY DEF WireTypes
<1>2. CASE UNCHANGED <<vars, pipe, announced, screen>>
  <2>1. \A d \in Clients : Unmoved(d)
    BY <1>2 DEF Unmoved, vars
  <2>2. QED
    BY <1>1, <1>2, <2>1, UnmovedOnTheWay DEF WireTypes
<1>3. ASSUME pipe[c] # <<>>, pipe' = [pipe EXCEPT ![c] = Tail(@)],
             UNCHANGED <<vars, announced>>,
             \/ UNCHANGED screen
             \/ screen' = [screen EXCEPT ![c] = Head(pipe[c])]
      PROVE  /\ ViewInv'
             /\ screen[c] > announced[c].hi => screen'[c] >= screen[c]
             /\ \A d \in Clients \ {c} : screen'[d] = screen[d]
  <2>1. \A d \in Clients \ {c} : Unmoved(d)
    BY <1>3 DEF Unmoved, vars, WireTypes
  <2>2. /\ pipe'[c] = Tail(pipe[c])
        /\ screen'[c] = screen[c] \/ screen'[c] = Head(pipe[c])
        /\ stage'[c] = stage[c] /\ next'[c] = next[c]
        /\ replay'[c] = replay[c] /\ announced'[c] = announced[c]
        /\ next[c] \in Nat
    BY <1>3 DEF vars, WireTypes, TypeOK
  <2>3. /\ Tail(pipe[c]) \in Seq(Nat) /\ Head(pipe[c]) \in Nat
        /\ Rising(Tail(pipe[c]), announced[c].hi, screen[c])
        /\ Rising(Tail(pipe[c]), announced[c].hi, Head(pipe[c]))
        /\ \A n \in Nat : Below(pipe[c], announced[c].hi, n) =>
             /\ Below(Tail(pipe[c]), announced[c].hi, n)
             /\ Head(pipe[c]) <= announced[c].hi \/ Head(pipe[c]) < n
        /\ screen[c] > announced[c].hi => Head(pipe[c]) > screen[c]
    <3>1. Rising(pipe[c], announced[c].hi, screen[c])
      BY DEF OnTheWay
    <3>2. QED
      BY <1>1, <1>3, <3>1, TakeLine
  <2>4. WireTypes'
    BY <1>3, <2>3 DEF WireTypes
  <2>5. OnTheWay(c)'
    <3>1. Rising(pipe'[c], announced'[c].hi, screen'[c])
      BY <2>2, <2>3
    <3>2. stage'[c] \notin {"connected", "subscribed"}
      BY <1>3, <2>2 DEF OnTheWay
    <3>3. ASSUME stage'[c] = "replay"
          PROVE  /\ announced'[c].hi = replay'[c].hi
                 /\ Below(pipe'[c], announced'[c].hi, 0)
                 /\ screen'[c] <= announced'[c].hi
      <4>1. /\ announced[c].hi = replay[c].hi
            /\ Below(pipe[c], announced[c].hi, 0)
            /\ screen[c] <= announced[c].hi
        BY <2>2, <3>3 DEF OnTheWay
      <4>2. /\ Below(Tail(pipe[c]), announced[c].hi, 0)
            /\ Head(pipe[c]) <= announced[c].hi \/ Head(pipe[c]) < 0
        BY <2>3, <4>1
      <4>3. QED
        BY <1>1, <2>2, <2>3, <4>1, <4>2
    <3>4. ASSUME stage'[c] = "live"
          PROVE  /\ Below(pipe'[c], announced'[c].hi, next'[c])
                 /\ screen'[c] <= announced'[c].hi \/ screen'[c] < next'[c]
      BY <1>1, <2>2, <2>3, <3>4 DEF OnTheWay
    <3>5. QED
      BY <3>1, <3>2, <3>3, <3>4 DEF OnTheWay
  <2>6. screen[c] > announced[c].hi => screen'[c] >= screen[c]
    BY <1>1, <2>2, <2>3
  <2>7. \A d \in Clients \ {c} : screen'[d] = screen[d]
    BY <1>3 DEF WireTypes
  <2>8. QED
    BY <2>1, <2>4, <2>5, <2>6, <2>7, UnmovedOnTheWay
<1>4. QED
  BY <1>2, <1>3
  DEF Viewing, Quit, ReadHeader, Skip, Absorb, Show, Eof, NextLine, Out

LEMMA ViewStepInv ==
  ASSUME ViewInv, TypeOK', [ViewNext]_allVars
  PROVE  /\ ViewInv'
         /\ \A c \in Clients :
              screen[c] > announced[c].hi /\ screen'[c] # 0
                => screen'[c] >= screen[c]
<1>1. CASE UNCHANGED <<vars, pipe, announced, screen>>
  <2>1. \A d \in Clients : Unmoved(d)
    BY <1>1 DEF Unmoved, vars
  <2>2. QED
    BY <1>1, <2>1, UnmovedOnTheWay DEF ViewInv, WireTypes
<1>2. CASE Collecting
  <2>1. \A d \in Clients : Unmoved(d)
    BY <1>2 DEF Unmoved, Collecting, Push, Send, viewVars
  <2>2. QED
    BY <1>2, <2>1, UnmovedOnTheWay
    DEF ViewInv, WireTypes, Collecting, viewVars
<1>3. ASSUME NEW c \in Clients, Serving(c) \/ HangUp(c)
      PROVE  ViewInv' /\ screen' = screen
  BY <1>3, WriterViewInv
  DEF Serving, HangUp, WriteHeader, WriteBuffered, WriteLive, viewVars
<1>4. ASSUME NEW c \in Clients, Join(c)
      PROVE  /\ ViewInv'
             /\ screen'[c] = 0
             /\ \A d \in Clients \ {c} : screen'[d] = screen[d]
  BY <1>4, WriterViewInv DEF Join, ViewInv, WireTypes
<1>5. ASSUME NEW c \in Clients, Viewing(c) \/ Quit(c)
      PROVE  /\ ViewInv'
             /\ screen[c] > announced[c].hi => screen'[c] >= screen[c]
             /\ \A d \in Clients \ {c} : screen'[d] = screen[d]
  BY <1>5, ReaderViewInv
<1>6. \A c \in Clients : screen[c] \in Nat
  BY DEF ViewInv, WireTypes
<1>7. QED
  BY <1>1, <1>2, <1>3, <1>4, <1>5, <1>6 DEF ViewNext, allVars, viewVars

\* Whatever is copied, repeated or skipped, and however far either end gets
\* ahead: once something newer than the announced history is on a viewer's
\* screen, the picture never goes back (daemon.rs:243-246, 338-343).
THEOREM ScreenMovesForward == ViewSpec => ScreenAdvances
<1>1. ViewInit => ViewInv
  BY InitViewInv
<1>2. ViewInv /\ TypeOK' /\ [ViewNext]_allVars => ViewInv'
  BY ViewStepInv
<1>3. ViewInv /\ TypeOK' /\ [ViewNext]_allVars =>
        [\A c \in Clients :
           screen[c] > announced[c].hi /\ screen'[c] # 0
             => screen'[c] >= screen[c]]_allVars
  BY ViewStepInv
<1>4. QED
  BY <1>1, <1>2, <1>3, AttachTypeCorrect, PTL DEF ViewSpec, ScreenAdvances

-----------------------------------------------------------------------------
(* The count of announced lines.                                           *)

\* The number of the line a viewer reads next, as long as it is one of those
\* announced; the header counts as the one before them.
Due(c) == IF view[c] = "attaching" THEN announced[c].lo - 1
          ELSE announced[c].hi + 1 - remaining[c]

\* Counted from there, the announced lines are where they are expected, and
\* what follows the header are snapshots.
InPlace(line, due, lo, hi) ==
  \A i \in 1 .. Len(line) :
    /\ due + i - 1 \in lo .. hi => line[i] = due + i - 1
    /\ due + i - 1 >= lo => line[i] # Header

LEMMA AppendInPlace ==
  ASSUME NEW line \in Seq(Nat), NEW due \in Int, NEW lo \in Nat, NEW hi \in Nat,
         NEW n \in Nat, InPlace(line, due, lo, hi),
         due + Len(line) \in lo .. hi => n = due + Len(line),
         due + Len(line) >= lo => n # Header
  PROVE  InPlace(Append(line, n), due, lo, hi)
<1> DEFINE more == Append(line, n)
<1>1. /\ Len(more) = Len(line) + 1
      /\ \A i \in 1 .. Len(line) : more[i] = line[i]
      /\ more[Len(line) + 1] = n
      /\ Len(line) \in Nat
  BY AppendProperties, LenProperties
<1> HIDE DEF more
<1>2. ASSUME NEW i \in 1 .. Len(more)
      PROVE  /\ due + i - 1 \in lo .. hi => more[i] = due + i - 1
             /\ due + i - 1 >= lo => more[i] # Header
  <2>1. CASE i \in 1 .. Len(line)
    BY <1>1, <2>1 DEF InPlace
  <2>2. CASE i = Len(line) + 1
    BY <1>1, <2>2
  <2>3. QED
    BY <1>1, <2>1, <2>2
<1>3. QED
  BY <1>2 DEF InPlace, more

LEMMA TakeInPlace ==
  ASSUME NEW line \in Seq(Nat), NEW due \in Int, NEW lo \in Nat, NEW hi \in Nat,
         InPlace(line, due, lo, hi), line # <<>>
  PROVE  /\ InPlace(Tail(line), due + 1, lo, hi)
         /\ due > hi /\ due >= lo => InPlace(Tail(line), due, lo, hi)
         /\ due \in lo .. hi => Head(line) = due
         /\ due >= lo => Head(line) # Header
         /\ Len(line) \in Nat \ {0} /\ Len(Tail(line)) = Len(line) - 1
<1> DEFINE rest == Tail(line)
<1>1. /\ Head(line) = line[1]
      /\ Len(line) \in Nat \ {0}
      /\ Len(rest) = Len(line) - 1
      /\ \A i \in 1 .. Len(rest) : rest[i] = line[i + 1]
  BY HeadTailProperties, LenProperties, EmptySeq
<1> HIDE DEF rest
<1>2. ASSUME NEW i \in 1 .. Len(rest)
      PROVE  /\ rest[i] = line[i + 1]
             /\ due + i \in lo .. hi => line[i + 1] = due + i
             /\ due + i >= lo => line[i + 1] # Header
  <2>1. i + 1 \in 1 .. Len(line) /\ due + (i + 1) - 1 = due + i
    BY <1>1
  <2>2. QED
    BY <1>1, <2>1 DEF InPlace
<1>3. InPlace(rest, due + 1, lo, hi)
  <2>1. \A i \in 1 .. Len(rest) : (due + 1) + i - 1 = due + i
    BY <1>1
  <2>2. QED
    BY <1>2, <2>1 DEF InPlace
<1>4. due > hi /\ due >= lo => InPlace(rest, due, lo, hi)
  <2>1. ASSUME due > hi, due >= lo, NEW i \in 1 .. Len(rest)
        PROVE  due + i - 1 \notin lo .. hi /\ due + i >= lo
    BY <1>1, <2>1
  <2>2. QED
    BY <1>2, <2>1 DEF InPlace
<1>5. /\ due \in lo .. hi => line[1] = due
      /\ due >= lo => line[1] # Header
  <2>1. 1 \in 1 .. Len(line) /\ due + 1 - 1 = due
    BY <1>1
  <2>2. QED
    BY <2>1 DEF InPlace
<1>6. QED
  BY <1>1, <1>3, <1>4, <1>5 DEF rest

LEMMA CutInPlace ==
  ASSUME NEW line \in Seq(Nat), NEW due \in Int, NEW lo \in Nat, NEW hi \in Nat,
         NEW k \in Nat \ {0}, InPlace(line, due, lo, hi), Len(line) = k
  PROVE  InPlace(SubSeq(line, 1, k - 1), due, lo, hi)
<1> DEFINE less == SubSeq(line, 1, k - 1)
<1>1. /\ Len(less) = k - 1
      /\ \A i \in 1 .. k - 1 : less[i] = line[i]
  <2>1. \A i \in 1 .. k - 1 : line[i] \in Nat
    BY ElementOfSeq
  <2>2. QED
    BY <2>1, SubSeqProperties
<1> HIDE DEF less
<1>2. QED
  BY <1>1 DEF InPlace, less

\* A viewer and the task that serves it agree on the count: what it still
\* awaits of the history is in the socket or about to be written, unless the
\* connection ended; and nothing is on the screen before the last of it is read.
Counted(c) ==
  /\ announced[c].lo \in 1 .. announced[c].hi + 1
  /\ view[c] # "out" =>
       /\ stage[c] \in {"connected", "subscribed"} => view[c] = "attaching"
       /\ stage[c] = "replay" => /\ replay[c].lo = Due(c) + Len(pipe[c])
                                 /\ replay[c].lo <= announced[c].hi + 1
       /\ stage[c] = "live" => Due(c) + Len(pipe[c]) > announced[c].hi
       /\ view[c] = "attaching" => screen[c] = 0
       /\ view[c] # "attaching" =>
            /\ remaining[c] <= announced[c].hi + 1 - announced[c].lo
            /\ /\ screen[c] = 0
               /\ announced[c].lo <= announced[c].hi
               /\ announced[c].hi \notin Garbled
               => remaining[c] # 0
       /\ InPlace(pipe[c], Due(c), announced[c].lo, announced[c].hi)

CountInv == ViewInv /\ ViewTypeOK /\ \A c \in Clients : Counted(c)

Untouched(c) == Unmoved(c) /\ view'[c] = view[c] /\ remaining'[c] = remaining[c]

LEMMA UntouchedCounted ==
  ASSUME NEW c \in Clients, Counted(c), Untouched(c)
  PROVE  Counted(c)'
BY DEF Counted, Untouched, Unmoved, Due, InPlace

LEMMA InitCounted == ViewInit => ViewTypeOK /\ \A c \in Clients : Counted(c)
<1> SUFFICES ASSUME ViewInit PROVE ViewTypeOK /\ \A c \in Clients : Counted(c)
  OBVIOUS
<1>1. ViewTypeOK
  <2>1. TypeOK
    BY InitViewInv DEF ViewInv
  <2>2. <<>> \in Seq(Snapshots \cup {Header}) /\ MaxSnapshots \in Nat
    BY EmptySeq, AttachAssumption DEF AttachAssumption
  <2>3. QED
    BY <2>1, <2>2 DEF ViewInit, ViewTypeOK, Views
<1>2. ASSUME NEW c \in Clients PROVE Counted(c)
  <2>1. view[c] = "out" /\ announced[c] = [lo |-> 1, hi |-> 0]
    BY <1>2 DEF ViewInit
  <2>2. QED
    BY <2>1 DEF Counted
<1>3. QED
  BY <1>1, <1>2

\* What the daemon writes is announced, or comes after everything that was.
LEMMA ServerCounted ==
  ASSUME CountInv, NEW c \in Clients, TypeOK', Serving(c)
  PROVE  ViewTypeOK' /\ \A d \in Clients : Counted(d)'
<1> DEFINE lo == announced[c].lo
           hi == announced[c].hi
<1>0. pipe[c] \in Seq(Nat) /\ pipe[c] \in Seq(Snapshots \cup {Header})
  BY DEF CountInv, ViewTypeOK, ViewInv, WireTypes
<1>1. /\ lo \in Nat /\ hi \in Nat /\ remaining[c] \in Nat /\ screen[c] \in Nat
      /\ Len(pipe[c]) \in Nat /\ Due(c) \in Int
      /\ oldest \in Nat \ {0} /\ newest \in 0 .. MaxSnapshots /\ oldest <= newest + 1
      /\ MaxSnapshots \in Nat
  <2>1. MaxSnapshots \in Nat
    BY AttachAssumption DEF AttachAssumption
  <2>2. lo \in Nat /\ hi \in Nat /\ screen[c] \in Nat
    BY DEF CountInv, ViewInv, WireTypes
  <2>3. remaining[c] \in 0 .. MaxSnapshots
    BY DEF CountInv, ViewTypeOK
  <2>4. oldest \in Nat \ {0} /\ newest \in 0 .. MaxSnapshots /\ oldest <= newest + 1
    BY DEF CountInv, ViewInv, TypeOK
  <2>5. Len(pipe[c]) \in Nat
    BY <1>0, LenProperties
  <2>6. lo - 1 \in Int /\ hi + 1 - remaining[c] \in Int /\ remaining[c] \in Nat
    BY <2>1, <2>2, <2>3
  <2>7. Due(c) \in Int
    BY <2>6 DEF Due
  <2>8. QED
    BY <2>1, <2>2, <2>4, <2>5, <2>6, <2>7
<1>2. Counted(c) /\ OnTheWay(c) /\ TypeOK
  BY DEF CountInv, ViewInv
<1>counted. view[c] # "out" =>
        /\ stage[c] = "replay" => replay[c].lo = Due(c) + Len(pipe[c])
        /\ stage[c] = "live" => Due(c) + Len(pipe[c]) > hi
        /\ InPlace(pipe[c], Due(c), lo, hi)
  BY <1>2 DEF Counted
<1>3. CASE (Subscribe(c) \/ GoLive(c) \/ Lag(c)) /\ UNCHANGED viewVars
  <2>1. \A d \in Clients \ {c} : Untouched(d)
    BY <1>3 DEF Untouched, Unmoved, Subscribe, GoLive, Lag, Goto, CountInv, ViewInv, TypeOK,
                viewVars
  <2>2. ViewTypeOK'
    BY <1>3 DEF CountInv, ViewTypeOK, viewVars
  <2>3. /\ UNCHANGED <<announced[c], view[c], remaining[c], screen[c], pipe[c], replay[c]>>
        /\ Due(c)' = Due(c)
    BY <1>3 DEF viewVars, Due, Subscribe, GoLive, Lag
  <2>4. CASE Subscribe(c)
    <3>1. stage[c] = "connected" /\ stage'[c] = "subscribed"
      BY <1>2, <2>4 DEF Subscribe, Goto, TypeOK
    <3>2. Counted(c)'
      BY <1>2, <2>3, <3>1 DEF Counted, InPlace
    <3>3. QED
      BY <2>1, <2>2, <3>2, UntouchedCounted DEF CountInv
  <2>5. CASE GoLive(c)
    <3>1. /\ stage[c] = "replay" /\ stage'[c] = "live" /\ replay[c].lo > replay[c].hi
          /\ replay[c].hi = hi
      BY <1>2, <2>5 DEF GoLive, Goto, TypeOK, OnTheWay
    <3>2. Counted(c)'
      BY <1>1, <1>2, <2>3, <3>1 DEF Counted, InPlace
    <3>3. QED
      BY <2>1, <2>2, <3>2, UntouchedCounted DEF CountInv
  <2>6. CASE Lag(c)
    <3>1. stage[c] = "live" /\ stage'[c] = "live"
      BY <2>6 DEF Lag
    <3>2. Counted(c)'
      BY <1>2, <2>3, <3>1 DEF Counted, InPlace
    <3>3. QED
      BY <2>1, <2>2, <3>2, UntouchedCounted DEF CountInv
  <2>7. QED
    BY <1>3, <2>4, <2>5, <2>6
<1>4. CASE WriteHeader(c)
  <2>1. \A d \in Clients \ {c} : Untouched(d)
    BY <1>4 DEF Untouched, Unmoved, WriteHeader, Written, CopyHistory, Goto, CountInv, ViewInv,
                TypeOK, WireTypes
  <2>2. /\ pipe[c] = <<>> /\ screen[c] = 0 /\ view[c] = "attaching"
        /\ UNCHANGED <<view, remaining, seen, screen>>
        /\ stage'[c] = "replay"
    <3>1. stage[c] = "subscribed" /\ stage'[c] = "replay" /\ view[c] # "out"
      BY <1>2, <1>4 DEF WriteHeader, CopyHistory, Goto, Written, Writable, TypeOK
    <3>2. QED
      BY <1>2, <1>4, <3>1 DEF WriteHeader, OnTheWay, Counted
  <2>3. /\ announced'[c] = [lo |-> oldest, hi |-> newest]
        /\ replay'[c] = announced'[c]
        /\ pipe'[c] = Append(<<>>, Header)
    BY <1>4, <2>2
    DEF WriteHeader, CopyHistory, Written, CountInv, ViewInv, WireTypes, TypeOK
  <2>4. /\ Append(<<>>, Header) \in Seq(Snapshots \cup {Header})
        /\ Len(Append(<<>>, Header)) = 1 /\ Len(<<>>) = 0
        /\ <<>> \in Seq(Nat)
    BY EmptySeq, AppendProperties
  <2>5. ViewTypeOK'
    BY <1>1, <1>4, <2>2, <2>3, <2>4
    DEF CountInv, ViewTypeOK, WriteHeader, Written
  <2>6. Due(c)' = oldest - 1
    BY <2>2, <2>3 DEF Due
  <2>7. InPlace(Append(<<>>, Header), oldest - 1, oldest, newest)
    <3>1. InPlace(<<>>, oldest - 1, oldest, newest)
      BY <2>4 DEF InPlace
    <3>2. oldest - 1 \in Int /\ oldest \in Nat /\ newest \in Nat /\ Header \in Nat
      BY <1>1 DEF Header
    <3>3. /\ oldest - 1 + Len(<<>>) \in oldest .. newest => Header = oldest - 1 + Len(<<>>)
          /\ oldest - 1 + Len(<<>>) >= oldest => Header # Header
      BY <1>1, <2>4
    <3>4. QED
      BY ONLY <2>4, <3>1, <3>2, <3>3, AppendInPlace
  <2>8. Counted(c)'
    BY <1>1, <2>2, <2>3, <2>4, <2>6, <2>7 DEF Counted
  <2>9. QED
    BY <2>1, <2>5, <2>8, UntouchedCounted DEF CountInv
<1>5. ASSUME NEW n \in Snapshots,
             pipe' = [pipe EXCEPT ![c] = Append(@, n)],
             UNCHANGED <<announced, view, remaining, seen, screen>>,
             stage' = stage, view[c] # "out",
             \A d \in Clients \ {c} : next'[d] = next[d] /\ replay'[d] = replay[d],
             \/ /\ stage[c] = "replay" /\ n = replay[c].lo /\ replay[c].lo <= hi
                /\ replay'[c].lo = replay[c].lo + 1
             \/ stage[c] = "live"
      PROVE  ViewTypeOK' /\ \A d \in Clients : Counted(d)'
  <2>1. \A d \in Clients \ {c} : Untouched(d)
    BY <1>5 DEF Untouched, Unmoved, CountInv, ViewInv, WireTypes
  <2>2. /\ pipe'[c] = Append(pipe[c], n)
        /\ Append(pipe[c], n) \in Seq(Snapshots \cup {Header})
        /\ Len(Append(pipe[c], n)) = Len(pipe[c]) + 1
        /\ n \in Nat /\ n # Header
    <3>1. n \in Nat /\ n # Header
      BY <1>1 DEF Snapshots, Header
    <3>2. pipe'[c] = Append(pipe[c], n)
      BY <1>5 DEF CountInv, ViewInv, WireTypes
    <3>3. n \in Snapshots \cup {Header}
      OBVIOUS
    <3>4. QED
      BY <1>0, <3>1, <3>2, <3>3, AppendProperties
  <2>3. ViewTypeOK'
    BY <1>5, <2>2 DEF CountInv, ViewTypeOK
  <2>4. Due(c)' = Due(c) /\ announced'[c] = announced[c]
    BY <1>5 DEF Due
  <2>5. InPlace(Append(pipe[c], n), Due(c), lo, hi)
    <3>1. InPlace(pipe[c], Due(c), lo, hi)
      BY <1>2, <1>5 DEF Counted
    <3>2. Due(c) + Len(pipe[c]) \in lo .. hi => n = Due(c) + Len(pipe[c])
      BY <1>1, <1>2, <1>5 DEF Counted
    <3>3. QED
      BY <1>0, <1>1, <2>2, <3>1, <3>2, AppendInPlace
  <2>6. Counted(c)'
    <3> HIDE DEF lo, hi
    <3>4. stage'[c] = stage[c] /\ Len(pipe'[c]) = Len(pipe[c]) + 1 /\ Due(c)' = Due(c)
      BY <1>5, <2>2, <2>4
    <3>1. stage'[c] = "replay" => /\ replay'[c].lo = Due(c)' + Len(pipe'[c])
                                  /\ replay'[c].lo <= hi + 1
      <4>1. stage'[c] = "replay" => /\ replay[c].lo = Due(c) + Len(pipe[c])
                                    /\ replay'[c].lo = replay[c].lo + 1
                                    /\ replay[c].lo <= hi
        BY <1>5, <1>counted, <3>4
      <4>2. QED
        BY <1>1, <3>4, <4>1
    <3>2. stage'[c] = "live" => Due(c)' + Len(pipe'[c]) > hi
      BY <1>1, <1>5, <1>counted, <3>4
    <3>3. QED
      BY <1>2, <1>5, <2>2, <2>4, <2>5, <3>1, <3>2 DEF Counted, lo, hi
  <2>7. QED
    BY <2>1, <2>3, <2>6, UntouchedCounted DEF CountInv
<1>6. CASE WriteBuffered(c)
  <2>1. /\ replay[c].lo \in Snapshots /\ replay[c].lo <= hi
        /\ replay'[c].lo = replay[c].lo + 1
        /\ stage[c] = "replay" /\ stage' = stage
        /\ \A d \in Clients \ {c} : next'[d] = next[d] /\ replay'[d] = replay[d]
    <3>1. /\ stage[c] = "replay" /\ stage' = stage /\ next' = next
          /\ replay[c].lo <= replay[c].hi
          /\ replay' = [replay EXCEPT ![c].lo = @ + 1]
      BY <1>6 DEF WriteBuffered, Replay
    <3>2. /\ replay \in [Clients -> [lo : Nat \ {0}, hi : 0 .. MaxSnapshots]]
          /\ replay[c].hi = hi
      BY <1>2, <3>1 DEF TypeOK, OnTheWay
    <3>3. /\ replay'[c].lo = replay[c].lo + 1
          /\ \A d \in Clients \ {c} : replay'[d] = replay[d]
      BY ONLY <3>1, <3>2, c \in Clients
    <3>4. replay[c].lo \in Nat \ {0} /\ replay[c].hi \in 0 .. MaxSnapshots
      BY <3>2
    <3>5. QED
      BY <1>1, <3>1, <3>2, <3>3, <3>4 DEF Snapshots
  <2>2. /\ pipe' = [pipe EXCEPT ![c] = Append(@, replay[c].lo)] /\ view[c] # "out"
        /\ UNCHANGED <<announced, view, remaining, seen, screen>>
    BY <1>6 DEF WriteBuffered, Written, Writable
  <2>3. QED
    BY <1>5, <2>1, <2>2
<1>7. CASE WriteLive(c)
  <2>1. /\ next[c] \in Snapshots /\ stage[c] = "live" /\ stage' = stage
        /\ \A d \in Clients \ {c} : next'[d] = next[d] /\ replay'[d] = replay[d]
    BY <1>2, <1>7, AttachAssumption DEF WriteLive, Receive, TypeOK, Snapshots, AttachAssumption
  <2>2. /\ pipe' = [pipe EXCEPT ![c] = Append(@, next[c])] /\ view[c] # "out"
        /\ UNCHANGED <<announced, view, remaining, seen, screen>>
    BY <1>7 DEF WriteLive, Written, Writable
  <2>3. QED
    BY <1>5, <2>1, <2>2
<1>8. QED
  BY <1>3, <1>4, <1>6, <1>7 DEF Serving

\* A connection that ends, or a new one.
LEMMA ConnectionCounted ==
  ASSUME CountInv, NEW c \in Clients, TypeOK', HangUp(c) \/ Join(c)
  PROVE  ViewTypeOK' /\ \A d \in Clients : Counted(d)'
<1>1. /\ pipe[c] \in Seq(Nat) /\ pipe[c] \in Seq(Snapshots \cup {Header})
      /\ announced[c].lo \in Nat /\ announced[c].hi \in Nat /\ remaining[c] \in Nat
      /\ Due(c) \in Int /\ MaxSnapshots \in Nat
  BY AttachAssumption
  DEF AttachAssumption, CountInv, ViewTypeOK, ViewInv, WireTypes, Due
<1>2. CASE HangUp(c)
  <2>1. /\ \A d \in Clients \ {c} : Untouched(d)
        /\ stage'[c] = "away"
        /\ UNCHANGED <<announced, view, remaining, seen, screen>>
    <3>1. /\ UNCHANGED <<announced, view, remaining, seen, screen>>
          /\ \A d \in Clients \ {c} : pipe'[d] = pipe[d]
      BY <1>2 DEF HangUp, CountInv, ViewInv, WireTypes
    <3>2. /\ stage'[c] = "away"
          /\ \A d \in Clients \ {c} :
               stage'[d] = stage[d] /\ next'[d] = next[d] /\ replay'[d] = replay[d]
      BY <1>2 DEF HangUp, Leave, Goto, CountInv, ViewInv, TypeOK
    <3>3. QED
      BY <3>1, <3>2 DEF Untouched, Unmoved
  <2>2. /\ pipe'[c] \in Seq(Snapshots \cup {Header})
        /\ \A due \in Int, lo, hi \in Nat :
             InPlace(pipe[c], due, lo, hi) => InPlace(pipe'[c], due, lo, hi)
        /\ pipe' = [pipe EXCEPT ![c] = pipe'[c]]
    <3>1. CASE UNCHANGED pipe
      BY <1>1, <3>1 DEF CountInv, ViewInv, WireTypes
    <3>2. CASE /\ Len(pipe[c]) = PipeCapacity
               /\ pipe' = [pipe EXCEPT ![c] = SubSeq(@, 1, PipeCapacity - 1)]
      <4>1. pipe'[c] = SubSeq(pipe[c], 1, PipeCapacity - 1) /\ PipeCapacity \in Nat \ {0}
        BY <3>2, ViewerAssumption DEF ViewerAssumption, CountInv, ViewInv, WireTypes
      <4>2. \A i \in 1 .. PipeCapacity - 1 : pipe[c][i] \in Snapshots \cup {Header}
        BY <1>1, <3>2, <4>1, ElementOfSeq
      <4>3. pipe'[c] \in Seq(Snapshots \cup {Header})
        BY <4>1, <4>2, SubSeqProperties
      <4>4. \A due \in Int, lo, hi \in Nat :
              InPlace(pipe[c], due, lo, hi) => InPlace(pipe'[c], due, lo, hi)
        <5>1. pipe[c] \in Seq(Nat)
          BY <1>1
        <5>2. QED
          BY ONLY <3>2, <4>1, <5>1, CutInPlace
      <4>5. pipe' = [pipe EXCEPT ![c] = pipe'[c]]
        BY <3>2, <4>1
      <4>6. QED
        BY <4>3, <4>4, <4>5
    <3>3. QED
      BY <1>2, <3>1, <3>2 DEF HangUp
  <2>3. ViewTypeOK'
    BY <2>1, <2>2 DEF CountInv, ViewTypeOK
  <2>4. Counted(c)'
    <3>1. Due(c)' = Due(c)
      BY <2>1 DEF Due
    <3>2. Counted(c)
      BY DEF CountInv
    <3>3. QED
      BY <1>1, <2>1, <2>2, <3>1, <3>2 DEF Counted
  <2>5. QED
    BY <2>1, <2>3, <2>4, UntouchedCounted DEF CountInv
<1>3. CASE Join(c)
  <2>1. \A d \in Clients \ {c} : Untouched(d)
    BY <1>3 DEF Untouched, Unmoved, Join, Connect, Goto, CountInv, ViewInv, TypeOK,
                WireTypes, ViewTypeOK
  <2>2. /\ stage'[c] = "connected" /\ view'[c] = "attaching" /\ screen'[c] = 0
        /\ pipe'[c] = <<>> /\ announced'[c] = [lo |-> 1, hi |-> 0]
    BY <1>3 DEF Join, Connect, Goto, CountInv, ViewInv, TypeOK, WireTypes, ViewTypeOK
  <2>3. ViewTypeOK'
    <3>1. <<>> \in Seq(Snapshots \cup {Header})
      BY EmptySeq
    <3>2. QED
      BY <1>1, <1>3, <3>1 DEF Join, CountInv, ViewTypeOK, Views
  <2>4. Counted(c)'
    <3>1. Len(<<>>) = 0
      BY EmptySeq
    <3>2. QED
      BY <2>2, <3>1 DEF Counted, InPlace
  <2>5. QED
    BY <2>1, <2>3, <2>4, UntouchedCounted DEF CountInv
<1>4. QED
  BY <1>2, <1>3

\* Each line read is one announced line less, and the picture that appears is
\* that of the last of them.
LEMMA ViewerCounted ==
  ASSUME CountInv, NEW c \in Clients, TypeOK', Viewing(c) \/ Quit(c)
  PROVE  /\ ViewTypeOK' /\ \A d \in Clients : Counted(d)'
         /\ /\ screen[c] = 0 /\ screen'[c] # 0
            /\ announced[c].lo <= announced[c].hi
            /\ announced[c].hi \notin Garbled
            => screen'[c] = announced[c].hi
         /\ \A d \in Clients \ {c} : screen'[d] = screen[d]
<1> DEFINE lo == announced[c].lo
           hi == announced[c].hi
           left == remaining[c]
<1>0. /\ pipe[c] \in Seq(Nat) /\ pipe[c] \in Seq(Snapshots \cup {Header})
      /\ Header \notin Snapshots
  BY DEF CountInv, ViewTypeOK, ViewInv, WireTypes, Header, Snapshots
<1>1. /\ lo \in Nat \ {0} /\ hi \in 0 .. MaxSnapshots /\ left \in 0 .. MaxSnapshots
      /\ screen[c] \in 0 .. MaxSnapshots /\ MaxSnapshots \in Nat /\ lo <= hi + 1
      /\ lo - 1 \in Int /\ hi + 1 - left \in Int /\ hi + 1 - lo \in 0 .. MaxSnapshots
  <2>1. MaxSnapshots \in Nat
    BY AttachAssumption DEF AttachAssumption
  <2>2. /\ lo \in Nat \ {0} /\ hi \in 0 .. MaxSnapshots /\ left \in 0 .. MaxSnapshots
        /\ screen[c] \in 0 .. MaxSnapshots
    BY DEF CountInv, ViewTypeOK
  <2>3. lo \in 1 .. hi + 1
    BY DEF CountInv, Counted
  <2> HIDE DEF lo, hi, left
  <2>4. QED
    BY <2>1, <2>2, <2>3
<1>2. Counted(c) /\ OnTheWay(c) /\ ViewTypeOK
  BY DEF CountInv, ViewInv
<1>counted. view[c] # "out" =>
        /\ stage[c] \in {"connected", "subscribed"} => view[c] = "attaching"
        /\ stage[c] = "replay" => replay[c].lo = Due(c) + Len(pipe[c]) /\ replay[c].lo <= hi + 1
        /\ stage[c] = "live" => Due(c) + Len(pipe[c]) > hi
        /\ view[c] = "attaching" => screen[c] = 0 /\ Due(c) = lo - 1
        /\ view[c] # "attaching" =>
             /\ left <= hi + 1 - lo /\ Due(c) = hi + 1 - left
             /\ screen[c] = 0 /\ lo <= hi /\ hi \notin Garbled => left # 0
        /\ InPlace(pipe[c], Due(c), lo, hi)
  BY <1>2 DEF Counted, Due
<1>keeps. ASSUME announced'[c] = announced[c], view'[c] # "out", view'[c] # "attaching",
             remaining'[c] <= hi + 1 - lo,
             screen'[c] = 0 /\ lo <= hi /\ hi \notin Garbled => remaining'[c] # 0,
             stage'[c] \notin {"connected", "subscribed"},
             stage'[c] = "replay" => /\ replay'[c].lo = Due(c)' + Len(pipe'[c])
                                     /\ replay'[c].lo <= hi + 1,
             stage'[c] = "live" => Due(c)' + Len(pipe'[c]) > hi,
             InPlace(pipe'[c], Due(c)', lo, hi)
      PROVE  Counted(c)'
  BY <1>2, <1>keeps DEF Counted
<1>due. ASSUME announced'[c] = announced[c], view'[c] # "attaching"
      PROVE  Due(c)' = hi + 1 - remaining'[c]
  BY <1>due DEF Due
<1> HIDE DEF lo, hi, left
<1>3. CASE Eof(c) \/ Quit(c)
  <2>1. /\ view' = [view EXCEPT ![c] = "out"]
        /\ UNCHANGED <<vars, pipe, announced, remaining, seen, screen>>
    BY <1>3 DEF Eof, Quit, Out
  <2>2. \A d \in Clients \ {c} : Untouched(d)
    BY <1>2, <2>1 DEF Untouched, Unmoved, vars, ViewTypeOK
  <2>3. ViewTypeOK'
    BY <1>2, <2>1 DEF ViewTypeOK, Views
  <2>4. Counted(c)'
    BY <1>2, <2>1 DEF Counted, ViewTypeOK
  <2>5. QED
    BY <2>1, <2>2, <2>3, <2>4, UntouchedCounted DEF CountInv
<1>4. CASE ReadHeader(c)
  <2>1. /\ view[c] = "attaching" /\ pipe[c] # <<>>
        /\ pipe' = [pipe EXCEPT ![c] = Tail(@)]
        /\ remaining' = [remaining EXCEPT ![c] = hi + 1 - lo]
        /\ view' = [view EXCEPT ![c] = "replaying"] \/ view' = [view EXCEPT ![c] = "following"]
        /\ UNCHANGED <<vars, announced, seen, screen>>
    BY <1>4 DEF ReadHeader, lo, hi
  <2>read. /\ pipe'[c] = Tail(pipe[c]) /\ remaining'[c] = hi + 1 - lo
         /\ view'[c] # "out" /\ view'[c] # "attaching"
    BY <1>2, <2>1 DEF ViewTypeOK
  <2>2. \A d \in Clients \ {c} : Untouched(d)
    BY <1>2, <2>1 DEF Untouched, Unmoved, vars, ViewTypeOK
  <2>3. Tail(pipe[c]) \in Seq(Snapshots \cup {Header})
    BY <1>0, <2>1, HeadTailProperties
  <2>4. ViewTypeOK'
    BY <1>1, <1>2, <2>1, <2>3 DEF ViewTypeOK, Views, vars
  <2>5. Due(c) = lo - 1 /\ Due(c)' = lo /\ Due(c) + 1 = lo
    <3>1. Due(c)' = hi + 1 - (hi + 1 - lo)
      BY <1>due, <2>1, <2>read
    <3>2. lo \in Nat /\ hi \in Nat
      BY <1>1
    <3>3. Due(c) = lo - 1
      BY <1>counted, <2>1
    <3>4. QED
      BY <3>1, <3>2, <3>3
  <2>6. /\ InPlace(Tail(pipe[c]), lo, lo, hi)
        /\ Len(pipe[c]) \in Nat \ {0} /\ Len(Tail(pipe[c])) = Len(pipe[c]) - 1
    <3>1. InPlace(pipe[c], lo - 1, lo, hi)
      BY <1>counted, <2>1, <2>5
    <3>2. lo - 1 \in Int /\ lo \in Nat /\ hi \in Nat /\ (lo - 1) + 1 = lo
      BY <1>1
    <3>3. InPlace(Tail(pipe[c]), (lo - 1) + 1, lo, hi)
      BY <1>0, <2>1, <3>1, <3>2, TakeInPlace
    <3>4. QED
      BY <1>0, <2>1, <3>1, <3>2, <3>3, TakeInPlace
  <2>7. stage[c] \notin {"connected", "subscribed"}
    BY <1>2, <2>1 DEF OnTheWay
  <2>8. Counted(c)'
    <3>1. /\ stage'[c] = stage[c] /\ replay'[c] = replay[c] /\ announced'[c] = announced[c]
          /\ screen'[c] = screen[c]
      BY <2>1 DEF vars
    <3>2. Due(c)' + Len(pipe'[c]) = Due(c) + Len(pipe[c])
      BY <1>1, <2>5, <2>6, <2>read
    <3>3. remaining'[c] <= hi + 1 - lo /\ (lo <= hi => remaining'[c] # 0)
      BY <1>1, <2>read
    <3>4. QED
      BY <1>counted, <1>keeps, <2>1, <2>5, <2>6, <2>7, <2>read, <3>1, <3>2, <3>3
  <2>9. QED
    BY <2>1, <2>2, <2>4, <2>8, UntouchedCounted DEF CountInv
<1>5. CASE Skip(c) \/ Absorb(c) \/ Show(c)
  <2>1. /\ view[c] \in {"replaying", "following"} /\ pipe[c] # <<>>
        /\ pipe' = [pipe EXCEPT ![c] = Tail(@)]
        /\ remaining' = [remaining EXCEPT ![c] = IF @ > 0 THEN @ - 1 ELSE 0]
        /\ UNCHANGED <<vars, announced>>
    BY <1>5 DEF Skip, Absorb, Show, NextLine
  <2>2. /\ pipe'[c] = Tail(pipe[c])
        /\ remaining'[c] = IF left > 0 THEN left - 1 ELSE 0
        /\ Due(c) = hi + 1 - left /\ left <= hi + 1 - lo
        /\ view[c] # "out" /\ view[c] # "attaching"
    BY <1>2, <1>counted, <2>1 DEF ViewTypeOK, left
  <2>3. /\ InPlace(Tail(pipe[c]), Due(c) + 1, lo, hi)
        /\ left = 0 => InPlace(Tail(pipe[c]), Due(c), lo, hi)
        /\ left > 0 => Head(pipe[c]) = Due(c)
        /\ Head(pipe[c]) # Header
        /\ Len(pipe[c]) \in Nat \ {0} /\ Len(Tail(pipe[c])) = Len(pipe[c]) - 1
    <3>1. InPlace(pipe[c], Due(c), lo, hi)
      BY <1>counted, <2>2
    <3>2. /\ Due(c) >= lo /\ (left = 0 => Due(c) > hi)
          /\ (left > 0 => Due(c) \in lo .. hi)
          /\ Due(c) \in Int /\ lo \in Nat /\ hi \in Nat
      BY <1>1, <2>2
    <3>3. /\ InPlace(Tail(pipe[c]), Due(c) + 1, lo, hi)
          /\ Due(c) > hi /\ Due(c) >= lo => InPlace(Tail(pipe[c]), Due(c), lo, hi)
          /\ Due(c) \in lo .. hi => Head(pipe[c]) = Due(c)
          /\ Due(c) >= lo => Head(pipe[c]) # Header
          /\ Len(pipe[c]) \in Nat \ {0} /\ Len(Tail(pipe[c])) = Len(pipe[c]) - 1
      BY ONLY <1>0, <2>1, <3>1, <3>2, TakeInPlace
    <3>4. QED
      BY <3>2, <3>3
  <2>4. /\ Head(pipe[c]) \in Snapshots
        /\ Tail(pipe[c]) \in Seq(Snapshots \cup {Header})
    <3>1. Head(pipe[c]) \in Snapshots \cup {Header}
      BY <1>0, <2>1, HeadTailProperties
    <3>2. QED
      BY <1>0, <2>1, <2>3, <3>1, HeadTailProperties
  <2>5. /\ \/ /\ view' = view
              /\ screen' = screen
              /\ left = 1 => Head(pipe[c]) \in Garbled
           \/ /\ view' = [view EXCEPT ![c] = "following"]
              /\ screen' = [screen EXCEPT ![c] = Head(pipe[c])]
              /\ left <= 1
        /\ seen' = seen \/ seen' = [seen EXCEPT ![c] = @ \cup {Head(pipe[c])}]
    <3>1. CASE Skip(c)
      BY <3>1 DEF Skip
    <3>2. CASE Absorb(c)
      BY <1>1, <2>2, <3>2 DEF Absorb, Record
    <3>3. CASE Show(c)
      BY <1>1, <2>2, <3>3 DEF Show, Record
    <3>4. QED
      BY <1>5, <3>1, <3>2, <3>3
  <2>6. ViewTypeOK'
    <3>1. /\ remaining' \in [Clients -> 0 .. MaxSnapshots]
          /\ pipe' \in [Clients -> Seq(Snapshots \cup {Header})]
          /\ announced' = announced
      <4>1. (IF left > 0 THEN left - 1 ELSE 0) \in 0 .. MaxSnapshots
        BY <1>1
      <4>2. QED
        BY <1>2, <2>1, <2>4, <4>1 DEF ViewTypeOK
    <3>2. /\ seen' \in [Clients -> SUBSET Snapshots]
          /\ view' \in [Clients -> Views]
          /\ screen' \in [Clients -> 0 .. MaxSnapshots]
      <4>1. Head(pipe[c]) \in 0 .. MaxSnapshots
        BY <1>1, <2>4 DEF Snapshots
      <4>2. QED
        <5>1. seen' \in [Clients -> SUBSET Snapshots]
          <6>1. seen \in [Clients -> SUBSET Snapshots]
            BY <1>2 DEF ViewTypeOK
          <6>2. seen' = seen \/ seen' = [seen EXCEPT ![c] = @ \cup {Head(pipe[c])}]
            BY <2>5
          <6>3. QED
            BY <2>4, <6>1, <6>2
        <5>2. view' \in [Clients -> Views]
          BY <1>2, <2>5 DEF ViewTypeOK, Views
        <5>3. screen' \in [Clients -> 0 .. MaxSnapshots]
          BY <1>2, <2>5, <4>1 DEF ViewTypeOK
        <5>4. QED
          BY <5>1, <5>2, <5>3
    <3>3. QED
      BY <1>2, <3>1, <3>2 DEF ViewTypeOK
  <2>7. \A d \in Clients \ {c} : Untouched(d)
    <3>1. \A d \in Clients \ {c} : /\ pipe'[d] = pipe[d] /\ remaining'[d] = remaining[d]
                                   /\ view'[d] = view[d] /\ screen'[d] = screen[d]
      BY <1>2, <2>1, <2>5 DEF ViewTypeOK
    <3>2. QED
      BY <2>1, <3>1 DEF Untouched, Unmoved, vars
  <2>8. \A d \in Clients \ {c} : screen'[d] = screen[d]
    BY <2>7 DEF Untouched, Unmoved
  <2>9. /\ view'[c] \in {"replaying", "following"}
        /\ \/ screen'[c] = screen[c] /\ (left = 1 => Head(pipe[c]) \in Garbled)
           \/ screen'[c] = Head(pipe[c]) /\ left <= 1
    BY <1>2, <2>1, <2>5 DEF ViewTypeOK
  <2>10. /\ screen[c] = 0 /\ screen'[c] # 0 /\ lo <= hi /\ hi \notin Garbled
         => screen'[c] = hi
    <3>1. SUFFICES ASSUME screen[c] = 0, screen'[c] # 0, lo <= hi, hi \notin Garbled
                   PROVE  screen'[c] = hi
      OBVIOUS
    <3>2. left # 0
      BY <1>counted, <2>2, <3>1
    <3>3. screen'[c] = Head(pipe[c]) /\ left <= 1
      BY <2>9, <3>1
    <3>4. left = 1
      BY <1>1, <3>2, <3>3
    <3>5. Head(pipe[c]) = hi + 1 - left
      BY <2>2, <2>3, <3>4
    <3>6. QED
      BY <1>1, <3>3, <3>4, <3>5
  <2>11. Counted(c)'
    <3>1. /\ stage'[c] = stage[c] /\ replay'[c] = replay[c] /\ announced'[c] = announced[c]
      BY <2>1 DEF vars
    <3>2. stage[c] \notin {"connected", "subscribed"}
      BY <1>2, <2>1 DEF OnTheWay
    <3>3. Due(c)' = IF left > 0 THEN Due(c) + 1 ELSE Due(c)
      <4>1. Due(c)' = hi + 1 - remaining'[c]
        BY <1>due, <2>9, <3>1
      <4>2. QED
        BY <1>1, <2>2, <4>1
    <3>4. InPlace(pipe'[c], Due(c)', lo, hi)
      <4>1. left = 0 \/ left > 0
        BY <1>1
      <4>2. QED
        BY <2>2, <2>3, <3>3, <4>1
    <3>5. ASSUME stage[c] = "replay"
          PROVE  replay[c].lo = Due(c)' + Len(pipe'[c]) /\ replay[c].lo <= hi + 1
      <4>1. replay[c].lo = Due(c) + Len(pipe[c]) /\ replay[c].lo <= hi + 1
        BY <1>counted, <2>2, <3>5
      <4>2. left > 0
        BY <1>1, <2>2, <2>3, <4>1
      <4>3. Len(pipe'[c]) = Len(pipe[c]) - 1 /\ Len(pipe[c]) \in Nat
        BY <2>2, <2>3
      <4>4. Due(c)' = Due(c) + 1 /\ Due(c) \in Int
        BY <1>1, <2>2, <3>3, <4>2
      <4>5. QED
        BY <4>1, <4>3, <4>4
    <3>6. ASSUME stage[c] = "live" PROVE Due(c)' + Len(pipe'[c]) > hi
      <4>1. Due(c) + Len(pipe[c]) > hi
        BY <1>counted, <2>2, <3>6
      <4>2. /\ Len(pipe'[c]) = Len(pipe[c]) - 1 /\ Len(pipe[c]) \in Nat \ {0}
            /\ Due(c) = hi + 1 - left
        BY <2>2, <2>3
      <4>3. Due(c) \in Int /\ hi \in Int /\ left \in Nat
        BY <1>1, <4>2
      <4>4. ASSUME NEW d \in Int, NEW n \in Nat, d + (n + 1) > hi
            PROVE  (d + 1) + n > hi
        BY <4>3, <4>4
      <4>5. ASSUME NEW n \in Nat PROVE (hi + 1) + n > hi
        BY <4>3
      <4>6. Len(pipe'[c]) \in Nat /\ Len(pipe[c]) = Len(pipe'[c]) + 1
        BY <4>2
      <4>7. CASE left > 0
        BY <3>3, <4>1, <4>3, <4>4, <4>6, <4>7
      <4>8. CASE left = 0
        <5>1. Due(c)' = hi + 1
          BY <3>3, <4>2, <4>3, <4>8
        <5>2. QED
          BY <4>5, <4>6, <5>1
      <4>9. QED
        BY <4>3, <4>7, <4>8
    <3>7. screen'[c] = 0 /\ lo <= hi /\ hi \notin Garbled => remaining'[c] # 0
      <4>1. Head(pipe[c]) # 0
        BY <2>3 DEF Header
      <4>2. SUFFICES ASSUME screen'[c] = 0, lo <= hi, hi \notin Garbled
                     PROVE  remaining'[c] # 0
        OBVIOUS
      <4>3. screen[c] = 0 /\ (left = 1 => Head(pipe[c]) \in Garbled)
        BY <2>9, <4>1, <4>2
      <4>4. left # 0
        BY <1>counted, <2>2, <4>2, <4>3
      <4>5. left = 1 => Head(pipe[c]) = hi
        BY <1>1, <2>2, <2>3
      <4>6. QED
        BY <1>1, <2>2, <4>2, <4>3, <4>4, <4>5
    <3>8. remaining'[c] <= hi + 1 - lo
      BY <1>1, <2>2
    <3>9. QED
      BY <1>keeps, <2>9, <3>1, <3>2, <3>4, <3>5, <3>6, <3>7, <3>8
  <2>12. QED
    BY <2>6, <2>7, <2>8, <2>10, <2>11, UntouchedCounted DEF CountInv, lo, hi
<1>6. QED
  BY <1>3, <1>4, <1>5 DEF Viewing

LEMMA CountStep ==
  ASSUME CountInv, TypeOK', [ViewNext]_allVars
  PROVE  /\ CountInv'
         /\ \A c \in Clients :
              /\ screen[c] = 0 /\ screen'[c] # 0
              /\ announced[c].lo <= announced[c].hi
              /\ announced[c].hi \notin Garbled
              => screen'[c] = announced[c].hi
<1>1. ViewInv'
  BY ViewStepInv DEF CountInv
<1>2. CASE UNCHANGED allVars
  <2>1. \A d \in Clients : Untouched(d)
    BY <1>2 DEF Untouched, Unmoved, vars, viewVars, allVars
  <2>2. QED
    BY <1>1, <1>2, <2>1, UntouchedCounted DEF CountInv, ViewTypeOK, allVars, viewVars, vars
<1>3. CASE Collecting
  <2>1. \A d \in Clients : Untouched(d)
    BY <1>3 DEF Untouched, Unmoved, Collecting, Push, Send, viewVars
  <2>2. QED
    BY <1>1, <1>3, <2>1, UntouchedCounted DEF CountInv, ViewTypeOK, Collecting, viewVars
<1>4. ASSUME NEW c \in Clients, Serving(c)
      PROVE  ViewTypeOK' /\ (\A d \in Clients : Counted(d)') /\ screen' = screen
  BY <1>4, ServerCounted DEF Serving, WriteHeader, WriteBuffered, WriteLive, viewVars
<1>5. ASSUME NEW c \in Clients, HangUp(c)
      PROVE  ViewTypeOK' /\ (\A d \in Clients : Counted(d)') /\ screen' = screen
  BY <1>5, ConnectionCounted DEF HangUp
<1>6. ASSUME NEW c \in Clients, Join(c)
      PROVE  /\ ViewTypeOK' /\ \A d \in Clients : Counted(d)'
             /\ screen'[c] = 0 /\ \A d \in Clients \ {c} : screen'[d] = screen[d]
  BY <1>6, ConnectionCounted DEF Join, CountInv, ViewTypeOK
<1>7. ASSUME NEW c \in Clients, Viewing(c) \/ Quit(c)
      PROVE  /\ ViewTypeOK' /\ \A d \in Clients : Counted(d)'
             /\ \A d \in Clients :
                  /\ screen[d] = 0 /\ screen'[d] # 0
                  /\ announced[d].lo <= announced[d].hi
                  /\ announced[d].hi \notin Garbled
                  => screen'[d] = announced[d].hi
  BY <1>7, ViewerCounted
<1>8. QED
  BY <1>1, <1>2, <1>3, <1>4, <1>5, <1>6, <1>7 DEF ViewNext, CountInv

\* The types of the viewer's variables: no line but the header is anything else
\* than a snapshot, and no count of announced lines is negative.
THEOREM ViewerTypeCorrect == ViewSpec => []ViewTypeOK
<1>1. ViewInit => CountInv
  BY InitViewInv, InitCounted DEF CountInv
<1>2. CountInv /\ TypeOK' /\ [ViewNext]_allVars => CountInv'
  BY CountStep
<1>3. CountInv => ViewTypeOK
  BY DEF CountInv
<1>4. QED
  BY <1>1, <1>2, <1>3, AttachTypeCorrect, PTL DEF ViewSpec

\* What the daemon replays is not shown as if it were live: wherever the
\* connection is cut, and whatever is skipped on the way, the first picture is
\* the newest announced snapshot if the viewer can parse it (daemon.rs:296-312,
\* client.rs:80-94).
THEOREM FirstPictureIsNewest == ViewSpec => StartsAtNewest
<1>1. ViewInit => CountInv
  BY InitViewInv, InitCounted DEF CountInv
<1>2. CountInv /\ TypeOK' /\ [ViewNext]_allVars => CountInv'
  BY CountStep
<1>3. CountInv /\ TypeOK' /\ [ViewNext]_allVars =>
        [\A c \in Clients :
           /\ screen[c] = 0 /\ screen'[c] # 0
           /\ announced[c].lo <= announced[c].hi
           /\ announced[c].hi \notin Garbled
           => screen'[c] = announced[c].hi]_allVars
  BY CountStep
<1>4. QED
  BY <1>1, <1>2, <1>3, AttachTypeCorrect, PTL DEF ViewSpec, StartsAtNewest
=============================================================================
