---------------------------- MODULE SocketTable ----------------------------
(***************************************************************************)
(* The macOS socket table of listeners/pcblist.rs: a run of records per    *)
(* socket, a closing header, no version.  The parser must either read the  *)
(* sockets the kernel wrote or refuse the table.                           *)
(*                                                                         *)
(* A record is its kind and the socket it was written for.  The fields a   *)
(* socket is judged by are those of that socket: whether it is detached,   *)
(* has a port, listens, and who owns it.  A record's length is part of its *)
(* kind, as the parser looks at it first (pcblist.rs:239-263): any record  *)
(* of 24 bytes is "closing", whatever it was written as, and one of        *)
(* another length than its kind has is "bad".                              *)
(***************************************************************************)
EXTENDS Integers, Sequences, FiniteSets, Sums
Seqs == INSTANCE SequencesExt

\* The kinds that fill a slot of a run, each at most once, beside the buffer
\* records and the kinds the parser does not know, which it steps over.
Slots == {"socket", "stats", "tcpcb"}
NoRun == [none |-> TRUE]
NewRun(inpcb) == [inpcb |-> inpcb, slot |-> <<>>]
Failed == [at |-> "failed"]

\* classify and take: what a complete run contributes, or a refusal.  A
\* detached socket has no owner and no counters; a TCP socket with a port
\* cannot be judged without its tcpcb, nor an attached one without its stats.
Sound(run, tcp) ==
    /\ "socket" \in DOMAIN run.slot
    /\ ~run.slot["socket"].detached =>
         /\ tcp /\ run.inpcb.port # 0 => "tcpcb" \in DOMAIN run.slot
         /\ "stats" \in DOMAIN run.slot

Row(run, tcp) ==
    LET socket == run.slot["socket"] IN
    IF socket.detached THEN [owner |-> 0, bytes |-> 0, listens |-> FALSE, port |-> 0]
    ELSE [owner |-> socket.owner, bytes |-> run.slot["stats"].bytes, port |-> run.inpcb.port,
          listens |-> /\ run.inpcb.port # 0
                      /\ IF tcp THEN run.slot["tcpcb"].listens ELSE ~run.inpcb.connected]

\* A run that is over joins the rows already read.
Close(state, tcp) ==
    IF state.run = NoRun THEN [state EXCEPT !.at = "closed"]
    ELSE IF Sound(state.run, tcp)
      THEN [state EXCEPT !.rows = Append(@, Row(state.run, tcp)), !.run = NoRun, !.at = "closed"]
      ELSE Failed

Reopen(state, inpcb) ==
    IF state = Failed THEN Failed ELSE [state EXCEPT !.at = "open", !.run = NewRun(inpcb)]

Fill(run, r) ==
    [run EXCEPT !.slot = [k \in DOMAIN run.slot \cup {r.kind} |->
                            IF k = r.kind THEN r.of ELSE run.slot[k]]]

\* Mutant of Accept: a second record of a kind replaces the first.
AcceptAgain(state, r) ==
    IF state.run = NoRun THEN Failed ELSE [state EXCEPT !.run = Fill(@, r)]

\* A record for a slot: one before the first socket, or a second one of its
\* kind, is refused.
Accept(state, r) ==
    IF state.run = NoRun \/ r.kind \in DOMAIN state.run.slot THEN Failed
    ELSE [state EXCEPT !.run = Fill(@, r)]

\* parse: one record after the other up to the first one as long as a closing
\* header; what follows it is not read.
Step(tcp, state, r) ==
    CASE state.at # "open" -> state
      [] state.at = "open" /\ r.kind = "closing" -> Close(state, tcp)
      [] state.at = "open" /\ r.kind = "inpcb" -> Reopen(Close(state, tcp), r.of)
      [] state.at = "open" /\ r.kind \in Slots -> Accept(state, r)
      [] state.at = "open" /\ r.kind = "buffer" -> IF state.run = NoRun THEN Failed ELSE state
      [] state.at = "open" /\ r.kind = "unknown" -> state
      [] state.at = "open" /\ r.kind = "bad" -> Failed

Parse(table, tcp) ==
    LET step(state, r) == Step(tcp, state, r)
        end == Seqs!FoldLeft(step, [at |-> "open", run |-> NoRun, rows |-> <<>>], table)
    IN IF end.at = "closed" THEN [ok |-> TRUE, rows |-> end.rows]
                            ELSE [ok |-> FALSE, rows |-> <<>>]

\* shows_only: fewer sockets than the header counts, and none of another
\* process, is what a process without an application's identity is shown.
ShowsOnly(count, rows, own) ==
    /\ Len(rows) < count
    /\ \A i \in DOMAIN rows : rows[i].owner \in {0, own}

BytesOf(rows, pid) ==
    Sum({i \in DOMAIN rows : rows[i].owner = pid}, [i \in DOMAIN rows |-> rows[i].bytes])

\* read_tables: the TCP and the UDP table, each with its header's count.  One
\* that is refused refuses both.
ReadTables(read, own) ==
    LET parsed == [tcp \in BOOLEAN |-> Parse(read[tcp].table, tcp)] IN
    IF \E tcp \in BOOLEAN : ~parsed[tcp].ok THEN [ok |-> FALSE]
    ELSE [ok |-> TRUE,
          rows |-> parsed[TRUE].rows \o parsed[FALSE].rows,
          restricted |-> \E tcp \in BOOLEAN :
                           ShowsOnly(read[tcp].count, parsed[tcp].rows, own)]

-----------------------------------------------------------------------------
(* The kernel: the table of a sequence of sockets, and what may be wrong   *)
(* with a table of a layout that has moved.                                *)

Layout(tcp) == <<"inpcb", "socket", "buffer", "stats">> \o (IF tcp THEN <<"tcpcb">> ELSE <<>>)

Table(sockets, tcp) ==
    LET width == Len(Layout(tcp)) IN
    [p \in 1..Len(sockets) * width |->
        [kind |-> Layout(tcp)[((p - 1) % width) + 1], of |-> sockets[((p - 1) \div width) + 1]]]
       \o <<[kind |-> "closing"]>>

\* The sockets a process without an application's identity is shown: its own
\* and the detached ones.
OwnedBy(pid, socket) == socket.detached \/ socket.owner = pid
Shown(sockets, pid) ==
    Seqs!FoldLeft(LAMBDA shown, s : IF OwnedBy(pid, s) THEN Append(shown, s) ELSE shown,
                  <<>>, sockets)

\* One record missing, twice, of a wrong length other than 24 bytes, or in the
\* place of its neighbour.
Damaged(t) ==
    UNION {{Seqs!RemoveAt(t, i), Seqs!InsertAt(t, i, t[i]),
            [t EXCEPT ![i].kind = "bad"],
            IF i < Len(t) THEN [t EXCEPT ![i] = t[i + 1], ![i + 1] = t[i]] ELSE t}
           : i \in DOMAIN t}

\* One record of 24 bytes, the length of a closing header.
Ended(t) == {[t EXCEPT ![i].kind = "closing"] : i \in DOMAIN t}

Expected(sockets) ==
    [i \in DOMAIN sockets |->
        IF sockets[i].detached THEN [owner |-> 0, bytes |-> 0, listens |-> FALSE, port |-> 0]
        ELSE [owner |-> sockets[i].owner, bytes |-> sockets[i].bytes, port |-> sockets[i].port,
              listens |-> sockets[i].port # 0 /\ sockets[i].listens]]

\* A socket as the kernel may have it; over UDP it listens if not connected.
KernelSockets ==
    {s \in [detached : BOOLEAN, owner : {1, 2}, bytes : {5, 7}, port : {0, 80},
            listens : BOOLEAN, connected : BOOLEAN] :
        s.connected = ~s.listens /\ s.bytes = 3 + 2 * s.owner}

Tables == UNION {{<<a>>, <<a, b>>} : a, b \in KernelSockets}

\* Tables as the kernel writes them give every socket with its own owner,
\* counters and state, and with a record lost, doubled, moved or of a wrong
\* length in one of them both are refused or give the same rows.  The one
\* exception to "any mismatch refuses the whole table" (pcblist.rs:35) is a
\* length of 24, with which a record passes for the closing header: then the
\* sockets behind it may be missing, but still no row is of a wrong owner or
\* with the counters of another.  Tables that show one process only its own
\* sockets are told from full ones, unless every socket there is belongs to
\* it, and give that process all of its traffic.
ReadAsMeant(sockets, tcp) ==
    LET written(shown) == [t \in BOOLEAN |-> [table |-> Table(shown, t),
                                             count |-> Len(sockets)]]
        mine == ReadTables(written(Shown(sockets, 1)), 1)
        all == ReadTables(written(sockets), 1)
        with(t) == ReadTables([written(sockets) EXCEPT ![tcp].table = t], 1)
    IN
    /\ mine.ok
    /\ mine.restricted <=> \E i \in DOMAIN sockets : ~OwnedBy(1, sockets[i])
    /\ BytesOf(mine.rows, 1) = 2 * BytesOf(Expected(sockets), 1)
    /\ all = [ok |-> TRUE, rows |-> Expected(sockets) \o Expected(sockets),
              restricted |-> FALSE]
    /\ \A t \in Damaged(Table(sockets, tcp)) : with(t).ok => with(t).rows = all.rows
    /\ \A t \in Ended(Table(sockets, tcp)) :
         with(t).ok => \E m \in 0..Len(sockets) :
                         LET first == SubSeq(Expected(sockets), 1, m) IN
                         with(t).rows = IF tcp THEN first \o Expected(sockets)
                                               ELSE Expected(sockets) \o first

EveryTableReadAsMeant == \A sockets \in Tables, tcp \in BOOLEAN : ReadAsMeant(sockets, tcp)

=============================================================================
