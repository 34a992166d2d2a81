-------------------------------- MODULE Daemon --------------------------------
(***************************************************************************)
(* The life of `zstats serve` processes around their shared socket path    *)
(* (bin/zstats/daemon.rs, main.rs, client.rs), and of the `zstats stop`    *)
(* commands that end them.  The path is the only thing the processes       *)
(* share: a starting daemon looks at it, probes it, removes it when        *)
(* nobody answers and binds it again; a stopping one removes it, whoever   *)
(* it belongs to by then.  Each of these is a system call of its own.      *)
(***************************************************************************)
EXTENDS Naturals

CONSTANTS
  Daemons,     \* serve processes
  NoDaemon,    \* "no daemon": the path does not exist, no peer
  Clients,     \* zstats stop commands
  Operators    \* the ways of starting daemons that are considered

\* A daemon is started when every earlier one has exited; when zstats stop
\* has reported every earlier one as stopped; at any time.
AllOperators == {"exited", "stopped", "any"}

ASSUME DaemonAssumption ==
  /\ NoDaemon \notin Daemons
  /\ Operators \subseteq AllOperators

VARIABLES
  operator,    \* how daemons are started, fixed at the beginning
  stage,       \* where a serve process is
  socket,      \* the daemon that bound the file at socket_path()
  listening,   \* the daemon's listener is open
  notified,    \* the daemon's shutdown Notify has a permit
  client,      \* where a stop command is
  peer,        \* the daemon it is connected to
  handler      \* the daemon's end of the connection

daemonVars == <<operator, stage, socket, listening, notified, client, peer, handler>>
clients == <<client, peer>>

Starting == {"starting", "probing", "cleaning", "binding", "bound", "setup"}
Up == {"serving", "deaf"}
Stopping == {"stopping", "closing", "removed"}
Executing == Starting \cup Up \cup Stopping
Open == {"setup"} \cup Up \cup Stopping      \* has had its listener open
Stages == Executing \cup {"absent", "refused", "exited", "killed"}

ClientStages == {"idle", "connected", "sent", "stopped", "none", "error",
                 "gone"}
HandlerStages == {"none", "queued", "reading", "answered", "closed"}

DaemonInit ==
  /\ operator \in Operators
  /\ stage = [d \in Daemons |-> "absent"]
  /\ socket = NoDaemon
  /\ listening = [d \in Daemons |-> FALSE]
  /\ notified = [d \in Daemons |-> FALSE]
  /\ client = [c \in Clients |-> "idle"]
  /\ peer = [c \in Clients |-> NoDaemon]
  /\ handler = [c \in Clients |-> "none"]

-----------------------------------------------------------------------------
(* Starting.                                                               *)

DaemonGoto(d, s) == stage' = [stage EXCEPT ![d] = s]

\* A connect to socket_path() succeeds.
Reachable == socket # NoDaemon /\ listening[socket]

\* zstats stop has said that e is stopped.
ReportedStopped(e) == \E c \in Clients : client[c] = "stopped" /\ peer[c] = e

MayStart(d) ==
  /\ stage[d] = "absent"
  /\ \A e \in Daemons :
       stage[e] \in Executing =>
         \/ operator = "any"
         \/ operator = "stopped" /\ ReportedStopped(e)

\* zstats serve, or a live view that detaches: the parent probes and spawns
\* the daemon.
Launch(d) ==
  /\ MayStart(d)
  /\ DaemonGoto(d, IF Reachable THEN "refused" ELSE "starting")
  /\ UNCHANGED <<operator, socket, listening, notified, clients, handler>>

\* zstats serve --foreground.
Serve(d) ==
  /\ MayStart(d)
  /\ DaemonGoto(d, "starting")
  /\ UNCHANGED <<operator, socket, listening, notified, clients, handler>>

\* Mutant of CheckPath: a path that exists is not looked at.
CheckNothing(d) ==
  /\ stage[d] = "starting"
  /\ DaemonGoto(d, "binding")
  /\ UNCHANGED <<operator, socket, listening, notified, clients, handler>>

CheckPath(d) ==
  /\ stage[d] = "starting"
  /\ DaemonGoto(d, IF socket = NoDaemon THEN "binding" ELSE "probing")
  /\ UNCHANGED <<operator, socket, listening, notified, clients, handler>>

\* The connect tells a daemon that is running from a stale socket.
Probe(d) ==
  /\ stage[d] = "probing"
  /\ DaemonGoto(d, IF Reachable THEN "refused" ELSE "cleaning")
  /\ UNCHANGED <<operator, socket, listening, notified, clients, handler>>

CleanStale(d) ==
  /\ stage[d] = "cleaning"
  /\ DaemonGoto(d, "binding")
  /\ socket' = NoDaemon
  /\ UNCHANGED <<operator, listening, notified, clients, handler>>

\* UnixListener::bind creates the file, and fails when there is one ...
Bind(d) ==
  /\ stage[d] = "binding"
  /\ IF socket = NoDaemon
       THEN DaemonGoto(d, "bound") /\ socket' = d
       ELSE DaemonGoto(d, "refused") /\ UNCHANGED socket
  /\ UNCHANGED <<operator, listening, notified, clients, handler>>

\* ... and listens: only now a connect succeeds.
Listen(d) ==
  /\ stage[d] = "bound"
  /\ DaemonGoto(d, "setup")
  /\ listening' = [listening EXCEPT ![d] = TRUE]
  /\ UNCHANGED <<operator, socket, notified, clients, handler>>

\* Mutant of StartServing: the stale path is cleaned up only now.
StartServingCleans(d) ==
  /\ stage[d] = "setup"
  /\ DaemonGoto(d, "serving")
  /\ socket' = NoDaemon
  /\ UNCHANGED <<operator, listening, notified, clients, handler>>

\* The scheduler runs, the accept task is spawned, the select waits.
StartServing(d) ==
  /\ stage[d] = "setup"
  /\ DaemonGoto(d, "serving")
  /\ UNCHANGED <<operator, socket, listening, notified, clients, handler>>

-----------------------------------------------------------------------------
(* Stopping.                                                               *)

\* The listener is dropped, and with it the connections not yet accepted.
CloseListener(d) ==
  /\ listening' = [listening EXCEPT ![d] = FALSE]
  /\ handler' = [c \in Clients |->
       IF peer[c] = d /\ handler[c] = "queued" THEN "closed" ELSE handler[c]]

\* The process ends: every descriptor is closed.
CloseAll(d) ==
  /\ listening' = [listening EXCEPT ![d] = FALSE]
  /\ handler' = [c \in Clients |->
       IF peer[c] = d THEN "closed" ELSE handler[c]]

\* accept fails fatally: the accept task breaks, the daemon goes on.
AcceptFatal(d) ==
  /\ stage[d] = "serving"
  /\ DaemonGoto(d, "deaf")
  /\ CloseListener(d)
  /\ UNCHANGED <<operator, socket, notified, clients>>

Interrupt(d) ==
  /\ stage[d] \in Up
  /\ DaemonGoto(d, "stopping")
  /\ UNCHANGED <<operator, socket, listening, notified, clients, handler>>

StopNotified(d) ==
  /\ stage[d] \in Up
  /\ notified[d]
  /\ DaemonGoto(d, "stopping")
  /\ UNCHANGED <<operator, socket, listening, notified, clients, handler>>

\* scheduler.stop has returned; the accept task is told to abort.
SchedulerStopped(d) ==
  /\ stage[d] = "stopping"
  /\ DaemonGoto(d, "closing")
  /\ UNCHANGED <<operator, socket, listening, notified, clients, handler>>

\* The aborted accept task is dropped, at any time from now on.
DropListener(d) ==
  /\ stage[d] \in {"closing", "removed"}
  /\ listening[d]
  /\ CloseListener(d)
  /\ UNCHANGED <<operator, stage, socket, notified, clients>>

\* Mutant of RemoveSocket: the file is left to the next start.
RemoveNothing(d) ==
  /\ stage[d] = "closing"
  /\ DaemonGoto(d, "removed")
  /\ UNCHANGED <<operator, socket, listening, notified, clients, handler>>

\* remove_file removes whatever is at the path.
RemoveSocket(d) ==
  /\ stage[d] = "closing"
  /\ DaemonGoto(d, "removed")
  /\ socket' = NoDaemon
  /\ UNCHANGED <<operator, listening, notified, clients, handler>>

\* The runtime is dropped and the process ends; a collect that hangs on its
\* blocking thread holds that up.
Exit(d) ==
  /\ stage[d] = "removed"
  /\ DaemonGoto(d, "exited")
  /\ CloseAll(d)
  /\ UNCHANGED <<operator, socket, notified, clients>>

\* A signal without a handler, a crash, a power cut: the file stays.
Kill(d) ==
  /\ stage[d] \in Executing
  /\ DaemonGoto(d, "killed")
  /\ CloseAll(d)
  /\ UNCHANGED <<operator, socket, notified, clients>>

-----------------------------------------------------------------------------
(* zstats stop, and handle_client for STOP.                                *)

ClientGoto(c, s) == client' = [client EXCEPT ![c] = s]
HandlerGoto(c, s) == handler' = [handler EXCEPT ![c] = s]

\* The connection is queued with the listener; without one the command
\* succeeds silently.
Connect(c) ==
  /\ client[c] = "idle"
  /\ IF Reachable
       THEN /\ ClientGoto(c, "connected")
            /\ peer' = [peer EXCEPT ![c] = socket]
            /\ HandlerGoto(c, "queued")
       ELSE /\ ClientGoto(c, "none")
            /\ UNCHANGED <<peer, handler>>
  /\ UNCHANGED <<operator, stage, socket, listening, notified>>

Send(c) ==
  /\ client[c] = "connected"
  /\ ClientGoto(c, IF handler[c] = "closed" THEN "error" ELSE "sent")
  /\ UNCHANGED <<operator, stage, socket, listening, notified, peer, handler>>

\* The accept task takes the connection and spawns its handler.
Accept(c) ==
  /\ handler[c] = "queued"
  /\ stage[peer[c]] \in {"serving", "stopping", "closing"}
  /\ HandlerGoto(c, "reading")
  /\ UNCHANGED <<operator, stage, socket, listening, notified, clients>>

\* The handler reads STOP and writes OK ...
Answer(c) ==
  /\ handler[c] = "reading"
  /\ client[c] = "sent"
  /\ HandlerGoto(c, "answered")
  /\ UNCHANGED <<operator, stage, socket, listening, notified, clients>>

\* ... or there is no command in time, or nobody left to write OK to.
GiveUp(c) ==
  /\ handler[c] = "reading"
  /\ client[c] \in {"connected", "gone"}
  /\ HandlerGoto(c, "closed")
  /\ UNCHANGED <<operator, stage, socket, listening, notified, clients>>

\* Mutant of Notify: the permit is not stored, only a select that waits
\* already would be woken.
NotifyNobody(c) ==
  /\ handler[c] = "answered"
  /\ HandlerGoto(c, "closed")
  /\ UNCHANGED <<operator, stage, socket, listening, notified, clients>>

\* handle_client has returned Ok(true): notify_one.
Notify(c) ==
  /\ handler[c] = "answered"
  /\ HandlerGoto(c, "closed")
  /\ notified' = [notified EXCEPT ![peer[c]] = TRUE]
  /\ UNCHANGED <<operator, stage, socket, listening, clients>>

\* The command has read OK or the end of the connection: Ok(true), "zstats
\* daemon stopped".
Return(c) ==
  /\ client[c] = "sent"
  /\ handler[c] \in {"answered", "closed"}
  /\ ClientGoto(c, "stopped")
  /\ UNCHANGED <<operator, stage, socket, listening, notified, peer, handler>>

\* The command is interrupted.
Abandon(c) ==
  /\ client[c] \in {"connected", "sent"}
  /\ ClientGoto(c, "gone")
  /\ UNCHANGED <<operator, stage, socket, listening, notified, peer, handler>>

-----------------------------------------------------------------------------
StartStep(d) ==
  \/ CheckPath(d)
  \/ Probe(d)
  \/ CleanStale(d)
  \/ Bind(d)
  \/ Listen(d)
  \/ StartServing(d)

StopStep(d) ==
  \/ StopNotified(d)
  \/ SchedulerStopped(d)
  \/ RemoveSocket(d)

DaemonStep(d) ==
  \/ Launch(d)
  \/ Serve(d)
  \/ StartStep(d)
  \/ AcceptFatal(d)
  \/ Interrupt(d)
  \/ StopStep(d)
  \/ DropListener(d)
  \/ Exit(d)
  \/ Kill(d)

ClientStep(c) ==
  \/ Connect(c)
  \/ Send(c)
  \/ Accept(c)
  \/ Answer(c)
  \/ GiveUp(c)
  \/ Notify(c)
  \/ Return(c)
  \/ Abandon(c)

DaemonNext ==
  \/ \E d \in Daemons : DaemonStep(d)
  \/ \E c \in Clients : ClientStep(c)

DaemonSpec == DaemonInit /\ [][DaemonNext]_daemonVars

\* A daemon that starts or stops goes on (scheduler.stop returns, module
\* Scheduler), and so does a handler.
DaemonFairSpec ==
  /\ DaemonSpec
  /\ \A d \in Daemons : WF_daemonVars(StartStep(d)) /\ WF_daemonVars(StopStep(d))
  /\ \A c \in Clients : WF_daemonVars(Notify(c))

-----------------------------------------------------------------------------
(* Properties.                                                             *)

DaemonTypeOK ==
  /\ operator \in Operators
  /\ stage \in [Daemons -> Stages]
  /\ socket \in Daemons \cup {NoDaemon}
  /\ listening \in [Daemons -> BOOLEAN]
  /\ notified \in [Daemons -> BOOLEAN]
  /\ client \in [Clients -> ClientStages]
  /\ peer \in [Clients -> Daemons \cup {NoDaemon}]
  /\ handler \in [Clients -> HandlerStages]
  /\ \A d \in Daemons : listening[d] => stage[d] \in Open
  /\ \A c \in Clients :
       handler[c] \in {"queued", "reading", "answered"} =>
         peer[c] \in Daemons /\ stage[peer[c]] \in Open

\* When every daemon is started after the last one has gone, however that one
\* went, a daemon that serves is the one found at the path: attach, stop and
\* the next start all see it (daemon.rs:122-136, 167-171).
ServingIsReachable ==
  operator = "exited" =>
    \A d \in Daemons : stage[d] = "serving" => socket = d /\ listening[d]

\* A daemon that is started after the last one has gone comes up, unless it is
\* killed: no crash leaves a path behind that keeps the next one from starting
\* (daemon.rs:127-128).
StartSucceeds ==
  \A d \in Daemons :
    operator = "exited" /\ stage[d] = "starting"
      ~> stage[d] \in {"serving", "killed"}

\* A file at the path is that of a daemon that is alive or was killed: one
\* that exits by itself leaves nothing behind (daemon.rs:201).
NothingLeftBehind == socket # NoDaemon => stage[socket] \in Executing \cup {"killed"}

\* Once zstats stop says "stopped", the daemon it talked to goes down, unless
\* its accept task has died (client.rs:141-144, daemon.rs:195-201).
StopHonoured ==
  \A c \in Clients :
    \A d \in Daemons :
      client[c] = "stopped" /\ peer[c] = d
        ~> stage[d] \in {"removed", "exited", "killed", "deaf"}

\* "A daemon that is not running already satisfies stopped, so that case
\* succeeds silently": a stop that succeeds silently leaves no daemon serving
\* (daemon.rs:367-368, client.rs:132-134).
SilentStopMeansStopped ==
  [][\A c \in Clients : client'[c] = "none" /\ client[c] # "none" =>
       \A d \in Daemons : stage[d] # "serving"]_client
=============================================================================
