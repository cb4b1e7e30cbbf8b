---------------------------- MODULE ServerLifecycle ----------------------------
(***************************************************************************)
(* The server role from Run to Stop: start_server and stop_server, called  *)
(* by concurrent IPC connections, and everything one start spawns.         *)
(*                                                                         *)
(* Every successful bind makes a new run of the server: its endpoint, its  *)
(* accept and fan-out tasks, its session with a peer table and a route of  *)
(* its own. DaemonState and the platform's capture are shared by all runs. *)
(* Stopping a run closes its endpoint and aborts its two tasks; its        *)
(* session, and the capture that feeds it, are left as they are. Inside a  *)
(* session only what the runs share is kept: InputRouting has the rest.    *)
(***************************************************************************)
EXTENDS Naturals, Sequences, SequencesExt, PeerTables

CONSTANTS
  Handlers,    \* IPC connections, each with one request at a time
  Clients,     \* connections that clients may open
  None,        \* no run of the server
  MaxRuns,     \* bound: successful binds of a behaviour
  RawCap,      \* capacity of the accept-to-fan-out channel (64)
  SessionCap   \* capacity of the fan-out-to-session channel (32)

ASSUME LifecycleAssumption ==
  /\ MaxRuns \in Nat \ {0} /\ None \notin 1..MaxRuns
  /\ {RawCap, SessionCap} \subseteq Nat \ {0}

Runs   == 1..MaxRuns
Events == [kind : {"connected", "disconnected"}, client : Clients]

VARIABLES
  step,          \* step of every handler in start_server or stop_server
  mine,          \* the run a handler is starting or stopping
  runs,          \* how many runs have been bound
  endpoint,      \* the QUIC endpoint of every run
  controller,    \* DaemonState.server_controller
  listening,     \* DaemonState.listening
  peers,         \* DaemonState.peers
  serving,       \* the run a client is connected to
  greeted,       \* clients that have their Welcome and are not yet reported
  lost,          \* clients whose connection ended, not yet reported
  raw,           \* server events from the connections to the fan-out task
  fanout,        \* the fan-out task of every run
  event,         \* the event the fan-out task holds
  aborted,       \* runs whose tasks stop_server has aborted
  toSession,     \* events from the fan-out task to the session
  sessionPeers,  \* the peers of every run's session
  starting,      \* runs whose capture.start is still to run
  sink,          \* the run whose sink the platform's capture feeds
  captured       \* that session's route is remote and the capture engaged

ipc     == <<step, mine>>
daemon  == <<controller, listening, peers>>
network == <<serving, greeted, lost>>
tasks   == <<raw, fanout, event, aborted>>
session == <<toSession, sessionPeers>>
input   == <<starting, sink, captured>>
vars    == <<ipc, runs, endpoint, daemon, network, tasks, session, input>>

Init ==
  /\ step = [h \in Handlers |-> "idle"] /\ mine = [h \in Handlers |-> None]
  /\ runs = 0 /\ endpoint = [r \in Runs |-> "none"]
  /\ controller = None /\ listening = FALSE /\ peers = <<>>
  /\ serving = [c \in Clients |-> None] /\ greeted = {} /\ lost = {}
  /\ raw = [r \in Runs |-> <<>>] /\ fanout = [r \in Runs |-> "none"]
  /\ event = [r \in Runs |-> None] /\ aborted = {}
  /\ toSession = [r \in Runs |-> <<>>] /\ sessionPeers = [r \in Runs |-> <<>>]
  /\ starting = {} /\ sink = None /\ captured = FALSE

Goto(h, s) == step' = [step EXCEPT ![h] = s]

-----------------------------------------------------------------------------
(* start_server: the check and the record hold the lock, the bind and the  *)
(* spawns between them do not.                                             *)

StartCheck(h) ==
  /\ step[h] = "idle" /\ controller = None
  /\ Goto(h, "bind")
  /\ UNCHANGED <<mine, runs, endpoint, daemon, network, tasks, session, input>>

(* Mutant: the listen address may be bound twice. *)
PortFreeShared == TRUE

(* The listen address names a port: a second endpoint can only be bound    *)
(* once the socket of the first one is gone. Port 0, with which the system *)
(* gives every bind a port of its own, is not modelled.                    *)
PortFree == \A r \in Runs : endpoint[r] \in {"none", "released"}

StartBind(h) ==
  /\ step[h] = "bind"
  /\ \/ /\ PortFree /\ runs < MaxRuns
        /\ runs' = runs + 1
        /\ endpoint' = [endpoint EXCEPT ![runs'] = "open"]
        /\ mine' = [mine EXCEPT ![h] = runs']
        /\ Goto(h, "spawn")
     \/ Goto(h, "idle") /\ UNCHANGED <<mine, runs, endpoint>>
  /\ UNCHANGED <<daemon, network, tasks, session, input>>

StartSpawn(h) ==
  /\ step[h] = "spawn"
  /\ fanout' = [fanout EXCEPT ![mine[h]] = "recv"]
  /\ starting' = starting \cup {mine[h]}
  /\ Goto(h, "record")
  /\ UNCHANGED <<mine, runs, endpoint, daemon, network, raw, event, aborted, session, sink, captured>>

StartRecord(h) ==
  /\ step[h] = "record"
  /\ controller' = mine[h] /\ listening' = TRUE
  /\ mine' = [mine EXCEPT ![h] = None]
  /\ Goto(h, "idle")
  /\ UNCHANGED <<runs, endpoint, peers, network, tasks, session, input>>

(* capture.start, spawned by spawn_server: a capture that already runs     *)
(* returns Ok and drops the new sink, which ends that session's drain.     *)
StartCapture(r) ==
  /\ r \in starting
  /\ starting' = starting \ {r}
  /\ sink' = IF sink = None THEN r ELSE sink
  /\ UNCHANGED <<ipc, runs, endpoint, daemon, network, tasks, session, captured>>

-----------------------------------------------------------------------------
(* stop_server: idle at once for the daemon, then the run is torn down. *)

StopIdle(h) ==
  /\ step[h] = "idle"
  /\ listening' = FALSE /\ peers' = <<>>
  /\ controller' = None
  /\ mine' = [mine EXCEPT ![h] = controller]
  /\ Goto(h, IF controller = None THEN "idle" ELSE "close")
  /\ UNCHANGED <<runs, endpoint, network, tasks, session, input>>

(* Closing the endpoint closes every connection of the run. *)
StopClose(h) ==
  /\ step[h] = "close"
  /\ endpoint' = [endpoint EXCEPT ![mine[h]] = "closing"]
  /\ lost' = lost \cup {c \in Clients : serving[c] = mine[h]}
  /\ Goto(h, "abort")
  /\ UNCHANGED <<mine, runs, daemon, serving, greeted, tasks, session, input>>

(* Mutant: only the accept task is aborted. *)
AbortedTasksAccept(h) == aborted

AbortedTasks(h) == aborted \cup {mine[h]}

StopAbort(h) ==
  /\ step[h] = "abort"
  /\ aborted' = AbortedTasks(h)
  /\ mine' = [mine EXCEPT ![h] = None]
  /\ Goto(h, "idle")
  /\ UNCHANGED <<runs, endpoint, daemon, network, raw, fanout, event, session, input>>

(* The socket is given back once the connections have drained. *)
Release(r) ==
  /\ endpoint[r] = "closing"
  /\ endpoint' = [endpoint EXCEPT ![r] = "released"]
  /\ UNCHANGED <<ipc, runs, daemon, network, tasks, session, input>>

-----------------------------------------------------------------------------
(* Connections. A client reconnects here only after the end of its old     *)
(* connection is reported: InputRouting has the other order.               *)

(* Server::run and the handshake, up to the Welcome. *)
Connect(c, r) ==
  /\ serving[c] = None
  /\ endpoint[r] = "open" /\ fanout[r] # "none"
  /\ serving' = [serving EXCEPT ![c] = r]
  /\ greeted' = greeted \cup {c}
  /\ UNCHANGED <<ipc, runs, endpoint, daemon, lost, tasks, session, input>>

(* Reports an event of c to the fan-out task, waiting for room; one that   *)
(* is dead has dropped its end of the channel.                             *)
Reported(c, kind) ==
  \/ /\ fanout[serving[c]] # "dead" /\ Len(raw[serving[c]]) < RawCap
     /\ raw' = [raw EXCEPT ![serving[c]] = Append(@, [kind |-> kind, client |-> c])]
  \/ fanout[serving[c]] = "dead" /\ UNCHANGED raw

(* The connection is reported even when a Stop has closed it since.        *)
ReportConnection(c) ==
  /\ c \in greeted
  /\ Reported(c, "connected")
  /\ greeted' = greeted \ {c}
  /\ UNCHANGED <<ipc, runs, endpoint, daemon, serving, lost, fanout, event, aborted, session,
                 input>>

Break(c) ==
  /\ serving[c] # None /\ c \notin lost
  /\ lost' = lost \cup {c}
  /\ UNCHANGED <<ipc, runs, endpoint, daemon, serving, greeted, tasks, session, input>>

ReportLoss(c) ==
  /\ c \in lost \ greeted
  /\ Reported(c, "disconnected")
  /\ serving' = [serving EXCEPT ![c] = None]
  /\ lost' = lost \ {c}
  /\ UNCHANGED <<ipc, runs, endpoint, daemon, greeted, fanout, event, aborted, session, input>>

-----------------------------------------------------------------------------
(* The fan-out task, and the session's event handler, which keeps the same *)
(* table for its run.                                                      *)

Without(table, c) == Retained(table, Clients \ {c})

Updated(table, evt) ==
  IF evt.kind = "connected" THEN Append(table, evt.client) ELSE Without(table, evt.client)

FanoutReceive(r) ==
  /\ fanout[r] = "recv" /\ raw[r] # <<>>
  /\ event' = [event EXCEPT ![r] = Head(raw[r])]
  /\ raw' = [raw EXCEPT ![r] = Tail(@)]
  /\ fanout' = [fanout EXCEPT ![r] = "track"]
  /\ UNCHANGED <<ipc, runs, endpoint, daemon, network, aborted, session, input>>

FanoutTrack(r) ==
  /\ fanout[r] = "track"
  /\ peers' = Updated(peers, event[r])
  /\ fanout' = [fanout EXCEPT ![r] = "send"]
  /\ UNCHANGED <<ipc, runs, endpoint, controller, listening, network, raw, event, aborted, session, input>>

(* Mutant: the event is pushed without waiting for room. *)
FanoutForwardUnbounded(r) ==
  /\ fanout[r] = "send"
  /\ toSession' = [toSession EXCEPT ![r] = Append(@, event[r])]
  /\ event' = [event EXCEPT ![r] = None]
  /\ fanout' = [fanout EXCEPT ![r] = "recv"]
  /\ UNCHANGED <<ipc, runs, endpoint, daemon, network, raw, aborted, sessionPeers, input>>

(* Mutant: try_send, which loses the event when the channel is full. *)
FanoutForwardIfRoom(r) ==
  /\ fanout[r] = "send"
  /\ toSession' = [toSession EXCEPT ![r] = IF Len(@) < SessionCap THEN Append(@, event[r]) ELSE @]
  /\ event' = [event EXCEPT ![r] = None]
  /\ fanout' = [fanout EXCEPT ![r] = "recv"]
  /\ UNCHANGED <<ipc, runs, endpoint, daemon, network, raw, aborted, sessionPeers, input>>

FanoutForward(r) ==
  /\ fanout[r] = "send" /\ Len(toSession[r]) < SessionCap
  /\ toSession' = [toSession EXCEPT ![r] = Append(@, event[r])]
  /\ event' = [event EXCEPT ![r] = None]
  /\ fanout' = [fanout EXCEPT ![r] = "recv"]
  /\ UNCHANGED <<ipc, runs, endpoint, daemon, network, raw, aborted, sessionPeers, input>>

(* An aborted task ends where an await makes it wait, and may run on       *)
(* through the awaits that are ready.                                      *)
FanoutDies(r) ==
  /\ r \in aborted /\ fanout[r] \in {"recv", "send"}
  /\ fanout' = [fanout EXCEPT ![r] = "dead"]
  /\ event' = [event EXCEPT ![r] = None]
  /\ raw' = [raw EXCEPT ![r] = <<>>]
  /\ UNCHANGED <<ipc, runs, endpoint, daemon, network, aborted, session, input>>

SessionHandles(r) ==
  /\ toSession[r] # <<>>
  /\ sessionPeers' = [sessionPeers EXCEPT ![r] = Updated(@, Head(toSession[r]))]
  /\ toSession' = [toSession EXCEPT ![r] = Tail(@)]
  /\ UNCHANGED <<ipc, runs, endpoint, daemon, network, tasks, input>>

-----------------------------------------------------------------------------
(* The user at the edge of the screen. Only the session with the sink sees *)
(* the pointer, and it crosses while its auto-peer is set, which is while  *)
(* its table is not empty (AutoPeerFollowsTable of InputRouting).          *)

Cross ==
  /\ sink # None /\ ~captured
  /\ sessionPeers[sink] # <<>>
  /\ captured' = TRUE
  /\ UNCHANGED <<ipc, runs, endpoint, daemon, network, tasks, session, starting, sink>>

Emergency ==
  /\ captured
  /\ captured' = FALSE
  /\ UNCHANGED <<ipc, runs, endpoint, daemon, network, tasks, session, starting, sink>>

-----------------------------------------------------------------------------
Handle(h) ==
  StartBind(h) \/ StartSpawn(h) \/ StartRecord(h) \/ StopClose(h) \/ StopAbort(h)

Fanout(r) == FanoutReceive(r) \/ FanoutTrack(r) \/ FanoutForward(r) \/ FanoutDies(r)

Next ==
  \/ \E h \in Handlers : StartCheck(h) \/ StopIdle(h) \/ Handle(h)
  \/ \E r \in Runs : StartCapture(r) \/ Release(r) \/ Fanout(r) \/ SessionHandles(r)
  \/ \E c \in Clients : (\E r \in Runs : Connect(c, r)) \/ Break(c)
                        \/ ReportConnection(c) \/ ReportLoss(c)
  \/ Cross \/ Emergency

Spec == Init /\ [][Next]_vars

(* Tasks and handlers that can run do; nothing makes a user or a client    *)
(* do anything.                                                            *)
Fairness ==
  /\ \A h \in Handlers : WF_vars(Handle(h))
  /\ \A r \in Runs :
       WF_vars(StartCapture(r)) /\ WF_vars(Release(r)) /\ WF_vars(SessionHandles(r))
       /\ WF_vars(FanoutReceive(r) \/ FanoutTrack(r) \/ FanoutForward(r)) /\ WF_vars(FanoutDies(r))
  /\ \A c \in Clients : WF_vars(ReportConnection(c)) /\ WF_vars(ReportLoss(c))

FairSpec == Spec /\ Fairness

-----------------------------------------------------------------------------
(* TypeOK: the variables keep their types and the channels their           *)
(* capacities (mpsc::channel in app.rs and session.rs).                    *)
TypeOK ==
  /\ step \in [Handlers -> {"idle", "bind", "spawn", "record", "close", "abort"}]
  /\ mine \in [Handlers -> Runs \cup {None}]
  /\ runs \in 0..MaxRuns
  /\ endpoint \in [Runs -> {"none", "open", "closing", "released"}]
  /\ controller \in Runs \cup {None} /\ listening \in BOOLEAN
  /\ peers \in Seq(Clients)
  /\ serving \in [Clients -> Runs \cup {None}] /\ greeted \subseteq Clients /\ lost \subseteq Clients
  /\ fanout \in [Runs -> {"none", "recv", "track", "send", "dead"}]
  /\ event \in [Runs -> Events \cup {None}] /\ aborted \subseteq Runs
  /\ \A r \in Runs :
       /\ raw[r] \in Seq(Events) /\ Len(raw[r]) <= RawCap
       /\ toSession[r] \in Seq(Events) /\ Len(toSession[r]) <= SessionCap
       /\ sessionPeers[r] \in Seq(Clients)
  /\ starting \subseteq Runs /\ sink \in Runs \cup {None} /\ captured \in BOOLEAN

Quiet == \A h \in Handlers : step[h] = "idle"

(* RecordedServerRuns: whatever Run and Stop requests overlap, between     *)
(* requests an endpoint is open exactly when it is the recorded one and    *)
(* the status says listening: no start leaves a server behind that a Stop  *)
(* can no longer reach (start_server checks and records under two locks).  *)
RecordedServerRuns ==
  Quiet => /\ \A r \in Runs : endpoint[r] = "open" <=> controller = r
           /\ listening <=> controller # None

(* StatusListsSession: in the first run of the server, a peer that the      *)
(* status lists is one the session has, once its events are handled (the   *)
(* fan-out task records every event and then forwards it, waiting for      *)
(* room). The converse fails when a Stop overlaps the Start, and a fan-out *)
(* task that outlives its run breaks it in the next one.                   *)
StatusListsSession ==
  (/\ Quiet /\ controller # None /\ runs = 1
   /\ fanout[controller] = "recv" /\ toSession[controller] = <<>>)
    => ToSet(peers) \subseteq ToSet(sessionPeers[controller])

(* StopEndsRun: a run that stop_server has taken ends: its port is given   *)
(* back, its fan-out task ends and its connections are closed.             *)
StopEndsRun ==
  \A r \in Runs :
    (\E h \in Handlers : step[h] = "close" /\ mine[h] = r)
      ~> (endpoint[r] = "released" /\ fanout[r] = "dead" /\ \A c \in Clients : serving[c] # r)

(* StopFreesInput: once the server is stopped, no local input is withheld  *)
(* (StopServer of the IPC: "Stop the QUIC server + input capture").        *)
StopFreesInput == (Quiet /\ controller = None) => ~captured

(* StartCaptures: while the server runs, its own session gets the input    *)
(* (StartServer of the IPC: "begin capturing local input").                *)
StartCaptures == (Quiet /\ controller # None /\ starting = {}) => sink = controller

(* IdleListsNoPeer: a daemon whose server is stopped and whose tasks have  *)
(* ended lists no peer (stop_server: "Tear the QUIC server down to idle"). *)
IdleListsNoPeer ==
  (Quiet /\ controller = None /\ \A r \in Runs : fanout[r] \in {"none", "dead"}) => peers = <<>>
=============================================================================
