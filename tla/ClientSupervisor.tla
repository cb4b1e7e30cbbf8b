--------------------------- MODULE ClientSupervisor ---------------------------
(***************************************************************************)
(* The client role: ClientController's supervisor task and everything a    *)
(* GUI request passes through on its way to a connection.                  *)
(*                                                                         *)
(*   IPC handler -> spawned task -> command channel -> supervisor          *)
(*     supervisor -> connect_once -> event channel -> the daemon's drain   *)
(*       (DaemonState.peers) -> session channel -> the session's peers     *)
(*                                                                         *)
(* A connection is named by the number of the dial that opened it.         *)
(* Cancelling connect_once inside the peer loop drops the JoinHandles of   *)
(* the loop's three tasks, which detaches them: they keep the connection   *)
(* and its inbound channel, and nobody sends Disconnected for it.          *)
(***************************************************************************)
EXTENDS Naturals, Sequences, SequencesExt, PeerTables

CONSTANTS
  Servers,      \* servers a GUI may ask for (an address and its peer_id)
  None,         \* no server, no event
  MaxRequests,  \* bound: Connect and Disconnect requests of a behaviour
  CmdCap,       \* capacity of the command channel (16)
  EventCap,     \* capacity of the event channel (64)
  SessionCap    \* capacity of the session's channel (32)

Dials    == 1..MaxRequests
Dial(s)  == [kind |-> "dial", server |-> s]
HangUp   == [kind |-> "hangUp", server |-> None]
Commands == {Dial(s) : s \in Servers} \cup {HangUp}
Events   == [kind : {"connected", "disconnected"}, dial : Dials]

ASSUME ClientAssumption ==
  /\ None \notin Servers \cup Events
  /\ MaxRequests \in Nat /\ {CmdCap, EventCap, SessionCap} \subseteq Nat \ {0}

VARIABLES
  issued,       \* requests the IPC layer has answered so far
  spawned,      \* [id, cmd]: tasks spawned by the IPC layer, not yet sent
  cmds,         \* the command channel
  pending,      \* the server to dial at the top of the supervisor's loop
  stage,        \* where the supervisor is in connect_once
  target,       \* the server of every dial so far
  link,         \* the state of every dial's connection
  orphans,      \* history: dials cancelled after their Connected event
  events,       \* the controller's event channel
  draining,     \* the event the daemon has recorded and not yet forwarded
  peers,        \* DaemonState.peers: the dials the GUI lists
  toSession,    \* the session's event channel
  sessionPeers  \* the peers of the client session

channels   == <<spawned, cmds>>
supervisor == <<pending, stage, target, link, orphans>>
tables     == <<draining, peers, toSession, sessionPeers>>
vars       == <<issued, channels, supervisor, events, tables>>

current == Len(target)

Init ==
  /\ issued = 0 /\ spawned = {} /\ cmds = <<>>
  /\ pending = None /\ stage = "idle" /\ target = <<>>
  /\ link = [d \in Dials |-> "none"] /\ orphans = {}
  /\ events = <<>> /\ draining = None /\ peers = <<>>
  /\ toSession = <<>> /\ sessionPeers = <<>>

-----------------------------------------------------------------------------
(* The IPC layer: every request spawns a task of its own, so two requests  *)
(* of one GUI may reach the channel in either order.                       *)

Request(cmd) ==
  /\ issued < MaxRequests
  /\ issued' = issued + 1
  /\ spawned' = spawned \cup {[id |-> issued', cmd |-> cmd]}
  /\ UNCHANGED <<cmds, supervisor, events, tables>>

Send(task) ==
  /\ Len(cmds) < CmdCap
  /\ spawned' = spawned \ {task}
  /\ cmds' = Append(cmds, task.cmd)
  /\ UNCHANGED <<issued, supervisor, events, tables>>

-----------------------------------------------------------------------------
(* The supervisor. The select is biased: a waiting command always wins     *)
(* over the progress of connect_once.                                      *)

StartDial(s) ==
  /\ stage' = "handshake"
  /\ target' = Append(target, s)
  /\ link' = [link EXCEPT ![current + 1] = "dialing"]

DialPending ==
  /\ stage = "idle" /\ pending # None
  /\ StartDial(pending)
  /\ pending' = None
  /\ UNCHANGED <<issued, channels, orphans, events, tables>>

TakeWhileIdle ==
  /\ stage = "idle" /\ pending = None /\ cmds # <<>>
  /\ cmds' = Tail(cmds)
  /\ \/ /\ Head(cmds) = HangUp
        /\ UNCHANGED <<stage, target, link>>
     \/ Head(cmds) # HangUp /\ StartDial(Head(cmds).server)
  /\ UNCHANGED <<issued, spawned, pending, orphans, events, tables>>

(* Before the peer loop the dropped future owns the connection, which      *)
(* closes with it; inside the loop the detached tasks own it.              *)
DroppedLink ==
  IF stage \in {"handshake", "announce"}
  THEN [link EXCEPT ![current] = "closed"] ELSE link

(* Mutant: the dial that interrupts a connection is forgotten. *)
NextPendingDropped(cmd) == None

NextPending(cmd) == cmd.server

Cancel ==
  /\ stage # "idle" /\ cmds # <<>>
  /\ cmds' = Tail(cmds)
  /\ pending' = NextPending(Head(cmds))
  /\ stage' = "idle"
  /\ link' = DroppedLink
  /\ orphans' = IF stage \in {"serving", "report"}
                THEN orphans \cup {current} ELSE orphans
  /\ UNCHANGED <<issued, spawned, target, events, tables>>

Connecting(at) == stage = at /\ cmds = <<>>

Handshake ==
  /\ Connecting("handshake")
  /\ \/ stage' = "announce" /\ link' = [link EXCEPT ![current] = "open"]
     \/ stage' = "idle" /\ link' = [link EXCEPT ![current] = "closed"]
  /\ UNCHANGED <<issued, channels, pending, target, orphans, events, tables>>

(* Mutant: the event is pushed without waiting for room. *)
AnnounceUnbounded ==
  /\ Connecting("announce")
  /\ events' = Append(events, [kind |-> "connected", dial |-> current])
  /\ stage' = "serving"
  /\ link' = [link EXCEPT ![current] = IF @ = "open" THEN "serving" ELSE @]
  /\ UNCHANGED <<issued, channels, pending, target, orphans, tables>>

(* run_peer_loop starts once Connected is in the event channel. *)
Announce ==
  /\ Connecting("announce") /\ Len(events) < EventCap
  /\ events' = Append(events, [kind |-> "connected", dial |-> current])
  /\ stage' = "serving"
  /\ link' = [link EXCEPT ![current] = IF @ = "open" THEN "serving" ELSE @]
  /\ UNCHANGED <<issued, channels, pending, target, orphans, tables>>

PeerLoopEnds ==
  /\ Connecting("serving") /\ link[current] = "closed"
  /\ stage' = "report"
  /\ UNCHANGED <<issued, channels, pending, target, link, orphans, events, tables>>

Report ==
  /\ Connecting("report") /\ Len(events) < EventCap
  /\ events' = Append(events, [kind |-> "disconnected", dial |-> current])
  /\ stage' = "idle"
  /\ UNCHANGED <<issued, channels, pending, target, link, orphans, tables>>

(* The server closes the connection or the network loses it: the three     *)
(* loops of the connection end, whoever still waits for them.              *)
Break(d) ==
  /\ link[d] \in {"open", "serving"}
  /\ link' = [link EXCEPT ![d] = "closed"]
  /\ UNCHANGED <<issued, channels, pending, stage, target, orphans, events, tables>>

-----------------------------------------------------------------------------
(* The daemon's drain task and the session's event handler keep the same   *)
(* table, each with push and with retain on the server's peer_id.          *)

(* Mutant: retain keeps what it should drop. *)
WithoutOthers(table, d) == Retained(table, {e \in DOMAIN target : target[e] = target[d]})

Without(table, d) == Retained(table, {e \in DOMAIN target : target[e] # target[d]})

Updated(table, evt) ==
  IF evt.kind = "connected" THEN Append(table, evt.dial) ELSE Without(table, evt.dial)

Track ==
  /\ draining = None /\ events # <<>>
  /\ draining' = Head(events)
  /\ events' = Tail(events)
  /\ peers' = Updated(peers, Head(events))
  /\ UNCHANGED <<issued, channels, supervisor, toSession, sessionPeers>>

(* Mutant: try_send, which loses the event when the channel is full. *)
ForwardIfRoom ==
  /\ draining # None
  /\ toSession' = IF Len(toSession) < SessionCap THEN Append(toSession, draining) ELSE toSession
  /\ draining' = None
  /\ UNCHANGED <<issued, channels, supervisor, events, peers, sessionPeers>>

Forward ==
  /\ draining # None /\ Len(toSession) < SessionCap
  /\ toSession' = Append(toSession, draining)
  /\ draining' = None
  /\ UNCHANGED <<issued, channels, supervisor, events, peers, sessionPeers>>

SessionHandles ==
  /\ toSession # <<>>
  /\ toSession' = Tail(toSession)
  /\ sessionPeers' = Updated(sessionPeers, Head(toSession))
  /\ UNCHANGED <<issued, channels, supervisor, events, draining, peers>>

-----------------------------------------------------------------------------
Supervise ==
  DialPending \/ TakeWhileIdle \/ Cancel \/ Handshake \/ Announce \/ PeerLoopEnds \/ Report

Next ==
  \/ \E cmd \in Commands : Request(cmd)
  \/ \E task \in spawned : Send(task)
  \/ Supervise
  \/ \E d \in Dials : Break(d)
  \/ Track \/ Forward \/ SessionHandles

Spec == Init /\ [][Next]_vars

(* Every spawned task and every loop keeps running; a handshake ends, with *)
(* an error at QUIC's idle timeout if need be. Nothing forces the network  *)
(* to break or a user to ask.                                              *)
Fairness ==
  /\ WF_vars(\E task \in spawned : Send(task))
  /\ WF_vars(Supervise)
  /\ WF_vars(Track) /\ WF_vars(Forward) /\ WF_vars(SessionHandles)

FairSpec == Spec /\ Fairness

-----------------------------------------------------------------------------
(* TypeOK: the variables keep their types and the channels their           *)
(* capacities (mpsc::channel in client.rs and session.rs).                 *)
TypeOK ==
  /\ issued \in 0..MaxRequests
  /\ spawned \subseteq [id : Dials, cmd : Commands]
  /\ cmds \in Seq(Commands) /\ Len(cmds) <= CmdCap
  /\ pending \in Servers \cup {None}
  /\ stage \in {"idle", "handshake", "announce", "serving", "report"}
  /\ target \in Seq(Servers) /\ current <= MaxRequests
  /\ link \in [Dials -> {"none", "dialing", "open", "serving", "closed"}]
  /\ orphans \subseteq Dials
  /\ events \in Seq(Events) /\ Len(events) <= EventCap
  /\ draining \in Events \cup {None}
  /\ toSession \in Seq(Events) /\ Len(toSession) <= SessionCap
  /\ {peers, sessionPeers} \subseteq Seq(Dials)

(* ListedUnlessOrphaned: once the drain task has caught up, the peers the  *)
(* GUI lists are exactly the connection the supervisor is serving, but for *)
(* the ones it cancelled after announcing them (connect_once sends         *)
(* Connected before the peer loop and Disconnected after it, and the drain *)
(* of app.rs applies them in order).                                       *)
ListedUnlessOrphaned ==
  (events = <<>> /\ stage # "report") =>
     ToSet(peers) \ orphans = IF stage = "serving" THEN {current} ELSE {}

(* TablesAgree: the session and the daemon keep the same list of peers,    *)
(* whatever is cancelled or broken: it is enough that the channel between  *)
(* them is empty (app.rs updates its table and forwards every event).      *)
TablesAgree == (draining = None /\ toSession = <<>>) => sessionPeers = peers

(* DialReplacesDial: no dial is lost. One that interrupts a connection is   *)
(* dialed itself, however many commands, failures and disconnections come  *)
(* between (the supervisor keeps it in pending while it cancels).          *)
DialReplacesDial ==
  \A s \in Servers, n \in 0..MaxRequests :
    (cmds # <<>> /\ Head(cmds) = Dial(s) /\ current = n)
       ~> (\E d \in DOMAIN target : d > n /\ target[d] = s)

(* AtMostOneConnection: the supervisor owns at most one active connection  *)
(* (the words of client.rs on ClientController).                           *)
AtMostOneConnection == \A d, e \in Dials : {link[d], link[e]} = {"serving"} => d = e

(* ClosedPeersLeave: a listed peer whose connection has ended leaves the   *)
(* list (connect_once ends with Disconnected, the drain removes the peer). *)
ClosedPeersLeave ==
  \A d \in Dials :
    (d \in ToSet(peers) /\ link[d] = "closed") ~> (d \notin ToSet(peers))

(* LostConnectionRedialed: a connection lost without any request from the  *)
(* user is dialed again (docs/PROTOCOL.md and TESTING.md on reconnection). *)
LostConnectionRedialed ==
  \A d \in Dials :
    (stage = "serving" /\ current = d /\ link[d] = "closed" /\ issued = d)
      ~> (current > d \/ issued > d)
=============================================================================
