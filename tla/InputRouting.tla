---------------------------- MODULE InputRouting ----------------------------
(***************************************************************************)
(* One server session routing the user's input to its clients:             *)
(*                                                                         *)
(*   the capture's drain thread     platform/src/windows/capture.rs        *)
(*   the drain_capture task         daemon/src/session.rs, daemon/src/edge *)
(*   the peer-event task            daemon/src/session.rs                  *)
(*   the inbound loop of a client   daemon/src/session.rs                  *)
(*                                                                         *)
(* The two tasks share the edge detector and the peer table, each under a  *)
(* lock of its own that is released before the next one is taken and       *)
(* before every await; a step of this module is the code between two such  *)
(* points.  A control stream (outbound channel, QUIC stream and inbound    *)
(* channel of the client) is one FIFO queue of bounded capacity.           *)
(***************************************************************************)
EXTENDS EdgeDetector, PeerTables, Sequences, FiniteSets, Functions

CONSTANTS
  Keys,           \* keyboard keys
  Buttons,        \* mouse buttons (and wheel notches: routed alike)
  ModifierOf,     \* the flag a key sets, or None: Keys -> Modifiers or None
  LeftKey,        \* the key resync_modifiers presses for a flag
  Escape,         \* the Escape key
  EmergencyChord, \* the flags that make Escape the emergency hotkey
  Points,         \* the cursor positions tried
  Conns,          \* the QUIC connections that may ever be opened
  Peers,          \* the ids of client machines
  PeerOf,         \* the machine a connection comes from: Conns -> Peers
  RawCap,         \* capacity of the hook channel     (8192 in the code)
  SinkCap,        \* capacity of the capture channel  (4096)
  OutCap,         \* capacity of a control stream     (256 + 256)
  MaxInputs       \* bound on the number of user inputs, for TLC

(* ScreenId(1), the screen given to every client. *)
CONSTANT AutoScreen

Capacity == Nat \ {0}

ASSUME RoutingAssumption ==
  /\ Escape \in Keys
  /\ Keys \cap Buttons = {}
  /\ None \notin Modifiers \cup Conns
  /\ ModifierOf \in [Keys -> Modifiers \cup {None}]
  /\ ModifierOf[Escape] = None
  /\ LeftKey \in [Modifiers -> Keys]
  /\ \A m \in Modifiers : ModifierOf[LeftKey[m]] = m
  /\ EmergencyChord \subseteq Modifiers
  /\ Points \subseteq [x : Int, y : Int]
  /\ PeerOf \in [Conns -> Peers]
  /\ AutoScreen \in Screens
  /\ {RawCap, SinkCap, OutCap} \subseteq Capacity
  /\ MaxInputs \in Nat

VARIABLES
  inputs,      \* number of user inputs so far (bound only)
  held,        \* the keys and buttons the user physically holds
  raw,         \* HOOK_TX: raw events waiting for the drain thread
  mods,        \* the drain thread's modifier state
  capturing,   \* CaptureState.capturing and HOOK_CAPTURING
  sink,        \* capture_tx: input events waiting for drain_capture
  edge,        \* the EdgeDetector
  last_mouse,  \* drain_capture's last absolute position, or None
  pc,          \* where drain_capture is
  event,       \* its current event, None while it waits
  decision,    \* the decision it is applying
  active_peer, \* the peer apply_decision took, or None
  peers,       \* the session's Vec<PeerHandle>
  handler,     \* where the peer-event task is
  peer_events, \* ServerEvents waiting for the peer-event task
  conn,        \* state of each connection
  outbound,    \* control stream of each connection, oldest message first
  pressed,     \* keys and buttons held down by injection on each machine
  entered,     \* history: the last focus message the machine processed
               \* was a ScreenEnter
  displaced    \* history: the connections that were open, or had been, when
               \* the server reported the end of one of the same machine

userVars   == <<inputs, held>>
captureVars == <<raw, mods, sink>>
taskVars   == <<last_mouse, pc, event, decision, active_peer>>
tableVars  == <<peers, handler, peer_events>>
netVars    == <<conn, outbound>>
clientVars == <<pressed, entered, displaced>>
vars == <<userVars, captureVars, capturing, edge, taskVars, tableVars, netVars,
          clientVars>>

-----------------------------------------------------------------------------
(* Events and messages *)

ModifierKeys == {k \in Keys : ModifierOf[k] # None}
Inputs       == Keys \cup Buttons
Actions      == {"Pressed", "Released"}

RawEvent == [type : {"Key"}, code : Keys, state : Actions]
              \cup [type : {"Button"}, code : Buttons, state : Actions]
              \cup [type : {"Move"}, x : Int, y : Int]

InputEvent == [type : {"Key"}, code : Keys, state : Actions,
               modifiers : SUBSET Modifiers]
                \cup [type : {"Button"}, code : Buttons, state : Actions]
                \cup [type : {"Move"}, x : Int, y : Int]

(* Messages that inject input at the client... *)
InputMessage == [type : {"KeyEvent", "MouseButton"}, code : Inputs,
                 state : Actions]
                  \cup [type : {"MouseMoveRelative"}, dx : Int, dy : Int]

(* ... and those that move the focus.  The far screen's entry point and    *)
(* the id carried by ScreenLeave are not read by anything modelled here.   *)
FocusMessage == [type : {"ScreenEnter", "ModifierSync"},
                 modifiers : SUBSET Modifiers]
                  \cup [type : {"ScreenLeave"}]

ServerEvent == [type : {"Connected", "Disconnected"}, conn : Conns]

(* KeyEvent.modifiers is not read by the injectors. *)
KeyMessage(e) ==
  [type  |-> IF e.type = "Key" THEN "KeyEvent" ELSE "MouseButton",
   code  |-> e.code,
   state |-> e.state]

IsEmergency(e) ==
  /\ e.type = "Key"
  /\ e.state = "Pressed"
  /\ e.code = Escape
  /\ EmergencyChord \subseteq e.modifiers

-----------------------------------------------------------------------------
(* Channels *)

(* Sender::try_send: a full channel drops the message. *)
TrySend(ch, cap, m) == IF Len(ch) < cap THEN Append(ch, m) ELSE ch

(* Sender::send(..).await on a peer: blocks while the stream is full and   *)
(* returns at once, with an error nobody looks at, once it is closed.      *)
Closed(c) == conn[c] \in {"down", "reported"}

(* Mutant: a send to a closed connection never returns. *)
CanSendWhileOpen(c) == ~Closed(c) /\ Len(outbound[c]) < OutCap

CanSend(c) == Closed(c) \/ Len(outbound[c]) < OutCap

Sent(c, m) ==
  IF Closed(c) THEN outbound ELSE [outbound EXCEPT ![c] = Append(@, m)]

(* PeerHandle::try_send *)
TrySent(c, m) ==
  IF Closed(c) THEN outbound
  ELSE [outbound EXCEPT ![c] = TrySend(@, OutCap, m)]

(* peers.lock().first().cloned() *)
FirstPeer == IF peers = <<>> THEN None ELSE Head(peers)

-----------------------------------------------------------------------------
Init ==
  /\ inputs = 0
  /\ held = {}
  /\ raw = <<>>
  /\ mods = {}
  /\ capturing = FALSE
  /\ sink = <<>>
  /\ edge = NewEdge
  /\ last_mouse = None
  /\ pc = "recv"
  /\ event = None
  /\ decision = Stay
  /\ active_peer = None
  /\ peers = <<>>
  /\ handler = "recv"
  /\ peer_events = <<>>
  /\ conn = [c \in Conns |-> "new"]
  /\ outbound = [c \in Conns |-> <<>>]
  /\ pressed = [p \in Peers |-> {}]
  /\ entered = [p \in Peers |-> FALSE]
  /\ displaced = {}

-----------------------------------------------------------------------------
(* The user, and the hook procedures that push what he does. *)

Hook(e) ==
  /\ inputs < MaxInputs
  /\ inputs' = inputs + 1
  /\ raw' = TrySend(raw, RawCap, e)
  /\ UNCHANGED <<mods, sink, capturing, edge, taskVars, tableVars, netVars,
                 clientVars>>

KindOf(k) == IF k \in Keys THEN "Key" ELSE "Button"

(* A key that is already held repeats. *)
Press(k) ==
  /\ held' = held \cup {k}
  /\ Hook([type |-> KindOf(k), code |-> k, state |-> "Pressed"])

Release(k) ==
  /\ k \in held
  /\ held' = held \ {k}
  /\ Hook([type |-> KindOf(k), code |-> k, state |-> "Released"])

MoveMouse(p) ==
  /\ UNCHANGED held
  /\ Hook([type |-> "Move", x |-> p.x, y |-> p.y])

-----------------------------------------------------------------------------
(* drain_thread_main: one iteration of its loop. *)

(* Mutant: a key that is no modifier is not skipped. *)
UpdatedByAnyKey(e) ==
  IF e.type # "Key" THEN mods
  ELSE IF e.state = "Pressed" THEN mods \cup {ModifierOf[e.code]}
  ELSE mods \ {ModifierOf[e.code]}

(* update_modifiers *)
UpdatedModifiers(e) ==
  IF e.type # "Key" \/ ModifierOf[e.code] = None THEN mods
  ELSE IF e.state = "Pressed" THEN mods \cup {ModifierOf[e.code]}
  ELSE mods \ {ModifierOf[e.code]}

Normalized(e, m) ==
  IF e.type = "Key"
  THEN [type |-> "Key", code |-> e.code, state |-> e.state, modifiers |-> m]
  ELSE e

DrainRaw ==
  /\ raw # <<>>
  /\ LET e == Head(raw)
     IN  /\ mods' = UpdatedModifiers(e)
         /\ sink' = IF capturing \/ e.type = "Move"
                    THEN TrySend(sink, SinkCap, Normalized(e, mods'))
                    ELSE sink
  /\ raw' = Tail(raw)
  /\ UNCHANGED <<userVars, capturing, edge, taskVars, tableVars, netVars,
                 clientVars>>

-----------------------------------------------------------------------------
(* drain_capture *)

Idle == /\ pc' = "recv"
        /\ event' = None
        /\ decision' = Stay
        /\ active_peer' = None

(* The emergency hotkey: force_local, and apply_decision when it decides   *)
(* something.  The event is not forwarded.                                 *)
ReceiveEmergency ==
  /\ pc = "recv"
  /\ sink # <<>>
  /\ IsEmergency(Head(sink))
  /\ sink' = Tail(sink)
  /\ last_mouse' = None
  /\ edge' = ForcedLocal(edge)
  /\ decision' = ForceLocalDecision(edge)
  /\ IF decision' = Stay
     THEN pc' = "recv" /\ event' = None
     ELSE pc' = "choose" /\ event' = Head(sink)
  /\ UNCHANGED <<userVars, raw, mods, capturing, active_peer, tableVars,
                 netVars, clientVars>>

(* Any other event: observe, under the edge lock. *)
ReceiveInput ==
  /\ pc = "recv"
  /\ sink # <<>>
  /\ LET e == Head(sink)
     IN  /\ ~IsEmergency(e)
         /\ edge' = Observed(edge, e)
         /\ decision' = Decision(edge, e)
         /\ IF ForwardsRemote(edge, e)
            THEN /\ pc' = IF decision' = Stay THEN "forward" ELSE "choose"
                 /\ event' = e
                 /\ UNCHANGED last_mouse
            ELSE /\ pc' = "recv"
                 /\ event' = None
                 /\ last_mouse' = IF e.type = "Move"
                                  THEN [x |-> e.x, y |-> e.y] ELSE last_mouse
  /\ sink' = Tail(sink)
  /\ UNCHANGED <<userVars, raw, mods, capturing, active_peer, tableVars,
                 netVars, clientVars>>

(* apply_decision: take the first peer, under the table's lock. *)
ChoosePeer ==
  /\ pc = "choose"
  /\ active_peer' = FirstPeer
  /\ pc' = IF decision.kind = "EnterRemote"
           THEN IF FirstPeer = None THEN "engage" ELSE "enter"
           ELSE IF FirstPeer = None THEN "disengage" ELSE "leave"
  /\ UNCHANGED <<userVars, captureVars, capturing, edge, last_mouse, event,
                 decision, tableVars, netVars, clientVars>>

SendMessage(from, m, to) ==
  /\ pc = from
  /\ CanSend(active_peer)
  /\ outbound' = Sent(active_peer, m)
  /\ pc' = to
  /\ UNCHANGED <<userVars, captureVars, capturing, edge, last_mouse, event,
                 decision, active_peer, tableVars, conn, clientVars>>

SendScreenEnter ==
  SendMessage("enter",
    [type |-> "ScreenEnter", modifiers |-> decision.modifiers], "engage")

SendScreenLeave ==
  SendMessage("leave", [type |-> "ScreenLeave"], "sync")

SendModifierSync ==
  SendMessage("sync", [type |-> "ModifierSync", modifiers |-> {}], "disengage")

(* Mutant: the capture is not turned on when no peer was there to enter. *)
EngageWithPeer ==
  /\ pc = "engage"
  /\ capturing' = (active_peer # None)
  /\ pc' = "forward"
  /\ UNCHANGED <<userVars, captureVars, edge, last_mouse, event, decision,
                 active_peer, tableVars, netVars, clientVars>>

(* warp_cursor and set_capturing(true).  The warp moves the OS cursor,     *)
(* which is not modelled: the next move may report any point.              *)
Engage ==
  /\ pc = "engage"
  /\ capturing' = TRUE
  /\ pc' = "forward"
  /\ UNCHANGED <<userVars, captureVars, edge, last_mouse, event, decision,
                 active_peer, tableVars, netVars, clientVars>>

(* Mutant: without the `continue', the hotkey itself is forwarded. *)
DisengageThenForward ==
  /\ pc = "disengage"
  /\ capturing' = FALSE
  /\ pc' = "forward"
  /\ UNCHANGED <<userVars, captureVars, edge, last_mouse, event, decision,
                 active_peer, tableVars, netVars, clientVars>>

(* set_capturing(false), and `continue'. *)
Disengage ==
  /\ pc = "disengage"
  /\ capturing' = FALSE
  /\ Idle
  /\ UNCHANGED <<userVars, captureVars, edge, last_mouse, tableVars, netVars,
                 clientVars>>

(* The tail of the loop: the first peer is read again.  A move becomes the *)
(* difference to the last position, and is not sent when that is zero.     *)
Delta == IF last_mouse = None THEN [dx |-> 0, dy |-> 0]
         ELSE [dx |-> event.x - last_mouse.x, dy |-> event.y - last_mouse.y]

Forward ==
  /\ pc = "forward"
  /\ IF FirstPeer = None THEN UNCHANGED <<last_mouse, outbound>>
     ELSE IF event.type = "Move"
     THEN /\ last_mouse' = [x |-> event.x, y |-> event.y]
          /\ outbound' = IF Delta = [dx |-> 0, dy |-> 0] THEN outbound
                         ELSE TrySent(FirstPeer, [type |-> "MouseMoveRelative",
                                                  dx |-> Delta.dx,
                                                  dy |-> Delta.dy])
     ELSE /\ outbound' = TrySent(FirstPeer, KeyMessage(event))
          /\ UNCHANGED last_mouse
  /\ Idle
  /\ UNCHANGED <<userVars, captureVars, capturing, edge, tableVars, conn,
                 clientVars>>

-----------------------------------------------------------------------------
(* handle_peer_events_server *)

HandlerFrame == UNCHANGED <<userVars, captureVars, capturing, taskVars,
                            netVars, clientVars>>

(* Connected, first half: push under the table's lock. *)
PeerConnected ==
  /\ handler = "recv"
  /\ peer_events # <<>>
  /\ Head(peer_events).type = "Connected"
  /\ peers' = Append(peers, Head(peer_events).conn)
  /\ peer_events' = Tail(peer_events)
  /\ handler' = "bind"
  /\ UNCHANGED edge
  /\ HandlerFrame

(* Connected, second half: set_auto_peer under the edge lock. *)
BindAutoPeer ==
  /\ handler = "bind"
  /\ edge' = WithAutoPeer(edge, AutoScreen)
  /\ handler' = "recv"
  /\ UNCHANGED <<peers, peer_events>>
  /\ HandlerFrame

(* Mutant: the test is inverted. *)
OfMachine(p) == {c \in Conns : PeerOf[c] = p}

(* The handles that stay when machine p is gone *)
OfOthers(p) == {c \in Conns : PeerOf[c] # p}

(* Disconnected, first half: every handle of that machine is dropped. *)
PeerDisconnected ==
  /\ handler = "recv"
  /\ peer_events # <<>>
  /\ Head(peer_events).type = "Disconnected"
  /\ peers' = Retained(peers, OfOthers(PeerOf[Head(peer_events).conn]))
  /\ peer_events' = Tail(peer_events)
  /\ handler' = "unbind"
  /\ UNCHANGED edge
  /\ HandlerFrame

(* Mutant: the auto-peer is cleared whoever leaves. *)
UnbindAlways ==
  /\ handler = "unbind"
  /\ edge' = WithAutoPeer(edge, None)
  /\ handler' = "recv"
  /\ UNCHANGED <<peers, peer_events>>
  /\ HandlerFrame

(* Disconnected, second half.  The route is left as it is. *)
UnbindAutoPeer ==
  /\ handler = "unbind"
  /\ edge' = IF peers = <<>> THEN WithAutoPeer(edge, None) ELSE edge
  /\ handler' = "recv"
  /\ UNCHANGED <<peers, peer_events>>
  /\ HandlerFrame

-----------------------------------------------------------------------------
(* Connections, as the network crate reports them. *)

NetFrame == UNCHANGED <<userVars, captureVars, capturing, edge, taskVars, peers,
                        handler, pressed, entered>>

(* A handshake completes and handle_connection reports it. *)
Connect(c) ==
  /\ conn[c] = "new"
  /\ conn' = [conn EXCEPT ![c] = "up"]
  /\ peer_events' = Append(peer_events, [type |-> "Connected", conn |-> c])
  /\ UNCHANGED <<outbound, displaced>>
  /\ NetFrame

(* The connection breaks (closed by the client, or timed out): what the    *)
(* client has not yet received may be lost, from some message on.          *)
Break(c) ==
  /\ conn[c] = "up"
  /\ conn' = [conn EXCEPT ![c] = "down"]
  /\ \E n \in 0 .. Len(outbound[c]) :
       outbound' = [outbound EXCEPT ![c] = SubSeq(@, 1, n)]
  /\ UNCHANGED <<peer_events, displaced>>
  /\ NetFrame

(* run_peer_loop returns at the server, which reports it. *)
ReportBreak(c) ==
  /\ conn[c] = "down"
  /\ conn' = [conn EXCEPT ![c] = "reported"]
  /\ peer_events' = Append(peer_events, [type |-> "Disconnected", conn |-> c])
  /\ displaced' = displaced \cup
                     {d \in Conns : PeerOf[d] = PeerOf[c] /\ conn[d] # "new"}
  /\ UNCHANGED outbound
  /\ NetFrame

-----------------------------------------------------------------------------
(* inbound_loop of the client, and what its injector leaves pressed. *)

(* resync_modifiers *)
Resynced(down, target) ==
  (down \ ModifierKeys) \cup {LeftKey[m] : m \in target}

(* Mutant: ScreenLeave is left to the ModifierSync that follows it. *)
InjectedLazily(down, m) ==
  CASE m.type \in {"ScreenEnter", "ModifierSync"} -> Resynced(down, m.modifiers)
    [] m.type \in {"KeyEvent", "MouseButton"} ->
         IF m.state = "Pressed" THEN down \cup {m.code} ELSE down \ {m.code}
    [] OTHER -> down

Injected(down, m) ==
  CASE m.type \in {"ScreenEnter", "ModifierSync"} -> Resynced(down, m.modifiers)
    [] m.type = "ScreenLeave" -> down \ ModifierKeys
    [] m.type \in {"KeyEvent", "MouseButton"} ->
         IF m.state = "Pressed" THEN down \cup {m.code} ELSE down \ {m.code}
    [] OTHER -> down

Deliver(c) ==
  /\ outbound[c] # <<>>
  /\ LET m == Head(outbound[c])
         p == PeerOf[c]
     IN  /\ pressed' = [pressed EXCEPT ![p] = Injected(@, m)]
         /\ entered' = [entered EXCEPT ![p] =
                          IF m.type = "ScreenEnter" THEN TRUE
                          ELSE IF m.type = "ScreenLeave" THEN FALSE ELSE @]
  /\ outbound' = [outbound EXCEPT ![c] = Tail(@)]
  /\ UNCHANGED <<userVars, captureVars, capturing, edge, taskVars, tableVars,
                 conn, displaced>>

-----------------------------------------------------------------------------
User == \/ \E k \in Inputs : Press(k) \/ Release(k)
        \/ \E p \in Points : MoveMouse(p)

Task == \/ ReceiveEmergency \/ ReceiveInput \/ ChoosePeer
        \/ SendScreenEnter \/ Engage
        \/ SendScreenLeave \/ SendModifierSync \/ Disengage
        \/ Forward

Handler == PeerConnected \/ BindAutoPeer \/ PeerDisconnected \/ UnbindAutoPeer

Network == \E c \in Conns : Connect(c) \/ Break(c) \/ ReportBreak(c) \/ Deliver(c)

Next == User \/ DrainRaw \/ Task \/ Handler \/ Network

Spec == Init /\ [][Next]_vars

(* The threads and the tasks keep running.  A connection either delivers   *)
(* its messages or dies (QUIC closes one that stays silent), and the       *)
(* server's peer loop then ends.  Nothing is assumed of the user or of new *)
(* connections.                                                            *)
Fairness ==
  /\ WF_vars(DrainRaw)
  /\ WF_vars(Task)
  /\ WF_vars(Handler)
  /\ \A c \in Conns : WF_vars(Deliver(c) \/ Break(c)) /\ WF_vars(ReportBreak(c))

FairSpec == Spec /\ Fairness

-----------------------------------------------------------------------------
(* Properties *)

(* Every variable has its type. *)
TypeOK ==
  /\ inputs \in 0 .. MaxInputs
  /\ held \subseteq Inputs
  /\ raw \in Seq(RawEvent)
  /\ mods \subseteq Modifiers
  /\ capturing \in BOOLEAN
  /\ sink \in Seq(InputEvent)
  /\ edge \in EdgeState
  /\ last_mouse \in [x : Int, y : Int] \cup {None}
  /\ pc \in {"recv", "choose", "enter", "engage", "leave", "sync", "disengage",
             "forward"}
  /\ pc # "recv" => event \in InputEvent
  /\ decision.kind \in {"Stay", "EnterRemote", "LeaveRemote"}
  /\ decision.kind = "EnterRemote" => decision.modifiers \subseteq Modifiers
  /\ active_peer \in Conns \cup {None}
  /\ peers \in Seq(Conns)
  /\ handler \in {"recv", "bind", "unbind"}
  /\ peer_events \in Seq(ServerEvent)
  /\ conn \in [Conns -> {"new", "up", "down", "reported"}]
  /\ outbound \in [Conns -> Seq(InputMessage \cup FocusMessage)]
  /\ pressed \in [Peers -> SUBSET Inputs]
  /\ entered \in [Peers -> BOOLEAN]
  /\ displaced \subseteq Conns

(* Between two events drain_capture leaves the local input captured        *)
(* exactly when the route is remote, although the route changes under the  *)
(* edge lock and the capture several awaits later: the user is neither     *)
(* locked out while the route is local nor typing on both machines.        *)
CaptureFollowsRoute ==
  pc \in {"recv", "forward"} => (capturing <=> edge.route # None)

(* What the session promises abstractly: routing implements FocusHandover. *)
Handover == INSTANCE FocusHandover
              WITH owner    <- IF edge.route = None THEN "local" ELSE "remote",
                   captured <- capturing

(* The route and the capture change in strict alternation, each hand-over  *)
(* complete before the next begins, although five steps of drain_capture   *)
(* and any number of peer events lie between the two changes.              *)
HandoverRefinement == Handover!Spec

(* Between two peer events the edges lead somewhere exactly when a client  *)
(* is in the table, whatever the order in which clients come and go.       *)
AutoPeerFollowsTable ==
  handler = "recv" => (edge.auto_peer # None <=> peers # <<>>)

(* The layout of the default configuration (session.rs:335), in which only *)
(* the auto-peer leads anywhere.                                           *)
DefaultLayout == \A side \in Sides : Neighbour[side] = None

(* No machine connects a second time.  Of one that does, the handler drops *)
(* the new handle with the old one (ReconnectResumes).                     *)
EachMachineOnce == \A c, d \in Conns : PeerOf[c] = PeerOf[d] => c = d

(* The focus a client will have when it reaches message i of its stream.   *)
FocusAt(c, i) ==
  LET before == {j \in 1 .. i - 1 :
                   outbound[c][j].type \in {"ScreenEnter", "ScreenLeave"}}
  IN  IF before = {} THEN entered[PeerOf[c]]
      ELSE outbound[c][CHOOSE j \in before : \A k \in before : k <= j].type
             = "ScreenEnter"

(* No connection but this one has ended. *)
OthersStay(c) == \A d \in Conns \ {c} : conn[d] \in {"new", "up"}

(* A client is only ever sent input between a ScreenEnter and the next     *)
(* ScreenLeave, however its connection breaks: input is never injected     *)
(* into a machine that was not told that it has the focus.  Said until     *)
(* another connection ends: the route may outlive that one, and peers is   *)
(* read again for each message, so that the next in the list gets input it *)
(* was not told of (session.rs:222).  Said, too, of the default layout:    *)
(* over a side with a neighbour the focus also leaves while no client is   *)
(* connected (edge.rs:122), and the first to connect is told nothing.      *)
NoInputOutsideFocus ==
  \A c \in Conns : OthersStay(c) =>
    \A i \in 1 .. Len(outbound[c]) :
      outbound[c][i].type \in {"KeyEvent", "MouseButton", "MouseMoveRelative"}
        => FocusAt(c, i)

(* A client that has been told to leave holds no modifier pressed, however *)
(* the user's key presses interleave with the emergency hotkey and whenever *)
(* its connection breaks.                                                  *)
ReleasedWhenLeft ==
  \A c \in Conns : (OthersStay(c) /\ ~entered[PeerOf[c]])
    => pressed[PeerOf[c]] \cap ModifierKeys = {}

(* Between two peer events with none waiting, the table holds exactly the   *)
(* connections opened since the server last reported the end of one of the *)
(* same machine: none whose end was reported, and of a machine that        *)
(* connects again all but the connections that were open at that report    *)
(* (session.rs:346-348 drops those with the old one, see ReconnectResumes), *)
(* however connections, ends and the two tasks interleave.                 *)
TableTracksConnections ==
  handler = "recv" /\ peer_events = <<>> =>
    Range(peers) = {c \in Conns : conn[c] # "new" /\ c \notin displaced}

(* The emergency hotkey, once drain_capture has received it, gives the     *)
(* input back to this machine, also when the peer reads nothing and the    *)
(* sends of apply_decision block on a full stream.                         *)
EmergencyFreesInput ==
  (decision.kind = "LeaveRemote") ~> (edge.route = None /\ ~capturing)

-----------------------------------------------------------------------------
(* What the repository says and the code does not do *)

(* session.rs:349: "If no peers remain, clear the auto-peer so edge        *)
(* crossings are no-ops again (don't route into a void)": once the         *)
(* disconnection is handled, input is not routed to a peer that is not     *)
(* there.                                                                  *)
NoRouteIntoVoid ==
  pc = "recv" /\ handler = "recv" /\ peer_events = <<>> /\ edge.route # None
    => peers # <<>>

Settled == /\ raw = <<>> /\ sink = <<>> /\ pc = "recv"
           /\ \A c \in Conns : outbound[c] = <<>>

FlagsOf(down) == {ModifierOf[k] : k \in down \cap ModifierKeys}

(* docs/TESTING.md:411, "No stuck modifiers after crossing": once          *)
(* everything has been delivered over connections that never broke, a      *)
(* client holds no modifier that the user does not hold.                   *)
NoStuckModifiers ==
  Settled /\ (\A c \in Conns : conn[c] = "up") =>
    \A p \in Peers : FlagsOf(pressed[p]) \subseteq FlagsOf(held)

(* docs/PROTOCOL.md, Reconnect: the client "re-runs the handshake on a     *)
(* fresh QUIC connection, and resumes": a live connection the server has   *)
(* been told of is in its peer table.                                      *)
ReconnectResumes ==
  handler = "recv" /\ peer_events = <<>> =>
    {c \in Conns : conn[c] = "up"} \subseteq Range(peers)

(* session.rs:334-335: crossings are routed to the connected peer "when no *)
(* explicit layout is configured (the default)": with a layout, the focus  *)
(* leaves this machine only over the sides the layout gives a neighbour.   *)
AutoPeerOnlyWithoutLayout ==
  [][edge.route = None /\ edge'.route # None =>
       \/ \A side \in Sides : Neighbour[side] = None
       \/ Neighbour[CrossedSide(Head(sink))] # None]_vars
=============================================================================
