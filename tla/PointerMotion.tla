--------------------------- MODULE PointerMotion ---------------------------
(***************************************************************************)
(* The pointer, from the user's hand to the screen of a Linux client:      *)
(*                                                                         *)
(*   the OS cursor of the server and the hook    platform/windows/capture  *)
(*   drain_capture, which turns positions into   daemon/src/session.rs     *)
(*     movements, and the warp after a crossing                            *)
(*   the client's injector, which only knows     platform/linux/inject.rs  *)
(*     relative motion                                                     *)
(*                                                                         *)
(* One client is connected throughout (InputRouting has the peer table).   *)
(* The two axes are treated alike, so motion is horizontal, on the row     *)
(* Height \div 2 where the warp parks the cursor.  Keys and buttons do not *)
(* touch this state, except the emergency hotkey.                          *)
(***************************************************************************)
EXTENDS EdgeDetector, Sequences

CONSTANTS
  AutoScreen,  \* ScreenId(1), the screen of the connected client
  PeerWidth,   \* width of the client's screen
  Deltas,      \* the movements of the user's hand that are tried
  SinkCap,     \* capacity of the capture channels       (8192, then 4096)
  OutCap,      \* capacity of the client's control stream (256 + 256)
  Counting,    \* whether the history variables are kept
  MaxMoves     \* bound on the movements counted, for TLC

ASSUME PointerAssumption ==
  /\ AutoScreen \in Screens
  /\ PeerWidth \in Nat \ {0}
  /\ Deltas \subseteq Int
  /\ {SinkCap, OutCap, MaxMoves} \subseteq Nat \ {0}
  /\ Counting \in BOOLEAN
  /\ None \notin [type : {"Move"}, x : Int, y : Int, hand : Int, warped : Int]

VARIABLES
  cursor,      \* x of the server's OS cursor
  capturing,   \* HOOK_CAPTURING: key events reach the session
  sink,        \* capture channels: positions and hotkeys not yet drained
  edge,        \* the EdgeDetector
  pc,          \* where drain_capture is
  event,       \* the move it is handling, or None
  decision,    \* the decision it is applying
  last_mouse,  \* its last position, or None
  outbound,    \* the client's control stream
  pointer,     \* x of the client's pointer
  last_pos,    \* LinuxInject.last_pos
  hand,        \* history: the user's motion and the warps in all, the
               \* number of movements, and the last one
  trip         \* history of the current visit to the client: the position
               \* it began at, the motion sent and the motion dropped

serverVars == <<capturing, sink, edge, pc, event, decision, last_mouse>>
clientVars == <<pointer, last_pos>>
vars == <<cursor, serverVars, outbound, clientVars, hand, trip>>

-----------------------------------------------------------------------------
Columns == 0 .. Width - 1

(* The OS keeps a cursor on its screen. *)
Clamp(x, width) == IF x < 0 THEN 0 ELSE IF x >= width THEN width - 1 ELSE x

(* A WM_MOUSEMOVE as the hook reports it; `hand' and `warped' are history. *)
MoveTo(x, h) == [type |-> "Move", x |-> x, y |-> Height \div 2,
                 hand |-> h.total, warped |-> h.warped]

Hotkey == [type |-> "Key", modifiers |-> Modifiers]

NoTrip == [from |-> None, sent |-> 0, dropped |-> 0]

(* Sender::try_send: a full channel drops the message. *)
TrySend(ch, cap, m) == IF Len(ch) < cap THEN Append(ch, m) ELSE ch

Init ==
  /\ cursor \in Columns
  /\ capturing = FALSE
  /\ sink = <<>>
  /\ edge = WithAutoPeer(NewEdge, AutoScreen)
  /\ pc = "recv"
  /\ event = None
  /\ decision = Stay
  /\ last_mouse = None
  /\ outbound = <<>>
  /\ pointer \in 0 .. PeerWidth - 1
  /\ last_pos = 0
  /\ hand = [total |-> 0, warped |-> 0, moves |-> 0, last |-> 0]
  /\ trip = NoTrip

-----------------------------------------------------------------------------
(* The user *)

(* The mouse moves by d.  Moves are not swallowed, so the OS cursor moves  *)
(* whichever machine has the focus; the hook reports where it arrives.     *)
MoveMouse(d) ==
  /\ Counting => hand.moves < MaxMoves
  /\ hand' = IF Counting
             THEN [hand EXCEPT !.total = @ + d, !.moves = @ + 1, !.last = d]
             ELSE [hand EXCEPT !.last = d]
  /\ cursor' = Clamp(cursor + d, Width)
  /\ sink' = TrySend(sink, SinkCap, MoveTo(cursor', hand'))
  /\ UNCHANGED <<capturing, edge, pc, event, decision, last_mouse, outbound,
                 clientVars, trip>>

(* Ctrl+Alt+Shift+Esc; a key passes the gate of drain_thread_main only     *)
(* while capturing.                                                        *)
PressHotkey ==
  /\ capturing
  /\ sink' = TrySend(sink, SinkCap, Hotkey)
  /\ UNCHANGED <<cursor, capturing, edge, pc, event, decision, last_mouse,
                 outbound, clientVars, hand, trip>>

-----------------------------------------------------------------------------
(* drain_capture *)

Receive(type) == pc = "recv" /\ sink # <<>> /\ Head(sink).type = type

ReceiveHotkey ==
  /\ Receive("Key")
  /\ sink' = Tail(sink)
  /\ last_mouse' = None
  /\ edge' = ForcedLocal(edge)
  /\ decision' = ForceLocalDecision(edge)
  /\ pc' = IF decision' = Stay THEN "recv" ELSE "leave"
  /\ UNCHANGED <<cursor, capturing, event, outbound, clientVars, hand, trip>>

(* The rest of apply_decision for LeaveRemote.  ScreenLeave and            *)
(* ModifierSync move no pointer.                                           *)
Leave ==
  /\ pc = "leave"
  /\ capturing' = FALSE
  /\ decision' = Stay
  /\ pc' = "recv"
  /\ trip' = NoTrip
  /\ UNCHANGED <<cursor, sink, edge, event, last_mouse, outbound, clientVars,
                 hand>>

(* A move that stays on this machine: only the position is remembered. *)
ReceiveLocalMove ==
  /\ Receive("Move")
  /\ ~ForwardsRemote(edge, Head(sink))
  /\ sink' = Tail(sink)
  /\ edge' = Observed(edge, Head(sink))
  /\ last_mouse' = Head(sink)
  /\ UNCHANGED <<cursor, capturing, pc, event, decision, outbound, clientVars,
                 hand, trip>>

(* A move that is the client's: the first of them crosses the edge, and    *)
(* the visit begins at the last local position.                            *)
ReceiveRemoteMove ==
  /\ Receive("Move")
  /\ LET e == Head(sink)
     IN  /\ ForwardsRemote(edge, e)
         /\ event' = e
         /\ edge' = Observed(edge, e)
         /\ decision' = Decision(edge, e)
         /\ pc' = IF decision' = Stay THEN "forward" ELSE "enter"
         /\ trip' = IF decision' = Stay \/ ~Counting THEN trip
                    ELSE [NoTrip EXCEPT !.from = IF last_mouse = None
                                                 THEN e ELSE last_mouse]
  /\ sink' = Tail(sink)
  /\ UNCHANGED <<cursor, capturing, last_mouse, outbound, clientVars, hand>>

(* ScreenEnter: send(..).await, which waits for room. *)
SendScreenEnter ==
  /\ pc = "enter"
  /\ Len(outbound) < OutCap
  /\ outbound' = Append(outbound, [type |-> "ScreenEnter", x |-> decision.entry.x])
  /\ pc' = "warp"
  /\ UNCHANGED <<cursor, capturing, sink, edge, event, decision, last_mouse,
                 clientVars, hand, trip>>

(* warp_cursor: SetCursorPos moves the OS cursor under the user's hand; on *)
(* a screen narrower than the warp the OS keeps it on the screen.          *)
Warp ==
  /\ pc = "warp"
  /\ cursor' = Clamp(decision.local_warp.x, Width)
  /\ capturing' = TRUE
  /\ decision' = Stay
  /\ pc' = "forward"
  /\ hand' = IF Counting
             THEN [hand EXCEPT !.warped = @ + cursor' - cursor] ELSE hand
  /\ UNCHANGED <<sink, edge, event, last_mouse, outbound, clientVars, trip>>

(* Mutant: "small deltas are dropped to avoid jitter". *)
NegligibleSmall(dx) == dx \in -1 .. 1

(* The test that lets a movement go unsent. *)
Negligible(dx) == dx = 0

(* The movement sent for position e. *)
Movement(e) == IF last_mouse = None THEN 0 ELSE e.x - last_mouse.x

(* Mutant: the sender waits for nothing and keeps everything. *)
ForwardedUnbounded(dx) ==
  IF Negligible(dx) THEN outbound
  ELSE Append(outbound, [type |-> "MouseMoveRelative", dx |-> dx])

(* PeerHandle::try_send drops the movement when the stream is full. *)
Forwarded(dx) ==
  IF Negligible(dx) THEN outbound
  ELSE TrySend(outbound, OutCap, [type |-> "MouseMoveRelative", dx |-> dx])

ForwardMove ==
  /\ pc = "forward"
  /\ last_mouse' = event
  /\ outbound' = Forwarded(Movement(event))
  /\ trip' = IF ~Counting \/ Negligible(Movement(event)) THEN trip
             ELSE IF outbound' = outbound
             THEN [trip EXCEPT !.dropped = @ + Movement(event)]
             ELSE [trip EXCEPT !.sent = @ + Movement(event)]
  /\ event' = None
  /\ pc' = "recv"
  /\ UNCHANGED <<cursor, capturing, sink, edge, decision, clientVars, hand>>

-----------------------------------------------------------------------------
(* inbound_loop of the client and LinuxInject::inject *)

(* Move{x, y}: a relative motion from the last known position. *)
InjectMove ==
  /\ outbound # <<>>
  /\ Head(outbound).type = "ScreenEnter"
  /\ pointer' = Clamp(pointer + (Head(outbound).x - last_pos), PeerWidth)
  /\ last_pos' = Head(outbound).x
  /\ outbound' = Tail(outbound)
  /\ UNCHANGED <<cursor, serverVars, hand, trip>>

InjectMoveRelative ==
  /\ outbound # <<>>
  /\ Head(outbound).type = "MouseMoveRelative"
  /\ pointer' = Clamp(pointer + Head(outbound).dx, PeerWidth)
  /\ last_pos' = last_pos + Head(outbound).dx
  /\ outbound' = Tail(outbound)
  /\ UNCHANGED <<cursor, serverVars, hand, trip>>

-----------------------------------------------------------------------------
Drain == \/ ReceiveHotkey \/ Leave
         \/ ReceiveLocalMove \/ ReceiveRemoteMove
         \/ SendScreenEnter \/ Warp \/ ForwardMove

Client == InjectMove \/ InjectMoveRelative

User == PressHotkey \/ \E d \in Deltas : MoveMouse(d)

Next == User \/ Drain \/ Client

Spec == Init /\ [][Next]_vars

(* The tasks run, and the user keeps pushing the mouse to the left. *)
PushingSpec ==
  /\ Spec
  /\ WF_vars(Drain)
  /\ WF_vars(Client)
  /\ WF_vars(MoveMouse(-1))

-----------------------------------------------------------------------------
(* Properties *)

Position == [type : {"Move"}, x : Columns, y : {Height \div 2},
             hand : Int, warped : Int]

(* Every variable keeps to its Rust type, and every channel to its capacity. *)
TypeOK ==
  /\ cursor \in Columns
  /\ pointer \in 0 .. PeerWidth - 1
  /\ last_pos \in Int
  /\ capturing \in BOOLEAN
  /\ sink \in Seq(Position \cup {Hotkey}) /\ Len(sink) <= SinkCap
  /\ edge \in EdgeState
  /\ pc \in {"recv", "leave", "enter", "warp", "forward"}
  /\ {event, last_mouse} \subseteq Position \cup {None}
  /\ outbound \in Seq([type : {"ScreenEnter"}, x : Int]
                        \cup [type : {"MouseMoveRelative"}, dx : Int])
  /\ Len(outbound) <= OutCap

(* drain_capture waits for the next move of a visit to the client. *)
Visiting == Counting /\ edge.route # None /\ pc = "recv" /\ last_mouse # None

(* What was observed since the visit began: how far the cursor went, how   *)
(* far the user moved his hand, and how far the cursor was warped.         *)
CursorWent == last_mouse.x - trip.from.x
HandWent   == last_mouse.hand - trip.from.hand
WarpWent   == last_mouse.warped - trip.from.warped

(* The movements offered to the stream since the visit began add up to how *)
(* far the observed cursor has gone from the last local position: whatever *)
(* positions were lost on the way from the hook, the next one makes up for *)
(* them (session.rs:227-249, "so the first remote delta is correct").      *)
MotionTelescopes == Visiting => trip.sent + trip.dropped = CursorWent

(* The client sees how far the user moved, not where the cursor is         *)
(* (session.rs:224-227), as long as nothing was dropped and no border hid  *)
(* a movement.  The first position after the warp breaks it: the jump of   *)
(* the warp is sent as if the user had made it.                            *)
WarpIsNoMotion ==
  (Visiting /\ trip.dropped = 0 /\ CursorWent = HandWent + WarpWent) =>
    trip.sent = HandWent

(* The same, the jump of the warp discounted.  The cursor is parked two    *)
(* pixels from the border it crossed, and the border absorbs the motion of *)
(* a user who goes on in that direction.                                   *)
BorderHidesNoMotion ==
  (Visiting /\ trip.dropped = 0) => trip.sent = HandWent + WarpWent

(* The pointer appears at the entry point when the focus arrives (edge.rs: *)
(* 182, "Point on the far screen where the cursor should appear after      *)
(* crossing"), which the injector clamps to the screen.                    *)
EntersAtEntryPoint ==
  [][InjectMove => pointer' = Clamp(Head(outbound).x, PeerWidth)]_vars

(* A user who from some moment on only moves the mouse left gets control   *)
(* back, again and again (docs/TESTING.md:280-281).                        *)
ReturnsByMouse == <>[](hand.last = -1) => []<>(edge.route = None)
=============================================================================
