---------------------------- MODULE EdgeDetector ----------------------------
(***************************************************************************)
(* The routing decisions of the server (crates/daemon/src/edge.rs), as     *)
(* pure operators on the state of one EdgeDetector:                        *)
(*                                                                         *)
(*   route      None for Route::Local, a screen for Route::Remote(screen)  *)
(*   modifiers  the modifier flags carried by the last key event observed  *)
(*   auto_peer  the screen every edge leads to when the layout names no    *)
(*              neighbour, None when no client is connected                *)
(*                                                                         *)
(* `last_point' is left out: it is written by observe and read only in the *)
(* same call.  The layout, the local screen and its size never change, so  *)
(* they are constants.                                                     *)
(***************************************************************************)
EXTENDS Integers

CONSTANTS
  None,         \* Option::None (and Route::Local)
  Screens,      \* the ids of remote screens
  Modifiers,    \* the modifier flags
  Width,        \* width of the local screen in pixels
  Height,       \* height of the local screen in pixels
  Neighbour     \* the layout: side of the local screen -> screen or None

Sides == {"Left", "Right", "Top", "Bottom"}

ASSUME EdgeAssumption ==
  /\ None \notin Screens
  /\ None \notin Sides
  /\ Width \in Nat \ {0}
  /\ Height \in Nat \ {0}
  /\ Neighbour \in [Sides -> Screens \cup {None}]

EdgeState == [route     : Screens \cup {None},
              modifiers : SUBSET Modifiers,
              auto_peer : Screens \cup {None}]

(* EdgeDetector::new *)
NewEdge == [route |-> None, modifiers |-> {}, auto_peer |-> None]

(* `edge_threshold', fixed to 1 by the constructor. *)
Threshold == 1

(* cross_local_edge: the tests are made in this order, so a corner counts  *)
(* as its vertical side.                                                   *)
CrossedSide(p) ==
  IF p.x <= Threshold THEN "Left"
  ELSE IF p.x >= Width - Threshold THEN "Right"
  ELSE IF p.y <= Threshold THEN "Top"
  ELSE IF p.y >= Height - Threshold THEN "Bottom"
  ELSE None

(* Where a cursor at p leads: the configured neighbour of the side it      *)
(* touches, or else the auto-peer.                                         *)
Destination(edge, p) ==
  LET side == CrossedSide(p)
  IN  IF side = None THEN None
      ELSE IF Neighbour[side] # None THEN Neighbour[side]
      ELSE edge.auto_peer

(* entry_point: 32000 stands for "beyond the far side of any screen"; the  *)
(* injector of the peer clamps it.                                         *)
FarSide == 32000

EntryPoint(side, p) ==
  [x |-> IF side = "Left" THEN FarSide ELSE IF side = "Right" THEN 0 ELSE p.x,
   y |-> IF side = "Top" THEN FarSide ELSE IF side = "Bottom" THEN 0 ELSE p.y]

(* warp_back_inside: where the local cursor is parked after a crossing. *)
WarpBackInside(side) ==
  [x |-> IF side = "Left" THEN 2
         ELSE IF side = "Right" THEN Width - 2 ELSE Width \div 2,
   y |-> IF side = "Top" THEN 2
         ELSE IF side = "Bottom" THEN Height - 2 ELSE Height \div 2]

(* RouteDecision *)
Stay == [kind |-> "Stay"]

EnterRemote(screen, side, p, modifiers) ==
  [kind       |-> "EnterRemote",
   screen     |-> screen,
   entry      |-> EntryPoint(side, p),
   local_warp |-> WarpBackInside(side),
   modifiers  |-> modifiers]

LeaveRemote(screen) == [kind |-> "LeaveRemote", screen |-> screen]

(* The first lines of observe: a key event (and a ModifierSync, which no   *)
(* capture produces) carries the modifiers that the detector remembers.    *)
Noted(edge, event) ==
  IF event.type \in {"Key", "ModifierSync"}
  THEN [edge EXCEPT !.modifiers = event.modifiers]
  ELSE edge

Crosses(edge, event) ==
  /\ event.type = "Move"
  /\ edge.route = None
  /\ Destination(edge, event) # None

(* observe: the detector after the event, the decision it returns, and     *)
(* whether the event is forwarded to the peer (ForwardTo::Remote).  Once   *)
(* the route is remote no event brings it back.                            *)
Observed(edge, event) ==
  IF Crosses(edge, event)
  THEN [Noted(edge, event) EXCEPT !.route = Destination(edge, event)]
  ELSE Noted(edge, event)

Decision(edge, event) ==
  IF Crosses(edge, event)
  THEN EnterRemote(Destination(edge, event), CrossedSide(event), event,
                   Noted(edge, event).modifiers)
  ELSE Stay

ForwardsRemote(edge, event) == Observed(edge, event).route # None

(* force_local: the detector after it, and the decision it returns. *)
ForcedLocal(edge) == [edge EXCEPT !.route = None]

(* Mutant: the route is cleared before it is read. *)
ForceLocalDecisionLate(edge) ==
  IF ForcedLocal(edge).route = None THEN Stay ELSE LeaveRemote(edge.route)

ForceLocalDecision(edge) ==
  IF edge.route = None THEN Stay ELSE LeaveRemote(edge.route)

(* set_auto_peer *)
WithAutoPeer(edge, screen) == [edge EXCEPT !.auto_peer = screen]
=============================================================================
