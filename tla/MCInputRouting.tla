--------------------------- MODULE MCInputRouting ---------------------------
(***************************************************************************)
(* Small instances of InputRouting for TLC: a 5 x 5 screen, one modifier   *)
(* with its left and right key (the emergency chord is that modifier and   *)
(* Escape), no neighbour in the layout, so that the auto-peer decides.     *)
(***************************************************************************)
EXTENDS InputRouting, TLC

MCScreens   == {1}
MCNeighbour == [s \in Sides |-> None]
MCModifiers == {"SHIFT"}

(* A layout: the client is to the right of this screen. *)
MCRightOnly == [s \in Sides |-> IF s = "Right" THEN 1 ELSE None]

MCKeys       == {"LeftShift", "Escape"}
MCModifierOf == [k \in MCKeys |-> IF k = "Escape" THEN None ELSE "SHIFT"]
MCLeftKey    == [m \in MCModifiers |-> "LeftShift"]

Inside == [x |-> 3, y |-> 2]
AtEdge == [x |-> 4, y |-> 2]

MCPoints == {Inside, AtEdge}
EdgeOnly == {AtEdge}
LeftEdge == {[x |-> 0, y |-> 2]}

(* Connections of distinct machines, and two of the same machine. *)
MCConn1 == {"c1"}
MCConn2 == {"c1", "c2"}
MCPeer1 == {"p1"}
MCPeer2 == {"p1", "p2"}
Own      == [c \in MCConn2 |-> IF c = "c1" THEN "p1" ELSE "p2"]
One      == [c \in MCConn1 |-> "p1"]
Same     == [c \in MCConn2 |-> "p1"]
=============================================================================
