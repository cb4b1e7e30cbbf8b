-------------------------- MODULE MCPointerMotion --------------------------
(***************************************************************************)
(* Small instances of PointerMotion: a server screen of 8 columns, a       *)
(* client screen of 6, and no layout, so that every edge leads to the      *)
(* client.                                                                 *)
(***************************************************************************)
EXTENDS PointerMotion

MCScreens   == {1}
MCNeighbour == [s \in Sides |-> None]
MCModifiers == {"CTRL"}

Steps   == {-3, 1, 2}
OneStep == {-1, 1}
=============================================================================
