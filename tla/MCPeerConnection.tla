-------------------------- MODULE MCPeerConnection --------------------------
(***************************************************************************)
(* Small instances of PeerConnection: two versions that may meet, and      *)
(* payloads of 0, 2 and 3 bytes with a limit of 2.                         *)
(***************************************************************************)
EXTENDS PeerConnection

MCVersions == {1, 2}
MCSizes    == {0, 2, 3}
=============================================================================
