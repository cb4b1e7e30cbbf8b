-------------------------- MODULE MCClientSupervisor --------------------------
(* Two servers and three or four requests: enough for a dial that replaces *)
(* a dial, a hang-up and a second connection to the same server.           *)
EXTENDS ClientSupervisor

MCServers == {"s1", "s2"}
=============================================================================
