------------------------------ MODULE MCPeerTasks ------------------------------
EXTENDS PeerTasks

MCFlooded == {"server"}
MCStreams == {"client"}
NoCopies == [e \in Ends |-> 0]
ClientCopies == [e \in Ends |-> IF e = "client" THEN 1 ELSE 0]
ServerCopies == [e \in Ends |-> IF e = "server" THEN 1 ELSE 0]
NoTypes == {}
TooLongData == {"data"}
=============================================================================
