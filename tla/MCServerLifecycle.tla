--------------------------- MODULE MCServerLifecycle ---------------------------
(* Up to two IPC connections and two runs of the server: one overlap of    *)
(* every pair of requests, and one start after a stop.                     *)
EXTENDS ServerLifecycle

OneHandler  == {"gui"}
TwoHandlers == {"gui", "cli"}
OneClient   == {"c1"}
TwoClients  == {"c1", "c2"}
=============================================================================
