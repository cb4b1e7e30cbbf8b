----------------------------- MODULE DaemonStartup -----------------------------
(***************************************************************************)
(* What a process of the daemon's binary does from exec until it answers   *)
(* on the IPC socket, and the files it shares with every other such        *)
(* process: the configuration, the pair cert.der / key.der and the socket. *)
(*                                                                         *)
(* A process is one of Procs and lives once. It is started as "run" or as  *)
(* "fingerprint", the subcommand that prints the certificate's fingerprint *)
(* and exits. fs::write is two steps, the truncation and the write: a      *)
(* process that dies in between leaves the file there, "torn". The key     *)
(* pair that a process generates is named after the process. This is the   *)
(* Unix socket; a named pipe has no file and nothing to unlink.            *)
(***************************************************************************)
EXTENDS Naturals, FiniteSets

CONSTANTS
  Procs,     \* processes that may ever run
  NoProc     \* no process

Roles == {"server", "client"}

(* What stands in a file instead of a process is none. *)
ASSUME StartupAssumption ==
  NoProc \notin Procs /\ {"none", "torn"} \cap Procs = {}

VARIABLES
  config,    \* inputsync.toml: its role, "none" or "torn"
  cert,      \* cert.der: the process that generated it, "none" or "torn"
  key,       \* key.der, likewise
  socket,    \* inputsync.sock: the process that bound it, or NoProc
  proc,      \* every process: its step and what it has in memory
  shown,     \* fingerprints that a user has been shown
  overlap    \* two processes have been at the key pair at the same time

files   == <<config, cert, key, socket>>
seen    == <<shown, overlap>>
startup == <<files, proc, seen>>

(* No process yet, and one that has ended. *)
Unborn == [step |-> "none", command |-> "run", role |-> "none",
           identity |-> "none", secret |-> "none"]
Dead   == [Unborn EXCEPT !.step = "dead"]

(* Somewhere in tls::load_or_generate. *)
Certifying(p) ==
  proc[p].step \in {"look", "readCert", "readKey", "certOpen", "certWrite", "keyOpen", "keyWrite"}

Alive(p)      == proc[p].step \notin {"none", "dead"}
Ready(p)      == proc[p].step = "ready"
Fresh         == {p \in Procs : proc[p] = Unborn}

StartupInit ==
  /\ config \in {"none"} \cup Roles /\ cert = "none" /\ key = "none"
  /\ socket = NoProc
  /\ proc = [p \in Procs |-> Unborn]
  /\ shown = {} /\ overlap = FALSE

Spawned(f, p, c) == [f EXCEPT ![p] = [Unborn EXCEPT !.step = "exec", !.command = c]]
Ended(f, p)      == [f EXCEPT ![p] = Dead]
Goto(p, s)       == proc' = [proc EXCEPT ![p].step = s]

-----------------------------------------------------------------------------
(* app::run: the configuration. A missing file means the default, a server; *)
(* one that does not parse ends the daemon. print_fingerprint reads none.   *)
(* Mutant: a missing file is not defaulted. *)
RoleOfRaw == config

RoleOf == IF config \in Roles THEN config ELSE "server"

LoadConfig(p) ==
  /\ proc[p].step = "exec"
  /\ \/ /\ proc[p].command = "run" /\ config = "torn"
        /\ proc' = Ended(proc, p) /\ UNCHANGED overlap
     \/ /\ proc[p].command = "run" => config # "torn"
        /\ proc' = [proc EXCEPT ![p].step = "look",
                                ![p].role = IF proc[p].command = "run" THEN RoleOf ELSE @]
        /\ overlap' = (overlap \/ \E q \in Procs \ {p} : Certifying(q))
  /\ UNCHANGED <<files, shown>>

(* tls::load_or_generate: load what is there, generate when a file is      *)
(* missing. The look, the two reads and the two writes are calls of their  *)
(* own; nothing ever deletes a file of the pair.                           *)

(* Mutant: the certificate alone decides. *)
PairExistsCert == cert # "none"

PairExists == cert # "none" /\ key # "none"

LookForPair(p) ==
  /\ proc[p].step = "look"
  /\ Goto(p, IF PairExists THEN "readCert" ELSE "certOpen")
  /\ UNCHANGED <<files, seen>>

ReadCert(p) ==
  /\ proc[p].step = "readCert"
  /\ proc' = [proc EXCEPT ![p].step = "readKey", ![p].identity = cert]
  /\ UNCHANGED <<files, seen>>

(* After the pair, id over k: a daemon goes on to its socket, the other    *)
(* subcommand prints the fingerprint and ends.                             *)
Certified(p, id, k) ==
  \/ /\ proc[p].command = "run"
     /\ proc' = [proc EXCEPT ![p].step = "unlink", ![p].identity = id, ![p].secret = k]
     /\ UNCHANGED shown
  \/ /\ proc[p].command = "fingerprint"
     /\ proc' = Ended(proc, p)
     /\ shown' = shown \cup {id}

ReadKey(p) ==
  /\ proc[p].step = "readKey"
  /\ Certified(p, proc[p].identity, key)
  /\ UNCHANGED <<files, overlap>>

CertOpen(p) ==
  /\ proc[p].step = "certOpen"
  /\ cert' = "torn"
  /\ Goto(p, "certWrite")
  /\ UNCHANGED <<config, key, socket, seen>>

CertWrite(p) ==
  /\ proc[p].step = "certWrite"
  /\ cert' = p
  /\ Goto(p, "keyOpen")
  /\ UNCHANGED <<config, key, socket, seen>>

KeyOpen(p) ==
  /\ proc[p].step = "keyOpen"
  /\ key' = "torn"
  /\ Goto(p, "keyWrite")
  /\ UNCHANGED <<config, cert, socket, seen>>

KeyWrite(p) ==
  /\ proc[p].step = "keyWrite"
  /\ key' = p
  /\ Certified(p, p, p)
  /\ UNCHANGED <<config, cert, socket, overlap>>

(* transport::listen: whatever is at the path is removed, then bound. *)
Unlink(p) ==
  /\ proc[p].step = "unlink"
  /\ socket' = NoProc
  /\ Goto(p, "bind")
  /\ UNCHANGED <<config, cert, key, seen>>

(* A path that somebody has bound since is an error, and ends the daemon. *)
Bind(p) ==
  /\ proc[p].step = "bind"
  /\ \/ /\ socket = NoProc
        /\ socket' = p
        /\ shown' = shown \cup {proc[p].identity}
        /\ Goto(p, "ready")
     \/ socket # NoProc /\ proc' = Ended(proc, p) /\ UNCHANGED <<socket, shown>>
  /\ UNCHANGED <<config, cert, key, overlap>>

(* Shutdown over IPC, ctrl-c, or a crash. The socket file is left. *)
Exit(p) ==
  /\ Alive(p)
  /\ proc' = Ended(proc, p)
  /\ UNCHANGED <<files, seen>>

Step(p) ==
  \/ LoadConfig(p) \/ LookForPair(p) \/ ReadCert(p) \/ ReadKey(p)
  \/ CertOpen(p) \/ CertWrite(p) \/ KeyOpen(p) \/ KeyWrite(p)
  \/ Unlink(p) \/ Bind(p)

Contents == {"none", "torn"} \cup Procs

Process == [step : {"none", "exec", "look", "readCert", "readKey", "certOpen", "certWrite",
                    "keyOpen", "keyWrite", "unlink", "bind", "ready", "dead"},
            command : {"run", "fingerprint"}, role : Roles \cup {"none"},
            identity : Contents, secret : Contents]

StartupTypeOK ==
  /\ config \in {"none", "torn"} \cup Roles
  /\ cert \in Contents /\ key \in Contents /\ socket \in Procs \cup {NoProc}
  /\ proc \in [Procs -> Process]
  /\ \A p \in Procs : proc[p].command = "run" /\ proc[p].step \notin {"none", "exec", "dead"}
                       => proc[p].role \in Roles
  /\ shown \subseteq Contents /\ overlap \in BOOLEAN
=============================================================================
