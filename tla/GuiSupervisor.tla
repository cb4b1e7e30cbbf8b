----------------------------- MODULE GuiSupervisor -----------------------------
(***************************************************************************)
(* The GUI as the owner of the daemon: the UI thread, its                  *)
(* DaemonSupervisor, the first-run role picker and the loop that polls     *)
(* GetStatus, next to the daemons of DaemonStartup. Every click comes      *)
(* after the frame's own launch check, which is an action of its own: what *)
(* happens in between can happen in the program as well. A GUI that is     *)
(* killed runs no destructor; its child goes on as a stray.                *)
(***************************************************************************)
EXTENDS DaemonStartup

CONSTANTS
  Cooldown,     \* ticks between two automatic launches
  MaxClicks,    \* bound: buttons pressed and windows opened or closed
  MaxFaults,    \* bound: daemons that end, and a GUI that is killed
  MaxTerminal   \* bound: processes started in a terminal

ASSUME SupervisorAssumption ==
  /\ Cooldown \in Nat \ {0}
  /\ {MaxClicks, MaxFaults, MaxTerminal} \subseteq Nat

VARIABLES
  gui,          \* "closed", "frame", or the step of a role choice
  child,        \* DaemonSupervisor.child
  binary,       \* the binary was found when the supervisor was created
  installed,    \* the binary is on the disk
  decided,      \* role_decided
  choice,       \* the role being applied
  launchError,  \* supervisor_error is set
  elapsed,      \* ticks since last_launch_attempt
  poll,         \* the daemon the poll loop is connected to
  status,       \* role in the last StatusReply, or "none"
  unreachable,  \* SharedState.error is set
  strays,       \* live or dead processes no GUI owns
  clicks, faults, terminals

window  == <<gui, decided, choice, launchError, elapsed>>
polling == <<poll, status, unreachable>>
budget  == <<clicks, faults, terminals>>
vars == <<startup, window, child, binary, installed, polling, strays, budget>>

(* Mutant: a child that has exited is not reaped. *)
RunningUnreaped == child # NoProc

(* is_running *)
Running == child # NoProc /\ Alive(child)

SupervisorInit ==
  /\ gui = "closed" /\ child = NoProc
  /\ binary = FALSE /\ installed \in BOOLEAN /\ decided = FALSE
  /\ choice = "none" /\ launchError = FALSE /\ elapsed = Cooldown
  /\ poll = NoProc /\ status = "none" /\ unreachable = FALSE
  /\ strays = {} /\ clicks = 0 /\ faults = 0 /\ terminals = 0

Init == StartupInit /\ SupervisorInit

Click == clicks < MaxClicks /\ clicks' = clicks + 1 /\ UNCHANGED <<faults, terminals>>

-----------------------------------------------------------------------------
(* DaemonSupervisor *)

Stopped == IF child = NoProc THEN proc ELSE Ended(proc, child)

(* The processes are alike: which one is next does not matter. *)
NextProc == CHOOSE p \in Fresh : TRUE

(* ensure_running when no child is alive, from the processes f; ok is      *)
(* whether it returns Ok.                                                  *)
Launch(f, ok) ==
  /\ elapsed' = 0
  /\ \/ /\ binary /\ ok = TRUE /\ Fresh # {}
        /\ proc' = Spawned(f, NextProc, "run") /\ child' = NextProc
     \/ ~binary /\ ok = FALSE /\ proc' = f /\ child' = NoProc

(* Mutant: a restart that leaves a running child alone. *)
RestartKeepsChild(ok) ==
  IF Running THEN ok = TRUE /\ UNCHANGED <<proc, child, elapsed>> ELSE Launch(proc, ok)

(* stop, then ensure_running *)
Restart(ok) == Launch(Stopped, ok)

(* What the GUI does to a process changes neither the files nor what was seen. *)
ProcessOnly == UNCHANGED <<files, seen>>

(* Mutant: the destructor forgets the child. *)
DropForgets == proc' = proc /\ child' = NoProc

(* Drop for DaemonSupervisor *)
Drop == proc' = Stopped /\ child' = NoProc

-----------------------------------------------------------------------------
(* The window *)

(* InputSyncApp::new, and the first frame, which starts the poll loop *)
OpenGui ==
  /\ gui = "closed" /\ Click
  /\ gui' = "frame"
  /\ decided' = (config # "none") /\ binary' = installed
  /\ UNCHANGED <<startup, choice, launchError, elapsed, child, installed, polling, strays>>

(* Nothing in the memory of the GUI outlives it. *)
Forgotten ==
  /\ gui' = "closed"
  /\ binary' = FALSE /\ decided' = FALSE /\ choice' = "none"
  /\ launchError' = FALSE /\ elapsed' = Cooldown
  /\ poll' = NoProc /\ status' = "none" /\ unreachable' = FALSE

CloseGui ==
  /\ gui = "frame" /\ Click
  /\ Forgotten /\ Drop
  /\ ProcessOnly /\ UNCHANGED <<installed, strays>>

KillGui ==
  /\ gui # "closed" /\ faults < MaxFaults /\ faults' = faults + 1
  /\ Forgotten /\ child' = NoProc
  /\ strays' = strays \cup ({child} \ {NoProc})
  /\ UNCHANGED <<startup, installed, clicks, terminals>>

(* ensure_running_throttled at the top of update *)
TooSoon == elapsed < Cooldown

Frame ==
  /\ gui = "frame" /\ decided
  /\ \/ /\ Running
        /\ launchError' = FALSE
        /\ UNCHANGED <<proc, child, elapsed>>
     \/ /\ ~Running /\ ~TooSoon
        /\ \E ok \in BOOLEAN : Launch(proc, ok) /\ launchError' = ~ok
  /\ ProcessOnly
  /\ UNCHANGED <<gui, decided, choice, binary, installed, polling, strays, budget>>

ChangeRole ==
  /\ gui = "frame" /\ decided /\ Click
  /\ decided' = FALSE
  /\ UNCHANGED <<startup, gui, choice, launchError, elapsed, child, binary, installed,
                 polling, strays>>

(* apply_role_choice: load_or_default and the truncation of Config::save, *)
(* then its write, then the restart.                                      *)
PickRole ==
  /\ gui = "frame" /\ ~decided /\ Click
  /\ choice' \in Roles
  /\ config' = "torn" /\ gui' = "save"
  /\ UNCHANGED <<cert, key, socket, proc, seen, decided, launchError, elapsed, child,
                 binary, installed, polling, strays>>

SaveRole ==
  /\ gui = "save"
  /\ config' = choice /\ gui' = "apply"
  /\ UNCHANGED <<cert, key, socket, proc, seen, decided, choice, launchError, elapsed,
                 child, binary, installed, polling, strays, budget>>

ApplyRole ==
  /\ gui = "apply" /\ gui' = "frame"
  /\ \E ok \in BOOLEAN :
       /\ Restart(ok)
       /\ decided' = ok /\ launchError' = ~ok
  /\ choice' = "none"
  /\ ProcessOnly
  /\ UNCHANGED <<binary, installed, polling, strays, budget>>

(* The two buttons. Retry drops the result of its restart. *)
RetryLaunch ==
  /\ gui = "frame" /\ decided /\ launchError /\ Click
  /\ \E ok \in BOOLEAN : Restart(ok)
  /\ launchError' = FALSE
  /\ ProcessOnly
  /\ UNCHANGED <<gui, decided, choice, binary, installed, polling, strays>>

RestartDaemon ==
  /\ gui = "frame" /\ decided /\ ~launchError /\ unreachable /\ Click
  /\ \E ok \in BOOLEAN : Restart(ok) /\ launchError' = ~ok
  /\ ProcessOnly
  /\ UNCHANGED <<gui, decided, choice, binary, installed, polling, strays>>

Tick ==
  /\ gui # "closed" /\ TooSoon
  /\ elapsed' = elapsed + 1
  /\ UNCHANGED <<startup, gui, decided, choice, launchError, child, binary, installed,
                 polling, strays, budget>>

-----------------------------------------------------------------------------
(* poll_once: connect, GetStatus, the reply. A path that is not bound, or  *)
(* whose owner has gone, refuses the connection.                           *)

Listening == socket # NoProc /\ Ready(socket)

PollConnect ==
  /\ gui # "closed" /\ poll = NoProc
  /\ \/ Listening /\ poll' = socket /\ UNCHANGED unreachable
     \/ ~Listening /\ unreachable' = TRUE /\ UNCHANGED poll
  /\ UNCHANGED <<startup, window, child, binary, installed, status, strays, budget>>

PollAnswer ==
  /\ gui # "closed" /\ poll # NoProc /\ poll' = NoProc
  /\ \/ Ready(poll) /\ status' = proc[poll].role /\ unreachable' = FALSE
     \/ ~Ready(poll) /\ unreachable' = TRUE /\ UNCHANGED status
  /\ UNCHANGED <<startup, window, child, binary, installed, strays, budget>>

-----------------------------------------------------------------------------
(* What goes on around the GUI *)

Install ==
  /\ ~installed /\ installed' = TRUE
  /\ UNCHANGED <<startup, window, child, binary, polling, strays, budget>>

TerminalRun ==
  /\ installed /\ terminals < MaxTerminal /\ terminals' = terminals + 1
  /\ Fresh # {}
  /\ \E c \in {"run", "fingerprint"} : proc' = Spawned(proc, NextProc, c)
  /\ strays' = strays \cup {NextProc}
  /\ UNCHANGED <<files, seen, window, child, binary, installed,
                 polling, clicks, faults>>

DaemonEnds ==
  /\ faults < MaxFaults /\ faults' = faults + 1
  /\ \E p \in Procs : Exit(p)
  /\ UNCHANGED <<window, child, binary, installed, polling, strays, clicks, terminals>>

DaemonStep(p) ==
  /\ Step(p)
  /\ UNCHANGED <<window, child, binary, installed, polling, strays, budget>>

User == OpenGui \/ CloseGui \/ ChangeRole \/ PickRole \/ RetryLaunch \/ RestartDaemon
System == Frame \/ Tick \/ SaveRole \/ ApplyRole \/ PollConnect \/ PollAnswer
World == KillGui \/ Install \/ TerminalRun \/ DaemonEnds

Next == User \/ System \/ World \/ \E p \in Procs : DaemonStep(p)

(* The UI thread repaints at least every 500 ms once a role is decided,    *)
(* the poll loop runs every second, processes run; nobody has to click.    *)
Fairness ==
  /\ WF_vars(Frame) /\ WF_vars(Tick) /\ WF_vars(SaveRole) /\ WF_vars(ApplyRole)
  /\ WF_vars(PollConnect) /\ WF_vars(PollAnswer)
  /\ \A p \in Procs : WF_vars(DaemonStep(p))

Spec == Init /\ [][Next]_vars /\ Fairness

-----------------------------------------------------------------------------
(* Every variable has its type. *)
TypeOK ==
  /\ StartupTypeOK
  /\ gui \in {"closed", "frame", "save", "apply"} /\ child \in Procs \cup {NoProc}
  /\ {binary, installed, decided, launchError, unreachable} \subseteq BOOLEAN
  /\ choice \in Roles \cup {"none"} /\ elapsed \in 0..Cooldown
  /\ poll \in Procs \cup {NoProc} /\ status \in Roles \cup {"none"}
  /\ strays \subseteq Procs
  /\ clicks \in 0..MaxClicks /\ faults \in 0..MaxFaults /\ terminals \in 0..MaxTerminal

(* DaemonSupervisor never loses track of a daemon it launched: whatever    *)
(* runs is the child, was started in a terminal or was left by a GUI that  *)
(* was killed, and a window that is closed leaves nothing of its own       *)
(* ("Reap the child when the GUI closes so we don't orphan it").           *)
NoStrayDaemon ==
  /\ {p \in Procs : Alive(p)} \subseteq strays \cup {child}
  /\ gui = "closed" => child = NoProc

(* A daemon that is the GUI's child runs in the role the user chose last:  *)
(* the restart of a role change comes after the save, and no child that    *)
(* read the former role survives it.                                       *)
RoleApplied ==
  gui = "frame" /\ Running /\ proc[child].step # "exec" => proc[child].role = config

(* As long as no two processes are at the key pair at once, crashes        *)
(* between its two writes included, the fingerprint a user was shown stays *)
(* the fingerprint, and what is presented is backed by its key or by none. *)
FingerprintKept ==
  ~overlap =>
    /\ Cardinality(shown) <= 1
    /\ \A p \in Procs : Ready(p) => proc[p].secret \in {proc[p].identity, "torn"}

(* Once the window stays open on a decided role with a binary to launch    *)
(* and nothing else runs, the supervisor gets a daemon up, and the window  *)
(* shows its role; or, when the socket's path is another's, says so.       *)
Quiet ==
  /\ gui = "frame" /\ decided /\ binary /\ config \in Roles
  /\ (Running \/ Fresh # {}) /\ \A p \in strays : ~Alive(p)

Settled ==
  /\ Running /\ Ready(child)
  /\ IF socket = child THEN status = config /\ ~unreachable /\ ~launchError
                       ELSE unreachable

GuiSettles == <>[]Quiet => <>[]Settled

-----------------------------------------------------------------------------
(* Statements the code does not keep. *)

(* tls::load_or_generate: "Load a previously generated cert/key pair, or   *)
(* generate a fresh one if missing": a pair without a key is loaded.       *)
PairUsable == \A p \in Procs : Ready(p) => proc[p].secret = proc[p].identity

(* The fingerprint the user copied stays the server's, whoever ran first.  *)
OneFingerprint == Cardinality(shown) <= 1

(* The window reaches the daemon it keeps running. *)
ChildReachable == <>[]Quiet => <>[](socket = child)

(* "Install InputSync ... Retry launch": a binary installed while the      *)
(* window shows the error is found.                                        *)
InstalledIsFound == <>[](gui = "frame" /\ decided /\ installed) => <>(child # NoProc)
=============================================================================
