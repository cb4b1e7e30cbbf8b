-------------------------- MODULE GuiSupervisorProofs --------------------------
(***************************************************************************)
(* Theorems about GuiSupervisor for any set of processes and any bounds on *)
(* clicks, crashes and daemons of a terminal.                              *)
(***************************************************************************)
EXTENDS GuiSupervisor, FiniteSetTheorems, TLAPS

-----------------------------------------------------------------------------
(* Type correctness *)

(* The role of a daemon that has read its configuration is known. *)
RolesRead(f) ==
  \A p \in Procs : f[p].command = "run" /\ f[p].step \notin {"none", "exec", "dead"}
                    => f[p].role \in Roles

ProcsOK(f) == f \in [Procs -> Process] /\ RolesRead(f)

LEMMA UnbornType == Unborn \in Process /\ Dead \in Process
BY DEF Unborn, Dead, Process, Contents, Roles

LEMMA SpawnedType ==
  ASSUME NEW f, ProcsOK(f), NEW p \in Procs, NEW c \in {"run", "fingerprint"}
  PROVE  ProcsOK(Spawned(f, p, c))
<1> DEFINE e == [Unborn EXCEPT !.step = "exec", !.command = c]
<1>1. e \in Process /\ e.step = "exec"
  BY DEF Unborn, Process, Contents, Roles
<1>2. Spawned(f, p, c) = [f EXCEPT ![p] = e]
  BY DEF Spawned
<1> HIDE DEF e
<1> QED BY <1>1, <1>2 DEF ProcsOK, RolesRead

LEMMA EndedType ==
  ASSUME NEW f, ProcsOK(f), NEW p \in Procs
  PROVE  ProcsOK(Ended(f, p))
<1>1. Dead \in Process /\ Dead.step = "dead"
  BY UnbornType DEF Dead, Unborn
<1> QED BY <1>1 DEF ProcsOK, RolesRead, Ended

(* A process that goes on keeps the role it has read. *)
LEMMA OnwardType ==
  ASSUME ProcsOK(proc), NEW p \in Procs, proc[p].step \notin {"none", "exec", "dead"},
         NEW e \in Process, e.command = proc[p].command, e.role = proc[p].role,
         proc' = [proc EXCEPT ![p] = e]
  PROVE  ProcsOK(proc')
BY DEF ProcsOK, RolesRead

LEMMA StartupTypeEquiv ==
  StartupTypeOK <=>
    /\ config \in {"none", "torn"} \cup Roles
    /\ cert \in Contents /\ key \in Contents /\ socket \in Procs \cup {NoProc}
    /\ ProcsOK(proc)
    /\ shown \subseteq Contents /\ overlap \in BOOLEAN
BY DEF StartupTypeOK, ProcsOK, RolesRead

LEMMA GotoType ==
  ASSUME ProcsOK(proc), NEW p \in Procs, proc[p].step \notin {"none", "exec", "dead"},
         NEW s \in {"readCert", "certOpen", "certWrite", "keyOpen", "keyWrite", "bind", "ready"},
         Goto(p, s)
  PROVE  ProcsOK(proc')
<1> DEFINE e == [proc[p] EXCEPT !.step = s]
<1>1. e \in Process /\ e.command = proc[p].command /\ e.role = proc[p].role
  BY DEF ProcsOK, Process
<1>2. proc' = [proc EXCEPT ![p] = e]
  BY DEF ProcsOK, Process, Goto
<1> QED BY <1>1, <1>2, OnwardType

LEMMA CertifiedType ==
  ASSUME ProcsOK(proc), NEW p \in Procs, proc[p].step \notin {"none", "exec", "dead"},
         NEW id \in Contents, NEW k \in Contents, shown \subseteq Contents,
         Certified(p, id, k)
  PROVE  ProcsOK(proc') /\ shown' \subseteq Contents
<1>1. CASE proc' = Ended(proc, p) /\ shown' = shown \cup {id}
  BY <1>1, EndedType
<1>2. CASE proc' = [proc EXCEPT ![p].step = "unlink", ![p].identity = id, ![p].secret = k]
           /\ UNCHANGED shown
  <2> DEFINE e == [[[proc[p] EXCEPT !.step = "unlink"] EXCEPT !.identity = id]
                     EXCEPT !.secret = k]
  <2>1. e \in Process /\ e.command = proc[p].command /\ e.role = proc[p].role
    BY DEF ProcsOK, Process
  <2>2. proc' = [proc EXCEPT ![p] = e]
    BY <1>2 DEF ProcsOK, Process
  <2> QED BY <1>2, <2>1, <2>2, OnwardType
<1> QED BY <1>1, <1>2 DEF Certified

(* Every step of a daemon keeps the types of the files and the processes. *)
LEMMA StartupTypeStep ==
  ASSUME StartupTypeOK, NEW p \in Procs, Step(p)
  PROVE  StartupTypeOK'
<1> USE StartupTypeEquiv
<1>0. proc \in [Procs -> Process] /\ proc[p] \in Process
  BY DEF ProcsOK
<1>1. CASE LoadConfig(p)
  <2>1. CASE proc' = Ended(proc, p) /\ UNCHANGED overlap
    BY <1>1, <2>1, EndedType DEF LoadConfig, files, StartupTypeOK, ProcsOK, RolesRead
  <2>2. CASE /\ proc[p].command = "run" => config # "torn"
             /\ proc' = [proc EXCEPT ![p].step = "look",
                                ![p].role = IF proc[p].command = "run" THEN RoleOf ELSE @]
             /\ overlap' = (overlap \/ \E q \in Procs \ {p} : Certifying(q))
    <3> DEFINE r == IF proc[p].command = "run" THEN RoleOf ELSE proc[p].role
               e == [[proc[p] EXCEPT !.step = "look"] EXCEPT !.role = r]
    <3>1. RoleOf \in Roles
      BY DEF RoleOf, Roles
    <3>2. e \in Process /\ (e.command = "run" => e.role \in Roles)
      BY <1>0, <3>1 DEF Process
    <3>3. proc' = [proc EXCEPT ![p] = e]
      BY <1>0, <2>2 DEF Process
    <3> HIDE DEF e
    <3>4. ProcsOK(proc')
      BY <1>0, <3>2, <3>3 DEF ProcsOK, RolesRead
    <3>5. overlap' \in BOOLEAN
      BY <2>2
    <3> QED BY <1>1, <3>4, <3>5 DEF LoadConfig, files, StartupTypeOK, ProcsOK, RolesRead
  <2> QED BY <1>1, <2>1, <2>2 DEF LoadConfig
<1>2. CASE LookForPair(p)
  <2>1. ProcsOK(proc')
    BY <1>2, GotoType DEF LookForPair
  <2> QED BY <1>2, <2>1 DEF LookForPair, files, seen, StartupTypeOK, ProcsOK, RolesRead
<1>9. CASE ReadCert(p)
  <2> DEFINE e == [[proc[p] EXCEPT !.step = "readKey"] EXCEPT !.identity = cert]
  <2>1. e \in Process /\ e.command = proc[p].command /\ e.role = proc[p].role
    BY <1>0 DEF Process
  <2>2. proc' = [proc EXCEPT ![p] = e]
    BY <1>0, <1>9 DEF ReadCert, Process
  <2>3. ProcsOK(proc')
    BY <1>9, <2>1, <2>2, OnwardType DEF ReadCert
  <2> QED BY <1>9, <2>3 DEF ReadCert, files, seen, StartupTypeOK, ProcsOK, RolesRead
<1>10. CASE CertOpen(p)
  <2>1. ProcsOK(proc')
    BY <1>10, GotoType DEF CertOpen
  <2> QED BY <1>10, <2>1 DEF CertOpen, seen, StartupTypeOK, ProcsOK, RolesRead, Contents
<1>3. CASE ReadKey(p)
  <2>1. proc[p].identity \in Contents
    BY <1>0 DEF Process
  <2>2. ProcsOK(proc') /\ shown' \subseteq Contents
    BY <1>3, <2>1, CertifiedType DEF ReadKey
  <2> QED BY <1>3, <2>2 DEF ReadKey, files, StartupTypeOK, ProcsOK, RolesRead
<1>4. CASE CertWrite(p)
  <2>1. ProcsOK(proc')
    BY <1>4, GotoType DEF CertWrite
  <2> QED BY <1>4, <2>1 DEF CertWrite, seen, StartupTypeOK, ProcsOK, RolesRead, Contents
<1>5. CASE KeyOpen(p)
  <2>1. ProcsOK(proc')
    BY <1>5, GotoType DEF KeyOpen
  <2> QED BY <1>5, <2>1 DEF KeyOpen, seen, StartupTypeOK, ProcsOK, RolesRead, Contents
<1>6. CASE KeyWrite(p)
  <2>1. p \in Contents
    BY DEF Contents
  <2>2. ProcsOK(proc') /\ shown' \subseteq Contents
    BY <1>6, <2>1, CertifiedType DEF KeyWrite
  <2> QED BY <1>6, <2>1, <2>2 DEF KeyWrite, StartupTypeOK, ProcsOK, RolesRead
<1>7. CASE Unlink(p)
  <2>1. ProcsOK(proc')
    BY <1>7, GotoType DEF Unlink
  <2> QED BY <1>7, <2>1 DEF Unlink, seen, StartupTypeOK, ProcsOK, RolesRead
<1>8. CASE Bind(p)
  <2>1. CASE socket' = p /\ shown' = shown \cup {proc[p].identity} /\ Goto(p, "ready")
    <3>1. ProcsOK(proc')
      BY <1>8, <2>1, GotoType DEF Bind
    <3>2. proc[p].identity \in Contents
      BY <1>0 DEF Process
    <3> QED BY <1>8, <2>1, <3>1, <3>2 DEF Bind, StartupTypeOK, ProcsOK, RolesRead
  <2>2. CASE proc' = Ended(proc, p) /\ UNCHANGED <<socket, shown>>
    BY <1>8, <2>2, EndedType DEF Bind, StartupTypeOK, ProcsOK, RolesRead
  <2> QED BY <1>8, <2>1, <2>2 DEF Bind
<1> QED BY <1>1, <1>2, <1>3, <1>4, <1>5, <1>6, <1>7, <1>8, <1>9, <1>10 DEF Step

(* The window's part of TypeOK: its flags, and everything else *)
FlagsOK == {binary, installed, decided, launchError, unreachable} \subseteq BOOLEAN

WindowOK ==
  /\ gui \in {"closed", "frame", "save", "apply"} /\ child \in Procs \cup {NoProc}
  /\ choice \in Roles \cup {"none"} /\ elapsed \in 0..Cooldown
  /\ poll \in Procs \cup {NoProc} /\ status \in Roles \cup {"none"}
  /\ strays \subseteq Procs
  /\ clicks \in 0..MaxClicks /\ faults \in 0..MaxFaults /\ terminals \in 0..MaxTerminal

LEMMA TypeParts == TypeOK <=> StartupTypeOK /\ FlagsOK /\ WindowOK
BY DEF TypeOK, FlagsOK, WindowOK

LEMMA StoppedType ==
  ASSUME TypeOK
  PROVE  ProcsOK(Stopped)
BY EndedType, StartupTypeEquiv DEF TypeOK, Stopped

LEMMA LaunchType ==
  ASSUME NEW f, ProcsOK(f), NEW ok \in BOOLEAN, Launch(f, ok)
  PROVE  ProcsOK(proc') /\ child' \in Procs \cup {NoProc} /\ elapsed' \in 0..Cooldown
<1>1. CASE Fresh # {} /\ proc' = Spawned(f, NextProc, "run") /\ child' = NextProc
  <2>1. NextProc \in Procs
    BY <1>1 DEF NextProc, Fresh
  <2> QED BY <1>1, <2>1, SpawnedType, SupervisorAssumption DEF Launch
<1>2. CASE proc' = f /\ child' = NoProc
  BY <1>2, SupervisorAssumption DEF Launch
<1> QED BY <1>1, <1>2 DEF Launch

LEMMA TypeInit == Init => TypeOK
<1> SUFFICES ASSUME Init PROVE TypeOK
  OBVIOUS
<1>1. StartupTypeOK
  <2>1. proc \in [Procs -> Process] /\ \A p \in Procs : proc[p].step = "none"
    BY UnbornType DEF Init, StartupInit, Unborn
  <2> QED BY <2>1 DEF Init, StartupInit, StartupTypeOK, Contents
<1>2. FlagsOK
  BY Zenon DEF Init, SupervisorInit, FlagsOK
<1>3. WindowOK
  BY SupervisorAssumption DEF Init, SupervisorInit, WindowOK
<1> QED BY <1>1, <1>2, <1>3, TypeParts

(* A change of the processes alone keeps the part of the daemons. *)
LEMMA ProcessesOnly ==
  ASSUME StartupTypeOK, ProcessOnly, ProcsOK(proc')
  PROVE  StartupTypeOK'
BY DEF StartupTypeOK, ProcsOK, RolesRead, ProcessOnly, files, seen

LEMMA ForgottenType ==
  ASSUME Forgotten, UNCHANGED installed, FlagsOK
  PROVE  FlagsOK' /\ choice' = "none" /\ elapsed' \in 0..Cooldown
         /\ poll' = NoProc /\ status' = "none" /\ gui' = "closed"
<1>1. FlagsOK'
  BY Zenon DEF Forgotten, FlagsOK
<1>2. elapsed' \in 0..Cooldown
  BY SupervisorAssumption DEF Forgotten
<1> QED BY <1>1, <1>2 DEF Forgotten

(* The bounds on clicks and faults *)
LEMMA ClickType ==
  ASSUME WindowOK, Click
  PROVE  clicks' \in 0..MaxClicks /\ faults' \in 0..MaxFaults /\ terminals' \in 0..MaxTerminal
<1>1. MaxClicks \in Nat
  BY SupervisorAssumption
<1> QED BY <1>1 DEF Click, WindowOK

LEMMA FaultType ==
  ASSUME WindowOK, faults < MaxFaults, faults' = faults + 1
  PROVE  faults' \in 0..MaxFaults
<1>1. MaxFaults \in Nat
  BY SupervisorAssumption
<1> QED BY <1>1 DEF WindowOK

LEMMA TypeStep ==
  ASSUME TypeOK, [Next]_vars
  PROVE  TypeOK'
<1>0. StartupTypeOK /\ FlagsOK /\ WindowOK /\ ProcsOK(proc)
  BY TypeParts, StartupTypeEquiv
<1> SUFFICES StartupTypeOK' /\ FlagsOK' /\ WindowOK'
  BY DEF TypeOK, FlagsOK, WindowOK
<1>1. ASSUME UNCHANGED startup PROVE StartupTypeOK'
  BY <1>0, <1>1 DEF startup, files, seen, StartupTypeOK, Certifying
<1>2. CASE OpenGui
  <2>1. FlagsOK'
    BY <1>0, <1>2, Zenon DEF OpenGui, polling, FlagsOK
  <2> QED BY ClickType, <1>0, <1>1, <1>2, <2>1 DEF OpenGui, polling, WindowOK
<1>3. CASE CloseGui
  <2>1. FlagsOK' /\ choice' = "none" /\ elapsed' \in 0..Cooldown
        /\ poll' = NoProc /\ status' = "none" /\ gui' = "closed"
    BY <1>0, <1>3, ForgottenType DEF CloseGui
  <2>2. StartupTypeOK'
    BY <1>0, <1>3, StoppedType, ProcessesOnly DEF CloseGui, Drop
  <2> QED BY ClickType, <1>0, <1>3, <2>1, <2>2 DEF CloseGui, Drop, WindowOK
<1>4. CASE KillGui
  <2>1. FlagsOK' /\ choice' = "none" /\ elapsed' \in 0..Cooldown
        /\ poll' = NoProc /\ status' = "none" /\ gui' = "closed"
    BY <1>0, <1>4, ForgottenType DEF KillGui
  <2> QED BY FaultType, <1>0, <1>1, <1>4, <2>1 DEF KillGui, WindowOK
<1>5. CASE Frame
  <2>1. ProcsOK(proc') /\ child' \in Procs \cup {NoProc} /\ elapsed' \in 0..Cooldown
    BY <1>0, <1>5, LaunchType DEF Frame, WindowOK
  <2>2. launchError' \in BOOLEAN
    BY <1>5, Zenon DEF Frame
  <2>3. FlagsOK'
    BY <1>0, <1>5, <2>2, Zenon DEF Frame, polling, FlagsOK
  <2>4. StartupTypeOK'
    BY <1>0, <1>5, <2>1, ProcessesOnly DEF Frame
  <2> QED BY <1>0, <1>5, <2>1, <2>3, <2>4 DEF Frame, polling, budget, WindowOK
<1>6. CASE ChangeRole
  <2>1. FlagsOK'
    BY <1>0, <1>6, Zenon DEF ChangeRole, polling, FlagsOK
  <2> QED BY ClickType, <1>0, <1>1, <1>6, <2>1 DEF ChangeRole, polling, WindowOK
<1>7. CASE PickRole
  <2>1. FlagsOK'
    BY <1>0, <1>7, Zenon DEF PickRole, polling, FlagsOK
  <2>2. StartupTypeOK'
    BY <1>0, <1>7 DEF PickRole, StartupTypeOK, seen
  <2> QED BY ClickType, <1>0, <1>7, <2>1, <2>2 DEF PickRole, polling, WindowOK
<1>8. CASE SaveRole
  <2>1. FlagsOK'
    BY <1>0, <1>8, Zenon DEF SaveRole, polling, FlagsOK
  <2>2. StartupTypeOK'
    BY <1>0, <1>8 DEF SaveRole, StartupTypeOK, WindowOK, seen
  <2> QED BY <1>0, <1>8, <2>1, <2>2 DEF SaveRole, budget, polling, WindowOK
<1>9. CASE ApplyRole
  <2>1. PICK ok \in BOOLEAN : Restart(ok) /\ decided' = ok /\ launchError' = ~ok
    BY <1>9 DEF ApplyRole
  <2>2. ProcsOK(proc') /\ child' \in Procs \cup {NoProc} /\ elapsed' \in 0..Cooldown
    BY <2>1, LaunchType, StoppedType DEF Restart
  <2>3. FlagsOK'
    BY <1>0, <1>9, <2>1, Zenon DEF ApplyRole, polling, FlagsOK
  <2>4. StartupTypeOK'
    BY <1>0, <1>9, <2>2, ProcessesOnly DEF ApplyRole
  <2> QED BY <1>0, <1>9, <2>2, <2>3, <2>4 DEF ApplyRole, polling, budget, WindowOK
<1>10. CASE RetryLaunch
  <2>1. PICK ok \in BOOLEAN : Restart(ok)
    BY <1>10 DEF RetryLaunch
  <2>2. ProcsOK(proc') /\ child' \in Procs \cup {NoProc} /\ elapsed' \in 0..Cooldown
    BY <2>1, LaunchType, StoppedType DEF Restart
  <2>3. FlagsOK'
    BY <1>0, <1>10, Zenon DEF RetryLaunch, polling, FlagsOK
  <2>4. StartupTypeOK'
    BY <1>0, <1>10, <2>2, ProcessesOnly DEF RetryLaunch
  <2> QED BY ClickType, <1>0, <1>10, <2>2, <2>3, <2>4 DEF RetryLaunch, polling, WindowOK
<1>11. CASE RestartDaemon
  <2>1. PICK ok \in BOOLEAN : Restart(ok) /\ launchError' = ~ok
    BY <1>11 DEF RestartDaemon
  <2>2. ProcsOK(proc') /\ child' \in Procs \cup {NoProc} /\ elapsed' \in 0..Cooldown
    BY <2>1, LaunchType, StoppedType DEF Restart
  <2>3. FlagsOK'
    BY <1>0, <1>11, <2>1, Zenon DEF RestartDaemon, polling, FlagsOK
  <2>4. StartupTypeOK'
    BY <1>0, <1>11, <2>2, ProcessesOnly DEF RestartDaemon
  <2> QED BY ClickType, <1>0, <1>11, <2>2, <2>3, <2>4 DEF RestartDaemon, polling, WindowOK
<1>12. CASE Tick
  <2>1. FlagsOK'
    BY <1>0, <1>12, Zenon DEF Tick, polling, FlagsOK
  <2>2. elapsed' \in 0..Cooldown
    BY <1>0, <1>12, SupervisorAssumption DEF Tick, TooSoon, WindowOK
  <2> QED BY <1>0, <1>1, <1>12, <2>1, <2>2 DEF Tick, polling, budget, WindowOK
<1>13. CASE PollConnect
  <2>1. FlagsOK'
    BY <1>0, <1>13, Zenon DEF PollConnect, window, FlagsOK
  <2>2. poll' \in Procs \cup {NoProc}
    BY <1>0, <1>13 DEF PollConnect, StartupTypeOK, WindowOK
  <2> QED BY <1>0, <1>1, <1>13, <2>1, <2>2 DEF PollConnect, window, budget, WindowOK
<1>14. CASE PollAnswer
  <2>1. FlagsOK'
    BY <1>0, <1>14, Zenon DEF PollAnswer, window, FlagsOK
  <2>2. status' \in Roles \cup {"none"}
    BY <1>0, <1>14 DEF PollAnswer, StartupTypeOK, WindowOK, Process
  <2> QED BY <1>0, <1>1, <1>14, <2>1, <2>2 DEF PollAnswer, window, budget, WindowOK
<1>15. CASE Install
  <2>1. FlagsOK'
    BY <1>0, <1>15, Zenon DEF Install, window, polling, FlagsOK
  <2> QED BY <1>0, <1>1, <1>15, <2>1 DEF Install, window, polling, budget, WindowOK
<1>16. CASE TerminalRun
  <2>1. FlagsOK'
    BY <1>0, <1>16, Zenon DEF TerminalRun, window, polling, FlagsOK
  <2>2. NextProc \in Procs
    BY <1>16 DEF TerminalRun, NextProc, Fresh
  <2>3. ProcsOK(proc')
    BY <1>0, <1>16, <2>2, SpawnedType DEF TerminalRun
  <2>4. StartupTypeOK'
    BY <1>0, <1>16, <2>3, ProcessesOnly DEF TerminalRun, ProcessOnly
  <2>5. MaxTerminal \in Nat
    BY SupervisorAssumption
  <2> QED BY <1>0, <1>16, <2>1, <2>2, <2>4, <2>5 DEF TerminalRun, window, polling, WindowOK
<1>17. CASE DaemonEnds
  <2>1. FlagsOK'
    BY <1>0, <1>17, Zenon DEF DaemonEnds, window, polling, FlagsOK
  <2>2. ProcsOK(proc') /\ ProcessOnly
    BY <1>0, <1>17, EndedType DEF DaemonEnds, Exit, ProcessOnly
  <2>3. StartupTypeOK'
    BY <1>0, <2>2, ProcessesOnly
  <2> QED BY FaultType, <1>0, <1>17, <2>1, <2>3 DEF DaemonEnds, window, polling, WindowOK
<1>18. ASSUME NEW p \in Procs, DaemonStep(p) PROVE StartupTypeOK' /\ FlagsOK' /\ WindowOK'
  <2>1. FlagsOK'
    BY <1>0, <1>18, Zenon DEF DaemonStep, window, polling, FlagsOK
  <2>2. StartupTypeOK'
    BY <1>0, <1>18, StartupTypeStep DEF DaemonStep
  <2> QED BY <1>0, <1>18, <2>1, <2>2 DEF DaemonStep, window, polling, budget, WindowOK
<1>19. CASE UNCHANGED vars
  <2>1. FlagsOK'
    BY <1>0, <1>19, Zenon DEF vars, window, polling, FlagsOK
  <2> QED BY <1>0, <1>1, <1>19, <2>1 DEF vars, window, polling, budget, WindowOK
<1> QED
  BY <1>2, <1>3, <1>4, <1>5, <1>6, <1>7, <1>8, <1>9, <1>10, <1>11, <1>12, <1>13, <1>14,
     <1>15, <1>16, <1>17, <1>18, <1>19 DEF Next, User, System, World

(* Every variable of the window, the daemons and the files they share      *)
(* keeps its type, and a daemon that has read its configuration has a role. *)
THEOREM TypeCorrect == Spec => []TypeOK
<1>1. Init => TypeOK
  BY TypeInit
<1>2. TypeOK /\ [Next]_vars => TypeOK'
  BY TypeStep
<1> QED BY <1>1, <1>2, PTL DEF Spec

-----------------------------------------------------------------------------
(* Every daemon has an owner *)

(* Whoever is alive in f is among the owned. *)
AliveWithin(f, owned) == \A p \in Procs : f[p].step \notin {"none", "dead"} => p \in owned

LEMMA NoStrayEquiv ==
  NoStrayDaemon <=> /\ AliveWithin(proc, strays \cup {child})
                    /\ gui = "closed" => child = NoProc
BY DEF NoStrayDaemon, AliveWithin, Alive

(* What a launch from the processes f leaves: a new child next to them, or *)
(* no child.                                                               *)
LEMMA LaunchEffect ==
  ASSUME NEW f, ProcsOK(f), NEW ok, Launch(f, ok)
  PROVE  \/ /\ child' \in Procs
            /\ proc'[child'].step = "exec" /\ proc'[child'].command = "run"
            /\ \A p \in Procs \ {child'} : proc'[p] = f[p]
         \/ child' = NoProc /\ proc' = f
<1>1. CASE Fresh # {} /\ proc' = Spawned(f, NextProc, "run") /\ child' = NextProc
  <2>1. NextProc \in Procs
    BY <1>1 DEF NextProc, Fresh
  <2> DEFINE e == [Unborn EXCEPT !.step = "exec", !.command = "run"]
  <2>2. e.step = "exec" /\ e.command = "run"
    BY DEF Unborn
  <2>3. proc' = [f EXCEPT ![NextProc] = e]
    BY <1>1 DEF Spawned
  <2> HIDE DEF e
  <2> QED BY <1>1, <2>1, <2>2, <2>3 DEF ProcsOK
<1> QED BY <1>1 DEF Launch

(* A daemon's step revives nobody, and touches no other process. *)
LEMMA StepEffect ==
  ASSUME StartupTypeOK, NEW p \in Procs, Step(p)
  PROVE  /\ config' = config
         /\ Alive(p) /\ proc'[p].step # "none"
         /\ \A q \in Procs \ {p} : proc'[q] = proc[q]
         /\ \/ proc'[p] = Dead
            \/ /\ proc[p].step = "exec"
               /\ proc'[p].command = proc[p].command
               /\ proc[p].command = "run" => config # "torn" /\ proc'[p].role = RoleOf
            \/ /\ proc[p].step # "exec"
               /\ proc'[p].command = proc[p].command /\ proc'[p].role = proc[p].role
<1>0. proc \in [Procs -> Process] /\ proc[p] \in Process
  BY DEF StartupTypeOK
<1>1. CASE LoadConfig(p)
  BY <1>0, <1>1 DEF LoadConfig, Ended, Dead, Unborn, Alive, files, Process
<1>2. CASE LookForPair(p)
  BY <1>0, <1>2 DEF LookForPair, files, Goto, Alive, Process
<1>9. CASE ReadCert(p)
  BY <1>0, <1>9 DEF ReadCert, files, Alive, Process
<1>10. CASE CertOpen(p)
  BY <1>0, <1>10 DEF CertOpen, Goto, Alive, Process
<1>3. CASE ReadKey(p)
  BY <1>0, <1>3 DEF ReadKey, Certified, Ended, Dead, Unborn, Alive, files, Process
<1>4. CASE CertWrite(p)
  BY <1>0, <1>4 DEF CertWrite, Goto, Alive, Process
<1>5. CASE KeyOpen(p)
  BY <1>0, <1>5 DEF KeyOpen, Goto, Alive, Process
<1>6. CASE KeyWrite(p)
  BY <1>0, <1>6 DEF KeyWrite, Certified, Ended, Dead, Unborn, Alive, Process
<1>7. CASE Unlink(p)
  BY <1>0, <1>7 DEF Unlink, Goto, Alive, Process
<1>8. CASE Bind(p)
  BY <1>0, <1>8 DEF Bind, Ended, Dead, Unborn, Goto, Alive, Process
<1> QED BY <1>1, <1>2, <1>3, <1>4, <1>5, <1>6, <1>7, <1>8, <1>9, <1>10 DEF Step

(* Without a running child, and after the child was stopped, whatever is   *)
(* alive is a stray.                                                       *)
LEMMA ChildAside ==
  ASSUME TypeOK, NoStrayDaemon
  PROVE  /\ ~Running => AliveWithin(proc, strays)
         /\ AliveWithin(Stopped, strays)
<1>1. proc \in [Procs -> Process] /\ child \in Procs \cup {NoProc} /\ NoProc \notin Procs
  BY StartupAssumption DEF TypeOK, StartupTypeOK
<1>2. AliveWithin(proc, strays \cup {child})
  BY NoStrayEquiv
<1>3. ~Running => AliveWithin(proc, strays)
  BY <1>1, <1>2 DEF AliveWithin, Running, Alive
<1>4. AliveWithin(Stopped, strays)
  <2>1. CASE child = NoProc
    BY <1>1, <1>2, <2>1 DEF AliveWithin, Stopped
  <2>2. CASE child \in Procs
    BY <1>1, <1>2, <2>2 DEF AliveWithin, Stopped, Ended, Dead, Unborn
  <2> QED BY <1>1, <2>1, <2>2
<1> QED BY <1>3, <1>4

LEMMA LaunchOwned ==
  ASSUME NEW f, ProcsOK(f), AliveWithin(f, strays), NEW ok, Launch(f, ok)
  PROVE  AliveWithin(proc', strays \cup {child'})
BY LaunchEffect DEF AliveWithin

LEMMA NoStrayStep ==
  ASSUME TypeOK, NoStrayDaemon, [Next]_vars
  PROVE  NoStrayDaemon'
<1>0. ProcsOK(proc) /\ ProcsOK(Stopped) /\ AliveWithin(Stopped, strays)
      /\ (~Running => AliveWithin(proc, strays)) /\ AliveWithin(proc, strays \cup {child})
      /\ (gui = "closed" => child = NoProc) /\ StartupTypeOK
  BY TypeParts, StartupTypeEquiv, StoppedType, ChildAside, NoStrayEquiv
<1>1. SUFFICES AliveWithin(proc', strays' \cup {child'}) /\ (gui' = "closed" => child' = NoProc)
  BY DEF NoStrayDaemon, AliveWithin, Alive
<1>2. CASE UNCHANGED <<proc, strays, child>> /\ (gui' = "closed" => gui = "closed")
  BY <1>0, <1>2
<1>3. ASSUME NEW ok, gui' # "closed", UNCHANGED strays,
             Restart(ok) \/ (~Running /\ Launch(proc, ok))
      PROVE  AliveWithin(proc', strays' \cup {child'}) /\ (gui' = "closed" => child' = NoProc)
  BY <1>0, <1>3, LaunchOwned DEF Restart
<1>4. CASE CloseGui
  BY <1>0, <1>4 DEF CloseGui, Drop, Forgotten, AliveWithin
<1>5. CASE KillGui
  BY <1>0, <1>5, StartupAssumption DEF KillGui, Forgotten, startup, AliveWithin
<1>6. CASE Frame
  BY <1>2, <1>3, <1>6 DEF Frame
<1>7. CASE ApplyRole
  BY <1>3, <1>7 DEF ApplyRole
<1>8. CASE RetryLaunch \/ RestartDaemon
  BY <1>3, <1>8 DEF RetryLaunch, RestartDaemon
<1>9. CASE TerminalRun
  <2>1. PICK c \in {"run", "fingerprint"} : proc' = Spawned(proc, NextProc, c)
    BY <1>9 DEF TerminalRun
  <2>2. \A p \in Procs \ {NextProc} : proc'[p] = proc[p]
    BY <1>0, <2>1 DEF Spawned, ProcsOK
  <2> QED BY <1>0, <1>9, <2>2 DEF TerminalRun, window, AliveWithin
<1>10. CASE DaemonEnds
  BY <1>0, <1>10 DEF DaemonEnds, Exit, Ended, Dead, Unborn, ProcsOK, window, AliveWithin
<1>11. ASSUME NEW p \in Procs, DaemonStep(p)
       PROVE  AliveWithin(proc', strays' \cup {child'}) /\ (gui' = "closed" => child' = NoProc)
  BY <1>0, <1>11, StepEffect DEF DaemonStep, window, AliveWithin, Alive
<1>12. CASE OpenGui \/ ChangeRole \/ PickRole \/ Tick \/ SaveRole \/ PollConnect \/ PollAnswer
            \/ Install \/ UNCHANGED vars
  BY <1>2, <1>12 DEF OpenGui, ChangeRole, PickRole, Tick, SaveRole, PollConnect, PollAnswer,
     Install, vars, startup, window
<1> QED
  BY <1>4, <1>5, <1>6, <1>7, <1>8, <1>9, <1>10, <1>11, <1>12
  DEF Next, User, System, World

(* No daemon of a window is lost: whatever runs is the child of the        *)
(* supervisor, was started in a terminal or was left by a window that was  *)
(* killed, and a window that is closed leaves nothing of its own.          *)
THEOREM NoStrayDaemonAlways == Spec => []NoStrayDaemon
<1>1. Init => NoStrayDaemon
  BY DEF Init, StartupInit, SupervisorInit, Unborn, NoStrayDaemon, Alive
<1>2. TypeOK /\ NoStrayDaemon /\ [Next]_vars => NoStrayDaemon'
  BY NoStrayStep
<1> QED BY <1>1, <1>2, TypeCorrect, PTL DEF Spec

-----------------------------------------------------------------------------
(* The child runs in the role that was saved last *)

(* A decided role is on the disk, a child was launched, as a daemon and     *)
(* after a role was saved, and the role being applied is what was written. *)
RoleSaved ==
  /\ decided => config # "none"
  /\ child # NoProc => /\ config # "none"
                       /\ proc[child].step # "none" /\ proc[child].command = "run"
  /\ gui = "save" => choice \in Roles
  /\ gui = "apply" => choice \in Roles /\ config = choice
  /\ RoleApplied

LEMMA RoleSavedStep ==
  ASSUME TypeOK, NoStrayDaemon, RoleSaved, [Next]_vars
  PROVE  RoleSaved'
<1>0. /\ ProcsOK(proc) /\ ProcsOK(Stopped) /\ StartupTypeOK
      /\ child \in Procs \cup {NoProc} /\ NoProc \notin Procs
  BY TypeParts, StartupTypeEquiv, StoppedType, StartupAssumption DEF WindowOK
<1>a. "none" \notin Roles /\ "torn" \notin Roles
  BY DEF Roles
<1> USE DEF RoleSaved
<1>1. CASE UNCHANGED <<config, proc, child>> /\ gui' = gui /\ choice' = choice
            /\ (decided' => decided)
  BY <1>1 DEF RoleApplied, Running, Alive
<1>2. ASSUME NEW ok, NEW f, ProcsOK(f), Launch(f, ok), config # "none", config' = config,
             gui' = "frame"
      PROVE  RoleSaved'
  BY <1>0, <1>2, LaunchEffect DEF RoleApplied, Running
<1>3. CASE OpenGui
  BY <1>3 DEF OpenGui, startup, files, NoStrayDaemon, RoleApplied, Running
<1>4. CASE CloseGui \/ KillGui
  BY <1>4 DEF CloseGui, KillGui, Forgotten, Drop, RoleApplied
<1>5. CASE Frame
  BY <1>0, <1>1, <1>2, <1>5 DEF Frame, ProcessOnly, files
<1>6. CASE ChangeRole
  BY <1>1, <1>6 DEF ChangeRole, startup, files
<1>7. CASE PickRole
  BY <1>7 DEF PickRole, RoleApplied
<1>8. CASE SaveRole
  BY <1>8, <1>a DEF SaveRole, RoleApplied
<1>9. CASE ApplyRole
  BY <1>0, <1>2, <1>9, <1>a DEF ApplyRole, Restart, ProcessOnly, files
<1>10. CASE RetryLaunch \/ RestartDaemon
  BY <1>0, <1>2, <1>10 DEF RetryLaunch, RestartDaemon, Restart, ProcessOnly, files
<1>11. CASE Tick \/ PollConnect \/ PollAnswer \/ Install \/ UNCHANGED vars
  BY <1>1, <1>11 DEF Tick, PollConnect, PollAnswer, Install, vars, startup, files, window
<1>12. CASE TerminalRun
  <2>1. PICK c \in {"run", "fingerprint"} : proc' = Spawned(proc, NextProc, c)
    BY <1>12 DEF TerminalRun
  <2>2. /\ NextProc \in Procs /\ \A p \in Procs \ {NextProc} : proc'[p] = proc[p]
    BY <1>0, <1>12, <2>1 DEF TerminalRun, Spawned, ProcsOK, NextProc, Fresh
  <2>3. proc[NextProc].step = "none"
    BY <1>12 DEF TerminalRun, NextProc, Fresh, Unborn
  <2> QED BY <1>0, <1>12, <2>2, <2>3 DEF TerminalRun, window, files, RoleApplied, Running, Alive
<1>13. CASE DaemonEnds
  BY <1>0, <1>13 DEF DaemonEnds, Exit, Ended, Dead, Unborn, ProcsOK, window, files,
     RoleApplied, Running, Alive
<1>14. ASSUME NEW p \in Procs, DaemonStep(p) PROVE RoleSaved'
  <2>1. config' = config /\ gui' = gui /\ child' = child /\ choice' = choice
        /\ decided' = decided
    BY <1>0, <1>14, StepEffect DEF DaemonStep, window
  <2>2. CASE child # p
    BY <1>0, <1>14, <2>1, <2>2, StepEffect DEF DaemonStep, RoleApplied, Running, Alive
  <2>3. CASE child = p /\ proc'[p] = Dead
    BY <2>1, <2>3 DEF Dead, Unborn, RoleApplied, Running, Alive
  <2>4. CASE child = p /\ proc[p].step = "exec" /\ proc'[p].step # "none"
             /\ proc'[p].command = proc[p].command
             /\ (proc[p].command = "run" => config # "torn" /\ proc'[p].role = RoleOf)
    <3>1. config \in Roles
      BY <1>0, <2>4 DEF StartupTypeOK
    <3> QED BY <1>0, <2>1, <2>4, <3>1 DEF RoleApplied, Running, Alive, RoleOf
  <2>5. CASE child = p /\ proc[p].step # "exec" /\ Alive(p) /\ proc'[p].step # "none"
             /\ proc'[p].command = proc[p].command /\ proc'[p].role = proc[p].role
    BY <1>0, <2>1, <2>5 DEF RoleApplied, Running
  <2> QED BY <1>0, <1>14, <2>2, <2>3, <2>4, <2>5, StepEffect DEF DaemonStep
<1> QED
  BY <1>3, <1>4, <1>5, <1>6, <1>7, <1>8, <1>9, <1>10, <1>11, <1>12, <1>13, <1>14
  DEF Next, User, System, World

(* A daemon that is the window's child and has read its configuration runs *)
(* in the role on the disk, the one the user chose last: no child that     *)
(* read the former role outlives the restart of a role change.             *)
THEOREM RoleAppliedAlways == Spec => []RoleApplied
<1>1. Init => RoleSaved
  BY DEF Init, StartupInit, SupervisorInit, RoleSaved, RoleApplied
<1>2. TypeOK /\ NoStrayDaemon /\ RoleSaved /\ [Next]_vars => RoleSaved'
  BY RoleSavedStep
<1>3. RoleSaved => RoleApplied
  BY DEF RoleSaved
<1> QED BY <1>1, <1>2, <1>3, TypeCorrect, NoStrayDaemonAlways, PTL DEF Spec

-----------------------------------------------------------------------------
(* One fingerprint as long as the processes take turns *)

(* A process that is past the pair, and has its identity. *)
Presenting == {"unlink", "bind", "ready"}

(* Without a key on the disk nobody was shown anything; with one, it is the *)
(* certificate's or torn, nobody generates another pair, and whoever has an *)
(* identity has the certificate's.                                          *)
OnePair ==
  /\ \A p, q \in Procs : Certifying(p) /\ Certifying(q) => p = q
  /\ key = "none" =>
       shown = {} /\ \A p \in Procs : proc[p].step \notin Presenting \cup {"readCert", "readKey", "keyWrite"}
  /\ key # "none" =>
       /\ cert \in Procs /\ key \in {cert, "torn"} /\ shown \subseteq {cert}
       /\ \A p \in Procs : proc[p].step \notin {"certOpen", "certWrite", "keyOpen"}
  /\ \A p \in Procs :
       /\ proc[p].step \in {"keyOpen", "keyWrite"} => cert = p
       /\ proc[p].step \in Presenting \cup {"readKey"} => proc[p].identity = cert
       /\ proc[p].step \in Presenting => proc[p].secret \in {cert, "torn"}

TakeTurns == ~overlap => OnePair

(* What is no step of a daemon leaves the pair alone, and every process as *)
(* it is, about to start or dead.                                          *)
Aside ==
  /\ UNCHANGED <<cert, key, shown, overlap>>
  /\ \A p \in Procs : proc'[p] = proc[p] \/ proc'[p].step \in {"exec", "dead"}

LEMMA LaunchAside ==
  ASSUME TypeOK, NEW ok, Restart(ok) \/ Launch(proc, ok), ProcessOnly
  PROVE  Aside
<1>1. ProcsOK(proc) /\ ProcsOK(Stopped)
  BY TypeParts, StartupTypeEquiv, StoppedType
<1>2. \A p \in Procs : Stopped[p] = proc[p] \/ Stopped[p].step = "dead"
  BY <1>1 DEF Stopped, Ended, Dead, Unborn, ProcsOK
<1>3. UNCHANGED <<cert, key, shown, overlap>>
  BY DEF ProcessOnly, files, seen
<1>4. CASE Restart(ok)
  BY <1>1, <1>2, <1>3, <1>4, LaunchEffect DEF Restart, Aside
<1>5. CASE Launch(proc, ok)
  BY <1>1, <1>3, <1>5, LaunchEffect DEF Aside
<1> QED BY <1>4, <1>5

LEMMA NotDaemonStep ==
  ASSUME TypeOK, [Next]_vars, ~ \E p \in Procs : DaemonStep(p)
  PROVE  Aside
<1>1. ProcsOK(proc)
  BY TypeParts, StartupTypeEquiv
<1>2. CASE UNCHANGED <<cert, key, seen, proc>>
  BY <1>2 DEF Aside, seen
<1>3. CASE CloseGui
  BY <1>1, <1>3 DEF CloseGui, Drop, Stopped, Ended, Dead, Unborn, ProcsOK, ProcessOnly,
     files, seen, Aside
<1>4. CASE Frame \/ ApplyRole \/ RetryLaunch \/ RestartDaemon
  BY <1>2, <1>4, LaunchAside DEF Frame, ApplyRole, RetryLaunch, RestartDaemon, ProcessOnly,
     files
<1>5. CASE TerminalRun
  <2>1. PICK c \in {"run", "fingerprint"} : proc' = Spawned(proc, NextProc, c)
    BY <1>5 DEF TerminalRun
  <2>2. \A p \in Procs : proc'[p] = proc[p] \/ proc'[p].step = "exec"
    BY <1>1, <2>1 DEF Spawned, Unborn, ProcsOK
  <2> QED BY <1>5, <2>2 DEF TerminalRun, files, seen, Aside
<1>6. CASE DaemonEnds
  BY <1>1, <1>6 DEF DaemonEnds, Exit, Ended, Dead, Unborn, ProcsOK, files, seen, Aside
<1>7. CASE OpenGui \/ KillGui \/ ChangeRole \/ PickRole \/ Tick \/ SaveRole \/ PollConnect
           \/ PollAnswer \/ Install \/ UNCHANGED vars
  BY <1>2, <1>7 DEF OpenGui, KillGui, ChangeRole, PickRole, Tick, SaveRole, PollConnect,
     PollAnswer, Install, vars, startup, files
<1> QED
  BY <1>3, <1>4, <1>5, <1>6, <1>7 DEF Next, User, System, World

LEMMA TurnsAside ==
  ASSUME TakeTurns, Aside
  PROVE  TakeTurns'
BY DEF TakeTurns, OnePair, Aside, Certifying, Presenting

LEMMA TurnsStep ==
  ASSUME StartupTypeOK, TakeTurns, NEW p \in Procs, Step(p)
  PROVE  TakeTurns'
<1>1. SUFFICES ASSUME ~overlap' PROVE OnePair'
  BY DEF TakeTurns
<1>2. /\ proc \in [Procs -> Process] /\ proc[p] \in Process
      /\ "none" \notin Procs /\ "torn" \notin Procs
  BY StartupAssumption DEF StartupTypeOK
<1>3. ~overlap
  BY <1>1 DEF Step, LoadConfig, LookForPair, ReadCert, ReadKey, CertOpen, CertWrite, KeyOpen, KeyWrite,
     Unlink, Bind, Certified, files, seen
<1>4. OnePair
  BY <1>3 DEF TakeTurns
<1>5. \A q \in Procs \ {p} : proc'[q] = proc[q]
  BY StepEffect
<1> USE DEF OnePair
<1>6. CASE LoadConfig(p)
  <2>1. CASE proc' = Ended(proc, p)
    BY <1>2, <1>4, <1>5, <1>6, <2>1
    DEF LoadConfig, Ended, Dead, Unborn, files, Certifying, Presenting
  <2>2. CASE \A q \in Procs \ {p} : ~Certifying(q)
    <3>1. proc'[p].step \in {"look", "dead"}
      BY <1>2, <1>6 DEF LoadConfig, Ended, Dead, Unborn, Process
    <3> QED BY <1>4, <1>5, <1>6, <2>2, <3>1 DEF LoadConfig, files, Certifying, Presenting
  <2> QED BY <1>1, <1>6, <2>1, <2>2 DEF LoadConfig
<1>7. CASE LookForPair(p)
  <2>1. \A q \in Procs \ {p} : ~Certifying(q)
    BY <1>4, <1>7 DEF LookForPair, Certifying
  <2>2. PairExists <=> key # "none"
    BY <1>2, <1>4 DEF PairExists
  <2> QED BY <1>2, <1>4, <1>5, <1>7, <2>1, <2>2
          DEF LookForPair, Goto, files, seen, Certifying, Presenting, Process
<1>14. CASE ReadCert(p)
  BY <1>2, <1>4, <1>5, <1>14
  DEF ReadCert, files, seen, Certifying, Presenting, Process
<1>15. CASE CertOpen(p)
  <2>1. \A q \in Procs \ {p} : ~Certifying(q)
    BY <1>4, <1>15 DEF CertOpen, Certifying
  <2> QED BY <1>2, <1>4, <1>5, <1>15, <2>1
          DEF CertOpen, Goto, seen, Certifying, Presenting, Process
<1>8. CASE ReadKey(p)
  BY <1>2, <1>4, <1>5, <1>8
  DEF ReadKey, Certified, Ended, Dead, Unborn, files, Certifying, Presenting, Process
<1>9. CASE CertWrite(p)
  BY <1>2, <1>4, <1>5, <1>9 DEF CertWrite, Goto, seen, Certifying, Presenting, Process
<1>10. CASE KeyOpen(p)
  BY <1>2, <1>4, <1>5, <1>10 DEF KeyOpen, Goto, seen, Certifying, Presenting, Process
<1>11. CASE KeyWrite(p)
  BY <1>2, <1>4, <1>5, <1>11
  DEF KeyWrite, Certified, Ended, Dead, Unborn, Certifying, Presenting, Process
<1>12. CASE Unlink(p)
  BY <1>2, <1>4, <1>5, <1>12 DEF Unlink, Goto, seen, Certifying, Presenting, Process
<1>13. CASE Bind(p)
  BY <1>2, <1>4, <1>5, <1>13
  DEF Bind, Goto, Ended, Dead, Unborn, Certifying, Presenting, Process
<1> QED BY <1>6, <1>7, <1>8, <1>9, <1>10, <1>11, <1>12, <1>13, <1>14, <1>15 DEF Step

LEMMA TurnsKeep == TakeTurns => FingerprintKept
<1> SUFFICES ASSUME TakeTurns, ~overlap PROVE
      /\ Cardinality(shown) <= 1
      /\ \A p \in Procs : Ready(p) => proc[p].secret \in {proc[p].identity, "torn"}
  BY DEF FingerprintKept
<1>1. shown = {} \/ shown = {cert}
  BY DEF TakeTurns, OnePair
<1>2. Cardinality({}) = 0 /\ Cardinality({cert}) = 1
  BY FS_EmptySet, FS_Singleton
<1>3. ASSUME NEW p \in Procs, Ready(p) PROVE proc[p].secret \in {proc[p].identity, "torn"}
  BY <1>3 DEF TakeTurns, OnePair, Presenting, Ready
<1> QED BY <1>1, <1>2, <1>3

(* As long as the processes are at the key pair one at a time, a crash     *)
(* between the write of the certificate and that of its key included, a    *)
(* user is shown one fingerprint, and what is presented under it is backed *)
(* by its key or by the torn one.                                          *)
THEOREM FingerprintKeptAlways == Spec => []FingerprintKept
<1>1. Init => TakeTurns
  BY DEF Init, StartupInit, Unborn, TakeTurns, OnePair, Certifying, Presenting
<1>2. TypeOK /\ TakeTurns /\ [Next]_vars => TakeTurns'
  <2> SUFFICES ASSUME TypeOK, TakeTurns, [Next]_vars PROVE TakeTurns'
    OBVIOUS
  <2>1. CASE \E p \in Procs : DaemonStep(p)
    BY <2>1, TurnsStep, TypeParts DEF DaemonStep
  <2>2. CASE ~ \E p \in Procs : DaemonStep(p)
    BY <2>2, NotDaemonStep, TurnsAside
  <2> QED BY <2>1, <2>2
<1> QED BY <1>1, <1>2, TurnsKeep, TypeCorrect, PTL DEF Spec

=============================================================================
