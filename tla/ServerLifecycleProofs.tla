------------------------- MODULE ServerLifecycleProofs -------------------------
(***************************************************************************)
(* Theorems about ServerLifecycle for any IPC connections and clients, any *)
(* number of runs and channels of any capacity.                             *)
(***************************************************************************)
EXTENDS ServerLifecycle, SequenceTheorems, FiniteSetTheorems, TLAPS

-----------------------------------------------------------------------------
(* The peer tables: what Vec::retain returns. The components that keep a    *)
(* table are specifications of their own, so each states the two lemmas.   *)

(* Counting the members of a finite set of indices up to each of them is a *)
(* bijection onto 1 .. its cardinality.                                     *)
LEMMA PlacesAll ==
  ASSUME NEW n \in Nat, NEW kept \in SUBSET (1 .. n)
  PROVE  /\ Cardinality(kept) \in Nat
         /\ \A i \in kept : Cardinality(kept \cap 1 .. i) \in 1 .. Cardinality(kept)
         /\ \A i, j \in kept :
              Cardinality(kept \cap 1 .. i) = Cardinality(kept \cap 1 .. j) => i = j
         /\ \A k \in 1 .. Cardinality(kept) :
              \E i \in kept : Cardinality(kept \cap 1 .. i) = k
<1> DEFINE Place(i) == Cardinality(kept \cap 1 .. i)
           place    == [i \in kept |-> Place(i)]
           places   == 1 .. Cardinality(kept)
<1>1. IsFiniteSet(kept) /\ Cardinality(kept) \in Nat
  <2>1. IsFiniteSet(1 .. n)
    BY FS_Interval
  <2>2. IsFiniteSet(kept)
    BY <2>1, FS_Subset
  <2> QED BY <2>2, FS_CardinalityType
<1>2. ASSUME NEW i \in kept PROVE IsFiniteSet(kept \cap 1 .. i) /\ Place(i) \in places
  <2>1. IsFiniteSet(kept \cap 1 .. i) /\ Place(i) <= Cardinality(kept)
    BY <1>1, FS_Intersection
  <2>2. Place(i) \in Nat
    BY <2>1, FS_CardinalityType
  <2>3. i \in kept \cap 1 .. i
    OBVIOUS
  <2>4. Place(i) # 0
    BY <2>1, <2>3, FS_EmptySet
  <2> QED BY <1>1, <2>1, <2>2, <2>4
<1>3. ASSUME NEW i \in kept, NEW j \in kept, i < j PROVE Place(i) # Place(j)
  <2>1. (kept \cap 1 .. i) \in SUBSET (kept \cap 1 .. j) /\ j \in kept \cap 1 .. j
    BY <1>3
  <2>2. j \notin kept \cap 1 .. i
    BY <1>3
  <2> QED BY <1>2, <2>1, <2>2, FS_Subset
<1>4. ASSUME NEW i \in kept, NEW j \in kept, Place(i) = Place(j) PROVE i = j
  BY <1>3, <1>4
<1>5. place \in Injection(kept, places)
  BY <1>2, <1>4 DEF Injection, IsInjective
<1>6. IsFiniteSet(places) /\ Cardinality(places) = Cardinality(kept)
  BY <1>1, FS_Interval
<1>7. place \in Surjection(kept, places)
  BY <1>5, <1>6, FS_Injection
<1>8. \A k \in places : \E i \in kept : Place(i) = k
  BY <1>7 DEF Surjection
<1> QED BY <1>1, <1>2, <1>4, <1>8

(* What Retained returns: every entry that is to be kept, and no other.     *)
LEMMA RetainedEntries ==
  ASSUME NEW S, NEW table \in Seq(S), NEW keep
  PROVE  /\ Retained(table, keep) \in Seq(S)
         /\ Range(Retained(table, keep)) = Range(table) \cap keep
<1> DEFINE kept     == {i \in 1 .. Len(table) : table[i] \in keep}
           Place(i) == Cardinality(kept \cap 1 .. i)
           places   == 1 .. Cardinality(kept)
           At(k)    == CHOOSE i \in kept : Place(i) = k
           t        == [k \in places |-> table[At(k)]]
<1>1. t = Retained(table, keep)
  BY DEF Retained
<1>2. Len(table) \in Nat /\ kept \in SUBSET (1 .. Len(table)) /\ DOMAIN table = 1 .. Len(table)
  OBVIOUS
<1>3. /\ Cardinality(kept) \in Nat
      /\ \A i \in kept : Place(i) \in places
      /\ \A i, j \in kept : Place(i) = Place(j) => i = j
      /\ \A k \in places : \E i \in kept : Place(i) = k
  <2> HIDE DEF kept
  <2> QED BY <1>2, PlacesAll
<1>4. ASSUME NEW k \in places PROVE At(k) \in kept /\ Place(At(k)) = k
  <2> HIDE DEF kept
  <2> QED BY <1>3
<1>5. \A i \in kept : table[i] \in S /\ table[i] \in keep /\ i \in DOMAIN table
  BY <1>2
<1>6. \A i \in kept : At(Place(i)) = i
  <2> HIDE DEF kept
  <2> QED BY <1>3, <1>4
<1>7. \A i \in DOMAIN table : table[i] \in keep => i \in kept
  BY <1>2
<1> HIDE DEF kept, Place, At
<1>8. t \in [places -> S]
  BY <1>4, <1>5
<1>9. t \in Seq(S)
  BY <1>3, <1>8
<1>10. DOMAIN t = places /\ \A k \in places : t[k] = table[At(k)]
  OBVIOUS
<1> HIDE DEF t, places
<1>11. ASSUME NEW x \in Range(t) PROVE x \in Range(table) \cap keep
  BY <1>4, <1>5, <1>10 DEF Range
<1>12. ASSUME NEW x \in Range(table), x \in keep PROVE x \in Range(t)
  <2>1. PICK i \in DOMAIN table : x = table[i]
    BY DEF Range
  <2>2. i \in kept
    BY <1>7, <1>12, <2>1
  <2>3. Place(i) \in places /\ t[Place(i)] = x
    BY <1>3, <1>6, <1>10, <2>1, <2>2
  <2> QED BY <1>10, <2>3 DEF Range
<1> QED BY <1>1, <1>9, <1>11, <1>12

-----------------------------------------------------------------------------
(* Type correctness *)

(* The daemon and its handlers, the network with the tasks' steps, and what *)
(* is on its way or kept in tables                                          *)
DaemonOK ==
  /\ step \in [Handlers -> {"idle", "bind", "spawn", "record", "close", "abort"}]
  /\ mine \in [Handlers -> Runs \cup {None}]
  /\ runs \in 0..MaxRuns
  /\ endpoint \in [Runs -> {"none", "open", "closing", "released"}]
  /\ controller \in Runs \cup {None}
  /\ starting \subseteq Runs /\ sink \in Runs \cup {None} /\ aborted \subseteq Runs

TasksOK ==
  /\ serving \in [Clients -> Runs \cup {None}] /\ greeted \subseteq Clients /\ lost \subseteq Clients
  /\ fanout \in [Runs -> {"none", "recv", "track", "send", "dead"}]
  /\ event \in [Runs -> Events \cup {None}]

TablesOK ==
  /\ peers \in Seq(Clients)
  /\ raw \in [Runs -> Seq(Events)] /\ toSession \in [Runs -> Seq(Events)]
  /\ sessionPeers \in [Runs -> Seq(Clients)]

RoomOK == \A r \in Runs : Len(raw[r]) <= RawCap /\ Len(toSession[r]) <= SessionCap

FlagsOK == listening \in BOOLEAN /\ captured \in BOOLEAN

(* A handler in the middle of a request has a run, and a fan-out task in   *)
(* the middle of an event has the event.                                   *)
InHand ==
  /\ \A h \in Handlers : step[h] \in {"spawn", "record", "close", "abort"} => mine[h] \in Runs
  /\ \A r \in Runs : fanout[r] \in {"track", "send"} => event[r] \in Events

TypeInv == DaemonOK /\ TasksOK /\ TablesOK /\ RoomOK /\ FlagsOK /\ InHand

LEMMA TypeInvType == TypeInv => TypeOK
<1> SUFFICES ASSUME TypeInv PROVE TypeOK
  OBVIOUS
<1>1. /\ step \in [Handlers -> {"idle", "bind", "spawn", "record", "close", "abort"}]
      /\ mine \in [Handlers -> Runs \cup {None}]
      /\ runs \in 0..MaxRuns
      /\ endpoint \in [Runs -> {"none", "open", "closing", "released"}]
      /\ controller \in Runs \cup {None}
      /\ starting \subseteq Runs /\ sink \in Runs \cup {None} /\ aborted \subseteq Runs
  BY DEF TypeInv, DaemonOK
<1>2. /\ serving \in [Clients -> Runs \cup {None}] /\ greeted \subseteq Clients /\ lost \subseteq Clients
      /\ fanout \in [Runs -> {"none", "recv", "track", "send", "dead"}]
      /\ event \in [Runs -> Events \cup {None}]
  BY DEF TypeInv, TasksOK
<1>3. peers \in Seq(Clients) /\ \A r \in Runs :
       /\ raw[r] \in Seq(Events) /\ Len(raw[r]) <= RawCap
       /\ toSession[r] \in Seq(Events) /\ Len(toSession[r]) <= SessionCap
       /\ sessionPeers[r] \in Seq(Clients)
  BY DEF TypeInv, TablesOK, RoomOK
<1>4. listening \in BOOLEAN /\ captured \in BOOLEAN
  BY DEF TypeInv, FlagsOK
<1> QED BY <1>1, <1>2, <1>3, <1>4, Zenon DEF TypeOK

LEMMA Constants ==
  /\ MaxRuns \in Nat /\ None \notin Runs
  /\ RawCap \in Nat /\ RawCap >= 1 /\ SessionCap \in Nat /\ SessionCap >= 1
BY LifecycleAssumption DEF Runs

LEMMA UpdatedType ==
  ASSUME NEW table \in Seq(Clients), NEW evt \in Events
  PROVE  Updated(table, evt) \in Seq(Clients)
BY RetainedEntries DEF Updated, Without, Events

LEMMA TypeInit == Init => TypeInv
<1> SUFFICES ASSUME Init PROVE TypeInv
  OBVIOUS
<1>1. DaemonOK /\ TasksOK
  BY Constants DEF Init, DaemonOK, TasksOK
<1>2. TablesOK /\ RoomOK
  BY Constants DEF Init, TablesOK, RoomOK
<1>3. InHand
  BY DEF Init, InHand
<1>4. FlagsOK
  BY Zenon DEF Init, FlagsOK
<1> QED BY <1>1, <1>2, <1>3, <1>4 DEF TypeInv

(* A channel that takes an event, or gives its first *)
LEMMA ChannelType ==
  ASSUME NEW f \in [Runs -> Seq(Events)], NEW cap \in Nat, \A r \in Runs : Len(f[r]) <= cap,
         NEW r \in Runs
  PROVE  /\ \A e \in Events : Len(f[r]) < cap =>
               LET g == [f EXCEPT ![r] = Append(@, e)]
               IN  g \in [Runs -> Seq(Events)] /\ \A q \in Runs : Len(g[q]) <= cap
         /\ f[r] # <<>> =>
               LET g == [f EXCEPT ![r] = Tail(@)]
               IN  /\ Head(f[r]) \in Events
                   /\ g \in [Runs -> Seq(Events)] /\ \A q \in Runs : Len(g[q]) <= cap
<1>1. ASSUME NEW e \in Events, Len(f[r]) < cap
      PROVE  /\ [f EXCEPT ![r] = Append(@, e)] \in [Runs -> Seq(Events)]
             /\ \A q \in Runs : Len([f EXCEPT ![r] = Append(@, e)][q]) <= cap
  <2>1. Append(f[r], e) \in Seq(Events) /\ Len(Append(f[r], e)) = Len(f[r]) + 1 /\ Len(f[r]) \in Nat
    BY AppendProperties
  <2> DEFINE s == Append(f[r], e)
  <2> HIDE DEF s
  <2>2. [f EXCEPT ![r] = s] \in [Runs -> Seq(Events)]
        /\ \A q \in Runs : Len([f EXCEPT ![r] = s][q]) <= cap
    BY <1>1, <2>1 DEF s
  <2> QED BY <2>2 DEF s
<1>2. ASSUME f[r] # <<>>
      PROVE  /\ Head(f[r]) \in Events
             /\ [f EXCEPT ![r] = Tail(@)] \in [Runs -> Seq(Events)]
             /\ \A q \in Runs : Len([f EXCEPT ![r] = Tail(@)][q]) <= cap
  <2>1. /\ Head(f[r]) \in Events /\ Tail(f[r]) \in Seq(Events)
        /\ Len(Tail(f[r])) = Len(f[r]) - 1 /\ Len(f[r]) \in Nat
    BY <1>2, HeadTailProperties
  <2> DEFINE s == Tail(f[r])
  <2> HIDE DEF s
  <2>2. [f EXCEPT ![r] = s] \in [Runs -> Seq(Events)]
        /\ \A q \in Runs : Len([f EXCEPT ![r] = s][q]) <= cap
    BY <2>1 DEF s
  <2> QED BY <2>1, <2>2 DEF s
<1> QED BY <1>1, <1>2

LEMMA ReportedType ==
  ASSUME TablesOK, RoomOK, NEW c \in Clients, NEW kind \in {"connected", "disconnected"},
         Reported(c, kind)
  PROVE  raw' \in [Runs -> Seq(Events)] /\ \A q \in Runs : Len(raw'[q]) <= RawCap
<1>1. [kind |-> kind, client |-> c] \in Events
  BY DEF Events
<1>2. CASE UNCHANGED raw
  BY <1>2 DEF TablesOK, RoomOK
<1>3. CASE /\ serving[c] \in Runs /\ Len(raw[serving[c]]) < RawCap
           /\ raw' = [raw EXCEPT ![serving[c]] = Append(@, [kind |-> kind, client |-> c])]
  BY <1>1, <1>3, ChannelType, Constants DEF TablesOK, RoomOK
<1>4. CASE /\ serving[c] \notin Runs
           /\ raw' = [raw EXCEPT ![serving[c]] = Append(@, [kind |-> kind, client |-> c])]
  <2>1. raw' = raw
    BY <1>4 DEF TablesOK
  <2> QED BY <1>2, <2>1
<1> QED BY <1>2, <1>3, <1>4 DEF Reported

LEMMA TypeStep ==
  ASSUME TypeInv, [Next]_vars
  PROVE  TypeInv'
<1>0. DaemonOK /\ TasksOK /\ TablesOK /\ RoomOK /\ FlagsOK /\ InHand
  BY DEF TypeInv
<1> SUFFICES DaemonOK' /\ TasksOK' /\ TablesOK' /\ RoomOK' /\ FlagsOK' /\ InHand'
  BY DEF TypeInv
<1>1. ASSUME UNCHANGED <<network, fanout, event>> PROVE TasksOK'
  BY <1>0, <1>1 DEF TasksOK, network
<1>2. ASSUME UNCHANGED <<peers, raw, session>> PROVE TablesOK' /\ RoomOK'
  BY <1>0, <1>2 DEF TablesOK, RoomOK, session
<1>3. ASSUME UNCHANGED <<listening, captured>> PROVE FlagsOK'
  BY <1>0, <1>3, Zenon DEF FlagsOK
<1>4. ASSUME UNCHANGED <<ipc, runs, endpoint, controller, starting, sink, aborted>> PROVE DaemonOK'
  BY <1>0, <1>4 DEF DaemonOK, ipc
<1>5. ASSUME UNCHANGED <<ipc, fanout, event>> PROVE InHand'
  BY <1>0, <1>5 DEF InHand, ipc
<1>6. ASSUME NEW h \in Handlers, StartCheck(h)
      PROVE  DaemonOK' /\ TasksOK' /\ TablesOK' /\ RoomOK' /\ FlagsOK' /\ InHand'
  <2>1. DaemonOK' /\ InHand'
    BY <1>0, <1>6 DEF StartCheck, Goto, DaemonOK, InHand, daemon, tasks, input
  <2> QED BY <1>1, <1>2, <1>3, <1>6, <2>1 DEF StartCheck, daemon, network, tasks, input
<1>7. ASSUME NEW h \in Handlers, StartBind(h)
      PROVE  DaemonOK' /\ TasksOK' /\ TablesOK' /\ RoomOK' /\ FlagsOK' /\ InHand'
  <2>0. UNCHANGED <<controller, starting, sink, aborted, fanout, event>>
    BY <1>7 DEF StartBind, daemon, tasks, input
  <2>1. ASSUME Goto(h, "idle"), UNCHANGED <<mine, runs, endpoint>>
        PROVE  DaemonOK' /\ InHand'
    <3>1. DaemonOK'
      BY <1>0, <2>0, <2>1 DEF Goto, DaemonOK
    <3>2. InHand'
      BY <1>0, <2>0, <2>1 DEF Goto, DaemonOK, InHand
    <3> QED BY <3>1, <3>2
  <2>2. ASSUME runs < MaxRuns, runs' = runs + 1, endpoint' = [endpoint EXCEPT ![runs'] = "open"],
               mine' = [mine EXCEPT ![h] = runs'], Goto(h, "spawn")
        PROVE  DaemonOK' /\ InHand'
    <3>1. runs' \in Runs /\ runs' \in 0..MaxRuns
      BY <1>0, <2>2, Constants DEF DaemonOK, Runs
    <3>2. DaemonOK'
      BY <1>0, <2>0, <2>2, <3>1 DEF Goto, DaemonOK
    <3>3. InHand'
      BY <1>0, <2>0, <2>2, <3>1 DEF Goto, DaemonOK, InHand
    <3> QED BY <3>2, <3>3
  <2>3. DaemonOK' /\ InHand'
    BY <1>7, <2>1, <2>2 DEF StartBind
  <2> QED BY <1>1, <1>2, <1>3, <1>7, <2>3 DEF StartBind, daemon, network, tasks, input
<1>8. ASSUME NEW h \in Handlers, StartSpawn(h)
      PROVE  DaemonOK' /\ TasksOK' /\ TablesOK' /\ RoomOK' /\ FlagsOK' /\ InHand'
  <2>1. DaemonOK' /\ InHand'
    BY <1>0, <1>8 DEF StartSpawn, Goto, DaemonOK, TasksOK, InHand, daemon
  <2>2. TasksOK'
    BY <1>0, <1>8 DEF StartSpawn, TasksOK, network
  <2> QED BY <1>2, <1>3, <1>8, <2>1, <2>2 DEF StartSpawn, daemon
<1>9. ASSUME NEW h \in Handlers, StartRecord(h)
      PROVE  DaemonOK' /\ TasksOK' /\ TablesOK' /\ RoomOK' /\ FlagsOK' /\ InHand'
  <2>1. DaemonOK' /\ InHand'
    BY <1>0, <1>9 DEF StartRecord, Goto, DaemonOK, InHand, tasks, input
  <2>2. FlagsOK'
    BY <1>0, <1>9, Zenon DEF StartRecord, FlagsOK, input
  <2> QED BY <1>1, <1>2, <1>9, <2>1, <2>2 DEF StartRecord, network, tasks
<1>10. ASSUME NEW r \in Runs, StartCapture(r)
       PROVE  DaemonOK' /\ TasksOK' /\ TablesOK' /\ RoomOK' /\ FlagsOK' /\ InHand'
  <2>1. DaemonOK'
    BY <1>0, <1>10 DEF StartCapture, DaemonOK, ipc, daemon, tasks
  <2> QED BY <1>1, <1>2, <1>3, <1>5, <1>10, <2>1 DEF StartCapture, daemon, network, tasks
<1>11. ASSUME NEW h \in Handlers, StopIdle(h)
       PROVE  DaemonOK' /\ TasksOK' /\ TablesOK' /\ RoomOK' /\ FlagsOK' /\ InHand'
  <2>1. DaemonOK' /\ InHand'
    BY <1>0, <1>11 DEF StopIdle, Goto, DaemonOK, InHand, tasks, input
  <2>2. TablesOK' /\ RoomOK'
    BY <1>0, <1>11 DEF StopIdle, TablesOK, RoomOK, session, tasks
  <2>3. FlagsOK'
    BY <1>0, <1>11, Zenon DEF StopIdle, FlagsOK, input
  <2> QED BY <1>1, <1>11, <2>1, <2>2, <2>3 DEF StopIdle, network, tasks
<1>12. ASSUME NEW h \in Handlers, StopClose(h)
       PROVE  DaemonOK' /\ TasksOK' /\ TablesOK' /\ RoomOK' /\ FlagsOK' /\ InHand'
  <2>1. DaemonOK' /\ InHand'
    BY <1>0, <1>12 DEF StopClose, Goto, DaemonOK, InHand, daemon, tasks, input
  <2>2. TasksOK'
    BY <1>0, <1>12 DEF StopClose, TasksOK, tasks
  <2> QED BY <1>2, <1>3, <1>12, <2>1, <2>2 DEF StopClose, daemon, tasks, input
<1>13. ASSUME NEW h \in Handlers, StopAbort(h)
       PROVE  DaemonOK' /\ TasksOK' /\ TablesOK' /\ RoomOK' /\ FlagsOK' /\ InHand'
  <2>1. DaemonOK' /\ InHand'
    BY <1>0, <1>13 DEF StopAbort, AbortedTasks, Goto, DaemonOK, InHand, daemon, input
  <2> QED BY <1>1, <1>2, <1>3, <1>13, <2>1 DEF StopAbort, daemon, network, input
<1>14. ASSUME NEW r \in Runs, Release(r)
       PROVE  DaemonOK' /\ TasksOK' /\ TablesOK' /\ RoomOK' /\ FlagsOK' /\ InHand'
  <2>1. DaemonOK'
    BY <1>0, <1>14 DEF Release, DaemonOK, ipc, daemon, tasks, input
  <2> QED BY <1>1, <1>2, <1>3, <1>5, <1>14, <2>1 DEF Release, daemon, network, tasks, input
<1>15. ASSUME NEW c \in Clients, NEW r \in Runs, Connect(c, r)
       PROVE  DaemonOK' /\ TasksOK' /\ TablesOK' /\ RoomOK' /\ FlagsOK' /\ InHand'
  <2>1. TasksOK'
    BY <1>0, <1>15 DEF Connect, TasksOK, tasks
  <2> QED BY <1>2, <1>3, <1>4, <1>5, <1>15, <2>1 DEF Connect, daemon, tasks, input
<1>16. ASSUME NEW c \in Clients, Break(c)
       PROVE  DaemonOK' /\ TasksOK' /\ TablesOK' /\ RoomOK' /\ FlagsOK' /\ InHand'
  <2>1. TasksOK'
    BY <1>0, <1>16 DEF Break, TasksOK, tasks
  <2> QED BY <1>2, <1>3, <1>4, <1>5, <1>16, <2>1 DEF Break, daemon, tasks, input
<1>17. ASSUME NEW c \in Clients, ReportConnection(c) \/ ReportLoss(c)
       PROVE  DaemonOK' /\ TasksOK' /\ TablesOK' /\ RoomOK' /\ FlagsOK' /\ InHand'
  <2>1. TasksOK'
    BY <1>0, <1>17 DEF ReportConnection, ReportLoss, TasksOK
  <2>2. raw' \in [Runs -> Seq(Events)] /\ \A q \in Runs : Len(raw'[q]) <= RawCap
    BY <1>0, <1>17, ReportedType DEF ReportConnection, ReportLoss
  <2>3. TablesOK' /\ RoomOK'
    BY <1>0, <1>17, <2>2 DEF ReportConnection, ReportLoss, TablesOK, RoomOK, session, daemon
  <2> QED BY <1>3, <1>4, <1>5, <1>17, <2>1, <2>3 DEF ReportConnection, ReportLoss, daemon, input
<1>18. ASSUME NEW r \in Runs, FanoutReceive(r)
       PROVE  DaemonOK' /\ TasksOK' /\ TablesOK' /\ RoomOK' /\ FlagsOK' /\ InHand'
  <2>1. /\ Head(raw[r]) \in Events
        /\ raw' \in [Runs -> Seq(Events)] /\ \A q \in Runs : Len(raw'[q]) <= RawCap
    BY <1>0, <1>18, ChannelType, Constants DEF FanoutReceive, TablesOK, RoomOK
  <2>2. TasksOK' /\ InHand'
    BY <1>0, <1>18, <2>1 DEF FanoutReceive, TasksOK, InHand, network, ipc
  <2>3. TablesOK' /\ RoomOK'
    BY <1>0, <1>18, <2>1 DEF FanoutReceive, TablesOK, RoomOK, session, daemon
  <2> QED BY <1>3, <1>4, <1>18, <2>2, <2>3 DEF FanoutReceive, daemon, input
<1>19. ASSUME NEW r \in Runs, FanoutTrack(r)
       PROVE  DaemonOK' /\ TasksOK' /\ TablesOK' /\ RoomOK' /\ FlagsOK' /\ InHand'
  <2>1. peers' \in Seq(Clients)
    BY <1>0, <1>19, UpdatedType DEF FanoutTrack, TablesOK, InHand
  <2>2. TasksOK' /\ InHand'
    BY <1>0, <1>19 DEF FanoutTrack, TasksOK, InHand, network, ipc
  <2>3. TablesOK' /\ RoomOK'
    BY <1>0, <1>19, <2>1 DEF FanoutTrack, TablesOK, RoomOK, session
  <2> QED BY <1>3, <1>4, <1>19, <2>2, <2>3 DEF FanoutTrack, input
<1>20. ASSUME NEW r \in Runs, FanoutForward(r)
       PROVE  DaemonOK' /\ TasksOK' /\ TablesOK' /\ RoomOK' /\ FlagsOK' /\ InHand'
  <2>1. toSession' \in [Runs -> Seq(Events)] /\ \A q \in Runs : Len(toSession'[q]) <= SessionCap
    BY <1>0, <1>20, ChannelType, Constants DEF FanoutForward, TablesOK, RoomOK, InHand
  <2>2. TasksOK' /\ InHand'
    BY <1>0, <1>20 DEF FanoutForward, TasksOK, InHand, network, ipc
  <2>3. TablesOK' /\ RoomOK'
    BY <1>0, <1>20, <2>1 DEF FanoutForward, TablesOK, RoomOK, daemon
  <2> QED BY <1>3, <1>4, <1>20, <2>2, <2>3 DEF FanoutForward, daemon, input
<1>21. ASSUME NEW r \in Runs, FanoutDies(r)
       PROVE  DaemonOK' /\ TasksOK' /\ TablesOK' /\ RoomOK' /\ FlagsOK' /\ InHand'
  <2>1. TasksOK' /\ InHand'
    BY <1>0, <1>21 DEF FanoutDies, TasksOK, InHand, network, ipc
  <2>2. TablesOK' /\ RoomOK'
    BY <1>0, <1>21, Constants DEF FanoutDies, TablesOK, RoomOK, session, daemon
  <2> QED BY <1>3, <1>4, <1>21, <2>1, <2>2 DEF FanoutDies, daemon, input
<1>22. ASSUME NEW r \in Runs, SessionHandles(r)
       PROVE  DaemonOK' /\ TasksOK' /\ TablesOK' /\ RoomOK' /\ FlagsOK' /\ InHand'
  <2>1. /\ Head(toSession[r]) \in Events
        /\ toSession' \in [Runs -> Seq(Events)] /\ \A q \in Runs : Len(toSession'[q]) <= SessionCap
    BY <1>0, <1>22, ChannelType, Constants DEF SessionHandles, TablesOK, RoomOK
  <2>2. Updated(sessionPeers[r], Head(toSession[r])) \in Seq(Clients)
    BY <1>0, <2>1, UpdatedType DEF TablesOK
  <2>3. sessionPeers' \in [Runs -> Seq(Clients)]
    BY <1>0, <1>22, <2>2 DEF SessionHandles, TablesOK
  <2>4. TablesOK' /\ RoomOK'
    BY <1>0, <1>22, <2>1, <2>3 DEF SessionHandles, TablesOK, RoomOK, daemon, tasks
  <2> QED BY <1>1, <1>3, <1>4, <1>5, <1>22, <2>4 DEF SessionHandles, daemon, network, tasks, input
<1>23. CASE Cross \/ Emergency
  <2>1. FlagsOK'
    BY <1>0, <1>23, Zenon DEF Cross, Emergency, FlagsOK, daemon
  <2> QED BY <1>1, <1>2, <1>4, <1>5, <1>23, <2>1 DEF Cross, Emergency, daemon, network, tasks
<1>24. CASE UNCHANGED vars
  BY <1>1, <1>2, <1>3, <1>4, <1>5, <1>24 DEF vars, daemon, network, tasks, input
<1> QED
  BY <1>6, <1>7, <1>8, <1>9, <1>10, <1>11, <1>12, <1>13, <1>14, <1>15, <1>16, <1>17, <1>18,
     <1>19, <1>20, <1>21, <1>22, <1>23, <1>24 DEF Next, Handle, Fanout

(* Every variable of the daemon, its handlers, the tasks of every run and  *)
(* their tables keeps its type, and no channel overflows.                   *)
THEOREM TypeCorrect == Spec => []TypeOK
<1>1. Init => TypeInv
  BY TypeInit
<1>2. TypeInv /\ [Next]_vars => TypeInv'
  BY TypeStep
<1> QED BY <1>1, <1>2, TypeInvType, PTL DEF Spec

-----------------------------------------------------------------------------
(* Who answers for an open endpoint *)

(* A request that binds a run, and has not recorded it, or that has taken   *)
(* a run over from the record, and has not closed it                        *)
Owns(h, r) == step[h] \in {"spawn", "record", "close"} /\ mine[h] = r

(* The socket is held until its connections have drained. *)
Held(r) == endpoint[r] \in {"open", "closing"}

(* An open endpoint is the recorded one or in the hands of one request, and *)
(* the port is held by one endpoint: so a request that has bound a run finds *)
(* nothing recorded when it records it, whatever was recorded or taken over  *)
(* between its check and its bind.                                           *)
OneOwner ==
  /\ \A h \in Handlers, r \in Runs : Owns(h, r) => endpoint[r] = "open" /\ controller # r
  /\ \A g, h \in Handlers, r \in Runs : Owns(g, r) /\ Owns(h, r) => g = h
  /\ \A r \in Runs : controller = r => endpoint[r] = "open"
  /\ \A r \in Runs : endpoint[r] = "open" => controller = r \/ \E h \in Handlers : Owns(h, r)
OnePort == \A q, r \in Runs : Held(q) /\ Held(r) => q = r
NextRunIsNew == \A r \in Runs : r > runs => endpoint[r] = "none"
StatusTold == listening <=> controller # None

Owned == OneOwner /\ OnePort /\ NextRunIsNew /\ StatusTold

LEMMA OwnedInit == Init => Owned
<1> SUFFICES ASSUME Init PROVE Owned
  OBVIOUS
<1>1. OneOwner /\ OnePort /\ NextRunIsNew
  BY Constants DEF Init, OneOwner, OnePort, NextRunIsNew, Owns, Held
<1>2. StatusTold
  BY Zenon DEF Init, StatusTold
<1> QED BY <1>1, <1>2 DEF Owned

(* Steps of the network, the tasks and the user *)
LEMMA OwnedSame ==
  ASSUME Owned, UNCHANGED <<ipc, runs, endpoint, controller, listening>>
  PROVE  Owned'
<1>1. OneOwner' /\ OnePort' /\ NextRunIsNew'
  BY DEF Owned, OneOwner, OnePort, NextRunIsNew, Owns, Held, ipc
<1>2. StatusTold'
  BY Zenon DEF Owned, StatusTold
<1> QED BY <1>1, <1>2 DEF Owned

LEMMA OwnedBind ==
  ASSUME TypeInv, Owned, NEW h \in Handlers, StartBind(h)
  PROVE  Owned'
<1>0. DaemonOK /\ OneOwner /\ OnePort /\ NextRunIsNew /\ StatusTold
      /\ UNCHANGED <<controller, listening>> /\ step[h] = "bind"
  BY DEF TypeInv, Owned, StartBind, daemon
<1>1. StatusTold'
  BY <1>0, Zenon DEF StatusTold
<1>2. ASSUME Goto(h, "idle"), UNCHANGED <<mine, runs, endpoint>>
      PROVE  OneOwner' /\ OnePort' /\ NextRunIsNew'
  <2>1. \A g \in Handlers, r \in Runs : Owns(g, r)' <=> Owns(g, r)
    BY <1>0, <1>2 DEF Goto, Owns, DaemonOK
  <2> QED BY <1>0, <1>2, <2>1 DEF OneOwner, OnePort, NextRunIsNew, Held
<1>3. ASSUME PortFree, runs < MaxRuns, runs' = runs + 1, endpoint' = [endpoint EXCEPT ![runs'] = "open"],
             mine' = [mine EXCEPT ![h] = runs'], Goto(h, "spawn")
      PROVE  OneOwner' /\ OnePort' /\ NextRunIsNew'
  <2>1. runs \in Nat /\ runs' \in Runs
    BY <1>0, <1>3, Constants DEF DaemonOK, Runs
  <2> PICK new \in Runs : new = runs'
    BY <2>1
  <2>2. \A r \in Runs : ~Held(r) /\ controller # r
    BY <1>0, <1>3 DEF PortFree, Held, OneOwner
  <2>3. \A r \in Runs : Held(r)' => r = new
    BY <1>0, <1>3, <2>1, <2>2 DEF Held, DaemonOK
  <2>4. endpoint'[new] = "open" /\ Owns(h, new)'
    BY <1>0, <1>3 DEF DaemonOK, Owns, Goto
  <2>5. \A g \in Handlers, r \in Runs : Owns(g, r)' => g = h /\ r = new
    <3>1. \A g \in Handlers, r \in Runs : ~Owns(g, r)
      BY <1>0, <2>2 DEF OneOwner, Held
    <3> QED BY <1>0, <1>3, <3>1 DEF Owns, Goto, DaemonOK
  <2>6. OneOwner' /\ OnePort'
    BY <1>0, <2>2, <2>3, <2>4, <2>5 DEF OneOwner, OnePort, Held
  <2>7. NextRunIsNew'
    <3>1. \A r \in Runs : r > runs' => r > runs /\ r # runs'
      BY <1>3, <2>1 DEF Runs
    <3> QED BY <1>0, <1>3, <3>1 DEF NextRunIsNew, DaemonOK
  <2> QED BY <2>6, <2>7
<1> QED BY <1>0, <1>1, <1>2, <1>3 DEF StartBind, Owned

LEMMA OwnedRecord ==
  ASSUME TypeInv, Owned, NEW h \in Handlers, StartRecord(h)
  PROVE  Owned'
<1>0. DaemonOK /\ OneOwner /\ OnePort /\ NextRunIsNew /\ StatusTold
      /\ UNCHANGED <<runs, endpoint>> /\ step[h] = "record" /\ mine[h] \in Runs
  BY DEF TypeInv, Owned, StartRecord, InHand
<1>1. Owns(h, mine[h]) /\ endpoint[mine[h]] = "open"
  BY <1>0 DEF Owns, OneOwner
(* Nothing is recorded: it would hold the port too. *)
<1>2. controller = None
  BY <1>0, <1>1 DEF OneOwner, OnePort, Held, DaemonOK
<1>3. controller' = mine[h] /\ listening' = TRUE /\ mine' = [mine EXCEPT ![h] = None] /\ Goto(h, "idle")
  BY DEF StartRecord
<1>4. \A g \in Handlers, r \in Runs : Owns(g, r)' <=> g # h /\ Owns(g, r)
  BY <1>0, <1>3 DEF Owns, Goto, DaemonOK
<1>5. OneOwner'
  <2>1. \A g \in Handlers, r \in Runs : Owns(g, r)' => endpoint'[r] = "open" /\ controller' # r
    BY <1>0, <1>1, <1>3, <1>4 DEF OneOwner
  <2>2. \A r \in Runs : endpoint'[r] = "open" => controller' = r
    BY <1>0, <1>1, <1>3 DEF OnePort, Held
  <2> QED BY <1>0, <1>1, <1>3, <1>4, <2>1, <2>2 DEF OneOwner
<1>6. OnePort' /\ NextRunIsNew'
  BY <1>0 DEF OnePort, NextRunIsNew, Held
<1>7. StatusTold'
  <2>1. controller' # None /\ listening'
    BY <1>0, <1>3, Constants
  <2> QED BY <2>1 DEF StatusTold
<1> QED BY <1>5, <1>6, <1>7 DEF Owned

LEMMA OwnedStop ==
  ASSUME TypeInv, Owned, NEW h \in Handlers, StopIdle(h)
  PROVE  Owned'
<1>0. DaemonOK /\ OneOwner /\ OnePort /\ NextRunIsNew /\ StatusTold
      /\ UNCHANGED <<runs, endpoint>> /\ step[h] = "idle"
  BY DEF TypeInv, Owned, StopIdle
<1>1. /\ controller' = None /\ listening' = FALSE /\ mine' = [mine EXCEPT ![h] = controller]
      /\ Goto(h, IF controller = None THEN "idle" ELSE "close")
  BY DEF StopIdle
<1>2. \A g \in Handlers, r \in Runs : Owns(g, r)' <=> Owns(g, r) \/ (g = h /\ controller = r)
  BY <1>0, <1>1, Constants DEF Owns, Goto, DaemonOK
<1>3. OneOwner'
  <2>1. \A r \in Runs : controller' # r
    BY <1>1, Constants
  <2>2. \A g \in Handlers, r \in Runs : Owns(g, r)' => endpoint'[r] = "open" /\ controller' # r
    BY <1>0, <1>2, <2>1 DEF OneOwner
  <2>3. \A f, g \in Handlers, r \in Runs : Owns(f, r)' /\ Owns(g, r)' => f = g
    BY <1>0, <1>2 DEF OneOwner
  <2>4. \A r \in Runs : endpoint'[r] = "open" => \E g \in Handlers : Owns(g, r)'
    BY <1>0, <1>2 DEF OneOwner
  <2> QED BY <2>1, <2>2, <2>3, <2>4 DEF OneOwner
<1>4. OnePort' /\ NextRunIsNew'
  BY <1>0 DEF OnePort, NextRunIsNew, Held
<1>5. StatusTold'
  BY <1>1 DEF StatusTold
<1> QED BY <1>3, <1>4, <1>5 DEF Owned

LEMMA OwnedClose ==
  ASSUME TypeInv, Owned, NEW h \in Handlers, StopClose(h)
  PROVE  Owned'
<1>0. DaemonOK /\ OneOwner /\ OnePort /\ NextRunIsNew /\ StatusTold
      /\ UNCHANGED <<mine, runs, controller, listening>> /\ step[h] = "close" /\ mine[h] \in Runs
  BY DEF TypeInv, Owned, StopClose, InHand, daemon
<1>1. endpoint' = [endpoint EXCEPT ![mine[h]] = "closing"] /\ Goto(h, "abort")
  BY DEF StopClose
<1>2. Owns(h, mine[h]) /\ endpoint[mine[h]] = "open" /\ controller # mine[h]
  BY <1>0 DEF Owns, OneOwner
<1>3. \A g \in Handlers, r \in Runs : Owns(g, r)' <=> g # h /\ Owns(g, r)
  BY <1>0, <1>1 DEF Owns, Goto, DaemonOK
<1>4. \A r \in Runs : endpoint'[r] = IF r = mine[h] THEN "closing" ELSE endpoint[r]
  BY <1>0, <1>1 DEF DaemonOK
<1>5. OneOwner'
  <2>1. \A g \in Handlers, r \in Runs : Owns(g, r)' => r # mine[h]
    BY <1>0, <1>2, <1>3 DEF OneOwner
  <2>2. \A r \in Runs : endpoint'[r] = "open" => controller = r \/ \E g \in Handlers : Owns(g, r)'
    <3> SUFFICES ASSUME NEW r \in Runs, endpoint'[r] = "open", controller # r
                 PROVE  \E g \in Handlers : Owns(g, r)'
      OBVIOUS
    <3>1. r # mine[h] /\ endpoint[r] = "open"
      BY <1>4
    <3>2. PICK g \in Handlers : Owns(g, r)
      BY <1>0, <3>1 DEF OneOwner
    <3>3. g # h
      BY <3>1, <3>2 DEF Owns
    <3> QED BY <1>3, <3>2, <3>3
  <2> QED BY <1>0, <1>2, <1>3, <1>4, <2>1, <2>2 DEF OneOwner
<1>6. OnePort' /\ NextRunIsNew'
  <2>1. \A r \in Runs : Held(r)' <=> Held(r)
    BY <1>2, <1>4 DEF Held
  <2>2. ~(mine[h] > runs)
    BY <1>0, <1>2 DEF NextRunIsNew
  <2> QED BY <1>0, <1>4, <2>1, <2>2 DEF OnePort, NextRunIsNew
<1>7. StatusTold'
  BY <1>0, Zenon DEF StatusTold
<1> QED BY <1>5, <1>6, <1>7 DEF Owned

LEMMA OwnedStep ==
  ASSUME TypeInv, Owned, [Next]_vars
  PROVE  Owned'
<1>0. DaemonOK /\ OneOwner /\ OnePort /\ NextRunIsNew /\ StatusTold
  BY DEF TypeInv, Owned
<1>1. ASSUME NEW h \in Handlers, StartCheck(h) \/ StartSpawn(h) \/ StopAbort(h)
      PROVE  Owned'
  <2>1. UNCHANGED <<runs, endpoint, controller, listening>>
    BY <1>1 DEF StartCheck, StartSpawn, StopAbort, daemon
  <2>2. \A g \in Handlers, r \in Runs : Owns(g, r)' <=> Owns(g, r)
    BY <1>0, <1>1 DEF StartCheck, StartSpawn, StopAbort, Goto, Owns, DaemonOK
  <2>3. OneOwner' /\ OnePort' /\ NextRunIsNew'
    BY <1>0, <2>1, <2>2 DEF OneOwner, OnePort, NextRunIsNew, Held
  <2>4. StatusTold'
    BY <1>0, <2>1, Zenon DEF StatusTold
  <2> QED BY <2>3, <2>4 DEF Owned
<1>2. ASSUME NEW r \in Runs, Release(r) PROVE Owned'
  <2>1. UNCHANGED <<step, mine, runs, controller, listening>> /\ endpoint[r] = "closing"
        /\ \A q \in Runs : endpoint'[q] = IF q = r THEN "released" ELSE endpoint[q]
    BY <1>0, <1>2 DEF Release, DaemonOK, ipc, daemon
  <2>2. \A h \in Handlers, q \in Runs : Owns(h, q)' <=> Owns(h, q)
    BY <2>1 DEF Owns
  <2>3. \A q \in Runs : (endpoint'[q] = "open" <=> endpoint[q] = "open")
                        /\ (Held(q)' => Held(q)) /\ (endpoint[q] = "none" => endpoint'[q] = "none")
    BY <2>1 DEF Held
  <2>4. OneOwner' /\ OnePort' /\ NextRunIsNew'
    BY <1>0, <2>1, <2>2, <2>3 DEF OneOwner, OnePort, NextRunIsNew
  <2>5. StatusTold'
    BY <1>0, <2>1, Zenon DEF StatusTold
  <2> QED BY <2>4, <2>5 DEF Owned
<1>3. ASSUME NEW r \in Runs, StartCapture(r) \/ Fanout(r) \/ SessionHandles(r) PROVE Owned'
  BY <1>3, OwnedSame DEF StartCapture, Fanout, FanoutReceive, FanoutTrack, FanoutForward, FanoutDies,
     SessionHandles, daemon
<1>4. ASSUME NEW c \in Clients, (\E r \in Runs : Connect(c, r)) \/ Break(c)
                               \/ ReportConnection(c) \/ ReportLoss(c)
      PROVE  Owned'
  BY <1>4, OwnedSame DEF Connect, Break, ReportConnection, ReportLoss, daemon
<1>5. CASE Cross \/ Emergency
  BY <1>5, OwnedSame DEF Cross, Emergency, daemon
<1>6. CASE UNCHANGED vars
  BY <1>6, OwnedSame DEF vars, daemon
<1> QED
  BY <1>1, <1>2, <1>3, <1>4, <1>5, <1>6, OwnedBind, OwnedRecord, OwnedStop, OwnedClose DEF Next, Handle

LEMMA OwnedRecorded == TypeInv /\ Owned => RecordedServerRuns
<1> SUFFICES ASSUME TypeInv, Owned, Quiet PROVE RecordedServerRuns
  BY DEF RecordedServerRuns
<1>1. OneOwner /\ StatusTold
  BY DEF Owned
<1>2. \A h \in Handlers, r \in Runs : ~Owns(h, r)
  BY DEF Quiet, Owns
<1>3. \A r \in Runs : endpoint[r] = "open" <=> controller = r
  BY <1>1, <1>2 DEF OneOwner
<1> QED BY <1>1, <1>3, Zenon DEF RecordedServerRuns, StatusTold

(* Between requests an endpoint is open exactly when it is the recorded one *)
(* and the status says listening, whatever Run and Stop requests overlap:   *)
(* the two locks of start_server leave no server that a Stop cannot reach.  *)
THEOREM RecordedServerRunsAlways == Spec => []RecordedServerRuns
<1>1. Init => TypeInv /\ Owned
  BY TypeInit, OwnedInit
<1>2. TypeInv /\ Owned /\ [Next]_vars => (TypeInv /\ Owned)'
  BY TypeStep, OwnedStep
<1> QED BY <1>1, <1>2, OwnedRecorded, PTL DEF Spec

-----------------------------------------------------------------------------
(* What the status lists and what the session has *)

Connected(c)    == [kind |-> "connected", client |-> c]
Disconnected(c) == [kind |-> "disconnected", client |-> c]

(* What the fan-out task of r has recorded and the session has not handled *)
Underway(r) == IF fanout[r] = "send" THEN Append(toSession[r], event[r]) ELSE toSession[r]

(* A session with this table has c once it has handled these events: its   *)
(* table has c, or an event adds it, and no later one takes it away.       *)
Expected(c, table, evts) ==
  \E i \in 0 .. Len(evts) :
    /\ IF i = 0 THEN c \in Range(table) ELSE evts[i] = Connected(c)
    /\ \A j \in i + 1 .. Len(evts) : evts[j] # Disconnected(c)

(* A fan-out task starts once in a run: the spawn that is still to come has *)
(* none before it.                                                          *)
OneFanout ==
  /\ \A r \in Runs : fanout[r] # "none" => r <= runs
  /\ \A h \in Handlers : step[h] = "spawn" => fanout[mine[h]] = "none"

(* While no run but the first is bound, what its fan-out task recorded is  *)
(* what its session has or will have: the status may list less, once a     *)
(* Stop has emptied it.                                                    *)
ListedReach ==
  (runs <= 1 /\ fanout[1] # "dead")
    => \A c \in Range(peers) : Expected(c, sessionPeers[1], Underway(1))

Listed == OneFanout /\ ListedReach

LEMMA FirstRun == 1 \in Runs /\ \A r \in Runs : r <= 1 => r = 1
BY LifecycleAssumption DEF Runs

LEMMA EventIs ==
  ASSUME NEW e \in Events
  PROVE  e.client \in Clients /\ (e = Connected(e.client) \/ e = Disconnected(e.client))
BY DEF Events, Connected, Disconnected

LEMMA UpdatedEntries ==
  ASSUME NEW table \in Seq(Clients), NEW c \in Clients
  PROVE  /\ Updated(table, Connected(c)) \in Seq(Clients)
         /\ Updated(table, Disconnected(c)) \in Seq(Clients)
         /\ Range(Updated(table, Connected(c))) = Range(table) \cup {c}
         /\ Range(Updated(table, Disconnected(c))) = Range(table) \ {c}
<1>1. Updated(table, Connected(c)) = Append(table, c)
  BY DEF Updated, Connected
<1>2. Updated(table, Disconnected(c)) = Retained(table, Clients \ {c})
  BY DEF Updated, Disconnected, Without
<1>3. Append(table, c) \in Seq(Clients) /\ Range(Append(table, c)) = Range(table) \cup {c}
  <2>1. /\ Append(table, c) \in Seq(Clients) /\ Len(table) \in Nat
        /\ DOMAIN Append(table, c) = 1 .. Len(table) + 1 /\ DOMAIN table = 1 .. Len(table)
        /\ Append(table, c)[Len(table) + 1] = c
        /\ \A i \in 1 .. Len(table) : Append(table, c)[i] = table[i]
    OBVIOUS
  <2> DEFINE longer == Append(table, c)
  <2> HIDE DEF longer
  <2>2. Range(longer) = Range(table) \cup {c}
    BY <2>1 DEF Range, longer
  <2> QED BY <2>1, <2>2 DEF longer
<1>4. /\ Retained(table, Clients \ {c}) \in Seq(Clients)
      /\ Range(Retained(table, Clients \ {c})) = Range(table) \cap (Clients \ {c})
  BY RetainedEntries
<1>5. Range(table) \subseteq Clients
  BY DEF Range
<1> QED BY <1>1, <1>2, <1>3, <1>4, <1>5

LEMMA ExpectedSettled ==
  ASSUME NEW c, NEW table, Expected(c, table, <<>>)
  PROVE  c \in Range(table)
BY DEF Expected

(* An event recorded behind the others *)
LEMMA ExpectedAppend ==
  ASSUME NEW c \in Clients, NEW table, NEW evts \in Seq(Events), NEW e \in Events,
         e = Connected(c) \/ (Expected(c, table, evts) /\ e # Disconnected(c))
  PROVE  Expected(c, table, Append(evts, e))
<1> DEFINE n      == Len(evts)
           longer == Append(evts, e)
<1>1. /\ n \in Nat /\ Len(longer) = n + 1 /\ longer[n + 1] = e
      /\ \A i \in 1 .. n : longer[i] = evts[i]
  OBVIOUS
<1> HIDE DEF longer
<1>2. CASE e = Connected(c)
  <2>1. n + 1 \in 0 .. Len(longer) /\ n + 1 # 0 /\ \A j \in (n + 1) + 1 .. Len(longer) : FALSE
    BY <1>1
  <2> QED BY <1>1, <1>2, <2>1 DEF Expected, longer
<1>3. CASE Expected(c, table, evts) /\ e # Disconnected(c)
  <2>1. PICK i \in 0 .. n : /\ IF i = 0 THEN c \in Range(table) ELSE evts[i] = Connected(c)
                            /\ \A j \in i + 1 .. n : evts[j] # Disconnected(c)
    BY <1>3 DEF Expected
  <2>2. i \in 0 .. Len(longer) /\ (i # 0 => longer[i] = evts[i])
    BY <1>1
  <2>3. \A j \in i + 1 .. Len(longer) : longer[j] # Disconnected(c)
    <3>1. \A j \in i + 1 .. Len(longer) : j \in i + 1 .. n \/ j = n + 1
      BY <1>1
    <3>2. \A j \in i + 1 .. n : longer[j] = evts[j]
      BY <1>1
    <3> QED BY <1>1, <1>3, <2>1, <3>1, <3>2
  <2> QED BY <2>1, <2>2, <2>3 DEF Expected, longer
<1> QED BY <1>2, <1>3

(* The first event handled *)
LEMMA ExpectedTail ==
  ASSUME NEW c \in Clients, NEW table \in Seq(Clients), NEW evts \in Seq(Events), evts # <<>>,
         Expected(c, table, evts)
  PROVE  Expected(c, Updated(table, Head(evts)), Tail(evts))
<1> DEFINE n    == Len(evts)
           rest == Tail(evts)
           new  == Updated(table, Head(evts))
<1>1. /\ n \in Nat /\ n >= 1 /\ Len(rest) = n - 1 /\ Head(evts) = evts[1] /\ evts[1] \in Events
      /\ \A i \in 1 .. n - 1 : rest[i] = evts[i + 1]
  OBVIOUS
<1>2. PICK i \in 0 .. n : /\ IF i = 0 THEN c \in Range(table) ELSE evts[i] = Connected(c)
                          /\ \A j \in i + 1 .. n : evts[j] # Disconnected(c)
  BY DEF Expected
<1>3. PICK d \in Clients : evts[1] = Connected(d) \/ evts[1] = Disconnected(d)
  BY <1>1, EventIs
<1>4. (evts[1] = Connected(d) /\ Range(new) = Range(table) \cup {d})
      \/ (evts[1] = Disconnected(d) /\ Range(new) = Range(table) \ {d})
  BY <1>1, <1>3, UpdatedEntries
<1> HIDE DEF rest, new
<1>5. CASE i <= 1
  <2>1. c \in Range(new)
    <3>1. CASE i = 0
      <4>1. evts[1] # Disconnected(c) /\ c \in Range(table)
        BY <1>1, <1>2, <3>1
      <4> QED BY <1>4, <4>1
    <3>2. CASE i = 1
      <4>1. evts[1] = Connected(c)
        BY <1>2, <3>2
      <4> QED BY <1>4, <4>1 DEF Connected, Disconnected
    <3> QED BY <1>2, <1>5, <3>1, <3>2
  <2>2. \A j \in 0 + 1 .. Len(rest) : rest[j] # Disconnected(c)
    <3> SUFFICES ASSUME NEW j \in 1 .. n - 1 PROVE rest[j] # Disconnected(c)
      BY <1>1
    <3>1. j + 1 \in i + 1 .. n
      BY <1>1, <1>2, <1>5
    <3> QED BY <1>1, <1>2, <3>1
  <2>3. 0 \in 0 .. Len(rest)
    BY <1>1
  <2> QED BY <2>1, <2>2, <2>3 DEF Expected, rest, new
<1>6. CASE i > 1
  <2>1. i - 1 \in 0 .. Len(rest) /\ i - 1 # 0 /\ rest[i - 1] = Connected(c)
    <3>1. i - 1 \in 1 .. n - 1 /\ (i - 1) + 1 = i
      BY <1>1, <1>2, <1>6
    <3> QED BY <1>1, <1>2, <1>6, <3>1
  <2>2. \A j \in (i - 1) + 1 .. Len(rest) : rest[j] # Disconnected(c)
    <3> SUFFICES ASSUME NEW j \in i .. n - 1 PROVE rest[j] # Disconnected(c)
      BY <1>1, <1>2
    <3>1. j + 1 \in i + 1 .. n /\ j \in 1 .. n - 1
      BY <1>1, <1>2, <1>6
    <3> QED BY <1>1, <1>2, <3>1
  <2> QED BY <2>1, <2>2 DEF Expected, rest, new
<1> QED BY <1>2, <1>5, <1>6

LEMMA ListedInit == Init => Listed
<1> SUFFICES ASSUME Init PROVE Listed
  OBVIOUS
<1>1. OneFanout
  BY DEF Init, OneFanout
<1>2. ListedReach
  BY DEF Init, ListedReach, Range
<1> QED BY <1>1, <1>2 DEF Listed

(* A run whose fan-out task is still to be spawned is the newest one, or   *)
(* belongs to the request that bound it and to no other.                   *)
LEMMA OneFanoutStep ==
  ASSUME TypeInv, Owned, Listed, [Next]_vars
  PROVE  OneFanout'
<1>0. DaemonOK /\ TasksOK /\ InHand /\ OneOwner /\ OnePort /\ NextRunIsNew /\ OneFanout
  BY DEF TypeInv, Owned, Listed
<1>1. ASSUME UNCHANGED <<ipc, runs, fanout>> PROVE OneFanout'
  BY <1>0, <1>1 DEF OneFanout, ipc
<1>2. ASSUME NEW h \in Handlers, StartCheck(h) \/ StopIdle(h) \/ StartRecord(h) \/ StopClose(h) \/ StopAbort(h)
      PROVE  OneFanout'
  <2>1. UNCHANGED <<runs, fanout>> /\ step'[h] # "spawn"
        /\ \A g \in Handlers \ {h} : step'[g] = step[g] /\ mine'[g] = mine[g]
    BY <1>0, <1>2 DEF StartCheck, StopIdle, StartRecord, StopClose, StopAbort, Goto, DaemonOK, tasks
  <2> QED BY <1>0, <2>1 DEF OneFanout
<1>3. ASSUME NEW h \in Handlers, StartBind(h) PROVE OneFanout'
  <2>1. UNCHANGED fanout
    BY <1>3 DEF StartBind, tasks
  <2>2. ASSUME Goto(h, "idle"), UNCHANGED <<mine, runs, endpoint>> PROVE OneFanout'
    BY <1>0, <2>1, <2>2 DEF OneFanout, Goto, DaemonOK
  <2>3. ASSUME runs < MaxRuns, runs' = runs + 1, mine' = [mine EXCEPT ![h] = runs'], Goto(h, "spawn")
        PROVE  OneFanout'
    <3>1. runs \in Nat /\ runs' \in Runs /\ runs' > runs
      BY <1>0, <2>3, Constants DEF DaemonOK, Runs
    <3>2. fanout[runs'] = "none"
      BY <1>0, <3>1 DEF OneFanout, Runs
    <3>3. \A r \in Runs : fanout'[r] # "none" => r <= runs'
      BY <1>0, <2>1, <3>1 DEF OneFanout, Runs
    <3>4. \A g \in Handlers : step'[g] = "spawn" => fanout'[mine'[g]] = "none"
      BY <1>0, <2>1, <2>3, <3>1, <3>2 DEF OneFanout, Goto, DaemonOK
    <3> QED BY <3>3, <3>4 DEF OneFanout
  <2> QED BY <1>3, <2>2, <2>3 DEF StartBind
<1>4. ASSUME NEW h \in Handlers, StartSpawn(h) PROVE OneFanout'
  <2>1. UNCHANGED <<mine, runs>> /\ step[h] = "spawn" /\ mine[h] \in Runs
        /\ fanout' = [fanout EXCEPT ![mine[h]] = "recv"] /\ Goto(h, "record")
    BY <1>0, <1>4 DEF StartSpawn, InHand
  <2>2. mine[h] <= runs
    <3>1. endpoint[mine[h]] = "open"
      BY <1>0, <2>1 DEF OneOwner, Owns
    <3> QED BY <1>0, <2>1, <3>1 DEF NextRunIsNew, DaemonOK, Runs
  <2>3. \A g \in Handlers : step'[g] = "spawn" => g # h /\ step[g] = "spawn" /\ mine[g] # mine[h]
    BY <1>0, <2>1 DEF OneOwner, Owns, Goto, DaemonOK
  <2>4. \A g \in Handlers : step[g] = "spawn" => mine[g] \in Runs
    BY <1>0 DEF InHand
  <2> QED BY <1>0, <2>1, <2>2, <2>3, <2>4 DEF OneFanout, TasksOK
<1>5. ASSUME NEW r \in Runs, Fanout(r) PROVE OneFanout'
  <2>1. UNCHANGED <<step, mine, runs>> /\ fanout[r] # "none"
        /\ \A q \in Runs : q # r => fanout'[q] = fanout[q]
    BY <1>0, <1>5 DEF Fanout, FanoutReceive, FanoutTrack, FanoutForward, FanoutDies, TasksOK, ipc
  <2>2. \A g \in Handlers : step[g] = "spawn" => mine[g] \in Runs
    BY <1>0 DEF InHand
  <2> QED BY <1>0, <2>1, <2>2 DEF OneFanout
<1>6. ASSUME NEW r \in Runs, StartCapture(r) \/ Release(r) \/ SessionHandles(r) PROVE OneFanout'
  BY <1>1, <1>6 DEF StartCapture, Release, SessionHandles, tasks
<1>7. ASSUME NEW c \in Clients, (\E r \in Runs : Connect(c, r)) \/ Break(c)
                               \/ ReportConnection(c) \/ ReportLoss(c)
      PROVE  OneFanout'
  BY <1>1, <1>7 DEF Connect, Break, ReportConnection, ReportLoss, tasks
<1>8. CASE Cross \/ Emergency \/ UNCHANGED vars
  BY <1>1, <1>8 DEF Cross, Emergency, tasks, vars
<1> QED
  BY <1>2, <1>3, <1>4, <1>5, <1>6, <1>7, <1>8 DEF Next, Handle

(* Steps that leave the lists alone and start or end no event's delivery *)
LEMMA ListedReachSame ==
  ASSUME Listed, UNCHANGED <<peers, sessionPeers, toSession, event>>,
         runs' <= 1 => runs <= 1,
         fanout'[1] # "dead" => fanout[1] # "dead",
         fanout'[1] = "send" <=> fanout[1] = "send"
  PROVE  ListedReach'
BY DEF Listed, ListedReach, Underway

LEMMA ListedFanout ==
  ASSUME TypeInv, Listed, NEW r \in Runs, Fanout(r)
  PROVE  ListedReach'
<1>0. DaemonOK /\ TasksOK /\ TablesOK /\ InHand /\ OneFanout /\ ListedReach
  BY DEF TypeInv, Listed
<1> SUFFICES ASSUME runs' <= 1, fanout'[1] # "dead", NEW c \in Range(peers')
             PROVE  Expected(c, sessionPeers'[1], Underway(1)')
  BY DEF ListedReach
<1>1. UNCHANGED <<runs, sessionPeers>> /\ fanout[r] # "none"
  BY DEF Fanout, FanoutReceive, FanoutTrack, FanoutForward, FanoutDies, session
<1>2. r = 1
  <2>1. r <= runs /\ runs \in Nat /\ r \in Nat /\ runs <= 1
    BY <1>0, <1>1 DEF OneFanout, DaemonOK, Runs
  <2> QED BY <2>1, FirstRun
<1>3. /\ sessionPeers[1] \in Seq(Clients) /\ toSession[1] \in Seq(Events)
      /\ peers \in Seq(Clients) /\ Range(peers) \subseteq Clients
  BY <1>0, FirstRun DEF TablesOK, Range
<1>4. ~FanoutDies(1)
  BY <1>0, FirstRun DEF FanoutDies, TasksOK
<1>5. fanout[1] # "dead" /\ \A d \in Range(peers) : Expected(d, sessionPeers[1], Underway(1))
  <2>1. fanout[1] # "dead"
    BY <1>2, <1>4 DEF Fanout, FanoutReceive, FanoutTrack, FanoutForward
  <2> QED BY <1>0, <1>1, <2>1 DEF ListedReach
<1>6. CASE FanoutReceive(1)
  <2>1. UNCHANGED <<toSession, peers>> /\ fanout[1] # "send" /\ fanout'[1] # "send"
    BY <1>0, <1>6, FirstRun DEF FanoutReceive, TasksOK, session, daemon
  <2> QED BY <1>1, <1>5, <2>1 DEF Underway
<1>7. CASE FanoutTrack(1)
  <2>1. /\ UNCHANGED <<toSession, event>> /\ fanout[1] = "track" /\ fanout'[1] = "send"
        /\ peers' = Updated(peers, event[1]) /\ event[1] \in Events
    BY <1>0, <1>7, FirstRun DEF FanoutTrack, TasksOK, InHand, session
  <2>2. Underway(1) = toSession[1] /\ Underway(1)' = Append(toSession[1], event[1])
    BY <2>1 DEF Underway
  <2>3. PICK d \in Clients : event[1] = Connected(d) \/ event[1] = Disconnected(d)
    BY <2>1, EventIs
  <2>4. CASE event[1] = Connected(d)
    <3>0. Range(Updated(peers, Connected(d))) = Range(peers) \cup {d}
      BY <1>3, UpdatedEntries
    <3>1. Range(peers') = Range(peers) \cup {d} /\ c \in Clients
      BY <1>3, <2>1, <2>4, <3>0
    <3>2. event[1] # Disconnected(c)
      BY <2>4 DEF Connected, Disconnected
    <3>3. event[1] = Connected(c) \/ Expected(c, sessionPeers[1], toSession[1])
      BY <1>5, <2>2, <2>4, <3>1
    <3> QED BY <1>1, <1>3, <2>1, <2>2, <3>1, <3>2, <3>3, ExpectedAppend
  <2>5. CASE event[1] = Disconnected(d)
    <3>0. Range(Updated(peers, Disconnected(d))) = Range(peers) \ {d}
      BY <1>3, UpdatedEntries
    <3>1. c \in Range(peers) /\ c # d /\ c \in Clients
      BY <1>3, <2>1, <2>5, <3>0
    <3>2. event[1] # Disconnected(c)
      BY <2>5, <3>1 DEF Disconnected
    <3>3. Expected(c, sessionPeers[1], toSession[1])
      BY <1>5, <2>2, <3>1
    <3> QED BY <1>1, <1>3, <2>1, <2>2, <3>1, <3>2, <3>3, ExpectedAppend
  <2> QED BY <2>3, <2>4, <2>5
<1>8. CASE FanoutForward(1)
  <2>1. /\ UNCHANGED peers /\ fanout[1] = "send" /\ fanout'[1] = "recv"
        /\ toSession'[1] = Append(toSession[1], event[1])
    BY <1>0, <1>8, FirstRun DEF FanoutForward, TasksOK, TablesOK, daemon
  <2>2. Underway(1)' = Underway(1)
    BY <2>1 DEF Underway
  <2> QED BY <1>1, <1>5, <2>1, <2>2
<1> QED BY <1>2, <1>4, <1>6, <1>7, <1>8 DEF Fanout

LEMMA ListedSession ==
  ASSUME TypeInv, Listed, NEW r \in Runs, SessionHandles(r)
  PROVE  ListedReach'
<1>0. TasksOK /\ TablesOK /\ InHand /\ ListedReach
      /\ UNCHANGED <<runs, fanout, event, peers>>
  BY DEF TypeInv, Listed, SessionHandles, tasks, daemon
<1>1. CASE r # 1
  <2>1. sessionPeers'[1] = sessionPeers[1] /\ toSession'[1] = toSession[1]
    BY <1>0, <1>1, FirstRun DEF SessionHandles, TablesOK
  <2> QED BY <1>0, <2>1 DEF ListedReach, Underway
<1>2. CASE r = 1
  <2>1. /\ toSession[1] # <<>> /\ toSession[1] \in Seq(Events) /\ sessionPeers[1] \in Seq(Clients)
        /\ toSession'[1] = Tail(toSession[1])
        /\ sessionPeers'[1] = Updated(sessionPeers[1], Head(toSession[1]))
    BY <1>0, <1>2, FirstRun DEF SessionHandles, TablesOK
  <2>2. /\ Underway(1) \in Seq(Events) /\ Underway(1) # <<>>
        /\ Head(Underway(1)) = Head(toSession[1]) /\ Underway(1)' = Tail(Underway(1))
    <3>1. CASE fanout[1] = "send"
      <4>1. event[1] \in Events
        BY <1>0, <3>1, FirstRun DEF InHand
      <4>2. Append(toSession[1], event[1]) \in Seq(Events) /\ Append(toSession[1], event[1]) # <<>>
            /\ Head(Append(toSession[1], event[1])) = Head(toSession[1])
            /\ Tail(Append(toSession[1], event[1])) = Append(Tail(toSession[1]), event[1])
        BY <2>1, <4>1, AppendProperties, HeadTailAppend
      <4> QED BY <1>0, <2>1, <3>1, <4>2 DEF Underway
    <3>2. CASE fanout[1] # "send"
      BY <1>0, <2>1, <3>2 DEF Underway
    <3> QED BY <3>1, <3>2
  <2>3. Range(peers) \subseteq Clients
    BY <1>0 DEF TablesOK, Range
  <2> SUFFICES ASSUME runs <= 1, fanout[1] # "dead", NEW c \in Range(peers)
               PROVE  Expected(c, sessionPeers'[1], Underway(1)')
    BY <1>0 DEF ListedReach
  <2>4. Expected(c, sessionPeers[1], Underway(1)) /\ c \in Clients
    BY <1>0, <2>3 DEF ListedReach
  <2>5. Expected(c, Updated(sessionPeers[1], Head(Underway(1))), Tail(Underway(1)))
    BY <2>1, <2>2, <2>4, ExpectedTail
  <2> QED BY <2>1, <2>2, <2>5
<1> QED BY <1>1, <1>2

LEMMA ListedStep ==
  ASSUME TypeInv, Owned, Listed, [Next]_vars
  PROVE  Listed'
<1>0. DaemonOK /\ TasksOK /\ InHand /\ OneFanout /\ ListedReach
  BY DEF TypeInv, Listed
<1> SUFFICES ListedReach'
  BY OneFanoutStep DEF Listed
<1>1. ASSUME UNCHANGED <<runs, peers, session, fanout, event>> PROVE ListedReach'
  BY <1>1, ListedReachSame DEF session
<1>2. ASSUME NEW h \in Handlers, StartCheck(h) \/ StartRecord(h) \/ StopClose(h) \/ StopAbort(h)
      PROVE  ListedReach'
  BY <1>1, <1>2 DEF StartCheck, StartRecord, StopClose, StopAbort, daemon, tasks
<1>3. ASSUME NEW h \in Handlers, StartBind(h) PROVE ListedReach'
  <2>1. UNCHANGED <<peers, sessionPeers, toSession, event, fanout>> /\ runs' \in {runs, runs + 1}
        /\ runs \in Nat
    BY <1>0, <1>3 DEF StartBind, daemon, tasks, session, DaemonOK
  <2> QED BY <2>1, ListedReachSame
<1>4. ASSUME NEW h \in Handlers, StartSpawn(h) PROVE ListedReach'
  <2>1. /\ UNCHANGED <<peers, sessionPeers, toSession, event, runs>> /\ mine[h] \in Runs
        /\ fanout' = [fanout EXCEPT ![mine[h]] = "recv"] /\ fanout[mine[h]] = "none"
    BY <1>0, <1>4 DEF StartSpawn, OneFanout, InHand, daemon, session
  <2>2. fanout'[1] = fanout[1] \/ (fanout[1] = "none" /\ fanout'[1] = "recv")
    BY <1>0, <2>1, FirstRun DEF TasksOK
  <2> QED BY <2>1, <2>2, ListedReachSame
<1>5. ASSUME NEW h \in Handlers, StopIdle(h) PROVE ListedReach'
  <2>1. Range(peers') = {}
    BY <1>5 DEF StopIdle, Range
  <2> QED BY <2>1 DEF ListedReach
<1>6. ASSUME NEW r \in Runs, StartCapture(r) \/ Release(r) PROVE ListedReach'
  BY <1>1, <1>6 DEF StartCapture, Release, daemon, tasks
<1>7. ASSUME NEW c \in Clients, (\E r \in Runs : Connect(c, r)) \/ Break(c)
                               \/ ReportConnection(c) \/ ReportLoss(c)
      PROVE  ListedReach'
  BY <1>1, <1>7 DEF Connect, Break, ReportConnection, ReportLoss, daemon, tasks
<1>8. CASE Cross \/ Emergency \/ UNCHANGED vars
  BY <1>1, <1>8 DEF Cross, Emergency, daemon, tasks, vars
<1> QED
  BY <1>2, <1>3, <1>4, <1>5, <1>6, <1>7, <1>8, ListedFanout, ListedSession DEF Next, Handle

LEMMA ListedSettled == TypeInv /\ Owned /\ Listed => StatusListsSession
<1> SUFFICES ASSUME TypeInv, Owned, Listed, Quiet, controller # None, runs = 1,
                    fanout[controller] = "recv", toSession[controller] = <<>>
             PROVE  ToSet(peers) \subseteq ToSet(sessionPeers[controller])
  BY DEF StatusListsSession
<1>1. controller \in Runs /\ endpoint[controller] = "open"
  BY DEF TypeInv, DaemonOK, Owned, OneOwner
<1>2. controller = 1
  <2>1. ~(controller > runs)
    BY <1>1 DEF Owned, NextRunIsNew
  <2> QED BY <1>1, <2>1, FirstRun DEF Runs
<1>3. ASSUME NEW c \in Range(peers) PROVE c \in Range(sessionPeers[1])
  <2>1. Expected(c, sessionPeers[1], <<>>)
    BY <1>2 DEF Listed, ListedReach, Underway
  <2> QED BY <2>1, ExpectedSettled
<1> QED BY <1>2, <1>3 DEF ToSet, Range

(* In the first run of the server a peer that the status lists is one the  *)
(* session has, once its events are handled, for any clients, channels of  *)
(* any capacity and any overlap of requests: the fan-out task records an   *)
(* event before it forwards it, waits for room, and is not replaced.       *)
THEOREM StatusListsSessionAlways == Spec => []StatusListsSession
<1>1. Init => TypeInv /\ Owned /\ Listed
  BY TypeInit, OwnedInit, ListedInit
<1>2. TypeInv /\ Owned /\ Listed /\ [Next]_vars => (TypeInv /\ Owned /\ Listed)'
  BY TypeStep, OwnedStep, ListedStep
<1> QED BY <1>1, <1>2, ListedSettled, PTL DEF Spec

-----------------------------------------------------------------------------
(* What a Stop leaves of a run *)

Closed(r)   == endpoint[r] \in {"closing", "released"}
Aborting(r) == \E h \in Handlers : step[h] = "abort" /\ mine[h] = r

(* The tasks of a run are aborted, or about to be, exactly when its         *)
(* endpoint was closed, and no connection outlives the endpoint but to      *)
(* report its end.                                                          *)
TornDown ==
  \A r \in Runs : /\ Closed(r) <=> r \in aborted \/ Aborting(r)
                  /\ Closed(r) => \A c \in Clients : serving[c] = r => c \in lost

(* The same between requests *)
StopsWholly ==
  Quiet => \A r \in Runs :
    /\ Closed(r) <=> r \in aborted
    /\ Closed(r) => controller # r /\ \A c \in Clients : serving[c] = r => c \in lost

LEMMA TornDownInit == Init => TornDown
BY DEF Init, TornDown, Closed, Aborting

(* Steps that take nobody to or from an abort and no endpoint to its end    *)
LEMMA TornDownSame ==
  ASSUME TornDown, UNCHANGED <<endpoint, aborted>>,
         \A r \in Runs : Aborting(r)' <=> Aborting(r),
         \A c \in Clients, r \in Runs :
           serving'[c] = r => \/ endpoint[r] = "open"
                              \/ serving[c] = r /\ (c \in lost => c \in lost')
  PROVE  TornDown'
BY DEF TornDown, Closed

LEMMA TornDownStep ==
  ASSUME TypeInv, Owned, TornDown, [Next]_vars
  PROVE  TornDown'
<1>1. /\ DaemonOK /\ NextRunIsNew /\ None \notin Runs
      /\ serving \in [Clients -> Runs \cup {None}] /\ lost \subseteq Clients
      /\ \A h \in Handlers : step[h] = "close" => mine[h] \in Runs
      /\ \A h \in Handlers : step[h] = "abort" => mine[h] \in Runs
  BY Constants DEF TypeInv, Owned, TasksOK, InHand
<1>2. ASSUME NEW h \in Handlers, StartCheck(h) \/ StartSpawn(h) \/ StartRecord(h) \/ StopIdle(h)
      PROVE  TornDown'
  <2>1. UNCHANGED <<endpoint, aborted, serving, lost>> /\ step[h] # "abort"
    BY <1>2 DEF StartCheck, StartSpawn, StartRecord, StopIdle, network, tasks
  <2>2. \A g \in Handlers : g # h => step'[g] = step[g] /\ mine'[g] = mine[g]
    BY <1>1, <1>2 DEF StartCheck, StartSpawn, StartRecord, StopIdle, Goto, DaemonOK
  <2>3. step'[h] # "abort"
    BY <1>1, <1>2 DEF StartCheck, StartSpawn, StartRecord, StopIdle, Goto, DaemonOK
  <2>4. \A r \in Runs : Aborting(r)' <=> Aborting(r)
    BY <2>1, <2>2, <2>3 DEF Aborting
  <2> QED BY <2>1, <2>4, TornDownSame
<1>3. ASSUME NEW h \in Handlers, StartBind(h) PROVE TornDown'
  <2>1. UNCHANGED <<aborted, serving, lost>> /\ step[h] = "bind"
    BY <1>3 DEF StartBind, network, tasks
  <2>2. \A g \in Handlers : g # h => step'[g] = step[g] /\ mine'[g] = mine[g]
    BY <1>1, <1>3 DEF StartBind, Goto, DaemonOK
  <2>3. step'[h] # "abort"
    BY <1>1, <1>3 DEF StartBind, Goto, DaemonOK
  <2>4. \A r \in Runs : Aborting(r)' <=> Aborting(r)
    BY <2>1, <2>2, <2>3 DEF Aborting
  <2>5. \A r \in Runs : Closed(r)' <=> Closed(r)
    <3>1. CASE UNCHANGED endpoint
      BY <3>1 DEF Closed
    <3>2. CASE runs < MaxRuns /\ runs' = runs + 1 /\ endpoint' = [endpoint EXCEPT ![runs'] = "open"]
      <4>1. runs' \in Runs /\ runs' > runs
        BY <1>1, <3>2, Constants DEF DaemonOK, Runs
      <4>2. endpoint[runs'] = "none" /\ endpoint'[runs'] = "open"
        BY <1>1, <3>2, <4>1 DEF NextRunIsNew, DaemonOK
      <4>3. \A r \in Runs : r # runs' => endpoint'[r] = endpoint[r]
        BY <1>1, <3>2 DEF DaemonOK
      <4> QED BY <4>2, <4>3 DEF Closed
    <3> QED BY <1>3, <3>1, <3>2 DEF StartBind
  <2> QED BY <2>1, <2>4, <2>5 DEF TornDown
<1>4. ASSUME NEW h \in Handlers, StopClose(h) PROVE TornDown'
  <2>1. /\ step[h] = "close" /\ mine[h] \in Runs
        /\ UNCHANGED <<mine, aborted, serving>>
        /\ lost' = lost \cup {c \in Clients : serving[c] = mine[h]}
    BY <1>1, <1>4 DEF StopClose, tasks
  <2>2. \A r \in Runs : endpoint'[r] = IF r = mine[h] THEN "closing" ELSE endpoint[r]
    BY <1>1, <1>4 DEF StopClose, DaemonOK
  <2>3. \A g \in Handlers : step'[g] = IF g = h THEN "abort" ELSE step[g]
    BY <1>1, <1>4 DEF StopClose, Goto, DaemonOK
  <2>4. \A r \in Runs : Aborting(r)' <=> Aborting(r) \/ r = mine[h]
    BY <2>1, <2>3 DEF Aborting
  <2>5. \A r \in Runs : Closed(r)' <=> Closed(r) \/ r = mine[h]
    BY <2>2 DEF Closed
  <2> QED BY <2>1, <2>4, <2>5 DEF TornDown
<1>5. ASSUME NEW h \in Handlers, StopAbort(h) PROVE TornDown'
  <2>1. /\ step[h] = "abort" /\ mine[h] \in Runs
        /\ UNCHANGED <<endpoint, serving, lost>>
        /\ aborted' = aborted \cup {mine[h]}
    BY <1>1, <1>5 DEF StopAbort, AbortedTasks, network
  <2>2. \A g \in Handlers : /\ step'[g] = IF g = h THEN "idle" ELSE step[g]
                            /\ g # h => mine'[g] = mine[g]
    BY <1>1, <1>5 DEF StopAbort, Goto, DaemonOK
  <2>3. \A r \in Runs : (r \in aborted \/ Aborting(r))' <=> r \in aborted \/ Aborting(r)
    BY <2>1, <2>2 DEF Aborting
  <2> QED BY <2>1, <2>3 DEF TornDown, Closed
<1>6. ASSUME NEW r \in Runs, Release(r) PROVE TornDown'
  <2>1. UNCHANGED <<step, mine, aborted, serving, lost>> /\ endpoint[r] = "closing"
        /\ \A q \in Runs : endpoint'[q] = IF q = r THEN "released" ELSE endpoint[q]
    BY <1>1, <1>6 DEF Release, DaemonOK, ipc, network, tasks
  <2>2. \A q \in Runs : Closed(q)' <=> Closed(q)
    BY <2>1 DEF Closed
  <2>3. \A q \in Runs : Aborting(q)' <=> Aborting(q)
    BY <2>1 DEF Aborting
  <2> QED BY <2>1, <2>2, <2>3 DEF TornDown
<1>7. ASSUME UNCHANGED <<step, mine>> PROVE \A r \in Runs : Aborting(r)' <=> Aborting(r)
  BY <1>7 DEF Aborting
<1>8. ASSUME NEW c \in Clients, NEW r \in Runs, Connect(c, r) PROVE TornDown'
  <2>1. /\ UNCHANGED <<step, mine, endpoint, aborted, lost>> /\ endpoint[r] = "open"
        /\ \A d \in Clients : serving'[d] = IF d = c THEN r ELSE serving[d]
    BY <1>1, <1>8 DEF Connect, ipc, tasks
  <2> QED BY <1>7, <2>1, TornDownSame
<1>9. ASSUME NEW c \in Clients, Break(c) \/ ReportConnection(c) \/ ReportLoss(c)
      PROVE  TornDown'
  <2>1. UNCHANGED <<step, mine, endpoint, aborted>>
    BY <1>9 DEF Break, ReportConnection, ReportLoss, ipc, tasks
  <2>2. \A d \in Clients, r \in Runs : serving'[d] = r => serving[d] = r /\ (d \in lost => d \in lost')
    BY <1>1, <1>9 DEF Break, ReportConnection, ReportLoss
  <2> QED BY <1>7, <2>1, <2>2, TornDownSame
<1>10. ASSUME UNCHANGED <<step, mine, endpoint, aborted, serving, lost>> PROVE TornDown'
  BY <1>7, <1>10, TornDownSame
<1>11. ASSUME NEW r \in Runs, StartCapture(r) \/ Fanout(r) \/ SessionHandles(r) PROVE TornDown'
  BY <1>10, <1>11 DEF StartCapture, Fanout, FanoutReceive, FanoutTrack, FanoutForward, FanoutDies,
     SessionHandles, ipc, network, tasks
<1>12. ASSUME Cross \/ Emergency \/ UNCHANGED vars PROVE TornDown'
  BY <1>10, <1>12 DEF Cross, Emergency, vars, ipc, network, tasks
<1> QED
  BY <1>2, <1>3, <1>4, <1>5, <1>6, <1>8, <1>9, <1>11, <1>12 DEF Next, Handle

(* StopsWhollyAlways: what StopEndsRun rests on, without fairness. Between  *)
(* requests the tasks of a run are aborted exactly when its endpoint was    *)
(* closed, and then it is not the recorded run and each connection it still *)
(* has is lost: overlapping Run and Stop requests never abort the tasks of  *)
(* a run that goes on listening, nor close one and leave its tasks.         *)
THEOREM StopsWhollyAlways == Spec => []StopsWholly
<1>1. Init => TypeInv /\ Owned /\ TornDown
  BY TypeInit, OwnedInit, TornDownInit
<1>2. TypeInv /\ Owned /\ TornDown /\ [Next]_vars => (TypeInv /\ Owned /\ TornDown)'
  BY TypeStep, OwnedStep, TornDownStep
<1>3. Owned /\ TornDown => StopsWholly
  <2> SUFFICES ASSUME Owned, TornDown, Quiet, NEW r \in Runs
               PROVE  /\ Closed(r) <=> r \in aborted
                      /\ Closed(r) => controller # r /\ \A c \in Clients : serving[c] = r => c \in lost
    BY DEF StopsWholly
  <2>1. ~Aborting(r)
    BY DEF Aborting, Quiet
  <2>2. Closed(r) => controller # r
    BY DEF Closed, Owned, OneOwner
  <2> QED BY <2>1, <2>2 DEF TornDown
<1> QED BY <1>1, <1>2, <1>3, PTL DEF Spec
=============================================================================
