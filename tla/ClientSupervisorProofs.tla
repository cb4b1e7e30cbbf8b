------------------------- MODULE ClientSupervisorProofs -------------------------
(***************************************************************************)
(* Theorems about ClientSupervisor for any servers, any number of requests *)
(* and channels of any capacity.                                            *)
(***************************************************************************)
EXTENDS ClientSupervisor, SequenceTheorems, FiniteSetTheorems, TLAPS

-----------------------------------------------------------------------------
(* The peer tables: what Vec::retain returns. The components that keep a    *)
(* table are specifications of their own, so each states the two lemmas.   *)

(* Counting the members of a finite set of indices up to each of them is a *)
(* bijection onto 1 .. its cardinality.                                     *)
LEMMA PlacesAll ==
  ASSUME NEW n \in Nat, NEW kept \in SUBSET (1 .. n)
  PROVE  /\ Cardinality(kept) \in Nat
         /\ \A i \in kept : Cardinality(kept \cap 1 .. i) \in 1 .. Cardinality(kept)
         /\ \A i, j \in kept :
              Cardinality(kept \cap 1 .. i) = Cardinality(kept \cap 1 .. j) => i = j
         /\ \A k \in 1 .. Cardinality(kept) :
              \E i \in kept : Cardinality(kept \cap 1 .. i) = k
<1> DEFINE Place(i) == Cardinality(kept \cap 1 .. i)
           place    == [i \in kept |-> Place(i)]
           places   == 1 .. Cardinality(kept)
<1>1. IsFiniteSet(kept) /\ Cardinality(kept) \in Nat
  <2>1. IsFiniteSet(1 .. n)
    BY FS_Interval
  <2>2. IsFiniteSet(kept)
    BY <2>1, FS_Subset
  <2> QED BY <2>2, FS_CardinalityType
<1>2. ASSUME NEW i \in kept PROVE IsFiniteSet(kept \cap 1 .. i) /\ Place(i) \in places
  <2>1. IsFiniteSet(kept \cap 1 .. i) /\ Place(i) <= Cardinality(kept)
    BY <1>1, FS_Intersection
  <2>2. Place(i) \in Nat
    BY <2>1, FS_CardinalityType
  <2>3. i \in kept \cap 1 .. i
    OBVIOUS
  <2>4. Place(i) # 0
    BY <2>1, <2>3, FS_EmptySet
  <2> QED BY <1>1, <2>1, <2>2, <2>4
<1>3. ASSUME NEW i \in kept, NEW j \in kept, i < j PROVE Place(i) # Place(j)
  <2>1. (kept \cap 1 .. i) \in SUBSET (kept \cap 1 .. j) /\ j \in kept \cap 1 .. j
    BY <1>3
  <2>2. j \notin kept \cap 1 .. i
    BY <1>3
  <2> QED BY <1>2, <2>1, <2>2, FS_Subset
<1>4. ASSUME NEW i \in kept, NEW j \in kept, Place(i) = Place(j) PROVE i = j
  BY <1>3, <1>4
<1>5. place \in Injection(kept, places)
  BY <1>2, <1>4 DEF Injection, IsInjective
<1>6. IsFiniteSet(places) /\ Cardinality(places) = Cardinality(kept)
  BY <1>1, FS_Interval
<1>7. place \in Surjection(kept, places)
  BY <1>5, <1>6, FS_Injection
<1>8. \A k \in places : \E i \in kept : Place(i) = k
  BY <1>7 DEF Surjection
<1> QED BY <1>1, <1>2, <1>4, <1>8

(* What Retained returns: every entry that is to be kept, and no other.     *)
LEMMA RetainedEntries ==
  ASSUME NEW S, NEW table \in Seq(S), NEW keep
  PROVE  /\ Retained(table, keep) \in Seq(S)
         /\ Range(Retained(table, keep)) = Range(table) \cap keep
<1> DEFINE kept     == {i \in 1 .. Len(table) : table[i] \in keep}
           Place(i) == Cardinality(kept \cap 1 .. i)
           places   == 1 .. Cardinality(kept)
           At(k)    == CHOOSE i \in kept : Place(i) = k
           t        == [k \in places |-> table[At(k)]]
<1>1. t = Retained(table, keep)
  BY DEF Retained
<1>2. Len(table) \in Nat /\ kept \in SUBSET (1 .. Len(table)) /\ DOMAIN table = 1 .. Len(table)
  OBVIOUS
<1>3. /\ Cardinality(kept) \in Nat
      /\ \A i \in kept : Place(i) \in places
      /\ \A i, j \in kept : Place(i) = Place(j) => i = j
      /\ \A k \in places : \E i \in kept : Place(i) = k
  <2> HIDE DEF kept
  <2> QED BY <1>2, PlacesAll
<1>4. ASSUME NEW k \in places PROVE At(k) \in kept /\ Place(At(k)) = k
  <2> HIDE DEF kept
  <2> QED BY <1>3
<1>5. \A i \in kept : table[i] \in S /\ table[i] \in keep /\ i \in DOMAIN table
  BY <1>2
<1>6. \A i \in kept : At(Place(i)) = i
  <2> HIDE DEF kept
  <2> QED BY <1>3, <1>4
<1>7. \A i \in DOMAIN table : table[i] \in keep => i \in kept
  BY <1>2
<1> HIDE DEF kept, Place, At
<1>8. t \in [places -> S]
  BY <1>4, <1>5
<1>9. t \in Seq(S)
  BY <1>3, <1>8
<1>10. DOMAIN t = places /\ \A k \in places : t[k] = table[At(k)]
  OBVIOUS
<1> HIDE DEF t, places
<1>11. ASSUME NEW x \in Range(t) PROVE x \in Range(table) \cap keep
  BY <1>4, <1>5, <1>10 DEF Range
<1>12. ASSUME NEW x \in Range(table), x \in keep PROVE x \in Range(t)
  <2>1. PICK i \in DOMAIN table : x = table[i]
    BY DEF Range
  <2>2. i \in kept
    BY <1>7, <1>12, <2>1
  <2>3. Place(i) \in places /\ t[Place(i)] = x
    BY <1>3, <1>6, <1>10, <2>1, <2>2
  <2> QED BY <1>10, <2>3 DEF Range
<1> QED BY <1>1, <1>9, <1>11, <1>12

(* Whether an entry is kept depends on the entries of the table alone. *)
LEMMA RetainedCongruent ==
  ASSUME NEW S, NEW table \in Seq(S), NEW keep, NEW keep2,
         \A x \in S : x \in keep <=> x \in keep2
  PROVE  Retained(table, keep) = Retained(table, keep2)
<1> DEFINE Indices(good) == {i \in 1 .. Len(table) : table[i] \in good}
           Selected(kept) == [k \in 1 .. Cardinality(kept) |->
                                table[CHOOSE i \in kept : Cardinality(kept \cap 1 .. i) = k]]
<1>1. Indices(keep) = Indices(keep2)
  OBVIOUS
<1>2. Retained(table, keep) = Selected(Indices(keep))
  BY DEF Retained
<1>3. Retained(table, keep2) = Selected(Indices(keep2))
  BY DEF Retained
<1> HIDE DEF Indices, Selected
<1> QED BY <1>1, <1>2, <1>3

-----------------------------------------------------------------------------
(* Type correctness *)

(* Every dial answers a request of its own: what was dialed and what waits *)
(* to be dialed are no more than what was issued.                          *)
Owed == IF pending = None THEN 0 ELSE 1

Counted ==
  /\ IsFiniteSet(spawned)
  /\ current + Owed + Len(cmds) + Cardinality(spawned) <= issued
  /\ stage # "idle" => current >= 1

TypeInv == TypeOK /\ Counted

(* The two parts of TypeOK: the requests with the supervisor, the tables *)
RequestsOK ==
  /\ issued \in 0..MaxRequests
  /\ spawned \subseteq [id : Dials, cmd : Commands]
  /\ cmds \in Seq(Commands) /\ Len(cmds) <= CmdCap
  /\ pending \in Servers \cup {None}
  /\ stage \in {"idle", "handshake", "announce", "serving", "report"}
  /\ target \in Seq(Servers) /\ current <= MaxRequests
  /\ link \in [Dials -> {"none", "dialing", "open", "serving", "closed"}]
  /\ orphans \subseteq Dials

TablesOK ==
  /\ events \in Seq(Events) /\ Len(events) <= EventCap
  /\ draining \in Events \cup {None}
  /\ toSession \in Seq(Events) /\ Len(toSession) <= SessionCap
  /\ peers \in Seq(Dials) /\ sessionPeers \in Seq(Dials)

LEMMA TypeParts == TypeOK <=> RequestsOK /\ TablesOK
BY DEF TypeOK, RequestsOK, TablesOK

LEMMA Constants ==
  MaxRequests \in Nat /\ CmdCap \in Nat /\ EventCap \in Nat /\ SessionCap \in Nat
  /\ CmdCap >= 1 /\ EventCap >= 1 /\ SessionCap >= 1
BY ClientAssumption

(* A table that has taken an event is still one of dials. *)
LEMMA UpdatedType ==
  ASSUME NEW S, NEW table \in Seq(S), NEW evt, evt.dial \in S
  PROVE  Updated(table, evt) \in Seq(S)
BY RetainedEntries DEF Updated, Without

LEMMA TypeInit == Init => TypeInv
<1> SUFFICES ASSUME Init PROVE TypeInv
  OBVIOUS
<1> USE DEF current
<1>1. RequestsOK
  BY Constants DEF Init, RequestsOK
<1>2. TablesOK
  BY Constants DEF Init, TablesOK
<1>3. Counted
  BY FS_EmptySet DEF Init, Counted, Owed
<1> QED BY <1>1, <1>2, <1>3, TypeParts DEF TypeInv

(* A dial starts a connection of a number not used before. *)
LEMMA StartDialType ==
  ASSUME RequestsOK, NEW s \in Servers, StartDial(s), current < MaxRequests
  PROVE  /\ target' \in Seq(Servers) /\ current' = current + 1 /\ current' <= MaxRequests
         /\ link' \in [Dials -> {"none", "dialing", "open", "serving", "closed"}]
         /\ stage' = "handshake"
BY Constants DEF RequestsOK, StartDial, current, Dials

LEMMA TypeStep ==
  ASSUME TypeInv, [Next]_vars
  PROVE  TypeInv'
<1> USE DEF current
<1>0. /\ RequestsOK /\ TablesOK /\ Counted
      /\ Cardinality(spawned) \in Nat /\ Owed \in {0, 1} /\ current \in Nat /\ Len(cmds) \in Nat
      /\ issued \in Nat
  BY TypeParts, FS_CardinalityType, Constants DEF TypeInv, Counted, Owed, RequestsOK
<1> SUFFICES RequestsOK' /\ TablesOK' /\ Counted'
  BY DEF TypeInv, TypeOK, RequestsOK, TablesOK
<1>1. ASSUME UNCHANGED <<events, tables>> PROVE TablesOK'
  BY <1>0, <1>1 DEF TablesOK, tables
<1>2. ASSUME UNCHANGED <<issued, channels, supervisor>> PROVE RequestsOK' /\ Counted'
  BY <1>0, <1>2 DEF RequestsOK, Counted, Owed, channels, supervisor
<1>3. ASSUME UNCHANGED <<issued, channels, pending, target, orphans>>,
             stage' \in {"idle", "handshake", "announce", "serving", "report"},
             link' \in [Dials -> {"none", "dialing", "open", "serving", "closed"}],
             stage' # "idle" => stage # "idle"
      PROVE  RequestsOK' /\ Counted'
  BY <1>0, <1>3 DEF RequestsOK, Counted, Owed, channels
<1>4. ASSUME NEW cmd \in Commands, Request(cmd) PROVE RequestsOK' /\ TablesOK' /\ Counted'
  <2>1. issued' \in 0..MaxRequests /\ issued' = issued + 1 /\ issued' \in Dials
    BY <1>0, <1>4, Constants DEF Request, Dials, RequestsOK
  <2>2. IsFiniteSet(spawned') /\ Cardinality(spawned') <= Cardinality(spawned) + 1
        /\ Cardinality(spawned') \in Nat
    <3> DEFINE task == [id |-> issued', cmd |-> cmd]
    <3>1. spawned' = spawned \cup {task} /\ IsFiniteSet(spawned)
      BY <1>0, <1>4 DEF Request, Counted
    <3> HIDE DEF task
    <3>2. IsFiniteSet(spawned \cup {task})
          /\ Cardinality(spawned \cup {task}) \in {Cardinality(spawned), Cardinality(spawned) + 1}
      BY <3>1, FS_AddElement
    <3> QED BY <1>0, <3>1, <3>2
  <2>3. spawned' \subseteq [id : Dials, cmd : Commands]
    BY <1>0, <1>4, <2>1 DEF Request, RequestsOK
  <2>4. RequestsOK'
    BY <1>0, <1>4, <2>1, <2>3 DEF Request, RequestsOK, supervisor
  <2>5. Counted'
    BY <1>0, <1>4, <2>1, <2>2 DEF Request, Counted, Owed, supervisor
  <2> QED BY <1>1, <1>4, <2>4, <2>5 DEF Request
<1>5. ASSUME NEW task \in spawned, Send(task) PROVE RequestsOK' /\ TablesOK' /\ Counted'
  <2>1. IsFiniteSet(spawned') /\ Cardinality(spawned') = Cardinality(spawned) - 1
    BY <1>0, <1>5, FS_RemoveElement DEF Send, Counted
  <2>2. task.cmd \in Commands
    BY <1>0 DEF RequestsOK
  <2>3. cmds' \in Seq(Commands) /\ Len(cmds') = Len(cmds) + 1
    BY <1>0, <1>5, <2>2 DEF Send, RequestsOK
  <2>4. RequestsOK'
    BY <1>0, <1>5, <2>3, Constants DEF Send, RequestsOK, supervisor
  <2>5. Counted'
    <3>1. Owed' = Owed /\ current' = current /\ stage' = stage /\ issued' = issued
      BY <1>5 DEF Send, Owed, supervisor
    <3> QED BY <1>0, <2>1, <2>3, <3>1 DEF Counted
  <2> QED BY <1>1, <1>5, <2>4, <2>5 DEF Send
<1>6. CASE DialPending
  <2>1. pending \in Servers /\ Owed = 1
    BY <1>0, <1>6 DEF DialPending, RequestsOK, Owed
  <2>2. current < MaxRequests
    BY <1>0, <2>1, Constants DEF Counted, RequestsOK
  <2>3. /\ target' \in Seq(Servers) /\ current' = current + 1 /\ current' <= MaxRequests
        /\ link' \in [Dials -> {"none", "dialing", "open", "serving", "closed"}]
        /\ stage' = "handshake"
    BY <1>0, <1>6, <2>1, <2>2, StartDialType DEF DialPending
  <2>4. RequestsOK'
    BY <1>0, <1>6, <2>3 DEF DialPending, RequestsOK, channels
  <2>5. Counted'
    BY <1>0, <1>6, <2>1, <2>3 DEF DialPending, Counted, Owed, channels
  <2> QED BY <1>1, <1>6, <2>4, <2>5 DEF DialPending
<1>7. CASE TakeWhileIdle
  <2>1. /\ Head(cmds) \in Commands /\ cmds' \in Seq(Commands) /\ Len(cmds') = Len(cmds) - 1
        /\ Len(cmds) >= 1
    BY <1>0, <1>7 DEF TakeWhileIdle, RequestsOK
  <2>2. CASE UNCHANGED <<stage, target, link>>
    <3>1. RequestsOK'
      BY <1>0, <1>7, <2>1, <2>2, Constants DEF TakeWhileIdle, RequestsOK
    <3>2. Counted'
      BY <1>0, <1>7, <2>1, <2>2 DEF TakeWhileIdle, Counted, Owed
    <3> QED BY <1>1, <1>7, <3>1, <3>2 DEF TakeWhileIdle
  <2>3. CASE Head(cmds) # HangUp /\ StartDial(Head(cmds).server)
    <3>1. Head(cmds).server \in Servers
      BY <2>1, <2>3 DEF Commands, Dial
    <3>2. current < MaxRequests
      BY <1>0, <2>1, Constants DEF Counted, RequestsOK
    <3>3. /\ target' \in Seq(Servers) /\ current' = current + 1 /\ current' <= MaxRequests
          /\ link' \in [Dials -> {"none", "dialing", "open", "serving", "closed"}]
          /\ stage' = "handshake"
      BY <1>0, <2>3, <3>1, <3>2, StartDialType
    <3>4. RequestsOK'
      BY <1>0, <1>7, <2>1, <3>3, Constants DEF TakeWhileIdle, RequestsOK
    <3>5. Counted'
      BY <1>0, <1>7, <2>1, <3>3 DEF TakeWhileIdle, Counted, Owed
    <3> QED BY <1>1, <1>7, <3>4, <3>5 DEF TakeWhileIdle
  <2> QED BY <1>7, <2>2, <2>3 DEF TakeWhileIdle
<1>8. CASE Cancel
  <2>1. /\ Head(cmds) \in Commands /\ cmds' \in Seq(Commands) /\ Len(cmds') = Len(cmds) - 1
        /\ Len(cmds) >= 1
    BY <1>0, <1>8 DEF Cancel, RequestsOK
  <2>2. Head(cmds).server \in Servers \cup {None}
    BY <2>1 DEF Commands, Dial, HangUp
  <2>3. current \in Dials
    BY <1>0, <1>8, Constants DEF Cancel, Counted, RequestsOK, Dials
  <2>4. link' \in [Dials -> {"none", "dialing", "open", "serving", "closed"}]
    BY <1>0, <1>8 DEF Cancel, DroppedLink, RequestsOK
  <2>5. RequestsOK'
    BY <1>0, <1>8, <2>1, <2>2, <2>3, <2>4, Constants DEF Cancel, NextPending, RequestsOK
  <2>6. Counted'
    BY <1>0, <1>8, <2>1 DEF Cancel, Counted, Owed
  <2> QED BY <1>1, <1>8, <2>5, <2>6 DEF Cancel
<1>9. CASE Handshake
  <2>1. link' \in [Dials -> {"none", "dialing", "open", "serving", "closed"}]
    BY <1>0, <1>9 DEF Handshake, RequestsOK
  <2> QED BY <1>1, <1>3, <1>9, <2>1 DEF Handshake, Connecting
<1>10. CASE Announce
  <2>1. link' \in [Dials -> {"none", "dialing", "open", "serving", "closed"}]
    BY <1>0, <1>10 DEF Announce, RequestsOK
  <2>2. RequestsOK' /\ Counted'
    BY <1>3, <1>10, <2>1 DEF Announce, Connecting
  <2>3. [kind |-> "connected", dial |-> current] \in Events
    BY <1>0, <1>10, Constants DEF Announce, Connecting, Counted, RequestsOK, Events, Dials
  <2>4. TablesOK'
    BY <1>0, <1>10, <2>3, Constants DEF Announce, TablesOK, tables
  <2> QED BY <2>2, <2>4
<1>11. CASE PeerLoopEnds
  BY <1>0, <1>1, <1>3, <1>11 DEF PeerLoopEnds, Connecting, RequestsOK
<1>12. CASE Report
  <2>1. RequestsOK' /\ Counted'
    BY <1>0, <1>3, <1>12 DEF Report, Connecting, RequestsOK
  <2>2. [kind |-> "disconnected", dial |-> current] \in Events
    BY <1>0, <1>12, Constants DEF Report, Connecting, Counted, RequestsOK, Events, Dials
  <2>3. TablesOK'
    BY <1>0, <1>12, <2>2, Constants DEF Report, TablesOK, tables
  <2> QED BY <2>1, <2>3
<1>13. ASSUME NEW d \in Dials, Break(d) PROVE RequestsOK' /\ TablesOK' /\ Counted'
  <2>1. link' \in [Dials -> {"none", "dialing", "open", "serving", "closed"}]
    BY <1>0, <1>13 DEF Break, RequestsOK
  <2> QED BY <1>0, <1>1, <1>3, <1>13, <2>1 DEF Break, RequestsOK
<1>14. CASE Track
  <2>1. Head(events) \in Events /\ events' \in Seq(Events) /\ Len(events') = Len(events) - 1
    BY <1>0, <1>14 DEF Track, TablesOK
  <2>2. peers' \in Seq(Dials)
    BY <1>0, <1>14, <2>1, UpdatedType DEF Track, TablesOK, Events
  <2>3. TablesOK'
    BY <1>0, <1>14, <2>1, <2>2, Constants DEF Track, TablesOK
  <2> QED BY <1>2, <1>14, <2>3 DEF Track
<1>15. CASE Forward
  <2>1. TablesOK'
    BY <1>0, <1>15, Constants DEF Forward, TablesOK
  <2> QED BY <1>2, <1>15, <2>1 DEF Forward
<1>16. CASE SessionHandles
  <2>1. Head(toSession) \in Events /\ toSession' \in Seq(Events)
        /\ Len(toSession') = Len(toSession) - 1
    BY <1>0, <1>16 DEF SessionHandles, TablesOK
  <2>2. sessionPeers' \in Seq(Dials)
    BY <1>0, <1>16, <2>1, UpdatedType DEF SessionHandles, TablesOK, Events
  <2>3. TablesOK'
    BY <1>0, <1>16, <2>1, <2>2, Constants DEF SessionHandles, TablesOK
  <2> QED BY <1>2, <1>16, <2>3 DEF SessionHandles
<1>17. CASE UNCHANGED vars
  BY <1>1, <1>2, <1>17 DEF vars
<1> QED
  BY <1>4, <1>5, <1>6, <1>7, <1>8, <1>9, <1>10, <1>11, <1>12, <1>13, <1>14, <1>15, <1>16, <1>17
  DEF Next, Supervise

(* Every variable of the supervisor, its channels and the two tables keeps *)
(* its type, no channel overflows, and no dial is made that nobody asked    *)
(* for: their number stays within that of the requests.                     *)
THEOREM TypeCorrect == Spec => []TypeOK
<1>1. Init => TypeInv
  BY TypeInit
<1>2. TypeInv /\ [Next]_vars => TypeInv'
  BY TypeStep
<1>3. TypeInv => TypeOK
  BY DEF TypeInv
<1> QED BY <1>1, <1>2, <1>3, PTL DEF Spec

-----------------------------------------------------------------------------
(* The two tables and the events on their way to them *)

(* Updated, of the dials to tgt. *)
UpdatedBy(tgt, table, evt) ==
  IF evt.kind = "connected" THEN Append(table, evt.dial)
  ELSE Retained(table, {e \in DOMAIN tgt : tgt[e] # tgt[evt.dial]})

LEMMA UpdatedIsBy ==
  ASSUME NEW table, NEW evt
  PROVE  Updated(table, evt) = UpdatedBy(target, table, evt)
BY DEF Updated, Without, UpdatedBy

(* The events take the table first to the table last: h is what it is      *)
(* before each of them and at the end.                                     *)
Reaches(tgt, first, evts, last) ==
  \E h \in [1 .. Len(evts) + 1 -> Seq(1 .. Len(tgt))] :
    /\ h[1] = first /\ h[Len(evts) + 1] = last
    /\ \A i \in 1 .. Len(evts) : h[i + 1] = UpdatedBy(tgt, h[i], evts[i])

(* Events about the first n dials *)
Known(n) == [kind : {"connected", "disconnected"}, dial : 1 .. n]

LEMMA UpdatedByType ==
  ASSUME NEW S, NEW tgt, NEW table \in Seq(S), NEW evt, evt.dial \in S
  PROVE  UpdatedBy(tgt, table, evt) \in Seq(S)
BY RetainedEntries DEF UpdatedBy

LEMMA ReachesEmpty ==
  ASSUME NEW tgt, NEW first \in Seq(1 .. Len(tgt)), NEW last
  PROVE  Reaches(tgt, first, <<>>, last) <=> last = first
<1>1. ASSUME last = first PROVE Reaches(tgt, first, <<>>, last)
  <2> DEFINE h == [i \in 1 .. 1 |-> first]
  <2>1. h \in [1 .. 1 -> Seq(1 .. Len(tgt))] /\ h[1] = first
    OBVIOUS
  <2>2. Len(<<>>) = 0 /\ 0 + 1 = 1 /\ 1 .. 0 = {}
    OBVIOUS
  <2> HIDE DEF h
  <2> QED BY <1>1, <2>1, <2>2 DEF Reaches
<1>2. ASSUME Reaches(tgt, first, <<>>, last) PROVE last = first
  BY <1>2 DEF Reaches
<1> QED BY <1>1, <1>2

(* One more event at the end *)
LEMMA ReachesAppend ==
  ASSUME NEW tgt, Len(tgt) \in Nat, NEW evts \in Seq(Known(Len(tgt))), NEW evt \in Known(Len(tgt)),
         NEW first, NEW last, Reaches(tgt, first, evts, last)
  PROVE  Reaches(tgt, first, Append(evts, evt), UpdatedBy(tgt, last, evt))
<1> DEFINE T == Seq(1 .. Len(tgt))
           n == Len(evts)
           new == UpdatedBy(tgt, last, evt)
<1>1. PICK h \in [1 .. n + 1 -> T] :
        /\ h[1] = first /\ h[n + 1] = last
        /\ \A i \in 1 .. n : h[i + 1] = UpdatedBy(tgt, h[i], evts[i])
  BY DEF Reaches
<1>2. n \in Nat /\ last \in T
  BY <1>1
<1>3. new \in T
  BY <1>2, UpdatedByType DEF Known
<1> DEFINE g == [i \in 1 .. n + 2 |-> IF i = n + 2 THEN new ELSE h[i]]
<1>4. Len(Append(evts, evt)) = n + 1 /\ Append(evts, evt)[n + 1] = evt
      /\ \A i \in 1 .. n : Append(evts, evt)[i] = evts[i]
  OBVIOUS
<1> HIDE DEF new
<1>5. g \in [1 .. n + 2 -> T] /\ g[1] = first /\ g[n + 2] = new
  BY <1>1, <1>2, <1>3
<1>6. ASSUME NEW i \in 1 .. n + 1
      PROVE  g[i + 1] = UpdatedBy(tgt, g[i], Append(evts, evt)[i])
  <2>1. CASE i = n + 1
    <3>1. g[i] = last /\ g[i + 1] = new /\ Append(evts, evt)[i] = evt
      BY <1>1, <1>2, <1>4, <2>1
    <3> QED BY <3>1 DEF new
  <2>2. CASE i # n + 1
    <3>1. i \in 1 .. n
      BY <1>2, <2>2
    <3>2. g[i] = h[i] /\ g[i + 1] = h[i + 1] /\ Append(evts, evt)[i] = evts[i]
      BY <1>2, <1>4, <3>1
    <3> QED BY <1>1, <3>1, <3>2
  <2> QED BY <2>1, <2>2
<1> HIDE DEF g
<1>7. g \in [1 .. Len(Append(evts, evt)) + 1 -> T] /\ g[Len(Append(evts, evt)) + 1] = new
  BY <1>2, <1>4, <1>5
<1> QED BY <1>4, <1>5, <1>6, <1>7 DEF Reaches, new

(* The first event taken *)
LEMMA ReachesTail ==
  ASSUME NEW tgt, NEW S, NEW evts \in Seq(S), evts # <<>>,
         NEW first, NEW last, Reaches(tgt, first, evts, last)
  PROVE  Reaches(tgt, UpdatedBy(tgt, first, Head(evts)), Tail(evts), last)
<1> DEFINE T == Seq(1 .. Len(tgt))
           n == Len(evts)
<1>1. PICK h \in [1 .. n + 1 -> T] :
        /\ h[1] = first /\ h[n + 1] = last
        /\ \A i \in 1 .. n : h[i + 1] = UpdatedBy(tgt, h[i], evts[i])
  BY DEF Reaches
<1>2. n \in Nat /\ n >= 1 /\ Head(evts) = evts[1]
      /\ Len(Tail(evts)) = n - 1 /\ \A i \in 1 .. n - 1 : Tail(evts)[i] = evts[i + 1]
  OBVIOUS
<1> DEFINE g == [i \in 1 .. n |-> h[i + 1]]
<1>3. g \in [1 .. n -> T] /\ g[1] = UpdatedBy(tgt, first, Head(evts)) /\ g[n] = last
  BY <1>1, <1>2
<1>4. ASSUME NEW i \in 1 .. n - 1 PROVE g[i + 1] = UpdatedBy(tgt, g[i], Tail(evts)[i])
  <2>1. i \in 1 .. n /\ i + 1 \in 1 .. n
    BY <1>2
  <2>2. g[i] = h[i + 1] /\ g[i + 1] = h[(i + 1) + 1]
    BY <2>1
  <2> QED BY <1>1, <1>2, <2>1, <2>2
<1> HIDE DEF g
<1>5. g \in [1 .. Len(Tail(evts)) + 1 -> T] /\ g[Len(Tail(evts)) + 1] = last
  BY <1>2, <1>3
<1> QED BY <1>2, <1>3, <1>4, <1>5 DEF Reaches

(* A new dial changes nothing for the events of earlier ones. *)
LEMMA ReachesDial ==
  ASSUME NEW S, NEW tgt \in Seq(S), NEW s \in S, NEW evts \in Seq(Known(Len(tgt))),
         NEW first, NEW last, Reaches(tgt, first, evts, last)
  PROVE  Reaches(Append(tgt, s), first, evts, last)
<1> DEFINE T  == Seq(1 .. Len(tgt))
           n  == Len(evts)
           tg == Append(tgt, s)
<1>1. PICK h \in [1 .. n + 1 -> T] :
        /\ h[1] = first /\ h[n + 1] = last
        /\ \A i \in 1 .. n : h[i + 1] = UpdatedBy(tgt, h[i], evts[i])
  BY DEF Reaches
<1>2. /\ n \in Nat /\ Len(tgt) \in Nat /\ Len(tg) = Len(tgt) + 1
      /\ DOMAIN tgt = 1 .. Len(tgt) /\ DOMAIN tg = 1 .. Len(tgt) + 1
      /\ \A e \in 1 .. Len(tgt) : tg[e] = tgt[e]
  OBVIOUS
<1> HIDE DEF tg
<1>3. h \in [1 .. n + 1 -> Seq(1 .. Len(tg))]
  <2>1. 1 .. Len(tgt) \subseteq 1 .. Len(tg)
    BY <1>2
  <2>2. T \subseteq Seq(1 .. Len(tg))
    BY <2>1, SeqMonotonic
  <2> QED BY <1>1, <2>2
<1>4. ASSUME NEW i \in 1 .. n PROVE UpdatedBy(tg, h[i], evts[i]) = UpdatedBy(tgt, h[i], evts[i])
  <2>1. h[i] \in T /\ evts[i].dial \in 1 .. Len(tgt)
    <3>1. evts[i] \in Known(Len(tgt))
      BY ElementOfSeq
    <3>2. h[i] \in T
      BY <1>1, <1>2
    <3> QED BY <3>1, <3>2 DEF Known
  <2> DEFINE keep  == {e \in DOMAIN tgt : tgt[e] # tgt[evts[i].dial]}
             keep2 == {e \in DOMAIN tg : tg[e] # tg[evts[i].dial]}
  <2>2. ASSUME NEW x \in 1 .. Len(tgt) PROVE x \in keep <=> x \in keep2
    <3>1. x \in DOMAIN tgt /\ x \in DOMAIN tg /\ tg[x] = tgt[x]
          /\ tg[evts[i].dial] = tgt[evts[i].dial]
      BY <1>2, <2>1
    <3> QED BY <3>1
  <2>3. Retained(h[i], keep) = Retained(h[i], keep2)
    <3> HIDE DEF keep, keep2
    <3> QED BY <2>1, <2>2, RetainedCongruent
  <2> QED BY <2>3 DEF UpdatedBy
<1> QED BY <1>1, <1>3, <1>4 DEF Reaches, tg

(* What the fan-out has recorded and the session has not handled yet *)
Underway == IF draining = None THEN toSession ELSE Append(toSession, draining)

(* The connection that is announced and not yet reported *)
Announced == IF stage \in {"serving", "report"} THEN {current} ELSE {}

(* Both tables and all events are about dials that were made. *)
DialsKnown ==
  /\ stage # "idle" => current \notin orphans
  /\ orphans \subseteq 1 .. current
  /\ events \in Seq(Known(current)) /\ toSession \in Seq(Known(current))
  /\ draining \in Known(current) \cup {None}
  /\ peers \in Seq(1 .. current) /\ sessionPeers \in Seq(1 .. current)

(* The events that wait take the daemon's table to the connection being    *)
(* served, orphans apart, and the session's table to the daemon's.         *)
Followed ==
  /\ DialsKnown
  /\ \E last : Reaches(target, peers, events, last) /\ Range(last) \ orphans = Announced
  /\ Reaches(target, sessionPeers, Underway, peers)

LEMMA KnownTypes ==
  ASSUME TypeInv, DialsKnown
  PROVE  /\ current \in Nat /\ Len(target) = current /\ target \in Seq(Servers)
         /\ (stage # "idle" => current \in 1 .. current)
         /\ Known(current) \subseteq Events /\ None \notin Events
         /\ Underway \in Seq(Known(current))
<1>1. /\ current \in Nat /\ current <= MaxRequests /\ Len(target) = current
      /\ target \in Seq(Servers) /\ (stage # "idle" => current >= 1)
  BY TypeParts DEF TypeInv, Counted, RequestsOK, current
<1>2. Known(current) \subseteq Events /\ None \notin Events
  BY <1>1, Constants, ClientAssumption DEF Known, Events, Dials
<1>3. Underway \in Seq(Known(current))
  BY AppendProperties DEF Underway, DialsKnown
<1> QED BY <1>1, <1>2, <1>3

LEMMA FollowedInit == Init => Followed
<1> SUFFICES ASSUME Init PROVE Followed
  OBVIOUS
<1>1. DialsKnown /\ Underway = <<>> /\ peers = <<>> /\ sessionPeers = <<>> /\ events = <<>>
  BY DEF Init, DialsKnown, Underway
<1>2. Reaches(target, <<>>, <<>>, <<>>)
  <2>1. <<>> \in Seq(1 .. Len(target))
    OBVIOUS
  <2> QED BY <2>1, ReachesEmpty
<1>3. Range(<<>>) \ orphans = Announced
  BY DEF Init, Announced, Range
<1> QED BY <1>1, <1>2, <1>3 DEF Followed

(* A step that leaves the events and the tables alone *)
LEMMA FollowedSame ==
  ASSUME Followed, UNCHANGED <<target, orphans, events, tables>>, Announced' = Announced,
         stage' # "idle" => stage # "idle"
  PROVE  Followed'
<1>1. current' = current
  BY DEF current
<1>2. DialsKnown' /\ Underway' = Underway
  BY <1>1 DEF Followed, DialsKnown, Underway, tables
<1> QED BY <1>2 DEF Followed, tables

LEMMA FollowedDial ==
  ASSUME TypeInv, Followed, NEW s \in Servers, stage = "idle", StartDial(s),
         UNCHANGED <<orphans, events, tables>>
  PROVE  Followed'
<1>0. /\ current \in Nat /\ Len(target) = current /\ target \in Seq(Servers)
      /\ Underway \in Seq(Known(current)) /\ DialsKnown
  BY KnownTypes DEF Followed
<1>1. target' = Append(target, s) /\ current' = current + 1 /\ stage' = "handshake"
  BY <1>0 DEF StartDial, current
<1>2. Known(current) \subseteq Known(current') /\ 1 .. current \subseteq 1 .. current'
      /\ current' \notin orphans
  BY <1>0, <1>1 DEF Known, DialsKnown
<1>3. DialsKnown'
  BY <1>0, <1>1, <1>2, SeqMonotonic DEF DialsKnown, tables
<1>4. PICK last : Reaches(target, peers, events, last) /\ Range(last) \ orphans = Announced
  BY DEF Followed
<1>5. Reaches(target', peers, events, last)
  BY <1>0, <1>1, <1>4, ReachesDial DEF DialsKnown
<1>6. Reaches(target', sessionPeers, Underway, peers)
  BY <1>0, <1>1, ReachesDial DEF Followed
<1>7. Announced' = Announced /\ Underway' = Underway
  BY <1>1 DEF Announced, Underway, tables
<1> QED BY <1>3, <1>4, <1>5, <1>6, <1>7 DEF Followed, tables

LEMMA FollowedCancel ==
  ASSUME TypeInv, Followed, Cancel
  PROVE  Followed'
<1>0. current \in Nat /\ (stage # "idle" => current \in 1 .. current) /\ current' = current
  BY KnownTypes DEF Followed, Cancel, current
<1>1. stage' = "idle" /\ UNCHANGED <<target, events, tables>> /\ Underway' = Underway
      /\ orphans' = orphans \cup Announced /\ Announced' = {}
  BY DEF Cancel, Announced, Underway, tables
<1>2. DialsKnown'
  BY <1>0, <1>1 DEF Followed, DialsKnown, Announced, Cancel, tables
<1>3. PICK last : Reaches(target, peers, events, last) /\ Range(last) \ orphans = Announced
  BY DEF Followed
<1>4. Range(last) \ orphans' = Announced'
  BY <1>1, <1>3
<1> QED BY <1>1, <1>2, <1>3, <1>4 DEF Followed, tables

LEMMA FollowedAnnounce ==
  ASSUME TypeInv, Followed, Announce
  PROVE  Followed'
<1> DEFINE evt == [kind |-> "connected", dial |-> current]
<1>0. /\ current \in Nat /\ Len(target) = current /\ current' = current
      /\ current \in 1 .. current /\ stage = "announce" /\ current \notin orphans
  BY KnownTypes DEF Followed, DialsKnown, Announce, Connecting, current
<1>1. UNCHANGED <<target, orphans, tables>> /\ events' = Append(events, evt)
      /\ Underway' = Underway /\ Announced' = {current} /\ Announced = {}
  BY <1>0 DEF Announce, Underway, Announced, tables
<1>2. evt \in Known(current)
  BY <1>0 DEF Known
<1>3. DialsKnown'
  BY <1>0, <1>1, <1>2, AppendProperties DEF Followed, DialsKnown, tables
<1>4. PICK last : Reaches(target, peers, events, last) /\ Range(last) \ orphans = Announced
  BY DEF Followed
<1>5. last \in Seq(1 .. current)
  BY <1>0, <1>4 DEF Reaches, Followed, DialsKnown
<1>6. Reaches(target, peers, Append(events, evt), UpdatedBy(target, last, evt))
  BY <1>0, <1>2, <1>4, ReachesAppend DEF Followed, DialsKnown
<1>7. Range(Append(last, current)) = Range(last) \cup {current}
  BY <1>5 DEF Range
<1>8. Range(UpdatedBy(target, last, evt)) \ orphans = {current}
  BY <1>0, <1>1, <1>4, <1>7 DEF UpdatedBy
<1> HIDE DEF evt
<1> QED BY <1>1, <1>3, <1>6, <1>8 DEF Followed, tables

LEMMA FollowedReport ==
  ASSUME TypeInv, Followed, Report
  PROVE  Followed'
<1> DEFINE evt  == [kind |-> "disconnected", dial |-> current]
           keep == {e \in DOMAIN target : target[e] # target[current]}
<1>0. /\ current \in Nat /\ Len(target) = current /\ current' = current
      /\ current \in 1 .. current /\ stage = "report"
  BY KnownTypes DEF Followed, DialsKnown, Report, Connecting, current
<1>1. UNCHANGED <<target, orphans, tables>> /\ events' = Append(events, evt)
      /\ Underway' = Underway /\ Announced' = {} /\ Announced = {current} /\ stage' = "idle"
  BY <1>0 DEF Report, Underway, Announced, tables
<1>2. evt \in Known(current)
  BY <1>0 DEF Known
<1>3. DialsKnown'
  BY <1>0, <1>1, <1>2, AppendProperties DEF Followed, DialsKnown, tables
<1>4. PICK last : Reaches(target, peers, events, last) /\ Range(last) \ orphans = Announced
  BY DEF Followed
<1>5. last \in Seq(1 .. current)
  BY <1>0, <1>4 DEF Reaches, Followed, DialsKnown
<1>6. Reaches(target, peers, Append(events, evt), UpdatedBy(target, last, evt))
  BY <1>0, <1>2, <1>4, ReachesAppend DEF Followed, DialsKnown
<1>7. Range(Retained(last, keep)) = Range(last) \cap keep
  BY <1>5, RetainedEntries
<1>8. Range(UpdatedBy(target, last, evt)) \ orphans = {}
  <2>1. UpdatedBy(target, last, evt) = Retained(last, keep)
    BY DEF UpdatedBy
  <2>2. current \notin keep
    OBVIOUS
  <2> HIDE DEF keep
  <2> QED BY <1>1, <1>4, <1>7, <2>1, <2>2
<1> HIDE DEF evt
<1> QED BY <1>1, <1>3, <1>6, <1>8 DEF Followed, tables

LEMMA FollowedTrack ==
  ASSUME TypeInv, Followed, Track
  PROVE  Followed'
<1>0. /\ current \in Nat /\ Len(target) = current /\ current' = current
      /\ Known(current) \subseteq Events /\ None \notin Events
      /\ Underway \in Seq(Known(current))
  BY KnownTypes DEF Followed, Track, supervisor, current
<1>1. /\ Head(events) \in Known(current) /\ events' = Tail(events)
      /\ events' \in Seq(Known(current)) /\ events # <<>>
  BY HeadTailProperties DEF Track, Followed, DialsKnown
<1>2. peers' = UpdatedBy(target, peers, Head(events)) /\ peers' \in Seq(1 .. current)
  BY <1>1, UpdatedIsBy, UpdatedByType DEF Track, Followed, DialsKnown, Known
<1>3. DialsKnown'
  BY <1>0, <1>1, <1>2 DEF Track, Followed, DialsKnown, supervisor
<1>4. PICK last : Reaches(target, peers, events, last) /\ Range(last) \ orphans = Announced
  BY DEF Followed
<1>5. Reaches(target, peers', events', last)
  BY <1>1, <1>2, <1>4, ReachesTail DEF Followed, DialsKnown
<1>6. Underway' = Append(Underway, Head(events))
  BY <1>0, <1>1 DEF Track, Underway
<1>7. Reaches(target, sessionPeers, Underway', peers')
  BY <1>0, <1>1, <1>2, <1>6, ReachesAppend DEF Followed
<1>8. Announced' = Announced /\ UNCHANGED <<target, orphans, sessionPeers>>
  BY <1>0 DEF Track, Announced, supervisor
<1> QED BY <1>3, <1>4, <1>5, <1>7, <1>8 DEF Followed

LEMMA FollowedForward ==
  ASSUME TypeInv, Followed, Forward
  PROVE  Followed'
<1>0. current' = current /\ Underway' = Underway
  BY DEF Forward, Underway, supervisor, current
<1>1. DialsKnown'
  BY <1>0, AppendProperties DEF Followed, DialsKnown, Forward, supervisor
<1>2. Announced' = Announced /\ UNCHANGED <<target, orphans, events, peers, sessionPeers>>
  BY <1>0 DEF Forward, Announced, supervisor
<1> QED BY <1>0, <1>1, <1>2 DEF Followed

LEMMA FollowedSession ==
  ASSUME TypeInv, Followed, SessionHandles
  PROVE  Followed'
<1>0. /\ current \in Nat /\ Len(target) = current /\ current' = current
      /\ Known(current) \subseteq Events /\ None \notin Events
      /\ Underway \in Seq(Known(current))
  BY KnownTypes DEF Followed, SessionHandles, supervisor, current
<1>1. /\ Head(toSession) \in Known(current) /\ toSession' = Tail(toSession)
      /\ toSession' \in Seq(Known(current)) /\ toSession # <<>>
  BY HeadTailProperties DEF SessionHandles, Followed, DialsKnown
<1>2. /\ sessionPeers' = UpdatedBy(target, sessionPeers, Head(toSession))
      /\ sessionPeers' \in Seq(1 .. current)
  BY <1>1, UpdatedIsBy, UpdatedByType DEF SessionHandles, Followed, DialsKnown, Known
<1>3. DialsKnown'
  BY <1>0, <1>1, <1>2 DEF SessionHandles, Followed, DialsKnown, supervisor
<1>4. Head(Underway) = Head(toSession) /\ Underway' = Tail(Underway) /\ Underway # <<>>
  <2>1. CASE draining = None
    BY <1>1, <2>1 DEF SessionHandles, Underway
  <2>2. CASE draining # None
    <3>1. draining \in Known(current) /\ toSession \in Seq(Known(current))
      BY <2>2 DEF Followed, DialsKnown
    <3>2. Underway = Append(toSession, draining) /\ Underway' = Append(Tail(toSession), draining)
      BY <1>1, <2>2 DEF SessionHandles, Underway
    <3>3. Head(Underway) = Head(toSession) /\ Tail(Underway) = Append(Tail(toSession), draining)
      BY <1>1, <3>1, <3>2, HeadTailAppend
    <3>4. Underway # <<>>
      BY <3>1, <3>2, AppendProperties
    <3> QED BY <3>2, <3>3, <3>4
  <2> QED BY <2>1, <2>2
<1>5. Reaches(target, sessionPeers', Underway', peers)
  BY <1>0, <1>2, <1>4, ReachesTail DEF Followed
<1>6. Announced' = Announced /\ UNCHANGED <<target, orphans, events, peers>>
  BY <1>0 DEF SessionHandles, Announced, supervisor
<1> QED BY <1>3, <1>5, <1>6 DEF Followed

LEMMA FollowedStep ==
  ASSUME TypeInv, Followed, [Next]_vars
  PROVE  Followed'
<1>0. pending \in Servers \cup {None} /\ cmds \in Seq(Commands)
  BY TypeParts DEF TypeInv, RequestsOK
<1>1. ASSUME NEW cmd \in Commands, Request(cmd) PROVE Followed'
  BY <1>1, FollowedSame DEF Request, Announced, supervisor, current
<1>2. ASSUME NEW task \in spawned, Send(task) PROVE Followed'
  BY <1>2, FollowedSame DEF Send, Announced, supervisor, current
<1>3. CASE DialPending
  BY <1>0, <1>3, FollowedDial DEF DialPending
<1>4. CASE TakeWhileIdle
  <2>1. Head(cmds) # HangUp => Head(cmds).server \in Servers
    BY <1>0, <1>4 DEF TakeWhileIdle, Commands, Dial
  <2>2. CASE UNCHANGED <<stage, target, link>>
    BY <1>4, <2>2, FollowedSame DEF TakeWhileIdle, Announced, current
  <2>3. CASE Head(cmds) # HangUp /\ StartDial(Head(cmds).server)
    BY <1>4, <2>1, <2>3, FollowedDial DEF TakeWhileIdle
  <2> QED BY <1>4, <2>2, <2>3 DEF TakeWhileIdle
<1>5. CASE Handshake \/ PeerLoopEnds
  BY <1>5, FollowedSame DEF Handshake, PeerLoopEnds, Connecting, Announced, current
<1>6. ASSUME NEW d \in Dials, Break(d) PROVE Followed'
  BY <1>6, FollowedSame DEF Break, Announced, current
<1>7. CASE UNCHANGED vars
  BY <1>7, FollowedSame DEF vars, supervisor, Announced, current
<1> QED
  BY <1>1, <1>2, <1>3, <1>4, <1>5, <1>6, <1>7, FollowedCancel, FollowedAnnounce, FollowedReport,
     FollowedTrack, FollowedForward, FollowedSession DEF Next, Supervise

LEMMA FollowedAlways == Spec => [](TypeInv /\ Followed)
<1>1. Init => TypeInv /\ Followed
  BY TypeInit, FollowedInit
<1>2. TypeInv /\ Followed /\ [Next]_vars => TypeInv' /\ Followed'
  BY TypeStep, FollowedStep
<1> QED BY <1>1, <1>2, PTL DEF Spec

(* Once the fan-out has caught up, the GUI lists exactly the connection the *)
(* supervisor serves, but for those that it cancelled after announcing      *)
(* them, whatever order commands, failures and breaks come in.              *)
THEOREM ListedUnlessOrphanedAlways == Spec => []ListedUnlessOrphaned
<1>1. TypeInv /\ Followed => ListedUnlessOrphaned
  <2> SUFFICES ASSUME TypeInv, Followed, events = <<>>, stage # "report"
               PROVE  ToSet(peers) \ orphans = IF stage = "serving" THEN {current} ELSE {}
    BY DEF ListedUnlessOrphaned
  <2>1. PICK last : Reaches(target, peers, <<>>, last) /\ Range(last) \ orphans = Announced
    BY DEF Followed
  <2>2. last = peers
    BY <2>1, ReachesEmpty, KnownTypes DEF Followed, DialsKnown
  <2> QED BY <2>1, <2>2 DEF ToSet, Range, Announced
<1> QED BY <1>1, FollowedAlways, PTL

(* With nothing on its way between them, the daemon and the session list    *)
(* the same peers in the same order, whatever was cancelled or broken.      *)
THEOREM TablesAgreeAlways == Spec => []TablesAgree
<1>1. TypeInv /\ Followed => TablesAgree
  <2> SUFFICES ASSUME TypeInv, Followed, draining = None, toSession = <<>>
               PROVE  sessionPeers = peers
    BY DEF TablesAgree
  <2>1. Reaches(target, sessionPeers, <<>>, peers)
    BY DEF Followed, Underway
  <2> QED BY <2>1, ReachesEmpty, KnownTypes DEF Followed, DialsKnown
<1> QED BY <1>1, FollowedAlways, PTL

-----------------------------------------------------------------------------
(* No dial is lost on the way from the channel to the network *)

(* The supervisor keeps a dial in hand only between two passes of its loop. *)
InHandWhileIdle == pending # None => stage = "idle"

(* A dial is left to the supervisor once: it dials it on the spot or keeps *)
(* it, and what it keeps is dialed before anything else is taken.           *)
DialMoves ==
  /\ \A s \in Servers :
       (cmds # <<>> /\ Head(cmds) = Dial(s) /\ cmds' = Tail(cmds)) =>
         \/ target' = Append(target, s) /\ pending' = None
         \/ target' = target /\ pending' = s
  /\ pending # None =>
       /\ cmds # <<>> => cmds' # Tail(cmds)
       /\ \/ target' = target /\ pending' = pending
          \/ target' = Append(target, pending) /\ pending' = None

(* A channel from which a command was taken is no longer the same, nor is   *)
(* it the channel to which one was added.                                   *)
LEMMA TakenIsShorter ==
  ASSUME NEW q \in Seq(Commands), q # <<>>
  PROVE  /\ Tail(q) # q
         /\ \A c \in Commands : Append(q, c) # Tail(q)
<1>1. Len(q) \in Nat /\ Len(Tail(q)) = Len(q) - 1
  BY HeadTailProperties, LenProperties
<1>2. \A c \in Commands : Len(Append(q, c)) = Len(q) + 1
  BY AppendProperties
<1>3. Tail(q) # q
  <2> SUFFICES ASSUME Tail(q) = q PROVE FALSE
    OBVIOUS
  <2>1. Len(q) = Len(q) - 1
    BY <1>1
  <2> QED BY <1>1, <2>1
<1>4. ASSUME NEW c \in Commands, Append(q, c) = Tail(q) PROVE FALSE
  <2> DEFINE n == Len(q)
  <2>1. Len(Append(q, c)) = n + 1 /\ Len(Append(q, c)) = n - 1 /\ n \in Nat
    BY <1>1, <1>2, <1>4, Zenon
  <2> HIDE DEF n
  <2> QED BY <2>1
<1> QED BY <1>3, <1>4, Zenon

LEMMA DialStep ==
  ASSUME TypeOK, InHandWhileIdle, [Next]_vars
  PROVE  InHandWhileIdle' /\ DialMoves
<1>1. /\ None \notin Servers /\ pending \in Servers \cup {None}
      /\ cmds \in Seq(Commands)
      /\ cmds # <<>> => Head(cmds) \in Commands
      /\ \A s \in Servers : Dial(s).server = s /\ Dial(s) # HangUp
  <2>1. cmds \in Seq(Commands) /\ pending \in Servers \cup {None}
    BY DEF TypeOK
  <2>2. cmds # <<>> => Head(cmds) \in Commands
    BY <2>1
  <2> QED BY <2>1, <2>2, ClientAssumption DEF Dial, HangUp
<1>2. cmds # <<>> => Tail(cmds) # cmds /\ \A c \in Commands : Append(cmds, c) # Tail(cmds)
  BY <1>1, TakenIsShorter
<1>3. CASE UNCHANGED <<pending, stage, target, cmds>>
  BY <1>1, <1>2, <1>3 DEF InHandWhileIdle, DialMoves
<1>4. ASSUME NEW task \in spawned, Send(task) PROVE InHandWhileIdle' /\ DialMoves
  <2>1. task.cmd \in Commands
    BY DEF TypeOK
  <2>2. UNCHANGED <<pending, stage, target>> /\ cmds' = Append(cmds, task.cmd)
    BY <1>4 DEF Send, supervisor
  <2> QED BY <1>2, <2>1, <2>2 DEF InHandWhileIdle, DialMoves
<1>5. CASE DialPending
  <2>1. pending # None /\ target' = Append(target, pending) /\ pending' = None /\ cmds' = cmds
    BY <1>5 DEF DialPending, StartDial, channels
  <2> QED BY <1>2, <2>1 DEF InHandWhileIdle, DialMoves
<1>6. CASE TakeWhileIdle
  <2>1. pending = None /\ pending' = None /\ cmds # <<>>
    BY <1>6 DEF TakeWhileIdle
  <2>2. \A s \in Servers : Head(cmds) = Dial(s) => target' = Append(target, s)
    BY <1>1, <1>6 DEF TakeWhileIdle, StartDial
  <2> QED BY <2>1, <2>2 DEF InHandWhileIdle, DialMoves
<1>7. CASE Cancel
  <2>1. pending = None
    BY <1>7 DEF Cancel, InHandWhileIdle
  <2>2. stage' = "idle" /\ target' = target /\ pending' = Head(cmds).server
    BY <1>7 DEF Cancel, NextPending
  <2> QED BY <1>1, <2>1, <2>2 DEF InHandWhileIdle, DialMoves
<1>8. ASSUME Handshake \/ Announce \/ PeerLoopEnds \/ Report
      PROVE  InHandWhileIdle' /\ DialMoves
  <2>1. stage # "idle" /\ UNCHANGED <<pending, target, cmds>>
    BY <1>8 DEF Handshake, Announce, PeerLoopEnds, Report, Connecting, channels
  <2> QED BY <1>1, <1>2, <2>1 DEF InHandWhileIdle, DialMoves
<1>9. ASSUME NEW cmd \in Commands, Request(cmd) PROVE UNCHANGED <<pending, stage, target, cmds>>
  BY <1>9 DEF Request, supervisor
<1>10. ASSUME NEW d \in Dials, Break(d) PROVE UNCHANGED <<pending, stage, target, cmds>>
  BY <1>10 DEF Break, channels
<1>11. ASSUME Track \/ Forward \/ SessionHandles PROVE UNCHANGED <<pending, stage, target, cmds>>
  BY <1>11 DEF Track, Forward, SessionHandles, channels, supervisor
<1>12. ASSUME UNCHANGED vars PROVE UNCHANGED <<pending, stage, target, cmds>>
  BY <1>12 DEF vars, channels, supervisor
<1> QED
  BY <1>3, <1>4, <1>5, <1>6, <1>7, <1>8, <1>9, <1>10, <1>11, <1>12 DEF Next, Supervise

(* NoDialLost: what DialReplacesDial rests on, without fairness. A dial     *)
(* that is taken from the channel, while a connection is up or not, is     *)
(* made at once or kept in hand, and a dial in hand is neither given up nor *)
(* overwritten: no command is taken before it has been made.                *)
THEOREM NoDialLost == Spec => [][DialMoves]_vars
<1>1. Init => InHandWhileIdle
  BY DEF Init, InHandWhileIdle
<1>2. TypeOK /\ InHandWhileIdle /\ [Next]_vars => InHandWhileIdle' /\ DialMoves
  BY DialStep
<1> QED BY <1>1, <1>2, TypeCorrect, PTL DEF Spec
=============================================================================
