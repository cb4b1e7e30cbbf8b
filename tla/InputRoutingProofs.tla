-------------------------- MODULE InputRoutingProofs --------------------------
(***************************************************************************)
(* Theorems about InputRouting for every layout, screen size, set of keys, *)
(* connections and channel capacities; and, at the end, about the          *)
(* coordinates that the same task handles (PointerMotion).                 *)
(***************************************************************************)
EXTENDS InputRouting, SequenceTheorems, FiniteSetTheorems, TLAPS

-----------------------------------------------------------------------------
(* The peer tables: what Vec::retain returns. The components that keep a    *)
(* table are specifications of their own, so each states the two lemmas.   *)

(* Counting the members of a finite set of indices up to each of them is a *)
(* bijection onto 1 .. its cardinality.                                     *)
LEMMA PlacesAll ==
  ASSUME NEW n \in Nat, NEW kept \in SUBSET (1 .. n)
  PROVE  /\ Cardinality(kept) \in Nat
         /\ \A i \in kept : Cardinality(kept \cap 1 .. i) \in 1 .. Cardinality(kept)
         /\ \A i, j \in kept :
              Cardinality(kept \cap 1 .. i) = Cardinality(kept \cap 1 .. j) => i = j
         /\ \A k \in 1 .. Cardinality(kept) :
              \E i \in kept : Cardinality(kept \cap 1 .. i) = k
<1> DEFINE Place(i) == Cardinality(kept \cap 1 .. i)
           place    == [i \in kept |-> Place(i)]
           places   == 1 .. Cardinality(kept)
<1>1. IsFiniteSet(kept) /\ Cardinality(kept) \in Nat
  <2>1. IsFiniteSet(1 .. n)
    BY FS_Interval
  <2>2. IsFiniteSet(kept)
    BY <2>1, FS_Subset
  <2> QED BY <2>2, FS_CardinalityType
<1>2. ASSUME NEW i \in kept PROVE IsFiniteSet(kept \cap 1 .. i) /\ Place(i) \in places
  <2>1. IsFiniteSet(kept \cap 1 .. i) /\ Place(i) <= Cardinality(kept)
    BY <1>1, FS_Intersection
  <2>2. Place(i) \in Nat
    BY <2>1, FS_CardinalityType
  <2>3. i \in kept \cap 1 .. i
    OBVIOUS
  <2>4. Place(i) # 0
    BY <2>1, <2>3, FS_EmptySet
  <2> QED BY <1>1, <2>1, <2>2, <2>4
<1>3. ASSUME NEW i \in kept, NEW j \in kept, i < j PROVE Place(i) # Place(j)
  <2>1. (kept \cap 1 .. i) \in SUBSET (kept \cap 1 .. j) /\ j \in kept \cap 1 .. j
    BY <1>3
  <2>2. j \notin kept \cap 1 .. i
    BY <1>3
  <2> QED BY <1>2, <2>1, <2>2, FS_Subset
<1>4. ASSUME NEW i \in kept, NEW j \in kept, Place(i) = Place(j) PROVE i = j
  BY <1>3, <1>4
<1>5. place \in Injection(kept, places)
  BY <1>2, <1>4 DEF Injection, IsInjective
<1>6. IsFiniteSet(places) /\ Cardinality(places) = Cardinality(kept)
  BY <1>1, FS_Interval
<1>7. place \in Surjection(kept, places)
  BY <1>5, <1>6, FS_Injection
<1>8. \A k \in places : \E i \in kept : Place(i) = k
  BY <1>7 DEF Surjection
<1> QED BY <1>1, <1>2, <1>4, <1>8

(* What Retained returns: every entry that is to be kept, and no other.     *)
LEMMA RetainedEntries ==
  ASSUME NEW S, NEW table \in Seq(S), NEW keep
  PROVE  /\ Retained(table, keep) \in Seq(S)
         /\ Range(Retained(table, keep)) = Range(table) \cap keep
<1> DEFINE kept     == {i \in 1 .. Len(table) : table[i] \in keep}
           Place(i) == Cardinality(kept \cap 1 .. i)
           places   == 1 .. Cardinality(kept)
           At(k)    == CHOOSE i \in kept : Place(i) = k
           t        == [k \in places |-> table[At(k)]]
<1>1. t = Retained(table, keep)
  BY DEF Retained
<1>2. Len(table) \in Nat /\ kept \in SUBSET (1 .. Len(table)) /\ DOMAIN table = 1 .. Len(table)
  OBVIOUS
<1>3. /\ Cardinality(kept) \in Nat
      /\ \A i \in kept : Place(i) \in places
      /\ \A i, j \in kept : Place(i) = Place(j) => i = j
      /\ \A k \in places : \E i \in kept : Place(i) = k
  <2> HIDE DEF kept
  <2> QED BY <1>2, PlacesAll
<1>4. ASSUME NEW k \in places PROVE At(k) \in kept /\ Place(At(k)) = k
  <2> HIDE DEF kept
  <2> QED BY <1>3
<1>5. \A i \in kept : table[i] \in S /\ table[i] \in keep /\ i \in DOMAIN table
  BY <1>2
<1>6. \A i \in kept : At(Place(i)) = i
  <2> HIDE DEF kept
  <2> QED BY <1>3, <1>4
<1>7. \A i \in DOMAIN table : table[i] \in keep => i \in kept
  BY <1>2
<1> HIDE DEF kept, Place, At
<1>8. t \in [places -> S]
  BY <1>4, <1>5
<1>9. t \in Seq(S)
  BY <1>3, <1>8
<1>10. DOMAIN t = places /\ \A k \in places : t[k] = table[At(k)]
  OBVIOUS
<1> HIDE DEF t, places
<1>11. ASSUME NEW x \in Range(t) PROVE x \in Range(table) \cap keep
  BY <1>4, <1>5, <1>10 DEF Range
<1>12. ASSUME NEW x \in Range(table), x \in keep PROVE x \in Range(t)
  <2>1. PICK i \in DOMAIN table : x = table[i]
    BY DEF Range
  <2>2. i \in kept
    BY <1>7, <1>12, <2>1
  <2>3. Place(i) \in places /\ t[Place(i)] = x
    BY <1>3, <1>6, <1>10, <2>1, <2>2
  <2> QED BY <1>10, <2>3 DEF Range
<1> QED BY <1>1, <1>9, <1>11, <1>12

-----------------------------------------------------------------------------
(* Lemmas about the operators of the model. *)

(* A detector stays a detector whatever event it observes, provided the    *)
(* event carries known modifiers.                                          *)
LEMMA ObservedType ==
  ASSUME NEW ed \in EdgeState, NEW e \in InputEvent
  PROVE  Observed(ed, e) \in EdgeState
<1>1. Noted(ed, e) \in EdgeState
  BY DEF Noted, EdgeState, InputEvent
<1>2. CASE ~Crosses(ed, e)
  BY <1>1, <1>2 DEF Observed
<1>3. CASE Crosses(ed, e)
  <2>1. CrossedSide(e) \in Sides \cup {None}
    BY DEF CrossedSide, Sides
  <2>2. Destination(ed, e) \in Screens \cup {None}
    BY <2>1, EdgeAssumption DEF Destination, EdgeState
  <2> QED
    BY <1>1, <1>3, <2>2 DEF Observed, EdgeState
<1> QED BY <1>2, <1>3

(* What observe does to the route: an event that is forwarded without a    *)
(* decision leaves a remote route as it is; one that enters makes a local  *)
(* route remote; and one that is not forwarded leaves the route local.     *)
LEMMA ObservedRoute ==
  ASSUME NEW ed \in EdgeState, NEW e
  PROVE  /\ Decision(ed, e).kind \in {"Stay", "EnterRemote"}
         /\ Decision(ed, e).kind = "EnterRemote"
              => /\ ed.route = None
                 /\ Observed(ed, e).route # None
                 /\ Decision(ed, e) # Stay
         /\ Decision(ed, e).kind = "Stay"
              => Decision(ed, e) = Stay /\ Observed(ed, e).route = ed.route
<1>1. Noted(ed, e).route = ed.route
  BY DEF Noted, EdgeState
<1>2. Noted(ed, e) \in [route : Screens \cup {None}, modifiers : {Noted(ed, e).modifiers},
                        auto_peer : Screens \cup {None}]
  BY DEF Noted, EdgeState
<1>3. CASE Crosses(ed, e)
  BY <1>1, <1>2, <1>3 DEF Observed, Decision, EnterRemote, Stay, Crosses
<1>4. CASE ~Crosses(ed, e)
  BY <1>1, <1>4 DEF Observed, Decision, Stay
<1> QED BY <1>3, <1>4

(* A bounded channel stays a channel of its messages. *)
LEMMA TrySendType ==
  ASSUME NEW S, NEW ch \in Seq(S), NEW cap, NEW m \in S
  PROVE  TrySend(ch, cap, m) \in Seq(S)
BY DEF TrySend

Messages == InputMessage \cup FocusMessage

(* Both ways of sending keep every stream a sequence of messages. *)
LEMMA SendType ==
  ASSUME outbound \in [Conns -> Seq(Messages)], NEW c \in Conns,
         NEW m \in Messages
  PROVE  /\ Sent(c, m) \in [Conns -> Seq(Messages)]
         /\ TrySent(c, m) \in [Conns -> Seq(Messages)]
<1>1. Append(outbound[c], m) \in Seq(Messages)
  OBVIOUS
<1>2. TrySend(outbound[c], OutCap, m) \in Seq(Messages)
  BY TrySendType
<1> QED
  BY <1>1, <1>2 DEF Sent, TrySent

(* The first peer is a connection, or None. *)
LEMMA FirstPeerType ==
  ASSUME peers \in Seq(Conns)
  PROVE  FirstPeer \in Conns \cup {None}
BY DEF FirstPeer

-----------------------------------------------------------------------------
(* The inductive invariant behind CaptureFollowsRoute and the refinement:  *)
(* what the route and the capture are at every point of drain_capture.     *)

Entering == /\ decision.kind = "EnterRemote"
            /\ edge.route # None
            /\ ~capturing

Leaving == /\ decision.kind = "LeaveRemote"
           /\ edge.route = None
           /\ capturing

Handing ==
  /\ pc \in {"recv", "forward"} => (capturing <=> edge.route # None)
  /\ pc = "recv" => decision = Stay
  /\ pc = "forward" => edge.route # None
  /\ pc = "choose" => Entering \/ Leaving
  /\ pc \in {"enter", "engage"} => Entering
  /\ pc \in {"leave", "sync", "disengage"} => Leaving
  /\ pc \in {"enter", "leave", "sync"} => active_peer # None

IInv == TypeOK /\ Handing

-----------------------------------------------------------------------------
(* Type correctness *)

LEMMA TypeInit == Init => TypeOK
<1> SUFFICES ASSUME Init PROVE TypeOK
  OBVIOUS
<1>1. edge \in EdgeState
  BY DEF Init, NewEdge, EdgeState
<1>2. decision.kind = "Stay"
  BY DEF Init, Stay
<1>3. inputs \in 0 .. MaxInputs
  BY RoutingAssumption DEF Init
<1>4. /\ raw \in Seq(RawEvent)
      /\ sink \in Seq(InputEvent)
      /\ peers \in Seq(Conns)
      /\ peer_events \in Seq(ServerEvent)
  BY DEF Init
<1>5. /\ conn \in [Conns -> {"new", "up", "down", "reported"}]
      /\ outbound \in [Conns -> Seq(Messages)]
      /\ pressed \in [Peers -> SUBSET Inputs]
      /\ entered \in [Peers -> BOOLEAN]
      /\ displaced \subseteq Conns
  BY DEF Init
<1> QED
  BY <1>1, <1>2, <1>3, <1>4, <1>5, Zenon DEF Init, TypeOK, Messages

(* Every variable keeps its type, for any keys, points and connections. *)
LEMMA TypeStep == IInv /\ [Next]_vars => TypeOK'
<1> SUFFICES ASSUME TypeOK, Handing, [Next]_vars PROVE TypeOK'
  BY DEF IInv
<1> USE EdgeAssumption, RoutingAssumption
<1> USE DEF userVars, captureVars, taskVars, tableVars, netVars, clientVars
<1>1. ASSUME NEW k \in Inputs, Press(k) PROVE TypeOK'
  BY <1>1, TrySendType
     DEF TypeOK, Press, Hook, KindOf, RawEvent, Inputs, Actions, Capacity
<1>2. ASSUME NEW k \in Inputs, Release(k) PROVE TypeOK'
  BY <1>2, TrySendType
     DEF TypeOK, Release, Hook, KindOf, RawEvent, Inputs, Actions, Capacity
<1>3. ASSUME NEW p \in Points, MoveMouse(p) PROVE TypeOK'
  BY <1>3, TrySendType DEF TypeOK, MoveMouse, Hook, RawEvent, Capacity
<1>4. CASE DrainRaw
  <2>1. Head(raw) \in RawEvent /\ raw' \in Seq(RawEvent)
    BY <1>4 DEF TypeOK, DrainRaw
  <2>2. mods' \subseteq Modifiers
    BY <1>4, <2>1 DEF TypeOK, DrainRaw, UpdatedModifiers, RawEvent
  <2>3. Normalized(Head(raw), mods') \in InputEvent
    BY <2>1, <2>2 DEF Normalized, RawEvent, InputEvent
  <2>4. sink' \in Seq(InputEvent)
    BY <1>4, <2>3, TrySendType DEF TypeOK, DrainRaw
  <2> QED BY <1>4, <2>1, <2>2, <2>4 DEF TypeOK, DrainRaw
<1>5. CASE ReceiveEmergency
  <2>1. Head(sink) \in InputEvent /\ sink' \in Seq(InputEvent)
    BY <1>5 DEF TypeOK, ReceiveEmergency
  <2>2. edge' \in EdgeState
    BY <1>5 DEF TypeOK, ReceiveEmergency, ForcedLocal, EdgeState
  <2>3. decision' = Stay \/ decision'.kind = "LeaveRemote"
    BY <1>5 DEF ReceiveEmergency, ForceLocalDecision, LeaveRemote
  <2>4. pc' # "recv" => event' \in InputEvent
    BY <1>5, <2>1 DEF ReceiveEmergency
  <2> QED
    BY <1>5, <2>1, <2>2, <2>3, <2>4 DEF TypeOK, ReceiveEmergency, Stay
<1>6. CASE ReceiveInput
  <2> DEFINE e == Head(sink)
  <2>1. e \in InputEvent /\ sink' \in Seq(InputEvent)
    BY <1>6 DEF TypeOK, ReceiveInput
  <2>2. edge' \in EdgeState
    BY <1>6, <2>1, ObservedType DEF TypeOK, ReceiveInput
  <2>3. /\ decision'.kind \in {"Stay", "EnterRemote"}
        /\ decision'.kind = "EnterRemote" => decision'.modifiers \subseteq Modifiers
    <3>1. Noted(edge, e).modifiers \subseteq Modifiers
      BY <2>1 DEF TypeOK, Noted, EdgeState, InputEvent
    <3> QED
      BY <1>6, <3>1 DEF ReceiveInput, Decision, EnterRemote, Stay
  <2>4. last_mouse' \in [x : Int, y : Int] \cup {None}
    BY <1>6, <2>1 DEF TypeOK, ReceiveInput, InputEvent
  <2>5. /\ pc' \in {"recv", "choose", "forward"}
        /\ pc' # "recv" => event' \in InputEvent
    BY <1>6, <2>1 DEF ReceiveInput
  <2> QED
    BY <1>6, <2>1, <2>2, <2>3, <2>4, <2>5 DEF TypeOK, ReceiveInput
<1>7. CASE ChoosePeer
  BY <1>7, FirstPeerType DEF TypeOK, ChoosePeer
<1>8. ASSUME NEW from, NEW to, NEW m \in Messages,
             SendMessage(from, m, to),
             from \in {"enter", "leave", "sync"},
             to \in {"engage", "sync", "disengage"}
      PROVE  TypeOK'
  <2>1. active_peer \in Conns
    BY <1>8 DEF SendMessage, Handing, TypeOK
  <2>2. outbound' \in [Conns -> Seq(Messages)]
    BY <1>8, <2>1, SendType DEF SendMessage, TypeOK, Messages
  <2> QED
    BY <1>8, <2>2 DEF SendMessage, TypeOK, Messages
<1>9. CASE SendScreenEnter \/ SendScreenLeave \/ SendModifierSync
  <2>1. CASE SendScreenEnter
    <3>1. decision.modifiers \subseteq Modifiers
      BY <2>1 DEF SendScreenEnter, SendMessage, TypeOK, Handing, Entering
    <3>2. [type |-> "ScreenEnter", modifiers |-> decision.modifiers] \in FocusMessage
      BY <3>1 DEF FocusMessage
    <3> QED BY <1>8, <2>1, <3>2 DEF SendScreenEnter, Messages
  <2>2. CASE SendScreenLeave
    <3>1. [type |-> "ScreenLeave"] \in FocusMessage
      BY DEF FocusMessage
    <3> QED BY <1>8, <2>2, <3>1 DEF SendScreenLeave, Messages
  <2>3. CASE SendModifierSync
    <3>1. [type |-> "ModifierSync", modifiers |-> {}] \in FocusMessage
      BY DEF FocusMessage
    <3> QED BY <1>8, <2>3, <3>1 DEF SendModifierSync, Messages
  <2> QED BY <1>9, <2>1, <2>2, <2>3
<1>10. CASE Engage
  BY <1>10 DEF TypeOK, Engage
<1>11. CASE Disengage
  BY <1>11 DEF TypeOK, Disengage, Idle, Stay
<1>12. CASE Forward
  <2>1. event \in InputEvent
    BY <1>12 DEF Forward, TypeOK
  <2>2. FirstPeer \in Conns \cup {None}
    BY FirstPeerType DEF TypeOK
  <2>3. /\ pc' = "recv" /\ decision' = Stay /\ active_peer' = None
        /\ UNCHANGED <<userVars, captureVars, capturing, edge, tableVars, conn, clientVars>>
    BY <1>12, Zenon DEF Forward, Idle
  <2>4. ASSUME outbound' \in [Conns -> Seq(Messages)], last_mouse' \in [x : Int, y : Int] \cup {None}
        PROVE  TypeOK'
    BY <2>3, <2>4 DEF TypeOK, Stay, Messages
  <2>5. CASE FirstPeer = None
    <3>1. UNCHANGED <<last_mouse, outbound>>
      BY <1>12, <2>5 DEF Forward
    <3> QED BY <2>4, <3>1 DEF TypeOK, Messages
  <2>6. CASE FirstPeer # None /\ event.type = "Move"
    <3>1. event.x \in Int /\ event.y \in Int
      BY <2>1, <2>6 DEF InputEvent
    <3>2. Delta.dx \in Int /\ Delta.dy \in Int
      BY <3>1 DEF Delta, TypeOK
    <3>3. [type |-> "MouseMoveRelative", dx |-> Delta.dx, dy |-> Delta.dy]
             \in Messages
      BY <3>2 DEF Messages, InputMessage
    <3>4. outbound' \in [Conns -> Seq(Messages)]
      BY <1>12, <2>2, <2>6, <3>3, SendType DEF Forward, TypeOK, Messages
    <3>5. last_mouse' = [x |-> event.x, y |-> event.y]
      BY <1>12, <2>6 DEF Forward
    <3> QED BY <2>4, <3>1, <3>4, <3>5
  <2>7. CASE FirstPeer # None /\ event.type # "Move"
    <3>1. KeyMessage(event) \in Messages
      BY <2>1, <2>7 DEF InputEvent, KeyMessage, Messages, InputMessage, Inputs
    <3>2. outbound' \in [Conns -> Seq(Messages)]
      BY <1>12, <2>2, <2>7, <3>1, SendType DEF Forward, TypeOK, Messages
    <3>3. last_mouse' = last_mouse
      BY <1>12, <2>7 DEF Forward
    <3> QED BY <2>4, <3>2, <3>3 DEF TypeOK
  <2> QED BY <2>5, <2>6, <2>7
<1>13. CASE PeerConnected
  <2>1. Head(peer_events) \in ServerEvent
    BY <1>13 DEF PeerConnected, TypeOK
  <2> QED
    BY <1>13, <2>1 DEF PeerConnected, HandlerFrame, TypeOK, ServerEvent
<1>14. CASE BindAutoPeer
  BY <1>14 DEF BindAutoPeer, WithAutoPeer, HandlerFrame, TypeOK, EdgeState
<1>15. CASE PeerDisconnected
  <2>1. peers' \in Seq(Conns)
    BY <1>15, RetainedEntries DEF PeerDisconnected, TypeOK
  <2> QED
    BY <1>15, <2>1 DEF PeerDisconnected, HandlerFrame, TypeOK
<1>16. CASE UnbindAutoPeer
  BY <1>16 DEF UnbindAutoPeer, WithAutoPeer, HandlerFrame, TypeOK, EdgeState
<1>17. ASSUME NEW c \in Conns, Connect(c) PROVE TypeOK'
  <2>1. [type |-> "Connected", conn |-> c] \in ServerEvent
    BY DEF ServerEvent
  <2> QED BY <1>17, <2>1 DEF Connect, NetFrame, TypeOK
<1>18. ASSUME NEW c \in Conns, Break(c) PROVE TypeOK'
  <2>1. PICK n \in 0 .. Len(outbound[c]) :
          outbound' = [outbound EXCEPT ![c] = SubSeq(outbound[c], 1, n)]
    BY <1>18 DEF Break
  <2>2. SubSeq(outbound[c], 1, n) \in Seq(Messages)
    BY <2>1 DEF TypeOK, Messages
  <2> QED BY <1>18, <2>1, <2>2 DEF Messages, Break, NetFrame, TypeOK
<1>19. ASSUME NEW c \in Conns, ReportBreak(c) PROVE TypeOK'
  <2>1. [type |-> "Disconnected", conn |-> c] \in ServerEvent
    BY DEF ServerEvent
  <2> QED BY <1>19, <2>1 DEF ReportBreak, NetFrame, TypeOK
<1>20. ASSUME NEW c \in Conns, Deliver(c) PROVE TypeOK'
  <2> DEFINE m == Head(outbound[c])
             p == PeerOf[c]
  <2>1. m \in Messages
    BY <1>20 DEF Deliver, TypeOK, Messages
  <2>2. p \in Peers /\ pressed[p] \subseteq Inputs
    BY DEF TypeOK
  <2>3. Injected(pressed[p], m) \subseteq Inputs
    BY <2>1, <2>2
       DEF Injected, Resynced, Messages, InputMessage, FocusMessage, Inputs
  <2>4. pressed' \in [Peers -> SUBSET Inputs]
    BY <1>20, <2>2, <2>3 DEF Deliver, TypeOK
  <2>5. entered' \in [Peers -> BOOLEAN]
    BY <1>20, <2>2 DEF Deliver, TypeOK
  <2>6. outbound' \in [Conns -> Seq(Messages)]
    BY <1>20 DEF Deliver, TypeOK, Messages
  <2> QED BY <1>20, <2>4, <2>5, <2>6 DEF Deliver, TypeOK, Messages
<1>21. CASE UNCHANGED vars
  BY <1>21 DEF vars, TypeOK
<1> QED
  BY <1>1, <1>2, <1>3, <1>4, <1>5, <1>6, <1>7, <1>9, <1>10, <1>11, <1>12,
     <1>13, <1>14, <1>15, <1>16, <1>17, <1>18, <1>19, <1>20, <1>21
     DEF Next, User, Task, Handler, Network

-----------------------------------------------------------------------------
(* The hand-over *)

LEMMA HandingInit == Init => Handing
BY DEF Init, Handing, NewEdge

(* The steps of drain_capture keep Handing: each of them reads the route   *)
(* or the capture that the previous step left.                             *)
LEMMA HandingTask == TypeOK /\ Handing /\ Task => Handing'
<1> SUFFICES ASSUME TypeOK, Handing, Task PROVE Handing'
  OBVIOUS
<1> USE DEF userVars, captureVars, tableVars, netVars, clientVars, Entering,
            Leaving
<1>1. CASE ReceiveEmergency
  <2>1. /\ edge'.route = None
        /\ edge.route = None => decision' = Stay
        /\ edge.route # None => /\ decision'.kind = "LeaveRemote"
                                /\ decision' # Stay
    BY <1>1 DEF ReceiveEmergency, ForcedLocal, ForceLocalDecision, LeaveRemote,
                Stay, TypeOK, EdgeState
  <2>2. capturing' = capturing /\ pc = "recv"
    BY <1>1 DEF ReceiveEmergency
  <2> QED
    BY <1>1, <2>1, <2>2 DEF ReceiveEmergency, Handing, TypeOK
<1>2. CASE ReceiveInput
  <2> DEFINE e == Head(sink)
  <2>1. /\ edge' = Observed(edge, e)
        /\ decision' = Decision(edge, e)
        /\ capturing' = capturing
        /\ pc = "recv"
    BY <1>2 DEF ReceiveInput
  <2>2. CASE edge'.route # None
    <3>1. pc' = IF decision' = Stay THEN "forward" ELSE "choose"
      BY <1>2, <2>1, <2>2 DEF ReceiveInput, ForwardsRemote
    <3> QED
      BY <2>1, <2>2, <3>1, ObservedRoute DEF Handing, TypeOK
  <2>3. CASE edge'.route = None
    <3>1. pc' = "recv"
      BY <1>2, <2>1, <2>3 DEF ReceiveInput, ForwardsRemote
    <3> QED
      BY <2>1, <2>3, <3>1, ObservedRoute DEF Handing, TypeOK
  <2> QED BY <2>2, <2>3
<1>3. CASE ChoosePeer
  BY <1>3 DEF ChoosePeer, Handing
<1>4. CASE SendScreenEnter
  BY <1>4 DEF SendScreenEnter, SendMessage, Handing
<1>5. CASE Engage
  BY <1>5 DEF Engage, Handing
<1>6. CASE SendScreenLeave
  BY <1>6 DEF SendScreenLeave, SendMessage, Handing
<1>7. CASE SendModifierSync
  BY <1>7 DEF SendModifierSync, SendMessage, Handing
<1>8. CASE Disengage
  BY <1>8 DEF Disengage, Idle, Handing
<1>9. CASE Forward
  BY <1>9 DEF Forward, Idle, Handing
<1> QED
  BY <1>1, <1>2, <1>3, <1>4, <1>5, <1>6, <1>7, <1>8, <1>9 DEF Task

(* Whatever else happens meanwhile leaves the route, the capture and       *)
(* drain_capture alone; set_auto_peer in particular keeps the route.       *)
LEMMA OthersKeepRoute ==
  TypeOK /\ [User \/ DrainRaw \/ Handler \/ Network]_vars
    => /\ edge'.route = edge.route
       /\ UNCHANGED <<capturing, pc, decision, active_peer>>
<1> SUFFICES ASSUME TypeOK, [User \/ DrainRaw \/ Handler \/ Network]_vars
             PROVE  /\ edge'.route = edge.route
                    /\ UNCHANGED <<capturing, pc, decision, active_peer>>
  OBVIOUS
<1> USE DEF taskVars
<1>1. CASE User
  BY <1>1 DEF User, Press, Release, MoveMouse, Hook
<1>2. CASE DrainRaw
  BY <1>2 DEF DrainRaw
<1>3. CASE Handler
  BY <1>3 DEF Handler, PeerConnected, BindAutoPeer, PeerDisconnected,
              UnbindAutoPeer, HandlerFrame, WithAutoPeer, TypeOK, EdgeState
<1>4. CASE Network
  BY <1>4 DEF Network, Connect, Break, ReportBreak, Deliver, NetFrame
<1>5. CASE UNCHANGED vars
  BY <1>5 DEF vars
<1> QED BY <1>1, <1>2, <1>3, <1>4, <1>5

LEMMA IInvStep == IInv /\ [Next]_vars => IInv'
<1> SUFFICES ASSUME IInv, [Next]_vars PROVE Handing'
  BY TypeStep DEF IInv
<1>1. CASE Task
  BY <1>1, HandingTask DEF IInv
<1>2. CASE [User \/ DrainRaw \/ Handler \/ Network]_vars
  BY <1>2, OthersKeepRoute DEF IInv, Handing, Entering, Leaving
<1> QED BY <1>1, <1>2 DEF Next

LEMMA IInvAlways == Spec => []IInv
<1>1. Init => IInv
  BY TypeInit, HandingInit DEF IInv
<1> QED
  BY <1>1, IInvStep, PTL DEF Spec

(* The session's variables always have their types: whatever keys the user *)
(* presses, whenever clients come and go.                                  *)
THEOREM TypeCorrect == Spec => []TypeOK
BY IInvAlways, PTL DEF IInv

(* Between two events of drain_capture local input is captured exactly     *)
(* when the route is remote, for any layout and any peers.                 *)
THEOREM CaptureFollowsRouteAlways == Spec => []CaptureFollowsRoute
<1>1. IInv => CaptureFollowsRoute
  BY DEF IInv, Handing, CaptureFollowsRoute
<1> QED
  BY <1>1, IInvAlways, PTL

(* The routing session implements FocusHandover: each step changes the     *)
(* owner or the capture in turn, or neither.                               *)
THEOREM ImplementsHandover == Spec => HandoverRefinement
<1>1. Init => Handover!Init
  BY DEF Init, Handover!Init, NewEdge
<1>2. IInv /\ [Next]_vars => [Handover!Next]_(Handover!vars)
  <2> SUFFICES ASSUME TypeOK, Handing, [Next]_vars
               PROVE  [Handover!Next]_(Handover!vars)
    BY DEF IInv
  <2> USE DEF Handover!vars
  <2>1. CASE [User \/ DrainRaw \/ Handler \/ Network]_vars
    BY <2>1, OthersKeepRoute
  <2>2. CASE ReceiveEmergency
    BY <2>2 DEF ReceiveEmergency, ForcedLocal, Handing, TypeOK, EdgeState,
                Handover!Next, Handover!ComeBack
  <2>3. CASE ReceiveInput
    <3> DEFINE e == Head(sink)
    <3>1. /\ edge' = Observed(edge, e)
          /\ capturing' = capturing
          /\ pc = "recv"
      BY <2>3 DEF ReceiveInput
    <3>2. \/ edge'.route = edge.route
          \/ edge.route = None /\ edge'.route # None
      BY <3>1, ObservedRoute DEF TypeOK
    <3> QED
      BY <3>1, <3>2 DEF Handing, Handover!Next, Handover!Cross
  <2>4. CASE ChoosePeer \/ SendScreenEnter \/ SendScreenLeave
             \/ SendModifierSync \/ Forward
    BY <2>4 DEF ChoosePeer, SendScreenEnter, SendScreenLeave, SendModifierSync,
                SendMessage, Forward
  <2>5. CASE Engage
    BY <2>5 DEF Engage, Handing, Entering, Handover!Next, Handover!Take
  <2>6. CASE Disengage
    BY <2>6 DEF Disengage, Handing, Leaving, Handover!Next, Handover!GiveBack
  <2> QED
    BY <2>1, <2>2, <2>3, <2>4, <2>5, <2>6 DEF Next, Task
<1> QED
  BY <1>1, <1>2, IInvAlways, PTL DEF Spec, HandoverRefinement, Handover!Spec

-----------------------------------------------------------------------------
(* The peer table and the auto-peer *)

(* What the auto-peer is in the middle of a peer event. *)
Binding ==
  /\ handler = "recv" => (edge.auto_peer # None <=> peers # <<>>)
  /\ handler = "bind" => peers # <<>>
  /\ handler = "unbind" => (peers # <<>> => edge.auto_peer # None)

(* The first of some is one of them. *)
LEMMA HeadInRange ==
  ASSUME NEW S, NEW s \in Seq(S), s # <<>>
  PROVE  s[1] \in Range(s)
BY DEF Range

LEMMA BindingStep == TypeOK /\ TypeOK' /\ Binding /\ [Next]_vars => Binding'
<1> SUFFICES ASSUME TypeOK, TypeOK', Binding, [Next]_vars PROVE Binding'
  OBVIOUS
<1> USE EdgeAssumption, RoutingAssumption
<1> USE DEF Binding, TypeOK, EdgeState, tableVars
<1>1. CASE PeerConnected
  <2>1. peers' # <<>>
    <3>1. Head(peer_events) \in ServerEvent
      BY <1>1 DEF PeerConnected
    <3>2. Head(peer_events).conn \in Conns
      BY <3>1 DEF ServerEvent
    <3>3. Len(peers') = Len(peers) + 1
      BY <1>1, <3>2 DEF PeerConnected
    <3> QED BY <3>3
  <2> QED BY <1>1, <2>1 DEF PeerConnected
<1>2. CASE BindAutoPeer
  <2>1. edge'.auto_peer = AutoScreen /\ peers' = peers
    BY <1>2 DEF BindAutoPeer, WithAutoPeer
  <2> QED BY <1>2, <2>1 DEF BindAutoPeer
<1>3. CASE PeerDisconnected
  <2>1. peers = <<>> => peers' = <<>>
    <3>1. peers' \in Seq(Conns) /\ Range(peers') \subseteq Range(peers)
      BY <1>3, RetainedEntries DEF PeerDisconnected
    <3>2. peers = <<>> => Range(peers) = {}
      BY DEF Range
    <3>3. peers' # <<>> => peers'[1] \in Range(peers')
      BY <3>1, HeadInRange
    <3> QED BY <3>1, <3>2, <3>3
  <2> HIDE DEF TypeOK, EdgeState
  <2>2. handler = "recv" /\ handler' = "unbind" /\ edge' = edge
    BY <1>3 DEF PeerDisconnected
  <2>3. edge.auto_peer # None <=> peers # <<>>
    BY <2>2 DEF Binding
  <2> QED BY <2>1, <2>2, <2>3
<1>4. CASE UnbindAutoPeer
  <2>1. peers' = peers /\ handler' = "recv"
    BY <1>4 DEF UnbindAutoPeer
  <2>2. peers = <<>> => edge'.auto_peer = None
    BY <1>4 DEF UnbindAutoPeer, WithAutoPeer
  <2>3. peers # <<>> => edge'.auto_peer = edge.auto_peer
    BY <1>4 DEF UnbindAutoPeer
  <2> QED BY <1>4, <2>1, <2>2, <2>3 DEF UnbindAutoPeer
<1>5. CASE [User \/ DrainRaw \/ Task \/ Network]_vars
  <2>1. UNCHANGED <<peers, handler>>
    BY <1>5 DEF User, Press, Release, MoveMouse, Hook, DrainRaw, Task,
                ReceiveEmergency, ReceiveInput, ChoosePeer, SendScreenEnter,
                SendScreenLeave, SendModifierSync, SendMessage, Engage,
                Disengage, Forward, Network, Connect, Break, ReportBreak,
                Deliver, NetFrame, vars
  <2>2. edge'.auto_peer = edge.auto_peer
    <3>1. CASE ReceiveEmergency
      BY <3>1 DEF ReceiveEmergency, ForcedLocal
    <3>2. CASE ReceiveInput
      BY <3>2 DEF ReceiveInput, Observed, Noted
    <3> QED
      BY <1>5, <3>1, <3>2
         DEF User, Press, Release, MoveMouse, Hook, DrainRaw, Task, ChoosePeer,
             SendScreenEnter, SendScreenLeave, SendModifierSync, SendMessage,
             Engage, Disengage, Forward, Network, Connect, Break, ReportBreak,
             Deliver, NetFrame, vars
  <2> QED BY <2>1, <2>2
<1> QED
  BY <1>1, <1>2, <1>3, <1>4, <1>5 DEF Next, Handler

LEMMA BindingAlways == Spec => []Binding
<1>1. Init => Binding
  BY DEF Init, Binding, NewEdge
<1> QED
  BY <1>1, BindingStep, TypeCorrect, PTL DEF Spec

(* Edges lead to a client exactly while one is in the table (between two   *)
(* peer events), in whatever order any number of clients come and go.      *)
THEOREM AutoPeerFollowsTableAlways == Spec => []AutoPeerFollowsTable
<1>1. Binding => AutoPeerFollowsTable
  BY DEF Binding, AutoPeerFollowsTable
<1> QED
  BY <1>1, BindingAlways, PTL

-----------------------------------------------------------------------------
(* The peer table and the connections *)

Connected(c)    == [type |-> "Connected", conn |-> c]
Disconnected(c) == [type |-> "Disconnected", conn |-> c]

(* An event upon which the handler drops every handle of machine p. *)
EndsAt(e, p) == e.type = "Disconnected" /\ PeerOf[e.conn] = p

(* No end of a connection of c's machine waits behind place i. *)
KeptBehind(q, c, i) == \A j \in i + 1 .. Len(q) : ~EndsAt(q[j], PeerOf[c])

(* A table that lists the connections of listed will list c once all that  *)
(* waits in q is handled: it lists it now or its beginning waits, and no    *)
(* end that follows takes it out again.                                    *)
WillList(listed, q, c) ==
  \/ c \in listed /\ KeptBehind(q, c, 0)
  \/ \E i \in 1 .. Len(q) : q[i] = Connected(c) /\ KeptBehind(q, c, i)

Tracked(c) ==
  WillList(Range(peers), peer_events, c) <=> conn[c] # "new" /\ c \notin displaced

AllTracked == /\ \A c \in displaced : conn[c] # "new"
              /\ \A c \in Conns : Tracked(c)

(* What reporting an event does to what the table will list. *)
LEMMA ReportedLists ==
  ASSUME NEW q \in Seq(ServerEvent), NEW e \in ServerEvent, NEW c, NEW listed
  PROVE  WillList(listed, Append(q, e), c)
           <=> e = Connected(c) \/ (WillList(listed, q, c) /\ ~EndsAt(e, PeerOf[c]))
<1> DEFINE n == Len(q)
           all == Append(q, e)
<1>1. /\ n \in Nat /\ Len(all) = n + 1 /\ all[n + 1] = e /\ \A i \in 1 .. n : all[i] = q[i]
      /\ \A i \in 1 .. n + 1 : i \in 1 .. n \/ i = n + 1
      /\ n + 1 \in 1 .. n + 1 /\ \A i \in 1 .. n : i \in 1 .. n + 1
  <2>1. n \in Nat /\ Len(all) = n + 1 /\ all[n + 1] = e /\ \A i \in 1 .. n : all[i] = q[i]
    BY AppendProperties
  <2> QED BY <2>1
<1> HIDE DEF all
<1>2. ASSUME NEW i \in 0 .. n
      PROVE  KeptBehind(all, c, i) <=> KeptBehind(q, c, i) /\ ~EndsAt(e, PeerOf[c])
  <2>1. \A j \in i + 1 .. n + 1 : j \in i + 1 .. n \/ j = n + 1
    BY <1>1
  <2>2. n + 1 \in i + 1 .. n + 1 /\ \A j \in i + 1 .. n : j \in i + 1 .. n + 1 /\ all[j] = q[j]
    BY <1>1
  <2> QED BY <1>1, <2>1, <2>2 DEF KeptBehind
<1>3. KeptBehind(all, c, n + 1)
  BY <1>1 DEF KeptBehind
<1>4. 0 \in 0 .. n /\ \A i \in 1 .. n : i \in 0 .. n
  BY <1>1
<1>5. ASSUME e = Connected(c) PROVE WillList(listed, all, c)
  BY <1>1, <1>3, <1>5 DEF WillList
<1>6. ASSUME WillList(listed, q, c), ~EndsAt(e, PeerOf[c]) PROVE WillList(listed, all, c)
  <2>1. CASE c \in listed /\ KeptBehind(q, c, 0)
    BY <1>2, <1>4, <1>6, <2>1 DEF WillList
  <2>2. CASE \E i \in 1 .. n : q[i] = Connected(c) /\ KeptBehind(q, c, i)
    BY <1>1, <1>2, <1>4, <1>6, <2>2 DEF WillList
  <2> QED BY <1>6, <2>1, <2>2 DEF WillList
<1>7. ASSUME WillList(listed, all, c), e # Connected(c)
      PROVE  WillList(listed, q, c) /\ ~EndsAt(e, PeerOf[c])
  <2>1. CASE c \in listed /\ KeptBehind(all, c, 0)
    BY <1>2, <1>4, <2>1 DEF WillList
  <2>2. CASE \E i \in 1 .. n + 1 : all[i] = Connected(c) /\ KeptBehind(all, c, i)
    BY <1>1, <1>2, <1>4, <1>7, <2>2 DEF WillList
  <2> QED BY <1>1, <1>7, <2>1, <2>2 DEF WillList
<1> QED BY <1>5, <1>6, <1>7 DEF all

(* What handling the first event does to it: nothing, if the handler takes *)
(* from the event what the operator does.                                  *)
LEMMA HandledLists ==
  ASSUME NEW q \in Seq(ServerEvent), q # <<>>, NEW c,
         NEW before, NEW after,
         c \in after <=> Head(q) = Connected(c) \/ (c \in before /\ ~EndsAt(Head(q), PeerOf[c]))
  PROVE  WillList(after, Tail(q), c) <=> WillList(before, q, c)
<1> DEFINE n == Len(q)
           rest == Tail(q)
<1>1. /\ n \in Nat /\ n >= 1 /\ Len(rest) = n - 1 /\ Head(q) = q[1] /\ 1 \in 1 .. n
      /\ \A i \in 1 .. n - 1 : i + 1 \in 2 .. n /\ i + 1 \in 1 .. n /\ rest[i] = q[i + 1]
      /\ \A i \in 1 .. n : i # 1 => i - 1 \in 1 .. n - 1 /\ rest[i - 1] = q[i] /\ (i - 1) + 1 = i
  <2>1. /\ n \in Nat /\ n >= 1 /\ Len(rest) = n - 1 /\ Head(q) = q[1]
        /\ \A i \in 1 .. n - 1 : rest[i] = q[i + 1]
    BY HeadTailProperties
  <2> QED BY <2>1
<1> HIDE DEF rest
<1>2. ASSUME NEW i \in 0 .. n - 1 PROVE KeptBehind(rest, c, i) <=> KeptBehind(q, c, i + 1)
  <2>1. \A j \in i + 1 .. n - 1 : j + 1 \in (i + 1) + 1 .. n /\ rest[j] = q[j + 1]
    BY <1>1
  <2>2. \A j \in (i + 1) + 1 .. n : j - 1 \in i + 1 .. n - 1 /\ rest[j - 1] = q[j]
    BY <1>1
  <2> QED BY <1>1, <2>1, <2>2 DEF KeptBehind
<1>3. KeptBehind(q, c, 0) <=> KeptBehind(q, c, 1) /\ ~EndsAt(Head(q), PeerOf[c])
  <2>1. /\ \A j \in 0 + 1 .. n : j = 1 \/ j \in 1 + 1 .. n
        /\ 1 \in 0 + 1 .. n /\ \A j \in 1 + 1 .. n : j \in 0 + 1 .. n
    BY <1>1
  <2> QED BY <1>1, <2>1 DEF KeptBehind
<1>4. KeptBehind(rest, c, 0) <=> KeptBehind(q, c, 1)
  <2>1. 0 \in 0 .. n - 1 /\ 0 + 1 = 1
    BY <1>1
  <2> QED BY <1>2, <2>1
<1>5. (\E i \in 1 .. n - 1 : rest[i] = Connected(c) /\ KeptBehind(rest, c, i))
        <=> \E i \in 1 .. n : i # 1 /\ q[i] = Connected(c) /\ KeptBehind(q, c, i)
  <2>1. ASSUME NEW i \in 1 .. n - 1 PROVE i + 1 # 1 /\ (KeptBehind(rest, c, i) <=> KeptBehind(q, c, i + 1))
    BY <1>1, <1>2
  <2>2. \A i \in 1 .. n : i # 1 => (KeptBehind(rest, c, i - 1) <=> KeptBehind(q, c, i))
    BY <1>1, <2>1
  <2> QED BY <1>1, <2>1, <2>2
<1>6. (\E i \in 1 .. n : q[i] = Connected(c) /\ KeptBehind(q, c, i))
        <=> \/ Head(q) = Connected(c) /\ KeptBehind(q, c, 1)
            \/ \E i \in 1 .. n : i # 1 /\ q[i] = Connected(c) /\ KeptBehind(q, c, i)
  BY <1>1
<1> QED BY <1>1, <1>3, <1>4, <1>5, <1>6 DEF WillList, rest

LEMMA TrackedStep ==
  ASSUME TypeOK, AllTracked, [Next]_vars
  PROVE  AllTracked'
<1> USE RoutingAssumption
<1>0. /\ conn \in [Conns -> {"new", "up", "down", "reported"}] /\ peers \in Seq(Conns)
      /\ peer_events \in Seq(ServerEvent) /\ displaced \subseteq Conns
  BY DEF TypeOK
<1>1. /\ \A c, d : Connected(c) = Connected(d) => c = d
      /\ \A c, d : Disconnected(c) # Connected(d)
      /\ \A c, p : ~EndsAt(Connected(c), p)
      /\ \A c, p : EndsAt(Disconnected(c), p) <=> PeerOf[c] = p
  <2>1. \A c : Connected(c).conn = c /\ Connected(c).type = "Connected"
    BY DEF Connected
  <2>2. \A c : Disconnected(c).conn = c /\ Disconnected(c).type = "Disconnected"
    BY DEF Disconnected
  <2> QED BY <2>1, <2>2 DEF EndsAt
<1>2. \A c \in Conns : Connected(c) \in ServerEvent /\ Disconnected(c) \in ServerEvent
  BY DEF Connected, Disconnected, ServerEvent
<1>3. \A e \in ServerEvent : /\ e.conn \in Conns
                             /\ e.type = "Connected" => e = Connected(e.conn)
                             /\ e.type = "Disconnected" => e = Disconnected(e.conn)
  BY DEF Connected, Disconnected, ServerEvent
<1>4. CASE UNCHANGED <<conn, peers, peer_events, displaced>>
  BY <1>4 DEF AllTracked, Tracked
<1>5. ASSUME NEW c \in Conns, Connect(c) PROVE AllTracked'
  <2>1. /\ conn[c] = "new" /\ conn' = [conn EXCEPT ![c] = "up"] /\ UNCHANGED <<peers, displaced>>
        /\ peer_events' = Append(peer_events, Connected(c))
    BY <1>5 DEF Connect, NetFrame, Connected
  <2>2. \A d \in Conns : WillList(Range(peers), peer_events', d)
                           <=> c = d \/ WillList(Range(peers), peer_events, d)
    <3> SUFFICES ASSUME NEW d \in Conns
                 PROVE  WillList(Range(peers), peer_events', d)
                          <=> c = d \/ WillList(Range(peers), peer_events, d)
      OBVIOUS
    <3>1. WillList(Range(peers), peer_events', d)
            <=> Connected(c) = Connected(d)
                \/ (WillList(Range(peers), peer_events, d) /\ ~EndsAt(Connected(c), PeerOf[d]))
      BY <1>0, <1>2, <2>1, ReportedLists
    <3> QED BY <1>1, <3>1
  <2>3. conn'[c] = "up" /\ \A d \in Conns : d # c => conn'[d] = conn[d]
    BY <1>0, <2>1
  <2> QED BY <1>0, <2>1, <2>2, <2>3 DEF AllTracked, Tracked
<1>6. ASSUME NEW c \in Conns, Break(c) PROVE AllTracked'
  <2>1. /\ conn[c] = "up" /\ conn' = [conn EXCEPT ![c] = "down"]
        /\ UNCHANGED <<peers, peer_events, displaced>>
    BY <1>6 DEF Break, NetFrame
  <2>2. \A d \in Conns : conn'[d] # "new" <=> conn[d] # "new"
    BY <1>0, <2>1
  <2> QED BY <1>0, <2>1, <2>2 DEF AllTracked, Tracked
<1>7. ASSUME NEW c \in Conns, ReportBreak(c) PROVE AllTracked'
  <2>1. /\ conn[c] = "down" /\ conn' = [conn EXCEPT ![c] = "reported"] /\ peers' = peers
        /\ peer_events' = Append(peer_events, Disconnected(c))
        /\ displaced' = displaced \cup {d \in Conns : PeerOf[d] = PeerOf[c] /\ conn[d] # "new"}
    BY <1>7 DEF ReportBreak, NetFrame, Disconnected
  <2>2. \A d \in Conns : conn'[d] # "new" <=> conn[d] # "new"
    BY <1>0, <2>1
  <2>3. ASSUME NEW d \in Conns
        PROVE  WillList(Range(peers), peer_events', d)
                 <=> WillList(Range(peers), peer_events, d) /\ PeerOf[d] # PeerOf[c]
    <3>1. WillList(Range(peers), peer_events', d)
            <=> Disconnected(c) = Connected(d)
                \/ (WillList(Range(peers), peer_events, d) /\ ~EndsAt(Disconnected(c), PeerOf[d]))
      BY <1>0, <1>2, <2>1, ReportedLists
    <3> QED BY <1>1, <3>1
  <2>4. ASSUME NEW d \in Conns PROVE Tracked(d)'
    <3>1. WillList(Range(peers), peer_events, d) <=> conn[d] # "new" /\ d \notin displaced
      BY DEF AllTracked, Tracked
    <3>2. d \in displaced' <=> d \in displaced \/ (PeerOf[d] = PeerOf[c] /\ conn[d] # "new")
      BY <2>1
    <3>3. WillList(Range(peers'), peer_events', d) <=> conn'[d] # "new" /\ d \notin displaced'
      BY <2>1, <2>2, <2>3, <3>1, <3>2
    <3> QED BY <3>3 DEF Tracked
  <2>5. \A d \in displaced' : conn'[d] # "new"
    BY <1>0, <2>1, <2>2 DEF AllTracked
  <2> QED BY <2>4, <2>5 DEF AllTracked
<1>8. ASSUME peer_events # <<>>, UNCHANGED <<conn, displaced>>, peer_events' = Tail(peer_events),
             \A d \in Conns : d \in Range(peers')
               <=> Head(peer_events) = Connected(d)
                     \/ (d \in Range(peers) /\ ~EndsAt(Head(peer_events), PeerOf[d]))
      PROVE  AllTracked'
  <2>1. ASSUME NEW d \in Conns
        PROVE  WillList(Range(peers'), peer_events', d) <=> WillList(Range(peers), peer_events, d)
    BY <1>0, <1>8, HandledLists
  <2> QED BY <1>8, <2>1 DEF AllTracked, Tracked
<1>9. CASE PeerConnected
  <2> DEFINE x == Head(peer_events).conn
  <2>1. /\ peer_events # <<>> /\ peers' = Append(peers, x) /\ peer_events' = Tail(peer_events)
        /\ UNCHANGED <<conn, displaced>> /\ Head(peer_events).type = "Connected"
    BY <1>9 DEF PeerConnected, HandlerFrame, netVars, clientVars
  <2>2. Head(peer_events) \in ServerEvent
    BY <1>0, <2>1, HeadTailProperties
  <2>3. x \in Conns /\ Head(peer_events) = Connected(x)
    BY <1>3, <2>1, <2>2
  <2> HIDE DEF x
  <2>4. \A d : d \in Range(peers') <=> d \in Range(peers) \/ d = x
    <3>1. /\ Len(peers) \in Nat /\ Len(peers') = Len(peers) + 1 /\ peers'[Len(peers) + 1] = x
          /\ \A i \in 1 .. Len(peers) : peers'[i] = peers[i]
      BY <1>0, <2>1, <2>3, AppendProperties
    <3>2. DOMAIN peers = 1 .. Len(peers) /\ DOMAIN peers' = 1 .. Len(peers) + 1
      BY <1>0, <2>1, <2>3
    <3>3. \A i \in DOMAIN peers' : i \in DOMAIN peers \/ i = Len(peers) + 1
      BY <3>1, <3>2
    <3>4. Len(peers) + 1 \in DOMAIN peers' /\ \A i \in DOMAIN peers : i \in DOMAIN peers'
      BY <3>1, <3>2
    <3> QED BY <3>1, <3>2, <3>3, <3>4 DEF Range
  <2>5. \A d \in Conns : d \in Range(peers') <=> Connected(x) = Connected(d)
                           \/ (d \in Range(peers) /\ ~EndsAt(Connected(x), PeerOf[d]))
    BY <1>1, <2>4
  <2> QED BY <1>8, <2>1, <2>3, <2>5
<1>10. CASE PeerDisconnected
  <2> DEFINE x == Head(peer_events).conn
  <2>1. /\ peer_events # <<>> /\ peers' = Retained(peers, OfOthers(PeerOf[x]))
        /\ peer_events' = Tail(peer_events) /\ UNCHANGED <<conn, displaced>>
        /\ Head(peer_events).type = "Disconnected"
    BY <1>10 DEF PeerDisconnected, HandlerFrame, netVars, clientVars
  <2>2. Head(peer_events) \in ServerEvent
    BY <1>0, <2>1, HeadTailProperties
  <2>3. x \in Conns /\ Head(peer_events) = Disconnected(x)
    BY <1>3, <2>1, <2>2
  <2> HIDE DEF x
  <2>4. Range(peers') = Range(peers) \cap OfOthers(PeerOf[x])
    BY <1>0, <2>1, RetainedEntries
  <2>5. \A d \in Conns : d \in Range(peers') <=> Disconnected(x) = Connected(d)
                           \/ (d \in Range(peers) /\ ~EndsAt(Disconnected(x), PeerOf[d]))
    BY <1>1, <2>4 DEF OfOthers
  <2> QED BY <1>8, <2>1, <2>3, <2>5
<1>11. CASE BindAutoPeer \/ UnbindAutoPeer \/ User \/ DrainRaw \/ Task
  BY <1>4, <1>11
     DEF BindAutoPeer, UnbindAutoPeer, HandlerFrame, User, Press, Release, MoveMouse, Hook, DrainRaw,
         Task, ReceiveEmergency, ReceiveInput, ChoosePeer, SendScreenEnter, SendScreenLeave,
         SendModifierSync, SendMessage, Engage, Disengage, Forward, netVars, tableVars, clientVars
<1>12. ASSUME NEW c \in Conns, Deliver(c) PROVE AllTracked'
  BY <1>4, <1>12 DEF Deliver, tableVars
<1>13. CASE UNCHANGED vars
  BY <1>4, <1>13 DEF vars, netVars, tableVars, clientVars
<1> QED
  BY <1>5, <1>6, <1>7, <1>9, <1>10, <1>11, <1>12, <1>13 DEF Next, Handler, Network

(* Once the peer-event task has caught up, the table lists exactly the     *)
(* connections opened since the last reported end of one of their machine  *)
(* (session.rs:331-355), however any number of machines connect, break and *)
(* connect again.                                                          *)
THEOREM TableTracksConnectionsAlways == Spec => []TableTracksConnections
<1>1. Init => AllTracked
  BY DEF Init, AllTracked, Tracked, WillList, Range
<1>2. TypeOK /\ AllTracked /\ [Next]_vars => AllTracked'
  BY TrackedStep
<1>3. TypeOK /\ AllTracked => TableTracksConnections
  <2> SUFFICES ASSUME TypeOK, AllTracked, peer_events = <<>>
               PROVE  Range(peers) = {c \in Conns : conn[c] # "new" /\ c \notin displaced}
    BY DEF TableTracksConnections
  <2>1. ASSUME NEW c PROVE WillList(Range(peers), peer_events, c) <=> c \in Range(peers)
    BY DEF WillList, KeptBehind
  <2>2. Range(peers) \subseteq Conns
    BY DEF TypeOK, Range
  <2> QED BY <2>1, <2>2 DEF AllTracked, Tracked
<1> QED
  BY <1>1, <1>2, <1>3, TypeCorrect, PTL DEF Spec

-----------------------------------------------------------------------------
(* The focus along a stream *)

FocusTypes == {"ScreenEnter", "ScreenLeave"}
InputTypes == {"KeyEvent", "MouseButton", "MouseMoveRelative"}

(* The focus when message i of stream q is reached, if it was `was' before. *)
FocusIn(q, was, i) ==
  LET before == {j \in 1 .. i - 1 : q[j].type \in FocusTypes}
  IN  IF before = {} THEN was
      ELSE q[CHOOSE j \in before : \A k \in before : k <= j].type = "ScreenEnter"

FocusBehind(q, was) == FocusIn(q, was, Len(q) + 1)

Guarded(q, was) == \A i \in 1 .. Len(q) : q[i].type \in InputTypes => FocusIn(q, was, i)

LEMMA LastOf ==
  ASSUME NEW n \in Nat, NEW s \in SUBSET (1 .. n), s # {}
  PROVE  \E j \in s : \A k \in s : k <= j
<1>1. /\ Cardinality(s) \in Nat
      /\ \A i \in s : Cardinality(s \cap 1 .. i) \in 1 .. Cardinality(s)
      /\ \A k \in 1 .. Cardinality(s) : \E i \in s : Cardinality(s \cap 1 .. i) = k
  BY PlacesAll
<1>2. PICK i \in s : Cardinality(s \cap 1 .. i) = Cardinality(s)
  <2>1. Cardinality(s) \in 1 .. Cardinality(s)
    <3> PICK e \in s : TRUE
      OBVIOUS
    <3> DEFINE c == Cardinality(s)
               p == Cardinality(s \cap 1 .. e)
    <3>1. c \in Nat /\ p \in 1 .. c
      BY <1>1
    <3> HIDE DEF c, p
    <3>2. c \in 1 .. c
      BY <3>1
    <3> QED BY <3>2 DEF c
  <2> QED BY <1>1, <2>1
<1>3. IsFiniteSet(s) /\ (s \cap 1 .. i) \in SUBSET s
  <2>1. IsFiniteSet(1 .. n)
    BY FS_Interval
  <2> QED BY <2>1, FS_Subset
<1>4. s \cap 1 .. i = s
  BY <1>2, <1>3, FS_Subset
<1> QED BY <1>4

(* The last focus message decides. *)
LEMMA FocusDecided ==
  ASSUME NEW q, NEW was, NEW i \in Nat
  PROVE  /\ (\A j \in 1 .. i - 1 : q[j].type \notin FocusTypes) => FocusIn(q, was, i) = was
         /\ \A j \in 1 .. i - 1 :
              q[j].type \in FocusTypes /\ (\A k \in j + 1 .. i - 1 : q[k].type \notin FocusTypes)
                => FocusIn(q, was, i) = (q[j].type = "ScreenEnter")
         /\ \/ \A j \in 1 .. i - 1 : q[j].type \notin FocusTypes
            \/ \E j \in 1 .. i - 1 :
                 q[j].type \in FocusTypes /\ \A k \in j + 1 .. i - 1 : q[k].type \notin FocusTypes
<1> DEFINE before == {j \in 1 .. i - 1 : q[j].type \in FocusTypes}
           last   == CHOOSE j \in before : \A k \in before : k <= j
<1>1. (\A j \in 1 .. i - 1 : q[j].type \notin FocusTypes) => FocusIn(q, was, i) = was
  BY DEF FocusIn
<1>2. ASSUME NEW j \in 1 .. i - 1, q[j].type \in FocusTypes,
             \A k \in j + 1 .. i - 1 : q[k].type \notin FocusTypes
      PROVE  FocusIn(q, was, i) = (q[j].type = "ScreenEnter")
  <2>1. j \in before /\ \A k \in before : k <= j
    BY <1>2
  <2>2. before \subseteq Int
    OBVIOUS
  <2> HIDE DEF before
  <2>3. \A x, y \in before : (\A k \in before : k <= x) /\ (\A k \in before : k <= y) => x = y
    BY <2>2
  <2>4. last \in before /\ \A k \in before : k <= last
    BY <2>1
  <2>5. last = j
    BY <2>1, <2>3, <2>4
  <2> QED BY <2>1, <2>5 DEF FocusIn, before
<1>3. ASSUME before # {}
      PROVE  \E j \in 1 .. i - 1 :
               q[j].type \in FocusTypes /\ \A k \in j + 1 .. i - 1 : q[k].type \notin FocusTypes
  <2>1. i - 1 \in Nat
    BY <1>3
  <2>2. \E j \in before : \A k \in before : k <= j
    <3> HIDE DEF before
    <3>1. before \in SUBSET (1 .. i - 1)
      BY DEF before
    <3> QED BY <1>3, <2>1, <3>1, LastOf
  <2>3. PICK j \in before : \A k \in before : k <= j
    BY <2>2
  <2>4. ASSUME NEW k \in j + 1 .. i - 1 PROVE q[k].type \notin FocusTypes
    <3>1. k \in 1 .. i - 1 /\ ~(k <= j)
      BY <2>1
    <3> QED BY <2>3, <3>1
  <2> QED BY <2>3, <2>4
<1> QED BY <1>1, <1>2, <1>3

(* Nothing is changed by no messages. *)
LEMMA NoStreamNoFocus == FocusBehind(<<>>, FALSE) = FALSE
<1>1. Len(<<>>) + 1 = 1
  OBVIOUS
<1>2. {j \in 1 .. 1 - 1 : <<>>[j].type \in FocusTypes} = {}
  OBVIOUS
<1> QED BY <1>1, <1>2, Zenon DEF FocusBehind, FocusIn

(* Only the messages before it matter. *)
LEMMA FocusSame ==
  ASSUME NEW q, NEW r, NEW was, NEW i \in Nat, \A j \in 1 .. i - 1 : r[j] = q[j]
  PROVE  FocusIn(r, was, i) = FocusIn(q, was, i)
<1>1. CASE \A j \in 1 .. i - 1 : q[j].type \notin FocusTypes
  <2>1. FocusIn(q, was, i) = was
    BY <1>1, FocusDecided
  <2>2. \A j \in 1 .. i - 1 : r[j].type \notin FocusTypes
    BY <1>1
  <2>3. FocusIn(r, was, i) = was
    BY <2>2, FocusDecided
  <2> QED BY <2>1, <2>3
<1>2. ASSUME NEW j \in 1 .. i - 1, q[j].type \in FocusTypes,
             \A k \in j + 1 .. i - 1 : q[k].type \notin FocusTypes
      PROVE  FocusIn(r, was, i) = FocusIn(q, was, i)
  <2>1. FocusIn(q, was, i) = (q[j].type = "ScreenEnter")
    BY <1>2, FocusDecided
  <2>2. r[j].type \in FocusTypes /\ \A k \in j + 1 .. i - 1 : r[k].type \notin FocusTypes
    BY <1>2
  <2>3. FocusIn(r, was, i) = (r[j].type = "ScreenEnter")
    BY <2>2, FocusDecided
  <2> QED BY <2>1, <2>3
<1> QED BY <1>1, <1>2, FocusDecided

(* A message is sent. *)
LEMMA GuardedAppend ==
  ASSUME NEW q \in Seq(Messages), NEW was \in BOOLEAN, NEW m \in Messages, Guarded(q, was),
         m.type \in InputTypes => FocusBehind(q, was)
  PROVE  /\ Guarded(Append(q, m), was)
         /\ FocusBehind(Append(q, m), was)
              = IF m.type \in FocusTypes THEN m.type = "ScreenEnter" ELSE FocusBehind(q, was)
<1> DEFINE n   == Len(q)
           all == Append(q, m)
<1>1. n \in Nat /\ Len(all) = n + 1 /\ all[n + 1] = m /\ \A i \in 1 .. n : all[i] = q[i]
  BY AppendProperties
<1> HIDE DEF n, all
<1>2. \A i \in 1 .. n + 1 : FocusIn(all, was, i) = FocusIn(q, was, i)
  <2> SUFFICES ASSUME NEW i \in 1 .. n + 1 PROVE FocusIn(all, was, i) = FocusIn(q, was, i)
    OBVIOUS
  <2>1. i \in Nat /\ \A j \in 1 .. i - 1 : all[j] = q[j]
    BY <1>1
  <2> QED BY <2>1, FocusSame
<1>3. Guarded(all, was)
  <2> SUFFICES ASSUME NEW i \in 1 .. n + 1, all[i].type \in InputTypes PROVE FocusIn(all, was, i)
    BY <1>1 DEF Guarded
  <2>1. CASE i = n + 1
    BY <1>1, <1>2, <2>1 DEF FocusBehind, n
  <2>2. CASE i # n + 1
    <3>1. i \in 1 .. n
      BY <1>1, <2>2
    <3>2. FocusIn(q, was, i)
      BY <1>1, <3>1 DEF Guarded, n
    <3> QED BY <1>2, <3>2
  <2> QED BY <2>1, <2>2
<1>4. FocusIn(all, was, n + 2) = IF m.type \in FocusTypes THEN m.type = "ScreenEnter" ELSE FocusIn(q, was, n + 1)
  <2>1. n + 2 \in Nat /\ (n + 2) - 1 = n + 1 /\ n + 1 \in 1 .. n + 1 /\ (n + 1) + 1 .. n + 1 = {}
    BY <1>1
  <2>2. CASE m.type \in FocusTypes
    BY <1>1, <2>1, <2>2, FocusDecided
  <2>3. CASE m.type \notin FocusTypes
    <3>1. FocusIn(all, was, n + 1) = FocusIn(q, was, n + 1)
      BY <1>2, <2>1
    <3>2. {j \in 1 .. (n + 2) - 1 : all[j].type \in FocusTypes} = {j \in 1 .. (n + 1) - 1 : all[j].type \in FocusTypes}
      <4>1. \A j \in 1 .. n + 1 : j \in 1 .. n \/ j = n + 1
        BY <1>1
      <4>2. (n + 1) - 1 = n /\ \A j \in 1 .. n : j \in 1 .. n + 1
        BY <1>1
      <4> QED BY <1>1, <2>1, <2>3, <4>1, <4>2
    <3>3. FocusIn(all, was, n + 2) = FocusIn(all, was, n + 1)
      BY <3>2, Zenon DEF FocusIn
    <3> QED BY <2>3, <3>1, <3>3
  <2> QED BY <2>2, <2>3
<1>5. FocusBehind(all, was) = FocusIn(all, was, n + 2) /\ FocusBehind(q, was) = FocusIn(q, was, n + 1)
  <2>1. Len(all) + 1 = n + 2
    BY <1>1
  <2> QED BY <2>1 DEF FocusBehind, n
<1> QED BY <1>3, <1>4, <1>5 DEF all

(* What arrives of a stream that breaks *)
LEMMA GuardedPrefix ==
  ASSUME NEW q \in Seq(Messages), NEW was, Guarded(q, was), NEW n \in 0 .. Len(q)
  PROVE  Guarded(SubSeq(q, 1, n), was)
<1> DEFINE part == SubSeq(q, 1, n)
<1>1. Len(part) = n /\ n \in Nat /\ \A i \in 1 .. n : part[i] = q[i] /\ i \in 1 .. Len(q)
  OBVIOUS
<1> HIDE DEF part
<1>2. ASSUME NEW i \in 1 .. n, part[i].type \in InputTypes PROVE FocusIn(part, was, i)
  <2>1. i \in Nat /\ \A j \in 1 .. i - 1 : part[j] = q[j]
    BY <1>1
  <2>2. FocusIn(q, was, i)
    BY <1>1, <1>2 DEF Guarded
  <2> QED BY <2>1, <2>2, FocusSame
<1> QED BY <1>1, <1>2 DEF Guarded, part

(* The focus of a machine that has been given message m *)
FocusGiven(m, was) ==
  IF m.type = "ScreenEnter" THEN TRUE ELSE IF m.type = "ScreenLeave" THEN FALSE ELSE was

(* The first message arrives. *)
LEMMA GuardedTail ==
  ASSUME NEW q \in Seq(Messages), NEW was \in BOOLEAN, q # <<>>, Guarded(q, was)
  PROVE  /\ Head(q).type \in InputTypes => was
         /\ Guarded(Tail(q), FocusGiven(Head(q), was))
         /\ FocusBehind(Tail(q), FocusGiven(Head(q), was)) = FocusBehind(q, was)
<1> DEFINE n    == Len(q)
           rest == Tail(q)
           now  == FocusGiven(q[1], was)
<1>1. /\ n \in Nat /\ n >= 1 /\ Len(rest) = n - 1 /\ Head(q) = q[1]
      /\ \A i \in 1 .. n - 1 : rest[i] = q[i + 1]
  BY HeadTailProperties
<1> HIDE DEF rest, n
<1>2. q[1].type \in InputTypes => was
  <2>1. 1 \in Nat /\ 1 .. 1 - 1 = {} /\ 1 \in 1 .. n
    BY <1>1
  <2>2. FocusIn(q, was, 1) = was
    BY <2>1, FocusDecided
  <2> QED BY <2>1, <2>2 DEF Guarded, n
<1>3. ASSUME NEW i \in 1 .. n PROVE FocusIn(rest, now, i) = FocusIn(q, was, i + 1)
  <2>1. i \in Nat /\ i + 1 \in Nat /\ (i + 1) - 1 = i
    BY <1>1
  <2>2. ASSUME NEW j \in 2 .. i PROVE j - 1 \in 1 .. i - 1 /\ rest[j - 1] = q[j]
    <3>1. j - 1 \in 1 .. n - 1 /\ (j - 1) + 1 = j
      BY <1>1
    <3> QED BY <1>1, <3>1
  <2>3. ASSUME NEW j \in 1 .. i - 1 PROVE j + 1 \in 2 .. i /\ rest[j] = q[j + 1]
    BY <1>1
  <2>4. CASE \A j \in 2 .. i : q[j].type \notin FocusTypes
    <3>1. \A j \in 1 .. i - 1 : rest[j].type \notin FocusTypes
      BY <2>3, <2>4
    <3>2. FocusIn(rest, now, i) = now
      BY <2>1, <3>1, FocusDecided
    <3>3. CASE q[1].type \in FocusTypes
      <4>1. 1 \in 1 .. (i + 1) - 1 /\ \A k \in 1 + 1 .. (i + 1) - 1 : q[k].type \notin FocusTypes
        BY <2>1, <2>4
      <4>2. FocusIn(q, was, i + 1) = (q[1].type = "ScreenEnter")
        BY <2>1, <3>3, <4>1, FocusDecided
      <4> QED BY <3>2, <3>3, <4>2 DEF FocusGiven, FocusTypes
    <3>4. CASE q[1].type \notin FocusTypes
      <4>1. \A j \in 1 .. (i + 1) - 1 : j = 1 \/ j \in 2 .. i
        BY <2>1
      <4>2. FocusIn(q, was, i + 1) = was
        BY <2>1, <2>4, <3>4, <4>1, FocusDecided
      <4> QED BY <3>2, <3>4, <4>2 DEF FocusGiven, FocusTypes
    <3> QED BY <3>3, <3>4
  <2>5. ASSUME NEW j \in 1 .. i - 1, rest[j].type \in FocusTypes,
               \A k \in j + 1 .. i - 1 : rest[k].type \notin FocusTypes
        PROVE  FocusIn(rest, now, i) = FocusIn(q, was, i + 1)
    <3>1. FocusIn(rest, now, i) = (rest[j].type = "ScreenEnter")
      BY <2>1, <2>5, FocusDecided
    <3>2. j + 1 \in 1 .. (i + 1) - 1 /\ rest[j] = q[j + 1]
      BY <1>1, <2>1
    <3>3. ASSUME NEW k \in (j + 1) + 1 .. (i + 1) - 1 PROVE q[k].type \notin FocusTypes
      <4>1. k - 1 \in j + 1 .. i - 1 /\ rest[k - 1] = q[k]
        BY <2>1, <2>2
      <4> QED BY <2>5, <4>1
    <3>4. FocusIn(q, was, i + 1) = (q[j + 1].type = "ScreenEnter")
      BY <2>1, <2>5, <3>2, <3>3, FocusDecided
    <3> QED BY <3>1, <3>2, <3>4
  <2>6. \/ \A j \in 1 .. i - 1 : rest[j].type \notin FocusTypes
        \/ \E j \in 1 .. i - 1 :
             rest[j].type \in FocusTypes /\ \A k \in j + 1 .. i - 1 : rest[k].type \notin FocusTypes
    BY <2>1, FocusDecided
  <2>7. CASE \A j \in 1 .. i - 1 : rest[j].type \notin FocusTypes
    <3>1. \A j \in 2 .. i : q[j].type \notin FocusTypes
      BY <2>2, <2>7
    <3> QED BY <2>4, <3>1
  <2> QED BY <2>5, <2>6, <2>7
<1> HIDE DEF now
<1>4. ASSUME NEW i \in 1 .. n - 1, rest[i].type \in InputTypes PROVE FocusIn(rest, now, i)
  <2>1. i \in 1 .. n /\ i + 1 \in 1 .. n /\ q[i + 1].type \in InputTypes
    BY <1>1, <1>4
  <2>2. FocusIn(q, was, i + 1)
    BY <2>1 DEF Guarded, n
  <2> QED BY <1>3, <2>1, <2>2
<1>5. FocusBehind(rest, now) = FocusBehind(q, was)
  <2>1. Len(rest) + 1 = n /\ n \in 1 .. n
    BY <1>1
  <2> QED BY <1>3, <2>1 DEF FocusBehind, n
<1> QED BY <1>1, <1>2, <1>4, <1>5 DEF Guarded, rest, now

-----------------------------------------------------------------------------
(* The focus of the clients, until a connection ends *)

AllUp     == \A d \in Conns : conn[d] \in {"new", "up"}
Behind(c) == FocusBehind(outbound[c], entered[PeerOf[c]])

(* The first client has been told, or will be when it has read its stream, *)
(* that it has the focus. *)
Told == \/ pc \in {"recv", "forward"} /\ edge.route # None
        \/ pc = "engage"
        \/ pc \in {"choose", "leave"} /\ decision.kind = "LeaveRemote"

(* As long as all connections are up the first client stays the first, is  *)
(* the one that apply_decision has in hand, and is told when the route says *)
(* so; the others are sent nothing.                                        *)
Focused ==
  /\ handler # "unbind"
  /\ \A i \in 1 .. Len(peer_events) : peer_events[i].type # "Disconnected"
  /\ edge.auto_peer # None => peers # <<>>
  /\ pc # "recv" \/ edge.route # None => peers # <<>>
  /\ pc \notin {"recv", "forward", "choose"} => active_peer = FirstPeer
  /\ \A d \in Conns : IF d = FirstPeer THEN Behind(d) <=> Told
                      ELSE outbound[d] = <<>> /\ entered[PeerOf[d]] = FALSE

Streams == \A c \in Conns : OthersStay(c) => Guarded(outbound[c], entered[PeerOf[c]])

FocusInv == (AllUp => Focused) /\ Streams

(* A connection never comes back. *)
LEMMA ConnSteps ==
  ASSUME TypeOK, [Next]_vars
  PROVE  /\ AllUp' => AllUp
         /\ \A c \in Conns : OthersStay(c)' => OthersStay(c)
<1>1. conn \in [Conns -> {"new", "up", "down", "reported"}]
  BY DEF TypeOK
<1>2. CASE conn' = conn
  BY <1>2 DEF AllUp, OthersStay
<1>3. ASSUME NEW c \in Conns, Connect(c) \/ Break(c) \/ ReportBreak(c)
      PROVE  \A d \in Conns : conn'[d] \in {"new", "up"} => conn[d] \in {"new", "up"}
  BY <1>1, <1>3 DEF Connect, Break, ReportBreak
<1>4. ASSUME \A d \in Conns : conn'[d] \in {"new", "up"} => conn[d] \in {"new", "up"}
      PROVE  (AllUp' => AllUp) /\ \A c \in Conns : OthersStay(c)' => OthersStay(c)
  BY <1>4 DEF AllUp, OthersStay
<1>5. ASSUME NEW c \in Conns, Deliver(c) PROVE conn' = conn
  BY <1>5 DEF Deliver
<1>6. CASE User \/ DrainRaw \/ Task \/ Handler \/ UNCHANGED vars
  <2>1. conn' = conn
    BY <1>6 DEF User, Press, Release, MoveMouse, Hook, DrainRaw, Task, ReceiveEmergency, ReceiveInput,
                ChoosePeer, SendScreenEnter, SendScreenLeave, SendModifierSync, SendMessage, Engage,
                Disengage, Forward, Handler, PeerConnected, BindAutoPeer, PeerDisconnected,
                UnbindAutoPeer, HandlerFrame, netVars, vars
  <2> QED BY <1>2, <2>1
<1> QED BY <1>2, <1>3, <1>4, <1>5, <1>6 DEF Next, Network

(* Over the default layout the focus leaves only to the auto-peer. *)
LEMMA CrossesToPeer ==
  ASSUME DefaultLayout, NEW ed \in EdgeState, NEW e, Decision(ed, e).kind = "EnterRemote"
  PROVE  ed.auto_peer # None
<1>1. Crosses(ed, e)
  BY DEF Decision, Stay
<1>2. CrossedSide(e) \in Sides \cup {None}
  BY DEF CrossedSide, Sides
<1> QED BY <1>1, <1>2 DEF Crosses, Destination, DefaultLayout

(* A message behind the others, in an open stream *)
LEMMA StreamsAppend ==
  ASSUME TypeOK, Streams, NEW c \in Conns, NEW m \in Messages, UNCHANGED <<conn, entered>>,
         outbound' = [outbound EXCEPT ![c] = Append(@, m)],
         m.type \in InputTypes /\ OthersStay(c) => Behind(c)
  PROVE  /\ Streams'
         /\ OthersStay(c) => Behind(c)' = IF m.type \in FocusTypes THEN m.type = "ScreenEnter" ELSE Behind(c)
         /\ \A d \in Conns : d # c => outbound'[d] = outbound[d]
<1>0. outbound \in [Conns -> Seq(Messages)] /\ \A d \in Conns : entered[PeerOf[d]] \in BOOLEAN
  BY RoutingAssumption DEF TypeOK, Messages
<1>1. outbound'[c] = Append(outbound[c], m) /\ \A d \in Conns : d # c => outbound'[d] = outbound[d]
  BY <1>0
<1>2. \A d \in Conns : OthersStay(d)' <=> OthersStay(d)
  BY DEF OthersStay
<1>3. ASSUME OthersStay(c)
      PROVE  /\ Guarded(outbound'[c], entered[PeerOf[c]])
             /\ FocusBehind(outbound'[c], entered[PeerOf[c]])
                  = IF m.type \in FocusTypes THEN m.type = "ScreenEnter"
                    ELSE FocusBehind(outbound[c], entered[PeerOf[c]])
  <2>1. Guarded(outbound[c], entered[PeerOf[c]]) /\ outbound[c] \in Seq(Messages) /\ entered[PeerOf[c]] \in BOOLEAN
    BY <1>0, <1>3 DEF Streams
  <2>2. m.type \in InputTypes => FocusBehind(outbound[c], entered[PeerOf[c]])
    BY <1>3 DEF Behind
  <2> QED BY <1>1, <2>1, <2>2, GuardedAppend
<1>4. Streams'
  BY <1>1, <1>2, <1>3 DEF Streams
<1> QED BY <1>1, <1>3, <1>4 DEF Behind

(* What the steps of drain_capture that send nothing keep. *)
LEMMA FocusDecides ==
  ASSUME DefaultLayout, TypeOK, Handing, Focused,
         ReceiveEmergency \/ ReceiveInput \/ ChoosePeer \/ Engage \/ Disengage
  PROVE  Focused'
<1> USE DEF tableVars, netVars, clientVars
<1>0. /\ UNCHANGED <<handler, peer_events, peers, outbound, entered>>
      /\ pc \in {"recv", "choose", "engage", "disengage"} /\ edge \in EdgeState /\ peers \in Seq(Conns)
  BY DEF TypeOK, ReceiveEmergency, ReceiveInput, ChoosePeer, Engage, Disengage
<1>1. /\ FirstPeer' = FirstPeer /\ \A d \in Conns : Behind(d)' = Behind(d)
  BY <1>0 DEF FirstPeer, Behind
<1>2. ASSUME Told' <=> Told, edge'.auto_peer = edge.auto_peer,
             pc' # "recv" \/ edge'.route # None => peers # <<>>,
             pc' \notin {"recv", "forward", "choose"} => active_peer' = FirstPeer
      PROVE  Focused'
  BY <1>0, <1>1, <1>2 DEF Focused
<1>3. CASE ReceiveEmergency
  <2>1. /\ pc = "recv" /\ edge'.route = None /\ edge'.auto_peer = edge.auto_peer
        /\ \/ edge.route = None /\ pc' = "recv"
           \/ edge.route # None /\ pc' = "choose" /\ decision'.kind = "LeaveRemote"
    BY <1>0, <1>3 DEF ReceiveEmergency, ForcedLocal, ForceLocalDecision, LeaveRemote, Stay, EdgeState
  <2>2. Told' <=> Told
    BY <2>1 DEF Told
  <2> QED BY <1>2, <2>1, <2>2 DEF Focused
<1>4. CASE ReceiveInput
  <2> DEFINE e == Head(sink)
  <2>1. /\ pc = "recv" /\ edge' = Observed(edge, e) /\ decision' = Decision(edge, e)
        /\ pc' = IF ForwardsRemote(edge, e) THEN IF decision' = Stay THEN "forward" ELSE "choose" ELSE "recv"
    BY <1>4 DEF ReceiveInput
  <2>2. edge'.auto_peer = edge.auto_peer
    BY <1>0, <2>1 DEF Observed, Noted, EdgeState
  <2>3. (pc' # "recv") <=> edge'.route # None
    BY <2>1 DEF ForwardsRemote
  <2>4. CASE decision'.kind = "EnterRemote"
    <3>1. edge.route = None /\ edge'.route # None /\ decision' # Stay
      BY <1>0, <2>1, <2>4, ObservedRoute
    <3>2. pc' = "choose"
      BY <2>1, <3>1 DEF ForwardsRemote
    <3>3. peers # <<>>
      BY <1>0, <2>1, <2>4, CrossesToPeer DEF Focused
    <3>4. Told' <=> Told
      BY <2>1, <2>4, <3>1, <3>2 DEF Told
    <3> QED BY <1>2, <2>2, <3>2, <3>3, <3>4
  <2>5. CASE decision'.kind = "Stay"
    <3>1. decision' = Stay /\ edge'.route = edge.route
      BY <1>0, <2>1, <2>5, ObservedRoute
    <3>2. pc' \in {"recv", "forward"}
      BY <2>1, <3>1
    <3>3. Told' <=> Told
      BY <2>1, <3>1, <3>2 DEF Told
    <3>4. pc' # "recv" \/ edge'.route # None => peers # <<>>
      BY <2>1, <2>3, <3>1 DEF Focused
    <3> QED BY <1>2, <2>2, <3>2, <3>3, <3>4
  <2> QED BY <1>0, <2>1, <2>4, <2>5, ObservedRoute
<1>5. CASE ChoosePeer
  <2>1. /\ pc = "choose" /\ active_peer' = FirstPeer /\ UNCHANGED <<edge, decision>>
        /\ pc' = IF decision.kind = "EnterRemote"
                 THEN IF FirstPeer = None THEN "engage" ELSE "enter"
                 ELSE IF FirstPeer = None THEN "disengage" ELSE "leave"
    BY <1>5 DEF ChoosePeer
  <2>2. peers # <<>>
    BY <2>1 DEF Focused
  <2>3. FirstPeer # None
    <3>1. Head(peers) \in Conns
      BY <1>0, <2>2, HeadTailProperties
    <3> QED BY <2>2, <3>1, RoutingAssumption DEF FirstPeer
  <2>4. \/ decision.kind = "EnterRemote" /\ pc' = "enter"
        \/ decision.kind = "LeaveRemote" /\ pc' = "leave"
    BY <2>1, <2>3 DEF Handing, Entering, Leaving
  <2>5. Told' <=> Told
    BY <2>1, <2>4 DEF Told
  <2> QED BY <1>2, <2>1, <2>2, <2>5
<1>6. CASE Engage
  <2>1. pc = "engage" /\ pc' = "forward" /\ UNCHANGED edge /\ edge.route # None
    BY <1>6 DEF Engage, Handing, Entering
  <2>2. Told' <=> Told
    BY <2>1 DEF Told
  <2> QED BY <1>2, <2>1, <2>2 DEF Focused
<1>7. CASE Disengage
  <2>1. pc = "disengage" /\ pc' = "recv" /\ UNCHANGED edge /\ edge.route = None
    BY <1>7 DEF Disengage, Idle, Handing, Leaving
  <2>2. Told' <=> Told
    BY <2>1 DEF Told
  <2> QED BY <1>2, <2>1, <2>2 DEF Focused
<1> QED BY <1>3, <1>4, <1>5, <1>6, <1>7

(* Sending a focus message to the first peer *)
LEMMA FocusSends ==
  ASSUME TypeOK, Handing, FocusInv,
         SendScreenEnter \/ SendScreenLeave \/ SendModifierSync
  PROVE  FocusInv'
<1> USE DEF tableVars, netVars, clientVars
<1>1. PICK m \in Messages :
        /\ m.type \in {"ScreenEnter", "ScreenLeave", "ModifierSync"}
        /\ outbound' = Sent(active_peer, m)
        /\ \/ pc = "enter" /\ pc' = "engage" /\ m.type = "ScreenEnter"
           \/ pc = "leave" /\ pc' = "sync" /\ m.type = "ScreenLeave"
           \/ pc = "sync" /\ pc' = "disengage" /\ m.type = "ModifierSync"
  <2>1. CASE SendScreenEnter
    <3>1. decision.modifiers \subseteq Modifiers
      BY <2>1 DEF SendScreenEnter, SendMessage, TypeOK, Handing, Entering
    <3>2. [type |-> "ScreenEnter", modifiers |-> decision.modifiers] \in Messages
      BY <3>1 DEF FocusMessage, Messages
    <3> QED BY <2>1, <3>2 DEF SendScreenEnter, SendMessage
  <2>2. CASE SendScreenLeave
    <3>1. [type |-> "ScreenLeave"] \in Messages
      BY DEF FocusMessage, Messages
    <3> QED BY <2>2, <3>1 DEF SendScreenLeave, SendMessage
  <2>3. CASE SendModifierSync
    <3>1. [type |-> "ModifierSync", modifiers |-> {}] \in Messages
      BY DEF FocusMessage, Messages
    <3> QED BY <2>3, <3>1 DEF SendModifierSync, SendMessage
  <2> QED BY <2>1, <2>2, <2>3
<1>2. UNCHANGED <<conn, entered, peers, handler, peer_events, edge, decision, active_peer>>
  BY DEF SendScreenEnter, SendScreenLeave, SendModifierSync, SendMessage
<1>3. active_peer \in Conns
  BY <1>1 DEF TypeOK, Handing
<1>4. m.type \notin InputTypes
  BY <1>1 DEF InputTypes
<1>5. CASE Closed(active_peer)
  <2>1. ~AllUp' /\ UNCHANGED outbound
    BY <1>1, <1>2, <1>3, <1>5 DEF Sent, Closed, AllUp
  <2> QED BY <1>2, <2>1 DEF FocusInv, Streams, OthersStay
<1>6. CASE ~Closed(active_peer)
  <2>1. outbound' = [outbound EXCEPT ![active_peer] = Append(@, m)]
    BY <1>1, <1>6 DEF Sent
  <2> PICK c \in Conns : c = active_peer
    BY <1>3
  <2>2. /\ Streams'
        /\ OthersStay(c) => Behind(c)' = IF m.type \in FocusTypes THEN m.type = "ScreenEnter" ELSE Behind(c)
        /\ \A d \in Conns : d # c => outbound'[d] = outbound[d]
    BY <1>2, <1>4, <2>1, StreamsAppend DEF FocusInv
  <2>3. ASSUME AllUp' PROVE Focused'
    <3>1. Focused /\ OthersStay(c)
      BY <1>2, <2>3 DEF FocusInv, AllUp, OthersStay
    <3>2. c = FirstPeer /\ FirstPeer' = FirstPeer /\ peers # <<>>
      BY <1>1, <1>2, <3>1 DEF Focused, FirstPeer
    <3>3. (Told' <=> m.type = "ScreenEnter") /\ (m.type = "ModifierSync" => ~Told)
      BY <1>1 DEF Told
    <3>4. Behind(c)' <=> Told'
      <4>1. CASE m.type = "ModifierSync"
        BY <2>2, <3>1, <3>2, <3>3, <4>1 DEF Focused, FocusTypes
      <4>2. CASE m.type # "ModifierSync"
        BY <1>1, <2>2, <3>1, <3>3, <4>2 DEF FocusTypes
      <4> QED BY <4>1, <4>2
    <3>5. ASSUME NEW d \in Conns, d # c PROVE outbound'[d] = <<>> /\ entered'[PeerOf[d]] = FALSE
      BY <1>2, <2>2, <3>1, <3>2, <3>5 DEF Focused
    <3> QED BY <1>2, <3>1, <3>2, <3>4, <3>5 DEF Focused
  <2> QED BY <2>2, <2>3 DEF FocusInv
<1> QED BY <1>5, <1>6

(* Forwarding input to the first peer *)
LEMMA FocusForwards ==
  ASSUME TypeOK, Handing, FocusInv, Forward
  PROVE  FocusInv'
<1> USE DEF tableVars, netVars, clientVars
<1>1. /\ UNCHANGED <<conn, entered, peers, handler, peer_events, edge>> /\ pc = "forward" /\ pc' = "recv"
      /\ edge.route # None
  BY DEF Forward, Idle, Handing
<1>2. FirstPeer' = FirstPeer /\ Told /\ Told'
  BY <1>1 DEF FirstPeer, Told
<1>3. CASE UNCHANGED outbound
  <2>1. Streams' /\ (AllUp' => AllUp)
    BY <1>1, <1>3 DEF FocusInv, Streams, OthersStay, AllUp
  <2>2. Focused => Focused'
    BY <1>1, <1>2, <1>3 DEF Focused, Behind
  <2> QED BY <2>1, <2>2 DEF FocusInv
<1>4. ASSUME NEW c \in Conns, c = FirstPeer, ~Closed(c), NEW m \in Messages, m.type \in InputTypes,
             outbound' = [outbound EXCEPT ![c] = Append(@, m)]
      PROVE  FocusInv'
  <2>1. ASSUME OthersStay(c) PROVE AllUp /\ Behind(c)
    <3>1. AllUp
      BY <1>4, <2>1 DEF OthersStay, Closed, AllUp, TypeOK
    <3> QED BY <1>2, <1>4, <3>1 DEF FocusInv, Focused
  <2>2. /\ Streams'
        /\ OthersStay(c) => Behind(c)' = IF m.type \in FocusTypes THEN m.type = "ScreenEnter" ELSE Behind(c)
        /\ \A d \in Conns : d # c => outbound'[d] = outbound[d]
    BY <1>1, <1>4, <2>1, StreamsAppend DEF FocusInv
  <2>3. ASSUME AllUp' PROVE Focused'
    <3>1. Focused /\ OthersStay(c)
      BY <1>1, <2>3 DEF FocusInv, AllUp, OthersStay
    <3>2. Behind(c)'
      BY <1>4, <2>1, <2>2, <3>1 DEF InputTypes, FocusTypes
    <3>3. ASSUME NEW d \in Conns, d # c PROVE outbound'[d] = <<>> /\ entered'[PeerOf[d]] = FALSE
      BY <1>1, <1>4, <2>2, <3>1, <3>3 DEF Focused
    <3> QED BY <1>1, <1>2, <1>4, <3>1, <3>2, <3>3 DEF Focused
  <2> QED BY <2>2, <2>3 DEF FocusInv
<1>5. CASE FirstPeer = None
  BY <1>3, <1>5 DEF Forward
<1>6. ASSUME NEW m \in Messages, m.type \in InputTypes, FirstPeer # None, outbound' = TrySent(FirstPeer, m)
      PROVE  FocusInv'
  <2>1. FirstPeer \in Conns
    BY <1>6, FirstPeerType DEF TypeOK
  <2>2. CASE Closed(FirstPeer) \/ ~(Len(outbound[FirstPeer]) < OutCap)
    <3>1. outbound' = outbound
      BY <1>6, <2>1, <2>2 DEF TrySent, TrySend, TypeOK
    <3> QED BY <1>3, <3>1
  <2>3. CASE ~Closed(FirstPeer) /\ Len(outbound[FirstPeer]) < OutCap
    <3>1. outbound' = [outbound EXCEPT ![FirstPeer] = Append(@, m)]
      BY <1>6, <2>1, <2>3 DEF TrySent, TrySend
    <3> QED BY <1>4, <1>6, <2>1, <2>3, <3>1
  <2> QED BY <2>2, <2>3
<1>7. CASE FirstPeer # None /\ event.type = "Move"
  <2>1. event.x \in Int /\ event.y \in Int
    BY <1>1, <1>7 DEF TypeOK, InputEvent
  <2>2. Delta.dx \in Int /\ Delta.dy \in Int
    BY <2>1 DEF Delta, TypeOK
  <2> DEFINE m == [type |-> "MouseMoveRelative", dx |-> Delta.dx, dy |-> Delta.dy]
  <2>3. m \in Messages /\ m.type \in InputTypes
    BY <2>2 DEF Messages, InputMessage, InputTypes
  <2>4. outbound' = outbound \/ outbound' = TrySent(FirstPeer, m)
    BY <1>7 DEF Forward
  <2> HIDE DEF m
  <2> QED BY <1>3, <1>6, <1>7, <2>3, <2>4
<1>8. CASE FirstPeer # None /\ event.type # "Move"
  <2>1. event \in InputEvent
    BY <1>1 DEF TypeOK
  <2>2. KeyMessage(event) \in Messages /\ KeyMessage(event).type \in InputTypes
    BY <1>8, <2>1 DEF InputEvent, KeyMessage, Messages, InputMessage, Inputs, InputTypes
  <2>3. outbound' = TrySent(FirstPeer, KeyMessage(event))
    BY <1>8 DEF Forward
  <2> QED BY <1>6, <1>8, <2>2, <2>3
<1> QED BY <1>5, <1>7, <1>8

(* The peer-event task: a client is appended behind the first, which stays. *)
LEMMA FocusTable ==
  ASSUME TypeOK, Binding, FocusInv, Handler
  PROVE  FocusInv'
<1> USE DEF taskVars, netVars, clientVars
<1>1. UNCHANGED <<conn, outbound, entered, pc, decision, active_peer>>
  BY DEF Handler, PeerConnected, BindAutoPeer, PeerDisconnected, UnbindAutoPeer, HandlerFrame
<1>2. Streams' /\ (AllUp' <=> AllUp) /\ \A d \in Conns : Behind(d)' = Behind(d)
  BY <1>1 DEF FocusInv, Streams, OthersStay, AllUp, Behind
<1> SUFFICES ASSUME Focused PROVE Focused'
  BY <1>2 DEF FocusInv
<1>3. peers \in Seq(Conns) /\ peer_events \in Seq(ServerEvent) /\ edge \in EdgeState
  BY DEF TypeOK
<1>4. CASE BindAutoPeer
  <2>1. /\ UNCHANGED <<peers, peer_events>> /\ handler = "bind" /\ handler' = "recv"
        /\ edge'.route = edge.route
    BY <1>3, <1>4 DEF BindAutoPeer, WithAutoPeer, EdgeState
  <2>2. peers # <<>> /\ FirstPeer' = FirstPeer /\ (Told' <=> Told)
    BY <1>1, <2>1 DEF Binding, FirstPeer, Told
  <2> QED BY <1>1, <1>2, <2>1, <2>2 DEF Focused
<1>5. CASE PeerConnected
  <2> DEFINE x == Head(peer_events).conn
  <2>1. /\ peer_events # <<>> /\ peers' = Append(peers, x) /\ peer_events' = Tail(peer_events)
        /\ handler' = "bind" /\ UNCHANGED edge
    BY <1>5 DEF PeerConnected
  <2>2. x \in Conns
    <3>1. Head(peer_events) \in ServerEvent
      BY <1>3, <2>1, HeadTailProperties
    <3> QED BY <3>1 DEF ServerEvent
  <2> HIDE DEF x
  <2>3. peers' # <<>> /\ (peers # <<>> => FirstPeer' = FirstPeer) /\ (peers = <<>> => FirstPeer' = x)
    <3>1. Len(peers') = Len(peers) + 1 /\ peers' \in Seq(Conns) /\ Len(peers) \in Nat
      BY <1>3, <2>1, <2>2
    <3>2. peers' # <<>> /\ Head(peers') = peers'[1]
      BY <3>1
    <3>3. CASE peers # <<>>
      <4>1. 1 \in 1 .. Len(peers) /\ Head(peers) = peers[1]
        BY <1>3, <3>3, HeadTailProperties
      <4>2. peers'[1] = peers[1]
        BY <1>3, <2>1, <2>2, <4>1, AppendProperties
      <4> QED BY <3>2, <3>3, <4>1, <4>2 DEF FirstPeer
    <3>4. CASE peers = <<>>
      <4>1. peers'[1] = x
        BY <1>3, <2>1, <2>2, <3>4
      <4> QED BY <3>2, <3>4, <4>1 DEF FirstPeer
    <3> QED BY <3>2, <3>3, <3>4
  <2>4. \A i \in 1 .. Len(peer_events') : peer_events'[i].type # "Disconnected"
    <3>1. /\ Len(peer_events) \in Nat /\ Len(peer_events') = Len(peer_events) - 1
          /\ \A i \in 1 .. Len(peer_events) - 1 : peer_events'[i] = peer_events[i + 1]
      BY <1>3, <2>1, HeadTailProperties
    <3> SUFFICES ASSUME NEW i \in 1 .. Len(peer_events) - 1 PROVE peer_events'[i].type # "Disconnected"
      BY <3>1
    <3>2. i + 1 \in 1 .. Len(peer_events)
      BY <3>1
    <3> QED BY <3>1, <3>2 DEF Focused
  <2>5. Told' <=> Told
    BY <1>1, <2>1 DEF Told
  <2>6. CASE peers # <<>>
    BY <1>1, <1>2, <2>1, <2>3, <2>4, <2>5, <2>6 DEF Focused
  <2>7. CASE peers = <<>>
    <3>1. pc = "recv" /\ edge.route = None /\ ~Told
      BY <2>7 DEF Focused, Told
    <3>2. FirstPeer = None
      BY <2>7 DEF FirstPeer
    <3>3. \A d \in Conns : outbound[d] = <<>> /\ entered[PeerOf[d]] = FALSE
      BY <3>2, RoutingAssumption DEF Focused
    <3>4. ~Behind(x)
      <4>1. outbound[x] = <<>> /\ entered[PeerOf[x]] = FALSE
        BY <2>2, <3>3
      <4>2. FocusBehind(<<>>, FALSE) = FALSE
        BY NoStreamNoFocus
      <4> QED BY <4>1, <4>2 DEF Behind
    <3> QED BY <1>1, <1>2, <2>1, <2>2, <2>3, <2>4, <2>5, <2>7, <3>1, <3>3, <3>4 DEF Focused
  <2> QED BY <2>6, <2>7
<1>6. CASE PeerDisconnected
  <2>1. Len(peer_events) \in Nat /\ 1 \in 1 .. Len(peer_events) /\ peer_events[1].type = "Disconnected"
    BY <1>3, <1>6, HeadTailProperties DEF PeerDisconnected
  <2> QED BY <2>1 DEF Focused
<1>7. CASE UnbindAutoPeer
  BY <1>7 DEF UnbindAutoPeer, Focused
<1> QED BY <1>4, <1>5, <1>6, <1>7 DEF Handler

(* The connections: while all are up, only the first client has anything   *)
(* to read; of one that breaks a prefix arrives.                           *)
LEMMA FocusNet ==
  ASSUME EachMachineOnce, TypeOK, FocusInv,
         NEW c \in Conns, Connect(c) \/ Break(c) \/ ReportBreak(c) \/ Deliver(c)
  PROVE  FocusInv'
<1> USE RoutingAssumption
<1> USE DEF taskVars, tableVars, netVars, clientVars
<1>0. /\ conn \in [Conns -> {"new", "up", "down", "reported"}] /\ peer_events \in Seq(ServerEvent)
      /\ outbound \in [Conns -> Seq(Messages)] /\ entered \in [Peers -> BOOLEAN]
      /\ PeerOf \in [Conns -> Peers]
  BY DEF TypeOK, Messages
<1>1. /\ UNCHANGED <<pc, event, decision, active_peer, edge, peers, handler>>
      /\ FirstPeer' = FirstPeer /\ (Told' <=> Told)
  BY DEF Connect, Break, ReportBreak, Deliver, NetFrame, FirstPeer, Told
<1>2. CASE Connect(c)
  <2> DEFINE e == [type |-> "Connected", conn |-> c]
  <2>1. /\ conn[c] = "new" /\ conn' = [conn EXCEPT ![c] = "up"] /\ UNCHANGED <<outbound, entered>>
        /\ peer_events' = Append(peer_events, e)
    BY <1>2 DEF Connect, NetFrame
  <2>2. (AllUp' => AllUp) /\ (\A d \in Conns : OthersStay(d)' => OthersStay(d))
    BY <1>0, <2>1 DEF AllUp, OthersStay
  <2>3. Streams' /\ \A d \in Conns : Behind(d)' = Behind(d)
    BY <2>1, <2>2 DEF FocusInv, Streams, Behind
  <2>4. e \in ServerEvent /\ e.type # "Disconnected"
    BY DEF ServerEvent
  <2> HIDE DEF e
  <2>5. ASSUME Focused PROVE \A i \in 1 .. Len(peer_events') : peer_events'[i].type # "Disconnected"
    <3>1. /\ Len(peer_events) \in Nat /\ Len(peer_events') = Len(peer_events) + 1
          /\ peer_events'[Len(peer_events) + 1] = e
          /\ \A i \in 1 .. Len(peer_events) : peer_events'[i] = peer_events[i]
      BY <1>0, <2>1, <2>4, AppendProperties
    <3>2. \A i \in 1 .. Len(peer_events') : i \in 1 .. Len(peer_events) \/ i = Len(peer_events) + 1
      BY <3>1
    <3> QED BY <2>4, <2>5, <3>1, <3>2 DEF Focused
  <2>6. Focused => Focused'
    BY <1>1, <2>1, <2>3, <2>5 DEF Focused
  <2> QED BY <2>2, <2>3, <2>6 DEF FocusInv
<1>3. CASE Break(c)
  <2>1. /\ conn' = [conn EXCEPT ![c] = "down"] /\ UNCHANGED entered
        /\ \E n \in 0 .. Len(outbound[c]) : outbound' = [outbound EXCEPT ![c] = SubSeq(outbound[c], 1, n)]
    BY <1>3 DEF Break, NetFrame
  <2> PICK n \in 0 .. Len(outbound[c]) : outbound' = [outbound EXCEPT ![c] = SubSeq(outbound[c], 1, n)]
    BY <2>1
  <2>2. ~AllUp' /\ (OthersStay(c)' => OthersStay(c)) /\ \A d \in Conns : d # c => ~OthersStay(d)'
    BY <1>0, <2>1 DEF AllUp, OthersStay
  <2>3. OthersStay(c) => Guarded(outbound'[c], entered[PeerOf[c]])
    <3>1. outbound[c] \in Seq(Messages) /\ outbound'[c] = SubSeq(outbound[c], 1, n)
      BY <1>0
    <3> QED BY <3>1, GuardedPrefix DEF FocusInv, Streams
  <2> QED BY <2>1, <2>2, <2>3 DEF FocusInv, Streams
<1>4. CASE ReportBreak(c)
  <2>1. conn' = [conn EXCEPT ![c] = "reported"] /\ UNCHANGED <<outbound, entered>>
    BY <1>4 DEF ReportBreak, NetFrame
  <2>2. ~AllUp' /\ (OthersStay(c)' => OthersStay(c)) /\ \A d \in Conns : d # c => ~OthersStay(d)'
    BY <1>0, <2>1 DEF AllUp, OthersStay
  <2> QED BY <2>1, <2>2 DEF FocusInv, Streams
<1>5. CASE Deliver(c)
  <2> DEFINE p == PeerOf[c]
             m == Head(outbound[c])
  <2>1. /\ outbound[c] # <<>> /\ outbound' = [outbound EXCEPT ![c] = Tail(@)]
        /\ entered' = [entered EXCEPT ![p] = FocusGiven(m, @)] /\ UNCHANGED <<conn, peer_events>>
    BY <1>5 DEF Deliver, FocusGiven
  <2>2. outbound[c] \in Seq(Messages) /\ entered[p] \in BOOLEAN /\ p \in Peers
    BY <1>0
  <2>3. outbound'[c] = Tail(outbound[c]) /\ entered'[p] = FocusGiven(m, entered[p])
    BY <1>0, <2>1, <2>2
  <2>4. \A d \in Conns : d # c => outbound'[d] = outbound[d] /\ entered'[PeerOf[d]] = entered[PeerOf[d]]
    BY <1>0, <2>1 DEF EachMachineOnce
  <2>5. (AllUp' <=> AllUp) /\ \A d \in Conns : OthersStay(d)' <=> OthersStay(d)
    BY <2>1 DEF AllUp, OthersStay
  <2>6. OthersStay(c) => Guarded(outbound'[c], entered'[p]) /\ Behind(c)' = Behind(c)
    <3> HIDE DEF m, p
    <3>1. OthersStay(c) => Guarded(outbound[c], entered[p])
      BY DEF FocusInv, Streams, p
    <3>2. OthersStay(c) => /\ Guarded(Tail(outbound[c]), FocusGiven(Head(outbound[c]), entered[p]))
                           /\ FocusBehind(Tail(outbound[c]), FocusGiven(Head(outbound[c]), entered[p]))
                                = FocusBehind(outbound[c], entered[p])
      BY <2>1, <2>2, <3>1, GuardedTail
    <3> QED BY <2>3, <3>2 DEF Behind, m, p
  <2>7. Streams'
    BY <2>4, <2>5, <2>6 DEF FocusInv, Streams
  <2>8. ASSUME AllUp PROVE Focused'
    <3>1. Focused /\ OthersStay(c)
      BY <2>8 DEF FocusInv, AllUp, OthersStay
    <3>2. c = FirstPeer
      BY <2>1, <3>1 DEF Focused
    <3>3. Behind(c)' <=> Told
      BY <2>6, <3>1, <3>2 DEF Focused
    <3>4. ASSUME NEW d \in Conns, d # c PROVE outbound'[d] = <<>> /\ entered'[PeerOf[d]] = FALSE
      BY <2>4, <3>1, <3>2, <3>4 DEF Focused
    <3> QED BY <1>1, <2>1, <3>1, <3>2, <3>3, <3>4 DEF Focused
  <2> QED BY <2>5, <2>7, <2>8 DEF FocusInv
<1> QED BY <1>2, <1>3, <1>4, <1>5

LEMMA FocusStep ==
  ASSUME DefaultLayout, EachMachineOnce, TypeOK, Handing, Binding, FocusInv, [Next]_vars
  PROVE  FocusInv'
<1> USE DEF taskVars, tableVars, netVars, clientVars
<1>1. CASE SendScreenEnter \/ SendScreenLeave \/ SendModifierSync
  BY <1>1, FocusSends
<1>2. CASE Forward
  BY <1>2, FocusForwards
<1>3. CASE ReceiveEmergency \/ ReceiveInput \/ ChoosePeer \/ Engage \/ Disengage
  <2>1. UNCHANGED <<conn, outbound, entered>>
    BY <1>3 DEF ReceiveEmergency, ReceiveInput, ChoosePeer, Engage, Disengage
  <2>2. Streams' /\ (AllUp' <=> AllUp)
    BY <2>1 DEF FocusInv, Streams, OthersStay, AllUp
  <2> QED BY <1>3, <2>2, FocusDecides DEF FocusInv
<1>4. CASE Handler
  BY <1>4, FocusTable
<1>5. CASE Network
  BY <1>5, FocusNet DEF Network
<1>6. CASE User \/ DrainRaw \/ UNCHANGED vars
  <2>1. UNCHANGED <<conn, outbound, entered, peers, handler, peer_events, edge, pc, decision, active_peer>>
    BY <1>6 DEF User, Press, Release, MoveMouse, Hook, DrainRaw, vars
  <2>2. Streams' /\ (AllUp' <=> AllUp) /\ (Told' <=> Told) /\ FirstPeer' = FirstPeer
    BY <2>1 DEF FocusInv, Streams, OthersStay, AllUp, Told, FirstPeer
  <2>3. Focused => Focused'
    BY <2>1, <2>2 DEF Focused, Behind
  <2> QED BY <2>2, <2>3 DEF FocusInv
<1> QED BY <1>1, <1>2, <1>3, <1>4, <1>5, <1>6 DEF Next, Task

LEMMA FocusAlways ==
  ASSUME DefaultLayout, EachMachineOnce
  PROVE  Spec => []FocusInv
<1>1. Init => FocusInv
  <2> SUFFICES ASSUME Init PROVE FocusInv
    OBVIOUS
  <2>1. \A c \in Conns : outbound[c] = <<>> /\ entered[PeerOf[c]] = FALSE
    BY RoutingAssumption DEF Init
  <2>2. \A c \in Conns : Guarded(outbound[c], entered[PeerOf[c]])
    BY <2>1 DEF Guarded
  <2>3. FirstPeer \notin Conns
    BY RoutingAssumption DEF Init, FirstPeer
  <2>4. Focused
    <3>1. /\ handler = "recv" /\ pc = "recv" /\ peer_events = <<>>
          /\ edge.auto_peer = None /\ edge.route = None
      BY DEF Init, NewEdge
    <3>2. 1 .. Len(peer_events) = {}
      BY <3>1
    <3> QED BY <2>1, <2>3, <3>1, <3>2 DEF Focused
  <2> QED BY <2>2, <2>4 DEF FocusInv, Streams
<1>2. TypeOK /\ Handing /\ Binding /\ FocusInv /\ [Next]_vars => FocusInv'
  BY FocusStep
<1>3. Spec => [](TypeOK /\ Handing)
  BY IInvAlways DEF IInv
<1> QED
  BY <1>1, <1>2, <1>3, BindingAlways, PTL DEF Spec

(* No client gets input before it has been told that it has the focus, or  *)
(* after it has been told that it lost it, whatever the order of keys,     *)
(* hotkeys, sends and disconnections (session.rs:175-260), if the layout   *)
(* is the default one and each machine connects once.                      *)
THEOREM NoInputOutsideFocusAlways ==
  ASSUME DefaultLayout, EachMachineOnce
  PROVE  Spec => []NoInputOutsideFocus
<1>1. Streams => NoInputOutsideFocus
  <2>1. \A c \in Conns : \A i : FocusAt(c, i) = FocusIn(outbound[c], entered[PeerOf[c]], i)
    BY DEF FocusAt, FocusIn, FocusTypes
  <2> QED BY <2>1 DEF Streams, Guarded, InputTypes, NoInputOutsideFocus
<1>2. FocusInv => NoInputOutsideFocus
  BY <1>1 DEF FocusInv
<1> QED
  BY <1>2, FocusAlways, PTL

-----------------------------------------------------------------------------
(* The modifiers of a client that has been left *)

(* The only ModifierSync sent is the one behind ScreenLeave; it is empty.  *)
Synced(q) == \A i \in 1 .. Len(q) : q[i].type = "ModifierSync" => q[i].modifiers = {}

AllSynced == \A c \in Conns : Synced(outbound[c])

LEMMA SyncedSends ==
  ASSUME TypeOK, AllSynced, NEW c \in Conns, NEW m \in Messages,
         m.type = "ModifierSync" => m.modifiers = {},
         outbound' = Sent(c, m) \/ outbound' = TrySent(c, m)
  PROVE  AllSynced'
<1>1. outbound \in [Conns -> Seq(Messages)]
  BY DEF TypeOK, Messages
<1>2. outbound' = outbound \/ outbound' = [outbound EXCEPT ![c] = Append(@, m)]
  BY <1>1 DEF Sent, TrySent, TrySend
<1>3. Synced(Append(outbound[c], m))
  <2> DEFINE q == outbound[c]
  <2>1. q \in Seq(Messages) /\ Synced(q)
    BY <1>1 DEF AllSynced
  <2> HIDE DEF q
  <2>2. /\ Len(q) \in Nat /\ Len(Append(q, m)) = Len(q) + 1 /\ Append(q, m)[Len(q) + 1] = m
        /\ \A i \in 1 .. Len(q) : Append(q, m)[i] = q[i]
    BY <2>1, AppendProperties
  <2>3. \A i \in 1 .. Len(Append(q, m)) : i \in 1 .. Len(q) \/ i = Len(q) + 1
    BY <2>2
  <2>4. Synced(Append(q, m))
    BY <2>1, <2>2, <2>3 DEF Synced
  <2> QED BY <2>4 DEF q
<1> QED BY <1>1, <1>2, <1>3 DEF AllSynced

LEMMA SyncedStep ==
  ASSUME TypeOK, Handing, AllSynced, [Next]_vars
  PROVE  AllSynced'
<1> USE DEF netVars
<1>0. outbound \in [Conns -> Seq(Messages)]
  BY DEF TypeOK, Messages
<1>1. CASE UNCHANGED outbound
  BY <1>1 DEF AllSynced
<1>2. CASE SendScreenEnter \/ SendScreenLeave \/ SendModifierSync
  <2>1. active_peer \in Conns
    BY <1>2 DEF TypeOK, Handing, SendScreenEnter, SendScreenLeave, SendModifierSync, SendMessage
  <2>2. CASE SendScreenEnter
    <3> DEFINE m == [type |-> "ScreenEnter", modifiers |-> decision.modifiers]
    <3>1. decision.modifiers \subseteq Modifiers
      BY <2>2 DEF SendScreenEnter, SendMessage, TypeOK, Handing, Entering
    <3>2. m \in Messages /\ m.type # "ModifierSync" /\ outbound' = Sent(active_peer, m)
      BY <2>2, <3>1 DEF FocusMessage, Messages, SendScreenEnter, SendMessage
    <3> HIDE DEF m
    <3> QED BY <2>1, <3>2, SyncedSends
  <2>3. CASE SendScreenLeave
    <3> DEFINE m == [type |-> "ScreenLeave"]
    <3>1. m \in Messages /\ m.type # "ModifierSync" /\ outbound' = Sent(active_peer, m)
      BY <2>3 DEF FocusMessage, Messages, SendScreenLeave, SendMessage
    <3> HIDE DEF m
    <3> QED BY <2>1, <3>1, SyncedSends
  <2>4. CASE SendModifierSync
    <3> DEFINE m == [type |-> "ModifierSync", modifiers |-> {}]
    <3>1. m \in Messages /\ m.modifiers = {} /\ outbound' = Sent(active_peer, m)
      BY <2>4 DEF FocusMessage, Messages, SendModifierSync, SendMessage
    <3> HIDE DEF m
    <3> QED BY <2>1, <3>1, SyncedSends
  <2> QED BY <1>2, <2>2, <2>3, <2>4
<1>3. CASE Forward
  <2>1. event \in InputEvent
    BY <1>3 DEF Forward, TypeOK
  <2>2. FirstPeer = None \/ FirstPeer \in Conns
    BY FirstPeerType DEF TypeOK
  <2>3. CASE FirstPeer \in Conns /\ FirstPeer # None /\ event.type = "Move"
    <3>1. event.x \in Int /\ event.y \in Int
      BY <2>1, <2>3 DEF InputEvent
    <3>2. Delta.dx \in Int /\ Delta.dy \in Int
      BY <3>1 DEF Delta, TypeOK
    <3> DEFINE m == [type |-> "MouseMoveRelative", dx |-> Delta.dx, dy |-> Delta.dy]
    <3>3. m \in Messages /\ m.type # "ModifierSync"
      BY <3>2 DEF Messages, InputMessage
    <3>4. outbound' = outbound \/ outbound' = TrySent(FirstPeer, m)
      BY <1>3, <2>3 DEF Forward
    <3> HIDE DEF m
    <3> QED BY <1>1, <2>3, <3>3, <3>4, SyncedSends
  <2>4. CASE FirstPeer \in Conns /\ FirstPeer # None /\ event.type # "Move"
    <3>1. KeyMessage(event) \in Messages /\ KeyMessage(event).type # "ModifierSync"
      BY <2>1, <2>4 DEF InputEvent, KeyMessage, Messages, InputMessage, Inputs
    <3>2. outbound' = TrySent(FirstPeer, KeyMessage(event))
      BY <1>3, <2>4 DEF Forward
    <3> QED BY <2>4, <3>1, <3>2, SyncedSends
  <2>5. CASE FirstPeer = None
    BY <1>1, <1>3, <2>5 DEF Forward
  <2> QED BY <2>2, <2>3, <2>4, <2>5
<1>4. ASSUME NEW c \in Conns, Break(c) PROVE AllSynced'
  <2>1. PICK n \in 0 .. Len(outbound[c]) :
          outbound' = [outbound EXCEPT ![c] = SubSeq(outbound[c], 1, n)]
    BY <1>4 DEF Break
  <2>2. Synced(SubSeq(outbound[c], 1, n))
    <3> DEFINE q == outbound[c]
    <3>1. q \in Seq(Messages) /\ Synced(q) /\ n \in 0 .. Len(q)
      BY <1>0 DEF AllSynced
    <3> HIDE DEF q
    <3>2. /\ Len(SubSeq(q, 1, n)) = n
          /\ \A i \in 1 .. n : SubSeq(q, 1, n)[i] = q[i] /\ i \in 1 .. Len(q)
      BY <3>1
    <3>3. Synced(SubSeq(q, 1, n))
      BY <3>1, <3>2 DEF Synced
    <3> QED BY <3>3 DEF q
  <2> QED BY <1>0, <2>1, <2>2 DEF AllSynced
<1>5. ASSUME NEW c \in Conns, Deliver(c) PROVE AllSynced'
  <2>1. outbound[c] # <<>> /\ outbound' = [outbound EXCEPT ![c] = Tail(@)]
    BY <1>5 DEF Deliver
  <2>2. Synced(Tail(outbound[c]))
    <3> DEFINE q == outbound[c]
    <3>1. q \in Seq(Messages) /\ Synced(q) /\ q # <<>>
      BY <1>0, <2>1 DEF AllSynced
    <3> HIDE DEF q
    <3>2. /\ Len(q) \in Nat /\ Len(Tail(q)) = Len(q) - 1
          /\ \A i \in 1 .. Len(q) - 1 : Tail(q)[i] = q[i + 1]
      BY <3>1, HeadTailProperties
    <3>3. \A i \in 1 .. Len(q) - 1 : i + 1 \in 1 .. Len(q)
      BY <3>2
    <3>4. Synced(Tail(q))
      BY <3>1, <3>2, <3>3 DEF Synced
    <3> QED BY <3>4 DEF q
  <2> QED BY <1>0, <2>1, <2>2 DEF AllSynced
<1>6. ASSUME NEW c \in Conns, Connect(c) \/ ReportBreak(c) PROVE AllSynced'
  BY <1>1, <1>6 DEF Connect, ReportBreak
<1>7. CASE User \/ DrainRaw \/ ReceiveEmergency \/ ReceiveInput \/ ChoosePeer \/ Engage \/ Disengage
           \/ Handler \/ UNCHANGED vars
  BY <1>1, <1>7 DEF User, Press, Release, MoveMouse, Hook, DrainRaw, ReceiveEmergency, ReceiveInput,
                    ChoosePeer, Engage, Disengage, Handler, PeerConnected, BindAutoPeer,
                    PeerDisconnected, UnbindAutoPeer, HandlerFrame, vars
<1> QED
  BY <1>2, <1>3, <1>4, <1>5, <1>6, <1>7 DEF Next, Task, Network

(* Injecting a message leaves no modifier down on a machine without focus. *)
LEMMA ReleasedStep ==
  ASSUME EachMachineOnce, TypeOK, FocusInv, AllSynced, ReleasedWhenLeft, [Next]_vars
  PROVE  ReleasedWhenLeft'
<1> USE RoutingAssumption
<1>0. /\ outbound \in [Conns -> Seq(Messages)] /\ entered \in [Peers -> BOOLEAN]
      /\ pressed \in [Peers -> SUBSET Inputs] /\ PeerOf \in [Conns -> Peers]
  BY DEF TypeOK, Messages
<1>1. \A c \in Conns : OthersStay(c)' => OthersStay(c)
  BY ConnSteps
<1>2. CASE UNCHANGED <<pressed, entered>>
  BY <1>1, <1>2 DEF ReleasedWhenLeft
<1>3. ASSUME NEW c \in Conns, Deliver(c) PROVE ReleasedWhenLeft'
  <2> DEFINE p == PeerOf[c]
             m == Head(outbound[c])
  <2>1. /\ outbound[c] # <<>> /\ pressed' = [pressed EXCEPT ![p] = Injected(@, m)]
        /\ entered' = [entered EXCEPT ![p] = FocusGiven(m, @)]
    BY <1>3 DEF Deliver, FocusGiven
  <2>2. /\ entered'[p] = FocusGiven(m, entered[p]) /\ pressed'[p] = Injected(pressed[p], m)
        /\ \A d \in Conns : d # c => entered'[PeerOf[d]] = entered[PeerOf[d]]
                                     /\ pressed'[PeerOf[d]] = pressed[PeerOf[d]]
    BY <1>0, <2>1 DEF EachMachineOnce
  <2>3. m \in Messages /\ m = outbound[c][1] /\ 1 \in 1 .. Len(outbound[c])
    BY <1>0, <2>1, HeadTailProperties
  <2>4. m.type = "ModifierSync" => m.modifiers = {}
    BY <2>3 DEF AllSynced, Synced
  <2>5. OthersStay(c) /\ m.type \in InputTypes => entered[p]
    <3>1. OthersStay(c) => Guarded(outbound[c], entered[p])
      BY DEF FocusInv, Streams
    <3>2. outbound[c] \in Seq(Messages) /\ entered[p] \in BOOLEAN
      BY <1>0
    <3> QED BY <2>1, <3>1, <3>2, GuardedTail
  <2>6. m.type \in InputTypes \cup FocusTypes \cup {"ModifierSync"}
    BY <2>3 DEF Messages, InputMessage, FocusMessage, InputTypes, FocusTypes
  <2> HIDE DEF m, p
  <2>7. OthersStay(c) /\ ~entered'[p] => pressed'[p] \cap ModifierKeys = {}
    <3>1. CASE m.type \in InputTypes
      BY <2>2, <2>5, <3>1 DEF FocusGiven, InputTypes
    <3>2. CASE m.type = "ScreenEnter"
      BY <2>2, <3>2 DEF FocusGiven
    <3>3. CASE m.type = "ScreenLeave"
      <4>1. pressed'[p] = pressed[p] \ ModifierKeys
        BY <2>2, <3>3 DEF Injected
      <4> QED BY <4>1
    <3>4. CASE m.type = "ModifierSync"
      <4>1. pressed'[p] = Resynced(pressed[p], {})
        BY <2>2, <2>4, <3>4 DEF Injected
      <4> QED BY <4>1 DEF Resynced
    <3> QED BY <2>6, <3>1, <3>2, <3>3, <3>4 DEF FocusTypes
  <2> QED BY <1>1, <2>2, <2>7 DEF ReleasedWhenLeft, p
<1>4. CASE User \/ DrainRaw \/ Task \/ Handler \/ UNCHANGED vars
  BY <1>2, <1>4
     DEF User, Press, Release, MoveMouse, Hook, DrainRaw, Task, ReceiveEmergency, ReceiveInput,
         ChoosePeer, SendScreenEnter, SendScreenLeave, SendModifierSync, SendMessage, Engage,
         Disengage, Forward, Handler, PeerConnected, BindAutoPeer, PeerDisconnected,
         UnbindAutoPeer, HandlerFrame, clientVars, vars
<1>5. ASSUME NEW c \in Conns, Connect(c) \/ Break(c) \/ ReportBreak(c) PROVE ReleasedWhenLeft'
  BY <1>2, <1>5 DEF Connect, Break, ReportBreak, NetFrame, clientVars
<1> QED
  BY <1>3, <1>4, <1>5 DEF Next, Network

(* A client that was told to leave holds no modifier down, whatever keys   *)
(* and hotkeys the user interleaves and wherever its stream is cut         *)
(* (session.rs:480), under the same two conditions.                        *)
THEOREM ReleasedWhenLeftAlways ==
  ASSUME DefaultLayout, EachMachineOnce
  PROVE  Spec => []ReleasedWhenLeft
<1>1. Init => AllSynced /\ ReleasedWhenLeft
  <2> SUFFICES ASSUME Init PROVE AllSynced /\ ReleasedWhenLeft
    OBVIOUS
  <2>1. \A c \in Conns : outbound[c] = <<>> /\ pressed[PeerOf[c]] = {}
    BY RoutingAssumption DEF Init
  <2> QED BY <2>1 DEF AllSynced, Synced, ReleasedWhenLeft
<1>2. TypeOK /\ Handing /\ AllSynced /\ [Next]_vars => AllSynced'
  BY SyncedStep
<1>3. TypeOK /\ FocusInv /\ AllSynced /\ ReleasedWhenLeft /\ [Next]_vars => ReleasedWhenLeft'
  BY ReleasedStep
<1>4. Spec => [](TypeOK /\ Handing)
  BY IInvAlways DEF IInv
<1> QED
  BY <1>1, <1>2, <1>3, <1>4, FocusAlways, PTL DEF Spec

-----------------------------------------------------------------------------
(* Where a crossing parks the cursor *)

(* ParkedInside: a crossing parks the cursor where it touches no side of    *)
(* the screen, so that its next movement does not bounce back (edge.rs,     *)
(* warp_back_inside). It takes a screen of four pixels each way: on a       *)
(* smaller one two pixels from one side is at the other.                   *)
THEOREM ParkedInside ==
  ASSUME Width >= 4, Height >= 4
  PROVE  \A side \in Sides : CrossedSide(WarpBackInside(side)) = None
<1>1. Width \in Nat /\ Height \in Nat
  BY EdgeAssumption
<1>2. /\ Width \div 2 > 1 /\ Width \div 2 < Width - 1
      /\ Height \div 2 > 1 /\ Height \div 2 < Height - 1
      /\ Width \div 2 \in Nat /\ Height \div 2 \in Nat
  BY <1>1
<1>3. ASSUME NEW p, p.x \in Int, p.y \in Int, p.x > 1, p.x < Width - 1, p.y > 1, p.y < Height - 1
      PROVE  CrossedSide(p) = None
  BY <1>1, <1>3 DEF CrossedSide, Threshold
<1>4. ASSUME NEW side \in Sides
      PROVE  LET p == WarpBackInside(side)
             IN  /\ p.x \in Int /\ p.x > 1 /\ p.x < Width - 1
                 /\ p.y \in Int /\ p.y > 1 /\ p.y < Height - 1
  BY <1>1, <1>2 DEF WarpBackInside
<1> QED BY <1>3, <1>4

-----------------------------------------------------------------------------
(* PointerMotion: where the pointer is, and what the client is told of it. *)
(* Its variables that InputRouting has too share their names.              *)

CONSTANTS PeerWidth, Deltas, Counting, MaxMoves
VARIABLES cursor, pointer, last_pos, hand, trip

Motion == INSTANCE PointerMotion

Assumed == Motion!EdgeAssumption /\ Motion!PointerAssumption

Crossing == pc \in {"enter", "warp", "forward"}

Offer == [type : {"ScreenEnter"}, x : Int] \cup [type : {"MouseMoveRelative"}, dx : Int]

MotionTypes ==
  /\ Motion!TypeOK
  /\ hand \in [total : Int, warped : Int, moves : Int, last : Int]
  /\ Crossing => event \in Motion!Position /\ edge.route # None
  /\ pc \in {"enter", "warp"} => decision.entry.x \in Int /\ decision.local_warp.x \in Int
  /\ pc = "leave" => edge.route = None

(* The position a movement is counted from *)
Begun == IF last_mouse = None THEN event ELSE last_mouse

MotionCounted == Counting =>
  /\ trip \in [from : Motion!Position \cup {None}, sent : Int, dropped : Int]
  /\ Crossing => trip.from \in Motion!Position /\ trip.sent + trip.dropped = Begun.x - trip.from.x
  /\ (pc = "recv" /\ edge.route # None) =>
       /\ last_mouse # None /\ trip.from \in Motion!Position
       /\ trip.sent + trip.dropped = last_mouse.x - trip.from.x

LEMMA MotionClamp ==
  ASSUME NEW x \in Int, NEW width \in Nat \ {0}
  PROVE  Motion!Clamp(x, width) \in 0..width - 1
BY DEF Motion!Clamp

LEMMA MotionTry ==
  ASSUME NEW S, NEW ch \in Seq(S), NEW cap \in Nat, Len(ch) <= cap, NEW m \in S
  PROVE  Motion!TrySend(ch, cap, m) \in Seq(S) /\ Len(Motion!TrySend(ch, cap, m)) <= cap
<1>1. CASE Len(ch) < cap
  <2>1. Append(ch, m) \in Seq(S) /\ Len(Append(ch, m)) = Len(ch) + 1
    BY AppendProperties
  <2> QED BY <1>1, <2>1 DEF Motion!TrySend
<1>2. CASE ~(Len(ch) < cap)
  BY <1>2 DEF Motion!TrySend
<1> QED BY <1>1, <1>2

LEMMA MotionTail ==
  ASSUME NEW S, NEW ch \in Seq(S), NEW cap \in Nat, Len(ch) <= cap, ch # <<>>
  PROVE  Head(ch) \in S /\ Tail(ch) \in Seq(S) /\ Len(Tail(ch)) <= cap
<1>1. Head(ch) \in S /\ Tail(ch) \in Seq(S) /\ Len(Tail(ch)) = Len(ch) - 1
  BY HeadTailProperties
<1>2. Len(ch) \in Nat
  OBVIOUS
<1> QED BY <1>1, <1>2

LEMMA MotionCaps == ASSUME Assumed PROVE SinkCap \in Nat /\ OutCap \in Nat
BY DEF Assumed, Motion!PointerAssumption

(* What a detector does with a position *)
LEMMA MotionObserves ==
  ASSUME Assumed, NEW ed \in Motion!EdgeState, NEW e \in Motion!Position
  PROVE  /\ Motion!Observed(ed, e) \in Motion!EdgeState
         /\ \/ /\ Motion!Decision(ed, e) = Motion!Stay
               /\ Motion!Observed(ed, e).route = ed.route
            \/ /\ Motion!Decision(ed, e) # Motion!Stay
               /\ ed.route = None
               /\ Motion!Decision(ed, e).entry.x \in Int
               /\ Motion!Decision(ed, e).local_warp.x \in Int
<1>1. e.type = "Move" /\ e.x \in Int
  BY DEF Motion!Position, Motion!Columns, Assumed, Motion!EdgeAssumption
<1>2. Motion!Noted(ed, e) = ed
  BY <1>1 DEF Motion!Noted
<1>3. CASE ~Motion!Crosses(ed, e)
  BY <1>2, <1>3 DEF Motion!Observed, Motion!Decision
<1>4. CASE Motion!Crosses(ed, e)
  <2> DEFINE side == Motion!CrossedSide(e)
             to   == Motion!Destination(ed, e)
  <2>1. to \in Screens /\ side \in Motion!Sides /\ ed.route = None
    <3>1. to # None /\ ed.route = None
      BY <1>4 DEF Motion!Crosses
    <3>2. side # None
      BY <3>1 DEF Motion!Destination
    <3>3. side \in Motion!Sides
      BY <3>2 DEF Motion!CrossedSide, Motion!Sides
    <3>4. Neighbour[side] \in Screens \cup {None} /\ ed.auto_peer \in Screens \cup {None}
      BY <3>3 DEF Motion!EdgeState, Assumed, Motion!EdgeAssumption
    <3> QED BY <3>1, <3>3, <3>4 DEF Motion!Destination
  <2>2. Motion!Observed(ed, e) = [ed EXCEPT !.route = to]
    BY <1>2, <1>4 DEF Motion!Observed
  <2>3. Motion!Decision(ed, e) = Motion!EnterRemote(to, side, e, ed.modifiers)
    BY <1>2, <1>4 DEF Motion!Decision
  <2> HIDE DEF side, to
  <2>4. Motion!Observed(ed, e) \in Motion!EdgeState
    BY <2>1, <2>2 DEF Motion!EdgeState
  <2>5. Motion!EntryPoint(side, e).x \in Int
    BY <1>1 DEF Motion!EntryPoint, Motion!FarSide
  <2>6. Motion!WarpBackInside(side).x \in Int
    BY DEF Motion!WarpBackInside, Assumed, Motion!EdgeAssumption
  <2>7. /\ Motion!Decision(ed, e).kind = "EnterRemote"
        /\ Motion!Decision(ed, e).entry = Motion!EntryPoint(side, e)
        /\ Motion!Decision(ed, e).local_warp = Motion!WarpBackInside(side)
    BY <2>3 DEF Motion!EnterRemote
  <2>8. Motion!Stay.kind = "Stay"
    BY DEF Motion!Stay
  <2> QED BY <2>1, <2>4, <2>5, <2>6, <2>7, <2>8
<1> QED BY <1>3, <1>4

LEMMA MotionInit == ASSUME Assumed PROVE Motion!Init => MotionTypes /\ MotionCounted
<1> SUFFICES ASSUME Motion!Init PROVE MotionTypes /\ MotionCounted
  OBVIOUS
<1>1. edge \in Motion!EdgeState /\ edge.route = None
  BY DEF Motion!Init, Motion!WithAutoPeer, Motion!NewEdge, Motion!EdgeState, Assumed, Motion!PointerAssumption
<1>2. Motion!TypeOK
  <2>1. /\ sink \in Seq(Motion!Position \cup {Motion!Hotkey}) /\ Len(sink) <= SinkCap
        /\ outbound \in Seq(Offer) /\ Len(outbound) <= OutCap
    BY MotionCaps DEF Motion!Init
  <2>2. cursor \in Motion!Columns /\ pointer \in 0..PeerWidth - 1 /\ capturing \in BOOLEAN
    BY DEF Motion!Init
  <2>3. last_pos \in Int /\ pc \in {"recv", "leave", "enter", "warp", "forward"}
    BY DEF Motion!Init
  <2>4. {event, last_mouse} \subseteq Motion!Position \cup {None}
    BY DEF Motion!Init
  <2> QED BY <1>1, <2>1, <2>2, <2>3, <2>4 DEF Motion!TypeOK, Offer
<1>3. hand \in [total : Int, warped : Int, moves : Int, last : Int]
  BY DEF Motion!Init
<1>4. MotionTypes
  BY <1>2, <1>3 DEF Motion!Init, MotionTypes, Crossing
<1>5. trip \in [from : Motion!Position \cup {None}, sent : Int, dropped : Int]
  BY DEF Motion!Init, Motion!NoTrip
<1>6. MotionCounted
  BY <1>1, <1>5 DEF Motion!Init, MotionCounted, Crossing
<1> QED BY <1>4, <1>6

(* The user moves the mouse. *)
LEMMA MotionMoves ==
  ASSUME Assumed, MotionTypes, MotionCounted, NEW d \in Deltas, Motion!MoveMouse(d)
  PROVE  MotionTypes' /\ MotionCounted'
<1> DEFINE move == Motion!MoveTo(cursor', hand')
<1>1. /\ cursor' = Motion!Clamp(cursor + d, Width)
      /\ sink' = Motion!TrySend(sink, SinkCap, move)
      /\ UNCHANGED <<capturing, edge, pc, event, decision, last_mouse, outbound, pointer, last_pos, trip>>
  BY DEF Motion!MoveMouse, Motion!clientVars
<1>2. d \in Int /\ Width \in Nat \ {0}
  BY DEF Assumed, Motion!PointerAssumption, Motion!EdgeAssumption
<1>3. cursor' \in Motion!Columns
  BY <1>1, <1>2, MotionClamp DEF MotionTypes, Motion!TypeOK, Motion!Columns
<1>4. hand' \in [total : Int, warped : Int, moves : Int, last : Int]
  <2>1. CASE Counting
    <3>1. hand' = [hand EXCEPT !.total = hand.total + d, !.moves = hand.moves + 1, !.last = d]
      BY <2>1 DEF Motion!MoveMouse
    <3> DEFINE h == [hand EXCEPT !.total = hand.total + d]
               k == [h EXCEPT !.moves = hand.moves + 1]
    <3>2. h \in [total : Int, warped : Int, moves : Int, last : Int] /\ hand.moves + 1 \in Int
      BY <1>2 DEF MotionTypes
    <3>3. hand' = [k EXCEPT !.last = d]
      BY <3>1
    <3> HIDE DEF h
    <3>4. k \in [total : Int, warped : Int, moves : Int, last : Int]
      BY <3>2
    <3> HIDE DEF k
    <3> QED BY <1>2, <3>3, <3>4
  <2>2. CASE ~Counting
    BY <1>2, <2>2 DEF Motion!MoveMouse, MotionTypes
  <2> QED BY <2>1, <2>2
<1>5. move \in Motion!Position \cup {Motion!Hotkey}
  BY <1>3, <1>4 DEF Motion!MoveTo, Motion!Position
<1> HIDE DEF move
<1>6. sink' \in Seq(Motion!Position \cup {Motion!Hotkey}) /\ Len(sink') <= SinkCap
  BY <1>1, <1>5, MotionTry, MotionCaps DEF MotionTypes, Motion!TypeOK
<1>7. MotionTypes'
  BY <1>1, <1>3, <1>4, <1>6 DEF MotionTypes, Crossing, Motion!TypeOK, Motion!Position, Motion!Columns,
     Motion!Hotkey, Motion!EdgeState
<1>8. MotionCounted'
  BY <1>1 DEF MotionCounted, Crossing, Begun, Motion!Position, Motion!Columns
<1> QED BY <1>7, <1>8

LEMMA MotionPresses ==
  ASSUME Assumed, MotionTypes, MotionCounted, Motion!PressHotkey
  PROVE  MotionTypes' /\ MotionCounted'
<1>1. /\ sink' = Motion!TrySend(sink, SinkCap, Motion!Hotkey)
      /\ UNCHANGED <<cursor, capturing, edge, pc, event, decision, last_mouse, outbound, pointer, last_pos, hand, trip>>
  BY DEF Motion!PressHotkey, Motion!clientVars
<1>2. sink' \in Seq(Motion!Position \cup {Motion!Hotkey}) /\ Len(sink') <= SinkCap
  BY <1>1, MotionTry, MotionCaps DEF MotionTypes, Motion!TypeOK
<1>3. MotionTypes'
  BY <1>1, <1>2 DEF MotionTypes, Crossing, Motion!TypeOK, Motion!Position, Motion!Columns,
     Motion!Hotkey, Motion!EdgeState
<1>4. MotionCounted'
  BY <1>1 DEF MotionCounted, Crossing, Begun, Motion!Position, Motion!Columns
<1> QED BY <1>3, <1>4

(* Taking the next event off the channel *)
LEMMA MotionTakes ==
  ASSUME Assumed, MotionTypes, NEW type, Motion!Receive(type), sink' = Tail(sink)
  PROVE  /\ sink' \in Seq(Motion!Position \cup {Motion!Hotkey}) /\ Len(sink') <= SinkCap
         /\ type = "Move" => Head(sink) \in Motion!Position /\ Head(sink) # None
<1>1. /\ Head(sink) \in Motion!Position \cup {Motion!Hotkey}
      /\ sink' \in Seq(Motion!Position \cup {Motion!Hotkey}) /\ Len(sink') <= SinkCap
  BY MotionTail, MotionCaps DEF MotionTypes, Motion!TypeOK, Motion!Receive
<1>2. Motion!Hotkey.type = "Key"
  BY DEF Motion!Hotkey
<1>3. None \notin Motion!Position
  <2>1. Motion!Position \subseteq [type : {"Move"}, x : Int, y : Int, hand : Int, warped : Int]
    BY DEF Motion!Position, Motion!Columns, Assumed, Motion!EdgeAssumption
  <2> QED BY <2>1 DEF Assumed, Motion!PointerAssumption
<1> QED BY <1>1, <1>2, <1>3 DEF Motion!Receive

LEMMA MotionHotkey ==
  ASSUME Assumed, MotionTypes, MotionCounted, Motion!ReceiveHotkey
  PROVE  MotionTypes' /\ MotionCounted'
<1>1. /\ sink' = Tail(sink) /\ Motion!Receive("Key") /\ last_mouse' = None /\ edge' = Motion!ForcedLocal(edge)
      /\ pc' \in {"recv", "leave"}
      /\ UNCHANGED <<cursor, capturing, event, outbound, pointer, last_pos, hand, trip>>
  BY DEF Motion!ReceiveHotkey, Motion!clientVars
<1>2. sink' \in Seq(Motion!Position \cup {Motion!Hotkey}) /\ Len(sink') <= SinkCap
  BY <1>1, MotionTakes
<1>3. edge' \in Motion!EdgeState /\ edge'.route = None
  BY <1>1 DEF Motion!ForcedLocal, Motion!EdgeState, MotionTypes, Motion!TypeOK
<1>4. Motion!TypeOK'
  BY <1>1, <1>2, <1>3 DEF MotionTypes, Motion!TypeOK, Motion!Position, Motion!Columns, Motion!Hotkey, Motion!EdgeState
<1>5. MotionTypes'
  BY <1>1, <1>3, <1>4 DEF MotionTypes, Crossing
<1>6. MotionCounted'
  BY <1>1, <1>3 DEF MotionCounted, Crossing, Motion!Position, Motion!Columns
<1> QED BY <1>5, <1>6

LEMMA MotionLeaves ==
  ASSUME Assumed, MotionTypes, MotionCounted, Motion!Leave
  PROVE  MotionTypes' /\ MotionCounted'
<1>1. /\ pc = "leave" /\ capturing' = FALSE /\ pc' = "recv" /\ trip' = Motion!NoTrip
      /\ UNCHANGED <<cursor, sink, edge, event, last_mouse, outbound, pointer, last_pos, hand>>
  BY DEF Motion!Leave, Motion!clientVars
<1>2. edge'.route = None
  BY <1>1 DEF MotionTypes
<1>3. Motion!TypeOK'
  BY <1>1 DEF MotionTypes, Motion!TypeOK, Motion!Position, Motion!Columns, Motion!Hotkey, Motion!EdgeState
<1>4. MotionTypes'
  BY <1>1, <1>3 DEF MotionTypes, Crossing
<1>5. MotionCounted'
  BY <1>1, <1>2 DEF MotionCounted, Crossing, Motion!NoTrip, Motion!Position, Motion!Columns
<1> QED BY <1>4, <1>5

LEMMA MotionLocal ==
  ASSUME Assumed, MotionTypes, MotionCounted, Motion!ReceiveLocalMove
  PROVE  MotionTypes' /\ MotionCounted'
<1> DEFINE e == Head(sink)
<1>1. /\ sink' = Tail(sink) /\ Motion!Receive("Move") /\ last_mouse' = e /\ edge' = Motion!Observed(edge, e)
      /\ ~Motion!ForwardsRemote(edge, e) /\ pc = "recv"
      /\ UNCHANGED <<cursor, capturing, pc, event, decision, outbound, pointer, last_pos, hand, trip>>
  BY DEF Motion!ReceiveLocalMove, Motion!clientVars, Motion!Receive
<1>2. /\ sink' \in Seq(Motion!Position \cup {Motion!Hotkey}) /\ Len(sink') <= SinkCap
      /\ e \in Motion!Position
  BY <1>1, MotionTakes
<1> HIDE DEF e
<1>3. edge' \in Motion!EdgeState /\ edge'.route = None
  <2>1. edge \in Motion!EdgeState
    BY DEF MotionTypes, Motion!TypeOK
  <2> QED BY <1>1, <1>2, <2>1, MotionObserves DEF Motion!ForwardsRemote
<1>4. Motion!TypeOK'
  BY <1>1, <1>2, <1>3 DEF MotionTypes, Motion!TypeOK, Motion!Position, Motion!Columns, Motion!Hotkey, Motion!EdgeState
<1>5. MotionTypes'
  BY <1>1, <1>3, <1>4 DEF MotionTypes, Crossing
<1>6. MotionCounted'
  BY <1>1, <1>3 DEF MotionCounted, Crossing, Motion!Position, Motion!Columns
<1> QED BY <1>5, <1>6

LEMMA MotionRemote ==
  ASSUME Assumed, MotionTypes, MotionCounted, Motion!ReceiveRemoteMove
  PROVE  MotionTypes' /\ MotionCounted'
<1> DEFINE e == Head(sink)
<1>1. /\ sink' = Tail(sink) /\ Motion!Receive("Move") /\ event' = e /\ edge' = Motion!Observed(edge, e)
      /\ Motion!ForwardsRemote(edge, e) /\ pc = "recv" /\ decision' = Motion!Decision(edge, e)
      /\ pc' = IF decision' = Motion!Stay THEN "forward" ELSE "enter"
      /\ trip' = IF decision' = Motion!Stay \/ ~Counting THEN trip
                 ELSE [Motion!NoTrip EXCEPT !.from = IF last_mouse = None THEN e ELSE last_mouse]
      /\ UNCHANGED <<cursor, capturing, last_mouse, outbound, pointer, last_pos, hand>>
  BY DEF Motion!ReceiveRemoteMove, Motion!clientVars, Motion!Receive
<1>2. /\ sink' \in Seq(Motion!Position \cup {Motion!Hotkey}) /\ Len(sink') <= SinkCap
      /\ e \in Motion!Position /\ e # None
  BY <1>1, MotionTakes
<1> HIDE DEF e
<1>3. edge \in Motion!EdgeState /\ last_mouse \in Motion!Position \cup {None}
  BY DEF MotionTypes, Motion!TypeOK
<1>4. /\ edge' \in Motion!EdgeState /\ edge'.route # None
      /\ \/ decision' = Motion!Stay /\ edge.route # None /\ pc' = "forward"
         \/ /\ decision' # Motion!Stay /\ pc' = "enter"
            /\ decision'.entry.x \in Int /\ decision'.local_warp.x \in Int
  BY <1>1, <1>2, <1>3, MotionObserves DEF Motion!ForwardsRemote
<1>5. Motion!TypeOK'
  BY <1>1, <1>2, <1>4 DEF MotionTypes, Motion!TypeOK, Motion!Position, Motion!Columns, Motion!Hotkey, Motion!EdgeState
<1>6. MotionTypes'
  <2>1. event' \in Motion!Position'
    BY <1>1, <1>2 DEF Motion!Position, Motion!Columns
  <2>2. pc' \in {"forward", "enter"} /\ (pc' = "enter" => decision'.entry.x \in Int /\ decision'.local_warp.x \in Int)
    BY <1>4
  <2>3. hand' \in [total : Int, warped : Int, moves : Int, last : Int]
    BY <1>1 DEF MotionTypes
  <2> QED BY <1>4, <1>5, <2>1, <2>2, <2>3 DEF MotionTypes, Crossing
<1>7. e.x \in Int /\ (last_mouse # None => last_mouse.x \in Int)
  BY <1>2, <1>3 DEF Motion!Position, Motion!Columns, Assumed, Motion!EdgeAssumption
<1>8. MotionCounted'
  <2> SUFFICES ASSUME Counting
               PROVE  /\ trip' \in [from : Motion!Position \cup {None}, sent : Int, dropped : Int]
                      /\ trip'.from \in Motion!Position /\ trip'.sent + trip'.dropped = Begun'.x - trip'.from.x
                      /\ pc' # "recv"
    BY DEF MotionCounted, Motion!Position, Motion!Columns
  <2>1. CASE decision' = Motion!Stay /\ edge.route # None /\ pc' = "forward"
    <3>1. trip' = trip
      BY <1>1, <2>1
    <3>2. Begun' = last_mouse /\ last_mouse # None
      BY <1>1, <2>1 DEF MotionCounted, Begun
    <3> QED BY <1>1, <2>1, <3>1, <3>2 DEF MotionCounted
  <2>2. CASE decision' # Motion!Stay /\ pc' = "enter"
    <3>1. Begun' = (IF last_mouse = None THEN e ELSE last_mouse) /\ Begun' \in Motion!Position /\ Begun'.x \in Int
      BY <1>1, <1>2, <1>3, <1>7 DEF Begun
    <3>2. trip' = [Motion!NoTrip EXCEPT !.from = Begun']
      BY <1>1, <2>2, <3>1
    <3>3. trip' = [from |-> Begun', sent |-> 0, dropped |-> 0]
      BY <3>2 DEF Motion!NoTrip
    <3>4. trip'.from = Begun' /\ trip'.sent = 0 /\ trip'.dropped = 0
      BY <3>3
    <3>5. trip' \in [from : Motion!Position \cup {None}, sent : Int, dropped : Int]
      BY <3>1, <3>3
    <3> QED BY <2>2, <3>1, <3>4, <3>5
  <2> QED BY <1>4, <2>1, <2>2
<1> QED BY <1>6, <1>8

LEMMA MotionAppend ==
  ASSUME Assumed, MotionTypes, NEW m \in Offer, Len(outbound) < OutCap
  PROVE  Append(outbound, m) \in Seq(Offer) /\ Len(Append(outbound, m)) <= OutCap
<1>1. outbound \in Seq(Offer) /\ OutCap \in Nat
  BY MotionCaps DEF MotionTypes, Motion!TypeOK, Offer
<1>2. Append(outbound, m) \in Seq(Offer) /\ Len(Append(outbound, m)) = Len(outbound) + 1
  BY <1>1, AppendProperties
<1> QED BY <1>1, <1>2

LEMMA MotionEnters ==
  ASSUME Assumed, MotionTypes, MotionCounted, Motion!SendScreenEnter
  PROVE  MotionTypes' /\ MotionCounted'
<1>1. /\ pc = "enter" /\ pc' = "warp" /\ Len(outbound) < OutCap
      /\ outbound' = Append(outbound, [type |-> "ScreenEnter", x |-> decision.entry.x])
      /\ UNCHANGED <<cursor, capturing, sink, edge, event, decision, last_mouse, pointer, last_pos, hand, trip>>
  BY DEF Motion!SendScreenEnter, Motion!clientVars
<1>2. [type |-> "ScreenEnter", x |-> decision.entry.x] \in Offer
  BY <1>1 DEF MotionTypes, Offer
<1>3. outbound' \in Seq(Offer) /\ Len(outbound') <= OutCap
  BY <1>1, <1>2, MotionAppend
<1>4. Motion!TypeOK'
  BY <1>1, <1>3 DEF MotionTypes, Motion!TypeOK, Offer, Motion!Position, Motion!Columns, Motion!Hotkey, Motion!EdgeState
<1>5. MotionTypes'
  BY <1>1, <1>4 DEF MotionTypes, Crossing, Motion!Position, Motion!Columns
<1>6. MotionCounted'
  BY <1>1 DEF MotionCounted, Crossing, Begun, Motion!Position, Motion!Columns
<1> QED BY <1>5, <1>6

LEMMA MotionWarps ==
  ASSUME Assumed, MotionTypes, MotionCounted, Motion!Warp
  PROVE  MotionTypes' /\ MotionCounted'
<1>1. /\ pc = "warp" /\ pc' = "forward" /\ capturing' = TRUE
      /\ cursor' = Motion!Clamp(decision.local_warp.x, Width)
      /\ hand' = IF Counting THEN [hand EXCEPT !.warped = hand.warped + cursor' - cursor] ELSE hand
      /\ UNCHANGED <<sink, edge, event, last_mouse, outbound, pointer, last_pos, trip>>
  BY DEF Motion!Warp, Motion!clientVars
<1>2. Width \in Nat \ {0}
  BY DEF Assumed, Motion!EdgeAssumption
<1>3. cursor' \in Motion!Columns
  BY <1>1, <1>2, MotionClamp DEF MotionTypes, Motion!Columns
<1>4. hand' \in [total : Int, warped : Int, moves : Int, last : Int]
  <2>1. cursor \in Int /\ cursor' \in Int
    BY <1>2, <1>3 DEF MotionTypes, Motion!TypeOK, Motion!Columns
  <2> QED BY <1>1, <2>1 DEF MotionTypes
<1>5. Motion!TypeOK'
  BY <1>1, <1>3 DEF MotionTypes, Motion!TypeOK, Motion!Position, Motion!Columns, Motion!Hotkey, Motion!EdgeState
<1>6. MotionTypes'
  BY <1>1, <1>4, <1>5 DEF MotionTypes, Crossing, Motion!Position, Motion!Columns
<1>7. MotionCounted'
  BY <1>1 DEF MotionCounted, Crossing, Begun, Motion!Position, Motion!Columns
<1> QED BY <1>6, <1>7

LEMMA MotionForwards ==
  ASSUME Assumed, MotionTypes, MotionCounted, Motion!ForwardMove
  PROVE  MotionTypes' /\ MotionCounted'
<1> DEFINE dx == Motion!Movement(event)
<1>1. /\ pc = "forward" /\ pc' = "recv" /\ last_mouse' = event /\ event' = None
      /\ outbound' = Motion!Forwarded(dx)
      /\ trip' = IF ~Counting \/ Motion!Negligible(dx) THEN trip
                 ELSE IF outbound' = outbound
                 THEN [trip EXCEPT !.dropped = trip.dropped + dx]
                 ELSE [trip EXCEPT !.sent = trip.sent + dx]
      /\ UNCHANGED <<cursor, capturing, sink, edge, decision, pointer, last_pos, hand>>
  BY DEF Motion!ForwardMove, Motion!clientVars
<1>2. event \in Motion!Position /\ edge.route # None /\ last_mouse \in Motion!Position \cup {None}
  BY <1>1 DEF MotionTypes, Motion!TypeOK, Crossing
<1>3. event # None
  <2>1. Motion!Position \subseteq [type : {"Move"}, x : Int, y : Int, hand : Int, warped : Int]
    BY DEF Motion!Position, Motion!Columns, Assumed, Motion!EdgeAssumption
  <2> QED BY <1>2, <2>1 DEF Assumed, Motion!PointerAssumption
<1>4. event.x \in Int /\ (last_mouse # None => last_mouse.x \in Int)
  BY <1>2 DEF Motion!Position, Motion!Columns, Assumed, Motion!EdgeAssumption
<1>5. dx \in Int /\ Begun.x + dx = event.x /\ Begun.x \in Int
  BY <1>4 DEF Motion!Movement, Begun
<1> HIDE DEF dx
<1>6. outbound' \in Seq(Offer) /\ Len(outbound') <= OutCap
  <2>1. outbound \in Seq(Offer) /\ Len(outbound) <= OutCap
    BY DEF MotionTypes, Motion!TypeOK, Offer
  <2>2. [type |-> "MouseMoveRelative", dx |-> dx] \in Offer
    BY <1>5 DEF Offer
  <2> QED BY <1>1, <2>1, <2>2, MotionTry, MotionCaps DEF Motion!Forwarded
<1>7. Motion!TypeOK'
  BY <1>1, <1>2, <1>6 DEF MotionTypes, Motion!TypeOK, Offer, Motion!Position, Motion!Columns, Motion!Hotkey,
     Motion!EdgeState
<1>8. MotionTypes'
  BY <1>1, <1>7 DEF MotionTypes, Crossing, Motion!Position, Motion!Columns
<1>9. MotionCounted'
  <2> SUFFICES ASSUME Counting
               PROVE  /\ trip' \in [from : Motion!Position \cup {None}, sent : Int, dropped : Int]
                      /\ trip'.from \in Motion!Position
                      /\ trip'.sent + trip'.dropped = event.x - trip'.from.x
    BY <1>1, <1>3 DEF MotionCounted, Crossing, Motion!Position, Motion!Columns
  <2>1. /\ trip \in [from : Motion!Position \cup {None}, sent : Int, dropped : Int]
        /\ trip.from \in Motion!Position /\ trip.sent + trip.dropped = Begun.x - trip.from.x
    BY <1>1 DEF MotionCounted, Crossing
  <2>2. trip.from.x \in Int /\ trip.sent \in Int /\ trip.dropped \in Int
    BY <2>1 DEF Motion!Position, Motion!Columns, Assumed, Motion!EdgeAssumption
  <2>3. CASE Motion!Negligible(dx)
    BY <1>1, <1>5, <2>1, <2>2, <2>3 DEF Motion!Negligible
  <2>4. CASE ~Motion!Negligible(dx) /\ outbound' = outbound
    <3>1. trip' = [trip EXCEPT !.dropped = trip.dropped + dx]
      BY <1>1, <2>4
    <3>2. /\ trip' \in [from : Motion!Position \cup {None}, sent : Int, dropped : Int]
          /\ trip'.from = trip.from /\ trip'.sent = trip.sent /\ trip'.dropped = trip.dropped + dx
      BY <1>5, <2>1, <2>2, <3>1
    <3>3. trip'.sent + trip'.dropped = (trip.sent + trip.dropped) + dx
      BY <1>5, <2>2, <3>2
    <3>4. (trip.sent + trip.dropped) + dx = event.x - trip.from.x
      BY <1>4, <1>5, <2>1, <2>2
    <3> QED BY <2>1, <3>2, <3>3, <3>4
  <2>5. CASE ~Motion!Negligible(dx) /\ outbound' # outbound
    <3>1. trip' = [trip EXCEPT !.sent = trip.sent + dx]
      BY <1>1, <2>5
    <3>2. /\ trip' \in [from : Motion!Position \cup {None}, sent : Int, dropped : Int]
          /\ trip'.from = trip.from /\ trip'.sent = trip.sent + dx /\ trip'.dropped = trip.dropped
      BY <1>5, <2>1, <2>2, <3>1
    <3>3. trip'.sent + trip'.dropped = (trip.sent + trip.dropped) + dx
      BY <1>5, <2>2, <3>2
    <3>4. (trip.sent + trip.dropped) + dx = event.x - trip.from.x
      BY <1>4, <1>5, <2>1, <2>2
    <3> QED BY <2>1, <3>2, <3>3, <3>4
  <2> QED BY <2>3, <2>4, <2>5
<1> QED BY <1>8, <1>9

(* The client injects what it receives. *)
LEMMA MotionInjects ==
  ASSUME Assumed, MotionTypes, MotionCounted, Motion!Client
  PROVE  MotionTypes' /\ MotionCounted'
<1>1. /\ outbound # <<>> /\ outbound' = Tail(outbound)
      /\ UNCHANGED <<cursor, capturing, sink, edge, pc, event, decision, last_mouse, hand, trip>>
  BY DEF Motion!Client, Motion!InjectMove, Motion!InjectMoveRelative, Motion!serverVars
<1>2. Head(outbound) \in Offer /\ outbound' \in Seq(Offer) /\ Len(outbound') <= OutCap
  BY <1>1, MotionTail, MotionCaps DEF MotionTypes, Motion!TypeOK, Offer
<1>3. /\ Head(outbound).type = "ScreenEnter" => Head(outbound).x \in Int
      /\ Head(outbound).type = "MouseMoveRelative" => Head(outbound).dx \in Int
  BY <1>2 DEF Offer
<1>4. pointer' \in 0..PeerWidth - 1 /\ last_pos' \in Int
  <2>1. pointer \in Int /\ last_pos \in Int /\ PeerWidth \in Nat \ {0}
    BY DEF MotionTypes, Motion!TypeOK, Assumed, Motion!PointerAssumption
  <2>2. CASE Motion!InjectMove
    <3>1. /\ Head(outbound).x \in Int
          /\ pointer' = Motion!Clamp(pointer + (Head(outbound).x - last_pos), PeerWidth)
          /\ last_pos' = Head(outbound).x
      BY <1>3, <2>2 DEF Motion!InjectMove
    <3>2. pointer + (Head(outbound).x - last_pos) \in Int
      BY <2>1, <3>1
    <3> QED BY <2>1, <3>1, <3>2, MotionClamp
  <2>3. CASE Motion!InjectMoveRelative
    <3>1. /\ Head(outbound).dx \in Int
          /\ pointer' = Motion!Clamp(pointer + Head(outbound).dx, PeerWidth)
          /\ last_pos' = last_pos + Head(outbound).dx
      BY <1>3, <2>3 DEF Motion!InjectMoveRelative
    <3>2. pointer + Head(outbound).dx \in Int /\ last_pos' \in Int
      BY <2>1, <3>1
    <3> QED BY <2>1, <3>1, <3>2, MotionClamp
  <2> QED BY <2>2, <2>3 DEF Motion!Client
<1>5. Motion!TypeOK'
  BY <1>1, <1>2, <1>4 DEF MotionTypes, Motion!TypeOK, Offer, Motion!Position, Motion!Columns, Motion!Hotkey,
     Motion!EdgeState
<1>6. MotionTypes'
  BY <1>1, <1>5 DEF MotionTypes, Crossing, Motion!Position, Motion!Columns
<1>7. MotionCounted'
  BY <1>1 DEF MotionCounted, Crossing, Begun, Motion!Position, Motion!Columns
<1> QED BY <1>6, <1>7

LEMMA MotionStep ==
  ASSUME Assumed
  PROVE  MotionTypes /\ MotionCounted /\ [Motion!Next]_Motion!vars => (MotionTypes /\ MotionCounted)'
<1> SUFFICES ASSUME MotionTypes, MotionCounted, [Motion!Next]_Motion!vars
             PROVE  MotionTypes' /\ MotionCounted'
  OBVIOUS
<1>1. CASE Motion!User
  BY <1>1, MotionPresses, MotionMoves DEF Motion!User
<1>2. CASE Motion!Drain
  BY <1>2, MotionHotkey, MotionLeaves, MotionLocal, MotionRemote, MotionEnters, MotionWarps, MotionForwards
     DEF Motion!Drain
<1>3. CASE Motion!Client
  BY <1>3, MotionInjects
<1>4. CASE UNCHANGED Motion!vars
  <2>1. UNCHANGED <<cursor, capturing, sink, edge, pc, event, decision, last_mouse, outbound, pointer, last_pos,
                    hand, trip>>
    BY <1>4 DEF Motion!vars, Motion!serverVars, Motion!clientVars
  <2>2. MotionTypes'
    BY <2>1 DEF MotionTypes, Crossing, Motion!TypeOK, Motion!Position, Motion!Columns, Motion!Hotkey,
       Motion!EdgeState
  <2>3. MotionCounted'
    BY <2>1 DEF MotionCounted, Crossing, Begun, Motion!Position, Motion!Columns
  <2> QED BY <2>2, <2>3
<1> QED BY <1>1, <1>2, <1>3, <1>4 DEF Motion!Next

(* The pointer and every channel keep to their types (PointerMotion.TypeOK): *)
(* the OS cursor and the client's pointer stay on their screens, whatever    *)
(* the user does and wherever the cursor is warped to.                       *)
THEOREM PointerTypeCorrect ==
  ASSUME Motion!EdgeAssumption, Motion!PointerAssumption
  PROVE  Motion!Spec => []Motion!TypeOK
<1>1. Assumed
  BY DEF Assumed
<1>2. Motion!Spec => [](MotionTypes /\ MotionCounted)
  BY <1>1, MotionInit, MotionStep, PTL DEF Motion!Spec
<1>3. MotionTypes => Motion!TypeOK
  BY DEF MotionTypes
<1> QED BY <1>2, <1>3, PTL

(* Nothing of a movement is lost between the hook and the stream            *)
(* (MotionTelescopes): the movements offered add up to how far the observed *)
(* cursor has gone since the last local position (session.rs:227-249).      *)
THEOREM OfferedMotionTelescopes ==
  ASSUME Motion!EdgeAssumption, Motion!PointerAssumption
  PROVE  Motion!Spec => []Motion!MotionTelescopes
<1>1. Assumed
  BY DEF Assumed
<1>2. Motion!Spec => [](MotionTypes /\ MotionCounted)
  BY <1>1, MotionInit, MotionStep, PTL DEF Motion!Spec
<1>3. MotionCounted => Motion!MotionTelescopes
  BY DEF MotionCounted, Motion!MotionTelescopes, Motion!Visiting, Motion!CursorWent
<1> QED BY <1>2, <1>3, PTL

===============================================================================
