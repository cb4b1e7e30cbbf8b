------------------------- MODULE PeerConnectionProofs -------------------------
(***************************************************************************)
(* Theorems about PeerConnection for builds of any versions, payloads of   *)
(* any sizes and any number of messages; and, at the end, about the tasks  *)
(* that use an established connection (PeerTasks).                         *)
(***************************************************************************)
EXTENDS PeerConnection, SequenceTheorems, TLAPS

-----------------------------------------------------------------------------
(* Type correctness *)

Kinds    == {"Hello", "Welcome", "Message", "byte"}
Messages == Kinds \X Seq(Nat)

EndsOK ==
  /\ version \in [Ends -> Versions]
  /\ pc \in [Ends -> HandshakeStates \cup {"up", "ended", "failed"}]
FlagsOK   == link \in BOOLEAN /\ finished \in [Ends -> BOOLEAN]
WireOK    == wire \in [Ends -> Seq(Unit)]
ReaderOK  == header \in [Ends -> Unit \cup {None}] /\ payload \in [Ends -> Seq(Nat)]
HistoryOK == sent \in [Ends -> Seq(Messages)] /\ received \in [Ends -> Seq(Messages)]

TypeInv == EndsOK /\ FlagsOK /\ WireOK /\ ReaderOK /\ HistoryOK

LEMMA TypeInvType == TypeInv => TypeOK
<1> SUFFICES ASSUME TypeInv PROVE TypeOK
  OBVIOUS
<1>1. version \in [Ends -> Versions] /\ pc \in [Ends -> HandshakeStates \cup {"up", "ended", "failed"}]
  BY DEF TypeInv, EndsOK
<1>2. link \in BOOLEAN /\ finished \in [Ends -> BOOLEAN]
  BY DEF TypeInv, FlagsOK
<1>3. \A e \in Ends : /\ wire[e] \in Seq(Unit)
                      /\ header[e] # None => header[e] \in Unit
                      /\ payload[e] \in Seq(Nat)
  BY DEF TypeInv, WireOK, ReaderOK
<1> QED BY <1>1, <1>2, <1>3, Zenon DEF TypeOK

LEMMA Constants == MaxPayload \in Nat /\ HelloSize \in 0 .. MaxPayload /\ Sizes \subseteq Nat /\ None \notin Unit
BY ConnectionAssumption DEF HelloSize

LEMMA Peers == \A e \in Ends : Peer(e) \in Ends /\ Peer(e) # e /\ Peer(Peer(e)) = e
BY DEF Ends, Peer

(* A frame is its header and its bytes. *)
LEMMA FrameUnits ==
  ASSUME EndsOK, NEW e \in Ends, NEW type \in Kinds, NEW size \in 0 .. MaxPayload, NEW id \in Nat
  PROVE  /\ Frame(e, type, size, id) \in Seq(Unit)
         /\ Len(Frame(e, type, size, id)) = size + 1
         /\ Frame(e, type, size, id)[1] = Header(e, type, size, id)
         /\ \A i \in 2 .. size + 1 : Frame(e, type, size, id)[i] = Byte(id)
<1> DEFINE head  == <<Header(e, type, size, id)>>
           bytes == [i \in 1 .. size |-> Byte(id)]
<1>1. size \in Nat /\ version[e] \in Versions
  BY Constants DEF EndsOK
<1>2. Header(e, type, size, id) \in Unit /\ Byte(id) \in Unit
  BY <1>1, Constants DEF Header, Byte, Unit, Kinds
<1>3. head \in Seq(Unit) /\ Len(head) = 1 /\ head[1] = Header(e, type, size, id)
  BY <1>2
<1>4. bytes \in Seq(Unit) /\ Len(bytes) = size /\ \A i \in 1 .. size : bytes[i] = Byte(id)
  BY <1>1, <1>2
<1>5. Frame(e, type, size, id) = head \o bytes
  BY DEF Frame
<1> HIDE DEF head, bytes
<1>6. /\ head \o bytes \in Seq(Unit) /\ Len(head \o bytes) = 1 + size
      /\ \A i \in 1 .. 1 + size : (head \o bytes)[i] = IF i <= 1 THEN head[i] ELSE bytes[i - 1]
  BY <1>3, <1>4, ConcatProperties
<1>7. \A i \in 2 .. size + 1 : i - 1 \in 1 .. size /\ i \in 1 .. 1 + size /\ ~(i <= 1)
  BY <1>1
<1> QED BY <1>1, <1>3, <1>4, <1>5, <1>6, <1>7

LEMMA WriteType ==
  ASSUME TypeInv, NEW e \in Ends, NEW type \in Kinds, NEW size \in 0 .. MaxPayload, Write(e, type, size)
  PROVE  /\ wire' \in [Ends -> Seq(Unit)] /\ sent' \in [Ends -> Seq(Messages)]
<1> DEFINE id == Len(sent[e])
<1>1. id \in Nat /\ size \in Nat /\ wire[e] \in Seq(Unit) /\ sent[e] \in Seq(Messages)
  BY Constants DEF TypeInv, WireOK, HistoryOK
<1> DEFINE frame == Frame(e, type, size, id)
           msg   == <<type, [i \in 1 .. size |-> id]>>
<1>2. frame \in Seq(Unit)
  BY <1>1, FrameUnits DEF TypeInv
<1>3. msg \in Messages
  <2>1. [i \in 1 .. size |-> id] \in Seq(Nat)
    BY <1>1
  <2> QED BY <2>1 DEF Messages
<1>4. wire' = [wire EXCEPT ![e] = @ \o frame] /\ sent' = [sent EXCEPT ![e] = Append(@, msg)]
  BY DEF Write
<1> HIDE DEF frame, msg, id
<1>5. wire[e] \o frame \in Seq(Unit) /\ Append(sent[e], msg) \in Seq(Messages)
  BY <1>1, <1>2, <1>3, ConcatProperties, AppendProperties
<1> QED BY <1>4, <1>5 DEF TypeInv, WireOK, HistoryOK

LEMMA TypeInit == Init => TypeInv
<1> SUFFICES ASSUME Init PROVE TypeInv
  OBVIOUS
<1>1. EndsOK
  BY DEF Init, EndsOK, HandshakeStates
<1>2. FlagsOK
  BY Zenon DEF Init, FlagsOK
<1>3. WireOK /\ ReaderOK /\ HistoryOK
  BY DEF Init, WireOK, ReaderOK, HistoryOK
<1> QED BY <1>1, <1>2, <1>3 DEF TypeInv

LEMMA TypeStep ==
  ASSUME TypeInv, [Next]_vars
  PROVE  TypeInv'
<1>0. EndsOK /\ FlagsOK /\ WireOK /\ ReaderOK /\ HistoryOK
  BY DEF TypeInv
<1> SUFFICES EndsOK' /\ FlagsOK' /\ WireOK' /\ ReaderOK' /\ HistoryOK'
  BY DEF TypeInv
<1>1. ASSUME UNCHANGED version, NEW e \in Ends, NEW to \in HandshakeStates \cup {"up", "ended", "failed"},
             pc' = [pc EXCEPT ![e] = to]
      PROVE  EndsOK'
  BY <1>0, <1>1 DEF EndsOK
<1>2. ASSUME UNCHANGED <<version, pc>> PROVE EndsOK'
  BY <1>0, <1>2 DEF EndsOK
<1>3. ASSUME UNCHANGED finished, UNCHANGED link \/ link' = FALSE PROVE FlagsOK'
  BY <1>0, <1>3, Zenon DEF FlagsOK
<1>4. ASSUME UNCHANGED wire PROVE WireOK'
  BY <1>0, <1>4 DEF WireOK
<1>5. ASSUME UNCHANGED <<header, payload>> PROVE ReaderOK'
  BY <1>0, <1>5 DEF ReaderOK
<1>6. ASSUME UNCHANGED <<sent, received>> PROVE HistoryOK'
  BY <1>0, <1>6 DEF HistoryOK
<1>7. ASSUME NEW e \in Ends, NextFrame(e) PROVE ReaderOK'
  BY <1>0, <1>7 DEF NextFrame, ReaderOK
<1>8. ASSUME NEW e \in Ends, header[e] # None, received' = Received(e), UNCHANGED sent PROVE HistoryOK'
  <2>1. <<header[e].type, payload[e]>> \in Messages
    BY <1>0, <1>8 DEF ReaderOK, Messages, Unit, Kinds
  <2>2. received[e] \in Seq(Messages)
    BY <1>0 DEF HistoryOK
  <2> DEFINE msg == <<header[e].type, payload[e]>>
  <2> HIDE DEF msg
  <2>3. Append(received[e], msg) \in Seq(Messages)
    BY <2>1, <2>2, AppendProperties DEF msg
  <2>4. received' = [received EXCEPT ![e] = Append(@, msg)]
    BY <1>8 DEF Received, msg
  <2> QED BY <1>0, <1>8, <2>3, <2>4 DEF HistoryOK
<1>9. ASSUME NEW e \in Ends, Incoming(e) # <<>>, wire' = [wire EXCEPT ![Peer(e)] = Tail(@)]
      PROVE  WireOK' /\ Head(Incoming(e)) \in Unit
  <2> PICK p \in Ends : p = Peer(e)
    BY Peers
  <2>1. wire[p] \in Seq(Unit) /\ wire[p] # <<>>
    BY <1>0, <1>9 DEF WireOK, Incoming
  <2>2. Head(wire[p]) \in Unit /\ Tail(wire[p]) \in Seq(Unit)
    BY <2>1, HeadTailProperties
  <2> QED BY <1>0, <1>9, <2>2 DEF WireOK, Incoming
<1>10. ASSUME NEW e \in Ends, NEW type \in Kinds, NEW to \in HandshakeStates \cup {"up"}, Speak(e, type, to)
       PROVE  EndsOK' /\ FlagsOK' /\ WireOK' /\ ReaderOK' /\ HistoryOK'
  <2>1. UNCHANGED <<version, finished, header, payload, received>>
    BY <1>10 DEF Speak
  <2>2. CASE link
    <3>1. Write(e, type, HelloSize) /\ pc' = [pc EXCEPT ![e] = to] /\ UNCHANGED link
      BY <1>10, <2>2, Zenon DEF Speak
    <3>2. WireOK' /\ HistoryOK'
      BY <1>0, <2>1, <3>1, WriteType, Constants DEF WireOK, HistoryOK
    <3> QED BY <1>1, <1>3, <1>5, <2>1, <3>1, <3>2
  <2>3. CASE ~link
    <3>1. pc' = [pc EXCEPT ![e] = "failed"] /\ link' = FALSE /\ UNCHANGED <<wire, sent>>
      BY <1>10, <2>3, Zenon DEF Speak, Abandon
    <3> QED BY <1>1, <1>3, <1>4, <1>5, <1>6, <2>1, <3>1
  <2> QED BY <2>2, <2>3
<1>11. ASSUME NEW e \in Ends, NEW type, NEW to \in HandshakeStates \cup {"up"}, Shake(e, type, to)
       PROVE  EndsOK' /\ FlagsOK' /\ WireOK' /\ ReaderOK' /\ HistoryOK'
  <2>1. /\ UNCHANGED <<version, wire, finished, sent>> /\ NextFrame(e) /\ received' = Received(e)
        /\ header[e] # None
    BY <1>11 DEF Shake, Whole
  <2>2. \E s \in HandshakeStates \cup {"up", "ended", "failed"} : pc' = [pc EXCEPT ![e] = s]
    BY <1>11 DEF Shake, Abandon
  <2>3. UNCHANGED link \/ link' = FALSE
    BY <1>11, Zenon DEF Shake, Abandon
  <2> QED BY <1>1, <1>3, <1>4, <1>7, <1>8, <2>1, <2>2, <2>3
<1>12. CASE Handshake
  <2>1. /\ "client" \in Ends /\ "server" \in Ends /\ "Hello" \in Kinds /\ "Welcome" \in Kinds
        /\ {"reply", "welcome", "up"} \subseteq HandshakeStates \cup {"up"}
    BY DEF Ends, Kinds, HandshakeStates
  <2> QED BY <1>10, <1>11, <1>12, <2>1 DEF Handshake, SendHello, AcceptHello, SendWelcome, AcceptWelcome
<1>13. CASE Break
  <2>1. \A e \in Ends : wire'[e] \in Seq(Unit)
    <3>1. \A e \in Ends : \A s \in Prefixes(wire[e]) : s \in Seq(Unit)
      BY <1>0 DEF WireOK, Prefixes
    <3> QED BY <1>13, <3>1 DEF Break, Ends
  <2>2. wire' = [e \in Ends |-> wire'[e]]
    BY <1>13 DEF Break
  <2>3. WireOK'
    BY <2>1, <2>2 DEF WireOK
  <2> QED BY <1>2, <1>3, <1>5, <1>6, <1>13, <2>3 DEF Break
<1>14. ASSUME NEW e \in Ends, ReadHeader(e)
       PROVE  EndsOK' /\ FlagsOK' /\ WireOK' /\ ReaderOK' /\ HistoryOK'
  <2>1. WireOK' /\ Head(Incoming(e)) \in Unit
    BY <1>9, <1>14 DEF ReadHeader
  <2>2. ReaderOK'
    BY <1>0, <1>14, <2>1 DEF ReadHeader, ReaderOK
  <2> QED BY <1>2, <1>3, <1>6, <1>14, <2>1, <2>2 DEF ReadHeader
<1>15. ASSUME NEW e \in Ends, ReadPayload(e)
       PROVE  EndsOK' /\ FlagsOK' /\ WireOK' /\ ReaderOK' /\ HistoryOK'
  <2>1. WireOK' /\ Head(Incoming(e)) \in Unit
    BY <1>9, <1>15 DEF ReadPayload
  <2>2. Append(payload[e], Head(Incoming(e)).id) \in Seq(Nat)
    <3>1. Head(Incoming(e)).id \in Nat /\ payload[e] \in Seq(Nat)
      BY <1>0, <2>1 DEF ReaderOK, Unit
    <3> QED BY <3>1, AppendProperties
  <2>3. ReaderOK'
    BY <1>0, <1>15, <2>2 DEF ReadPayload, ReaderOK
  <2> QED BY <1>2, <1>3, <1>6, <1>15, <2>1, <2>3 DEF ReadPayload
<1>16. ASSUME NEW e \in Ends, ReadFails(e)
       PROVE  EndsOK' /\ FlagsOK' /\ WireOK' /\ ReaderOK' /\ HistoryOK'
  <2>1. UNCHANGED <<version, wire, finished, sent, received>> /\ NextFrame(e)
    BY <1>16 DEF ReadFails
  <2>2. \E s \in HandshakeStates \cup {"up", "ended", "failed"} : pc' = [pc EXCEPT ![e] = s]
    BY <1>16 DEF ReadFails, Stop, Abandon, End
  <2>3. UNCHANGED link \/ link' = FALSE
    BY <1>16, Zenon DEF ReadFails, Stop, Abandon, End
  <2> QED BY <1>1, <1>3, <1>4, <1>6, <1>7, <2>1, <2>2, <2>3
<1>17. ASSUME NEW e \in Ends, Deliver(e)
       PROVE  EndsOK' /\ FlagsOK' /\ WireOK' /\ ReaderOK' /\ HistoryOK'
  <2>1. /\ UNCHANGED <<version, pc, link, wire, finished, sent>> /\ NextFrame(e)
        /\ received' = Received(e) /\ header[e] # None
    BY <1>17 DEF Deliver, Whole
  <2> QED BY <1>2, <1>3, <1>4, <1>7, <1>8, <2>1
<1>18. ASSUME NEW e \in Ends, LinkLost(e)
       PROVE  EndsOK' /\ FlagsOK' /\ WireOK' /\ ReaderOK' /\ HistoryOK'
  BY <1>1, <1>3, <1>4, <1>5, <1>6, <1>18 DEF LinkLost, End
<1>19. ASSUME NEW e \in Ends, Send(e)
       PROVE  EndsOK' /\ FlagsOK' /\ WireOK' /\ ReaderOK' /\ HistoryOK'
  <2>1. UNCHANGED <<version, link, header, payload, received>>
    BY <1>19 DEF Send
  <2>2. PICK size \in Sizes :
          IF Encodes(size) /\ link
          THEN Write(e, "Message", size) /\ UNCHANGED <<pc, finished>>
          ELSE End(e) /\ Finish(e) /\ UNCHANGED <<wire, sent>>
    BY <1>19 DEF Send
  <2>3. CASE Encodes(size) /\ link
    <3>1. Write(e, "Message", size) /\ UNCHANGED <<pc, finished>>
      BY <2>2, <2>3, Zenon
    <3>2. size \in 0 .. MaxPayload /\ "Message" \in Kinds
      BY <2>3, Constants DEF Encodes, Kinds
    <3>3. WireOK' /\ HistoryOK'
      BY <1>0, <2>1, <3>1, <3>2, WriteType DEF WireOK, HistoryOK
    <3> QED BY <1>2, <1>3, <1>5, <2>1, <3>1, <3>3
  <2>4. CASE ~(Encodes(size) /\ link)
    <3>1. End(e) /\ Finish(e) /\ UNCHANGED <<wire, sent>>
      BY <2>2, <2>4, Zenon
    <3>2. finished' \in [Ends -> BOOLEAN]
      BY <1>0, <3>1, Zenon DEF Finish, FlagsOK
    <3>3. FlagsOK'
      BY <1>0, <2>1, <3>2, Zenon DEF FlagsOK
    <3> QED BY <1>1, <1>4, <1>5, <1>6, <2>1, <3>1, <3>3 DEF End
  <2> QED BY <2>3, <2>4
<1>20. CASE UNCHANGED vars
  BY <1>2, <1>3, <1>4, <1>5, <1>6, <1>20 DEF vars
<1> QED
  BY <1>12, <1>13, <1>14, <1>15, <1>16, <1>17, <1>18, <1>19, <1>20 DEF Next, Read

(* Every variable keeps its type, and no frame is longer than the limit    *)
(* that encode_frame and decode_frame share.                               *)
THEOREM TypeCorrect == Spec => []TypeOK
<1>1. Init => TypeInv
  BY TypeInit
<1>2. TypeInv /\ [Next]_vars => TypeInv'
  BY TypeStep
<1> QED BY <1>1, <1>2, TypeInvType, PTL DEF Spec

-----------------------------------------------------------------------------
(* Positions in the messages an end has written: <<m, k>> is after k units *)
(* of the frame of message m.                                              *)

Size(msgs, m) == Len(msgs[m][2])

Within(msgs, p) == p[1] \in 1 .. Len(msgs) /\ p[2] \in 0 .. Size(msgs, p[1])

UnitAt(msgs, ver, p) ==
  IF p[2] = 0
  THEN [type |-> msgs[p[1]][1], length |-> Size(msgs, p[1]), version |-> ver, id |-> p[1] - 1]
  ELSE Byte(p[1] - 1)

After(msgs, p) == IF p[2] < Size(msgs, p[1]) THEN <<p[1], p[2] + 1>> ELSE <<p[1] + 1, 0>>

(* The units are those of the messages from position first to position last *)
(* (at says where each of them is), without a gap.                          *)
Carries(units, msgs, ver, first, last) ==
  \E at \in [1 .. Len(units) + 1 -> Nat \X Nat] :
    /\ at[1] = first /\ at[Len(units) + 1] = last
    /\ \A i \in 1 .. Len(units) :
         Within(msgs, at[i]) /\ units[i] = UnitAt(msgs, ver, at[i]) /\ at[i + 1] = After(msgs, at[i])

LEMMA CarriesNothing ==
  ASSUME NEW msgs, NEW ver, NEW p \in Nat \X Nat
  PROVE  Carries(<<>>, msgs, ver, p, p)
<1> DEFINE at == [i \in 1 .. 1 |-> p]
<1>1. at \in [1 .. 1 -> Nat \X Nat] /\ at[1] = p
  OBVIOUS
<1>2. Len(<<>>) = 0 /\ 0 + 1 = 1 /\ 1 .. 0 = {}
  OBVIOUS
<1> HIDE DEF at
<1> QED BY <1>1, <1>2 DEF Carries

(* The first unit read *)
LEMMA CarriesTail ==
  ASSUME NEW units \in Seq(Unit), units # <<>>, NEW msgs, NEW ver, NEW first, NEW last,
         Carries(units, msgs, ver, first, last)
  PROVE  /\ Within(msgs, first) /\ Head(units) = UnitAt(msgs, ver, first)
         /\ Carries(Tail(units), msgs, ver, After(msgs, first), last)
<1> DEFINE n    == Len(units)
           rest == Tail(units)
<1>1. PICK at \in [1 .. n + 1 -> Nat \X Nat] :
        /\ at[1] = first /\ at[n + 1] = last
        /\ \A i \in 1 .. n :
             Within(msgs, at[i]) /\ units[i] = UnitAt(msgs, ver, at[i]) /\ at[i + 1] = After(msgs, at[i])
  BY DEF Carries
<1>2. /\ n \in Nat /\ n >= 1 /\ Head(units) = units[1] /\ Len(rest) = n - 1
      /\ \A i \in 1 .. n - 1 : rest[i] = units[i + 1]
  OBVIOUS
<1> DEFINE back == [i \in 1 .. n |-> at[i + 1]]
<1>3. /\ back \in [1 .. n -> Nat \X Nat] /\ back[1] = After(msgs, first) /\ back[n] = last
      /\ \A i \in 1 .. n : back[i] = at[i + 1]
  BY <1>1, <1>2
<1> HIDE DEF back, rest
<1>4. ASSUME NEW i \in 1 .. n - 1
      PROVE  Within(msgs, back[i]) /\ rest[i] = UnitAt(msgs, ver, back[i]) /\ back[i + 1] = After(msgs, back[i])
  <2>1. i \in 1 .. n /\ i + 1 \in 1 .. n
    BY <1>2
  <2> QED BY <1>1, <1>2, <1>3, <2>1
<1>5. Carries(rest, msgs, ver, After(msgs, first), last)
  <2>1. Len(rest) + 1 = n /\ Len(rest) = n - 1
    BY <1>2
  <2> HIDE DEF n
  <2> QED BY <1>3, <1>4, <2>1 DEF Carries
<1>6. 1 \in 1 .. n
  BY <1>2
<1> QED BY <1>1, <1>2, <1>5, <1>6 DEF rest

(* What arrives of it *)
LEMMA CarriesPrefix ==
  ASSUME NEW units \in Seq(Unit), NEW msgs, NEW ver, NEW first, NEW last,
         Carries(units, msgs, ver, first, last), NEW part \in Prefixes(units)
  PROVE  \E l : Carries(part, msgs, ver, first, l)
<1> DEFINE n == Len(units)
<1>1. PICK at \in [1 .. n + 1 -> Nat \X Nat] :
        /\ at[1] = first /\ at[n + 1] = last
        /\ \A i \in 1 .. n :
             Within(msgs, at[i]) /\ units[i] = UnitAt(msgs, ver, at[i]) /\ at[i + 1] = After(msgs, at[i])
  BY DEF Carries
<1>2. PICK len \in 0 .. n : part = SubSeq(units, 1, len)
  BY DEF Prefixes
<1>3. n \in Nat /\ Len(part) = len /\ \A i \in 1 .. len : part[i] = units[i]
  BY <1>2
<1> DEFINE begun == [i \in 1 .. len + 1 |-> at[i]]
<1> HIDE DEF n
<1>a. \A i \in 1 .. len + 1 : i \in 1 .. n + 1 /\ at[i] \in Nat \X Nat
  BY <1>1, <1>3
<1>4. /\ begun \in [1 .. len + 1 -> Nat \X Nat] /\ begun[1] = first
      /\ \A i \in 1 .. len + 1 : begun[i] = at[i]
  BY <1>1, <1>3, <1>a
<1> HIDE DEF begun
<1>5. ASSUME NEW i \in 1 .. len
      PROVE  Within(msgs, begun[i]) /\ part[i] = UnitAt(msgs, ver, begun[i])
             /\ begun[i + 1] = After(msgs, begun[i])
  <2>1. i \in 1 .. n /\ i \in 1 .. len + 1 /\ i + 1 \in 1 .. len + 1
    BY <1>3
  <2> QED BY <1>1, <1>3, <1>4, <2>1
<1>6. Carries(part, msgs, ver, first, begun[len + 1])
  BY <1>3, <1>4, <1>5 DEF Carries
<1> QED BY <1>6

(* A further message changes no position in the earlier ones. *)
LEMMA FurtherMessage ==
  ASSUME NEW msgs \in Seq(Messages), NEW msg \in Messages, NEW ver, NEW p, Within(msgs, p)
  PROVE  /\ Within(Append(msgs, msg), p) /\ After(Append(msgs, msg), p) = After(msgs, p)
         /\ UnitAt(Append(msgs, msg), ver, p) = UnitAt(msgs, ver, p)
<1>1. /\ Len(Append(msgs, msg)) = Len(msgs) + 1 /\ Len(msgs) \in Nat
      /\ \A m \in 1 .. Len(msgs) : Append(msgs, msg)[m] = msgs[m]
  BY AppendProperties
<1> DEFINE more == Append(msgs, msg)
<1> HIDE DEF more
<1>2. p[1] \in 1 .. Len(msgs) /\ p[1] \in 1 .. Len(more) /\ more[p[1]] = msgs[p[1]]
  BY <1>1 DEF Within, more
<1>3. Within(more, p) /\ After(more, p) = After(msgs, p) /\ UnitAt(more, ver, p) = UnitAt(msgs, ver, p)
  BY <1>2 DEF Within, After, UnitAt, Size
<1> QED BY <1>3 DEF more

(* The units of a frame are those of the message it was made of. *)
LEMMA UnitsWritten ==
  ASSUME NEW msgs \in Seq(Messages), NEW msg \in Messages, NEW ver, NEW frame,
         frame[1] = [type |-> msg[1], length |-> Len(msg[2]), version |-> ver, id |-> Len(msgs)],
         \A i \in 2 .. Len(msg[2]) + 1 : frame[i] = Byte(Len(msgs))
  PROVE  \A k \in 0 .. Len(msg[2]) : frame[k + 1] = UnitAt(Append(msgs, msg), ver, <<Len(msgs) + 1, k>>)
<1> SUFFICES ASSUME NEW k \in 0 .. Len(msg[2])
             PROVE  frame[k + 1] = UnitAt(Append(msgs, msg), ver, <<Len(msgs) + 1, k>>)
  OBVIOUS
<1> DEFINE more == Append(msgs, msg)
<1>1. Len(msgs) \in Nat /\ (Len(msgs) + 1) - 1 = Len(msgs) /\ more[Len(msgs) + 1] = msg
  BY AppendProperties
<1>2. Size(more, Len(msgs) + 1) = Len(msg[2])
  BY <1>1 DEF Size
<1> HIDE DEF more
<1>3. CASE k = 0
  <2>1. UnitAt(more, ver, <<Len(msgs) + 1, 0>>) = frame[1]
    BY <1>1, <1>2 DEF UnitAt
  <2>2. k + 1 = 1
    BY <1>3
  <2> QED BY <1>3, <2>1, <2>2 DEF more
<1>4. CASE k # 0
  <2>1. k + 1 \in 2 .. Len(msg[2]) + 1
    BY <1>4
  <2>2. UnitAt(more, ver, <<Len(msgs) + 1, k>>) = Byte(Len(msgs))
    BY <1>1, <1>4 DEF UnitAt
  <2> QED BY <2>1, <2>2 DEF more
<1> QED BY <1>3, <1>4

(* A message written behind everything else *)
LEMMA CarriesFrame ==
  ASSUME NEW units \in Seq(Unit), NEW msgs \in Seq(Messages), NEW ver, NEW first,
         Carries(units, msgs, ver, first, <<Len(msgs) + 1, 0>>),
         NEW msg \in Messages, NEW frame \in Seq(Unit), Len(frame) = Len(msg[2]) + 1,
         \A k \in 0 .. Len(msg[2]) : frame[k + 1] = UnitAt(Append(msgs, msg), ver, <<Len(msgs) + 1, k>>)
  PROVE  Carries(units \o frame, Append(msgs, msg), ver, first, <<Len(msgs) + 2, 0>>)
<1> DEFINE n    == Len(units)
           m    == Len(msgs) + 1
           size == Len(msg[2])
           all  == units \o frame
           more == Append(msgs, msg)
<1>0. n \in Nat /\ m \in Nat /\ m - 1 = Len(msgs) /\ size \in Nat /\ msg[2] \in Seq(Nat)
  BY DEF Messages
<1>1. PICK at \in [1 .. n + 1 -> Nat \X Nat] :
        /\ at[1] = first /\ at[n + 1] = <<m, 0>>
        /\ \A i \in 1 .. n :
             Within(msgs, at[i]) /\ units[i] = UnitAt(msgs, ver, at[i]) /\ at[i + 1] = After(msgs, at[i])
  BY DEF Carries
<1>2. Len(more) = m /\ more[m] = msg
  BY AppendProperties
<1>3. /\ Len(all) = n + size + 1
      /\ \A i \in 1 .. n + size + 1 : all[i] = IF i <= n THEN units[i] ELSE frame[i - n]
  <2>1. /\ Len(all) = n + Len(frame)
        /\ \A i \in 1 .. n + Len(frame) : all[i] = IF i <= n THEN units[i] ELSE frame[i - n]
    BY ConcatProperties
  <2> QED BY <1>0, <2>1
<1>a. n \in Nat /\ m \in Nat /\ size \in Nat
  BY <1>0
<1> HIDE DEF n, m, size
<1> DEFINE to == [i \in 1 .. n + size + 2 |->
                    IF i <= n THEN at[i] ELSE IF i <= n + size + 1 THEN <<m, i - n - 1>> ELSE <<m + 1, 0>>]
<1>4. \A i \in 1 .. n : to[i] = at[i]
  BY <1>a
<1>5. \A i \in n + 1 .. n + size + 1 : to[i] = <<m, i - n - 1>>
  <2>1. \A i \in n + 1 .. n + size + 1 : i \in 1 .. n + size + 2 /\ ~(i <= n) /\ i <= n + size + 1
    <3> HIDE DEF to, all, more
    <3> QED BY <1>a
  <2>2. \A i \in 1 .. n + size + 2 : ~(i <= n) /\ i <= n + size + 1 => to[i] = <<m, i - n - 1>>
    BY Zenon
  <2> HIDE DEF to
  <2> QED BY <2>1, <2>2, Zenon
<1>6. to[n + size + 2] = <<m + 1, 0>>
  BY <1>a
<1>7. to \in [1 .. n + size + 2 -> Nat \X Nat]
  <2>1. \A i \in 1 .. n : at[i] \in Nat \X Nat
    BY <1>a, <1>1
  <2>2. \A i \in n + 1 .. n + size + 1 : <<m, i - n - 1>> \in Nat \X Nat
    BY <1>a
  <2>3. <<m + 1, 0>> \in Nat \X Nat
    BY <1>a
  <2>4. \A i \in 1 .. n + size + 2 : i \in 1 .. n \/ i \in n + 1 .. n + size + 1 \/ i = n + size + 2
    BY <1>a
  <2>5. to = [i \in 1 .. n + size + 2 |-> to[i]]
    OBVIOUS
  <2> HIDE DEF to
  <2>6. \A i \in 1 .. n + size + 2 : to[i] \in Nat \X Nat
    BY <1>4, <1>5, <1>6, <2>1, <2>2, <2>3, <2>4
  <2> QED BY <2>5, <2>6
<1> HIDE DEF to, all, more
<1>8. to[n + 1] = <<m, 0>>
  <2>1. n + 1 \in n + 1 .. n + size + 1 /\ (n + 1) - n - 1 = 0
    BY <1>a
  <2> QED BY <1>5, <2>1
<1>9. \A i \in 1 .. n + 1 : to[i] = at[i]
  <2>1. \A i \in 1 .. n + 1 : i \in 1 .. n \/ i = n + 1
    BY <1>a
  <2> QED BY <1>1, <1>4, <1>8, <2>1
<1>10. ASSUME NEW i \in 1 .. n
       PROVE  Within(more, to[i]) /\ all[i] = UnitAt(more, ver, to[i]) /\ to[i + 1] = After(more, to[i])
  <2>1. i \in 1 .. n + size + 1 /\ i <= n /\ i \in 1 .. n + 1 /\ i + 1 \in 1 .. n + 1
    BY <1>a
  <2>2. Within(msgs, at[i]) /\ all[i] = UnitAt(msgs, ver, at[i]) /\ to[i + 1] = After(msgs, at[i])
    BY <1>1, <1>3, <1>9, <2>1
  <2>3. to[i] = at[i]
    BY <1>9, <2>1
  <2> QED BY <2>2, <2>3, FurtherMessage DEF more
<1>11. ASSUME NEW i \in n + 1 .. n + size + 1
       PROVE  Within(more, to[i]) /\ all[i] = UnitAt(more, ver, to[i]) /\ to[i + 1] = After(more, to[i])
  <2> DEFINE k == i - n - 1
  <2>1. k \in 0 .. size /\ i \in 1 .. n + size + 1 /\ ~(i <= n) /\ i - n = k + 1
    BY <1>a
  <2>2. to[i] = <<m, k>> /\ all[i] = frame[k + 1]
    BY <1>3, <1>5, <2>1
  <2>3. Size(more, m) = size /\ more[m][1] = msg[1]
    BY <1>2 DEF Size, size
  <2>4. Within(more, <<m, k>>)
    BY <1>0, <1>2, <2>1, <2>3 DEF Within
  <2> HIDE DEF k
  <2>5. frame[k + 1] = UnitAt(more, ver, <<m, k>>)
    <3>1. k \in 0 .. Len(msg[2])
      BY <2>1 DEF size
    <3> QED BY <3>1 DEF m, more
  <2>6. to[i + 1] = After(more, <<m, k>>)
    <3>1. CASE k < size
      <4>1. i + 1 \in n + 1 .. n + size + 1 /\ (i + 1) - n - 1 = k + 1
        BY <1>a, <2>1, <3>1 DEF k
      <4>2. to[i + 1] = <<m, k + 1>>
        BY <1>5, <4>1
      <4> QED BY <2>3, <3>1, <4>2 DEF After
    <3>2. CASE ~(k < size)
      <4>1. i + 1 = n + size + 2
        BY <1>a, <2>1, <3>2 DEF k
      <4> QED BY <1>6, <2>3, <3>2, <4>1 DEF After
    <3> QED BY <3>1, <3>2
  <2> QED BY <2>2, <2>4, <2>5, <2>6
<1>12. /\ Len(all) + 1 = n + size + 2 /\ Len(msgs) + 2 = m + 1 /\ to[1] = first
       /\ \A i \in 1 .. Len(all) : i \in 1 .. n \/ i \in n + 1 .. n + size + 1
  <2>1. 1 \in 1 .. n + 1
    BY <1>a
  <2>2. Len(msgs) + 2 = m + 1
    BY <1>0 DEF m
  <2> QED BY <1>a, <1>1, <1>3, <1>9, <2>1, <2>2
<1>13. Carries(all, more, ver, first, <<Len(msgs) + 2, 0>>)
  BY <1>6, <1>7, <1>10, <1>11, <1>12 DEF Carries
<1> QED BY <1>13 DEF all, more

(* The same, of what a writer knows of the frame *)
LEMMA CarriesWrite ==
  ASSUME NEW units \in Seq(Unit), NEW msgs \in Seq(Messages), NEW ver, NEW first,
         Carries(units, msgs, ver, first, <<Len(msgs) + 1, 0>>),
         NEW msg \in Messages, NEW frame \in Seq(Unit), Len(frame) = Len(msg[2]) + 1,
         frame[1] = [type |-> msg[1], length |-> Len(msg[2]), version |-> ver, id |-> Len(msgs)],
         \A i \in 2 .. Len(msg[2]) + 1 : frame[i] = Byte(Len(msgs))
  PROVE  Carries(units \o frame, Append(msgs, msg), ver, first, <<Len(msgs) + 2, 0>>)
<1>1. \A k \in 0 .. Len(msg[2]) : frame[k + 1] = UnitAt(Append(msgs, msg), ver, <<Len(msgs) + 1, k>>)
  BY UnitsWritten, Zenon
<1> QED BY <1>1, CarriesFrame

-----------------------------------------------------------------------------
(* Every reader keeps step with its writer *)

Alive(e) == pc[e] \notin {"ended", "failed"}

(* Byte after byte of a message is its number. *)
Numbered ==
  \A e \in Ends : \A m \in 1 .. Len(sent[e]) :
    \A i \in 1 .. Size(sent[e], m) : sent[e][m][2][i] = m - 1

HandedOn(e) ==
  /\ Len(received[e]) <= Len(sent[Peer(e)])
  /\ \A i \in 1 .. Len(received[e]) : received[e][i] = sent[Peer(e)][i]

(* What is read of a frame is the beginning of the next message. *)
FrameBegun(e) ==
  IF header[e] = None
  THEN payload[e] = <<>>
  ELSE /\ Len(received[e]) + 1 <= Len(sent[Peer(e)])
       /\ header[e] = UnitAt(sent[Peer(e)], version[Peer(e)], <<Len(received[e]) + 1, 0>>)
       /\ Len(payload[e]) <= header[e].length
       /\ \A j \in 1 .. Len(payload[e]) : payload[e][j] = Len(received[e])

(* The position of the next unit to read *)
Place(e) ==
  IF header[e] = None
  THEN <<Len(received[e]) + 1, 0>>
  ELSE After(sent[Peer(e)], <<Len(received[e]) + 1, Len(payload[e])>>)

(* The stream goes on from there, to the end of what is sent while the link *)
(* is up.                                                                   *)
Streamed(e) ==
  \E last : /\ Carries(wire[Peer(e)], sent[Peer(e)], version[Peer(e)], Place(e), last)
            /\ link = TRUE => last = <<Len(sent[Peer(e)]) + 1, 0>>

InStep(e) == HandedOn(e) /\ (Alive(e) => FrameBegun(e) /\ Streamed(e))

Following == Numbered /\ \A e \in Ends : InStep(e)

LEMMA FollowingInit == Init => Following
<1> SUFFICES ASSUME Init PROVE Following
  OBVIOUS
<1>1. Numbered
  BY DEF Init, Numbered
<1>2. ASSUME NEW e \in Ends PROVE InStep(e)
  <2> PICK p \in Ends : p = Peer(e)
    BY Peers
  <2>1. /\ sent[p] = <<>> /\ wire[p] = <<>> /\ received[e] = <<>> /\ header[e] = None /\ payload[e] = <<>>
        /\ Len(<<>>) = 0
    BY DEF Init
  <2>2. HandedOn(e) /\ FrameBegun(e)
    BY <2>1 DEF HandedOn, FrameBegun
  <2>3. Place(e) = <<1, 0>>
    BY <2>1 DEF Place
  <2>4. Carries(<<>>, <<>>, version[p], <<1, 0>>, <<1, 0>>)
    BY CarriesNothing
  <2>5. Streamed(e)
    BY <2>1, <2>3, <2>4 DEF Streamed
  <2> QED BY <2>2, <2>5 DEF InStep
<1> QED BY <1>1, <1>2 DEF Following

(* An end whose stream and whose part of a frame are left alone *)
LEMMA InStepSame ==
  ASSUME NEW e \in Ends, InStep(e), UNCHANGED version, UNCHANGED received[e],
         UNCHANGED <<wire[Peer(e)], sent[Peer(e)]>>,
         Alive(e)' => Alive(e) /\ UNCHANGED <<header[e], payload[e]>>,
         link' = TRUE => link = TRUE
  PROVE  InStep(e)'
<1> PICK p \in Ends : p = Peer(e)
  BY Peers
<1>1. HandedOn(e)'
  BY DEF InStep, HandedOn
<1>2. ASSUME Alive(e)' PROVE FrameBegun(e)' /\ Streamed(e)'
  <2>1. FrameBegun(e) /\ Streamed(e) /\ UNCHANGED <<header[e], payload[e]>>
    BY <1>2 DEF InStep
  <2>2. FrameBegun(e)' /\ Place(e)' = Place(e)
    BY <2>1 DEF FrameBegun, Place
  <2> QED BY <2>1, <2>2 DEF Streamed
<1> QED BY <1>1, <1>2 DEF InStep

(* What is known of a frame that is being read *)
LEMMA FrameFacts ==
  ASSUME TypeInv, Numbered, NEW e \in Ends, InStep(e), Alive(e)
  PROVE  LET k    == Len(received[e])
             msgs == sent[Peer(e)]
         IN  /\ k \in Nat /\ Len(payload[e]) \in Nat /\ wire[Peer(e)] \in Seq(Unit) /\ msgs \in Seq(Messages)
             /\ Place(e) \in Nat \X Nat
             /\ header[e] # None =>
                  /\ k + 1 \in 1 .. Len(msgs) /\ msgs[k + 1] \in Messages
                  /\ header[e].type = msgs[k + 1][1] /\ header[e].length = Size(msgs, k + 1)
                  /\ header[e].version = version[Peer(e)]
                  /\ \A i \in 1 .. Size(msgs, k + 1) : msgs[k + 1][2][i] = k
<1> PICK p \in Ends : p = Peer(e)
  BY Peers
<1> DEFINE k    == Len(received[e])
           msgs == sent[p]
<1>1. k \in Nat /\ Len(payload[e]) \in Nat /\ wire[p] \in Seq(Unit) /\ msgs \in Seq(Messages) /\ Len(msgs) \in Nat
  BY DEF TypeInv, WireOK, ReaderOK, HistoryOK
<1>2. FrameBegun(e)
  BY DEF InStep
<1>3. ASSUME header[e] # None
      PROVE  /\ k + 1 \in 1 .. Len(msgs) /\ msgs[k + 1] \in Messages
             /\ header[e].type = msgs[k + 1][1] /\ header[e].length = Size(msgs, k + 1)
             /\ header[e].version = version[p]
             /\ \A i \in 1 .. Size(msgs, k + 1) : msgs[k + 1][2][i] = k
  <2>1. k + 1 <= Len(msgs) /\ header[e] = UnitAt(msgs, version[p], <<k + 1, 0>>)
    BY <1>2, <1>3 DEF FrameBegun
  <2>2. k + 1 \in 1 .. Len(msgs) /\ msgs[k + 1] \in Messages
    BY <1>1, <2>1, ElementOfSeq
  <2>3. /\ header[e].type = msgs[k + 1][1] /\ header[e].length = Size(msgs, k + 1)
        /\ header[e].version = version[p]
    BY <2>1 DEF UnitAt
  <2>4. \A i \in 1 .. Size(msgs, k + 1) : msgs[k + 1][2][i] = (k + 1) - 1
    BY <2>2 DEF Numbered
  <2>5. (k + 1) - 1 = k
    BY <1>1
  <2> QED BY <2>2, <2>3, <2>4, <2>5
<1>4. Place(e) \in Nat \X Nat
  BY <1>1 DEF Place, After
<1> QED BY <1>1, <1>3, <1>4

(* The end e reads a header. *)
LEMMA InStepHeader ==
  ASSUME TypeInv, Following, NEW e \in Ends, ReadHeader(e)
  PROVE  InStep(e)'
<1> PICK p \in Ends : p = Peer(e)
  BY Peers
<1> DEFINE k    == Len(received[e])
           msgs == sent[p]
<1>1. /\ Alive(e) /\ InStep(e) /\ Numbered /\ header[e] = None /\ wire[p] # <<>>
      /\ UNCHANGED <<version, pc, link, payload, sent, received>>
  BY DEF Following, ReadHeader, Reading, Alive, Incoming
<1>2. FrameBegun(e) /\ HandedOn(e) /\ payload[e] = <<>> /\ Place(e) = <<k + 1, 0>>
  BY <1>1 DEF InStep, FrameBegun, Place
<1>3. k \in Nat /\ wire[p] \in Seq(Unit) /\ msgs \in Seq(Messages)
  BY <1>1, FrameFacts
<1>4. header'[e] = Head(wire[p]) /\ wire'[p] = Tail(wire[p])
  BY DEF ReadHeader, Incoming, TypeInv, ReaderOK, WireOK
<1>5. PICK last : Carries(wire[p], msgs, version[p], <<k + 1, 0>>, last)
                  /\ (link = TRUE => last = <<Len(msgs) + 1, 0>>)
  BY <1>1, <1>2 DEF InStep, Streamed
<1>6. /\ Within(msgs, <<k + 1, 0>>) /\ header'[e] = UnitAt(msgs, version[p], <<k + 1, 0>>)
      /\ Carries(wire'[p], msgs, version[p], After(msgs, <<k + 1, 0>>), last)
  BY <1>1, <1>3, <1>4, <1>5, CarriesTail
<1>7. header'[e] # None
  <2>1. Head(wire[p]) \in Unit
    BY <1>1, <1>3, HeadTailProperties
  <2> QED BY <1>4, <2>1, Constants
<1>8. FrameBegun(e)'
  <2>1. k + 1 <= Len(msgs) /\ 0 <= header'[e].length
    <3>1. Size(msgs, k + 1) >= 0 /\ k + 1 \in 1 .. Len(msgs)
      BY <1>6 DEF Within
    <3> QED BY <1>3, <1>6, <3>1 DEF UnitAt
  <2> QED BY <1>1, <1>2, <1>6, <1>7, <2>1 DEF FrameBegun
<1>9. Streamed(e)'
  <2>1. Place(e)' = After(msgs, <<k + 1, 0>>)
    BY <1>1, <1>2, <1>7 DEF Place
  <2> QED BY <1>1, <1>5, <1>6, <2>1 DEF Streamed
<1>10. HandedOn(e)'
  BY <1>1, <1>2 DEF HandedOn
<1> QED BY <1>8, <1>9, <1>10 DEF InStep

(* The end e reads a byte of the payload. *)
LEMMA InStepPayload ==
  ASSUME TypeInv, Following, NEW e \in Ends, ReadPayload(e)
  PROVE  InStep(e)'
<1> PICK p \in Ends : p = Peer(e)
  BY Peers
<1> DEFINE k    == Len(received[e])
           msgs == sent[p]
           n    == Len(payload[e])
<1>1. /\ Alive(e) /\ InStep(e) /\ Numbered /\ header[e] # None /\ n # header[e].length /\ wire[p] # <<>>
      /\ UNCHANGED <<version, pc, link, header, sent, received>>
  BY DEF Following, ReadPayload, Reading, Alive, Incoming, Whole
<1>2. FrameBegun(e) /\ HandedOn(e)
  BY <1>1 DEF InStep
<1>3. /\ k \in Nat /\ n \in Nat /\ wire[p] \in Seq(Unit) /\ msgs \in Seq(Messages)
      /\ k + 1 \in 1 .. Len(msgs) /\ header[e].length = Size(msgs, k + 1) /\ payload[e] \in Seq(Nat)
  BY <1>1, FrameFacts DEF TypeInv, ReaderOK
<1>4. n + 1 <= Size(msgs, k + 1) /\ Size(msgs, k + 1) \in Nat
  <2>1. msgs[k + 1] \in Messages
    BY <1>3, ElementOfSeq
  <2>2. Size(msgs, k + 1) \in Nat
    BY <2>1 DEF Size, Messages
  <2> QED BY <1>1, <1>2, <1>3, <2>2 DEF FrameBegun
<1>5. Place(e) = <<k + 1, n + 1>>
  BY <1>1, <1>3, <1>4 DEF Place, After
<1>6. PICK last : Carries(wire[p], msgs, version[p], <<k + 1, n + 1>>, last)
                  /\ (link = TRUE => last = <<Len(msgs) + 1, 0>>)
  BY <1>1, <1>5 DEF InStep, Streamed
<1>7. /\ Head(wire[p]) = UnitAt(msgs, version[p], <<k + 1, n + 1>>)
      /\ Carries(Tail(wire[p]), msgs, version[p], After(msgs, <<k + 1, n + 1>>), last)
  BY <1>1, <1>3, <1>6, CarriesTail
<1>8. Head(wire[p]).id = k
  BY <1>3, <1>7 DEF UnitAt, Byte
<1>9. payload'[e] = Append(payload[e], k) /\ wire'[p] = Tail(wire[p])
  BY <1>8 DEF ReadPayload, Incoming, TypeInv, ReaderOK, WireOK
<1>10. Len(payload'[e]) = n + 1 /\ \A j \in 1 .. n + 1 : payload'[e][j] = k
  <2>1. /\ Len(payload'[e]) = n + 1 /\ payload'[e][n + 1] = k
        /\ \A j \in 1 .. n : payload'[e][j] = payload[e][j]
    BY <1>3, <1>9, AppendProperties
  <2>2. \A j \in 1 .. n : payload[e][j] = k
    BY <1>1, <1>2 DEF FrameBegun
  <2>3. \A j \in 1 .. n + 1 : j \in 1 .. n \/ j = n + 1
    BY <1>3
  <2> QED BY <2>1, <2>2, <2>3
<1>11. FrameBegun(e)'
  BY <1>1, <1>2, <1>3, <1>4, <1>10 DEF FrameBegun
<1>12. Streamed(e)'
  <2>1. Place(e)' = After(msgs, <<k + 1, n + 1>>)
    BY <1>1, <1>10 DEF Place
  <2> QED BY <1>1, <1>6, <1>7, <1>9, <2>1 DEF Streamed
<1>13. HandedOn(e)'
  BY <1>1, <1>2 DEF HandedOn
<1> QED BY <1>11, <1>12, <1>13 DEF InStep

(* The end e hands a whole message on. *)
LEMMA InStepWhole ==
  ASSUME TypeInv, Following, NEW e \in Ends, Alive(e), Whole(e), received' = Received(e), NextFrame(e),
         UNCHANGED <<version, wire, sent>>, link' = TRUE => link = TRUE
  PROVE  InStep(e)'
<1> PICK p \in Ends : p = Peer(e)
  BY Peers
<1> DEFINE k    == Len(received[e])
           msgs == sent[p]
           msg  == <<header[e].type, payload[e]>>
<1>1. InStep(e) /\ Numbered /\ header[e] # None /\ Len(payload[e]) = header[e].length
  BY DEF Following, Whole
<1>2. FrameBegun(e) /\ HandedOn(e)
  BY <1>1 DEF InStep
<1>3. /\ k \in Nat /\ msgs \in Seq(Messages)
      /\ k + 1 \in 1 .. Len(msgs) /\ msgs[k + 1] \in Messages
      /\ header[e].type = msgs[k + 1][1] /\ Len(payload[e]) = Size(msgs, k + 1)
      /\ \A i \in 1 .. Size(msgs, k + 1) : msgs[k + 1][2][i] = k
      /\ received[e] \in Seq(Messages) /\ payload[e] \in Seq(Nat)
  BY <1>1, FrameFacts DEF TypeInv, HistoryOK, ReaderOK
<1>4. msg = msgs[k + 1]
  <2>1. msgs[k + 1][2] \in Seq(Nat) /\ msgs[k + 1] = <<msgs[k + 1][1], msgs[k + 1][2]>>
    BY <1>3 DEF Messages
  <2>2. \A j \in 1 .. Len(payload[e]) : payload[e][j] = msgs[k + 1][2][j]
    BY <1>1, <1>2, <1>3 DEF FrameBegun
  <2>3. payload[e] = msgs[k + 1][2]
    BY <1>3, <2>1, <2>2, SeqEqual DEF Size
  <2> QED BY <1>3, <2>1, <2>3
<1>5. received'[e] = Append(received[e], msgs[k + 1])
  BY <1>4 DEF Received, TypeInv, HistoryOK
<1>6. /\ Len(received'[e]) = k + 1 /\ received'[e][k + 1] = msgs[k + 1]
      /\ \A i \in 1 .. k : received'[e][i] = received[e][i]
  BY <1>3, <1>5, AppendProperties
<1>7. HandedOn(e)'
  <2>1. \A i \in 1 .. k + 1 : i \in 1 .. k \/ i = k + 1
    BY <1>3
  <2> QED BY <1>2, <1>3, <1>6, <2>1 DEF HandedOn
<1>8. header'[e] = None /\ payload'[e] = <<>>
  BY DEF NextFrame, TypeInv, ReaderOK
<1>9. Place(e) = <<(k + 1) + 1, 0>> /\ Place(e)' = <<(k + 1) + 1, 0>>
  <2>1. ~(Len(payload[e]) < Size(msgs, k + 1))
    BY <1>1, <1>3 DEF TypeInv, ReaderOK
  <2>2. Place(e) = <<(k + 1) + 1, 0>>
    BY <1>1, <2>1 DEF Place, After
  <2> QED BY <1>6, <1>8, <2>2 DEF Place
<1>10. FrameBegun(e)' /\ Streamed(e)'
  BY <1>1, <1>8, <1>9 DEF FrameBegun, Streamed, InStep
<1> QED BY <1>7, <1>10 DEF InStep

(* The peer of e writes a message. *)
LEMMA InStepWrite ==
  ASSUME TypeInv, Following, NEW e \in Ends, NEW type \in Kinds, NEW size \in 0 .. MaxPayload,
         Write(Peer(e), type, size), link = TRUE, UNCHANGED <<version, header, payload, received>>,
         Alive(e)' => Alive(e)
  PROVE  InStep(e)'
<1> PICK p \in Ends : p = Peer(e)
  BY Peers
<1> DEFINE msgs  == sent[p]
           id    == Len(msgs)
           frame == Frame(p, type, size, id)
           msg   == <<type, [i \in 1 .. size |-> id]>>
<1>1. /\ EndsOK /\ msgs \in Seq(Messages) /\ id \in Nat /\ size \in Nat /\ wire[p] \in Seq(Unit)
      /\ wire'[p] = wire[p] \o frame /\ sent'[p] = Append(msgs, msg)
  <2>1. /\ EndsOK /\ msgs \in Seq(Messages) /\ id \in Nat /\ size \in Nat /\ wire[p] \in Seq(Unit)
        /\ p \in DOMAIN wire /\ p \in DOMAIN sent
    BY Constants DEF TypeInv, WireOK, HistoryOK
  <2>2. wire' = [wire EXCEPT ![p] = @ \o frame] /\ sent' = [sent EXCEPT ![p] = Append(@, msg)]
    BY DEF Write
  <2> HIDE DEF frame, msg, id
  <2> QED BY <2>1, <2>2
<1>2. /\ frame \in Seq(Unit) /\ Len(frame) = size + 1 /\ frame[1] = Header(p, type, size, id)
      /\ \A i \in 2 .. size + 1 : frame[i] = Byte(id)
  BY <1>1, FrameUnits
<1>3. msg \in Messages /\ msg[1] = type /\ Len(msg[2]) = size
  <2>1. [i \in 1 .. size |-> id] \in Seq(Nat) /\ Len([i \in 1 .. size |-> id]) = size
    BY <1>1
  <2> QED BY <2>1 DEF Messages
<1> HIDE DEF frame, msg
<1>4. /\ Len(sent'[p]) = Len(msgs) + 1 /\ \A m \in 1 .. Len(msgs) : sent'[p][m] = msgs[m]
  BY <1>1, <1>3, AppendProperties
<1>5. HandedOn(e)'
  <2>1. HandedOn(e) /\ Len(received[e]) \in Nat
    BY DEF Following, InStep, TypeInv, HistoryOK
  <2> QED BY <1>1, <1>4, <2>1 DEF HandedOn
<1>6. ASSUME Alive(e)' PROVE FrameBegun(e)' /\ Streamed(e)'
  <2>1. FrameBegun(e) /\ Streamed(e) /\ Numbered /\ InStep(e) /\ Alive(e)
    BY <1>6 DEF Following, InStep
  <2> DEFINE k == Len(received[e])
             first == Place(e)
  <2>2. /\ k \in Nat /\ Len(payload[e]) \in Nat
        /\ header[e] # None => k + 1 \in 1 .. Len(msgs) /\ header[e].length = Size(msgs, k + 1)
    BY <2>1, FrameFacts
  <2>3. header[e] # None =>
          /\ Within(msgs, <<k + 1, 0>>) /\ Within(msgs, <<k + 1, Len(payload[e])>>)
    <3> SUFFICES ASSUME header[e] # None
                 PROVE  Within(msgs, <<k + 1, 0>>) /\ Within(msgs, <<k + 1, Len(payload[e])>>)
      OBVIOUS
    <3>1. msgs[k + 1] \in Messages
      BY <1>1, <2>2, ElementOfSeq
    <3>2. Size(msgs, k + 1) \in Nat
      BY <3>1 DEF Size, Messages
    <3>3. Len(payload[e]) <= Size(msgs, k + 1)
      BY <2>1, <2>2 DEF FrameBegun
    <3> QED BY <2>2, <3>2, <3>3 DEF Within
  <2>4. FrameBegun(e)'
    <3>1. CASE header[e] = None
      BY <2>1, <3>1 DEF FrameBegun
    <3>2. CASE header[e] # None
      <4>1. UnitAt(sent'[p], version[p], <<k + 1, 0>>) = UnitAt(msgs, version[p], <<k + 1, 0>>)
        BY <1>1, <1>3, <2>3, <3>2, FurtherMessage
      <4> QED BY <1>1, <1>4, <2>1, <2>2, <3>2, <4>1 DEF FrameBegun
    <3> QED BY <3>1, <3>2
  <2>5. Place(e)' = Place(e)
    <3>1. CASE header[e] = None
      BY <3>1 DEF Place
    <3>2. CASE header[e] # None
      <4>1. After(sent'[p], <<k + 1, Len(payload[e])>>) = After(msgs, <<k + 1, Len(payload[e])>>)
        BY <1>1, <1>3, <2>3, <3>2, FurtherMessage
      <4> QED BY <3>2, <4>1 DEF Place
    <3> QED BY <3>1, <3>2
  <2>6. Carries(wire[p], msgs, version[p], Place(e), <<Len(msgs) + 1, 0>>)
    BY <2>1 DEF Streamed
  <2>7. frame[1] = [type |-> msg[1], length |-> Len(msg[2]), version |-> version[p], id |-> Len(msgs)]
    BY <1>2, <1>3 DEF Header
  <2> HIDE DEF id
  <2>8. /\ Len(frame) = Len(msg[2]) + 1 /\ \A i \in 2 .. Len(msg[2]) + 1 : frame[i] = Byte(Len(msgs))
    BY <1>2, <1>3 DEF id
  <2> DEFINE ver == version[p]
  <2> HIDE DEF msgs, first, ver
  <2>9. Carries(wire[p] \o frame, Append(msgs, msg), ver, first, <<Len(msgs) + 2, 0>>)
    <3>1. Carries(wire[p], msgs, ver, first, <<Len(msgs) + 1, 0>>)
      BY <2>6 DEF first, ver
    <3>2. frame[1] = [type |-> msg[1], length |-> Len(msg[2]), version |-> ver, id |-> Len(msgs)]
      BY <2>7 DEF ver
    <3> QED BY <1>1, <1>2, <1>3, <2>8, <3>1, <3>2, CarriesWrite
  <2>10. Len(msgs) + 2 = Len(sent'[p]) + 1
    BY <1>1, <1>4
  <2>11. Streamed(e)'
    BY <1>1, <2>5, <2>9, <2>10 DEF Streamed, first, ver
  <2> QED BY <2>4, <2>11
<1> QED BY <1>5, <1>6 DEF InStep

LEMMA NumberedWrite ==
  ASSUME TypeInv, Numbered, NEW e \in Ends, NEW type, NEW size \in Nat, Write(e, type, size)
  PROVE  Numbered'
<1> DEFINE id  == Len(sent[e])
           msg == <<type, [i \in 1 .. size |-> id]>>
<1>1. sent \in [Ends -> Seq(Messages)] /\ sent[e] \in Seq(Messages) /\ id \in Nat
  BY DEF TypeInv, HistoryOK
<1>2. msg[2] = [i \in 1 .. size |-> id] /\ Len(msg[2]) = size
  OBVIOUS
<1>3. sent' = [sent EXCEPT ![e] = Append(@, msg)]
  BY DEF Write
<1> HIDE DEF msg
<1>4. /\ sent'[e] = Append(sent[e], msg)
      /\ Len(sent'[e]) = id + 1 /\ sent'[e][id + 1] = msg /\ \A m \in 1 .. id : sent'[e][m] = sent[e][m]
  BY <1>1, <1>3
<1> HIDE DEF id
<1>5. ASSUME NEW f \in Ends, NEW m \in 1 .. Len(sent'[f]), NEW i \in 1 .. Len(sent'[f][m][2])
      PROVE  sent'[f][m][2][i] = m - 1
  <2>1. CASE f = e /\ m = id + 1
    <3>1. sent'[f][m] = msg /\ m - 1 = id /\ i \in 1 .. size
      BY <1>1, <1>2, <1>4, <2>1
    <3> QED BY <1>2, <3>1
  <2>2. CASE f # e \/ m # id + 1
    <3>1. sent'[f][m] = sent[f][m] /\ m \in 1 .. Len(sent[f])
      BY <1>1, <1>3, <1>4, <2>2 DEF id
    <3> QED BY <3>1 DEF Numbered, Size
  <2> QED BY <2>1, <2>2
<1> QED BY <1>5 DEF Numbered, Size

(* A step of e that writes nothing leaves the other reader alone. *)
LEMMA FollowingReads ==
  ASSUME TypeInv, Following, NEW e \in Ends, InStep(e)', UNCHANGED <<version, sent>>,
         UNCHANGED wire[e], UNCHANGED <<pc[Peer(e)], header[Peer(e)], payload[Peer(e)], received[Peer(e)]>>,
         link' = TRUE => link = TRUE
  PROVE  Following'
<1> PICK d \in Ends : d = Peer(e) /\ Peer(d) = e
  BY Peers
<1>1. Numbered'
  BY DEF Following, Numbered, Size
<1>2. InStep(d)'
  <2>1. Alive(d)' => Alive(d)
    BY DEF Alive
  <2> QED BY <2>1, InStepSame DEF Following
<1>3. \A f \in Ends : f = e \/ f = d
  BY DEF Ends, Peer
<1> QED BY <1>1, <1>2, <1>3 DEF Following

(* A step of e that reads nothing *)
LEMMA FollowingWrites ==
  ASSUME TypeInv, Following, NEW e \in Ends, NEW to, pc' = [pc EXCEPT ![e] = to] \/ UNCHANGED pc,
         Alive(e)' => Alive(e), UNCHANGED <<version, header, payload, received>>,
         \/ /\ link = TRUE
            /\ \E type \in Kinds, size \in 0 .. MaxPayload : Write(e, type, size)
         \/ UNCHANGED <<wire, sent>>,
         link' = TRUE => link = TRUE
  PROVE  Following'
<1> PICK d \in Ends : d = Peer(e) /\ Peer(d) = e /\ d # e
  BY Peers
<1>0. pc'[d] = pc[d] /\ (Alive(d)' => Alive(d))
  BY DEF Alive, TypeInv, EndsOK
<1>1. UNCHANGED <<wire[d], sent[d]>>
  BY DEF Write, TypeInv, WireOK, HistoryOK
<1>2. InStep(e)'
  BY <1>1, InStepSame DEF Following
<1>3. CASE link = TRUE /\ \E type \in Kinds, size \in 0 .. MaxPayload : Write(e, type, size)
  <2> PICK type \in Kinds, size \in 0 .. MaxPayload : Write(e, type, size)
    BY <1>3
  <2>1. Numbered'
    <3>1. size \in Nat
      BY Constants
    <3> QED BY <3>1, NumberedWrite DEF Following
  <2>2. InStep(d)'
    BY <1>0, <1>3, InStepWrite
  <2> QED BY <1>2, <2>1, <2>2 DEF Following, Ends, Peer
<1>4. CASE UNCHANGED <<wire, sent>>
  <2>1. Numbered'
    BY <1>4 DEF Following, Numbered, Size
  <2>2. InStep(d)'
    BY <1>0, <1>4, InStepSame DEF Following
  <2> QED BY <1>2, <2>1, <2>2 DEF Following, Ends, Peer
<1> QED BY <1>3, <1>4

LEMMA FollowingStep ==
  ASSUME TypeInv, Following, [Next]_vars
  PROVE  Following'
<1>0. /\ EndsOK /\ FlagsOK /\ WireOK /\ ReaderOK /\ HistoryOK
      /\ \A e \in Ends : Peer(e) \in Ends /\ Peer(e) # e /\ Peer(Peer(e)) = e
  BY Peers DEF TypeInv
<1>1. ASSUME NEW e \in Ends, NEW type \in Kinds, NEW to \in HandshakeStates \cup {"up"},
             pc[e] \in HandshakeStates, Speak(e, type, to)
      PROVE  Following'
  <2>1. UNCHANGED <<version, header, payload, received>> /\ Alive(e)
    BY <1>1 DEF Speak, Alive, HandshakeStates
  <2>2. CASE link
    <3>1. Write(e, type, HelloSize) /\ pc' = [pc EXCEPT ![e] = to] /\ UNCHANGED link
      BY <1>1, <2>2, Zenon DEF Speak
    <3>2. link = TRUE /\ HelloSize \in 0 .. MaxPayload
      BY <1>0, <2>2, Constants DEF FlagsOK
    <3> QED BY <2>1, <3>1, <3>2, FollowingWrites
  <2>3. CASE ~link
    <3>1. pc' = [pc EXCEPT ![e] = "failed"] /\ link' = FALSE /\ UNCHANGED <<wire, sent>>
      BY <1>1, <2>3, Zenon DEF Speak, Abandon
    <3> QED BY <2>1, <3>1, FollowingWrites
  <2> QED BY <2>2, <2>3
<1>2. ASSUME NEW e \in Ends, Alive(e), Whole(e), received' = Received(e), NextFrame(e),
             UNCHANGED <<version, wire, sent>>, link' = link \/ link' = FALSE,
             NEW to, pc' = [pc EXCEPT ![e] = to] \/ UNCHANGED pc
      PROVE  Following'
  <2> PICK d \in Ends : d = Peer(e) /\ d # e
    BY <1>0
  <2>1. link' = TRUE => link = TRUE
    BY <1>2
  <2>2. InStep(e)'
    BY <1>2, <2>1, InStepWhole
  <2>3. UNCHANGED <<pc[d], header[d], payload[d], received[d]>>
    BY <1>0, <1>2 DEF EndsOK, ReaderOK, HistoryOK, NextFrame, Received
  <2> QED BY <1>2, <2>1, <2>2, <2>3, FollowingReads
<1>3. ASSUME NEW e \in Ends, NEW type, NEW to, pc[e] \in HandshakeStates, Shake(e, type, to)
      PROVE  Following'
  <2>1. /\ Alive(e) /\ Whole(e) /\ received' = Received(e) /\ NextFrame(e)
        /\ UNCHANGED <<version, wire, sent>>
    BY <1>3 DEF Shake, Alive, HandshakeStates
  <2>2. link' = link \/ link' = FALSE
    BY <1>3, Zenon DEF Shake, Abandon
  <2>3. \E s : pc' = [pc EXCEPT ![e] = s]
    BY <1>3, Zenon DEF Shake, Abandon
  <2> QED BY <1>2, <2>1, <2>2, <2>3
<1>4. CASE Handshake
  <2>1. /\ "client" \in Ends /\ "server" \in Ends /\ "Hello" \in Kinds /\ "Welcome" \in Kinds
        /\ {"hello", "accept", "reply", "welcome"} \subseteq HandshakeStates
        /\ {"welcome", "up"} \subseteq HandshakeStates \cup {"up"}
    BY DEF Ends, Kinds, HandshakeStates
  <2> QED BY <1>1, <1>3, <1>4, <2>1 DEF Handshake, SendHello, AcceptHello, SendWelcome, AcceptWelcome
<1>5. CASE Break
  <2>1. /\ link' = FALSE /\ UNCHANGED <<version, pc, header, payload, sent, received>>
        /\ \A e \in Ends : wire'[e] \in Prefixes(wire[e])
    BY <1>5 DEF Break, Ends
  <2>2. Numbered'
    BY <2>1 DEF Following, Numbered, Size
  <2>3. ASSUME NEW e \in Ends PROVE InStep(e)'
    <3> PICK p \in Ends : p = Peer(e)
      BY <1>0
    <3>1. InStep(e) /\ (Alive(e)' <=> Alive(e))
      BY <2>1 DEF Following, Alive
    <3>2. HandedOn(e)'
      BY <2>1, <3>1 DEF InStep, HandedOn
    <3>3. ASSUME Alive(e) PROVE FrameBegun(e)' /\ Streamed(e)'
      <4>1. FrameBegun(e) /\ Streamed(e)
        BY <3>1, <3>3 DEF InStep
      <4>2. FrameBegun(e)' /\ Place(e)' = Place(e)
        BY <2>1, <4>1 DEF FrameBegun, Place
      <4>3. PICK last : Carries(wire[p], sent[p], version[p], Place(e), last)
        BY <4>1 DEF Streamed
      <4>4. wire[p] \in Seq(Unit) /\ wire'[p] \in Prefixes(wire[p])
        BY <1>0, <2>1 DEF WireOK
      <4> DEFINE first == Place(e)
      <4> HIDE DEF first
      <4>5. \A part \in Prefixes(wire[p]) : \E l : Carries(part, sent[p], version[p], first, l)
        BY <4>3, <4>4, CarriesPrefix DEF first
      <4>6. \E l : Carries(wire'[p], sent[p], version[p], first, l)
        BY <4>4, <4>5
      <4>7. Streamed(e)'
        BY <2>1, <4>2, <4>6 DEF Streamed, first
      <4> QED BY <4>2, <4>7
    <3> QED BY <3>1, <3>2, <3>3 DEF InStep
  <2> QED BY <2>2, <2>3 DEF Following
<1>6. ASSUME NEW e \in Ends, ReadHeader(e) PROVE Following'
  <2> PICK d \in Ends : d = Peer(e) /\ d # e
    BY <1>0
  <2>1. InStep(e)'
    BY <1>6, InStepHeader
  <2>2. UNCHANGED <<version, sent, link, pc, payload, received>> /\ UNCHANGED <<wire[e], header[d]>>
    BY <1>0, <1>6 DEF ReadHeader, WireOK, ReaderOK
  <2> QED BY <2>1, <2>2, FollowingReads
<1>7. ASSUME NEW e \in Ends, ReadPayload(e) PROVE Following'
  <2> PICK d \in Ends : d = Peer(e) /\ d # e
    BY <1>0
  <2>1. InStep(e)'
    BY <1>7, InStepPayload
  <2>2. UNCHANGED <<version, sent, link, pc, header, received>> /\ UNCHANGED <<wire[e], payload[d]>>
    BY <1>0, <1>7 DEF ReadPayload, WireOK, ReaderOK
  <2> QED BY <2>1, <2>2, FollowingReads
<1>8. ASSUME NEW e \in Ends, ReadFails(e) PROVE Following'
  <2> PICK d \in Ends : d = Peer(e) /\ d # e
    BY <1>0
  <2>1. UNCHANGED <<version, wire, sent, received>> /\ UNCHANGED <<header[d], payload[d]>>
    BY <1>0, <1>8 DEF ReadFails, NextFrame, ReaderOK
  <2>2. link' = TRUE => link = TRUE
    BY <1>8, Zenon DEF ReadFails, Stop, Abandon, End
  <2>3. pc' = [pc EXCEPT ![e] = "failed"] \/ pc' = [pc EXCEPT ![e] = "ended"]
    BY <1>8 DEF ReadFails, Stop, Abandon, End
  <2>4. ~Alive(e)' /\ UNCHANGED pc[d]
    BY <1>0, <2>3 DEF EndsOK, Alive
  <2>5. InStep(e)'
    BY <2>1, <2>2, <2>4, InStepSame DEF Following
  <2> QED BY <2>1, <2>2, <2>4, <2>5, FollowingReads
<1>9. ASSUME NEW e \in Ends, Deliver(e) PROVE Following'
  BY <1>2, <1>9 DEF Deliver, Alive
<1>10. ASSUME NEW e \in Ends, LinkLost(e) PROVE Following'
  <2>1. Alive(e)
    BY <1>10 DEF LinkLost, Alive
  <2> QED BY <1>10, <2>1, FollowingWrites DEF LinkLost, End
<1>11. ASSUME NEW e \in Ends, Send(e) PROVE Following'
  <2>1. UNCHANGED <<version, link, header, payload, received>> /\ Alive(e)
    BY <1>11 DEF Send, Alive
  <2>2. PICK size \in Sizes :
          IF Encodes(size) /\ link
          THEN Write(e, "Message", size) /\ UNCHANGED <<pc, finished>>
          ELSE End(e) /\ Finish(e) /\ UNCHANGED <<wire, sent>>
    BY <1>11 DEF Send
  <2>3. CASE Encodes(size) /\ link
    <3>1. Write(e, "Message", size) /\ UNCHANGED <<pc, finished>>
      BY <2>2, <2>3, Zenon
    <3>2. size \in 0 .. MaxPayload /\ "Message" \in Kinds /\ link = TRUE
      BY <1>0, <2>3, Constants DEF Encodes, Kinds, FlagsOK
    <3> QED BY <2>1, <3>1, <3>2, FollowingWrites
  <2>4. CASE ~(Encodes(size) /\ link)
    <3>1. End(e) /\ Finish(e) /\ UNCHANGED <<wire, sent>>
      BY <2>2, <2>4, Zenon
    <3> QED BY <2>1, <3>1, FollowingWrites DEF End
  <2> QED BY <2>3, <2>4
<1>12. CASE UNCHANGED vars
  <2> "client" \in Ends /\ UNCHANGED <<version, pc, header, payload, received, wire, sent, link>>
    BY <1>12 DEF vars, Ends
  <2> QED BY FollowingWrites DEF Alive
<1> QED
  BY <1>4, <1>5, <1>6, <1>7, <1>8, <1>9, <1>10, <1>11, <1>12 DEF Next, Read

LEMMA FollowingAlways == Spec => [](TypeInv /\ Following)
<1>1. Init => TypeInv /\ Following
  BY TypeInit, FollowingInit
<1>2. TypeInv /\ Following /\ [Next]_vars => TypeInv' /\ Following'
  BY TypeStep, FollowingStep
<1> QED BY <1>1, <1>2, PTL DEF Spec

LEMMA HandedOnPrefix ==
  ASSUME TypeInv, Following
  PROVE  FramesInOrder
<1> SUFFICES ASSUME NEW e \in Ends PROVE IsPrefix(received[e], sent[Peer(e)])
  BY DEF FramesInOrder
<1> PICK p \in Ends : p = Peer(e)
  BY Peers
<1> DEFINE got == received[e]
           all == sent[p]
<1>1. got \in Seq(Messages) /\ all \in Seq(Messages) /\ HandedOn(e)
  BY DEF TypeInv, HistoryOK, Following, InStep
<1>2. /\ Len(got) <= Len(all) /\ Len(got) \in Nat /\ Len(all) \in Nat
      /\ \A i \in 1 .. Len(got) : got[i] = all[i]
  BY <1>1 DEF HandedOn
<1> HIDE DEF got, all
<1>3. SubSeq(got, 1, Len(got)) = SubSeq(all, 1, Len(got))
  BY <1>2
<1>4. IsPrefix(got, all)
  BY <1>2, <1>3 DEF IsPrefix
<1> QED BY <1>4 DEF got, all

(* Whatever has been handed on at one end is, message for message, the      *)
(* beginning of what the other end wrote (stream.rs:15-37), however the     *)
(* network cuts the stream and wherever it breaks.                          *)
THEOREM FramesInOrderAlways == Spec => []FramesInOrder
BY FollowingAlways, HandedOnPrefix, PTL

-----------------------------------------------------------------------------
(* The handshake: what each end knows of the other one *)

Met == {"up", "ended"}

(* A server that replies has compared the version of the client's Hello;   *)
(* it speaks first after its reply; and a client that is up has read that. *)
Compared ==
  /\ pc["server"] \in {"reply"} \cup Met \/ pc["client"] \in Met => version["client"] = version["server"]
  /\ sent["server"] # <<>> => pc["server"] \in Met
  /\ pc["client"] \in Met => pc["server"] \in Met

LEMMA ComparedInit == Init => Compared
BY DEF Init, Compared, Met, Ends

(* A whole frame that decodes comes from a peer of the same version. *)
LEMMA DecodesSame ==
  ASSUME TypeInv, Following, NEW e \in Ends, Alive(e), Whole(e), Decodes(e)
  PROVE  version[Peer(e)] = version[e] /\ sent[Peer(e)] # <<>>
<1> PICK p \in Ends : p = Peer(e)
  BY Peers
<1>1. header[e] # None /\ Numbered /\ InStep(e) /\ header[e].version = version[e]
  BY DEF Whole, Following, Decodes
<1>2. header[e].version = version[p] /\ Len(received[e]) + 1 \in 1 .. Len(sent[p]) /\ Len(received[e]) \in Nat
  BY <1>1, FrameFacts
<1>3. sent[p] # <<>>
  BY <1>2
<1> QED BY <1>1, <1>2, <1>3

LEMMA ComparedStep ==
  ASSUME TypeInv, Following, Compared, [Next]_vars
  PROVE  Compared'
<1>0. EndsOK /\ HistoryOK /\ Ends = {"client", "server"} /\ Peer("client") = "server" /\ Peer("server") = "client"
  BY DEF TypeInv, Ends, Peer
<1>1. ASSUME UNCHANGED <<version, sent, pc>> PROVE Compared'
  BY <1>1 DEF Compared
<1>2. ASSUME NEW e \in Ends, pc[e] \notin Met, pc' = [pc EXCEPT ![e] = "failed"], UNCHANGED <<version, sent>>
      PROVE  Compared'
  BY <1>0, <1>2 DEF Compared, EndsOK, Met
<1>3. ASSUME NEW e \in Ends, pc[e] = "up", pc' = [pc EXCEPT ![e] = "ended"], UNCHANGED <<version, sent>>
      PROVE  Compared'
  BY <1>0, <1>3 DEF Compared, EndsOK, Met
<1>4. ASSUME NEW e \in Ends, NEW type, NEW size, Write(e, type, size)
      PROVE  e = "client" => UNCHANGED sent["server"]
  BY <1>0, <1>4 DEF Write, HistoryOK
<1>5. ASSUME NEW e \in Ends, NEW type, NEW to, pc[e] \notin Met, Speak(e, type, to), ~link
      PROVE  Compared'
  <2>1. pc' = [pc EXCEPT ![e] = "failed"] /\ UNCHANGED <<version, sent>>
    BY <1>5, Zenon DEF Speak, Abandon
  <2> QED BY <1>2, <1>5, <2>1
<1>6. ASSUME NEW e \in Ends, NEW type, NEW to, Speak(e, type, to), link
      PROVE  Write(e, type, HelloSize) /\ pc' = [pc EXCEPT ![e] = to] /\ UNCHANGED version
  BY <1>6, Zenon DEF Speak
<1>7. ASSUME NEW e \in Ends, NEW type, NEW to, pc[e] \in HandshakeStates, Shake(e, type, to)
      PROVE  /\ UNCHANGED <<version, sent>> /\ version[Peer(e)] = version[e] /\ sent[Peer(e)] # <<>>
             /\ pc' = [pc EXCEPT ![e] = to] \/ pc' = [pc EXCEPT ![e] = "failed"]
  <2>1. Alive(e) /\ Whole(e) /\ Decodes(e) /\ UNCHANGED <<version, sent>>
    BY <1>7 DEF Shake, Alive, HandshakeStates
  <2>2. pc' = [pc EXCEPT ![e] = to] \/ pc' = [pc EXCEPT ![e] = "failed"]
    BY <1>7, Zenon DEF Shake, Abandon
  <2> QED BY <2>1, <2>2, DecodesSame
<1>8. CASE SendHello
  <2>1. pc["client"] = "hello" /\ Speak("client", "Hello", "welcome")
    BY <1>8 DEF SendHello
  <2>2. CASE link
    BY <1>0, <1>4, <1>6, <2>1, <2>2 DEF Compared, EndsOK, Met
  <2>3. CASE ~link
    BY <1>0, <1>5, <2>1, <2>3 DEF Met
  <2> QED BY <2>2, <2>3
<1>9. CASE AcceptHello
  <2>1. pc["server"] = "accept" /\ Shake("server", "Hello", "reply")
    BY <1>9 DEF AcceptHello
  <2>2. /\ UNCHANGED <<version, sent>> /\ version["client"] = version["server"]
        /\ pc' = [pc EXCEPT !["server"] = "reply"] \/ pc' = [pc EXCEPT !["server"] = "failed"]
    BY <1>0, <1>7, <2>1 DEF HandshakeStates
  <2> QED BY <1>0, <2>1, <2>2 DEF Compared, EndsOK, Met
<1>10. CASE SendWelcome
  <2>1. pc["server"] = "reply" /\ Speak("server", "Welcome", "up")
    BY <1>10 DEF SendWelcome
  <2>2. CASE link
    BY <1>0, <1>6, <2>1, <2>2 DEF Compared, EndsOK, Met
  <2>3. CASE ~link
    BY <1>0, <1>5, <2>1, <2>3 DEF Met
  <2> QED BY <2>2, <2>3
<1>11. CASE AcceptWelcome
  <2>1. pc["client"] = "welcome" /\ Shake("client", "Welcome", "up")
    BY <1>11 DEF AcceptWelcome
  <2>2. /\ UNCHANGED <<version, sent>> /\ version["client"] = version["server"] /\ sent["server"] # <<>>
        /\ pc' = [pc EXCEPT !["client"] = "up"] \/ pc' = [pc EXCEPT !["client"] = "failed"]
    BY <1>0, <1>7, <2>1 DEF HandshakeStates
  <2> QED BY <1>0, <2>1, <2>2 DEF Compared, EndsOK, Met
<1>12. CASE Break
  BY <1>1, <1>12 DEF Break
<1>13. ASSUME NEW e \in Ends, ReadHeader(e) \/ ReadPayload(e) \/ Deliver(e) PROVE Compared'
  BY <1>1, <1>13 DEF ReadHeader, ReadPayload, Deliver
<1>14. ASSUME NEW e \in Ends, ReadFails(e) PROVE Compared'
  <2>1. UNCHANGED <<version, sent>> /\ pc[e] \in {"accept", "welcome", "up"}
    BY <1>14 DEF ReadFails, Reading
  <2>2. \/ pc[e] \in HandshakeStates /\ pc' = [pc EXCEPT ![e] = "failed"]
        \/ pc[e] \notin HandshakeStates /\ pc' = [pc EXCEPT ![e] = "ended"]
    BY <1>14, Zenon DEF ReadFails, Stop, Abandon, End
  <2> QED BY <1>2, <1>3, <2>1, <2>2 DEF HandshakeStates, Met
<1>15. ASSUME NEW e \in Ends, LinkLost(e) PROVE Compared'
  BY <1>3, <1>15 DEF LinkLost, End
<1>16. ASSUME NEW e \in Ends, Send(e) PROVE Compared'
  <2>1. UNCHANGED version /\ pc[e] = "up"
    BY <1>16 DEF Send
  <2>2. PICK size \in Sizes :
          IF Encodes(size) /\ link
          THEN Write(e, "Message", size) /\ UNCHANGED <<pc, finished>>
          ELSE End(e) /\ Finish(e) /\ UNCHANGED <<wire, sent>>
    BY <1>16 DEF Send
  <2>3. CASE Encodes(size) /\ link
    <3>1. Write(e, "Message", size) /\ UNCHANGED pc
      BY <2>2, <2>3, Zenon
    <3>2. e = "server" => pc["server"] \in Met
      BY <2>1 DEF Met
    <3> QED BY <1>0, <1>4, <2>1, <3>1, <3>2 DEF Compared
  <2>4. CASE ~(Encodes(size) /\ link)
    <3>1. End(e) /\ UNCHANGED sent
      BY <2>2, <2>4, Zenon
    <3> QED BY <1>3, <2>1, <3>1 DEF End
  <2> QED BY <2>3, <2>4
<1>17. CASE UNCHANGED vars
  BY <1>1, <1>17 DEF vars
<1> QED
  BY <1>8, <1>9, <1>10, <1>11, <1>12, <1>13, <1>14, <1>15, <1>16, <1>17 DEF Next, Handshake, Read

(* A session runs only between builds of one version, and a client that is *)
(* up, or was, has a server that is, or was (client.rs, server.rs: the     *)
(* handshake answers a Hello only after its version has been compared).    *)
THEOREM SessionsAgreeAlways == Spec => []SessionsAgree
<1>1. Init => Compared
  BY ComparedInit
<1>2. (TypeInv /\ Following) /\ Compared /\ [Next]_vars => Compared'
  BY ComparedStep
<1>3. Compared => SessionsAgree
  BY DEF Compared, SessionsAgree, Met, Ends
<1> QED BY FollowingAlways, <1>1, <1>2, <1>3, PTL DEF Spec

-----------------------------------------------------------------------------
(* PeerTasks: the queues between the tasks of a connection keep to their    *)
(* bounds. Of PeerConnection it shares the name of the wire.                *)

CONSTANTS OutCap, InCap, Window, Nonces, MaxCopies, Flooded, Streams, TooLong
VARIABLES out, writer, reader, inbox, turn, handler, beat, waiting, listed, lost,
          nonce, unanswered, copies

Tasks == INSTANCE PeerTasks

Users == {"beat", "poll", "reply"}

Alone(q) == \A i, j \in 1..Len(q) : q[i] = q[j] => i = j

TaskQueues ==
  /\ out \in [Ends -> Seq(Tasks!Messages)] /\ \A e \in Ends : Len(out[e]) <= OutCap
  /\ inbox \in [Ends -> Seq(Tasks!Messages)] /\ \A e \in Ends : Len(inbox[e]) <= InCap
  /\ wire \in [Ends -> Seq(Tasks!Messages)] /\ \A e \in Ends : Len(wire[e]) <= Window

(* Each task waits in one send at a time; inbound_loop waits in a send only *)
(* with the reply it is sending.                                            *)
TaskSends ==
  /\ waiting \in [Ends -> Seq(Users)]
  /\ \A e \in Ends : Alone(waiting[e])

TaskReplies ==
  /\ handler \in [Ends -> Tasks!Messages \cup {Tasks!Idle, Tasks!Done}]
  /\ \A e \in Ends : Tasks!Waits(e, "reply") => handler[e] \in Tasks!Messages

TaskStates ==
  /\ writer \in [Ends -> {"run", "done"}] /\ reader \in [Ends -> {"run", "done"}]
  /\ turn \in [Ends -> {"control", "chunk"}] /\ beat \in [Ends -> BOOLEAN]
  /\ listed \in [Ends -> BOOLEAN] /\ lost \in [Ends -> BOOLEAN]

TaskCounts ==
  /\ nonce \in [Ends -> 0 .. Nonces - 1] /\ unanswered \in [Ends -> SUBSET (0 .. Nonces - 1)]
  /\ copies \in [Ends -> Nat] /\ \A e \in Ends : copies[e] <= MaxCopies[e]

TaskTypes == TaskQueues /\ TaskSends /\ TaskReplies /\ TaskStates /\ TaskCounts

LEMMA TaskMessages ==
  ASSUME Tasks!TasksAssumption
  PROVE  /\ 0 \in 0 .. Nonces - 1
         /\ \A type \in Tasks!Types, n \in 0 .. Nonces - 1 : Tasks!Msg(type, n) \in Tasks!Messages
         /\ \A m \in Tasks!Messages :
              m.type \in Tasks!Types /\ m.n \in 0 .. Nonces - 1 /\ m = Tasks!Msg(m.type, m.n)
         /\ Tasks!Idle \notin Tasks!Messages /\ Tasks!Done \notin Tasks!Messages
         /\ Tasks!Idle # Tasks!Done
<1>1. 0 \in 0 .. Nonces - 1
  BY DEF Tasks!TasksAssumption
<1> QED BY <1>1 DEF Tasks!Messages, Tasks!Msg, Tasks!Idle, Tasks!Done, Tasks!Types

LEMMA TaskReply ==
  ASSUME Tasks!TasksAssumption, NEW m \in Tasks!Messages
  PROVE  Tasks!Reply(m) \in Tasks!Messages \cup {Tasks!Idle}
<1>1. m.type \in Tasks!Types /\ m.n \in 0 .. Nonces - 1 /\ 0 \in 0 .. Nonces - 1
  BY TaskMessages
<1>2. {"pong", "request", "data"} \subseteq Tasks!Types
  BY DEF Tasks!Types
<1>3. {Tasks!Msg("pong", m.n), Tasks!Msg("request", 0), Tasks!Msg("data", 0)} \subseteq Tasks!Messages
  BY <1>1, <1>2, TaskMessages
<1> QED BY <1>3 DEF Tasks!Reply

(* What is in a channel after a message has been taken or put in *)
LEMMA TaskTaken ==
  ASSUME NEW S, NEW q \in [Ends -> Seq(S)], NEW cap \in Nat, \A e \in Ends : Len(q[e]) <= cap,
         NEW e \in Ends, q[e] # <<>>, NEW r, r = [q EXCEPT ![e] = Tail(@)]
  PROVE  /\ r \in [Ends -> Seq(S)] /\ \A d \in Ends : Len(r[d]) <= cap
         /\ Head(q[e]) \in S
<1>1. Head(q[e]) \in S /\ Tail(q[e]) \in Seq(S) /\ Len(Tail(q[e])) = Len(q[e]) - 1
  BY HeadTailProperties
<1>2. Len(q[e]) \in Nat
  OBVIOUS
<1>3. r \in [Ends -> Seq(S)]
  BY <1>1
<1>4. ASSUME NEW d \in Ends PROVE Len(r[d]) <= cap
  <2>1. CASE d = e
    BY <1>1, <1>2, <2>1
  <2>2. CASE d # e
    BY <2>2
  <2> QED BY <2>1, <2>2
<1> QED BY <1>1, <1>3, <1>4

LEMMA TaskPut ==
  ASSUME NEW S, NEW q \in [Ends -> Seq(S)], NEW cap \in Nat, \A e \in Ends : Len(q[e]) <= cap,
         NEW e \in Ends, NEW m \in S, Len(q[e]) < cap, NEW r, r = [q EXCEPT ![e] = Append(@, m)]
  PROVE  r \in [Ends -> Seq(S)] /\ \A d \in Ends : Len(r[d]) <= cap
<1>1. Append(q[e], m) \in Seq(S) /\ Len(Append(q[e], m)) = Len(q[e]) + 1
  BY AppendProperties
<1>2. Len(q[e]) \in Nat
  OBVIOUS
<1>3. r \in [Ends -> Seq(S)]
  BY <1>1
<1>4. ASSUME NEW d \in Ends PROVE Len(r[d]) <= cap
  <2>1. CASE d = e
    BY <1>1, <1>2, <2>1
  <2>2. CASE d # e
    BY <2>2
  <2> QED BY <2>1, <2>2
<1> QED BY <1>3, <1>4

(* A task that begins a send waits behind the others, ... *)
LEMMA TaskEnqueued ==
  ASSUME TaskSends, NEW e \in Ends, NEW t \in Users, ~Tasks!Waits(e, t), Tasks!Enqueued(e, t)
  PROVE  /\ TaskSends'
         /\ \A d \in Ends, u \in Users : Tasks!Waits(d, u)' => Tasks!Waits(d, u) \/ (d = e /\ u = t)
<1> DEFINE q == waiting[e]
           r == Append(q, t)
<1>1. waiting' = [waiting EXCEPT ![e] = r] /\ q \in Seq(Users) /\ Alone(q)
  BY DEF Tasks!Enqueued, TaskSends
<1>2. \A i \in 1..Len(q) : q[i] # t
  BY <1>1 DEF Tasks!Waits
<1>3. /\ r \in Seq(Users) /\ Len(r) = Len(q) + 1 /\ Len(q) \in Nat /\ r[Len(q) + 1] = t
      /\ \A i \in 1..Len(q) : r[i] = q[i]
  BY <1>1, AppendProperties
<1>4. Alone(r)
  <2> HIDE DEF q, r
  <2> QED BY <1>1, <1>2, <1>3 DEF Alone
<1>5. \A i \in DOMAIN r : r[i] = t \/ (i \in DOMAIN q /\ r[i] = q[i])
  <2>1. DOMAIN r = 1..Len(r) /\ DOMAIN q = 1..Len(q)
    BY <1>1, <1>3
  <2> HIDE DEF q, r
  <2> QED BY <1>3, <2>1
<1> HIDE DEF r
<1>6. waiting'[e] = r /\ \A d \in Ends : d # e => waiting'[d] = waiting[d]
  BY <1>1 DEF TaskSends
<1>7. TaskSends'
  BY <1>1, <1>3, <1>4, <1>6 DEF TaskSends
<1>8. ASSUME NEW d \in Ends, NEW u \in Users, Tasks!Waits(d, u)'
      PROVE  Tasks!Waits(d, u) \/ (d = e /\ u = t)
  BY <1>5, <1>6, <1>8 DEF Tasks!Waits
<1> QED BY <1>7, <1>8

(* ... and has left them when it is served. *)
LEMMA TaskServed ==
  ASSUME TaskSends, NEW e \in Ends, NEW t \in Users, Tasks!Served(e, t)
  PROVE  /\ TaskSends'
         /\ \A d \in Ends, u \in Users : Tasks!Waits(d, u)' => Tasks!Waits(d, u) /\ ~(d = e /\ u = t)
<1> DEFINE q == waiting[e]
<1>1. PICK i \in DOMAIN q : q[i] = t /\ waiting' = [waiting EXCEPT ![e] = RemoveAt(q, i)]
  BY DEF Tasks!Served, Tasks!RemoveAt, RemoveAt
<1> DEFINE r == RemoveAt(q, i)
<1>2. q \in Seq(Users) /\ Alone(q) /\ Len(q) \in Nat /\ i \in 1..Len(q) /\ DOMAIN q = 1..Len(q)
  BY <1>1 DEF TaskSends
<1>3. /\ r \in Seq(Users) /\ Len(r) = Len(q) - 1
      /\ \A j \in 1..Len(r) : r[j] = IF j < i THEN q[j] ELSE q[j + 1]
  <2> DEFINE a == SubSeq(q, 1, i - 1)
             b == SubSeq(q, i + 1, Len(q))
  <2>1. /\ a \in Seq(Users) /\ Len(a) = i - 1
        /\ \A j \in 1..Len(a) : a[j] = q[j]
    BY <1>2, SubSeqProperties
  <2>2. /\ b \in Seq(Users) /\ Len(b) = Len(q) - i
        /\ \A j \in 1..Len(b) : b[j] = q[i + j]
    BY <1>2, SubSeqProperties
  <2>3. r = a \o b
    BY DEF RemoveAt
  <2> HIDE DEF a, b
  <2>4. /\ a \o b \in Seq(Users) /\ Len(a \o b) = Len(a) + Len(b)
        /\ \A j \in 1..Len(a) + Len(b) : (a \o b)[j] = IF j <= Len(a) THEN a[j] ELSE b[j - Len(a)]
    BY <2>1, <2>2, ConcatProperties
  <2> HIDE DEF r, q
  <2>5. Len(r) = Len(q) - 1
    BY <1>2, <2>1, <2>2, <2>3, <2>4
  <2>6. ASSUME NEW j \in 1..Len(r) PROVE r[j] = IF j < i THEN q[j] ELSE q[j + 1]
    <3>1. CASE j < i
      BY <1>2, <2>1, <2>2, <2>3, <2>4, <2>5, <3>1
    <3>2. CASE ~(j < i)
      <4>1. r[j] = b[j - (i - 1)] /\ j - (i - 1) \in 1..Len(b)
        BY <1>2, <2>1, <2>2, <2>3, <2>4, <2>5, <3>2
      <4>2. i + (j - (i - 1)) = j + 1
        BY <1>2
      <4> QED BY <2>2, <3>2, <4>1, <4>2
    <3> QED BY <3>1, <3>2
  <2> QED BY <2>3, <2>4, <2>5, <2>6
<1> HIDE DEF q, r
<1>4. Alone(r)
  BY <1>2, <1>3 DEF Alone
<1>5. \A j \in 1..Len(r) : r[j] # t /\ \E k \in DOMAIN q : r[j] = q[k]
  BY <1>1, <1>2, <1>3 DEF Alone
<1>6. waiting'[e] = r /\ \A d \in Ends : d # e => waiting'[d] = waiting[d]
  BY <1>1 DEF TaskSends, r
<1>7. TaskSends'
  BY <1>1, <1>3, <1>4, <1>6 DEF TaskSends, r
<1>8. ASSUME NEW d \in Ends, NEW u \in Users, Tasks!Waits(d, u)'
      PROVE  Tasks!Waits(d, u) /\ ~(d = e /\ u = t)
  <2>1. CASE d = e
    BY <1>3, <1>5, <1>6, <1>8, <2>1 DEF Tasks!Waits, q
  <2>2. CASE d # e
    BY <1>6, <1>8, <2>2 DEF Tasks!Waits
  <2> QED BY <2>1, <2>2
<1> QED BY <1>7, <1>8

LEMMA TaskCaps ==
  ASSUME Tasks!TasksAssumption PROVE OutCap \in Nat /\ InCap \in Nat /\ Window \in Nat
BY DEF Tasks!TasksAssumption

LEMMA TaskQueued ==
  ASSUME Tasks!TasksAssumption, TaskQueues, TaskSends, NEW e \in Ends, NEW t \in Users,
         NEW m \in Tasks!Messages, Tasks!Queued(e, t, m)
  PROVE  /\ out' \in [Ends -> Seq(Tasks!Messages)] /\ \A d \in Ends : Len(out'[d]) <= OutCap
         /\ TaskSends'
         /\ \A d \in Ends, u \in Users : Tasks!Waits(d, u)' => Tasks!Waits(d, u) /\ ~(d = e /\ u = t)
<1>1. Len(out[e]) < OutCap /\ out' = [out EXCEPT ![e] = Append(@, m)] /\ Tasks!Served(e, t)
  BY DEF Tasks!Queued, Tasks!Room
<1>2. out' \in [Ends -> Seq(Tasks!Messages)] /\ \A d \in Ends : Len(out'[d]) <= OutCap
  BY <1>1, TaskPut, TaskCaps DEF TaskQueues
<1> QED BY <1>1, <1>2, TaskServed

LEMMA TaskFailed ==
  ASSUME TaskSends, NEW e \in Ends, NEW t \in Users, Tasks!Failed(e, t)
  PROVE  /\ out' = out /\ TaskSends'
         /\ \A d \in Ends, u \in Users : Tasks!Waits(d, u)' => Tasks!Waits(d, u) /\ ~(d = e /\ u = t)
BY TaskServed DEF Tasks!Failed

(* A task that waits in a send does so with the first it has begun. *)
LEMMA TaskHead ==
  ASSUME TaskSends, NEW e \in Ends, waiting[e] # <<>>
  PROVE  Tasks!Waits(e, Head(waiting[e]))
<1>1. waiting[e] \in Seq(Users)
  BY DEF TaskSends
<1>2. 1 \in DOMAIN waiting[e] /\ Head(waiting[e]) = waiting[e][1]
  BY <1>1
<1> QED BY <1>2 DEF Tasks!Waits

LEMMA TaskRepliesKept ==
  ASSUME TaskReplies, handler' = handler,
         \A d \in Ends : Tasks!Waits(d, "reply")' => Tasks!Waits(d, "reply")
  PROVE  TaskReplies'
BY DEF TaskReplies

LEMMA TaskTick ==
  ASSUME Tasks!TasksAssumption, TaskTypes, NEW e \in Ends, Tasks!Tick(e) PROVE TaskTypes'
<1>1. (nonce[e] + 1) % Nonces \in 0 .. Nonces - 1
  BY DEF TaskTypes, TaskCounts, Tasks!TasksAssumption
<1>2. ~Tasks!Waits(e, "beat") /\ Tasks!Enqueued(e, "beat")
  BY DEF Tasks!Tick
<1>3. nonce' = [nonce EXCEPT ![e] = (nonce[e] + 1) % Nonces]
  BY DEF Tasks!Tick
<1>4. UNCHANGED <<out, wire, inbox, writer, reader, turn, handler, beat, listed, lost, unanswered, copies>>
  BY DEF Tasks!Tick, Tasks!queues
<1>5. TaskSends' /\ \A d \in Ends : Tasks!Waits(d, "reply")' => Tasks!Waits(d, "reply")
  BY <1>2, TaskEnqueued DEF TaskTypes, Users
<1>6. TaskReplies'
  BY <1>4, <1>5, TaskRepliesKept DEF TaskTypes
<1>7. TaskQueues' /\ TaskStates'
  BY <1>4 DEF TaskTypes, TaskQueues, TaskStates
<1>8. TaskCounts'
  BY <1>1, <1>3, <1>4 DEF TaskTypes, TaskCounts
<1> QED BY <1>5, <1>6, <1>7, <1>8 DEF TaskTypes

LEMMA TaskPing ==
  ASSUME Tasks!TasksAssumption, TaskTypes, NEW e \in Ends, Tasks!SendPing(e) PROVE TaskTypes'
<1> DEFINE m == Tasks!Msg("ping", nonce[e])
<1>1. m \in Tasks!Messages
  BY TaskMessages DEF TaskTypes, TaskCounts, Tasks!Types
<1>2. Tasks!Queued(e, "beat", m)
  BY DEF Tasks!SendPing
<1>3. unanswered' = [unanswered EXCEPT ![e] = IF lost[e] THEN @ ELSE @ \cup {nonce[e]}]
  BY DEF Tasks!SendPing
<1>4. UNCHANGED <<wire, inbox, writer, reader, turn, handler, beat, listed, lost, nonce, copies>>
  BY DEF Tasks!SendPing
<1> HIDE DEF m
<1>5. /\ out' \in [Ends -> Seq(Tasks!Messages)] /\ \A d \in Ends : Len(out'[d]) <= OutCap
      /\ TaskSends' /\ \A d \in Ends : Tasks!Waits(d, "reply")' => Tasks!Waits(d, "reply")
  BY <1>1, <1>2, TaskQueued DEF TaskTypes, Users
<1>6. TaskReplies'
  BY <1>4, <1>5, TaskRepliesKept DEF TaskTypes
<1>7. TaskQueues' /\ TaskStates'
  BY <1>4, <1>5 DEF TaskTypes, TaskQueues, TaskStates
<1>8. TaskCounts'
  BY <1>3, <1>4 DEF TaskTypes, TaskCounts
<1> QED BY <1>5, <1>6, <1>7, <1>8 DEF TaskTypes

LEMMA TaskPingFails ==
  ASSUME TaskTypes, NEW e \in Ends, Tasks!PingFails(e) PROVE TaskTypes'
<1>1. Tasks!Failed(e, "beat")
  BY DEF Tasks!PingFails
<1>2. /\ beat' = [beat EXCEPT ![e] = FALSE]
      /\ UNCHANGED <<wire, inbox, writer, reader, turn, handler, listed, lost, nonce, unanswered, copies>>
  BY DEF Tasks!PingFails
<1>3. /\ out' = out /\ TaskSends'
      /\ \A d \in Ends : Tasks!Waits(d, "reply")' => Tasks!Waits(d, "reply")
  BY <1>1, TaskFailed DEF TaskTypes, Users
<1>4. TaskReplies'
  BY <1>2, <1>3, TaskRepliesKept DEF TaskTypes
<1>5. TaskQueues' /\ TaskStates' /\ TaskCounts'
  BY <1>2, <1>3 DEF TaskTypes, TaskQueues, TaskStates, TaskCounts
<1> QED BY <1>3, <1>4, <1>5 DEF TaskTypes

(* The poll loop and the drain task *)
LEMMA TaskPoll ==
  ASSUME Tasks!TasksAssumption, TaskTypes, NEW e \in Ends, Tasks!Poll(e) PROVE TaskTypes'
<1>1. ~Tasks!Waits(e, "poll") /\ Tasks!Enqueued(e, "poll")
  BY DEF Tasks!Poll
<1>2. copies[e] < MaxCopies[e] /\ copies' = [copies EXCEPT ![e] = @ + 1]
  BY DEF Tasks!Poll
<1>3. UNCHANGED <<out, wire, inbox, writer, reader, turn, handler, beat, listed, lost, nonce, unanswered>>
  BY DEF Tasks!Poll, Tasks!queues
<1>4. TaskSends' /\ \A d \in Ends : Tasks!Waits(d, "reply")' => Tasks!Waits(d, "reply")
  BY <1>1, TaskEnqueued DEF TaskTypes, Users
<1>5. TaskReplies'
  BY <1>3, <1>4, TaskRepliesKept DEF TaskTypes
<1>6. TaskQueues' /\ TaskStates'
  BY <1>3 DEF TaskTypes, TaskQueues, TaskStates
<1>7. TaskCounts'
  <2>1. MaxCopies[e] \in Nat /\ copies[e] \in Nat
    BY DEF Tasks!TasksAssumption, Tasks!Ends, Ends, TaskTypes, TaskCounts
  <2>2. \A d \in Ends : copies'[d] <= MaxCopies[d]
    BY <1>2, <2>1 DEF TaskTypes, TaskCounts
  <2>3. copies' \in [Ends -> Nat]
    BY <1>2 DEF TaskTypes, TaskCounts
  <2> QED BY <1>3, <2>2, <2>3 DEF TaskTypes, TaskCounts
<1> QED BY <1>4, <1>5, <1>6, <1>7 DEF TaskTypes

LEMMA TaskFormats ==
  ASSUME Tasks!TasksAssumption, TaskTypes, NEW e \in Ends, Tasks!SendFormats(e) PROVE TaskTypes'
<1>1. Tasks!Msg("formats", 0) \in Tasks!Messages
  BY TaskMessages DEF Tasks!Types
<1>2. Tasks!Queued(e, "poll", Tasks!Msg("formats", 0)) \/ Tasks!Failed(e, "poll")
  BY DEF Tasks!SendFormats
<1>3. UNCHANGED <<wire, inbox, writer, reader, turn, handler, beat, listed, lost, nonce, unanswered, copies>>
  BY DEF Tasks!SendFormats
<1>4. /\ out' \in [Ends -> Seq(Tasks!Messages)] /\ \A d \in Ends : Len(out'[d]) <= OutCap
      /\ TaskSends' /\ \A d \in Ends : Tasks!Waits(d, "reply")' => Tasks!Waits(d, "reply")
  BY <1>1, <1>2, TaskQueued, TaskFailed DEF TaskTypes, TaskQueues, Users
<1>5. TaskReplies'
  BY <1>3, <1>4, TaskRepliesKept DEF TaskTypes
<1>6. TaskQueues' /\ TaskStates' /\ TaskCounts'
  BY <1>3, <1>4 DEF TaskTypes, TaskQueues, TaskStates, TaskCounts
<1> QED BY <1>4, <1>5, <1>6 DEF TaskTypes

(* Steps that leave the sends and the replies as they are *)
LEMMA TaskSendsKept ==
  ASSUME TaskSends, TaskReplies, waiting' = waiting, handler' = handler
  PROVE  TaskSends' /\ TaskReplies'
<1>1. \A d \in Ends : Tasks!Waits(d, "reply")' = Tasks!Waits(d, "reply")
  BY DEF Tasks!Waits
<1> QED BY <1>1 DEF TaskSends, TaskReplies, Alone

LEMMA TaskForward ==
  ASSUME Tasks!TasksAssumption, TaskTypes, NEW e \in Ends, Tasks!Forward(e) PROVE TaskTypes'
<1>1. Tasks!Msg("input", 0) \in Tasks!Messages
  BY TaskMessages DEF Tasks!Types
<1>2. Len(out[e]) < OutCap /\ out' = [out EXCEPT ![e] = Append(@, Tasks!Msg("input", 0))]
  BY DEF Tasks!Forward, Tasks!Room
<1>3. UNCHANGED <<wire, inbox, writer, reader, turn, handler, beat, waiting, listed, lost, nonce, unanswered, copies>>
  BY DEF Tasks!Forward, Tasks!tasks
<1>4. out' \in [Ends -> Seq(Tasks!Messages)] /\ \A d \in Ends : Len(out'[d]) <= OutCap
  BY <1>1, <1>2, TaskPut, TaskCaps DEF TaskTypes, TaskQueues
<1>5. TaskSends' /\ TaskReplies'
  BY <1>3, TaskSendsKept DEF TaskTypes
<1>6. TaskQueues' /\ TaskStates' /\ TaskCounts'
  BY <1>3, <1>4 DEF TaskTypes, TaskQueues, TaskStates, TaskCounts
<1> QED BY <1>5, <1>6 DEF TaskTypes

LEMMA TaskChunk ==
  ASSUME Tasks!TasksAssumption, TaskTypes, NEW e \in Ends, Tasks!ChunkArrives(e) PROVE TaskTypes'
<1>1. Tasks!Msg("chunk", 0) \in Tasks!Messages
  BY TaskMessages DEF Tasks!Types
<1>2. Len(inbox[e]) < InCap /\ inbox' = [inbox EXCEPT ![e] = Append(@, Tasks!Msg("chunk", 0))]
  BY DEF Tasks!ChunkArrives, Tasks!Room
<1>3. /\ turn' = [turn EXCEPT ![e] = "chunk"]
      /\ UNCHANGED <<out, wire, writer, reader, handler, beat, waiting, listed, lost, nonce, unanswered, copies>>
  BY DEF Tasks!ChunkArrives
<1>4. inbox' \in [Ends -> Seq(Tasks!Messages)] /\ \A d \in Ends : Len(inbox'[d]) <= InCap
  BY <1>1, <1>2, TaskPut, TaskCaps DEF TaskTypes, TaskQueues
<1>5. TaskSends' /\ TaskReplies'
  BY <1>3, TaskSendsKept DEF TaskTypes
<1>6. TaskQueues' /\ TaskStates' /\ TaskCounts'
  BY <1>3, <1>4 DEF TaskTypes, TaskQueues, TaskStates, TaskCounts
<1> QED BY <1>5, <1>6 DEF TaskTypes

(* write_loop and read_loop *)
LEMMA TaskWrites ==
  ASSUME Tasks!TasksAssumption, TaskTypes, NEW e \in Ends, Tasks!WriterWrites(e) PROVE TaskTypes'
<1>1. out[e] # <<>> /\ out' = [out EXCEPT ![e] = Tail(@)]
  BY DEF Tasks!WriterWrites
<1>2. Len(wire[e]) < Window /\ wire' = [wire EXCEPT ![e] = Append(@, Head(out[e]))]
  BY DEF Tasks!WriterWrites, Tasks!Room
<1>3. UNCHANGED <<inbox, writer, reader, turn, handler, beat, waiting, listed, lost, nonce, unanswered, copies>>
  BY DEF Tasks!WriterWrites, Tasks!tasks
<1>4. /\ out' \in [Ends -> Seq(Tasks!Messages)] /\ \A d \in Ends : Len(out'[d]) <= OutCap
      /\ Head(out[e]) \in Tasks!Messages
  BY <1>1, TaskTaken, TaskCaps DEF TaskTypes, TaskQueues
<1>5. wire' \in [Ends -> Seq(Tasks!Messages)] /\ \A d \in Ends : Len(wire'[d]) <= Window
  BY <1>2, <1>4, TaskPut, TaskCaps DEF TaskTypes, TaskQueues
<1>6. TaskSends' /\ TaskReplies'
  BY <1>3, TaskSendsKept DEF TaskTypes
<1>7. TaskQueues' /\ TaskStates' /\ TaskCounts'
  BY <1>3, <1>4, <1>5 DEF TaskTypes, TaskQueues, TaskStates, TaskCounts
<1> QED BY <1>6, <1>7 DEF TaskTypes

LEMMA TaskWriterEnds ==
  ASSUME Tasks!TasksAssumption, TaskTypes, NEW e \in Ends, Tasks!WriterEnds(e) PROVE TaskTypes'
<1>1. /\ writer' = [writer EXCEPT ![e] = "done"] /\ out' = [out EXCEPT ![e] = <<>>]
      /\ UNCHANGED <<wire, inbox, reader, turn, handler, beat, waiting, listed, lost, nonce, unanswered, copies>>
  BY DEF Tasks!WriterEnds
<1>2. out' \in [Ends -> Seq(Tasks!Messages)] /\ \A d \in Ends : Len(out'[d]) <= OutCap
  <2>1. <<>> \in Seq(Tasks!Messages) /\ Len(<<>>) = 0
    OBVIOUS
  <2>2. out' \in [Ends -> Seq(Tasks!Messages)]
    BY <1>1, <2>1 DEF TaskTypes, TaskQueues
  <2>3. ASSUME NEW d \in Ends PROVE Len(out'[d]) <= OutCap
    BY <1>1, <2>1, TaskCaps DEF TaskTypes, TaskQueues
  <2> QED BY <2>2, <2>3
<1>3. TaskSends' /\ TaskReplies'
  BY <1>1, TaskSendsKept DEF TaskTypes
<1>4. TaskQueues' /\ TaskStates' /\ TaskCounts'
  BY <1>1, <1>2 DEF TaskTypes, TaskQueues, TaskStates, TaskCounts
<1> QED BY <1>3, <1>4 DEF TaskTypes

LEMMA TaskReads ==
  ASSUME Tasks!TasksAssumption, TaskTypes, NEW e \in Ends, Tasks!ReaderReads(e) PROVE TaskTypes'
<1> DEFINE p == Tasks!Peer(e)
<1>1. p \in Ends
  BY DEF Tasks!Peer, Ends
<1>2. wire[p] # <<>> /\ wire' = [wire EXCEPT ![p] = Tail(@)]
  BY DEF Tasks!ReaderReads
<1>3. Len(inbox[e]) < InCap /\ inbox' = [inbox EXCEPT ![e] = Append(@, Head(wire[p]))]
  BY DEF Tasks!ReaderReads, Tasks!Room
<1>4. /\ turn' = [turn EXCEPT ![e] = "control"]
      /\ UNCHANGED <<out, writer, reader, handler, beat, waiting, listed, lost, nonce, unanswered, copies>>
  BY DEF Tasks!ReaderReads
<1> HIDE DEF p
<1>5. /\ wire' \in [Ends -> Seq(Tasks!Messages)] /\ \A d \in Ends : Len(wire'[d]) <= Window
      /\ Head(wire[p]) \in Tasks!Messages
  BY <1>1, <1>2, TaskTaken, TaskCaps DEF TaskTypes, TaskQueues
<1>6. inbox' \in [Ends -> Seq(Tasks!Messages)] /\ \A d \in Ends : Len(inbox'[d]) <= InCap
  BY <1>3, <1>5, TaskPut, TaskCaps DEF TaskTypes, TaskQueues
<1>7. TaskSends' /\ TaskReplies'
  BY <1>4, TaskSendsKept DEF TaskTypes
<1>8. TaskQueues' /\ TaskStates' /\ TaskCounts'
  BY <1>4, <1>5, <1>6 DEF TaskTypes, TaskQueues, TaskStates, TaskCounts
<1> QED BY <1>7, <1>8 DEF TaskTypes

LEMMA TaskReaderEnds ==
  ASSUME TaskTypes, NEW e \in Ends, Tasks!ReaderEnds(e) \/ Tasks!Unlist(e) PROVE TaskTypes'
<1>1. /\ reader' = [reader EXCEPT ![e] = "done"] \/ reader' = reader
      /\ listed' = [listed EXCEPT ![e] = FALSE] \/ listed' = listed
      /\ UNCHANGED <<out, wire, inbox, writer, turn, handler, beat, waiting, lost, nonce, unanswered, copies>>
  BY DEF Tasks!ReaderEnds, Tasks!Unlist, Tasks!queues, Tasks!tasks
<1>2. TaskSends' /\ TaskReplies'
  BY <1>1, TaskSendsKept DEF TaskTypes
<1>3. TaskQueues' /\ TaskStates' /\ TaskCounts'
  BY <1>1 DEF TaskTypes, TaskQueues, TaskStates, TaskCounts
<1> QED BY <1>2, <1>3 DEF TaskTypes

(* inbound_loop *)
LEMMA TaskTakes ==
  ASSUME Tasks!TasksAssumption, TaskTypes, NEW e \in Ends, Tasks!HandlerTakes(e) PROVE TaskTypes'
<1> DEFINE m == Head(inbox[e])
           r == Tasks!Reply(m)
<1>1. handler[e] = Tasks!Idle /\ inbox[e] # <<>> /\ inbox' = [inbox EXCEPT ![e] = Tail(@)]
  BY DEF Tasks!HandlerTakes
<1>2. handler' = [handler EXCEPT ![e] = r]
  BY DEF Tasks!HandlerTakes
<1>3. \/ r # Tasks!Idle /\ Tasks!Enqueued(e, "reply")
      \/ r = Tasks!Idle /\ waiting' = waiting
  BY DEF Tasks!HandlerTakes
<1>4. /\ unanswered' = [unanswered EXCEPT ![e] = IF m.type = "pong" THEN @ \ {m.n} ELSE @]
      /\ UNCHANGED <<out, wire, writer, reader, turn, beat, listed, lost, nonce, copies>>
  BY DEF Tasks!HandlerTakes
<1>5. /\ inbox' \in [Ends -> Seq(Tasks!Messages)] /\ \A d \in Ends : Len(inbox'[d]) <= InCap
      /\ m \in Tasks!Messages
  BY <1>1, TaskTaken, TaskCaps DEF TaskTypes, TaskQueues
<1> HIDE DEF m
<1>6. r \in Tasks!Messages \cup {Tasks!Idle}
  BY <1>5, TaskReply
<1>7. ~Tasks!Waits(e, "reply")
  BY <1>1, TaskMessages DEF TaskTypes, TaskReplies
<1> HIDE DEF r
<1>8. /\ TaskSends'
      /\ \A d \in Ends : Tasks!Waits(d, "reply")' =>
           Tasks!Waits(d, "reply") \/ (d = e /\ r # Tasks!Idle)
  <2>1. CASE r # Tasks!Idle /\ Tasks!Enqueued(e, "reply")
    BY <1>7, <2>1, TaskEnqueued DEF TaskTypes, Users
  <2>2. CASE waiting' = waiting
    <3>1. TaskSends'
      BY <2>2 DEF TaskTypes, TaskSends, Alone
    <3>2. \A d \in Ends : Tasks!Waits(d, "reply")' => Tasks!Waits(d, "reply")
      BY <2>2 DEF Tasks!Waits
    <3> QED BY <3>1, <3>2
  <2> QED BY <1>3, <2>1, <2>2
<1>9. TaskReplies'
  <2>1. handler' \in [Ends -> Tasks!Messages \cup {Tasks!Idle, Tasks!Done}]
    BY <1>2, <1>6 DEF TaskTypes, TaskReplies
  <2>2. ASSUME NEW d \in Ends, Tasks!Waits(d, "reply")' PROVE handler'[d] \in Tasks!Messages
    <3>1. CASE d = e
      BY <1>2, <1>6, <1>7, <1>8, <2>2, <3>1 DEF TaskTypes, TaskReplies
    <3>2. CASE d # e
      BY <1>2, <1>8, <2>2, <3>2 DEF TaskTypes, TaskReplies
    <3> QED BY <3>1, <3>2
  <2> QED BY <2>1, <2>2 DEF TaskReplies
<1>10. TaskQueues' /\ TaskStates' /\ TaskCounts'
  BY <1>4, <1>5 DEF TaskTypes, TaskQueues, TaskStates, TaskCounts
<1> QED BY <1>8, <1>9, <1>10 DEF TaskTypes

LEMMA TaskRepliesTo ==
  ASSUME Tasks!TasksAssumption, TaskTypes, NEW e \in Ends, Tasks!HandlerReplies(e) PROVE TaskTypes'
<1>1. Tasks!Queued(e, "reply", handler[e]) \/ Tasks!Failed(e, "reply")
  BY DEF Tasks!HandlerReplies
<1>2. handler' = [handler EXCEPT ![e] = Tasks!Idle]
  BY DEF Tasks!HandlerReplies
<1>3. UNCHANGED <<wire, inbox, writer, reader, turn, beat, listed, lost, nonce, unanswered, copies>>
  BY DEF Tasks!HandlerReplies
<1>4. /\ out' \in [Ends -> Seq(Tasks!Messages)] /\ \A d \in Ends : Len(out'[d]) <= OutCap
      /\ TaskSends'
      /\ \A d \in Ends : Tasks!Waits(d, "reply")' => Tasks!Waits(d, "reply") /\ d # e
  <2>1. CASE Tasks!Queued(e, "reply", handler[e])
    <3>1. waiting[e] # <<>> /\ Head(waiting[e]) = "reply"
      BY <2>1 DEF Tasks!Queued
    <3>2. Tasks!Waits(e, "reply")
      BY <3>1, TaskHead DEF TaskTypes
    <3>3. handler[e] \in Tasks!Messages
      BY <3>2 DEF TaskTypes, TaskReplies
    <3> QED BY <2>1, <3>3, TaskQueued DEF TaskTypes, Users
  <2>2. CASE Tasks!Failed(e, "reply")
    BY <2>2, TaskFailed DEF TaskTypes, TaskQueues, Users
  <2> QED BY <1>1, <2>1, <2>2
<1>5. TaskReplies'
  BY <1>2, <1>4 DEF TaskTypes, TaskReplies
<1>6. TaskQueues' /\ TaskStates' /\ TaskCounts'
  BY <1>3, <1>4 DEF TaskTypes, TaskQueues, TaskStates, TaskCounts
<1> QED BY <1>4, <1>5, <1>6 DEF TaskTypes

LEMMA TaskHandlerEnds ==
  ASSUME Tasks!TasksAssumption, TaskTypes, NEW e \in Ends, Tasks!HandlerEnds(e) PROVE TaskTypes'
<1>1. handler[e] = Tasks!Idle /\ handler' = [handler EXCEPT ![e] = Tasks!Done]
  BY DEF Tasks!HandlerEnds
<1>2. UNCHANGED <<out, wire, inbox, writer, reader, turn, beat, waiting, listed, lost, nonce, unanswered, copies>>
  BY DEF Tasks!HandlerEnds, Tasks!queues
<1>3. \A d \in Ends : Tasks!Waits(d, "reply")' => Tasks!Waits(d, "reply")
  BY <1>2 DEF Tasks!Waits
<1>4. ~Tasks!Waits(e, "reply")
  BY <1>1, TaskMessages DEF TaskTypes, TaskReplies
<1>5. TaskReplies'
  BY <1>1, <1>3, <1>4 DEF TaskTypes, TaskReplies
<1>6. TaskSends'
  BY <1>2 DEF TaskTypes, TaskSends, Alone
<1>7. TaskQueues' /\ TaskStates' /\ TaskCounts'
  BY <1>2 DEF TaskTypes, TaskQueues, TaskStates, TaskCounts
<1> QED BY <1>5, <1>6, <1>7 DEF TaskTypes

LEMMA TaskLoses ==
  ASSUME Tasks!TasksAssumption, TaskTypes, NEW e \in Ends, Tasks!Lose(e) PROVE TaskTypes'
<1>1. /\ lost' = [lost EXCEPT ![e] = TRUE] /\ wire' = [d \in Ends |-> <<>>]
      /\ unanswered' = [unanswered EXCEPT ![e] = {}]
      /\ UNCHANGED <<out, inbox, writer, reader, turn, handler, beat, waiting, listed, nonce, copies>>
  BY DEF Tasks!Lose, Tasks!tasks, Tasks!Ends, Ends
<1>2. wire' \in [Ends -> Seq(Tasks!Messages)] /\ \A d \in Ends : Len(wire'[d]) <= Window
  <2>1. <<>> \in Seq(Tasks!Messages) /\ Len(<<>>) = 0
    OBVIOUS
  <2> QED BY <1>1, <2>1, TaskCaps
<1>3. TaskSends' /\ TaskReplies'
  BY <1>1, TaskSendsKept DEF TaskTypes
<1>4. TaskQueues' /\ TaskStates' /\ TaskCounts'
  BY <1>1, <1>2 DEF TaskTypes, TaskQueues, TaskStates, TaskCounts
<1> QED BY <1>3, <1>4 DEF TaskTypes

LEMMA TaskInit == ASSUME Tasks!TasksAssumption PROVE Tasks!Init => TaskTypes
<1> SUFFICES ASSUME Tasks!Init PROVE TaskTypes
  OBVIOUS
<1>1. /\ out = [e \in Ends |-> <<>>] /\ wire = [e \in Ends |-> <<>>] /\ inbox = [e \in Ends |-> <<>>]
      /\ waiting = [e \in Ends |-> <<>>] /\ handler = [e \in Ends |-> Tasks!Idle]
      /\ writer = [e \in Ends |-> "run"] /\ reader = [e \in Ends |-> "run"]
      /\ turn = [e \in Ends |-> "control"] /\ beat = [e \in Ends |-> TRUE]
      /\ listed = [e \in Ends |-> TRUE] /\ lost = [e \in Ends |-> FALSE]
      /\ nonce = [e \in Ends |-> 0] /\ unanswered = [e \in Ends |-> {}] /\ copies = [e \in Ends |-> 0]
  BY DEF Tasks!Init, Tasks!Ends, Ends
<1>2. <<>> \in Seq(Tasks!Messages) /\ <<>> \in Seq(Users) /\ Len(<<>>) = 0
  OBVIOUS
<1>3. TaskQueues
  BY <1>1, <1>2, TaskCaps DEF TaskQueues
<1>4. TaskSends
  BY <1>1, <1>2 DEF TaskSends, Alone
<1>5. TaskReplies
  BY <1>1, <1>2 DEF TaskReplies, Tasks!Waits
<1>6. TaskStates
  BY <1>1 DEF TaskStates
<1>7. TaskCounts
  <2>1. 0 \in 0 .. Nonces - 1
    BY TaskMessages
  <2>2. \A e \in Ends : MaxCopies[e] \in Nat
    BY DEF Tasks!TasksAssumption, Tasks!Ends, Ends
  <2> QED BY <1>1, <2>1, <2>2 DEF TaskCounts
<1> QED BY <1>3, <1>4, <1>5, <1>6, <1>7 DEF TaskTypes

LEMMA TaskStep == ASSUME Tasks!TasksAssumption PROVE TaskTypes /\ [Tasks!Next]_Tasks!vars => TaskTypes'
<1> SUFFICES ASSUME TaskTypes, [Tasks!Next]_Tasks!vars PROVE TaskTypes'
  OBVIOUS
<1>1. CASE Tasks!Next
  <2>1. PICK e \in Ends :
          \/ Tasks!Heartbeat(e) \/ Tasks!Poll(e) \/ Tasks!SendFormats(e) \/ Tasks!Forward(e)
          \/ Tasks!ChunkArrives(e) \/ Tasks!Writer(e) \/ Tasks!Reader(e) \/ Tasks!Handler(e)
          \/ Tasks!Unlist(e) \/ Tasks!Lose(e)
    BY <1>1 DEF Tasks!Next, Tasks!Ends, Ends
  <2>2. CASE Tasks!Heartbeat(e)
    BY <2>2, TaskTick, TaskPing, TaskPingFails DEF Tasks!Heartbeat
  <2>3. CASE Tasks!Writer(e) \/ Tasks!Reader(e) \/ Tasks!Unlist(e)
    BY <2>3, TaskWrites, TaskWriterEnds, TaskReads, TaskReaderEnds DEF Tasks!Writer, Tasks!Reader
  <2>4. CASE Tasks!Handler(e)
    BY <2>4, TaskTakes, TaskRepliesTo, TaskHandlerEnds DEF Tasks!Handler
  <2> QED
    BY <2>1, <2>2, <2>3, <2>4, TaskPoll, TaskFormats, TaskForward, TaskChunk, TaskLoses
<1>2. CASE UNCHANGED Tasks!vars
  <2>1. UNCHANGED <<out, wire, inbox, writer, reader, turn, handler, beat, waiting, listed, lost, nonce,
                    unanswered, copies>>
    BY <1>2 DEF Tasks!vars, Tasks!queues, Tasks!tasks
  <2>2. TaskSends' /\ TaskReplies'
    BY <2>1, TaskSendsKept DEF TaskTypes
  <2> QED BY <2>1, <2>2 DEF TaskTypes, TaskQueues, TaskStates, TaskCounts
<1> QED BY <1>1, <1>2

(* Three tasks send, so that at most three sends wait. *)
LEMMA TaskTyped == ASSUME Tasks!TasksAssumption PROVE TaskTypes => Tasks!TypeOK
<1> SUFFICES ASSUME TaskTypes PROVE Tasks!TypeOK
  OBVIOUS
<1>1. ASSUME NEW e \in Ends PROVE Len(waiting[e]) <= 3
  <2> DEFINE q == waiting[e]
  <2>1. q \in Seq(Users) /\ Alone(q) /\ Len(q) \in Nat
    BY DEF TaskTypes, TaskSends
  <2> HIDE DEF q
  <2> SUFFICES ASSUME Len(q) >= 4 PROVE FALSE
    BY <2>1 DEF q
  <2>2. \A i \in 1..Len(q) : q[i] \in Users
    BY <2>1
  <2>3. 1 \in 1..Len(q) /\ 2 \in 1..Len(q) /\ 3 \in 1..Len(q) /\ 4 \in 1..Len(q)
    BY <2>1
  <2> QED BY <2>1, <2>2, <2>3 DEF Alone, Users
<1>2. \A e \in Ends : waiting[e] \in Seq({"beat", "poll", "reply"}) /\ copies[e] \in 0 .. MaxCopies[e]
  <2>1. \A e \in Ends : MaxCopies[e] \in Nat
    BY DEF Tasks!TasksAssumption, Tasks!Ends, Ends
  <2>2. \A e \in Ends : copies[e] \in 0 .. MaxCopies[e]
    BY <2>1 DEF TaskTypes, TaskCounts
  <2>3. \A e \in Ends : waiting[e] \in Seq({"beat", "poll", "reply"})
    BY DEF TaskTypes, TaskSends, Users
  <2> QED BY <2>2, <2>3
<1>3. Tasks!Ends = Ends
  BY DEF Tasks!Ends, Ends
<1> QED BY <1>1, <1>2, <1>3 DEF TaskTypes, TaskQueues, TaskReplies, TaskStates, TaskCounts, Tasks!TypeOK

(* The tasks of a connection and the queues between them keep to their      *)
(* types (PeerTasks.TypeOK): no channel holds more than its capacity, and   *)
(* however the two directions hold each other up no more sends wait on a    *)
(* channel than tasks hold the handle, each with one send: inbound_loop     *)
(* awaits its reply before it takes the next message (session.rs).          *)
THEOREM TaskTypeCorrect ==
  ASSUME Tasks!TasksAssumption
  PROVE  Tasks!Spec => []Tasks!TypeOK
<1>1. Tasks!Spec => []TaskTypes
  BY TaskInit, TaskStep, PTL DEF Tasks!Spec
<1> QED BY <1>1, TaskTyped, PTL

-----------------------------------------------------------------------------
(* PeerTasks: no Ping is dropped on its way to its Pong *)

Has(q, m) == \E i \in DOMAIN q : q[i] = m

Ping(n) == Tasks!Msg("ping", n)
Pong(n) == Tasks!Msg("pong", n)

(* A Ping that is not answered, or its Pong, is on its way (OnItsWay), or   *)
(* the other end has lost the connection.                                   *)
Traced ==
  \A e \in Ends : \A n \in unanswered[e] : lost[Tasks!Peer(e)] \/ Tasks!OnItsWay(e, n)

(* What that takes: nothing is awaited after a loss, and where every message *)
(* can be encoded a writer ends by a loss only.                             *)
LossSettles ==
  \A e \in Ends : /\ lost[e] => unanswered[e] = {}
                  /\ writer[e] = "done" => lost[e]

LEMMA PeerOfPeer == \A e \in Ends : Tasks!Peer(e) \in Ends /\ Tasks!Peer(Tasks!Peer(e)) = e
                                    /\ \A d \in Ends : d = e \/ d = Tasks!Peer(e)
BY DEF Tasks!Peer, Ends

LEMMA HasAppended ==
  ASSUME NEW S, NEW q \in Seq(S), NEW m \in S
  PROVE  Has(Append(q, m), m) /\ \A x : Has(q, x) => Has(Append(q, m), x)
<1> DEFINE r == Append(q, m)
<1>1. /\ Len(q) \in Nat /\ DOMAIN q = 1..Len(q) /\ DOMAIN r = 1..Len(q) + 1
      /\ r[Len(q) + 1] = m /\ \A i \in 1..Len(q) : r[i] = q[i]
  BY AppendProperties
<1> HIDE DEF r
<1> QED BY <1>1 DEF Has, r

LEMMA HasTaken ==
  ASSUME NEW S, NEW q \in Seq(S), q # <<>>
  PROVE  \A x : Has(q, x) => x = Head(q) \/ Has(Tail(q), x)
<1> DEFINE r == Tail(q)
<1>1. /\ Len(q) \in Nat /\ DOMAIN q = 1..Len(q) /\ DOMAIN r = 1..Len(q) - 1 /\ Head(q) = q[1]
      /\ \A i \in 1..Len(q) - 1 : r[i] = q[i + 1]
  BY HeadTailProperties
<1> HIDE DEF r
<1>2. ASSUME NEW i \in DOMAIN q, i # 1 PROVE Has(r, q[i])
  <2>1. i - 1 \in 1..Len(q) - 1 /\ (i - 1) + 1 = i
    BY <1>1, <1>2
  <2> QED BY <1>1, <2>1 DEF Has
<1> QED BY <1>1, <1>2 DEF Has, r

(* A step that takes no message from a place without putting it, or its     *)
(* answer, into the next one                                                *)
HandsOn ==
  \A d \in Ends :
    /\ \A x : Has(out[d], x) => Has(out'[d], x) \/ Has(wire'[d], x)
    /\ \A x : Has(wire[d], x) => Has(wire'[d], x) \/ Has(inbox'[Tasks!Peer(d)], x)
    /\ \A n : Has(inbox[d], Ping(n)) => Has(inbox'[d], Ping(n)) \/ handler'[d] = Pong(n)
    /\ \A n : handler[d] = Pong(n) => handler'[d] = Pong(n) \/ Has(out'[d], Pong(n))
    /\ \A n : Has(inbox[d], Pong(n)) => Has(inbox'[d], Pong(n)) \/ n \notin unanswered'[d]

LEMMA OnItsWayIs ==
  ASSUME NEW e, NEW n
  PROVE  Tasks!OnItsWay(e, n) <=>
           \/ handler[Tasks!Peer(e)] = Pong(n)
           \/ Has(out[e], Ping(n)) \/ Has(wire[e], Ping(n)) \/ Has(inbox[Tasks!Peer(e)], Ping(n))
           \/ Has(out[Tasks!Peer(e)], Pong(n)) \/ Has(wire[Tasks!Peer(e)], Pong(n))
           \/ Has(inbox[e], Pong(n))
BY DEF Tasks!OnItsWay, Has, Ping, Pong

LEMMA StaysOnItsWay ==
  ASSUME HandsOn, NEW e \in Ends, NEW n, Tasks!OnItsWay(e, n), n \in unanswered'[e]
  PROVE  Tasks!OnItsWay(e, n)'
<1> DEFINE p == Tasks!Peer(e)
<1>1. p \in Ends /\ Tasks!Peer(p) = e
  BY PeerOfPeer
<1>2. Tasks!OnItsWay(e, n)' <=>
           \/ handler'[p] = Pong(n)
           \/ Has(out'[e], Ping(n)) \/ Has(wire'[e], Ping(n)) \/ Has(inbox'[p], Ping(n))
           \/ Has(out'[p], Pong(n)) \/ Has(wire'[p], Pong(n)) \/ Has(inbox'[e], Pong(n))
  BY DEF Tasks!OnItsWay, Has, Ping, Pong
<1>3. \/ handler[p] = Pong(n)
      \/ Has(out[e], Ping(n)) \/ Has(wire[e], Ping(n)) \/ Has(inbox[p], Ping(n))
      \/ Has(out[p], Pong(n)) \/ Has(wire[p], Pong(n)) \/ Has(inbox[e], Pong(n))
  BY OnItsWayIs
<1> HIDE DEF p
<1> QED BY <1>1, <1>2, <1>3, Zenon DEF HandsOn, p

(* A step of these that asks for nothing new keeps every Ping in sight.     *)
LEMMA TracedHandsOn ==
  ASSUME Traced, HandsOn, lost' = lost, \A e \in Ends : unanswered'[e] \subseteq unanswered[e]
  PROVE  Traced'
<1> SUFFICES ASSUME NEW e \in Ends, NEW n \in unanswered'[e], ~lost[Tasks!Peer(e)]
             PROVE  Tasks!OnItsWay(e, n)'
  BY DEF Traced
<1> QED BY StaysOnItsWay DEF Traced

(* Once an end has lost the connection there is nothing left to trace.      *)
LEMMA TracedAfterLoss ==
  ASSUME NEW f \in Ends, lost'[f], unanswered'[f] = {} PROVE Traced'
BY PeerOfPeer DEF Traced

(* What a step of an end does to the ends' channels: each holds what it     *)
(* held, or all but the head of one.                                        *)
Grown(q, r) == \A d \in Ends : \A x : Has(q[d], x) => Has(r[d], x)

Passed(q, r, f) ==
  \A d \in Ends : \A x : Has(q[d], x) => Has(r[d], x) \/ (d = f /\ x = Head(q[f]))

LEMMA GrownSame ==
  ASSUME NEW q, NEW r, r = q PROVE Grown(q, r)
BY DEF Grown

LEMMA HasPut ==
  ASSUME NEW q \in [Ends -> Seq(Tasks!Messages)], NEW f \in Ends, NEW m \in Tasks!Messages,
         NEW r, r = [q EXCEPT ![f] = Append(@, m)]
  PROVE  Has(r[f], m) /\ Grown(q, r)
<1>1. r[f] = Append(q[f], m) /\ \A d \in Ends : d # f => r[d] = q[d]
  OBVIOUS
<1>2. Has(Append(q[f], m), m) /\ \A x : Has(q[f], x) => Has(Append(q[f], m), x)
  BY HasAppended
<1> QED BY <1>1, <1>2, Zenon DEF Grown

LEMMA HasPassed ==
  ASSUME NEW q \in [Ends -> Seq(Tasks!Messages)], NEW f \in Ends, q[f] # <<>>,
         NEW r, r = [q EXCEPT ![f] = Tail(@)]
  PROVE  Passed(q, r, f)
<1>1. r[f] = Tail(q[f]) /\ \A d \in Ends : d # f => r[d] = q[d]
  OBVIOUS
<1>2. \A x : Has(q[f], x) => x = Head(q[f]) \/ Has(Tail(q[f]), x)
  BY HasTaken
<1> QED BY <1>1, <1>2, Zenon DEF Passed

(* Steps that put a message into the outbound channel, or take none at all  *)
LEMMA HandsOnPut ==
  ASSUME Grown(out, out'), Grown(inbox, inbox'),
         UNCHANGED <<wire, handler>>
  PROVE  HandsOn
BY Zenon DEF HandsOn, Grown, Passed

LEMMA QueuedHas ==
  ASSUME TaskTypes, NEW f \in Ends, NEW t, NEW m \in Tasks!Messages, Tasks!Queued(f, t, m)
  PROVE  Has(out'[f], m) /\ Grown(out, out')
<1>1. out \in [Ends -> Seq(Tasks!Messages)] /\ out' = [out EXCEPT ![f] = Append(@, m)]
  BY DEF Tasks!Queued, TaskTypes, TaskQueues
<1> QED BY <1>1, HasPut

LEMMA TracedPing ==
  ASSUME Tasks!TasksAssumption, TaskTypes, Traced, LossSettles, NEW f \in Ends, Tasks!SendPing(f)
  PROVE  Traced' /\ LossSettles'
<1> DEFINE m == Ping(nonce[f])
<1>1. m \in Tasks!Messages
  BY TaskMessages DEF TaskTypes, TaskCounts, Tasks!Types, Ping
<1>2. Tasks!Queued(f, "beat", m) /\ UNCHANGED <<wire, inbox, handler, writer, lost>>
  BY DEF Tasks!SendPing, Ping
<1>3. /\ unanswered'[f] = IF lost[f] THEN unanswered[f] ELSE unanswered[f] \cup {nonce[f]}
      /\ \A e \in Ends : e # f => unanswered'[e] = unanswered[e]
  BY DEF Tasks!SendPing, TaskTypes, TaskCounts
<1> HIDE DEF m
<1>4. Has(out'[f], m) /\ Grown(out, out')
  BY <1>1, <1>2, QueuedHas
<1>5. HandsOn
  <2>1. Grown(inbox, inbox')
    BY <1>2, GrownSame
  <2> QED BY <1>2, <1>4, <2>1, HandsOnPut
<1>6. ASSUME NEW e \in Ends, NEW n \in unanswered'[e], ~lost'[Tasks!Peer(e)]
      PROVE  Tasks!OnItsWay(e, n)'
  <2>1. CASE n \in unanswered[e]
    BY <1>2, <1>5, <1>6, <2>1, StaysOnItsWay DEF Traced
  <2>2. CASE n \notin unanswered[e]
    <3>1. e = f /\ n = nonce[f]
      BY <1>3, <1>6, <2>2
    <3>2. Has(out'[e], Ping(n))
      BY <1>4, <3>1 DEF m
    <3> QED BY <3>2 DEF Tasks!OnItsWay, Has, Ping
  <2> QED BY <2>1, <2>2
<1>7. Traced'
  BY <1>6 DEF Traced
<1>8. LossSettles'
  BY <1>2, <1>3 DEF LossSettles
<1> QED BY <1>7, <1>8

(* Steps that put a message into a channel or fail to, and steps that only  *)
(* change what the tasks wait for                                           *)
LEMMA TracedPut ==
  ASSUME Traced, LossSettles, UNCHANGED <<wire, handler, lost, writer, unanswered>>,
         Grown(out, out'), Grown(inbox, inbox')
  PROVE  Traced' /\ LossSettles'
<1>1. HandsOn
  BY HandsOnPut
<1>2. Traced'
  BY <1>1, TracedHandsOn
<1> QED BY <1>2 DEF LossSettles

LEMMA TracedSame ==
  ASSUME Traced, LossSettles, UNCHANGED <<out, wire, inbox, handler, lost, writer, unanswered>>
  PROVE  Traced' /\ LossSettles'
<1>1. Grown(out, out') /\ Grown(inbox, inbox')
  BY GrownSame
<1> QED BY <1>1, TracedPut

LEMMA TracedOthers ==
  ASSUME Tasks!TasksAssumption, TaskTypes, Traced, LossSettles, NEW f \in Ends,
         \/ Tasks!Tick(f) \/ Tasks!PingFails(f) \/ Tasks!Poll(f) \/ Tasks!SendFormats(f)
         \/ Tasks!Forward(f) \/ Tasks!ChunkArrives(f) \/ Tasks!ReaderEnds(f) \/ Tasks!Unlist(f)
  PROVE  Traced' /\ LossSettles'
<1>1. CASE Tasks!Tick(f) \/ Tasks!PingFails(f) \/ Tasks!Poll(f) \/ Tasks!ReaderEnds(f) \/ Tasks!Unlist(f)
  BY <1>1, TracedSame
     DEF Tasks!Tick, Tasks!PingFails, Tasks!Failed, Tasks!Poll, Tasks!ReaderEnds, Tasks!Unlist,
         Tasks!queues, Tasks!tasks
<1>2. CASE Tasks!SendFormats(f)
  <2>1. UNCHANGED <<wire, inbox, handler, lost, writer, unanswered>>
        /\ (Tasks!Queued(f, "poll", Tasks!Msg("formats", 0)) \/ Tasks!Failed(f, "poll"))
    BY <1>2 DEF Tasks!SendFormats
  <2>2. Tasks!Msg("formats", 0) \in Tasks!Messages
    BY TaskMessages DEF Tasks!Types
  <2>3. Grown(out, out')
    BY <2>1, <2>2, QueuedHas, GrownSame DEF Tasks!Failed
  <2>4. Grown(inbox, inbox')
    BY <2>1, GrownSame
  <2> QED BY <2>1, <2>3, <2>4, TracedPut
<1>3. CASE Tasks!Forward(f)
  <2>1. UNCHANGED <<wire, inbox, handler, lost, writer, unanswered>>
        /\ out' = [out EXCEPT ![f] = Append(@, Tasks!Msg("input", 0))]
    BY <1>3 DEF Tasks!Forward, Tasks!tasks
  <2>2. Tasks!Msg("input", 0) \in Tasks!Messages
    BY TaskMessages DEF Tasks!Types
  <2>3. out \in [Ends -> Seq(Tasks!Messages)]
    BY DEF TaskTypes, TaskQueues
  <2>4. Grown(out, out')
    BY <2>1, <2>2, <2>3, HasPut
  <2>5. Grown(inbox, inbox')
    BY <2>1, GrownSame
  <2> QED BY <2>1, <2>4, <2>5, TracedPut
<1>4. CASE Tasks!ChunkArrives(f)
  <2>1. UNCHANGED <<wire, out, handler, lost, writer, unanswered>>
        /\ inbox' = [inbox EXCEPT ![f] = Append(@, Tasks!Msg("chunk", 0))]
    BY <1>4 DEF Tasks!ChunkArrives
  <2>2. Tasks!Msg("chunk", 0) \in Tasks!Messages
    BY TaskMessages DEF Tasks!Types
  <2>3. inbox \in [Ends -> Seq(Tasks!Messages)]
    BY DEF TaskTypes, TaskQueues
  <2>4. Grown(inbox, inbox')
    BY <2>1, <2>2, <2>3, HasPut
  <2>5. Grown(out, out')
    BY <2>1, GrownSame
  <2> QED BY <2>1, <2>4, <2>5, TracedPut
<1> QED BY <1>1, <1>2, <1>3, <1>4

(* write_loop and read_loop *)
LEMMA TracedWrites ==
  ASSUME TaskTypes, Traced, LossSettles, NEW f \in Ends, Tasks!WriterWrites(f)
  PROVE  Traced' /\ LossSettles'
<1>1. /\ out[f] # <<>> /\ out' = [out EXCEPT ![f] = Tail(@)]
      /\ wire' = [wire EXCEPT ![f] = Append(@, Head(out[f]))]
      /\ UNCHANGED <<inbox, handler, lost, writer, unanswered>>
  BY DEF Tasks!WriterWrites, Tasks!tasks
<1>2. out \in [Ends -> Seq(Tasks!Messages)] /\ wire \in [Ends -> Seq(Tasks!Messages)]
  BY DEF TaskTypes, TaskQueues
<1>3. Head(out[f]) \in Tasks!Messages
  BY <1>1, <1>2, HeadTailProperties
<1>4. Passed(out, out', f)
  BY <1>1, <1>2, HasPassed
<1>5. Has(wire'[f], Head(out[f])) /\ Grown(wire, wire')
  BY <1>1, <1>2, <1>3, HasPut
<1>6. HandsOn
  BY <1>1, <1>4, <1>5, Zenon DEF HandsOn, Grown, Passed
<1>7. Traced'
  BY <1>1, <1>6, TracedHandsOn
<1> QED BY <1>1, <1>7 DEF LossSettles

LEMMA TracedReads ==
  ASSUME TaskTypes, Traced, LossSettles, NEW f \in Ends, Tasks!ReaderReads(f)
  PROVE  Traced' /\ LossSettles'
<1> DEFINE p == Tasks!Peer(f)
<1>0. p \in Ends /\ Tasks!Peer(p) = f
  BY PeerOfPeer
<1>1. /\ wire[p] # <<>> /\ wire' = [wire EXCEPT ![p] = Tail(@)]
      /\ inbox' = [inbox EXCEPT ![f] = Append(@, Head(wire[p]))]
      /\ UNCHANGED <<out, handler, lost, writer, unanswered>>
  BY DEF Tasks!ReaderReads
<1> HIDE DEF p
<1>2. inbox \in [Ends -> Seq(Tasks!Messages)] /\ wire \in [Ends -> Seq(Tasks!Messages)]
  BY DEF TaskTypes, TaskQueues
<1>3. Head(wire[p]) \in Tasks!Messages
  BY <1>0, <1>1, <1>2, HeadTailProperties
<1>4. Passed(wire, wire', p)
  BY <1>0, <1>1, <1>2, HasPassed
<1>5. Has(inbox'[f], Head(wire[p])) /\ Grown(inbox, inbox')
  BY <1>1, <1>2, <1>3, HasPut
<1>6. HandsOn
  BY <1>0, <1>1, <1>4, <1>5, Zenon DEF HandsOn, Grown, Passed
<1>7. Traced'
  BY <1>1, <1>6, TracedHandsOn
<1> QED BY <1>1, <1>7 DEF LossSettles

LEMMA TracedWriterEnds ==
  ASSUME TooLong = {}, TaskTypes, LossSettles, NEW f \in Ends, Tasks!WriterEnds(f)
  PROVE  Traced' /\ LossSettles'
<1>1. lost[f] /\ UNCHANGED <<lost, unanswered>> /\ writer' = [writer EXCEPT ![f] = "done"]
  BY DEF Tasks!WriterEnds
<1>2. \A e \in Ends : e # f => writer'[e] = writer[e]
  BY <1>1 DEF TaskTypes, TaskStates
<1>3. LossSettles'
  BY <1>1, <1>2 DEF LossSettles
<1>4. lost'[f] /\ unanswered'[f] = {}
  BY <1>1 DEF LossSettles
<1> QED BY <1>3, <1>4, TracedAfterLoss

(* inbound_loop *)
LEMMA TracedTakes ==
  ASSUME Tasks!TasksAssumption, TaskTypes, Traced, LossSettles, NEW f \in Ends, Tasks!HandlerTakes(f)
  PROVE  Traced' /\ LossSettles'
<1> DEFINE m == Head(inbox[f])
<1>1. /\ inbox[f] # <<>> /\ inbox' = [inbox EXCEPT ![f] = Tail(@)]
      /\ handler[f] = Tasks!Idle /\ handler' = [handler EXCEPT ![f] = Tasks!Reply(m)]
      /\ unanswered' = [unanswered EXCEPT ![f] = IF m.type = "pong" THEN @ \ {m.n} ELSE @]
      /\ UNCHANGED <<out, wire, lost, writer>>
  BY DEF Tasks!HandlerTakes
<1> HIDE DEF m
<1>2. Passed(inbox, inbox', f)
  BY <1>1, HasPassed DEF TaskTypes, TaskQueues, m
<1>3. /\ handler'[f] = Tasks!Reply(m) /\ \A d \in Ends : d # f => handler'[d] = handler[d]
      /\ \A n : handler[f] # Pong(n)
  BY <1>1 DEF TaskTypes, TaskReplies, Pong, Tasks!Msg, Tasks!Idle
<1>4. /\ \A d \in Ends : unanswered'[d] \subseteq unanswered[d]
      /\ m.type = "pong" => m.n \notin unanswered'[f]
  BY <1>1 DEF TaskTypes, TaskCounts
<1>5. \A n : /\ m = Ping(n) => Tasks!Reply(m) = Pong(n)
             /\ m = Pong(n) => m.type = "pong" /\ m.n = n
  BY DEF Ping, Pong, Tasks!Msg, Tasks!Reply
<1>6. HandsOn
  <2> SUFFICES ASSUME NEW d \in Ends
               PROVE  /\ \A n : Has(inbox[d], Ping(n)) => Has(inbox'[d], Ping(n)) \/ handler'[d] = Pong(n)
                      /\ \A n : handler[d] = Pong(n) => handler'[d] = Pong(n)
                      /\ \A n : Has(inbox[d], Pong(n)) => Has(inbox'[d], Pong(n)) \/ n \notin unanswered'[d]
    BY <1>1, Zenon DEF HandsOn
  <2>1. \A x : Has(inbox[d], x) => Has(inbox'[d], x) \/ (d = f /\ x = m)
    BY <1>2, Zenon DEF Passed, m
  <2>2. CASE d = f
    <3>1. \A n : Has(inbox[f], Ping(n)) => Has(inbox'[f], Ping(n)) \/ handler'[f] = Pong(n)
      BY <1>3, <1>5, <2>1, <2>2, Zenon
    <3>2. \A n : Has(inbox[f], Pong(n)) => Has(inbox'[f], Pong(n)) \/ n \notin unanswered'[f]
      <4>1. \A n : m = Pong(n) => n \notin unanswered'[f]
        BY <1>4, <1>5
      <4> QED BY <2>1, <2>2, <4>1, Zenon
    <3> QED BY <1>3, <2>2, <3>1, <3>2, Zenon
  <2>3. CASE d # f
    BY <1>3, <2>1, <2>3, Zenon
  <2> QED BY <2>2, <2>3
<1>7. Traced'
  BY <1>1, <1>4, <1>6, TracedHandsOn
<1>8. LossSettles'
  BY <1>1, <1>4 DEF LossSettles
<1> QED BY <1>7, <1>8

LEMMA TracedReplies ==
  ASSUME Tasks!TasksAssumption, TaskTypes, Traced, LossSettles, NEW f \in Ends, Tasks!HandlerReplies(f)
  PROVE  Traced' /\ LossSettles'
<1>1. /\ Tasks!Queued(f, "reply", handler[f]) \/ Tasks!Failed(f, "reply")
      /\ handler' = [handler EXCEPT ![f] = Tasks!Idle]
      /\ UNCHANGED <<wire, inbox, lost, writer, unanswered>>
  BY DEF Tasks!HandlerReplies
<1>2. LossSettles'
  BY <1>1 DEF LossSettles
<1>3. CASE Tasks!Queued(f, "reply", handler[f])
  <2>1. handler[f] \in Tasks!Messages
    <3>1. waiting[f] # <<>> /\ Head(waiting[f]) = "reply"
      BY <1>3 DEF Tasks!Queued
    <3>2. Tasks!Waits(f, "reply")
      BY <3>1, TaskHead DEF TaskTypes
    <3> QED BY <3>2 DEF TaskTypes, TaskReplies
  <2>2. Has(out'[f], handler[f]) /\ Grown(out, out')
    BY <1>3, <2>1, QueuedHas
  <2>3. \A d \in Ends : d # f => handler'[d] = handler[d]
    BY <1>1 DEF TaskTypes, TaskReplies
  <2>4. HandsOn
    BY <1>1, <2>2, <2>3, Zenon DEF HandsOn, Grown, Passed
  <2>5. Traced'
    BY <1>1, <2>4, TracedHandsOn
  <2> QED BY <1>2, <2>5
(* The channel is closed: the writer of this end has ended with a loss.     *)
<1>4. CASE Tasks!Failed(f, "reply")
  <2>1. lost'[f] /\ unanswered'[f] = {}
    BY <1>1, <1>4 DEF Tasks!Failed, Tasks!Closed, LossSettles
  <2> QED BY <1>2, <2>1, TracedAfterLoss
<1> QED BY <1>1, <1>3, <1>4

LEMMA TracedHandlerEnds ==
  ASSUME LossSettles, NEW f \in Ends, Tasks!HandlerEnds(f)
  PROVE  Traced' /\ LossSettles'
<1>1. lost[f] /\ UNCHANGED <<lost, writer, unanswered>>
  BY DEF Tasks!HandlerEnds
<1>2. LossSettles'
  BY <1>1 DEF LossSettles
<1>3. lost'[f] /\ unanswered'[f] = {}
  BY <1>1 DEF LossSettles
<1> QED BY <1>2, <1>3, TracedAfterLoss

LEMMA TracedLose ==
  ASSUME TaskTypes, LossSettles, NEW f \in Ends, Tasks!Lose(f)
  PROVE  Traced' /\ LossSettles'
<1>1. /\ lost' = [lost EXCEPT ![f] = TRUE] /\ unanswered' = [unanswered EXCEPT ![f] = {}]
      /\ writer' = writer
  BY DEF Tasks!Lose, Tasks!tasks
<1>2. /\ lost'[f] /\ unanswered'[f] = {}
      /\ \A e \in Ends : e # f => lost'[e] = lost[e] /\ unanswered'[e] = unanswered[e]
  BY <1>1 DEF TaskTypes, TaskStates, TaskCounts
<1>3. LossSettles'
  BY <1>1, <1>2 DEF LossSettles
<1> QED BY <1>2, <1>3, TracedAfterLoss

LEMMA TracedStep ==
  ASSUME Tasks!TasksAssumption, TooLong = {}
  PROVE  TaskTypes /\ Traced /\ LossSettles /\ [Tasks!Next]_Tasks!vars => Traced' /\ LossSettles'
<1> SUFFICES ASSUME TaskTypes, Traced, LossSettles, [Tasks!Next]_Tasks!vars
             PROVE  Traced' /\ LossSettles'
  OBVIOUS
<1>1. CASE Tasks!Next
  <2>1. PICK e \in Ends :
          \/ Tasks!Heartbeat(e) \/ Tasks!Poll(e) \/ Tasks!SendFormats(e) \/ Tasks!Forward(e)
          \/ Tasks!ChunkArrives(e) \/ Tasks!Writer(e) \/ Tasks!Reader(e) \/ Tasks!Handler(e)
          \/ Tasks!Unlist(e) \/ Tasks!Lose(e)
    BY <1>1 DEF Tasks!Next, Tasks!Ends, Ends
  <2>2. CASE Tasks!Heartbeat(e)
    BY <2>2, TracedPing, TracedOthers DEF Tasks!Heartbeat
  <2>3. CASE Tasks!Writer(e) \/ Tasks!Reader(e)
    BY <2>3, TracedWrites, TracedWriterEnds, TracedReads, TracedOthers DEF Tasks!Writer, Tasks!Reader
  <2>4. CASE Tasks!Handler(e)
    BY <2>4, TracedTakes, TracedReplies, TracedHandlerEnds DEF Tasks!Handler
  <2> QED
    BY <2>1, <2>2, <2>3, <2>4, TracedOthers, TracedLose
<1>2. CASE UNCHANGED Tasks!vars
  BY <1>2, TracedSame DEF Tasks!vars, Tasks!queues, Tasks!tasks
<1> QED BY <1>1, <1>2

(* PingsTraced: what PingAnswered rests on, without fairness. A heartbeat   *)
(* that was sent is in a channel, on the wire or in the hands of a loop, as *)
(* the Ping or as its Pong, until it is answered or an end has lost the     *)
(* connection: no full channel and no task that ends drops one, whatever    *)
(* input, chunks and clipboard messages fill the queues. Said where every   *)
(* message can be encoded: one that cannot ends write_loop alone, and with  *)
(* it go the messages behind it (peer_loop.rs).                             *)
THEOREM PingsTraced ==
  ASSUME Tasks!TasksAssumption, TooLong = {}
  PROVE  Tasks!Spec => []Traced
<1>1. Tasks!Init => Traced /\ LossSettles
  <2> SUFFICES ASSUME Tasks!Init PROVE Traced /\ LossSettles
    OBVIOUS
  <2>1. \A e \in Ends : unanswered[e] = {} /\ writer[e] = "run"
    BY DEF Tasks!Init, Tasks!Ends, Ends
  <2> QED BY <2>1 DEF Traced, LossSettles
<1> QED BY <1>1, TaskInit, TaskStep, TracedStep, PTL DEF Tasks!Spec
=============================================================================
