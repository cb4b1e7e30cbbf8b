-------------------------- MODULE ClipboardSyncProofs --------------------------
(***************************************************************************)
(* Theorems about ClipboardSync for any contents and formats, any number   *)
(* of poll loops, users that copy anything at any time and connections     *)
(* that may always be lost.                                                *)
(***************************************************************************)
EXTENDS ClipboardSync, SequenceTheorems, FiniteSetTheorems, TLAPS

-----------------------------------------------------------------------------
(* Type correctness *)

Stages == [at : {"idle", "compare", "lookup", "mark", "send"}, hash : Contents \cup {None}]
Steps  == [todo : {"send", "mark", "write"}, msg : Message]

ClipsOK ==
  /\ clip \in [Machines -> Contents \cup {None}]
  /\ last_hash \in [Machines -> Contents \cup {None}]
  /\ seen \in [Machines -> [Contents -> Machines \cup {None}]]
  /\ copied \in [Machines -> SUBSET Contents]

(* A poll loop that is not idle has read some content. *)
PollsOK ==
  /\ poll = [m \in Machines |-> poll[m]]
  /\ \A m \in Machines : poll[m] \in [Loops[m] -> Stages]
  /\ \A m \in Machines : \A l \in Loops[m] : poll[m][l].at # "idle" => poll[m][l].hash \in Contents

(* An inbound loop sends requests and contents only, and has a content at  *)
(* hand while it takes one over.                                           *)
InboundOK ==
  /\ inbound \in [Machines -> {None} \cup Steps]
  /\ \A m \in Machines : inbound[m] # None =>
       IF inbound[m].todo = "send" THEN inbound[m].msg.type # "ClipboardFormats"
       ELSE \E c \in Contents : inbound[m].msg = Data(c)

StreamsOK ==
  /\ chan \in [Machines -> Seq(Message)]
  /\ \A m \in Machines : Len(chan[m]) <= OutCap

LinkOK == link \in BOOLEAN

TypeInv == ClipsOK /\ PollsOK /\ InboundOK /\ StreamsOK /\ LinkOK

LEMMA TypeInvType == TypeInv => TypeOK
<1> SUFFICES ASSUME TypeInv PROVE TypeOK
  OBVIOUS
<1>1. /\ clip \in [Machines -> Contents \cup {None}]
      /\ last_hash \in [Machines -> Contents \cup {None}]
      /\ seen \in [Machines -> [Contents -> Machines \cup {None}]]
  BY DEF TypeInv, ClipsOK
<1>2. \A m \in Machines : poll[m] \in
       [Loops[m] -> [at : {"idle", "compare", "lookup", "mark", "send"}, hash : Contents \cup {None}]]
  BY DEF TypeInv, PollsOK, Stages
<1>3. inbound \in [Machines -> {None} \cup [todo : {"send", "mark", "write"}, msg : Message]]
  BY DEF TypeInv, InboundOK, Steps
<1>4. \A m \in Machines : chan[m] \in Seq(Message) /\ Len(chan[m]) <= OutCap
  BY DEF TypeInv, StreamsOK
<1>5. link \in BOOLEAN
  BY DEF TypeInv, LinkOK
<1> QED BY <1>1, <1>2, <1>3, <1>4, <1>5, Zenon DEF TypeOK

LEMMA Constants == OutCap \in Nat /\ OutCap >= 1 /\ None \notin Contents /\ None \notin Machines
BY ClipboardAssumption

(* The peer is a machine, and another one. *)
LEMMA PeerType == \A m \in Machines : Other(m) \in Machines /\ Other(m) # m
<1> TAKE m \in Machines
<1> SUFFICES \E n \in Machines : n # m
  BY DEF Other
<1> SUFFICES ASSUME Machines = {m} PROVE FALSE
  OBVIOUS
<1>2. Cardinality(Machines) = 1
  BY FS_Singleton
<1> QED BY <1>2, ClipboardAssumption

LEMMA Messages ==
  /\ \A c \in Contents : Formats(c) \in Message /\ Data(c) \in Message /\ Request(Format[c]) \in Message
  /\ \A msg \in Message : msg.type = "ClipboardFormats" => \E c \in Contents : msg = Formats(c)
  /\ \A msg \in Message : msg.type = "ClipboardData" => \E c \in Contents : msg = Data(c)
  /\ \A c : /\ Formats(c).hash = c /\ Formats(c).format = Format[c]
            /\ Formats(c).type = "ClipboardFormats"
            /\ Data(c).hash = c /\ Data(c).type = "ClipboardData"
            /\ Request(Format[c]).type = "ClipboardRequest"
<1>1. \A c : /\ Formats(c).hash = c /\ Formats(c).format = Format[c]
            /\ Formats(c).type = "ClipboardFormats"
            /\ Data(c).hash = c /\ Data(c).type = "ClipboardData"
            /\ Request(Format[c]).type = "ClipboardRequest"
  BY DEF Formats, Data, Request
<1>2. \A c \in Contents : Formats(c) \in Message /\ Data(c) \in Message /\ Request(Format[c]) \in Message
  BY Zenon DEF Message
<1>3. \A msg \in Message : \E c \in Contents : msg = Formats(c) \/ msg = Data(c) \/ msg = Request(Format[c])
  BY Zenon DEF Message
<1>4. \A msg \in Message : msg.type = "ClipboardFormats" => \E c \in Contents : msg = Formats(c)
  BY <1>1, <1>3
<1>5. \A msg \in Message : msg.type = "ClipboardData" => \E c \in Contents : msg = Data(c)
  BY <1>1, <1>3
<1> QED BY <1>1, <1>2, <1>4, <1>5

LEMMA TypeInit == Init => TypeInv
<1> SUFFICES ASSUME Init PROVE TypeInv
  OBVIOUS
<1>1. ClipsOK /\ InboundOK
  BY DEF Init, ClipsOK, InboundOK
<1>2. PollsOK
  <2>1. \A m \in Machines : poll[m] = [l \in Loops[m] |-> Idle]
    BY DEF Init
  <2>2. poll = [m \in Machines |-> poll[m]]
    BY DEF Init
  <2>3. Idle \in Stages /\ Idle.at = "idle"
    BY DEF Idle, Stages
  <2> QED BY <2>1, <2>2, <2>3 DEF PollsOK
<1>3. StreamsOK
  BY Constants DEF Init, StreamsOK
<1>4. LinkOK
  BY Zenon DEF Init, LinkOK
<1> QED BY <1>1, <1>2, <1>3, <1>4 DEF TypeInv

(* One poll loop moves. *)
LEMMA PollsMove ==
  ASSUME PollsOK, NEW m \in Machines, NEW l \in Loops[m], NEW stage \in Stages,
         stage.at # "idle" => stage.hash \in Contents,
         poll' = [poll EXCEPT ![m][l] = stage]
  PROVE  /\ PollsOK'
         /\ \A n \in Machines : \A k \in Loops[n] :
              poll'[n][k] = IF n = m /\ k = l THEN stage ELSE poll[n][k]
<1>1. \A n \in Machines : poll'[n] = IF n = m THEN [poll[m] EXCEPT ![l] = stage] ELSE poll[n]
  BY DEF PollsOK
<1>2. poll' = [n \in Machines |-> poll'[n]]
  BY DEF PollsOK
<1>3. \A n \in Machines : \A k \in Loops[n] :
        poll'[n][k] = IF n = m /\ k = l THEN stage ELSE poll[n][k]
  BY <1>1 DEF PollsOK
<1>4. \A n \in Machines : poll'[n] \in [Loops[n] -> Stages]
  BY <1>1 DEF PollsOK
<1> QED BY <1>2, <1>3, <1>4 DEF PollsOK

(* A message is sent, or lost with the connection; a message is taken. *)
LEMMA StreamsSend ==
  ASSUME StreamsOK, LinkOK, NEW m \in Machines, NEW msg \in Message, CanSend(m), chan' = Sent(m, msg)
  PROVE  /\ StreamsOK'
         /\ chan' = chan \/ (chan'[m] = Append(chan[m], msg) /\ \A n \in Machines \ {m} : chan'[n] = chan[n])
<1>1. CASE link
  <2>1. Len(chan[m]) < OutCap /\ chan' = [chan EXCEPT ![m] = Append(@, msg)]
    BY <1>1, Zenon DEF CanSend, Sent
  <2>2. Append(chan[m], msg) \in Seq(Message) /\ Len(Append(chan[m], msg)) = Len(chan[m]) + 1
        /\ Len(chan[m]) \in Nat
    BY AppendProperties DEF StreamsOK
  <2>3. \A n \in Machines : chan'[n] = IF n = m THEN Append(chan[m], msg) ELSE chan[n]
    BY <2>1 DEF StreamsOK
  <2>4. chan' \in [Machines -> Seq(Message)]
    BY <2>1, <2>2 DEF StreamsOK
  <2> QED BY <2>1, <2>2, <2>3, <2>4, Constants DEF StreamsOK
<1>2. CASE ~link
  <2>1. chan' = chan
    BY <1>2, Zenon DEF Sent
  <2> QED BY <2>1 DEF StreamsOK
<1> QED BY <1>1, <1>2

LEMMA StreamsTake ==
  ASSUME StreamsOK, NEW m \in Machines, chan[Other(m)] # <<>>, Taken(m)
  PROVE  /\ StreamsOK' /\ Head(chan[Other(m)]) \in Message
         /\ chan'[Other(m)] = Tail(chan[Other(m)])
         /\ \A n \in Machines \ {Other(m)} : chan'[n] = chan[n]
<1> DEFINE o == Other(m)
<1>1. o \in Machines
  BY PeerType
<1>2. chan' = [chan EXCEPT ![o] = Tail(@)]
  BY DEF Taken
<1> HIDE DEF o
<1>3. chan[o] \in Seq(Message) /\ chan[o] # <<>>
  BY <1>1 DEF StreamsOK, o
<1>4. Head(chan[o]) \in Message /\ Tail(chan[o]) \in Seq(Message)
      /\ Len(Tail(chan[o])) = Len(chan[o]) - 1 /\ Len(chan[o]) \in Nat
  BY <1>3, HeadTailProperties
<1>5. chan' \in [Machines -> Seq(Message)]
      /\ \A n \in Machines : chan'[n] = IF n = o THEN Tail(chan[o]) ELSE chan[n]
  BY <1>1, <1>2, <1>4 DEF StreamsOK
<1> QED BY <1>1, <1>4, <1>5, Constants DEF StreamsOK, o

LEMMA TypeStep ==
  ASSUME TypeInv, [Next]_vars
  PROVE  TypeInv'
<1>0. ClipsOK /\ PollsOK /\ InboundOK /\ StreamsOK /\ LinkOK
  BY DEF TypeInv
<1> SUFFICES ClipsOK' /\ PollsOK' /\ InboundOK' /\ StreamsOK' /\ LinkOK'
  BY DEF TypeInv
<1>1. ASSUME UNCHANGED <<local, copied>> PROVE ClipsOK'
  BY <1>0, <1>1 DEF ClipsOK, local
<1>2. ASSUME UNCHANGED poll PROVE PollsOK'
  BY <1>0, <1>2 DEF PollsOK
<1>3. ASSUME UNCHANGED inbound PROVE InboundOK'
  BY <1>0, <1>3 DEF InboundOK
<1>4. ASSUME UNCHANGED chan PROVE StreamsOK'
  BY <1>0, <1>4 DEF StreamsOK
<1>5. ASSUME UNCHANGED link PROVE LinkOK'
  BY <1>0, <1>5, Zenon DEF LinkOK
<1>6. ASSUME NEW m \in Machines, NEW l \in Loops[m], PollRead(m, l)
      PROVE  ClipsOK' /\ PollsOK' /\ InboundOK' /\ StreamsOK' /\ LinkOK'
  <2>1. clip[m] \in Contents
    BY <1>0, <1>6 DEF PollRead, ClipsOK
  <2>2. [at |-> "compare", hash |-> clip[m]] \in Stages
    BY <2>1 DEF Stages
  <2>3. PollsOK'
    BY <1>0, <1>6, <2>1, <2>2, PollsMove DEF PollRead
  <2> QED BY <1>1, <1>3, <1>4, <1>5, <1>6, <2>3 DEF PollRead
<1>7. ASSUME NEW m \in Machines, NEW l \in Loops[m], PollCompare(m, l)
      PROVE  ClipsOK' /\ PollsOK' /\ InboundOK' /\ StreamsOK' /\ LinkOK'
  <2> DEFINE stage == IF last_hash[m] = poll[m][l].hash THEN Idle
                      ELSE [poll[m][l] EXCEPT !.at = "lookup"]
  <2>1. poll[m][l] \in Stages /\ poll[m][l].hash \in Contents
    BY <1>0, <1>7 DEF PollCompare, PollsOK, At
  <2>2. stage \in Stages /\ (stage.at # "idle" => stage.hash \in Contents)
    BY <2>1 DEF Stages, Idle
  <2>3. poll' = [poll EXCEPT ![m][l] = stage]
    BY <1>7 DEF PollCompare
  <2> HIDE DEF stage
  <2>4. PollsOK'
    BY <1>0, <2>2, <2>3, PollsMove
  <2> QED BY <1>1, <1>3, <1>4, <1>5, <1>7, <2>4 DEF PollCompare
<1>8. ASSUME NEW m \in Machines, NEW l \in Loops[m], PollLookup(m, l)
      PROVE  ClipsOK' /\ PollsOK' /\ InboundOK' /\ StreamsOK' /\ LinkOK'
  <2> DEFINE stage == IF Known(m, poll[m][l].hash) THEN Idle ELSE [poll[m][l] EXCEPT !.at = "mark"]
  <2>1. poll[m][l] \in Stages /\ poll[m][l].hash \in Contents
    BY <1>0, <1>8 DEF PollLookup, PollsOK, At
  <2>2. stage \in Stages /\ (stage.at # "idle" => stage.hash \in Contents)
    BY <2>1 DEF Stages, Idle
  <2>3. poll' = [poll EXCEPT ![m][l] = stage]
    BY <1>8 DEF PollLookup
  <2> HIDE DEF stage
  <2>4. PollsOK'
    BY <1>0, <2>2, <2>3, PollsMove
  <2>5. ClipsOK'
    BY <1>0, <1>8, <2>1 DEF PollLookup, ClipsOK
  <2> QED BY <1>3, <1>4, <1>5, <1>8, <2>4, <2>5 DEF PollLookup
<1>9. ASSUME NEW m \in Machines, NEW l \in Loops[m], PollMark(m, l)
      PROVE  ClipsOK' /\ PollsOK' /\ InboundOK' /\ StreamsOK' /\ LinkOK'
  <2> DEFINE stage == [poll[m][l] EXCEPT !.at = "send"]
  <2>1. poll[m][l] \in Stages /\ poll[m][l].hash \in Contents
    BY <1>0, <1>9 DEF PollMark, PollsOK, At
  <2>2. stage \in Stages /\ (stage.at # "idle" => stage.hash \in Contents)
    BY <2>1 DEF Stages
  <2>3. poll' = [poll EXCEPT ![m][l] = stage]
    BY <1>9 DEF PollMark
  <2> HIDE DEF stage
  <2>4. PollsOK'
    BY <1>0, <2>2, <2>3, PollsMove
  <2>5. ClipsOK'
    BY <1>0, <1>9, <2>1 DEF PollMark, Marked, Record, ClipsOK
  <2> QED BY <1>3, <1>4, <1>5, <1>9, <2>4, <2>5 DEF PollMark
<1>10. ASSUME NEW m \in Machines, NEW l \in Loops[m], PollSend(m, l)
       PROVE  ClipsOK' /\ PollsOK' /\ InboundOK' /\ StreamsOK' /\ LinkOK'
  <2>1. Idle \in Stages /\ Idle.at = "idle"
    BY DEF Stages, Idle
  <2>2. PollsOK'
    BY <1>0, <1>10, <2>1, PollsMove DEF PollSend
  <2>3. Formats(poll[m][l].hash) \in Message
    BY <1>0, <1>10, Messages DEF PollSend, PollsOK, At
  <2>4. StreamsOK'
    BY <1>0, <1>4, <1>10, <2>3, StreamsSend DEF PollSend
  <2> QED BY <1>1, <1>3, <1>5, <1>10, <2>2, <2>4 DEF PollSend
<1>11. ASSUME NEW m \in Machines, HandleFormats(m)
       PROVE  ClipsOK' /\ PollsOK' /\ InboundOK' /\ StreamsOK' /\ LinkOK'
  <2>1. StreamsOK' /\ Head(chan[Other(m)]) \in Message
    BY <1>0, <1>11, StreamsTake DEF HandleFormats, Take
  <2>2. PICK c \in Contents : Head(chan[Other(m)]) = Formats(c)
    BY <1>11, <2>1, Messages DEF HandleFormats, Take
  <2>3. /\ seen' = [seen EXCEPT ![m][c] = Other(m)]
        /\ inbound' = [inbound EXCEPT ![m] = [todo |-> "send", msg |-> Request(Format[c])]]
    <3>1. Formats(c).hash = c /\ Formats(c).format = Format[c]
      BY Messages
    <3> QED BY <1>11, <2>2, <3>1 DEF HandleFormats, Record, Handle
  <2>4. ClipsOK'
    BY <1>0, <1>11, <2>3, PeerType DEF HandleFormats, ClipsOK
  <2>5. [todo |-> "send", msg |-> Request(Format[c])] \in Steps /\ Request(Format[c]).type = "ClipboardRequest"
    BY Messages DEF Steps
  <2>6. InboundOK'
    BY <1>0, <2>3, <2>5 DEF InboundOK
  <2> QED BY <1>2, <1>5, <1>11, <2>1, <2>4, <2>6 DEF HandleFormats
<1>12. ASSUME NEW m \in Machines, HandleRequest(m)
       PROVE  ClipsOK' /\ PollsOK' /\ InboundOK' /\ StreamsOK' /\ LinkOK'
  <2>1. StreamsOK'
    BY <1>0, <1>12, StreamsTake DEF HandleRequest, Take
  <2>2. inbound' = inbound \/ (clip[m] # None /\ inbound' = [inbound EXCEPT ![m] = [todo |-> "send", msg |-> Data(clip[m])]])
    BY <1>12 DEF HandleRequest, Handle
  <2>3. clip[m] # None => [todo |-> "send", msg |-> Data(clip[m])] \in Steps /\ Data(clip[m]).type = "ClipboardData"
    BY <1>0, Messages DEF Steps, ClipsOK
  <2>4. InboundOK'
    BY <1>0, <1>3, <2>2, <2>3 DEF InboundOK
  <2> QED BY <1>1, <1>2, <1>5, <1>12, <2>1, <2>4 DEF HandleRequest
<1>13. ASSUME NEW m \in Machines, HandleData(m)
       PROVE  ClipsOK' /\ PollsOK' /\ InboundOK' /\ StreamsOK' /\ LinkOK'
  <2>1. StreamsOK' /\ Head(chan[Other(m)]) \in Message
    BY <1>0, <1>13, StreamsTake DEF HandleData, Take
  <2>2. PICK c \in Contents : Head(chan[Other(m)]) = Data(c)
    BY <1>13, <2>1, Messages DEF HandleData, Take
  <2>3. /\ seen' = [seen EXCEPT ![m][c] = Other(m)]
        /\ inbound' = [inbound EXCEPT ![m] = [todo |-> "mark", msg |-> Data(c)]]
    <3>1. Data(c).hash = c
      BY Messages
    <3> QED BY <1>13, <2>2, <3>1 DEF HandleData, Record, Handle
  <2>4. ClipsOK'
    BY <1>0, <1>13, <2>3, PeerType DEF HandleData, ClipsOK
  <2>5. [todo |-> "mark", msg |-> Data(c)] \in Steps
    BY Messages DEF Steps
  <2>6. InboundOK'
    BY <1>0, <2>3, <2>5 DEF InboundOK
  <2> QED BY <1>2, <1>5, <1>13, <2>1, <2>4, <2>6 DEF HandleData
<1>14. ASSUME NEW m \in Machines, Reply(m)
       PROVE  ClipsOK' /\ PollsOK' /\ InboundOK' /\ StreamsOK' /\ LinkOK'
  <2>1. inbound[m] \in Steps
    BY <1>0, <1>14 DEF Reply, InboundOK
  <2>2. StreamsOK'
    BY <1>0, <1>14, <2>1, StreamsSend DEF Reply, Steps
  <2>3. InboundOK'
    BY <1>0, <1>14 DEF Reply, Handle, InboundOK
  <2> QED BY <1>1, <1>2, <1>5, <1>14, <2>2, <2>3 DEF Reply
<1>15. ASSUME NEW m \in Machines, MarkData(m)
       PROVE  ClipsOK' /\ PollsOK' /\ InboundOK' /\ StreamsOK' /\ LinkOK'
  <2>1. inbound[m] \in Steps /\ \E c \in Contents : inbound[m].msg = Data(c)
    BY <1>0, <1>15 DEF MarkData, InboundOK
  <2>2. inbound[m].msg.hash \in Contents
    BY <2>1, Messages
  <2>3. ClipsOK'
    BY <1>0, <1>15, <2>2 DEF MarkData, ClipsOK
  <2>4. [inbound[m] EXCEPT !.todo = "write"] \in Steps
        /\ [inbound[m] EXCEPT !.todo = "write"].msg = inbound[m].msg
        /\ [inbound[m] EXCEPT !.todo = "write"].todo = "write"
    BY <2>1 DEF Steps
  <2>5. InboundOK'
    BY <1>0, <1>15, <2>1, <2>4 DEF MarkData, Handle, InboundOK
  <2> QED BY <1>2, <1>4, <1>5, <1>15, <2>3, <2>5 DEF MarkData
<1>16. ASSUME NEW m \in Machines, WriteData(m)
       PROVE  ClipsOK' /\ PollsOK' /\ InboundOK' /\ StreamsOK' /\ LinkOK'
  <2>1. \E c \in Contents : inbound[m].msg = Data(c)
    BY <1>0, <1>16 DEF WriteData, InboundOK
  <2>2. inbound[m].msg.hash \in Contents
    BY <2>1, Messages
  <2>3. ClipsOK'
    BY <1>0, <1>16, <2>2 DEF WriteData, ClipsOK
  <2>4. InboundOK'
    BY <1>0, <1>16 DEF WriteData, Handle, InboundOK
  <2> QED BY <1>2, <1>4, <1>5, <1>16, <2>3, <2>4 DEF WriteData
<1>17. ASSUME NEW m \in Machines, NEW c \in Contents, Copy(m, c)
       PROVE  ClipsOK' /\ PollsOK' /\ InboundOK' /\ StreamsOK' /\ LinkOK'
  <2>1. ClipsOK'
    BY <1>0, <1>17 DEF Copy, ClipsOK
  <2> QED BY <1>2, <1>3, <1>4, <1>5, <1>17, <2>1 DEF Copy
<1>18. CASE Drop
  <2>1. StreamsOK'
    BY <1>18, Constants DEF Drop, StreamsOK
  <2>2. LinkOK'
    BY <1>18, Zenon DEF Drop, LinkOK
  <2> QED BY <1>1, <1>2, <1>3, <1>18, <2>1, <2>2 DEF Drop
<1>19. CASE Reconnect
  <2>1. LinkOK'
    BY <1>19, Zenon DEF Reconnect, LinkOK
  <2> QED BY <1>1, <1>2, <1>3, <1>4, <1>19, <2>1 DEF Reconnect
<1>20. CASE UNCHANGED vars
  BY <1>1, <1>2, <1>3, <1>4, <1>5, <1>20 DEF vars
<1> QED
  BY <1>6, <1>7, <1>8, <1>9, <1>10, <1>11, <1>12, <1>13, <1>14, <1>15, <1>16, <1>17, <1>18, <1>19,
     <1>20 DEF Next, Poll, HandleInbound

(* Both clipboards, what the daemons remember of them, their loops and the *)
(* streams between them keep their types, and no stream overflows.         *)
THEOREM TypeCorrect == Spec => []TypeOK
<1>1. Init => TypeInv
  BY TypeInit
<1>2. TypeInv /\ [Next]_vars => TypeInv'
  BY TypeStep
<1> QED BY <1>1, <1>2, TypeInvType, PTL DEF Spec

-----------------------------------------------------------------------------
(* Where contents come from *)

(* The user of m copied it, or its originator is recorded. *)
Sourced(own, registry, m, c) == c \in own[m] \/ registry[m][c] # None

ClipSourced == \A m \in Machines : clip[m] # None => Sourced(copied, seen, m, clip[m])

(* Only what the user copied passes the lookup of a poll loop, whichever   *)
(* contents of the peer arrive between its steps.                          *)
PollsSourced ==
  \A m \in Machines : \A l \in Loops[m] :
    /\ poll[m][l].at # "idle" => Sourced(copied, seen, m, poll[m][l].hash)
    /\ poll[m][l].at \in {"mark", "send"} => poll[m][l].hash \in copied[m]

(* The originator of a peer's content is recorded before it is written. *)
TakeoverKnown ==
  \A m \in Machines :
    inbound[m] # None /\ inbound[m].todo # "send" => seen[m][inbound[m].msg.hash] # None

Own(own, m, msg) == msg.type = "ClipboardFormats" => msg.hash \in own[m]

OwnAdvertised == \A m \in Machines : \A i \in 1 .. Len(chan[m]) : Own(copied, m, chan[m][i])

NothingEchoed == ClipSourced /\ PollsSourced /\ TakeoverKnown /\ OwnAdvertised

(* Neither registry nor history forgets. *)
Remembered ==
  \A m \in Machines, c \in Contents : /\ c \in copied[m] => c \in copied'[m]
                                      /\ seen[m][c] # None => seen'[m][c] # None

LEMMA RememberedAlways ==
  ASSUME TypeInv, [Next]_vars
  PROVE  Remembered
<1>0. ClipsOK /\ PollsOK /\ InboundOK /\ StreamsOK
  BY DEF TypeInv
<1>1. ASSUME UNCHANGED <<seen, copied>> PROVE Remembered
  BY <1>1 DEF Remembered
<1>2. ASSUME UNCHANGED copied, NEW m \in Machines, NEW c \in Contents, NEW who \in Machines, Record(m, c, who)
      PROVE  Remembered
  <2>1. \A n \in Machines, d \in Contents : seen'[n][d] = IF n = m /\ d = c THEN who ELSE seen[n][d]
    BY <1>0, <1>2 DEF Record, ClipsOK
  <2> QED BY <1>2, <2>1, Constants DEF Remembered
<1>3. ASSUME NEW m \in Machines, NEW l \in Loops[m], Poll(m, l) PROVE Remembered
  <2>1. CASE PollMark(m, l)
    <3>1. poll[m][l].hash \in Contents
      BY <1>0, <2>1 DEF PollMark, PollsOK, At
    <3> QED BY <1>2, <2>1, <3>1 DEF PollMark
  <2>2. CASE PollRead(m, l) \/ PollCompare(m, l) \/ PollLookup(m, l) \/ PollSend(m, l)
    BY <1>1, <2>2 DEF PollRead, PollCompare, PollLookup, PollSend, local
  <2> QED BY <1>3, <2>1, <2>2 DEF Poll
<1>4. ASSUME NEW m \in Machines, HandleFormats(m) \/ HandleData(m) PROVE Remembered
  <2>1. Head(chan[Other(m)]) \in Message
    BY <1>0, <1>4, StreamsTake DEF HandleFormats, HandleData, Take
  <2>2. Head(chan[Other(m)]).hash \in Contents
    BY <1>4, <2>1, Messages DEF HandleFormats, HandleData, Take
  <2>3. Record(m, Head(chan[Other(m)]).hash, Other(m)) /\ UNCHANGED copied
    BY <1>4 DEF HandleFormats, HandleData
  <2> QED BY <1>2, <2>2, <2>3, PeerType
<1>5. ASSUME NEW m \in Machines, HandleRequest(m) \/ Reply(m) \/ MarkData(m) \/ WriteData(m)
      PROVE  Remembered
  BY <1>1, <1>5 DEF HandleRequest, Reply, MarkData, WriteData, local
<1>6. ASSUME NEW m \in Machines, NEW c \in Contents, Copy(m, c) PROVE Remembered
  BY <1>0, <1>6 DEF Copy, Remembered, ClipsOK
<1>7. CASE Drop \/ Reconnect \/ UNCHANGED vars
  BY <1>1, <1>7 DEF Drop, Reconnect, vars, local
<1> QED BY <1>3, <1>4, <1>5, <1>6, <1>7 DEF Next, HandleInbound

LEMMA NothingEchoedInit == Init => NothingEchoed
<1> SUFFICES ASSUME Init PROVE NothingEchoed
  OBVIOUS
<1>1. ClipSourced /\ TakeoverKnown
  BY DEF Init, ClipSourced, TakeoverKnown
<1>2. PollsSourced
  <2>1. \A m \in Machines : \A l \in Loops[m] : poll[m][l].at = "idle"
    BY DEF Init, Idle
  <2> QED BY <2>1 DEF PollsSourced
<1>3. OwnAdvertised
  BY DEF Init, OwnAdvertised
<1> QED BY <1>1, <1>2, <1>3 DEF NothingEchoed

(* A message of this machine's is sent, or lost; a message is taken. *)
LEMMA SendsOwn ==
  ASSUME TypeInv, OwnAdvertised, Remembered, NEW m \in Machines, NEW msg \in Message, Own(copied, m, msg),
         CanSend(m), chan' = Sent(m, msg)
  PROVE  OwnAdvertised'
<1>0. ClipsOK /\ StreamsOK /\ LinkOK
  BY DEF TypeInv
<1>1. ASSUME NEW n \in Machines, NEW sent \in Message, Own(copied, n, sent) PROVE Own(copied', n, sent)
  BY <1>1, Messages DEF Own, Remembered
<1>2. \A n \in Machines : \A i \in 1 .. Len(chan[n]) : chan[n][i] \in Message
  BY <1>0 DEF StreamsOK
<1>3. \A n \in Machines : \A i \in 1 .. Len(chan[n]) : Own(copied', n, chan[n][i])
  BY <1>1, <1>2 DEF OwnAdvertised, Own
<1>4. CASE chan' = chan
  BY <1>3, <1>4 DEF OwnAdvertised, Own
<1>5. CASE chan'[m] = Append(chan[m], msg) /\ \A n \in Machines \ {m} : chan'[n] = chan[n]
  <2>1. Own(copied', m, msg)
    BY <1>1
  <2>2. /\ Len(chan'[m]) = Len(chan[m]) + 1 /\ Len(chan[m]) \in Nat
        /\ chan'[m][Len(chan[m]) + 1] = msg /\ \A i \in 1 .. Len(chan[m]) : chan'[m][i] = chan[m][i]
    BY <1>0, <1>5, AppendProperties DEF StreamsOK
  <2>3. \A i \in 1 .. Len(chan'[m]) : i \in 1 .. Len(chan[m]) \/ i = Len(chan[m]) + 1
    BY <2>2
  <2> QED BY <1>3, <1>5, <2>1, <2>2, <2>3 DEF OwnAdvertised, Own
<1> QED BY <1>0, <1>4, <1>5, StreamsSend

LEMMA TakesOwn ==
  ASSUME TypeInv, OwnAdvertised, Remembered, NEW m \in Machines, chan[Other(m)] # <<>>, Taken(m)
  PROVE  OwnAdvertised'
<1> PICK o \in Machines : o = Other(m)
  BY PeerType
<1>0. StreamsOK
  BY DEF TypeInv
<1>1. chan'[o] = Tail(chan[o]) /\ \A n \in Machines \ {o} : chan'[n] = chan[n]
  BY <1>0, StreamsTake
<1>2. /\ Len(chan'[o]) = Len(chan[o]) - 1 /\ Len(chan[o]) \in Nat
      /\ \A i \in 1 .. Len(chan[o]) - 1 : chan'[o][i] = chan[o][i + 1]
  BY <1>0, <1>1 DEF StreamsOK
<1>3. \A n \in Machines : \A i \in 1 .. Len(chan'[n]) : \E j \in 1 .. Len(chan[n]) : chan'[n][i] = chan[n][j]
  <2> SUFFICES ASSUME NEW n \in Machines, NEW i \in 1 .. Len(chan'[n])
               PROVE  \E j \in 1 .. Len(chan[n]) : chan'[n][i] = chan[n][j]
    OBVIOUS
  <2>1. CASE n = o
    <3>1. i + 1 \in 1 .. Len(chan[o]) /\ i \in 1 .. Len(chan[o]) - 1
      BY <1>2, <2>1
    <3> QED BY <1>2, <2>1, <3>1
  <2>2. CASE n # o
    BY <1>1, <2>2
  <2> QED BY <2>1, <2>2
<1>4. \A n \in Machines : \A j \in 1 .. Len(chan[n]) : chan[n][j] \in Message
  BY <1>0 DEF StreamsOK
<1>5. \A n \in Machines : \A j \in 1 .. Len(chan[n]) :
        chan[n][j].type = "ClipboardFormats" => chan[n][j].hash \in copied'[n]
  BY <1>4, Messages DEF OwnAdvertised, Own, Remembered
<1> QED BY <1>3, <1>5 DEF OwnAdvertised, Own

LEMMA NothingEchoedStep ==
  ASSUME TypeInv, NothingEchoed, [Next]_vars
  PROVE  NothingEchoed'
<1>0. /\ ClipsOK /\ PollsOK /\ InboundOK /\ StreamsOK /\ Remembered
      /\ ClipSourced /\ PollsSourced /\ TakeoverKnown /\ OwnAdvertised
  BY RememberedAlways DEF TypeInv, NothingEchoed
<1>s. \A m \in Machines, c \in Contents : Sourced(copied, seen, m, c) => Sourced(copied', seen', m, c)
  BY <1>0 DEF Remembered, Sourced
<1> SUFFICES ClipSourced' /\ PollsSourced' /\ TakeoverKnown' /\ OwnAdvertised'
  BY DEF NothingEchoed
<1>1. ASSUME UNCHANGED clip PROVE ClipSourced'
  BY <1>0, <1>1, <1>s DEF ClipSourced, ClipsOK
<1>2. ASSUME UNCHANGED poll PROVE PollsSourced'
  <2>1. \A m \in Machines : \A l \in Loops[m] : poll[m][l].at # "idle" => poll[m][l].hash \in Contents
    BY <1>0 DEF PollsOK
  <2> QED BY <1>0, <1>2, <1>s, <2>1 DEF PollsSourced, Remembered
<1>3. ASSUME NEW m \in Machines, inbound[m] # None, inbound[m].todo # "send"
      PROVE  inbound[m].msg.hash \in Contents /\ seen'[m][inbound[m].msg.hash] # None
  <2>1. inbound[m].msg.hash \in Contents
    BY <1>0, <1>3, Messages DEF InboundOK
  <2> QED BY <1>0, <1>3, <2>1 DEF TakeoverKnown, Remembered
<1>4. ASSUME UNCHANGED inbound PROVE TakeoverKnown'
  BY <1>3, <1>4 DEF TakeoverKnown
<1>5. ASSUME UNCHANGED chan PROVE OwnAdvertised'
  <2>1. \A m \in Machines : \A i \in 1 .. Len(chan[m]) : chan[m][i] \in Message
    BY <1>0 DEF StreamsOK
  <2> QED BY <1>0, <1>5, <2>1, Messages DEF OwnAdvertised, Own, Remembered
(* A poll loop moves to a stage that keeps its part. *)
<1>6. ASSUME NEW m \in Machines, NEW l \in Loops[m], NEW stage \in Stages,
             stage.at # "idle" => stage.hash \in Contents /\ Sourced(copied', seen', m, stage.hash),
             stage.at \in {"mark", "send"} => stage.hash \in copied'[m],
             poll' = [poll EXCEPT ![m][l] = stage]
      PROVE  PollsSourced'
  <2>1. \A n \in Machines : \A k \in Loops[n] :
          poll'[n][k] = IF n = m /\ k = l THEN stage ELSE poll[n][k]
    BY <1>0, <1>6, PollsMove
  <2>2. \A n \in Machines : \A k \in Loops[n] : poll[n][k].at # "idle" => poll[n][k].hash \in Contents
    BY <1>0 DEF PollsOK
  <2>3. \A n \in Machines : \A k \in Loops[n] :
          /\ poll[n][k].at # "idle" => Sourced(copied', seen', n, poll[n][k].hash)
          /\ poll[n][k].at \in {"mark", "send"} => poll[n][k].hash \in copied'[n]
    BY <1>0, <1>s, <2>2 DEF PollsSourced, Remembered
  <2> QED BY <1>6, <2>1, <2>3 DEF PollsSourced, Sourced
(* An inbound loop moves to a step that keeps its part. *)
<1>7. ASSUME NEW m \in Machines, NEW step, step # None /\ step.todo # "send" => seen'[m][step.msg.hash] # None,
             inbound' = [inbound EXCEPT ![m] = step]
      PROVE  TakeoverKnown'
  <2>1. \A n \in Machines : inbound'[n] = IF n = m THEN step ELSE inbound[n]
    BY <1>0, <1>7 DEF InboundOK
  <2> QED BY <1>3, <1>7, <2>1 DEF TakeoverKnown
<1>8. ASSUME NEW m \in Machines, NEW l \in Loops[m], Poll(m, l)
      PROVE  ClipSourced' /\ PollsSourced' /\ TakeoverKnown' /\ OwnAdvertised'
  <2>1. UNCHANGED <<clip, inbound, copied>> /\ ClipSourced' /\ TakeoverKnown'
    BY <1>1, <1>4, <1>8 DEF Poll, PollRead, PollCompare, PollLookup, PollMark, PollSend, local
  <2>2. /\ poll[m][l] \in Stages
        /\ poll[m][l].at # "idle" => poll[m][l].hash \in Contents /\ Sourced(copied', seen', m, poll[m][l].hash)
        /\ poll[m][l].at \in {"mark", "send"} => poll[m][l].hash \in copied'[m]
    BY <1>0, <1>s, <2>1 DEF PollsOK, PollsSourced
  <2>3. CASE PollRead(m, l)
    <3>1. clip[m] \in Contents /\ Sourced(copied', seen', m, clip[m])
      BY <1>0, <1>s, <2>3 DEF PollRead, ClipsOK, ClipSourced
    <3>2. [at |-> "compare", hash |-> clip[m]] \in Stages
      BY <3>1 DEF Stages
    <3>3. PollsSourced'
      BY <1>6, <2>3, <3>1, <3>2 DEF PollRead
    <3> QED BY <1>5, <2>1, <2>3, <3>3 DEF PollRead
  <2>4. CASE PollCompare(m, l)
    <3> DEFINE stage == IF last_hash[m] = poll[m][l].hash THEN Idle ELSE [poll[m][l] EXCEPT !.at = "lookup"]
    <3>1. /\ stage \in Stages /\ stage.at \notin {"mark", "send"}
          /\ stage.at # "idle" => stage.hash = poll[m][l].hash
      BY <2>2 DEF Stages, Idle
    <3>2. poll[m][l].at # "idle" /\ poll' = [poll EXCEPT ![m][l] = stage]
      BY <2>4 DEF PollCompare, At
    <3> HIDE DEF stage
    <3>3. PollsSourced'
      BY <1>6, <2>2, <3>1, <3>2
    <3> QED BY <1>5, <2>1, <2>4, <3>3 DEF PollCompare
  <2>5. CASE PollLookup(m, l)
    <3> DEFINE stage == IF Known(m, poll[m][l].hash) THEN Idle ELSE [poll[m][l] EXCEPT !.at = "mark"]
    <3>1. poll[m][l].at # "idle" /\ poll' = [poll EXCEPT ![m][l] = stage]
      BY <2>5 DEF PollLookup, At
    <3>2. seen[m][poll[m][l].hash] = None => poll[m][l].hash \in copied'[m]
      BY <1>0, <2>1, <3>1 DEF PollsSourced, Sourced
    <3>3. /\ stage \in Stages /\ (stage.at # "idle" => stage.hash = poll[m][l].hash)
          /\ stage.at # "idle" => poll[m][l].hash \in copied'[m]
      BY <2>2, <3>2 DEF Stages, Idle, Known
    <3> HIDE DEF stage
    <3>4. PollsSourced'
      BY <1>6, <2>2, <3>1, <3>3
    <3> QED BY <1>5, <2>1, <2>5, <3>4 DEF PollLookup
  <2>6. CASE PollMark(m, l)
    <3> DEFINE stage == [poll[m][l] EXCEPT !.at = "send"]
    <3>1. poll[m][l].at = "mark" /\ poll' = [poll EXCEPT ![m][l] = stage]
      BY <2>6 DEF PollMark, At
    <3>2. stage \in Stages /\ stage.hash = poll[m][l].hash
      BY <2>2 DEF Stages
    <3> HIDE DEF stage
    <3>3. PollsSourced'
      BY <1>6, <2>2, <3>1, <3>2
    <3> QED BY <1>5, <2>1, <2>6, <3>3 DEF PollMark
  <2>7. CASE PollSend(m, l)
    <3>1. Idle \in Stages /\ Idle.at = "idle"
      BY DEF Stages, Idle
    <3>2. PollsSourced'
      BY <1>6, <2>7, <3>1 DEF PollSend
    <3>3. poll[m][l].hash \in Contents /\ poll[m][l].hash \in copied[m]
      BY <2>1, <2>2, <2>7 DEF PollSend, At
    <3>4. Formats(poll[m][l].hash) \in Message /\ Own(copied, m, Formats(poll[m][l].hash))
      BY <3>3, Messages DEF Own
    <3>5. OwnAdvertised'
      BY <1>0, <1>5, <2>7, <3>4, SendsOwn DEF PollSend
    <3> QED BY <2>1, <3>2, <3>5
  <2> QED BY <1>8, <2>3, <2>4, <2>5, <2>6, <2>7 DEF Poll
<1>9. ASSUME NEW m \in Machines, HandleFormats(m) \/ HandleRequest(m)
      PROVE  ClipSourced' /\ PollsSourced' /\ TakeoverKnown' /\ OwnAdvertised'
  <2>1. UNCHANGED <<clip, poll>> /\ OwnAdvertised'
    BY <1>0, <1>9, TakesOwn DEF HandleFormats, HandleRequest, Take, local
  <2>2. UNCHANGED inbound \/ \E msg : inbound' = [inbound EXCEPT ![m] = [todo |-> "send", msg |-> msg]]
    BY <1>9 DEF HandleFormats, HandleRequest, Handle
  <2>3. TakeoverKnown'
    BY <1>4, <1>7, <2>2
  <2> QED BY <1>1, <1>2, <2>1, <2>3
<1>10. ASSUME NEW m \in Machines, HandleData(m)
       PROVE  ClipSourced' /\ PollsSourced' /\ TakeoverKnown' /\ OwnAdvertised'
  <2>1. UNCHANGED <<clip, poll>> /\ OwnAdvertised'
    BY <1>0, <1>10, TakesOwn DEF HandleData, Take
  <2>2. Head(chan[Other(m)]) \in Message
    BY <1>0, <1>10, StreamsTake DEF HandleData, Take
  <2>3. PICK c \in Contents : Head(chan[Other(m)]) = Data(c)
    BY <1>10, <2>2, Messages DEF HandleData, Take
  <2>4. Data(c).hash = c
    BY Messages
  <2>5. /\ seen' = [seen EXCEPT ![m][c] = Other(m)]
        /\ inbound' = [inbound EXCEPT ![m] = [todo |-> "mark", msg |-> Data(c)]]
    BY <1>10, <2>3, <2>4 DEF HandleData, Record, Handle
  <2>6. seen'[m][c] # None
    BY <1>0, <2>5, PeerType, Constants DEF ClipsOK
  <2>7. TakeoverKnown'
    BY <1>7, <2>4, <2>5, <2>6
  <2> QED BY <1>1, <1>2, <2>1, <2>7
<1>11. ASSUME NEW m \in Machines, Reply(m)
       PROVE  ClipSourced' /\ PollsSourced' /\ TakeoverKnown' /\ OwnAdvertised'
  <2>1. inbound[m].msg \in Message /\ Own(copied, m, inbound[m].msg)
    BY <1>0, <1>11 DEF Reply, InboundOK, Steps, Own
  <2>2. OwnAdvertised'
    BY <1>0, <1>11, <2>1, SendsOwn DEF Reply
  <2>3. TakeoverKnown'
    BY <1>7, <1>11 DEF Reply, Handle
  <2> QED BY <1>1, <1>2, <1>11, <2>2, <2>3 DEF Reply, local
<1>12. ASSUME NEW m \in Machines, MarkData(m)
       PROVE  ClipSourced' /\ PollsSourced' /\ TakeoverKnown' /\ OwnAdvertised'
  <2>1. inbound[m] \in Steps /\ inbound[m].todo = "mark"
    BY <1>0, <1>12 DEF MarkData, InboundOK
  <2>2. [inbound[m] EXCEPT !.todo = "write"].msg = inbound[m].msg
    BY <2>1 DEF Steps
  <2>3. TakeoverKnown'
    BY <1>3, <1>7, <1>12, <2>1, <2>2 DEF MarkData, Handle
  <2> QED BY <1>1, <1>2, <1>5, <1>12, <2>3 DEF MarkData
<1>13. ASSUME NEW m \in Machines, WriteData(m)
       PROVE  ClipSourced' /\ PollsSourced' /\ TakeoverKnown' /\ OwnAdvertised'
  <2>1. inbound[m].msg.hash \in Contents /\ seen'[m][inbound[m].msg.hash] # None
    BY <1>3, <1>13 DEF WriteData
  <2>2. ClipSourced'
    <3>1. \A n \in Machines : clip'[n] = IF n = m THEN inbound[m].msg.hash ELSE clip[n]
      BY <1>0, <1>13 DEF WriteData, ClipsOK
    <3> QED BY <1>0, <1>s, <2>1, <3>1 DEF ClipSourced, ClipsOK, Sourced
  <2>3. TakeoverKnown'
    BY <1>7, <1>13 DEF WriteData, Handle
  <2> QED BY <1>2, <1>5, <1>13, <2>2, <2>3 DEF WriteData
<1>14. ASSUME NEW m \in Machines, NEW c \in Contents, Copy(m, c)
       PROVE  ClipSourced' /\ PollsSourced' /\ TakeoverKnown' /\ OwnAdvertised'
  <2>1. c \in copied'[m] /\ \A n \in Machines : clip'[n] = IF n = m THEN c ELSE clip[n]
    BY <1>0, <1>14 DEF Copy, ClipsOK
  <2>2. ClipSourced'
    BY <1>0, <1>s, <2>1 DEF ClipSourced, ClipsOK, Sourced
  <2> QED BY <1>2, <1>4, <1>5, <1>14, <2>2 DEF Copy
<1>15. CASE Drop
  <2>1. OwnAdvertised'
    BY <1>15 DEF Drop, OwnAdvertised
  <2> QED BY <1>1, <1>2, <1>4, <1>15, <2>1 DEF Drop, local
<1>16. CASE Reconnect \/ UNCHANGED vars
  BY <1>1, <1>2, <1>4, <1>5, <1>16 DEF Reconnect, vars, local
<1> QED
  BY <1>8, <1>9, <1>10, <1>11, <1>12, <1>13, <1>14, <1>15, <1>16 DEF Next, HandleInbound

(* A machine only ever advertises what its own user copied, whichever      *)
(* contents of its peer arrive between two steps of its poll loops, and     *)
(* with the poll loops of stopped runs still there: the originator is       *)
(* recorded before the content is written, and never forgotten.             *)
THEOREM NoEchoAlways == Spec => []NoEcho
<1>1. Init => TypeInv /\ NothingEchoed
  BY TypeInit, NothingEchoedInit
<1>2. TypeInv /\ NothingEchoed /\ [Next]_vars => (TypeInv /\ NothingEchoed)'
  BY TypeStep, NothingEchoedStep
<1>3. NothingEchoed => NoEcho
  BY DEF NothingEchoed, OwnAdvertised, Own, NoEcho
<1> QED BY <1>1, <1>2, <1>3, PTL DEF Spec

=============================================================================
