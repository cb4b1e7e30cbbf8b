----------------------------- MODULE KeyPathProofs -----------------------------
(***************************************************************************)
(* Theorems about KeyMaps and KeyPath for every keyboard, either platform  *)
(* of the client and queues of any length.                                 *)
(***************************************************************************)
EXTENDS KeyPath, SequenceTheorems, TLAPS

-----------------------------------------------------------------------------
(* The tables *)

(* What the rows of keycode_to_vk say, entry by entry. *)
LEMMA BackFromRows ==
  /\ keycode_to_vk(40) = 13 /\ keycode_to_vk(41) = 27 /\ keycode_to_vk(42) = 8 /\ keycode_to_vk(43) = 9
  /\ keycode_to_vk(44) = 32 /\ keycode_to_vk(45) = 189 /\ keycode_to_vk(46) = 187 /\ keycode_to_vk(47) = 219
  /\ keycode_to_vk(48) = 221 /\ keycode_to_vk(49) = 220
  /\ keycode_to_vk(51) = 186 /\ keycode_to_vk(52) = 222 /\ keycode_to_vk(53) = 192 /\ keycode_to_vk(54) = 188
  /\ keycode_to_vk(55) = 190 /\ keycode_to_vk(56) = 191 /\ keycode_to_vk(57) = 20
  /\ keycode_to_vk(70) = 44 /\ keycode_to_vk(71) = 145 /\ keycode_to_vk(72) = 19 /\ keycode_to_vk(73) = 45
  /\ keycode_to_vk(74) = 36 /\ keycode_to_vk(75) = 33 /\ keycode_to_vk(76) = 46 /\ keycode_to_vk(77) = 35
  /\ keycode_to_vk(78) = 34 /\ keycode_to_vk(79) = 39 /\ keycode_to_vk(80) = 37 /\ keycode_to_vk(81) = 40
  /\ keycode_to_vk(82) = 38
  /\ keycode_to_vk(224) = 162 /\ keycode_to_vk(225) = 160 /\ keycode_to_vk(226) = 164 /\ keycode_to_vk(227) = 91
  /\ keycode_to_vk(228) = 163 /\ keycode_to_vk(229) = 161 /\ keycode_to_vk(230) = 165 /\ keycode_to_vk(231) = 92
<1>1. \A c \in 40..49 : keycode_to_vk(c) = EnterRow[c - 39]
  BY SMT DEF keycode_to_vk, Entry
<1>2. \A c \in 51..57 : keycode_to_vk(c) = SemicolonRow[c - 50]
  BY SMT DEF keycode_to_vk, Entry
<1>3. \A c \in 70..82 : keycode_to_vk(c) = NavigationRow[c - 69]
  BY SMT DEF keycode_to_vk, Entry
<1>4. \A c \in 224..231 : keycode_to_vk(c) = SidesRow[c - 223]
  BY SMT DEF keycode_to_vk, Entry
<1> QED BY <1>1, <1>2, <1>3, <1>4, SMT DEF EnterRow, SemicolonRow, NavigationRow, SidesRow

(* Every virtual key of the table comes back from its KeyCode as itself: a *)
(* Windows client presses the key that was pressed on a Windows server.    *)
THEOREM RoundTrip ==
  ASSUME NEW vk \in Nat, vk_to_keycode(vk) # Unknown
  PROVE  keycode_to_vk(vk_to_keycode(vk)) = vk
<1>1. CASE vk \in 65..90
  <2>1. vk_to_keycode(vk) = vk - 61
    BY <1>1, SMT DEF vk_to_keycode
  <2>2. \A c \in 4..29 : keycode_to_vk(c) = c + 61
    BY SMT DEF keycode_to_vk
  <2> QED BY <1>1, <2>1, <2>2
<1>2. CASE vk \in 49..57
  <2>1. vk_to_keycode(vk) = vk - 19
    BY <1>2, SMT DEF vk_to_keycode
  <2>2. \A c \in 30..38 : keycode_to_vk(c) = c + 19
    BY SMT DEF keycode_to_vk
  <2> QED BY <1>2, <2>1, <2>2
<1>4. CASE vk \in 112..123
  <2>1. vk_to_keycode(vk) = vk - 54
    BY <1>4, SMT DEF vk_to_keycode
  <2>2. \A c \in 58..69 : keycode_to_vk(c) = c + 54
    BY SMT DEF keycode_to_vk
  <2> QED BY <1>4, <2>1, <2>2
<1>3. CASE vk = 48
  BY <1>3, SMT DEF vk_to_keycode, keycode_to_vk
<1>5. CASE vk \in 32..40
  <2>1. vk_to_keycode(vk) = EditingRow[vk - 31]
    BY <1>5, SMT DEF vk_to_keycode, Entry
  <2> QED BY <1>5, <2>1, BackFromRows, SMT DEF EditingRow
<1>6. CASE vk \in 160..165
  <2>1. vk_to_keycode(vk) = ModifierRow[vk - 159]
    BY <1>6, SMT DEF vk_to_keycode, Entry
  <2> QED BY <1>6, <2>1, BackFromRows, SMT DEF ModifierRow
<1>7. CASE vk \in 186..192
  <2>1. vk_to_keycode(vk) = Oem1Row[vk - 185]
    BY <1>7, SMT DEF vk_to_keycode, Entry
  <2> QED BY <1>7, <2>1, BackFromRows, SMT DEF Oem1Row
<1>8. CASE vk \in 219..222
  <2>1. vk_to_keycode(vk) = Oem4Row[vk - 218]
    BY <1>8, SMT DEF vk_to_keycode, Entry
  <2> QED BY <1>8, <2>1, BackFromRows, SMT DEF Oem4Row
<1>9. CASE vk \in {8, 9, 13, 19, 20, 27, 44, 45, 46, 91, 92, 145}
  <2>1. /\ vk_to_keycode(8) = 42  /\ vk_to_keycode(9) = 43  /\ vk_to_keycode(13) = 40
        /\ vk_to_keycode(19) = 72 /\ vk_to_keycode(20) = 57 /\ vk_to_keycode(27) = 41
    BY SMT DEF vk_to_keycode
  <2>2. /\ vk_to_keycode(44) = 70 /\ vk_to_keycode(45) = 73 /\ vk_to_keycode(46) = 76
        /\ vk_to_keycode(91) = 227 /\ vk_to_keycode(92) = 231 /\ vk_to_keycode(145) = 71
    BY SMT DEF vk_to_keycode
  <2> QED BY <1>9, <2>1, <2>2, BackFromRows
<1>10. CASE vk \notin (65..90) \cup (48..57) \cup (112..123) \cup (32..40) \cup (160..165)
                 \cup (186..192) \cup (219..222)
                 \cup {8, 9, 13, 19, 20, 27, 44, 45, 46, 91, 92, 145}
  BY <1>10, SMT DEF vk_to_keycode, Unmapped
<1> QED BY <1>1, <1>2, <1>3, <1>4, <1>5, <1>6, <1>7, <1>8, <1>9, <1>10

(* Whatever the virtual key, what travels is a KeyCode. *)
LEMMA CodeType ==
  ASSUME NEW vk \in Nat
  PROVE  vk_to_keycode(vk) \in KeyCode
<1>1. CASE vk \in (65..90) \cup (48..57) \cup (112..123)
  BY <1>1, SMT DEF vk_to_keycode, KeyCode, Unknown
<1>2. CASE vk \in 32..40
  <2>1. vk_to_keycode(vk) = EditingRow[vk - 31]
    BY <1>2, SMT DEF vk_to_keycode, Entry
  <2> QED BY <1>2, <2>1, SMT DEF EditingRow, KeyCode
<1>3. CASE vk \in 160..165
  <2>1. vk_to_keycode(vk) = ModifierRow[vk - 159]
    BY <1>3, SMT DEF vk_to_keycode, Entry
  <2> QED BY <1>3, <2>1, SMT DEF ModifierRow, KeyCode
<1>4. CASE vk \in 186..192
  <2>1. vk_to_keycode(vk) = Oem1Row[vk - 185]
    BY <1>4, SMT DEF vk_to_keycode, Entry
  <2> QED BY <1>4, <2>1, SMT DEF Oem1Row, KeyCode
<1>5. CASE vk \in 219..222
  <2>1. vk_to_keycode(vk) = Oem4Row[vk - 218]
    BY <1>5, SMT DEF vk_to_keycode, Entry
  <2> QED BY <1>5, <2>1, SMT DEF Oem4Row, KeyCode
<1>6. CASE vk \notin (65..90) \cup (48..57) \cup (112..123) \cup (32..40) \cup (160..165)
                     \cup (186..192) \cup (219..222)
  <2>1. vk_to_keycode(vk) \in {42, 43, 40, 72, 57, 41, 70, 73, 76, 227, 231, 71, Unknown}
    BY <1>6, SMT DEF vk_to_keycode, Unmapped
  <2> QED BY <2>1 DEF KeyCode, Unknown
<1> QED BY <1>1, <1>2, <1>3, <1>4, <1>5, <1>6

(* Whatever the KeyCode, what is injected is a code or nothing. *)
LEMMA PlatformType ==
  ASSUME NEW c \in KeyCode
  PROVE  PlatformCode(c) \in Codes
<1>1. keycode_to_vk(c) \in Codes
  <2>1. CASE c \in {0} \cup 4..39 \cup 58..69
    BY <2>1, SMT DEF keycode_to_vk, Unknown, Codes
  <2>2. CASE c \in 40..49
    <3>1. keycode_to_vk(c) = EnterRow[c - 39]
      BY <2>2, SMT DEF keycode_to_vk, Entry
    <3> QED BY <2>2, <3>1, SMT DEF EnterRow, Codes
  <2>3. CASE c \in 51..57
    <3>1. keycode_to_vk(c) = SemicolonRow[c - 50]
      BY <2>3, SMT DEF keycode_to_vk, Entry
    <3> QED BY <2>3, <3>1, SMT DEF SemicolonRow, Codes
  <2>4. CASE c \in 70..82
    <3>1. keycode_to_vk(c) = NavigationRow[c - 69]
      BY <2>4, SMT DEF keycode_to_vk, Entry
    <3> QED BY <2>4, <3>1, SMT DEF NavigationRow, Codes
  <2>5. CASE c \in 224..231
    <3>1. keycode_to_vk(c) = SidesRow[c - 223]
      BY <2>5, SMT DEF keycode_to_vk, Entry
    <3> QED BY <2>5, <3>1, SMT DEF SidesRow, Codes
  <2> QED BY <2>1, <2>2, <2>3, <2>4, <2>5 DEF KeyCode, Unknown
<1>2. hid_to_evdev(c) \in Codes
  BY SMT DEF hid_to_evdev, evdev_code, KeyCode, Unknown, Codes
<1> QED BY <1>1, <1>2 DEF PlatformCode

(* The list of release_all_modifiers is what the table gives for the eight *)
(* modifiers: none is left out, on either platform.                        *)
LEMMA AllModifiersListed ==
  ModifierCodes = {PlatformCode(c) : c \in 224..231}
<1>1. CASE ClientPlatform = "windows"
  <2>1. \A c \in 224..231 : PlatformCode(c) = SidesRow[c - 223]
    <3>1. \A c \in 224..231 : keycode_to_vk(c) = SidesRow[c - 223]
      BY SMT DEF keycode_to_vk, Entry
    <3> QED BY <1>1, <3>1 DEF PlatformCode
  <2>2. ModifierCodes = {160, 161, 162, 163, 164, 165, 91, 92}
    BY <1>1 DEF ModifierCodes
  <2>3. 224..231 = {224, 225, 226, 227, 228, 229, 230, 231}
    BY SMT
  <2>4. /\ PlatformCode(224) = 162 /\ PlatformCode(225) = 160 /\ PlatformCode(226) = 164
        /\ PlatformCode(227) = 91 /\ PlatformCode(228) = 163 /\ PlatformCode(229) = 161
        /\ PlatformCode(230) = 165 /\ PlatformCode(231) = 92
    BY <2>1, SMT DEF SidesRow
  <2> HIDE DEF PlatformCode
  <2> QED BY <2>2, <2>3, <2>4
<1>2. CASE ClientPlatform # "windows"
  <2>1. \A c \in 224..231 : PlatformCode(c) = evdev_code(c)
    BY <1>2, SMT DEF PlatformCode, hid_to_evdev
  <2>2. ModifierCodes = {evdev_code(c) : c \in {LeftCtrl, RightCtrl, LeftShift, RightShift,
                                                LeftAlt, RightAlt, LeftSuper, RightSuper}}
    BY <1>2 DEF ModifierCodes
  <2>3. 224..231 = {LeftCtrl, RightCtrl, LeftShift, RightShift,
                    LeftAlt, RightAlt, LeftSuper, RightSuper}
    BY SMT DEF LeftCtrl, RightCtrl, LeftShift, RightShift,
               LeftAlt, RightAlt, LeftSuper, RightSuper
  <2> QED BY <2>1, <2>2, <2>3
<1> QED BY <1>1, <1>2

-----------------------------------------------------------------------------
(* Type correctness *)

LEMMA TypeInit == Init => TypeOK
<1> SUFFICES ASSUME Init PROVE TypeOK
  OBVIOUS
<1>1. raw \in Seq(RawEvents) /\ events \in Seq(KeyEvents) /\ net \in Seq(Messages)
  BY DEF Init
<1>2. {remote, capturing, connected} \subseteq BOOLEAN
  BY Zenon DEF Init
<1>3. strokes \in 0..MaxStrokes
  BY KeyPathAssumption DEF Init
<1> QED BY <1>1, <1>2, <1>3 DEF Init, TypeOK

(* What is sent keeps the stream a sequence of messages. *)
LEMMA SendsType ==
  ASSUME net \in Seq(Messages), NEW m \in Messages, Sends(m)
  PROVE  net' \in Seq(Messages)
BY DEF Sends

(* What a message does to the injector leaves its keys codes. *)
LEMMA HeldType ==
  ASSUME held \subseteq Codes, NEW c \in KeyCode, NEW d \in BOOLEAN, NEW flags \in SUBSET Flags
  PROVE  Injected(held, c, d) \subseteq Codes /\ Resynced(held, flags) \subseteq Codes
<1>1. PlatformCode(c) \in Codes
  BY PlatformType
<1>2. Injected(held, c, d) \subseteq Codes
  BY <1>1 DEF Injected
<1>3. \A f \in DOMAIN Resync : Resync[f] \in KeyCode
  BY SMT DEF Resync, KeyCode, LeftShift, LeftCtrl, LeftAlt, LeftSuper
<1>4. \A f \in DOMAIN Resync : PlatformCode(Resync[f]) \in Codes
  BY <1>3, PlatformType
<1>5. Resynced(held, flags) \subseteq Codes
  BY <1>4 DEF Resynced
<1> QED BY <1>2, <1>5

LEMMA LessType ==
  ASSUME behind \in Nat
  PROVE  OneLess \in Nat
BY DEF OneLess

LEMMA TypeStep ==
  ASSUME TypeOK, [Next]_vars
  PROVE  TypeOK'
<1> USE DEF TypeOK
<1>1. ASSUME NEW vk \in Keys, NEW isDown \in BOOLEAN, Hook(vk, isDown)
      PROVE  raw' \in Seq(RawEvents) /\ local' \subseteq Keys
  BY <1>1 DEF Hook, RawEvents
<1>2. ASSUME NEW vk \in Keys, Press(vk) PROVE TypeOK'
  <2>1. raw' \in Seq(RawEvents) /\ local' \subseteq Keys
    BY <1>1, <1>2 DEF Press
  <2>2. strokes' \in 0..MaxStrokes
    BY <1>2, KeyPathAssumption DEF Press
  <2> QED BY <1>2, <2>1, <2>2 DEF Press, session, client
<1>3. ASSUME NEW vk \in Keys, Release(vk) PROVE TypeOK'
  <2>1. raw' \in Seq(RawEvents) /\ local' \subseteq Keys
    BY <1>1, <1>3 DEF Release
  <2> QED BY <1>3, <2>1 DEF Release, session, client
<1>4. CASE MoveToEdge
  BY <1>4 DEF MoveToEdge, RawEvents, keyboard, session, client
<1>5. CASE DrainKey
  <2>1. /\ Head(raw) \in RawEvents /\ raw' \in Seq(RawEvents)
        /\ Head(raw).vk \in Keys /\ Head(raw).down \in BOOLEAN
    BY <1>5 DEF DrainKey, RawEvents
  <2>2. vk_to_keycode(Head(raw).vk) \in KeyCode
    BY <2>1, CodeType, KeyPathAssumption
  <2>3. mods' \subseteq Flags
    <3>1. FlagOf(Head(raw).vk) \in Flags \cup {"none"}
      BY DEF FlagOf, Flags
    <3>2. Updated(Head(raw).vk, Head(raw).down) \subseteq Flags
      BY <2>1, <3>1 DEF Updated
    <3> QED BY <1>5, <3>2 DEF DrainKey
  <2>4. events' \in Seq(KeyEvents)
    <3> DEFINE e == [kind |-> "key", code |-> vk_to_keycode(Head(raw).vk), vk |-> Head(raw).vk,
                     down |-> Head(raw).down, mods |-> mods']
    <3>1. e \in KeyEvents
      BY <2>1, <2>2, <2>3 DEF KeyEvents
    <3>2. events' = events \/ events' = Append(events, e)
      BY <1>5, Zenon DEF DrainKey
    <3> HIDE DEF e
    <3> QED BY <3>1, <3>2
  <2> QED BY <1>5, <2>1, <2>3, <2>4 DEF DrainKey, keyboard, session, client
<1>6. CASE DrainMove
  BY <1>6 DEF DrainMove, KeyEvents, keyboard, session, client
<1>7. CASE Emergency
  <2>1. net' \in Seq(Messages)
    BY <1>7, SendsType DEF Emergency, Messages
  <2>2. events' \in Seq(KeyEvents) /\ behind' \in Nat
    BY <1>7, LessType DEF Emergency, Received
  <2> QED BY <1>7, <2>1, <2>2 DEF Emergency, keyboard
<1>8. CASE SendSync
  <2>1. net' \in Seq(Messages)
    BY <1>8, SendsType DEF SendSync, Messages
  <2> QED BY <1>8, <2>1 DEF SendSync, keyboard
<1>9. CASE SetCapturing
  BY <1>9 DEF SetCapturing, keyboard, client
<1>10. CASE Cross
  <2>1. net' \in Seq(Messages)
    BY <1>10, SendsType DEF Cross, Messages
  <2>2. events' \in Seq(KeyEvents) /\ behind' \in Nat
    BY <1>10, LessType DEF Cross, Received
  <2> QED BY <1>10, <2>1, <2>2 DEF Cross, keyboard
<1>11. CASE ForwardKey
  <2>1. /\ Event.code \in KeyCode /\ Event.down \in BOOLEAN /\ Event.vk \in Keys
        /\ Event.mods \in SUBSET Flags
    BY <1>11 DEF ForwardKey, Received, Event, KeyEvents
  <2>2. net' \in Seq(Messages)
    BY <1>11, <2>1, SendsType DEF ForwardKey, Messages
  <2>3. events' \in Seq(KeyEvents) /\ behind' \in Nat
    BY <1>11, LessType DEF ForwardKey, Received
  <2> QED BY <1>11, <2>1, <2>2, <2>3 DEF ForwardKey, keyboard
<1>12. CASE Inject
  <2>1. Head(net) \in Messages /\ net' \in Seq(Messages)
    BY <1>12 DEF Inject
  <2>2. held' \subseteq Codes
    <3> DEFINE m == Head(net)
    <3>1. CASE m.type = "key"
      <4>1. m.code \in KeyCode /\ m.down \in BOOLEAN
        BY <2>1, <3>1 DEF Messages
      <4> QED BY <1>12, <3>1, <4>1, HeldType DEF Inject
    <3>2. CASE m.type = "leave"
      BY <1>12, <3>2 DEF Inject
    <3>3. CASE m.type \in {"enter", "sync"}
      <4>1. m.mods \in SUBSET Flags
        BY <2>1, <3>3 DEF Messages
      <4>2. Resynced(held, m.mods) \subseteq Codes
        BY <4>1, HeldType DEF KeyCode
      <4> QED BY <1>12, <3>3, <4>2 DEF Inject
    <3> QED BY <2>1, <3>1, <3>2, <3>3 DEF Messages
  <2> QED BY <1>12, <2>1, <2>2 DEF Inject, keyboard, session
<1>13. CASE Lose
  <2>1. net' \in Seq(Messages)
    BY <1>13 DEF Lose
  <2>2. {remote', capturing', connected'} \subseteq BOOLEAN
    BY <1>13, Zenon DEF Lose, session
  <2> QED BY <1>13, <2>1, <2>2 DEF Lose, keyboard, session
<1>14. CASE UNCHANGED vars
  BY <1>14 DEF vars, keyboard, session, client
<1> QED
  BY <1>2, <1>3, <1>4, <1>5, <1>6, <1>7, <1>8, <1>9, <1>10, <1>11, <1>12, <1>13, <1>14
     DEF Next, User, Server

(* Every variable keeps its type, and no code but those of KeyCode travels *)
(* or is injected, whatever keys the keyboard has.                         *)
THEOREM TypeCorrect == Spec => []TypeOK
<1>1. Init => TypeOK
  BY TypeInit
<1>2. TypeOK /\ [Next]_vars => TypeOK'
  BY TypeStep
<1> QED BY <1>1, <1>2, PTL DEF Spec

-----------------------------------------------------------------------------
(* A client that was left holds no modifier.  The property is about a      *)
(* moment at which everything has been handed on; what holds at every      *)
(* moment is that a wipe is on its way behind all that presses keys.       *)

Wipes(m) == m.type = "leave" \/ (m.type = "sync" /\ m.mods = {})

Presses(m) == m.type \in {"key", "enter"}

SyncsClear == \A i \in DOMAIN net : net[i].type = "sync" => net[i].mods = {}

WipeFollows ==
  ~remote /\ connected =>
    \A i \in DOMAIN net : Presses(net[i]) => \E j \in DOMAIN net : j > i /\ Wipes(net[j])

WipeDue ==
  ~remote /\ connected /\ held \cap ModifierCodes # {} => \E j \in DOMAIN net : Wipes(net[j])

WInv == SyncsClear /\ WipeFollows /\ WipeDue

(* A wipe appended to the stream follows all that is in it. *)
LEMMA AppendedWipe ==
  ASSUME net \in Seq(Messages), NEW m \in Messages, Wipes(m), SyncsClear,
         net' = Append(net, m)
  PROVE  WInv'
<1>1. /\ Len(net') = Len(net) + 1 /\ net'[Len(net) + 1] = m
      /\ \A i \in 1 .. Len(net) : net'[i] = net[i]
      /\ DOMAIN net' = 1 .. Len(net) + 1 /\ DOMAIN net = 1 .. Len(net)
      /\ Len(net) \in Nat
  OBVIOUS
<1>2. m.type = "sync" => m.mods = {}
  BY DEF Wipes
<1>3. SyncsClear'
  BY <1>1, <1>2 DEF SyncsClear
<1>4. ~Presses(m)
  BY DEF Wipes, Presses
<1>5. WipeFollows'
  BY <1>1, <1>4 DEF WipeFollows
<1>6. WipeDue'
  BY <1>1 DEF WipeDue
<1> QED BY <1>3, <1>5, <1>6 DEF WInv

(* While the route is remote anything but a sync may be appended. *)
LEMMA AppendedWhileRemote ==
  ASSUME net \in Seq(Messages), NEW m \in Messages, m.type # "sync", SyncsClear, remote',
         net' = Append(net, m) \/ net' = net
  PROVE  WInv'
<1>1. CASE net' = Append(net, m)
  <2>1. /\ net'[Len(net) + 1] = m
        /\ \A i \in 1 .. Len(net) : net'[i] = net[i]
        /\ DOMAIN net' = 1 .. Len(net) + 1 /\ DOMAIN net = 1 .. Len(net)
        /\ Len(net) \in Nat
    BY <1>1
  <2> QED BY <2>1 DEF WInv, SyncsClear, WipeFollows, WipeDue
<1>2. CASE net' = net
  BY <1>2 DEF WInv, SyncsClear, WipeFollows, WipeDue
<1> QED BY <1>1, <1>2

(* No step takes a wipe away before what it has to wipe. *)
LEMMA WipeStep ==
  ASSUME TypeOK, WInv, [Next]_vars
  PROVE  WInv'
<1> USE DEF WInv
<1>0. net \in Seq(Messages)
  BY DEF TypeOK
<1>1. ASSUME UNCHANGED <<net, held, remote, connected>> PROVE WInv'
  BY <1>1 DEF SyncsClear, WipeFollows, WipeDue
<1>2. ASSUME NEW vk \in Keys, Press(vk) \/ Release(vk) PROVE WInv'
  BY <1>1, <1>2 DEF Press, Release, session, client
<1>3. CASE MoveToEdge \/ DrainKey \/ DrainMove
  BY <1>1, <1>3 DEF MoveToEdge, DrainKey, DrainMove, session, client
<1>4. CASE SetCapturing
  BY <1>1, <1>4 DEF SetCapturing, client
<1>5. CASE Emergency
  <2> DEFINE m == [type |-> "leave"]
  <2>1. m \in Messages /\ Wipes(m)
    BY DEF Messages, Wipes
  <2>2. CASE ~remote
    <3>1. UNCHANGED <<net, held, connected>> /\ ~remote'
      BY <1>5, <2>2 DEF Emergency
    <3>2. SyncsClear'
      BY <3>1 DEF SyncsClear
    <3>3. WipeFollows'
      BY <2>2, <3>1 DEF WipeFollows
    <3>4. WipeDue'
      BY <2>2, <3>1 DEF WipeDue
    <3> QED BY <3>2, <3>3, <3>4
  <2>3. CASE remote /\ connected
    <3>1. net' = Append(net, m)
      BY <1>5, <2>3 DEF Emergency, Sends
    <3> QED BY <1>0, <2>1, <3>1, AppendedWipe
  <2>4. CASE ~connected
    BY <1>5, <2>4 DEF Emergency, Sends, SyncsClear, WipeFollows, WipeDue
  <2> QED BY <2>2, <2>3, <2>4
<1>6. CASE SendSync
  <2> DEFINE m == [type |-> "sync", mods |-> {}]
  <2>1. m \in Messages /\ Wipes(m)
    BY DEF Messages, Wipes
  <2>2. CASE connected
    <3>1. net' = Append(net, m)
      BY <1>6, <2>2 DEF SendSync, Sends
    <3> QED BY <1>0, <2>1, <3>1, AppendedWipe
  <2>3. CASE ~connected
    BY <1>1, <1>6, <2>3 DEF SendSync, Sends
  <2> QED BY <2>2, <2>3
<1>7. CASE Cross
  <2> DEFINE m == [type |-> "enter", mods |-> edgeMods]
  <2>1. m \in Messages
    BY DEF Messages, TypeOK
  <2>2. CASE ~remote /\ connected
    <3>1. remote' /\ net' = Append(net, m)
      BY <1>7, <2>2 DEF Cross, Sends
    <3> QED BY <1>0, <2>1, <3>1, AppendedWhileRemote
  <2>3. CASE ~(~remote /\ connected)
    BY <1>1, <1>7, <2>3 DEF Cross
  <2> QED BY <2>2, <2>3
<1>8. CASE ForwardKey
  <2> DEFINE m == [type |-> "key", code |-> Event.code, down |-> Event.down]
  <2>1. m \in Messages
    <3>1. Event.code \in KeyCode /\ Event.down \in BOOLEAN
      BY <1>8 DEF ForwardKey, Received, Event, KeyEvents, TypeOK
    <3> QED BY <3>1 DEF Messages
  <2>2. CASE remote
    <3>1. remote' /\ (net' = Append(net, m) \/ net' = net)
      BY <1>8, <2>2 DEF ForwardKey, Sends
    <3> QED BY <1>0, <2>1, <3>1, AppendedWhileRemote
  <2>3. CASE ~remote
    BY <1>1, <1>8, <2>3 DEF ForwardKey
  <2> QED BY <2>2, <2>3
<1>9. CASE Inject
  <2> DEFINE m == Head(net)
  <2>1. /\ net # <<>> /\ net' = Tail(net) /\ m = net[1] /\ m \in Messages
        /\ remote' = remote /\ connected' = connected
        /\ Len(net) \in Nat \ {0} /\ DOMAIN net = 1 .. Len(net)
        /\ DOMAIN net' = 1 .. Len(net) - 1
        /\ \A i \in DOMAIN net' : net'[i] = net[i + 1]
    BY <1>0, <1>9 DEF Inject, session
  <2>2. SyncsClear'
    BY <2>1 DEF SyncsClear
  <2>3. ASSUME NEW i \in DOMAIN net, NEW j \in DOMAIN net, j > i, Wipes(net[j])
        PROVE  j - 1 \in DOMAIN net' /\ Wipes(net'[j - 1])
    BY <2>1, <2>3
  <2>4. WipeFollows'
    <3> SUFFICES ASSUME ~remote, connected, NEW i \in DOMAIN net', Presses(net'[i])
                 PROVE  \E j \in DOMAIN net' : j > i /\ Wipes(net'[j])
      BY <2>1 DEF WipeFollows
    <3>1. i + 1 \in DOMAIN net /\ Presses(net[i + 1])
      BY <2>1
    <3>2. PICK j \in DOMAIN net : j > i + 1 /\ Wipes(net[j])
      BY <3>1 DEF WipeFollows
    <3>3. j - 1 \in DOMAIN net' /\ Wipes(net'[j - 1])
      BY <2>3, <3>1, <3>2
    <3> QED BY <2>1, <3>2, <3>3
  <2>5. WipeDue'
    <3> SUFFICES ASSUME ~remote, connected, held' \cap ModifierCodes # {}
                 PROVE  \E j \in DOMAIN net' : Wipes(net'[j])
      BY <2>1 DEF WipeDue
    <3>1. CASE Presses(m)
      <4>1. PICK j \in DOMAIN net : j > 1 /\ Wipes(net[j])
        BY <2>1, <3>1 DEF WipeFollows
      <4> QED BY <2>1, <2>3, <4>1
    <3>2. CASE ~Presses(m)
      <4>1. held' = held \ ModifierCodes
        <5>1. CASE m.type = "leave"
          BY <1>9, <5>1 DEF Inject
        <5>2. CASE m.type = "sync"
          <6>1. m.mods = {}
            BY <2>1, <5>2 DEF SyncsClear
          <6>2. held' = Resynced(held, m.mods)
            BY <1>9, <5>2 DEF Inject
          <6> QED BY <6>1, <6>2 DEF Resynced
        <5> QED BY <2>1, <3>2, <5>1, <5>2 DEF Messages, Presses
      <4> QED BY <4>1
    <3> QED BY <3>1, <3>2
  <2> QED BY <2>2, <2>4, <2>5
<1>10. CASE Lose
  BY <1>10 DEF Lose, SyncsClear, WipeFollows, WipeDue
<1>11. CASE UNCHANGED vars
  BY <1>1, <1>11 DEF vars, session, client
<1> QED
  BY <1>2, <1>3, <1>4, <1>5, <1>6, <1>7, <1>8, <1>9, <1>10, <1>11
     DEF Next, User, Server

(* Once everything has been handed on, a client that was left holds no     *)
(* modifier of either side, whichever were pressed there and however.      *)
THEOREM ModifiersReleasedAlways == Spec => []ModifiersReleased
<1>1. Init => WInv
  BY DEF Init, WInv, SyncsClear, WipeFollows, WipeDue
<1>2. TypeOK /\ WInv /\ [Next]_vars => WInv'
  BY WipeStep
<1>3. WInv => ModifiersReleased
  <2> SUFFICES ASSUME WInv, net = <<>>, ~remote, connected
               PROVE  held \cap ModifierCodes = {}
    BY AllModifiersListed DEF ModifiersReleased, Drained
  <2> QED BY DEF WInv, WipeDue
<1> QED BY <1>1, <1>2, <1>3, TypeCorrect, PTL DEF Spec

-----------------------------------------------------------------------------
(* The flags of the drain thread *)

Of(e, f) == e.kind = "key" /\ FlagOf(e.vk) = f

(* What the drain thread has yet to read of a flag ends with the truth about *)
(* it: if that is a press, the key it names is still held.                   *)
NewestTrue ==
  \A f \in Flags : \A i \in DOMAIN raw :
    Of(raw[i], f) /\ raw[i].down /\ (\A j \in DOMAIN raw : j > i => ~Of(raw[j], f))
      => raw[i].vk \in down

(* With nothing to read about a flag that is set, a key of it is held. *)
SetFlagTrue ==
  \A f \in mods :
    (\A j \in DOMAIN raw : ~Of(raw[j], f)) => \E vk \in down : FlagOf(vk) = f

FlagInv == NewestTrue /\ SetFlagTrue

(* A key the hook hands on makes the truth about its flag the newest entry. *)
LEMMA HookStep ==
  ASSUME raw \in Seq(RawEvents), FlagInv, NEW vk \in Keys, NEW isDown \in BOOLEAN,
         raw' = Append(raw, [kind |-> "key", vk |-> vk, down |-> isDown]),
         down' = IF isDown THEN down \cup {vk} ELSE down \ {vk}, mods' = mods
  PROVE  FlagInv'
<1> DEFINE e == [kind |-> "key", vk |-> vk, down |-> isDown]
<1>1. /\ raw'[Len(raw) + 1] = e /\ \A i \in 1 .. Len(raw) : raw'[i] = raw[i]
      /\ DOMAIN raw' = 1 .. Len(raw) + 1 /\ DOMAIN raw = 1 .. Len(raw)
      /\ Len(raw) \in Nat
  OBVIOUS
<1>2. \A f : Of(e, f) <=> FlagOf(vk) = f
  BY DEF Of
<1>3. NewestTrue'
  <2> SUFFICES ASSUME NEW f \in Flags, NEW i \in DOMAIN raw', Of(raw'[i], f), raw'[i].down,
                      \A j \in DOMAIN raw' : j > i => ~Of(raw'[j], f)
               PROVE  raw'[i].vk \in down'
    BY DEF NewestTrue, Of
  <2>1. CASE i = Len(raw) + 1
    BY <1>1, <2>1
  <2>2. CASE i # Len(raw) + 1
    <3>1. i \in DOMAIN raw /\ raw'[i] = raw[i]
      BY <1>1, <2>2
    <3>2. \A j \in DOMAIN raw : j > i => ~Of(raw[j], f)
      BY <1>1
    <3>3. raw[i].vk \in down
      BY <3>1, <3>2 DEF FlagInv, NewestTrue
    <3>4. FlagOf(vk) # f
      BY <1>1, <1>2, <3>1
    <3>5. FlagOf(raw[i].vk) = f
      BY <3>1 DEF Of
    <3> QED BY <3>1, <3>3, <3>4, <3>5
  <2> QED BY <2>1, <2>2
<1>4. SetFlagTrue'
  <2> SUFFICES ASSUME NEW f \in mods, \A j \in DOMAIN raw' : ~Of(raw'[j], f)
               PROVE  \E k \in down' : FlagOf(k) = f
    BY DEF SetFlagTrue, Of
  <2>1. FlagOf(vk) # f
    BY <1>1, <1>2
  <2>2. \A j \in DOMAIN raw : ~Of(raw[j], f)
    BY <1>1
  <2>3. PICK k \in down : FlagOf(k) = f
    BY <2>2 DEF FlagInv, SetFlagTrue
  <2> QED BY <2>1, <2>3
<1> QED BY <1>3, <1>4 DEF FlagInv

(* The drain thread takes the oldest entry and sets or clears its flag. *)
LEMMA DrainStep ==
  ASSUME TypeOK, FlagInv, DrainKey
  PROVE  FlagInv'
<1> DEFINE e == Head(raw)
<1>1. /\ raw' = Tail(raw) /\ e = raw[1] /\ e.kind = "key" /\ down' = down
      /\ mods' = Updated(e.vk, e.down)
  BY DEF DrainKey, TypeOK, keyboard
<1>2. raw \in Seq(RawEvents) /\ raw # <<>> /\ mods \subseteq Flags
  BY DEF DrainKey, TypeOK
<1>3. /\ Len(raw) \in Nat \ {0} /\ DOMAIN raw = 1 .. Len(raw)
      /\ DOMAIN raw' = 1 .. Len(raw) - 1
      /\ \A i \in DOMAIN raw' : raw'[i] = raw[i + 1]
  BY <1>1, <1>2
<1>4. e \in RawEvents
  BY <1>1, <1>2, <1>3
<1>5. e.down \in BOOLEAN
  BY <1>1, <1>4 DEF RawEvents
<1>6. NewestTrue'
  <2> SUFFICES ASSUME NEW f \in Flags, NEW i \in DOMAIN raw', Of(raw'[i], f), raw'[i].down,
                      \A j \in DOMAIN raw' : j > i => ~Of(raw'[j], f)
               PROVE  raw'[i].vk \in down'
    BY DEF NewestTrue, Of
  <2>1. i + 1 \in DOMAIN raw /\ raw'[i] = raw[i + 1]
    BY <1>3
  <2>2. ASSUME NEW j \in DOMAIN raw, j > i + 1 PROVE ~Of(raw[j], f)
    <3>1. j - 1 \in DOMAIN raw' /\ j - 1 > i /\ raw'[j - 1] = raw[j]
      BY <1>3, <2>2
    <3> QED BY <3>1
  <2>3. raw[i + 1].vk \in down
    BY <2>1, <2>2 DEF FlagInv, NewestTrue
  <2> QED BY <1>1, <2>1, <2>3
<1>7. SetFlagTrue'
  <2> SUFFICES ASSUME NEW f \in mods', \A j \in DOMAIN raw' : ~Of(raw'[j], f)
               PROVE  \E k \in down : FlagOf(k) = f
    BY <1>1 DEF SetFlagTrue, Of
  <2>1. ASSUME NEW j \in DOMAIN raw, j > 1 PROVE ~Of(raw[j], f)
    <3>1. j - 1 \in DOMAIN raw' /\ raw'[j - 1] = raw[j]
      BY <1>3, <2>1
    <3> QED BY <3>1
  <2>2. CASE Of(e, f) /\ e.down
    <3>1. f \in Flags
      BY <1>1, <1>2, <1>5, <2>2 DEF Updated, Of, FlagOf, Flags
    <3>2. e.vk \in down
      BY <1>1, <1>3, <2>1, <2>2, <3>1 DEF FlagInv, NewestTrue
    <3> QED BY <2>2, <3>2 DEF Of
  <2>3. CASE Of(e, f) /\ ~e.down
    <3>1. mods' = mods \ {f} \/ FlagOf(e.vk) = "none"
      BY <1>1, <1>5, <2>3 DEF Updated, Of
    <3>2. "none" \notin mods
      BY <1>2 DEF Flags
    <3> QED BY <1>1, <2>3, <3>1, <3>2 DEF Updated, Of
  <2>4. CASE ~Of(e, f)
    <3>1. f \in mods
      BY <1>1, <1>5, <2>4 DEF Updated, Of
    <3>2. \A j \in DOMAIN raw : ~Of(raw[j], f)
      BY <1>1, <1>3, <2>1, <2>4
    <3> QED BY <3>1, <3>2 DEF FlagInv, SetFlagTrue
  <2> QED BY <2>2, <2>3, <2>4
<1> QED BY <1>6, <1>7 DEF FlagInv

(* A mouse movement says nothing of a flag, at either end of the queue. *)
LEMMA MoveStep ==
  ASSUME TypeOK, FlagInv, MoveToEdge \/ DrainMove
  PROVE  FlagInv'
<1> USE DEF FlagInv
<1>0. raw \in Seq(RawEvents) /\ down' = down /\ mods' = mods
  BY DEF TypeOK, MoveToEdge, DrainMove, keyboard
<1>1. CASE MoveToEdge
  <2>1. /\ Len(raw) \in Nat /\ DOMAIN raw = 1 .. Len(raw) /\ DOMAIN raw' = 1 .. Len(raw) + 1
        /\ raw'[Len(raw) + 1].kind = "move" /\ \A i \in 1 .. Len(raw) : raw'[i] = raw[i]
    BY <1>0, <1>1 DEF MoveToEdge
  <2>2. NewestTrue'
    BY <1>0, <2>1 DEF NewestTrue, Of
  <2>3. SetFlagTrue'
    BY <1>0, <2>1 DEF SetFlagTrue, Of
  <2> QED BY <2>2, <2>3
<1>2. CASE DrainMove
  <2>1. /\ Len(raw) \in Nat \ {0} /\ DOMAIN raw = 1 .. Len(raw)
        /\ DOMAIN raw' = 1 .. Len(raw) - 1 /\ raw[1].kind = "move"
        /\ \A i \in DOMAIN raw' : raw'[i] = raw[i + 1]
    BY <1>0, <1>2 DEF DrainMove
  <2>2. \A j \in DOMAIN raw : j = 1 \/ (j - 1 \in DOMAIN raw' /\ raw'[j - 1] = raw[j])
    BY <2>1
  <2>3. NewestTrue'
    <3> SUFFICES ASSUME NEW f \in Flags, NEW i \in DOMAIN raw', Of(raw'[i], f), raw'[i].down,
                        \A j \in DOMAIN raw' : j > i => ~Of(raw'[j], f)
                 PROVE  raw'[i].vk \in down'
      BY DEF NewestTrue, Of
    <3>1. i + 1 \in DOMAIN raw /\ raw'[i] = raw[i + 1]
      BY <2>1
    <3>2. ASSUME NEW j \in DOMAIN raw, j > i + 1 PROVE ~Of(raw[j], f)
      <4>1. j - 1 \in DOMAIN raw' /\ j - 1 > i /\ raw'[j - 1] = raw[j]
        BY <2>1, <3>2
      <4> QED BY <4>1
    <3> QED BY <1>0, <3>1, <3>2 DEF NewestTrue
  <2>4. SetFlagTrue'
    BY <1>0, <2>1, <2>2 DEF SetFlagTrue, Of
  <2> QED BY <2>3, <2>4
<1> QED BY <1>1, <1>2

LEMMA FlagStep ==
  ASSUME TypeOK, FlagInv, [Next]_vars
  PROVE  FlagInv'
<1>0. raw \in Seq(RawEvents)
  BY DEF TypeOK
<1>1. ASSUME UNCHANGED <<raw, mods, down>> PROVE FlagInv'
  BY <1>1 DEF FlagInv, NewestTrue, SetFlagTrue
<1>2. ASSUME NEW vk \in Keys, Press(vk) PROVE FlagInv'
  BY <1>0, <1>2, HookStep DEF Press, Hook
<1>3. ASSUME NEW vk \in Keys, Release(vk) PROVE FlagInv'
  BY <1>0, <1>3, HookStep DEF Release, Hook
<1>4. CASE MoveToEdge \/ DrainMove
  BY <1>4, MoveStep
<1>5. CASE DrainKey
  BY <1>5, DrainStep
<1>6. CASE Emergency \/ SendSync \/ SetCapturing \/ Cross \/ ForwardKey
  BY <1>1, <1>6 DEF Emergency, SendSync, SetCapturing, Cross, ForwardKey, keyboard
<1>7. CASE Inject \/ Lose \/ UNCHANGED vars
  BY <1>1, <1>7 DEF Inject, Lose, keyboard, vars
<1> QED
  BY <1>2, <1>3, <1>4, <1>5, <1>6, <1>7 DEF Next, User, Server

(* Once the drain thread is up to date, no flag it holds outlives the last *)
(* key of that flag, whichever of the two keys went up and in what order.  *)
THEOREM NoPhantomModifierAlways == Spec => []NoPhantomModifier
<1>1. Init => FlagInv
  BY DEF Init, FlagInv, NewestTrue, SetFlagTrue
<1>2. TypeOK /\ FlagInv /\ [Next]_vars => FlagInv'
  BY FlagStep
<1>3. FlagInv => NoPhantomModifier
  BY DEF FlagInv, SetFlagTrue, NoPhantomModifier
<1> QED BY <1>1, <1>2, <1>3, TypeCorrect, PTL DEF Spec

-----------------------------------------------------------------------------
(* A key pressed on the far side of a crossing.  FollowsKeyboard is about  *)
(* a moment at which everything has been handed on; what holds at every    *)
(* moment is that the newest word about a key, wherever on the way it is,  *)
(* is the truth.                                                           *)

About(e, vk)  == e.kind = "key" /\ e.vk = vk
Silent(q, vk) == \A i \in DOMAIN q : ~About(q[i], vk)

NewestSays(q, vk, b) ==
  \A i \in DOMAIN q :
    About(q[i], vk) /\ (\A j \in DOMAIN q : j > i => ~About(q[j], vk)) => q[i].down = b

(* What the injector, with keys h down, will make of a key from stream q *)
Presented(m, vk) == m.type = "key" /\ m.code = vk_to_keycode(vk)

Settles(q, h, vk, b) ==
  \/ \E i \in DOMAIN q :
       /\ Presented(q[i], vk) /\ q[i].down = b
       /\ \A j \in DOMAIN q : j > i => q[j].type = "key" /\ ~Presented(q[j], vk)
  \/ /\ \A j \in DOMAIN q : q[j].type = "key" /\ ~Presented(q[j], vk)
     /\ vk \in h <=> b

(* The route and the capture as drain_capture changes them *)
TakesTurns ==
  /\ task = "recv" => (capturing <=> remote)
  /\ task = "capture" => remote /\ ~capturing /\ since = {}
  /\ task \in {"sync", "uncapture"} => ~remote /\ capturing

(* Until the capture is on, no key is under way that was handed on after   *)
(* the crossing.                                                           *)
NoneCaught ==
  task = "capture" => \A j \in DOMAIN events : j > behind => events[j].kind = "move"

(* Keys under way are named by the table. *)
Named ==
  /\ \A i \in DOMAIN events :
       events[i].kind = "key" => events[i].code = vk_to_keycode(events[i].vk)
  /\ \A i \in DOMAIN net :
       net[i].type = "key" => \E vk \in Keys : net[i].code = vk_to_keycode(vk)

Caught(vk) == \/ vk \in since \ early
              \/ \E j \in DOMAIN events : j > behind /\ About(events[j], vk)

Truth(vk) == vk \in down

Follows(vk) ==
  /\ NewestSays(raw, vk, Truth(vk))
  /\ remote /\ Caught(vk) /\ Silent(raw, vk) => NewestSays(events, vk, Truth(vk))
  /\ remote /\ connected /\ vk \in (since \ early) \cap Mapped /\ Silent(raw, vk) /\ Silent(events, vk)
       => Settles(net, held, vk, Truth(vk))

Following == TakesTurns /\ NoneCaught /\ Named /\ \A vk \in Keys : Follows(vk)

LEMMA NewestAppend ==
  ASSUME NEW S, NEW q \in Seq(S), NEW e \in S, NEW vk, NEW b
  PROVE  /\ About(e, vk) => NewestSays(Append(q, e), vk, e.down) /\ ~Silent(Append(q, e), vk)
         /\ ~About(e, vk) => /\ Silent(Append(q, e), vk) <=> Silent(q, vk)
                             /\ NewestSays(q, vk, b) => NewestSays(Append(q, e), vk, b)
<1> DEFINE r == Append(q, e)
<1>1. /\ r[Len(q) + 1] = e /\ \A i \in 1 .. Len(q) : r[i] = q[i]
      /\ DOMAIN r = 1 .. Len(q) + 1 /\ DOMAIN q = 1 .. Len(q) /\ Len(q) \in Nat
  BY AppendProperties
<1> HIDE DEF r
<1>2. /\ Len(q) + 1 \in DOMAIN r /\ \A i \in DOMAIN q : i \in DOMAIN r /\ ~(i > Len(q) + 1)
      /\ \A i \in DOMAIN r : i = Len(q) + 1 \/ (i \in DOMAIN q /\ Len(q) + 1 > i)
  BY <1>1
<1>3. CASE About(e, vk)
  <2>1. ~Silent(r, vk)
    BY <1>1, <1>2, <1>3 DEF Silent
  <2>2. ASSUME NEW i \in DOMAIN r, \A j \in DOMAIN r : j > i => ~About(r[j], vk)
        PROVE  r[i].down = e.down
    <3>1. i = Len(q) + 1
      BY <1>1, <1>2, <1>3, <2>2
    <3> QED BY <1>1, <3>1
  <2> QED BY <1>3, <2>1, <2>2 DEF NewestSays, r
<1>4. CASE ~About(e, vk)
  <2>1. Silent(r, vk) <=> Silent(q, vk)
    BY <1>1, <1>2, <1>4 DEF Silent
  <2>2. ASSUME NewestSays(q, vk, b), NEW i \in DOMAIN r, About(r[i], vk),
               \A j \in DOMAIN r : j > i => ~About(r[j], vk)
        PROVE  r[i].down = b
    <3>1. i \in DOMAIN q /\ r[i] = q[i]
      BY <1>1, <1>2, <1>4, <2>2
    <3>2. \A j \in DOMAIN q : j > i => ~About(q[j], vk)
      BY <1>1, <1>2, <2>2
    <3> QED BY <2>2, <3>1, <3>2 DEF NewestSays
  <2>3. NewestSays(q, vk, b) => NewestSays(r, vk, b)
    BY <2>2 DEF NewestSays
  <2> QED BY <1>4, <2>1, <2>3 DEF r
<1> QED BY <1>3, <1>4

LEMMA NewestTail ==
  ASSUME NEW S, NEW q \in Seq(S), q # <<>>, NEW vk, NEW b
  PROVE  /\ NewestSays(q, vk, b) => NewestSays(Tail(q), vk, b)
         /\ Silent(q, vk) <=> Silent(Tail(q), vk) /\ ~About(Head(q), vk)
         /\ NewestSays(q, vk, b) /\ Silent(Tail(q), vk) /\ About(Head(q), vk) => Head(q).down = b
<1> DEFINE r == Tail(q)
<1>1. /\ Len(q) \in Nat \ {0} /\ DOMAIN q = 1 .. Len(q) /\ DOMAIN r = 1 .. Len(q) - 1
      /\ Head(q) = q[1] /\ \A i \in DOMAIN r : r[i] = q[i + 1]
  OBVIOUS
<1> HIDE DEF r
<1>2. /\ 1 \in DOMAIN q /\ \A i \in DOMAIN r : i + 1 \in DOMAIN q
      /\ \A i \in DOMAIN q : i = 1 \/ (i > 1 /\ i - 1 \in DOMAIN r /\ r[i - 1] = q[i])
  BY <1>1
<1>3. Silent(q, vk) <=> Silent(r, vk) /\ ~About(Head(q), vk)
  BY <1>1, <1>2 DEF Silent
<1>4. ASSUME NewestSays(q, vk, b), NEW i \in DOMAIN r, About(r[i], vk),
             \A j \in DOMAIN r : j > i => ~About(r[j], vk)
      PROVE  r[i].down = b
  <2>1. i + 1 \in DOMAIN q /\ r[i] = q[i + 1]
    BY <1>1, <1>2
  <2>2. ASSUME NEW j \in DOMAIN q, j > i + 1 PROVE ~About(q[j], vk)
    <3>1. j - 1 \in DOMAIN r /\ j - 1 > i /\ r[j - 1] = q[j]
      BY <1>1, <2>2
    <3> QED BY <1>4, <3>1
  <2> QED BY <1>4, <2>1, <2>2 DEF NewestSays
<1>5. ASSUME NewestSays(q, vk, b), Silent(r, vk), About(Head(q), vk) PROVE Head(q).down = b
  <2>1. \A j \in DOMAIN q : j > 1 => ~About(q[j], vk)
    BY <1>2, <1>5 DEF Silent
  <2> QED BY <1>1, <1>2, <1>5, <2>1 DEF NewestSays
<1>6. NewestSays(q, vk, b) => NewestSays(r, vk, b)
  BY <1>4 DEF NewestSays
<1> QED BY <1>3, <1>5, <1>6 DEF r

(* A key sent last is settled; one sent for another key changes nothing. *)
LEMMA SettlesAppend ==
  ASSUME NEW q \in Seq(Messages), NEW m \in Messages, m.type = "key", NEW h, NEW vk, NEW b
  PROVE  /\ Presented(m, vk) => Settles(Append(q, m), h, vk, m.down)
         /\ ~Presented(m, vk) /\ Settles(q, h, vk, b) => Settles(Append(q, m), h, vk, b)
<1> DEFINE r == Append(q, m)
<1>1. /\ r[Len(q) + 1] = m /\ \A i \in 1 .. Len(q) : r[i] = q[i]
      /\ DOMAIN r = 1 .. Len(q) + 1 /\ DOMAIN q = 1 .. Len(q) /\ Len(q) \in Nat
  BY AppendProperties
<1> HIDE DEF r
<1>2. /\ Len(q) + 1 \in DOMAIN r /\ \A i \in DOMAIN q : i \in DOMAIN r
      /\ \A i \in DOMAIN r : i = Len(q) + 1 \/ (i \in DOMAIN q /\ ~(i > Len(q) + 1))
  BY <1>1
<1>3. Presented(m, vk) => Settles(r, h, vk, m.down)
  BY <1>1, <1>2 DEF Settles
<1>4. ASSUME ~Presented(m, vk), NEW i \in DOMAIN q, Presented(q[i], vk), q[i].down = b,
             \A j \in DOMAIN q : j > i => q[j].type = "key" /\ ~Presented(q[j], vk)
      PROVE  Settles(r, h, vk, b)
  BY <1>1, <1>2, <1>4 DEF Settles
<1>5. ASSUME ~Presented(m, vk), \A j \in DOMAIN q : q[j].type = "key" /\ ~Presented(q[j], vk),
             vk \in h <=> b
      PROVE  Settles(r, h, vk, b)
  BY <1>1, <1>2, <1>5 DEF Settles
<1> QED BY <1>3, <1>4, <1>5 DEF Settles, r

(* On a Windows client, injecting the next message keeps a key settled. *)
LEMMA SettlesTail ==
  ASSUME ClientPlatform = "windows", NEW q \in Seq(Messages), q # <<>>, NEW h, NEW g,
         NEW vk \in Mapped, NEW b, Settles(q, h, vk, b),
         Head(q).type = "key" => /\ g = Injected(h, Head(q).code, Head(q).down)
                                 /\ \E k \in Keys : Head(q).code = vk_to_keycode(k)
  PROVE  Settles(Tail(q), g, vk, b)
<1> DEFINE r == Tail(q)
           m == Head(q)
<1>1. /\ Len(q) \in Nat \ {0} /\ DOMAIN q = 1 .. Len(q) /\ DOMAIN r = 1 .. Len(q) - 1
      /\ m = q[1] /\ m \in Messages /\ \A i \in DOMAIN r : r[i] = q[i + 1]
  OBVIOUS
<1> HIDE DEF r, m
<1>2. /\ 1 \in DOMAIN q /\ \A i \in DOMAIN r : i + 1 \in DOMAIN q /\ i + 1 > 1
      /\ \A i \in DOMAIN q : i = 1 \/ (i > 1 /\ i - 1 \in DOMAIN r /\ r[i - 1] = q[i])
      /\ \A i \in DOMAIN q, j \in DOMAIN r : i > 1 /\ j > i - 1 => j + 1 > i
      /\ \A i, j \in DOMAIN r : j > i => j + 1 > i + 1
  BY <1>1
<1>3. ASSUME NEW i \in DOMAIN q, i > 1, Presented(q[i], vk), q[i].down = b,
             \A j \in DOMAIN q : j > i => q[j].type = "key" /\ ~Presented(q[j], vk)
      PROVE  Settles(r, g, vk, b)
  <2>1. i - 1 \in DOMAIN r /\ r[i - 1] = q[i]
    BY <1>1, <1>3
  <2>2. \A j \in DOMAIN r : j > i - 1 => r[j].type = "key" /\ ~Presented(r[j], vk)
    BY <1>1, <1>2, <1>3
  <2> QED BY <1>3, <2>1, <2>2 DEF Settles
<1>4. ASSUME m.type = "key", \A j \in DOMAIN q : j > 1 => q[j].type = "key" /\ ~Presented(q[j], vk),
             vk \in g <=> b
      PROVE  Settles(r, g, vk, b)
  <2>1. \A j \in DOMAIN r : r[j].type = "key" /\ ~Presented(r[j], vk)
    BY <1>1, <1>2, <1>4
  <2> QED BY <1>4, <2>1 DEF Settles
<1>5. vk \in Nat /\ vk # Unknown /\ keycode_to_vk(vk_to_keycode(vk)) = vk /\ vk_to_keycode(vk) # Unknown
  BY RoundTrip, KeyPathAssumption DEF Mapped, Unknown
<1>6. ASSUME m.type = "key" PROVE g = Injected(h, m.code, m.down) /\ m.down \in BOOLEAN
  BY <1>1, <1>6 DEF Messages, m
<1>7. ASSUME m.type = "key", m.code = vk_to_keycode(vk) PROVE vk \in g <=> m.down
  <2>1. PlatformCode(m.code) = vk
    BY <1>5, <1>7 DEF PlatformCode
  <2> QED BY <1>5, <1>6, <1>7, <2>1 DEF Injected
<1>8. ASSUME m.type = "key", m.code # vk_to_keycode(vk) PROVE vk \in g <=> vk \in h
  <2>1. PICK k \in Keys : m.code = vk_to_keycode(k)
    BY <1>8 DEF m
  <2>2. PlatformCode(m.code) # vk
    <3>1. CASE vk_to_keycode(k) = Unknown
      <4>1. keycode_to_vk(Unknown) = Unknown
        BY SMT DEF keycode_to_vk, Unknown
      <4> QED BY <1>5, <2>1, <3>1, <4>1 DEF PlatformCode
    <3>2. CASE vk_to_keycode(k) # Unknown
      <4>1. keycode_to_vk(m.code) = k
        BY <2>1, <3>2, RoundTrip, KeyPathAssumption
      <4> QED BY <1>8, <2>1, <4>1 DEF PlatformCode
    <3> QED BY <3>1, <3>2
  <2> QED BY <1>6, <1>8, <2>2 DEF Injected
<1>9. ASSUME NEW i \in DOMAIN q, Presented(q[i], vk), q[i].down = b,
             \A j \in DOMAIN q : j > i => q[j].type = "key" /\ ~Presented(q[j], vk)
      PROVE  Settles(r, g, vk, b)
  <2>1. CASE i > 1
    BY <1>3, <1>9, <2>1
  <2>2. CASE i = 1
    <3>1. m.type = "key" /\ m.code = vk_to_keycode(vk) /\ m.down = b
      BY <1>1, <1>9, <2>2 DEF Presented
    <3>2. vk \in g <=> b
      BY <1>7, <3>1
    <3> QED BY <1>4, <1>9, <2>2, <3>1, <3>2
  <2> QED BY <1>2, <2>1, <2>2
<1>10. ASSUME \A j \in DOMAIN q : q[j].type = "key" /\ ~Presented(q[j], vk), vk \in h <=> b
       PROVE  Settles(r, g, vk, b)
  <2>1. m.type = "key" /\ m.code # vk_to_keycode(vk)
    BY <1>1, <1>2, <1>10 DEF Presented
  <2> QED BY <1>4, <1>8, <1>10, <2>1
<1> QED BY <1>9, <1>10 DEF Settles, r

(* How a queue's entries come from those it had *)
LEMMA QueueSteps ==
  ASSUME NEW S, NEW q \in Seq(S)
  PROVE  /\ \A e \in S : /\ Append(q, e)[Len(q) + 1] = e
                         /\ \A i \in DOMAIN Append(q, e) :
                              \/ i \in DOMAIN q /\ Append(q, e)[i] = q[i] /\ i < Len(q) + 1
                              \/ i = Len(q) + 1
         /\ q # <<>> => /\ 1 \in DOMAIN q /\ Head(q) = q[1]
                        /\ \A i \in DOMAIN Tail(q) : i + 1 \in DOMAIN q /\ Tail(q)[i] = q[i + 1]
                        /\ \A i \in DOMAIN Tail(q) : i \in Nat \ {0}
<1>1. ASSUME NEW e \in S
      PROVE  /\ Append(q, e)[Len(q) + 1] = e
             /\ \A i \in DOMAIN Append(q, e) :
                  \/ i \in DOMAIN q /\ Append(q, e)[i] = q[i] /\ i < Len(q) + 1
                  \/ i = Len(q) + 1
  BY AppendProperties
<1>2. ASSUME q # <<>>
      PROVE  /\ 1 \in DOMAIN q /\ Head(q) = q[1]
             /\ \A i \in DOMAIN Tail(q) : i + 1 \in DOMAIN q /\ Tail(q)[i] = q[i + 1]
             /\ \A i \in DOMAIN Tail(q) : i \in Nat \ {0}
  BY <1>2
<1> QED BY <1>1, <1>2

LEMMA TurnsStep ==
  ASSUME TypeOK, TakesTurns, [Next]_vars
  PROVE  TakesTurns'
<1> USE DEF TakesTurns
<1>1. CASE User \/ MoveToEdge \/ DrainKey \/ DrainMove \/ Inject \/ Lose \/ UNCHANGED vars
  <2>1. UNCHANGED <<task, capturing, remote, since>>
    BY <1>1 DEF User, Press, Release, MoveToEdge, DrainKey, DrainMove, Inject, Lose, session, vars
  <2> QED BY <2>1, Zenon
<1>2. CASE Emergency
  <2>1. task = "recv" /\ capturing' = capturing /\ since' = since /\ remote' = FALSE
        /\ (remote => task' = "sync") /\ (~remote => task' = "recv")
    BY <1>2 DEF Emergency, Received
  <2> QED BY <2>1, Zenon DEF TypeOK
<1>3. CASE SendSync
  BY <1>3 DEF SendSync
<1>4. CASE SetCapturing
  <2>1. task' = "recv" /\ remote' = remote /\ (capturing' <=> task = "capture")
        /\ task \in {"capture", "uncapture"}
    BY <1>4 DEF SetCapturing
  <2> QED BY <2>1, Zenon
<1>5. CASE Cross
  <2>1. task = "recv" /\ capturing' = capturing
    BY <1>5 DEF Cross, Received
  <2>2. CASE ~remote /\ connected
    <3>1. task' = "capture" /\ remote' = TRUE /\ since' = {}
      BY <1>5, <2>2 DEF Cross
    <3> QED BY <2>1, <2>2, <3>1, Zenon
  <2>3. CASE ~(~remote /\ connected)
    <3>1. UNCHANGED <<remote, task, since>>
      BY <1>5, <2>3 DEF Cross
    <3> QED BY <2>1, <3>1, Zenon
  <2> QED BY <2>2, <2>3
<1>6. CASE ForwardKey
  <2>1. task = "recv" /\ UNCHANGED <<task, capturing, remote>>
    BY <1>6 DEF ForwardKey, Received
  <2> QED BY <2>1, Zenon
<1> QED
  BY <1>1, <1>2, <1>3, <1>4, <1>5, <1>6 DEF Next, Server

LEMMA CaughtStep ==
  ASSUME TypeOK, TakesTurns, NoneCaught, [Next]_vars
  PROVE  NoneCaught'
<1>0. events \in Seq(KeyEvents)
  BY DEF TypeOK
<1>1. CASE UNCHANGED <<events, behind, task>>
  BY <1>1 DEF NoneCaught
<1>2. ASSUME task' # "capture" PROVE NoneCaught'
  BY <1>2 DEF NoneCaught
<1>3. CASE DrainKey
  <2>1. UNCHANGED <<behind, task>>
    BY <1>3 DEF DrainKey, session
  <2>2. CASE capturing
    <3>1. task # "capture"
      BY <2>2 DEF TakesTurns
    <3> QED BY <1>2, <2>1, <3>1
  <2>3. CASE ~capturing
    <3>1. events' = events
      BY <1>3, <2>3, Zenon DEF DrainKey
    <3> QED BY <1>1, <2>1, <3>1
  <2> QED BY <2>2, <2>3
<1>4. CASE DrainMove
  <2> DEFINE e == [kind |-> "move"]
  <2>1. e \in KeyEvents /\ e.kind = "move" /\ events' = Append(events, e) /\ UNCHANGED <<behind, task>>
    BY <1>4 DEF DrainMove, KeyEvents, session
  <2> HIDE DEF e
  <2>2. \A i \in DOMAIN events' : (i \in DOMAIN events /\ events'[i] = events[i]) \/ events'[i] = e
    BY <1>0, <2>1, QueueSteps
  <2> QED BY <2>1, <2>2 DEF NoneCaught
<1>5. CASE Cross
  <2>1. events' \in Seq(KeyEvents)
    BY <1>0, <1>5 DEF Cross, Received
  <2>2. CASE ~remote /\ connected
    <3>1. behind' = Len(events')
      BY <1>5, <2>2 DEF Cross
    <3> QED BY <2>1, <3>1 DEF NoneCaught
  <2>3. CASE ~(~remote /\ connected)
    <3>1. task = "recv" /\ task' = task
      BY <1>5, <2>3 DEF Cross, Received
    <3> QED BY <1>2, <3>1
  <2> QED BY <2>2, <2>3
<1>6. CASE Emergency \/ SendSync \/ SetCapturing \/ ForwardKey
  <2>1. task' # "capture"
    BY <1>6 DEF Emergency, SendSync, SetCapturing, ForwardKey, Received
  <2> QED BY <1>2, <2>1
<1>7. CASE User \/ MoveToEdge \/ Inject \/ Lose \/ UNCHANGED vars
  BY <1>1, <1>7 DEF User, Press, Release, MoveToEdge, Inject, Lose, session, vars
<1> QED
  BY <1>3, <1>4, <1>5, <1>6, <1>7 DEF Next, Server

LEMMA NamedStep ==
  ASSUME TypeOK, Named, [Next]_vars
  PROVE  Named'
<1>0. raw \in Seq(RawEvents) /\ events \in Seq(KeyEvents) /\ net \in Seq(Messages)
  BY DEF TypeOK
<1> DEFINE E(q) == \A i \in DOMAIN q : q[i].kind = "key" => q[i].code = vk_to_keycode(q[i].vk)
           M(q) == \A i \in DOMAIN q : q[i].type = "key" => \E vk \in Keys : q[i].code = vk_to_keycode(vk)
<1>1. E(events) /\ M(net) /\ (E(events') /\ M(net') => Named')
  BY DEF Named
<1>2. ASSUME events # <<>>, events' = Tail(events) PROVE E(events')
  <2>1. \A i \in DOMAIN events' : i + 1 \in DOMAIN events /\ events'[i] = events[i + 1]
    BY <1>0, <1>2, QueueSteps
  <2> QED BY <1>1, <2>1
<1>3. ASSUME NEW e \in KeyEvents, events' = Append(events, e), e.kind = "key" => e.code = vk_to_keycode(e.vk)
      PROVE  E(events')
  <2>1. \A i \in DOMAIN events' : (i \in DOMAIN events /\ events'[i] = events[i]) \/ events'[i] = e
    BY <1>0, <1>3, QueueSteps
  <2> QED BY <1>1, <1>3, <2>1
<1>4. ASSUME NEW m \in Messages, Sends(m), m.type = "key" => \E vk \in Keys : m.code = vk_to_keycode(vk)
      PROVE  M(net')
  <2>1. CASE net' = net
    BY <1>1, <2>1
  <2>2. CASE net' = Append(net, m)
    <3>1. \A i \in DOMAIN net' : (i \in DOMAIN net /\ net'[i] = net[i]) \/ net'[i] = m
      BY <1>0, <2>2, QueueSteps
    <3> QED BY <1>1, <1>4, <3>1
  <2> QED BY <1>4, <2>1, <2>2 DEF Sends
<1> HIDE DEF E, M
<1>5. CASE UNCHANGED <<events, net>>
  BY <1>1, <1>5
<1>6. CASE User \/ MoveToEdge \/ SetCapturing \/ UNCHANGED vars
  BY <1>5, <1>6 DEF User, Press, Release, MoveToEdge, SetCapturing, client, vars
<1>7. CASE DrainKey
  <2>1. net' = net
    BY <1>7 DEF DrainKey, client
  <2>2. CASE events' = events
    BY <1>1, <2>1, <2>2
  <2>3. CASE events' # events
    <3> DEFINE e == [kind |-> "key", code |-> vk_to_keycode(Head(raw).vk), vk |-> Head(raw).vk,
                     down |-> Head(raw).down, mods |-> mods']
    <3>1. events' = Append(events, e)
      BY <1>7, <2>3, Zenon DEF DrainKey
    <3>2. e \in KeyEvents /\ e.code = vk_to_keycode(e.vk)
      <4>1. Head(raw) \in RawEvents /\ Head(raw).kind = "key"
        BY <1>0, <1>7 DEF DrainKey
      <4>2. Head(raw).vk \in Keys /\ Head(raw).down \in BOOLEAN
        BY <4>1 DEF RawEvents
      <4>3. vk_to_keycode(Head(raw).vk) \in KeyCode
        BY <4>2, CodeType, KeyPathAssumption
      <4>4. mods' \subseteq Flags
        BY TypeStep DEF TypeOK
      <4> QED BY <4>2, <4>3, <4>4 DEF KeyEvents
    <3> HIDE DEF e
    <3> QED BY <1>1, <1>3, <2>1, <3>1, <3>2
  <2> QED BY <2>2, <2>3
<1>8. CASE DrainMove
  <2> DEFINE e == [kind |-> "move"]
  <2>1. e \in KeyEvents /\ e.kind # "key" /\ events' = Append(events, e) /\ net' = net
    BY <1>8 DEF DrainMove, KeyEvents, client
  <2> HIDE DEF e
  <2> QED BY <1>1, <1>3, <2>1
<1>9. CASE Emergency
  <2>1. E(events')
    BY <1>2, <1>9 DEF Emergency, Received
  <2> DEFINE m == [type |-> "leave"]
  <2>2. m \in Messages /\ m.type # "key" /\ (Sends(m) \/ net' = net)
    BY <1>9 DEF Emergency, Messages
  <2> HIDE DEF m
  <2> QED BY <1>1, <1>4, <2>1, <2>2
<1>10. CASE SendSync
  <2> DEFINE m == [type |-> "sync", mods |-> {}]
  <2>1. m \in Messages /\ m.type # "key" /\ Sends(m) /\ events' = events
    BY <1>10 DEF SendSync, Messages
  <2> HIDE DEF m
  <2> QED BY <1>1, <1>4, <2>1
<1>11. CASE Cross
  <2>1. E(events')
    BY <1>2, <1>11 DEF Cross, Received
  <2> DEFINE m == [type |-> "enter", mods |-> edgeMods]
  <2>2. m \in Messages /\ m.type # "key" /\ (Sends(m) \/ net' = net)
    BY <1>11 DEF Cross, Messages, TypeOK
  <2> HIDE DEF m
  <2> QED BY <1>1, <1>4, <2>1, <2>2
<1>12. CASE ForwardKey
  <2>1. E(events')
    BY <1>2, <1>12 DEF ForwardKey, Received
  <2>2. Event \in KeyEvents /\ Event.kind = "key" /\ 1 \in DOMAIN events /\ Event = events[1]
    BY <1>0, <1>12, QueueSteps DEF ForwardKey, Received, Event
  <2>3. Event.code = vk_to_keycode(Event.vk) /\ Event.vk \in Keys
    BY <2>2 DEF Named, KeyEvents
  <2> DEFINE m == [type |-> "key", code |-> Event.code, down |-> Event.down]
  <2>4. m \in Messages /\ m.code = Event.code /\ (Sends(m) \/ net' = net)
    BY <1>12, <2>2 DEF ForwardKey, Messages, KeyEvents
  <2> HIDE DEF m
  <2> QED BY <1>1, <1>4, <2>1, <2>3, <2>4
<1>13. CASE Inject
  <2>1. events' = events /\ \A i \in DOMAIN net' : i + 1 \in DOMAIN net /\ net'[i] = net[i + 1]
    BY <1>0, <1>13, QueueSteps DEF Inject
  <2>2. M(net')
    BY <1>1, <2>1 DEF M
  <2> QED BY <1>1, <2>1, <2>2
<1>14. CASE Lose
  <2>1. events' = events /\ net' = <<>>
    BY <1>14 DEF Lose
  <2>2. M(net')
    BY <2>1 DEF M
  <2> QED BY <1>1, <2>1, <2>2
<1> QED
  BY <1>6, <1>7, <1>8, <1>9, <1>10, <1>11, <1>12, <1>13, <1>14 DEF Next, Server

LEMMA FollowsStep ==
  ASSUME ClientPlatform = "windows", TypeOK, TakesTurns, NoneCaught, Named,
         NEW vk \in Keys, Follows(vk), [Next]_vars
  PROVE  Follows(vk)'
<1>0. raw \in Seq(RawEvents) /\ events \in Seq(KeyEvents) /\ net \in Seq(Messages) /\ remote \in BOOLEAN
  BY DEF TypeOK
<1> DEFINE B == Truth(vk)
           Waits(s, ev, b) == vk \in s \/ \E j \in DOMAIN ev : j > b /\ About(ev[j], vk)
<1>1. /\ NewestSays(raw, vk, B)
      /\ remote /\ Waits(since \ early, events, behind) /\ Silent(raw, vk) => NewestSays(events, vk, B)
      /\ remote /\ connected /\ vk \in (since \ early) \cap Mapped /\ Silent(raw, vk) /\ Silent(events, vk)
           => Settles(net, held, vk, B)
  BY Zenon DEF Follows, Caught
<1>2. ASSUME /\ NewestSays(raw', vk, B')
             /\ remote' /\ Waits(since' \ early', events', behind') /\ Silent(raw', vk) => NewestSays(events', vk, B')
             /\ remote' /\ connected' /\ vk \in (since' \ early') \cap Mapped /\ Silent(raw', vk) /\ Silent(events', vk)
                  => Settles(net', held', vk, B')
      PROVE  Follows(vk)'
  BY <1>2, Zenon DEF Follows, Caught
<1>3. ASSUME down' = down PROVE B' = B
  BY <1>3 DEF Truth
<1> HIDE DEF B
<1>4. CASE UNCHANGED <<raw, events, down, remote, connected, since, early, behind, net, held>>
  <2>1. B' = B
    BY <1>3, <1>4
  <2> QED BY <1>1, <1>2, <1>4, <2>1, Zenon
<1>5. ASSUME ~remote', NewestSays(raw', vk, B') PROVE Follows(vk)'
  BY <1>2, <1>5, Zenon
<1>22. ASSUME down' = down, UNCHANGED <<remote, connected, since, early, net, held>>,
              NewestSays(raw', vk, B), Silent(raw', vk) <=> Silent(raw, vk),
              NewestSays(events, vk, B) => NewestSays(events', vk, B),
              Silent(events', vk) <=> Silent(events, vk),
              Waits(since \ early, events', behind') => Waits(since \ early, events, behind)
       PROVE  Follows(vk)'
  <2> HIDE DEF Waits
  <2>1. B' = B
    BY <1>3, <1>22
  <2>2. NewestSays(raw', vk, B') /\ (NewestSays(events, vk, B) => NewestSays(events', vk, B'))
    BY <1>22, <2>1
  <2>3. remote' /\ Waits(since' \ early', events', behind') /\ Silent(raw', vk)
          => NewestSays(events', vk, B')
    BY <1>1, <1>22, <2>2, Zenon
  <2>4. remote' /\ connected' /\ vk \in (since' \ early') \cap Mapped /\ Silent(raw', vk)
          /\ Silent(events', vk) => Settles(net', held', vk, B')
    BY <1>1, <1>22, <2>1, Zenon
  <2> QED BY <1>2, <2>2, <2>3, <2>4, Zenon
<1>6. ASSUME raw # <<>>, raw' = Tail(raw), down' = down
      PROVE  /\ B' = B /\ NewestSays(raw', vk, B')
             /\ Silent(raw, vk) <=> Silent(raw', vk) /\ ~About(Head(raw), vk)
             /\ Silent(raw', vk) /\ About(Head(raw), vk) => Head(raw).down = B
             /\ Head(raw) \in RawEvents
  <2>1. B' = B
    BY <1>3, <1>6
  <2> QED BY <1>0, <1>1, <1>6, <2>1, NewestTail
<1>7. ASSUME NEW k \in Keys, NEW d \in BOOLEAN, Hook(k, d),
             down' = IF d THEN down \cup {k} ELSE down \ {k}, UNCHANGED <<events, session, client>>
      PROVE  Follows(vk)'
  <2> DEFINE e == [kind |-> "key", vk |-> k, down |-> d]
  <2>1. e \in RawEvents /\ e.kind = "key" /\ e.vk = k /\ e.down = d /\ raw' = Append(raw, e)
    BY <1>7 DEF RawEvents, Hook
  <2>2. /\ UNCHANGED <<events, remote, connected, since, early, behind, net, held>>
    BY <1>7 DEF session, client
  <2> HIDE DEF e
  <2>3. CASE k = vk
    <3>1. B' = d
      BY <1>7, <2>3 DEF B, Truth
    <3>2. NewestSays(raw', vk, d) /\ ~Silent(raw', vk)
      BY <1>0, <2>1, <2>3, NewestAppend DEF About
    <3>3. NewestSays(raw', vk, B')
      BY <3>1, <3>2
    <3> QED BY <1>2, <3>2, <3>3, Zenon
  <2>4. CASE k # vk
    <3>1. B' = B
      BY <1>7, <2>4 DEF B, Truth
    <3>2. NewestSays(raw', vk, B) /\ (Silent(raw', vk) <=> Silent(raw, vk))
      BY <1>0, <1>1, <2>1, <2>4, NewestAppend DEF About
    <3>3. NewestSays(raw', vk, B')
      BY <3>1, <3>2
    <3> QED BY <1>1, <1>2, <2>2, <3>1, <3>2, <3>3, Zenon
  <2> QED BY <2>3, <2>4
<1>8. CASE User
  BY <1>7, <1>8 DEF User, Press, Release
<1>9. CASE MoveToEdge
  <2> DEFINE e == [kind |-> "move"]
  <2>1. e \in RawEvents /\ ~About(e, vk) /\ raw' = Append(raw, e)
    BY <1>9 DEF MoveToEdge, RawEvents, About
  <2>2. UNCHANGED <<down, events, remote, connected, since, early, behind, net, held>>
    BY <1>9 DEF MoveToEdge, keyboard, session, client
  <2> HIDE DEF e
  <2>3. NewestSays(raw', vk, B) /\ (Silent(raw', vk) <=> Silent(raw, vk))
    BY <1>0, <1>1, <2>1, NewestAppend
  <2> QED BY <1>22, <2>2, <2>3
<1>10. CASE DrainKey
  <2>1. /\ raw # <<>> /\ raw' = Tail(raw) /\ down' = down /\ Head(raw).kind = "key"
        /\ UNCHANGED <<remote, connected, since, early, behind, net, held>>
    BY <1>10 DEF DrainKey, keyboard, session, client
  <2>2. CASE capturing
    <3> DEFINE e == [kind |-> "key", code |-> vk_to_keycode(Head(raw).vk), vk |-> Head(raw).vk,
                     down |-> Head(raw).down, mods |-> mods']
    <3>1. events' = Append(events, e)
      BY <1>10, <2>2, Zenon DEF DrainKey
    <3>2. Head(raw).vk \in Keys /\ Head(raw).down \in BOOLEAN
      BY <1>6, <2>1 DEF RawEvents
    <3>4. e \in KeyEvents /\ e.kind = "key" /\ e.vk = Head(raw).vk /\ e.down = Head(raw).down
      <4>1. vk_to_keycode(Head(raw).vk) \in KeyCode
        BY <3>2, CodeType, KeyPathAssumption
      <4>2. mods' \subseteq Flags
        BY TypeStep DEF TypeOK
      <4> QED BY <3>2, <4>1, <4>2 DEF KeyEvents
    <3> HIDE DEF e
    <3>5. CASE e.vk = vk
      <4>1. About(e, vk) /\ About(Head(raw), vk)
        BY <2>1, <3>4, <3>5 DEF About
      <4>2. Silent(raw', vk) => NewestSays(events', vk, B')
        BY <1>0, <1>6, <2>1, <3>1, <3>4, <4>1, NewestAppend
      <4>3. ~Silent(events', vk)
        BY <1>0, <3>1, <3>4, <4>1, NewestAppend
      <4> QED BY <1>2, <1>6, <2>1, <4>2, <4>3, Zenon
    <3>6. CASE e.vk # vk
      <4>1. ~About(e, vk) /\ ~About(Head(raw), vk)
        BY <3>4, <3>6 DEF About
      <4>2. Silent(raw', vk) <=> Silent(raw, vk)
        BY <1>6, <2>1, <4>1
      <4>3. /\ Silent(events', vk) <=> Silent(events, vk)
            /\ NewestSays(events, vk, B) => NewestSays(events', vk, B)
        BY <1>0, <3>1, <3>4, <4>1, NewestAppend
      <4>4. Waits(since \ early, events', behind) => Waits(since \ early, events, behind)
        <5>1. \A i \in DOMAIN events' : (i \in DOMAIN events /\ events'[i] = events[i]) \/ events'[i] = e
          BY <1>0, <3>1, <3>4, QueueSteps
        <5> QED BY <4>1, <5>1
      <4>5. NewestSays(raw', vk, B)
        BY <1>6, <2>1
      <4> HIDE DEF Waits
      <4> QED BY <1>22, <2>1, <4>2, <4>3, <4>4, <4>5
    <3> QED BY <3>5, <3>6
  <2>3. CASE ~capturing
    <3>1. events' = events
      BY <1>10, <2>3, Zenon DEF DrainKey
    <3>2. remote => task = "capture"
      <4>1. task \in {"recv", "sync", "uncapture", "capture"}
        BY DEF TypeOK
      <4> QED BY <2>3, <4>1, Zenon DEF TakesTurns
    <3>3. remote => since = {} /\ \A j \in DOMAIN events : ~(j > behind /\ About(events[j], vk))
      BY <3>2 DEF TakesTurns, NoneCaught, About
    <3>4. remote' => ~Waits(since' \ early', events', behind') /\ vk \notin since' \ early'
      BY <2>1, <3>1, <3>3
    <3> HIDE DEF Waits
    <3>5. NewestSays(raw', vk, B')
      BY <1>6, <2>1
    <3>6. vk \in (since' \ early') \cap Mapped => vk \in since' \ early'
      OBVIOUS
    <3> QED BY <1>2, <3>4, <3>5, <3>6, Zenon
  <2> QED BY <2>2, <2>3
<1>11. CASE DrainMove
  <2> DEFINE e == [kind |-> "move"]
  <2>1. raw # <<>> /\ raw' = Tail(raw) /\ down' = down /\ Head(raw).kind = "move"
    BY <1>11 DEF DrainMove, keyboard
  <2>2. UNCHANGED <<remote, connected, since, early, behind, net, held>>
    BY <1>11 DEF DrainMove, session, client
  <2>3. e \in KeyEvents /\ ~About(e, vk) /\ ~About(Head(raw), vk) /\ events' = Append(events, e)
    BY <1>11, <2>1 DEF DrainMove, KeyEvents, About
  <2> HIDE DEF e
  <2>4. NewestSays(raw', vk, B) /\ (Silent(raw', vk) <=> Silent(raw, vk))
    BY <1>6, <2>1, <2>3
  <2>5. /\ Silent(events', vk) <=> Silent(events, vk)
        /\ NewestSays(events, vk, B) => NewestSays(events', vk, B)
    BY <1>0, <2>3, NewestAppend
  <2>6. Waits(since \ early, events', behind) => Waits(since \ early, events, behind)
    <3>1. \A i \in DOMAIN events' : (i \in DOMAIN events /\ events'[i] = events[i]) \/ events'[i] = e
      BY <1>0, <2>3, QueueSteps
    <3> QED BY <2>3, <3>1
  <2> HIDE DEF Waits
  <2> QED BY <1>22, <2>1, <2>2, <2>4, <2>5, <2>6
<1>12. ASSUME raw' = raw, down' = down PROVE NewestSays(raw', vk, B')
  BY <1>1, <1>3, <1>12
<1>13. CASE Emergency
  <2>1. remote' = FALSE /\ raw' = raw /\ down' = down
    BY <1>13 DEF Emergency, keyboard
  <2> QED BY <1>5, <1>12, <2>1
<1>14. CASE SendSync
  <2>1. task = "sync" /\ remote' = remote /\ raw' = raw /\ down' = down
    BY <1>14 DEF SendSync, keyboard
  <2>2. ~remote
    BY <2>1 DEF TakesTurns
  <2> QED BY <1>5, <1>12, <2>1, <2>2
<1>15. CASE SetCapturing
  BY <1>4, <1>15 DEF SetCapturing, keyboard, client
<1>16. ASSUME Received
       PROVE  /\ events # <<>> /\ events' = Tail(events) /\ Event \in KeyEvents
              /\ 1 \in DOMAIN events /\ Event = events[1] /\ Event = Head(events)
              /\ \A j \in DOMAIN events' : j \in Nat \ {0} /\ j + 1 \in DOMAIN events /\ events'[j] = events[j + 1]
  BY <1>0, <1>16, QueueSteps DEF Received, Event
<1>23. ASSUME Received, behind' = OneLess
       PROVE  \A j \in DOMAIN events' : j > behind' => j + 1 > behind
  BY <1>0, <1>16, <1>23 DEF OneLess, TypeOK
<1>17. CASE Cross
  <2>1. Received /\ Event.kind = "move" /\ raw' = raw /\ down' = down
    BY <1>17 DEF Cross, keyboard
  <2>2. CASE ~remote /\ connected
    <3>1. since' = {} /\ early' = {} /\ behind' = Len(events')
      BY <1>17, <2>2 DEF Cross
    <3>2. events' \in Seq(KeyEvents)
      BY <1>0, <1>16, <2>1
    <3>3. ~Waits(since' \ early', events', behind') /\ vk \notin (since' \ early') \cap Mapped
      BY <3>1, <3>2
    <3> HIDE DEF Waits
    <3> QED BY <1>2, <1>12, <2>1, <3>3, Zenon
  <2>3. CASE ~(~remote /\ connected)
    <3>1. behind' = OneLess /\ UNCHANGED <<remote, connected, since, early, net, held>>
      BY <1>17, <2>3 DEF Cross
    <3>2. events # <<>> /\ events' = Tail(events) /\ ~About(Head(events), vk)
      BY <1>16, <2>1 DEF About
    <3>3. /\ NewestSays(events, vk, B) => NewestSays(events', vk, B)
          /\ Silent(events', vk) <=> Silent(events, vk)
      BY <1>0, <3>2, NewestTail
    <3>4. Waits(since \ early, events', behind') => Waits(since \ early, events, behind)
      BY <1>16, <1>23, <2>1, <3>1
    <3> HIDE DEF Waits
    <3>5. NewestSays(raw', vk, B)
      BY <1>1, <2>1
    <3> QED BY <1>22, <2>1, <3>1, <3>3, <3>4, <3>5
  <2> QED BY <2>2, <2>3
<1>18. CASE ForwardKey
  <2>1. Received /\ Event.kind = "key" /\ behind' = OneLess
        /\ UNCHANGED <<raw, down, remote, connected, held>>
    BY <1>18 DEF ForwardKey, keyboard
  <2>2. CASE ~remote
    BY <1>5, <1>12, <2>1, <2>2
  <2>3. CASE remote
    <3> DEFINE m == [type |-> "key", code |-> Event.code, down |-> Event.down]
    <3>1. /\ Sends(m)
          /\ IF Event.down
             THEN /\ since' = since \cup {Event.vk}
                  /\ early' = IF behind = 0 THEN early \ {Event.vk} ELSE early \cup {Event.vk}
             ELSE UNCHANGED <<since, early>>
      BY <1>18, <2>3, Zenon DEF ForwardKey
    <3>2. m \in Messages /\ m.type = "key" /\ m.code = Event.code /\ m.down = Event.down
      BY <1>16, <2>1 DEF Messages, KeyEvents
    <3>3. Event.code = vk_to_keycode(Event.vk) /\ Event.vk \in Keys /\ (About(Event, vk) <=> Event.vk = vk)
      BY <1>16, <2>1 DEF Named, KeyEvents, About
    <3> HIDE DEF m
    <3>4. Waits(since' \ early', events', behind') => Waits(since \ early, events, behind)
      <4>1. ASSUME vk \in since' \ early', vk \notin since \ early PROVE About(Event, vk) /\ 1 > behind
        BY <2>1, <3>1, <3>3, <4>1
      <4> QED BY <1>16, <1>23, <2>1, <4>1
    <3>5. vk \in since' \ early' => vk \in since \ early \/ Event.vk = vk
      BY <3>1
    <3>6. /\ NewestSays(events, vk, B) => NewestSays(events', vk, B)
          /\ Silent(events, vk) <=> Silent(events', vk) /\ ~About(Event, vk)
          /\ NewestSays(events, vk, B) /\ Silent(events', vk) /\ About(Event, vk) => Event.down = B
      <4>1. events # <<>> /\ events' = Tail(events) /\ Event = Head(events)
        BY <1>16, <2>1
      <4>2. /\ NewestSays(events, vk, B) => NewestSays(Tail(events), vk, B)
            /\ Silent(events, vk) <=> Silent(Tail(events), vk) /\ ~About(Head(events), vk)
            /\ NewestSays(events, vk, B) /\ Silent(Tail(events), vk) /\ About(Head(events), vk)
                 => Head(events).down = B
        BY <1>0, <4>1, NewestTail
      <4> QED BY <4>1, <4>2, Zenon
    <3>7. vk \in since' \ early' => Waits(since' \ early', events', behind')
      OBVIOUS
    <3> HIDE DEF Waits
    <3>8. B' = B
      BY <1>3, <2>1
    <3>9. remote' /\ Waits(since' \ early', events', behind') /\ Silent(raw', vk) => NewestSays(events', vk, B')
      BY <1>1, <2>1, <3>4, <3>6, <3>8, Zenon
    <3>10. ASSUME connected', vk \in (since' \ early') \cap Mapped, Silent(raw', vk), Silent(events', vk)
           PROVE  Settles(net', held', vk, B')
      <4>1. net' = Append(net, m) /\ connected /\ held' = held /\ Silent(raw, vk)
        BY <2>1, <3>1, <3>10, Zenon DEF Sends
      <4>2. NewestSays(events, vk, B)
        <5>1. vk \in since' \ early'
          BY <3>10
        <5> QED BY <1>1, <2>3, <3>4, <3>7, <4>1, <5>1, Zenon
      <4>3. CASE Event.vk = vk
        <5>1. Presented(m, vk) /\ m.down = B
          BY <3>2, <3>3, <3>6, <3>10, <4>2, <4>3 DEF Presented
        <5>2. Settles(Append(net, m), held, vk, m.down)
          BY <1>0, <3>2, <5>1, SettlesAppend
        <5> QED BY <3>8, <4>1, <5>1, <5>2
      <4>4. CASE Event.vk # vk
        <5>1. ~Presented(m, vk)
          <6>1. vk_to_keycode(vk) # Unknown /\ vk \in Nat /\ Event.vk \in Nat
            BY <3>3, <3>10, KeyPathAssumption DEF Mapped
          <6>2. vk_to_keycode(Event.vk) # vk_to_keycode(vk)
            BY <4>4, <6>1, RoundTrip
          <6> QED BY <3>2, <3>3, <6>2 DEF Presented
        <5>2. Silent(events, vk) /\ vk \in (since \ early) \cap Mapped
          BY <3>3, <3>5, <3>6, <3>10, <4>4
        <5>3. Settles(net, held, vk, B)
          BY <1>1, <2>3, <4>1, <5>2, Zenon
        <5>4. Settles(Append(net, m), held, vk, B)
          BY <1>0, <3>2, <5>1, <5>3, SettlesAppend
        <5> QED BY <3>8, <4>1, <5>4
      <4> QED BY <4>3, <4>4
    <3> QED BY <1>2, <1>12, <2>1, <3>9, <3>10, Zenon
  <2> QED BY <2>2, <2>3
<1>19. CASE Inject
  <2>1. net # <<>> /\ net' = Tail(net) /\ UNCHANGED <<raw, down, events, remote, connected, since, early, behind>>
    BY <1>19 DEF Inject, keyboard, session
  <2>2. ASSUME vk \in Mapped, Settles(net, held, vk, B) PROVE Settles(net', held', vk, B)
    <3>1. ASSUME Head(net).type = "key"
          PROVE  /\ held' = Injected(held, Head(net).code, Head(net).down)
                 /\ \E k \in Keys : Head(net).code = vk_to_keycode(k)
      <4>1. 1 \in DOMAIN net /\ Head(net) = net[1]
        BY <1>0, <2>1, QueueSteps
      <4>2. \E k \in Keys : Head(net).code = vk_to_keycode(k)
        BY <3>1, <4>1 DEF Named
      <4>3. held' = Injected(held, Head(net).code, Head(net).down)
        BY <1>19, <3>1 DEF Inject
      <4> QED BY <4>2, <4>3
    <3> QED BY <1>0, <2>1, <2>2, <3>1, SettlesTail
  <2>3. B' = B
    BY <1>3, <2>1
  <2>4. vk \in (since \ early) \cap Mapped => vk \in Mapped
    OBVIOUS
  <2>5. remote' /\ connected' /\ vk \in (since' \ early') \cap Mapped /\ Silent(raw', vk) /\ Silent(events', vk)
          => Settles(net', held', vk, B')
    BY <1>1, <2>1, <2>2, <2>3, <2>4, Zenon
  <2> HIDE DEF Waits
  <2> QED BY <1>1, <1>2, <1>12, <2>1, <2>3, <2>5, Zenon
<1>20. CASE Lose
  <2>1. connected' = FALSE /\ UNCHANGED <<raw, down, events, remote, since, early, behind>>
    BY <1>20 DEF Lose, keyboard, session
  <2>2. B' = B
    BY <1>3, <2>1
  <2> HIDE DEF Waits
  <2> QED BY <1>1, <1>2, <1>12, <2>1, <2>2, Zenon
<1>21. CASE UNCHANGED vars
  BY <1>4, <1>21 DEF vars, keyboard, session, client
<1> QED
  BY <1>8, <1>9, <1>10, <1>11, <1>13, <1>14, <1>15, <1>17, <1>18, <1>19, <1>20, <1>21 DEF Next, Server

(* A key pressed on the far side of a crossing is down on a Windows client *)
(* when everything has been handed on if and only if the user holds it,    *)
(* whatever keys the keyboard has and however long the queues. On a Linux  *)
(* client it is not: see the finding.                                      *)
THEOREM FollowsKeyboardAlways ==
  ASSUME ClientPlatform = "windows"
  PROVE  Spec => []FollowsKeyboard
<1>1. Init => Following
  BY DEF Init, Following, TakesTurns, NoneCaught, Named, Follows, NewestSays
<1>2. TypeOK /\ Following /\ [Next]_vars => Following'
  BY TurnsStep, CaughtStep, NamedStep, FollowsStep DEF Following
<1>3. TypeOK /\ Following => FollowsKeyboard
  <2> SUFFICES ASSUME TypeOK, Following, Drained, remote, connected,
                      NEW vk \in (since \ early) \cap Mapped
               PROVE  NativeCode(vk) \in held <=> vk \in down
    BY DEF FollowsKeyboard
  <2>1. raw = <<>> /\ events = <<>> /\ net = <<>> /\ vk \in Keys /\ Follows(vk)
    BY DEF Drained, Following, Mapped
  <2>2. Silent(raw, vk) /\ Silent(events, vk)
    BY <2>1 DEF Silent
  <2>3. Settles(net, held, vk, Truth(vk))
    BY <2>1, <2>2, Zenon DEF Follows
  <2>4. vk \in held <=> vk \in down
    BY <2>1, <2>3 DEF Settles, Truth
  <2> QED BY <2>4 DEF NativeCode
<1> QED BY <1>1, <1>2, <1>3, TypeCorrect, PTL DEF Spec

=============================================================================
