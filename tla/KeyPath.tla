-------------------------------- MODULE KeyPath --------------------------------
(***************************************************************************)
(* One keyboard, two machines: from the keys the user holds on the server, *)
(* through the hook, the drain thread, drain_capture and the connection,   *)
(* to the keys the client's injector holds down. Left and right variants,  *)
(* the key tables and plain keys are told apart here; crossings and the    *)
(* connection are as coarse as that allows (InputRouting has them step by  *)
(* step). A queue that is full is not modelled as a loss here but as a     *)
(* bound; InputRouting has the losses.                                     *)
(***************************************************************************)
EXTENDS KeyMaps, FiniteSets

CONSTANTS
  Keys,            \* the virtual keys of the keyboard
  ClientPlatform,  \* "windows" or "linux"
  EvdevKey,        \* the code the Linux kernel gives a KeyCode
  MaxStrokes,      \* bound: key presses
  MaxQueue,        \* bound: entries of raw, messages of net
  MaxEvents        \* bound: entries of events

ASSUME KeyPathAssumption ==
  /\ Keys \subseteq Nat \ {0} /\ ClientPlatform \in {"windows", "linux"}
  /\ {MaxStrokes, MaxQueue, MaxEvents} \subseteq Nat

VARIABLES
  down,       \* keys the user holds
  local,      \* keys the server's own system takes to be held
  raw,        \* hook -> drain thread
  mods,       \* flags of the drain thread
  events,     \* drain thread -> drain_capture
  edgeMods,   \* EdgeDetector.modifiers
  remote,     \* the route
  task,       \* drain_capture: "recv", or in apply_decision
  capturing,  \* HOOK_CAPTURING
  connected,  \* the client is in the peer list
  net,        \* messages to the client
  held,       \* keys held by the client's injector, in its own codes
  since,      \* history: keys forwarded as pressed since the crossing...
  early,      \* ... of these the ones handed on before it, ...
  behind,     \* ... and how many entries of events were
  strokes

keyboard == <<down, local, strokes>>
session  == <<edgeMods, remote, task, capturing, since, early, behind>>
client   == <<connected, net, held>>
vars == <<keyboard, raw, mods, events, session, client>>

-----------------------------------------------------------------------------
(* Injection *)

PlatformCode(c) == IF ClientPlatform = "windows" THEN keycode_to_vk(c) ELSE hid_to_evdev(c)

(* What the client's system calls the key that the server calls vk. *)
NativeCode(vk) == IF ClientPlatform = "windows" THEN vk ELSE EvdevKey[vk_to_keycode(vk)]

(* An unmapped key is skipped. *)
Injected(h, c, isDown) ==
  CASE PlatformCode(c) = Unknown -> h
    [] PlatformCode(c) # Unknown /\ isDown  -> h \cup {PlatformCode(c)}
    [] PlatformCode(c) # Unknown /\ ~isDown -> h \ {PlatformCode(c)}

(* Mutant: the right-hand keys are not in the list. *)
ModifierCodesLeft ==
  IF ClientPlatform = "windows" THEN {160, 162, 164, 91}
  ELSE {evdev_code(c) : c \in {LeftCtrl, LeftShift, LeftAlt, LeftSuper}}

(* release_all_modifiers of the two injectors *)
ModifierCodes ==
  IF ClientPlatform = "windows" THEN {160, 161, 162, 163, 164, 165, 91, 92}
  ELSE {evdev_code(c) : c \in {LeftCtrl, RightCtrl, LeftShift, RightShift,
                               LeftAlt, RightAlt, LeftSuper, RightSuper}}

Resync == [SHIFT |-> LeftShift, CTRL |-> LeftCtrl, ALT |-> LeftAlt, SUPER |-> LeftSuper]

(* resync_modifiers: everything up, then the left key of every flag down *)
Resynced(h, flags) ==
  (h \ ModifierCodes) \cup {PlatformCode(Resync[f]) : f \in flags \cap DOMAIN Resync}

-----------------------------------------------------------------------------
Init ==
  /\ down = {} /\ local = {} /\ strokes = 0
  /\ raw = <<>> /\ mods = {} /\ events = <<>>
  /\ edgeMods = {} /\ remote = FALSE /\ task = "recv" /\ capturing = FALSE
  /\ since = {} /\ early = {} /\ behind = 0 /\ connected = TRUE /\ net = <<>> /\ held = {}

Room(q)    == Len(q) < MaxQueue
RoomBehind == Len(events) < MaxEvents

(* The keyboard hook: pushed to the drain thread, and withheld from the    *)
(* server's system while capturing, unless it is Escape.                   *)
VK_ESCAPE == 27

Hook(vk, isDown) ==
  /\ Room(raw)
  /\ raw' = Append(raw, [kind |-> "key", vk |-> vk, down |-> isDown])
  /\ local' = IF capturing /\ vk # VK_ESCAPE THEN local
              ELSE IF isDown THEN local \cup {vk} ELSE local \ {vk}

(* A press, or the repetition of one. What happens on the server once the  *)
(* client is gone is in InputRouting; there are no more strokes here.      *)
Press(vk) ==
  /\ connected /\ strokes < MaxStrokes /\ strokes' = strokes + 1
  /\ down' = down \cup {vk}
  /\ Hook(vk, TRUE)
  /\ UNCHANGED <<mods, events, session, client>>

Release(vk) ==
  /\ vk \in down /\ down' = down \ {vk}
  /\ Hook(vk, FALSE)
  /\ UNCHANGED <<strokes, mods, events, session, client>>

(* The mouse reaches the edge: always handed on. *)
MoveToEdge ==
  /\ Room(raw)
  /\ raw' = Append(raw, [kind |-> "move"])
  /\ UNCHANGED <<keyboard, mods, events, session, client>>

(* Mutant: a release of a right-hand key is not recognised. *)
UpdatedLeft(vk, isDown) ==
  CASE FlagOf(vk) = "none" \/ (~isDown /\ vk \in {161, 163, 165, 92}) -> mods
    [] FlagOf(vk) # "none" /\ isDown  -> mods \cup {FlagOf(vk)}
    [] FlagOf(vk) # "none" /\ ~isDown /\ vk \notin {161, 163, 165, 92} -> mods \ {FlagOf(vk)}

(* drain_thread_main *)
Updated(vk, isDown) ==
  CASE FlagOf(vk) = "none" -> mods
    [] FlagOf(vk) # "none" /\ isDown  -> mods \cup {FlagOf(vk)}
    [] FlagOf(vk) # "none" /\ ~isDown -> mods \ {FlagOf(vk)}

DrainKey ==
  /\ raw # <<>> /\ Head(raw).kind = "key"
  /\ raw' = Tail(raw)
  /\ mods' = Updated(Head(raw).vk, Head(raw).down)
  /\ \/ /\ capturing /\ RoomBehind
        /\ events' = Append(events, [kind |-> "key", code |-> vk_to_keycode(Head(raw).vk),
                                     vk |-> Head(raw).vk, down |-> Head(raw).down,
                                     mods |-> mods'])
     \/ ~capturing /\ UNCHANGED events
  /\ UNCHANGED <<keyboard, session, client>>

DrainMove ==
  /\ raw # <<>> /\ Head(raw).kind = "move" /\ RoomBehind
  /\ raw' = Tail(raw)
  /\ events' = Append(events, [kind |-> "move"])
  /\ UNCHANGED <<keyboard, mods, session, client>>

-----------------------------------------------------------------------------
(* drain_capture *)

Event == Head(events)

IsEmergency(e) ==
  e.kind = "key" /\ e.down /\ e.code = Escape /\ {"CTRL", "ALT", "SHIFT"} \subseteq e.mods

(* What a task sends while the client is in the peer list *)
Sends(m) ==
  IF connected THEN Room(net) /\ net' = Append(net, m) ELSE UNCHANGED net

Received ==
  task = "recv" /\ events # <<>> /\ events' = Tail(events)

OneLess == IF behind = 0 THEN 0 ELSE behind - 1

Emergency ==
  /\ Received /\ IsEmergency(Event)
  /\ remote' = FALSE /\ behind' = OneLess
  /\ IF remote THEN task' = "sync" /\ Sends([type |-> "leave"])
               ELSE UNCHANGED <<task, net>>
  /\ UNCHANGED <<keyboard, raw, mods, edgeMods, capturing, since, early, connected, held>>

SendSync ==
  /\ task = "sync" /\ task' = "uncapture"
  /\ Sends([type |-> "sync", mods |-> {}])
  /\ UNCHANGED <<keyboard, raw, mods, events, edgeMods, remote, capturing, since,
                 early, behind, connected, held>>

SetCapturing ==
  /\ task \in {"capture", "uncapture"} /\ task' = "recv"
  /\ capturing' = (task = "capture")
  /\ UNCHANGED <<keyboard, raw, mods, events, edgeMods, remote, since, early, behind,
                 client>>

(* The crossing, when a client is there to be crossed to *)
Cross ==
  /\ Received /\ Event.kind = "move"
  /\ IF ~remote /\ connected
     THEN /\ remote' = TRUE /\ task' = "capture"
          /\ since' = {} /\ early' = {} /\ behind' = Len(events')
          /\ Sends([type |-> "enter", mods |-> edgeMods])
     ELSE behind' = OneLess /\ UNCHANGED <<remote, task, since, early, net>>
  /\ UNCHANGED <<keyboard, raw, mods, edgeMods, capturing, connected, held>>

ForwardKey ==
  /\ Received /\ Event.kind = "key" /\ ~IsEmergency(Event)
  /\ edgeMods' = Event.mods /\ behind' = OneLess
  /\ IF remote
     THEN /\ Sends([type |-> "key", code |-> Event.code, down |-> Event.down])
          /\ IF Event.down
             THEN /\ since' = since \cup {Event.vk}
                  /\ early' = IF behind = 0 THEN early \ {Event.vk}
                              ELSE early \cup {Event.vk}
             ELSE UNCHANGED <<since, early>>
     ELSE UNCHANGED <<net, since, early>>
  /\ UNCHANGED <<keyboard, raw, mods, remote, task, capturing, connected, held>>

-----------------------------------------------------------------------------
(* inbound_loop of the client *)
Inject ==
  /\ net # <<>> /\ net' = Tail(net)
  /\ held' = LET m == Head(net) IN
       CASE m.type = "key"   -> Injected(held, m.code, m.down)
         [] m.type = "leave" -> held \ ModifierCodes
         [] m.type \in {"enter", "sync"} -> Resynced(held, m.mods)
  /\ UNCHANGED <<keyboard, raw, mods, events, session, connected>>

(* The connection is lost with everything in it; the injector is not told. *)
Lose ==
  /\ connected /\ connected' = FALSE /\ net' = <<>>
  /\ UNCHANGED <<keyboard, raw, mods, events, session, held>>

User    == \E vk \in Keys : Press(vk) \/ Release(vk)
Server  == DrainKey \/ DrainMove \/ Emergency \/ SendSync \/ SetCapturing \/ Cross \/ ForwardKey
Next    == User \/ MoveToEdge \/ Server \/ Inject \/ Lose

Spec == Init /\ [][Next]_vars

-----------------------------------------------------------------------------
Codes == 0..255

RawEvents == [kind : {"move"}] \cup [kind : {"key"}, vk : Keys, down : BOOLEAN]
KeyEvents == [kind : {"move"}] \cup [kind : {"key"}, code : KeyCode, vk : Keys, down : BOOLEAN,
                                     mods : SUBSET Flags]
Messages == [type : {"leave"}] \cup [type : {"enter", "sync"}, mods : SUBSET Flags]
              \cup [type : {"key"}, code : KeyCode, down : BOOLEAN]

(* Every variable has its type; no code but those of KeyCode travels. *)
TypeOK ==
  /\ down \subseteq Keys /\ local \subseteq Keys /\ strokes \in 0..MaxStrokes
  /\ raw \in Seq(RawEvents) /\ events \in Seq(KeyEvents) /\ net \in Seq(Messages)
  /\ mods \subseteq Flags /\ edgeMods \subseteq Flags
  /\ task \in {"recv", "sync", "uncapture", "capture"}
  /\ {remote, capturing, connected} \subseteq BOOLEAN
  /\ held \subseteq Codes /\ early \subseteq since /\ since \subseteq Keys
  /\ behind \in Nat

Drained == raw = <<>> /\ events = <<>> /\ net = <<>> /\ task = "recv"
Mapped  == {vk \in Keys : vk_to_keycode(vk) # Unknown}

(* Once everything has been handed on, a key pressed since the crossing is *)
(* down on the client if and only if the user holds it, and as that key:   *)
(* TESTING.md:278, "Type some text ... should appear". Said of the keys    *)
(* whose press was captured after the crossing, too: see FollowsEveryKey.  *)
FollowsKeyboard ==
  Drained /\ remote /\ connected =>
    \A vk \in (since \ early) \cap Mapped : NativeCode(vk) \in held <=> vk \in down

(* A client that was left holds no modifier, whichever side it was on:     *)
(* "Emergency hotkey releases".                                            *)
ModifiersReleased ==
  Drained /\ ~remote /\ connected => held \cap {PlatformCode(c) : c \in 224..231} = {}

(* The flags shipped at a crossing never name a modifier nobody holds, once *)
(* the drain thread is up to date.                                          *)
NoPhantomModifier ==
  raw = <<>> => \A f \in mods : \E vk \in down : FlagOf(vk) = f

-----------------------------------------------------------------------------
(* Statements the code does not keep. *)

(* A held modifier is shipped: fails when one of two Shift keys goes up. *)
HeldModifierShipped ==
  raw = <<>> => \A vk \in down : FlagOf(vk) # "none" => FlagOf(vk) \in mods

(* summary.md:95, "Shift held while crossing edges is released cleanly on  *)
(* the source machine": its release is withheld there.                     *)
SourceReleased == Drained /\ remote /\ capturing => \A vk \in local : FlagOf(vk) = "none"

(* A key held when the hotkey brings the input back is released. *)
KeysReleased == Drained /\ ~remote /\ connected => held = {}

(* A client whose connection is lost holds nothing. *)
LossReleases == ~connected => held = {}

(* TESTING.md:283, "keys go to the right machine, no stuck modifiers", of   *)
(* every key: fails for one that goes down behind a movement to the edge   *)
(* while the emergency hotkey is bringing the input back. The capture is   *)
(* still on then, and off when it goes up.                                 *)
FollowsEveryKey ==
  Drained /\ remote /\ connected =>
    \A vk \in since \cap Mapped : NativeCode(vk) \in held <=> vk \in down

(* TESTING.md:411, "Shift state correct on B": what the resync pressed goes up *)
(* again with the key.                                                         *)
ResyncedGoesUp == Drained /\ remote /\ connected /\ down = {} => held = {}
=============================================================================
