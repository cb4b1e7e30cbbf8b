---------------------------- MODULE ClipboardSync ----------------------------
(***************************************************************************)
(* The clipboards of two connected machines (daemon/src/clipboard_mgr.rs,  *)
(* clipboard/src/lib.rs).  Each machine polls its clipboard and advertises *)
(* what is new; the other one asks for the content and writes it to its    *)
(* own clipboard, where the poll loop will find it.  The hash of the last  *)
(* content seen and the registry of originators tell the two apart.        *)
(*                                                                         *)
(* A content stands for its bytes and for their blake3 hash, and has one   *)
(* format.  The poll loops and the inbound loop of a machine run in        *)
(* parallel; a step is the code between two locks or awaits.               *)
(***************************************************************************)
EXTENDS Integers, Sequences, FiniteSets

CONSTANTS
  None,
  Machines,    \* the server and the client
  Contents,    \* what users copy
  Format,      \* its format: Contents -> a ClipboardFormat
  Loops,       \* the poll loops of each daemon: Machines -> set; all but
               \* "live" were started by a server run that has been stopped
  Copiers,     \* the machines whose user copies
  Recopying,   \* whether they copy what some clipboard held before
  Patient,     \* whether users wait for the clipboards to settle
  OutCap,      \* capacity of a stream, outbound and inbound channel
  MaxCopies,   \* bounds for TLC
  MaxDrops

ASSUME ClipboardAssumption ==
  /\ IsFiniteSet(Machines) /\ Cardinality(Machines) = 2
  /\ None \notin Contents \cup Machines
  /\ DOMAIN Format = Contents
  /\ DOMAIN Loops = Machines /\ \A m \in Machines : "live" \in Loops[m]
  /\ Copiers \subseteq Machines
  /\ {Recopying, Patient} \subseteq BOOLEAN
  /\ OutCap \in Nat \ {0}
  /\ {MaxCopies, MaxDrops} \subseteq Nat

VARIABLES
  clip,       \* the OS clipboard of each machine, None while it is empty
  last_hash,  \* ClipboardManager.last_hash
  seen,       \* OriginatorRegistry.seen: content -> machine or None
  poll,       \* where each poll loop is, with the hash it read
  inbound,    \* the message each inbound loop is handling
  chan,       \* messages on their way from each machine
  link,       \* whether the connection is up
  copied,     \* history: what the user of each machine copied
  copies,     \* number of copies so far
  drops       \* number of connections lost so far

local == <<clip, last_hash, seen>>
vars == <<local, poll, inbound, chan, link, copied, copies, drops>>

Other(m) == CHOOSE n \in Machines : n # m

Idle == [at |-> "idle", hash |-> None]

Formats(c) == [type |-> "ClipboardFormats", format |-> Format[c], hash |-> c]
Request(f) == [type |-> "ClipboardRequest", format |-> f]
Data(c)    == [type |-> "ClipboardData", hash |-> c]

Message == {Formats(c) : c \in Contents} \cup {Data(c) : c \in Contents}
             \cup {Request(Format[c]) : c \in Contents}

Init ==
  /\ clip = [m \in Machines |-> None]
  /\ last_hash = [m \in Machines |-> None]
  /\ seen = [m \in Machines |-> [c \in Contents |-> None]]
  /\ poll = [m \in Machines |-> [l \in Loops[m] |-> Idle]]
  /\ inbound = [m \in Machines |-> None]
  /\ chan = [m \in Machines |-> <<>>]
  /\ link = TRUE
  /\ copied = [m \in Machines |-> {}]
  /\ copies = 0
  /\ drops = 0

(* OriginatorRegistry::record *)
Record(m, c, who) == seen' = [seen EXCEPT ![m][c] = who]

-----------------------------------------------------------------------------
(* Sending: send(..).await waits for room, and fails at once, unnoticed,   *)
(* once the connection is gone.                                            *)

(* Mutant: the stream takes any number of messages. *)
CanSendAlways(m) == TRUE

CanSend(m) == link => Len(chan[m]) < OutCap

Sent(m, msg) == IF link THEN [chan EXCEPT ![m] = Append(@, msg)] ELSE chan

-----------------------------------------------------------------------------
(* The poll loop, once a second *)

(* Read whatever content the clipboard has; an empty one is not looked at. *)
PollRead(m, l) ==
  /\ poll[m][l] = Idle
  /\ clip[m] # None
  /\ poll' = [poll EXCEPT ![m][l] = [at |-> "compare", hash |-> clip[m]]]
  /\ UNCHANGED <<local, inbound, chan, link, copied, copies, drops>>

At(m, l, step) == poll[m][l].at = step

(* Unchanged since the last poll, or since a peer's content was written. *)
PollCompare(m, l) ==
  /\ At(m, l, "compare")
  /\ poll' = [poll EXCEPT ![m][l] = IF last_hash[m] = @.hash THEN Idle
                                    ELSE [@ EXCEPT !.at = "lookup"]]
  /\ UNCHANGED <<local, inbound, chan, link, copied, copies, drops>>

(* Mutant: only contents advertised from here are known. *)
KnownHere(m, c) == seen[m][c] = m

(* The content has an originator: it came from a peer, or was advertised   *)
(* from here before.                                                       *)
Known(m, c) == seen[m][c] # None

PollLookup(m, l) ==
  /\ At(m, l, "lookup")
  /\ LET c == poll[m][l].hash
     IN  /\ poll' = [poll EXCEPT ![m][l] =
                       IF Known(m, c) THEN Idle ELSE [@ EXCEPT !.at = "mark"]]
         /\ last_hash' = IF Known(m, c) /\ seen[m][c] # m
                         THEN [last_hash EXCEPT ![m] = c] ELSE last_hash
  /\ UNCHANGED <<clip, seen, inbound, chan, link, copied, copies, drops>>

(* Mutant: the clipboard is read again to remember it. *)
MarkedReread(m, c) == [last_hash EXCEPT ![m] = clip[m]]

Marked(m, c) == [last_hash EXCEPT ![m] = c]

PollMark(m, l) ==
  /\ At(m, l, "mark")
  /\ last_hash' = Marked(m, poll[m][l].hash)
  /\ Record(m, poll[m][l].hash, m)
  /\ poll' = [poll EXCEPT ![m][l].at = "send"]
  /\ UNCHANGED <<clip, inbound, chan, link, copied, copies, drops>>

(* To every peer of the loop's own session: the peers of a stopped run are *)
(* closed.                                                                 *)
PollSend(m, l) ==
  /\ At(m, l, "send")
  /\ IF l = "live"
     THEN CanSend(m) /\ chan' = Sent(m, Formats(poll[m][l].hash))
     ELSE UNCHANGED chan
  /\ poll' = [poll EXCEPT ![m][l] = Idle]
  /\ UNCHANGED <<local, inbound, link, copied, copies, drops>>

-----------------------------------------------------------------------------
(* handle_inbound: the message is taken from the channel, and the steps    *)
(* after its first lock or await follow.                                   *)

Take(m, type) ==
  /\ inbound[m] = None
  /\ chan[Other(m)] # <<>>
  /\ Head(chan[Other(m)]).type = type

Handle(m, step) == inbound' = [inbound EXCEPT ![m] = step]

Taken(m) == chan' = [chan EXCEPT ![Other(m)] = Tail(@)]

(* An advertisement: record the hash, and ask for the content. *)
HandleFormats(m) ==
  /\ Take(m, "ClipboardFormats")
  /\ Taken(m)
  /\ LET msg == Head(chan[Other(m)])
     IN  /\ Record(m, msg.hash, Other(m))
         /\ Handle(m, [todo |-> "send", msg |-> Request(msg.format)])
  /\ UNCHANGED <<clip, last_hash, poll, link, copied, copies, drops>>

(* A request is answered with what the clipboard holds now, in the format  *)
(* asked for, or not at all.                                               *)
HandleRequest(m) ==
  /\ Take(m, "ClipboardRequest")
  /\ Taken(m)
  /\ IF clip[m] # None /\ Format[clip[m]] = Head(chan[Other(m)]).format
     THEN Handle(m, [todo |-> "send", msg |-> Data(clip[m])])
     ELSE UNCHANGED inbound
  /\ UNCHANGED <<local, poll, link, copied, copies, drops>>

Reply(m) ==
  /\ inbound[m] # None
  /\ inbound[m].todo = "send"
  /\ CanSend(m)
  /\ chan' = Sent(m, inbound[m].msg)
  /\ Handle(m, None)
  /\ UNCHANGED <<local, poll, link, copied, copies, drops>>

(* The content: record its originator, remember it, write it. *)
HandleData(m) ==
  /\ Take(m, "ClipboardData")
  /\ Taken(m)
  /\ Record(m, Head(chan[Other(m)]).hash, Other(m))
  /\ Handle(m, [todo |-> "mark", msg |-> Head(chan[Other(m)])])
  /\ UNCHANGED <<clip, last_hash, poll, link, copied, copies, drops>>

MarkData(m) ==
  /\ inbound[m] # None
  /\ inbound[m].todo = "mark"
  /\ last_hash' = [last_hash EXCEPT ![m] = inbound[m].msg.hash]
  /\ Handle(m, [inbound[m] EXCEPT !.todo = "write"])
  /\ UNCHANGED <<clip, seen, poll, chan, link, copied, copies, drops>>

WriteData(m) ==
  /\ inbound[m] # None
  /\ inbound[m].todo = "write"
  /\ clip' = [clip EXCEPT ![m] = inbound[m].msg.hash]
  /\ Handle(m, None)
  /\ UNCHANGED <<last_hash, seen, poll, chan, link, copied, copies, drops>>

-----------------------------------------------------------------------------
(* The users and the network *)

(* Nothing is under way, and no poll would advertise anything. *)
Settled ==
  \A m \in Machines :
    /\ chan[m] = <<>>
    /\ inbound[m] = None
    /\ \A l \in Loops[m] : poll[m][l] = Idle
    /\ clip[m] \in {None, last_hash[m]} \cup {c \in Contents : Known(m, c)}

Copy(m, c) ==
  /\ m \in Copiers
  /\ copies < MaxCopies
  /\ Patient => Settled
  /\ c \in UNION {copied[n] : n \in Machines} => Recopying
  /\ copies' = copies + 1
  /\ clip' = [clip EXCEPT ![m] = c]
  /\ copied' = [copied EXCEPT ![m] = @ \cup {c}]
  /\ UNCHANGED <<last_hash, seen, poll, inbound, chan, link, drops>>

(* The connection breaks, with all it carries, and is made again once the  *)
(* old inbound loops have ended.                                           *)
Drop ==
  /\ link
  /\ drops < MaxDrops
  /\ drops' = drops + 1
  /\ link' = FALSE
  /\ chan' = [m \in Machines |-> <<>>]
  /\ UNCHANGED <<local, poll, inbound, copied, copies>>

Reconnect ==
  /\ ~link
  /\ inbound = [m \in Machines |-> None]
  /\ link' = TRUE
  /\ UNCHANGED <<local, poll, inbound, chan, copied, copies, drops>>

-----------------------------------------------------------------------------
Poll(m, l) == \/ PollRead(m, l) \/ PollCompare(m, l) \/ PollLookup(m, l)
              \/ PollMark(m, l) \/ PollSend(m, l)

HandleInbound(m) == \/ HandleFormats(m) \/ HandleRequest(m) \/ HandleData(m)
                    \/ Reply(m) \/ MarkData(m) \/ WriteData(m)

Next ==
  \/ \E m \in Machines :
       \/ \E l \in Loops[m] : Poll(m, l)
       \/ HandleInbound(m)
       \/ \E c \in Contents : Copy(m, c)
  \/ Drop
  \/ Reconnect

Spec == Init /\ [][Next]_vars

(* Every spawned loop runs. *)
FairSpec ==
  /\ Spec
  /\ \A m \in Machines :
       /\ WF_vars(HandleInbound(m))
       /\ \A l \in Loops[m] : WF_vars(Poll(m, l))

-----------------------------------------------------------------------------
(* Properties *)

(* Every variable keeps to its Rust type, and every stream to its capacity. *)
TypeOK ==
  /\ clip \in [Machines -> Contents \cup {None}]
  /\ last_hash \in [Machines -> Contents \cup {None}]
  /\ seen \in [Machines -> [Contents -> Machines \cup {None}]]
  /\ \A m \in Machines : poll[m] \in
       [Loops[m] -> [at : {"idle", "compare", "lookup", "mark", "send"},
                     hash : Contents \cup {None}]]
  /\ inbound \in [Machines -> {None} \cup
                    [todo : {"send", "mark", "write"}, msg : Message]]
  /\ \A m \in Machines : /\ chan[m] \in Seq(Message)
                         /\ Len(chan[m]) <= OutCap
  /\ link \in BOOLEAN

(* A machine only ever advertises what its own user copied: content that   *)
(* came from the peer is not sent back as new, whatever the poll loop had  *)
(* read when it arrived (docs/TESTING.md:309, "Echo loop ... the           *)
(* OriginatorRegistry is supposed to prevent this").                       *)
NoEcho ==
  \A m \in Machines : \A i \in 1 .. Len(chan[m]) :
    chan[m][i].type = "ClipboardFormats" => chan[m][i].hash \in copied[m]

(* Copies are made on one machine, each of new content, and the connection *)
(* lasts.                                                                  *)
PlainUse ==
  /\ \E m \in Machines : copied[m] = {}
  /\ copies = Cardinality(UNION {copied[m] : m \in Machines})
  /\ drops = 0

(* What the user copies last on one machine ends up on the other, so the   *)
(* two clipboards come to agree, however quickly the copies follow each    *)
(* other (docs/TESTING.md:296-302, "the text from A appears on B").        *)
CopiesArrive == <>[](PlainUse => \A m \in Machines : clip[m] = clip[Other(m)])

(* The same of any copies a user waits for.                                *)
EveryCopyArrives == <>[](\A m \in Machines : clip[m] = clip[Other(m)])
=============================================================================
