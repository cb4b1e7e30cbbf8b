--------------------------- MODULE PeerConnection ---------------------------
(***************************************************************************)
(* One connection between a client and a server, from the handshake to its *)
(* end, at the level of frames cut into bytes:                             *)
(*                                                                         *)
(*   encode_frame, decode_frame        protocol/src/codec.rs, header.rs    *)
(*   write_message, read_message       network/src/stream.rs               *)
(*   connect_once                      network/src/client.rs               *)
(*   handle_connection                 network/src/server.rs               *)
(*   write_loop, read_loop             network/src/peer_loop.rs            *)
(*                                                                         *)
(* A header is one unit of the stream and each byte of the payload is      *)
(* another, so that a frame may be in any part on its way.  The payload of *)
(* a message is its identity, one number, repeated.                        *)
(***************************************************************************)
EXTENDS Integers, Sequences, SequencesExt

CONSTANTS
  None,
  Versions,   \* PROTOCOL_VERSIONs of the builds that may meet
  Sizes,      \* payload sizes tried after the handshake
  MaxPayload, \* MAX_PAYLOAD_SIZE (64 MiB in the code)
  MaxSends    \* bound on the messages each end sends, for TLC

Ends == {"client", "server"}

(* What a stream is cut into: a header, or a byte of a payload *)
Unit == [type : {"Hello", "Welcome", "Message", "byte"}, length : 0 .. MaxPayload,
         version : Versions \cup {0}, id : Nat]

ASSUME ConnectionAssumption ==
  /\ Versions \subseteq Nat \ {0} /\ Sizes \subseteq Nat
  /\ MaxPayload \in Nat \ {0} /\ MaxSends \in Nat
  /\ None \notin Unit

VARIABLES
  version,   \* PROTOCOL_VERSION of the build on each end
  pc,        \* where each end is
  link,      \* whether the QUIC connection is open
  wire,      \* units written by each end and not read yet
  finished,  \* whether each end has finished its stream
  header,    \* read_message: the header each end has read, or None
  payload,   \* and the part of the payload it has read
  sent,      \* history: the messages written by each end
  received   \* history: the messages handed on by each end

vars == <<version, pc, link, wire, finished, header, payload, sent, received>>

Peer(e) == IF e = "client" THEN "server" ELSE "client"

HandshakeStates == {"hello", "welcome", "accept", "reply"}

(* The payload of the handshake messages. *)
HelloSize == 1

-----------------------------------------------------------------------------
(* Frames *)

Header(e, type, size, id) ==
  [type |-> type, length |-> size, version |-> version[e], id |-> id]

Byte(id) == [type |-> "byte", length |-> 0, version |-> 0, id |-> id]

(* encode_frame *)
Frame(e, type, size, id) ==
  <<Header(e, type, size, id)>> \o [i \in 1 .. size |-> Byte(id)]

(* Mutant: no limit. *)
EncodesAll(size) == TRUE

Encodes(size) == size <= MaxPayload

(* write_message, of a message that can be encoded, on an open link *)
Write(e, type, size) ==
  LET id == Len(sent[e])
  IN  /\ wire' = [wire EXCEPT ![e] = @ \o Frame(e, type, size, id)]
      /\ sent' = [sent EXCEPT ![e] = Append(@, <<type, [i \in 1 .. size |-> id]>>)]

Init ==
  /\ version \in [Ends -> Versions]
  /\ pc = [e \in Ends |-> IF e = "client" THEN "hello" ELSE "accept"]
  /\ link = TRUE
  /\ wire = [e \in Ends |-> <<>>]
  /\ finished = [e \in Ends |-> FALSE]
  /\ header = [e \in Ends |-> None]
  /\ payload = [e \in Ends |-> <<>>]
  /\ sent = [e \in Ends |-> <<>>]
  /\ received = [e \in Ends |-> <<>>]

-----------------------------------------------------------------------------
(* read_message *)

Reading(e) == pc[e] \in {"accept", "welcome", "up"}

Incoming(e) == wire[Peer(e)]

ReadHeader(e) ==
  /\ Reading(e)
  /\ header[e] = None
  /\ Incoming(e) # <<>>
  /\ header' = [header EXCEPT ![e] = Head(Incoming(e))]
  /\ wire' = [wire EXCEPT ![Peer(e)] = Tail(@)]
  /\ UNCHANGED <<version, pc, link, finished, payload, sent, received>>

(* Mutant: read where the code has read_exact: whatever part has come. *)
WholeOnceRead(e) ==
  header[e] # None /\ (header[e].length = 0 \/ payload[e] # <<>>)

Whole(e) == header[e] # None /\ Len(payload[e]) = header[e].length

ReadPayload(e) ==
  /\ Reading(e)
  /\ header[e] # None
  /\ ~Whole(e)
  /\ Incoming(e) # <<>>
  /\ payload' = [payload EXCEPT ![e] = Append(@, Head(Incoming(e)).id)]
  /\ wire' = [wire EXCEPT ![Peer(e)] = Tail(@)]
  /\ UNCHANGED <<version, pc, link, finished, header, sent, received>>

(* Mutant: the version is not compared. *)
DecodesAnyVersion(e) == header[e].length <= MaxPayload

(* decode_frame.  The magic and the type are those of our own encoder.     *)
Decodes(e) ==
  /\ header[e].version = version[e]
  /\ header[e].length <= MaxPayload

NextFrame(e) ==
  /\ header' = [header EXCEPT ![e] = None]
  /\ payload' = [payload EXCEPT ![e] = <<>>]

(* The stream has ended, or broken, before the frame was whole.            *)
Ended(e) == Incoming(e) = <<>> /\ ~Whole(e) /\ (finished[Peer(e)] \/ ~link)

-----------------------------------------------------------------------------
(* The end of a connection *)

(* The handshake returns an error, which drops the connection. *)
Abandon(e) == pc' = [pc EXCEPT ![e] = "failed"] /\ link' = FALSE

(* run_peer_loop returns and Disconnected is reported.  What the tasks it  *)
(* leaves behind still do is in ClientSupervisor.                          *)
End(e) == pc' = [pc EXCEPT ![e] = "ended"]

Stop(e) == IF pc[e] \in HandshakeStates
           THEN Abandon(e)
           ELSE End(e) /\ UNCHANGED link

(* read_message fails: on a frame that cannot be decoded, or at the end of *)
(* the stream.                                                             *)
ReadFails(e) ==
  /\ Reading(e)
  /\ (Whole(e) /\ ~Decodes(e)) \/ Ended(e)
  /\ NextFrame(e)
  /\ Stop(e)
  /\ UNCHANGED <<version, wire, finished, sent, received>>

(* Waiting for a connection that is gone fails as well: accept_streams_loop *)
(* returns, although whole frames may still wait to be read.                *)
LinkLost(e) ==
  /\ pc[e] = "up"
  /\ ~link
  /\ End(e)
  /\ UNCHANGED <<version, link, wire, finished, header, payload, sent, received>>

-----------------------------------------------------------------------------
(* The handshake *)

Speak(e, type, next) ==
  /\ IF link
     THEN Write(e, type, HelloSize) /\ pc' = [pc EXCEPT ![e] = next] /\ UNCHANGED link
     ELSE Abandon(e) /\ UNCHANGED <<wire, sent>>
  /\ UNCHANGED <<version, finished, header, payload, received>>

SendHello == pc["client"] = "hello" /\ Speak("client", "Hello", "welcome")

Received(e) == [received EXCEPT ![e] = Append(@, <<header[e].type, payload[e]>>)]

(* The first message: Hello for the server, Welcome for the client.  The   *)
(* version inside Hello is the one of its header, already checked.         *)
Shake(e, type, next) ==
  /\ Whole(e)
  /\ Decodes(e)
  /\ received' = Received(e)
  /\ NextFrame(e)
  /\ IF header[e].type = type
     THEN pc' = [pc EXCEPT ![e] = next] /\ UNCHANGED link
     ELSE Abandon(e)
  /\ UNCHANGED <<version, wire, finished, sent>>

AcceptHello == pc["server"] = "accept" /\ Shake("server", "Hello", "reply")

SendWelcome == pc["server"] = "reply" /\ Speak("server", "Welcome", "up")

AcceptWelcome == pc["client"] = "welcome" /\ Shake("client", "Welcome", "up")

-----------------------------------------------------------------------------
(* The session *)

(* Mutant: the write loop ends and leaves its stream open. *)
FinishLater(e) == UNCHANGED finished

Finish(e) == finished' = [finished EXCEPT ![e] = TRUE]

(* write_loop: a message that cannot be encoded, or written, ends it. *)
Send(e) ==
  /\ pc[e] = "up"
  /\ Len(sent[e]) <= MaxSends
  /\ \E size \in Sizes :
       IF Encodes(size) /\ link
       THEN Write(e, "Message", size) /\ UNCHANGED <<pc, finished>>
       ELSE End(e) /\ Finish(e) /\ UNCHANGED <<wire, sent>>
  /\ UNCHANGED <<version, link, header, payload, received>>

(* read_loop *)
Deliver(e) ==
  /\ pc[e] = "up"
  /\ Whole(e)
  /\ Decodes(e)
  /\ received' = Received(e)
  /\ NextFrame(e)
  /\ UNCHANGED <<version, pc, link, wire, finished, sent>>

(* The network breaks, or one end has closed the connection: of what was   *)
(* on its way only a prefix arrives.                                       *)
Break ==
  /\ link' = FALSE
  /\ \E c \in Prefixes(wire["client"]), s \in Prefixes(wire["server"]) :
       wire' = [e \in Ends |-> IF e = "client" THEN c ELSE s]
  /\ UNCHANGED <<version, pc, finished, header, payload, sent, received>>

-----------------------------------------------------------------------------
Read(e) == \/ ReadHeader(e) \/ ReadPayload(e) \/ ReadFails(e)
           \/ Deliver(e) \/ LinkLost(e)

Handshake == SendHello \/ AcceptHello \/ SendWelcome \/ AcceptWelcome

Next == Handshake \/ Break \/ \E e \in Ends : Read(e) \/ Send(e)

Spec == Init /\ [][Next]_vars

FairSpec == Spec /\ WF_vars(Handshake) /\ \A e \in Ends : WF_vars(Read(e))

-----------------------------------------------------------------------------
(* Properties *)

(* Every variable keeps to its type, and no frame is longer than the limit *)
(* encode_frame and decode_frame share.                                    *)
TypeOK ==
  /\ version \in [Ends -> Versions]
  /\ pc \in [Ends -> HandshakeStates \cup {"up", "ended", "failed"}]
  /\ link \in BOOLEAN
  /\ finished \in [Ends -> BOOLEAN]
  /\ \A e \in Ends : /\ wire[e] \in Seq(Unit)
                     /\ header[e] # None => header[e] \in Unit
                     /\ payload[e] \in Seq(Nat)

(* What an end hands on is what the other end wrote, whole and in order,   *)
(* wherever the network cuts the stream and wherever it breaks             *)
(* (stream.rs:15-37).                                                      *)
FramesInOrder == \A e \in Ends : IsPrefix(received[e], sent[Peer(e)])

(* A session runs only between builds that speak the same version, and a   *)
(* client that is up has a server that was.                                *)
SessionsAgree ==
  /\ (\E e \in Ends : pc[e] \in {"up", "ended"}) =>
       version["client"] = version["server"]
  /\ pc["client"] \in {"up", "ended"} => pc["server"] \in {"up", "ended"}

(* Neither end is left alone: when one has given up, or ended, so does the *)
(* other, also when the network loses only a part of what was sent.        *)
EndsTogether ==
  \A e \in Ends :
    pc[e] \in {"failed", "ended"} ~> pc[Peer(e)] \in {"failed", "ended"}
=============================================================================
