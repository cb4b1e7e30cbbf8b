------------------------------- MODULE PeerTasks -------------------------------
(***************************************************************************)
(* The tasks of one established connection on both of its ends, and the    *)
(* bounded queues between them:                                            *)
(*                                                                         *)
(*   spawn_heartbeat                   daemon/src/heartbeat.rs             *)
(*   write_loop, read_loop,                                                *)
(*   accept_streams_loop               network/src/peer_loop.rs            *)
(*   inbound_loop                      daemon/src/session.rs               *)
(*   the clipboard's poll loop         daemon/src/clipboard_mgr.rs         *)
(*                                                                         *)
(*   send -> out -> writer -> wire -> reader -> inbox -> handler -> send   *)
(*                                                                         *)
(* A reply is sent by the handler itself, so that each direction can hold  *)
(* up the other.  What the messages say is in the other modules.           *)
(***************************************************************************)
EXTENDS Integers, Sequences, SequencesExt

CONSTANTS
  OutCap,    \* outbound channel (256 in the code)
  InCap,     \* inbound channel (256)
  Window,    \* messages QUIC takes before the reader must read
  Nonces,    \* bound: heartbeats of one end on their way at a time
  MaxCopies, \* bound: clipboard changes seen by each end
  Flooded,   \* ends whose handle is also used with try_send (the server's)
  Streams,   \* ends that receive file chunks, on streams of their own
  TooLong    \* message types that may exceed MAX_PAYLOAD_SIZE

Ends == {"client", "server"}

ASSUME TasksAssumption ==
  /\ {OutCap, InCap, Window, Nonces} \subseteq Nat \ {0} /\ MaxCopies \in [Ends -> Nat]
  /\ {Flooded, Streams} \subseteq SUBSET Ends
  /\ TooLong \subseteq {"data"}

VARIABLES
  out,        \* the outbound channel of each end
  writer,     \* write_loop: run or done
  wire,       \* messages written by each end and not read yet
  reader,     \* read_loop: run or done
  inbox,      \* the inbound channel
  turn,       \* which reader of each end has handed on a message last
  handler,    \* inbound_loop: idle, the reply being sent, or done
  beat,       \* whether the heartbeat runs
  waiting,    \* tasks in a send on the outbound channel, in their order
  listed,     \* whether the handle is in the daemon's peer list
  lost,       \* whether QUIC has reported the connection lost
  nonce,      \* of the last heartbeat
  unanswered, \* history: nonces of heartbeats that got no Pong before the loss
  copies      \* bound: clipboard changes seen

queues == <<out, wire, inbox>>
tasks  == <<writer, reader, turn, handler, beat, waiting>>
vars   == <<queues, tasks, listed, lost, nonce, unanswered, copies>>

Peer(e) == IF e = "client" THEN "server" ELSE "client"

Msg(type, n) == [type |-> type, n |-> n]
Idle == Msg("idle", 0)
Done == Msg("done", 0)
Holding(t) == t \notin {Idle, Done}

Types == {"ping", "pong", "input", "chunk", "formats", "request", "data"}

(* inbound_loop and handle_inbound: the reply sent, if there is one *)
Reply(m) ==
  CASE m.type = "ping"    -> Msg("pong", m.n)
    [] m.type = "formats" -> Msg("request", 0)
    [] m.type = "request" -> Msg("data", 0)
    [] OTHER              -> Idle

Init ==
  /\ out = [e \in Ends |-> <<>>] /\ wire = out /\ inbox = out
  /\ writer = [e \in Ends |-> "run"] /\ reader = writer /\ handler = [e \in Ends |-> Idle]
  /\ listed = [e \in Ends |-> TRUE]
  /\ turn = [e \in Ends |-> "control"] /\ beat = listed
  /\ waiting = [e \in Ends |-> <<>>]
  /\ lost = [e \in Ends |-> FALSE]
  /\ nonce = [e \in Ends |-> 0] /\ unanswered = [e \in Ends |-> {}]
  /\ copies = [e \in Ends |-> 0]

-----------------------------------------------------------------------------
(* PeerHandle::send: waits for room, and fails once the receiver is gone.  *)

(* Mutant: room for one message more. *)
RoomForMore(q, cap) == Len(q) <= cap

Room(q, cap) == Len(q) < cap

Closed(e) == writer[e] = "done"

(* The channel serves the sends that wait in their order. *)
Served(e, t) ==
  \E i \in DOMAIN waiting[e] :
    waiting[e][i] = t /\ waiting' = [waiting EXCEPT ![e] = RemoveAt(@, i)]

Waits(e, t) == \E i \in DOMAIN waiting[e] : waiting[e][i] = t

Enqueued(e, t) == waiting' = [waiting EXCEPT ![e] = Append(@, t)]

(* send(m).await of task t: returns Ok, ... *)
Queued(e, t, m) ==
  /\ waiting[e] # <<>> /\ Head(waiting[e]) = t
  /\ ~Closed(e) /\ Room(out[e], OutCap)
  /\ out' = [out EXCEPT ![e] = Append(@, m)]
  /\ Served(e, t)

(* ... or an error, which all but the heartbeat ignore. *)
Failed(e, t) ==
  /\ Waits(e, t) /\ Closed(e) /\ Served(e, t) /\ UNCHANGED out

-----------------------------------------------------------------------------
(* spawn_heartbeat *)

OnItsWay(e, n) ==
  \/ Msg("pong", n) = handler[Peer(e)]
  \/ \E i \in DOMAIN out[e] : out[e][i] = Msg("ping", n)
  \/ \E i \in DOMAIN wire[e] : wire[e][i] = Msg("ping", n)
  \/ \E i \in DOMAIN inbox[Peer(e)] : inbox[Peer(e)][i] = Msg("ping", n)
  \/ \E i \in DOMAIN out[Peer(e)] : out[Peer(e)][i] = Msg("pong", n)
  \/ \E i \in DOMAIN wire[Peer(e)] : wire[Peer(e)][i] = Msg("pong", n)
  \/ \E i \in DOMAIN inbox[e] : inbox[e][i] = Msg("pong", n)

(* The interval passes.  The nonce counts from 1 in the code; here it is   *)
(* told apart only from those still on their way.                          *)
Tick(e) ==
  LET n == (nonce[e] + 1) % Nonces
  IN  /\ beat[e] /\ ~Waits(e, "beat") /\ ~OnItsWay(e, n)
      /\ Enqueued(e, "beat")
      /\ nonce' = [nonce EXCEPT ![e] = n]
      /\ UNCHANGED <<queues, writer, reader, turn, handler, beat, listed, lost,
                     unanswered, copies>>

SendPing(e) ==
  /\ Queued(e, "beat", Msg("ping", nonce[e]))
  /\ unanswered' = [unanswered EXCEPT ![e] = IF lost[e] THEN @ ELSE @ \cup {nonce[e]}]
  /\ UNCHANGED <<wire, inbox, writer, reader, turn, handler, beat, listed, lost, nonce, copies>>

(* Mutant: the error is ignored, as it is by every other sender. *)
PingFailsUnnoticed(e) ==
  /\ Failed(e, "beat")
  /\ UNCHANGED <<wire, inbox, writer, reader, turn, handler, beat, listed, lost, nonce,
                 unanswered, copies>>

PingFails(e) ==
  /\ Failed(e, "beat")
  /\ beat' = [beat EXCEPT ![e] = FALSE]
  /\ UNCHANGED <<wire, inbox, writer, reader, turn, handler, listed, lost, nonce,
                 unanswered, copies>>

-----------------------------------------------------------------------------
(* The other users of the handle *)

(* spawn_poll_loop, from a change to the send to this peer *)
Poll(e) ==
  /\ ~Waits(e, "poll") /\ listed[e] /\ copies[e] < MaxCopies[e]
  /\ Enqueued(e, "poll")
  /\ copies' = [copies EXCEPT ![e] = @ + 1]
  /\ UNCHANGED <<queues, writer, reader, turn, handler, beat, listed, lost, nonce, unanswered>>

SendFormats(e) ==
  /\ Queued(e, "poll", Msg("formats", 0)) \/ Failed(e, "poll")
  /\ UNCHANGED <<wire, inbox, writer, reader, turn, handler, beat, listed, lost, nonce,
                 unanswered, copies>>

(* drain_capture: try_send, which loses the input when there is no room, or *)
(* when the room is for a send that waits.                                  *)
Forward(e) ==
  /\ e \in Flooded /\ listed[e]
  /\ waiting[e] = <<>> /\ ~Closed(e) /\ Room(out[e], OutCap)
  /\ out' = [out EXCEPT ![e] = Append(@, Msg("input", 0))]
  /\ UNCHANGED <<wire, inbox, tasks, listed, lost, nonce, unanswered, copies>>

(* A reader that accept_streams_loop started hands on a file chunk.  It and *)
(* read_loop are served in turn when both wait.                             *)
ChunkArrives(e) ==
  /\ e \in Streams /\ ~lost[e] /\ ~lost[Peer(e)]
  /\ handler[e] # Done /\ Room(inbox[e], InCap)
  /\ turn[e] = "control" \/ wire[Peer(e)] = <<>>
  /\ inbox' = [inbox EXCEPT ![e] = Append(@, Msg("chunk", 0))]
  /\ turn' = [turn EXCEPT ![e] = "chunk"]
  /\ UNCHANGED <<out, wire, writer, reader, handler, beat, waiting, listed, lost, nonce, unanswered, copies>>

-----------------------------------------------------------------------------
(* write_loop: the message in its hands counts as the first of out. *)

WriterWrites(e) ==
  /\ writer[e] = "run" /\ out[e] # <<>> /\ Head(out[e]).type \notin TooLong
  /\ ~lost[e] /\ Room(wire[e], Window)
  /\ out' = [out EXCEPT ![e] = Tail(@)]
  /\ wire' = [wire EXCEPT ![e] = Append(@, Head(out[e]))]
  /\ UNCHANGED <<inbox, tasks, listed, lost, nonce, unanswered, copies>>

(* write_message fails; the receiver goes, with all that is in the channel. *)
WriterEnds(e) ==
  /\ writer[e] = "run" /\ out[e] # <<>>
  /\ lost[e] \/ Head(out[e]).type \in TooLong
  /\ writer' = [writer EXCEPT ![e] = "done"]
  /\ out' = [out EXCEPT ![e] = <<>>]
  /\ UNCHANGED <<wire, inbox, reader, turn, handler, beat, waiting, listed, lost,
                 nonce, unanswered, copies>>

-----------------------------------------------------------------------------
(* read_loop: the message in its hands counts as the first on the wire.    *)

ReaderReads(e) ==
  /\ reader[e] = "run" /\ ~lost[e] /\ wire[Peer(e)] # <<>>
  /\ handler[e] # Done /\ Room(inbox[e], InCap)
  /\ wire' = [wire EXCEPT ![Peer(e)] = Tail(@)]
  /\ inbox' = [inbox EXCEPT ![e] = Append(@, Head(wire[Peer(e)]))]
  /\ turn' = [turn EXCEPT ![e] = "control"]
  /\ UNCHANGED <<out, writer, reader, handler, beat, waiting, listed, lost, nonce, unanswered, copies>>

(* The stream has failed, or the other end has finished it. *)
ReaderEnds(e) ==
  /\ reader[e] = "run"
  /\ lost[e] \/ (wire[Peer(e)] = <<>> /\ Closed(Peer(e)) /\ ~lost[Peer(e)])
  /\ reader' = [reader EXCEPT ![e] = "done"]
  /\ UNCHANGED <<queues, writer, turn, handler, beat, waiting, listed, lost, nonce,
                 unanswered, copies>>

(* run_peer_loop returns with the first of the three, the others go on;    *)
(* the supervisor reports it and the daemon forgets the handle.            *)
Unlist(e) ==
  /\ listed[e] /\ (writer[e] = "done" \/ reader[e] = "done" \/ lost[e])
  /\ listed' = [listed EXCEPT ![e] = FALSE]
  /\ UNCHANGED <<queues, tasks, lost, nonce, unanswered, copies>>

-----------------------------------------------------------------------------
(* inbound_loop *)

HandlerTakes(e) ==
  LET m == Head(inbox[e])
  IN  /\ handler[e] = Idle /\ inbox[e] # <<>>
      /\ handler' = [handler EXCEPT ![e] = Reply(m)]
      /\ IF Reply(m) # Idle THEN Enqueued(e, "reply") ELSE UNCHANGED waiting
      /\ inbox' = [inbox EXCEPT ![e] = Tail(@)]
      /\ unanswered' = [unanswered EXCEPT ![e] = IF m.type = "pong" THEN @ \ {m.n} ELSE @]
      /\ UNCHANGED <<out, wire, writer, reader, turn, beat, listed, lost, nonce, copies>>

(* Mutant: try_send, as drain_capture does. *)
HandlerTriesReply(e) ==
  /\ \/ Queued(e, "reply", handler[e])
     \/ /\ Waits(e, "reply") /\ (Closed(e) \/ ~Room(out[e], OutCap))
        /\ Served(e, "reply") /\ UNCHANGED out
  /\ handler' = [handler EXCEPT ![e] = Idle]
  /\ UNCHANGED <<wire, inbox, writer, reader, turn, beat, listed, lost, nonce,
                 unanswered, copies>>

HandlerReplies(e) ==
  /\ Queued(e, "reply", handler[e]) \/ Failed(e, "reply")
  /\ handler' = [handler EXCEPT ![e] = Idle]
  /\ UNCHANGED <<wire, inbox, writer, reader, turn, beat, listed, lost, nonce,
                 unanswered, copies>>

(* Every sender of the inbound channel has gone. *)
HandlerEnds(e) ==
  /\ handler[e] = Idle /\ inbox[e] = <<>> /\ reader[e] = "done" /\ lost[e]
  /\ handler' = [handler EXCEPT ![e] = Done]
  /\ UNCHANGED <<queues, writer, reader, turn, beat, waiting, listed, lost,
                 nonce, unanswered, copies>>

-----------------------------------------------------------------------------
(* The network goes, or the other end has: what is on the wire is lost.    *)
Lose(e) ==
  /\ ~lost[e]
  /\ lost' = [lost EXCEPT ![e] = TRUE]
  /\ wire' = [d \in Ends |-> <<>>]
  /\ unanswered' = [unanswered EXCEPT ![e] = {}]
  /\ UNCHANGED <<out, inbox, tasks, listed, nonce, copies>>

Heartbeat(e) == Tick(e) \/ SendPing(e) \/ PingFails(e)
Writer(e)    == WriterWrites(e) \/ WriterEnds(e)
Reader(e)    == ReaderReads(e) \/ ReaderEnds(e)
Handler(e)   == HandlerTakes(e) \/ HandlerReplies(e) \/ HandlerEnds(e)

Next ==
  \E e \in Ends :
    \/ Heartbeat(e) \/ Poll(e) \/ SendFormats(e) \/ Forward(e) \/ ChunkArrives(e)
    \/ Writer(e) \/ Reader(e) \/ Handler(e) \/ Unlist(e) \/ Lose(e)

(* tokio runs every task that can go on.  An end whose peer is gone notices *)
(* by QUIC's idle timeout; that a connection is lost, a clipboard changes   *)
(* or input or a chunk arrives is not owed.                                 *)
Fairness ==
  \A e \in Ends :
    /\ WF_vars(Heartbeat(e)) /\ WF_vars(SendFormats(e)) /\ WF_vars(Handler(e))
    /\ WF_vars(Writer(e)) /\ WF_vars(Reader(e))
    /\ WF_vars(Unlist(e) \/ (lost[Peer(e)] /\ Lose(e)))

Spec == Init /\ [][Next]_vars /\ Fairness

-----------------------------------------------------------------------------
Messages == [type : Types, n : 0 .. Nonces - 1]

(* Every variable has its type, and no queue exceeds its channel. *)
TypeOK ==
  /\ \A e \in Ends :
       /\ out[e] \in Seq(Messages) /\ Len(out[e]) <= OutCap
       /\ inbox[e] \in Seq(Messages) /\ Len(inbox[e]) <= InCap
       /\ wire[e] \in Seq(Messages) /\ Len(wire[e]) <= Window
       /\ handler[e] \in Messages \cup {Idle, Done}
  /\ {writer, reader} \subseteq [Ends -> {"run", "done"}]
  /\ turn \in [Ends -> {"control", "chunk"}] /\ beat \in [Ends -> BOOLEAN]
  /\ \A e \in Ends : waiting[e] \in Seq({"beat", "poll", "reply"}) /\ Len(waiting[e]) <= 3
  /\ {listed, lost} \subseteq [Ends -> BOOLEAN]
  /\ nonce \in [Ends -> 0 .. Nonces - 1] /\ unanswered \in [Ends -> SUBSET (0 .. Nonces - 1)]
  /\ \A e \in Ends : copies[e] \in 0 .. MaxCopies[e]

Ended(e) ==
  /\ writer[e] = "done" /\ reader[e] = "done" /\ handler[e] = Done
  /\ ~beat[e] /\ ~listed[e]

(* Nothing of a lost connection stays behind: although nobody stops them,  *)
(* and each holds what another waits for, all its tasks end, the writer    *)
(* and the heartbeat by the next Ping that cannot be written.              *)
TasksEnd == \A e \in Ends : lost[e] ~> Ended(e)

(* docs/PROTOCOL.md:73: each Ping gets its Pong, or the connection ends,   *)
(* however much input and however many files are on their way.  (Where a   *)
(* message cannot be encoded, neither happens: with TooLong it fails.)     *)
PingAnswered ==
  \A e \in Ends : \A n \in 0 .. Nonces - 1 :
    n \in unanswered[e] ~> (n \notin unanswered[e] \/ lost[e])

-----------------------------------------------------------------------------
(* A statement the code does not keep: what the peer list has forgotten    *)
(* ends.  A message that cannot be encoded ends the writer alone.          *)
ForgottenEnds == \A e \in Ends : ~listed[e] ~> Ended(e)
=============================================================================
