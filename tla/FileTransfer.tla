----------------------------- MODULE FileTransfer -----------------------------
(***************************************************************************)
(* File transfer: send_files on the sending peers, and the Receiver, whose *)
(* state all connections of the daemon share, on the receiving one.        *)
(*                                                                         *)
(* The offer travels on the control stream and the chunks on a stream of   *)
(* the transfer; the receiver's inbound loop of that connection takes them *)
(* one by one, in any order between streams. A content is a sequence of    *)
(* units, a hash is the content it was computed from (blake3 does not      *)
(* collide), and the names are paths that sanitize accepts or rejects.     *)
(***************************************************************************)
EXTENDS Naturals, Sequences, SequencesExt

CONSTANTS
  Senders,       \* peers that send, each with a sequence of transfer ids
  Names,         \* relative paths of files
  Rejected,      \* the ones sanitize rejects
  Contents,      \* contents a file may have
  ChunkSize,     \* units per chunk (DEFAULT_CHUNK_SIZE)
  Selections,    \* the sequences of names a peer may send
  None,          \* no transfer, no file
  MaxTransfers,  \* bound: transfers per sender
  MaxEdits,      \* bound: edits of the files by their owners
  MaxBreaks      \* bound: connections lost

ASSUME TransferAssumption ==
  /\ ChunkSize \in Nat \ {0} /\ {MaxTransfers, MaxEdits, MaxBreaks} \subseteq Nat
  /\ Rejected \subseteq Names /\ \A list \in Selections : list \in Seq(Names)
  /\ \A content \in Contents : content \in Seq(Nat \ {0})

Ids == 1..MaxTransfers

VARIABLES
  source,    \* the files of every sender
  manifest,  \* manifests of the transfers a sender has started
  position,  \* where send_files is: transfer, file and offset
  control,   \* offers on the control stream of a sender
  streams,   \* chunks on the stream of every transfer of a sender
  edits, breaks, \* bounds
  cut,       \* history: transfers interrupted by a lost connection
  loop,      \* the receiver's inbound loop of every connection
  transfers, \* RecvState.transfers: the progress of every transfer id
  disk,      \* the receiver's drop directory
  failed     \* history: transfers the receiver has reported an error for

sender   == <<source, manifest, position, control, streams>>
bounds   == <<edits, breaks, cut>>
receiver == <<loop, transfers, disk, failed>>
vars     == <<sender, bounds, receiver>>

Recv == [at |-> "recv"]
Dead == [at |-> "dead"]
Idle == [id |-> 0, file |-> 0, offset |-> 0]

Init ==
  /\ source \in [Senders -> [Names -> Contents]]
  /\ manifest = [s \in Senders |-> <<>>]
  /\ position = [s \in Senders |-> Idle]
  /\ control = [s \in Senders |-> <<>>]
  /\ streams = [s \in Senders |-> [t \in Ids |-> <<>>]]
  /\ edits = 0 /\ breaks = 0 /\ cut = {}
  /\ loop = [s \in Senders |-> Recv]
  /\ transfers = [t \in Ids |-> None]
  /\ disk = [n \in Names |-> None]
  /\ failed = {}

-----------------------------------------------------------------------------
(* The sender: build_manifest, the offer, then every file chunk by chunk. *)

Entry(s, name) == [name |-> name, content |-> source[s][name]]

StartTransfer(s, list) ==
  /\ position[s] = Idle /\ Len(manifest[s]) < MaxTransfers
  /\ LET files == [i \in 1..Len(list) |-> Entry(s, list[i])] IN
       manifest' = [manifest EXCEPT ![s] = Append(@, files)]
  /\ LET id == Len(manifest[s]) + 1 IN
       /\ control' = [control EXCEPT ![s] = Append(@, id)]
       /\ position' = [position EXCEPT ![s] =
                        IF list = <<>> THEN Idle ELSE [id |-> id, file |-> 1, offset |-> 0]]
  /\ UNCHANGED <<source, streams, bounds, receiver>>

(* read fills the buffer or reaches the end of the file as it is now. *)
ReadAt(content, offset) ==
  SubSeq(content, offset + 1, IF offset + ChunkSize < Len(content)
                              THEN offset + ChunkSize ELSE Len(content))

(* Mutant: one file too many. *)
NextFileEager(s) ==
  LET p == position[s] IN
    IF p.file > Len(manifest[s][p.id]) THEN Idle
    ELSE [p EXCEPT !.file = @ + 1, !.offset = 0]

NextFile(s) ==
  LET p == position[s] IN
    IF p.file = Len(manifest[s][p.id]) THEN Idle
    ELSE [p EXCEPT !.file = @ + 1, !.offset = 0]

(* Mutant: the reader moves to the next file after a full chunk. *)
EndsFileAtLast(data, isLast) == isLast \/ Len(data) = ChunkSize

EndsFile(data, isLast) == isLast \/ data = <<>>

SendChunk(s) ==
  /\ position[s] # Idle
  /\ LET p == position[s]
         data == ReadAt(source[s][manifest[s][p.id][p.file].name], p.offset)
         isLast == Len(data) < ChunkSize
         chunk == [id |-> p.id, file |-> p.file, offset |-> p.offset,
                   data |-> data, isLast |-> isLast]
     IN /\ streams' = IF data = <<>> THEN streams
                      ELSE [streams EXCEPT ![s][p.id] = Append(@, chunk)]
        /\ position' = [position EXCEPT ![s] =
             IF EndsFile(data, isLast) THEN NextFile(s)
             ELSE [p EXCEPT !.offset = @ + Len(data)]]
  /\ UNCHANGED <<source, manifest, control, bounds, receiver>>

(* The owner of a file edits it, between the manifest and the chunks too. *)
Edit(s, name, content) ==
  /\ edits < MaxEdits /\ edits' = edits + 1
  /\ source' = [source EXCEPT ![s][name] = content]
  /\ UNCHANGED <<manifest, position, control, streams, breaks, cut, receiver>>

(* The connection is lost: send_files fails and what is under way is gone. *)
Underway(s) ==
  {t \in DOMAIN manifest[s] :
     streams[s][t] # <<>> \/ t \in ToSet(control[s]) \/ position[s].id = t}

Break(s) ==
  /\ breaks < MaxBreaks /\ breaks' = breaks + 1
  /\ cut' = cut \cup {<<s, t>> : t \in Underway(s)}
  /\ position' = [position EXCEPT ![s] = Idle]
  /\ control' = [control EXCEPT ![s] = <<>>]
  /\ streams' = [streams EXCEPT ![s] = [t \in Ids |-> <<>>]]
  /\ UNCHANGED <<source, manifest, edits, receiver>>

-----------------------------------------------------------------------------
(* The receiver: Receiver::begin creates the files one by one, awaiting    *)
(* each, and then puts the transfer into the map all connections share.    *)

HandleOffer(s) ==
  /\ loop[s].at = "recv" /\ control[s] # <<>>
  /\ control' = [control EXCEPT ![s] = Tail(@)]
  /\ LET id == Head(control[s]) IN
       loop' = [loop EXCEPT ![s] =
                  [at |-> "create", id |-> id, files |-> manifest[s][id], next |-> 1]]
  /\ UNCHANGED <<source, manifest, position, streams, bounds, transfers, disk, failed>>

(* A name that sanitize rejects ends it; the files before it stay. *)
CreateFile(s) ==
  /\ loop[s].at = "create" /\ loop[s].next <= Len(loop[s].files)
  /\ LET name == loop[s].files[loop[s].next].name IN
       IF name \in Rejected
       THEN /\ failed' = failed \cup {<<s, loop[s].id>>}
            /\ loop' = [loop EXCEPT ![s] = Recv]
            /\ UNCHANGED disk
       ELSE /\ disk' = [disk EXCEPT ![name] = <<>>]
            /\ loop' = [loop EXCEPT ![s].next = @ + 1]
            /\ UNCHANGED failed
  /\ UNCHANGED <<sender, bounds, transfers>>

Insert(s) ==
  /\ loop[s].at = "create" /\ loop[s].next > Len(loop[s].files)
  /\ LET files == loop[s].files IN
       transfers' = [transfers EXCEPT ![loop[s].id] =
         [files |-> files, received |-> [i \in 1..Len(files) |-> 0],
          hashed |-> [i \in 1..Len(files) |-> <<>>]]]
  /\ loop' = [loop EXCEPT ![s] = Recv]
  /\ UNCHANGED <<sender, bounds, disk, failed>>

(* Receiver::write_chunk, in three steps: the look-up under the lock, the  *)
(* write, the update under the lock.                                       *)

(* Mutant: a chunk is taken whatever its offset is. *)
FitsAnywhere(progress, chunk) ==
  progress # None /\ chunk.file \in 1..Len(progress.files)

Fits(progress, chunk) ==
  /\ progress # None /\ chunk.file \in 1..Len(progress.files)
  /\ chunk.offset = progress.received[chunk.file]

HandleChunk(s, t) ==
  /\ loop[s].at = "recv" /\ streams[s][t] # <<>>
  /\ streams' = [streams EXCEPT ![s][t] = Tail(@)]
  /\ LET chunk == Head(streams[s][t])
         progress == transfers[t]
     IN IF Fits(progress, chunk)
        THEN /\ loop' = [loop EXCEPT ![s] =
                  [at |-> "write", chunk |-> chunk, path |-> progress.files[chunk.file].name,
                   hasher |-> progress.hashed[chunk.file]]]
             /\ UNCHANGED failed
        ELSE failed' = failed \cup {<<s, t>>} /\ UNCHANGED loop
  /\ UNCHANGED <<source, manifest, position, control, bounds, transfers, disk>>

(* A write past the end leaves a hole of zeros. *)
Overlaid(content, offset, data) ==
  [i \in 1..(IF offset + Len(data) > Len(content) THEN offset + Len(data) ELSE Len(content)) |->
     IF i \in (offset + 1)..(offset + Len(data)) THEN data[i - offset]
     ELSE IF i \in DOMAIN content THEN content[i] ELSE 0]

Write(s) ==
  /\ loop[s].at = "write"
  /\ LET c == loop[s].chunk IN
       disk' = [disk EXCEPT ![loop[s].path] = Overlaid(@, c.offset, c.data)]
  /\ loop' = [loop EXCEPT ![s].at = "commit"]
  /\ UNCHANGED <<sender, bounds, transfers, failed>>

Hashed(s) == loop[s].hasher \o loop[s].chunk.data

(* The check comes after the offset and the hasher have been advanced. The *)
(* index is not checked again: if a shorter offer of the same id came in   *)
(* between, it panics, and the loop ends.                                  *)
Commit(s) ==
  /\ loop[s].at = "commit"
  /\ LET c == loop[s].chunk
         progress == transfers[c.id]
     IN IF progress # None /\ c.file \in 1..Len(progress.files)
        THEN /\ transfers' = [transfers EXCEPT
                  ![c.id].received[c.file] = @ + Len(c.data), ![c.id].hashed[c.file] = Hashed(s)]
             /\ failed' = IF c.isLast /\ Hashed(s) # progress.files[c.file].content
                          THEN failed \cup {<<s, c.id>>} ELSE failed
             /\ loop' = [loop EXCEPT ![s] = Recv]
        ELSE /\ failed' = IF progress = None THEN failed \cup {<<s, c.id>>} ELSE failed
             /\ loop' = [loop EXCEPT ![s] = IF progress = None THEN Recv ELSE Dead]
             /\ UNCHANGED transfers
  /\ UNCHANGED <<sender, bounds, disk>>

-----------------------------------------------------------------------------
Receive(s) ==
  \/ HandleOffer(s) \/ CreateFile(s) \/ Insert(s) \/ Write(s) \/ Commit(s)
  \/ \E t \in Ids : HandleChunk(s, t)

Next ==
  \E s \in Senders :
    \/ \E list \in Selections : StartTransfer(s, list)
    \/ SendChunk(s) \/ Receive(s) \/ Break(s)
    \/ \E n \in Names, content \in Contents : Edit(s, n, content)

Spec == Init /\ [][Next]_vars

(* send_files and the inbound loop go on; users and networks need not. *)
Fairness == \A s \in Senders : WF_vars(SendChunk(s)) /\ WF_vars(Receive(s))

FairSpec == Spec /\ Fairness

-----------------------------------------------------------------------------
(* TypeOK: a manifest entry or chunk always refers to a file of its        *)
(* transfer, and the sender never reads past the end (send_files).         *)
TypeOK ==
  /\ \A s \in Senders :
       /\ position[s] # Idle =>
            /\ position[s].id \in DOMAIN manifest[s]
            /\ position[s].file \in DOMAIN manifest[s][position[s].id]
       /\ ToSet(control[s]) \subseteq DOMAIN manifest[s]
       /\ \A t \in Ids : \A i \in DOMAIN streams[s][t] :
            streams[s][t][i].id = t /\ streams[s][t][i].data # <<>>
       /\ loop[s].at \in {"recv", "create", "write", "commit", "dead"}
  /\ \A t \in Ids : transfers[t] # None =>
       \A i \in DOMAIN transfers[t].files : transfers[t].received[i] \in Nat
  /\ failed \cup cut \subseteq Senders \X Ids

(* The entries of the offers made: sender, transfer and file. *)
Entries ==
  UNION {UNION {{<<s, t, i>> : i \in DOMAIN manifest[s][t]} : t \in DOMAIN manifest[s]} : s \in Senders}

Carriers(name) == {e \in Entries : manifest[e[1]][e[2]][e[3]].name = name}

(* OffsetsOnDisk: the offsets a sender may resume from are true: the bytes *)
(* counted as received of a file are on the disk, they are the ones that   *)
(* were hashed, and no chunk was lost between them. Said of a name that    *)
(* one offer alone carries: another offer of it truncates the file, even   *)
(* an offer that is rejected for a later name (write_chunk advances the    *)
(* offset after the write; resume_offsets returns it).                     *)
OffsetsOnDisk ==
  \A t \in Ids : transfers[t] # None =>
    \A i \in DOMAIN transfers[t].files :
      LET name == transfers[t].files[i].name IN
      (\A c, d \in Carriers(name) : c = d) =>
        /\ transfers[t].received[i] = Len(transfers[t].hashed[i])
        /\ IsPrefix(transfers[t].hashed[i], disk[name])

Complete(s, t) ==
  /\ transfers[t] # None
  /\ \A i \in DOMAIN manifest[s][t] : transfers[t].received[i] = Len(manifest[s][t][i].content)

(* TransferSettles: a transfer of files nobody edits ends: complete,       *)
(* reported as failed by the receiver, or cut by the connection            *)
(* (send_files sends every file up to its end, chunks are never skipped).  *)
TransferSettles ==
  \A s \in Senders, t \in Ids :
    (t \in DOMAIN manifest[s])
      ~> (Complete(s, t) \/ <<s, t>> \in failed \cup cut \/ edits > 0)

(* EveryFileArrives: an offered file arrives (the receiver prepares its    *)
(* drop dir, then writes the chunks: filetransfer_mgr.rs).                 *)
EveryFileArrives ==
  \A s \in Senders, t \in Ids : (t \in DOMAIN manifest[s]) ~> Complete(s, t)

Verifies(s) ==
  /\ loop[s].at = "commit" /\ loop[s].chunk.isLast
  /\ transfers[loop[s].chunk.id] # None
  /\ Hashed(s) = transfers[loop[s].chunk.id].files[loop[s].chunk.file].content

(* VerifiedOnDisk: what passes the hash check is what lies on the disk     *)
(* (the hash is computed from the chunks, not from the file).              *)
VerifiedOnDisk ==
  \A s \in Senders : Verifies(s) =>
    disk[loop[s].path] = transfers[loop[s].chunk.id].files[loop[s].chunk.file].content

(* CompleteIsVerified: a file that is received in full, and is not the     *)
(* announced content, has been reported (filetransfer: blake3              *)
(* verification).                                                          *)
CompleteIsVerified ==
  \A s \in Senders, t \in Ids :
    (transfers[t] # None /\ position[s].id # t /\ streams[s][t] = <<>> /\ loop[s] = Recv
       /\ <<s, t>> \notin cut)
      => \/ <<s, t>> \in failed
         \/ \A i \in DOMAIN transfers[t].files :
              transfers[t].hashed[i] = transfers[t].files[i].content
=============================================================================
