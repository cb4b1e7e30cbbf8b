-------------------------- MODULE FileTransferProofs --------------------------
(***************************************************************************)
(* Theorems about FileTransfer for any names, contents, chunk size and     *)
(* number of transfers: its types for any number of senders, the truth of  *)
(* the offsets for one.                                                    *)
(***************************************************************************)
EXTENDS FileTransfer, SequenceTheorems, TLAPS

-----------------------------------------------------------------------------
(* Files: type correctness, for any number of senders *)

File  == [name : Names, content : Contents]
Chunk == [id : Ids, file : Nat \ {0}, offset : Nat, data : Seq(Nat), isLast : BOOLEAN]

Progress == {p \in [files : Seq(File), received : Seq(Nat), hashed : Seq(Seq(Nat))] :
               Len(p.received) = Len(p.files) /\ Len(p.hashed) = Len(p.files)}

Creating == [at : {"create"}, id : Ids, files : Seq(File), next : Nat \ {0}]

Loop == {Recv, Dead} \cup Creating
          \cup [at : {"write", "commit"}, chunk : Chunk, path : Names, hasher : Seq(Nat)]

Place == {Idle} \cup [id : Ids, file : Nat \ {0}, offset : Nat]

FileTypes ==
  /\ source \in [Senders -> [Names -> Contents]]
  /\ manifest \in [Senders -> Seq(Seq(File))]
  /\ position \in [Senders -> Place]
  /\ control \in [Senders -> Seq(Ids)]
  /\ streams \in [Senders -> [Ids -> Seq(Chunk)]]
  /\ loop \in [Senders -> Loop]
  /\ transfers \in [Ids -> {None} \cup Progress]
  /\ disk \in [Names -> {None} \cup Seq(Nat)]
  /\ failed \cup cut \subseteq Senders \X Ids

(* What is under way belongs to a transfer that was started. *)
Started ==
  \A s \in Senders :
    /\ Len(manifest[s]) <= MaxTransfers
    /\ position[s] # Idle =>
         /\ position[s].id \in 1..Len(manifest[s])
         /\ position[s].file \in 1..Len(manifest[s][position[s].id])
    /\ \A i \in 1..Len(control[s]) : control[s][i] \in 1..Len(manifest[s])
    /\ \A t \in Ids : \A i \in 1..Len(streams[s][t]) :
         streams[s][t][i].id = t /\ streams[s][t][i].data # <<>>

(* A file that is written was created; of an offer being prepared the files *)
(* before the next one were.                                               *)
Made(files) == \A i \in 1..Len(files) : disk[files[i].name] \in Seq(Nat)
MadeTo(files, next) == \A i \in 1..Len(files) : i < next => disk[files[i].name] \in Seq(Nat)

Prepared ==
  /\ \A t \in Ids : transfers[t] # None => Made(transfers[t].files)
  /\ \A s \in Senders :
       /\ loop[s].at = "create" => MadeTo(loop[s].files, loop[s].next)
       /\ loop[s].at \in {"write", "commit"} => disk[loop[s].path] \in Seq(Nat)

LEMMA ContentType == ASSUME NEW content \in Contents PROVE content \in Seq(Nat)
<1>1. content \in Seq(Nat \ {0})
  BY TransferAssumption
<1> QED BY <1>1

(* What is read of a file is a piece of it, however short the file is now. *)
LEMMA ReadType ==
  ASSUME NEW content \in Seq(Nat), NEW offset \in Nat
  PROVE  ReadAt(content, offset) \in Seq(Nat)
<1> DEFINE end == IF offset + ChunkSize < Len(content) THEN offset + ChunkSize ELSE Len(content)
<1>1. (end \in 0..Len(content) /\ offset + 1 \in 1..Len(content) + 1) \/ end < offset + 1
  BY TransferAssumption
<1>2. ReadAt(content, offset) = SubSeq(content, offset + 1, end)
  BY DEF ReadAt
<1>3. end \in Int /\ offset + 1 \in Int
  BY TransferAssumption
<1> HIDE DEF end
<1>4. CASE end < offset + 1
  BY <1>2, <1>3, <1>4, SubSeqEmpty
<1>5. CASE ~(end < offset + 1)
  <2>1. \A i \in offset + 1..end : i \in 1..Len(content)
    BY <1>1, <1>3, <1>5
  <2>2. \A i \in offset + 1..end : content[i] \in Nat
    BY <2>1
  <2> QED BY <1>2, <1>3, <2>2, SubSeqProperties
<1> QED BY <1>4, <1>5

(* A write leaves a content, and the data where it was written. *)
LEMMA OverlaidType ==
  ASSUME NEW content \in Seq(Nat), NEW offset \in Nat, NEW data \in Seq(Nat)
  PROVE  /\ Overlaid(content, offset, data) \in Seq(Nat)
         /\ Len(Overlaid(content, offset, data)) >= offset + Len(data)
         /\ Len(Overlaid(content, offset, data)) >= Len(content)
         /\ \A i \in 1..Len(Overlaid(content, offset, data)) :
              Overlaid(content, offset, data)[i] =
                IF i \in (offset + 1)..(offset + Len(data)) THEN data[i - offset]
                ELSE IF i \in 1..Len(content) THEN content[i] ELSE 0
<1> DEFINE n    == IF offset + Len(data) > Len(content) THEN offset + Len(data) ELSE Len(content)
           u(i) == IF i \in (offset + 1)..(offset + Len(data)) THEN data[i - offset]
                   ELSE IF i \in 1..Len(content) THEN content[i] ELSE 0
<1>1. n \in Nat /\ n >= offset + Len(data) /\ n >= Len(content)
  OBVIOUS
<1>2. \A i \in 1..n : u(i) \in Nat
  <2> TAKE i \in 1..n
  <2>1. CASE i \in (offset + 1)..(offset + Len(data))
    <3>1. i - offset \in 1..Len(data)
      BY <2>1
    <3> QED BY <2>1, <3>1
  <2>2. CASE i \notin (offset + 1)..(offset + Len(data))
    BY <2>2
  <2> QED BY <2>1, <2>2
<1>3. Overlaid(content, offset, data) = [i \in 1..n |-> u(i)]
  BY DEF Overlaid
<1> HIDE DEF n, u
<1>4. [i \in 1..n |-> u(i)] \in Seq(Nat) /\ Len([i \in 1..n |-> u(i)]) = n
  BY <1>1, <1>2, IsASeq
<1> QED BY <1>1, <1>3, <1>4 DEF u

(* A prefix, unit by unit *)
LEMMA PrefixUnits ==
  ASSUME NEW a \in Seq(Nat), NEW b \in Seq(Nat)
  PROVE  IsPrefix(a, b) <=> Len(a) <= Len(b) /\ \A i \in 1..Len(a) : a[i] = b[i]
<1>1. ASSUME Len(a) <= Len(b)
      PROVE  /\ SubSeq(a, 1, Len(a)) = a
             /\ SubSeq(b, 1, Len(a)) \in Seq(Nat)
             /\ Len(SubSeq(b, 1, Len(a))) = Len(a)
             /\ \A i \in 1..Len(a) : SubSeq(b, 1, Len(a))[i] = b[i]
  <2>1. SubSeq(a, 1, Len(a)) = a
    BY SubSeqFull
  <2>2. 1 \in Int /\ Len(a) \in Int /\ \A i \in 1..Len(a) : b[i] \in Nat
    BY <1>1
  <2> QED BY <2>1, <2>2, SubSeqProperties
<1>2. ASSUME Len(a) <= Len(b), \A i \in 1..Len(a) : a[i] = b[i]
      PROVE  a = SubSeq(b, 1, Len(a))
  BY <1>1, <1>2, SeqEqual
<1> QED BY <1>1, <1>2 DEF IsPrefix

(* What was hashed stays on the disk when the next chunk is written behind *)
(* it, and the chunk is there too.                                         *)
LEMMA WrittenBehind ==
  ASSUME NEW content \in Seq(Nat), NEW hasher \in Seq(Nat), NEW data \in Seq(Nat),
         IsPrefix(hasher, content)
  PROVE  /\ IsPrefix(hasher, Overlaid(content, Len(hasher), data))
         /\ IsPrefix(hasher \o data, Overlaid(content, Len(hasher), data))
<1> DEFINE over == Overlaid(content, Len(hasher), data)
<1>1. Len(hasher) \in Nat
  OBVIOUS
<1>2. /\ over \in Seq(Nat)
      /\ Len(over) >= Len(hasher) + Len(data)
      /\ \A i \in 1..Len(over) :
           over[i] = IF i \in (Len(hasher) + 1)..(Len(hasher) + Len(data)) THEN data[i - Len(hasher)]
                     ELSE IF i \in 1..Len(content) THEN content[i] ELSE 0
  BY <1>1, OverlaidType
<1>3. Len(hasher) <= Len(content) /\ \A i \in 1..Len(hasher) : hasher[i] = content[i]
  BY PrefixUnits
<1>4. /\ hasher \o data \in Seq(Nat)
      /\ Len(hasher \o data) = Len(hasher) + Len(data)
      /\ \A i \in 1..Len(hasher) + Len(data) :
           (hasher \o data)[i] = IF i <= Len(hasher) THEN hasher[i] ELSE data[i - Len(hasher)]
  BY ConcatProperties
<1> HIDE DEF over
<1>5. \A i \in 1..Len(hasher) : hasher[i] = over[i]
  <2> TAKE i \in 1..Len(hasher)
  <2>1. i \in 1..Len(over) /\ i \in 1..Len(content) /\ i \notin (Len(hasher) + 1)..(Len(hasher) + Len(data))
    BY <1>2, <1>3
  <2> QED BY <1>2, <1>3, <2>1
<1>6. \A i \in 1..Len(hasher) + Len(data) : (hasher \o data)[i] = over[i]
  <2> TAKE i \in 1..Len(hasher) + Len(data)
  <2>1. CASE i <= Len(hasher)
    BY <1>4, <1>5, <2>1
  <2>2. CASE ~(i <= Len(hasher))
    <3>1. i \in 1..Len(over) /\ i \in (Len(hasher) + 1)..(Len(hasher) + Len(data))
      BY <1>2, <2>2
    <3> QED BY <1>2, <1>4, <2>2, <3>1
  <2> QED BY <2>1, <2>2
<1>7. Len(hasher) <= Len(over)
  BY <1>2
<1>8. IsPrefix(hasher, over)
  BY <1>2, <1>5, <1>7, PrefixUnits
<1>9. IsPrefix(hasher \o data, over)
  BY <1>2, <1>4, <1>6, PrefixUnits
<1> QED BY <1>8, <1>9 DEF over

LEMMA FilesInit == Init => FileTypes /\ Started /\ Prepared
<1> SUFFICES ASSUME Init PROVE FileTypes /\ Started /\ Prepared
  OBVIOUS
<1>1. FileTypes
  BY DEF Init, FileTypes, Place, Loop
<1>2. Started
  BY TransferAssumption DEF Init, Started
<1>3. Prepared
  BY DEF Init, Prepared, Recv
<1> QED BY <1>1, <1>2, <1>3

(* What a sender, the network and the owner of a file change *)
LEMMA FilesStart ==
  ASSUME FileTypes, Started, NEW s \in Senders, NEW list \in Selections, StartTransfer(s, list)
  PROVE  FileTypes' /\ Started'
<1> DEFINE files == [i \in 1..Len(list) |-> Entry(s, list[i])]
           id    == Len(manifest[s]) + 1
<1>1. /\ position[s] = Idle /\ Len(manifest[s]) < MaxTransfers
      /\ manifest' = [manifest EXCEPT ![s] = Append(manifest[s], files)]
      /\ control' = [control EXCEPT ![s] = Append(control[s], id)]
      /\ position' = [position EXCEPT ![s] =
                        IF list = <<>> THEN Idle ELSE [id |-> id, file |-> 1, offset |-> 0]]
      /\ UNCHANGED <<source, streams, bounds, receiver>>
  BY DEF StartTransfer
<1>2. list \in Seq(Names) /\ MaxTransfers \in Nat
  BY TransferAssumption
<1>3. files \in Seq(File) /\ Len(files) = Len(list)
  <2>1. \A i \in 1..Len(list) : Entry(s, list[i]) \in File
    BY <1>2 DEF Entry, File, FileTypes
  <2>2. Len(list) \in Nat
    BY <1>2
  <2> QED BY <2>1, <2>2, IsASeq
<1>4. id \in Ids
  BY <1>1, <1>2 DEF Ids, FileTypes
<1> HIDE DEF files
<1>5. FileTypes'
  BY <1>1, <1>3, <1>4 DEF FileTypes, Place, bounds, receiver, Ids
<1>6. /\ manifest'[s] = Append(manifest[s], files) /\ control'[s] = Append(control[s], id)
      /\ \A r \in Senders : r # s => manifest'[r] = manifest[r] /\ control'[r] = control[r] /\ position'[r] = position[r]
      /\ position'[s] = IF list = <<>> THEN Idle ELSE [id |-> id, file |-> 1, offset |-> 0]
      /\ streams' = streams
  BY <1>1 DEF FileTypes, bounds
<1>7. Len(manifest'[s]) = id /\ manifest'[s][id] = files
  BY <1>3, <1>6, AppendProperties DEF FileTypes
<1>8. \A i \in 1..Len(control'[s]) : control'[s][i] \in 1..id
  BY <1>6, AppendProperties DEF FileTypes, Started
<1>9. Started'
  <2> SUFFICES ASSUME NEW r \in Senders
               PROVE  /\ Len(manifest'[r]) <= MaxTransfers
                      /\ position'[r] # Idle =>
                           /\ position'[r].id \in 1..Len(manifest'[r])
                           /\ position'[r].file \in 1..Len(manifest'[r][position'[r].id])
                      /\ \A i \in 1..Len(control'[r]) : control'[r][i] \in 1..Len(manifest'[r])
                      /\ \A t \in Ids : \A i \in 1..Len(streams'[r][t]) :
                           streams'[r][t][i].id = t /\ streams'[r][t][i].data # <<>>
    BY DEF Started
  <2>1. CASE r # s
    BY <1>6, <2>1 DEF Started
  <2>2. CASE r = s
    <3>1. list # <<>> => 1 \in 1..Len(files)
      BY <1>2, <1>3
    <3>2. id \in 1..id /\ id <= MaxTransfers
      BY <1>4 DEF Ids
    <3> HIDE DEF id
    <3>3. Len(manifest'[s]) <= MaxTransfers
      BY <1>7, <3>2
    <3>4. position'[s] # Idle => position'[s] = [id |-> id, file |-> 1, offset |-> 0] /\ list # <<>>
      BY <1>6
    <3>5. position'[s] # Idle => position'[s].id = id /\ position'[s].file = 1 /\ 1 \in 1..Len(files)
      BY <3>1, <3>4
    <3>6. position'[s] # Idle =>
            position'[s].id \in 1..Len(manifest'[s])
              /\ position'[s].file \in 1..Len(manifest'[s][position'[s].id])
      BY <1>7, <3>2, <3>5
    <3>7. \A i \in 1..Len(control'[s]) : control'[s][i] \in 1..Len(manifest'[s])
      BY <1>7, <1>8
    <3>8. \A t \in Ids : \A i \in 1..Len(streams'[s][t]) :
            streams'[s][t][i].id = t /\ streams'[s][t][i].data # <<>>
      BY <1>6 DEF Started
    <3> QED BY <2>2, <3>3, <3>6, <3>7, <3>8
  <2> QED BY <2>1, <2>2
<1> QED BY <1>5, <1>9

LEMMA FilesSend ==
  ASSUME FileTypes, Started, NEW s \in Senders, SendChunk(s)
  PROVE  FileTypes' /\ Started'
<1> DEFINE p      == position[s]
           name   == manifest[s][p.id][p.file].name
           data   == ReadAt(source[s][name], p.offset)
           isLast == Len(data) < ChunkSize
           chunk  == [id |-> p.id, file |-> p.file, offset |-> p.offset, data |-> data, isLast |-> isLast]
           next   == IF EndsFile(data, isLast) THEN NextFile(s)
                     ELSE [p EXCEPT !.offset = p.offset + Len(data)]
<1>1. /\ p # Idle
      /\ streams' = IF data = <<>> THEN streams
                    ELSE [streams EXCEPT ![s][p.id] = Append(streams[s][p.id], chunk)]
      /\ position' = [position EXCEPT ![s] = next]
      /\ UNCHANGED <<source, manifest, control, bounds, receiver>>
  BY DEF SendChunk
<1>2. /\ p \in [id : Ids, file : Nat \ {0}, offset : Nat]
      /\ p.id \in 1..Len(manifest[s]) /\ p.file \in 1..Len(manifest[s][p.id])
  BY <1>1 DEF FileTypes, Started, Place
<1>3. data \in Seq(Nat) /\ chunk \in Chunk
  <2>1. manifest[s][p.id] \in Seq(File) /\ manifest[s][p.id][p.file] \in File
    BY <1>2 DEF FileTypes
  <2>2. source[s][name] \in Seq(Nat)
    BY <2>1, ContentType DEF FileTypes, File
  <2>3. data \in Seq(Nat)
    BY <1>2, <2>2, ReadType
  <2> HIDE DEF data
  <2> QED BY <1>2, <2>3 DEF Chunk
<1>4. next \in Place /\ (next # Idle => next.id = p.id /\ next.file \in 1..Len(manifest[s][p.id]))
  <2> HIDE DEF data, isLast
  <2>1. Len(data) \in Nat
    BY <1>3
  <2>2. Len(manifest[s][p.id]) \in Nat
    BY <1>2 DEF FileTypes
  <2>3. NextFile(s) = IF p.file = Len(manifest[s][p.id]) THEN Idle
                      ELSE [p EXCEPT !.file = p.file + 1, !.offset = 0]
    BY DEF NextFile
  <2> HIDE DEF p
  <2>4. CASE EndsFile(data, isLast) /\ p.file = Len(manifest[s][p.id])
    <3>1. next = Idle
      BY <2>3, <2>4
    <3> QED BY <3>1 DEF Place
  <2>5. CASE EndsFile(data, isLast) /\ p.file # Len(manifest[s][p.id])
    <3>1. next = [p EXCEPT !.file = p.file + 1, !.offset = 0]
      BY <2>3, <2>5
    <3>2. p.file + 1 \in 1..Len(manifest[s][p.id])
      BY <1>2, <2>2, <2>5
    <3> HIDE DEF next
    <3>3. /\ next \in [id : Ids, file : Nat \ {0}, offset : Nat]
          /\ next.id = p.id /\ next.file = p.file + 1
      <4> DEFINE q == [p EXCEPT !.file = p.file + 1]
      <4>1. p.file + 1 \in Nat \ {0} /\ 0 \in Nat
        BY <1>2
      <4>2. q \in [id : Ids, file : Nat \ {0}, offset : Nat] /\ q.id = p.id /\ q.file = p.file + 1
        BY <1>2, <4>1
      <4>3. next = [q EXCEPT !.offset = 0]
        BY <3>1
      <4> HIDE DEF q
      <4> QED BY <4>1, <4>2, <4>3
    <3> QED BY <3>2, <3>3 DEF Place
  <2>6. CASE ~EndsFile(data, isLast)
    <3>1. next = [p EXCEPT !.offset = p.offset + Len(data)]
      BY <2>6
    <3> HIDE DEF next
    <3>2. /\ next \in [id : Ids, file : Nat \ {0}, offset : Nat]
          /\ next.id = p.id /\ next.file = p.file
      BY <1>2, <2>1, <3>1
    <3> QED BY <1>2, <3>2 DEF Place
  <2> HIDE DEF next
  <2> QED BY <2>4, <2>5, <2>6
<1> HIDE DEF data, isLast, chunk, next
<1>5. /\ streams' \in [Senders -> [Ids -> Seq(Chunk)]]
      /\ \A r \in Senders, t \in Ids : \A i \in 1..Len(streams'[r][t]) :
           streams'[r][t][i].id = t /\ streams'[r][t][i].data # <<>>
  <2>1. CASE data = <<>>
    BY <1>1, <2>1 DEF FileTypes, Started
  <2>2. CASE data # <<>>
    <3>1. streams' = [streams EXCEPT ![s][p.id] = Append(streams[s][p.id], chunk)]
      BY <1>1, <2>2
    <3>2. /\ Append(streams[s][p.id], chunk) \in Seq(Chunk)
          /\ \A i \in 1..Len(Append(streams[s][p.id], chunk)) :
               \/ i \in 1..Len(streams[s][p.id]) /\ Append(streams[s][p.id], chunk)[i] = streams[s][p.id][i]
               \/ Append(streams[s][p.id], chunk)[i] = chunk
      BY <1>2, <1>3, AppendProperties DEF FileTypes
    <3>3. chunk.id = p.id /\ chunk.data # <<>>
      BY <2>2 DEF chunk
    <3>4. /\ streams'[s][p.id] = Append(streams[s][p.id], chunk)
          /\ \A r \in Senders, t \in Ids : <<r, t>> # <<s, p.id>> => streams'[r][t] = streams[r][t]
      BY <1>2, <3>1 DEF FileTypes
    <3>5. streams' \in [Senders -> [Ids -> Seq(Chunk)]]
      BY <1>2, <3>1, <3>2 DEF FileTypes
    <3>6. ASSUME NEW r \in Senders, NEW t \in Ids, NEW i \in 1..Len(streams'[r][t])
          PROVE  streams'[r][t][i].id = t /\ streams'[r][t][i].data # <<>>
      <4>1. CASE <<r, t>> = <<s, p.id>>
        <5>1. r = s /\ t = p.id /\ streams'[r][t] = Append(streams[s][p.id], chunk)
          BY <3>4, <4>1
        <5>2. CASE streams'[r][t][i] = chunk
          BY <3>3, <5>1, <5>2
        <5>3. CASE i \in 1..Len(streams[s][p.id]) /\ streams'[r][t][i] = streams[s][p.id][i]
          BY <5>1, <5>3 DEF Started
        <5> QED BY <3>2, <5>1, <5>2, <5>3
      <4>2. CASE <<r, t>> # <<s, p.id>>
        BY <3>4, <4>2 DEF Started
      <4> QED BY <4>1, <4>2
    <3> QED BY <3>5, <3>6
  <2> QED BY <2>1, <2>2
<1>6. FileTypes'
  BY <1>1, <1>4, <1>5 DEF FileTypes, bounds, receiver, Ids
<1>7. position'[s] = next /\ \A r \in Senders : r # s => position'[r] = position[r]
  BY <1>1 DEF FileTypes
<1>8. Started'
  <2>1. manifest' = manifest /\ control' = control
    BY <1>1
  <2>2. ASSUME NEW r \in Senders, position'[r] # Idle
        PROVE  /\ position'[r].id \in 1..Len(manifest[r])
               /\ position'[r].file \in 1..Len(manifest[r][position'[r].id])
    <3>1. CASE r = s
      BY <1>2, <1>4, <1>7, <2>2, <3>1
    <3>2. CASE r # s
      BY <1>7, <2>2, <3>2 DEF Started
    <3> QED BY <3>1, <3>2
  <2>3. \A r \in Senders : /\ Len(manifest[r]) <= MaxTransfers
                           /\ \A i \in 1..Len(control[r]) : control[r][i] \in 1..Len(manifest[r])
    BY DEF Started
  <2> QED BY <1>5, <2>1, <2>2, <2>3 DEF Started
<1> QED BY <1>6, <1>8

LEMMA FilesBreak ==
  ASSUME FileTypes, Started, NEW s \in Senders, Break(s)
  PROVE  FileTypes' /\ Started'
<1>1. /\ position' = [position EXCEPT ![s] = Idle]
      /\ control' = [control EXCEPT ![s] = <<>>]
      /\ streams' = [streams EXCEPT ![s] = [t \in Ids |-> <<>>]]
      /\ UNCHANGED <<source, manifest, receiver>>
  BY DEF Break
<1>2. cut' \subseteq Senders \X Ids
  <2>1. cut' = cut \cup {<<s, t>> : t \in Underway(s)}
    BY DEF Break
  <2>2. Underway(s) \subseteq Ids
    BY TransferAssumption DEF Underway, FileTypes, Started, Ids
  <2> QED BY <2>1, <2>2 DEF FileTypes
<1>3. FileTypes'
  BY <1>1, <1>2 DEF FileTypes, Place, receiver, Ids
<1>4. Started'
  BY <1>1 DEF FileTypes, Started
<1> QED BY <1>3, <1>4

LEMMA FilesEdit ==
  ASSUME FileTypes, Started, NEW s \in Senders, NEW n \in Names, NEW content \in Contents,
         Edit(s, n, content)
  PROVE  FileTypes' /\ Started'
<1>1. FileTypes'
  BY DEF Edit, FileTypes, receiver, Ids
<1>2. Started'
  BY DEF Edit, Started, Ids
<1> QED BY <1>1, <1>2

(* What the receiver changes: nothing of a sender but the heads of its      *)
(* queues, and of a file that was created never that it is there.          *)
LEMMA FilesKeepStarted ==
  ASSUME FileTypes, Started, UNCHANGED <<manifest, position>>, NEW s \in Senders,
         \/ UNCHANGED control
         \/ control[s] # <<>> /\ control' = [control EXCEPT ![s] = Tail(control[s])],
         \/ UNCHANGED streams
         \/ \E t \in Ids : /\ streams[s][t] # <<>>
                           /\ streams' = [streams EXCEPT ![s][t] = Tail(streams[s][t])]
  PROVE  Started' /\ control' \in [Senders -> Seq(Ids)] /\ streams' \in [Senders -> [Ids -> Seq(Chunk)]]
<1>1. /\ control' \in [Senders -> Seq(Ids)]
      /\ \A r \in Senders : \A i \in 1..Len(control'[r]) : control'[r][i] \in 1..Len(manifest[r])
  <2>1. CASE UNCHANGED control
    BY <2>1 DEF FileTypes, Started
  <2>2. CASE control[s] # <<>> /\ control' = [control EXCEPT ![s] = Tail(control[s])]
    <3>1. /\ Tail(control[s]) \in Seq(Ids) /\ Len(Tail(control[s])) = Len(control[s]) - 1
          /\ \A i \in 1..Len(Tail(control[s])) : Tail(control[s])[i] = control[s][i + 1]
      BY <2>2, HeadTailProperties DEF FileTypes
    <3>2. control' \in [Senders -> Seq(Ids)]
      BY <2>2, <3>1 DEF FileTypes
    <3>3. control'[s] = Tail(control[s]) /\ \A r \in Senders : r # s => control'[r] = control[r]
      BY <2>2 DEF FileTypes
    <3>4. ASSUME NEW i \in 1..Len(Tail(control[s]))
          PROVE  Tail(control[s])[i] \in 1..Len(manifest[s])
      <4>1. Len(control[s]) \in Nat
        BY DEF FileTypes
      <4>2. i + 1 \in 1..Len(control[s])
        BY <3>1, <4>1
      <4> QED BY <3>1, <4>2 DEF Started
    <3>5. ASSUME NEW r \in Senders, NEW i \in 1..Len(control'[r])
          PROVE  control'[r][i] \in 1..Len(manifest[r])
      <4>1. CASE r = s
        BY <3>3, <3>4, <4>1
      <4>2. CASE r # s
        BY <3>3, <4>2 DEF Started
      <4> QED BY <4>1, <4>2
    <3> QED BY <3>2, <3>5
  <2> QED BY <2>1, <2>2
<1>2. /\ streams' \in [Senders -> [Ids -> Seq(Chunk)]]
      /\ \A r \in Senders, t \in Ids : \A i \in 1..Len(streams'[r][t]) :
           streams'[r][t][i].id = t /\ streams'[r][t][i].data # <<>>
  <2>1. CASE UNCHANGED streams
    BY <2>1 DEF FileTypes, Started
  <2>2. ASSUME NEW u \in Ids, streams[s][u] # <<>>,
               streams' = [streams EXCEPT ![s][u] = Tail(streams[s][u])]
        PROVE  /\ streams' \in [Senders -> [Ids -> Seq(Chunk)]]
               /\ \A r \in Senders, t \in Ids : \A i \in 1..Len(streams'[r][t]) :
                    streams'[r][t][i].id = t /\ streams'[r][t][i].data # <<>>
    <3>1. /\ Tail(streams[s][u]) \in Seq(Chunk) /\ Len(Tail(streams[s][u])) = Len(streams[s][u]) - 1
          /\ \A i \in 1..Len(Tail(streams[s][u])) : Tail(streams[s][u])[i] = streams[s][u][i + 1]
      BY <2>2, HeadTailProperties DEF FileTypes
    <3>2. streams' \in [Senders -> [Ids -> Seq(Chunk)]]
      BY <2>2, <3>1 DEF FileTypes
    <3>3. /\ streams'[s][u] = Tail(streams[s][u])
          /\ \A r \in Senders, t \in Ids : <<r, t>> # <<s, u>> => streams'[r][t] = streams[r][t]
      BY <2>2 DEF FileTypes
    <3>4. ASSUME NEW i \in 1..Len(Tail(streams[s][u]))
          PROVE  Tail(streams[s][u])[i].id = u /\ Tail(streams[s][u])[i].data # <<>>
      <4>1. Len(streams[s][u]) \in Nat
        BY DEF FileTypes
      <4>2. i + 1 \in 1..Len(streams[s][u])
        BY <3>1, <4>1
      <4> QED BY <3>1, <4>2 DEF Started
    <3>5. ASSUME NEW r \in Senders, NEW t \in Ids, NEW i \in 1..Len(streams'[r][t])
          PROVE  streams'[r][t][i].id = t /\ streams'[r][t][i].data # <<>>
      <4>1. CASE <<r, t>> = <<s, u>>
        <5>1. r = s /\ t = u
          BY <4>1
        <5> QED BY <3>3, <3>4, <5>1
      <4>2. CASE <<r, t>> # <<s, u>>
        BY <3>3, <4>2 DEF Started
      <4> QED BY <4>1, <4>2
    <3> QED BY <3>2, <3>5
  <2> QED BY <2>1, <2>2
<1>3. Started'
  BY <1>1, <1>2 DEF Started, Ids
<1> QED BY <1>1, <1>2, <1>3

LEMMA FileNames ==
  ASSUME NEW files \in Seq(File)
  PROVE  \A i \in 1..Len(files) : files[i] \in File /\ files[i].name \in Names
<1>1. \A i \in 1..Len(files) : files[i] \in File
  OBVIOUS
<1>2. \A f \in File : f.name \in Names
  BY DEF File
<1> QED BY <1>1, <1>2

LEMMA LoopCases ==
  ASSUME NEW l \in Loop
  PROVE  /\ l.at \in {"recv", "create", "write", "commit", "dead"}
         /\ l.at = "create" => l \in Creating
         /\ l.at \in {"write", "commit"} =>
              l \in [at : {"write", "commit"}, chunk : Chunk, path : Names, hasher : Seq(Nat)]
<1>1. CASE l = Recv \/ l = Dead
  BY <1>1 DEF Recv, Dead
<1>2. CASE l \in Creating
  <2>1. l.at = "create"
    BY <1>2 DEF Creating
  <2> QED BY <1>2, <2>1
<1>3. CASE l \in [at : {"write", "commit"}, chunk : Chunk, path : Names, hasher : Seq(Nat)]
  <2>1. l.at \in {"write", "commit"}
    BY <1>3
  <2> QED BY <1>3, <2>1
<1> QED BY <1>1, <1>2, <1>3 DEF Loop

LEMMA LoopCreate ==
  ASSUME NEW l \in Loop, l.at = "create"
  PROVE  l.id \in Ids /\ l.files \in Seq(File) /\ l.next \in Nat \ {0}
BY LoopCases DEF Creating

LEMMA LoopWrite ==
  ASSUME NEW l \in Loop, l.at \in {"write", "commit"}
  PROVE  l.chunk \in Chunk /\ l.path \in Names /\ l.hasher \in Seq(Nat)
BY LoopCases

(* Created files stay created. *)
LEMMA FilesStayMade ==
  ASSUME NEW files \in Seq(File), Made(files),
         \A n \in Names : disk[n] \in Seq(Nat) => disk'[n] \in Seq(Nat)
  PROVE  Made(files)'
<1>1. \A i \in 1..Len(files) : files[i].name \in Names
  BY FileNames
<1> QED BY <1>1 DEF Made

LEMMA FilesStayMadeTo ==
  ASSUME NEW files \in Seq(File), NEW next, MadeTo(files, next),
         \A n \in Names : disk[n] \in Seq(Nat) => disk'[n] \in Seq(Nat)
  PROVE  \A i \in 1..Len(files) : i < next => disk'[files[i].name] \in Seq(Nat)
<1>1. \A i \in 1..Len(files) : files[i].name \in Names
  BY FileNames
<1> QED BY <1>1 DEF MadeTo

(* Created files stay created while the loop of one connection moves on,   *)
(* if the step it moves to has created what it writes.                     *)
LEMMA FilesMovePrepared ==
  ASSUME FileTypes, Prepared, UNCHANGED transfers,
         \A n \in Names : disk[n] \in Seq(Nat) => disk'[n] \in Seq(Nat),
         NEW s \in Senders, NEW l, loop' = [loop EXCEPT ![s] = l],
         l.at = "create" =>
           \A i \in 1..Len(l.files) : i < l.next => disk'[l.files[i].name] \in Seq(Nat),
         l.at \in {"write", "commit"} => disk'[l.path] \in Seq(Nat)
  PROVE  Prepared'
<1>1. loop'[s] = l /\ \A r \in Senders : r # s => loop'[r] = loop[r]
  BY DEF FileTypes
<1>2. ASSUME NEW t \in Ids, transfers[t] # None
      PROVE  \A i \in 1..Len(transfers'[t].files) : disk'[transfers'[t].files[i].name] \in Seq(Nat)
  <2>1. transfers[t].files \in Seq(File) /\ Made(transfers[t].files)
    BY <1>2 DEF FileTypes, Progress, Prepared
  <2>2. transfers'[t].files = transfers[t].files
    OBVIOUS
  <2> QED BY <2>1, <2>2, FilesStayMade DEF Made
<1>3. ASSUME NEW r \in Senders, loop'[r].at = "create"
      PROVE  \A i \in 1..Len(loop'[r].files) :
               i < loop'[r].next => disk'[loop'[r].files[i].name] \in Seq(Nat)
  <2>1. CASE r = s
    BY <1>1, <1>3, <2>1
  <2>2. CASE r # s
    <3>1. loop'[r] = loop[r]
      BY <1>1, <2>2
    <3>2. loop[r].files \in Seq(File) /\ MadeTo(loop[r].files, loop[r].next)
      BY <1>3, <3>1, LoopCreate DEF FileTypes, Prepared
    <3> QED BY <3>1, <3>2, FilesStayMadeTo
  <2> QED BY <2>1, <2>2
<1>4. ASSUME NEW r \in Senders, loop'[r].at \in {"write", "commit"}
      PROVE  disk'[loop'[r].path] \in Seq(Nat)
  <2>1. CASE r = s
    BY <1>1, <1>4, <2>1
  <2>2. CASE r # s
    <3>1. loop'[r] = loop[r]
      BY <1>1, <2>2
    <3>2. loop[r].path \in Names /\ disk[loop[r].path] \in Seq(Nat)
      BY <1>4, <3>1, LoopWrite DEF FileTypes, Prepared
    <3> QED BY <3>1, <3>2
  <2> QED BY <2>1, <2>2
<1> QED BY <1>2, <1>3, <1>4 DEF Prepared, Made, MadeTo

LEMMA FilesOffer ==
  ASSUME FileTypes, Started, Prepared, NEW s \in Senders, HandleOffer(s)
  PROVE  FileTypes' /\ Started' /\ Prepared'
<1> DEFINE id    == Head(control[s])
           files == manifest[s][id]
           l     == [at |-> "create", id |-> id, files |-> files, next |-> 1]
<1>1. /\ loop[s].at = "recv" /\ control[s] # <<>>
      /\ control' = [control EXCEPT ![s] = Tail(control[s])]
      /\ loop' = [loop EXCEPT ![s] = l]
      /\ UNCHANGED <<source, manifest, position, streams, bounds, transfers, disk, failed>>
  BY DEF HandleOffer
<1>2. id \in Ids /\ files \in Seq(File)
  <2>1. Len(control[s]) \in Nat /\ Len(control[s]) # 0
    BY <1>1 DEF FileTypes
  <2>2. id = control[s][1] /\ 1 \in 1..Len(control[s])
    BY <2>1
  <2>3. control[s][1] \in 1..Len(manifest[s]) /\ control[s][1] \in Ids
    BY <2>2 DEF Started, FileTypes
  <2> QED BY <2>2, <2>3 DEF FileTypes
<1>3. /\ Started' /\ control' \in [Senders -> Seq(Ids)] /\ streams' \in [Senders -> [Ids -> Seq(Chunk)]]
  BY <1>1, FilesKeepStarted
<1> HIDE DEF id, files
<1>4. l \in Loop /\ l.at = "create" /\ l.files = files /\ l.next = 1
  BY <1>2 DEF Loop, Creating
<1> HIDE DEF l
<1>5. FileTypes'
  <2>1. loop' \in [Senders -> Loop]
    BY <1>1, <1>4 DEF FileTypes
  <2> QED BY <1>1, <1>3, <2>1 DEF FileTypes, bounds, Ids
<1>6. Prepared'
  <2>1. \A i \in 1..Len(l.files) : ~(i < l.next)
    BY <1>2, <1>4
  <2> QED BY <1>1, <1>4, <2>1, FilesMovePrepared
<1> QED BY <1>3, <1>5, <1>6

LEMMA FilesCreate ==
  ASSUME FileTypes, Started, Prepared, NEW s \in Senders, CreateFile(s)
  PROVE  FileTypes' /\ Started' /\ Prepared'
<1> DEFINE files == loop[s].files
           next  == loop[s].next
           name  == files[next].name
           l     == [loop[s] EXCEPT !.next = next + 1]
<1>1. /\ loop[s].at = "create" /\ next <= Len(files)
      /\ UNCHANGED <<sender, bounds, transfers>>
      /\ \/ /\ failed' = failed \cup {<<s, loop[s].id>>} /\ UNCHANGED disk
            /\ loop' = [loop EXCEPT ![s] = Recv]
         \/ /\ disk' = [disk EXCEPT ![name] = <<>>] /\ UNCHANGED failed
            /\ loop' = [loop EXCEPT ![s] = l]
  BY DEF CreateFile
<1>2. loop[s] \in Creating /\ loop[s].id \in Ids /\ files \in Seq(File) /\ next \in Nat \ {0}
      /\ MadeTo(files, next)
  BY <1>1, LoopCases, LoopCreate DEF FileTypes, Prepared
<1>3. next \in 1..Len(files) /\ name \in Names
  <2>1. next \in 1..Len(files)
    BY <1>1, <1>2
  <2> QED BY <1>2, <2>1, FileNames
<1>4. l \in Loop /\ l.at = "create" /\ l.files = files /\ l.next = next + 1
  <2>1. l \in Creating /\ l.at = "create" /\ l.files = files /\ l.next = next + 1
    BY <1>2 DEF Creating
  <2> QED BY <2>1 DEF Loop
<1>5. Started'
  BY <1>1 DEF Started, sender, Ids
<1> HIDE DEF l, name, files, next
<1>6. CASE /\ failed' = failed \cup {<<s, loop[s].id>>} /\ UNCHANGED disk
           /\ loop' = [loop EXCEPT ![s] = Recv]
  <2>1. loop' \in [Senders -> Loop] /\ failed' \subseteq Senders \X Ids
    BY <1>2, <1>6 DEF FileTypes, Loop
  <2>2. FileTypes'
    BY <1>1, <1>6, <2>1 DEF FileTypes, sender, bounds, Ids
  <2>3. Recv.at = "recv"
    BY DEF Recv
  <2>4. Prepared'
    BY <1>1, <1>6, <2>3, FilesMovePrepared
  <2> QED BY <1>5, <2>2, <2>4
<1>7. CASE /\ disk' = [disk EXCEPT ![name] = <<>>] /\ UNCHANGED failed
           /\ loop' = [loop EXCEPT ![s] = l]
  <2>1. <<>> \in Seq(Nat)
    OBVIOUS
  <2>2. /\ disk' \in [Names -> {None} \cup Seq(Nat)] /\ disk'[name] = <<>>
        /\ \A n \in Names : disk[n] \in Seq(Nat) => disk'[n] \in Seq(Nat)
    BY <1>3, <1>7, <2>1 DEF FileTypes
  <2>3. loop' \in [Senders -> Loop]
    BY <1>4, <1>7 DEF FileTypes
  <2>4. FileTypes'
    BY <1>1, <1>7, <2>2, <2>3 DEF FileTypes, sender, bounds, Ids
  <2>5. ASSUME NEW i \in 1..Len(files), i < next + 1 PROVE disk'[files[i].name] \in Seq(Nat)
    <3>1. CASE i = next
      BY <2>1, <2>2, <3>1 DEF name
    <3>2. CASE i # next
      <4>1. i < next
        BY <1>2, <2>5, <3>2
      <4> QED BY <1>2, <2>2, <4>1, FilesStayMadeTo
    <3> QED BY <3>1, <3>2
  <2>6. Prepared'
    BY <1>1, <1>4, <1>7, <2>2, <2>5, FilesMovePrepared
  <2> QED BY <1>5, <2>4, <2>6
<1> QED BY <1>1, <1>6, <1>7

LEMMA FilesInsert ==
  ASSUME FileTypes, Started, Prepared, NEW s \in Senders, Insert(s)
  PROVE  FileTypes' /\ Started' /\ Prepared'
<1> DEFINE files == loop[s].files
           p == [files |-> files, received |-> [i \in 1..Len(files) |-> 0],
                 hashed |-> [i \in 1..Len(files) |-> <<>>]]
<1>1. /\ loop[s].at = "create" /\ loop[s].next > Len(files)
      /\ transfers' = [transfers EXCEPT ![loop[s].id] = p]
      /\ loop' = [loop EXCEPT ![s] = Recv]
      /\ UNCHANGED <<sender, bounds, disk, failed>>
  BY DEF Insert
<1>2. loop[s].id \in Ids /\ files \in Seq(File) /\ Made(files)
  <2>1. /\ loop[s].id \in Ids /\ files \in Seq(File) /\ loop[s].next \in Nat
        /\ MadeTo(files, loop[s].next)
    BY <1>1, LoopCreate DEF FileTypes, Prepared
  <2>2. Made(files)
    BY <1>1, <2>1 DEF Made, MadeTo
  <2> QED BY <2>1, <2>2
<1>3. p \in Progress /\ p.files = files
  <2>1. Len(files) \in Nat /\ <<>> \in Seq(Nat) /\ 0 \in Nat
    BY <1>2
  <2> HIDE DEF files
  <2>2. [i \in 1..Len(files) |-> 0] \in Seq(Nat) /\ Len([i \in 1..Len(files) |-> 0]) = Len(files)
    BY <2>1, IsASeq
  <2>3. /\ [i \in 1..Len(files) |-> <<>>] \in Seq(Seq(Nat))
        /\ Len([i \in 1..Len(files) |-> <<>>]) = Len(files)
    BY <2>1, IsASeq
  <2> QED BY <1>2, <2>2, <2>3 DEF Progress
<1> HIDE DEF p, files
<1>4. FileTypes'
  BY <1>1, <1>2, <1>3 DEF FileTypes, sender, bounds, Loop, Ids
<1>5. Started'
  BY <1>1 DEF Started, sender, Ids
<1>6. /\ transfers'[loop[s].id] = p /\ \A t \in Ids : t # loop[s].id => transfers'[t] = transfers[t]
      /\ loop'[s].at = "recv" /\ \A r \in Senders : r # s => loop'[r] = loop[r]
      /\ disk' = disk
  BY <1>1, <1>2 DEF FileTypes, Recv
<1>7. \A t \in Ids : transfers'[t] # None => Made(transfers'[t].files)
  BY <1>2, <1>3, <1>6 DEF Prepared
<1>8. Prepared'
  BY <1>6, <1>7 DEF Prepared, Made, MadeTo
<1> QED BY <1>4, <1>5, <1>8

LEMMA FilesChunk ==
  ASSUME FileTypes, Started, Prepared, NEW s \in Senders, NEW t \in Ids, HandleChunk(s, t)
  PROVE  FileTypes' /\ Started' /\ Prepared'
<1> DEFINE chunk    == Head(streams[s][t])
           progress == transfers[t]
           l == [at |-> "write", chunk |-> chunk, path |-> progress.files[chunk.file].name,
                 hasher |-> progress.hashed[chunk.file]]
<1>1. /\ loop[s].at = "recv" /\ streams[s][t] # <<>>
      /\ streams' = [streams EXCEPT ![s][t] = Tail(streams[s][t])]
      /\ UNCHANGED <<source, manifest, position, control, bounds, transfers, disk>>
  BY DEF HandleChunk
<1>2. \/ Fits(progress, chunk) /\ loop' = [loop EXCEPT ![s] = l] /\ UNCHANGED failed
      \/ failed' = failed \cup {<<s, t>>} /\ UNCHANGED loop
  BY DEF HandleChunk
<1>3. chunk \in Chunk
  BY <1>1, HeadTailProperties DEF FileTypes
<1>4. Started' /\ control' \in [Senders -> Seq(Ids)] /\ streams' \in [Senders -> [Ids -> Seq(Chunk)]]
  BY <1>1, FilesKeepStarted
<1> HIDE DEF chunk
<1>5. CASE failed' = failed \cup {<<s, t>>} /\ UNCHANGED loop
  <2>1. FileTypes'
    BY <1>1, <1>4, <1>5 DEF FileTypes, bounds, Ids
  <2>2. Prepared'
    BY <1>1, <1>5 DEF Prepared, Made, MadeTo
  <2> QED BY <1>4, <2>1, <2>2
<1>6. CASE Fits(progress, chunk) /\ loop' = [loop EXCEPT ![s] = l] /\ UNCHANGED failed
  <2>1. progress # None /\ chunk.file \in 1..Len(progress.files)
    BY <1>6 DEF Fits
  <2>2. progress \in Progress
    BY <2>1 DEF FileTypes
  <2>3. progress.files[chunk.file].name \in Names
    BY <2>1, <2>2, FileNames DEF Progress
  <2>4. progress.hashed[chunk.file] \in Seq(Nat)
    <3>1. progress.hashed \in Seq(Seq(Nat)) /\ chunk.file \in 1..Len(progress.hashed)
      BY <2>1, <2>2 DEF Progress
    <3> QED BY <3>1
  <2>5. l.at = "write" /\ l.path = progress.files[chunk.file].name
    OBVIOUS
  <2>6. l \in Loop
    <3>1. l \in [at : {"write", "commit"}, chunk : Chunk, path : Names, hasher : Seq(Nat)]
      BY <1>3, <2>3, <2>4
    <3> QED BY <3>1 DEF Loop
  <2>7. disk[l.path] \in Seq(Nat)
    BY <2>1, <2>5 DEF Prepared, Made
  <2> HIDE DEF l
  <2>8. loop' \in [Senders -> Loop]
    BY <1>6, <2>6 DEF FileTypes
  <2>9. FileTypes'
    BY <1>1, <1>4, <1>6, <2>8 DEF FileTypes, bounds, Ids
  <2>10. Prepared'
    BY <1>1, <1>6, <2>5, <2>7, FilesMovePrepared
  <2> QED BY <1>4, <2>9, <2>10
<1> QED BY <1>2, <1>5, <1>6

LEMMA FilesWrite ==
  ASSUME FileTypes, Started, Prepared, NEW s \in Senders, Write(s)
  PROVE  FileTypes' /\ Started' /\ Prepared'
<1> DEFINE c    == loop[s].chunk
           path == loop[s].path
           over == Overlaid(disk[path], c.offset, c.data)
           l    == [loop[s] EXCEPT !.at = "commit"]
<1>1. /\ loop[s].at = "write"
      /\ disk' = [disk EXCEPT ![path] = over]
      /\ loop' = [loop EXCEPT ![s] = l]
      /\ UNCHANGED <<sender, bounds, transfers, failed>>
  BY DEF Write
<1>2. c \in Chunk /\ path \in Names /\ loop[s].hasher \in Seq(Nat)
  BY <1>1, LoopWrite DEF FileTypes
<1>3. over \in Seq(Nat)
  <2>1. disk[path] \in Seq(Nat)
    BY <1>1 DEF Prepared
  <2>2. c.offset \in Nat /\ c.data \in Seq(Nat)
    BY <1>2 DEF Chunk
  <2> QED BY <2>1, <2>2, OverlaidType
<1>4. l \in Loop /\ l.at = "commit" /\ l.path = path
  <2>1. loop[s] \in [at : {"write", "commit"}, chunk : Chunk, path : Names, hasher : Seq(Nat)]
    BY <1>1, LoopCases DEF FileTypes
  <2>2. /\ l \in [at : {"write", "commit"}, chunk : Chunk, path : Names, hasher : Seq(Nat)]
        /\ l.at = "commit" /\ l.path = loop[s].path
    BY <2>1
  <2> HIDE DEF l
  <2> QED BY <2>2 DEF Loop
<1> HIDE DEF over, l, path
<1>5. /\ disk' \in [Names -> {None} \cup Seq(Nat)] /\ disk'[path] \in Seq(Nat)
      /\ \A n \in Names : disk[n] \in Seq(Nat) => disk'[n] \in Seq(Nat)
  BY <1>1, <1>2, <1>3 DEF FileTypes
<1>6. FileTypes'
  <2>1. loop' \in [Senders -> Loop]
    BY <1>1, <1>4 DEF FileTypes
  <2> QED BY <1>1, <1>5, <2>1 DEF FileTypes, sender, bounds, Ids
<1>7. Started'
  BY <1>1 DEF Started, sender, Ids
<1>8. loop'[s] = l /\ \A r \in Senders : r # s => loop'[r] = loop[r]
  BY <1>1 DEF FileTypes
<1>9. Prepared'
  BY <1>1, <1>4, <1>5, FilesMovePrepared
<1> QED BY <1>6, <1>7, <1>9

(* The progress of a chunk's transfer, advanced by that chunk *)
Advanced(p, file, size, hash) ==
  [p EXCEPT !.received[file] = @ + size, !.hashed[file] = hash]

LEMMA AdvancedType ==
  ASSUME NEW p \in Progress, NEW file \in 1..Len(p.files), NEW size \in Nat, NEW hash \in Seq(Nat)
  PROVE  /\ Advanced(p, file, size, hash) \in Progress
         /\ Advanced(p, file, size, hash).files = p.files
         /\ \A i \in 1..Len(p.files) :
              /\ Advanced(p, file, size, hash).received[i] =
                   IF i = file THEN p.received[file] + size ELSE p.received[i]
              /\ Advanced(p, file, size, hash).hashed[i] = IF i = file THEN hash ELSE p.hashed[i]
<1> DEFINE received == [p.received EXCEPT ![file] = p.received[file] + size]
           hashed   == [p.hashed EXCEPT ![file] = hash]
<1>1. /\ p.received \in Seq(Nat) /\ p.hashed \in Seq(Seq(Nat)) /\ p.files \in Seq(File)
      /\ file \in 1..Len(p.received) /\ file \in 1..Len(p.hashed)
      /\ Len(p.received) = Len(p.files) /\ Len(p.hashed) = Len(p.files)
  BY DEF Progress
<1>2. p.received[file] + size \in Nat
  BY <1>1
<1>3. /\ received \in Seq(Nat) /\ Len(received) = Len(p.received)
      /\ \A i \in 1..Len(p.files) : received[i] = IF i = file THEN p.received[file] + size ELSE p.received[i]
  BY <1>1, <1>2, ExceptSeq
<1>4. /\ hashed \in Seq(Seq(Nat)) /\ Len(hashed) = Len(p.hashed)
      /\ \A i \in 1..Len(p.files) : hashed[i] = IF i = file THEN hash ELSE p.hashed[i]
  BY <1>1, ExceptSeq
<1>5. p \in [files : Seq(File), received : Seq(Nat), hashed : Seq(Seq(Nat))]
  BY DEF Progress
<1>6. Advanced(p, file, size, hash) = [p EXCEPT !.received = received, !.hashed = hashed]
  BY <1>5 DEF Advanced
<1> HIDE DEF received, hashed
<1>7. /\ Advanced(p, file, size, hash) \in [files : Seq(File), received : Seq(Nat), hashed : Seq(Seq(Nat))]
      /\ Advanced(p, file, size, hash).files = p.files
      /\ Advanced(p, file, size, hash).received = received
      /\ Advanced(p, file, size, hash).hashed = hashed
  BY <1>3, <1>4, <1>5, <1>6
<1>8. Advanced(p, file, size, hash) \in Progress
  BY <1>1, <1>3, <1>4, <1>7 DEF Progress
<1> QED BY <1>3, <1>4, <1>7, <1>8

LEMMA CommitAdvances ==
  ASSUME FileTypes, NEW s \in Senders, Commit(s)
  PROVE  LET c == loop[s].chunk IN
         /\ c \in Chunk /\ Hashed(s) \in Seq(Nat) /\ Len(c.data) \in Nat
         /\ \/ ~(transfers[c.id] # None /\ c.file \in 1..Len(transfers[c.id].files)) /\ UNCHANGED transfers
            \/ /\ transfers[c.id] # None /\ transfers[c.id] \in Progress
               /\ c.file \in 1..Len(transfers[c.id].files)
               /\ transfers' = [transfers EXCEPT
                    ![c.id] = Advanced(transfers[c.id], c.file, Len(c.data), Hashed(s))]
<1> DEFINE c    == loop[s].chunk
           size == Len(c.data)
           hash == Hashed(s)
<1>1. c \in Chunk /\ c.id \in Ids /\ c.data \in Seq(Nat) /\ loop[s].hasher \in Seq(Nat)
  BY LoopWrite DEF FileTypes, Chunk, Commit
<1>2. hash \in Seq(Nat) /\ size \in Nat
  BY <1>1, ConcatProperties DEF Hashed
<1>3. CASE transfers[c.id] # None /\ c.file \in 1..Len(transfers[c.id].files)
  <2> DEFINE file     == c.file
             id       == c.id
             received == [transfers[id].received EXCEPT ![file] = transfers[id].received[file] + size]
             hashed   == [transfers[id].hashed EXCEPT ![file] = hash]
  <2>1. transfers[id] \in Progress
    BY <1>1, <1>3 DEF FileTypes
  <2>2. transfers[id] \in [files : Seq(File), received : Seq(Nat), hashed : Seq(Seq(Nat))]
    BY <2>1 DEF Progress
  <2>3. transfers' = [transfers EXCEPT ![id].received[file] = @ + size, ![id].hashed[file] = hash]
    BY <1>3 DEF Commit
  <2>4. transfers \in [Ids -> {None} \cup Progress]
    BY DEF FileTypes
  <2> HIDE DEF file, id, size, hash, c
  <2>5. transfers' = [transfers EXCEPT ![id] = [transfers[id] EXCEPT !.received = received, !.hashed = hashed]]
    BY <1>1, <2>2, <2>3, <2>4
  <2>6. Advanced(transfers[id], file, size, hash)
          = [transfers[id] EXCEPT !.received = received, !.hashed = hashed]
    BY <2>2 DEF Advanced
  <2> HIDE DEF received, hashed
  <2>7. transfers' = [transfers EXCEPT ![id] = Advanced(transfers[id], file, size, hash)]
    BY <2>5, <2>6
  <2> QED BY <1>1, <1>2, <1>3, <2>1, <2>7 DEF file, id, size, hash, c
<1>4. CASE ~(transfers[c.id] # None /\ c.file \in 1..Len(transfers[c.id].files))
  <2>1. UNCHANGED transfers
    BY <1>4 DEF Commit
  <2> QED BY <1>1, <1>2, <1>4, <2>1
<1> QED BY <1>3, <1>4

LEMMA FilesCommit ==
  ASSUME FileTypes, Started, Prepared, NEW s \in Senders, Commit(s)
  PROVE  FileTypes' /\ Started' /\ Prepared'
<1> DEFINE c == loop[s].chunk
           p == transfers[c.id]
           q == Advanced(p, c.file, Len(c.data), Hashed(s))
<1>1. /\ loop[s].at = "commit" /\ \E l \in {Recv, Dead} : loop' = [loop EXCEPT ![s] = l]
      /\ UNCHANGED <<sender, bounds, disk>>
  BY DEF Commit
<1>2. /\ c \in Chunk /\ Hashed(s) \in Seq(Nat) /\ Len(c.data) \in Nat
      /\ \/ UNCHANGED transfers
         \/ /\ p # None /\ p \in Progress /\ c.file \in 1..Len(p.files)
            /\ transfers' = [transfers EXCEPT ![c.id] = q]
  BY CommitAdvances
<1>3. c.id \in Ids
  BY <1>2 DEF Chunk
<1>4. failed' \subseteq Senders \X Ids
  <2>1. failed' \subseteq failed \cup {<<s, c.id>>}
    BY DEF Commit
  <2> QED BY <1>3, <2>1 DEF FileTypes
<1>5. /\ transfers' \in [Ids -> {None} \cup Progress]
      /\ \A t \in Ids : /\ transfers'[t] # None => transfers[t] # None
                        /\ transfers[t] # None => transfers'[t].files = transfers[t].files
  <2>1. CASE UNCHANGED transfers
    BY <2>1 DEF FileTypes
  <2>2. CASE /\ p # None /\ p \in Progress /\ c.file \in 1..Len(p.files)
             /\ transfers' = [transfers EXCEPT ![c.id] = q]
    <3>1. q \in Progress /\ q.files = p.files
      BY <1>2, <2>2, AdvancedType
    <3> HIDE DEF q, c
    <3> QED BY <1>3, <2>2, <3>1 DEF FileTypes
  <2> QED BY <1>2, <2>1, <2>2
<1>6. /\ loop'[s].at \in {"recv", "dead"} /\ loop' \in [Senders -> Loop]
      /\ \A r \in Senders : r # s => loop'[r] = loop[r]
  BY <1>1 DEF FileTypes, Loop, Recv, Dead
<1>7. FileTypes'
  BY <1>1, <1>4, <1>5, <1>6 DEF FileTypes, sender, bounds, Ids
<1>8. Started'
  BY <1>1 DEF Started, sender, Ids
<1>9. \A t \in Ids : transfers'[t] # None => Made(transfers'[t].files)
  BY <1>5 DEF Prepared
<1>10. Prepared'
  BY <1>1, <1>6, <1>9 DEF Prepared, Made, MadeTo
<1> QED BY <1>7, <1>8, <1>10

LEMMA FilesStep == FileTypes /\ Started /\ Prepared /\ [Next]_vars => (FileTypes /\ Started /\ Prepared)'
<1> SUFFICES ASSUME FileTypes, Started, Prepared, [Next]_vars
             PROVE  FileTypes' /\ Started' /\ Prepared'
  OBVIOUS
<1>1. ASSUME UNCHANGED <<loop, transfers, disk>> PROVE Prepared'
  BY <1>1 DEF Prepared, Made, MadeTo
<1>2. ASSUME NEW s \in Senders, NEW list \in Selections, StartTransfer(s, list) PROVE FileTypes' /\ Started' /\ Prepared'
  <2>1. UNCHANGED <<loop, transfers, disk>>
    BY <1>2 DEF StartTransfer, receiver
  <2> QED BY <1>1, <1>2, <2>1, FilesStart
<1>3. ASSUME NEW s \in Senders, SendChunk(s) PROVE FileTypes' /\ Started' /\ Prepared'
  <2>1. UNCHANGED <<loop, transfers, disk>>
    BY <1>3 DEF SendChunk, receiver
  <2> QED BY <1>1, <1>3, <2>1, FilesSend
<1>4. ASSUME NEW s \in Senders, Break(s) PROVE FileTypes' /\ Started' /\ Prepared'
  <2>1. UNCHANGED <<loop, transfers, disk>>
    BY <1>4 DEF Break, receiver
  <2> QED BY <1>1, <1>4, <2>1, FilesBreak
<1>5. ASSUME NEW s \in Senders, NEW n \in Names, NEW content \in Contents, Edit(s, n, content)
      PROVE  FileTypes' /\ Started' /\ Prepared'
  <2>1. UNCHANGED <<loop, transfers, disk>>
    BY <1>5 DEF Edit, receiver
  <2> QED BY <1>1, <1>5, <2>1, FilesEdit
<1>6. ASSUME NEW s \in Senders, Receive(s) PROVE FileTypes' /\ Started' /\ Prepared'
  BY <1>6, FilesOffer, FilesCreate, FilesInsert, FilesChunk, FilesWrite, FilesCommit DEF Receive
<1>7. CASE UNCHANGED vars
  BY <1>7 DEF vars, sender, bounds, receiver, FileTypes, Started, Prepared, Made, MadeTo, Ids
<1> QED BY <1>2, <1>3, <1>4, <1>5, <1>6, <1>7 DEF Next

LEMMA FilesTyped == FileTypes /\ Started => TypeOK
<1> SUFFICES ASSUME FileTypes, Started PROVE TypeOK
  OBVIOUS
<1>1. ASSUME NEW s \in Senders, position[s] # Idle
      PROVE  /\ position[s].id \in DOMAIN manifest[s]
             /\ position[s].file \in DOMAIN manifest[s][position[s].id]
  <2>1. position[s].id \in 1..Len(manifest[s]) /\ manifest[s] \in Seq(Seq(File))
    BY <1>1 DEF FileTypes, Started
  <2>2. manifest[s][position[s].id] \in Seq(File)
    BY <2>1
  <2> QED BY <1>1, <2>1, <2>2 DEF Started
<1>2. ASSUME NEW s \in Senders PROVE ToSet(control[s]) \subseteq DOMAIN manifest[s]
  BY DEF FileTypes, Started, ToSet
<1>3. ASSUME NEW s \in Senders, NEW t \in Ids, NEW i \in DOMAIN streams[s][t]
      PROVE  streams[s][t][i].id = t /\ streams[s][t][i].data # <<>>
  BY DEF FileTypes, Started
<1>4. ASSUME NEW s \in Senders PROVE loop[s].at \in {"recv", "create", "write", "commit", "dead"}
  BY LoopCases DEF FileTypes
<1>5. ASSUME NEW t \in Ids, transfers[t] # None, NEW i \in DOMAIN transfers[t].files
      PROVE  transfers[t].received[i] \in Nat
  <2>1. transfers[t] \in Progress
    BY <1>5 DEF FileTypes
  <2> QED BY <1>5, <2>1 DEF Progress
<1> QED BY <1>1, <1>2, <1>3, <1>4, <1>5 DEF TypeOK, FileTypes

(* Every offer and chunk, and the place send_files is at, refer to a        *)
(* transfer that was started and to a file of it, a chunk is never empty,   *)
(* and the offsets are numbers (TypeOK; send_files, Receiver::begin), for   *)
(* any number of senders that share the receiver's map.                     *)
THEOREM FilesTypeCorrect == Spec => []TypeOK
<1>1. Spec => [](FileTypes /\ Started /\ Prepared)
  BY FilesInit, FilesStep, PTL DEF Spec
<1> QED BY <1>1, FilesTyped, PTL

-----------------------------------------------------------------------------
(* Files: the offsets of one sender are true *)

Sole(name) == \A c, d \in Carriers(name) : c = d

(* The receiver knows the transfers its sender announced, each once. *)
Announced ==
  \A s \in Senders :
    /\ \A t \in Ids : transfers[t] # None =>
         t \in 1..Len(manifest[s]) /\ transfers[t].files = manifest[s][t]
    /\ loop[s].at = "create" =>
         /\ transfers[loop[s].id] = None
         /\ loop[s].id \in 1..Len(manifest[s])
         /\ loop[s].files = manifest[s][loop[s].id]
    /\ \A i \in 1..Len(control[s]) :
         /\ transfers[control[s][i]] = None
         /\ loop[s].at = "create" => loop[s].id # control[s][i]
    /\ \A i, j \in 1..Len(control[s]) : control[s][i] = control[s][j] => i = j

(* What is written is the chunk after what was hashed. *)
InHand ==
  \A s \in Senders : loop[s].at \in {"write", "commit"} =>
    LET c == loop[s].chunk  p == transfers[c.id] IN
      /\ p # None /\ c.file \in 1..Len(p.files)
      /\ loop[s].path = p.files[c.file].name
      /\ loop[s].hasher = p.hashed[c.file]
      /\ c.offset = p.received[c.file]

Counted ==
  \A t \in Ids : transfers[t] # None =>
    \A i \in 1..Len(transfers[t].files) : transfers[t].received[i] = Len(transfers[t].hashed[i])

OnDisk ==
  \A name \in Names : Sole(name) =>
    \A t \in Ids : transfers[t] # None =>
      \A i \in 1..Len(transfers[t].files) :
        transfers[t].files[i].name = name => IsPrefix(transfers[t].hashed[i], disk[name])

Written ==
  \A name \in Names : Sole(name) =>
    \A s \in Senders : loop[s].at = "commit" /\ loop[s].path = name => IsPrefix(Hashed(s), disk[name])

FilesTrue == Announced /\ InHand /\ Counted /\ OnDisk /\ Written
Filed == FileTypes /\ Started /\ Prepared

LEMMA CarriesOnce ==
  ASSUME NEW s \in Senders, NEW t \in 1..Len(manifest[s]), NEW u \in 1..Len(manifest[s]),
         NEW i \in 1..Len(manifest[s][t]), NEW j \in 1..Len(manifest[s][u]), FileTypes,
         manifest[s][t][i].name = manifest[s][u][j].name, Sole(manifest[s][t][i].name)
  PROVE  t = u /\ i = j
<1>1. /\ t \in DOMAIN manifest[s] /\ u \in DOMAIN manifest[s]
      /\ i \in DOMAIN manifest[s][t] /\ j \in DOMAIN manifest[s][u]
  <2>1. manifest[s] \in Seq(Seq(File))
    BY DEF FileTypes
  <2>2. manifest[s][t] \in Seq(File) /\ manifest[s][u] \in Seq(File)
    BY <2>1
  <2> QED BY <2>1, <2>2
<1>2. <<s, t, i>> \in Entries /\ <<s, u, j>> \in Entries
  <2>1. \A r \in DOMAIN manifest[s] : \A k \in DOMAIN manifest[s][r] : <<s, r, k>> \in Entries
    BY DEF Entries
  <2> QED BY <1>1, <2>1
<1>3. <<s, t, i>> \in Carriers(manifest[s][t][i].name) /\ <<s, u, j>> \in Carriers(manifest[s][t][i].name)
  BY <1>2 DEF Carriers
<1>4. <<s, t, i>> = <<s, u, j>>
  BY <1>3 DEF Sole
<1> QED BY <1>4

(* A name that is alone after an offer was alone before. *)
LEMMA SoleBefore ==
  ASSUME FileTypes, NEW s \in Senders, NEW files, NEW name,
         manifest' = [manifest EXCEPT ![s] = Append(manifest[s], files)], Sole(name)'
  PROVE  Sole(name)
<1>1. \A r \in Senders : \A t \in DOMAIN manifest[r] :
        t \in DOMAIN manifest'[r] /\ manifest'[r][t] = manifest[r][t]
  <2> SUFFICES ASSUME NEW r \in Senders, NEW t \in DOMAIN manifest[r]
               PROVE  t \in DOMAIN manifest'[r] /\ manifest'[r][t] = manifest[r][t]
    OBVIOUS
  <2>1. CASE r # s
    BY <2>1 DEF FileTypes
  <2>2. CASE r = s
    <3>1. manifest'[r] = Append(manifest[s], files) /\ manifest[s] \in Seq(Seq(File))
      BY <2>2 DEF FileTypes
    <3> QED BY <2>2, <3>1
  <2> QED BY <2>1, <2>2
<1>2. \A e \in Entries : e \in Entries' /\ manifest'[e[1]][e[2]][e[3]] = manifest[e[1]][e[2]][e[3]]
  <2> SUFFICES ASSUME NEW e \in Entries
               PROVE  e \in Entries' /\ manifest'[e[1]][e[2]][e[3]] = manifest[e[1]][e[2]][e[3]]
    OBVIOUS
  <2>0. PICK r \in Senders : \E t \in DOMAIN manifest[r] : \E i \in DOMAIN manifest[r][t] : e = <<r, t, i>>
    BY DEF Entries
  <2>1. PICK t \in DOMAIN manifest[r] : \E i \in DOMAIN manifest[r][t] : e = <<r, t, i>>
    BY <2>0
  <2>2. PICK i \in DOMAIN manifest[r][t] : e = <<r, t, i>>
    BY <2>1
  <2>3. t \in DOMAIN manifest'[r] /\ manifest'[r][t] = manifest[r][t]
    BY <1>1
  <2>4. e \in Entries'
    BY <2>2, <2>3 DEF Entries
  <2> QED BY <2>2, <2>3, <2>4
<1>3. Carriers(name) \subseteq Carriers(name)'
  BY <1>2 DEF Carriers
<1> QED BY <1>3 DEF Sole

LEMMA TruthInit == Init => FilesTrue
BY DEF Init, FilesTrue, Announced, InHand, Counted, OnDisk, Written, Recv

LEMMA TruthStart ==
  ASSUME Filed, FilesTrue, NEW s \in Senders, \A r \in Senders : r = s,
         NEW list \in Selections, StartTransfer(s, list)
  PROVE  FilesTrue'
<1> DEFINE files == [i \in 1..Len(list) |-> Entry(s, list[i])]
           id    == Len(manifest[s]) + 1
<1>1. /\ Len(manifest[s]) < MaxTransfers
      /\ manifest' = [manifest EXCEPT ![s] = Append(manifest[s], files)]
      /\ control' = [control EXCEPT ![s] = Append(control[s], id)]
      /\ UNCHANGED <<source, streams, bounds, receiver>>
  BY DEF StartTransfer
<1> HIDE DEF files
<1>2. manifest[s] \in Seq(Seq(File)) /\ control[s] \in Seq(Ids) /\ Len(manifest[s]) \in Nat
  BY DEF Filed, FileTypes
<1>3. id \in Ids
  BY <1>1, <1>2, TransferAssumption DEF Ids
<1>4. /\ manifest'[s] = Append(manifest[s], files) /\ control'[s] = Append(control[s], id)
      /\ UNCHANGED <<loop, transfers, disk>>
  BY <1>1 DEF Filed, FileTypes, receiver
<1>5. /\ Len(manifest'[s]) = id
      /\ \A t \in 1..Len(manifest[s]) : t \in 1..Len(manifest'[s]) /\ manifest'[s][t] = manifest[s][t]
  BY <1>2, <1>4
<1>6. /\ Len(control'[s]) = Len(control[s]) + 1 /\ control'[s][Len(control[s]) + 1] = id
      /\ \A i \in 1..Len(control[s]) : control'[s][i] = control[s][i]
  BY <1>2, <1>3, <1>4, AppendProperties
<1>7. \A i \in 1..Len(control'[s]) : i \in 1..Len(control[s]) \/ i = Len(control[s]) + 1
  BY <1>2, <1>6
<1>8. \A i \in 1..Len(control[s]) : control[s][i] \in 1..Len(manifest[s])
  BY DEF Filed, Started
<1>9. id \notin 1..Len(manifest[s])
  BY <1>2
<1> HIDE DEF id
<1>10. \A t \in Ids : transfers[t] # None =>
         t \in 1..Len(manifest'[s]) /\ transfers[t].files = manifest'[s][t]
  BY <1>5 DEF FilesTrue, Announced
<1>11. loop[s].at = "create" =>
         /\ transfers[loop[s].id] = None
         /\ loop[s].id \in 1..Len(manifest'[s])
         /\ loop[s].files = manifest'[s][loop[s].id]
  BY <1>5 DEF FilesTrue, Announced
<1>12. ASSUME NEW i \in 1..Len(control'[s])
       PROVE  /\ transfers[control'[s][i]] = None
              /\ loop[s].at = "create" => loop[s].id # control'[s][i]
  <2>1. CASE i \in 1..Len(control[s])
    BY <1>6, <2>1 DEF FilesTrue, Announced
  <2>2. CASE i = Len(control[s]) + 1
    <3>1. control'[s][i] = id
      BY <1>6, <2>2
    <3>2. transfers[id] = None
      BY <1>3, <1>9 DEF FilesTrue, Announced
    <3>3. loop[s].at = "create" => loop[s].id \in 1..Len(manifest[s])
      BY DEF FilesTrue, Announced
    <3> QED BY <1>9, <3>1, <3>2, <3>3
  <2> QED BY <1>7, <2>1, <2>2
<1>13. ASSUME NEW i \in 1..Len(control'[s]), NEW j \in 1..Len(control'[s]), control'[s][i] = control'[s][j]
       PROVE  i = j
  <2>1. CASE i \in 1..Len(control[s]) /\ j \in 1..Len(control[s])
    BY <1>6, <1>13, <2>1 DEF FilesTrue, Announced
  <2>2. CASE i = Len(control[s]) + 1 /\ j \in 1..Len(control[s])
    BY <1>6, <1>8, <1>9, <1>13, <2>2
  <2>3. CASE j = Len(control[s]) + 1 /\ i \in 1..Len(control[s])
    BY <1>6, <1>8, <1>9, <1>13, <2>3
  <2> QED BY <1>7, <2>1, <2>2, <2>3
<1>14. Announced'
  <2> HIDE DEF id
  <2> QED BY <1>4, <1>10, <1>11, <1>12, <1>13 DEF Announced, Ids
<1>15. InHand' /\ Counted'
  BY <1>4 DEF FilesTrue, InHand, Counted, Ids
<1>16. ASSUME NEW name, Sole(name)' PROVE Sole(name)
  BY <1>1, <1>16, SoleBefore DEF Filed
<1>17. OnDisk'
  BY <1>4, <1>16 DEF FilesTrue, OnDisk, Ids
<1>18. Written'
  BY <1>4, <1>16 DEF FilesTrue, Written, Hashed
<1> QED BY <1>14, <1>15, <1>17, <1>18 DEF FilesTrue

(* Steps that offer nothing, and leave the receiver alone *)
LEMMA TruthSend ==
  ASSUME FilesTrue, UNCHANGED <<manifest, control, loop, transfers, disk>>
  PROVE  FilesTrue'
<1>1. \A name : Sole(name)' <=> Sole(name)
  BY DEF Sole, Carriers, Entries
<1>2. Announced' /\ InHand' /\ Counted'
  BY DEF FilesTrue, Announced, InHand, Counted, Ids
<1>3. OnDisk' /\ Written'
  BY <1>1 DEF FilesTrue, OnDisk, Written, Hashed, Ids
<1> QED BY <1>2, <1>3 DEF FilesTrue

LEMMA SoleStays ==
  ASSUME UNCHANGED manifest, NEW name
  PROVE  Sole(name)' <=> Sole(name)
BY DEF Sole, Carriers, Entries

LEMMA TruthBreak ==
  ASSUME Filed, FilesTrue, NEW s \in Senders, \A r \in Senders : r = s, Break(s)
  PROVE  FilesTrue'
<1>1. control'[s] = <<>> /\ UNCHANGED <<manifest, loop, transfers, disk>>
  BY DEF Break, receiver, Filed, FileTypes
<1>2. 1..Len(control'[s]) = {}
  BY <1>1
<1>3. Announced' /\ InHand' /\ Counted'
  BY <1>1, <1>2 DEF FilesTrue, Announced, InHand, Counted, Ids
<1>4. OnDisk' /\ Written'
  BY <1>1, SoleStays DEF FilesTrue, OnDisk, Written, Hashed, Ids
<1> QED BY <1>3, <1>4 DEF FilesTrue

LEMMA TruthOffer ==
  ASSUME Filed, FilesTrue, NEW s \in Senders, \A r \in Senders : r = s, HandleOffer(s)
  PROVE  FilesTrue'
<1> DEFINE id    == Head(control[s])
           files == manifest[s][id]
<1>1. /\ loop[s].at = "recv" /\ control[s] # <<>>
      /\ control' = [control EXCEPT ![s] = Tail(control[s])]
      /\ UNCHANGED <<manifest, transfers, disk>>
  BY DEF HandleOffer
<1>2. loop' = [loop EXCEPT ![s] = [at |-> "create", id |-> id, files |-> files, next |-> 1]]
  BY DEF HandleOffer
<1>3. control[s] \in Seq(Ids) /\ Len(control[s]) \in Nat
  BY DEF Filed, FileTypes
<1>4. /\ control'[s] = Tail(control[s]) /\ Len(Tail(control[s])) = Len(control[s]) - 1
      /\ \A i \in 1..Len(Tail(control[s])) : Tail(control[s])[i] = control[s][i + 1]
  BY <1>1, <1>3, HeadTailProperties DEF Filed, FileTypes
<1>5. /\ id = control[s][1] /\ 1 \in 1..Len(control[s])
      /\ \A i \in 1..Len(control'[s]) :
           i + 1 \in 1..Len(control[s]) /\ i + 1 # 1 /\ control'[s][i] = control[s][i + 1]
  <2>1. Len(control[s]) # 0 /\ id = control[s][1]
    BY <1>1, <1>3
  <2>2. 1 \in 1..Len(control[s])
    BY <1>3, <2>1
  <2>3. ASSUME NEW i \in 1..Len(Tail(control[s])) PROVE i + 1 \in 1..Len(control[s]) /\ i + 1 # 1
    BY <1>3, <1>4
  <2> QED BY <1>4, <2>1, <2>2, <2>3
<1>6. id \in 1..Len(manifest[s])
  BY <1>5 DEF Filed, Started
<1> HIDE DEF id
<1>7. transfers[id] = None /\ \A i \in 1..Len(control'[s]) : transfers[control'[s][i]] = None /\ id # control'[s][i]
  BY <1>5 DEF FilesTrue, Announced
<1>8. \A i, j \in 1..Len(control'[s]) : control'[s][i] = control'[s][j] => i = j
  <2> SUFFICES ASSUME NEW i \in 1..Len(control'[s]), NEW j \in 1..Len(control'[s]),
                      control'[s][i] = control'[s][j]
               PROVE  i = j
    OBVIOUS
  <2>1. /\ i + 1 \in 1..Len(control[s]) /\ j + 1 \in 1..Len(control[s])
        /\ control[s][i + 1] = control[s][j + 1]
    BY <1>5
  <2>2. i + 1 = j + 1
    BY <2>1 DEF FilesTrue, Announced
  <2> QED BY <1>3, <1>4, <2>2
<1>9. loop'[s].at = "create" /\ loop'[s].id = id /\ loop'[s].files = files
  BY <1>1, <1>2 DEF Filed, FileTypes
<1> HIDE DEF files
<1>10. Announced'
  <2>1. \A t \in Ids : transfers'[t] # None => t \in 1..Len(manifest'[s]) /\ transfers'[t].files = manifest'[s][t]
    BY <1>1 DEF FilesTrue, Announced
  <2>2. loop'[s].at = "create" =>
         /\ transfers'[loop'[s].id] = None
         /\ loop'[s].id \in 1..Len(manifest'[s])
         /\ loop'[s].files = manifest'[s][loop'[s].id]
    BY <1>1, <1>6, <1>7, <1>9 DEF files
  <2>3. \A i \in 1..Len(control'[s]) :
         /\ transfers'[control'[s][i]] = None
         /\ loop'[s].at = "create" => loop'[s].id # control'[s][i]
    BY <1>1, <1>7, <1>9
  <2> QED BY <1>8, <2>1, <2>2, <2>3 DEF Announced, Ids
<1>11. InHand' /\ Written'
  BY <1>9 DEF InHand, Written
<1>12. Counted'
  BY <1>1 DEF FilesTrue, Counted, Ids
<1>13. OnDisk'
  BY <1>1, SoleStays DEF FilesTrue, OnDisk, Ids
<1> QED BY <1>10, <1>11, <1>12, <1>13 DEF FilesTrue

(* The next file of an offer that is alone in carrying its name is no file *)
(* of a transfer in the map.                                               *)
LEMMA NextIsNew ==
  ASSUME Filed, FilesTrue, NEW s \in Senders, loop[s].at = "create",
         NEW j \in 1..Len(loop[s].files), Sole(loop[s].files[j].name),
         NEW t \in Ids, transfers[t] # None, NEW i \in 1..Len(transfers[t].files)
  PROVE  transfers[t].files[i].name # loop[s].files[j].name
<1> DEFINE id == loop[s].id
<1>1. /\ t \in 1..Len(manifest[s]) /\ transfers[t].files = manifest[s][t]
      /\ id \in 1..Len(manifest[s]) /\ loop[s].files = manifest[s][id] /\ transfers[id] = None
  BY DEF FilesTrue, Announced
<1> SUFFICES ASSUME transfers[t].files[i].name = loop[s].files[j].name PROVE FALSE
  OBVIOUS
<1>2. /\ i \in 1..Len(manifest[s][t]) /\ j \in 1..Len(manifest[s][id])
      /\ manifest[s][t][i].name = manifest[s][id][j].name /\ Sole(manifest[s][t][i].name)
  BY <1>1
<1> HIDE DEF id
<1>3. FileTypes
  BY DEF Filed
<1>4. t = id
  BY <1>1, <1>2, <1>3, CarriesOnce, Zenon
<1> QED BY <1>1, <1>4

LEMMA TruthCreate ==
  ASSUME Filed, FilesTrue, NEW s \in Senders, \A r \in Senders : r = s, CreateFile(s)
  PROVE  FilesTrue'
<1> DEFINE next  == loop[s].next
           files == loop[s].files
           name  == files[next].name
           l     == [loop[s] EXCEPT !.next = next + 1]
<1>1. /\ loop[s].at = "create" /\ next <= Len(files) /\ UNCHANGED <<manifest, control, transfers>>
      /\ \/ UNCHANGED disk /\ loop' = [loop EXCEPT ![s] = Recv]
         \/ disk' = [disk EXCEPT ![name] = <<>>] /\ loop' = [loop EXCEPT ![s] = l]
  BY DEF CreateFile, sender
<1>2. loop[s] \in Creating /\ next \in 1..Len(files)
  <2>1. loop[s] \in Creating /\ files \in Seq(File) /\ next \in Nat \ {0}
    BY <1>1, LoopCases, LoopCreate DEF Filed, FileTypes
  <2> QED BY <1>1, <2>1
<1>3. l.at = "create" /\ l.id = loop[s].id /\ l.files = files
  BY <1>2 DEF Creating
<1> HIDE DEF l
<1>4. \/ loop'[s].at = "create" /\ loop'[s].id = loop[s].id /\ loop'[s].files = loop[s].files
      \/ loop'[s].at = "recv"
  BY <1>1, <1>3 DEF Filed, FileTypes, Recv
<1>5. Announced'
  <2>1. \A t \in Ids : transfers'[t] # None => t \in 1..Len(manifest'[s]) /\ transfers'[t].files = manifest'[s][t]
    BY <1>1 DEF FilesTrue, Announced
  <2>2. loop'[s].at = "create" =>
         /\ transfers'[loop'[s].id] = None
         /\ loop'[s].id \in 1..Len(manifest'[s])
         /\ loop'[s].files = manifest'[s][loop'[s].id]
    BY <1>1, <1>4 DEF FilesTrue, Announced
  <2>3. \A i \in 1..Len(control'[s]) :
         /\ transfers'[control'[s][i]] = None
         /\ loop'[s].at = "create" => loop'[s].id # control'[s][i]
    BY <1>1, <1>4 DEF FilesTrue, Announced
  <2>4. \A i, j \in 1..Len(control'[s]) : control'[s][i] = control'[s][j] => i = j
    BY <1>1 DEF FilesTrue, Announced
  <2> QED BY <2>1, <2>2, <2>3, <2>4 DEF Announced, Ids
<1>6. InHand' /\ Written'
  BY <1>4 DEF InHand, Written
<1>7. Counted'
  BY <1>1 DEF FilesTrue, Counted, Ids
<1>8. OnDisk'
  <2> SUFFICES ASSUME NEW n \in Names, Sole(n), NEW t \in Ids, transfers[t] # None,
                      NEW i \in 1..Len(transfers[t].files), transfers[t].files[i].name = n
               PROVE  IsPrefix(transfers[t].hashed[i], disk'[n])
    BY <1>1, SoleStays DEF OnDisk, Ids
  <2>1. n # name
    <3> SUFFICES ASSUME n = name PROVE FALSE
      OBVIOUS
    <3>1. loop[s].at = "create" /\ next \in 1..Len(loop[s].files) /\ Sole(loop[s].files[next].name)
      BY <1>1, <1>2
    <3> HIDE DEF next
    <3>2. transfers[t].files[i].name # loop[s].files[next].name
      BY <3>1, NextIsNew
    <3> QED BY <3>2
  <2>2. disk'[n] = disk[n]
    BY <1>1, <2>1 DEF Filed, FileTypes
  <2> QED BY <2>2 DEF FilesTrue, OnDisk
<1> QED BY <1>5, <1>6, <1>7, <1>8 DEF FilesTrue

LEMMA TruthInsert ==
  ASSUME Filed, FilesTrue, NEW s \in Senders, \A r \in Senders : r = s, Insert(s)
  PROVE  FilesTrue'
<1> DEFINE id    == loop[s].id
           files == loop[s].files
           p == [files |-> files, received |-> [i \in 1..Len(files) |-> 0],
                 hashed |-> [i \in 1..Len(files) |-> <<>>]]
<1>1. /\ loop[s].at = "create" /\ loop[s].next > Len(files)
      /\ transfers' = [transfers EXCEPT ![id] = p]
      /\ loop' = [loop EXCEPT ![s] = Recv]
      /\ UNCHANGED <<manifest, control, disk>>
  BY DEF Insert, sender
<1>2. id \in Ids /\ files \in Seq(File) /\ Made(files)
  <2>1. id \in Ids /\ files \in Seq(File) /\ loop[s].next \in Nat /\ MadeTo(files, loop[s].next)
    BY <1>1, LoopCreate DEF Filed, FileTypes, Prepared
  <2>2. Made(files)
    BY <1>1, <2>1 DEF Made, MadeTo
  <2> QED BY <2>1, <2>2
<1>3. p.files = files /\ \A i \in 1..Len(files) : p.received[i] = 0 /\ p.hashed[i] = <<>>
  OBVIOUS
<1> HIDE DEF p
<1>4. /\ loop'[s].at = "recv"
      /\ transfers'[id] = p /\ \A t \in Ids : t # id => transfers'[t] = transfers[t]
  BY <1>1, <1>2 DEF Filed, FileTypes, Recv
<1>5. id \in 1..Len(manifest[s]) /\ files = manifest[s][id]
  BY <1>1 DEF FilesTrue, Announced
<1> HIDE DEF id, files
<1>6. Announced'
  <2>1. \A t \in Ids : transfers'[t] # None => t \in 1..Len(manifest'[s]) /\ transfers'[t].files = manifest'[s][t]
    BY <1>1, <1>3, <1>4, <1>5 DEF FilesTrue, Announced
  <2>2. ASSUME NEW i \in 1..Len(control[s]) PROVE transfers'[control[s][i]] = None
    <3>1. control[s][i] # id /\ transfers[control[s][i]] = None
      BY <1>1 DEF FilesTrue, Announced, id
    <3>2. control[s][i] \in Ids
      BY DEF Filed, FileTypes
    <3> QED BY <1>4, <3>1, <3>2
  <2>3. \A i, j \in 1..Len(control[s]) : control[s][i] = control[s][j] => i = j
    BY DEF FilesTrue, Announced
  <2> QED BY <1>1, <1>4, <2>1, <2>2, <2>3 DEF Announced, Ids
<1>7. InHand' /\ Written'
  BY <1>4 DEF InHand, Written
<1>8. Counted'
  <2>1. Len(<<>>) = 0
    OBVIOUS
  <2> QED BY <1>3, <1>4, <2>1 DEF FilesTrue, Counted, Ids
<1>9. OnDisk'
  <2> SUFFICES ASSUME NEW name \in Names, Sole(name), NEW t \in Ids, transfers'[t] # None,
                      NEW i \in 1..Len(transfers'[t].files), transfers'[t].files[i].name = name
               PROVE  IsPrefix(transfers'[t].hashed[i], disk[name])
    BY <1>1, SoleStays DEF OnDisk, Ids
  <2>1. CASE t # id
    BY <1>4, <2>1 DEF FilesTrue, OnDisk
  <2>2. CASE t = id
    <3>1. transfers'[t].hashed[i] = <<>> /\ i \in 1..Len(files) /\ files[i].name = name
      BY <1>3, <1>4, <2>2
    <3>2. disk[name] \in Seq(Nat) /\ <<>> \in Seq(Nat) /\ Len(<<>>) = 0
      BY <1>2, <3>1 DEF Made
    <3>3. Len(<<>>) <= Len(disk[name]) /\ \A k \in 1..Len(<<>>) : <<>>[k] = disk[name][k]
      BY <3>2
    <3> QED BY <3>1, <3>2, <3>3, PrefixUnits
  <2> QED BY <2>1, <2>2
<1> QED BY <1>6, <1>7, <1>8, <1>9 DEF FilesTrue

LEMMA TruthChunk ==
  ASSUME Filed, FilesTrue, NEW s \in Senders, \A r \in Senders : r = s,
         NEW t \in Ids, HandleChunk(s, t)
  PROVE  FilesTrue'
<1> DEFINE chunk    == Head(streams[s][t])
           progress == transfers[t]
           l == [at |-> "write", chunk |-> chunk, path |-> progress.files[chunk.file].name,
                 hasher |-> progress.hashed[chunk.file]]
<1>1. loop[s].at = "recv" /\ streams[s][t] # <<>> /\ UNCHANGED <<manifest, control, transfers, disk>>
  BY DEF HandleChunk
<1>2. \/ Fits(progress, chunk) /\ loop' = [loop EXCEPT ![s] = l]
      \/ UNCHANGED loop
  BY DEF HandleChunk
<1>3. CASE UNCHANGED loop
  BY <1>1, <1>3, TruthSend
<1>4. CASE Fits(progress, chunk) /\ loop' = [loop EXCEPT ![s] = l]
  <2>1. chunk.id = t
    <3>1. Len(streams[s][t]) \in Nat /\ Len(streams[s][t]) # 0
      BY <1>1 DEF Filed, FileTypes
    <3>2. chunk = streams[s][t][1] /\ 1 \in 1..Len(streams[s][t])
      BY <3>1
    <3> QED BY <3>2 DEF Filed, Started
  <2>2. /\ progress # None /\ chunk.file \in 1..Len(progress.files)
        /\ chunk.offset = progress.received[chunk.file]
    BY <1>4 DEF Fits
  <2>3. /\ l.at = "write" /\ l.chunk = chunk /\ l.path = progress.files[chunk.file].name
        /\ l.hasher = progress.hashed[chunk.file]
    OBVIOUS
  <2> HIDE DEF l, chunk
  <2>4. loop'[s] = l
    BY <1>4 DEF Filed, FileTypes
  <2>5. Announced' /\ Written' /\ Counted'
    BY <1>1, <2>3, <2>4 DEF FilesTrue, Announced, Written, Counted, Ids
  <2>6. InHand'
    BY <1>1, <2>1, <2>2, <2>3, <2>4 DEF InHand
  <2>7. OnDisk'
    BY <1>1, SoleStays DEF FilesTrue, OnDisk, Ids
  <2> QED BY <2>5, <2>6, <2>7 DEF FilesTrue
<1> QED BY <1>2, <1>3, <1>4

LEMMA TruthWrite ==
  ASSUME Filed, FilesTrue, NEW s \in Senders, \A r \in Senders : r = s, Write(s)
  PROVE  FilesTrue'
<1> DEFINE c    == loop[s].chunk
           path == loop[s].path
           p    == transfers[c.id]
           over == Overlaid(disk[path], c.offset, c.data)
           l    == [loop[s] EXCEPT !.at = "commit"]
<1>1. /\ loop[s].at = "write"
      /\ disk' = [disk EXCEPT ![path] = over]
      /\ loop' = [loop EXCEPT ![s] = l]
      /\ UNCHANGED <<manifest, control, transfers>>
  BY DEF Write, sender
<1>2. /\ c.id \in Ids /\ c.data \in Seq(Nat) /\ path \in Names /\ loop[s].hasher \in Seq(Nat)
      /\ disk[path] \in Seq(Nat)
  BY <1>1, LoopWrite DEF Filed, FileTypes, Chunk, Prepared
<1>3. /\ p # None /\ c.file \in 1..Len(p.files) /\ path = p.files[c.file].name
      /\ loop[s].hasher = p.hashed[c.file] /\ c.offset = p.received[c.file]
  BY <1>1 DEF FilesTrue, InHand
<1>4. c.offset = Len(loop[s].hasher)
  BY <1>2, <1>3 DEF FilesTrue, Counted
<1>5. /\ l.at = "commit" /\ l.chunk = c /\ l.path = path /\ l.hasher = loop[s].hasher
  <2>1. loop[s] \in [at : {"write", "commit"}, chunk : Chunk, path : Names, hasher : Seq(Nat)]
    BY <1>1, LoopCases DEF Filed, FileTypes
  <2> QED BY <2>1
<1> HIDE DEF l
<1>6. loop'[s] = l
  BY <1>1 DEF Filed, FileTypes
<1>7. Hashed(s)' = loop[s].hasher \o c.data
  BY <1>5, <1>6 DEF Hashed
<1> HIDE DEF over
<1>8. disk'[path] = over /\ \A n \in Names : n # path => disk'[n] = disk[n]
  BY <1>1, <1>2 DEF Filed, FileTypes
<1>9. c.id \in 1..Len(manifest[s]) /\ p.files = manifest[s][c.id]
  BY <1>2, <1>3 DEF FilesTrue, Announced
<1>10. Sole(path) => /\ IsPrefix(loop[s].hasher, over)
                     /\ IsPrefix(loop[s].hasher \o c.data, over)
  <2> SUFFICES ASSUME Sole(path)
               PROVE  IsPrefix(loop[s].hasher, over) /\ IsPrefix(loop[s].hasher \o c.data, over)
    OBVIOUS
  <2>1. IsPrefix(p.hashed[c.file], disk[path])
    BY <1>2, <1>3 DEF FilesTrue, OnDisk
  <2> QED BY <1>2, <1>3, <1>4, <2>1, WrittenBehind DEF over
<1>11. Announced' /\ Counted'
  BY <1>1, <1>5, <1>6 DEF FilesTrue, Announced, Counted, Ids
<1>12. InHand'
  BY <1>1, <1>3, <1>5, <1>6 DEF InHand
<1> HIDE DEF c, path
<1>13. OnDisk'
  <2> SUFFICES ASSUME NEW name \in Names, Sole(name), NEW t \in Ids, transfers[t] # None,
                      NEW i \in 1..Len(transfers[t].files), transfers[t].files[i].name = name
               PROVE  IsPrefix(transfers[t].hashed[i], disk'[name])
    BY <1>1, SoleStays DEF OnDisk, Ids
  <2>1. CASE name # path
    BY <1>8, <2>1 DEF FilesTrue, OnDisk
  <2>2. CASE name = path
    <3>1. t \in 1..Len(manifest[s]) /\ transfers[t].files = manifest[s][t]
      BY DEF FilesTrue, Announced
    <3>2. /\ i \in 1..Len(manifest[s][t]) /\ c.file \in 1..Len(manifest[s][c.id])
          /\ manifest[s][t][i].name = manifest[s][c.id][c.file].name
          /\ Sole(manifest[s][t][i].name)
      BY <1>3, <1>9, <2>2, <3>1
    <3>3. FileTypes
      BY DEF Filed
    <3>4. t = c.id /\ i = c.file
      BY <1>9, <3>1, <3>2, <3>3, CarriesOnce, Zenon
    <3> QED BY <1>3, <1>8, <1>10, <2>2, <3>4
  <2> QED BY <2>1, <2>2
<1>14. Written'
  <2> SUFFICES ASSUME NEW name \in Names, Sole(name), loop'[s].path = name
               PROVE  IsPrefix(Hashed(s)', disk'[name])
    BY <1>1, SoleStays DEF Written
  <2>1. name = path
    BY <1>5, <1>6 DEF path
  <2> QED BY <1>7, <1>8, <1>10, <2>1
<1> QED BY <1>11, <1>12, <1>13, <1>14 DEF FilesTrue

LEMMA TruthCommit ==
  ASSUME Filed, FilesTrue, NEW s \in Senders, \A r \in Senders : r = s, Commit(s)
  PROVE  FilesTrue'
<1> DEFINE c == loop[s].chunk
           p == transfers[c.id]
           size == Len(c.data)
           q == Advanced(p, c.file, size, Hashed(s))
<1>1. /\ loop[s].at = "commit" /\ \E r \in {Recv, Dead} : loop' = [loop EXCEPT ![s] = r]
      /\ UNCHANGED <<manifest, control, disk>>
  BY DEF Commit, sender
<1>2. loop'[s].at \in {"recv", "dead"}
  BY <1>1 DEF Filed, FileTypes, Recv, Dead
<1>3. /\ p # None /\ c.file \in 1..Len(p.files) /\ loop[s].path = p.files[c.file].name
      /\ loop[s].hasher = p.hashed[c.file]
  BY <1>1 DEF FilesTrue, InHand
<1>4. /\ c \in Chunk /\ Hashed(s) \in Seq(Nat) /\ size \in Nat
      /\ \/ UNCHANGED transfers
         \/ p \in Progress /\ transfers' = [transfers EXCEPT ![c.id] = q]
  BY CommitAdvances DEF Filed
<1>5. c.id \in Ids
  BY <1>4 DEF Chunk
<1>6. InHand' /\ Written'
  BY <1>2 DEF InHand, Written
<1>7. CASE UNCHANGED transfers
  <2>1. Announced' /\ Counted'
    BY <1>1, <1>2, <1>7 DEF FilesTrue, Announced, Counted, Ids
  <2>2. OnDisk'
    BY <1>1, <1>7, SoleStays DEF FilesTrue, OnDisk, Ids
  <2> QED BY <1>6, <2>1, <2>2 DEF FilesTrue
<1>8. CASE p \in Progress /\ transfers' = [transfers EXCEPT ![c.id] = q]
  <2>1. /\ q \in Progress /\ q.files = p.files
        /\ \A i \in 1..Len(p.files) :
             /\ q.received[i] = IF i = c.file THEN p.received[c.file] + size ELSE p.received[i]
             /\ q.hashed[i] = IF i = c.file THEN Hashed(s) ELSE p.hashed[i]
    <3> DEFINE hash == Hashed(s)
               file == c.file
    <3>1. p \in Progress /\ file \in 1..Len(p.files) /\ size \in Nat /\ hash \in Seq(Nat)
      BY <1>3, <1>4, <1>8
    <3> HIDE DEF p, size, hash, file
    <3>2. /\ Advanced(p, file, size, hash) \in Progress
          /\ Advanced(p, file, size, hash).files = p.files
          /\ \A i \in 1..Len(p.files) :
               /\ Advanced(p, file, size, hash).received[i] =
                    IF i = file THEN p.received[file] + size ELSE p.received[i]
               /\ Advanced(p, file, size, hash).hashed[i] = IF i = file THEN hash ELSE p.hashed[i]
      BY <3>1, AdvancedType
    <3> QED BY <3>2 DEF hash, file
  <2>2. Len(Hashed(s)) = Len(loop[s].hasher) + size /\ Len(loop[s].hasher) = p.received[c.file]
    <3>1. loop[s].hasher \in Seq(Nat) /\ c.data \in Seq(Nat)
      BY <1>1, LoopWrite DEF Filed, FileTypes, Chunk
    <3>2. Len(loop[s].hasher) = p.received[c.file]
      BY <1>3, <1>5 DEF FilesTrue, Counted
    <3> QED BY <3>1, <3>2, ConcatProperties DEF Hashed
  <2>3. \A name \in Names : Sole(name) /\ loop[s].path = name => IsPrefix(Hashed(s), disk[name])
    BY <1>1 DEF FilesTrue, Written
  <2> HIDE DEF q, c, size
  <2>4. transfers'[c.id] = q /\ \A t \in Ids : t # c.id => transfers'[t] = transfers[t]
    BY <1>5, <1>8 DEF Filed, FileTypes
  <2>5. \A t \in Ids : /\ transfers[t] = None => transfers'[t] = None
                       /\ transfers[t] # None => transfers'[t].files = transfers[t].files
    BY <1>3, <2>1, <2>4
  <2>6. Announced'
    <3>1. \A i \in 1..Len(control[s]) : control[s][i] \in Ids
      BY DEF Filed, FileTypes
    <3>2. \A t \in Ids : transfers'[t] # None =>
            t \in 1..Len(manifest[s]) /\ transfers'[t].files = manifest[s][t]
      BY <2>5 DEF FilesTrue, Announced
    <3>3. \A i \in 1..Len(control[s]) : transfers'[control[s][i]] = None
      BY <2>5, <3>1 DEF FilesTrue, Announced
    <3>4. \A i, j \in 1..Len(control[s]) : control[s][i] = control[s][j] => i = j
      BY DEF FilesTrue, Announced
    <3> QED BY <1>1, <1>2, <3>2, <3>3, <3>4 DEF Announced, Ids
  <2>7. Counted'
    <3> SUFFICES ASSUME NEW t \in Ids, transfers'[t] # None, NEW i \in 1..Len(transfers'[t].files)
                 PROVE  transfers'[t].received[i] = Len(transfers'[t].hashed[i])
      BY DEF Counted, Ids
    <3>1. CASE t = c.id
      <4>1. i \in 1..Len(p.files) /\ transfers'[t] = q
        BY <2>1, <2>4, <3>1
      <4>2. p.received[i] = Len(p.hashed[i])
        BY <1>3, <1>5, <4>1 DEF FilesTrue, Counted
      <4> QED BY <2>1, <2>2, <4>1, <4>2
    <3>2. CASE t # c.id
      BY <2>4, <3>2 DEF FilesTrue, Counted
    <3> QED BY <3>1, <3>2
  <2>8. OnDisk'
    <3> SUFFICES ASSUME NEW name \in Names, Sole(name), NEW t \in Ids, transfers'[t] # None,
                        NEW i \in 1..Len(transfers'[t].files), transfers'[t].files[i].name = name
                 PROVE  IsPrefix(transfers'[t].hashed[i], disk[name])
      BY <1>1, SoleStays DEF OnDisk, Ids
    <3>1. CASE t = c.id
      <4>1. i \in 1..Len(p.files) /\ transfers'[t] = q /\ p.files[i].name = name
        BY <2>1, <2>4, <3>1
      <4>2. CASE i = c.file
        BY <1>3, <2>1, <2>3, <4>1, <4>2
      <4>3. CASE i # c.file
        <5>1. IsPrefix(p.hashed[i], disk[name])
          BY <1>3, <1>5, <4>1 DEF FilesTrue, OnDisk
        <5> QED BY <2>1, <4>1, <4>3, <5>1
      <4> QED BY <4>2, <4>3
    <3>2. CASE t # c.id
      BY <2>4, <3>2 DEF FilesTrue, OnDisk
    <3> QED BY <3>1, <3>2
  <2> QED BY <1>6, <2>6, <2>7, <2>8 DEF FilesTrue
<1> QED BY <1>4, <1>7, <1>8

LEMMA TruthStep ==
  ASSUME \A a, b \in Senders : a = b
  PROVE  Filed /\ FilesTrue /\ [Next]_vars => FilesTrue'
<1> SUFFICES ASSUME Filed, FilesTrue, [Next]_vars PROVE FilesTrue'
  OBVIOUS
<1>1. ASSUME NEW s \in Senders, NEW list \in Selections, StartTransfer(s, list) PROVE FilesTrue'
  BY <1>1, TruthStart
<1>2. ASSUME NEW s \in Senders, SendChunk(s) PROVE FilesTrue'
  BY <1>2, TruthSend DEF SendChunk, receiver
<1>3. ASSUME NEW s \in Senders, Break(s) PROVE FilesTrue'
  BY <1>3, TruthBreak
<1>4. ASSUME NEW s \in Senders, NEW n \in Names, NEW content \in Contents, Edit(s, n, content) PROVE FilesTrue'
  BY <1>4, TruthSend DEF Edit, receiver
<1>5. ASSUME NEW s \in Senders, Receive(s) PROVE FilesTrue'
  BY <1>5, TruthOffer, TruthCreate, TruthInsert, TruthChunk, TruthWrite, TruthCommit DEF Receive
<1>6. CASE UNCHANGED vars
  BY <1>6, TruthSend DEF vars, sender, receiver
<1> QED BY <1>1, <1>2, <1>3, <1>4, <1>5, <1>6 DEF Next

LEMMA TruthImplies == Filed /\ FilesTrue => OffsetsOnDisk
<1> SUFFICES ASSUME Filed, FilesTrue, NEW t \in Ids, transfers[t] # None,
                    NEW i \in DOMAIN transfers[t].files, Sole(transfers[t].files[i].name)
             PROVE  /\ transfers[t].received[i] = Len(transfers[t].hashed[i])
                    /\ IsPrefix(transfers[t].hashed[i], disk[transfers[t].files[i].name])
  BY DEF OffsetsOnDisk, Sole
<1>1. transfers[t].files \in Seq(File) /\ i \in 1..Len(transfers[t].files)
  BY DEF Filed, FileTypes, Progress
<1>2. transfers[t].files[i].name \in Names
  BY <1>1, FileNames
<1> QED BY <1>1, <1>2 DEF FilesTrue, Counted, OnDisk

(* The offsets a sender may resume from are true (OffsetsOnDisk): the bytes *)
(* counted as received are on the disk and are the ones that were hashed,   *)
(* whatever is edited, cut or rejected (write_chunk advances the offset     *)
(* after the write). Said of one sender: every sender numbers its transfers *)
(* from 1, and the connections share RecvState.transfers, so that of two    *)
(* senders the one's progress replaces the other's.                         *)
THEOREM OffsetsAreOnDisk ==
  ASSUME \A a, b \in Senders : a = b
  PROVE  Spec => []OffsetsOnDisk
<1>1. Spec => []Filed
  BY FilesInit, FilesStep, PTL DEF Spec, Filed
<1>2. Spec => []FilesTrue
  BY <1>1, TruthInit, TruthStep, PTL DEF Spec
<1> QED BY <1>1, <1>2, TruthImplies, PTL

-----------------------------------------------------------------------------
(* Files: what is verified is what is stored *)

CarriedTo(files, next, name) == \E i \in 1..Len(files) : i < next /\ files[i].name = name

Writing(s, name) == loop[s].at = "commit" /\ loop[s].path = name

(* A file that one offer alone carries has on the disk what was hashed of   *)
(* it and nothing else, and with a chunk just written that chunk too.       *)
Exact ==
  \A name \in Names : Sole(name) =>
    \A s \in Senders :
      /\ loop[s].at = "create" /\ CarriedTo(loop[s].files, loop[s].next, name) => disk[name] = <<>>
      /\ Writing(s, name) => disk[name] = Hashed(s)
      /\ ~Writing(s, name) =>
           \A t \in Ids : transfers[t] # None =>
             \A i \in 1..Len(transfers[t].files) :
               transfers[t].files[i].name = name => disk[name] = transfers[t].hashed[i]

(* A chunk written at the end of a file is appended to it. *)
LEMMA WrittenAtEnd ==
  ASSUME NEW hasher \in Seq(Nat), NEW data \in Seq(Nat)
  PROVE  Overlaid(hasher, Len(hasher), data) = hasher \o data
<1> DEFINE n    == Len(hasher) + Len(data)
           over == Overlaid(hasher, Len(hasher), data)
<1>1. Len(hasher) \in Nat /\ Len(data) \in Nat
  OBVIOUS
<1>2. over = [i \in 1..n |-> IF i \in (Len(hasher) + 1)..n THEN data[i - Len(hasher)]
                             ELSE IF i \in DOMAIN hasher THEN hasher[i] ELSE 0]
  <2>1. (IF n > Len(hasher) THEN n ELSE Len(hasher)) = n
    BY <1>1
  <2> QED BY <2>1 DEF Overlaid
<1>3. over \in Seq(Nat)
  BY <1>1, OverlaidType
<1>4. n \in Nat /\ DOMAIN over = 1..n
  BY <1>1, <1>2
<1>5. Len(over) = n
  BY <1>3, <1>4
<1>6. /\ hasher \o data \in Seq(Nat) /\ Len(hasher \o data) = n
      /\ \A i \in 1..n : (hasher \o data)[i] = IF i <= Len(hasher) THEN hasher[i] ELSE data[i - Len(hasher)]
  BY ConcatProperties
<1>7. ASSUME NEW i \in 1..n PROVE over[i] = (hasher \o data)[i]
  <2>1. CASE i <= Len(hasher)
    <3>1. i \notin (Len(hasher) + 1)..n /\ i \in DOMAIN hasher
      BY <1>1, <2>1
    <3> QED BY <1>2, <1>6, <2>1, <3>1
  <2>2. CASE ~(i <= Len(hasher))
    <3>1. i \in (Len(hasher) + 1)..n
      BY <1>1, <2>2
    <3> QED BY <1>2, <1>6, <2>2, <3>1
  <2> QED BY <2>1, <2>2
<1> HIDE DEF over, n
<1> QED BY <1>3, <1>5, <1>6, <1>7, SeqEqual DEF over

(* Steps that leave the receiver and the files alone *)
LEMMA ExactKept ==
  ASSUME Exact, UNCHANGED <<loop, transfers, disk>>, \A name \in Names : Sole(name)' => Sole(name)
  PROVE  Exact'
BY DEF Exact, CarriedTo, Writing, Hashed, Ids

LEMMA ExactOffer ==
  ASSUME Filed, FilesTrue, Exact, NEW s \in Senders, \A r \in Senders : r = s, HandleOffer(s)
  PROVE  Exact'
<1> DEFINE id    == Head(control[s])
           files == manifest[s][id]
           l     == [at |-> "create", id |-> id, files |-> files, next |-> 1]
<1>1. /\ loop[s].at = "recv" /\ loop' = [loop EXCEPT ![s] = l] /\ control[s] # <<>>
      /\ UNCHANGED <<manifest, transfers, disk>>
  BY DEF HandleOffer
<1>2. files \in Seq(File)
  <2>1. control[s] \in Seq(Ids)
    BY DEF Filed, FileTypes
  <2>2. Len(control[s]) \in Nat /\ Len(control[s]) # 0
    BY <1>1, <2>1
  <2>3. id = control[s][1] /\ 1 \in 1..Len(control[s])
    BY <2>1, <2>2
  <2>4. id \in 1..Len(manifest[s])
    BY <2>3 DEF Filed, Started
  <2> QED BY <2>4 DEF Filed, FileTypes
<1>3. loop'[s].at = "create" /\ loop'[s].files = files /\ loop'[s].next = 1
  BY <1>1 DEF Filed, FileTypes
<1> HIDE DEF files
<1>4. \A name : ~CarriedTo(files, 1, name)
  BY <1>2 DEF CarriedTo
<1> QED BY <1>1, <1>3, <1>4, SoleStays DEF Exact, CarriedTo, Writing, Ids

LEMMA ExactCreate ==
  ASSUME Filed, FilesTrue, Exact, NEW s \in Senders, \A r \in Senders : r = s, CreateFile(s)
  PROVE  Exact'
<1> DEFINE next  == loop[s].next
           files == loop[s].files
           made  == files[next].name
           l     == [loop[s] EXCEPT !.next = next + 1]
<1>1. /\ loop[s].at = "create" /\ next <= Len(files) /\ UNCHANGED <<manifest, transfers>>
      /\ \/ UNCHANGED disk /\ loop' = [loop EXCEPT ![s] = Recv]
         \/ disk' = [disk EXCEPT ![made] = <<>>] /\ loop' = [loop EXCEPT ![s] = l]
  BY DEF CreateFile, sender
<1>2. loop[s] \in Creating /\ files \in Seq(File) /\ next \in 1..Len(files) /\ made \in Names
  <2>1. loop[s] \in Creating /\ files \in Seq(File) /\ next \in Nat \ {0}
    BY <1>1, LoopCases, LoopCreate DEF Filed, FileTypes
  <2>2. next \in 1..Len(files)
    BY <1>1, <2>1
  <2> QED BY <2>1, <2>2, FileNames
<1>3. l.at = "create" /\ l.files = files /\ l.next = next + 1
  BY <1>2 DEF Creating
<1> HIDE DEF l
<1>4. CASE UNCHANGED disk /\ loop' = [loop EXCEPT ![s] = Recv]
  <2>1. loop'[s].at = "recv"
    BY <1>4 DEF Filed, FileTypes, Recv
  <2> QED BY <1>1, <1>4, <2>1, SoleStays DEF Exact, Writing, Ids
<1>5. CASE disk' = [disk EXCEPT ![made] = <<>>] /\ loop' = [loop EXCEPT ![s] = l]
  <2>1. /\ loop'[s].at = "create" /\ loop'[s].files = files /\ loop'[s].next = next + 1
        /\ disk'[made] = <<>> /\ \A n \in Names : n # made => disk'[n] = disk[n]
    BY <1>2, <1>3, <1>5 DEF Filed, FileTypes
  <2>2. SUFFICES ASSUME NEW name \in Names, Sole(name)
                 PROVE  /\ CarriedTo(files, next + 1, name) => disk'[name] = <<>>
                        /\ \A t \in Ids : transfers[t] # None =>
                             \A i \in 1..Len(transfers[t].files) :
                               transfers[t].files[i].name = name => disk'[name] = transfers[t].hashed[i]
    BY <1>1, <2>1, SoleStays DEF Exact, CarriedTo, Writing, Ids
  <2>3. ASSUME CarriedTo(files, next + 1, name) PROVE disk'[name] = <<>>
    <3>1. CASE name = made
      BY <2>1, <3>1
    <3>2. CASE name # made
      <4>1. CarriedTo(files, next, name)
        BY <1>2, <2>3, <3>2 DEF CarriedTo
      <4>2. disk[name] = <<>>
        BY <1>1, <2>2, <4>1 DEF Exact
      <4> QED BY <2>1, <3>2, <4>2
    <3> QED BY <3>1, <3>2
  <2>4. ASSUME NEW t \in Ids, transfers[t] # None, NEW i \in 1..Len(transfers[t].files),
               transfers[t].files[i].name = name
        PROVE  disk'[name] = transfers[t].hashed[i]
    <3>1. name # made
      BY <1>1, <1>2, <2>2, <2>4, NextIsNew
    <3>2. disk[name] = transfers[t].hashed[i]
      BY <1>1, <2>2, <2>4 DEF Exact, Writing
    <3> QED BY <2>1, <3>1, <3>2
  <2> QED BY <2>3, <2>4
<1> QED BY <1>1, <1>4, <1>5

LEMMA ExactInsert ==
  ASSUME Filed, FilesTrue, Exact, NEW s \in Senders, \A r \in Senders : r = s, Insert(s)
  PROVE  Exact'
<1> DEFINE id    == loop[s].id
           files == loop[s].files
           p == [files |-> files, received |-> [i \in 1..Len(files) |-> 0],
                 hashed |-> [i \in 1..Len(files) |-> <<>>]]
<1>1. /\ loop[s].at = "create" /\ loop[s].next > Len(files) /\ transfers' = [transfers EXCEPT ![id] = p]
      /\ loop' = [loop EXCEPT ![s] = Recv] /\ UNCHANGED <<manifest, disk>>
  BY DEF Insert, sender
<1>2. id \in Ids /\ files \in Seq(File) /\ loop[s].next \in Nat
  BY <1>1, LoopCreate DEF Filed, FileTypes
<1>3. p.files = files /\ \A i \in 1..Len(files) : p.hashed[i] = <<>>
  OBVIOUS
<1> HIDE DEF p
<1>4. /\ loop'[s].at = "recv"
      /\ transfers'[id] = p /\ \A t \in Ids : t # id => transfers'[t] = transfers[t]
  BY <1>1, <1>2 DEF Filed, FileTypes, Recv
<1>5. SUFFICES ASSUME NEW name \in Names, Sole(name), NEW t \in Ids, transfers'[t] # None,
                      NEW i \in 1..Len(transfers'[t].files), transfers'[t].files[i].name = name
               PROVE  disk[name] = transfers'[t].hashed[i]
  BY <1>1, <1>4, SoleStays DEF Exact, Ids, Writing
<1>6. CASE t = id
  <2>1. i \in 1..Len(files) /\ files[i].name = name /\ transfers'[t].hashed[i] = <<>>
    BY <1>3, <1>4, <1>5, <1>6
  <2>2. CarriedTo(files, loop[s].next, name)
    BY <1>1, <1>2, <2>1 DEF CarriedTo
  <2>3. disk[name] = <<>>
    BY <1>1, <1>5, <2>2 DEF Exact
  <2> QED BY <2>1, <2>3
<1>7. CASE t # id
  BY <1>1, <1>4, <1>5, <1>7 DEF Exact, Writing
<1> QED BY <1>6, <1>7

LEMMA ExactChunk ==
  ASSUME Filed, Exact, NEW s \in Senders, \A r \in Senders : r = s, NEW t \in Ids, HandleChunk(s, t)
  PROVE  Exact'
<1>1. loop[s].at = "recv" /\ UNCHANGED <<manifest, transfers, disk>>
  BY DEF HandleChunk
<1>2. loop'[s].at \in {"recv", "write"}
  BY <1>1 DEF HandleChunk, Filed, FileTypes
<1> QED BY <1>1, <1>2, SoleStays DEF Exact, Writing, Ids

LEMMA ExactWrite ==
  ASSUME Filed, FilesTrue, Exact, NEW s \in Senders, \A r \in Senders : r = s, Write(s)
  PROVE  Exact'
<1> DEFINE c    == loop[s].chunk
           path == loop[s].path
           p    == transfers[c.id]
           over == Overlaid(disk[path], c.offset, c.data)
           l    == [loop[s] EXCEPT !.at = "commit"]
<1>1. /\ loop[s].at = "write" /\ disk' = [disk EXCEPT ![path] = over]
      /\ loop' = [loop EXCEPT ![s] = l] /\ UNCHANGED <<manifest, transfers>>
  BY DEF Write, sender
<1>2. /\ c.id \in Ids /\ c.data \in Seq(Nat) /\ path \in Names /\ loop[s].hasher \in Seq(Nat)
  BY <1>1, LoopWrite DEF Filed, FileTypes, Chunk
<1>3. /\ p # None /\ c.file \in 1..Len(p.files) /\ path = p.files[c.file].name
      /\ loop[s].hasher = p.hashed[c.file] /\ c.offset = p.received[c.file]
  BY <1>1 DEF FilesTrue, InHand
<1>4. c.offset = Len(loop[s].hasher)
  BY <1>2, <1>3 DEF FilesTrue, Counted
<1>5. l.at = "commit" /\ l.chunk = c /\ l.path = path /\ l.hasher = loop[s].hasher
  <2>1. loop[s] \in [at : {"write", "commit"}, chunk : Chunk, path : Names, hasher : Seq(Nat)]
    BY <1>1, LoopCases DEF Filed, FileTypes
  <2> QED BY <2>1
<1> HIDE DEF l
<1>6. loop'[s] = l
  BY <1>1 DEF Filed, FileTypes
<1>7. Hashed(s)' = loop[s].hasher \o c.data
  BY <1>5, <1>6 DEF Hashed
<1>8. Sole(path) => over = loop[s].hasher \o c.data
  <2> SUFFICES ASSUME Sole(path) PROVE over = loop[s].hasher \o c.data
    OBVIOUS
  <2>1. disk[path] = p.hashed[c.file]
    BY <1>1, <1>2, <1>3 DEF Exact, Writing
  <2>2. over = Overlaid(loop[s].hasher, Len(loop[s].hasher), c.data)
    BY <1>3, <1>4, <2>1
  <2> QED BY <1>2, <2>2, WrittenAtEnd
<1> HIDE DEF over
<1>9. disk'[path] = over /\ \A n \in Names : n # path => disk'[n] = disk[n]
  BY <1>1, <1>2 DEF Filed, FileTypes
<1> HIDE DEF c, path
<1>10. SUFFICES ASSUME NEW name \in Names, Sole(name)
                PROVE  /\ name = path => disk'[name] = Hashed(s)'
                       /\ name # path =>
                            \A t \in Ids : transfers[t] # None =>
                              \A i \in 1..Len(transfers[t].files) :
                                transfers[t].files[i].name = name => disk'[name] = transfers[t].hashed[i]
  <2>1. \A name : Writing(s, name)' <=> name = path
    BY <1>5, <1>6 DEF Writing
  <2>2. loop'[s].at # "create"
    BY <1>5, <1>6
  <2> QED BY <1>1, <2>1, <2>2, SoleStays DEF Exact, Ids
<1>11. name = path => disk'[name] = Hashed(s)'
  BY <1>7, <1>8, <1>9, <1>10
<1>12. ASSUME name # path, NEW t \in Ids, transfers[t] # None, NEW i \in 1..Len(transfers[t].files),
              transfers[t].files[i].name = name
       PROVE  disk'[name] = transfers[t].hashed[i]
  <2>1. disk[name] = transfers[t].hashed[i]
    BY <1>1, <1>10, <1>12 DEF Exact, Writing
  <2> QED BY <1>9, <1>12, <2>1
<1> QED BY <1>11, <1>12

LEMMA ExactCommit ==
  ASSUME Filed, FilesTrue, Exact, NEW s \in Senders, \A r \in Senders : r = s, Commit(s)
  PROVE  Exact'
<1> DEFINE c == loop[s].chunk
           p == transfers[c.id]
           size == Len(c.data)
           q == Advanced(p, c.file, size, Hashed(s))
<1>1. /\ loop[s].at = "commit" /\ \E r \in {Recv, Dead} : loop' = [loop EXCEPT ![s] = r]
      /\ UNCHANGED <<manifest, disk>>
  BY DEF Commit, sender
<1>2. loop'[s].at \in {"recv", "dead"}
  BY <1>1 DEF Filed, FileTypes, Recv, Dead
<1>3. p # None /\ c.file \in 1..Len(p.files) /\ loop[s].path = p.files[c.file].name
  BY <1>1 DEF FilesTrue, InHand
<1>4. /\ c \in Chunk /\ Hashed(s) \in Seq(Nat) /\ size \in Nat
      /\ p \in Progress /\ transfers' = [transfers EXCEPT ![c.id] = q]
  BY <1>3, CommitAdvances DEF Filed
<1>5. c.id \in Ids
  BY <1>4 DEF Chunk
<1>6. /\ q.files = p.files
      /\ \A i \in 1..Len(p.files) : q.hashed[i] = IF i = c.file THEN Hashed(s) ELSE p.hashed[i]
  <2> DEFINE hash == Hashed(s)
             file == c.file
  <2>1. p \in Progress /\ file \in 1..Len(p.files) /\ size \in Nat /\ hash \in Seq(Nat)
    BY <1>3, <1>4
  <2> HIDE DEF p, size, hash, file
  <2>2. /\ Advanced(p, file, size, hash).files = p.files
        /\ \A i \in 1..Len(p.files) :
             Advanced(p, file, size, hash).hashed[i] = IF i = file THEN hash ELSE p.hashed[i]
    BY <2>1, AdvancedType
  <2> QED BY <2>2 DEF hash, file
<1>7. c.id \in 1..Len(manifest[s]) /\ p.files = manifest[s][c.id]
  BY <1>3, <1>5 DEF FilesTrue, Announced
<1> HIDE DEF q, c, size
<1>8. transfers'[c.id] = q /\ \A t \in Ids : t # c.id => transfers'[t] = transfers[t]
  BY <1>4, <1>5 DEF Filed, FileTypes
<1>9. SUFFICES ASSUME NEW name \in Names, Sole(name), NEW t \in Ids, transfers'[t] # None,
                      NEW i \in 1..Len(transfers'[t].files), transfers'[t].files[i].name = name
               PROVE  disk[name] = transfers'[t].hashed[i]
  BY <1>1, <1>2, SoleStays DEF Exact, Ids, Writing
<1>10. t \in 1..Len(manifest[s]) /\ i \in 1..Len(manifest[s][t]) /\ manifest[s][t][i].name = name
       /\ transfers[t] # None /\ transfers[t].files = manifest[s][t]
  <2>1. transfers[t] # None /\ transfers'[t].files = transfers[t].files
    BY <1>3, <1>6, <1>8, <1>9
  <2>2. t \in 1..Len(manifest[s]) /\ transfers[t].files = manifest[s][t]
    BY <2>1 DEF FilesTrue, Announced
  <2> QED BY <1>9, <2>1, <2>2
<1>11. CASE name = loop[s].path
  <2>1. /\ c.file \in 1..Len(manifest[s][c.id]) /\ manifest[s][t][i].name = manifest[s][c.id][c.file].name
        /\ Sole(manifest[s][t][i].name) /\ FileTypes
    BY <1>3, <1>7, <1>9, <1>10, <1>11 DEF Filed
  <2>2. t = c.id /\ i = c.file
    BY <1>7, <1>10, <2>1, CarriesOnce, Zenon
  <2>3. disk[name] = Hashed(s)
    BY <1>1, <1>9, <1>11 DEF Exact, Writing
  <2> QED BY <1>3, <1>6, <1>8, <2>2, <2>3
<1>12. CASE name # loop[s].path
  <2>1. disk[name] = transfers[t].hashed[i]
    BY <1>9, <1>10, <1>12 DEF Exact, Writing
  <2>2. ~(t = c.id /\ i = c.file)
    BY <1>3, <1>7, <1>10, <1>12
  <2> QED BY <1>6, <1>7, <1>8, <1>10, <2>1, <2>2
<1> QED BY <1>11, <1>12

LEMMA ExactStep ==
  ASSUME \A a, b \in Senders : a = b
  PROVE  Filed /\ FilesTrue /\ Exact /\ [Next]_vars => Exact'
<1> SUFFICES ASSUME Filed, FilesTrue, Exact, [Next]_vars PROVE Exact'
  OBVIOUS
<1>1. ASSUME NEW s \in Senders, NEW list \in Selections, StartTransfer(s, list) PROVE Exact'
  <2>1. /\ manifest' = [manifest EXCEPT ![s] = Append(manifest[s], [i \in 1..Len(list) |-> Entry(s, list[i])])]
        /\ UNCHANGED <<loop, transfers, disk>>
    BY <1>1 DEF StartTransfer, receiver
  <2>2. \A name \in Names : Sole(name)' => Sole(name)
    BY <2>1, SoleBefore DEF Filed
  <2> QED BY <2>1, <2>2, ExactKept
<1>2. CASE UNCHANGED <<manifest, loop, transfers, disk>>
  BY <1>2, SoleStays, ExactKept
<1>3. ASSUME NEW s \in Senders, SendChunk(s) \/ Break(s) PROVE Exact'
  BY <1>2, <1>3 DEF SendChunk, Break, receiver
<1>4. ASSUME NEW s \in Senders, NEW n \in Names, NEW content \in Contents, Edit(s, n, content) PROVE Exact'
  BY <1>2, <1>4 DEF Edit, receiver
<1>5. ASSUME NEW s \in Senders, Receive(s) PROVE Exact'
  BY <1>5, ExactOffer, ExactCreate, ExactInsert, ExactChunk, ExactWrite, ExactCommit DEF Receive
<1>6. CASE UNCHANGED vars
  BY <1>2, <1>6 DEF vars, sender, receiver
<1> QED BY <1>1, <1>3, <1>4, <1>5, <1>6 DEF Next

(* A hash check that passes means what it is taken for: of a file that one  *)
(* offer alone carries, what passes is the content on the disk, whole and   *)
(* with nothing behind it (write_chunk hashes the chunks, not the file).    *)
(* Of a file that two offers carry this fails: VerifiedOnDisk is violated.  *)
THEOREM VerifiedIsStored ==
  ASSUME \A a, b \in Senders : a = b
  PROVE  Spec => [](\A s \in Senders : Sole(loop[s].path) /\ Verifies(s) =>
                      disk[loop[s].path] = transfers[loop[s].chunk.id].files[loop[s].chunk.file].content)
<1> DEFINE Stored == \A s \in Senders : Sole(loop[s].path) /\ Verifies(s) =>
                       disk[loop[s].path] = transfers[loop[s].chunk.id].files[loop[s].chunk.file].content
<1>1. Spec => [](Filed /\ FilesTrue)
  BY FilesInit, FilesStep, TruthInit, TruthStep, PTL DEF Spec, Filed
<1>2. Init => Exact
  BY DEF Init, Exact, Writing, Recv
<1>3. Spec => []Exact
  BY <1>1, <1>2, ExactStep, PTL DEF Spec
<1>4. Filed /\ Exact => Stored
  <2> SUFFICES ASSUME Filed, Exact, NEW s \in Senders, Sole(loop[s].path), Verifies(s)
               PROVE  disk[loop[s].path] = transfers[loop[s].chunk.id].files[loop[s].chunk.file].content
    OBVIOUS
  <2>1. loop[s].at = "commit" /\ Hashed(s) = transfers[loop[s].chunk.id].files[loop[s].chunk.file].content
    BY DEF Verifies
  <2>2. loop[s].path \in Names
    BY <2>1, LoopWrite DEF Filed, FileTypes
  <2>3. disk[loop[s].path] = Hashed(s)
    BY <2>1, <2>2 DEF Exact, Writing
  <2> QED BY <2>1, <2>3
<1> QED BY <1>1, <1>3, <1>4, PTL
=============================================================================
