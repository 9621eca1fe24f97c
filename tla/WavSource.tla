------------------------------ MODULE WavSource ------------------------------
(***************************************************************************)
(* WavDemuxer over a BoundedReader (backends/wav.rs, source.rs): a region  *)
(* of a file, read through a descriptor whose offset it shares with other  *)
(* holders of the same open file.  A read is two system calls, a seek and  *)
(* a read, and nothing in this code keeps the others from moving the       *)
(* offset between the two: file_source.rs:11 asks for coordination.        *)
(* Coordinated says whether there is any: the others then move the offset  *)
(* between two reads of the player only.  A read may return less than was  *)
(* asked.                                                                  *)
(*                                                                         *)
(* A byte is its offset in the file: a buffer shows where it was read.     *)
(* What the bytes say is in `file`: the chunks as they stand one after     *)
(* another, each with its place, and the two lengths a header may lie      *)
(* about.                                                                  *)
(***************************************************************************)
EXTENDS Integers, SequencesExt

CONSTANTS
    Files,          \* [length, riffEnd, chunks : Seq(Chunks), rate]
    RegionStart,    \* where the region begins in the file
    FramesPerPacket,
    ReadSizes,      \* the most that one read returns, of several
    Coordinated,    \* the others keep away while the player reads
    OthersAt        \* where the others may leave the offset

(* channels counts only in a "fmt" chunk; start is the place of the header. *)
Chunks == [id : {"fmt", "data", "other"}, size : Nat, channels : Nat, start : Nat]

PaddedSize(c) == 8 + c.size + (c.size % 2)

(* Where chunk i begins, and for i = Len + 1 where the last one ends. *)
ChunkStart(f, i) == IF i = 1 THEN 12 ELSE f.chunks[i - 1].start + PaddedSize(f.chunks[i - 1])

(* The chunks stand in their places, and the RIFF body is made of them. *)
ASSUME FilesAssumption ==
    \A f \in Files :
        /\ f \in [length : Nat, riffEnd : Nat, rate : Nat \ {0}, chunks : Seq(Chunks)]
        /\ \A i \in DOMAIN f.chunks : f.chunks[i].start = ChunkStart(f, i)
        /\ f.riffEnd <= ChunkStart(f, Len(f.chunks) + 1)
ASSUME RegionStartAssumption == RegionStart \in Nat
ASSUME FramesPerPacketAssumption == FramesPerPacket \in Nat \ {0}
ASSUME ReadSizesAssumption == ReadSizes \subseteq Nat \ {0} /\ ReadSizes # {}
ASSUME CoordinatedAssumption == Coordinated \in BOOLEAN

(* Before the region, so that what is read from there is in the file. *)
ASSUME OthersAtAssumption == OthersAt \subseteq 0 .. RegionStart

VARIABLES
    file,
    offset,     \* of the open file, shared
    position,   \* of the BoundedReader, its own
    sought,     \* a read has sought its place and not yet read
    pc,         \* where the demuxer is
    got, want,  \* read_exact: the bytes so far, and how many there must be
    layout,     \* what read_wav_layout knows: channels, data range, next chunk
    nextFrame

sourceVars == <<file, offset, position, sought, pc, got, want, layout, nextFrame>>

NoRange == <<0, 0>>
NoChunk == [id |-> "other", size |-> 0, channels |-> 0, start |-> 0]

SourceInit ==
    /\ file \in Files
    /\ offset = 0 /\ position = 0 /\ sought = FALSE
    /\ pc = "open"
    /\ got = <<>> /\ want = 0
    /\ layout = [channels |-> 0, data |-> NoRange, next |-> 0]
    /\ nextFrame = 0

-----------------------------------------------------------------------------
(* The file *)

(* The chunk whose header, or whose payload, these bytes are. *)
ChunkAt(bytes, skip) ==
    LET Fits(i) == bytes = [k \in DOMAIN bytes |-> RegionStart + file.chunks[i].start + skip + k - 1]
        found == {i \in DOMAIN file.chunks : Fits(i)}
    IN  IF found = {} THEN NoChunk ELSE file.chunks[CHOOSE i \in found : TRUE]

-----------------------------------------------------------------------------
(* BoundedReader *)

(* The file is not one the demuxer can play. *)
Fail ==
    /\ pc' = "failed"
    /\ UNCHANGED <<file, offset, position, sought, got, want, layout, nextFrame>>

(* Seek: within the region, and at once in the file. *)
SeekTo(p) ==
    /\ position' = p
    /\ offset' = RegionStart + p

(* Mutant: a read begins wherever the offset of the open file is. *)
SharedPosition == offset

(* Where a read wants to begin: at the reader's own position. *)
ReadPosition == RegionStart + position

(* read_exact goes on: at the end of the region it is UnexpectedEof. *)
Reading == pc \in {"riff", "header", "format", "packet"} /\ Len(got) < want

(* BoundedReader::read up to the seek, wherever the offset was. *)
SeekBeforeRead ==
    /\ Reading /\ ~sought
    /\ IF position = file.length
       THEN Fail
       ELSE /\ offset' = ReadPosition
            /\ sought' = TRUE
            /\ UNCHANGED <<file, position, pc, got, want, layout, nextFrame>>

(* The read itself: the system takes what stands at the offset by now. *)
ReadSome ==
    /\ Reading /\ sought
    /\ \E size \in ReadSizes :
          LET n == CHOOSE m \in {size, want - Len(got), file.length - position} :
                      m <= size /\ m <= want - Len(got) /\ m <= file.length - position
          IN  /\ got' = got \o [i \in 1 .. n |-> offset + i - 1]
              /\ position' = position + n
              /\ offset' = offset + n
    /\ sought' = FALSE
    /\ UNCHANGED <<file, pc, want, layout, nextFrame>>

(* Either system call fails, or the file has become shorter. *)
ReadFails ==
    /\ Reading
    /\ pc' = "ioError"
    /\ sought' = FALSE
    /\ UNCHANGED <<file, offset, position, got, want, layout, nextFrame>>

(* Another holder of the open file reads from it or seeks in it. *)
OthersMove ==
    /\ Coordinated => ~sought
    /\ \E place \in OthersAt : offset # place /\ offset' = place
    /\ UNCHANGED <<file, position, sought, pc, got, want, layout, nextFrame>>

ReadExactly(n, then) ==
    /\ pc' = then
    /\ got' = <<>> /\ want' = n
    /\ sought' = FALSE

Done(where) == pc = where /\ Len(got) = want

-----------------------------------------------------------------------------
(* from_reader *)

(* BoundedReader::new, and the start of read_riff_header. *)
Open ==
    /\ pc = "open"
    /\ IF file.length < 12
       THEN Fail
       ELSE SeekTo(0) /\ ReadExactly(12, "riff") /\ UNCHANGED <<file, layout, nextFrame>>

(* What stands at the beginning; from elsewhere it is no RIFF header. *)
IsRiff == got = [i \in 1 .. 12 |-> RegionStart + i - 1]

ReadRiff ==
    /\ Done("riff")
    /\ IF ~IsRiff \/ file.riffEnd < 12 \/ file.riffEnd > file.length
       THEN Fail
       ELSE ReadExactly(0, "chunk") /\ UNCHANGED <<file, offset, position, layout, nextFrame>>

(* read_chunk_header at the end of the last chunk, and what is left to ask. *)
BytesPerFrame == 2 * layout.channels
DataLength == layout.data[2] - layout.data[1]

LayoutIsComplete ==
    /\ layout.channels # 0 /\ layout.data # NoRange
    /\ DataLength % BytesPerFrame = 0

EndLayout ==
    /\ pc = "chunk" /\ position = file.riffEnd
    /\ IF LayoutIsComplete
       THEN ReadExactly(0, "idle") /\ UNCHANGED <<file, offset, position, layout, nextFrame>>
       ELSE Fail

BeginChunk ==
    /\ pc = "chunk" /\ position # file.riffEnd
    /\ IF position + 8 > file.riffEnd
       THEN Fail
       ELSE ReadExactly(8, "header") /\ UNCHANGED <<file, offset, position, layout, nextFrame>>

(* Mutant: the padding of an odd chunk is not skipped. *)
NextUnpadded(size) == position + size

(* next_offset: a chunk of odd size is followed by a byte of padding. *)
NextOffset(size) == position + size + (size % 2)

(***************************************************************************)
(* The rest of read_chunk_header, and what read_wav_layout does with the   *)
(* chunk: position is the start of its payload.                            *)
(***************************************************************************)
Unwanted(c) ==
    \/ position + c.size > file.riffEnd \/ NextOffset(c.size) > file.riffEnd
    \/ c.id = "fmt" /\ (layout.channels # 0 \/ c.size < 16)
    \/ c.id = "data" /\ layout.data # NoRange

ReadHeader ==
    /\ Done("header")
    /\ LET c == ChunkAt(got, 0)
       IN  \/ Unwanted(c) /\ Fail
           \/ /\ ~Unwanted(c) /\ c.id = "fmt"
              /\ ReadExactly(16, "format")
              /\ layout' = [layout EXCEPT !.next = NextOffset(c.size)]
              /\ UNCHANGED <<file, offset, position, nextFrame>>
           \/ /\ ~Unwanted(c) /\ c.id # "fmt"
              /\ layout' = IF c.id = "data"
                           THEN [layout EXCEPT !.data = <<position, position + c.size>>]
                           ELSE layout
              /\ SeekTo(NextOffset(c.size))
              /\ ReadExactly(0, "chunk")
              /\ UNCHANGED <<file, nextFrame>>

(* parse_pcm_format: 16-bit PCM of one or two channels. *)
ReadFormat ==
    /\ Done("format")
    /\ LET c == ChunkAt(got, 8)
       IN  IF c.channels \notin {1, 2}
           THEN Fail
           ELSE /\ layout' = [layout EXCEPT !.channels = c.channels]
                /\ SeekTo(layout.next)
                /\ ReadExactly(0, "chunk")
                /\ UNCHANGED <<file, nextFrame>>

Opening == Open \/ ReadRiff \/ EndLayout \/ BeginChunk \/ ReadHeader \/ ReadFormat

-----------------------------------------------------------------------------
(* The packets *)

FrameCount == DataLength \div BytesPerFrame

AtEnd == nextFrame >= FrameCount

(* read_packet, up to the read. *)
ReadPacket ==
    /\ pc = "idle" /\ ~AtEnd
    /\ LET left == FrameCount - nextFrame
           frames == IF left < FramesPerPacket THEN left ELSE FramesPerPacket
       IN  ReadExactly(frames * BytesPerFrame, "packet")
    /\ SeekTo(layout.data[1] + nextFrame * BytesPerFrame)
    /\ UNCHANGED <<file, layout, nextFrame>>

(* The packet it returns, and its frames are behind. *)
PacketRead == [bytes |-> got, frame |-> nextFrame]

EndPacket ==
    /\ Done("packet")
    /\ nextFrame' = nextFrame + want \div BytesPerFrame
    /\ ReadExactly(0, "idle")
    /\ UNCHANGED <<file, offset, position, layout>>

-----------------------------------------------------------------------------
(***************************************************************************)
(* A file is accepted exactly when its chunks fill the RIFF body to its    *)
(* declared end, with one usable format and one data chunk of whole frames *)
(* among them, in any order and with any others between; and the data      *)
(* range is that chunk's payload.  Stated on the file as a whole, against  *)
(* a parser that sees one header at a time.                                *)
(***************************************************************************)
InRiff(f) == {i \in DOMAIN f.chunks : ChunkStart(f, i + 1) <= f.riffEnd}
OfKind(f, id) == {i \in InRiff(f) : f.chunks[i].id = id}

IsWav(f) ==
    /\ f.riffEnd <= f.length
    /\ \E n \in 0 .. Len(f.chunks) : ChunkStart(f, n + 1) = f.riffEnd
    /\ \E i, j \in DOMAIN f.chunks :
          /\ OfKind(f, "fmt") = {i} /\ OfKind(f, "data") = {j}
          /\ f.chunks[i].size >= 16 /\ f.chunks[i].channels \in {1, 2}
          /\ f.chunks[j].size % (2 * f.chunks[i].channels) = 0

DataOf(f) ==
    LET j == CHOOSE i \in OfKind(f, "data") : TRUE
    IN  <<ChunkStart(f, j) + 8, ChunkStart(f, j) + 8 + f.chunks[j].size>>

LayoutIsTheFile ==
    /\ pc = "failed" => ~IsWav(file)
    /\ pc \in {"idle", "packet"} => IsWav(file) /\ layout.data = DataOf(file)

==============================================================================
