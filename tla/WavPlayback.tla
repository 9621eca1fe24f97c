---------------------------- MODULE WavPlayback ----------------------------
(***************************************************************************)
(* A WAV file played through the simulated output (WavPlaybackFactory,     *)
(* PlayerEngine::new_wav_simulated): the demuxer, PcmDecoder, the trimming *)
(* at the seek boundary and the output, driven by the playback worker.     *)
(* The queue of the audio branch only delays packets (MediaBranch); here   *)
(* it holds one.  The deferred output is not seen: an output that runs     *)
(* empty plays nothing, whether it exists or not.                          *)
(***************************************************************************)
EXTENDS WavSource, SimulatedOutput

CONSTANTS
    SeekTargets,    \* where a user may seek to, in nanoseconds
    MaxSeek

ASSUME SeekTargetsAssumption == SeekTargets \subseteq Int
ASSUME MaxSeekAssumption == MaxSeek \in Nat

(* 1024 frames and 4096: no block is BufferTooLarge. *)
ASSUME PacketFitsAssumption == FramesPerPacket <= CapacityFrames

VARIABLES
    packet,     \* pending_packet, or the packet in the queue
    pcm,        \* pending_output or pending_frame: its bytes and its timestamp
    sourceEnded,    \* SourcePhase
    boundary,   \* presentation_boundary
    running, reported,  \* PlaybackWorker
    seeks,
    heard,      \* history: the bytes the output took since the last seek,
    blocks      \* and where each block of them began, with its timestamp

playback == <<packet, pcm, sourceEnded, boundary, running, reported, seeks, heard, blocks>>
device == <<output, real>>
vars == <<sourceVars, device, playback>>

NoPacket == [bytes |-> <<>>, frame |-> 0]
NoPcm == [bytes |-> <<>>, pts |-> 0]

Init ==
    /\ SourceInit
    /\ output = NewOutput /\ real = NewDevice
    /\ packet = NoPacket /\ pcm = NoPcm
    /\ sourceEnded = FALSE
    /\ boundary = 0     \* start_time of the track
    /\ running = FALSE /\ reported = FALSE
    /\ seeks = 0
    /\ heard = <<>> /\ blocks = <<>>

Rate == file.rate

Built == pc \in {"idle", "packet"}

-----------------------------------------------------------------------------
(* The worker *)

(* build: from_reader, one read after another. *)
Build == Opening /\ UNCHANGED <<device, playback>>

Read == (SeekBeforeRead \/ ReadSome) /\ UNCHANGED <<device, playback>>

(* The demuxer, the medium or the system fails: the pipeline is dropped. *)
Break == ReadFails /\ UNCHANGED <<device, playback>>

(* step_source. *)
AskForPacket ==
    /\ running /\ packet = NoPacket /\ ~sourceEnded
    /\ ReadPacket
    /\ UNCHANGED <<device, playback>>

TakePacket ==
    /\ EndPacket
    /\ packet' = PacketRead
    /\ UNCHANGED <<device, pcm, sourceEnded, boundary, running, reported, seeks, heard, blocks>>

EndSource ==
    /\ running /\ pc = "idle" /\ packet = NoPacket /\ ~sourceEnded /\ AtEnd
    /\ sourceEnded' = TRUE
    /\ UNCHANGED <<sourceVars, device, packet, pcm, boundary, running, reported, seeks, heard, blocks>>

(* Mutant: the frames before the boundary are rounded down. *)
TrimmedByTime(bytes, pts) ==
    LET frames == FrameAt(boundary - pts, Rate)
    IN  IF pts >= boundary
        THEN [bytes |-> bytes, pts |-> pts]
        ELSE IF frames * BytesPerFrame >= Len(bytes)
        THEN NoPcm
        ELSE [bytes |-> SubSeq(bytes, frames * BytesPerFrame + 1, Len(bytes)),
              pts |-> TimeAfter(pts, frames, Rate)]

(* trim_audio_before: nothing, the whole block, or its end. *)
Trimmed(bytes, pts) ==
    LET frames == FramesBefore(boundary, pts, Rate)
    IN  IF pts >= boundary
        THEN [bytes |-> bytes, pts |-> pts]
        ELSE IF frames * BytesPerFrame >= Len(bytes)
        THEN NoPcm
        ELSE [bytes |-> SubSeq(bytes, frames * BytesPerFrame + 1, Len(bytes)),
              pts |-> TimeAfter(pts, frames, Rate)]

(* decode_pcm_packet, when the block before has gone. *)
Decode ==
    /\ running /\ pc = "idle" /\ packet # NoPacket /\ pcm = NoPcm
    /\ packet' = NoPacket
    /\ pcm' = Trimmed(packet.bytes, TimeOfFrame(packet.frame, Rate))
    /\ UNCHANGED <<sourceVars, device, sourceEnded, boundary, running, reported, seeks, heard, blocks>>

(* submit_pending_frame. *)
Submit ==
    /\ running /\ pc = "idle" /\ pcm # NoPcm
    /\ LET o == Updated(output, Rate)
           frames == Len(pcm.bytes) \div BytesPerFrame
       IN  IF HasRoom(o, frames)
           THEN /\ output' = Submitted(o, frames)
                /\ real' = [real EXCEPT !.buffered = @ + frames]
                /\ pcm' = NoPcm
                /\ heard' = heard \o pcm.bytes
                /\ blocks' = Append(blocks, [byte |-> pcm.bytes[1], pts |-> pcm.pts])
           ELSE output' = o /\ UNCHANGED <<real, pcm, heard, blocks>>
    /\ UNCHANGED <<sourceVars, packet, sourceEnded, boundary, running, reported, seeks>>

(* clock_snapshot, every PROGRESS_INTERVAL. *)
Observe ==
    /\ pc = "idle"
    /\ output' = Updated(output, Rate)
    /\ UNCHANGED <<sourceVars, real, playback>>

DecoderDrained == sourceEnded /\ packet = NoPacket /\ pcm = NoPcm

(* poll_completion: finished once the output has drained, then paused. *)
PollCompletion ==
    /\ running /\ pc = "idle" /\ DecoderDrained
    /\ LET o == Updated(output, Rate)
       IN  IF o.buffered = 0
           THEN output' = Paused(o, Rate) /\ running' = FALSE /\ reported' = TRUE
           ELSE output' = o /\ UNCHANGED <<running, reported>>
    /\ UNCHANGED <<sourceVars, real, packet, pcm, sourceEnded, boundary, seeks, heard, blocks>>

-----------------------------------------------------------------------------
(* The user, time, and the other holders of the file *)

Start ==
    /\ pc = "idle" /\ ~running /\ ~reported
    /\ running' = TRUE
    /\ output' = Started(output)
    /\ UNCHANGED <<sourceVars, real, packet, pcm, sourceEnded, boundary, reported, seeks, heard, blocks>>

Pause ==
    /\ pc = "idle" /\ running
    /\ running' = FALSE
    /\ output' = Paused(output, Rate)
    /\ UNCHANGED <<sourceVars, real, packet, pcm, sourceEnded, boundary, reported, seeks, heard, blocks>>

(* WavDemuxer::seek: at most to the end of the track. *)
FrameSought(time) == Min({FrameAt(time, Rate), FrameCount})

(* Seek to a target, which may lie before the start or behind the end. *)
Seek(target, resume) ==
    /\ pc = "idle" /\ seeks < MaxSeek
    /\ seeks' = seeks + 1
    /\ boundary' = Max({0, target})
    /\ packet' = NoPacket /\ pcm' = NoPcm
    /\ LET o == Flushed(Paused(output, Rate), Rate)
       IN  output' = IF resume THEN Started(o) ELSE o
    /\ real' = [real EXCEPT !.buffered = 0, !.fraction = 0]
    /\ nextFrame' = FrameSought(boundary')
    /\ sourceEnded' = FALSE
    /\ running' = resume /\ reported' = FALSE
    /\ heard' = <<>> /\ blocks' = <<>>
    /\ UNCHANGED <<file, offset, position, sought, pc, got, want, layout>>

Tick == Built /\ TimePasses(Rate) /\ UNCHANGED <<sourceVars, playback>>

Others == OthersMove /\ UNCHANGED <<device, playback>>

Over == pc \in {"failed", "ioError"} /\ UNCHANGED vars

PlaybackStep == AskForPacket \/ TakePacket \/ EndSource \/ Decode \/ Submit \/ PollCompletion

Next ==
    \/ Build \/ Read \/ Break
    \/ PlaybackStep
    \/ Observe
    \/ Start \/ Pause
    \/ \E target \in SeekTargets, resume \in BOOLEAN : Seek(target, resume)
    \/ Tick \/ Others \/ Over

Spec == Init /\ [][Next]_vars

(* The worker goes on, reads return, and time passes. *)
FairSpec ==
    /\ Spec
    /\ WF_vars(Build) /\ WF_vars(Read) /\ WF_vars(PlaybackStep) /\ WF_vars(Tick)

-----------------------------------------------------------------------------
(***************************************************************************)
(* What the output has taken since the last seek, the block that waits,    *)
(* the packet and the rest of the track follow one another without gap:    *)
(* the bytes of the data chunk, frame by frame, to its end, although reads *)
(* come short and others move the offset of the open file between them.    *)
(* It takes others that keep away during a read (Coordinated).  When       *)
(* playback reports completion, all of it has been played.                 *)
(***************************************************************************)
Bytes == heard \o pcm.bytes \o packet.bytes

HeardIsTheData ==
    Built =>
        LET behind == RegionStart + layout.data[1] + nextFrame * BytesPerFrame
        IN  /\ \A i \in DOMAIN Bytes : Bytes[i] = behind - Len(Bytes) + i - 1
            /\ Len(Bytes) % BytesPerFrame = 0
            /\ behind <= RegionStart + layout.data[2]
            /\ sourceEnded => AtEnd
            /\ reported => DecoderDrained /\ real.buffered = 0

(***************************************************************************)
(* A seek is exact to the frame and nearly to the nanosecond: the first    *)
(* frame heard does not begin before the target, the last one left out     *)
(* begins less than a nanosecond behind it, and every block carries the    *)
(* time of its first frame, at most two nanoseconds early and never before *)
(* the target; when nothing is heard there was nothing behind the target.  *)
(* Times are compared as fractions, unrounded.                             *)
(***************************************************************************)
FrameOf(byte) == (byte - RegionStart - layout.data[1]) \div BytesPerFrame

BeginsBefore(f, time) == f * NanosPerSecond < time * Rate

SeekIsExact ==
    Built =>
        /\ blocks # <<>> =>
              LET first == FrameOf(blocks[1].byte)
              IN  /\ ~BeginsBefore(first, boundary)
                  /\ first > 0 => BeginsBefore(first - 1, boundary + 1)
        /\ \A i \in DOMAIN blocks :
              LET frame == FrameOf(blocks[i].byte)
              IN  /\ ~BeginsBefore(frame, blocks[i].pts)
                  /\ BeginsBefore(frame, blocks[i].pts + 2)
                  /\ blocks[i].pts >= boundary
        /\ DecoderDrained /\ blocks = <<>> /\ FrameCount > 0 =>
              BeginsBefore(FrameCount - 1, boundary + 1)

(* The simulated output of this track is a device of this track. *)
PositionIsReal == Built => LazyIsReal(Rate)

(***************************************************************************)
(* Playback that nobody pauses, seeks or breaks reports its completion,    *)
(* however often the output is asked where it is.                          *)
(***************************************************************************)
PlaysToTheEnd ==
    \A s \in 0 .. MaxSeek :
        running /\ seeks = s ~> reported \/ ~running \/ seeks > s \/ ~Built

==============================================================================
