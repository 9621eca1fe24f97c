------------------------------ MODULE AvPipeline ------------------------------
(***************************************************************************)
(* PlaybackPipeline (pipeline/playback.rs) with its two branches, driven   *)
(* by the loop of the playback worker, while the codecs, the audio device  *)
(* and time run on their own.                                              *)
(*                                                                         *)
(* PlaybackPipeline::step is cut where the outside world can move between  *)
(* two of its observations: the audio branch, the first reading of the     *)
(* audio position, the second reading with the video branch, the source.   *)
(***************************************************************************)
EXTENDS MediaBranch, FiniteSetsExt

CONSTANTS
    AudioLength, VideoLength,   \* packets of the selected tracks
    DeviceCapacity,             \* PCM blocks the audio output buffers
    EarlyTolerance, LateTolerance,  \* AvSync, in packets
    MaxEpoch                    \* seeks after the first epoch

ASSUME LengthAssumption == AudioLength \in Nat /\ VideoLength \in Nat
ASSUME DeviceCapacityAssumption == DeviceCapacity \in Nat \ {0}
ASSUME ToleranceAssumption == EarlyTolerance \in Nat /\ LateTolerance \in Nat
ASSUME MaxEpochAssumption == MaxEpoch \in Nat

Tracks == {"audio", "video"}
Length == [t \in Tracks |-> IF t = "audio" THEN AudioLength ELSE VideoLength]

(* The monotonic clock stops mattering when every frame is late. *)
LastTime == Max({AudioLength, VideoLength}) + LateTolerance + 1

VARIABLES
    pc,         \* where the worker is, see Places
    running, drained, reported,     \* PlaybackWorker
    epoch,      \* PlaybackPipeline::epoch
    withVideo,  \* whether there is a video branch; if not, video packets are skipped
    source,     \* the demuxer: the next packet of each track
    sourceEnded,    \* SourcePhase
    pending,    \* pending_packet
    audio, video,   \* the two branches
    device,     \* the audio output: its buffer, its frame counter, whether it runs
    mapping,    \* what relates the frame counter to media time
    clock,      \* AudioDrivenClock
    tracker,    \* AudioProgressTracker: the last progress, and its timer
    reading,    \* what step_video read first: is_finished and the position
    done        \* history: the next frame of each track to reach the user

worker == <<running, drained, reported>>
vars == <<pc, running, drained, reported, epoch, withVideo, source, sourceEnded, pending, audio, video,
          device, mapping, clock, tracker, reading, done>>

Places ==
    {"loop",        \* at the head of the worker's loop
     "position",    \* in step, before step_video
     "video",       \* in step_video, after the first reading
     "source",      \* in step, before step_source
     "closed",      \* the pipeline failed and was dropped
     "impossible"}  \* an error that no platform reported

NoPacket == [track |-> "none", number |-> None, epoch |-> 0]
NoReading == [finished |-> FALSE, position |-> 0]
NoProgress == [last |-> None, overdue |-> FALSE]

NewClock == [phase |-> "FollowingAudio", media |-> 0, stalledAt |-> 0, running |-> FALSE]

TypeOK ==
    /\ pc \in Places
    /\ running \in BOOLEAN /\ drained \in BOOLEAN /\ reported \in BOOLEAN
    /\ epoch \in 0 .. MaxEpoch
    /\ withVideo \in BOOLEAN
    /\ source \in [Tracks -> Nat]
    /\ \A t \in Tracks : source[t] <= Length[t]
    /\ sourceEnded \in BOOLEAN
    /\ \/ pending = NoPacket
       \/ pending \in [track : Tracks, number : Nat, epoch : 0 .. MaxEpoch]
    /\ audio \in Branches(AudioLength) /\ video \in Branches(VideoLength)
    /\ Len(audio.queue) <= QueueCapacity /\ Len(video.queue) <= QueueCapacity
    /\ device \in [buffer : Seq(Nat), played : Nat, running : BOOLEAN]
    /\ Len(device.buffer) <= DeviceCapacity
    /\ mapping \in [boundary : Nat, first : Nat \cup {None}, base : Nat]
    /\ clock \in [phase : {"FollowingAudio", "Stalled", "Ended"}, media : 0 .. LastTime,
                  stalledAt : Nat, running : BOOLEAN]
    /\ tracker \in [last : Nat \cup {None}, overdue : BOOLEAN]
    /\ reading \in [finished : BOOLEAN, position : Nat]
    /\ done \in [Tracks -> Nat]

Init ==
    /\ pc = "loop"
    /\ running = FALSE /\ drained = FALSE /\ reported = FALSE
    /\ epoch = 0
    /\ withVideo \in BOOLEAN
    /\ source = [t \in Tracks |-> 0]
    /\ sourceEnded = FALSE
    /\ pending = NoPacket
    /\ audio = NewBranch(0) /\ video = NewBranch(0)
    /\ device = [buffer |-> <<>>, played |-> 0, running |-> FALSE]
    /\ mapping = [boundary |-> 0, first |-> None, base |-> 0]
    /\ clock = NewClock
    /\ tracker = NoProgress
    /\ reading = NoReading
    /\ done = [t \in Tracks |-> 0]

-----------------------------------------------------------------------------
(* Clocks *)

(* AudioTimeMapping::snapshot: frozen until the first PCM is submitted. *)
AudioTime ==
    IF mapping.first = None
    THEN mapping.boundary
    ELSE mapping.first + device.played - mapping.base

(* AudioDrivenClock::snapshot, in whole packets. *)
TimeOf(c) == IF c.phase = "FollowingAudio" THEN Min({AudioTime, LastTime}) ELSE c.media

MediaTime == TimeOf(clock)

(* Mutant: audio is taken to move again as soon as the clock has left it. *)
RestoredAtOnce(c) ==
    IF c.phase = "Stalled" THEN [c EXCEPT !.phase = "FollowingAudio"] ELSE c

(* try_restore_audio_clock, with the position of the first reading. *)
Restored(c) ==
    IF c.phase = "Stalled" /\ reading.position > c.stalledAt
    THEN [c EXCEPT !.phase = "FollowingAudio"]
    ELSE c

(* Mutant: the tail begins at the last anchor of the clock. *)
FinishAtOldAnchor(c) == [c EXCEPT !.phase = "Ended"]

(* finish_audio: the tail of the video goes on from where the audio ended. *)
Finish(c) == [c EXCEPT !.phase = "Ended", !.media = TimeOf(c)]

(* Mutant: stalled audio keeps the clock. *)
NoFallback(c) == c

(* switch_to_fallback: monotonic time takes over until the device moves. *)
Fallback(c) ==
    IF c.phase = "FollowingAudio"
    THEN [c EXCEPT !.phase = "Stalled", !.media = TimeOf(c), !.stalledAt = reading.position]
    ELSE c

(* AudioProgressTracker::observe. *)
Observed ==
    IF tracker.last # None /\ reading.position = tracker.last
    THEN tracker
    ELSE [last |-> reading.position, overdue |-> FALSE]

AudioStalled == reading.position = tracker.last /\ tracker.overdue

(* ClockError::PositionWentBackward, of the tracker and of the mapping. *)
PositionWentBackward ==
    \/ reading.position < tracker.last
    \/ mapping.first # None /\ device.played < mapping.base

-----------------------------------------------------------------------------
(* The audio branch *)

(* Mutant: the time mapping is made anew with every block. *)
SubmitReanchoring(s) ==
    IF s.branch.frame = None \/ Len(s.buffer) >= DeviceCapacity
    THEN s
    ELSE [branch |-> [s.branch EXCEPT !.frame = None],
          buffer |-> Append(s.buffer, s.branch.frame),
          first |-> s.branch.frame,
          done |-> s.done + 1]

(***************************************************************************)
(* submit_pending_frame: the output takes the pending PCM when its buffer  *)
(* has room, and the first PCM anchors the audio clock.                    *)
(***************************************************************************)
SubmitPendingFrame(s) ==
    IF s.branch.frame = None \/ Len(s.buffer) >= DeviceCapacity
    THEN s
    ELSE [branch |-> [s.branch EXCEPT !.frame = None],
          buffer |-> Append(s.buffer, s.branch.frame),
          first |-> IF s.first = None THEN s.branch.frame ELSE s.first,
          done |-> s.done + 1]

(* One output of the decoder; PCM before the boundary is trimmed away. *)
ReceiveAudio(s) ==
    LET b == s.branch
        n == Head(b.decoded)
    IN  CASE ~HasOutput(b) \/ b.phase = "DecoderDrained" -> s
          [] HasOutput(b) /\ n = AudioLength ->
                [s EXCEPT !.branch = [TakeOutput(b) EXCEPT !.phase = "DecoderDrained"]]
          [] HasOutput(b) /\ n # AudioLength /\ n >= mapping.boundary ->
                [s EXCEPT !.branch = [TakeOutput(b) EXCEPT !.frame = n]]
          [] OTHER ->
                [s EXCEPT !.branch = TakeOutput(b), !.done = @ + 1]

(* UnexpectedDecoderEos of either branch. *)
UnexpectedEos(b, eos) ==
    /\ HasOutput(b) /\ Head(b.decoded) = eos
    /\ b.frame = None /\ b.phase \in {"Feeding", "InputEnded"}

(* AudioPipeline::step. *)
AudioStep ==
    /\ pc = "loop" /\ running /\ ~drained
    /\ LET s0 == [branch |-> audio, buffer |-> device.buffer,
                  first |-> mapping.first, done |-> done["audio"]]
           s1 == SubmitPendingFrame(s0)
           s2 == SubmitPendingFrame(ReceiveAudio(s1))
           blocked == s1.branch.frame # None
           ended == s2.branch.frame # None \/ s2.branch.phase = "DecoderDrained"
           s == IF blocked THEN s1
                ELSE IF ended THEN s2
                ELSE [s2 EXCEPT !.branch = SubmitOneInput(@, AudioLength)]
       IN  /\ audio' = s.branch
           /\ device' = [device EXCEPT !.buffer = s.buffer]
           /\ mapping' = [mapping EXCEPT !.first = s.first]
           /\ done' = [done EXCEPT !["audio"] = s.done]
           /\ pc' = IF UnexpectedEos(s1.branch, AudioLength) THEN "impossible"
                    ELSE IF withVideo THEN "position" ELSE "source"
    /\ UNCHANGED <<worker, epoch, withVideo, source, sourceEnded, pending, video, clock, tracker, reading>>

-----------------------------------------------------------------------------
(* The video branch *)

(* AudioPipeline::is_finished. *)
AudioFinished == audio.phase = "DecoderDrained" /\ device.buffer = <<>>

(* Mutant: audio counts as finished before the device is empty. *)
FinishedWhenDecoded ==
    /\ pc = "position"
    /\ reading' = [finished |-> audio.phase = "DecoderDrained", position |-> device.played]
    /\ pc' = "video"
    /\ UNCHANGED <<worker, epoch, withVideo, source, sourceEnded, pending, audio, video, device,
                   mapping, clock, tracker, done>>

(* step_video: is_finished, and the first reading of the position. *)
ReadPosition ==
    /\ pc = "position"
    /\ reading' = [finished |-> AudioFinished, position |-> device.played]
    /\ pc' = "video"
    /\ UNCHANGED <<worker, epoch, withVideo, source, sourceEnded, pending, audio, video, device, mapping,
                   clock, tracker, done>>

(* Mutant: a frame that ends at the boundary is kept. *)
ReceiveByEnd(v) ==
    LET b == v.branch
        n == Head(b.decoded)
    IN  CASE b.phase = "DecoderDrained" \/ b.frame # None \/ ~HasOutput(b) -> v
          [] b.frame = None /\ HasOutput(b) /\ n = VideoLength ->
                [v EXCEPT !.branch = [TakeOutput(b) EXCEPT !.phase = "DecoderDrained"]]
          [] b.frame = None /\ HasOutput(b) /\ n # VideoLength /\ n + 1 >= mapping.boundary ->
                [v EXCEPT !.branch = [TakeOutput(b) EXCEPT !.frame = n]]
          [] OTHER ->
                [v EXCEPT !.branch = TakeOutput(b), !.done = @ + 1]

(* receive_one_frame: a frame before the boundary is discarded. *)
ReceiveVideo(v) ==
    LET b == v.branch
        n == Head(b.decoded)
    IN  CASE b.phase = "DecoderDrained" \/ b.frame # None \/ ~HasOutput(b) -> v
          [] b.frame = None /\ HasOutput(b) /\ n = VideoLength ->
                [v EXCEPT !.branch = [TakeOutput(b) EXCEPT !.phase = "DecoderDrained"]]
          [] b.frame = None /\ HasOutput(b) /\ n # VideoLength /\ n >= mapping.boundary ->
                [v EXCEPT !.branch = [TakeOutput(b) EXCEPT !.frame = n]]
          [] OTHER ->
                [v EXCEPT !.branch = TakeOutput(b), !.done = @ + 1]

(* AvSync::decide on the pending frame at media time t. *)
Decision(b, t) ==
    CASE b.frame = None -> "Nothing"
      [] b.frame # None /\ b.frame > t + EarlyTolerance -> "Wait"
      [] b.frame # None /\ b.frame < t - LateTolerance -> "Drop"
      [] OTHER -> "Present"

(* present_pending_frame; the output may refuse a frame for now. *)
PresentPendingFrame(v, t, accepted) ==
    IF Decision(v.branch, t) = "Drop" \/ (Decision(v.branch, t) = "Present" /\ accepted)
    THEN [branch |-> [v.branch EXCEPT !.frame = None], done |-> v.done + 1]
    ELSE v

(* is_source_blocked_on_video. *)
SourceBlockedOnVideo == pending.track = "video"

(***************************************************************************)
(* The rest of step_video: the second reading, the clock brought up to     *)
(* date and read, VideoPipeline::step, and the change to monotonic time    *)
(* when audio stands still because the source is blocked on video that     *)
(* waits for the clock.                                                    *)
(***************************************************************************)
VideoStep(accepted) ==
    /\ pc = "video"
    /\ LET c1 == IF reading.finished THEN clock ELSE Restored(clock)
           now == TimeOf(c1)
           c2 == IF reading.finished /\ c1.phase # "Ended" THEN Finish(c1) ELSE c1
           v0 == [branch |-> video, done |-> done["video"]]
           v1 == ReceiveVideo(v0)
           v2 == PresentPendingFrame(v1, now, accepted)
           v3 == [v2 EXCEPT !.branch = SubmitOneInput(@, VideoLength)]
           waits == Decision(v1.branch, now) = "Wait" /\ v1 = v0 /\ v3 = v2
           starved == ~reading.finished /\ AudioStalled /\ waits /\ SourceBlockedOnVideo
       IN  /\ accepted => Decision(v1.branch, now) = "Present"
           /\ video' = v3.branch
           /\ done' = [done EXCEPT !["video"] = v3.done]
           /\ clock' = IF starved THEN Fallback(c2) ELSE c2
    /\ tracker' = Observed
    /\ reading' = NoReading
    /\ pc' = IF PositionWentBackward \/ UnexpectedEos(video, VideoLength)
             THEN "impossible" ELSE "source"
    /\ UNCHANGED <<worker, epoch, withVideo, source, sourceEnded, pending, audio, device, mapping>>

-----------------------------------------------------------------------------
(* The source *)

(***************************************************************************)
(* dispatch_pending_packet for packet p: to its branch, back to pending    *)
(* under backpressure, or nowhere when its track is not played.            *)
(***************************************************************************)
Rejected(b, p) == p.epoch # b.epoch \/ b.phase # "Feeding"

Dispatch(p) ==
    \/ /\ p.track = "audio"
       /\ audio' = IF QueueIsFull(audio) THEN audio ELSE Push(audio, p.number)
       /\ pending' = IF QueueIsFull(audio) THEN p ELSE NoPacket
       /\ pc' = IF Rejected(audio, p) THEN "impossible" ELSE "loop"
       /\ UNCHANGED video
    \/ /\ p.track = "video" /\ withVideo
       /\ video' = IF QueueIsFull(video) THEN video ELSE Push(video, p.number)
       /\ pending' = IF QueueIsFull(video) THEN p ELSE NoPacket
       /\ pc' = IF Rejected(video, p) THEN "impossible" ELSE "loop"
       /\ UNCHANGED audio
    \/ /\ p.track = "video" /\ ~withVideo
       /\ pending' = NoPacket
       /\ pc' = "loop"
       /\ UNCHANGED <<audio, video>>

(* The end of step: did both branches drain in this step? *)
EndOfStep ==
    /\ drained' = (IsDrained(audio) /\ (withVideo => IsDrained(video)))
    /\ UNCHANGED <<running, reported, epoch, withVideo, device, mapping, clock, tracker, reading, done>>

(* step_source with a packet that is still pending. *)
RetryPacket ==
    /\ pc = "source" /\ pending # NoPacket
    /\ Dispatch(pending)
    /\ EndOfStep
    /\ UNCHANGED <<source, sourceEnded>>

(* The demuxer returns the next packet of some track, or its end. *)
ReadPacket ==
    /\ pc = "source" /\ pending = NoPacket /\ ~sourceEnded
    /\ \E t \in Tracks :
          /\ source[t] < Length[t]
          /\ source' = [source EXCEPT ![t] = @ + 1]
          /\ Dispatch([track |-> t, number |-> source[t], epoch |-> epoch])
    /\ EndOfStep
    /\ UNCHANGED sourceEnded

(* end_selected_inputs. *)
ReadEnd ==
    /\ pc = "source" /\ pending = NoPacket /\ ~sourceEnded
    /\ \A t \in Tracks : source[t] = Length[t]
    /\ sourceEnded' = TRUE
    /\ audio' = EndInput(audio)
    /\ video' = IF withVideo THEN EndInput(video) ELSE video
    /\ pc' = IF audio.epoch # epoch \/ (withVideo /\ video.epoch # epoch) THEN "impossible" ELSE "loop"
    /\ EndOfStep
    /\ UNCHANGED <<source, pending>>

(* Nothing to read any more, or not yet (ReadPacketResult::NotReady). *)
NothingRead ==
    /\ pc = "source" /\ pending = NoPacket
    /\ pc' = "loop"
    /\ EndOfStep
    /\ UNCHANGED <<source, sourceEnded, pending, audio, video>>

SourceReads == ReadPacket \/ ReadEnd

-----------------------------------------------------------------------------
(* The worker's commands and completion *)

SetRunning(on) ==
    /\ running' = on
    /\ device' = [device EXCEPT !.running = on]
    /\ clock' = [clock EXCEPT !.running = on]
    /\ tracker' = NoProgress

(* Start of apply_command; it is ignored when it comes after completion. *)
Start ==
    /\ pc = "loop" /\ ~running /\ ~reported
    /\ SetRunning(TRUE)
    /\ UNCHANGED <<pc, drained, reported, epoch, withVideo, source, sourceEnded, pending, audio, video,
                   mapping, reading, done>>

(* Pause; it may also come after a completion the user has not seen yet. *)
Pause ==
    /\ pc = "loop" /\ (running \/ reported)
    /\ SetRunning(FALSE)
    /\ UNCHANGED <<pc, drained, reported, epoch, withVideo, source, sourceEnded, pending, audio, video,
                   mapping, reading, done>>

(***************************************************************************)
(* Seek: the branches, the codecs and the output are flushed, the demuxer  *)
(* lands at or before the boundary, and the clock is anchored anew at the  *)
(* counter of the output, which a flush may or may not have reset.         *)
(***************************************************************************)
Seek(target, resume) ==
    /\ pc = "loop" /\ epoch < MaxEpoch
    /\ epoch' = epoch + 1
    /\ \E landed \in [Tracks -> 0 .. target] :
          source' = [t \in Tracks |-> Min({landed[t], Length[t]})]
    /\ sourceEnded' = FALSE
    /\ pending' = NoPacket
    /\ audio' = NewBranch(epoch + 1)
    /\ video' = IF withVideo THEN NewBranch(epoch + 1) ELSE video
    /\ \E played \in {0, device.played} :
          /\ device' = [buffer |-> <<>>, played |-> played, running |-> resume]
          /\ mapping' = [boundary |-> target, first |-> None, base |-> played]
    /\ clock' = [NewClock EXCEPT !.running = resume]
    /\ tracker' = NoProgress
    /\ running' = resume /\ drained' = FALSE /\ reported' = FALSE
    /\ done' = source'
    /\ UNCHANGED <<pc, withVideo, reading>>

(* poll_completion. *)
Complete ==
    /\ pc = "loop" /\ running /\ drained /\ ~reported
    /\ AudioFinished /\ (withVideo => IsDrained(video))
    /\ reported' = TRUE
    /\ SetRunning(FALSE)
    /\ UNCHANGED <<pc, drained, epoch, withVideo, source, sourceEnded, pending, audio, video, mapping,
                   reading, done>>

(* A platform error anywhere: report_failure pauses and drops the pipeline. *)
Fail ==
    /\ pc \in {"loop", "position", "video", "source"}
    /\ pc' = "closed"
    /\ running' = FALSE /\ drained' = FALSE /\ reported' = FALSE
    /\ device' = [device EXCEPT !.running = FALSE]
    /\ UNCHANGED <<epoch, withVideo, source, sourceEnded, pending, audio, video, mapping, clock,
                   tracker, reading, done>>

-----------------------------------------------------------------------------
(* The world outside *)

AudioDecodes ==
    /\ pc # "closed" /\ CanDecode(audio)
    /\ audio' = Decode(audio)
    /\ UNCHANGED <<pc, worker, epoch, withVideo, source, sourceEnded, pending, video, device, mapping,
                   clock, tracker, reading, done>>

VideoDecodes ==
    /\ pc # "closed" /\ CanDecode(video)
    /\ video' = Decode(video)
    /\ UNCHANGED <<pc, worker, epoch, withVideo, source, sourceEnded, pending, audio, device, mapping,
                   clock, tracker, reading, done>>

DevicePlays ==
    /\ pc # "closed" /\ device.running /\ device.buffer # <<>>
    /\ device' = [device EXCEPT !.buffer = Tail(@), !.played = @ + 1]
    /\ UNCHANGED <<pc, worker, epoch, withVideo, source, sourceEnded, pending, audio, video, mapping,
                   clock, tracker, reading, done>>

(* Monotonic time passes. *)
TimePasses ==
    /\ pc # "closed" /\ clock.running
    /\ clock.phase # "FollowingAudio" /\ clock.media < LastTime
    /\ clock' = [clock EXCEPT !.media = @ + 1]
    /\ UNCHANGED <<pc, worker, epoch, withVideo, source, sourceEnded, pending, audio, video, device,
                   mapping, tracker, reading, done>>

(* AUDIO_STALL_TIMEOUT has passed since the last progress. *)
StallTimeout ==
    /\ pc # "closed" /\ tracker.last # None /\ ~tracker.overdue
    /\ tracker' = [tracker EXCEPT !.overdue = TRUE]
    /\ UNCHANGED <<pc, worker, epoch, withVideo, source, sourceEnded, pending, audio, video, device,
                   mapping, clock, reading, done>>

Closed == pc = "closed" /\ UNCHANGED vars

PipelineSteps ==
    \/ AudioStep
    \/ ReadPosition
    \/ \E accepted \in BOOLEAN : VideoStep(accepted)
    \/ RetryPacket
    \/ SourceReads
    \/ NothingRead
    \/ Complete

Next ==
    \/ PipelineSteps
    \/ Start
    \/ Pause
    \/ \E target \in 0 .. LastTime, resume \in BOOLEAN : Seek(target, resume)
    \/ Fail
    \/ AudioDecodes
    \/ VideoDecodes
    \/ DevicePlays
    \/ TimePasses
    \/ StallTimeout
    \/ Closed

Spec == Init /\ [][Next]_vars

(***************************************************************************)
(* The worker, the codecs, the device and the clock keep going; a demuxer  *)
(* that is asked again and again delivers, and a video output that is      *)
(* offered a frame again and again takes it.                               *)
(***************************************************************************)
Fairness ==
    /\ WF_vars(PipelineSteps)
    /\ SF_vars(SourceReads)
    /\ SF_vars(VideoStep(TRUE))
    /\ WF_vars(AudioDecodes) /\ WF_vars(VideoDecodes)
    /\ WF_vars(DevicePlays)
    /\ WF_vars(TimePasses) /\ WF_vars(StallTimeout)

FairSpec == Spec /\ Fairness

-----------------------------------------------------------------------------
(* Safety *)

(***************************************************************************)
(* The pipeline never fails by itself: no packet meets a branch of another *)
(* epoch or one that is closed (EpochMismatch, InputClosed), no decoder    *)
(* ends early (UnexpectedDecoderEos), the audio position never lies before *)
(* the one remembered, whatever a flush does to the counter                *)
(* (PositionWentBackward), and no queue or time leaves its range.          *)
(***************************************************************************)
NoInternalError == TypeOK /\ pc # "impossible"

(***************************************************************************)
(* From the demuxer to the output, every packet of a track is in exactly   *)
(* one place and they stand in order: what the user has got, the pending   *)
(* frame, the codec, the pending input, the queue and the pending packet   *)
(* follow one another without gap up to the next packet of the source, or  *)
(* up to the end of stream behind the last one.  No backpressure on the    *)
(* way loses, doubles or reorders a packet, and a seek leaves none behind. *)
(***************************************************************************)
One(n) == IF n = None THEN <<>> ELSE <<n>>

Held(b, t) ==
    One(b.frame) \o b.decoded \o b.accepted \o One(b.input) \o b.queue
        \o (IF pending.track = t THEN <<pending.number>> ELSE <<>>)

EndIsHeld(b, t) == b.input = Length[t] \/ b.phase = "Draining"

InOrder(b, t) ==
    /\ \A i \in DOMAIN Held(b, t) : Held(b, t)[i] = done[t] + i - 1
    /\ done[t] + Len(Held(b, t)) = IF EndIsHeld(b, t) THEN Length[t] + 1 ELSE source[t]

PacketsFlow == InOrder(audio, "audio") /\ (withVideo => InOrder(video, "video"))

(***************************************************************************)
(* The media time the audio clock computes from the frame counter of the   *)
(* device is the time of the PCM the device plays next, across trimming,   *)
(* seeks and counters that a flush resets.                                 *)
(***************************************************************************)
ClockTellsWhatIsHeard ==
    mapping.first # None =>
        /\ \A i \in DOMAIN device.buffer : device.buffer[i] = AudioTime + i - 1
        /\ AudioTime + Len(device.buffer) = done["audio"]

(***************************************************************************)
(* Nothing is over too early: video runs on the tail clock only when the   *)
(* last PCM has been played, and completion is reported only when the user *)
(* has got everything, both tracks to their last packet, and the device    *)
(* has played its buffer.                                                  *)
(***************************************************************************)
TailAfterAudio == clock.phase = "Ended" => AudioFinished

NothingIsLeft ==
    /\ sourceEnded /\ device.buffer = <<>>
    /\ done["audio"] = AudioLength
    /\ withVideo => done["video"] = VideoLength

CompletionIsComplete == TailAfterAudio /\ (reported => NothingIsLeft)

(* Nothing before the seek boundary is heard or waits to be shown. *)
NothingBeforeBoundary ==
    /\ \A i \in DOMAIN device.buffer : device.buffer[i] >= mapping.boundary
    /\ video.frame # None => video.frame >= mapping.boundary

(***************************************************************************)
(* The comment of step_video: the audio position is read once per step,    *)
(* for the stall, the recovery and the clock.                              *)
(***************************************************************************)
PositionIsReadOnce ==
    [][pc = "video" /\ pc' = "source" => device.played = reading.position]_vars

(***************************************************************************)
(* Media time never runs backward: not when the first PCM replaces the     *)
(* provisional time, not at the stall, the end of audio, pause or start.   *)
(* It does when a seek asks for it, or when audio that moves again after a *)
(* stall takes the clock back: but only when the device has really played  *)
(* more, so that the time is behind the one at which audio stood still     *)
(* (the comment of try_restore_audio_clock).                               *)
(***************************************************************************)
AudioTookTheClockBack ==
    /\ clock.phase = "Stalled" /\ clock'.phase = "FollowingAudio"
    /\ mapping.first # None
    /\ MediaTime' > mapping.first + clock.stalledAt - mapping.base

TimeRunsForward ==
    [][ MediaTime' >= MediaTime \/ epoch' # epoch \/ AudioTookTheClockBack ]_vars

(***************************************************************************)
(* Playback that nobody pauses or seeks comes to its end, however unevenly *)
(* the tracks are interleaved and however small the queues are: the        *)
(* branches never wait for each other for ever.                            *)
(***************************************************************************)
PlaybackEnds ==
    \A e \in 0 .. MaxEpoch :
        running /\ epoch = e ~> reported \/ ~running \/ epoch > e

==============================================================================
