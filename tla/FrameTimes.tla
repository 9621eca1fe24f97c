----------------------------- MODULE FrameTimes -----------------------------
(***************************************************************************)
(* The arithmetic between PCM frames and media time: Timestamp::rescale    *)
(* rounding toward zero (media/time.rs), the seek of the WAV demuxer and   *)
(* the trimming at the seek boundary (pipeline/audio.rs).                  *)
(*                                                                         *)
(* Frame f of a track begins f * NanosPerSecond / rate after its start, in *)
(* general not a whole number of nanoseconds.  i128 and u128 hold every    *)
(* product of these times and rates, so the numbers here are unbounded.    *)
(***************************************************************************)
EXTENDS Integers

CONSTANT NanosPerSecond

ASSUME NanosPerSecondAssumption == NanosPerSecond \in Nat \ {0}

(* to_media_time(TowardZero) of a frame's timestamp. *)
TimeOfFrame(f, rate) == (f * NanosPerSecond) \div rate

(* WavDemuxer::seek before it is limited to the length of the track. *)
FrameAt(time, rate) == (time * rate) \div NanosPerSecond

(* frames_to_drop of trim_audio_before: rounded up. *)
FramesBefore(boundary, pts, rate) ==
    ((boundary - pts) * rate + NanosPerSecond - 1) \div NanosPerSecond

(* The timestamp of what trimming leaves: rounded down. *)
TimeAfter(pts, frames, rate) == pts + (frames * NanosPerSecond) \div rate

==============================================================================
