# A TLA+ model of the MoonEgg player

MoonEgg is a media player core in Rust with an Android backend and a UniFFI
bridge. This directory holds TLA+ modules translated from the code under
`src/crates`, TLC configurations that check them on small instances, and
theorems checked by TLAPS. Paths below are relative to `src/crates`.

## 1. The system

### Components

| Part | State | Operations | What makes it correct |
|---|---|---|---|
| Player state machine (`moonegg-core/src/player/state.rs`) | one `PlayerState` | `transition(action)` | only listed transitions; `Released` is final |
| Engine (`engine.rs`, `runtime/shutdown.rs`) | two join handles, event receiver, `is_shutdown` | `new`, `send_command`, `shutdown`, `Drop` | shutdown returns, joins every thread, reports truthfully |
| Control loop (`runtime/control_loop.rs`, `player_controller.rs`) | state, current epoch, inbox | one command or one worker event per step | never dies of feedback that is merely late; results of old work change nothing |
| Effect loop (`runtime/effect_executor.rs`) | queue of control results | deliver the event, execute the effect, send failures back | events reach the user in order and once; returns only when no worker is left |
| Playback executor (`runtime/playback_executor.rs`) | at most one `PlaybackWorkerHandle` | begin, command, cancel and join, `Drop` | no second worker, none forgotten |
| Playback worker (`runtime/playback_worker.rs`) | pipeline, `running`, completion flag, command queue, cancel token | build, receive/try_recv, apply, drive | commands of another epoch do nothing harmful; failures are reported once; cancel always ends it |
| Pipeline factory (`runtime/pipeline_factory.rs`) | none (sequential assembly) | `build` | cancellation between steps |
| Playback pipeline (`pipeline/playback.rs`) | audio and video branches, pending packet, source phase, clock choice | `advance`, `start`, `pause`, `seek` | no packet lost or doubled; progress; drained exactly at the end |
| Audio and video pipelines, coordinator, queue (`pipeline/*.rs`) | phase, queue, pending packet and frame, epoch | push, advance, flush | epochs never mix; the last frame is shown or dropped before `Drained` |
| Deferred output (`pipeline/deferred_audio_output.rs`) | wanted run state, optional output | `write`, `start`, `pause`, `flush` | the late output runs exactly when playback does |
| Clocks and A/V decision (`timing/*.rs`) | anchor, running, stall window | `position`, `start`, `pause`, `seek`, `decide` | position monotone; boundaries |
| Media time (`media/time.rs`) | none | tick and frame conversion | rounding, overflow |
| WAV demuxer, PCM decoder (`backends/*.rs`) | cursor in frames, pending packet | `read_packet`, `seek`, `decode` | packets stay inside the data chunk, whole frames |
| Simulated output (`backends/simulated_audio.rs`) | buffered frames, clock | `write`, `advance` | never plays what was not written |
| Bounded file source (`source.rs`, `moonegg-android/src/file_source.rs`) | position in a byte range; the offset of the open file, which it shares | `read` (a seek and a read of the system), `seek` | never outside the range; bytes from where it sought |
| Android video (`moonegg-android/src/android_video_decoder.rs`, `video_codec_session.rs`, ...) | codec, token of the surface slot that is out, key-frame gate, configuration due, timestamp offset | submit, receive, flush, present or discard a frame | slots go back once and to the right owner; what is queued can be decoded; times and the end survive |
| Android audio (`audio_output.rs`, `aaudio.rs`, ...) | stream, pending block, counters | write, start, pause, flush | a pending block is neither lost nor doubled |
| Android demuxer and probe | the system's extractor | read, seek | an adapter |
| Bridge (`moonegg-ffi/src/player.rs`) | `Mutex` around the engine | commands, events, `release` | release once; later calls see `Released` |
| Surface registry (`moonegg-ffi/src/surface_registry.rs`) | map handle to window | register, take, discard | a handle is used once |

`metrics.rs`, `error.rs`, `ports.rs` and the example hold declarations and a demo.

### How the parts interact

```
 user --commands--> [inbox] --> control thread --results--> effect thread --commands--> worker
                       ^                                     | events to the user        |
                       |<------------ Failed ----------------+                           |
                       |<------------ SourceOpened, Failed, SeekCompleted, Completed ----+
```

Everything is a message over an unbounded `mpsc` channel, and the inbox is
shared: commands of the user and feedback of both other threads interleave
there. There is no shared memory but the cancellation token. The difficulty is
that each thread acts on a stale picture of the others:

* the controller's state is ahead of the worker's by the queue of results and the queue of commands, and behind it by the feedback in the inbox;
* *epochs* mark work as old. `Seek`, `Stop`, `Release` and every accepted failure open the next epoch; `Prepare` does not;
* the effect thread blocks in `join` on a worker that may itself be sending;
* each thread may leave its loop on its own (an error of the controller, a closed channel), so every send may fail, and the others must still end;
* the epoch is a `u64` with a checked successor, and its end is a fatal control error;
* a worker may fail to build, lose its pipeline, or panic.

## 2. The modules

| Module | What it models | Code |
|---|---|---|
| `PlayerState` | the transition table | `player/state.rs` |
| `PlayerContract` | abstract: what the listener of events may assume | implied by `player/state.rs` |
| `RuntimeMessages` | commands, feedback, control results, the two channels | `control_types.rs`, `player_controller.rs` |
| `ControlLoop` | `PlayerController`, the control thread | `player_controller.rs`, `control_loop.rs`, `pipeline/epoch.rs` |
| `PlaybackWorker` | the worker threads, with the outcome of the pipeline factory | `playback_worker.rs`, `pipeline_factory.rs` |
| `EffectLoop` | the effect thread with its executor | `effect_executor.rs`, `playback_executor.rs` |
| `PlaybackRuntime` | the engine and the composition of the above | `engine.rs`, `shutdown.rs` |
| `EngineContract` | abstract: what an engine promises its owner about threads | implied by `engine.rs`, used in `moonegg-ffi/src/player.rs` |
| `PlaybackRuntimeProofs` | theorems: types, ownership of workers, the engine's contract, the chain of events, the sessions, the listener's contract | |
| `PlayerBridge` | the surface registry and `NativePlayer` under any number of Java threads, over engines that keep `EngineContract` | `moonegg-ffi/src/player.rs`, `surface_registry.rs`, `surface_jni.rs` |
| `PlayerBridgeProofs` | theorems | |
| `MediaBranch` | what the audio and the video branch have in common: queue, pending input, decoder, pending frame, phases | `pipeline/audio.rs`, `pipeline/video.rs`, `pipeline/queue.rs`, `ports/decoder.rs` |
| `AvPipeline` | the playback pipeline: both branches, source, clocks, the worker's loop around it, and the world outside | `pipeline/playback.rs`, `pipeline/audio.rs`, `pipeline/video.rs`, `timing/*.rs`, `playback_worker.rs` |
| `AvPipelineProofs` | theorems | |
| `DecoderContract` | abstract: what a pipeline branch may assume of its decoder | `ports/decoder.rs` |
| `CodecQueue` | packets, inputs and outputs on their way through a platform codec, common to both Android decoders | |
| `CodecQueueProofs` | lemmas: what `FlattenSeq` makes of a sequence that grows, shrinks or is marked at its end, and what that says of any codec | |
| `SurfaceCodec` | the Android video branch below `VideoPipeline`, over a platform codec that works on its own | `moonegg-android/src/android_video_decoder.rs`, `video_codec_session.rs`, `media_codec.rs`, `video_buffer.rs`, `video_output.rs`, `pipeline/video.rs` |
| `SurfaceCodecProofs` | theorems | |
| `AudioCodec` | Android audio from the extractor to the PCM: demuxer, branch, decoder and codec in buffer mode, over a platform codec that works on its own | `moonegg-android/src/android_demuxer.rs`, `media_extractor.rs`, `android_decoder.rs`, `media_codec.rs`, `moonegg-core/src/pipeline/audio.rs` |
| `AudioCodecProofs` | theorems | |
| `AudioDevice` | abstract: what the audio pipeline may assume of its output | `ports/audio_output.rs` |
| `AudioOutput` | the deferred output, the Android output and its stream, called by the worker, over a stream that changes state and plays on its own | `pipeline/deferred_audio_output.rs`, `moonegg-android/src/audio_output.rs`, `aaudio.rs`, `pipeline/audio.rs`, `playback_worker.rs` |
| `AudioOutputProofs` | theorems | |
| `FrameTimes` | the arithmetic between frames and nanoseconds | `media/time.rs`, `backends/wav.rs`, `pipeline/audio.rs` |
| `SimulatedOutput` | the output without a device, beside the device it stands for | `backends/simulated_audio.rs` |
| `WavSource` | the WAV demuxer over a bounded region of a shared file | `backends/wav.rs`, `source.rs`, `moonegg-android/src/file_source.rs` |
| `WavPlayback`, `WavPlaybackMC` | a WAV file played through the simulated output; the files TLC reads | `backends/wav.rs`, `backends/simulated_audio.rs`, `pipeline/audio.rs`, `playback_worker.rs` |
| `WavPlaybackProofs` | theorems: frames and times, the demuxer, the simulated output, playback | |

`ControlLoop` and `PlaybackWorker` both extend `RuntimeMessages`; `EffectLoop`
extends `PlaybackWorker` because the executor creates, commands and joins
workers; `PlaybackRuntime` extends `ControlLoop` and `EffectLoop`, adds the
engine, and instantiates `PlayerContract` with `shown <- seen` and
`EngineContract` with `threads <- SomeThreadRuns`. `PlayerBridge` is built on
`EngineContract` in turn: `OwnerContract` says that the engine keeps it,
`EnginesInContract` that the bridge uses it as allowed, so the two models
compose without being checked in one state space.

`WavPlayback` extends `WavSource` and `SimulatedOutput`, which extends
`FrameTimes`. `SurfaceCodec` and `AudioCodec` both implement `DecoderContract`,
`AudioOutput` implements `AudioDevice`: these are what `AvPipeline` has in their places.

`AvPipeline` extends `MediaBranch`. It opens up what `PlaybackWorker`
abstracts to a pipeline that succeeds, fails or drains at will; the two
models are checked apart, and meet in `Start`, `Pause`, `Seek`, `Complete` and
`Fail`, which are the worker's side of `apply_command`, `poll_completion` and
`report_failure` in both.

### The runtime

Correspondence of state:

| Variable | In the code |
|---|---|
| `inbox` | `ControlMessage` channel into `ControlLoop` |
| `results` | `ControlResult` channel into `EffectLoop`: event, effect, epoch; `before`, `after` are the states of the `StateChanged` event |
| `control`, `effect` | each thread: still in its loop, or the exit it returned |
| `state`, `epoch` | `PlayerController` |
| `handle` | the executor's `Option<PlaybackWorkerHandle>` |
| `task` | what the effect thread holds across a blocking `join` |
| `worker[s]` | thread, command queue, cancel token, pipeline epoch, `running`, completion flag of the worker that was started at epoch `s` |
| `engine` | how far `PlayerEngine::new`, `shutdown` or `Drop` has come |
| `seen` | history: the state the delivered events tell the user |

Messages also carry a history field `session`, the epoch of the `Prepare` whose
work sent them; no guard of the code's threads reads it, only properties do.

One action is one iteration of a loop up to the next point where another thread
can tell the difference. The control thread's iteration is one action: it
receives, computes and sends once. The effect thread's is one action except for
`Stop`, `Release`, `CleanupAfterFailure` and the way out of the loop, which
cancel first and then wait in `join` (`EffectReceive`, `EffectJoined`). The worker is cut
at each receive and each send of feedback; consecutive cancellation tests with no send between them
are merged, since nothing that another thread can observe happens between them.
A worker reports a failed send by ending, as `run_worker` does.

### The pipeline

| Variable | In the code |
|---|---|
| `pc` | where the worker is in its loop and in `PlaybackPipeline::step` |
| `running`, `drained`, `reported` | `PlaybackWorker`: running, the last result of `drive`, the completion flag |
| `epoch`, `sourceEnded`, `pending` | `PlaybackPipeline`: epoch, source phase, `pending_packet` |
| `withVideo` | whether the pipeline was built by `new` or `new_with_video` |
| `source` | the demuxer: the next packet of each track |
| `audio`, `video` | the branches, each with the codec it owns: `accepted` is in the codec, `decoded` waits to be received |
| `device` | the audio output: buffered PCM, the frame counter, whether it runs |
| `mapping` | `AudioTimeMapping` and the boundary of the last seek |
| `clock`, `tracker` | `AudioDrivenClock`, `AudioProgressTracker` |
| `reading` | the locals of `step_video` across its second observation |
| `done` | history: the next frame of each track to reach the user (played out, shown, dropped as late, or trimmed away) |

A packet is its number in its track; the frame it decodes to and its
presentation time are the same number, so one packet lasts one unit of time
in both tracks. That keeps what the properties tell apart: which packet, in
which order, early or late by how much.

The worker is one thread, but the codecs, the audio device and the
clock move between its observations. `step` is therefore cut into
`AudioStep`, `ReadPosition`, `VideoStep` and one of the source actions (`RetryPacket`,
`ReadPacket`, `ReadEnd`, `NothingRead`); what happens between two cuts looks at
the outside only once. `AudioDecodes`, `VideoDecodes`,
`DevicePlays`, `TimePasses` and `StallTimeout` are the outside. A seek flushes everything and lets the
demuxer land anywhere at or before the target, and the device keep or reset
its counter, since the code is written for both. Every error in the
pipeline that no platform call reports is the place `impossible`; any
platform call may fail, which is `Fail`.

### The Android video branch

| Variable | In the code |
|---|---|
| `pc`, `phase`, `input`, `frame` | `VideoPipeline`: the stage of `step`, `VideoPhase`, `pending_input`, `pending_frame` (its token and time) |
| `source` | the next packet, whether still in the demuxer or in the branch's queue |
| `decoder` | `AndroidVideoDecoder`: `codec_config_pending`, `needs_keyframe`, `timestamp_offset_us` |
| `codec` | `NativeMediaCodec`: `pending_output`, `pending_surface_identity`, `input_eos_queued`, `output_eos_seen`, `output_started` |
| `platform` | `AMediaCodec`: the inputs it holds, the outputs it offers, what it has said of the output format, whether a flush cost it the configuration |
| `generation`, `fed` | history: flushes, and what was queued since the last one |

In `AvPipeline` the video codec is a queue with a capacity. `SurfaceCodec` shows that the
Android decoder is one: `Inside` reads off the queue from the frame that is out, the
outputs offered and the inputs held, and `IsAQueue` says that every step
submits, receives, flushes or leaves it alone (`DecoderContract`).

The actions follow `VideoPipeline::step`: receive, present, submit, each a call into
the decoder. Between two calls, and only there, the platform decodes. A call that queues the configuration and a
packet takes both slots at once, although the platform might take the first
before the second is queued; that only makes room earlier. An input index that
was dequeued is queued by the same call, so `pending_input_index` is never seen
between calls. The identity of a token (a fresh `Rc`) is the flush
count and the packet, which no other token shares. The platform may put
the end of stream on the last picture or on a buffer of its own, may answer the
configuration with an empty buffer, tells the output format before the first picture, and forgets
the configuration when it is flushed before its first answer, as the code's `has_output_started` expects.
`Close` is a failing platform call at any point, with the drop of the pending frame
(`discard_on_drop`). The queue `pending_discards` stays empty between calls: the worker is one
thread and the pipeline drops no frame while a call of the codec is running, so the deferred discards and the borrow conflict cannot be observed.

### The audio output

| Variable | In the code |
|---|---|
| `call` | whether the worker is between two calls or waits in one (`wait_until` of `AAudioPcmStream`), and what it does after it |
| `running`, `completed` | `PlaybackWorker`: `running`, `completion_reported` |
| `next`, `held` | the next PCM the audio decoder delivers, `AudioPipeline::pending_frame` |
| `wanted` | `DeferredAudioOutput::play_requested`; `configured` is that `stream` is not `"none"` |
| `output` | `AndroidAudioOutput`: the pending block with `offset_frames`, `running`, `request_started` |
| `stream` | the AAudio stream: its state, what it buffers, `frames_read` |
| `seeks` | how many seeks there were |

`frames_written` is `consumed` plus the length of the buffer; where the code tests
`consumed >= written` or `written > consumed` the model looks at the buffer. That the platform's
counter may run ahead of what was written after an underrun, against which the code guards with
`min`, is left out.

A call is one action up to the point where it waits: `Pause`, `Seek` and `Complete` ask the stream to pause,
`EndPause`, `BeginFlush` and `EndFlush` are what the code does when the wait is over. In between the
stream may play on. A seek pauses the output three times (`AudioPipeline::reset`, `DeferredAudioOutput::flush`,
`AndroidAudioOutput::flush`); after the first the stream rests and the others change nothing. The operators
`Configured`, `Written`, `Requested` and `Pump` follow the functions of the code and work on the pair of
output and stream, because `submit` pumps twice.
`Fail` is every error: of the platform, of `wait_until` after half a second, of a block that `validate` refuses. The
pipeline is dropped then; that `close_pipeline` tries once more to pause is not modelled, its result is ignored.

In `AvPipeline` the device is a queue of blocks with a counter. `AudioOutput` shows that the real one is such a queue:
`IsADevice` reads it off the stream's buffer, the rest of the pending block and the block the pipeline holds because the output gave it back; in `AvPipeline` that block
is `audio.frame`, in front of the device, and `PacketsFlow` counts it. Only the counter of a flush is
more general here, it may also count PCM that was thrown away; the pipeline reads it anew after every flush.

### The Android audio branch

| Variable | In the code |
|---|---|
| `pc`, `phase`, `queue`, `input`, `frame`, `boundary` | `AudioPipeline`: the stage of `step`, `AudioPhase`, packet queue with the pipeline's pending packet, `pending_input`, `pending_frame`, `presentation_boundary` |
| `extractor` | the sample `AMediaExtractor` stands on |
| `decoder` | `AndroidAudioDecoder`: `codec_config_pending`, whether the output format is known, `timestamp_offset_us` |
| `codec` | `NativeMediaCodec`: `input_eos_queued`, `output_eos_seen`, `output_started` |
| `platform` | `AMediaCodec`: the inputs it holds, the outputs it offers, what it has said of the format, whether it has answered and whether a flush cost it the configuration |
| `generation`, `fed`, `heard` | history: flushes, what was queued since the last one, the first block kept since then |

The stages are those of `AudioPipeline::step`: submit the frame to the output, receive, submit it again, feed. The bytes of an
output are copied and its slot given back in the call that finds it (`take_output_buffer`), so unlike video
no slot is ever out. Times are in microseconds on the way in and in nanoseconds on the way out, and AAC tracks of the
system begin below zero (encoder delay), which is why the decoder shifts them. `AndroidDemuxer::seek` is `Micros` and `Landing`. `Pts(extractor) = -1` in
`ReadPacket` and `Seek` is the one sample time the extractor's answer cannot tell from the end
(`media_extractor.rs:188`): the demuxer then answers with an error, and the pipeline is dropped.
`Close` is a failing call of the platform at any point.

### WAV playback

| Variable | In the code |
|---|---|
| `file` | what the bytes say: chunks, the two lengths a header may lie about, the sample rate |
| `offset` | the offset of the open file, which other holders of it share |
| `position` | `BoundedReader::position` |
| `sought` | `BoundedReader::read` is between its seek (line 75) and its read (line 77) |
| `pc`, `got`, `want` | where `from_reader` and `read_packet` are, and `read_exact` inside them |
| `layout`, `nextFrame` | `WavLayout` as far as it is known, `next_frame` |
| `packet`, `pcm` | the packet between demuxer and decoder; the block between decoder and output (`pending_output`, `pending_frame`) |
| `sourceEnded`, `boundary`, `running`, `reported` | `SourcePhase`, `presentation_boundary`, `PlaybackWorker` |
| `output` | `SimulatedAudioOutput`; `elapsed` is the time since `last_update` |
| `real` | the device the simulation stands for, which plays all the time |
| `seeks`, `heard`, `blocks` | history: seeks, the bytes the output took since the last one, and where each block of them began, with its time |

A byte is represented by its offset in the file. Whether the demuxer hands out the right bytes is then visible in
what it hands out, and a chunk header is recognised by where it was read, not by what a decoder of
strings would make of it. A read returns at most what one of `ReadSizes` allows, and at the end of the
region is `UnexpectedEof`. `ReadFails` is an error of the system.

The descriptor is a duplicate, so the offset of the open file belongs to others too: to whoever still holds the original, and to other players made from it.
`BoundedReader::read` seeks to its own position and then reads, two system calls and two actions here (`SeekBeforeRead`, `ReadSome`); `OthersMove` puts the
offset at one of `OthersAt`. What `read` does itself is to undo what others did *between* two reads. Nothing in the code keeps them from coming between the seek and the read
of one: `file_source.rs:11` asks that such operations be coordinated, and `docs/fd 的简单知识点.md:35` that Rust alone reads after the call. The constant `Coordinated`
is that condition. With it (`wav_playback` and the theorems) `OthersMove` happens between reads only; section 6 says what happens without it.
`OthersAt` lies before the region, so that what a misplaced read returns is in the file.

The decoder holds no more than one block and the queue of the branch only delays packets, so one packet and
one block stand for both. The deferred output is left out here: while nothing was submitted an output plays nothing,
whether it exists or not. `SimulatedOutput` computes only when it is called; `real` is its own definition of what it
should have computed: one unit of time after another.

### The bridge

| Variable | In the code |
|---|---|
| `nextHandle`, `table` | `SurfaceRegistry` |
| `freed` | windows whose `ANativeWindow` reference was given back (`Drop` of `NativeWindow`) |
| `phase`, `threads`, `output` | each engine as `EngineContract` shows it, and the window its factory owns |
| `slot`, `lock` | the `Mutex<Option<PlayerEngine>>` of a player: whether it still holds the engine, and who holds the mutex |
| `held` | whether Java holds a reference to the player |
| `call` | what each Java thread is doing; a window that was taken from the registry is in the call until an engine has it |
| `told`, `released` | history: the handle each window was registered under, and the players whose `release` has returned |

`prepare`, `play`, `pause`, `stop`, `seek` and `poll_event` are one action, `Use`: they lock, find the engine or answer
`Released`, send without blocking, and unlock. `release` is two, because it keeps the guard while it joins the engine's
threads. A constructor takes the window from the registry, opens its source, then creates the engine; each may fail, and the window is
dropped with whatever owned it. UniFFI keeps a player alive while a call on it is in flight, so `Drop` runs on the thread that gives
up the last reference (`Finish`, `Forget`).

## 3. Bounds

| Constant | Meaning | In the code |
|---|---|---|
| `MaxEpoch` | the last epoch; what happens there is modelled, not cut | `u64::MAX` in `PlaybackEpoch::checked_next` |
| `MaxInFlight` | the user and periodic audio progress wait while this many messages are under way (`Room`); failures, answers and shutdown are never held back | channels are unbounded |
| `Faults` | which faults may happen: `build`, `pipeline`, `panic`, `thread` | |
| `UserCommands` | the commands the user sends | all of them |

With `MaxEpoch = 2` there are three epochs: enough for old work, present work
and one more `Seek` or `Stop` between, and for a second session after the first; the end of the counter is reached in every
run. With `MaxInFlight = 3` (`runtime_safety`) a command, a piece of feedback and a result can
pass each other in every order. `runtime_faults` adds panics, which multiply the states, and checks liveness, which takes the
whole graph: it has `MaxInFlight = 2` and leaves out `Pause`, which takes the same path through every thread as `Play`, and the user's own `Release`, which
every shutdown sends anyway. The theorems hold for every value of all constants.
There is no symmetry: epochs are ordered.

| Constant | Meaning | In the code |
|---|---|---|
| `Threads` | Java threads | any |
| `Players` | player objects | any |
| `Windows` | registered surfaces | any |
| `MaxHandle` | the last value of the handle counter; what happens there is modelled | `i64::MAX` |

Two threads are enough for every pair of calls that race, on one player or for one handle, and a third call would only wait
behind the same mutex. Two players meet in the registry. Three windows and `MaxHandle = 3` use up the handles: the third
registration is refused. The theorems hold for all values.

| Constant | Meaning | In the code |
|---|---|---|
| `AudioLength`, `VideoLength` | packets of the tracks | the file |
| `QueueCapacity` | packets in a branch's queue | `packet_capacity` |
| `DecoderDepth` | inputs and outputs in a codec together | the platform |
| `DeviceCapacity` | PCM blocks in the device | the platform |
| `EarlyTolerance`, `LateTolerance` | `AvSync`, in packets | nanoseconds |
| `MaxEpoch` | seeks after the first epoch | unbounded |

Capacities of one make every buffer the full buffer of some state, so
every backpressure path is taken. `av_safety` has four packets in each track: a
slow codec, a pending input, a queue and the pending packet hold four, so both
queues meet a packet they have no room for. It has one seek, at every point
and to every target, also beyond the end of one or both tracks, and
a late tolerance of one packet, so that a frame of before the target would be shown if it were kept. `av_ends` has two audio and six video packets: a pending
frame, a codec, a pending input, a queue and the pending packet hold five, so it takes a sixth for the source
to be blocked on video before all audio is read, which is the only situation in which the
fallback clock is needed. `TimeRunsForward` is checked there for the same reason: with four packets of video the audio never stalls, and the one jump it has to judge does not
happen. There is no seek in `av_ends`, whose liveness takes the whole graph; for time after a seek, and for every length and capacity, there is `TimeOnlyRunsForward`. Monotonic time stops at `LastTime`, when every frame is late.

| Constant | Meaning | In the code |
|---|---|---|
| `PacketCount`, `KeyPackets` | the video track and its key frames | the file |
| `Lead` | packets with a negative time | the file |
| `InputSlots`, `OutputSlots` | buffers of the codec | the platform |
| `MaxFlush` | seeks | unbounded |

Seven packets with key frames 0, 3 and 4 give runs that begin with a
key frame, with three packets to be skipped, and with a key frame among skipped ones; `Lead = 4` makes
two of the three key frames begin a run below zero, at different times, so the shift of one run is wrong
for the next. Three input slots are one more than configuration and
packet need, so that they fit, fit in part and do not fit. Three flushes are two in a row before the
first answer and one after it. The theorems hold for all values.

| Constant | Meaning | In the code |
|---|---|---|
| `PacketCount` | samples of the audio track | the file |
| `Spacing`, `Lead` | microseconds from one sample to the next, and of the first below zero | the file |
| `NanosPerMicro` | 1000 | `media/time.rs` |
| `InputSlots`, `OutputSlots`, `MaxFlush` | as above | |

Five samples at -4, -2, 0, 2 and 4 microseconds: two begin below zero, a seek lands on each, and the shift of a run
depends on where it landed. With two nanoseconds to the microsecond and every target between zero and the end there are targets that are
no whole microsecond, and boundaries inside a block and at its end. Two slots each way are full after configuration and one packet.

| Constant | Meaning | In the code |
|---|---|---|
| `FrameCount` | PCM frames of the track | the file |
| `BlockSizes` | frames in a block | up to `MAX_BLOCK_FRAMES` |
| `StreamCapacity` | frames in the stream's buffer | the platform |
| `MaxSeek` | seeks | unbounded |

A stream of two frames takes blocks of one at once, and blocks of three in two or more writes, so blocks are pending
whole, in part and not at all when a pause or seek comes. Five frames hold one of each kind and one more. Two seeks
are one before the first PCM and one after it, or one into the wake of the other. The theorems hold for all values.

| Constant | Meaning | In the code |
|---|---|---|
| `Files` | the files the demuxer may be given | any bytes |
| `RegionStart` | where the region begins | the caller |
| `FramesPerPacket`, `CapacityFrames` | 2 and 3 | 1024 and 4096 |
| `ReadSizes` | what one read returns at most | the system |
| `NanosPerSecond`, the rate of a file | 10 and 7 | 10^9 and the file's rate |
| `Coordinated` | TRUE | a condition on the other holders of the file |
| `OthersAt` | where they leave its offset: the start of the file | anywhere |
| `SeekTargets`, `MaxSeek` | -1, 2, 3, 4 and 9; one seek | any |
| `MaxElapsed` | time between two calls of the output | unbounded |

The files are all lists of up to three chunks of five kinds (two formats, one of them with an extension, empty data, data, an unknown chunk of odd size)
with headers that tell the truth, too little, or more than the region holds; four with a format that is refused or data
that is no whole number of frames; and a track of five frames, in truth and in a region three bytes too short. Five frames are packets of two, two
and one, and a seek may land on each of them, on the end, and behind it. A rate of 7 to 10
units of time makes almost every frame begin between two units, so every rounding in the code rounds. A
capacity of three refuses every second packet, and lets the output run empty when the worker is late. Reads of five bytes end inside
headers and frames.

## 4. What is checked

| Run | Question | Answer |
|---|---|---|
| `runtime_safety` | sessions, epochs, events and contexts, with failing builds, failing pipelines and a refused thread; does what the user sees implement `PlayerContract` | holds |
| `runtime_faults` | with every fault, panics included: who owns the workers, does the engine keep `EngineContract`, does `shutdown` return, is every `Prepare` and every `Seek` answered or overtaken, does a worker that lost its pipeline end | holds |
| `stale_panic` | can the failure of an old session hit the new one | it can: finding 1 |
| `clean_shutdown` | is the shutdown of an engine without any fault reported clean | not always: finding 2 |
| `player_bridge` | Java threads that register, discard, create, use, release and forget at any time: who owns each window, what is left of a released player, does every call return | holds |
| `av_safety` | packets, boundary, clock and completion over every interleaving, with and without video, and a seek at every point | holds |
| `av_ends` | does playback always end when the source blocks on video that waits for audio; does media time go back only when audio that stalled takes the clock, and not behind the stall | holds |
| `av_position` | is the audio position read once per step, as a comment says | no: finding 3 |
| `surface_codec` | slots, configuration, key frames, times and end of stream of the Android video decoder, under seeks and a broken codec; does it implement `DecoderContract` | holds |
| `audio_codec` | configuration, times, boundary and end of stream of the Android audio branch, under seeks and a broken codec; does its decoder implement `DecoderContract` | holds |
| `audio_output` | does every layer of the output agree on whether PCM plays; do they implement `AudioDevice`; does playback end | holds |
| `wav_playback` | which files are accepted, are the right bytes heard at the right times after a seek anywhere, does the simulated output tell the position of a real one, does playback end, all if the holders of the file coordinate | holds |

Every property of a passing run has a mutant of the code that violates it; the mutated
operators stand beside the originals in the modules and are marked as such.

The properties of `PlaybackRuntime.tla`:

* `FatalOnlyAtEpochLimit`: no interleaving makes the controller return `UnexpectedWorkEvent` or any other error that ends the control thread, but the end of the epoch counter. This is the property most of the controller's stale-epoch tests and the worker's completion flag exist for.
* `SessionsMatch`: `WorkerAlreadyExists`, `WorkerNotPrepared`, `EpochMismatch` and `InvalidSeekEpoch` are unreachable, in the executor as in the worker.
* `EventChain`: delivered and queued events form one unbroken chain from what the user has seen to the controller's state.
* `ThreadsAgree`: when everything is quiet, worker and controller agree about session, epoch, running and completion. This says that no race leaves anything behind.
* `ProgressInContext`, `OldWorkIsHarmless`: steps in which feedback would act outside its session.
* `UserContract`: the composition implements `PlayerContract`.
* `WorkersAreOwned`: at most one worker runs, somebody will join it, and when the effect thread is gone there is none.
* `OwnerContract`: refinement of `EngineContract`; `new` and `shutdown` return only when no thread is left, the workers included, although `shutdown` joins the control and the effect thread only.
* `ShutdownReturns`, `RequestsAreAnswered`, `FailedWorkerIsRetired`: liveness. A `Prepare` whose worker panics is not answered before the next command; that exception is part of the property.

The properties of `PlayerBridge.tla`:

* `OneOwner`: a registered window is in the table, in one constructor or in one engine until it is given back, then nowhere, however take and discard race; and no handle was told for two windows.
* `ReleasedIsOver`: when any `release` of a player has returned, also one that found the engine gone, no thread and no window of it is left, so Java may destroy the surface. The second `release` has to wait for the first: that is what holding the mutex over the joins is for.
* `EveryCallReturns`: liveness; also of calls that wait for a release in progress.

The properties of `AvPipeline.tla`:

* `NoInternalError`: `EpochMismatch`, `InputClosed`, `UnexpectedDecoderEos` and `PositionWentBackward` are unreachable unless a platform misbehaves.
* `PacketsFlow`: every packet from the demuxer to the output is in exactly one place, and they stand in order, across backpressure at five places and a seek.
* `ClockTellsWhatIsHeard`: the media time computed from the frame counter is the time of the PCM the device plays next, although PCM before the boundary is trimmed and the counter may or may not be reset.
* `CompletionIsComplete`: completion is reported after the last packet of both tracks, when the device is empty, and video runs on the tail clock only when the last PCM has been played.
* `NothingBeforeBoundary`: after a seek nothing earlier is heard or waits to be shown.
* `TimeRunsForward`: media time never runs backward, with two exceptions the code intends: a seek, and audio that takes the clock back after a stall (`try_restore_audio_clock`, although the fallback clock has run ahead). The second is allowed from `Stalled` to `FollowingAudio` only, and only to a time behind the one at which audio stood still: the device must have played more since. A clock given back at the very position of the stall would stall again at once.
* `PlaybackEnds`: liveness; playback that nobody interrupts ends.

The properties of `SurfaceCodec.tla`:

* `NoInternalError`: without a platform fault there is no `InvalidState` for a stale or missing slot, no `UnsupportedInputTimestamp`, no `UnexpectedDecoderEos`, and nothing queued behind the end.
* `TokenNamesSlot`: the slot that is out is the pending frame's, and there is none without a frame. `try_receive_surface` answers `NotReady` while a slot is out, so a lost slot would stop the video silently.
* `Decodable`: what the platform gets after a start or a flush begins with a key frame, has no gap, and has the configuration before it exactly when the flush took it away.
* `TimesSurvive`: a frame has the time of its packet, although the way in shifts times and each run has its own shift.
* `IsAQueue`: refinement of `DecoderContract`; every accepted input comes out once and in order, the end last, whichever buffer carries it.
* `Drains`: liveness; a stream that is neither sought nor broken comes to its end.

The properties of `AudioCodec.tla`:

* `Decodable`: packets without a gap, the configuration before them exactly when the flush took it away.
* `HeardFromBoundary`: a block has the time of its packet, the first one kept after a seek is the first that ends behind the boundary although the demuxer seeks in microseconds, and without a platform fault no call ends in an error.
* `IsAQueue`, `Drains`: as for video; in buffer mode the end may come with the last PCM and is then told by the call after it.

The properties of `AudioOutput.tla`:

* `PlaysExactlyWhenWanted`: between two calls the worker's flag, `play_requested`, `running`, `request_started` and the state of the stream agree, although the output is opened late and the stream is started only once it has data; and no `request_start` meets a stream that is still pausing or flushing. PCM in a stream nobody has started would be silence without an error.
* `IsADevice`: refinement of `AudioDevice`; PCM taken from the decoder, whether the output has it or gave it back, is heard once and in order, only while playback runs, the counter counts it, a flush empties all layers, and completion comes when nothing is left.
* `Finishes`: liveness; playback that nobody interrupts is reported complete. `pump` runs only in `start`, `submit` and `is_drained`, so this says that they are called often enough for the last block, also after a pause with a full stream.

The properties of `WavPlayback.tla` and its parts:

* `LayoutIsTheFile`: the demuxer, which sees one chunk header at a time, accepts exactly the files that are right as a whole (`IsWav`), and finds their data.
* `HeardIsTheData`: the bytes the output took, waiting block, packet and the rest of the track are the bytes of the data chunk without gap or overlap, when reads come short and others move the offset of the file between them. It holds under `Coordinated` only, as everything behind a read does.
* `SeekIsExact`: the first frame heard after a seek is the first that begins at the target (less than a nanosecond off), and every block carries the time of its first frame.
* `PositionIsReal`: asked seldom or often, the simulated output is where a device would be that has played all the time; it carries fractions of a frame over and drops them when it has run empty.
* `PlaysToTheEnd`: liveness.

**Fairness.** `FairSpec` of the runtime asks for weak fairness of each thread and of the
engine's joins: the operating system runs a thread that can run, and a blocked
receive or join returns once it can. Nothing is asked of the user, who need
not send, read or shut down, and nothing of faults. That a build or a
`drive` call returns is what the cancellation design assumes of the platform's
codecs, and it is part of the worker's fairness here: a codec call that never
returns would block `join` for ever, in the code as in the model.

`FairSpec` of the pipeline asks for weak fairness of the worker's loop, the codecs, the
device and the two timers, and for strong fairness of two answers that
may be refused for now: a demuxer that is asked again and again delivers
(`NotReady` is not for ever), and a video output that is offered a frame again
and again takes it. Weak fairness would not do for these, because the worker does other
things between two attempts. Neither is promised by this code; both are what its retry loops
(`retry_delay`) are written for. Nothing is asked of the user: `Start`, `Pause` and `Seek` need not
happen, and a failure ends the claim.

`FairSpec` of the video branch asks for weak fairness of the worker and of the platform's
decoding, and for strong fairness of submitting, of the end of the demuxer and of
the moment a frame is shown or dropped: each may be refused in one round of `step`, and
the worker tries again in the next.

`FairSpec` of the audio output asks for weak fairness of the worker, which submits while there is PCM and asks
`is_drained` after that, of completion, and of the stream: it leaves `Starting`, `Pausing` and `Flushing`,
and plays what it has once started.

`FairSpec` of the audio branch is that of the video branch: weak fairness of the worker's steps and of the codec, strong
fairness of a frame the output takes and of a demuxer that is asked while the queue is empty, both of which a step may find unready.

`FairSpec` of WAV playback asks for weak fairness of building, of reads, of the worker and of time. A read that never returns would
block the worker in the code as well. Observing the output, which `Observe` may do at any time, must not keep it from draining, and is
not asked for.

`Spec` of the bridge asks that a thread inside a call runs on once it can (the mutex is free, the engine's threads are gone), and that
an engine that is shut down or refused comes to its end: that is `ShutdownReturns` of the runtime. Java need not call anything, and a
call it never makes is waited for by nobody.

Deadlock is checked in every run. The intended ends are actions: `Stopped` after
`shutdown` or a failed `new`, `Closed` and `Over` after a pipeline that failed.

## 5. What is proved

Each theorem holds for every value of the constants its module declares, from the
assumptions named there. The strengthened invariants were run through TLC before the proof.

### The runtime

For every `MaxEpoch`, `MaxInFlight`, `Faults` and `UserCommands` (`MaxEpochAssumption`,
`MaxInFlightAssumption`, `FaultsAssumption`, `UserCommandsAssumption`):

| Theorem | Statement |
|---|---|
| `TypeCorrect` | `Spec => []TypeOK` |
| `WorkersAreAlwaysOwned` | `Spec => []WorkersAreOwned` |
| `OwnerContractHolds` | `Spec => OwnerContract` |
| `EventChainAlways` | `Spec => []EventChain` |
| `UserContractHolds` | `Spec => UserContract` |
| `FatalErrorsAreOverflows` | `Spec => []FatalOnlyAtEpochLimit` |
| `ProgressIsToldInContext` | `Spec => ProgressInContext` |
| `SessionsAlwaysMatch` | `Spec => []SessionsMatch` |
| `ThreadsAlwaysAgree` | `Spec => []ThreadsAgree` |
| `OldWorkIsHarmlessWithoutPanics` | `"panic" \notin Faults`: `Spec => OldWorkIsHarmless` |

`WorkersAreOwned` is not inductive: when the effect thread
leaves its loop, nothing in it says that the worker it waits for is the only
one. `OwnershipInv` adds that (`Owned`: a worker that is not absent is the handle's or
the task's, in every stage of the effect thread) and what the handle may
be in each stage (`HandleFitsStage`: while joining and after the end it is
empty). Each action of the effect thread moves ownership between the two places; a worker step only changes
a worker that exists, so it cannot create an unowned one.

`OwnerContract` is a refinement. Ownership says that no worker runs without the effect thread (`ThreadsAreTwo`);
`JoinInv` says what each stage of `new` and `shutdown` knows of the other two threads; and a loop that has returned
does not run again (`LoopsEndOnce`). Then every step is one of the contract's, or a stutter.

`EventChain` needs `ChainInv`: a result without a state event has equal
`before` and `after` (`QuietResults`), and the links of the chain hold while the
channel exists (`Delivering => Chain`). The control thread extends the chain at
its end with a result whose `before` is the state it had; the effect thread
takes the first link and makes `seen` its end; everybody else leaves
`results`, `state` and `seen` alone.

The last six are in the second half of the module. Their proofs do not unfold the actions again and again: `WorkerMoves`, `EffectMoves`
and `ControlMoves` show once that every step of a thread is one of a few moves, described by what the other threads can tell
of it (`Fails`, `Seeks`, `Completes`; `Spawns`, `HandsOver`, `GivesUp`; `Accepts`, `CompletesStage`, `FailsPlayer`), and all that follows is
about moves. Each invariant below leans on those before it.

* `FreshInv`: no message, command, result or worker has an epoch above the controller's, and while the control thread lives the player is
  not `Released`. What is of another epoch is therefore older.
* `StepsAreLegal`: every result in the channel that tells a new state tells a step of `PlayerContract`. With `ChainInv` the delivered
  events are such steps one after another: `UserContractHolds`.
* `TalkInv` is the heart of `FatalErrorsAreOverflows`. It says for each player state what work of the current epoch may be under way: which
  message may be unread (`InboxFits`) and in which order (`InboxOrdered`), what a worker may be doing (`WorkerFits`), which command may be queued for it
  (`QueueFits`), which result may be on its way (`ResultFits`). A `PlaybackCompleted` of the current epoch then finds `Playing` or
  `Paused`, a `PreparationCompleted` finds `Preparing`. One part is there only for induction: `SeekIsFirst`, a `Seek`
  opens its epoch, so nothing of that epoch is before it in a queue. Without it a worker that reports the end just
  before it applies a `Seek` could be taken to have completed the new epoch.
* `EventFits` carries `TalkInv` from the moment the control thread forwards progress to the moment the user sees it: the `before` of such a
  result is a state that progress belongs to, and `ChainInv` makes that the state the user has seen.
* `EpochInv` follows the epochs through results, queue and worker: every result continues from the one before or opens a new epoch
  (`EpochChain`), every queued command continues from the one before or is a `Seek` beyond it (`QueueLinked`), and the last epoch the
  held worker was given is the one delivered (`HandleAtEpoch`). `EffectInv` says what the user has seen tells whether a worker is held, and
  `ResultLegal` which effect comes with which change of state. Together they give `SessionsMatch`: an
  effect is executed when its `before` has been seen, so the worker it needs is there.
* `OrderInv` states the order of epochs for any two entries of a channel, not only for neighbours. `PendingInv`: what the state promises and
  nobody has done is on its way (`Preparing` has an effect, a message or a worker that will end it; a lost pipeline and a completion of this epoch were told). `DoneInv`:
  the command queued last, or the pipeline when none is queued, does what the user is told next (`HandleObeys`), and a completion that the
  user, a result or a message knows of is that of the held worker at the epoch delivered (`CompletionsHold`). `ThreadsAgree` is what remains of these
  when every queue is empty.

`OldWorkIsHarmless` alone has a hypothesis on the faults, and needs it: `stale_panic` is the counterexample with panics (finding 1). What a panic
breaks is that failures are told in time. Without one no join fails, so `Stop` and `Release` tell nothing, and the effect thread outlives the reading of
commands (`CalmInv`). `OriginInv` is then inductive: a message of the current epoch was sent by the session in play and not by an earlier one (`MessagesAreOurs`),
because while a session is held the effect thread does nothing else (`SessionIsHeld`), while none is held no worker but the one
that prepares is at the current epoch or has a command of it (`OthersAreBehind`), and the worker that
completes the preparation is the one that becomes the handle (`PreparedIsHandle`).

All but `CalmInv` and `OriginInv` were checked by TLC with four kinds of faults, these two with the three of `runtime_safety`, all with `MaxEpoch` = 2, before they were proved.

### The pipeline

For every track (`AudioLength`, `VideoLength`), every `QueueCapacity` and capacity of codecs and device, every tolerance and every
`MaxEpoch` (the assumptions of `MediaBranch` and `AvPipeline`):

| Theorem | Statement |
|---|---|
| `PipelineIsSound` | `Spec => []PipelineInv` |
| `NeverFailsByItself` | `Spec => []NoInternalError` |
| `PacketsFlowInOrder` | `Spec => []PacketsFlow` |
| `AudioClockIsTrue` | `Spec => []ClockTellsWhatIsHeard` |
| `NothingEndsEarly` | `Spec => []CompletionIsComplete` |
| `BoundaryHolds` | `Spec => []NothingBeforeBoundary` |
| `TimeOnlyRunsForward` | `Spec => TimeRunsForward` |

None of these properties is inductive alone; `PipelineInv` is, and all follow from it. Its parts:

* `BranchesAreFilled`: what a branch holds, from the frame that leaves next through decoder and pending input to the queue, are consecutive numbers,
  and each stage begins where the one before it ends (`Contents`, four cut points); the end of the stream is submitted behind the last packet, comes
  out last and is no frame (`Staged`). This is why a packet that is accepted is the one the decoder expects, and why
  a branch is drained only when it is empty.
* `SourceAgrees`: source, pending packet and both branches are of one epoch, and the source has ended exactly when no branch is fed any more.
* `DeviceAgrees`: the device holds what was submitted and not played, without gap, and its counter is related to media time by the clock's base (`Heard`).
* `PositionsAgree`: the last position the tracker knows, the one read in this step and the device's lie in that order, so no position goes back, although
  a flush may set the counter anywhere.
* `EndsAgree`, `FramesAgree`: who says that audio is over, and what a frame that waits to be shown may be.

`TimeRunsForward` needs one invariant more, `AnchorAgrees`: no position that is remembered, the one read in this step or the one at which audio stalled, lies before the
base of the mapping from frames to time. Positions after the stall then stand for times behind the one of the stall, and that is where audio takes the clock back to.

A step of a branch is cut into lemmas about a branch alone (`PacketIsPushed`, `InputIsPulled`, `InputIsSubmitted`, `CodecMovesOn`, `OutputLeaves`, `FrameLeaves`, all on `WellFilled`),
used for audio and video.
`Contents` quantifies over all natural numbers; TLC checked it with the numbers computed from the lengths, which is equivalent.

### The bridge

For every `Threads`, `Players`, `Windows` and `MaxHandle` (`MaxHandleAssumption`, `NamesAssumption`):

| Theorem | Statement |
|---|---|
| `OneOwnerAlways` | `Spec => []OneOwner` |
| `ReleasedIsOverAlways` | `Spec => []ReleasedIsOver` |
| `HandlesAreSpentAlways` | `Spec => HandlesAreSpent` |
| `EnginesAreUsedInContract` | `Spec => EnginesInContract` |

`ReleasedIsOver` speaks of players nobody calls any more, so it says nothing while a call is under way. `EngineInv` does: the phase of an engine
tells which calls there can be on its player and which there must be; who shuts down in `release` has the mutex, who does so in
`Drop` is alone. `OneOwner` counts the holders of a window; `WindowInv` says pairwise that no two places hold it (`Apart`), that one does
(`Somewhere`), and that a handle in the table is the one its window was told (`HandlesFit`). The last two theorems follow from
these and the type invariant: a handle is issued above all earlier ones, and an engine's phase moves only as its contract allows.

### The Android video branch

For every track (`PacketCount`, `KeyPackets`, `Lead`), every platform codec
(`InputSlots`, `OutputSlots`) and every `MaxFlush`:

| Theorem | Statement |
|---|---|
| `TypeCorrect` | `Spec => []TypeOK` |
| `TokenNamesSlotAlways` | `Spec => []TokenNamesSlot` |
| `TimesSurviveAlways` | `Spec => []TimesSurvive` |
| `NoInternalErrorEver` | `Spec => []NoInternalError` |
| `DecodableAlways` | `Spec => []Decodable` |
| `IsAQueueAlways` | `Spec => IsAQueue` |

`TypeOK` and `TokenNamesSlot` together are inductive. `TimesSurvive` is not:
`TimesInv` adds that every buffer with a picture inside the codec carries its packet's time plus the
offset, and that there is no such buffer while there is no offset; so the first packet of a run may fix
the offset without changing what is inside. `NoInternalError` rests on these (a frame that is presented is not stale; a
picture has an offset) and on two more: `EndInv`, the end of the stream is
inside only after it was submitted and then the branch is draining; and
`OffsetInv`, packets still to come are not before the one that fixed the offset, so no time is below zero.

`Decodable` looks back at everything the platform was given; `FedInv` keeps what the next input needs to know of it: the key-frame gate is closed
as long as nothing was fed, and then the last number fed and the next one the branch will offer are neighbours. `SourceInv` says which number that is, and
`AnswerInv` that the configuration is pending only while the platform is empty and lost it.

`IsAQueue` is a refinement whose mapping folds over what the platform holds. The invariant behind it is `EndPlace`: the end of the stream is behind all inputs, or in the
last output when no input is left, or in the codec's own record when the platform is empty. Without it a picture could
overtake the end. `Inside` is cut into three parts (`InsideIs`): what the codec has noted, what the platform offers, what waits in it; each action moves
one element over one of the two borders (`QueueEmpty`, `QueueFrame`, `QueueRelease`, `QueuePlatform`) or touches one end (`QueueSubmit`, `QueueEnd`), and
`ContractStep` reads `Submit`, `Receive`, `Flush` or a stutter of `DecoderContract` off that. The folds are dealt with in `CodecQueueProofs`. `FlattenSeq` is defined by
recursion over the length, and the library's induction takes an operator; the lemmas use induction over sets instead (`LeastNat`: a set of numbers that is not empty has a least
one; `Induction`: a set that holds 0 and with every number the next is `Nat`), which needs no operator.

### The Android audio branch

For every track (`PacketCount`, `Spacing`, `Lead`), every platform codec
(`InputSlots`, `OutputSlots`) and every `MaxFlush`:

| Theorem | Statement |
|---|---|
| `TypeCorrect` | `Spec => []TypeOK` |
| `DecodableAlways` | `Spec => []Decodable` |
| `IsAQueueAlways` | `Spec => IsAQueue` |
| `HeardFromBoundaryAlways` | `Spec => []HeardFromBoundary` |

The branch is not the video branch over again: no slot is ever out, the output format is told once before the first PCM, the end of the stream may come with the last
block, and blocks are dropped by where they end. `AudioInv` is inductive and its proof has one lemma per kind of step (`SubmitKeeps`, `ReceiveKeeps`, `PlatformKeeps`,
`SeekKeeps`, `QuietKeeps`). Its parts: `SourceInv`, packets come from the file one after another; `EndInv`, the end is queued exactly when the branch drains, is the
last the platform holds, and once seen leaves it empty; `ContentInv`, every buffer carries its packet's time plus the offset, and PCM only after its format;
`AnswerInv` and `FedInv`, as for video; `OffsetInv`, no time to come is negative; `FrameInv`, the time of the frame. `NoInternalError` and `Decodable` are its last two parts.

For `IsAQueue` each action is read as what it does to the queue: it stays, one leaves, one comes, or it is emptied (`Moves`), and `ContractStep` gives the steps
of `DecoderContract`. `HeardFromBoundary` uses the same moves. Its invariant `HeardInv` says that what is inside is one run of packets
up to the next one submitted, that all before this run end at or before the boundary as long as nothing was kept, and that the block kept was the first that does not.
After a seek the run is empty and begins where the system's extractor landed; `LandsEarly` shows that all before that place are early, although the target was cut to
whole microseconds.

### The audio output

For every `FrameCount`, `BlockSizes`, `StreamCapacity` and `MaxSeek` (the four assumptions of `AudioOutput`):

| Theorem | Statement |
|---|---|
| `PlaysExactlyWhenWantedAlways` | `Spec => []PlaysExactlyWhenWanted` |
| `IsADeviceAlways` | `Spec => IsADevice` |

`PlaysExactlyWhenWanted` speaks of the moments between two calls. `OutputInv` adds that between two calls PCM is never in a running output that
has not asked for the start, and that an output which asked has a stream that starts or has started (`AtLoopInv`); and what a call that waits has already done:
the output is off, the stream does not play anew (`WaitingInv`), the start is to be asked for again (`FlushingInv`). Two lemmas about
operators carry the proof: `PumpWakes` (after a pump of an output that runs, PCM is in a stream that was asked to start) and `StartWakes`.

For `IsADevice`, `QueueOf` is the stream's buffer followed by the rest of the pending block; the device has the held block behind it. `WrittenQueue` and `PumpQueue` say that a
write moves PCM from one to the other and leaves the queue as it is, so everything that only pumps is a stutter of the device. `DeviceInv`
adds that a stream that was never started or was flushed is empty, that a stream which still pauses did play until this call, and that a
call which is going to report completion has nothing left (`StreamInv`, `PausingInv`). Each action is then one lemma: `SubmitRefines` is
`Device!Submit` for a block that is new, taken or refused, and a stutter for the held block, which moves to the output or stays; `StreamPlaysRefines` is `Device!Hear`; and so on.

### WAV playback

For every file whose chunks stand one behind the other and reach the end its header declares (`FilesAssumption`: this is how a file is read as chunks at all,
the two lengths may still lie), every rate and `NanosPerSecond`, every place of the region, every packet size and set of lengths a read may return, every capacity
that takes a packet (`PacketFitsAssumption`), every set of targets and `MaxSeek`, every set of places before the region where others leave the offset:

| Theorem | Statement |
|---|---|
| `FrameBeginsInItsNanosecond` | the time of a frame is the nanosecond in which it begins |
| `SeekLandsBeforeTarget` | the demuxer's frame does not begin behind the target, the next one does |
| `TrimmingIsExact` | what trimming keeps begins at the boundary or behind it, what it drops begins less than a nanosecond behind it, and the time of what is left is at most two nanoseconds early |
| `LayoutIsTheFileAlways` | `Coordinated`: `Spec => []LayoutIsTheFile` |
| `PositionIsRealAlways` | `Coordinated`: `Spec => []PositionIsReal` |
| `HeardIsTheDataAlways` | `Coordinated`: `Spec => []HeardIsTheData` |
| `SeekIsExactAlways` | `Coordinated`: `Spec => []SeekIsExact` |

The first three are about operators and rest on three facts about integer division (`Division`, `Monotone`, `Cancel`).

The last four have the hypothesis that the holders of the file coordinate. It enters in one place: `SoughtInv`, a reader that has sought and not yet read finds the offset at its own position.
Without it they are false (section 6).

`SourceInv` is the invariant of the demuxer. `GotInv`: what a read has so far is what lies before the reader's position, however short the reads are and wherever others put the offset between them.
`ScanInv`: some number of chunks is behind, and what is known of the layout is what exactly these say (`KnowsFormat`, `KnowsData`). That a refused file is wrong as a whole
needs every chunk the parser does not look at: `PlacesGrow` and `NoChunkEnds` (chunks follow one another, so none can end where the body ends once one has stepped over it) and
`WholeRiff` (a parser that is at the declared end has seen all of them). `OpenedInv` and `FramesInv` keep the cursor inside the data.

`PositionIsReal` is about one moment; `IsTheDevice` adds what makes it last: an output that has run empty has no fraction left, and one that stands lets no time pass.
`PlayedIs` and `MoreConsumed` say that time counted in one piece or in many gives the same frames and the same fraction, up to the moment the buffer is empty and the fraction is dropped.

`PlayInv` says that there are three cuts (`Cut`): the frames from the first to be heard up to the first cut were heard, those up to the second wait in the block, those up to the third in the packet, which ends at the cursor.
It carries the exactness of a seek along: as long as nothing is kept every frame behind is before the boundary, and the first that is kept is not; each block has the time of its first
frame (`TimeFits`). A byte is its place, so that the bytes follow without gap is a statement on sequences of consecutive numbers (`Stretch`, `StretchJoin`, `StretchEnd`). Decoding is the hard step: `TrimmedBlock`
reads the three cases of the trimming off `TrimmingIsExact`, for a boundary that may lie before, inside or behind the block.

### Only model-checked

All liveness, which the prover cannot treat: `ShutdownReturns`, `RequestsAreAnswered`, `FailedWorkerIsRetired`, `EveryCallReturns`, `PlaybackEnds`, `Drains`, `Finishes`, `PlaysToTheEnd`.
Every invariant and every other action property of a passing run is stated by a theorem, `OldWorkIsHarmless` for engines without panics, the four of WAV playback for coordinated holders of the file.

## 6. Findings

1. **The failure of an old session can end the new one** (`stale_panic`). `Stop` opens epoch *e*; the next `Prepare` keeps *e*. If the worker of the stopped session has panicked, the join of that `Stop` fails and the effect loop reports `Failed` with *e*. A controller that is already preparing at *e* takes it for its own, goes to `Error` and tears the new session down. `docs/epoch.md:86` promises that the result of old work does not pollute the new state.
2. **An undisturbed shutdown may be reported unclean** (`clean_shutdown`). The control thread exits as soon as the `Release` result is queued. If the worker sends feedback afterwards, the send fails and it exits; a `Play`, `Pause` or `Seek` queued before the `Release` then fails, its own feedback cannot be sent either, and the effect loop returns `FeedbackDisconnected` without executing `Release`. `is_clean` is false and `NativePlayer::release` answers `ShutdownFailed`. Nothing leaks (`WorkersAreOwned`), the report is what is wrong.
3. **The audio position is read twice per step** (`av_position`). The comment at `moonegg-core/src/pipeline/playback.rs:640` says that one observation serves stall, recovery and clock; line 642 reads it, and `observe_audio_clock` on line 643 reads it again for the snapshot. The other properties hold with both readings.

Two more observations have no run of their own.

**A read of the shared file is not coordinated with anybody.** `moonegg-android/src/file_source.rs:11` says that operations which depend on the offset of the duplicated
descriptor need coordination. `BoundedReader::read` seeks (`source.rs:75`) and reads (`source.rs:77`) in two system calls, without a lock and without a read at a position. Whoever else
uses the open file, the owner of the original descriptor or a second player made from it, can move the offset in between, and the player takes its bytes from there. The model has that step:
with `Coordinated = FALSE` in `WavPlaybackMC.cfg` TLC finds `LayoutIsTheFile` violated (`Open`, `SeekBeforeRead`, `OthersMove`, `ReadSome`, `ReadRiff`: a right file is refused) and, checked alone,
`HeardIsTheData` (the same between the two calls of `read_packet`: a packet of wrong samples). The code leaves the coordination to its caller (`docs/fd 的简单知识点.md:35`: after the call,
Rust alone reads), and every statement here about WAV playback holds under that condition.

**The order of the joins.** `engine.rs:40` joins the control
thread first, `docs/Worker 生命周期.md:266` says the effect thread is joined first. `ShutdownReturns` and `OwnerContract` hold with the order of the code.

## 7. What is left out, and why

* Payloads: durations, positions, error values and descriptors do not influence control.
* `EventsDisconnected`: the engine owns the event receiver until after both joins. `ResultsDisconnected` and the worker's `Disconnected` branch: the other ends live longer than the loops that would notice.
* Panics of the control and effect threads, and of the pipeline outside a worker.
* `ShutdownReport::release_sent`, false whenever the user had released before.
* `WorkerGroup` (`runtime/worker.rs`) and `coordinate_video_frame` (`pipeline/coordinator.rs`), which playback does not use.
* The order of the steps in the pipeline factories, which no other thread sees, and their choice of tracks. The track probe: it runs once, before playback, and reads what the system says.
* In `AvPipeline`: packets of unequal length, gaps and reordering of frames; the extrapolation of a clock snapshot by its age; how long the worker sleeps (`retry_delay`, the wait a video frame asks for), which decides when, never what; metrics; durations and track selection at construction.
* A seek that fails halfway leaves branches at different epochs in the code; the worker drops the pipeline on every error, so `Fail` stands for it.
* In `SurfaceCodec`: frames that leave the codec in another order than they went in (tracks with B-frames), and packets whose times are not in order: in such a track a leading picture with a time below the first key frame's, when that is not above zero, would be refused as `UnsupportedInputTimestamp`. `INFO_OUTPUT_BUFFERS_CHANGED`, which changes nothing. Nanoseconds and the time base of the track.
* In `AudioCodec`: two selected tracks, which the system interleaves (`AvPipeline` leaves the order open); the parsing of formats and the conversion of bytes to samples, which keep no state and whose refusals are failures.
* In media time: `Rounding::Nearest`, which only tests use, and overflow, which is an error in every caller and ends in `Fail`.
* In `WavSource`: other holders of the file who move its offset between the two system calls of a read (`Coordinated`, section 6): the properties of WAV playback and their theorems assume that they do not. The fields of the format chunk other than the channels, which are one good or bad value; `SeekFrom::Current` and `End`, which the demuxer uses only to ask where it is and how long the region is.
* In `PlayerBridge`: argument checks that return before the lock, the translation of commands and events, what a poisoned mutex answers (no call panics while it holds the lock).
* Metrics, errors, the port traits and the example: declarations and a demonstration.

## 8. Plan

Modelled, checked and, where marked *, proved in part:
`PlaybackRuntime`*, `AvPipeline`*, `SurfaceCodec`*, `AudioCodec`*, `AudioOutput`*, `FrameTimes`*, `WavPlayback`*, `PlayerBridge`*.

Every safety property that a passing run checks is stated by a theorem. Left, in order:

1. The safety half of the liveness properties, which needs neither fairness nor `ENABLED`: that a shutdown in progress never goes
   back, and what is left for it to do only shrinks (`ShutdownReturns`); that a drain never forgets a packet (`Drains`, `PlaysToTheEnd`).
2. When a shutdown is clean: that nothing but the race of finding 2, a failed join or a lost thread makes `is_clean` false.
