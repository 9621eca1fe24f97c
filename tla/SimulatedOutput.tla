--------------------------- MODULE SimulatedOutput ---------------------------
(***************************************************************************)
(* SimulatedAudioOutput (backends/simulated_audio.rs): an audio output     *)
(* without a device.  It works out what a device would have played only    *)
(* when it is called, from the time since the call before, and carries the *)
(* fraction of a frame over.  Beside it runs the device it stands for,     *)
(* which plays on its own, frame by frame.                                 *)
(***************************************************************************)
EXTENDS FrameTimes, FiniteSetsExt

CONSTANTS
    CapacityFrames, \* capacity_frames
    MaxElapsed      \* time that may pass between two calls

ASSUME CapacityAssumption == CapacityFrames \in Nat \ {0}
ASSUME MaxElapsedAssumption == MaxElapsed \in Nat \ {0}

VARIABLES
    output, \* SimulatedAudioOutput; `running` and `elapsed` stand for last_update
    real    \* the device that plays in real time

NewOutput ==
    [buffered |-> 0, played |-> 0, running |-> FALSE, elapsed |-> 0, remainder |-> 0]

NewDevice == [buffered |-> 0, played |-> 0, fraction |-> 0]

(* Mutant: an output that has run empty keeps its fraction. *)
UpdatedKeepingRemainder(o, rate) ==
    LET scaled == o.elapsed * rate + o.remainder
        consumed == Min({scaled \div NanosPerSecond, o.buffered})
    IN  IF ~o.running
        THEN o
        ELSE [o EXCEPT !.buffered = @ - consumed, !.played = @ + consumed, !.elapsed = 0,
                       !.remainder = scaled % NanosPerSecond]

(* Mutant: the fraction of a frame is lost with every call. *)
UpdatedWithoutRemainder(o, rate) ==
    LET due == (o.elapsed * rate) \div NanosPerSecond
        consumed == Min({due, o.buffered})
    IN  IF ~o.running
        THEN o
        ELSE [o EXCEPT !.buffered = @ - consumed, !.played = @ + consumed, !.elapsed = 0]

(***************************************************************************)
(* update: the frames that were due, as far as there were any; an output   *)
(* that has run empty starts its next frame anew.                          *)
(***************************************************************************)
Updated(o, rate) ==
    LET scaled == o.elapsed * rate + o.remainder
        consumed == Min({scaled \div NanosPerSecond, o.buffered})
    IN  IF ~o.running
        THEN o
        ELSE [o EXCEPT !.buffered = @ - consumed, !.played = @ + consumed, !.elapsed = 0,
                       !.remainder = IF consumed = o.buffered THEN 0 ELSE scaled % NanosPerSecond]

(* submit: all of a block or, under backpressure, nothing of it. *)
HasRoom(o, frames) == frames <= CapacityFrames - o.buffered

Submitted(o, frames) == [o EXCEPT !.buffered = @ + frames]

Started(o) == IF o.running THEN o ELSE [o EXCEPT !.running = TRUE, !.elapsed = 0]

Paused(o, rate) == [Updated(o, rate) EXCEPT !.running = FALSE, !.elapsed = 0]

Flushed(o, rate) == [Updated(o, rate) EXCEPT !.buffered = 0, !.remainder = 0]

(* A unit of time: the output does nothing, the device may play. *)
Passed(o) == IF o.running THEN [o EXCEPT !.elapsed = @ + 1] ELSE o

Played(d, rate) ==
    LET scaled == d.fraction + rate
        consumed == Min({scaled \div NanosPerSecond, d.buffered})
    IN  [buffered |-> d.buffered - consumed, played |-> d.played + consumed,
         fraction |-> IF consumed = d.buffered THEN 0 ELSE scaled % NanosPerSecond]

TimePasses(rate) ==
    /\ output.elapsed < MaxElapsed
    /\ output' = Passed(output)
    /\ real' = IF output.running THEN Played(real, rate) ELSE real

(***************************************************************************)
(* Whenever it is asked, the output tells the position of a device that    *)
(* has been playing all the time: however seldom it is called, whatever    *)
(* ran empty, was paused or flushed in between, it neither gains nor loses *)
(* a frame.                                                                *)
(***************************************************************************)
LazyIsReal(rate) ==
    /\ Updated(output, rate).played = real.played
    /\ Updated(output, rate).buffered = real.buffered

==============================================================================
