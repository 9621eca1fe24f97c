-------------------------- MODULE AvPipelineProofs --------------------------
(***************************************************************************)
(* For tracks of every length, queues, codecs and devices of every size,   *)
(* every tolerance of the A/V decision and every number of seeks: the      *)
(* pipeline never fails by itself, no packet is lost, doubled or           *)
(* reordered, the audio clock tells what is heard, nothing is over too     *)
(* early or heard too early, and media time never runs backward.           *)
(***************************************************************************)
EXTENDS AvPipeline, SequenceTheorems, TLAPS

-----------------------------------------------------------------------------
(* The contents of a branch *)

(* The numbers in q begin at n and go on without gap. *)
Run(q, n) == \A i \in DOMAIN q : q[i] = n + i - 1

Filled(n) == IF n = None THEN 0 ELSE 1

(***************************************************************************)
(* What the branch holds, from the frame back to the queue, are the        *)
(* numbers from n to m - 1; what is decoded, accepted, pending and queued  *)
(* begins at d, a, i and q.                                                *)
(***************************************************************************)
Placed(b, n, d, a, i, q, m) ==
    /\ d = n + Filled(b.frame)
    /\ a = d + Len(b.decoded)
    /\ i = a + Len(b.accepted)
    /\ q = i + Filled(b.input)
    /\ m = q + Len(b.queue)
    /\ b.frame # None => b.frame = n
    /\ Run(b.decoded, d)
    /\ Run(b.accepted, a)
    /\ b.input # None => b.input = i
    /\ Run(b.queue, q)

Contents(b, n, m) == \E d, a, i, q \in Nat : Placed(b, n, d, a, i, q, m)

(* The end of the stream is in the branch and has not left it. *)
HoldsEnd(b, eos) == b.input = eos \/ b.phase = "Draining"

(* The end is submitted behind the last packet, comes out last, and is no frame. *)
Staged(b, eos) ==
    /\ b.frame # eos
    /\ b.input = eos => b.phase = "InputEnded" /\ b.queue = <<>>
    /\ b.phase \in {"Draining", "DecoderDrained"} => b.input = None /\ b.queue = <<>>
    /\ b.phase = "DecoderDrained" =>
          b.frame = None /\ b.decoded = <<>> /\ b.accepted = <<>>

(***************************************************************************)
(* A branch of a track of eos packets whose next frame to leave is n and   *)
(* whose next packet to come is m.                                         *)
(***************************************************************************)
WellFilled(b, n, m, eos) ==
    /\ b \in Branches(eos)
    /\ Len(b.queue) <= QueueCapacity
    /\ Contents(b, n, IF HoldsEnd(b, eos) THEN eos + 1 ELSE m)
    /\ Staged(b, eos)
    /\ b.phase # "Feeding" => m = eos

-----------------------------------------------------------------------------
(* The inductive invariant *)

Waiting(t) == IF pending.track = t THEN 1 ELSE 0

(* The next packet of track t to enter its branch. *)
NextIn(t) == source[t] - Waiting(t)

BranchesAreFilled ==
    /\ WellFilled(audio, done["audio"], NextIn("audio"), AudioLength)
    /\ withVideo => WellFilled(video, done["video"], NextIn("video"), VideoLength)

(* The source, the pending packet and the branches are of one epoch. *)
SourceAgrees ==
    /\ audio.epoch = epoch /\ (withVideo => video.epoch = epoch)
    /\ pending # NoPacket =>
          /\ ~sourceEnded
          /\ pending.epoch = epoch
          /\ pending.number + 1 = source[pending.track]
    /\ IF sourceEnded
         THEN \A t \in Tracks : source[t] = Length[t]
         ELSE audio.phase = "Feeding" /\ (withVideo => video.phase = "Feeding")
    /\ pc \in {"position", "video"} => withVideo

(* The device holds what was submitted and not played, behind the boundary. *)
Heard(frame, first, buffer, next) ==
    /\ frame # None => frame >= mapping.boundary
    /\ IF first = None
         THEN buffer = <<>> /\ device.played = mapping.base
         ELSE /\ first >= mapping.boundary
              /\ mapping.base <= device.played
              /\ Run(buffer, first + device.played - mapping.base)
              /\ first + device.played - mapping.base + Len(buffer) = next

DeviceAgrees == Heard(audio.frame, mapping.first, device.buffer, done["audio"])

(* Readings of the audio position lie in their order. *)
PositionsAgree ==
    /\ tracker.last <= device.played
    /\ pc = "video" =>
          /\ tracker.last <= reading.position
          /\ reading.position <= device.played
    /\ clock.phase = "Stalled" => tracker.last <= clock.stalledAt

EndsAgree ==
    /\ clock.phase = "Ended" => AudioFinished
    /\ reading.finished => AudioFinished
    /\ pc \notin {"video", "closed"} => ~reading.finished
    /\ reported => AudioFinished /\ (withVideo => IsDrained(video))

(* A frame that waits to be shown lies behind the boundary. *)
FramesAgree == video.frame # None => withVideo /\ video.frame >= mapping.boundary

PipelineInv ==
    /\ TypeOK
    /\ pc # "impossible"
    /\ BranchesAreFilled
    /\ SourceAgrees
    /\ DeviceAgrees
    /\ PositionsAgree
    /\ EndsAgree
    /\ FramesAgree

-----------------------------------------------------------------------------
(* Runs of numbers *)

LEMMA RunEmpty == ASSUME NEW n PROVE Run(<<>>, n)
BY DEF Run

LEMMA RunTail ==
    ASSUME NEW S, NEW q \in Seq(S), NEW n \in Nat, Run(q, n), q # <<>>
    PROVE  /\ Head(q) = n /\ Run(Tail(q), n + 1)
           /\ Head(q) \in S /\ Tail(q) \in Seq(S)
           /\ Len(q) > 0 /\ Len(Tail(q)) = Len(q) - 1
           /\ Len(q) = 1 => Tail(q) = <<>>
<1>1. Len(q) \in Nat /\ Len(q) > 0 /\ Len(Tail(q)) = Len(q) - 1 /\ Tail(q) \in Seq(S)
  OBVIOUS
<1>2. \A i \in 1 .. Len(q) : q[i] = n + i - 1
  BY DEF Run
<1>3. ASSUME NEW i \in 1 .. Len(Tail(q)) PROVE Tail(q)[i] = (n + 1) + i - 1
  <2>1. Tail(q)[i] = q[i + 1] /\ i + 1 \in 1 .. Len(q)
    BY <1>1, <1>3
  <2> QED
    BY <1>2, <2>1
<1>4. Run(Tail(q), n + 1)
  BY <1>1, <1>3 DEF Run
<1>5. Head(q) = n
  BY <1>1, <1>2
<1>6. Len(q) = 1 => Tail(q) = <<>>
  <2>1. Len(q) = 1 => Len(Tail(q)) = 0
    BY <1>1
  <2>2. \A r \in Seq(S) : Len(r) = 0 => r = <<>>
    OBVIOUS
  <2> QED
    BY <1>1, <2>1, <2>2
<1>7. Head(q) \in S
  OBVIOUS
<1> QED
  BY <1>1, <1>4, <1>5, <1>6, <1>7

(* The same for what a branch holds. *)
LEMMA NumbersTail ==
    ASSUME NEW eos \in Nat, NEW q \in Seq(0 .. eos), NEW n \in Nat, Run(q, n), q # <<>>
    PROVE  /\ Head(q) = n /\ n \in 0 .. eos /\ Run(Tail(q), n + 1)
           /\ Tail(q) \in Seq(0 .. eos)
           /\ Len(q) > 0 /\ Len(Tail(q)) = Len(q) - 1
           /\ Len(q) = 1 => Tail(q) = <<>>
<1>1. /\ Head(q) = n /\ Run(Tail(q), n + 1)
      /\ Head(q) \in 0 .. eos /\ Tail(q) \in Seq(0 .. eos)
      /\ Len(q) > 0 /\ Len(Tail(q)) = Len(q) - 1
      /\ Len(q) = 1 => Tail(q) = <<>>
  BY RunTail
<1> QED
  BY <1>1

LEMMA RunAppend ==
    ASSUME NEW S, NEW q \in Seq(S), NEW n \in Int, Run(q, n), NEW x \in S, x = n + Len(q)
    PROVE  Run(Append(q, x), n) /\ Len(Append(q, x)) = Len(q) + 1
<1>1. Len(q) \in Nat /\ Len(Append(q, x)) = Len(q) + 1 /\ Append(q, x) \in Seq(S)
  OBVIOUS
<1>2. ASSUME NEW i \in 1 .. Len(q) + 1 PROVE Append(q, x)[i] = n + i - 1
  <2>1. CASE i = Len(q) + 1
    BY <1>1, <2>1
  <2>2. CASE i \in 1 .. Len(q)
    BY <1>1, <2>2 DEF Run
  <2> QED
    BY <1>1, <2>1, <2>2
<1> QED
  BY <1>1, <1>2 DEF Run

LEMMA NumbersAppend ==
    ASSUME NEW eos \in Nat, NEW q \in Seq(0 .. eos), NEW n \in Nat, Run(q, n),
           NEW x \in 0 .. eos, x = n + Len(q)
    PROVE  Run(Append(q, x), n) /\ Len(Append(q, x)) = Len(q) + 1 /\ Append(q, x) \in Seq(0 .. eos)
BY RunAppend

(* Two runs that meet are one. *)
LEMMA RunConcat ==
    ASSUME NEW S, NEW p \in Seq(S), NEW q \in Seq(S), NEW n \in Int,
           Run(p, n), Run(q, n + Len(p))
    PROVE  /\ p \o q \in Seq(S)
           /\ Run(p \o q, n)
           /\ Len(p \o q) = Len(p) + Len(q)
<1>1. /\ Len(p) \in Nat /\ Len(q) \in Nat
      /\ Len(p \o q) = Len(p) + Len(q)
      /\ p \o q \in Seq(S)
  OBVIOUS
<1>2. ASSUME NEW i \in 1 .. Len(p) + Len(q) PROVE (p \o q)[i] = n + i - 1
  <2>1. CASE i <= Len(p)
    BY <1>1, <2>1 DEF Run
  <2>2. CASE i > Len(p)
    <3>1. (p \o q)[i] = q[i - Len(p)] /\ i - Len(p) \in 1 .. Len(q)
      BY <1>1, <2>2
    <3> QED
      BY <1>1, <3>1 DEF Run
  <2> QED
    BY <1>1, <2>1, <2>2
<1> QED
  BY <1>1, <1>2 DEF Run

LEMMA NumbersConcat ==
    ASSUME NEW eos \in Nat, NEW p \in Seq(0 .. eos), NEW q \in Seq(0 .. eos),
           NEW n \in Nat, NEW k \in Int, Run(p, n), Run(q, k), k = n + Len(p)
    PROVE  /\ p \o q \in Seq(0 .. eos)
           /\ Run(p \o q, n)
           /\ n + Len(p \o q) = k + Len(q)
<1>1. Len(p) \in Nat /\ Len(q) \in Nat
  OBVIOUS
<1>2. p \o q \in Seq(0 .. eos) /\ Run(p \o q, n) /\ Len(p \o q) = Len(p) + Len(q)
  BY RunConcat
<1> QED
  BY <1>1, <1>2

(* A single number, when it is there, is a run of one. *)
LEMMA RunOne ==
    ASSUME NEW S, NEW x \in S \cup {None}, S \subseteq Int, NEW n, x # None => x = n
    PROVE  One(x) \in Seq(S) /\ Len(One(x)) = Filled(x) /\ Run(One(x), n)
<1>1. CASE x = None
  BY <1>1 DEF One, Filled, Run
<1>2. CASE x # None
  <2>1. x \in S /\ One(x) = <<x>> /\ x = n
    BY <1>2 DEF One
  <2>2. <<x>> \in Seq(S) /\ Len(<<x>>) = 1 /\ <<x>>[1] = x
    BY <2>1
  <2> QED
    BY <1>2, <2>1, <2>2 DEF Filled, Run
<1> QED
  BY <1>1, <1>2

-----------------------------------------------------------------------------
(* One operation of a branch *)

(* Everything a branch holds has its type, and is counted. *)
LEMMA BranchTypes ==
    ASSUME NEW eos \in Nat, NEW b \in Branches(eos)
    PROVE  /\ b.epoch \in Nat /\ b.phase \in Phases
           /\ b.queue \in Seq(0 .. eos) /\ b.accepted \in Seq(0 .. eos)
           /\ b.decoded \in Seq(0 .. eos)
           /\ b.input \in 0 .. eos \cup {None} /\ b.frame \in 0 .. eos \cup {None}
           /\ Len(b.queue) \in Nat /\ Len(b.accepted) \in Nat /\ Len(b.decoded) \in Nat
           /\ Filled(b.input) \in 0 .. 1 /\ Filled(b.frame) \in 0 .. 1
BY DEF Branches, Filled, None

(* A change of one of its parts leaves a branch a branch. *)
LEMMA BranchUpdates ==
    ASSUME NEW eos \in Nat, NEW b \in Branches(eos)
    PROVE  /\ \A x \in None .. eos : /\ [b EXCEPT !.frame = x] \in Branches(eos)
                                    /\ [b EXCEPT !.input = x] \in Branches(eos)
           /\ \A q \in Seq(0 .. eos) : /\ [b EXCEPT !.queue = q] \in Branches(eos)
                                       /\ [b EXCEPT !.accepted = q] \in Branches(eos)
                                       /\ [b EXCEPT !.decoded = q] \in Branches(eos)
           /\ \A phase \in Phases : [b EXCEPT !.phase = phase] \in Branches(eos)
BY DEF Branches

LEMMA NoneIsNoNumber == \A eos \in Nat : None \in None .. eos /\ None \notin 0 .. eos
BY DEF None

LEMMA NewBranchFilled ==
    ASSUME NEW eos \in Nat, NEW m \in 0 .. eos, NEW e \in Nat
    PROVE  WellFilled(NewBranch(e), m, m, eos)
<1> DEFINE b == NewBranch(e)
<1>1. b \in Branches(eos)
  BY DEF NewBranch, Branches, Phases, None
<1>2. Placed(b, m, m, m, m, m, m) /\ ~HoldsEnd(b, eos)
  BY RunEmpty DEF NewBranch, Placed, HoldsEnd, Filled, None
<1>3. Staged(b, eos) /\ Len(b.queue) <= QueueCapacity /\ b.phase = "Feeding"
  BY QueueCapacityAssumption DEF NewBranch, Staged, None
<1>4. Contents(b, m, m)
  BY <1>2 DEF Contents
<1> QED
  BY <1>1, <1>2, <1>3, <1>4 DEF WellFilled

(* The frame is the next one to leave, and it leaves. *)
LEMMA FrameLeaves ==
    ASSUME NEW eos \in Nat, NEW m \in 0 .. eos, NEW n \in Nat, NEW b \in Branches(eos),
           WellFilled(b, n, m, eos), b.frame # None
    PROVE  /\ b.frame = n /\ n < eos
           /\ WellFilled([b EXCEPT !.frame = None], n + 1, m, eos)
<1> DEFINE c == [b EXCEPT !.frame = None]
           upto == IF HoldsEnd(b, eos) THEN eos + 1 ELSE m
<1>1. Contents(b, n, upto) /\ Staged(b, eos) /\ upto \in Nat /\ upto <= eos + 1
  BY DEF WellFilled
<1>2. PICK d, a, i, q \in Nat : Placed(b, n, d, a, i, q, upto)
  BY <1>1 DEF Contents
<1>3. c \in Branches(eos)
  BY BranchUpdates, NoneIsNoNumber
<1>4. /\ c.frame = None /\ c.phase = b.phase /\ c.queue = b.queue /\ c.input = b.input
      /\ c.accepted = b.accepted /\ c.decoded = b.decoded
  BY DEF Branches
<1>5. b.frame = n /\ b.frame # eos /\ d = n + 1
  BY <1>1, <1>2 DEF Placed, Staged, Filled
<1>6. n < eos
  BY <1>1, <1>2, <1>5, BranchTypes DEF Placed, Branches
<1>7. Placed(c, n + 1, d, a, i, q, upto)
  BY <1>2, <1>4, <1>5 DEF Placed, Filled, Branches
<1>8. Contents(c, n + 1, upto)
  BY <1>7 DEF Contents
<1>9. Staged(c, eos) /\ HoldsEnd(c, eos) = HoldsEnd(b, eos)
  BY <1>1, <1>4, NoneIsNoNumber DEF Staged, HoldsEnd
<1> QED
  BY <1>3, <1>4, <1>5, <1>6, <1>8, <1>9 DEF WellFilled

(* What the decoder offers next is the next number; the end comes out last. *)
LEMMA OutputIsNext ==
    ASSUME NEW eos \in Nat, NEW m \in 0 .. eos, NEW n \in Nat, NEW b \in Branches(eos),
           WellFilled(b, n, m, eos), b.frame = None, HasOutput(b)
    PROVE  /\ Head(b.decoded) = n /\ n \in 0 .. eos
           /\ Run(Tail(b.decoded), n + 1)
           /\ Tail(b.decoded) \in Seq(0 .. eos) /\ Len(Tail(b.decoded)) = Len(b.decoded) - 1
           /\ TakeOutput(b) \in Branches(eos)
           /\ n = eos => b.phase = "Draining" /\ Tail(b.decoded) = <<>> /\ b.accepted = <<>>
<1> DEFINE upto == IF HoldsEnd(b, eos) THEN eos + 1 ELSE m
<1>1. /\ Contents(b, n, upto) /\ upto \in Nat
      /\ upto > eos => upto = eos + 1 /\ HoldsEnd(b, eos)
  BY DEF WellFilled
<1> HIDE DEF upto
<1>2. PICK d, a, i, q \in Nat : Placed(b, n, d, a, i, q, upto)
  BY <1>1 DEF Contents
<1>3. d = n /\ b.decoded # <<>> /\ b.decoded \in Seq(0 .. eos) /\ Run(b.decoded, n)
  BY <1>2, BranchTypes DEF Placed, HasOutput, Filled
<1>4. /\ Head(b.decoded) = n /\ Run(Tail(b.decoded), n + 1)
      /\ Tail(b.decoded) \in Seq(0 .. eos) /\ n \in 0 .. eos
      /\ Len(Tail(b.decoded)) = Len(b.decoded) - 1
  BY <1>3, NumbersTail
<1>5. Len(b.decoded) > 0 /\ (Len(b.decoded) = 1 => Tail(b.decoded) = <<>>)
  BY <1>3, NumbersTail
<1>6. TakeOutput(b) \in Branches(eos)
  BY <1>4, BranchUpdates DEF TakeOutput
<1>7. ASSUME n = eos PROVE b.phase = "Draining" /\ Tail(b.decoded) = <<>> /\ b.accepted = <<>>
  <2> DEFINE decoded == Len(b.decoded)
             accepted == Len(b.accepted)
             queued == Len(b.queue)
             input == Filled(b.input)
  <2>1. upto = eos + decoded + accepted + input + queued
    BY <1>2, <1>3, <1>7, BranchTypes DEF Placed, Branches
  <2>2. decoded \in Nat /\ accepted \in Nat /\ queued \in Nat /\ input \in 0 .. 1 /\ decoded > 0
    BY <1>5, BranchTypes
  <2> HIDE DEF decoded, accepted, queued, input
  <2>3. upto > eos
    BY <2>1, <2>2
  <2>4. upto = eos + 1 /\ HoldsEnd(b, eos)
    BY <1>1, <2>3
  <2>5. decoded = 1 /\ accepted = 0 /\ input = 0
    BY <2>1, <2>2, <2>4
  <2> USE DEF decoded, accepted, input
  <2>6. b.input # eos
    BY <2>5 DEF Filled, None
  <2>7. b.accepted = <<>>
    BY <2>5, BranchTypes DEF Branches
  <2> QED
    BY <1>5, <2>4, <2>5, <2>6, <2>7 DEF HoldsEnd
<1> QED
  BY <1>4, <1>6, <1>7

(* The end of the stream leaves the decoder, and the branch is drained. *)
LEMMA EndLeaves ==
    ASSUME NEW eos \in Nat, NEW m \in 0 .. eos, NEW n \in Nat, NEW b \in Branches(eos),
           WellFilled(b, n, m, eos), b.frame = None, HasOutput(b), Head(b.decoded) = eos
    PROVE  WellFilled([TakeOutput(b) EXCEPT !.phase = "DecoderDrained"], n, m, eos)
<1> DEFINE t == TakeOutput(b)
           c == [t EXCEPT !.phase = "DecoderDrained"]
<1>1. /\ n = eos /\ t \in Branches(eos) /\ b.phase = "Draining"
      /\ Tail(b.decoded) = <<>> /\ b.accepted = <<>>
  BY OutputIsNext
<1>2. c \in Branches(eos)
  BY <1>1, BranchUpdates DEF Phases
<1>3. /\ c.phase = "DecoderDrained" /\ c.frame = None /\ c.decoded = <<>> /\ c.accepted = <<>>
      /\ c.input = b.input /\ c.queue = b.queue
  BY <1>1 DEF TakeOutput, Branches
<1>4. /\ m = eos /\ b.input = None /\ b.queue = <<>> /\ Len(b.queue) <= QueueCapacity
  BY <1>1 DEF WellFilled, Staged
<1>5. ~HoldsEnd(c, eos)
  BY <1>3, <1>4, NoneIsNoNumber DEF HoldsEnd
<1>6. Placed(c, n, n, n, n, n, m)
  BY <1>1, <1>3, <1>4, RunEmpty DEF Placed, Filled
<1>7. Contents(c, n, m)
  BY <1>6 DEF Contents
<1>8. Staged(c, eos)
  BY <1>3, <1>4, NoneIsNoNumber DEF Staged
<1> QED
  BY <1>2, <1>3, <1>4, <1>5, <1>7, <1>8 DEF WellFilled

(* Any other output becomes the frame, or is left out. *)
LEMMA OutputLeaves ==
    ASSUME NEW eos \in Nat, NEW m \in 0 .. eos, NEW n \in Nat, NEW b \in Branches(eos),
           WellFilled(b, n, m, eos), b.frame = None, HasOutput(b), Head(b.decoded) # eos
    PROVE  /\ WellFilled([TakeOutput(b) EXCEPT !.frame = n], n, m, eos)
           /\ WellFilled(TakeOutput(b), n + 1, m, eos)
<1> DEFINE t == TakeOutput(b)
           c == [t EXCEPT !.frame = n]
           upto == IF HoldsEnd(b, eos) THEN eos + 1 ELSE m
           rest == Tail(b.decoded)
<1>1. /\ n \in 0 .. eos /\ n # eos /\ Run(rest, n + 1)
      /\ rest \in Seq(0 .. eos) /\ Len(rest) = Len(b.decoded) - 1
      /\ t \in Branches(eos)
  BY OutputIsNext
<1>2. n \in None .. eos /\ n # None
  BY <1>1 DEF None
<1>3. c \in Branches(eos)
  BY <1>1, <1>2, BranchUpdates
<1>4. /\ t.phase = b.phase /\ t.frame = None /\ t.decoded = rest
      /\ t.accepted = b.accepted /\ t.input = b.input /\ t.queue = b.queue
  BY DEF TakeOutput, Branches
<1>5. /\ c.phase = b.phase /\ c.frame = n /\ c.decoded = rest
      /\ c.accepted = b.accepted /\ c.input = b.input /\ c.queue = b.queue
  BY <1>1, <1>4 DEF Branches
<1>6. Contents(b, n, upto) /\ Staged(b, eos) /\ upto \in Nat
  BY DEF WellFilled
<1> HIDE DEF upto, rest, t, c
<1>7. PICK d, a, i, q \in Nat : Placed(b, n, d, a, i, q, upto)
  BY <1>6 DEF Contents
<1>8. d = n /\ a = n + 1 + Len(rest)
  BY <1>1, <1>7 DEF Placed, Filled, Branches
<1>9. Filled(t.frame) = 0 /\ n + 1 = n + 1 + 0
  BY <1>4 DEF Filled
<1>10. Placed(t, n + 1, n + 1, a, i, q, upto)
  BY <1>1, <1>4, <1>7, <1>8, <1>9 DEF Placed
<1>11. Placed(c, n, n + 1, a, i, q, upto)
  BY <1>1, <1>2, <1>5, <1>7, <1>8 DEF Placed, Filled, Branches
<1>12. Contents(t, n + 1, upto) /\ Contents(c, n, upto)
  BY <1>10, <1>11 DEF Contents
<1>13. b.phase # "DecoderDrained"
  BY <1>6 DEF Staged, HasOutput
<1>14. /\ Staged(t, eos) /\ HoldsEnd(t, eos) = HoldsEnd(b, eos)
       /\ Staged(c, eos) /\ HoldsEnd(c, eos) = HoldsEnd(b, eos)
  BY <1>1, <1>4, <1>5, <1>6, <1>13, NoneIsNoNumber DEF Staged, HoldsEnd
<1> QED
  BY <1>1, <1>3, <1>4, <1>5, <1>12, <1>14 DEF WellFilled, upto, t, c

(* A codec that turns an input into an output moves it on. *)
LEMMA CodecMovesOn ==
    ASSUME NEW eos \in Nat, NEW m \in 0 .. eos, NEW n \in Nat, NEW b \in Branches(eos),
           WellFilled(b, n, m, eos), CanDecode(b)
    PROVE  WellFilled(Decode(b), n, m, eos)
<1> DEFINE in == b.accepted
           out == b.decoded
           c == Decode(b)
           upto == IF HoldsEnd(b, eos) THEN eos + 1 ELSE m
<1>1. Contents(b, n, upto) /\ Staged(b, eos) /\ upto \in Nat
  BY DEF WellFilled
<1>2. PICK d, a, i, q \in Nat : Placed(b, n, d, a, i, q, upto)
  BY <1>1 DEF Contents
<1>3. /\ in # <<>> /\ in \in Seq(0 .. eos) /\ Run(in, a) /\ Len(in) \in Nat
      /\ out \in Seq(0 .. eos) /\ Run(out, d) /\ Len(out) \in Nat
      /\ a = d + Len(out) /\ i = a + Len(in)
  BY <1>2, BranchTypes DEF Placed, CanDecode
<1> HIDE DEF in, out
<1>4. /\ Head(in) = a /\ a \in 0 .. eos /\ Run(Tail(in), a + 1)
      /\ Tail(in) \in Seq(0 .. eos) /\ Len(Tail(in)) = Len(in) - 1
  BY <1>3, NumbersTail
<1>5. /\ Run(Append(out, a), d) /\ Len(Append(out, a)) = Len(out) + 1
      /\ Append(out, a) \in Seq(0 .. eos)
  BY <1>3, <1>4, NumbersAppend
<1>6. c = [b EXCEPT !.accepted = Tail(in), !.decoded = Append(out, a)]
  BY <1>4 DEF Decode, in, out
<1>7. c \in Branches(eos)
  BY <1>4, <1>5, <1>6 DEF Branches
<1>8. /\ c.frame = b.frame /\ c.phase = b.phase /\ c.queue = b.queue /\ c.input = b.input
      /\ c.accepted = Tail(in) /\ c.decoded = Append(out, a)
  BY <1>6 DEF Branches
<1>9. a + 1 = d + Len(Append(out, a)) /\ i = a + 1 + Len(Tail(in))
  BY <1>3, <1>4, <1>5
<1> HIDE DEF c, upto
<1>10. Placed(c, n, d, a + 1, i, q, upto)
  BY <1>2, <1>4, <1>5, <1>8, <1>9 DEF Placed
<1>11. Contents(c, n, upto)
  BY <1>10 DEF Contents
<1>12. Staged(c, eos) /\ HoldsEnd(c, eos) = HoldsEnd(b, eos)
  BY <1>1, <1>3, <1>8 DEF Staged, HoldsEnd, in
<1> QED
  BY <1>7, <1>8, <1>11, <1>12 DEF WellFilled, upto, c

(***************************************************************************)
(* The next input is the head of the queue, or the end of the stream when  *)
(* the queue is empty and stays so.                                        *)
(***************************************************************************)
LEMMA InputIsPulled ==
    ASSUME NEW eos \in Nat, NEW m \in 0 .. eos, NEW n \in Nat, NEW b \in Branches(eos),
           WellFilled(b, n, m, eos), b.phase \in {"Feeding", "InputEnded"}
    PROVE  /\ WellFilled(Pull(b, eos), n, m, eos)
           /\ Pull(b, eos).phase = b.phase /\ Pull(b, eos).epoch = b.epoch
           /\ Pull(b, eos).frame = b.frame /\ Pull(b, eos).decoded = b.decoded
<1> DEFINE c == Pull(b, eos)
           queue == b.queue
           upto == IF HoldsEnd(b, eos) THEN eos + 1 ELSE m
<1>1. CASE b.input # None
  BY <1>1 DEF Pull
<1>2. CASE b.input = None
  <2>1. upto = m /\ ~HoldsEnd(b, eos) /\ Contents(b, n, m) /\ Staged(b, eos)
    BY <1>2, NoneIsNoNumber DEF WellFilled, HoldsEnd
  <2>2. PICK d, a, i, q \in Nat : Placed(b, n, d, a, i, q, m)
    BY <2>1 DEF Contents
  <2>3. /\ q = i /\ m = i + Len(queue) /\ Run(queue, i) /\ queue \in Seq(0 .. eos)
        /\ Len(queue) \in Nat /\ Len(queue) <= QueueCapacity
    BY <1>2, <2>2, BranchTypes DEF Placed, Filled, WellFilled, Branches
  <2>4. CASE queue # <<>>
    <3> HIDE DEF queue
    <3>1. /\ Head(queue) = i /\ i \in 0 .. eos /\ Run(Tail(queue), i + 1)
          /\ Tail(queue) \in Seq(0 .. eos)
          /\ Len(queue) > 0 /\ Len(Tail(queue)) = Len(queue) - 1
      BY <2>3, <2>4, NumbersTail
    <3>2. i # eos /\ i \in None .. eos /\ i # None
      BY <2>3, <3>1 DEF None
    <3>3. c = [b EXCEPT !.input = i, !.queue = Tail(queue)]
      BY <1>2, <2>4, <3>1 DEF Pull, queue
    <3>4. c \in Branches(eos)
      BY <3>1, <3>2, <3>3 DEF Branches
    <3>5. /\ c.epoch = b.epoch /\ c.phase = b.phase /\ c.queue = Tail(queue) /\ c.input = i
          /\ c.accepted = b.accepted /\ c.decoded = b.decoded /\ c.frame = b.frame
      BY <3>3 DEF Branches
    <3> HIDE DEF c
    <3>6. Filled(c.input) = 1 /\ m = i + 1 + Len(Tail(queue)) /\ Filled(b.input) = 0
      BY <1>2, <2>3, <3>1, <3>2, <3>5 DEF Filled
    <3>7. Placed(c, n, d, a, i, i + 1, m)
      BY <2>2, <3>1, <3>5, <3>6 DEF Placed
    <3>8. Contents(c, n, m)
      BY <3>7 DEF Contents
    <3>9. Staged(c, eos) /\ ~HoldsEnd(c, eos)
      BY <2>1, <3>2, <3>5 DEF Staged, HoldsEnd
    <3>10. Len(c.queue) <= QueueCapacity
      BY <2>3, <3>1, <3>5, QueueCapacityAssumption
    <3> QED
      BY <3>4, <3>5, <3>8, <3>9, <3>10 DEF WellFilled, c
  <2>5. CASE queue = <<>> /\ b.phase = "InputEnded"
    <3>1. c = [b EXCEPT !.input = eos]
      BY <1>2, <2>5 DEF Pull
    <3>2. eos \in None .. eos /\ eos # None
      BY DEF None
    <3>3. c \in Branches(eos)
      BY <3>1, <3>2 DEF Branches
    <3>4. /\ c.epoch = b.epoch /\ c.phase = b.phase /\ c.queue = <<>> /\ c.input = eos
          /\ c.accepted = b.accepted /\ c.decoded = b.decoded /\ c.frame = b.frame
      BY <2>5, <3>1 DEF Branches
    <3>5. m = eos /\ i = eos
      BY <2>3, <2>5 DEF WellFilled
    <3> HIDE DEF c
    <3>6. Filled(c.input) = 1
      BY <3>2, <3>4 DEF Filled
    <3>7. Len(c.queue) = 0 /\ Run(c.queue, eos + 1)
      BY <3>4, RunEmpty
    <3>8. Placed(c, n, d, a, eos, eos + 1, eos + 1)
      BY <2>2, <3>4, <3>5, <3>6, <3>7 DEF Placed
    <3>9. Contents(c, n, eos + 1)
      BY <3>8 DEF Contents
    <3>10. Staged(c, eos) /\ HoldsEnd(c, eos) /\ Len(c.queue) <= QueueCapacity
      BY <2>1, <2>5, <3>4, <3>7, QueueCapacityAssumption DEF Staged, HoldsEnd
    <3> QED
      BY <3>3, <3>4, <3>5, <3>9, <3>10 DEF WellFilled, c
  <2>6. CASE queue = <<>> /\ b.phase # "InputEnded"
    BY <1>2, <2>6 DEF Pull
  <2> QED
    BY <2>4, <2>5, <2>6
<1> QED
  BY <1>1, <1>2

(* What the decoder accepts moves on; the end of the stream closes the input. *)
LEMMA InputIsOffered ==
    ASSUME NEW eos \in Nat, NEW m \in 0 .. eos, NEW n \in Nat, NEW b \in Branches(eos),
           WellFilled(b, n, m, eos), b.phase \in {"Feeding", "InputEnded"}
    PROVE  /\ WellFilled(Offer(b, eos), n, m, eos)
           /\ b.phase = "Feeding" => Offer(b, eos).phase = "Feeding"
           /\ Offer(b, eos).epoch = b.epoch
           /\ Offer(b, eos).frame = b.frame /\ Offer(b, eos).decoded = b.decoded
<1> DEFINE c == Offer(b, eos)
           x == b.input
           in == b.accepted
           upto == IF HoldsEnd(b, eos) THEN eos + 1 ELSE m
<1>1. CASE x = None \/ DecoderIsFull(b)
  BY <1>1 DEF Offer
<1>2. CASE x # None /\ ~DecoderIsFull(b)
  <2>1. Contents(b, n, upto) /\ Staged(b, eos) /\ upto \in Nat
    BY DEF WellFilled
  <2>2. PICK d, a, i, q \in Nat : Placed(b, n, d, a, i, q, upto)
    BY <2>1 DEF Contents
  <2>3. /\ x \in 0 .. eos /\ x = i /\ Filled(x) = 1 /\ q = i + 1
        /\ in \in Seq(0 .. eos) /\ Len(in) \in Nat /\ Run(in, a) /\ i = a + Len(in)
    BY <1>2, <2>2, BranchTypes DEF Placed, Filled
  <2> DEFINE phase == IF x = eos THEN "Draining" ELSE b.phase
  <2>4. phase \in Phases /\ (b.phase = "Feeding" => phase = "Feeding")
    BY <2>1, BranchTypes DEF Phases, Staged
  <2>5. c = [b EXCEPT !.accepted = Append(in, x), !.input = None, !.phase = phase]
    BY <1>2 DEF Offer
  <2> HIDE DEF phase, in
  <2>6. /\ Run(Append(in, x), a) /\ Len(Append(in, x)) = Len(in) + 1
        /\ Append(in, x) \in Seq(0 .. eos)
    BY <2>3, NumbersAppend
  <2>7. c \in Branches(eos)
    BY <2>4, <2>5, <2>6, NoneIsNoNumber DEF Branches
  <2>8. /\ c.epoch = b.epoch /\ c.phase = phase /\ c.queue = b.queue /\ c.input = None
        /\ c.accepted = Append(in, x) /\ c.decoded = b.decoded /\ c.frame = b.frame
    BY <2>5 DEF Branches
  <2> HIDE DEF c
  <2>9. Filled(c.input) = 0 /\ i + 1 = a + Len(c.accepted) /\ q = i + 1 + 0
    BY <2>3, <2>6, <2>8 DEF Filled
  <2> HIDE DEF upto, x
  <2>10. Placed(c, n, d, a, i + 1, q, upto)
    BY <2>2, <2>6, <2>8, <2>9 DEF Placed
  <2>11. Contents(c, n, upto)
    BY <2>10 DEF Contents
  <2> USE DEF x
  <2>12. HoldsEnd(c, eos) = HoldsEnd(b, eos)
    BY <2>8, NoneIsNoNumber DEF HoldsEnd, phase
  <2>13. Staged(c, eos)
    BY <2>1, <2>8, NoneIsNoNumber DEF Staged, phase
  <2>14. c.phase # "Feeding" => m = eos
    BY <2>1, <2>8 DEF WellFilled, Staged, phase
  <2>15. Len(c.queue) <= QueueCapacity
    BY <2>8 DEF WellFilled
  <2>16. WellFilled(c, n, m, eos)
    BY <2>7, <2>11, <2>12, <2>13, <2>14, <2>15 DEF WellFilled, upto
  <2> QED
    BY <2>4, <2>8, <2>16 DEF c
<1> QED
  BY <1>1, <1>2

(* A branch that goes on: of the same epoch, open if it was, at its end if it was. *)
Follows(b, c) ==
    /\ c.epoch = b.epoch
    /\ b.phase = "Feeding" => c.phase = "Feeding"
    /\ b.phase = "DecoderDrained" => c = b

LEMMA InputIsSubmitted ==
    ASSUME NEW eos \in Nat, NEW m \in 0 .. eos, NEW n \in Nat, NEW b \in Branches(eos),
           WellFilled(b, n, m, eos)
    PROVE  /\ WellFilled(SubmitOneInput(b, eos), n, m, eos)
           /\ Follows(b, SubmitOneInput(b, eos))
           /\ SubmitOneInput(b, eos).frame = b.frame
<1>1. CASE b.phase \in {"Draining", "DecoderDrained"}
  BY <1>1 DEF SubmitOneInput, Follows
<1>2. CASE b.phase \notin {"Draining", "DecoderDrained"}
  <2> DEFINE p == Pull(b, eos)
  <2>1. b.phase \in {"Feeding", "InputEnded"}
    BY <1>2, BranchTypes DEF Phases
  <2>2. /\ WellFilled(p, n, m, eos) /\ p \in Branches(eos)
        /\ p.phase = b.phase /\ p.epoch = b.epoch /\ p.frame = b.frame
    BY <2>1, InputIsPulled DEF WellFilled
  <2> HIDE DEF p
  <2>3. /\ WellFilled(Offer(p, eos), n, m, eos)
        /\ p.phase = "Feeding" => Offer(p, eos).phase = "Feeding"
        /\ Offer(p, eos).epoch = p.epoch /\ Offer(p, eos).frame = p.frame
    BY <2>1, <2>2, InputIsOffered
  <2>4. SubmitOneInput(b, eos) = Offer(p, eos)
    BY <1>2 DEF SubmitOneInput, p
  <2> QED
    BY <2>1, <2>2, <2>3, <2>4 DEF Follows
<1> QED
  BY <1>1, <1>2

(* The next packet enters the queue of a branch that has room. *)
LEMMA PacketIsPushed ==
    ASSUME NEW eos \in Nat, NEW m \in 0 .. eos, NEW n \in Nat, NEW b \in Branches(eos),
           WellFilled(b, n, m, eos), b.phase = "Feeding", m < eos, ~QueueIsFull(b)
    PROVE  /\ WellFilled(Push(b, m), n, m + 1, eos)
           /\ Push(b, m).epoch = b.epoch /\ Push(b, m).phase = b.phase
           /\ Push(b, m).frame = b.frame
<1> DEFINE c == Push(b, m)
           queue == b.queue
<1>1. Staged(b, eos) /\ ~HoldsEnd(b, eos) /\ Contents(b, n, m)
  BY DEF WellFilled, Staged, HoldsEnd
<1>2. PICK d, a, i, q \in Nat : Placed(b, n, d, a, i, q, m)
  BY <1>1 DEF Contents
<1>3. /\ queue \in Seq(0 .. eos) /\ Len(queue) \in Nat /\ Run(queue, q) /\ m = q + Len(queue)
      /\ Len(queue) < QueueCapacity
  BY <1>2, BranchTypes, QueueCapacityAssumption DEF Placed, QueueIsFull
<1>4. c = [b EXCEPT !.queue = Append(queue, m)]
  BY DEF Push
<1> HIDE DEF queue
<1>5. /\ Run(Append(queue, m), q) /\ Len(Append(queue, m)) = Len(queue) + 1
      /\ Append(queue, m) \in Seq(0 .. eos)
  BY <1>3, NumbersAppend
<1>6. c \in Branches(eos)
  BY <1>4, <1>5 DEF Branches
<1>7. /\ c.epoch = b.epoch /\ c.phase = b.phase /\ c.queue = Append(queue, m) /\ c.input = b.input
      /\ c.accepted = b.accepted /\ c.decoded = b.decoded /\ c.frame = b.frame
  BY <1>4 DEF Branches
<1> HIDE DEF c
<1>8. m + 1 = q + Len(c.queue) /\ Len(c.queue) <= QueueCapacity
  BY <1>3, <1>5, <1>7, QueueCapacityAssumption
<1>9. Placed(c, n, d, a, i, q, m + 1)
  BY <1>2, <1>5, <1>7, <1>8 DEF Placed
<1>10. Contents(c, n, m + 1)
  BY <1>9 DEF Contents
<1>11. Staged(c, eos) /\ ~HoldsEnd(c, eos)
  BY <1>1, <1>7 DEF Staged, HoldsEnd
<1> QED
  BY <1>6, <1>7, <1>8, <1>10, <1>11 DEF WellFilled, c

(* Behind the last packet the input ends. *)
LEMMA InputEnds ==
    ASSUME NEW eos \in Nat, NEW n \in Nat, NEW b \in Branches(eos), WellFilled(b, n, eos, eos)
    PROVE  /\ WellFilled(EndInput(b), n, eos, eos)
           /\ EndInput(b).epoch = b.epoch /\ EndInput(b).frame = b.frame
           /\ b.phase = "DecoderDrained" => EndInput(b) = b
<1> DEFINE c == EndInput(b)
<1>1. CASE b.phase # "Feeding"
  BY <1>1 DEF EndInput
<1>2. CASE b.phase = "Feeding"
  <2>1. c = [b EXCEPT !.phase = "InputEnded"]
    BY <1>2 DEF EndInput
  <2>2. c \in Branches(eos)
    BY <2>1, BranchUpdates DEF Phases
  <2>3. /\ c.epoch = b.epoch /\ c.phase = "InputEnded" /\ c.queue = b.queue /\ c.input = b.input
        /\ c.accepted = b.accepted /\ c.decoded = b.decoded /\ c.frame = b.frame
    BY <2>1 DEF Branches
  <2>4. Staged(b, eos) /\ ~HoldsEnd(b, eos) /\ Contents(b, n, eos) /\ Len(b.queue) <= QueueCapacity
    BY <1>2 DEF WellFilled, Staged, HoldsEnd
  <2> HIDE DEF c
  <2>5. PICK d, a, i, q \in Nat : Placed(b, n, d, a, i, q, eos)
    BY <2>4 DEF Contents
  <2>6. Placed(c, n, d, a, i, q, eos)
    BY <2>3, <2>5 DEF Placed
  <2>7. Contents(c, n, eos)
    BY <2>6 DEF Contents
  <2>8. Staged(c, eos) /\ ~HoldsEnd(c, eos)
    BY <1>2, <2>3, <2>4 DEF Staged, HoldsEnd
  <2> QED
    BY <1>2, <2>2, <2>3, <2>4, <2>7, <2>8 DEF WellFilled, c
<1> QED
  BY <1>1, <1>2

-----------------------------------------------------------------------------
(* From the source to the output *)

(***************************************************************************)
(* A branch that holds the numbers between its next frame and its next     *)
(* packet stands in order, with the packet that still waits for it.        *)
(***************************************************************************)
LEMMA HeldInOrder ==
    ASSUME TypeOK, NEW t \in Tracks, NEW b \in Branches(Length[t]),
           WellFilled(b, done[t], NextIn(t), Length[t]),
           pending.track = t => pending.number + 1 = source[t] /\ b.phase = "Feeding"
    PROVE  InOrder(b, t)
<1> DEFINE eos == Length[t]
           n == done[t]
           S == 0 .. eos
           decoded == b.decoded
           accepted == b.accepted
           queue == b.queue
           frame == One(b.frame)
           input == One(b.input)
           last == IF pending.track = t THEN <<pending.number>> ELSE <<>>
           upto == IF HoldsEnd(b, eos) THEN eos + 1 ELSE NextIn(t)
           all == frame \o decoded \o accepted \o input \o queue \o last
<1>1. eos \in Nat /\ n \in Nat /\ source[t] \in Nat /\ source[t] <= eos
  BY LengthAssumption DEF TypeOK, Length
<1>2. PICK d, a, i, q \in Nat : Placed(b, n, d, a, i, q, upto)
  BY DEF WellFilled, Contents
<1>3. /\ decoded \in Seq(S) /\ accepted \in Seq(S) /\ queue \in Seq(S)
      /\ b.frame \in S \cup {None} /\ b.input \in S \cup {None}
      /\ Len(decoded) \in Nat /\ Len(accepted) \in Nat /\ Len(queue) \in Nat
  BY <1>1, BranchTypes
<1>4. /\ d = n + Filled(b.frame) /\ a = d + Len(decoded) /\ i = a + Len(accepted)
      /\ q = i + Filled(b.input) /\ upto = q + Len(queue)
      /\ b.frame # None => b.frame = n
      /\ Run(decoded, d) /\ Run(accepted, a)
      /\ b.input # None => b.input = i
      /\ Run(queue, q)
  BY <1>2 DEF Placed
<1>5. pending.track = t =>
         /\ ~HoldsEnd(b, eos) /\ NextIn(t) = source[t] - 1
         /\ pending.number = upto /\ upto \in S
  <2> HAVE pending.track = t
  <2>1. ~HoldsEnd(b, eos)
    BY DEF HoldsEnd, WellFilled, Staged
  <2>2. NextIn(t) = source[t] - 1 /\ pending # NoPacket
    BY DEF NextIn, Waiting, NoPacket, Tracks
  <2>3. pending.number \in Nat
    BY <2>2 DEF TypeOK
  <2>4. upto = NextIn(t)
    BY <2>1
  <2> QED
    BY <1>1, <2>1, <2>2, <2>3, <2>4
<1>6. pending.track # t => NextIn(t) = source[t]
  BY <1>1 DEF NextIn, Waiting
<1> HIDE DEF eos, decoded, accepted, queue
<1>7. S \subseteq Int
  OBVIOUS
<1>8. frame \in Seq(S) /\ Len(frame) = Filled(b.frame) /\ Run(frame, n)
  BY <1>3, <1>4, <1>7, RunOne
<1>9. input \in Seq(S) /\ Len(input) = Filled(b.input) /\ Run(input, i)
  BY <1>3, <1>4, <1>7, RunOne
<1>10. upto \in Int
  <2>1. Len(queue) \in Nat /\ q \in Nat
    BY <1>3
  <2>2. upto = q + Len(queue)
    BY <1>4
  <2> HIDE DEF upto
  <2> QED
    BY <2>1, <2>2
<1> HIDE DEF n, frame, input, upto
<1>11. last \in Seq(S) /\ Run(last, upto) /\ Len(last) = Waiting(t)
  <2>1. CASE pending.track = t
    <3>1. last = <<upto>> /\ upto \in S
      BY <1>5, <2>1
    <3>2. <<upto>> \in Seq(S) /\ Len(<<upto>>) = 1 /\ <<upto>>[1] = upto /\ upto \in Int
      BY <1>7, <3>1
    <3> QED
      BY <2>1, <3>1, <3>2 DEF Run, Waiting
  <2>2. CASE pending.track # t
    BY <2>2, RunEmpty DEF Waiting
  <2> QED
    BY <2>1, <2>2
<1> HIDE DEF last
<1>12. d = n + Len(frame) /\ q = i + Len(input)
  BY <1>4, <1>8, <1>9
<1>13. Run(all, n) /\ n + Len(all) = upto + Len(last)
  <2>1. ASSUME NEW r \in Seq(S), NEW s \in Seq(S), NEW k \in Int
        PROVE  Run(r, n) /\ Run(s, k) /\ k = n + Len(r) =>
                  r \o s \in Seq(S) /\ Run(r \o s, n) /\ n + Len(r \o s) = k + Len(s)
    BY <1>1, NumbersConcat
  <2>2. frame \in Seq(S) /\ Run(frame, n) /\ d = n + Len(frame)
    BY <1>8, <1>12
  <2>3. decoded \in Seq(S) /\ Run(decoded, d) /\ a = d + Len(decoded) /\ d \in Int
    BY <1>3, <1>4, <1>9, <1>10, <1>12
  <2>4. frame \o decoded \in Seq(S) /\ Run(frame \o decoded, n) /\ n + Len(frame \o decoded) = d + Len(decoded)
    BY <2>1, <2>2, <2>3
  <2>5. frame \o decoded \in Seq(S) /\ Run(frame \o decoded, n) /\ a = n + Len(frame \o decoded)
    BY <2>3, <2>4
  <2>6. accepted \in Seq(S) /\ Run(accepted, a) /\ i = a + Len(accepted) /\ a \in Int
    BY <1>3, <1>4, <1>9, <1>10, <1>12
  <2>7. frame \o decoded \o accepted \in Seq(S) /\ Run(frame \o decoded \o accepted, n) /\ n + Len(frame \o decoded \o accepted) = a + Len(accepted)
    BY <2>1, <2>5, <2>6
  <2>8. frame \o decoded \o accepted \in Seq(S) /\ Run(frame \o decoded \o accepted, n) /\ i = n + Len(frame \o decoded \o accepted)
    BY <2>6, <2>7
  <2>9. input \in Seq(S) /\ Run(input, i) /\ q = i + Len(input) /\ i \in Int
    BY <1>3, <1>4, <1>9, <1>10, <1>12
  <2>10. frame \o decoded \o accepted \o input \in Seq(S) /\ Run(frame \o decoded \o accepted \o input, n) /\ n + Len(frame \o decoded \o accepted \o input) = i + Len(input)
    BY <2>1, <2>8, <2>9
  <2>11. frame \o decoded \o accepted \o input \in Seq(S) /\ Run(frame \o decoded \o accepted \o input, n) /\ q = n + Len(frame \o decoded \o accepted \o input)
    BY <2>9, <2>10
  <2>12. queue \in Seq(S) /\ Run(queue, q) /\ upto = q + Len(queue) /\ q \in Int
    BY <1>3, <1>4, <1>9, <1>10, <1>12
  <2>13. frame \o decoded \o accepted \o input \o queue \in Seq(S) /\ Run(frame \o decoded \o accepted \o input \o queue, n) /\ n + Len(frame \o decoded \o accepted \o input \o queue) = q + Len(queue)
    BY <2>1, <2>11, <2>12
  <2>14. frame \o decoded \o accepted \o input \o queue \in Seq(S) /\ Run(frame \o decoded \o accepted \o input \o queue, n) /\ upto = n + Len(frame \o decoded \o accepted \o input \o queue)
    BY <2>12, <2>13
  <2> QED
    BY <1>10, <1>11, <2>1, <2>14 DEF all
<1>14. n + Len(all) = upto + Waiting(t)
  BY <1>11, <1>13
<1>15. Held(b, t) = all
  BY DEF Held, frame, input, last, decoded, accepted, queue
<1>16. EndIsHeld(b, t) = HoldsEnd(b, eos)
  BY DEF EndIsHeld, HoldsEnd, eos
<1>17. upto + Waiting(t) = IF EndIsHeld(b, t) THEN eos + 1 ELSE source[t]
  BY <1>1, <1>5, <1>6, <1>16 DEF upto, Waiting
<1> HIDE DEF all
<1> QED
  BY <1>13, <1>14, <1>15, <1>17 DEF InOrder, Run, eos, n

-----------------------------------------------------------------------------
(* The audio branch and the device *)

AudioStates ==
    [branch : Branches(AudioLength), buffer : Seq(Nat), first : Nat \cup {None}, done : Nat]

(* A state inside AudioPipeline::step, when m is the next packet to come. *)
AudioWell(s, m) ==
    /\ s \in AudioStates
    /\ WellFilled(s.branch, s.done, m, AudioLength)
    /\ Len(s.buffer) <= DeviceCapacity
    /\ Heard(s.branch.frame, s.first, s.buffer, s.done)

(* What a step makes of it: the clock keeps its anchor, a drained branch adds nothing. *)
AudioFollows(s, t) ==
    /\ Follows(s.branch, t.branch)
    /\ s.branch.phase = "DecoderDrained" => t.buffer = s.buffer
    /\ s.first # None => t.first = s.first

LEMMA AudioFollowsOn ==
    \A s, t, u : AudioFollows(s, t) /\ AudioFollows(t, u) => AudioFollows(s, u)
BY DEF AudioFollows, Follows

LEMMA DeviceTypes ==
    ASSUME TypeOK
    PROVE  /\ device.played \in Nat /\ mapping.base \in Nat /\ mapping.boundary \in Nat
           /\ mapping.first \in Nat \cup {None}
           /\ device.buffer \in Seq(Nat) /\ Len(device.buffer) <= DeviceCapacity
           /\ done["audio"] \in Nat /\ done["video"] \in Nat
           /\ audio \in Branches(AudioLength) /\ video \in Branches(VideoLength)
BY DEF TypeOK, Tracks

(* The device takes the pending PCM, the first of which anchors the clock. *)
LEMMA FrameIsSubmitted ==
    ASSUME TypeOK, NEW m \in 0 .. AudioLength, NEW s, AudioWell(s, m)
    PROVE  AudioWell(SubmitPendingFrame(s), m) /\ AudioFollows(s, SubmitPendingFrame(s))
<1> DEFINE b == s.branch
           n == s.done
           buffer == s.buffer
           next == Append(buffer, n)
           first == IF s.first = None THEN n ELSE s.first
           c == [b EXCEPT !.frame = None]
           anchor == mapping.first
           r == SubmitPendingFrame(s)
<1>1. CASE b.frame = None \/ Len(buffer) >= DeviceCapacity
  BY <1>1 DEF SubmitPendingFrame, AudioFollows, Follows
<1>2. CASE b.frame # None /\ Len(buffer) < DeviceCapacity
  <2>1. /\ b \in Branches(AudioLength) /\ n \in Nat /\ buffer \in Seq(Nat) /\ Len(buffer) \in Nat
        /\ s.first \in Nat \cup {None} /\ AudioLength \in Nat
    BY LengthAssumption DEF AudioWell, AudioStates
  <2>2. b.frame = n /\ WellFilled(c, n + 1, m, AudioLength)
    BY <1>2, <2>1, FrameLeaves DEF AudioWell
  <2>3. c \in Branches(AudioLength) /\ c.frame = None /\ c.epoch = b.epoch /\ c.phase = b.phase
    BY <2>1, NoneIsNoNumber DEF Branches
  <2>4. r = [branch |-> c, buffer |-> next, first |-> first, done |-> n + 1]
    BY <1>2, <2>1, <2>2, DeviceCapacityAssumption DEF SubmitPendingFrame
  <2>5. /\ next \in Seq(Nat) /\ Len(next) = Len(buffer) + 1 /\ Len(next) <= DeviceCapacity
        /\ first \in Nat /\ n + 1 \in Nat /\ first # None
    BY <1>2, <2>1, DeviceCapacityAssumption DEF None
  <2>6. r \in AudioStates
    BY <2>3, <2>4, <2>5 DEF AudioStates
  <2>7. Heard(None, first, next, n + 1)
    <3>1. Heard(n, s.first, buffer, n) /\ n # None
      BY <1>2, <2>2 DEF AudioWell
    <3>2. CASE s.first = None
      <4>1. buffer = <<>> /\ device.played = mapping.base /\ n >= mapping.boundary /\ first = n
        BY <3>1, <3>2 DEF Heard
      <4>2. next = <<n>> /\ Run(<<n>>, n) /\ Len(next) = 1
        BY <2>1, <4>1 DEF Run
      <4>3. first + device.played - mapping.base = n
        BY <2>1, <4>1, DeviceTypes
      <4> HIDE DEF next, first
      <4> QED
        BY <2>1, <2>5, <4>1, <4>2, <4>3, DeviceTypes DEF Heard
    <3>3. CASE s.first # None
      <4> DEFINE at == first + device.played - mapping.base
      <4>1. /\ first = s.first /\ first >= mapping.boundary /\ mapping.base <= device.played
            /\ Run(buffer, at) /\ at + Len(buffer) = n
        BY <3>1, <3>3 DEF Heard
      <4>2. at \in Int
        BY <2>5, DeviceTypes
      <4> HIDE DEF at, first
      <4>3. Run(next, at) /\ Len(next) = Len(buffer) + 1
        BY <2>1, <4>1, <4>2, RunAppend
      <4>4. at + Len(next) = n + 1
        BY <2>1, <4>1, <4>2, <4>3
      <4> HIDE DEF next
      <4> QED
        BY <2>5, <4>1, <4>3, <4>4 DEF Heard, at
    <3> QED
      BY <3>2, <3>3
  <2>8. b.phase # "DecoderDrained"
    BY <1>2 DEF AudioWell, WellFilled, Staged
  <2> HIDE DEF next, c, first, r
  <2>9. r.branch = c /\ r.buffer = next /\ r.first = first /\ r.done = n + 1
    BY <2>4
  <2>10. AudioWell(r, m)
    BY <2>2, <2>3, <2>5, <2>6, <2>7, <2>9 DEF AudioWell
  <2>11. AudioFollows(s, r)
    BY <2>3, <2>8, <2>9 DEF AudioFollows, Follows, first
  <2> QED
    BY <2>10, <2>11 DEF r
<1>3. Len(buffer) \in Nat
  BY DEF AudioWell, AudioStates
<1> QED
  BY <1>1, <1>2, <1>3, DeviceCapacityAssumption

(***************************************************************************)
(* An output of the decoder is the end, becomes the pending PCM, or is     *)
(* trimmed, which only happens before the first PCM is heard.              *)
(***************************************************************************)
LEMMA AudioIsReceived ==
    ASSUME TypeOK, NEW m \in 0 .. AudioLength, NEW s, AudioWell(s, m), s.branch.frame = None
    PROVE  AudioWell(ReceiveAudio(s), m) /\ AudioFollows(s, ReceiveAudio(s))
<1> DEFINE b == s.branch
           n == s.done
           eos == AudioLength
           t == TakeOutput(b)
           r == ReceiveAudio(s)
<1>1. /\ b \in Branches(eos) /\ n \in Nat /\ s.buffer \in Seq(Nat) /\ Len(s.buffer) <= DeviceCapacity
      /\ s.first \in Nat \cup {None} /\ eos \in Nat /\ WellFilled(b, n, m, eos) /\ b.frame = None
      /\ Heard(None, s.first, s.buffer, n)
      /\ s = [branch |-> b, buffer |-> s.buffer, first |-> s.first, done |-> n]
  BY LengthAssumption DEF AudioWell, AudioStates
<1>2. CASE ~HasOutput(b) \/ b.phase = "DecoderDrained"
  <2>1. ~HasOutput(b)
    BY <1>1, <1>2 DEF WellFilled, Staged, HasOutput
  <2>2. r = s
    BY <2>1 DEF ReceiveAudio
  <2> QED
    BY <2>2 DEF AudioFollows, Follows
<1>3. CASE HasOutput(b) /\ b.phase # "DecoderDrained"
  <2>1. /\ Head(b.decoded) = n /\ n \in 0 .. eos /\ t \in Branches(eos)
        /\ n = eos => b.phase = "Draining"
    BY <1>1, <1>3, OutputIsNext
  <2>2. t.epoch = b.epoch /\ t.phase = b.phase /\ t.frame = None
    BY <1>1 DEF TakeOutput, Branches
  <2>3. CASE n = eos
    <3> DEFINE c == [t EXCEPT !.phase = "DecoderDrained"]
    <3>1. WellFilled(c, n, m, eos)
      BY <1>1, <1>3, <2>1, <2>3, EndLeaves
    <3>2. c \in Branches(eos) /\ c.epoch = b.epoch /\ c.frame = None
      BY <2>1, <2>2 DEF Branches, Phases
    <3>3. r = [s EXCEPT !.branch = c]
      BY <1>3, <2>1, <2>3 DEF ReceiveAudio
    <3> HIDE DEF c, r
    <3>4. /\ r.branch = c /\ r.buffer = s.buffer /\ r.first = s.first /\ r.done = n
          /\ r \in AudioStates
      BY <1>1, <3>2, <3>3 DEF AudioStates
    <3>5. AudioWell(r, m)
      BY <1>1, <3>1, <3>2, <3>4 DEF AudioWell
    <3>6. AudioFollows(s, r)
      BY <1>3, <2>1, <2>3, <3>2, <3>4 DEF AudioFollows, Follows
    <3> QED
      BY <3>5, <3>6 DEF r
  <2>4. CASE n # eos /\ n >= mapping.boundary
    <3> DEFINE c == [t EXCEPT !.frame = n]
    <3>1. WellFilled(c, n, m, eos)
      BY <1>1, <1>3, <2>1, <2>4, OutputLeaves
    <3>2. c \in Branches(eos) /\ c.epoch = b.epoch /\ c.frame = n /\ c.phase = b.phase
      <4>1. n \in None .. eos
        BY <1>1, <2>1 DEF None
      <4> HIDE DEF t
      <4> QED
        BY <2>1, <2>2, <4>1 DEF Branches
    <3>3. r = [s EXCEPT !.branch = c]
      BY <1>3, <2>1, <2>4 DEF ReceiveAudio
    <3> HIDE DEF c, r
    <3>4. /\ r.branch = c /\ r.buffer = s.buffer /\ r.first = s.first /\ r.done = n
          /\ r \in AudioStates
      BY <1>1, <3>2, <3>3 DEF AudioStates
    <3>5. Heard(n, s.first, s.buffer, n)
      BY <1>1, <2>4 DEF Heard
    <3>6. AudioWell(r, m)
      BY <1>1, <3>1, <3>2, <3>4, <3>5 DEF AudioWell
    <3>7. AudioFollows(s, r)
      BY <1>3, <3>2, <3>4 DEF AudioFollows, Follows
    <3> QED
      BY <3>6, <3>7 DEF r
  <2>5. CASE n # eos /\ ~(n >= mapping.boundary)
    <3>1. WellFilled(t, n + 1, m, eos)
      BY <1>1, <1>3, <2>1, <2>5, OutputLeaves
    <3>2. r = [s EXCEPT !.branch = t, !.done = n + 1]
      BY <1>3, <2>1, <2>5 DEF ReceiveAudio
    <3> HIDE DEF t, r
    <3>3. /\ r.branch = t /\ r.buffer = s.buffer /\ r.first = s.first /\ r.done = n + 1
          /\ r \in AudioStates
      <4>1. n + 1 \in Nat /\ s \in AudioStates
        BY <1>1 DEF AudioWell
      <4> QED
        BY <2>1, <3>2, <4>1 DEF AudioStates
    <3>4. Heard(None, s.first, s.buffer, n + 1)
      <4>1. s.first = None
        <5> DEFINE length == Len(s.buffer)
        <5>1. SUFFICES ASSUME s.first # None PROVE FALSE
          OBVIOUS
        <5>2. /\ s.first >= mapping.boundary /\ mapping.base <= device.played
              /\ s.first + device.played - mapping.base + length = n
          BY <1>1, <5>1 DEF Heard
        <5>3. s.first \in Nat /\ length \in Nat
          BY <1>1, <5>1
        <5> HIDE DEF length
        <5> QED
          BY <1>1, <2>5, <5>2, <5>3, DeviceTypes
      <4> QED
        BY <1>1, <4>1 DEF Heard
    <3>5. AudioWell(r, m)
      BY <1>1, <2>2, <3>1, <3>3, <3>4 DEF AudioWell
    <3>6. AudioFollows(s, r)
      BY <1>3, <2>2, <3>3 DEF AudioFollows, Follows
    <3> QED
      BY <3>5, <3>6 DEF r
  <2> QED
    BY <2>3, <2>4, <2>5
<1> QED
  BY <1>2, <1>3

LEMMA AudioInputIsSubmitted ==
    ASSUME TypeOK, NEW m \in 0 .. AudioLength, NEW s, AudioWell(s, m)
    PROVE  /\ AudioWell([s EXCEPT !.branch = SubmitOneInput(@, AudioLength)], m)
           /\ AudioFollows(s, [s EXCEPT !.branch = SubmitOneInput(@, AudioLength)])
<1> DEFINE b == s.branch
           c == SubmitOneInput(b, AudioLength)
           r == [s EXCEPT !.branch = c]
<1>1. /\ b \in Branches(AudioLength) /\ s \in AudioStates /\ s.done \in Nat
      /\ WellFilled(b, s.done, m, AudioLength) /\ AudioLength \in Nat
      /\ Len(s.buffer) <= DeviceCapacity /\ Heard(b.frame, s.first, s.buffer, s.done)
  BY LengthAssumption DEF AudioWell, AudioStates
<1>2. WellFilled(c, s.done, m, AudioLength) /\ Follows(b, c) /\ c.frame = b.frame
  BY <1>1, InputIsSubmitted
<1>3. c \in Branches(AudioLength)
  BY <1>2 DEF WellFilled
<1> HIDE DEF c
<1>4. /\ r.branch = c /\ r.buffer = s.buffer /\ r.first = s.first /\ r.done = s.done
      /\ r \in AudioStates
  BY <1>1, <1>3 DEF AudioStates
<1> HIDE DEF r
<1>5. AudioWell(r, m)
  BY <1>1, <1>2, <1>4 DEF AudioWell
<1>6. AudioFollows(s, r)
  BY <1>2, <1>4 DEF AudioFollows
<1> QED
  BY <1>5, <1>6 DEF r, c

-----------------------------------------------------------------------------
(* Every step keeps the invariant *)

LEMMA NextInRange ==
    ASSUME TypeOK, SourceAgrees
    PROVE  /\ NextIn("audio") \in 0 .. AudioLength /\ NextIn("video") \in 0 .. VideoLength
           /\ AudioLength \in Nat /\ VideoLength \in Nat
           /\ Length["audio"] = AudioLength /\ Length["video"] = VideoLength
<1>1. /\ Length["audio"] = AudioLength /\ Length["video"] = VideoLength
      /\ AudioLength \in Nat /\ VideoLength \in Nat
  BY LengthAssumption DEF Length, Tracks
<1>2. ASSUME NEW t \in Tracks PROVE NextIn(t) \in 0 .. Length[t]
  <2>1. source[t] \in Nat /\ source[t] <= Length[t] /\ Length[t] \in Nat
    BY <1>1 DEF TypeOK, Tracks
  <2>2. CASE pending.track = t
    <3>1. pending # NoPacket
      BY <2>2 DEF NoPacket, Tracks
    <3>2. pending.number \in Nat /\ pending.number + 1 = source[t]
      BY <2>2, <3>1 DEF TypeOK, SourceAgrees
    <3> QED
      BY <2>1, <2>2, <3>2 DEF NextIn, Waiting
  <2>3. CASE pending.track # t
    BY <2>1, <2>3 DEF NextIn, Waiting
  <2> QED
    BY <2>2, <2>3
<1> QED
  BY <1>1, <1>2 DEF Tracks

(* The audio branch goes from one well filled state to the next. *)
LEMMA AudioStepEffect ==
    ASSUME PipelineInv, AudioStep
    PROVE  \E s \in AudioStates :
              /\ AudioWell(s, NextIn("audio"))
              /\ Follows(audio, s.branch)
              /\ audio.phase = "DecoderDrained" => s.buffer = device.buffer
              /\ mapping.first # None => s.first = mapping.first
              /\ audio' = s.branch
              /\ device' = [device EXCEPT !.buffer = s.buffer]
              /\ mapping' = [mapping EXCEPT !.first = s.first]
              /\ done' = [done EXCEPT !["audio"] = s.done]
              /\ pc' = IF withVideo THEN "position" ELSE "source"
<1> DEFINE m == NextIn("audio")
           s0 == [branch |-> audio, buffer |-> device.buffer,
                  first |-> mapping.first, done |-> done["audio"]]
           s1 == SubmitPendingFrame(s0)
           s2 == SubmitPendingFrame(ReceiveAudio(s1))
           s3 == [s2 EXCEPT !.branch = SubmitOneInput(@, AudioLength)]
           blocked == s1.branch.frame # None
           ended == s2.branch.frame # None \/ s2.branch.phase = "DecoderDrained"
           s == IF blocked THEN s1 ELSE IF ended THEN s2 ELSE s3
<1>1. TypeOK /\ m \in 0 .. AudioLength /\ AudioLength \in Nat
  BY NextInRange DEF PipelineInv
<1> HIDE DEF m
<1>2. AudioWell(s0, m)
  <2>1. s0 \in AudioStates
    BY <1>1, DeviceTypes DEF AudioStates
  <2>2. WellFilled(audio, done["audio"], m, AudioLength) /\ DeviceAgrees
    BY DEF PipelineInv, BranchesAreFilled, m
  <2> QED
    BY <1>1, <2>1, <2>2, DeviceTypes DEF AudioWell, DeviceAgrees
<1>3. /\ audio' = s.branch
      /\ device' = [device EXCEPT !.buffer = s.buffer]
      /\ mapping' = [mapping EXCEPT !.first = s.first]
      /\ done' = [done EXCEPT !["audio"] = s.done]
      /\ pc' = IF UnexpectedEos(s1.branch, AudioLength) THEN "impossible"
               ELSE IF withVideo THEN "position" ELSE "source"
  BY DEF AudioStep
<1>4. /\ s0.branch = audio /\ s0.buffer = device.buffer /\ s0.first = mapping.first
  OBVIOUS
<1> HIDE DEF s0
<1>5. AudioWell(s1, m) /\ AudioFollows(s0, s1)
  BY <1>1, <1>2, FrameIsSubmitted
<1> HIDE DEF s1
<1>6. ~UnexpectedEos(s1.branch, AudioLength)
  <2>1. SUFFICES ASSUME UnexpectedEos(s1.branch, AudioLength) PROVE FALSE
    OBVIOUS
  <2>2. /\ WellFilled(s1.branch, s1.done, m, AudioLength) /\ s1.branch \in Branches(AudioLength)
        /\ s1.done \in Nat
    BY <1>5 DEF AudioWell, AudioStates
  <2>3. Head(s1.branch.decoded) = s1.done /\ (s1.done = AudioLength => s1.branch.phase = "Draining")
    BY <1>1, <2>1, <2>2, OutputIsNext DEF UnexpectedEos
  <2> QED
    BY <2>1, <2>3 DEF UnexpectedEos
<1>7. ~blocked => AudioWell(s2, m) /\ AudioFollows(s0, s2)
  <2>1. HAVE ~blocked
  <2>2. AudioWell(ReceiveAudio(s1), m) /\ AudioFollows(s1, ReceiveAudio(s1))
    BY <1>1, <1>5, <2>1, AudioIsReceived
  <2>3. AudioWell(s2, m) /\ AudioFollows(ReceiveAudio(s1), s2)
    BY <1>1, <2>2, FrameIsSubmitted
  <2> QED
    BY <1>5, <2>2, <2>3, AudioFollowsOn
<1> HIDE DEF s2
<1>8. ~blocked => AudioWell(s3, m) /\ AudioFollows(s0, s3)
  <2>1. HAVE ~blocked
  <2>2. AudioWell(s3, m) /\ AudioFollows(s2, s3)
    BY <1>1, <1>7, <2>1, AudioInputIsSubmitted
  <2> QED
    BY <1>7, <2>1, <2>2, AudioFollowsOn
<1> HIDE DEF s3
<1>9. AudioWell(s, m) /\ AudioFollows(s0, s)
  BY <1>5, <1>7, <1>8
<1> HIDE DEF s
<1>10. s \in AudioStates
  BY <1>9 DEF AudioWell
<1>11. /\ Follows(audio, s.branch)
       /\ audio.phase = "DecoderDrained" => s.buffer = device.buffer
       /\ mapping.first # None => s.first = mapping.first
  BY <1>4, <1>9 DEF AudioFollows
<1> QED
  BY <1>3, <1>6, <1>9, <1>10, <1>11 DEF m

LEMMA AudioStepKeeps ==
    ASSUME PipelineInv, AudioStep
    PROVE  PipelineInv'
<1>1. PICK s \in AudioStates :
         /\ AudioWell(s, NextIn("audio"))
         /\ Follows(audio, s.branch)
         /\ audio.phase = "DecoderDrained" => s.buffer = device.buffer
         /\ mapping.first # None => s.first = mapping.first
         /\ audio' = s.branch
         /\ device' = [device EXCEPT !.buffer = s.buffer]
         /\ mapping' = [mapping EXCEPT !.first = s.first]
         /\ done' = [done EXCEPT !["audio"] = s.done]
         /\ pc' = IF withVideo THEN "position" ELSE "source"
  BY AudioStepEffect
<1>2. /\ pc = "loop"
      /\ UNCHANGED <<running, drained, reported, epoch, withVideo, source, sourceEnded, pending,
                     video, clock, tracker, reading>>
  BY DEF AudioStep, worker
<1>3. /\ s.branch \in Branches(AudioLength) /\ s.buffer \in Seq(Nat) /\ s.done \in Nat
      /\ s.first \in Nat \cup {None}
      /\ WellFilled(s.branch, s.done, NextIn("audio"), AudioLength)
      /\ Len(s.buffer) <= DeviceCapacity
      /\ Heard(s.branch.frame, s.first, s.buffer, s.done)
      /\ Len(s.branch.queue) <= QueueCapacity
  BY <1>1 DEF AudioWell, AudioStates, WellFilled
<1>4. /\ device'.buffer = s.buffer /\ device'.played = device.played
      /\ mapping'.first = s.first /\ mapping'.base = mapping.base /\ mapping'.boundary = mapping.boundary
      /\ done'["audio"] = s.done /\ done'["video"] = done["video"]
  BY <1>1 DEF PipelineInv, TypeOK, Tracks
<1>5. TypeOK'
  <2>1. device' \in [buffer : Seq(Nat), played : Nat, running : BOOLEAN]
    BY <1>1, <1>3 DEF PipelineInv, TypeOK
  <2>2. mapping' \in [boundary : Nat, first : Nat \cup {None}, base : Nat]
    BY <1>1, <1>3 DEF PipelineInv, TypeOK
  <2>3. done' \in [Tracks -> Nat]
    BY <1>1, <1>3 DEF PipelineInv, TypeOK
  <2>4. pc' \in Places
    BY <1>1 DEF Places
  <2>5. /\ audio' \in Branches(AudioLength) /\ Len(audio'.queue) <= QueueCapacity
        /\ Len(device'.buffer) <= DeviceCapacity
    BY <1>1, <1>3, <1>4
  <2>6. TypeOK
    BY DEF PipelineInv
  <2> QED
    BY <1>2, <2>1, <2>2, <2>3, <2>4, <2>5, <2>6 DEF TypeOK
<1>6. BranchesAreFilled'
  BY <1>1, <1>2, <1>3, <1>4 DEF PipelineInv, BranchesAreFilled, NextIn, Waiting
<1>7. SourceAgrees'
  BY <1>1, <1>2 DEF PipelineInv, SourceAgrees, Follows
<1>8. DeviceAgrees'
  BY <1>1, <1>3, <1>4 DEF DeviceAgrees, Heard
<1>9. PositionsAgree'
  BY <1>1, <1>2, <1>4 DEF PipelineInv, PositionsAgree
<1>10. EndsAgree' /\ FramesAgree'
  <2>1. AudioFinished => AudioFinished'
    BY <1>1, <1>4 DEF AudioFinished, Follows
  <2>2. pc' \notin {"video", "closed"} /\ pc' # "impossible"
    BY <1>1
  <2> QED
    BY <1>2, <1>4, <2>1, <2>2 DEF PipelineInv, EndsAgree, FramesAgree
<1> QED
  BY <1>1, <1>5, <1>6, <1>7, <1>8, <1>9, <1>10 DEF PipelineInv

LEMMA ReadPositionKeeps ==
    ASSUME PipelineInv, ReadPosition
    PROVE  PipelineInv'
<1>1. /\ pc = "position" /\ pc' = "video"
      /\ reading' = [finished |-> AudioFinished, position |-> device.played]
      /\ UNCHANGED <<running, drained, reported, epoch, withVideo, source, sourceEnded, pending, audio,
                     video, device, mapping, clock, tracker, done>>
  BY DEF ReadPosition, worker
<1>2. reading'.finished = AudioFinished /\ reading'.position = device.played /\ AudioFinished' = AudioFinished
  BY <1>1 DEF AudioFinished
<1>3. TypeOK'
  <2>1. AudioFinished \in BOOLEAN /\ device.played \in Nat /\ TypeOK
    BY DeviceTypes DEF PipelineInv, AudioFinished
  <2>2. reading' \in [finished : BOOLEAN, position : Nat] /\ pc' \in Places
    BY <1>1, <2>1 DEF Places
  <2> QED
    BY <1>1, <2>1, <2>2 DEF TypeOK
<1>4. BranchesAreFilled' /\ SourceAgrees'
  BY <1>1 DEF PipelineInv, BranchesAreFilled, NextIn, Waiting, SourceAgrees
<1>5. DeviceAgrees' /\ FramesAgree'
  BY <1>1 DEF PipelineInv, DeviceAgrees, Heard, FramesAgree
<1>6. PositionsAgree' /\ EndsAgree'
  <2>1. device.played \in Nat
    BY DeviceTypes DEF PipelineInv
  <2> QED
    BY <1>1, <1>2, <2>1 DEF PipelineInv, PositionsAgree, EndsAgree
<1> QED
  BY <1>1, <1>3, <1>4, <1>5, <1>6 DEF PipelineInv

LEMMA AudioDecodesKeeps ==
    ASSUME PipelineInv, AudioDecodes
    PROVE  PipelineInv'
<1>1. /\ pc # "closed" /\ CanDecode(audio) /\ audio' = Decode(audio)
      /\ UNCHANGED <<pc, running, drained, reported, epoch, withVideo, source, sourceEnded, pending,
                     video, device, mapping, clock, tracker, reading, done>>
  BY DEF AudioDecodes, worker
<1>2. /\ audio \in Branches(AudioLength) /\ TypeOK
      /\ WellFilled(audio, done["audio"], NextIn("audio"), AudioLength)
      /\ done["audio"] \in Nat /\ NextIn("audio") \in 0 .. AudioLength /\ AudioLength \in Nat
  BY DeviceTypes, NextInRange DEF PipelineInv, BranchesAreFilled
<1>3. WellFilled(audio', done["audio"], NextIn("audio"), AudioLength)
  BY <1>1, <1>2, CodecMovesOn
<1>4. audio'.epoch = audio.epoch /\ audio'.phase = audio.phase /\ audio'.frame = audio.frame
  BY <1>1, <1>2 DEF Decode, Branches
<1>5. audio.phase # "DecoderDrained"
  BY <1>1, <1>2 DEF WellFilled, Staged, CanDecode
<1>6. TypeOK'
  <2>1. audio' \in Branches(AudioLength) /\ Len(audio'.queue) <= QueueCapacity
    BY <1>3 DEF WellFilled
  <2> QED
    BY <1>1, <1>2, <2>1 DEF TypeOK
<1>7. BranchesAreFilled'
  BY <1>1, <1>3 DEF PipelineInv, BranchesAreFilled, NextIn, Waiting
<1>8. SourceAgrees' /\ DeviceAgrees' /\ FramesAgree'
  BY <1>1, <1>4 DEF PipelineInv, SourceAgrees, DeviceAgrees, Heard, FramesAgree
<1>9. PositionsAgree' /\ EndsAgree'
  BY <1>1, <1>4, <1>5 DEF PipelineInv, PositionsAgree, EndsAgree, AudioFinished
<1> QED
  BY <1>1, <1>6, <1>7, <1>8, <1>9 DEF PipelineInv

LEMMA VideoDecodesKeeps ==
    ASSUME PipelineInv, VideoDecodes
    PROVE  PipelineInv'
<1>1. /\ pc # "closed" /\ CanDecode(video) /\ video' = Decode(video)
      /\ UNCHANGED <<pc, running, drained, reported, epoch, withVideo, source, sourceEnded, pending,
                     audio, device, mapping, clock, tracker, reading, done>>
  BY DEF VideoDecodes, worker
<1>2. /\ video \in Branches(VideoLength) /\ TypeOK
      /\ withVideo => WellFilled(video, done["video"], NextIn("video"), VideoLength)
      /\ done["video"] \in Nat /\ NextIn("video") \in 0 .. VideoLength /\ VideoLength \in Nat
  BY DeviceTypes, NextInRange DEF PipelineInv, BranchesAreFilled
<1>3. withVideo => WellFilled(video', done["video"], NextIn("video"), VideoLength)
  BY <1>1, <1>2, CodecMovesOn
<1>4. /\ video'.epoch = video.epoch /\ video'.phase = video.phase /\ video'.frame = video.frame
      /\ video'.queue = video.queue
  BY <1>1, <1>2 DEF Decode, Branches
<1>5. video' \in Branches(VideoLength)
  <2> DEFINE in == video.accepted
             out == video.decoded
  <2>1. in \in Seq(0 .. VideoLength) /\ out \in Seq(0 .. VideoLength) /\ in # <<>>
    BY <1>1, <1>2, BranchTypes DEF CanDecode
  <2> HIDE DEF in, out
  <2>2. Tail(in) \in Seq(0 .. VideoLength) /\ Append(out, Head(in)) \in Seq(0 .. VideoLength)
    <3>1. \A S : \A p, q \in Seq(S) : p # <<>> =>
             Tail(p) \in Seq(S) /\ Head(p) \in S /\ Append(q, Head(p)) \in Seq(S)
      OBVIOUS
    <3> QED
      BY <2>1, <3>1
  <2>3. video' = [video EXCEPT !.accepted = Tail(in), !.decoded = Append(out, Head(in))]
    BY <1>1 DEF Decode, in, out
  <2> QED
    BY <1>2, <2>2, <2>3 DEF Branches
<1>6. TypeOK'
  BY <1>1, <1>2, <1>4, <1>5 DEF TypeOK
<1>7. BranchesAreFilled'
  BY <1>1, <1>3 DEF PipelineInv, BranchesAreFilled, NextIn, Waiting
<1>8. SourceAgrees' /\ DeviceAgrees' /\ FramesAgree'
  BY <1>1, <1>4 DEF PipelineInv, SourceAgrees, DeviceAgrees, Heard, FramesAgree
<1>9. PositionsAgree' /\ EndsAgree'
  BY <1>1, <1>4 DEF PipelineInv, PositionsAgree, EndsAgree, AudioFinished, IsDrained
<1> QED
  BY <1>1, <1>6, <1>7, <1>8, <1>9 DEF PipelineInv

(* The head of the buffer is played and counted: the position moves with it. *)
LEMMA DevicePlaysKeeps ==
    ASSUME PipelineInv, DevicePlays
    PROVE  PipelineInv'
<1> DEFINE buffer == device.buffer
           at == mapping.first + device.played - mapping.base
<1>1. /\ pc # "closed" /\ buffer # <<>>
      /\ device' = [device EXCEPT !.buffer = Tail(buffer), !.played = @ + 1]
      /\ UNCHANGED <<pc, running, drained, reported, epoch, withVideo, source, sourceEnded, pending,
                     audio, video, mapping, clock, tracker, reading, done>>
  BY DEF DevicePlays, worker
<1>2. TypeOK
  BY DEF PipelineInv
<1>3. device'.buffer = Tail(buffer) /\ device'.played = device.played + 1
  BY <1>1, <1>2 DEF TypeOK
<1>4. /\ mapping.first # None /\ mapping.first >= mapping.boundary
      /\ mapping.base <= device.played
      /\ Run(buffer, at) /\ at + Len(buffer) = done["audio"] /\ at \in Nat
      /\ audio.frame # None => audio.frame >= mapping.boundary
  BY <1>1, <1>2, DeviceTypes DEF PipelineInv, DeviceAgrees, Heard
<1>5. buffer \in Seq(Nat) /\ Len(buffer) <= DeviceCapacity /\ device.played \in Nat
  BY <1>2, DeviceTypes
<1> HIDE DEF buffer, at
<1>6. /\ Run(Tail(buffer), at + 1) /\ Tail(buffer) \in Seq(Nat) /\ Len(Tail(buffer)) = Len(buffer) - 1
      /\ Len(buffer) \in Nat
  BY <1>1, <1>4, <1>5, RunTail
<1>7. TypeOK'
  <2>1. device' \in [buffer : Seq(Nat), played : Nat, running : BOOLEAN]
    <3>1. device.played + 1 \in Nat /\ device \in [buffer : Seq(Nat), played : Nat, running : BOOLEAN]
      BY <1>2, <1>5 DEF TypeOK
    <3> QED
      BY <1>1, <1>6, <3>1
  <2>2. Len(device'.buffer) <= DeviceCapacity
    BY <1>3, <1>5, <1>6, DeviceCapacityAssumption
  <2> QED
    BY <1>1, <1>2, <2>1, <2>2 DEF TypeOK
<1>8. BranchesAreFilled' /\ SourceAgrees' /\ FramesAgree'
  BY <1>1 DEF PipelineInv, BranchesAreFilled, NextIn, Waiting, SourceAgrees, FramesAgree
<1>9. DeviceAgrees'
  <2> DEFINE next == mapping.first + device'.played - mapping.base
  <2>1. next = at + 1
    BY <1>2, <1>3, <1>4, DeviceTypes DEF at
  <2>2. next + Len(Tail(buffer)) = done["audio"]
    BY <1>4, <1>6, <2>1
  <2>3. mapping.base <= device'.played
    BY <1>2, <1>3, <1>4, DeviceTypes
  <2>4. Run(Tail(buffer), next)
    BY <1>6, <2>1
  <2> QED
    BY <1>1, <1>3, <1>4, <2>2, <2>3, <2>4 DEF DeviceAgrees, Heard
<1>10. PositionsAgree'
  BY <1>1, <1>2, <1>3, <1>5 DEF PipelineInv, PositionsAgree, TypeOK, None
<1>11. EndsAgree'
  <2>1. ~AudioFinished
    BY <1>1 DEF AudioFinished, buffer
  <2> QED
    BY <1>1, <2>1 DEF PipelineInv, EndsAgree
<1> QED
  BY <1>1, <1>7, <1>8, <1>9, <1>10, <1>11 DEF PipelineInv

(* The tolerances and the lengths bound the time. *)
LEMMA MinOfTwo ==
    ASSUME NEW a \in Int, NEW b \in Int
    PROVE  /\ Min({a, b}) \in {a, b} /\ Min({a, b}) <= a /\ Min({a, b}) <= b
           /\ Max({a, b}) \in {a, b} /\ Max({a, b}) >= a /\ Max({a, b}) >= b
<1>1. \E x \in {a, b} : \A y \in {a, b} : x <= y
  <2>1. a <= b \/ b <= a
    OBVIOUS
  <2> QED
    BY <2>1
<1>2. \E x \in {a, b} : \A y \in {a, b} : x >= y
  <2>1. a >= b \/ b >= a
    OBVIOUS
  <2> QED
    BY <2>1
<1>3. Min({a, b}) \in {a, b} /\ (\A y \in {a, b} : Min({a, b}) <= y)
  BY <1>1 DEF Min
<1>4. Max({a, b}) \in {a, b} /\ (\A y \in {a, b} : Max({a, b}) >= y)
  BY <1>2 DEF Max
<1> QED
  BY <1>3, <1>4

LEMMA LastTimeIsATime == LastTime \in Nat
<1>1. AudioLength \in Int /\ VideoLength \in Int
  BY LengthAssumption
<1>2. Max({AudioLength, VideoLength}) \in {AudioLength, VideoLength}
  BY <1>1, MinOfTwo
<1>3. Max({AudioLength, VideoLength}) \in Nat
  BY <1>2, LengthAssumption
<1> QED
  BY <1>3, ToleranceAssumption DEF LastTime

LEMMA TimePassesKeeps ==
    ASSUME PipelineInv, TimePasses
    PROVE  PipelineInv'
<1>1. /\ pc # "closed" /\ clock.phase # "FollowingAudio" /\ clock.media < LastTime
      /\ clock' = [clock EXCEPT !.media = @ + 1]
      /\ UNCHANGED <<pc, running, drained, reported, epoch, withVideo, source, sourceEnded, pending,
                     audio, video, device, mapping, tracker, reading, done>>
  BY DEF TimePasses, worker
<1>2. TypeOK
  BY DEF PipelineInv
<1>3. clock'.phase = clock.phase /\ clock'.stalledAt = clock.stalledAt
  BY <1>1, <1>2 DEF TypeOK
<1>4. TypeOK'
  <2>1. clock.media + 1 \in 0 .. LastTime
    BY <1>1, <1>2, LastTimeIsATime DEF TypeOK
  <2>2. clock' \in [phase : {"FollowingAudio", "Stalled", "Ended"}, media : 0 .. LastTime,
                    stalledAt : Nat, running : BOOLEAN]
    BY <1>1, <1>2, <2>1 DEF TypeOK
  <2> QED
    BY <1>1, <1>2, <2>2 DEF TypeOK
<1>5. BranchesAreFilled' /\ SourceAgrees' /\ DeviceAgrees' /\ FramesAgree'
  BY <1>1 DEF PipelineInv, BranchesAreFilled, NextIn, Waiting, SourceAgrees, DeviceAgrees, Heard,
              FramesAgree
<1>6. PositionsAgree' /\ EndsAgree'
  BY <1>1, <1>3 DEF PipelineInv, PositionsAgree, EndsAgree, AudioFinished
<1> QED
  BY <1>1, <1>4, <1>5, <1>6 DEF PipelineInv

LEMMA StallTimeoutKeeps ==
    ASSUME PipelineInv, StallTimeout
    PROVE  PipelineInv'
<1>1. /\ pc # "closed" /\ tracker' = [tracker EXCEPT !.overdue = TRUE]
      /\ UNCHANGED <<pc, running, drained, reported, epoch, withVideo, source, sourceEnded, pending,
                     audio, video, device, mapping, clock, reading, done>>
  BY DEF StallTimeout, worker
<1>2. TypeOK
  BY DEF PipelineInv
<1>3. tracker'.last = tracker.last /\ tracker' \in [last : Nat \cup {None}, overdue : BOOLEAN]
  BY <1>1, <1>2 DEF TypeOK
<1>4. TypeOK'
  BY <1>1, <1>2, <1>3 DEF TypeOK
<1>5. BranchesAreFilled' /\ SourceAgrees' /\ DeviceAgrees' /\ FramesAgree'
  BY <1>1 DEF PipelineInv, BranchesAreFilled, NextIn, Waiting, SourceAgrees, DeviceAgrees, Heard,
              FramesAgree
<1>6. PositionsAgree' /\ EndsAgree'
  BY <1>1, <1>3 DEF PipelineInv, PositionsAgree, EndsAgree, AudioFinished
<1> QED
  BY <1>1, <1>4, <1>5, <1>6 DEF PipelineInv

LEMMA FailKeeps ==
    ASSUME PipelineInv, Fail
    PROVE  PipelineInv'
<1>1. /\ pc' = "closed" /\ running' = FALSE /\ drained' = FALSE /\ reported' = FALSE
      /\ device' = [device EXCEPT !.running = FALSE]
      /\ UNCHANGED <<epoch, withVideo, source, sourceEnded, pending, audio, video, mapping, clock,
                     tracker, reading, done>>
  BY DEF Fail
<1>2. TypeOK
  BY DEF PipelineInv
<1>3. device'.buffer = device.buffer /\ device'.played = device.played
  BY <1>1, <1>2 DEF TypeOK
<1>4. TypeOK'
  <2>1. device' \in [buffer : Seq(Nat), played : Nat, running : BOOLEAN]
    BY <1>1, <1>2 DEF TypeOK
  <2>2. pc' \in Places
    BY <1>1 DEF Places
  <2> QED
    BY <1>1, <1>2, <1>3, <2>1, <2>2 DEF TypeOK
<1>5. BranchesAreFilled' /\ SourceAgrees' /\ DeviceAgrees' /\ FramesAgree'
  BY <1>1, <1>3 DEF PipelineInv, BranchesAreFilled, NextIn, Waiting, SourceAgrees, DeviceAgrees,
                    Heard, FramesAgree
<1>6. PositionsAgree' /\ EndsAgree'
  BY <1>1, <1>3 DEF PipelineInv, PositionsAgree, EndsAgree, AudioFinished
<1> QED
  BY <1>1, <1>4, <1>5, <1>6 DEF PipelineInv

(* Start, Pause and the end of playback set the device, the clock and the tracker. *)
LEMMA RunningIsSet ==
    ASSUME PipelineInv, NEW on \in BOOLEAN, SetRunning(on), pc = "loop",
           reported' \in BOOLEAN, reported' => AudioFinished /\ (withVideo => IsDrained(video)),
           UNCHANGED <<pc, drained, epoch, withVideo, source, sourceEnded, pending, audio, video,
                       mapping, reading, done>>
    PROVE  PipelineInv'
<1>1. /\ running' = on /\ device' = [device EXCEPT !.running = on]
      /\ clock' = [clock EXCEPT !.running = on] /\ tracker' = NoProgress
  BY DEF SetRunning
<1>2. TypeOK
  BY DEF PipelineInv
<1>3. device'.buffer = device.buffer /\ device'.played = device.played /\ device.played \in Nat
  BY <1>1, <1>2 DEF TypeOK
<1>4. /\ clock'.phase = clock.phase /\ clock'.stalledAt = clock.stalledAt /\ clock.stalledAt \in Nat
      /\ tracker'.last = -1
  BY <1>1, <1>2 DEF TypeOK, NoProgress, None
<1>5. TypeOK'
  <2>1. device' \in [buffer : Seq(Nat), played : Nat, running : BOOLEAN]
    BY <1>1, <1>2 DEF TypeOK
  <2>2. clock' \in [phase : {"FollowingAudio", "Stalled", "Ended"}, media : 0 .. LastTime,
                    stalledAt : Nat, running : BOOLEAN]
    BY <1>1, <1>2 DEF TypeOK
  <2>3. tracker' \in [last : Nat \cup {None}, overdue : BOOLEAN]
    BY <1>1 DEF NoProgress
  <2> QED
    BY <1>1, <1>2, <1>3, <2>1, <2>2, <2>3 DEF TypeOK
<1>6. BranchesAreFilled' /\ SourceAgrees' /\ DeviceAgrees' /\ FramesAgree'
  BY <1>1, <1>3 DEF PipelineInv, BranchesAreFilled, NextIn, Waiting, SourceAgrees, DeviceAgrees,
                    Heard, FramesAgree
<1>7. PositionsAgree' /\ EndsAgree'
  BY <1>1, <1>3, <1>4 DEF PipelineInv, PositionsAgree, EndsAgree, AudioFinished, IsDrained
<1> QED
  BY <1>5, <1>6, <1>7 DEF PipelineInv

LEMMA WorkerCommandsKeep ==
    ASSUME PipelineInv, Start \/ Pause \/ Complete
    PROVE  PipelineInv'
<1>1. reported => AudioFinished /\ (withVideo => IsDrained(video))
  BY DEF PipelineInv, EndsAgree
<1>2. reported \in BOOLEAN
  BY DEF PipelineInv, TypeOK
<1>3. CASE Start
  BY <1>1, <1>2, <1>3, RunningIsSet DEF Start
<1>4. CASE Pause
  BY <1>1, <1>2, <1>4, RunningIsSet DEF Pause
<1>5. CASE Complete
  BY <1>5, RunningIsSet DEF Complete
<1> QED
  BY <1>3, <1>4, <1>5

(* The end of a step touches neither branch, device nor clock. *)
LEMMA StepEnds ==
    ASSUME PipelineInv, EndOfStep, pc = "source", pc' = "loop",
           source' \in [Tracks -> Nat], \A t \in Tracks : source'[t] <= Length[t],
           sourceEnded' \in BOOLEAN,
           \/ pending' = NoPacket
           \/ pending' \in [track : Tracks, number : Nat, epoch : 0 .. MaxEpoch],
           BranchesAreFilled', SourceAgrees',
           audio'.frame = audio.frame, video'.frame = video.frame,
           video' \in Branches(VideoLength), Len(video'.queue) <= QueueCapacity,
           audio.phase = "DecoderDrained" => audio' = audio,
           video.phase = "DecoderDrained" => video' = video
    PROVE  PipelineInv'
<1>1. /\ drained' = (IsDrained(audio) /\ (withVideo => IsDrained(video)))
      /\ UNCHANGED <<running, reported, epoch, withVideo, device, mapping, clock, tracker, reading, done>>
  BY DEF EndOfStep
<1>2. TypeOK
  BY DEF PipelineInv
<1>3. TypeOK'
  <2>1. drained' \in BOOLEAN
    BY <1>1 DEF IsDrained
  <2>2. audio' \in Branches(AudioLength) /\ Len(audio'.queue) <= QueueCapacity
    BY DEF BranchesAreFilled, WellFilled
  <2>3. pc' \in Places
    BY DEF Places
  <2> QED
    BY <1>1, <1>2, <2>1, <2>2, <2>3 DEF TypeOK
<1>4. DeviceAgrees' /\ FramesAgree'
  BY <1>1 DEF PipelineInv, DeviceAgrees, Heard, FramesAgree
<1>5. PositionsAgree'
  BY <1>1 DEF PipelineInv, PositionsAgree
<1>6. EndsAgree'
  BY <1>1 DEF PipelineInv, EndsAgree, AudioFinished, IsDrained
<1> QED
  BY <1>3, <1>4, <1>5, <1>6 DEF PipelineInv

LEMMA NothingReadKeeps ==
    ASSUME PipelineInv, NothingRead
    PROVE  PipelineInv'
<1>1. /\ pc = "source" /\ pc' = "loop" /\ EndOfStep
      /\ UNCHANGED <<source, sourceEnded, pending, audio, video, epoch, withVideo, done>>
  BY DEF NothingRead, EndOfStep
<1>2. TypeOK
  BY DEF PipelineInv
<1>3. BranchesAreFilled' /\ SourceAgrees'
  BY <1>1 DEF PipelineInv, BranchesAreFilled, NextIn, Waiting, SourceAgrees
<1>4. /\ source \in [Tracks -> Nat] /\ (\A t \in Tracks : source[t] <= Length[t])
      /\ sourceEnded \in BOOLEAN
      /\ \/ pending = NoPacket
         \/ pending \in [track : Tracks, number : Nat, epoch : 0 .. MaxEpoch]
      /\ video \in Branches(VideoLength) /\ Len(video.queue) <= QueueCapacity
  BY <1>2 DEF TypeOK
<1> QED
  BY <1>1, <1>3, <1>4, StepEnds

(* At the end of the source both inputs end. *)
LEMMA ReadEndKeeps ==
    ASSUME PipelineInv, ReadEnd
    PROVE  PipelineInv'
<1>1. /\ pc = "source" /\ pending = NoPacket /\ ~sourceEnded /\ sourceEnded' = TRUE
      /\ \A t \in Tracks : source[t] = Length[t]
      /\ audio' = EndInput(audio)
      /\ video' = IF withVideo THEN EndInput(video) ELSE video
      /\ pc' = IF audio.epoch # epoch \/ (withVideo /\ video.epoch # epoch) THEN "impossible" ELSE "loop"
      /\ EndOfStep
      /\ UNCHANGED <<source, pending, epoch, withVideo, done>>
  BY DEF ReadEnd, EndOfStep
<1>2. TypeOK /\ SourceAgrees
  BY DEF PipelineInv
<1>3. /\ NextIn("audio") = AudioLength /\ NextIn("video") = VideoLength
      /\ AudioLength \in Nat /\ VideoLength \in Nat
  <2>1. NextIn("audio") = source["audio"] /\ NextIn("video") = source["video"]
    BY <1>1, <1>2 DEF NextIn, Waiting, NoPacket, TypeOK, Tracks
  <2> QED
    BY <1>1, <1>2, <2>1, NextInRange DEF Tracks
<1>4. /\ audio \in Branches(AudioLength) /\ video \in Branches(VideoLength)
      /\ done["audio"] \in Nat /\ done["video"] \in Nat
      /\ WellFilled(audio, done["audio"], AudioLength, AudioLength)
      /\ withVideo => WellFilled(video, done["video"], VideoLength, VideoLength)
  BY <1>2, <1>3, DeviceTypes DEF PipelineInv, BranchesAreFilled
<1>5. /\ WellFilled(audio', done["audio"], AudioLength, AudioLength)
      /\ audio'.epoch = audio.epoch /\ audio'.frame = audio.frame
      /\ audio.phase = "DecoderDrained" => audio' = audio
  BY <1>1, <1>3, <1>4, InputEnds
<1>6. withVideo =>
         /\ WellFilled(video', done["video"], VideoLength, VideoLength)
         /\ video'.epoch = video.epoch /\ video'.frame = video.frame
         /\ video.phase = "DecoderDrained" => video' = video
  BY <1>1, <1>3, <1>4, InputEnds
<1>7. pc' = "loop"
  BY <1>1, <1>2 DEF SourceAgrees
<1>8. NextIn("audio")' = AudioLength /\ NextIn("video")' = VideoLength
  BY <1>1, <1>3 DEF NextIn, Waiting
<1>9. BranchesAreFilled'
  BY <1>1, <1>5, <1>6, <1>8 DEF BranchesAreFilled
<1>10. SourceAgrees'
  BY <1>1, <1>2, <1>5, <1>6, <1>7 DEF SourceAgrees
<1>11. video' \in Branches(VideoLength) /\ Len(video'.queue) <= QueueCapacity
  <2>1. Len(video.queue) <= QueueCapacity
    BY <1>2 DEF TypeOK
  <2> QED
    BY <1>1, <1>4, <1>6, <2>1 DEF WellFilled
<1>12. video'.frame = video.frame /\ (video.phase = "DecoderDrained" => video' = video)
  BY <1>1, <1>6
<1>13. /\ source' \in [Tracks -> Nat] /\ (\A t \in Tracks : source'[t] <= Length[t])
       /\ sourceEnded' \in BOOLEAN /\ pending' = NoPacket
  BY <1>1, <1>2 DEF TypeOK
<1> QED
  BY <1>1, <1>5, <1>7, <1>9, <1>10, <1>11, <1>12, <1>13, StepEnds

(***************************************************************************)
(* The next packet of a track finds its branch open and of its epoch: it   *)
(* enters the queue, waits while the queue is full, or belongs to nobody.  *)
(***************************************************************************)
LEMMA PacketIsDispatched ==
    ASSUME PipelineInv, pc = "source", ~sourceEnded, UNCHANGED sourceEnded,
           NEW p \in [track : Tracks, number : Nat, epoch : 0 .. MaxEpoch],
           p.epoch = epoch, p.number < Length[p.track], p.number = NextIn(p.track),
           source' \in [Tracks -> Nat], source'[p.track] = p.number + 1,
           \A t \in Tracks \ {p.track} : source'[t] = source[t] /\ pending.track # t,
           Dispatch(p), EndOfStep
    PROVE  PipelineInv'
<1>1. TypeOK /\ SourceAgrees /\ UNCHANGED <<epoch, withVideo, done>>
  BY DEF PipelineInv, EndOfStep
<1>2. /\ audio \in Branches(AudioLength) /\ video \in Branches(VideoLength)
      /\ done["audio"] \in Nat /\ done["video"] \in Nat
      /\ AudioLength \in Nat /\ VideoLength \in Nat
      /\ Length["audio"] = AudioLength /\ Length["video"] = VideoLength
      /\ NextIn("audio") \in 0 .. AudioLength /\ NextIn("video") \in 0 .. VideoLength
      /\ WellFilled(audio, done["audio"], NextIn("audio"), AudioLength)
      /\ withVideo => WellFilled(video, done["video"], NextIn("video"), VideoLength)
      /\ audio.phase = "Feeding" /\ audio.epoch = epoch
      /\ withVideo => video.phase = "Feeding" /\ video.epoch = epoch
      /\ Len(video.queue) <= QueueCapacity
  BY <1>1, NextInRange, DeviceTypes DEF PipelineInv, BranchesAreFilled, SourceAgrees, TypeOK
<1>3. p.track \in {"audio", "video"} /\ p.number \in Nat /\ p # NoPacket /\ NoPacket.track = "none"
  BY DEF Tracks, NoPacket
<1>4. \A t \in Tracks : source'[t] <= Length[t]
  <2>1. \A t \in Tracks : source[t] <= Length[t]
    BY <1>1 DEF TypeOK
  <2>2. p.number + 1 <= Length[p.track]
    BY <1>2, <1>3
  <2> QED
    BY <2>1, <2>2
<1>5. \A t \in Tracks \ {p.track} : source[t] \in Nat /\ NextIn(t) = source[t]
  <2>1. source \in [Tracks -> Nat]
    BY <1>1 DEF TypeOK
  <2> TAKE t \in Tracks \ {p.track}
  <2>2. source[t] \in Nat /\ pending.track # t
    BY <2>1
  <2> QED
    BY <2>2 DEF NextIn, Waiting
<1>6. CASE p.track = "audio"
  <2>1. /\ audio' = IF QueueIsFull(audio) THEN audio ELSE Push(audio, p.number)
        /\ pending' = IF QueueIsFull(audio) THEN p ELSE NoPacket
        /\ pc' = IF Rejected(audio, p) THEN "impossible" ELSE "loop"
        /\ UNCHANGED video
    BY <1>6 DEF Dispatch
  <2>2. pc' = "loop"
    BY <1>2, <2>1 DEF Rejected
  <2>3. /\ NextIn("video")' = NextIn("video")
        /\ NextIn("audio")' = IF QueueIsFull(audio) THEN p.number ELSE p.number + 1
    BY <1>3, <1>5, <1>6, <2>1 DEF NextIn, Waiting, Tracks
  <2>4. WellFilled(audio', done["audio"], NextIn("audio")', AudioLength)
    BY <1>2, <1>6, <2>1, <2>3, PacketIsPushed
  <2>5. audio'.epoch = audio.epoch /\ audio'.phase = audio.phase /\ audio'.frame = audio.frame
    BY <1>2, <1>6, <2>1, PacketIsPushed
  <2>6. BranchesAreFilled'
    BY <1>1, <1>2, <2>1, <2>3, <2>4 DEF BranchesAreFilled
  <2>7. SourceAgrees'
    BY <1>1, <1>2, <1>3, <1>6, <2>1, <2>2, <2>5 DEF SourceAgrees
  <2>8. sourceEnded' \in BOOLEAN
    BY <1>1 DEF TypeOK
  <2>9. pending' = NoPacket \/ pending' \in [track : Tracks, number : Nat, epoch : 0 .. MaxEpoch]
    BY <2>1
  <2> QED
    BY <1>2, <1>4, <2>1, <2>2, <2>5, <2>6, <2>7, <2>8, <2>9, StepEnds
<1>7. CASE p.track = "video" /\ withVideo
  <2>1. /\ video' = IF QueueIsFull(video) THEN video ELSE Push(video, p.number)
        /\ pending' = IF QueueIsFull(video) THEN p ELSE NoPacket
        /\ pc' = IF Rejected(video, p) THEN "impossible" ELSE "loop"
        /\ UNCHANGED audio
    BY <1>7 DEF Dispatch
  <2>2. pc' = "loop"
    BY <1>2, <1>7, <2>1 DEF Rejected
  <2>3. /\ NextIn("audio")' = NextIn("audio")
        /\ NextIn("video")' = IF QueueIsFull(video) THEN p.number ELSE p.number + 1
    BY <1>3, <1>5, <1>7, <2>1 DEF NextIn, Waiting, Tracks
  <2>4. WellFilled(video', done["video"], NextIn("video")', VideoLength)
    BY <1>2, <1>7, <2>1, <2>3, PacketIsPushed
  <2>5. video'.epoch = video.epoch /\ video'.phase = video.phase /\ video'.frame = video.frame
    BY <1>2, <1>7, <2>1, PacketIsPushed
  <2>6. BranchesAreFilled'
    BY <1>1, <1>2, <2>1, <2>3, <2>4 DEF BranchesAreFilled
  <2>7. SourceAgrees'
    BY <1>1, <1>2, <1>3, <1>7, <2>1, <2>2, <2>5 DEF SourceAgrees
  <2>8. sourceEnded' \in BOOLEAN
    BY <1>1 DEF TypeOK
  <2>9. pending' = NoPacket \/ pending' \in [track : Tracks, number : Nat, epoch : 0 .. MaxEpoch]
    BY <2>1
  <2>10. video' \in Branches(VideoLength) /\ Len(video'.queue) <= QueueCapacity
    BY <2>4 DEF WellFilled
  <2> QED
    BY <1>2, <1>4, <1>7, <2>1, <2>2, <2>5, <2>6, <2>7, <2>8, <2>9, <2>10, StepEnds
<1>8. CASE p.track = "video" /\ ~withVideo
  <2>1. pending' = NoPacket /\ pc' = "loop" /\ UNCHANGED <<audio, video>>
    BY <1>8 DEF Dispatch
  <2>2. NextIn("audio")' = NextIn("audio")
    BY <1>3, <1>5, <1>8, <2>1 DEF NextIn, Waiting, Tracks
  <2>3. BranchesAreFilled'
    BY <1>1, <1>2, <1>8, <2>1, <2>2 DEF BranchesAreFilled
  <2>4. SourceAgrees'
    BY <1>1, <1>2, <1>8, <2>1 DEF SourceAgrees
  <2>5. sourceEnded' \in BOOLEAN
    BY <1>1 DEF TypeOK
  <2> QED
    BY <1>2, <1>4, <2>1, <2>3, <2>4, <2>5, StepEnds
<1> QED
  BY <1>3, <1>6, <1>7, <1>8

LEMMA RetryPacketKeeps ==
    ASSUME PipelineInv, RetryPacket
    PROVE  PipelineInv'
<1> DEFINE p == pending
<1>1. /\ pc = "source" /\ p # NoPacket /\ Dispatch(p) /\ EndOfStep
      /\ UNCHANGED <<source, sourceEnded>>
  BY DEF RetryPacket
<1>2. TypeOK /\ SourceAgrees
  BY DEF PipelineInv
<1>3. p \in [track : Tracks, number : Nat, epoch : 0 .. MaxEpoch]
  BY <1>1, <1>2 DEF TypeOK
<1>4. ~sourceEnded /\ p.epoch = epoch /\ p.number + 1 = source[p.track]
  BY <1>1, <1>2 DEF SourceAgrees
<1>5. /\ source \in [Tracks -> Nat] /\ p.number \in Nat /\ p.track \in Tracks
      /\ source[p.track] <= Length[p.track] /\ Length[p.track] \in Nat
  BY <1>2, <1>3, NextInRange DEF TypeOK, Tracks
<1>6. p.number = NextIn(p.track) /\ p.number < Length[p.track]
  BY <1>4, <1>5 DEF NextIn, Waiting
<1>7. \A t \in Tracks \ {p.track} : source'[t] = source[t] /\ pending.track # t
  BY <1>1
<1>8. source' \in [Tracks -> Nat] /\ source'[p.track] = p.number + 1
  BY <1>1, <1>4, <1>5
<1> HIDE DEF p
<1> QED
  BY <1>1, <1>3, <1>4, <1>6, <1>7, <1>8, PacketIsDispatched

LEMMA ReadPacketKeeps ==
    ASSUME PipelineInv, ReadPacket
    PROVE  PipelineInv'
<1>1. PICK t \in Tracks :
         /\ source[t] < Length[t]
         /\ source' = [source EXCEPT ![t] = @ + 1]
         /\ Dispatch([track |-> t, number |-> source[t], epoch |-> epoch])
  BY DEF ReadPacket
<1> DEFINE p == [track |-> t, number |-> source[t], epoch |-> epoch]
<1>2. pc = "source" /\ pending = NoPacket /\ ~sourceEnded /\ EndOfStep /\ UNCHANGED sourceEnded
  BY DEF ReadPacket
<1>3. TypeOK
  BY DEF PipelineInv
<1>4. /\ source \in [Tracks -> Nat] /\ source[t] \in Nat /\ epoch \in 0 .. MaxEpoch
      /\ \A u \in Tracks : pending.track # u
  BY <1>2, <1>3 DEF TypeOK, NoPacket, Tracks
<1>5. p \in [track : Tracks, number : Nat, epoch : 0 .. MaxEpoch]
  BY <1>4
<1>6. p.track = t /\ p.number = source[t] /\ p.epoch = epoch
  OBVIOUS
<1>7. NextIn(t) = source[t]
  BY <1>4 DEF NextIn, Waiting
<1>8. /\ source' \in [Tracks -> Nat] /\ source'[t] = source[t] + 1
      /\ \A u \in Tracks \ {t} : source'[u] = source[u]
  BY <1>1, <1>4
<1>9. Dispatch(p)
  BY <1>1
<1> HIDE DEF p
<1> QED
  BY <1>1, <1>2, <1>4, <1>5, <1>6, <1>7, <1>8, <1>9, PacketIsDispatched

(* A seek leaves empty branches of the new epoch, and a clock without anchor. *)
LEMMA SeekKeeps ==
    ASSUME PipelineInv, NEW target \in Nat, NEW resume \in BOOLEAN, Seek(target, resume)
    PROVE  PipelineInv'
<1>1. /\ pc = "loop" /\ epoch < MaxEpoch /\ epoch' = epoch + 1
      /\ sourceEnded' = FALSE /\ pending' = NoPacket
      /\ audio' = NewBranch(epoch + 1)
      /\ video' = IF withVideo THEN NewBranch(epoch + 1) ELSE video
      /\ clock' = [NewClock EXCEPT !.running = resume]
      /\ tracker' = NoProgress
      /\ running' = resume /\ drained' = FALSE /\ reported' = FALSE
      /\ done' = source'
      /\ UNCHANGED <<pc, withVideo, reading>>
  BY DEF Seek
<1>2. PICK landed \in [Tracks -> 0 .. target] :
         source' = [t \in Tracks |-> Min({landed[t], Length[t]})]
  BY DEF Seek
<1>3. PICK played \in {0, device.played} :
         /\ device' = [buffer |-> <<>>, played |-> played, running |-> resume]
         /\ mapping' = [boundary |-> target, first |-> None, base |-> played]
  BY DEF Seek
<1>4. TypeOK
  BY DEF PipelineInv
<1>5. played \in Nat /\ epoch \in 0 .. MaxEpoch /\ epoch + 1 \in 0 .. MaxEpoch /\ epoch + 1 \in Nat
  BY <1>1, <1>4, DeviceTypes, MaxEpochAssumption DEF TypeOK
<1>6. /\ AudioLength \in Nat /\ VideoLength \in Nat
      /\ Length["audio"] = AudioLength /\ Length["video"] = VideoLength
  BY LengthAssumption DEF Length, Tracks
<1>7. \A t \in Tracks : source'[t] \in 0 .. Length[t]
  <2> TAKE t \in Tracks
  <2>1. landed[t] \in Int /\ landed[t] >= 0 /\ Length[t] \in Nat /\ Length[t] \in Int
    BY <1>2, <1>6 DEF Tracks
  <2>2. Min({landed[t], Length[t]}) \in {landed[t], Length[t]} /\ Min({landed[t], Length[t]}) <= Length[t]
    BY <2>1, MinOfTwo
  <2>3. source'[t] = Min({landed[t], Length[t]})
    BY <1>2
  <2> QED
    BY <2>1, <2>2, <2>3
<1>8. source' \in [Tracks -> Nat]
  <2>1. source' = [t \in Tracks |-> source'[t]] /\ (\A t \in Tracks : Length[t] \in Nat)
    BY <1>2, <1>6 DEF Tracks
  <2>2. \A t \in Tracks : source'[t] \in Nat
    BY <1>7, <2>1
  <2> QED
    BY <2>1, <2>2
<1>9. /\ WellFilled(audio', source'["audio"], source'["audio"], AudioLength)
      /\ withVideo => WellFilled(video', source'["video"], source'["video"], VideoLength)
  BY <1>1, <1>5, <1>6, <1>7, NewBranchFilled DEF Tracks
<1>10. /\ audio'.epoch = epoch + 1 /\ audio'.phase = "Feeding" /\ audio'.frame = None
       /\ withVideo => video'.epoch = epoch + 1 /\ video'.phase = "Feeding" /\ video'.frame = None
  BY <1>1 DEF NewBranch
<1>11. /\ clock'.phase = "FollowingAudio" /\ tracker'.last = -1
       /\ device'.buffer = <<>> /\ device'.played = played
       /\ mapping'.first = None /\ mapping'.base = played
  BY <1>1, <1>3 DEF NewClock, NoProgress, None
<1>12. TypeOK'
  <2>1. /\ audio' \in Branches(AudioLength) /\ Len(audio'.queue) <= QueueCapacity
    BY <1>9 DEF WellFilled
  <2>2. video' \in Branches(VideoLength) /\ Len(video'.queue) <= QueueCapacity
    <3>1. video \in Branches(VideoLength) /\ Len(video.queue) <= QueueCapacity /\ withVideo \in BOOLEAN
      BY <1>4 DEF TypeOK
    <3> QED
      BY <1>1, <1>9, <3>1 DEF WellFilled
  <2>3. clock' \in [phase : {"FollowingAudio", "Stalled", "Ended"}, media : 0 .. LastTime,
                    stalledAt : Nat, running : BOOLEAN]
    BY <1>1, LastTimeIsATime DEF NewClock
  <2>4. tracker' \in [last : Nat \cup {None}, overdue : BOOLEAN]
    BY <1>1 DEF NoProgress
  <2>5. /\ device' \in [buffer : Seq(Nat), played : Nat, running : BOOLEAN]
        /\ Len(device'.buffer) <= DeviceCapacity
    BY <1>3, <1>5, DeviceCapacityAssumption
  <2>6. mapping' \in [boundary : Nat, first : Nat \cup {None}, base : Nat]
    BY <1>3, <1>5
  <2>7. \A t \in Tracks : source'[t] <= Length[t]
    BY <1>6, <1>7 DEF Tracks
  <2>8. epoch' \in 0 .. MaxEpoch /\ done' \in [Tracks -> Nat]
    BY <1>1, <1>5, <1>8
  <2> QED
    BY <1>1, <1>4, <1>8, <2>1, <2>2, <2>3, <2>4, <2>5, <2>6, <2>7, <2>8 DEF TypeOK
<1>13. BranchesAreFilled'
  <2>1. \A t \in Tracks : source'[t] \in Nat /\ NextIn(t)' = source'[t]
    <3> TAKE t \in Tracks
    <3>1. source'[t] \in Nat /\ pending'.track # t
      BY <1>1, <1>8 DEF NoPacket, Tracks
    <3> QED
      BY <3>1 DEF NextIn, Waiting
  <2> QED
    BY <1>1, <1>9, <2>1 DEF BranchesAreFilled, Tracks
<1>14. SourceAgrees'
  BY <1>1, <1>10 DEF SourceAgrees
<1>15. DeviceAgrees' /\ FramesAgree'
  BY <1>1, <1>10, <1>11 DEF PipelineInv, DeviceAgrees, Heard, FramesAgree
<1>16. PositionsAgree'
  BY <1>1, <1>5, <1>11 DEF PositionsAgree
<1>17. EndsAgree'
  BY <1>1, <1>11 DEF PipelineInv, EndsAgree
<1> QED
  BY <1>1, <1>12, <1>13, <1>14, <1>15, <1>16, <1>17 DEF PipelineInv

-----------------------------------------------------------------------------
(* The video branch and the clock *)

VideoStates == [branch : Branches(VideoLength), done : Nat]

(* A state inside VideoPipeline::step, when m is the next packet to come. *)
VideoWell(v, m) ==
    /\ v \in VideoStates
    /\ WellFilled(v.branch, v.done, m, VideoLength)
    /\ v.branch.frame # None => v.branch.frame >= mapping.boundary

LEMMA FollowsOn == \A b, c, d : Follows(b, c) /\ Follows(c, d) => Follows(b, d)
BY DEF Follows

(* An output is the end, becomes the pending frame, or lies before the boundary. *)
LEMMA VideoIsReceived ==
    ASSUME TypeOK, NEW m \in 0 .. VideoLength, NEW v, VideoWell(v, m)
    PROVE  VideoWell(ReceiveVideo(v), m) /\ Follows(v.branch, ReceiveVideo(v).branch)
<1> DEFINE b == v.branch
           n == v.done
           eos == VideoLength
           t == TakeOutput(b)
           r == ReceiveVideo(v)
<1>1. /\ b \in Branches(eos) /\ n \in Nat /\ eos \in Nat /\ WellFilled(b, n, m, eos)
      /\ v = [branch |-> b, done |-> n]
  BY LengthAssumption DEF VideoWell, VideoStates
<1>2. CASE b.phase = "DecoderDrained" \/ b.frame # None \/ ~HasOutput(b)
  <2>1. b.phase = "DecoderDrained" => ~HasOutput(b)
    BY <1>1 DEF WellFilled, Staged, HasOutput
  <2>2. r = v
    BY <1>2, <2>1 DEF ReceiveVideo
  <2> QED
    BY <2>2 DEF Follows
<1>3. CASE b.phase # "DecoderDrained" /\ b.frame = None /\ HasOutput(b)
  <2>1. /\ Head(b.decoded) = n /\ n \in 0 .. eos /\ t \in Branches(eos)
        /\ n = eos => b.phase = "Draining"
    BY <1>1, <1>3, OutputIsNext
  <2>2. t.epoch = b.epoch /\ t.phase = b.phase /\ t.frame = None
    BY <1>1, <1>3 DEF TakeOutput, Branches
  <2>3. CASE n = eos
    <3> DEFINE c == [t EXCEPT !.phase = "DecoderDrained"]
    <3>1. WellFilled(c, n, m, eos)
      BY <1>1, <1>3, <2>1, <2>3, EndLeaves
    <3>2. c \in Branches(eos) /\ c.epoch = b.epoch /\ c.frame = None
      BY <2>1, <2>2 DEF Branches, Phases
    <3>3. r = [v EXCEPT !.branch = c]
      BY <1>3, <2>1, <2>3 DEF ReceiveVideo
    <3> HIDE DEF c, r
    <3>4. r.branch = c /\ r.done = n /\ r \in VideoStates
      BY <1>1, <3>2, <3>3 DEF VideoStates
    <3> QED
      BY <1>3, <2>1, <2>3, <3>1, <3>2, <3>4 DEF VideoWell, Follows, r
  <2>4. CASE n # eos /\ n >= mapping.boundary
    <3> DEFINE c == [t EXCEPT !.frame = n]
    <3>1. WellFilled(c, n, m, eos)
      BY <1>1, <1>3, <2>1, <2>4, OutputLeaves
    <3>2. c \in Branches(eos) /\ c.epoch = b.epoch /\ c.frame = n /\ c.phase = b.phase
      <4>1. n \in None .. eos
        BY <1>1, <2>1 DEF None
      <4> HIDE DEF t
      <4> QED
        BY <2>1, <2>2, <4>1 DEF Branches
    <3>3. r = [v EXCEPT !.branch = c]
      BY <1>3, <2>1, <2>4 DEF ReceiveVideo
    <3> HIDE DEF c, r
    <3>4. r.branch = c /\ r.done = n /\ r \in VideoStates
      BY <1>1, <3>2, <3>3 DEF VideoStates
    <3> QED
      BY <1>3, <2>4, <3>1, <3>2, <3>4 DEF VideoWell, Follows, r
  <2>5. CASE n # eos /\ ~(n >= mapping.boundary)
    <3>1. WellFilled(t, n + 1, m, eos)
      BY <1>1, <1>3, <2>1, <2>5, OutputLeaves
    <3>2. r = [v EXCEPT !.branch = t, !.done = n + 1]
      BY <1>3, <2>1, <2>5 DEF ReceiveVideo
    <3> HIDE DEF t, r
    <3>3. r.branch = t /\ r.done = n + 1 /\ r \in VideoStates
      <4>1. n + 1 \in Nat /\ v \in VideoStates
        BY <1>1 DEF VideoWell
      <4> QED
        BY <2>1, <3>2, <4>1 DEF VideoStates
    <3> QED
      BY <1>3, <2>2, <3>1, <3>3 DEF VideoWell, Follows, r
  <2> QED
    BY <2>3, <2>4, <2>5
<1> QED
  BY <1>2, <1>3

LEMMA FrameIsPresented ==
    ASSUME TypeOK, NEW m \in 0 .. VideoLength, NEW v, VideoWell(v, m), NEW now, NEW accepted
    PROVE  /\ VideoWell(PresentPendingFrame(v, now, accepted), m)
           /\ Follows(v.branch, PresentPendingFrame(v, now, accepted).branch)
<1> DEFINE b == v.branch
           c == [b EXCEPT !.frame = None]
           n == v.done
           r == PresentPendingFrame(v, now, accepted)
           leaves == \/ Decision(b, now) = "Drop"
                     \/ Decision(b, now) = "Present" /\ accepted
<1>1. /\ b \in Branches(VideoLength) /\ n \in Nat /\ VideoLength \in Nat
      /\ WellFilled(b, n, m, VideoLength)
  BY LengthAssumption DEF VideoWell, VideoStates
<1>2. CASE ~leaves
  <2>1. r = v
    BY <1>2 DEF PresentPendingFrame
  <2> QED
    BY <2>1 DEF Follows
<1>3. CASE leaves
  <2>1. b.frame # None
    BY <1>3 DEF Decision
  <2>2. r = [branch |-> c, done |-> n + 1]
    BY <1>3 DEF PresentPendingFrame
  <2>3. WellFilled(c, n + 1, m, VideoLength)
    BY <1>1, <2>1, FrameLeaves
  <2>4. c \in Branches(VideoLength) /\ c.frame = None /\ c.epoch = b.epoch /\ c.phase = b.phase
    BY <1>1, NoneIsNoNumber DEF Branches
  <2>5. b.phase # "DecoderDrained"
    BY <1>1, <2>1 DEF WellFilled, Staged
  <2> HIDE DEF c, r
  <2>6. r.branch = c /\ r.done = n + 1 /\ r \in VideoStates
    BY <1>1, <2>2, <2>4 DEF VideoStates
  <2> QED
    BY <2>3, <2>4, <2>5, <2>6 DEF VideoWell, Follows, r
<1> QED
  BY <1>2, <1>3

LEMMA VideoInputIsSubmitted ==
    ASSUME TypeOK, NEW m \in 0 .. VideoLength, NEW v, VideoWell(v, m)
    PROVE  /\ VideoWell([v EXCEPT !.branch = SubmitOneInput(@, VideoLength)], m)
           /\ Follows(v.branch, [v EXCEPT !.branch = SubmitOneInput(@, VideoLength)].branch)
<1> DEFINE b == v.branch
           c == SubmitOneInput(b, VideoLength)
           r == [v EXCEPT !.branch = c]
<1>1. /\ b \in Branches(VideoLength) /\ v \in VideoStates /\ v.done \in Nat
      /\ WellFilled(b, v.done, m, VideoLength) /\ VideoLength \in Nat
      /\ b.frame # None => b.frame >= mapping.boundary
  BY LengthAssumption DEF VideoWell, VideoStates
<1>2. WellFilled(c, v.done, m, VideoLength) /\ Follows(b, c) /\ c.frame = b.frame
  BY <1>1, InputIsSubmitted
<1>3. c \in Branches(VideoLength)
  BY <1>2 DEF WellFilled
<1> HIDE DEF c
<1>4. r.branch = c /\ r.done = v.done /\ r \in VideoStates
  BY <1>1, <1>3 DEF VideoStates
<1> HIDE DEF r
<1>5. VideoWell(r, m) /\ Follows(b, r.branch)
  BY <1>1, <1>2, <1>4 DEF VideoWell
<1> QED
  BY <1>5 DEF r, c

Clocks ==
    [phase : {"FollowingAudio", "Stalled", "Ended"}, media : 0 .. LastTime, stalledAt : Nat,
     running : BOOLEAN]

(* Audio time is known, and every clock shows a time within the bounds. *)
LEMMA TimeIsATime ==
    ASSUME TypeOK, DeviceAgrees
    PROVE  AudioTime \in Nat /\ (\A c \in Clocks : TimeOf(c) \in 0 .. LastTime)
<1>1. AudioTime \in Nat
  <2>1. CASE mapping.first = None
    BY <2>1, DeviceTypes DEF AudioTime
  <2>2. CASE mapping.first # None
    <3>1. mapping.first \in Nat /\ mapping.base <= device.played
      BY <2>2, DeviceTypes DEF DeviceAgrees, Heard
    <3> QED
      BY <2>2, <3>1, DeviceTypes DEF AudioTime
  <2> QED
    BY <2>1, <2>2
<1>2. ASSUME NEW c \in Clocks PROVE TimeOf(c) \in 0 .. LastTime
  <2>1. AudioTime \in Int /\ LastTime \in Int
    BY <1>1, LastTimeIsATime
  <2>2. Min({AudioTime, LastTime}) \in {AudioTime, LastTime} /\ Min({AudioTime, LastTime}) <= LastTime
    BY <2>1, MinOfTwo
  <2>3. Min({AudioTime, LastTime}) \in 0 .. LastTime
    BY <1>1, <2>2, LastTimeIsATime
  <2>4. c.media \in 0 .. LastTime
    BY DEF Clocks
  <2> QED
    BY <2>3, <2>4 DEF TimeOf
<1> QED
  BY <1>1, <1>2

(* The video branch goes from one well filled state to the next. *)
LEMMA VideoStepEffect ==
    ASSUME PipelineInv, NEW accepted \in BOOLEAN, VideoStep(accepted)
    PROVE  \E v \in VideoStates :
              /\ VideoWell(v, NextIn("video"))
              /\ Follows(video, v.branch)
              /\ video' = v.branch
              /\ done' = [done EXCEPT !["video"] = v.done]
<1> DEFINE m == NextIn("video")
           c1 == IF reading.finished THEN clock ELSE Restored(clock)
           now == TimeOf(c1)
           v0 == [branch |-> video, done |-> done["video"]]
           v1 == ReceiveVideo(v0)
           v2 == PresentPendingFrame(v1, now, accepted)
           v3 == [v2 EXCEPT !.branch = SubmitOneInput(@, VideoLength)]
<1>1. TypeOK /\ m \in 0 .. VideoLength /\ VideoLength \in Nat
  BY NextInRange DEF PipelineInv
<1>2. withVideo
  BY DEF VideoStep, PipelineInv, SourceAgrees
<1>3. VideoWell(v0, m)
  <2>1. v0 \in VideoStates
    BY <1>1, DeviceTypes DEF VideoStates
  <2>2. /\ WellFilled(video, done["video"], m, VideoLength)
        /\ video.frame # None => video.frame >= mapping.boundary
    BY <1>2 DEF PipelineInv, BranchesAreFilled, FramesAgree
  <2> QED
    BY <2>1, <2>2 DEF VideoWell
<1>4. video' = v3.branch /\ done' = [done EXCEPT !["video"] = v3.done]
  BY DEF VideoStep
<1>5. v0.branch = video
  OBVIOUS
<1> HIDE DEF m, now, v0
<1>6. VideoWell(v1, m) /\ Follows(v0.branch, v1.branch)
  BY <1>1, <1>3, VideoIsReceived
<1> HIDE DEF v1
<1>7. VideoWell(v2, m) /\ Follows(v1.branch, v2.branch)
  BY <1>1, <1>6, FrameIsPresented
<1> HIDE DEF v2
<1>8. VideoWell(v3, m) /\ Follows(v2.branch, v3.branch)
  BY <1>1, <1>7, VideoInputIsSubmitted
<1> HIDE DEF v3
<1>9. Follows(video, v3.branch)
  BY <1>5, <1>6, <1>7, <1>8, FollowsOn
<1>10. v3 \in VideoStates
  BY <1>8 DEF VideoWell
<1> QED
  BY <1>4, <1>8, <1>9, <1>10 DEF m

(***************************************************************************)
(* The clock that VideoStep leaves behind: of its type, ended only with    *)
(* the audio, and stalled at a position nothing remembered lies behind.    *)
(***************************************************************************)
LEMMA ClockStepEffect ==
    ASSUME PipelineInv, NEW accepted \in BOOLEAN, VideoStep(accepted)
    PROVE  /\ clock' \in Clocks
           /\ clock'.phase = "Ended" => AudioFinished
           /\ tracker' \in [last : Nat \cup {None}, overdue : BOOLEAN]
           /\ tracker'.last <= device.played
           /\ clock'.phase = "Stalled" => tracker'.last <= clock'.stalledAt
           /\ clock'.phase = "Stalled" =>
                 \/ clock'.stalledAt = reading.position
                 \/ clock.phase = "Stalled" /\ clock'.stalledAt = clock.stalledAt
<1> DEFINE c1 == IF reading.finished THEN clock ELSE Restored(clock)
           c2 == IF reading.finished /\ c1.phase # "Ended" THEN Finish(c1) ELSE c1
           at == reading.position
<1>1. /\ pc = "video" /\ TypeOK /\ DeviceAgrees
      /\ clock' \in {c2, Fallback(c2)}
      /\ tracker' = Observed
  BY DEF VideoStep, PipelineInv
<1>2. /\ clock \in Clocks /\ at \in Nat /\ device.played \in Nat
      /\ tracker \in [last : Nat \cup {None}, overdue : BOOLEAN]
  BY <1>1 DEF TypeOK, Clocks
<1>3. /\ tracker.last <= at /\ at <= device.played /\ tracker.last <= device.played
      /\ clock.phase = "Stalled" => tracker.last <= clock.stalledAt
      /\ clock.phase = "Ended" => AudioFinished
      /\ reading.finished => AudioFinished
  BY <1>1 DEF PipelineInv, PositionsAgree, EndsAgree
<1>4. \A c \in Clocks : TimeOf(c) \in 0 .. LastTime
  BY <1>1, TimeIsATime
<1>5. /\ tracker' \in [last : Nat \cup {None}, overdue : BOOLEAN]
      /\ (tracker'.last = tracker.last /\ at = tracker.last) \/ tracker'.last = at
  BY <1>1, <1>2 DEF Observed
<1>6. /\ c1 \in Clocks
      /\ c1.phase = "Ended" => clock.phase = "Ended"
      /\ c1.phase = "Stalled" => clock.phase = "Stalled" /\ c1 = clock
      /\ c1.phase = "Stalled" /\ ~reading.finished => at <= clock.stalledAt
  <2>1. CASE reading.finished
    BY <1>2, <2>1
  <2>2. CASE ~reading.finished
    <3>1. clock.stalledAt \in Nat
      BY <1>2 DEF Clocks
    <3>2. CASE clock.phase = "Stalled" /\ at > clock.stalledAt
      <4>1. c1 = [clock EXCEPT !.phase = "FollowingAudio"]
        BY <2>2, <3>2 DEF Restored
      <4> QED
        BY <1>2, <4>1 DEF Clocks
    <3>3. CASE ~(clock.phase = "Stalled" /\ at > clock.stalledAt)
      <4>1. c1 = clock
        BY <2>2, <3>3 DEF Restored
      <4> HIDE DEF c1
      <4> QED
        BY <1>2, <3>1, <3>3, <4>1
    <3> QED
      BY <3>2, <3>3
  <2> QED
    BY <2>1, <2>2
<1> HIDE DEF c1
<1>7. /\ c2 \in Clocks
      /\ c2.phase = "Ended" => AudioFinished
      /\ c2.phase = "Stalled" => ~reading.finished /\ c2 = c1
  <2>1. CASE reading.finished /\ c1.phase # "Ended"
    <3>1. c2 = [c1 EXCEPT !.phase = "Ended", !.media = TimeOf(c1)]
      BY <2>1 DEF Finish
    <3>2. TimeOf(c1) \in 0 .. LastTime
      BY <1>4, <1>6
    <3> QED
      BY <1>3, <1>6, <2>1, <3>1, <3>2 DEF Clocks
  <2>2. CASE ~(reading.finished /\ c1.phase # "Ended")
    <3>1. c2 = c1
      BY <2>2
    <3> HIDE DEF c2
    <3> QED
      BY <1>3, <1>6, <2>2, <3>1
  <2> QED
    BY <2>1, <2>2
<1> HIDE DEF c2
<1>8. c2.phase = "Stalled" => tracker'.last <= c2.stalledAt
  BY <1>2, <1>3, <1>5, <1>6, <1>7
<1>9. CASE clock' = c2
  <2>1. clock'.phase = "Stalled" => clock.phase = "Stalled" /\ clock'.stalledAt = clock.stalledAt
    BY <1>6, <1>7, <1>9
  <2>2. tracker'.last <= device.played
    BY <1>3, <1>5
  <2> QED
    BY <1>5, <1>7, <1>8, <1>9, <2>1, <2>2
<1>10. CASE clock' = Fallback(c2) /\ c2.phase = "FollowingAudio"
  <2>1. clock' = [c2 EXCEPT !.phase = "Stalled", !.media = TimeOf(c2), !.stalledAt = at]
    BY <1>10 DEF Fallback
  <2>2. TimeOf(c2) \in 0 .. LastTime
    BY <1>4, <1>7
  <2>3. clock' \in Clocks /\ clock'.phase = "Stalled" /\ clock'.stalledAt = at
    BY <1>2, <1>7, <2>1, <2>2 DEF Clocks
  <2>4. tracker'.last = at
    BY <1>5
  <2> QED
    BY <1>2, <1>3, <1>5, <2>3, <2>4
<1>11. CASE clock' = Fallback(c2) /\ c2.phase # "FollowingAudio"
  BY <1>9, <1>11 DEF Fallback
<1> QED
  BY <1>1, <1>9, <1>10, <1>11

LEMMA VideoStepKeeps ==
    ASSUME PipelineInv, NEW accepted \in BOOLEAN, VideoStep(accepted)
    PROVE  PipelineInv'
<1>1. PICK v \in VideoStates :
         /\ VideoWell(v, NextIn("video"))
         /\ Follows(video, v.branch)
         /\ video' = v.branch
         /\ done' = [done EXCEPT !["video"] = v.done]
  BY VideoStepEffect
<1>2. /\ pc = "video" /\ reading' = NoReading /\ tracker' = Observed
      /\ pc' = IF PositionWentBackward \/ UnexpectedEos(video, VideoLength)
               THEN "impossible" ELSE "source"
      /\ UNCHANGED <<running, drained, reported, epoch, withVideo, source, sourceEnded, pending, audio,
                     device, mapping>>
  BY DEF VideoStep, worker
<1>3. TypeOK /\ withVideo
  BY <1>2 DEF PipelineInv, SourceAgrees
<1>4. pc' = "source"
  <2>1. ~PositionWentBackward
    <3>1. tracker.last <= reading.position /\ (mapping.first # None => mapping.base <= device.played)
      BY <1>2 DEF PipelineInv, PositionsAgree, DeviceAgrees, Heard
    <3>2. tracker.last \in Int /\ reading.position \in Int /\ mapping.base \in Int /\ device.played \in Int
      BY <1>3 DEF TypeOK, None
    <3> QED
      BY <3>1, <3>2 DEF PositionWentBackward
  <2>2. ~UnexpectedEos(video, VideoLength)
    <3>1. SUFFICES ASSUME UnexpectedEos(video, VideoLength) PROVE FALSE
      OBVIOUS
    <3>2. /\ WellFilled(video, done["video"], NextIn("video"), VideoLength)
          /\ video \in Branches(VideoLength) /\ done["video"] \in Nat
          /\ NextIn("video") \in 0 .. VideoLength /\ VideoLength \in Nat
      BY <1>3, DeviceTypes, NextInRange DEF PipelineInv, BranchesAreFilled
    <3>3. Head(video.decoded) = done["video"] /\ (done["video"] = VideoLength => video.phase = "Draining")
      BY <3>1, <3>2, OutputIsNext DEF UnexpectedEos
    <3> QED
      BY <3>1, <3>3 DEF UnexpectedEos
  <2> QED
    BY <1>2, <2>1, <2>2
<1>5. /\ v.branch \in Branches(VideoLength) /\ Len(v.branch.queue) <= QueueCapacity
      /\ WellFilled(v.branch, v.done, NextIn("video"), VideoLength)
      /\ v.done \in Nat
      /\ v.branch.frame # None => v.branch.frame >= mapping.boundary
  BY <1>1 DEF VideoWell, VideoStates, WellFilled
<1>6. done'["video"] = v.done /\ done'["audio"] = done["audio"] /\ done' \in [Tracks -> Nat]
  BY <1>1, <1>3, <1>5 DEF TypeOK, Tracks
<1>7. /\ clock' \in Clocks
      /\ clock'.phase = "Ended" => AudioFinished
      /\ tracker' \in [last : Nat \cup {None}, overdue : BOOLEAN]
      /\ tracker'.last <= device.played
      /\ clock'.phase = "Stalled" => tracker'.last <= clock'.stalledAt
  BY ClockStepEffect
<1>8. TypeOK'
  <2>1. reading' \in [finished : BOOLEAN, position : Nat] /\ pc' \in Places
    BY <1>2, <1>4 DEF NoReading, Places
  <2> QED
    BY <1>1, <1>2, <1>3, <1>5, <1>6, <1>7, <2>1 DEF TypeOK, Clocks
<1>9. BranchesAreFilled'
  BY <1>1, <1>2, <1>3, <1>5, <1>6 DEF PipelineInv, BranchesAreFilled, NextIn, Waiting
<1>10. SourceAgrees'
  BY <1>1, <1>2, <1>3, <1>4 DEF PipelineInv, SourceAgrees, Follows
<1>11. DeviceAgrees' /\ FramesAgree'
  BY <1>1, <1>2, <1>3, <1>5, <1>6 DEF PipelineInv, DeviceAgrees, Heard, FramesAgree
<1>12. PositionsAgree'
  BY <1>2, <1>4, <1>7 DEF PositionsAgree
<1>13. EndsAgree'
  <2>1. reading'.finished = FALSE /\ AudioFinished' = AudioFinished
    BY <1>2 DEF NoReading, AudioFinished
  <2>2. video.phase = "DecoderDrained" => video' = video
    BY <1>1 DEF Follows
  <2> QED
    BY <1>2, <1>4, <1>7, <2>1, <2>2 DEF PipelineInv, EndsAgree, IsDrained
<1> QED
  BY <1>4, <1>8, <1>9, <1>10, <1>11, <1>12, <1>13 DEF PipelineInv

-----------------------------------------------------------------------------
(* The invariant of the pipeline *)

LEMMA InvAtFirst == Init => PipelineInv
<1> SUFFICES ASSUME Init PROVE PipelineInv
  OBVIOUS
<1>1. /\ pc = "loop" /\ running = FALSE /\ drained = FALSE /\ reported = FALSE
      /\ epoch = 0 /\ withVideo \in BOOLEAN
      /\ source = [t \in Tracks |-> 0] /\ sourceEnded = FALSE /\ pending = NoPacket
      /\ audio = NewBranch(0) /\ video = NewBranch(0)
      /\ device = [buffer |-> <<>>, played |-> 0, running |-> FALSE]
      /\ mapping = [boundary |-> 0, first |-> None, base |-> 0]
      /\ clock = NewClock /\ tracker = NoProgress /\ reading = NoReading
      /\ done = [t \in Tracks |-> 0]
  BY DEF Init
<1>2. AudioLength \in Nat /\ VideoLength \in Nat /\ (\A t \in Tracks : Length[t] \in Nat)
  BY LengthAssumption DEF Length, Tracks
<1>3. /\ WellFilled(NewBranch(0), 0, 0, AudioLength)
      /\ WellFilled(NewBranch(0), 0, 0, VideoLength)
  BY <1>2, NewBranchFilled
<1>4. TypeOK
  <2>1. /\ audio \in Branches(AudioLength) /\ video \in Branches(VideoLength)
        /\ Len(audio.queue) <= QueueCapacity /\ Len(video.queue) <= QueueCapacity
    BY <1>1, <1>3 DEF WellFilled
  <2>2. /\ source \in [Tracks -> Nat] /\ done \in [Tracks -> Nat]
        /\ \A t \in Tracks : source[t] <= Length[t]
    BY <1>1, <1>2
  <2>3. /\ device \in [buffer : Seq(Nat), played : Nat, running : BOOLEAN]
        /\ Len(device.buffer) <= DeviceCapacity
        /\ mapping \in [boundary : Nat, first : Nat \cup {None}, base : Nat]
    BY <1>1, DeviceCapacityAssumption
  <2>4. /\ clock \in [phase : {"FollowingAudio", "Stalled", "Ended"}, media : 0 .. LastTime,
                      stalledAt : Nat, running : BOOLEAN]
        /\ tracker \in [last : Nat \cup {None}, overdue : BOOLEAN]
        /\ reading \in [finished : BOOLEAN, position : Nat]
    BY <1>1, LastTimeIsATime DEF NewClock, NoProgress, NoReading
  <2>5. epoch \in 0 .. MaxEpoch /\ pc \in Places
    BY <1>1, MaxEpochAssumption DEF Places
  <2> QED
    BY <1>1, <2>1, <2>2, <2>3, <2>4, <2>5 DEF TypeOK
<1>5. BranchesAreFilled
  BY <1>1, <1>3 DEF BranchesAreFilled, NextIn, Waiting, NoPacket, Tracks
<1>6. SourceAgrees
  BY <1>1 DEF SourceAgrees, NewBranch
<1>7. DeviceAgrees /\ FramesAgree
  BY <1>1 DEF DeviceAgrees, Heard, FramesAgree, NewBranch
<1>8. PositionsAgree /\ EndsAgree
  BY <1>1 DEF PositionsAgree, EndsAgree, NewClock, NoProgress, NoReading, None
<1> QED
  BY <1>1, <1>4, <1>5, <1>6, <1>7, <1>8 DEF PipelineInv

LEMMA StutterKeeps ==
    ASSUME PipelineInv, UNCHANGED vars
    PROVE  PipelineInv'
<1>1. UNCHANGED <<pc, running, drained, reported, epoch, withVideo, source, sourceEnded, pending, audio,
                  video, device, mapping, clock, tracker, reading, done>>
  BY DEF vars
<1>2. TypeOK' /\ pc' # "impossible"
  BY <1>1 DEF PipelineInv, TypeOK
<1>3. BranchesAreFilled' /\ SourceAgrees' /\ DeviceAgrees' /\ FramesAgree'
  BY <1>1 DEF PipelineInv, BranchesAreFilled, NextIn, Waiting, SourceAgrees, DeviceAgrees, Heard,
              FramesAgree
<1>4. PositionsAgree' /\ EndsAgree'
  BY <1>1 DEF PipelineInv, PositionsAgree, EndsAgree, AudioFinished, IsDrained
<1> QED
  BY <1>2, <1>3, <1>4 DEF PipelineInv

LEMMA InvIsKept == PipelineInv /\ [Next]_vars => PipelineInv'
<1> SUFFICES ASSUME PipelineInv, [Next]_vars PROVE PipelineInv'
  OBVIOUS
<1>1. CASE AudioStep
  BY <1>1, AudioStepKeeps
<1>2. CASE ReadPosition
  BY <1>2, ReadPositionKeeps
<1>3. ASSUME NEW accepted \in BOOLEAN, VideoStep(accepted) PROVE PipelineInv'
  BY <1>3, VideoStepKeeps
<1>4. CASE RetryPacket
  BY <1>4, RetryPacketKeeps
<1>5. CASE ReadPacket
  BY <1>5, ReadPacketKeeps
<1>6. CASE ReadEnd
  BY <1>6, ReadEndKeeps
<1>7. CASE NothingRead
  BY <1>7, NothingReadKeeps
<1>8. CASE Start \/ Pause \/ Complete
  BY <1>8, WorkerCommandsKeep
<1>9. ASSUME NEW target \in 0 .. LastTime, NEW resume \in BOOLEAN, Seek(target, resume)
      PROVE  PipelineInv'
  <2>1. target \in Nat
    BY LastTimeIsATime
  <2> QED
    BY <1>9, <2>1, SeekKeeps
<1>10. CASE Fail
  BY <1>10, FailKeeps
<1>11. CASE AudioDecodes
  BY <1>11, AudioDecodesKeeps
<1>12. CASE VideoDecodes
  BY <1>12, VideoDecodesKeeps
<1>13. CASE DevicePlays
  BY <1>13, DevicePlaysKeeps
<1>14. CASE TimePasses
  BY <1>14, TimePassesKeeps
<1>15. CASE StallTimeout
  BY <1>15, StallTimeoutKeeps
<1>16. CASE Closed \/ UNCHANGED vars
  BY <1>16, StutterKeeps DEF Closed
<1> QED
  BY <1>1, <1>2, <1>3, <1>4, <1>5, <1>6, <1>7, <1>8, <1>9, <1>10, <1>11, <1>12, <1>13, <1>14, <1>15,
     <1>16 DEF Next, PipelineSteps, SourceReads

(* The branches, the device and the clock agree in every reachable state. *)
THEOREM PipelineIsSound == Spec => []PipelineInv
<1> QED
  BY InvAtFirst, InvIsKept, PTL DEF Spec

(* A branch that has drained has got every frame. *)
LEMMA DrainedIsDone ==
    ASSUME NEW eos \in Nat, NEW m \in 0 .. eos, NEW n \in Nat, NEW b \in Branches(eos),
           WellFilled(b, n, m, eos), b.phase = "DecoderDrained"
    PROVE  n = eos
<1>1. /\ b.frame = None /\ b.input = None /\ b.decoded = <<>> /\ b.accepted = <<>> /\ b.queue = <<>>
      /\ m = eos /\ ~HoldsEnd(b, eos) /\ Contents(b, n, m)
  BY NoneIsNoNumber DEF WellFilled, Staged, HoldsEnd
<1>2. PICK d, a, i, q \in Nat : Placed(b, n, d, a, i, q, m)
  BY <1>1 DEF Contents
<1> QED
  BY <1>1, <1>2 DEF Placed, Filled

-----------------------------------------------------------------------------
(* What it means for playback *)

(***************************************************************************)
(* No reachable state shows an error that no platform reported: packets    *)
(* find their branch open and of their epoch, decoders end behind the last *)
(* packet, the audio position never goes back, whatever a flush does to    *)
(* the counter of the device.                                              *)
(***************************************************************************)
THEOREM NeverFailsByItself == Spec => []NoInternalError
<1>1. PipelineInv => NoInternalError
  BY DEF PipelineInv, NoInternalError
<1> QED
  BY <1>1, PipelineIsSound, PTL

(* Every packet of a track stands in one place on its way, and in order. *)
THEOREM PacketsFlowInOrder == Spec => []PacketsFlow
<1>1. PipelineInv => PacketsFlow
  <2> SUFFICES ASSUME PipelineInv PROVE PacketsFlow
    OBVIOUS
  <2>1. TypeOK /\ SourceAgrees /\ BranchesAreFilled
    BY DEF PipelineInv
  <2>2. /\ Length["audio"] = AudioLength /\ Length["video"] = VideoLength
        /\ audio \in Branches(AudioLength) /\ video \in Branches(VideoLength)
    BY <2>1, NextInRange, DeviceTypes
  <2>3. pending # NoPacket =>
           /\ pending.number + 1 = source[pending.track] /\ audio.phase = "Feeding"
           /\ withVideo => video.phase = "Feeding"
    BY <2>1 DEF SourceAgrees
  <2>4. \A t \in Tracks : pending.track = t => pending # NoPacket
    BY DEF NoPacket, Tracks
  <2>5. InOrder(audio, "audio")
    BY <2>1, <2>2, <2>3, <2>4, HeldInOrder DEF BranchesAreFilled, Tracks
  <2>6. withVideo => InOrder(video, "video")
    BY <2>1, <2>2, <2>3, <2>4, HeldInOrder DEF BranchesAreFilled, Tracks
  <2> QED
    BY <2>5, <2>6 DEF PacketsFlow
<1> QED
  BY <1>1, PipelineIsSound, PTL

(* The media time of the audio clock is the time of the PCM played next. *)
THEOREM AudioClockIsTrue == Spec => []ClockTellsWhatIsHeard
<1>1. PipelineInv => ClockTellsWhatIsHeard
  BY DEF PipelineInv, DeviceAgrees, Heard, ClockTellsWhatIsHeard, AudioTime, Run
<1> QED
  BY <1>1, PipelineIsSound, PTL

(***************************************************************************)
(* The tail clock runs only behind the last PCM, and completion means that *)
(* the user has got both tracks to their end.                              *)
(***************************************************************************)
THEOREM NothingEndsEarly == Spec => []CompletionIsComplete
<1>1. PipelineInv => CompletionIsComplete
  <2> SUFFICES ASSUME PipelineInv PROVE CompletionIsComplete
    OBVIOUS
  <2>1. TypeOK /\ SourceAgrees /\ BranchesAreFilled /\ EndsAgree
    BY DEF PipelineInv
  <2>2. /\ NextIn("audio") \in 0 .. AudioLength /\ NextIn("video") \in 0 .. VideoLength
        /\ AudioLength \in Nat /\ VideoLength \in Nat
        /\ audio \in Branches(AudioLength) /\ video \in Branches(VideoLength)
        /\ done["audio"] \in Nat /\ done["video"] \in Nat
    BY <2>1, NextInRange, DeviceTypes
  <2>3. TailAfterAudio
    BY <2>1 DEF EndsAgree, TailAfterAudio
  <2>4. ASSUME reported PROVE NothingIsLeft
    <3>1. /\ audio.phase = "DecoderDrained" /\ device.buffer = <<>>
          /\ withVideo => video.phase = "DecoderDrained"
      BY <2>1, <2>4 DEF EndsAgree, AudioFinished, IsDrained
    <3>2. sourceEnded
      BY <2>1, <3>1 DEF SourceAgrees
    <3>3. done["audio"] = AudioLength
      BY <2>1, <2>2, <3>1, DrainedIsDone DEF BranchesAreFilled
    <3>4. withVideo => done["video"] = VideoLength
      BY <2>1, <2>2, <3>1, DrainedIsDone DEF BranchesAreFilled
    <3> QED
      BY <3>1, <3>2, <3>3, <3>4 DEF NothingIsLeft
  <2> QED
    BY <2>3, <2>4 DEF CompletionIsComplete
<1> QED
  BY <1>1, PipelineIsSound, PTL

(* Nothing before the seek boundary is heard or waits to be shown. *)
THEOREM BoundaryHolds == Spec => []NothingBeforeBoundary
<1>1. PipelineInv => NothingBeforeBoundary
  <2> SUFFICES ASSUME PipelineInv PROVE NothingBeforeBoundary
    OBVIOUS
  <2> DEFINE buffer == device.buffer
             at == mapping.first + device.played - mapping.base
  <2>1. TypeOK /\ DeviceAgrees /\ FramesAgree
    BY DEF PipelineInv
  <2>2. ASSUME NEW i \in DOMAIN buffer PROVE buffer[i] >= mapping.boundary
    <3>1. mapping.first # None
      BY <2>1, <2>2 DEF DeviceAgrees, Heard
    <3>2. /\ mapping.first >= mapping.boundary /\ mapping.base <= device.played
          /\ Run(buffer, at)
      BY <2>1, <3>1 DEF DeviceAgrees, Heard
    <3>3. at \in Int /\ at >= mapping.boundary /\ mapping.boundary \in Nat
      BY <2>1, <3>1, <3>2, DeviceTypes
    <3>4. i \in Nat /\ i >= 1
      BY <2>1, <2>2, DeviceTypes
    <3> HIDE DEF buffer, at
    <3>5. buffer[i] = at + i - 1
      BY <2>2, <3>2 DEF Run
    <3> QED
      BY <3>3, <3>4, <3>5
  <2> QED
    BY <2>1, <2>2 DEF NothingBeforeBoundary, FramesAgree
<1> QED
  BY <1>1, PipelineIsSound, PTL

-----------------------------------------------------------------------------
(* Media time *)

LEMMA MinGrows ==
    ASSUME NEW a \in Int, NEW b \in Int, NEW c \in Int, a <= b
    PROVE  Min({a, c}) <= Min({b, c})
<1>1. /\ Min({a, c}) \in {a, c} /\ Min({a, c}) <= a /\ Min({a, c}) <= c
      /\ Min({b, c}) \in {b, c} /\ Min({b, c}) <= b /\ Min({b, c}) <= c
  BY MinOfTwo
<1> HIDE DEF Min
<1> QED
  BY <1>1

(* Time does not go back when the clock is kept and audio time does not go back. *)
LEMMA ClockKeptTimeKept ==
    ASSUME PipelineInv, PipelineInv', clock'.phase = clock.phase, clock'.media >= clock.media,
           AudioTime' >= AudioTime
    PROVE  MediaTime' >= MediaTime
<1>1. AudioTime \in Int /\ AudioTime' \in Int /\ LastTime \in Int
  <2>1. AudioTime \in Nat
    BY TimeIsATime DEF PipelineInv
  <2>2. AudioTime' \in Nat
    <3>1. (TypeOK /\ DeviceAgrees => AudioTime \in Nat)'
      BY TimeIsATime, PTL
    <3> QED
      BY <3>1 DEF PipelineInv
  <2> QED
    BY <2>1, <2>2, LastTimeIsATime
<1>2. Min({AudioTime, LastTime}) <= Min({AudioTime', LastTime})
  BY <1>1, MinGrows
<1>3. /\ MediaTime = IF clock.phase = "FollowingAudio" THEN Min({AudioTime, LastTime}) ELSE clock.media
      /\ MediaTime' = IF clock'.phase = "FollowingAudio" THEN Min({AudioTime', LastTime}) ELSE clock'.media
  BY DEF MediaTime, TimeOf
<1>4. /\ Min({AudioTime, LastTime}) \in {AudioTime, LastTime}
      /\ Min({AudioTime', LastTime}) \in {AudioTime', LastTime}
  BY <1>1, MinOfTwo
<1> QED
  BY <1>1, <1>2, <1>3, <1>4

(* No position that is remembered lies before the anchor of audio time. *)
AnchorAgrees ==
    /\ pc = "video" => mapping.base <= reading.position
    /\ clock.phase = "Stalled" => mapping.base <= clock.stalledAt

LEMMA AnchorStays ==
    ASSUME AnchorAgrees, mapping'.base = mapping.base,
           clock'.phase = clock.phase, clock'.stalledAt = clock.stalledAt,
           pc' # "video" \/ (pc' = pc /\ reading' = reading)
    PROVE  AnchorAgrees'
BY DEF AnchorAgrees

(* Only a seek moves the anchor, and it starts the clock anew. *)
LEMMA AnchorNext ==
    ASSUME PipelineInv, AnchorAgrees, [Next]_vars
    PROVE  AnchorAgrees'
<1>1. /\ TypeOK /\ DeviceAgrees /\ clock \in Clocks
      /\ mapping \in [boundary : Nat, first : Nat \cup {None}, base : Nat]
  BY DEF PipelineInv, TypeOK, Clocks
<1>2. CASE AudioStep
  <2>1. PICK s \in AudioStates :
           /\ mapping' = [mapping EXCEPT !.first = s.first]
           /\ pc' = IF withVideo THEN "position" ELSE "source"
    BY <1>2, AudioStepEffect
  <2>2. mapping'.base = mapping.base /\ pc' # "video"
    BY <1>1, <2>1
  <2>3. clock' = clock
    BY <1>2 DEF AudioStep
  <2> QED
    BY <2>2, <2>3, AnchorStays
<1>3. CASE ReadPosition
  <2>1. reading'.position = device.played /\ UNCHANGED <<mapping, clock, device>>
    BY <1>3 DEF ReadPosition
  <2>2. mapping.base <= device.played
    BY <1>1, DeviceTypes DEF DeviceAgrees, Heard
  <2> QED
    BY <2>1, <2>2 DEF AnchorAgrees
<1>4. ASSUME NEW accepted \in BOOLEAN, VideoStep(accepted) PROVE AnchorAgrees'
  <2>1. pc = "video" /\ pc' # "video" /\ mapping' = mapping
    BY <1>4 DEF VideoStep
  <2>2. clock'.phase = "Stalled" =>
           \/ clock'.stalledAt = reading.position
           \/ clock.phase = "Stalled" /\ clock'.stalledAt = clock.stalledAt
    BY <1>4, ClockStepEffect
  <2> QED
    BY <2>1, <2>2 DEF AnchorAgrees
<1>5. CASE RetryPacket \/ ReadPacket \/ ReadEnd \/ NothingRead
  <2>1. pc' \in {"loop", "impossible"}
    BY <1>5 DEF RetryPacket, ReadPacket, ReadEnd, NothingRead, Dispatch
  <2>2. UNCHANGED <<mapping, clock>>
    BY <1>5 DEF RetryPacket, ReadPacket, ReadEnd, NothingRead, EndOfStep
  <2> QED
    BY <2>1, <2>2, AnchorStays
<1>6. CASE Start \/ Pause \/ Complete
  <2>1. PICK on \in BOOLEAN : SetRunning(on) /\ UNCHANGED <<mapping, pc, reading>>
    BY <1>6 DEF Start, Pause, Complete
  <2>2. clock' = [clock EXCEPT !.running = on]
    BY <2>1 DEF SetRunning
  <2>3. clock'.phase = clock.phase /\ clock'.stalledAt = clock.stalledAt
    BY <1>1, <2>2 DEF Clocks
  <2> QED
    BY <2>1, <2>3, AnchorStays
<1>7. ASSUME NEW target \in 0 .. LastTime, NEW resume \in BOOLEAN, Seek(target, resume)
      PROVE  AnchorAgrees'
  <2>1. pc = "loop" /\ pc' = pc /\ clock' = [NewClock EXCEPT !.running = resume]
    BY <1>7 DEF Seek
  <2>2. clock'.phase = "FollowingAudio"
    BY <2>1 DEF NewClock
  <2> QED
    BY <2>1, <2>2 DEF AnchorAgrees
<1>8. CASE Fail
  <2>1. pc' = "closed" /\ UNCHANGED <<mapping, clock>>
    BY <1>8 DEF Fail
  <2> QED
    BY <2>1, AnchorStays
<1>9. CASE AudioDecodes \/ VideoDecodes \/ StallTimeout \/ DevicePlays
  <2>1. UNCHANGED <<pc, reading, mapping, clock>>
    BY <1>9 DEF AudioDecodes, VideoDecodes, StallTimeout, DevicePlays, worker
  <2> QED
    BY <2>1, AnchorStays
<1>10. CASE TimePasses
  <2>1. clock' = [clock EXCEPT !.media = @ + 1] /\ UNCHANGED <<pc, reading, mapping>>
    BY <1>10 DEF TimePasses, worker
  <2>2. clock'.phase = clock.phase /\ clock'.stalledAt = clock.stalledAt
    BY <1>1, <2>1 DEF Clocks
  <2> QED
    BY <2>1, <2>2, AnchorStays
<1>11. CASE Closed \/ UNCHANGED vars
  <2>1. UNCHANGED <<pc, reading, mapping, clock>>
    BY <1>11 DEF Closed, vars, worker
  <2> QED
    BY <2>1, AnchorStays
<1> QED
  BY <1>2, <1>3, <1>4, <1>5, <1>6, <1>7, <1>8, <1>9, <1>10, <1>11
  DEF Next, PipelineSteps, SourceReads

(* The time of audio that plays is not cut off at LastTime. *)
LEMMA AudioTimeIsEarly ==
    ASSUME PipelineInv, mapping.first # None
    PROVE  AudioTime \in Nat /\ AudioTime <= LastTime
<1>1. TypeOK /\ DeviceAgrees /\ SourceAgrees /\ BranchesAreFilled
  BY DEF PipelineInv
<1> DEFINE n == done["audio"]
           upto == IF HoldsEnd(audio, AudioLength) THEN AudioLength + 1 ELSE NextIn("audio")
<1>2. /\ n \in Nat /\ audio \in Branches(AudioLength) /\ AudioLength \in Nat /\ VideoLength \in Nat
      /\ NextIn("audio") \in 0 .. AudioLength
  BY <1>1, DeviceTypes, NextInRange
<1>3. upto \in Nat /\ upto <= AudioLength + 1
  BY <1>2
<1>4. Contents(audio, n, upto)
  BY <1>1 DEF BranchesAreFilled, WellFilled
<1> HIDE DEF n, upto
<1>5. n <= upto
  <2>1. PICK d, a, i, q \in Nat : Placed(audio, n, d, a, i, q, upto)
    BY <1>4 DEF Contents
  <2>2. /\ d = n + Filled(audio.frame) /\ a = d + Len(audio.decoded)
        /\ i = a + Len(audio.accepted) /\ q = i + Filled(audio.input)
        /\ upto = q + Len(audio.queue)
    BY <2>1 DEF Placed
  <2>3. /\ Filled(audio.frame) \in Nat /\ Filled(audio.input) \in Nat
        /\ Len(audio.decoded) \in Nat /\ Len(audio.accepted) \in Nat /\ Len(audio.queue) \in Nat
    BY <1>2 DEF Filled, Branches
  <2> DEFINE f == Filled(audio.frame)
             g == Filled(audio.input)
             k == Len(audio.decoded)
             l == Len(audio.accepted)
             r == Len(audio.queue)
  <2>4. /\ f \in Nat /\ g \in Nat /\ k \in Nat /\ l \in Nat /\ r \in Nat
        /\ d = n + f /\ a = d + k /\ i = a + l /\ q = i + g /\ upto = q + r
    BY <2>2, <2>3
  <2> HIDE DEF f, g, k, l, r
  <2> QED
    BY <1>2, <1>3, <2>4 DEF n
<1>6. AudioTime \in Nat /\ AudioTime <= n
  <2>1. AudioTime \in Nat
    BY <1>1, TimeIsATime
  <2>2. AudioTime + Len(device.buffer) = n
    BY <1>1 DEF AudioTime, DeviceAgrees, Heard, n
  <2>3. Len(device.buffer) \in Nat
    BY <1>1, DeviceTypes
  <2> QED
    BY <1>2, <2>1, <2>2, <2>3
<1>7. LastTime \in Nat /\ AudioLength + 1 <= LastTime
  <2>1. AudioLength \in Int /\ VideoLength \in Int
    BY <1>2
  <2>2. Max({AudioLength, VideoLength}) \in {AudioLength, VideoLength}
        /\ Max({AudioLength, VideoLength}) >= AudioLength
    BY <2>1, MinOfTwo
  <2> DEFINE longest == Max({AudioLength, VideoLength})
  <2> HIDE DEF longest
  <2>3. longest \in Nat /\ longest >= AudioLength
    BY <1>2, <2>2 DEF longest
  <2>4. LastTime = longest + LateTolerance + 1
    BY DEF LastTime, longest
  <2> QED
    BY <1>2, <2>3, <2>4, ToleranceAssumption
<1> QED
  BY <1>2, <1>3, <1>5, <1>6, <1>7

(* VideoStep hands the time over, or audio that moves again takes it back. *)
LEMMA VideoStepKeepsTime ==
    ASSUME PipelineInv, AnchorAgrees, NEW accepted \in BOOLEAN, VideoStep(accepted)
    PROVE  MediaTime' = MediaTime \/ AudioTookTheClockBack
<1> DEFINE c1 == IF reading.finished THEN clock ELSE Restored(clock)
           c2 == IF reading.finished /\ c1.phase # "Ended" THEN Finish(c1) ELSE c1
           at == reading.position
<1>1. /\ pc = "video" /\ TypeOK /\ DeviceAgrees
      /\ clock' = c2 \/ (clock' = Fallback(c2) /\ ~reading.finished /\ AudioStalled)
      /\ AudioTime' = AudioTime
  BY DEF VideoStep, PipelineInv, AudioTime
<1>2. clock \in Clocks /\ at \in Nat /\ clock.stalledAt \in Nat /\ tracker.last \in Int
  BY <1>1 DEF TypeOK, Clocks, None
<1>3. tracker.last <= at /\ (clock.phase = "Stalled" => tracker.last <= clock.stalledAt)
  BY <1>1 DEF PipelineInv, PositionsAgree
<1>4. /\ TimeOf(clock) = MediaTime
      /\ MediaTime' = IF clock'.phase = "FollowingAudio" THEN Min({AudioTime, LastTime}) ELSE clock'.media
  BY <1>1 DEF MediaTime, TimeOf
<1>5. CASE reading.finished
  <2>1. c1 = clock /\ clock' = c2
    BY <1>1, <1>5
  <2>2. CASE clock.phase = "Ended"
    <3>1. clock' = clock
      BY <2>1, <2>2
    <3> QED
      BY <1>4, <3>1 DEF TimeOf
  <2>3. CASE clock.phase # "Ended"
    <3>1. clock' = [clock EXCEPT !.phase = "Ended", !.media = TimeOf(clock)]
      BY <1>5, <2>1, <2>3 DEF Finish
    <3>2. clock'.phase = "Ended" /\ clock'.media = TimeOf(clock)
      BY <1>2, <3>1 DEF Clocks
    <3> QED
      BY <1>4, <3>2
  <2> QED
    BY <2>2, <2>3
<1>6. CASE ~reading.finished /\ clock.phase = "Stalled" /\ at > clock.stalledAt
  <2>1. c2 = [clock EXCEPT !.phase = "FollowingAudio"]
    BY <1>6 DEF Restored
  <2>2. ~AudioStalled
    BY <1>2, <1>3, <1>6 DEF AudioStalled
  <2>3. clock' = [clock EXCEPT !.phase = "FollowingAudio"]
    BY <1>1, <2>1, <2>2
  <2>4. clock.phase = "Stalled" /\ clock'.phase = "FollowingAudio"
    BY <1>2, <1>6, <2>3 DEF Clocks
  <2>5. at <= device.played /\ mapping.base <= clock.stalledAt
    BY <1>1, <1>6 DEF PipelineInv, PositionsAgree, AnchorAgrees
  <2>6. device.played \in Nat /\ mapping.base \in Nat /\ mapping.first \in Nat \cup {None}
    BY <1>1, DeviceTypes
  <2>7. device.played > clock.stalledAt /\ device.played # mapping.base
    BY <1>2, <1>6, <2>5, <2>6
  <2>8. mapping.first # None
    BY <1>1, <2>7 DEF DeviceAgrees, Heard
  <2>9. AudioTime > mapping.first + clock.stalledAt - mapping.base
    <3>1. mapping.first \in Nat /\ AudioTime = mapping.first + device.played - mapping.base
      BY <2>6, <2>8 DEF AudioTime
    <3> QED
      BY <1>2, <2>6, <2>7, <3>1
  <2>10. MediaTime' = AudioTime
    <3>1. AudioTime \in Int /\ LastTime \in Int /\ AudioTime <= LastTime
      BY <2>8, AudioTimeIsEarly, LastTimeIsATime
    <3>2. /\ Min({AudioTime, LastTime}) \in {AudioTime, LastTime}
          /\ Min({AudioTime, LastTime}) <= AudioTime
      BY <3>1, MinOfTwo
    <3>3. Min({AudioTime, LastTime}) = AudioTime
      BY <3>1, <3>2
    <3> QED
      BY <1>4, <2>4, <3>3
  <2> QED
    BY <2>4, <2>8, <2>9, <2>10 DEF AudioTookTheClockBack
<1>7. CASE ~reading.finished /\ ~(clock.phase = "Stalled" /\ at > clock.stalledAt)
  <2>1. c2 = clock
    BY <1>7 DEF Restored
  <2>2. CASE clock' = clock
    BY <1>4, <2>2 DEF TimeOf
  <2>3. CASE clock' = Fallback(clock) /\ clock.phase = "FollowingAudio"
    <3>1. clock' = [clock EXCEPT !.phase = "Stalled", !.media = TimeOf(clock), !.stalledAt = at]
      BY <2>3 DEF Fallback
    <3>2. clock'.phase = "Stalled" /\ clock'.media = TimeOf(clock)
      BY <1>2, <3>1 DEF Clocks
    <3> QED
      BY <1>4, <3>2
  <2>4. CASE clock' = Fallback(clock) /\ clock.phase # "FollowingAudio"
    BY <2>2, <2>4 DEF Fallback
  <2> QED
    BY <1>1, <2>1, <2>2, <2>3, <2>4
<1> QED
  BY <1>5, <1>6, <1>7

(* The anchor and the counter: audio time goes on but for seeks. *)
LEMMA AudioTimeGoesOn ==
    ASSUME PipelineInv, PipelineInv',
           mapping'.boundary = mapping.boundary, mapping'.base = mapping.base,
           mapping.first # None => mapping'.first = mapping.first,
           device'.played >= device.played
    PROVE  AudioTime' >= AudioTime
<1>1. TypeOK /\ DeviceAgrees
  BY DEF PipelineInv
<1>2. TypeOK' /\ DeviceAgrees'
  BY DEF PipelineInv
<1>3. /\ device.played \in Nat /\ device'.played \in Nat /\ mapping.boundary \in Nat
      /\ mapping.base \in Nat
      /\ mapping.first \in Nat \cup {None} /\ mapping'.first \in Nat \cup {None}
  BY <1>1, <1>2 DEF TypeOK
<1>4. CASE mapping.first # None
  <2>1. /\ AudioTime = mapping.first + device.played - mapping.base
        /\ AudioTime' = mapping.first + device'.played - mapping.base
        /\ mapping.first \in Nat
    BY <1>3, <1>4 DEF AudioTime
  <2> QED
    BY <1>3, <2>1
<1>5. CASE mapping.first = None
  <2>1. AudioTime = mapping.boundary
    BY <1>5 DEF AudioTime
  <2>2. mapping'.first # None => mapping'.first >= mapping.boundary /\ mapping.base <= device'.played
    BY <1>2 DEF DeviceAgrees, Heard
  <2>3. AudioTime' = IF mapping'.first = None THEN mapping.boundary
                     ELSE mapping'.first + device'.played - mapping.base
    BY DEF AudioTime
  <2> QED
    BY <1>3, <2>1, <2>2, <2>3
<1> QED
  BY <1>4, <1>5

(***************************************************************************)
(* Media time never goes back, but when a seek asks for it or when audio   *)
(* that moves again after a stall takes the clock back, and then to behind *)
(* the time at which it stood still.                                       *)
(***************************************************************************)
THEOREM TimeOnlyRunsForward == Spec => TimeRunsForward
<1> DEFINE Forward ==
        \/ MediaTime' >= MediaTime
        \/ epoch' # epoch
        \/ AudioTookTheClockBack
<1>1. ASSUME PipelineInv, PipelineInv', AnchorAgrees, [Next]_vars PROVE [Forward]_vars
  <2>1. /\ TypeOK /\ clock \in Clocks /\ device.played \in Nat /\ clock.media \in Nat
        /\ mapping \in [boundary : Nat, first : Nat \cup {None}, base : Nat]
        /\ AudioTime \in Nat
        /\ device \in [buffer : Seq(Nat), played : Nat, running : BOOLEAN]
    <3>1. /\ TypeOK /\ DeviceAgrees /\ clock \in Clocks
          /\ mapping \in [boundary : Nat, first : Nat \cup {None}, base : Nat]
          /\ device \in [buffer : Seq(Nat), played : Nat, running : BOOLEAN]
      BY <1>1 DEF PipelineInv, TypeOK, Clocks
    <3>2. AudioTime \in Nat
      BY <3>1, TimeIsATime
    <3>3. clock.media \in Nat /\ device.played \in Nat
      BY <3>1, LastTimeIsATime DEF Clocks
    <3> QED
      BY <3>1, <3>2, <3>3
  <2>2. ASSUME UNCHANGED <<mapping, clock>>, device'.played >= device.played PROVE Forward
    <3>1. AudioTime' >= AudioTime
      BY <1>1, <2>2, AudioTimeGoesOn
    <3>2. clock'.media >= clock.media /\ clock'.phase = clock.phase
      BY <2>1, <2>2
    <3> QED
      BY <1>1, <3>1, <3>2, ClockKeptTimeKept
  <2>3. device.played >= device.played
    BY <2>1
  <2>4. CASE AudioStep
    <3>1. PICK s \in AudioStates :
             /\ mapping.first # None => s.first = mapping.first
             /\ device' = [device EXCEPT !.buffer = s.buffer]
             /\ mapping' = [mapping EXCEPT !.first = s.first]
      BY <1>1, <2>4, AudioStepEffect
    <3>2. /\ device'.played = device.played
          /\ mapping'.boundary = mapping.boundary /\ mapping'.base = mapping.base
          /\ mapping'.first = s.first
      BY <2>1, <3>1
    <3>3. AudioTime' >= AudioTime
      BY <1>1, <2>3, <3>1, <3>2, AudioTimeGoesOn
    <3>4. clock' = clock
      BY <2>4 DEF AudioStep
    <3> QED
      BY <1>1, <2>1, <3>3, <3>4, ClockKeptTimeKept
  <2>5. ASSUME NEW accepted \in BOOLEAN, VideoStep(accepted) PROVE Forward
    <3>1. MediaTime' = MediaTime \/ AudioTookTheClockBack
      BY <1>1, <2>5, VideoStepKeepsTime
    <3>2. MediaTime \in Nat
      BY <1>1, <2>1, TimeIsATime DEF PipelineInv, MediaTime
    <3> QED
      BY <3>1, <3>2
  <2>6. CASE ReadPosition
    BY <2>2, <2>3, <2>6 DEF ReadPosition
  <2>7. CASE RetryPacket \/ ReadPacket \/ ReadEnd \/ NothingRead
    <3>1. EndOfStep
      BY <2>7 DEF RetryPacket, ReadPacket, ReadEnd, NothingRead
    <3> QED
      BY <2>2, <2>3, <3>1 DEF EndOfStep
  <2>8. CASE Start \/ Pause \/ Complete
    <3>1. PICK on \in BOOLEAN : SetRunning(on) /\ UNCHANGED mapping
      BY <2>8 DEF Start, Pause, Complete
    <3>2. device' = [device EXCEPT !.running = on] /\ clock' = [clock EXCEPT !.running = on]
      BY <3>1 DEF SetRunning
    <3>3. /\ device'.played = device.played
          /\ clock'.media = clock.media /\ clock'.phase = clock.phase
      BY <2>1, <3>2 DEF Clocks
    <3>4. AudioTime' >= AudioTime
      BY <1>1, <2>3, <3>1, <3>3, AudioTimeGoesOn
    <3> QED
      BY <1>1, <2>1, <3>3, <3>4, ClockKeptTimeKept
  <2>9. ASSUME NEW target \in 0 .. LastTime, NEW resume \in BOOLEAN, Seek(target, resume)
        PROVE  Forward
    <3>1. epoch' = epoch + 1 /\ epoch \in Nat
      BY <2>1, <2>9, MaxEpochAssumption DEF Seek, TypeOK
    <3> QED
      BY <3>1
  <2>10. CASE Fail
    <3>1. device'.played = device.played /\ UNCHANGED <<mapping, clock>>
      BY <2>1, <2>10 DEF Fail
    <3> QED
      BY <2>2, <2>3, <3>1
  <2>11. CASE AudioDecodes \/ VideoDecodes \/ StallTimeout
    BY <2>2, <2>3, <2>11 DEF AudioDecodes, VideoDecodes, StallTimeout
  <2>12. CASE DevicePlays
    <3>1. device'.played = device.played + 1 /\ UNCHANGED <<mapping, clock>>
      BY <2>1, <2>12 DEF DevicePlays
    <3> QED
      BY <2>1, <2>2, <3>1
  <2>13. CASE TimePasses
    <3>1. clock' = [clock EXCEPT !.media = @ + 1] /\ UNCHANGED <<mapping, device>>
      BY <2>13 DEF TimePasses
    <3>2. clock'.phase = clock.phase /\ clock'.media = clock.media + 1
      BY <2>1, <3>1 DEF Clocks
    <3>3. AudioTime' >= AudioTime
      BY <1>1, <2>3, <3>1, AudioTimeGoesOn
    <3> QED
      BY <1>1, <2>1, <3>2, <3>3, ClockKeptTimeKept
  <2>14. CASE Closed \/ UNCHANGED vars
    BY <2>14 DEF Closed
  <2> QED
    BY <1>1, <2>4, <2>5, <2>6, <2>7, <2>8, <2>9, <2>10, <2>11, <2>12, <2>13, <2>14
    DEF Next, PipelineSteps, SourceReads
<1>2. Init => AnchorAgrees
  BY DEF Init, AnchorAgrees, NewClock
<1>3. PipelineInv /\ AnchorAgrees /\ [Next]_vars => AnchorAgrees'
  BY AnchorNext
<1> QED
  BY <1>1, <1>2, <1>3, PipelineIsSound, PTL DEF Spec, TimeRunsForward

=============================================================================
