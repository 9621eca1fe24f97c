-------------------------- MODULE WavPlaybackProofs --------------------------
(***************************************************************************)
(* For every file, every rate, packet size and capacity, every length of   *)
(* reads and every seek: the demuxer accepts exactly the files that are    *)
(* right, the output hears their bytes without gap from the first frame at *)
(* the target on, and the output without a device is where a device would  *)
(* be.  It is all for other holders of the open file that keep away during *)
(* a read (Coordinated), wherever they leave its offset between two.       *)
(* Before that, the arithmetic of frames and times, for every rate.        *)
(* Times are compared as fractions: frame f begins before time t iff       *)
(* f * NanosPerSecond < t * rate.                                          *)
(***************************************************************************)
EXTENDS WavPlayback, WellFoundedInduction, TLAPS

-----------------------------------------------------------------------------
(* Frames and times *)

(* What integer division gives. *)
LEMMA Division ==
    ASSUME NEW a \in Int, NEW b \in Nat \ {0}
    PROVE  /\ a \div b \in Int
           /\ b * (a \div b) <= a
           /\ a < b * (a \div b) + b
  BY SMTT(30)

(* A larger factor does not make a product smaller. *)
LEMMA Monotone ==
    ASSUME NEW x \in Int, NEW y \in Int, NEW r \in Nat, x <= y
    PROVE  x * r <= y * r
<1>1. PICK k \in Nat : y = x + k
  BY x <= y, y - x \in Nat
<1>2. y * r = x * r + k * r /\ k * r \in Nat
  BY <1>1, SMTT(30)
<1> QED
  BY <1>2

(* What is smaller after a multiplication was smaller before. *)
LEMMA Cancel ==
    ASSUME NEW x \in Int, NEW y \in Int, NEW r \in Nat, x * r < y * r
    PROVE  x < y
<1> SUFFICES ASSUME ~(x < y) PROVE FALSE
  OBVIOUS
<1>1. y <= x
  OBVIOUS
<1>2. y * r <= x * r
  BY <1>1, Monotone
<1>3. x * r \in Int /\ y * r \in Int
  OBVIOUS
<1> QED
  BY <1>2, <1>3

-----------------------------------------------------------------------------
(***************************************************************************)
(* The timestamp of a frame is the whole nanosecond at or before which it  *)
(* begins (to_media_time, rounding toward zero).                           *)
(***************************************************************************)
THEOREM FrameBeginsInItsNanosecond ==
    ASSUME NEW f \in Nat, NEW rate \in Nat \ {0}
    PROVE  /\ TimeOfFrame(f, rate) \in Int
           /\ TimeOfFrame(f, rate) * rate <= f * NanosPerSecond
           /\ f * NanosPerSecond < (TimeOfFrame(f, rate) + 1) * rate
<1> DEFINE t == TimeOfFrame(f, rate)
<1>1. f * NanosPerSecond \in Int
  BY NanosPerSecondAssumption
<1>2. t \in Int /\ rate * t <= f * NanosPerSecond /\ f * NanosPerSecond < rate * t + rate
  BY <1>1, Division DEF TimeOfFrame
<1> HIDE DEF t
<1>3. rate * t = t * rate /\ (t + 1) * rate = t * rate + rate
  BY <1>2
<1>4. t \in Int /\ t * rate <= f * NanosPerSecond /\ f * NanosPerSecond < (t + 1) * rate
  BY <1>2, <1>3, <1>1
<1> QED
  BY <1>4 DEF t

(***************************************************************************)
(* The frame a seek lands on has begun at the target and the next has not  *)
(* (WavDemuxer::seek); the timestamp it carries is not behind the target,  *)
(* so that trimming always begins with a block at or before its boundary.  *)
(***************************************************************************)
THEOREM SeekLandsBeforeTarget ==
    ASSUME NEW time \in Nat, NEW rate \in Nat \ {0}
    PROVE  /\ FrameAt(time, rate) \in Nat
           /\ FrameAt(time, rate) * NanosPerSecond <= time * rate
           /\ time * rate < (FrameAt(time, rate) + 1) * NanosPerSecond
           /\ TimeOfFrame(FrameAt(time, rate), rate) <= time
<1> DEFINE f == FrameAt(time, rate)
<1>1. time * rate \in Nat
  OBVIOUS
<1>2. f \in Int /\ NanosPerSecond * f <= time * rate /\ time * rate < NanosPerSecond * f + NanosPerSecond
  BY <1>1, Division, NanosPerSecondAssumption DEF FrameAt
<1> HIDE DEF f
<1>3. NanosPerSecond * f = f * NanosPerSecond
      /\ (f + 1) * NanosPerSecond = f * NanosPerSecond + NanosPerSecond
  BY <1>2, NanosPerSecondAssumption
<1>4. f * NanosPerSecond <= time * rate /\ time * rate < (f + 1) * NanosPerSecond
  BY <1>1, <1>2, <1>3, NanosPerSecondAssumption
<1>5. f \in Nat
  <2>1. 0 * NanosPerSecond < (f + 1) * NanosPerSecond
    BY <1>1, <1>2, <1>4, NanosPerSecondAssumption
  <2>2. 0 < f + 1
    BY <2>1, <1>2, Cancel, NanosPerSecondAssumption
  <2> QED
    BY <2>2, <1>2
<1>6. TimeOfFrame(f, rate) <= time
  <2> DEFINE t == TimeOfFrame(f, rate)
  <2>1. t \in Int /\ t * rate <= f * NanosPerSecond
    BY <1>5, FrameBeginsInItsNanosecond
  <2> HIDE DEF t
  <2>2. (time + 1) * rate = time * rate + rate
    OBVIOUS
  <2>3. f * NanosPerSecond \in Int /\ t * rate \in Int
    BY <1>2, <2>1, NanosPerSecondAssumption
  <2>4. t * rate < (time + 1) * rate
    BY <1>1, <1>4, <2>1, <2>2, <2>3
  <2>5. t < time + 1
    BY <2>1, <2>4, Cancel
  <2>6. t <= time
    BY <2>1, <2>5
  <2> QED
    BY <2>6 DEF t
<1> QED
  BY <1>4, <1>5, <1>6 DEF f

(***************************************************************************)
(* Trimming a block that begins at frame f to a boundary behind its        *)
(* timestamp (trim_audio_before) leaves out exactly the frames that must   *)
(* go: the first one kept does not begin before the boundary, the last one *)
(* dropped begins less than a nanosecond behind it.  The timestamp of what *)
(* is left is not before the boundary, not behind its first frame, and     *)
(* less than two nanoseconds before it, however often times were rounded.  *)
(***************************************************************************)
THEOREM TrimmingIsExact ==
    ASSUME NEW f \in Nat, NEW rate \in Nat \ {0}, NEW bound \in Int,
           TimeOfFrame(f, rate) < bound
    PROVE  LET pts == TimeOfFrame(f, rate)
               dropped == FramesBefore(bound, pts, rate)
               after == TimeAfter(pts, dropped, rate)
           IN  /\ dropped \in Nat \ {0}
               /\ bound * rate <= (f + dropped) * NanosPerSecond
               /\ (f + dropped - 1) * NanosPerSecond < (bound + 1) * rate
               /\ bound <= after
               /\ after * rate <= (f + dropped) * NanosPerSecond
               /\ (f + dropped) * NanosPerSecond < (after + 2) * rate
<1> DEFINE N == NanosPerSecond
           p == TimeOfFrame(f, rate)
           d == FramesBefore(bound, p, rate)
           q == (d * N) \div rate
           missing == (bound - p) * rate
           start == f * N
           base == p * rate
<1>1. N \in Nat \ {0}
  BY NanosPerSecondAssumption
<1>2. p \in Int /\ base <= start /\ start < (p + 1) * rate
  BY FrameBeginsInItsNanosecond
<1>3. missing \in Int /\ base \in Int /\ start \in Int
  BY <1>1, <1>2
<1>4. (p + 1) * rate = base + rate /\ bound * rate = base + missing
      /\ (bound + 1) * rate = base + missing + rate
  BY <1>2
<1>5. missing >= rate
  <2>1. 1 * rate <= (bound - p) * rate
    BY <1>2, Monotone
  <2> QED
    BY <2>1
<1>6. d = (missing + N - 1) \div N
  BY DEF FramesBefore
<1>7. d \in Int /\ N * d <= missing + N - 1 /\ missing + N - 1 < N * d + N
  <2>1. missing + N - 1 \in Int
    BY <1>1, <1>3
  <2> HIDE DEF missing, N, d
  <2> QED
    BY <1>1, <1>6, <2>1, Division
<1>8. q \in Int /\ rate * q <= d * N /\ d * N < rate * q + rate
  <2> HIDE DEF d, N
  <2>1. d * N \in Int
    BY <1>1, <1>7
  <2> QED
    BY <2>1, Division
<1>9. TimeAfter(p, d, rate) = p + q
  BY DEF TimeAfter
<1> HIDE DEF N, p, d, q
<1>10. N * d = d * N /\ rate * q = q * rate /\ (q + 1) * rate = q * rate + rate
       /\ (f + d) * N = start + d * N /\ (f + d - 1) * N = start + d * N - N
       /\ (p + q) * rate = base + q * rate /\ (p + q + 2) * rate = base + q * rate + 2 * rate
       /\ d * N \in Int /\ q * rate \in Int
  BY <1>1, <1>2, <1>7, <1>8
<1> HIDE DEF missing, start, base
<1>11. missing <= d * N /\ d * N - N < missing
  BY <1>1, <1>3, <1>7, <1>10
<1>12. d \in Nat \ {0}
  <2>1. 0 * N < d * N
    BY <1>1, <1>3, <1>5, <1>10, <1>11
  <2>2. 0 < d
    BY <1>1, <1>7, <2>1, Cancel
  <2> QED
    BY <1>7, <2>2
<1>13. bound * rate <= (f + d) * N /\ (f + d - 1) * N < (bound + 1) * rate
  BY <1>1, <1>2, <1>3, <1>4, <1>10, <1>11
<1>14. bound <= p + q
  <2>1. (bound - p) * rate < (q + 1) * rate
    BY <1>3, <1>8, <1>10, <1>11 DEF missing
  <2>2. bound - p < q + 1
    BY <1>2, <1>8, <2>1, Cancel
  <2> QED
    BY <1>2, <1>8, <2>2
<1>15. (p + q) * rate <= (f + d) * N /\ (f + d) * N < (p + q + 2) * rate
  BY <1>1, <1>2, <1>3, <1>4, <1>8, <1>10
<1> QED
  BY <1>9, <1>12, <1>13, <1>14, <1>15 DEF N, p, d

-----------------------------------------------------------------------------
(* The simulated output *)

LEMMA MinOfTwo ==
    ASSUME NEW x \in Int, NEW y \in Int
    PROVE  Min({x, y}) = IF x <= y THEN x ELSE y
  <1>1. PICK m \in {x, y} : \A z \in {x, y} : m <= z
    BY x <= y \/ y <= x
  <1>2. /\ Min({x, y}) \in {x, y}
        /\ \A z \in {x, y} : Min({x, y}) <= z
    BY <1>1 DEF Min
  <1> QED
    BY <1>2

LEMMA MaxOfTwo ==
    ASSUME NEW x \in Int, NEW y \in Int
    PROVE  Max({x, y}) = IF x <= y THEN y ELSE x
  <1>1. PICK m \in {x, y} : \A z \in {x, y} : m >= z
    BY x <= y \/ y <= x
  <1>2. /\ Max({x, y}) \in {x, y}
        /\ \A z \in {x, y} : Max({x, y}) >= z
    BY <1>1 DEF Max
  <1> QED
    BY <1>2

(* Whole frames in a scaled time, and what is left of it. *)
Whole(s) == s \div NanosPerSecond
Rest(s) == s % NanosPerSecond

LEMMA WholeAndRest ==
    ASSUME NEW s \in Nat
    PROVE  /\ Whole(s) \in Nat /\ Rest(s) \in Nat
           /\ Rest(s) < NanosPerSecond
           /\ s = NanosPerSecond * Whole(s) + Rest(s)
  <1> DEFINE N == NanosPerSecond
  <1>0. N \in Nat \ {0}
    BY NanosPerSecondAssumption
  <1> HIDE DEF N
  <1>1. s \div N \in Nat /\ s % N \in Nat /\ s % N < N /\ s = N * (s \div N) + (s % N)
    BY <1>0, SMTT(30)
  <1> QED
    BY <1>1 DEF Whole, Rest, N

(* There is only one way to divide. *)
LEMMA OnlyDivision ==
    ASSUME NEW q \in Nat, NEW r \in Nat, r < NanosPerSecond
    PROVE  Whole(NanosPerSecond * q + r) = q /\ Rest(NanosPerSecond * q + r) = r
  <1> DEFINE N == NanosPerSecond
             s == N * q + r
             p == Whole(s)
             t == Rest(s)
  <1>1. N \in Nat \ {0}
    BY NanosPerSecondAssumption
  <1>2. s \in Nat
    BY <1>1
  <1>3. p \in Nat /\ t \in Nat /\ t < N /\ s = N * p + t
    <2> HIDE DEF s
    <2> QED
      BY <1>2, WholeAndRest
  <1>4. N * q + r = N * p + t
    BY <1>3
  <1> HIDE DEF p, t, N, s
  <1>5. /\ q * N \in Int /\ p * N \in Int /\ N * q = q * N /\ N * p = p * N
        /\ (q + 1) * N = q * N + N /\ (p + 1) * N = p * N + N
    BY <1>1, <1>3
  <1>6. q * N < (p + 1) * N /\ p * N < (q + 1) * N
    BY <1>1, <1>3, <1>4, <1>5, r < N DEF N
  <1>7. q < p + 1 /\ p < q + 1
    BY <1>1, <1>3, <1>6, Cancel
  <1>8. p = q
    BY <1>3, <1>7
  <1>9. t = r
    BY <1>1, <1>3, <1>4, <1>5, <1>8
  <1> QED
    BY <1>8, <1>9 DEF p, t, s, N

(* A little more time: what it adds to the rest decides. *)
LEMMA MoreTime ==
    ASSUME NEW s \in Nat, NEW r \in Nat
    PROVE  /\ Whole(s + r) = Whole(s) + Whole(Rest(s) + r)
           /\ Rest(s + r) = Rest(Rest(s) + r)
  <1> DEFINE N == NanosPerSecond
             q == Whole(s)
             t == Rest(s)
             p == Whole(t + r)
             u == Rest(t + r)
  <1>0. N \in Nat \ {0}
    BY NanosPerSecondAssumption
  <1>1. q \in Nat /\ t \in Nat /\ s = N * q + t
    BY WholeAndRest
  <1>2. p \in Nat /\ u \in Nat /\ u < N /\ t + r = N * p + u
    <2>1. t + r \in Nat
      BY <1>1
    <2> HIDE DEF t
    <2> QED
      BY <2>1, WholeAndRest
  <1> HIDE DEF q, t, p, u
  <1>3. s + r = N * (q + p) + u
    BY <1>0, <1>1, <1>2
  <1>4. q + p \in Nat
    BY <1>1, <1>2
  <1>5. Whole(N * (q + p) + u) = q + p /\ Rest(N * (q + p) + u) = u
    BY <1>2, <1>4, OnlyDivision DEF N
  <1> QED
    BY <1>3, <1>5 DEF q, t, p, u

Outputs ==
    [buffered : Nat, played : Nat, running : BOOLEAN, elapsed : Nat, remainder : Nat]
Devices == [buffered : Nat, played : Nat, fraction : Nat]

(* An output that was just asked: no time has passed since. *)
Fresh(o) ==
    /\ o \in Outputs /\ o.elapsed = 0 /\ o.remainder < NanosPerSecond
    /\ o.buffered = 0 => o.remainder = 0

(* Output and device are the same, up to a fraction of a frame. *)
Agree(o, d) ==
    o.played = d.played /\ o.buffered = d.buffered /\ o.remainder = d.fraction

WithAll(o, b, p, r) ==
    [o EXCEPT !.buffered = b, !.played = p, !.elapsed = 0, !.remainder = r]

LEMMA WithAllIs ==
    ASSUME NEW o \in Outputs, NEW b \in Int, NEW p \in Int, NEW r \in Int, o.running
    PROVE  WithAll(o, b, p, r) =
               [buffered |-> b, played |-> p, running |-> TRUE, elapsed |-> 0, remainder |-> r]
  <1> DEFINE All == [buffered : Int, played : Int, running : BOOLEAN, elapsed : Int, remainder : Int]
             o1 == [o EXCEPT !.buffered = b]
             o2 == [o1 EXCEPT !.played = p]
             o3 == [o2 EXCEPT !.elapsed = 0]
             o4 == [o3 EXCEPT !.remainder = r]
  <1>1. o1 \in All /\ o1.buffered = b /\ o1.running = TRUE
    BY DEF Outputs
  <1> HIDE DEF o1
  <1>2. o2 \in All /\ o2.buffered = b /\ o2.running = TRUE /\ o2.played = p
    BY <1>1
  <1> HIDE DEF o2
  <1>3. o3 \in All /\ o3.buffered = b /\ o3.running = TRUE /\ o3.played = p /\ o3.elapsed = 0
    BY <1>2
  <1> HIDE DEF o3
  <1>4. /\ o4 \in All /\ o4.buffered = b /\ o4.running = TRUE /\ o4.played = p /\ o4.elapsed = 0
        /\ o4.remainder = r
    BY <1>3
  <1> HIDE DEF o4
  <1>5. o4 = [buffered |-> b, played |-> p, running |-> TRUE, elapsed |-> 0, remainder |-> r]
    BY <1>4
  <1> QED
    BY <1>5 DEF o4, o3, o2, o1, WithAll

(* What update makes of a running output, in one record. *)
Scaled(o, rate) == o.elapsed * rate + o.remainder
Consumed(s, buffered) == IF Whole(s) <= buffered THEN Whole(s) ELSE buffered
RestOf(s, buffered) == IF Consumed(s, buffered) = buffered THEN 0 ELSE Rest(s)

After(o, s) ==
    [buffered |-> o.buffered - Consumed(s, o.buffered),
     played |-> o.played + Consumed(s, o.buffered),
     running |-> TRUE, elapsed |-> 0, remainder |-> RestOf(s, o.buffered)]

LEMMA ConsumedIs ==
    ASSUME NEW s \in Nat, NEW b \in Nat
    PROVE  /\ Consumed(s, b) \in Nat /\ Consumed(s, b) <= b
           /\ RestOf(s, b) \in Nat /\ RestOf(s, b) < NanosPerSecond
           /\ b - Consumed(s, b) = 0 => RestOf(s, b) = 0
  BY WholeAndRest, NanosPerSecondAssumption DEF Consumed, RestOf

LEMMA UpdatedIs ==
    ASSUME NEW o \in Outputs, NEW rate \in Nat
    PROVE  /\ Scaled(o, rate) \in Nat
           /\ Updated(o, rate) = IF o.running THEN After(o, Scaled(o, rate)) ELSE o
  <1> DEFINE s == Scaled(o, rate)
             c == Consumed(s, o.buffered)
  <1>1. s \in Nat
    BY DEF Scaled, Outputs
  <1>2. Whole(s) \in Nat /\ o.buffered \in Nat
    BY <1>1, WholeAndRest DEF Outputs
  <1>3. Min({Whole(s), o.buffered}) = c
    BY <1>2, MinOfTwo DEF Consumed
  <1>4. Updated(o, rate) =
            IF ~o.running
            THEN o
            ELSE [o EXCEPT !.buffered = @ - c, !.played = @ + c, !.elapsed = 0,
                           !.remainder = RestOf(s, o.buffered)]
    BY <1>3 DEF Updated, Scaled, Whole, Rest, RestOf
  <1> HIDE DEF s, c
  <1>5. o.running => [o EXCEPT !.buffered = @ - c, !.played = @ + c, !.elapsed = 0,
                               !.remainder = RestOf(s, o.buffered)] =
            [buffered |-> o.buffered - c, played |-> o.played + c,
             running |-> TRUE, elapsed |-> 0, remainder |-> RestOf(s, o.buffered)]
    <2> DEFINE r == RestOf(s, o.buffered)
               b == o.buffered - c
               p == o.played + c
    <2>1. o.buffered \in Nat /\ o.played \in Nat
      BY DEF Outputs
    <2>2. c \in Nat /\ r \in Nat
      BY <1>1, <2>1, ConsumedIs DEF c
    <2>3. b \in Int /\ p \in Int /\ r \in Int
      BY <2>1, <2>2
    <2> HIDE DEF r, b, p
    <2>4. o.running =>
              WithAll(o, b, p, r) =
                  [buffered |-> b, played |-> p, running |-> TRUE, elapsed |-> 0, remainder |-> r]
      BY <2>3, WithAllIs
    <2> QED
      BY <2>4 DEF r, b, p, WithAll
  <1>6. /\ ~o.running => Updated(o, rate) = o
        /\ o.running => Updated(o, rate) = After(o, s)
    BY <1>4, <1>5 DEF After, c
  <1> QED
    BY <1>1, <1>6 DEF s

LEMMA AfterIsFresh ==
    ASSUME NEW o \in Outputs, NEW s \in Nat
    PROVE  Fresh(After(o, s))
  <1>1. o.buffered \in Nat /\ o.played \in Nat
    BY DEF Outputs
  <1> DEFINE c == Consumed(s, o.buffered)
             r == RestOf(s, o.buffered)
  <1>2. c \in Nat /\ c <= o.buffered /\ r \in Nat /\ r < NanosPerSecond
        /\ (o.buffered - c = 0 => r = 0)
    BY <1>1, ConsumedIs
  <1>3. After(o, s) = [buffered |-> o.buffered - c, played |-> o.played + c,
                       running |-> TRUE, elapsed |-> 0, remainder |-> r]
    BY DEF After
  <1> HIDE DEF c, r
  <1> QED
    BY <1>1, <1>2, <1>3 DEF Fresh, Outputs

(* Asking again at once changes nothing. *)
LEMMA FreshIsUpdated ==
    ASSUME NEW o, Fresh(o), NEW rate \in Nat
    PROVE  Updated(o, rate) = o
  <1>1. o \in Outputs /\ o.elapsed = 0 /\ o.remainder \in Nat /\ o.remainder < NanosPerSecond
        /\ o.buffered \in Nat /\ o.played \in Nat /\ (o.buffered = 0 => o.remainder = 0)
    BY DEF Fresh, Outputs
  <1>2. Scaled(o, rate) = o.remainder
    BY <1>1 DEF Scaled
  <1>3. Whole(o.remainder) = 0 /\ Rest(o.remainder) = o.remainder
    <2>1. NanosPerSecond * 0 + o.remainder = o.remainder
      BY <1>1, NanosPerSecondAssumption
    <2> QED
      BY <1>1, <2>1, OnlyDivision
  <1>4. Consumed(o.remainder, o.buffered) = 0 /\ RestOf(o.remainder, o.buffered) = o.remainder
    BY <1>1, <1>3 DEF Consumed, RestOf
  <1>5. o.running => After(o, o.remainder) = o
    BY <1>1, <1>4 DEF After, Outputs
  <1> QED
    BY <1>1, <1>2, <1>5, UpdatedIs


(***************************************************************************)
(* The output and its device: asked now, the output would say what the     *)
(* device says, the fraction of a frame included; an output that has run   *)
(* empty has no fraction, and one that does not run lets no time pass.     *)
(***************************************************************************)
IsTheDevice(o, d, rate) ==
    /\ o \in Outputs /\ d \in Devices
    /\ o.remainder < NanosPerSecond /\ (o.buffered = 0 => o.remainder = 0)
    /\ ~o.running => o.elapsed = 0
    /\ Agree(Updated(o, rate), d)

LEMMA FreshDevice ==
    ASSUME NEW o, NEW d, NEW rate \in Nat, Fresh(o), d \in Devices, Agree(o, d)
    PROVE  IsTheDevice(o, d, rate)
  BY FreshIsUpdated DEF IsTheDevice, Fresh

LEMMA UpdatedDevice ==
    ASSUME NEW o, NEW d, NEW rate \in Nat, IsTheDevice(o, d, rate)
    PROVE  /\ Fresh(Updated(o, rate)) /\ Agree(Updated(o, rate), d) /\ d \in Devices
           /\ IsTheDevice(Updated(o, rate), d, rate)
           /\ ~o.running => Updated(o, rate) = o
  <1>1. o \in Outputs /\ d \in Devices /\ Agree(Updated(o, rate), d)
    BY DEF IsTheDevice
  <1>2. Fresh(Updated(o, rate))
    <2>1. CASE o.running
      BY <1>1, <2>1, UpdatedIs, AfterIsFresh
    <2>2. CASE ~o.running
      <3>1. Updated(o, rate) = o
        BY <1>1, <2>2, UpdatedIs
      <3> QED
        BY <2>2, <3>1 DEF IsTheDevice, Fresh
    <2> QED
      BY <2>1, <2>2
  <1> QED
    BY <1>1, <1>2, UpdatedIs, FreshDevice

(* A frame more or less can be taken at once or in two steps. *)
LEMMA MoreConsumed ==
    ASSUME NEW s \in Nat, NEW r \in Nat, NEW b \in Nat
    PROVE  LET c == Consumed(s, b)
               t == RestOf(s, b) + r
           IN  /\ Consumed(s + r, b) = c + Consumed(t, b - c)
               /\ RestOf(s + r, b) = RestOf(t, b - c)
  <1>1. Whole(s) \in Nat /\ Rest(s) \in Nat
    BY WholeAndRest
  <1>2. Whole(s + r) = Whole(s) + Whole(Rest(s) + r) /\ Rest(s + r) = Rest(Rest(s) + r)
    BY MoreTime
  <1>3. Whole(Rest(s) + r) \in Nat
    <2>1. Rest(s) + r \in Nat
      BY <1>1
    <2> QED
      BY <2>1, WholeAndRest
  <1>4. CASE b <= Whole(s)
    <2>1. Consumed(s, b) = b /\ RestOf(s, b) = 0
      BY <1>1, <1>4 DEF Consumed, RestOf
    <2>2. Consumed(s + r, b) = b /\ RestOf(s + r, b) = 0
      BY <1>1, <1>2, <1>3, <1>4 DEF Consumed, RestOf
    <2>3. Whole(0 + r) \in Nat
      BY WholeAndRest
    <2>4. Consumed(0 + r, 0) = 0 /\ RestOf(0 + r, 0) = 0
      BY <2>3 DEF Consumed, RestOf
    <2> QED
      BY <2>1, <2>2, <2>4
  <1>5. CASE ~(b <= Whole(s))
    <2>1. Consumed(s, b) = Whole(s) /\ RestOf(s, b) = Rest(s)
      BY <1>1, <1>5 DEF Consumed, RestOf
    <2> DEFINE w == Whole(s)
               v == Whole(Rest(s) + r)
    <2>2. w \in Nat /\ v \in Nat /\ w < b
      BY <1>1, <1>3, <1>5
    <2>3. Consumed(s + r, b) = IF w + v <= b THEN w + v ELSE b
      BY <1>2 DEF Consumed
    <2>4. Consumed(Rest(s) + r, b - w) = IF v <= b - w THEN v ELSE b - w
      BY DEF Consumed
    <2>5. RestOf(s + r, b) = IF Consumed(s + r, b) = b THEN 0 ELSE Rest(s + r)
      BY DEF RestOf
    <2>6. RestOf(Rest(s) + r, b - w) =
              IF Consumed(Rest(s) + r, b - w) = b - w THEN 0 ELSE Rest(s + r)
      BY <1>2 DEF RestOf
    <2> HIDE DEF w, v
    <2>7. Consumed(s + r, b) = w + Consumed(Rest(s) + r, b - w)
      BY <2>2, <2>3, <2>4
    <2>8. Consumed(s + r, b) = b <=> Consumed(Rest(s) + r, b - w) = b - w
      BY <2>2, <2>3, <2>4
    <2>9. RestOf(s + r, b) = RestOf(Rest(s) + r, b - w)
      BY <2>5, <2>6, <2>8
    <2> QED
      BY <2>1, <2>7, <2>9 DEF w
  <1> QED
    BY <1>4, <1>5

(* What the device plays in a unit of time. *)
LEMMA PlayedIs ==
    ASSUME NEW d \in Devices, NEW rate \in Nat
    PROVE  Played(d, rate) =
               [buffered |-> d.buffered - Consumed(d.fraction + rate, d.buffered),
                played |-> d.played + Consumed(d.fraction + rate, d.buffered),
                fraction |-> RestOf(d.fraction + rate, d.buffered)]
  <1> DEFINE t == d.fraction + rate
  <1>1. t \in Nat /\ d.buffered \in Nat
    BY DEF Devices
  <1>2. Whole(t) \in Nat
    BY <1>1, WholeAndRest
  <1>3. Min({Whole(t), d.buffered}) = Consumed(t, d.buffered)
    BY <1>1, <1>2, MinOfTwo DEF Consumed
  <1> QED
    BY <1>3 DEF Played, Whole, Rest, RestOf

LEMMA TimePassesDevice ==
    ASSUME NEW o, NEW d, NEW rate \in Nat, IsTheDevice(o, d, rate)
    PROVE  IsTheDevice(Passed(o), IF o.running THEN Played(d, rate) ELSE d, rate)
  <1>1. CASE ~o.running
    BY <1>1 DEF Passed
  <1>2. CASE o.running
    <2> DEFINE p == [o EXCEPT !.elapsed = @ + 1]
               s == Scaled(o, rate)
               b == o.buffered
               c == Consumed(s, b)
               t == RestOf(s, b) + rate
               e == Consumed(t, b - c)
    <2>1. /\ o \in Outputs /\ d \in Devices /\ o.remainder < NanosPerSecond
          /\ (b = 0 => o.remainder = 0) /\ Agree(Updated(o, rate), d)
      BY DEF IsTheDevice
    <2>2. /\ p \in Outputs /\ p.running /\ p.buffered = b /\ p.played = o.played
          /\ p.remainder = o.remainder /\ p.elapsed = o.elapsed + 1
      BY <1>2, <2>1 DEF Outputs
    <2>3. o.elapsed \in Nat /\ o.remainder \in Nat /\ b \in Nat /\ o.played \in Nat
      BY <2>1 DEF Outputs
    <2>4. s \in Nat /\ Updated(o, rate) = After(o, s)
      BY <1>2, <2>1, UpdatedIs
    <2>5. Scaled(p, rate) = s + rate
      <3>1. (o.elapsed + 1) * rate = o.elapsed * rate + rate /\ o.elapsed * rate \in Nat
        BY <2>3
      <3> QED
        BY <2>2, <2>3, <3>1 DEF Scaled
    <2>6. Updated(p, rate) = After(p, s + rate)
      BY <2>2, <2>5, UpdatedIs
    <2>7. c \in Nat /\ c <= b /\ RestOf(s, b) \in Nat
      BY <2>3, <2>4, ConsumedIs
    <2> HIDE DEF s, p, b
    <2>8. Consumed(s + rate, b) = c + e /\ RestOf(s + rate, b) = RestOf(t, b - c)
      BY <2>3, <2>4, MoreConsumed
    <2>9. t \in Nat /\ b - c \in Nat
      BY <2>3, <2>7
    <2>10. e \in Nat /\ e <= b - c /\ RestOf(t, b - c) \in Nat
      <3> HIDE DEF t, c
      <3> QED
        BY <2>9, ConsumedIs
    <2>11. d.buffered = b - c /\ d.played = o.played + c /\ d.fraction + rate = t
      BY <2>1, <2>4 DEF Agree, After, b
    <2>12. Played(d, rate) = [buffered |-> (b - c) - e, played |-> (o.played + c) + e,
                              fraction |-> RestOf(t, b - c)]
      BY <2>1, <2>11, PlayedIs
    <2> HIDE DEF c, e, t
    <2>13. Played(d, rate) \in Devices
      BY <2>3, <2>7, <2>9, <2>10, <2>12 DEF Devices
    <2>14. /\ After(p, s + rate).played = o.played + (c + e)
           /\ After(p, s + rate).buffered = b - (c + e)
           /\ After(p, s + rate).remainder = RestOf(t, b - c)
      BY <2>2, <2>8 DEF After
    <2>15. Agree(Updated(p, rate), Played(d, rate))
      BY <2>3, <2>6, <2>7, <2>10, <2>12, <2>14 DEF Agree
    <2>16. IsTheDevice(p, Played(d, rate), rate)
      BY <2>1, <2>2, <2>13, <2>15 DEF IsTheDevice
    <2> QED
      BY <1>2, <2>16 DEF Passed, p
  <1> QED
    BY <1>1, <1>2


-----------------------------------------------------------------------------
(* Induction, stated with sets: the provers cannot instantiate a theorem   *)
(* about an arbitrary predicate.                                           *)

(* Every set of natural numbers has a least one. *)
LEMMA LeastNat ==
    ASSUME NEW T \in SUBSET Nat, T # {}
    PROVE  \E m \in T : \A n \in T : m <= n
  <1> DEFINE R == {p \in Nat \X Nat : p[1] < p[2]}
  <1>1. IsWellFoundedOn(R, Nat)
    BY NatLessThanWellFounded DEF OpToRel
  <1>2. \A m, n \in T : <<n, m>> \notin R => m <= n
    OBVIOUS
  <1> HIDE DEF R
  <1>3. PICK m \in T : \A n \in T : <<n, m>> \notin R
    BY <1>1, WFMin
  <1> QED
    BY <1>2, <1>3

(* A set with 1 and the successors of its members up to k has 1 .. k. *)
LEMMA Induction ==
    ASSUME NEW k \in Nat, NEW T,
           1 \in T, \A n \in 1 .. k - 1 : n \in T => n + 1 \in T
    PROVE  \A n \in 1 .. k : n \in T
  <1> DEFINE Missing == {n \in Nat : n \in 1 .. k /\ n \notin T}
  <1> SUFFICES ASSUME Missing # {} PROVE FALSE
    OBVIOUS
  <1>1. PICK m \in Missing : \A n \in Missing : m <= n
    <2>1. Missing \in SUBSET Nat
      OBVIOUS
    <2> HIDE DEF Missing
    <2> QED
      BY <2>1, LeastNat
  <1>2. m \in 1 .. k /\ m \notin T /\ m # 1
    BY <1>1
  <1>3. m - 1 \in 1 .. k - 1 /\ (m - 1) + 1 = m
    BY <1>2
  <1>4. m - 1 \in T
    BY <1>1, <1>2, <1>3
  <1> QED
    BY <1>2, <1>3, <1>4

-----------------------------------------------------------------------------
(* Sequences of bytes *)

(* The bytes from x up to but without y. *)
Stretch(x, y) == [i \in 1 .. y - x |-> x + i - 1]

LEMMA StretchIs ==
    ASSUME NEW x \in Nat, NEW y \in Nat, x <= y
    PROVE  /\ Stretch(x, y) \in Seq(Nat) /\ Len(Stretch(x, y)) = y - x
           /\ \A i \in 1 .. y - x : Stretch(x, y)[i] = x + i - 1
           /\ Stretch(x, y) = <<>> <=> x = y
  <1>1. y - x \in Nat /\ \A i \in 1 .. y - x : x + i - 1 \in Nat
    OBVIOUS
  <1> DEFINE n == y - x
             s == [i \in 1 .. n |-> x + i - 1]
  <1>2. s \in Seq(Nat) /\ Len(s) = n /\ \A i \in 1 .. n : s[i] = x + i - 1
    BY <1>1
  <1>3. Stretch(x, y) = s
    BY DEF Stretch
  <1> HIDE DEF s
  <1>4. s = <<>> <=> n = 0
    BY <1>1, <1>2
  <1> QED
    BY <1>1, <1>2, <1>3, <1>4

(* Two sequences of the same length and with the same elements. *)
LEMMA SameSequence ==
    ASSUME NEW S, NEW s \in Seq(S), NEW t \in Seq(S), Len(s) = Len(t),
           \A i \in 1 .. Len(s) : s[i] = t[i]
    PROVE  s = t
  OBVIOUS

LEMMA ConcatFacts ==
    ASSUME NEW S, NEW s \in Seq(S), NEW t \in Seq(S)
    PROVE  /\ s \o t \in Seq(S) /\ Len(s \o t) = Len(s) + Len(t)
           /\ \A i \in 1 .. Len(s) : (s \o t)[i] = s[i]
           /\ \A i \in Len(s) + 1 .. Len(s) + Len(t) : (s \o t)[i] = t[i - Len(s)]
  OBVIOUS

LEMMA SubSeqFacts ==
    ASSUME NEW S, NEW s \in Seq(S), NEW n \in Nat, n <= Len(s)
    PROVE  /\ SubSeq(s, n + 1, Len(s)) \in Seq(S)
           /\ Len(SubSeq(s, n + 1, Len(s))) = Len(s) - n
           /\ \A i \in 1 .. Len(s) - n : SubSeq(s, n + 1, Len(s))[i] = s[n + i]
  <1>1. \A i \in n + 1 .. Len(s) : s[i] \in S
    OBVIOUS
  <1>2. SubSeq(s, n + 1, Len(s)) = [i \in 1 .. Len(s) - n |-> s[n + i]]
    OBVIOUS
  <1>3. \A i \in 1 .. Len(s) - n : s[n + i] \in S
    <2>1. \A i \in 1 .. Len(s) - n : n + i \in n + 1 .. Len(s)
      OBVIOUS
    <2> QED
      BY <1>1, <2>1
  <1> QED
    BY <1>2, <1>3

LEMMA StretchJoin ==
    ASSUME NEW x \in Nat, NEW y \in Nat, NEW z \in Nat, x <= y, y <= z
    PROVE  Stretch(x, y) \o Stretch(y, z) = Stretch(x, z)
  <1> DEFINE s == Stretch(x, y)
             t == Stretch(y, z)
             u == Stretch(x, z)
  <1>a. s \in Seq(Nat) /\ Len(s) = y - x /\ \A i \in 1 .. y - x : s[i] = x + i - 1
    BY StretchIs
  <1>b. t \in Seq(Nat) /\ Len(t) = z - y /\ \A i \in 1 .. z - y : t[i] = y + i - 1
    BY StretchIs
  <1>c. u \in Seq(Nat) /\ Len(u) = z - x /\ \A i \in 1 .. z - x : u[i] = x + i - 1
    <2>1. x <= z
      OBVIOUS
    <2> QED
      BY <2>1, StretchIs
  <1> HIDE DEF s, t, u
  <1>1. /\ s \in Seq(Nat) /\ Len(s) = y - x /\ \A i \in 1 .. y - x : s[i] = x + i - 1
        /\ t \in Seq(Nat) /\ Len(t) = z - y /\ \A i \in 1 .. z - y : t[i] = y + i - 1
        /\ u \in Seq(Nat) /\ Len(u) = z - x /\ \A i \in 1 .. z - x : u[i] = x + i - 1
    BY <1>a, <1>b, <1>c
  <1>d. /\ s \o t \in Seq(Nat) /\ Len(s \o t) = Len(s) + Len(t)
        /\ \A i \in 1 .. Len(s) : (s \o t)[i] = s[i]
        /\ \A i \in Len(s) + 1 .. Len(s) + Len(t) : (s \o t)[i] = t[i - Len(s)]
    BY <1>1, ConcatFacts
  <1>2. s \o t \in Seq(Nat) /\ Len(s \o t) = z - x
    BY <1>1, <1>d
  <1>3. ASSUME NEW i \in 1 .. z - x PROVE (s \o t)[i] = u[i]
    <2>1. CASE i <= y - x
      <3>1. i \in 1 .. y - x
        BY <2>1
      <3>2. (s \o t)[i] = s[i]
        BY <1>1, <1>d, <3>1
      <3> QED
        BY <1>1, <3>1, <3>2
    <2>2. CASE ~(i <= y - x)
      <3>1. i \in (y - x) + 1 .. (y - x) + (z - y) /\ i - (y - x) \in 1 .. z - y
        BY <2>2
      <3>2. (s \o t)[i] = t[i - (y - x)]
        BY <1>1, <1>d, <3>1
      <3> QED
        BY <1>1, <3>1, <3>2
    <2> QED
      BY <2>1, <2>2
  <1>4. s \o t = u
    BY <1>1, <1>2, <1>3, SameSequence
  <1> QED
    BY <1>4 DEF s, t, u

(* What is left of it without its first n. *)
LEMMA StretchEnd ==
    ASSUME NEW x \in Nat, NEW y \in Nat, NEW n \in Nat, x + n <= y
    PROVE  SubSeq(Stretch(x, y), n + 1, y - x) = Stretch(x + n, y)
  <1> DEFINE s == Stretch(x, y)
             t == SubSeq(s, n + 1, y - x)
             u == Stretch(x + n, y)
  <1>a. s \in Seq(Nat) /\ Len(s) = y - x /\ \A i \in 1 .. y - x : s[i] = x + i - 1
    BY StretchIs
  <1>b. /\ u \in Seq(Nat) /\ Len(u) = y - (x + n)
        /\ \A i \in 1 .. y - (x + n) : u[i] = (x + n) + i - 1
    <2> DEFINE z == x + n
    <2>1. z \in Nat /\ z <= y
      OBVIOUS
    <2> HIDE DEF z
    <2>2. /\ Stretch(z, y) \in Seq(Nat) /\ Len(Stretch(z, y)) = y - z
          /\ \A i \in 1 .. y - z : Stretch(z, y)[i] = z + i - 1
      BY <2>1, StretchIs
    <2> QED
      BY <2>2 DEF z
  <1> HIDE DEF s, u
  <1>1. /\ s \in Seq(Nat) /\ Len(s) = y - x /\ \A i \in 1 .. y - x : s[i] = x + i - 1
        /\ u \in Seq(Nat) /\ Len(u) = y - (x + n)
        /\ \A i \in 1 .. y - (x + n) : u[i] = (x + n) + i - 1
    BY <1>a, <1>b
  <1>2. /\ t \in Seq(Nat) /\ Len(t) = y - (x + n)
        /\ \A i \in 1 .. y - (x + n) : t[i] = s[n + i]
    <2>1. n <= Len(s) /\ Len(s) - n = y - (x + n)
      BY <1>1
    <2>2. /\ SubSeq(s, n + 1, Len(s)) \in Seq(Nat)
          /\ Len(SubSeq(s, n + 1, Len(s))) = Len(s) - n
          /\ \A i \in 1 .. Len(s) - n : SubSeq(s, n + 1, Len(s))[i] = s[n + i]
      BY <1>1, <2>1, SubSeqFacts
    <2> QED
      BY <1>1, <2>1, <2>2
  <1> HIDE DEF t
  <1>3. ASSUME NEW i \in 1 .. y - (x + n) PROVE t[i] = u[i]
    <2>1. n + i \in 1 .. y - x
      OBVIOUS
    <2> QED
      BY <1>1, <1>2, <2>1
  <1>4. t = u
    BY <1>1, <1>2, <1>3, SameSequence
  <1> QED
    BY <1>4 DEF s, t, u

-----------------------------------------------------------------------------
(* The invariant of the source *)

(* What read_exact has so far is what lies before the reader's position. *)
GotInv ==
    /\ Len(got) <= want /\ Len(got) <= position
    /\ got = Stretch(RegionStart + position - Len(got), RegionStart + position)
    /\ pc \in {"open", "chunk", "idle"} => want = 0

(* Between the seek and the read nobody has moved the offset. *)
SoughtInv == sought \in BOOLEAN /\ (sought => Reading /\ offset = ReadPosition)

(* Where chunk k + 1 begins: the end of the k before it. *)
Place(f, k) == ChunkStart(f, k + 1)

Payload(c) == <<c.start + 8, c.start + 8 + c.size>>
IsFormat(c) == c.size >= 16 /\ c.channels \in {1, 2}

OfKindUpTo(f, id, k) == {i \in 1 .. k : f.chunks[i].id = id}

(* What read_wav_layout knows when k chunks are behind it. *)
KnowsFormat(f, channels, k) ==
    IF channels = 0
    THEN OfKindUpTo(f, "fmt", k) = {}
    ELSE \E i \in 1 .. k : /\ OfKindUpTo(f, "fmt", k) = {i}
                           /\ IsFormat(f.chunks[i]) /\ channels = f.chunks[i].channels

KnowsData(f, data, k) ==
    IF data = NoRange
    THEN OfKindUpTo(f, "data", k) = {}
    ELSE \E i \in 1 .. k : OfKindUpTo(f, "data", k) = {i} /\ data = Payload(f.chunks[i])

RiffFits(f) == f.riffEnd >= 12 /\ f.riffEnd <= f.length

(* Where the reader is when k chunks are behind it. *)
ScanAt(k) ==
    /\ Place(file, k) <= file.riffEnd
    /\ KnowsFormat(file, layout.channels, k) /\ KnowsData(file, layout.data, k)
    /\ pc = "chunk" => position = Place(file, k)
    /\ pc = "header" => /\ position - Len(got) = Place(file, k) /\ want = 8
                        /\ Place(file, k) + 8 <= file.riffEnd
    /\ pc = "format" => /\ position - Len(got) = Place(file, k) + 8 /\ want = 16
                        /\ k < Len(file.chunks) /\ Place(file, k + 1) <= file.riffEnd
                        /\ layout.next = Place(file, k + 1) /\ layout.channels = 0
                        /\ file.chunks[k + 1].id = "fmt" /\ file.chunks[k + 1].size >= 16

ScanInv ==
    /\ pc = "riff" => want = 12 /\ position = Len(got) /\ 12 <= file.length
    /\ pc \in {"open", "riff"} => layout.channels = 0 /\ layout.data = NoRange
    /\ pc \in {"chunk", "header", "format"} =>
          RiffFits(file) /\ \E k \in 0 .. Len(file.chunks) : ScanAt(k)

(* An opened file: its data is in the region and made of whole frames. *)
OpenedInv ==
    Built =>
        /\ layout.channels \in {1, 2}
        /\ layout.data[1] <= layout.data[2] /\ layout.data[2] <= file.length
        /\ DataLength % BytesPerFrame = 0


-----------------------------------------------------------------------------
(* The chunks of a file *)

LEMMA FileIs ==
    ASSUME NEW f \in Files
    PROVE  /\ f.length \in Nat /\ f.riffEnd \in Nat /\ f.rate \in Nat \ {0}
           /\ f.chunks \in Seq(Chunks) /\ Len(f.chunks) \in Nat
           /\ \A i \in 1 .. Len(f.chunks) :
                 f.chunks[i] \in Chunks /\ f.chunks[i].start = ChunkStart(f, i)
           /\ f.riffEnd <= Place(f, Len(f.chunks))
  BY FilesAssumption DEF Place

LEMMA PaddedIs ==
    ASSUME NEW c \in Chunks
    PROVE  /\ c.size \in Nat /\ c.start \in Nat /\ c.channels \in Nat
           /\ c.size % 2 \in Nat
           /\ PaddedSize(c) \in Nat /\ PaddedSize(c) >= 8 + c.size
  <1>1. c.size \in Nat /\ c.start \in Nat /\ c.channels \in Nat
    BY DEF Chunks
  <1>2. c.size % 2 \in Nat
    BY <1>1
  <1> QED
    BY <1>1, <1>2 DEF PaddedSize

(* Each chunk begins where the one before it ends. *)
LEMMA PlaceIs ==
    ASSUME NEW f \in Files
    PROVE  /\ Place(f, 0) = 12
           /\ \A k \in 0 .. Len(f.chunks) : Place(f, k) \in Nat
           /\ \A k \in 0 .. Len(f.chunks) - 1 :
                 /\ f.chunks[k + 1] \in Chunks
                 /\ f.chunks[k + 1].start = Place(f, k)
                 /\ Place(f, k + 1) = Place(f, k) + PaddedSize(f.chunks[k + 1])
  <1> DEFINE n == Len(f.chunks)
  <1>1. n \in Nat /\ \A i \in 1 .. n : f.chunks[i] \in Chunks /\ f.chunks[i].start = ChunkStart(f, i)
    BY FileIs
  <1>2. Place(f, 0) = 12
    BY DEF Place, ChunkStart
  <1>3. ASSUME NEW k \in 0 .. n - 1
        PROVE  /\ f.chunks[k + 1] \in Chunks
               /\ f.chunks[k + 1].start = Place(f, k)
               /\ Place(f, k + 1) = Place(f, k) + PaddedSize(f.chunks[k + 1])
    <2>1. k + 1 \in 1 .. n /\ (k + 1) + 1 # 1 /\ ((k + 1) + 1) - 1 = k + 1
      BY <1>1
    <2>2. f.chunks[k + 1] \in Chunks /\ f.chunks[k + 1].start = Place(f, k)
      BY <1>1, <2>1 DEF Place
    <2>3. Place(f, k + 1) = f.chunks[k + 1].start + PaddedSize(f.chunks[k + 1])
      BY <2>1 DEF Place, ChunkStart
    <2> QED
      BY <2>2, <2>3
  <1>4. ASSUME NEW k \in 0 .. n PROVE Place(f, k) \in Nat
    <2>1. CASE k = 0
      BY <1>2, <2>1
    <2>2. CASE k # 0
      <3>1. k - 1 \in 0 .. n - 1 /\ (k - 1) + 1 = k
        BY <1>1, <2>2
      <3> DEFINE c == f.chunks[k]
      <3>2. c \in Chunks /\ c.start = Place(f, k - 1) /\ Place(f, k) = Place(f, k - 1) + PaddedSize(c)
        BY <1>3, <3>1
      <3> HIDE DEF c
      <3> QED
        BY <3>2, PaddedIs
    <2> QED
      BY <2>1, <2>2
  <1> QED
    BY <1>2, <1>3, <1>4

(* No two chunks begin in the same place. *)
LEMMA PlacesGrow ==
    ASSUME NEW f \in Files, NEW k \in 0 .. Len(f.chunks), NEW j \in 0 .. k - 1
    PROVE  Place(f, j) + 8 <= Place(f, k)
  <1> DEFINE n == Len(f.chunks)
             T == {m \in 1 .. n : \A i \in 0 .. m - 1 : Place(f, i) + 8 <= Place(f, m)}
  <1>1. n \in Nat
    BY FileIs
  <1>2. \A m \in 0 .. n : Place(f, m) \in Nat
    BY PlaceIs
  <1>3. ASSUME NEW m \in 0 .. n - 1 PROVE Place(f, m) + 8 <= Place(f, m + 1)
    <2>1. /\ f.chunks[m + 1] \in Chunks
          /\ Place(f, m + 1) = Place(f, m) + PaddedSize(f.chunks[m + 1])
      BY PlaceIs
    <2>2. PaddedSize(f.chunks[m + 1]) \in Nat /\ PaddedSize(f.chunks[m + 1]) >= 8
      BY <2>1, PaddedIs
    <2>3. Place(f, m) \in Nat
      BY <1>1, <1>2
    <2> QED
      BY <2>1, <2>2, <2>3
  <1>4. n # 0 => 1 \in T
    <2> SUFFICES ASSUME n # 0 PROVE 1 \in T
      OBVIOUS
    <2>1. 0 \in 0 .. n - 1 /\ 1 \in 1 .. n /\ 0 + 1 = 1
      BY <1>1
    <2>2. \A i \in 0 .. 1 - 1 : i = 0
      OBVIOUS
    <2> QED
      BY <1>3, <2>1, <2>2
  <1>5. ASSUME NEW m \in 1 .. n - 1, m \in T PROVE m + 1 \in T
    <2>1. m \in 0 .. n - 1 /\ m \in 0 .. n /\ m + 1 \in 1 .. n /\ m + 1 \in 0 .. n
      BY <1>1
    <2>2. Place(f, m) + 8 <= Place(f, m + 1) /\ Place(f, m) \in Nat /\ Place(f, m + 1) \in Nat
      BY <1>2, <1>3, <2>1
    <2>3. ASSUME NEW i \in 0 .. (m + 1) - 1 PROVE Place(f, i) + 8 <= Place(f, m + 1)
      <3>1. CASE i = m
        BY <2>2, <3>1
      <3>2. CASE i # m
        <4>1. i \in 0 .. m - 1 /\ i \in 0 .. n
          BY <1>1, <3>2
        <4>2. Place(f, i) + 8 <= Place(f, m) /\ Place(f, i) \in Nat
          BY <1>2, <1>5, <4>1
        <4> QED
          BY <2>2, <4>2
      <3> QED
        BY <3>1, <3>2
    <2> QED
      BY <2>1, <2>3
  <1>6. \A m \in 1 .. n : m \in T
    <2>1. CASE n = 0
      BY <2>1
    <2>2. CASE n # 0
      <3> HIDE DEF T, n
      <3> QED
        BY <1>1, <1>4, <1>5, <2>2, Induction
    <2> QED
      BY <2>1, <2>2
  <1>7. k \in 1 .. n
    BY <1>1
  <1> QED
    BY <1>6, <1>7

-----------------------------------------------------------------------------
(* Files that are none the demuxer can play *)

(* The RIFF body ends behind no chunk. *)
LEMMA NoChunkEnds ==
    ASSUME NEW f \in Files, NEW k \in 0 .. Len(f.chunks), Place(f, k) < f.riffEnd,
           k = Len(f.chunks) \/ f.riffEnd < Place(f, k) + 8 \/ f.riffEnd < Place(f, k + 1)
    PROVE  ~IsWav(f)
  <1> DEFINE n == Len(f.chunks)
  <1>1. n \in Nat /\ f.riffEnd \in Nat /\ f.riffEnd <= Place(f, n)
    BY FileIs
  <1>2. \A m \in 0 .. n : Place(f, m) \in Nat
    BY PlaceIs
  <1>3. k # n
    BY <1>1, <1>2
  <1>4. k + 1 \in 0 .. n /\ k \in 0 .. (k + 1) - 1
    BY <1>1, <1>3
  <1>5. Place(f, k) + 8 <= Place(f, k + 1)
    BY <1>4, PlacesGrow
  <1>6. f.riffEnd < Place(f, k + 1)
    BY <1>1, <1>2, <1>3, <1>4, <1>5
  <1>7. ASSUME NEW m \in 0 .. n PROVE Place(f, m) # f.riffEnd
    <2>1. CASE m < k
      <3>1. m \in 0 .. k - 1
        BY <1>1, <2>1
      <3>2. Place(f, m) + 8 <= Place(f, k)
        BY <3>1, PlacesGrow
      <3> QED
        BY <1>1, <1>2, <3>2
    <2>2. CASE m = k
      BY <1>1, <1>2, <2>2
    <2>3. CASE m = k + 1
      BY <1>1, <1>2, <1>6, <2>3
    <2>4. CASE m > k + 1
      <3>1. k + 1 \in 0 .. m - 1
        BY <1>1, <2>4
      <3>2. Place(f, k + 1) + 8 <= Place(f, m)
        BY <3>1, PlacesGrow
      <3> QED
        BY <1>1, <1>2, <1>4, <1>6, <3>2
    <2> QED
      BY <1>1, <2>1, <2>2, <2>3, <2>4
  <1> QED
    BY <1>7 DEF IsWav, Place

(* The chunks up to one that lies in the RIFF body lie in it. *)
LEMMA InRiffUpTo ==
    ASSUME NEW f \in Files, NEW k \in 0 .. Len(f.chunks), Place(f, k) <= f.riffEnd
    PROVE  /\ 1 .. k \subseteq InRiff(f)
           /\ Place(f, k) = f.riffEnd => InRiff(f) = 1 .. k
  <1> DEFINE n == Len(f.chunks)
  <1>1. n \in Nat /\ f.riffEnd \in Nat /\ DOMAIN f.chunks = 1 .. n
    BY FileIs
  <1>2. \A m \in 0 .. n : Place(f, m) \in Nat
    BY PlaceIs
  <1>3. ASSUME NEW i \in 1 .. k PROVE i \in InRiff(f)
    <2>1. i \in 1 .. n /\ i \in 0 .. n
      BY <1>1
    <2>2. Place(f, i) <= f.riffEnd
      <3>1. CASE i = k
        BY <3>1
      <3>2. CASE i # k
        <4>1. i \in 0 .. k - 1
          BY <1>1, <3>2
        <4>2. Place(f, i) + 8 <= Place(f, k)
          BY <4>1, PlacesGrow
        <4> QED
          BY <1>1, <1>2, <2>1, <4>2
      <3> QED
        BY <3>1, <3>2
    <2> QED
      BY <1>1, <2>1, <2>2 DEF InRiff, Place
  <1>4. ASSUME Place(f, k) = f.riffEnd, NEW i \in InRiff(f) PROVE i \in 1 .. k
    <2>1. i \in 1 .. n /\ Place(f, i) <= f.riffEnd
      BY <1>1 DEF InRiff, Place
    <2>2. CASE i > k
      <3>1. k \in 0 .. i - 1 /\ i \in 0 .. n
        BY <1>1, <2>1, <2>2
      <3>2. Place(f, k) + 8 <= Place(f, i)
        BY <3>1, PlacesGrow
      <3> QED
        BY <1>1, <1>2, <1>4, <2>1, <3>1, <3>2
    <2> QED
      BY <1>1, <2>1, <2>2
  <1> QED
    BY <1>3, <1>4

(* A chunk in the RIFF body that must not be there. *)
LEMMA BadChunk ==
    ASSUME NEW f \in Files, NEW k \in 0 .. Len(f.chunks) - 1, Place(f, k + 1) <= f.riffEnd,
           LET c == f.chunks[k + 1]
           IN  \/ c.id = "fmt" /\ (~IsFormat(c) \/ OfKindUpTo(f, "fmt", k) # {})
               \/ c.id = "data" /\ OfKindUpTo(f, "data", k) # {}
    PROVE  ~IsWav(f)
  <1> DEFINE c == f.chunks[k + 1]
  <1>0. Len(f.chunks) \in Nat
    BY FileIs
  <1>1. k + 1 \in 0 .. Len(f.chunks) /\ k + 1 \in 1 .. k + 1
    BY <1>0
  <1>2. 1 .. k + 1 \subseteq InRiff(f)
    BY <1>1, InRiffUpTo
  <1>3. k + 1 \in InRiff(f) /\ 1 .. k \subseteq InRiff(f) /\ k + 1 \notin 1 .. k
    BY <1>0, <1>1, <1>2
  <1>4. CASE c.id = "fmt" /\ ~IsFormat(c)
    <2>1. k + 1 \in OfKind(f, "fmt")
      BY <1>3, <1>4 DEF OfKind
    <2> QED
      BY <1>4, <2>1 DEF IsWav, IsFormat
  <1>5. CASE c.id = "fmt" /\ OfKindUpTo(f, "fmt", k) # {}
    <2>1. PICK i \in 1 .. k : f.chunks[i].id = "fmt"
      BY <1>5 DEF OfKindUpTo
    <2>2. k + 1 \in OfKind(f, "fmt") /\ i \in OfKind(f, "fmt") /\ i # k + 1
      BY <1>3, <1>5, <2>1 DEF OfKind
    <2> QED
      BY <2>2 DEF IsWav
  <1>6. CASE c.id = "data" /\ OfKindUpTo(f, "data", k) # {}
    <2>1. PICK i \in 1 .. k : f.chunks[i].id = "data"
      BY <1>6 DEF OfKindUpTo
    <2>2. k + 1 \in OfKind(f, "data") /\ i \in OfKind(f, "data") /\ i # k + 1
      BY <1>3, <1>6, <2>1 DEF OfKind
    <2> QED
      BY <2>2 DEF IsWav
  <1> QED
    BY <1>4, <1>5, <1>6

(* A body that is behind the demuxer as a whole: it knows what it is. *)
LEMMA WholeRiff ==
    ASSUME NEW f \in Files, NEW k \in 0 .. Len(f.chunks), Place(f, k) = f.riffEnd,
           NEW channels \in Nat, NEW data \in Nat \X Nat,
           KnowsFormat(f, channels, k), KnowsData(f, data, k), f.riffEnd <= f.length
    PROVE  /\ IsWav(f) <=> /\ channels # 0 /\ data # NoRange
                           /\ (data[2] - data[1]) % (2 * channels) = 0
           /\ data # NoRange => data = DataOf(f)
  <1>0. Len(f.chunks) \in Nat /\ DOMAIN f.chunks = 1 .. Len(f.chunks)
        /\ \A i \in 1 .. Len(f.chunks) :
              f.chunks[i] \in Chunks /\ f.chunks[i].start = ChunkStart(f, i)
    BY FileIs
  <1>1. InRiff(f) = 1 .. k
    BY InRiffUpTo, PlaceIs, FileIs
  <1>2. \A id : OfKind(f, id) = OfKindUpTo(f, id, k)
    BY <1>1 DEF OfKind, OfKindUpTo
  <1>3. ASSUME data # NoRange
        PROVE  \E j \in 1 .. k :
                  /\ OfKind(f, "data") = {j} /\ data = Payload(f.chunks[j])
                  /\ data = DataOf(f) /\ data[2] - data[1] = f.chunks[j].size
    <2>1. PICK j \in 1 .. k : OfKind(f, "data") = {j} /\ data = Payload(f.chunks[j])
      BY <1>2, <1>3 DEF KnowsData
    <2>2. j \in 1 .. Len(f.chunks)
      BY <1>0
    <2>3. f.chunks[j] \in Chunks /\ f.chunks[j].start = ChunkStart(f, j)
      BY <1>0, <2>2
    <2>4. (CHOOSE i \in OfKind(f, "data") : TRUE) = j
      BY <2>1
    <2>5. data = DataOf(f)
      BY <2>1, <2>3, <2>4 DEF DataOf, Payload
    <2>6. data[2] - data[1] = f.chunks[j].size
      BY <2>1, <2>3 DEF Payload, Chunks
    <2> QED
      BY <2>1, <2>5, <2>6
  <1>4. ASSUME channels # 0
        PROVE  \E i \in 1 .. k : /\ OfKind(f, "fmt") = {i} /\ IsFormat(f.chunks[i])
                                 /\ channels = f.chunks[i].channels
    BY <1>2, <1>4 DEF KnowsFormat
  <1>5. ASSUME channels # 0, data # NoRange, (data[2] - data[1]) % (2 * channels) = 0
        PROVE  IsWav(f)
    <2>1. PICK j \in 1 .. k : OfKind(f, "data") = {j} /\ data[2] - data[1] = f.chunks[j].size
      BY <1>3, <1>5
    <2>2. PICK i \in 1 .. k : /\ OfKind(f, "fmt") = {i} /\ IsFormat(f.chunks[i])
                              /\ channels = f.chunks[i].channels
      BY <1>4, <1>5
    <2>3. i \in DOMAIN f.chunks /\ j \in DOMAIN f.chunks
      BY <1>0
    <2>4. f.chunks[j].size % (2 * f.chunks[i].channels) = 0
      BY <1>5, <2>1, <2>2
    <2>5. \E m \in 0 .. Len(f.chunks) : ChunkStart(f, m + 1) = f.riffEnd
      BY DEF Place
    <2> QED
      BY <2>1, <2>2, <2>3, <2>4, <2>5 DEF IsWav, IsFormat
  <1>6. ASSUME IsWav(f)
        PROVE  channels # 0 /\ data # NoRange /\ (data[2] - data[1]) % (2 * channels) = 0
    <2>1. PICK i, j \in DOMAIN f.chunks :
              /\ OfKind(f, "fmt") = {i} /\ OfKind(f, "data") = {j}
              /\ f.chunks[j].size % (2 * f.chunks[i].channels) = 0
      BY <1>6 DEF IsWav
    <2>2. channels # 0
      BY <1>2, <2>1 DEF KnowsFormat
    <2>3. data # NoRange
      BY <1>2, <2>1 DEF KnowsData
    <2>4. channels = f.chunks[i].channels
      BY <1>4, <2>1, <2>2
    <2>5. data[2] - data[1] = f.chunks[j].size
      BY <1>3, <2>1, <2>3
    <2> QED
      BY <2>1, <2>2, <2>3, <2>4, <2>5
  <1> QED
    BY <1>3, <1>5, <1>6

-----------------------------------------------------------------------------
(* Reading headers *)

(* The RIFF body is in the region and has room for its own header. *)
LEMMA WavFits ==
    ASSUME NEW f \in Files, IsWav(f)
    PROVE  RiffFits(f)
  <1>1. f.riffEnd \in Nat /\ f.length \in Nat /\ Len(f.chunks) \in Nat
    BY FileIs
  <1>2. PICK n \in 0 .. Len(f.chunks) : Place(f, n) = f.riffEnd
    BY DEF IsWav, Place
  <1>3. Place(f, n) >= 12
    <2>1. Place(f, 0) = 12 /\ Place(f, n) \in Nat
      BY PlaceIs
    <2>2. CASE n = 0
      BY <2>1, <2>2
    <2>3. CASE n # 0
      <3>1. 0 \in 0 .. n - 1
        BY <2>3
      <3>2. Place(f, 0) + 8 <= Place(f, n)
        BY <3>1, PlacesGrow
      <3> QED
        BY <2>1, <3>2
    <2> QED
      BY <2>2, <2>3
  <1> QED
    BY <1>1, <1>2, <1>3 DEF IsWav, RiffFits

(* Bytes that were read where a chunk is tell which one it is. *)
LEMMA ChunkRead ==
    ASSUME file \in Files, NEW k \in 0 .. Len(file.chunks) - 1, NEW skip \in Nat,
           NEW n \in Nat \ {0}, NEW x \in Nat, x = RegionStart + Place(file, k) + skip
    PROVE  ChunkAt(Stretch(x, x + n), skip) = file.chunks[k + 1]
  <1> DEFINE bytes == Stretch(x, x + n)
             At0(i) == RegionStart + file.chunks[i].start + skip
             Fits(i) == bytes = [m \in DOMAIN bytes |-> At0(i) + m - 1]
             found == {i \in DOMAIN file.chunks : Fits(i)}
  <1>0. /\ Len(file.chunks) \in Nat /\ DOMAIN file.chunks = 1 .. Len(file.chunks)
        /\ RegionStart \in Nat
    BY FileIs, RegionStartAssumption
  <1>1. DOMAIN bytes = 1 .. n /\ \A m \in 1 .. n : bytes[m] = x + m - 1
    <2>1. x + n \in Nat /\ x <= x + n /\ (x + n) - x = n
      OBVIOUS
    <2> QED
      BY <2>1 DEF Stretch
  <1> HIDE DEF bytes
  <1>2. k + 1 \in found
    <2>1. k + 1 \in DOMAIN file.chunks
      BY <1>0
    <2>2. file.chunks[k + 1].start = Place(file, k)
      BY PlaceIs
    <2>3. At0(k + 1) = x
      BY <2>2
    <2>4. bytes = [m \in DOMAIN bytes |-> x + m - 1]
      <3>1. bytes = [m \in 1 .. (x + n) - x |-> x + m - 1] /\ (x + n) - x = n
        BY DEF bytes, Stretch
      <3> QED
        BY <1>1, <3>1
    <2> QED
      BY <2>1, <2>3, <2>4
  <1>3. ASSUME NEW i \in found PROVE i = k + 1
    <2>1. i \in 1 .. Len(file.chunks) /\ i - 1 \in 0 .. Len(file.chunks) - 1 /\ (i - 1) + 1 = i
      BY <1>0
    <2>2. file.chunks[i].start = Place(file, i - 1)
      BY <2>1, PlaceIs
    <2>3. bytes[1] = At0(i) + 1 - 1
      BY <1>1, <1>3
    <2>4. bytes[1] = x + 1 - 1
      BY <1>1
    <2>5. Place(file, i - 1) \in Nat /\ Place(file, k) \in Nat
      BY <2>1, <1>0, PlaceIs
    <2>6. Place(file, i - 1) = Place(file, k)
      BY <1>0, <2>2, <2>3, <2>4, <2>5
    <2>7. CASE i - 1 < k
      <3>1. i - 1 \in 0 .. k - 1 /\ k \in 0 .. Len(file.chunks)
        BY <1>0, <2>1, <2>7
      <3>2. Place(file, i - 1) + 8 <= Place(file, k)
        BY <3>1, PlacesGrow
      <3> QED
        BY <2>5, <2>6, <3>2
    <2>8. CASE k < i - 1
      <3>1. k \in 0 .. (i - 1) - 1 /\ i - 1 \in 0 .. Len(file.chunks)
        BY <1>0, <2>1, <2>8
      <3>2. Place(file, k) + 8 <= Place(file, i - 1)
        BY <3>1, PlacesGrow
      <3> QED
        BY <2>5, <2>6, <3>2
    <2> QED
      BY <1>0, <2>1, <2>7, <2>8
  <1> HIDE DEF found
  <1>4. found # {} /\ (CHOOSE i \in found : TRUE) = k + 1
    BY <1>2, <1>3
  <1>5. ChunkAt(bytes, skip) = IF found = {} THEN NoChunk ELSE file.chunks[CHOOSE i \in found : TRUE]
    BY DEF ChunkAt, found
  <1> QED
    BY <1>4, <1>5 DEF bytes

(* One chunk more. *)
LEMMA OneMore ==
    ASSUME NEW f \in Files, NEW k \in 0 .. Len(f.chunks) - 1, NEW id
    PROVE  OfKindUpTo(f, id, k + 1) =
               IF f.chunks[k + 1].id = id
               THEN OfKindUpTo(f, id, k) \cup {k + 1}
               ELSE OfKindUpTo(f, id, k)
  <1>1. 1 .. k + 1 = (1 .. k) \cup {k + 1}
    BY FileIs
  <1> QED
    BY <1>1 DEF OfKindUpTo

-----------------------------------------------------------------------------
(* The source, step by step *)

(* Where frame f is in the file. *)
At(f) == RegionStart + layout.data[1] + f * BytesPerFrame

SourceTypes ==
    /\ file \in Files /\ position \in Nat /\ want \in Nat /\ got \in Seq(Nat)
    /\ pc \in {"open", "riff", "chunk", "header", "format", "idle", "packet", "failed", "ioError"}
    /\ layout \in [channels : Nat, data : Nat \X Nat, next : Nat]
    /\ nextFrame \in Nat

(* A packet that is read: from the next frame on, and not too many. *)
PacketAt ==
    pc = "packet" =>
        \E n \in 1 .. FrameCount :
            /\ nextFrame + n <= FrameCount /\ want = n * BytesPerFrame
            /\ RegionStart + position - Len(got) = At(nextFrame)

FramesInv ==
    /\ Built => nextFrame <= FrameCount
    /\ pc \in {"open", "riff", "chunk", "header", "format"} => nextFrame = 0

SourceInv ==
    /\ SourceTypes /\ GotInv /\ ScanInv /\ OpenedInv /\ LayoutIsTheFile
    /\ PacketAt /\ FramesInv

LEMMA NothingRead ==
    ASSUME NEW x \in Nat
    PROVE  Stretch(x, x) = <<>>
  BY StretchIs

LEMMA SourceBegins == SourceInit => SourceInv
  <1> SUFFICES ASSUME SourceInit PROVE SourceInv
    OBVIOUS
  <1> USE DEF SourceInit
  <1>1. SourceTypes
    BY DEF SourceTypes, NoRange
  <1>2. GotInv
    <2>1. RegionStart + position - Len(got) = RegionStart /\ RegionStart + position = RegionStart
      BY RegionStartAssumption
    <2>2. Stretch(RegionStart, RegionStart) = <<>>
      BY RegionStartAssumption, NothingRead
    <2> QED
      BY <2>1, <2>2 DEF GotInv
  <1>3. ScanInv /\ OpenedInv /\ LayoutIsTheFile /\ PacketAt /\ FramesInv
    BY DEF ScanInv, OpenedInv, LayoutIsTheFile, PacketAt, FramesInv, Built
  <1> QED
    BY <1>1, <1>2, <1>3 DEF SourceInv

(* A file that is none to play is refused. *)
LEMMA FailKeeps ==
    ASSUME SourceInv, Fail, ~IsWav(file)
    PROVE  SourceInv'
  <1>1. /\ SourceTypes /\ GotInv
        /\ pc' = "failed" /\ file' = file /\ position' = position /\ got' = got /\ want' = want
        /\ layout' = layout /\ nextFrame' = nextFrame
    BY DEF SourceInv, Fail
  <1>2. SourceTypes'
    BY <1>1 DEF SourceTypes
  <1>3. GotInv'
    BY <1>1 DEF GotInv
  <1>4. ScanInv' /\ OpenedInv' /\ PacketAt' /\ FramesInv'
    BY <1>1 DEF ScanInv, OpenedInv, PacketAt, FramesInv, Built
  <1>5. LayoutIsTheFile'
    BY <1>1 DEF LayoutIsTheFile
  <1> QED
    BY <1>2, <1>3, <1>4, <1>5 DEF SourceInv

(* What a new read begins with. *)
LEMMA NothingGot ==
    ASSUME NEW n \in Nat, NEW then, pc' = then, got' = <<>>, want' = n, position' \in Nat,
           then \in {"open", "chunk", "idle"} => n = 0
    PROVE  GotInv'
  <1>1. got' = <<>> /\ want' = n /\ pc' = then /\ Len(got') = 0
    OBVIOUS
  <1>2. /\ RegionStart + position' - Len(got') = RegionStart + position'
        /\ RegionStart + position' \in Nat
    <2> DEFINE r == RegionStart
               p == position'
               l == Len(got')
    <2>1. r \in Nat /\ p \in Nat /\ l = 0
      BY <1>1, RegionStartAssumption
    <2> HIDE DEF r, p, l
    <2>2. r + p \in Nat /\ r + p - l = r + p
      BY <2>1
    <2> QED
      BY <2>2 DEF r, p, l
  <1>3. Stretch(RegionStart + position', RegionStart + position') = <<>>
    <2> DEFINE x == RegionStart + position'
    <2>1. x \in Nat
      BY <1>2
    <2> HIDE DEF x
    <2> QED
      BY <2>1, NothingRead DEF x
  <1> QED
    BY <1>1, <1>2, <1>3 DEF GotInv

LEMMA ReadBegins ==
    ASSUME NEW n \in Nat, NEW then, ReadExactly(n, then), position' \in Nat,
           then \in {"open", "chunk", "idle"} => n = 0
    PROVE  GotInv'
  BY NothingGot DEF ReadExactly

LEMMA OpenKeeps ==
    ASSUME SourceInv, Open
    PROVE  SourceInv'
  <1>1. SourceTypes /\ ScanInv /\ FramesInv /\ pc = "open" /\ file \in Files /\ file.length \in Nat
    BY FileIs DEF SourceInv, Open, SourceTypes
  <1>2. CASE file.length < 12
    <2>1. ~IsWav(file)
      <3>1. file.riffEnd \in Nat
        BY <1>1, FileIs
      <3> QED
        BY <1>1, <1>2, <3>1, WavFits DEF RiffFits
    <2>2. Fail
      BY <1>2 DEF Open
    <2> QED
      BY <2>1, <2>2, FailKeeps
  <1>3. CASE ~(file.length < 12)
    <2>1. /\ SeekTo(0) /\ ReadExactly(12, "riff")
          /\ file' = file /\ layout' = layout /\ nextFrame' = nextFrame
      BY <1>3 DEF Open
    <2>2. pc' = "riff" /\ got' = <<>> /\ want' = 12 /\ position' = 0
      BY <2>1 DEF SeekTo, ReadExactly
    <2>3. SourceTypes'
      BY <1>1, <2>1, <2>2 DEF SourceTypes
    <2>4. GotInv'
      BY <2>1, <2>2, ReadBegins
    <2>5. ScanInv'
      BY <1>1, <1>3, <2>1, <2>2 DEF ScanInv
    <2>6. OpenedInv' /\ LayoutIsTheFile' /\ PacketAt' /\ FramesInv'
      BY <1>1, <2>1, <2>2 DEF OpenedInv, LayoutIsTheFile, PacketAt, FramesInv, Built
    <2> QED
      BY <2>3, <2>4, <2>5, <2>6 DEF SourceInv
  <1> QED
    BY <1>2, <1>3

(* Between two chunks, k of them behind. *)
LEMMA ChunkBegins ==
    ASSUME NEW k \in 0 .. Len(file.chunks), file \in Files, file' = file,
           ReadExactly(0, "chunk"), position' = Place(file, k), RiffFits(file),
           Place(file, k) <= file.riffEnd,
           KnowsFormat(file, layout'.channels, k), KnowsData(file, layout'.data, k),
           layout' \in [channels : Nat, data : Nat \X Nat, next : Nat], nextFrame' = 0
    PROVE  SourceInv'
  <1>1. got' = <<>> /\ want' = 0 /\ pc' = "chunk"
    BY DEF ReadExactly
  <1>2. Place(file, k) \in Nat
    BY PlaceIs
  <1>3. SourceTypes'
    BY <1>1, <1>2 DEF SourceTypes
  <1>4. GotInv'
    BY <1>2, ReadBegins
  <1>5. ScanAt(k)'
    BY <1>1 DEF ScanAt
  <1>6. ScanInv'
    BY <1>1, <1>5 DEF ScanInv
  <1>7. OpenedInv' /\ LayoutIsTheFile' /\ PacketAt' /\ FramesInv'
    BY <1>1 DEF OpenedInv, LayoutIsTheFile, PacketAt, FramesInv, Built
  <1> QED
    BY <1>3, <1>4, <1>6, <1>7 DEF SourceInv

LEMMA ReadRiffKeeps ==
    ASSUME SourceInv, ReadRiff
    PROVE  SourceInv'
  <1>1. /\ SourceTypes /\ ScanInv /\ FramesInv /\ pc = "riff" /\ Len(got) = want
        /\ file \in Files /\ file.length \in Nat /\ file.riffEnd \in Nat
    BY FileIs DEF SourceInv, ReadRiff, SourceTypes, Done
  <1> DEFINE r == RegionStart
  <1>a. r \in Nat /\ IsRiff
    <2>1. r \in Nat
      BY RegionStartAssumption
    <2>2. Len(got) = 12 /\ position = 12
      BY <1>1 DEF ScanInv
    <2>3. got = Stretch(r + position - Len(got), r + position)
      BY DEF SourceInv, GotInv
    <2> HIDE DEF r
    <2>4. r + 12 - 12 = r /\ (r + 12) - r = 12
      BY <2>1
    <2>5. got = Stretch(r, r + 12)
      BY <2>2, <2>3, <2>4
    <2>6. Stretch(r, r + 12) = [i \in 1 .. 12 |-> r + i - 1]
      BY <2>4 DEF Stretch
    <2> QED
      BY <2>1, <2>5, <2>6 DEF IsRiff, r
  <1>2. CASE ~RiffFits(file)
    <2>1. ~IsWav(file)
      BY <1>1, <1>2, WavFits
    <2>2. Fail
      BY <1>1, <1>2 DEF ReadRiff, RiffFits
    <2> QED
      BY <2>1, <2>2, FailKeeps
  <1>3. CASE RiffFits(file)
    <2>1. /\ ReadExactly(0, "chunk")
          /\ file' = file /\ position' = position /\ layout' = layout /\ nextFrame' = nextFrame
      BY <1>1, <1>a, <1>3 DEF ReadRiff, RiffFits
    <2>2. want = 12 /\ position = 12 /\ layout.channels = 0 /\ layout.data = NoRange
      BY <1>1 DEF ScanInv
    <2>3. Place(file, 0) = 12 /\ 0 \in 0 .. Len(file.chunks) /\ Place(file, 0) <= file.riffEnd
      BY <1>1, <1>3, PlaceIs, FileIs DEF RiffFits
    <2>4. KnowsFormat(file, 0, 0) /\ KnowsData(file, NoRange, 0)
      BY DEF KnowsFormat, KnowsData, OfKindUpTo
    <2>5. layout' \in [channels : Nat, data : Nat \X Nat, next : Nat] /\ nextFrame' = 0
      BY <1>1, <2>1 DEF SourceTypes, FramesInv
    <2> QED
      BY <1>1, <1>3, <2>1, <2>2, <2>3, <2>4, <2>5, ChunkBegins
  <1> QED
    BY <1>2, <1>3

LEMMA BeginChunkKeeps ==
    ASSUME SourceInv, BeginChunk
    PROVE  SourceInv'
  <1>1. /\ SourceTypes /\ ScanInv /\ FramesInv /\ pc = "chunk" /\ position # file.riffEnd
        /\ file \in Files /\ file.riffEnd \in Nat /\ RiffFits(file) /\ position \in Nat
    BY FileIs DEF SourceInv, BeginChunk, SourceTypes, ScanInv
  <1>2. PICK k \in 0 .. Len(file.chunks) : ScanAt(k)
    BY <1>1 DEF ScanInv
  <1>3. position = Place(file, k) /\ Place(file, k) < file.riffEnd
    BY <1>1, <1>2 DEF ScanAt
  <1>4. CASE position + 8 > file.riffEnd
    <2>1. ~IsWav(file)
      BY <1>1, <1>3, <1>4, NoChunkEnds
    <2>2. Fail
      BY <1>4 DEF BeginChunk
    <2> QED
      BY <2>1, <2>2, FailKeeps
  <1>5. CASE ~(position + 8 > file.riffEnd)
    <2>1. /\ ReadExactly(8, "header")
          /\ file' = file /\ position' = position /\ layout' = layout /\ nextFrame' = nextFrame
      BY <1>5 DEF BeginChunk
    <2>2. got' = <<>> /\ want' = 8 /\ pc' = "header" /\ Len(got') = 0
      BY <2>1 DEF ReadExactly
    <2>3. SourceTypes'
      BY <1>1, <2>1, <2>2 DEF SourceTypes
    <2>4. GotInv'
      BY <1>1, <2>1, ReadBegins
    <2>5. position' - Len(got') = Place(file, k) /\ Place(file, k) + 8 <= file.riffEnd
      BY <1>1, <1>3, <1>5, <2>1, <2>2
    <2>6. ScanAt(k)'
      BY <1>2, <2>1, <2>2, <2>5 DEF ScanAt
    <2>7. ScanInv'
      BY <1>1, <2>1, <2>2, <2>6 DEF ScanInv
    <2>8. OpenedInv' /\ LayoutIsTheFile' /\ PacketAt' /\ FramesInv'
      BY <1>1, <2>1, <2>2 DEF OpenedInv, LayoutIsTheFile, PacketAt, FramesInv, Built
    <2> QED
      BY <2>3, <2>4, <2>7, <2>8 DEF SourceInv
  <1> QED
    BY <1>4, <1>5

(* The demuxer knows the payload it will play, inside the region. *)
LEMMA KnownData ==
    ASSUME NEW f \in Files, NEW k \in 0 .. Len(f.chunks), Place(f, k) <= f.riffEnd,
           NEW data \in Nat \X Nat, data # NoRange, KnowsData(f, data, k)
    PROVE  data[1] <= data[2] /\ data[2] <= f.riffEnd
  <1>0. Len(f.chunks) \in Nat /\ f.riffEnd \in Nat
    BY FileIs
  <1>1. PICK i \in 1 .. k : data = Payload(f.chunks[i])
    BY DEF KnowsData
  <1>2. i - 1 \in 0 .. Len(f.chunks) - 1 /\ (i - 1) + 1 = i /\ i \in 0 .. Len(f.chunks)
    BY <1>0
  <1>3. /\ f.chunks[i] \in Chunks /\ f.chunks[i].start = Place(f, i - 1)
        /\ Place(f, i) = Place(f, i - 1) + PaddedSize(f.chunks[i])
    BY <1>2, PlaceIs
  <1>4. /\ f.chunks[i].size \in Nat /\ f.chunks[i].start \in Nat
        /\ PaddedSize(f.chunks[i]) \in Nat /\ PaddedSize(f.chunks[i]) >= 8 + f.chunks[i].size
    BY <1>3, PaddedIs
  <1>5. /\ data[1] = f.chunks[i].start + 8
        /\ data[2] = f.chunks[i].start + 8 + f.chunks[i].size
    BY <1>1 DEF Payload
  <1>6. Place(f, i) \in Nat /\ Place(f, k) \in Nat
    BY <1>2, PlaceIs
  <1>7. Place(f, i) <= Place(f, k)
    <2>1. CASE i = k
      BY <1>6, <2>1
    <2>2. CASE i # k
      <3>1. i \in 0 .. k - 1
        BY <1>0, <2>2
      <3>2. Place(f, i) + 8 <= Place(f, k)
        BY <3>1, PlacesGrow
      <3> QED
        BY <1>6, <3>2
    <2> QED
      BY <2>1, <2>2
  <1>8. data[2] <= Place(f, i) /\ data[1] <= data[2]
    BY <1>3, <1>4, <1>5
  <1>9. data[2] \in Nat
    OBVIOUS
  <1> QED
    BY <1>0, <1>6, <1>7, <1>8, <1>9

(* The frames of the payload. *)
LEMMA CountIs ==
    ASSUME layout.channels \in {1, 2}, layout.data \in Nat \X Nat, layout.data[1] <= layout.data[2]
    PROVE  /\ BytesPerFrame \in {2, 4} /\ DataLength \in Nat /\ FrameCount \in Nat
           /\ BytesPerFrame * FrameCount <= DataLength
           /\ DataLength % BytesPerFrame = 0 => BytesPerFrame * FrameCount = DataLength
  <1> DEFINE b == BytesPerFrame
             l == DataLength
  <1>1. b \in {2, 4}
    BY DEF BytesPerFrame
  <1>2. l \in Nat
    BY DEF DataLength
  <1> HIDE DEF b, l
  <1>3. /\ l \div b \in Nat /\ b * (l \div b) <= l
        /\ l % b = 0 => b * (l \div b) = l
    <2>1. CASE b = 2
      BY <1>2, <2>1
    <2>2. CASE b = 4
      BY <1>2, <2>2
    <2> QED
      BY <1>1, <2>1, <2>2
  <1> QED
    BY <1>1, <1>2, <1>3 DEF b, l, FrameCount

LEMMA EndLayoutKeeps ==
    ASSUME SourceInv, EndLayout
    PROVE  SourceInv'
  <1>1. /\ SourceTypes /\ ScanInv /\ pc = "chunk" /\ position = file.riffEnd
        /\ file \in Files /\ RiffFits(file) /\ position \in Nat /\ nextFrame = 0
        /\ layout \in [channels : Nat, data : Nat \X Nat, next : Nat]
    BY DEF SourceInv, EndLayout, SourceTypes, ScanInv, FramesInv
  <1>2. PICK k \in 0 .. Len(file.chunks) : ScanAt(k)
    BY <1>1 DEF ScanInv
  <1>3. /\ Place(file, k) = file.riffEnd
        /\ KnowsFormat(file, layout.channels, k) /\ KnowsData(file, layout.data, k)
    BY <1>1, <1>2 DEF ScanAt
  <1>4. layout.channels \in Nat /\ layout.data \in Nat \X Nat /\ file.riffEnd <= file.length
    BY <1>1 DEF RiffFits
  <1>5. /\ IsWav(file) <=> /\ layout.channels # 0 /\ layout.data # NoRange
                           /\ (layout.data[2] - layout.data[1]) % (2 * layout.channels) = 0
        /\ layout.data # NoRange => layout.data = DataOf(file)
    BY <1>1, <1>3, <1>4, WholeRiff
  <1>6. IsWav(file) <=> LayoutIsComplete
    BY <1>5 DEF LayoutIsComplete, DataLength, BytesPerFrame
  <1>7. CASE ~LayoutIsComplete
    <2>1. Fail
      BY <1>7 DEF EndLayout
    <2> QED
      BY <1>6, <1>7, <2>1, FailKeeps
  <1>8. CASE LayoutIsComplete
    <2>1. /\ ReadExactly(0, "idle")
          /\ file' = file /\ position' = position /\ layout' = layout /\ nextFrame' = nextFrame
      BY <1>8 DEF EndLayout
    <2>2. got' = <<>> /\ want' = 0 /\ pc' = "idle"
      BY <2>1 DEF ReadExactly
    <2>3. SourceTypes'
      BY <1>1, <2>1, <2>2 DEF SourceTypes
    <2>4. GotInv'
      BY <1>1, <2>1, ReadBegins
    <2>5. ScanInv' /\ PacketAt'
      BY <2>2 DEF ScanInv, PacketAt
    <2>6. layout.channels \in {1, 2}
      BY <1>3, <1>8 DEF LayoutIsComplete, KnowsFormat, IsFormat
    <2>7. layout.data # NoRange
      BY <1>8 DEF LayoutIsComplete
    <2>8. layout.data[1] <= layout.data[2] /\ layout.data[2] <= file.riffEnd
      <3>1. Place(file, k) <= file.riffEnd
        BY <1>1, <1>3
      <3> QED
        BY <1>1, <1>3, <1>4, <2>7, <3>1, KnownData
    <2>9. layout.data[2] <= file.length
      <3>1. layout.data[2] \in Nat /\ file.riffEnd \in Nat /\ file.length \in Nat
        BY <1>1, <1>4, FileIs
      <3> QED
        BY <1>4, <2>8, <3>1
    <2>10. OpenedInv'
      BY <1>8, <2>1, <2>6, <2>8, <2>9 DEF OpenedInv, LayoutIsComplete, DataLength, BytesPerFrame
    <2>11. LayoutIsTheFile'
      BY <1>5, <1>6, <1>8, <2>1, <2>2, <2>7 DEF LayoutIsTheFile
    <2>12. FramesInv'
      <3>1. FrameCount \in Nat
        BY <1>4, <2>6, <2>8, CountIs
      <3>2. FrameCount' = FrameCount
        BY <2>1 DEF FrameCount, DataLength, BytesPerFrame
      <3> QED
        BY <1>1, <2>1, <2>2, <3>1, <3>2 DEF FramesInv
    <2> QED
      BY <2>3, <2>4, <2>5, <2>10, <2>11, <2>12 DEF SourceInv
  <1> QED
    BY <1>7, <1>8

(* A header that was read is that of the next chunk, which there is. *)
LEMMA HeaderRead ==
    ASSUME SourceInv, Done("header")
    PROVE  \E k \in 0 .. Len(file.chunks) - 1 :
              /\ ScanAt(k) /\ ChunkAt(got, 0) = file.chunks[k + 1]
              /\ position = Place(file, k) + 8 /\ Place(file, k) + 8 <= file.riffEnd
  <1>1. /\ SourceTypes /\ ScanInv /\ GotInv /\ pc = "header" /\ Len(got) = want
        /\ file \in Files /\ position \in Nat
    BY DEF SourceInv, SourceTypes, Done
  <1>2. PICK k \in 0 .. Len(file.chunks) : ScanAt(k)
    BY <1>1 DEF ScanInv
  <1>3. /\ position - Len(got) = Place(file, k) /\ Len(got) = 8
        /\ Place(file, k) + 8 <= file.riffEnd
    BY <1>1, <1>2 DEF ScanAt
  <1>4. /\ Place(file, k) \in Nat /\ Len(file.chunks) \in Nat
        /\ Place(file, Len(file.chunks)) \in Nat /\ file.riffEnd \in Nat
        /\ file.riffEnd <= Place(file, Len(file.chunks))
    BY <1>1, FileIs, PlaceIs
  <1>5. k \in 0 .. Len(file.chunks) - 1
    BY <1>3, <1>4
  <1>6. position = Place(file, k) + 8
    BY <1>1, <1>3, <1>4
  <1> DEFINE skip == 0
             l == Len(got)
             x == RegionStart + Place(file, k) + skip
  <1>7. x \in Nat /\ skip \in Nat /\ l \in Nat \ {0}
    BY <1>3, <1>4, RegionStartAssumption
  <1>8. RegionStart + position - Len(got) = x /\ RegionStart + position = x + l
    BY <1>3, <1>4, <1>6, RegionStartAssumption
  <1>9. got = Stretch(x, x + l)
    BY <1>1, <1>8 DEF GotInv
  <1>10. x = RegionStart + Place(file, k) + skip
    OBVIOUS
  <1> HIDE DEF x, skip, l
  <1>11. ChunkAt(Stretch(x, x + l), skip) = file.chunks[k + 1]
    BY <1>1, <1>5, <1>7, <1>10, ChunkRead
  <1>12. ChunkAt(got, 0) = file.chunks[k + 1]
    BY <1>9, <1>11 DEF skip
  <1> QED
    BY <1>2, <1>3, <1>5, <1>6, <1>12

LEMMA ReadHeaderKeeps ==
    ASSUME SourceInv, ReadHeader
    PROVE  SourceInv'
  <1>1. /\ SourceTypes /\ ScanInv /\ FramesInv /\ Done("header") /\ pc = "header" /\ Len(got) = want
        /\ file \in Files /\ position \in Nat /\ nextFrame = 0 /\ RiffFits(file)
        /\ layout \in [channels : Nat, data : Nat \X Nat, next : Nat]
    BY DEF SourceInv, ReadHeader, SourceTypes, ScanInv, FramesInv, Done
  <1>2. PICK k \in 0 .. Len(file.chunks) - 1 :
              /\ ScanAt(k) /\ ChunkAt(got, 0) = file.chunks[k + 1]
              /\ position = Place(file, k) + 8 /\ Place(file, k) + 8 <= file.riffEnd
    BY <1>1, HeaderRead
  <1> DEFINE c == file.chunks[k + 1]
  <1>3. /\ c \in Chunks /\ c.start = Place(file, k) /\ Place(file, k + 1) = Place(file, k) + PaddedSize(c)
        /\ Place(file, k) \in Nat /\ Place(file, k + 1) \in Nat
        /\ file.riffEnd \in Nat /\ Len(file.chunks) \in Nat
        /\ k \in 0 .. Len(file.chunks) /\ k + 1 \in 0 .. Len(file.chunks)
    <2>1. Len(file.chunks) \in Nat /\ file.riffEnd \in Nat
      BY <1>1, FileIs
    <2>2. k \in 0 .. Len(file.chunks) /\ k + 1 \in 0 .. Len(file.chunks)
      BY <2>1
    <2> QED
      BY <1>1, <2>1, <2>2, PlaceIs
  <1>4. c.size \in Nat /\ c.size % 2 \in Nat /\ c.id \in {"fmt", "data", "other"}
    BY <1>3, PaddedIs DEF Chunks
  <1>5. NextOffset(c.size) = Place(file, k + 1)
    <2> DEFINE s == c.size
               odd == c.size % 2
    <2>1. /\ NextOffset(c.size) = position + s + odd
          /\ Place(file, k + 1) = Place(file, k) + (8 + s + odd)
      BY <1>3 DEF NextOffset, PaddedSize
    <2>2. s \in Nat /\ odd \in Nat
      BY <1>4
    <2> HIDE DEF s, odd, c
    <2> QED
      BY <1>2, <1>3, <2>1, <2>2
  <1>6. /\ KnowsFormat(file, layout.channels, k) /\ KnowsData(file, layout.data, k)
        /\ Place(file, k) <= file.riffEnd
    BY <1>2 DEF ScanAt
  <1>c. ChunkAt(got, 0) = c
    BY <1>2
  <1> HIDE DEF c
  <1>7. CASE Unwanted(c)
    <2>1. ~IsWav(file)
      <3>1. CASE file.riffEnd < Place(file, k + 1)
        <4>1. Place(file, k) < file.riffEnd
          BY <1>2, <1>3
        <4> QED
          BY <1>1, <1>3, <3>1, <4>1, NoChunkEnds
      <3>2. CASE ~(file.riffEnd < Place(file, k + 1))
        <4>1. Place(file, k + 1) <= file.riffEnd
          BY <1>3, <3>2
        <4>2. ~(position + c.size > file.riffEnd)
          <5> DEFINE size == c.size
                     odd == c.size % 2
                     next == Place(file, k + 1)
                     end == file.riffEnd
          <5>1. position + size + odd = next
            BY <1>5 DEF NextOffset
          <5>2. size \in Nat /\ odd \in Nat /\ next \in Nat /\ end \in Nat /\ position \in Nat
            BY <1>1, <1>3, <1>4
          <5>3. next <= end
            BY <4>1
          <5> HIDE DEF size, odd, next, end
          <5>4. ~(position + size > end)
            BY <5>1, <5>2, <5>3
          <5> QED
            BY <5>4 DEF size, end
        <4>3. \/ c.id = "fmt" /\ (layout.channels # 0 \/ c.size < 16)
              \/ c.id = "data" /\ layout.data # NoRange
          BY <1>3, <1>5, <1>7, <3>2, <4>2 DEF Unwanted
        <4>4. layout.channels # 0 => OfKindUpTo(file, "fmt", k) # {}
          BY <1>6 DEF KnowsFormat
        <4>5. layout.data # NoRange => OfKindUpTo(file, "data", k) # {}
          BY <1>6 DEF KnowsData
        <4>6. c.size < 16 => ~IsFormat(c)
          BY <1>4 DEF IsFormat
        <4>7. \/ c.id = "fmt" /\ (~IsFormat(c) \/ OfKindUpTo(file, "fmt", k) # {})
              \/ c.id = "data" /\ OfKindUpTo(file, "data", k) # {}
          BY <4>3, <4>4, <4>5, <4>6
        <4> QED
          BY <1>1, <4>1, <4>7, BadChunk DEF c
      <3> QED
        BY <3>1, <3>2
    <2>2. Fail
      BY <1>7, <1>c DEF ReadHeader
    <2> QED
      BY <2>1, <2>2, FailKeeps
  <1>8. ASSUME ~Unwanted(c)
        PROVE  /\ Place(file, k + 1) <= file.riffEnd
               /\ c.id = "fmt" => layout.channels = 0 /\ c.size >= 16
               /\ c.id = "data" => layout.data = NoRange
    BY <1>3, <1>4, <1>5, <1>8 DEF Unwanted
  <1>9. CASE ~Unwanted(c) /\ c.id = "fmt"
    <2>1. /\ ReadExactly(16, "format")
          /\ layout' = [layout EXCEPT !.next = NextOffset(c.size)]
          /\ file' = file /\ position' = position /\ nextFrame' = nextFrame
      BY <1>9, <1>c DEF ReadHeader
    <2>2. got' = <<>> /\ want' = 16 /\ pc' = "format" /\ Len(got') = 0
      BY <2>1 DEF ReadExactly
    <2>3. /\ layout' \in [channels : Nat, data : Nat \X Nat, next : Nat]
          /\ layout'.channels = layout.channels /\ layout'.data = layout.data
          /\ layout'.next = Place(file, k + 1)
      BY <1>1, <1>3, <1>5, <2>1
    <2>4. SourceTypes'
      BY <1>1, <2>1, <2>2, <2>3 DEF SourceTypes
    <2>5. GotInv'
      BY <1>1, <2>1, ReadBegins
    <2>6. position' - Len(got') = Place(file, k) + 8
      BY <1>1, <1>2, <2>1, <2>2
    <2>7. /\ k < Len(file.chunks) /\ Place(file, k + 1) <= file.riffEnd /\ layout.channels = 0
          /\ file.chunks[k + 1].id = "fmt" /\ file.chunks[k + 1].size >= 16
      BY <1>3, <1>8, <1>9 DEF c
    <2>8. ScanAt(k)'
      BY <1>6, <2>1, <2>2, <2>3, <2>6, <2>7 DEF ScanAt
    <2>9. ScanInv'
      BY <1>1, <1>3, <2>1, <2>2, <2>8 DEF ScanInv
    <2>10. OpenedInv' /\ LayoutIsTheFile' /\ PacketAt' /\ FramesInv'
      BY <1>1, <2>1, <2>2 DEF OpenedInv, LayoutIsTheFile, PacketAt, FramesInv, Built
    <2> QED
      BY <2>4, <2>5, <2>9, <2>10 DEF SourceInv
  <1>10. CASE ~Unwanted(c) /\ c.id # "fmt"
    <2> DEFINE payload == <<position, position + c.size>>
    <2>1. /\ ReadExactly(0, "chunk") /\ SeekTo(NextOffset(c.size))
          /\ layout' = IF c.id = "data" THEN [layout EXCEPT !.data = payload] ELSE layout
          /\ file' = file /\ nextFrame' = nextFrame
      BY <1>10, <1>c DEF ReadHeader
    <2>2. position' = Place(file, k + 1)
      BY <1>5, <2>1 DEF SeekTo
    <2>3. payload \in Nat \X Nat /\ payload = Payload(c) /\ payload # NoRange
      <3>1. position \in Nat /\ c.size \in Nat /\ position = c.start + 8 /\ position # 0
        BY <1>1, <1>2, <1>3, <1>4
      <3>2. position + c.size \in Nat
        BY <3>1
      <3> QED
        BY <3>1, <3>2 DEF Payload, NoRange
    <2> HIDE DEF payload
    <2>4. /\ layout' \in [channels : Nat, data : Nat \X Nat, next : Nat]
          /\ layout'.channels = layout.channels
          /\ layout'.data = IF c.id = "data" THEN payload ELSE layout.data
      BY <1>1, <2>1, <2>3
    <2>5. OfKindUpTo(file, "fmt", k + 1) = OfKindUpTo(file, "fmt", k)
      BY <1>1, <1>10, OneMore DEF c
    <2>6. KnowsFormat(file, layout'.channels, k + 1)
      <3>1. CASE layout.channels = 0
        BY <1>6, <2>4, <2>5, <3>1 DEF KnowsFormat
      <3>2. CASE layout.channels # 0
        <4>1. PICK i \in 1 .. k : /\ OfKindUpTo(file, "fmt", k) = {i} /\ IsFormat(file.chunks[i])
                                  /\ layout.channels = file.chunks[i].channels
          BY <1>6, <3>2 DEF KnowsFormat
        <4>2. i \in 1 .. k + 1
          OBVIOUS
        <4> QED
          BY <2>4, <2>5, <3>2, <4>1, <4>2 DEF KnowsFormat
      <3> QED
        BY <3>1, <3>2
    <2>7. KnowsData(file, layout'.data, k + 1)
      <3>1. CASE c.id = "data"
        <4>1. OfKindUpTo(file, "data", k) = {}
          BY <1>6, <1>8, <1>10, <3>1 DEF KnowsData
        <4>2. OfKindUpTo(file, "data", k + 1) = {k + 1}
          BY <1>1, <3>1, <4>1, OneMore DEF c
        <4>3. k + 1 \in 1 .. k + 1
          BY <1>3
        <4>4. layout'.data = Payload(file.chunks[k + 1]) /\ layout'.data # NoRange
          BY <2>3, <2>4, <3>1 DEF c
        <4> QED
          BY <4>2, <4>3, <4>4 DEF KnowsData
      <3>2. CASE c.id # "data"
        <4>1. OfKindUpTo(file, "data", k + 1) = OfKindUpTo(file, "data", k)
          BY <1>1, <3>2, OneMore DEF c
        <4>2. CASE layout.data = NoRange
          BY <1>6, <2>4, <3>2, <4>1, <4>2 DEF KnowsData
        <4>3. CASE layout.data # NoRange
          <5>1. PICK i \in 1 .. k : OfKindUpTo(file, "data", k) = {i} /\ layout.data = Payload(file.chunks[i])
            BY <1>6, <4>3 DEF KnowsData
          <5>2. i \in 1 .. k + 1
            OBVIOUS
          <5> QED
            BY <2>4, <3>2, <4>1, <4>3, <5>1, <5>2 DEF KnowsData
        <4> QED
          BY <4>2, <4>3
      <3> QED
        BY <3>1, <3>2
    <2>8. Place(file, k + 1) <= file.riffEnd
      BY <1>8, <1>10
    <2>9. nextFrame' = 0 /\ k + 1 \in 0 .. Len(file.chunks)
      BY <1>1, <1>3, <2>1
    <2> QED
      BY <1>1, <2>1, <2>2, <2>4, <2>6, <2>7, <2>8, <2>9, ChunkBegins
  <1> QED
    BY <1>7, <1>9, <1>10

LEMMA ReadFormatKeeps ==
    ASSUME SourceInv, ReadFormat
    PROVE  SourceInv'
  <1>1. /\ SourceTypes /\ ScanInv /\ FramesInv /\ GotInv /\ pc = "format" /\ Len(got) = want
        /\ file \in Files /\ position \in Nat /\ nextFrame = 0 /\ RiffFits(file)
        /\ layout \in [channels : Nat, data : Nat \X Nat, next : Nat]
    BY DEF SourceInv, ReadFormat, SourceTypes, ScanInv, FramesInv, Done
  <1>2. PICK k \in 0 .. Len(file.chunks) : ScanAt(k)
    BY <1>1 DEF ScanInv
  <1>3. /\ KnowsFormat(file, layout.channels, k) /\ KnowsData(file, layout.data, k)
        /\ position - Len(got) = Place(file, k) + 8 /\ Len(got) = 16
        /\ k < Len(file.chunks) /\ Place(file, k + 1) <= file.riffEnd
        /\ layout.next = Place(file, k + 1) /\ layout.channels = 0
        /\ file.chunks[k + 1].id = "fmt" /\ file.chunks[k + 1].size >= 16
    BY <1>1, <1>2 DEF ScanAt
  <1>4. /\ Len(file.chunks) \in Nat /\ Place(file, k) \in Nat
        /\ k \in 0 .. Len(file.chunks) - 1 /\ k + 1 \in 0 .. Len(file.chunks)
    <2>1. Len(file.chunks) \in Nat /\ Place(file, k) \in Nat
      BY <1>1, FileIs, PlaceIs
    <2> QED
      BY <1>3, <2>1
  <1> DEFINE c == file.chunks[k + 1]
  <1>5. c.channels \in Nat /\ c \in Chunks
    <2>1. c \in Chunks
      BY <1>1, <1>4, PlaceIs
    <2> QED
      BY <2>1 DEF Chunks
  <1> DEFINE skip == 8
             l == Len(got)
             x == RegionStart + Place(file, k) + skip
  <1>7. x \in Nat /\ skip \in Nat /\ l \in Nat \ {0}
    BY <1>3, <1>4, RegionStartAssumption
  <1>8. RegionStart + position - Len(got) = x /\ RegionStart + position = x + l
    <2>1. position = Place(file, k) + 8 + 16
      BY <1>1, <1>3, <1>4
    <2>2. Len(got) = 16 /\ RegionStart \in Nat /\ Place(file, k) \in Nat
      BY <1>3, <1>4, RegionStartAssumption
    <2> QED
      BY ONLY <2>1, <2>2
  <1>9. got = Stretch(x, x + l)
    BY <1>1, <1>8 DEF GotInv
  <1>10. x = RegionStart + Place(file, k) + skip
    OBVIOUS
  <1> HIDE DEF x, skip, l
  <1>11. ChunkAt(Stretch(x, x + l), skip) = file.chunks[k + 1]
    BY <1>1, <1>4, <1>7, <1>10, ChunkRead
  <1>12. ChunkAt(got, 8) = c
    BY <1>9, <1>11 DEF skip
  <1>13. c.id = "fmt" /\ c.size >= 16
    BY <1>3
  <1>16. /\ OfKindUpTo(file, "fmt", k + 1) = OfKindUpTo(file, "fmt", k) \cup {k + 1}
         /\ OfKindUpTo(file, "data", k + 1) = OfKindUpTo(file, "data", k)
    <2>1. \A id : OfKindUpTo(file, id, k + 1) =
                      IF file.chunks[k + 1].id = id
                      THEN OfKindUpTo(file, id, k) \cup {k + 1}
                      ELSE OfKindUpTo(file, id, k)
      BY <1>1, <1>4, OneMore
    <2>2. file.chunks[k + 1].id = "fmt"
      BY <1>3
    <2> QED
      BY <2>1, <2>2
  <1> HIDE DEF c
  <1>14. CASE c.channels \notin {1, 2}
    <2>1. ~IsFormat(c)
      BY <1>14 DEF IsFormat
    <2>2. ~IsWav(file)
      BY <1>1, <1>3, <1>4, <1>13, <2>1, BadChunk DEF c
    <2>3. Fail
      BY <1>12, <1>14 DEF ReadFormat
    <2> QED
      BY <2>2, <2>3, FailKeeps
  <1>15. CASE c.channels \in {1, 2}
    <2>1. /\ layout' = [layout EXCEPT !.channels = c.channels]
          /\ SeekTo(layout.next) /\ ReadExactly(0, "chunk")
          /\ file' = file /\ nextFrame' = nextFrame
      BY <1>12, <1>15 DEF ReadFormat
    <2>2. position' = Place(file, k + 1)
      BY <1>3, <2>1 DEF SeekTo
    <2>3. /\ layout' \in [channels : Nat, data : Nat \X Nat, next : Nat]
          /\ layout'.channels = c.channels /\ layout'.data = layout.data
      BY <1>1, <1>5, <2>1
    <2>4. KnowsFormat(file, layout'.channels, k + 1)
      <3>1. OfKindUpTo(file, "fmt", k) = {}
        BY <1>3 DEF KnowsFormat
      <3>2. OfKindUpTo(file, "fmt", k + 1) = {k + 1}
        BY <1>16, <3>1
      <3>3. k + 1 \in 1 .. k + 1
        BY <1>4
      <3>4. layout'.channels # 0 /\ IsFormat(c)
        BY <1>13, <1>15, <2>3 DEF IsFormat
      <3> QED
        BY <2>3, <3>2, <3>3, <3>4 DEF KnowsFormat, c
    <2>5. KnowsData(file, layout'.data, k + 1)
      <3>1. OfKindUpTo(file, "data", k + 1) = OfKindUpTo(file, "data", k)
        BY <1>16
      <3>2. CASE layout.data = NoRange
        BY <1>3, <2>3, <3>1, <3>2 DEF KnowsData
      <3>3. CASE layout.data # NoRange
        <4>1. PICK i \in 1 .. k : OfKindUpTo(file, "data", k) = {i} /\ layout.data = Payload(file.chunks[i])
          BY <1>3, <3>3 DEF KnowsData
        <4>2. i \in 1 .. k + 1
          OBVIOUS
        <4> QED
          BY <2>3, <3>1, <3>3, <4>1, <4>2 DEF KnowsData
      <3> QED
        BY <3>2, <3>3
    <2>6. nextFrame' = 0
      BY <1>1, <2>1
    <2> QED
      BY <1>1, <1>3, <1>4, <2>1, <2>2, <2>3, <2>4, <2>5, <2>6, ChunkBegins
  <1> QED
    BY <1>14, <1>15

LEMMA OpeningKeeps ==
    ASSUME SourceInv, Opening
    PROVE  SourceInv'
  BY OpenKeeps, ReadRiffKeeps, EndLayoutKeeps, BeginChunkKeeps, ReadHeaderKeeps, ReadFormatKeeps
     DEF Opening

(* All that is asked for lies in the region. *)
LEMMA EnoughToRead ==
    ASSUME SourceInv, Reading
    PROVE  position + (want - Len(got)) <= file.length
  <1>1. /\ SourceTypes /\ ScanInv /\ OpenedInv /\ PacketAt /\ Len(got) < want
        /\ file \in Files /\ position \in Nat /\ want \in Nat /\ Len(got) \in Nat
        /\ pc \in {"riff", "header", "format", "packet"}
    BY DEF SourceInv, SourceTypes, Reading
  <1>2. file.length \in Nat /\ file.riffEnd \in Nat /\ Len(file.chunks) \in Nat
    BY <1>1, FileIs
  <1>3. CASE pc = "riff"
    BY <1>1, <1>2, <1>3 DEF ScanInv
  <1>4. CASE pc = "header"
    <2>1. file.riffEnd <= file.length
      BY <1>1, <1>4 DEF ScanInv, RiffFits
    <2>2. PICK k \in 0 .. Len(file.chunks) : ScanAt(k)
      BY <1>1, <1>4 DEF ScanInv
    <2>3. position - Len(got) = Place(file, k) /\ want = 8 /\ Place(file, k) + 8 <= file.riffEnd
      BY <1>4, <2>2 DEF ScanAt
    <2>4. Place(file, k) \in Nat
      BY <1>1, PlaceIs
    <2> QED
      BY <1>1, <1>2, <2>1, <2>3, <2>4
  <1>5. CASE pc = "format"
    <2>1. file.riffEnd <= file.length
      BY <1>1, <1>5 DEF ScanInv, RiffFits
    <2>2. PICK k \in 0 .. Len(file.chunks) : ScanAt(k)
      BY <1>1, <1>5 DEF ScanInv
    <2>3. /\ position - Len(got) = Place(file, k) + 8 /\ want = 16
          /\ k < Len(file.chunks) /\ Place(file, k + 1) <= file.riffEnd
          /\ file.chunks[k + 1].size >= 16
      BY <1>5, <2>2 DEF ScanAt
    <2>4. k \in 0 .. Len(file.chunks) - 1 /\ k + 1 \in 0 .. Len(file.chunks)
      BY <1>2, <2>3
    <2>5. /\ Place(file, k) \in Nat /\ Place(file, k + 1) \in Nat /\ file.chunks[k + 1] \in Chunks
          /\ Place(file, k + 1) = Place(file, k) + PaddedSize(file.chunks[k + 1])
      BY <1>1, <2>4, PlaceIs
    <2>6. /\ PaddedSize(file.chunks[k + 1]) \in Nat /\ file.chunks[k + 1].size \in Nat
          /\ PaddedSize(file.chunks[k + 1]) >= 8 + file.chunks[k + 1].size
      BY <2>5, PaddedIs
    <2>7. Place(file, k) + 24 <= file.riffEnd
      <3> DEFINE s == file.chunks[k + 1].size
                 padded == PaddedSize(file.chunks[k + 1])
      <3>1. s \in Nat /\ s >= 16 /\ padded \in Nat /\ padded >= 8 + s
        BY <2>3, <2>6
      <3> HIDE DEF s
      <3>2. padded >= 24
        BY <3>1
      <3> QED
        BY <1>2, <2>3, <2>5, <3>1, <3>2
    <2>8. position + (want - Len(got)) = Place(file, k) + 24
      BY <1>1, <2>3, <2>5
    <2> QED
      BY <1>2, <2>1, <2>5, <2>7, <2>8
  <1>6. CASE pc = "packet"
    <2>1. PICK n \in 1 .. FrameCount :
              /\ nextFrame + n <= FrameCount /\ want = n * BytesPerFrame
              /\ RegionStart + position - Len(got) = At(nextFrame)
      BY <1>1, <1>6 DEF PacketAt
    <2>2. /\ layout.channels \in {1, 2} /\ layout.data \in Nat \X Nat
          /\ layout.data[1] <= layout.data[2] /\ layout.data[2] <= file.length
      BY <1>1, <1>6 DEF OpenedInv, Built, SourceTypes
    <2>3. /\ BytesPerFrame \in {2, 4} /\ DataLength \in Nat /\ FrameCount \in Nat
          /\ BytesPerFrame * FrameCount <= DataLength
      BY <2>2, CountIs
    <2>4. /\ DataLength = layout.data[2] - layout.data[1]
          /\ layout.data[1] \in Nat /\ layout.data[2] \in Nat
      BY <2>2 DEF DataLength
    <2>5. /\ At(nextFrame) = RegionStart + layout.data[1] + nextFrame * BytesPerFrame
          /\ nextFrame \in Nat /\ RegionStart \in Nat
      BY <1>1, RegionStartAssumption DEF At, SourceTypes
    <2> DEFINE r == RegionStart
               a == nextFrame * BytesPerFrame
               b == n * BytesPerFrame
               lo == layout.data[1]
               hi == layout.data[2]
    <2>a. r \in Nat /\ a \in Nat /\ b \in Nat /\ lo \in Nat /\ hi \in Nat /\ want = b
      BY <2>1, <2>3, <2>4, <2>5
    <2>b. r + position - Len(got) = r + lo + a
      BY <2>1, <2>5
    <2> HIDE DEF r, a, b, lo, hi
    <2>6. position - Len(got) = lo + a
      BY <1>1, <2>a, <2>b
    <2> USE DEF a, b
    <2>7. nextFrame * BytesPerFrame + n * BytesPerFrame <= BytesPerFrame * FrameCount
      <3>1. CASE BytesPerFrame = 2
        BY <2>1, <2>3, <2>5, <3>1
      <3>2. CASE BytesPerFrame = 4
        BY <2>1, <2>3, <2>5, <3>2
      <3> QED
        BY <2>3, <3>1, <3>2
    <2> HIDE DEF a, b
    <2>8. a + b <= hi - lo /\ hi <= file.length
      <3>1. a + b <= BytesPerFrame * FrameCount
        BY <2>7 DEF a, b
      <3>2. BytesPerFrame * FrameCount <= DataLength /\ DataLength = hi - lo /\ hi <= file.length
        BY <2>2, <2>3, <2>4 DEF hi, lo
      <3>3. BytesPerFrame * FrameCount \in Int
        BY <2>3
      <3> QED
        BY <2>a, <2>3, <3>1, <3>2, <3>3
    <2> QED
      BY <1>1, <1>2, <2>a, <2>6, <2>8
  <1> QED
    BY <1>1, <1>3, <1>4, <1>5, <1>6

(* A read gives something, at most what was asked and what there is. *)
LEMMA LeastOfThree ==
    ASSUME NEW x \in Nat \ {0}, NEW y \in Nat \ {0}, NEW z \in Nat \ {0}
    PROVE  LET n == CHOOSE m \in {x, y, z} : m <= x /\ m <= y /\ m <= z
           IN  n \in Nat \ {0} /\ n <= y /\ n <= z
  <1>1. \E m \in {x, y, z} : m <= x /\ m <= y /\ m <= z
    BY (x <= y \/ y <= x) /\ (x <= z \/ z <= x) /\ (y <= z \/ z <= y)
  <1> DEFINE n == CHOOSE m \in {x, y, z} : m <= x /\ m <= y /\ m <= z
  <1>2. n \in {x, y, z} /\ n <= x /\ n <= y /\ n <= z
    BY <1>1
  <1> HIDE DEF n
  <1>3. n \in Nat \ {0} /\ n <= y /\ n <= z
    BY <1>2
  <1> QED
    BY <1>3 DEF n

(* The bytes that come are those behind the ones that came. *)
LEMMA ReadSomeReads ==
    ASSUME SourceInv, SoughtInv, ReadSome
    PROVE  /\ file' = file /\ pc' = pc /\ want' = want /\ layout' = layout /\ nextFrame' = nextFrame
           /\ \E n \in Nat \ {0} :
                 /\ n <= want - Len(got) /\ position' = position + n
                 /\ Len(got') = Len(got) + n /\ got' \in Seq(Nat)
                 /\ got' = Stretch(RegionStart + position - Len(got), RegionStart + position + n)
  <1>1. /\ SourceTypes /\ GotInv /\ Reading /\ Len(got) < want /\ got \in Seq(Nat)
        /\ file \in Files /\ position \in Nat /\ want \in Nat /\ Len(got) \in Nat
        /\ file.length \in Nat /\ RegionStart \in Nat
    BY FileIs, RegionStartAssumption DEF SourceInv, SourceTypes, ReadSome, Reading
  <1>2. position + (want - Len(got)) <= file.length
    BY <1>1, EnoughToRead
  <1>3. position # file.length /\ want - Len(got) \in Nat \ {0} /\ file.length - position \in Nat \ {0}
    BY <1>1, <1>2
  <1> DEFINE N(size) == CHOOSE m \in {size, want - Len(got), file.length - position} :
                            m <= size /\ m <= want - Len(got) /\ m <= file.length - position
  <1>4. PICK size \in ReadSizes :
            /\ got' = got \o [i \in 1 .. N(size) |-> ReadPosition + i - 1]
            /\ position' = position + N(size)
            /\ UNCHANGED <<file, pc, want, layout, nextFrame>>
    <2>1. offset = ReadPosition
      BY DEF SoughtInv, ReadSome
    <2> QED
      BY <2>1 DEF ReadSome
  <1> DEFINE n == N(size)
  <1>5. n \in Nat \ {0} /\ n <= want - Len(got)
    <2> DEFINE y == want - Len(got)
               z == file.length - position
               m1 == CHOOSE m \in {size, y, z} : m <= size /\ m <= y /\ m <= z
    <2>1. size \in Nat \ {0} /\ y \in Nat \ {0} /\ z \in Nat \ {0}
      BY <1>3, ReadSizesAssumption
    <2>2. n = m1
      OBVIOUS
    <2> HIDE DEF y, z, n
    <2>3. m1 \in Nat \ {0} /\ m1 <= y /\ m1 <= z
      BY <2>1, LeastOfThree
    <2> HIDE DEF m1
    <2> QED
      BY <2>2, <2>3 DEF y
  <1>6. got' = got \o [i \in 1 .. n |-> ReadPosition + i - 1] /\ position' = position + n
    BY <1>4
  <1> HIDE DEF n
  <1> DEFINE x == RegionStart + position - Len(got)
             y == RegionStart + position
             z == RegionStart + position + n
  <1>7. x \in Nat /\ y \in Nat /\ z \in Nat /\ x <= y /\ y <= z /\ z - y = n /\ z - x = Len(got) + n
    BY <1>1, <1>5 DEF GotInv
  <1>8. got = Stretch(x, y)
    BY <1>1 DEF GotInv
  <1>9. [i \in 1 .. n |-> ReadPosition + i - 1] = Stretch(y, z)
    BY <1>7 DEF Stretch, ReadPosition
  <1>10. n <= want - Len(got) /\ position' = position + n
    BY <1>5, <1>6
  <1> HIDE DEF x, y, z
  <1>11. got' = Stretch(x, z)
    <2>1. got' = Stretch(x, y) \o Stretch(y, z)
      BY <1>6, <1>8, <1>9
    <2>2. Stretch(x, y) \o Stretch(y, z) = Stretch(x, z)
      BY <1>7, StretchJoin
    <2> QED
      BY <2>1, <2>2
  <1>12. Stretch(x, z) \in Seq(Nat) /\ Len(Stretch(x, z)) = z - x
    <2>1. x <= z
      BY <1>7
    <2> QED
      BY <1>7, <2>1, StretchIs
  <1> QED
    BY <1>4, <1>5, <1>7, <1>10, <1>11, <1>12 DEF x, z

LEMMA ReadSomeKeeps ==
    ASSUME SourceInv, SoughtInv, ReadSome
    PROVE  SourceInv'
  <1>1. /\ SourceTypes /\ GotInv /\ ScanInv /\ OpenedInv /\ LayoutIsTheFile /\ PacketAt /\ FramesInv
        /\ position \in Nat /\ want \in Nat /\ Len(got) \in Nat /\ RegionStart \in Nat
        /\ pc \in {"riff", "header", "format", "packet"}
    BY RegionStartAssumption DEF SourceInv, SourceTypes, ReadSome, Reading
  <1>2. file' = file /\ pc' = pc /\ want' = want /\ layout' = layout /\ nextFrame' = nextFrame
    BY ReadSomeReads
  <1>3. PICK n \in Nat \ {0} :
            /\ n <= want - Len(got) /\ position' = position + n
            /\ Len(got') = Len(got) + n /\ got' \in Seq(Nat)
            /\ got' = Stretch(RegionStart + position - Len(got), RegionStart + position + n)
    BY ReadSomeReads
  <1>4. position' \in Nat /\ position' - Len(got') = position - Len(got)
    BY <1>1, <1>3
  <1>5. SourceTypes'
    BY <1>1, <1>2, <1>3, <1>4 DEF SourceTypes
  <1>6. GotInv'
    <2>1. /\ RegionStart + position' - Len(got') = RegionStart + position - Len(got)
          /\ RegionStart + position' = RegionStart + position + n
          /\ Len(got') <= want'
      BY <1>1, <1>2, <1>3
    <2>2. Len(got') <= position'
      BY <1>1, <1>3 DEF GotInv
    <2> QED
      BY <1>1, <1>2, <1>3, <2>1, <2>2 DEF GotInv
  <1>7. ScanInv'
    <2>1. CASE pc = "riff"
      <3>1. want = 12 /\ position = Len(got) /\ 12 <= file.length
        BY <1>1, <2>1 DEF ScanInv
      <3>2. position' = Len(got')
        BY <1>3, <3>1
      <3> QED
        BY <1>1, <1>2, <2>1, <3>1, <3>2 DEF ScanInv
    <2>2. CASE pc \in {"header", "format"}
      <3>1. PICK k \in 0 .. Len(file.chunks) : ScanAt(k)
        BY <1>1, <2>2 DEF ScanInv
      <3>2. ScanAt(k)'
        BY <1>2, <1>4, <2>2, <3>1 DEF ScanAt
      <3> QED
        BY <1>1, <1>2, <2>2, <3>2 DEF ScanInv
    <2>3. CASE pc = "packet"
      BY <1>2, <2>3 DEF ScanInv
    <2> QED
      BY <1>1, <2>1, <2>2, <2>3
  <1>8. OpenedInv'
    BY <1>1, <1>2 DEF OpenedInv, Built, DataLength, BytesPerFrame
  <1>9. LayoutIsTheFile'
    BY <1>1, <1>2 DEF LayoutIsTheFile
  <1>10. PacketAt'
    <2> SUFFICES ASSUME pc = "packet" PROVE PacketAt'
      BY <1>2 DEF PacketAt
    <2>1. PICK m \in 1 .. FrameCount :
              /\ nextFrame + m <= FrameCount /\ want = m * BytesPerFrame
              /\ RegionStart + position - Len(got) = At(nextFrame)
      BY <1>1 DEF PacketAt
    <2>2. RegionStart + position' - Len(got') = RegionStart + position - Len(got)
      BY <1>1, <1>3
    <2>3. FrameCount' = FrameCount /\ BytesPerFrame' = BytesPerFrame /\ At(nextFrame)' = At(nextFrame)
      BY <1>2 DEF FrameCount, DataLength, BytesPerFrame, At
    <2> QED
      BY <1>2, <2>1, <2>2, <2>3 DEF PacketAt
  <1>11. FramesInv'
    BY <1>1, <1>2 DEF FramesInv, Built, FrameCount, DataLength, BytesPerFrame
  <1> QED
    BY <1>5, <1>6, <1>7, <1>8, <1>9, <1>10, <1>11 DEF SourceInv

(* There is always something to read, so only the offset has moved. *)
LEMMA SeekBeforeReadMoves ==
    ASSUME SourceInv, SeekBeforeRead
    PROVE  /\ UNCHANGED <<file, position, pc, got, want, layout, nextFrame>>
           /\ offset' = ReadPosition /\ sought' = TRUE
  <1>1. Reading /\ position + (want - Len(got)) <= file.length
    BY EnoughToRead DEF SeekBeforeRead
  <1>2. Len(got) < want /\ Len(got) \in Nat /\ want \in Nat /\ position \in Nat /\ file.length \in Nat
    BY <1>1, FileIs DEF SourceInv, SourceTypes, Reading
  <1>3. position # file.length
    BY <1>1, <1>2
  <1> QED
    BY <1>3 DEF SeekBeforeRead

LEMMA ReadFailsKeeps ==
    ASSUME SourceInv, ReadFails
    PROVE  SourceInv'
  <1>1. /\ SourceTypes /\ GotInv
        /\ pc' = "ioError" /\ file' = file /\ position' = position /\ got' = got /\ want' = want
        /\ layout' = layout /\ nextFrame' = nextFrame
    BY DEF SourceInv, ReadFails
  <1>2. SourceTypes' /\ GotInv'
    BY <1>1 DEF SourceTypes, GotInv
  <1>3. ScanInv' /\ OpenedInv' /\ PacketAt' /\ FramesInv' /\ LayoutIsTheFile'
    BY <1>1 DEF ScanInv, OpenedInv, PacketAt, FramesInv, Built, LayoutIsTheFile
  <1> QED
    BY <1>2, <1>3 DEF SourceInv

(* Nothing of it depends on the offset of the open file. *)
LEMMA SourceStays ==
    ASSUME SourceInv, UNCHANGED <<file, position, pc, got, want, layout, nextFrame>>
    PROVE  SourceInv'
  <1>1. /\ SourceTypes /\ GotInv /\ ScanInv /\ OpenedInv /\ LayoutIsTheFile /\ PacketAt /\ FramesInv
    BY DEF SourceInv
  <1>2. SourceTypes' /\ GotInv' /\ LayoutIsTheFile'
    BY <1>1 DEF SourceTypes, GotInv, LayoutIsTheFile
  <1>3. ScanInv'
    BY <1>1 DEF ScanInv, ScanAt
  <1>4. FrameCount' = FrameCount /\ BytesPerFrame' = BytesPerFrame /\ At(nextFrame)' = At(nextFrame)
    BY DEF FrameCount, DataLength, BytesPerFrame, At
  <1>5. PacketAt' /\ FramesInv'
    BY <1>1, <1>4 DEF PacketAt, FramesInv, Built
  <1>6. OpenedInv'
    BY <1>1 DEF OpenedInv, Built, DataLength, BytesPerFrame
  <1> QED
    BY <1>2, <1>3, <1>5, <1>6 DEF SourceInv

(* An opened track and the numbers it is played by. *)
LEMMA Opened ==
    ASSUME SourceInv, Built
    PROVE  /\ layout.channels \in {1, 2} /\ BytesPerFrame \in {2, 4}
           /\ DataLength \in Nat /\ FrameCount \in Nat /\ BytesPerFrame * FrameCount = DataLength
           /\ layout.data[1] \in Nat /\ layout.data[2] \in Nat
           /\ layout.data[2] = layout.data[1] + DataLength /\ layout.data[2] <= file.length
           /\ nextFrame \in Nat /\ nextFrame <= FrameCount
           /\ file.rate \in Nat \ {0} /\ file.length \in Nat /\ RegionStart \in Nat
           /\ position \in Nat /\ want \in Nat /\ got \in Seq(Nat)
  <1>1. SourceTypes /\ OpenedInv /\ FramesInv /\ file \in Files
    BY DEF SourceInv, SourceTypes
  <1>2. /\ layout.channels \in {1, 2} /\ layout.data \in Nat \X Nat
        /\ layout.data[1] <= layout.data[2] /\ layout.data[2] <= file.length
        /\ DataLength % BytesPerFrame = 0
    BY <1>1 DEF OpenedInv, SourceTypes
  <1>3. /\ BytesPerFrame \in {2, 4} /\ DataLength \in Nat /\ FrameCount \in Nat
        /\ BytesPerFrame * FrameCount = DataLength
    BY <1>2, CountIs
  <1>4. layout.data[2] = layout.data[1] + DataLength
    BY <1>2 DEF DataLength
  <1>5. nextFrame \in Nat /\ nextFrame <= FrameCount
    BY <1>1 DEF SourceTypes, FramesInv
  <1>6. file.rate \in Nat \ {0} /\ file.length \in Nat /\ RegionStart \in Nat
    BY <1>1, FileIs, RegionStartAssumption
  <1> QED
    BY <1>1, <1>2, <1>3, <1>4, <1>5, <1>6 DEF SourceTypes

LEMMA ReadPacketKeeps ==
    ASSUME SourceInv, ReadPacket
    PROVE  SourceInv'
  <1>1. /\ SourceTypes /\ OpenedInv /\ LayoutIsTheFile /\ FramesInv /\ pc = "idle" /\ Built
        /\ ~AtEnd /\ file' = file /\ layout' = layout /\ nextFrame' = nextFrame
    BY DEF SourceInv, ReadPacket, Built
  <1>2. /\ BytesPerFrame \in {2, 4} /\ FrameCount \in Nat /\ nextFrame \in Nat
        /\ layout.data[1] \in Nat /\ RegionStart \in Nat
    BY <1>1, Opened
  <1> DEFINE left == FrameCount - nextFrame
             frames == IF left < FramesPerPacket THEN left ELSE FramesPerPacket
             n == frames * BytesPerFrame
             p == layout.data[1] + nextFrame * BytesPerFrame
  <1>3. ReadExactly(n, "packet") /\ SeekTo(p)
    BY DEF ReadPacket
  <1>4. left \in Nat \ {0}
    BY <1>1, <1>2 DEF AtEnd
  <1>5. frames \in Nat \ {0} /\ frames <= left
    BY <1>4, FramesPerPacketAssumption
  <1>6. nextFrame + frames <= FrameCount /\ frames \in 1 .. FrameCount
    BY <1>2, <1>5
  <1> HIDE DEF left, frames
  <1>7. n \in Nat /\ p \in Nat
    BY <1>2, <1>5
  <1>8. n = frames * BytesPerFrame /\ p = layout.data[1] + nextFrame * BytesPerFrame
    OBVIOUS
  <1> HIDE DEF n, p
  <1>9. got' = <<>> /\ want' = n /\ pc' = "packet" /\ position' = p
    BY <1>3 DEF ReadExactly, SeekTo
  <1>10. SourceTypes'
    BY <1>1, <1>7, <1>9 DEF SourceTypes
  <1>11. GotInv'
    BY <1>3, <1>7, <1>9, ReadBegins
  <1>12. ScanInv'
    BY <1>9 DEF ScanInv
  <1>13. FrameCount' = FrameCount /\ BytesPerFrame' = BytesPerFrame /\ At(nextFrame)' = At(nextFrame)
    BY <1>1 DEF FrameCount, DataLength, BytesPerFrame, At
  <1>14. OpenedInv' /\ FramesInv'
    BY <1>1, <1>9, <1>13 DEF OpenedInv, FramesInv, Built, DataLength, BytesPerFrame
  <1>15. LayoutIsTheFile'
    BY <1>1, <1>9 DEF LayoutIsTheFile
  <1>16. RegionStart + position' - Len(got') = At(nextFrame)
    <2>1. RegionStart + p - 0 = RegionStart + layout.data[1] + nextFrame * BytesPerFrame
      BY <1>2, <1>8
    <2>2. Len(got') = 0
      BY <1>9
    <2> QED
      BY <1>9, <2>1, <2>2 DEF At
  <1>17. PacketAt'
    BY <1>1, <1>6, <1>8, <1>9, <1>13, <1>16 DEF PacketAt
  <1> QED
    BY <1>10, <1>11, <1>12, <1>14, <1>15, <1>17 DEF SourceInv

(* The track is idle and stands somewhere in it. *)
LEMMA IdleAgain ==
    ASSUME SourceInv, Built, pc' = "idle", file' = file, layout' = layout, want' = 0,
           got' = <<>>, position' = position, nextFrame' \in Nat, nextFrame' <= FrameCount
    PROVE  SourceInv'
  <1>1. SourceTypes /\ OpenedInv /\ LayoutIsTheFile /\ FramesInv /\ position \in Nat
    BY DEF SourceInv, SourceTypes
  <1>2. SourceTypes'
    BY <1>1 DEF SourceTypes
  <1>3. GotInv'
    BY <1>1, NothingGot
  <1>4. ScanInv' /\ PacketAt'
    BY DEF ScanInv, PacketAt
  <1>5. FrameCount' = FrameCount
    BY DEF FrameCount, DataLength, BytesPerFrame
  <1>6. OpenedInv' /\ FramesInv'
    BY <1>1, <1>5 DEF OpenedInv, FramesInv, Built, DataLength, BytesPerFrame
  <1>7. LayoutIsTheFile'
    BY <1>1 DEF LayoutIsTheFile, Built
  <1> QED
    BY <1>2, <1>3, <1>4, <1>6, <1>7 DEF SourceInv

LEMMA IdleReadsNothing ==
    ASSUME SourceInv, pc = "idle"
    PROVE  got = <<>> /\ want = 0
  BY DEF SourceInv, SourceTypes, GotInv

(* The frames of a packet are behind when it is read. *)
LEMMA PacketEnds ==
    ASSUME SourceInv, EndPacket
    PROVE  \E n \in 1 .. FrameCount :
              /\ nextFrame + n <= FrameCount /\ nextFrame' = nextFrame + n
              /\ got = Stretch(At(nextFrame), At(nextFrame + n))
  <1>1. /\ PacketAt /\ GotInv /\ pc = "packet" /\ Built /\ Len(got) = want
    BY DEF SourceInv, EndPacket, Done, Built
  <1>2. PICK n \in 1 .. FrameCount :
            /\ nextFrame + n <= FrameCount /\ want = n * BytesPerFrame
            /\ RegionStart + position - Len(got) = At(nextFrame)
    BY <1>1 DEF PacketAt
  <1>3. /\ BytesPerFrame \in {2, 4} /\ FrameCount \in Nat /\ nextFrame \in Nat
        /\ layout.data[1] \in Nat /\ RegionStart \in Nat /\ position \in Nat
    BY <1>1, Opened
  <1>4. want \div BytesPerFrame = n
    <2>1. CASE BytesPerFrame = 2
      BY <1>2, <1>3, <2>1
    <2>2. CASE BytesPerFrame = 4
      BY <1>2, <1>3, <2>2
    <2> QED
      BY <1>3, <2>1, <2>2
  <1>5. nextFrame' = nextFrame + n
    BY <1>4 DEF EndPacket
  <1> DEFINE b == BytesPerFrame
  <1>6. At(nextFrame + n) = At(nextFrame) + n * b /\ At(nextFrame) \in Nat /\ n * b \in Nat
    <2>1. (nextFrame + n) * b = nextFrame * b + n * b /\ nextFrame * b \in Nat /\ n * b \in Nat
      BY <1>2, <1>3
    <2> QED
      BY <1>3, <2>1 DEF At
  <1>7. RegionStart + position = At(nextFrame + n)
    <2> DEFINE m == n * b
               a == At(nextFrame)
               r == RegionStart
    <2>1. r + position - m = a /\ m \in Nat /\ a \in Nat /\ r \in Nat
      BY <1>1, <1>2, <1>3, <1>6
    <2> HIDE DEF m, a, r
    <2>2. r + position = a + m
      BY <1>3, <2>1
    <2> QED
      BY <1>6, <2>2 DEF m, a, r
  <1>8. got = Stretch(At(nextFrame), At(nextFrame + n))
    BY <1>1, <1>2, <1>7 DEF GotInv
  <1> QED
    BY <1>2, <1>5, <1>8

LEMMA EndPacketKeeps ==
    ASSUME SourceInv, EndPacket
    PROVE  SourceInv'
  <1>1. /\ pc = "packet" /\ Built /\ pc' = "idle" /\ want' = 0 /\ got' = <<>>
        /\ file' = file /\ layout' = layout /\ position' = position
    BY DEF EndPacket, Done, Built, ReadExactly
  <1>2. PICK n \in 1 .. FrameCount : nextFrame + n <= FrameCount /\ nextFrame' = nextFrame + n
    BY PacketEnds
  <1>3. nextFrame \in Nat /\ FrameCount \in Nat
    BY <1>1, Opened
  <1>4. nextFrame' \in Nat /\ nextFrame' <= FrameCount
    BY <1>2, <1>3
  <1> QED
    BY <1>1, <1>4, IdleAgain

(* A seek stays in the track. *)
LEMMA SoughtIs ==
    ASSUME SourceInv, Built, NEW time \in Nat
    PROVE  /\ FrameSought(time) \in Nat /\ FrameSought(time) <= FrameCount
           /\ FrameSought(time) = IF FrameAt(time, Rate) <= FrameCount
                                  THEN FrameAt(time, Rate) ELSE FrameCount
  <1>1. Rate \in Nat \ {0} /\ FrameCount \in Nat
    BY Opened DEF Rate
  <1>2. FrameAt(time, Rate) \in Nat
    BY <1>1, SeekLandsBeforeTarget
  <1>3. Min({FrameAt(time, Rate), FrameCount}) =
            IF FrameAt(time, Rate) <= FrameCount THEN FrameAt(time, Rate) ELSE FrameCount
    BY <1>1, <1>2, MinOfTwo
  <1> QED
    BY <1>1, <1>2, <1>3 DEF FrameSought

LEMMA SeekKeeps ==
    ASSUME SourceInv, NEW target \in SeekTargets, NEW resume \in BOOLEAN, Seek(target, resume)
    PROVE  SourceInv' /\ boundary' \in Nat /\ boundary' = IF 0 <= target THEN target ELSE 0
  <1>1. target \in Int
    BY SeekTargetsAssumption
  <1>2. boundary' = IF 0 <= target THEN target ELSE 0
    <2>1. boundary' = Max({0, target})
      BY DEF Seek
    <2>2. 0 \in Int /\ target \in Int
      BY <1>1
    <2> QED
      BY <2>1, <2>2, MaxOfTwo
  <1>3. boundary' \in Nat
    BY <1>1, <1>2
  <1>4. /\ pc = "idle" /\ Built /\ pc' = "idle" /\ want' = want /\ got' = got
        /\ file' = file /\ layout' = layout /\ position' = position
        /\ nextFrame' = FrameSought(boundary')
    BY DEF Seek, Built
  <1>5. got = <<>> /\ want = 0
    BY <1>4, IdleReadsNothing
  <1>6. nextFrame' \in Nat /\ nextFrame' <= FrameCount
    <2> DEFINE b == boundary'
    <2>1. b \in Nat
      BY <1>3
    <2> HIDE DEF b
    <2>2. FrameSought(b) \in Nat /\ FrameSought(b) <= FrameCount
      BY <1>4, <2>1, SoughtIs
    <2> QED
      BY <1>4, <2>2 DEF b
  <1>7. SourceInv'
    BY <1>4, <1>5, <1>6, IdleAgain
  <1> QED
    BY <1>2, <1>3, <1>7

LEMMA SourceNext ==
    ASSUME SourceInv, SoughtInv, [Next]_vars
    PROVE  SourceInv'
  <1> USE DEF sourceVars
  <1>1. CASE Build
    BY <1>1, OpeningKeeps DEF Build
  <1>2. CASE Read
    <2>1. CASE SeekBeforeRead
      BY <2>1, SeekBeforeReadMoves, SourceStays
    <2>2. CASE ReadSome
      BY <2>2, ReadSomeKeeps
    <2> QED
      BY <1>2, <2>1, <2>2 DEF Read
  <1>3. CASE Break
    BY <1>3, ReadFailsKeeps DEF Break
  <1>4. CASE AskForPacket
    BY <1>4, ReadPacketKeeps DEF AskForPacket
  <1>5. CASE TakePacket
    BY <1>5, EndPacketKeeps DEF TakePacket
  <1>6. CASE EndSource
    BY <1>6, SourceStays DEF EndSource
  <1>7. CASE Decode
    BY <1>7, SourceStays DEF Decode
  <1>8. CASE Submit
    BY <1>8, SourceStays DEF Submit
  <1>9. CASE PollCompletion
    BY <1>9, SourceStays DEF PollCompletion
  <1>10. CASE Observe
    BY <1>10, SourceStays DEF Observe
  <1>11. CASE Start
    BY <1>11, SourceStays DEF Start
  <1>12. CASE Pause
    BY <1>12, SourceStays DEF Pause
  <1>13. CASE \E target \in SeekTargets, resume \in BOOLEAN : Seek(target, resume)
    BY <1>13, SeekKeeps
  <1>14. CASE Tick
    BY <1>14, SourceStays DEF Tick
  <1>15. CASE Others
    BY <1>15, SourceStays DEF Others, OthersMove
  <1>16. CASE Over \/ UNCHANGED vars
    BY <1>16, SourceStays DEF Over, vars
  <1> QED
    BY <1>1, <1>2, <1>3, <1>4, <1>5, <1>6, <1>7, <1>8, <1>9, <1>10, <1>11, <1>12, <1>13,
       <1>14, <1>15, <1>16 DEF Next, PlaybackStep

(* Others that keep away during a read leave the offset where it sought. *)
LEMMA SoughtNext ==
    ASSUME Coordinated, SourceInv, SoughtInv, [Next]_vars
    PROVE  SoughtInv'
  <1> USE DEF sourceVars
  <1>1. CASE Build
    <2>1. ~Reading
      BY <1>1 DEF Build, Opening, Open, ReadRiff, EndLayout, BeginChunk, ReadHeader, ReadFormat,
                  Done, Reading, SourceInv, SourceTypes
    <2>2. sought' = FALSE \/ sought' = sought
      BY <1>1 DEF Build, Opening, Open, ReadRiff, EndLayout, BeginChunk, ReadHeader, ReadFormat,
                  ReadExactly, Fail
    <2>3. sought = FALSE
      BY <2>1 DEF SoughtInv
    <2>4. sought' = FALSE
      BY <2>2, <2>3
    <2> QED
      BY <2>4 DEF SoughtInv
  <1>2. CASE Read
    <2>1. CASE SeekBeforeRead
      <3>1. Reading
        BY <2>1 DEF SeekBeforeRead
      <3>2. /\ UNCHANGED <<position, pc, got, want>>
            /\ offset' = ReadPosition /\ sought' = TRUE
        BY <2>1, SeekBeforeReadMoves
      <3>3. Reading' /\ ReadPosition' = ReadPosition
        BY <3>1, <3>2 DEF Reading, ReadPosition
      <3> QED
        BY <3>2, <3>3 DEF SoughtInv
    <2>2. CASE ReadSome
      BY <2>2 DEF ReadSome, SoughtInv
    <2> QED
      BY <1>2, <2>1, <2>2 DEF Read
  <1>3. CASE Break
    BY <1>3 DEF Break, ReadFails, SoughtInv
  <1>4. CASE AskForPacket \/ TakePacket
    BY <1>4 DEF AskForPacket, ReadPacket, TakePacket, EndPacket, ReadExactly, SoughtInv
  <1>5. CASE EndSource \/ Decode \/ Submit \/ PollCompletion \/ Observe \/ Start \/ Pause \/ Tick
             \/ Over \/ UNCHANGED vars
    <2>1. UNCHANGED sourceVars
      BY <1>5 DEF EndSource, Decode, Submit, PollCompletion, Observe, Start, Pause, Tick, Over, vars
    <2> QED
      BY <2>1 DEF SoughtInv, Reading, ReadPosition
  <1>6. CASE \E target \in SeekTargets, resume \in BOOLEAN : Seek(target, resume)
    <2>1. pc = "idle" /\ sought' = sought
      BY <1>6 DEF Seek
    <2> QED
      BY <2>1 DEF SoughtInv, Reading
  <1>7. CASE Others
    <2>1. ~sought /\ sought' = sought
      BY <1>7 DEF Others, OthersMove
    <2> QED
      BY <2>1 DEF SoughtInv
  <1> QED
    BY <1>1, <1>2, <1>3, <1>4, <1>5, <1>6, <1>7 DEF Next, PlaybackStep

LEMMA SoughtBegins == SourceInit => SoughtInv
  BY DEF SourceInit, SoughtInv

(***************************************************************************)
(* However long its file, in however small portions it reads, and wherever *)
(* others leave the offset of the open file between two reads: the demuxer *)
(* refuses a file only when it is none it should play, and has the payload *)
(* of its data chunk when it accepts it.  Its parser is by induction over  *)
(* the chunks behind it: what it knows then is what a reader of the whole  *)
(* file says of these.                                                     *)
(***************************************************************************)
THEOREM LayoutIsTheFileAlways ==
    ASSUME Coordinated
    PROVE  Spec => []LayoutIsTheFile
<1> DEFINE Inv == SourceInv /\ SoughtInv
<1>1. Init => Inv
  BY SourceBegins, SoughtBegins DEF Init
<1>2. Inv /\ [Next]_vars => Inv'
  BY SourceNext, SoughtNext
<1>3. Inv => LayoutIsTheFile
  BY DEF SourceInv
<1> QED
  BY <1>1, <1>2, <1>3, PTL DEF Spec

-----------------------------------------------------------------------------
(* The types of playback *)

Packets == [bytes : Seq(Nat), frame : Nat]
Pcms == [bytes : Seq(Nat), pts : Int]

PlayTypes ==
    /\ packet \in Packets /\ pcm \in Pcms
    /\ boundary \in Nat /\ seeks \in Nat /\ heard \in Seq(Nat)
    /\ sourceEnded \in BOOLEAN /\ running \in BOOLEAN /\ reported \in BOOLEAN

LEMMA NothingIs == NoPacket \in Packets /\ NoPcm \in Pcms
  BY DEF NoPacket, NoPcm, Packets, Pcms

(* What is left of a block after trimming is a block. *)
LEMMA TrimmedIs ==
    ASSUME SourceInv, pc = "idle", boundary \in Nat, NEW bytes \in Seq(Nat), NEW f \in Nat
    PROVE  Trimmed(bytes, TimeOfFrame(f, Rate)) \in Pcms
  <1>1. Rate \in Nat \ {0} /\ BytesPerFrame \in {2, 4}
    BY Opened DEF Rate, Built
  <1> DEFINE pts == TimeOfFrame(f, Rate)
             frames == FramesBefore(boundary, pts, Rate)
             n == frames * BytesPerFrame
             after == TimeAfter(pts, frames, Rate)
  <1>2. pts \in Int
    BY <1>1, FrameBeginsInItsNanosecond
  <1>3. CASE boundary <= pts
    BY <1>2, <1>3 DEF Trimmed, Pcms
  <1>4. CASE ~(boundary <= pts)
    <2>1. pts < boundary
      BY <1>2, <1>4
    <2>2. frames \in Nat \ {0}
      BY <1>1, <2>1, TrimmingIsExact
    <2>3. after \in Int
      <3>1. frames * NanosPerSecond \in Int
        BY <2>2, NanosPerSecondAssumption
      <3>2. (frames * NanosPerSecond) \div Rate \in Int
        BY <1>1, <3>1, Division
      <3> QED
        BY <1>2, <3>2 DEF TimeAfter
    <2>4. n \in Nat
      BY <1>1, <2>2
    <2>5. CASE n >= Len(bytes)
      BY <1>4, <2>5, NothingIs DEF Trimmed
    <2>6. CASE ~(n >= Len(bytes))
      <3> HIDE DEF n, after, frames, pts
      <3>1. SubSeq(bytes, n + 1, Len(bytes)) \in Seq(Nat)
        <4>1. n <= Len(bytes)
          BY <2>4, <2>6
        <4> QED
          BY <2>4, <4>1, SubSeqFacts
      <3>2. [bytes |-> SubSeq(bytes, n + 1, Len(bytes)), pts |-> after] \in Pcms
        BY <2>3, <3>1 DEF Pcms
      <3>3. Trimmed(bytes, pts) = [bytes |-> SubSeq(bytes, n + 1, Len(bytes)), pts |-> after]
        BY <1>4, <2>6 DEF Trimmed, n, after, frames
      <3> QED
        BY <3>2, <3>3 DEF pts
    <2> QED
      BY <2>5, <2>6
  <1> QED
    BY <1>3, <1>4

(* The first byte of a block, and what follows it. *)
LEMMA AppendFacts ==
    ASSUME NEW S, NEW s \in Seq(S), NEW e \in S
    PROVE  /\ Append(s, e) \in Seq(S) /\ Len(Append(s, e)) = Len(s) + 1
           /\ \A i \in 1 .. Len(s) : Append(s, e)[i] = s[i]
           /\ Append(s, e)[Len(s) + 1] = e
  OBVIOUS

LEMMA PlayTypesBegin ==
    ASSUME Init
    PROVE  PlayTypes
  <1>1. /\ packet = NoPacket /\ pcm = NoPcm /\ boundary = 0 /\ seeks = 0 /\ heard = <<>>
        /\ sourceEnded = FALSE /\ running = FALSE /\ reported = FALSE
    BY DEF Init
  <1>2. <<>> \in Seq(Nat)
    OBVIOUS
  <1> QED
    BY <1>1, <1>2, NothingIs DEF PlayTypes

LEMMA PlayTypesNext ==
    ASSUME SourceInv, PlayTypes, [Next]_vars
    PROVE  PlayTypes'
  <1>0. /\ packet \in Packets /\ pcm \in Pcms
        /\ boundary \in Nat /\ seeks \in Nat /\ heard \in Seq(Nat)
        /\ sourceEnded \in BOOLEAN /\ running \in BOOLEAN /\ reported \in BOOLEAN
    BY DEF PlayTypes
  <1>1. CASE Build \/ Read \/ Break \/ AskForPacket \/ Observe \/ Tick \/ Others
             \/ Over \/ UNCHANGED vars
    <2>1. UNCHANGED playback
      BY <1>1 DEF Build, Read, Break, AskForPacket, Observe, Tick, Others, Over, vars
    <2> QED
      BY <1>0, <2>1 DEF PlayTypes, playback
  <1>2. CASE TakePacket
    <2>1. PacketRead \in Packets
      BY DEF SourceInv, SourceTypes, PacketRead, Packets
    <2> QED
      BY <1>0, <1>2, <2>1 DEF PlayTypes, TakePacket
  <1>3. CASE EndSource \/ PollCompletion \/ Start \/ Pause
    BY <1>0, <1>3 DEF PlayTypes, EndSource, PollCompletion, Start, Pause
  <1>4. CASE Decode
    <2>1. pc = "idle" /\ packet.bytes \in Seq(Nat) /\ packet.frame \in Nat
      BY <1>0, <1>4 DEF Decode, Packets
    <2>2. Trimmed(packet.bytes, TimeOfFrame(packet.frame, Rate)) \in Pcms
      BY <1>0, <2>1, TrimmedIs
    <2> QED
      BY <1>0, <1>4, <2>2, NothingIs DEF PlayTypes, Decode
  <1>5. CASE Submit
    <2>1. /\ packet' = packet /\ boundary' = boundary /\ seeks' = seeks
          /\ sourceEnded' = sourceEnded /\ running' = running /\ reported' = reported
          /\ \/ pcm' = NoPcm /\ heard' = heard \o pcm.bytes
             \/ pcm' = pcm /\ heard' = heard
      BY <1>5 DEF Submit
    <2>2. heard \o pcm.bytes \in Seq(Nat)
      <3>1. pcm.bytes \in Seq(Nat)
        BY <1>0 DEF Pcms
      <3> QED
        BY <1>0, <3>1, ConcatFacts
    <2> QED
      BY <1>0, <2>1, <2>2, NothingIs DEF PlayTypes
  <1>6. CASE \E target \in SeekTargets, resume \in BOOLEAN : Seek(target, resume)
    <2>1. PICK target \in SeekTargets, resume \in BOOLEAN : Seek(target, resume)
      BY <1>6
    <2>2. boundary' \in Nat
      BY <2>1, SeekKeeps
    <2>3. /\ packet' = NoPacket /\ pcm' = NoPcm /\ seeks' = seeks + 1 /\ heard' = <<>>
          /\ sourceEnded' = FALSE /\ running' = resume /\ reported' = FALSE
      BY <2>1 DEF Seek
    <2>4. <<>> \in Seq(Nat) /\ seeks' \in Nat
      BY <1>0, <2>3
    <2>5. packet' \in Packets /\ pcm' \in Pcms /\ heard' \in Seq(Nat)
      BY <2>3, <2>4, NothingIs
    <2>6. sourceEnded' \in BOOLEAN /\ running' \in BOOLEAN /\ reported' \in BOOLEAN
      BY <2>3
    <2> QED
      BY <2>2, <2>4, <2>5, <2>6 DEF PlayTypes
  <1> QED
    BY <1>1, <1>2, <1>3, <1>4, <1>5, <1>6 DEF Next, PlaybackStep

-----------------------------------------------------------------------------
(* The output and its device, step by step *)

LEMMA StartedDevice ==
    ASSUME NEW o, NEW d, NEW rate \in Nat, IsTheDevice(o, d, rate)
    PROVE  IsTheDevice(Started(o), d, rate)
  <1>1. CASE o.running
    BY <1>1 DEF Started
  <1>2. CASE ~o.running
    <2>1. /\ Fresh(o) /\ Agree(o, d) /\ d \in Devices /\ o \in Outputs
      BY <1>2, UpdatedDevice DEF IsTheDevice
    <2> DEFINE p == [o EXCEPT !.running = TRUE]
               q == [p EXCEPT !.elapsed = 0]
    <2>2. /\ p \in Outputs /\ p.buffered = o.buffered /\ p.played = o.played
          /\ p.remainder = o.remainder
      BY <2>1 DEF Outputs
    <2> HIDE DEF p
    <2>3. /\ q \in Outputs /\ q.buffered = p.buffered /\ q.played = p.played
          /\ q.remainder = p.remainder /\ q.elapsed = 0
      BY <2>2 DEF Outputs
    <2> HIDE DEF q
    <2>4. Fresh(q) /\ Agree(q, d)
      BY <2>1, <2>2, <2>3 DEF Fresh, Agree
    <2>5. IsTheDevice(q, d, rate)
      BY <2>1, <2>4, FreshDevice
    <2>6. Started(o) = q
      BY <1>2 DEF Started, p, q
    <2> QED
      BY <2>5, <2>6
  <1> QED
    BY <1>1, <1>2

LEMMA PausedDevice ==
    ASSUME NEW o, NEW d, NEW rate \in Nat, IsTheDevice(o, d, rate)
    PROVE  IsTheDevice(Paused(o, rate), d, rate)
  <1> DEFINE u == Updated(o, rate)
             p == [u EXCEPT !.running = FALSE]
             q == [p EXCEPT !.elapsed = 0]
  <1>1. Fresh(u) /\ Agree(u, d) /\ d \in Devices
    BY UpdatedDevice
  <1> HIDE DEF u
  <1>2. /\ p \in Outputs /\ p.buffered = u.buffered /\ p.played = u.played
        /\ p.remainder = u.remainder
    BY <1>1 DEF Fresh, Outputs
  <1> HIDE DEF p
  <1>3. /\ q \in Outputs /\ q.buffered = p.buffered /\ q.played = p.played
        /\ q.remainder = p.remainder /\ q.elapsed = 0
    BY <1>2 DEF Outputs
  <1> HIDE DEF q
  <1>4. Fresh(q) /\ Agree(q, d)
    BY <1>1, <1>2, <1>3 DEF Fresh, Agree
  <1>5. IsTheDevice(q, d, rate)
    BY <1>1, <1>4, FreshDevice
  <1>6. Paused(o, rate) = q
    BY DEF Paused, p, q, u
  <1> QED
    BY <1>5, <1>6

LEMMA FlushedDevice ==
    ASSUME NEW o, NEW d, NEW rate \in Nat, IsTheDevice(o, d, rate)
    PROVE  IsTheDevice(Flushed(o, rate), [d EXCEPT !.buffered = 0, !.fraction = 0], rate)
  <1> DEFINE u == Updated(o, rate)
             p == [u EXCEPT !.buffered = 0]
             q == [p EXCEPT !.remainder = 0]
             e == [d EXCEPT !.buffered = 0]
             g == [e EXCEPT !.fraction = 0]
  <1>1. Fresh(u) /\ Agree(u, d) /\ d \in Devices
    BY UpdatedDevice
  <1> HIDE DEF u
  <1>2. p \in Outputs /\ p.buffered = 0 /\ p.played = u.played /\ p.elapsed = 0
    BY <1>1 DEF Fresh, Outputs
  <1> HIDE DEF p
  <1>3. /\ q \in Outputs /\ q.buffered = 0 /\ q.played = p.played
        /\ q.remainder = 0 /\ q.elapsed = 0
    BY <1>2 DEF Outputs
  <1> HIDE DEF q
  <1>4. e \in Devices /\ e.buffered = 0 /\ e.played = d.played
    BY <1>1 DEF Devices
  <1> HIDE DEF e
  <1>5. g \in Devices /\ g.buffered = 0 /\ g.played = e.played /\ g.fraction = 0
    BY <1>4 DEF Devices
  <1> HIDE DEF g
  <1>6. Fresh(q) /\ Agree(q, g)
    BY <1>1, <1>2, <1>3, <1>4, <1>5, NanosPerSecondAssumption DEF Fresh, Agree
  <1>7. IsTheDevice(q, g, rate)
    BY <1>5, <1>6, FreshDevice
  <1>8. Flushed(o, rate) = q
    BY DEF Flushed, p, q, u
  <1>9. [d EXCEPT !.buffered = 0, !.fraction = 0] = g
    BY DEF e, g
  <1> QED
    BY <1>7, <1>8, <1>9

LEMMA SubmittedDevice ==
    ASSUME NEW o, NEW d, NEW rate \in Nat, IsTheDevice(o, d, rate), NEW n \in Nat
    PROVE  IsTheDevice(Submitted(Updated(o, rate), n), [d EXCEPT !.buffered = @ + n], rate)
  <1> DEFINE u == Updated(o, rate)
             q == Submitted(u, n)
             g == [d EXCEPT !.buffered = @ + n]
  <1>1. Fresh(u) /\ Agree(u, d) /\ d \in Devices
    BY UpdatedDevice
  <1> HIDE DEF u
  <1>2. /\ q \in Outputs /\ q.buffered = u.buffered + n /\ q.played = u.played
        /\ q.remainder = u.remainder /\ q.elapsed = u.elapsed
    BY <1>1 DEF Fresh, Outputs, Submitted
  <1>3. /\ g \in Devices /\ g.buffered = d.buffered + n /\ g.played = d.played
        /\ g.fraction = d.fraction
    BY <1>1 DEF Devices
  <1> HIDE DEF q, g
  <1>4. u.buffered \in Nat
    BY <1>1 DEF Fresh, Outputs
  <1>5. Fresh(q) /\ Agree(q, g)
    BY <1>1, <1>2, <1>3, <1>4 DEF Fresh, Agree
  <1>6. IsTheDevice(q, g, rate)
    BY <1>3, <1>5, FreshDevice
  <1> QED
    BY <1>6 DEF q, g, u

OutputInv == IsTheDevice(output, real, Rate)

LEMMA OutputBegins ==
    ASSUME Init
    PROVE  OutputInv
  <1>1. Rate \in Nat
    BY FileIs DEF Init, SourceInit, Rate
  <1>2. Fresh(NewOutput) /\ NewDevice \in Devices /\ Agree(NewOutput, NewDevice)
    BY NanosPerSecondAssumption DEF Fresh, Outputs, Devices, Agree, NewOutput, NewDevice
  <1>3. IsTheDevice(NewOutput, NewDevice, Rate)
    BY <1>1, <1>2, FreshDevice
  <1> QED
    BY <1>3 DEF Init, OutputInv

(* The frames of a block. *)
LEMMA FramesOfBlock ==
    ASSUME SourceInv, Built, NEW l \in Nat
    PROVE  l \div BytesPerFrame \in Nat
  <1>1. BytesPerFrame \in {2, 4}
    BY Opened
  <1>2. CASE BytesPerFrame = 2
    BY <1>2
  <1>3. CASE BytesPerFrame = 4
    BY <1>3
  <1> QED
    BY <1>1, <1>2, <1>3

LEMMA FileStays ==
    ASSUME [Next]_vars
    PROVE  file' = file
  BY DEF Next, PlaybackStep, vars, sourceVars, Build, Opening, Open, ReadRiff, EndLayout, BeginChunk,
         ReadHeader, ReadFormat, Fail, Read, SeekBeforeRead, ReadSome, Break, ReadFails, AskForPacket, ReadPacket,
         TakePacket, EndPacket, EndSource, Decode, Submit, Observe, PollCompletion, Start, Pause,
         Seek, Tick, Others, OthersMove, Over

LEMMA OutputNext ==
    ASSUME SourceInv, PlayTypes, OutputInv, [Next]_vars
    PROVE  OutputInv'
  <1>1. Rate \in Nat /\ Rate' = Rate
    <2>1. file.rate \in Nat
      BY FileIs DEF SourceInv, SourceTypes
    <2> QED
      BY <2>1, FileStays DEF Rate
  <1>2. IsTheDevice(output, real, Rate)
    BY DEF OutputInv
  <1> SUFFICES IsTheDevice(output', real', Rate)
    BY <1>1 DEF OutputInv
  <1>3. CASE Build \/ Read \/ Break \/ AskForPacket \/ TakePacket \/ EndSource \/ Decode
             \/ Others \/ Over \/ UNCHANGED vars
    <2>1. output' = output /\ real' = real
      BY <1>3 DEF Build, Read, Break, AskForPacket, TakePacket, EndSource, Decode, Others, Over,
                  vars, device
    <2> QED
      BY <1>2, <2>1
  <1>4. CASE Observe
    BY <1>1, <1>2, <1>4, UpdatedDevice DEF Observe
  <1>5. CASE Start
    BY <1>1, <1>2, <1>5, StartedDevice DEF Start
  <1>6. CASE Pause
    BY <1>1, <1>2, <1>6, PausedDevice DEF Pause
  <1>7. CASE Submit
    <2> DEFINE n == Len(pcm.bytes) \div BytesPerFrame
    <2>1. n \in Nat
      <3>1. Len(pcm.bytes) \in Nat
        BY DEF PlayTypes, Pcms
      <3> QED
        BY <1>7, <3>1, FramesOfBlock DEF Submit, Built
    <2>2. \/ /\ output' = Submitted(Updated(output, Rate), n)
             /\ real' = [real EXCEPT !.buffered = @ + n]
          \/ output' = Updated(output, Rate) /\ real' = real
      BY <1>7 DEF Submit
    <2> HIDE DEF n
    <2>3. /\ IsTheDevice(Submitted(Updated(output, Rate), n), [real EXCEPT !.buffered = @ + n], Rate)
          /\ IsTheDevice(Updated(output, Rate), real, Rate)
      BY <1>1, <1>2, <2>1, SubmittedDevice, UpdatedDevice
    <2> QED
      BY <2>2, <2>3
  <1>8. CASE PollCompletion
    <2> DEFINE u == Updated(output, Rate)
    <2>1. (output' = Paused(u, Rate) \/ output' = u) /\ real' = real
      BY <1>8 DEF PollCompletion
    <2>2. IsTheDevice(u, real, Rate)
      BY <1>1, <1>2, UpdatedDevice
    <2> HIDE DEF u
    <2>3. IsTheDevice(Paused(u, Rate), real, Rate)
      BY <1>1, <2>2, PausedDevice
    <2> QED
      BY <2>1, <2>2, <2>3
  <1>9. CASE \E target \in SeekTargets, resume \in BOOLEAN : Seek(target, resume)
    <2> DEFINE p == Paused(output, Rate)
               o == Flushed(p, Rate)
               d == [real EXCEPT !.buffered = 0, !.fraction = 0]
    <2>1. (output' = Started(o) \/ output' = o) /\ real' = d
      BY <1>9 DEF Seek
    <2>2. IsTheDevice(p, real, Rate)
      BY <1>1, <1>2, PausedDevice
    <2> HIDE DEF p
    <2>3. IsTheDevice(o, d, Rate)
      BY <1>1, <2>2, FlushedDevice
    <2> HIDE DEF o, d
    <2>4. IsTheDevice(Started(o), d, Rate)
      BY <1>1, <2>3, StartedDevice
    <2> QED
      BY <2>1, <2>3, <2>4
  <1>10. CASE Tick
    <2>1. output' = Passed(output) /\ real' = IF output.running THEN Played(real, Rate) ELSE real
      BY <1>10 DEF Tick, TimePasses
    <2> QED
      BY <1>1, <1>2, <2>1, TimePassesDevice
  <1> QED
    BY <1>3, <1>4, <1>5, <1>6, <1>7, <1>8, <1>9, <1>10 DEF Next, PlaybackStep

(***************************************************************************)
(* The output without a device is, whenever it is asked, where a device    *)
(* would be that had been playing all the time, for every rate and every   *)
(* pattern of calls: it works the time since the last call out at once,    *)
(* and this is the same as unit by unit since what is left of a frame is   *)
(* carried over.                                                           *)
(***************************************************************************)
THEOREM PositionIsRealAlways ==
    ASSUME Coordinated
    PROVE  Spec => []PositionIsReal
<1> DEFINE Inv == SourceInv /\ SoughtInv /\ PlayTypes /\ OutputInv
<1>1. Init => Inv
  BY SourceBegins, SoughtBegins, PlayTypesBegin, OutputBegins DEF Init
<1>2. Inv /\ [Next]_vars => Inv'
  BY SourceNext, SoughtNext, PlayTypesNext, OutputNext
<1>3. Inv => PositionIsReal
  BY DEF OutputInv, IsTheDevice, Agree, PositionIsReal, LazyIsReal
<1> QED
  BY <1>1, <1>2, <1>3, PTL DEF Spec

-----------------------------------------------------------------------------
(* The invariant of playback *)

TimeFits(f, pts) ==
    ~BeginsBefore(f, pts) /\ BeginsBefore(f, pts + 2) /\ pts >= boundary

(***************************************************************************)
(* Since the last seek the frames from a up to b were heard, those up to c *)
(* wait in the block, and those up to nextFrame in the packet; a is the    *)
(* first that does not begin before the boundary.                          *)
(***************************************************************************)
Cut(a, b, c) ==
    /\ a <= b /\ b <= c /\ c <= nextFrame
    /\ heard = Stretch(At(a), At(b))
    /\ pcm.bytes = Stretch(At(b), At(c)) /\ packet.bytes = Stretch(At(c), At(nextFrame))
    /\ b = c => pcm = NoPcm
    /\ b < c => TimeFits(b, pcm.pts)
    /\ c = nextFrame => packet = NoPacket
    /\ c < nextFrame => packet.frame = c
    /\ a > 0 => BeginsBefore(a - 1, boundary + 1)
    /\ a < c => ~BeginsBefore(a, boundary)
    /\ a = b => blocks = <<>>
    /\ a < b => blocks # <<>> /\ blocks[1].byte = At(a)
    /\ \A i \in 1 .. Len(blocks) :
          \E f \in a .. b - 1 : blocks[i].byte = At(f) /\ TimeFits(f, blocks[i].pts)

Blocks == [byte : Nat, pts : Int]

(* Nothing was played yet. *)
Untouched ==
    /\ heard = <<>> /\ blocks = <<>> /\ packet = NoPacket /\ pcm = NoPcm
    /\ boundary = 0 /\ ~sourceEnded /\ ~running /\ ~reported

PlayInv ==
    /\ blocks \in Seq(Blocks)
    /\ pc \in {"open", "riff", "chunk", "header", "format"} => Untouched
    /\ pc = "packet" => packet = NoPacket /\ ~sourceEnded /\ ~reported
    /\ Built =>
          /\ \E a, b, c \in 0 .. nextFrame : Cut(a, b, c)
          /\ sourceEnded => AtEnd
          /\ reported => DecoderDrained /\ ~running /\ real.buffered = 0

(* Frames in bytes, and back. *)
LEMMA AtIs ==
    ASSUME SourceInv, Built, NEW f \in Nat, NEW n \in Nat
    PROVE  /\ At(f) \in Nat /\ n * BytesPerFrame \in Nat /\ n <= n * BytesPerFrame
           /\ At(f + n) = At(f) + n * BytesPerFrame /\ At(f + n) \in Nat
           /\ (n * BytesPerFrame) % BytesPerFrame = 0
           /\ FrameOf(At(f)) = f
  <1>1. /\ BytesPerFrame \in {2, 4} /\ layout.data[1] \in Nat /\ RegionStart \in Nat
    BY Opened
  <1> DEFINE b == BytesPerFrame
             lo == layout.data[1]
             r == RegionStart
  <1>2. b \in {2, 4} /\ lo \in Nat /\ r \in Nat
    BY <1>1
  <1>3. At(f) = r + lo + f * b /\ At(f + n) = r + lo + (f + n) * b
    BY DEF At
  <1>4. FrameOf(At(f)) = (At(f) - r - lo) \div b
    BY DEF FrameOf
  <1> HIDE DEF b, lo, r
  <1>5. CASE b = 2
    <2>1. /\ At(f) \in Nat /\ At(f + n) = At(f) + n * b /\ At(f + n) \in Nat
          /\ n * b \in Nat /\ n <= n * b
      BY <1>2, <1>3, <1>5
    <2>2. (n * b) % b = 0
      BY <1>5
    <2>3. At(f) - r - lo = f * 2
      BY <1>2, <1>3, <1>5
    <2>4. (f * 2) \div 2 = f
      OBVIOUS
    <2> QED
      BY <1>4, <1>5, <2>1, <2>2, <2>3, <2>4 DEF b
  <1>6. CASE b = 4
    <2>1. /\ At(f) \in Nat /\ At(f + n) = At(f) + n * b /\ At(f + n) \in Nat
          /\ n * b \in Nat /\ n <= n * b
      BY <1>2, <1>3, <1>6
    <2>2. (n * b) % b = 0
      BY <1>6
    <2>3. At(f) - r - lo = f * 4
      BY <1>2, <1>3, <1>6
    <2>4. (f * 4) \div 4 = f
      OBVIOUS
    <2> QED
      BY <1>4, <1>6, <2>1, <2>2, <2>3, <2>4 DEF b
  <1> QED
    BY <1>2, <1>5, <1>6

LEMMA AtGrows ==
    ASSUME SourceInv, Built, NEW f \in Nat, NEW g \in Nat, f <= g
    PROVE  /\ At(f) \in Nat /\ At(g) \in Nat /\ At(f) <= At(g)
           /\ At(g) - At(f) = (g - f) * BytesPerFrame
           /\ At(f) = At(g) <=> f = g
           /\ FrameOf(At(f)) = f
  <1> DEFINE n == g - f
             m == n * BytesPerFrame
  <1>1. n \in Nat /\ f + n = g
    OBVIOUS
  <1> HIDE DEF n
  <1>2. /\ At(f) \in Nat /\ m \in Nat /\ n <= m
        /\ At(f + n) = At(f) + m /\ FrameOf(At(f)) = f
    BY <1>1, AtIs
  <1> HIDE DEF m
  <1>3. At(g) = At(f) + m
    BY <1>1, <1>2
  <1>4. At(g) - At(f) = m /\ At(g) \in Nat /\ At(f) <= At(g)
    BY <1>2, <1>3
  <1>5. At(f) = At(g) <=> f = g
    <2>1. At(f) = At(g) => n = 0
      BY <1>1, <1>2, <1>3
    <2> QED
      BY <1>1, <2>1
  <1> QED
    BY <1>2, <1>4, <1>5 DEF m, n

(* Of two frames the earlier one begins earlier. *)
LEMMA EarlierBegins ==
    ASSUME NEW f \in Int, NEW g \in Int, f <= g, NEW t \in Int, NEW u \in Int, t <= u, file \in Files,
           BeginsBefore(g, t)
    PROVE  BeginsBefore(f, u)
  <1>1. Rate \in Nat /\ NanosPerSecond \in Nat
    BY FileIs, NanosPerSecondAssumption DEF Rate
  <1>2. f * NanosPerSecond <= g * NanosPerSecond /\ t * Rate <= u * Rate
    BY <1>1, Monotone
  <1>3. g * NanosPerSecond < t * Rate
    BY DEF BeginsBefore
  <1>4. /\ f * NanosPerSecond \in Int /\ g * NanosPerSecond \in Int
        /\ t * Rate \in Int /\ u * Rate \in Int
    BY <1>1
  <1>5. f * NanosPerSecond < u * Rate
    BY <1>2, <1>3, <1>4
  <1> QED
    BY <1>5 DEF BeginsBefore

LEMMA CutStays ==
    ASSUME NEW a, NEW b, NEW c, Cut(a, b, c),
           UNCHANGED <<file, layout, nextFrame, heard, pcm, packet, blocks, boundary>>
    PROVE  Cut(a, b, c)'
  BY DEF Cut, TimeFits, BeginsBefore, Rate, At, BytesPerFrame

(* A step that leaves what was played and what waits to be played. *)
LEMMA PlayStays ==
    ASSUME SourceInv, PlayInv,
           UNCHANGED <<file, layout, nextFrame, heard, pcm, packet, blocks, boundary, sourceEnded>>,
           pc' = pc \/ pc' \in {"failed", "ioError"},
           pc' # "idle" => running' = running /\ reported' = reported,
           pc' = "packet" => real'.buffered = real.buffered,
           pc' = "idle" /\ reported' => DecoderDrained /\ ~running' /\ real'.buffered = 0
    PROVE  PlayInv'
  <1>1. blocks' \in Seq(Blocks)
    BY DEF PlayInv
  <1>2. pc' \in {"open", "riff", "chunk", "header", "format"} => Untouched'
    BY DEF PlayInv, Untouched
  <1>3. pc' = "packet" => packet' = NoPacket /\ ~sourceEnded' /\ ~reported'
    BY DEF PlayInv
  <1>4. Built' => \E a, b, c \in 0 .. nextFrame' : Cut(a, b, c)'
    <2> SUFFICES ASSUME Built' PROVE \E a, b, c \in 0 .. nextFrame' : Cut(a, b, c)'
      OBVIOUS
    <2>1. Built
      BY DEF Built
    <2>2. PICK a, b, c \in 0 .. nextFrame : Cut(a, b, c)
      BY <2>1 DEF PlayInv
    <2>3. Cut(a, b, c)'
      BY <2>2, CutStays
    <2> QED
      BY <2>3
  <1>5. Built' => (sourceEnded' => AtEnd')
    BY DEF PlayInv, Built, AtEnd, FrameCount, DataLength, BytesPerFrame
  <1>6. Built' => (reported' => DecoderDrained' /\ ~running' /\ real'.buffered = 0)
    <2>1. DecoderDrained' <=> DecoderDrained
      BY DEF DecoderDrained
    <2> QED
      BY <1>3, <2>1 DEF Built
  <1> QED
    BY <1>1, <1>2, <1>3, <1>4, <1>5, <1>6 DEF PlayInv

LEMMA ReportedMeans ==
    ASSUME PlayInv, pc = "idle"
    PROVE  /\ reported => DecoderDrained /\ ~running /\ real.buffered = 0
           /\ sourceEnded => AtEnd
           /\ \E a, b, c \in 0 .. nextFrame : Cut(a, b, c)
  BY DEF PlayInv, Built

(* The file is open: nothing was played, and nothing is behind. *)
LEMMA BuildPlays ==
    ASSUME SourceInv, PlayInv, Build
    PROVE  PlayInv'
  <1>1. /\ Opening /\ heard' = heard /\ blocks' = blocks /\ packet' = packet /\ pcm' = pcm
        /\ boundary' = boundary /\ sourceEnded' = sourceEnded
        /\ running' = running /\ reported' = reported /\ nextFrame' = nextFrame
    BY DEF Build, playback, Opening, Open, ReadRiff, EndLayout, BeginChunk, ReadHeader, ReadFormat, Fail
  <1>2. pc \in {"open", "riff", "chunk", "header", "format"}
    BY <1>1 DEF Opening, Open, ReadRiff, EndLayout, BeginChunk, ReadHeader, ReadFormat, Done
  <1>3. /\ pc' \in {"open", "riff", "chunk", "header", "format", "idle", "failed"}
        /\ pc' = "idle" => file' = file /\ layout' = layout
    BY <1>1 DEF Opening, Open, ReadRiff, EndLayout, BeginChunk, ReadHeader, ReadFormat, Fail, ReadExactly
  <1>4. blocks \in Seq(Blocks) /\ Untouched /\ nextFrame = 0
    BY <1>2 DEF PlayInv, SourceInv, FramesInv
  <1>5. Untouched'
    BY <1>1, <1>4 DEF Untouched
  <1>6. pc' = "idle" => Cut(0, 0, 0)'
    <2> SUFFICES ASSUME pc' = "idle" PROVE Cut(0, 0, 0)'
      OBVIOUS
    <2>1. At(0) \in Nat /\ At(0)' = At(0)
      <3>1. layout.data[1] \in Nat /\ BytesPerFrame \in Nat /\ RegionStart \in Nat
        BY RegionStartAssumption DEF SourceInv, SourceTypes, BytesPerFrame
      <3>2. At(0)' = At(0)
        BY <1>3 DEF At, BytesPerFrame
      <3>3. 0 * BytesPerFrame = 0
        BY <3>1
      <3> QED
        BY <3>1, <3>2, <3>3 DEF At
    <2>2. Stretch(At(0), At(0)) = <<>>
      BY <2>1, NothingRead
    <2>3. /\ heard' = Stretch(At(0)', At(0)') /\ pcm'.bytes = Stretch(At(0)', At(0)')
          /\ packet'.bytes = Stretch(At(0)', At(0)') /\ nextFrame' = 0
      BY <1>1, <1>4, <2>1, <2>2 DEF Untouched, NoPcm, NoPacket
    <2>4. Len(blocks') = 0 /\ blocks' = <<>> /\ pcm' = NoPcm /\ packet' = NoPacket
      BY <1>5 DEF Untouched
    <2> QED
      BY <2>3, <2>4 DEF Cut
  <1>7. pc' = "idle" => \E a, b, c \in 0 .. nextFrame' : Cut(a, b, c)'
    <2>1. 0 \in 0 .. nextFrame'
      BY <1>1, <1>4
    <2> QED
      BY <1>6, <2>1
  <1>8. Built' => pc' = "idle"
    BY <1>3 DEF Built
  <1>9. ~sourceEnded' /\ ~reported' /\ packet' = NoPacket
    BY <1>5 DEF Untouched
  <1> QED
    BY <1>1, <1>4, <1>5, <1>7, <1>8, <1>9 DEF PlayInv

LEMMA ReadPlays ==
    ASSUME SourceInv, PlayInv, Read \/ Break \/ Others
    PROVE  PlayInv'
  <1>1. /\ heard' = heard /\ blocks' = blocks /\ packet' = packet /\ pcm' = pcm
        /\ boundary' = boundary /\ sourceEnded' = sourceEnded
        /\ running' = running /\ reported' = reported /\ real' = real
    BY DEF Read, Break, Others, playback, device
  <1>2. /\ file' = file /\ layout' = layout /\ nextFrame' = nextFrame
        /\ pc' = pc \/ pc' \in {"failed", "ioError"}
    BY DEF Read, SeekBeforeRead, ReadSome, Fail, Break, ReadFails, Others, OthersMove
  <1>3. pc = "idle" => (reported => DecoderDrained /\ ~running /\ real.buffered = 0)
    BY ReportedMeans
  <1> QED
    BY <1>1, <1>2, <1>3, PlayStays

LEMMA AskForPacketPlays ==
    ASSUME SourceInv, PlayInv, AskForPacket
    PROVE  PlayInv'
  <1>1. /\ heard' = heard /\ blocks' = blocks /\ packet' = packet /\ pcm' = pcm
        /\ boundary' = boundary /\ sourceEnded' = sourceEnded
        /\ running' = running /\ reported' = reported
        /\ file' = file /\ layout' = layout /\ nextFrame' = nextFrame
        /\ pc = "idle" /\ pc' = "packet" /\ running /\ packet = NoPacket /\ ~sourceEnded
    BY DEF AskForPacket, ReadPacket, ReadExactly, playback
  <1>2. PICK a, b, c \in 0 .. nextFrame : Cut(a, b, c)
    BY <1>1, ReportedMeans
  <1>3. Cut(a, b, c)'
    BY <1>1, <1>2, CutStays
  <1>4. ~reported
    BY <1>1, ReportedMeans
  <1>5. blocks \in Seq(Blocks)
    BY DEF PlayInv
  <1>6. \E i, j, k \in 0 .. nextFrame' : Cut(i, j, k)'
    BY <1>1, <1>3
  <1> QED
    BY <1>1, <1>4, <1>5, <1>6 DEF PlayInv

LEMMA TakePacketPlays ==
    ASSUME SourceInv, PlayInv, TakePacket
    PROVE  PlayInv'
  <1>1. /\ heard' = heard /\ blocks' = blocks /\ pcm' = pcm
        /\ boundary' = boundary /\ sourceEnded' = sourceEnded
        /\ running' = running /\ reported' = reported
        /\ file' = file /\ layout' = layout /\ packet' = PacketRead
        /\ EndPacket /\ pc = "packet" /\ pc' = "idle" /\ Built
    BY DEF TakePacket, EndPacket, Done, ReadExactly, Built
  <1>2. packet = NoPacket /\ ~sourceEnded /\ ~reported /\ blocks \in Seq(Blocks)
    BY <1>1 DEF PlayInv
  <1>3. PICK a, b, c \in 0 .. nextFrame : Cut(a, b, c)
    BY <1>1 DEF PlayInv
  <1>4. PICK n \in 1 .. FrameCount :
            /\ nextFrame + n <= FrameCount /\ nextFrame' = nextFrame + n
            /\ got = Stretch(At(nextFrame), At(nextFrame + n))
    BY <1>1, PacketEnds
  <1>5. nextFrame \in Nat /\ FrameCount \in Nat
    BY <1>1, Opened
  <1>6. c = nextFrame
    <2>1. packet.bytes = <<>> /\ packet.bytes = Stretch(At(c), At(nextFrame)) /\ c <= nextFrame
      BY <1>2, <1>3 DEF Cut, NoPacket
    <2> DEFINE g == nextFrame
    <2>a. c \in Nat /\ g \in Nat /\ c <= g
      BY <1>5, <2>1
    <2> HIDE DEF g
    <2>b. /\ At(c) \in Nat /\ At(g) \in Nat /\ At(c) <= At(g)
          /\ At(c) = At(g) <=> c = g
      BY <1>1, <2>a, AtGrows
    <2>2. /\ At(c) \in Nat /\ At(nextFrame) \in Nat /\ At(c) <= At(nextFrame)
          /\ At(c) = At(nextFrame) <=> c = nextFrame
      BY <2>b DEF g
    <2>3. At(c) = At(nextFrame)
      <3> DEFINE x == At(c)
                 y == At(nextFrame)
      <3>1. x \in Nat /\ y \in Nat /\ x <= y /\ Stretch(x, y) = <<>>
        BY <2>1, <2>2
      <3> HIDE DEF x, y
      <3>2. Stretch(x, y) = <<>> <=> x = y
        BY <3>1, StretchIs
      <3> QED
        BY <3>1, <3>2 DEF x, y
    <2> QED
      BY <2>2, <2>3
  <1>7. packet'.bytes = got /\ packet'.frame = nextFrame
    BY <1>1 DEF PacketRead
  <1>8. /\ At(a)' = At(a) /\ At(b)' = At(b) /\ At(c)' = At(c)
        /\ At(nextFrame)' = At(nextFrame') /\ \A f : BeginsBefore(f, boundary)' <=> BeginsBefore(f, boundary)
    BY <1>1 DEF At, BytesPerFrame, BeginsBefore, Rate
  <1>9. Cut(a, b, c)'
    <2>1. /\ a <= b /\ b <= c /\ c <= nextFrame' /\ c < nextFrame' /\ c # nextFrame'
      BY <1>3, <1>4, <1>5, <1>6 DEF Cut
    <2>2. /\ heard' = Stretch(At(a)', At(b)') /\ pcm'.bytes = Stretch(At(b)', At(c)')
          /\ b = c => pcm' = NoPcm
      BY <1>1, <1>3, <1>8 DEF Cut
    <2>3. packet'.bytes = Stretch(At(c)', At(nextFrame)') /\ packet'.frame = c
      BY <1>4, <1>6, <1>7, <1>8
    <2>4. /\ b < c => TimeFits(b, pcm.pts)'
          /\ a > 0 => BeginsBefore(a - 1, boundary + 1)'
          /\ a < c => ~BeginsBefore(a, boundary)'
          /\ a = b => blocks' = <<>>
          /\ a < b => blocks' # <<>> /\ blocks'[1].byte = At(a)'
      BY <1>1, <1>3, <1>8 DEF Cut, TimeFits, BeginsBefore, Rate
    <2>5. \A i \in 1 .. Len(blocks') :
              \E f \in a .. b - 1 : blocks'[i].byte = At(f)' /\ TimeFits(f, blocks[i].pts)'
      BY <1>1, <1>3 DEF Cut, TimeFits, BeginsBefore, Rate, At, BytesPerFrame
    <2> QED
      BY <2>1, <2>2, <2>3, <2>4, <2>5 DEF Cut
  <1>10. \E i, j, k \in 0 .. nextFrame' : Cut(i, j, k)'
    <2>1. a \in 0 .. nextFrame' /\ b \in 0 .. nextFrame' /\ c \in 0 .. nextFrame'
      BY <1>4, <1>5
    <2> QED
      BY <1>9, <2>1
  <1> QED
    BY <1>1, <1>2, <1>10 DEF PlayInv

(***************************************************************************)
(* What trimming makes of the frames from c up to e, which wait in a       *)
(* packet: the frames from some c + d on, with d the least for which they  *)
(* do not begin before the boundary, or nothing if there are none.         *)
(***************************************************************************)
LEMMA TrimmedBlock ==
    ASSUME SourceInv, pc = "idle", boundary \in Nat,
           NEW c \in Nat, NEW e \in Nat, c < e, e <= FrameCount,
           NEW block, block = Trimmed(Stretch(At(c), At(e)), TimeOfFrame(c, Rate))
    PROVE  \E d \in 0 .. e - c :
              /\ block.bytes = Stretch(At(c + d), At(e))
              /\ d = e - c => block = NoPcm
              /\ d < e - c => TimeFits(c + d, block.pts) /\ ~BeginsBefore(c + d, boundary)
              /\ d > 0 => BeginsBefore(c + d - 1, boundary + 1) /\ BeginsBefore(c, boundary)
  <1> DEFINE bytes == Stretch(At(c), At(e))
             pts == TimeOfFrame(c, Rate)
             frames == FramesBefore(boundary, pts, Rate)
             after == TimeAfter(pts, frames, Rate)
             N == NanosPerSecond
             r == Rate
             w == BytesPerFrame
  <1>1. /\ r \in Nat \ {0} /\ w \in {2, 4} /\ N \in Nat \ {0} /\ Built
        /\ boundary \in Nat
    BY Opened, NanosPerSecondAssumption DEF Rate, Built
  <1>2. /\ pts \in Int /\ pts * r <= c * N /\ c * N < (pts + 1) * r
    BY <1>1, FrameBeginsInItsNanosecond
  <1>3. /\ At(c) \in Nat /\ At(e) \in Nat /\ At(c) <= At(e)
        /\ At(e) - At(c) = (e - c) * w
    BY <1>1, AtGrows
  <1>4. bytes \in Seq(Nat) /\ Len(bytes) = At(e) - At(c)
    BY <1>3, StretchIs
  <1>5. Trimmed(bytes, pts) =
            IF pts >= boundary
            THEN [bytes |-> bytes, pts |-> pts]
            ELSE IF frames * w >= Len(bytes)
            THEN NoPcm
            ELSE [bytes |-> SubSeq(bytes, frames * w + 1, Len(bytes)), pts |-> after]
    BY DEF Trimmed
  <1>6. block = Trimmed(bytes, pts)
    OBVIOUS
  <1> HIDE DEF bytes, pts, frames, after, N, r, w
  <1>7. CASE pts >= boundary
    <2>1. block = [bytes |-> bytes, pts |-> pts]
      BY <1>5, <1>6, <1>7
    <2>2. boundary * r <= pts * r
      BY <1>1, <1>2, <1>7, Monotone
    <2>3. (pts + 1) * r <= (pts + 2) * r
      <3>1. pts + 1 \in Int /\ pts + 2 \in Int /\ pts + 1 <= pts + 2
        BY <1>2
      <3> DEFINE p1 == pts + 1
                 p2 == pts + 2
      <3> HIDE DEF p1, p2
      <3>2. p1 * r <= p2 * r
        BY <1>1, <3>1, Monotone DEF p1, p2
      <3> QED
        BY <3>2 DEF p1, p2
    <2>4. /\ boundary * r \in Int /\ pts * r \in Int /\ c * N \in Int
          /\ (pts + 1) * r \in Int /\ (pts + 2) * r \in Int
      BY <1>1, <1>2
    <2>5. ~(c * N < pts * r) /\ ~(c * N < boundary * r) /\ c * N < (pts + 2) * r
      BY <1>2, <2>2, <2>3, <2>4
    <2>6. ~BeginsBefore(c, pts) /\ ~BeginsBefore(c, boundary) /\ BeginsBefore(c, pts + 2)
      BY <2>5 DEF BeginsBefore, N, r
    <2>7. TimeFits(c, block.pts) /\ block.bytes = Stretch(At(c), At(e))
      BY <1>7, <2>1, <2>6 DEF TimeFits, bytes
    <2>8. 0 \in 0 .. e - c /\ c + 0 = c /\ 0 # e - c
      OBVIOUS
    <2> QED
      BY <2>6, <2>7, <2>8
  <1>8. CASE ~(pts >= boundary)
    <2>1. pts < boundary
      BY <1>1, <1>2, <1>8
    <2>2. /\ frames \in Nat \ {0}
          /\ boundary * r <= (c + frames) * N
          /\ (c + frames - 1) * N < (boundary + 1) * r
          /\ boundary <= after
          /\ after * r <= (c + frames) * N
          /\ (c + frames) * N < (after + 2) * r
      BY <1>1, <2>1, TrimmingIsExact DEF pts, frames, after, N, r
    <2>3. BeginsBefore(c, boundary)
      <3>1. pts + 1 \in Int /\ pts + 1 <= boundary
        BY <1>1, <1>2, <2>1
      <3>2. (pts + 1) * r <= boundary * r
        <4> DEFINE p1 == pts + 1
        <4>1. p1 \in Int /\ p1 <= boundary
          BY <3>1
        <4> HIDE DEF p1
        <4>2. p1 * r <= boundary * r
          BY <1>1, <4>1, Monotone
        <4> QED
          BY <4>2 DEF p1
      <3>3. c * N \in Int /\ (pts + 1) * r \in Int /\ boundary * r \in Int
        BY <1>1, <1>2
      <3>4. c * N < boundary * r
        BY <1>2, <3>2, <3>3
      <3> QED
        BY <3>4 DEF BeginsBefore, N, r
    <2>4. BeginsBefore(c + frames - 1, boundary + 1)
      BY <2>2 DEF BeginsBefore, N, r
    <2>5. CASE frames >= e - c
      <3>1. (e - c) * w <= frames * w
        <4> DEFINE m == e - c
        <4>1. m \in Int /\ m <= frames
          BY <2>2, <2>5
        <4> HIDE DEF m
        <4>2. m * w <= frames * w
          BY <1>1, <2>2, <4>1, Monotone
        <4> QED
          BY <4>2 DEF m
      <3>2. block = NoPcm
        BY <1>3, <1>4, <1>5, <1>6, <1>8, <3>1
      <3>3. block.bytes = Stretch(At(e), At(e))
        <4>1. Stretch(At(e), At(e)) = <<>>
          BY <1>3, NothingRead
        <4> QED
          BY <3>2, <4>1 DEF NoPcm
      <3>4. BeginsBefore(e - 1, boundary + 1)
        <4> DEFINE g == c + frames - 1
                   k == e - 1
                   t == boundary + 1
        <4>1. k \in Int /\ g \in Int /\ k <= g /\ t \in Int /\ t <= t /\ BeginsBefore(g, t)
          BY <1>1, <2>2, <2>4, <2>5
        <4>2. file \in Files
          BY DEF SourceInv, SourceTypes
        <4> HIDE DEF g, k, t
        <4>3. BeginsBefore(k, t)
          BY <4>1, <4>2, EarlierBegins
        <4> QED
          BY <4>3 DEF k, t
      <3>5. e - c \in 0 .. e - c /\ c + (e - c) = e
        OBVIOUS
      <3> QED
        BY <2>3, <3>2, <3>3, <3>4, <3>5
    <2>6. CASE ~(frames >= e - c)
      <3> DEFINE g == c + frames
                 n == frames * w
      <3>1. frames \in 0 .. e - c /\ frames < e - c /\ g \in Nat /\ g <= e /\ frames # e - c
        BY <2>2, <2>6
      <3>2. At(g) = At(c) + n /\ n \in Nat
        BY <1>1, <2>2, AtIs DEF w
      <3> HIDE DEF g
      <3>3. At(g) \in Nat /\ At(g) <= At(e) /\ (At(g) = At(e) <=> g = e)
        <4>1. /\ At(g) \in Nat /\ At(g) <= At(e)
              /\ At(g) = At(e) <=> g = e
          BY <1>1, <3>1, AtGrows
        <4> QED
          BY <4>1
      <3> HIDE DEF n
      <3>4. At(c) + n < At(e) /\ ~(n >= Len(bytes))
        <4>1. g # e
          BY <2>2, <3>1 DEF g
        <4> QED
          BY <1>3, <1>4, <3>2, <3>3, <4>1
      <3>5. block = [bytes |-> SubSeq(bytes, n + 1, Len(bytes)), pts |-> after]
        BY <1>5, <1>6, <1>8, <3>4 DEF n
      <3>6. SubSeq(bytes, n + 1, At(e) - At(c)) = Stretch(At(c) + n, At(e))
        <4> DEFINE x == At(c)
                   y == At(e)
        <4>1. x \in Nat /\ y \in Nat /\ n \in Nat /\ x + n <= y
          BY <1>3, <3>2, <3>4
        <4> HIDE DEF x, y
        <4>2. SubSeq(Stretch(x, y), n + 1, y - x) = Stretch(x + n, y)
          BY <4>1, StretchEnd
        <4> QED
          BY <4>2 DEF x, y, bytes
      <3>7. block.bytes = Stretch(At(g), At(e)) /\ block.pts = after
        BY <1>4, <3>2, <3>5, <3>6
      <3>8. ~(g * N < after * r) /\ ~(g * N < boundary * r) /\ g * N < (after + 2) * r
        <4>1. after \in Int
          <5>1. frames * N \in Int
            BY <1>1, <2>2
          <5>2. (frames * N) \div r \in Int
            BY <1>1, <5>1, Division
          <5> QED
            BY <1>2, <5>2 DEF after, TimeAfter, N, r
        <4>2. g * N \in Int /\ after * r \in Int /\ boundary * r \in Int /\ (after + 2) * r \in Int
          BY <1>1, <3>1, <4>1
        <4> QED
          BY <2>2, <4>2 DEF g
      <3>9. TimeFits(g, block.pts) /\ ~BeginsBefore(g, boundary)
        BY <2>2, <3>7, <3>8 DEF TimeFits, BeginsBefore, N, r
      <3> QED
        BY <2>3, <2>4, <3>1, <3>7, <3>9 DEF g
    <2> QED
      BY <1>1, <2>2, <2>5, <2>6
  <1> QED
    BY <1>7, <1>8

LEMMA DecodePlays ==
    ASSUME SourceInv, PlayTypes, PlayInv, Decode
    PROVE  PlayInv'
  <1>1. /\ heard' = heard /\ blocks' = blocks /\ boundary' = boundary /\ sourceEnded' = sourceEnded
        /\ running' = running /\ reported' = reported
        /\ file' = file /\ layout' = layout /\ nextFrame' = nextFrame /\ pc' = pc
        /\ packet' = NoPacket /\ pcm' = Trimmed(packet.bytes, TimeOfFrame(packet.frame, Rate))
        /\ pc = "idle" /\ Built /\ running /\ packet # NoPacket /\ pcm = NoPcm
    BY DEF Decode, sourceVars, Built
  <1>2. PICK a, b, c \in 0 .. nextFrame : Cut(a, b, c)
    BY <1>1, ReportedMeans
  <1>a. nextFrame \in Nat
    BY <1>1, Opened
  <1>e. PICK e \in Nat : e = nextFrame
    BY <1>a
  <1>3. /\ a \in Nat /\ c \in Nat /\ e \in Nat /\ e <= FrameCount /\ FrameCount \in Nat
        /\ boundary \in Nat /\ file \in Files
    BY <1>1, <1>e, Opened DEF PlayTypes, SourceInv, SourceTypes
  <1>4. b = c
    <2>1. /\ Stretch(At(b), At(c)) = <<>> /\ b \in Nat /\ b <= c
      BY <1>1, <1>2, <1>3 DEF Cut, NoPcm
    <2>2. /\ At(b) \in Nat /\ At(c) \in Nat /\ At(b) <= At(c)
          /\ At(b) = At(c) <=> b = c
      BY <1>1, <1>3, <2>1, AtGrows
    <2> DEFINE x == At(b)
               y == At(c)
    <2>3. x \in Nat /\ y \in Nat /\ x <= y /\ Stretch(x, y) = <<>>
      BY <2>1, <2>2
    <2> HIDE DEF x, y
    <2>4. x = y
      BY <2>3, StretchIs
    <2> QED
      BY <2>2, <2>4 DEF x, y
  <1>5. /\ a <= c /\ c < e /\ packet.bytes = Stretch(At(c), At(e)) /\ packet.frame = c
    BY <1>1, <1>2, <1>3, <1>4, <1>e DEF Cut
  <1>6. pcm' = Trimmed(Stretch(At(c), At(e)), TimeOfFrame(c, Rate))
    BY <1>1, <1>5
  <1>7. PICK d \in 0 .. e - c :
              /\ pcm'.bytes = Stretch(At(c + d), At(e))
              /\ d = e - c => pcm' = NoPcm
              /\ d < e - c => TimeFits(c + d, pcm'.pts) /\ ~BeginsBefore(c + d, boundary)
              /\ d > 0 => BeginsBefore(c + d - 1, boundary + 1) /\ BeginsBefore(c, boundary)
    <2> DEFINE block == pcm'
    <2>1. block = Trimmed(Stretch(At(c), At(e)), TimeOfFrame(c, Rate))
      BY <1>6
    <2> HIDE DEF block
    <2>2. \E d \in 0 .. e - c :
              /\ block.bytes = Stretch(At(c + d), At(e))
              /\ d = e - c => block = NoPcm
              /\ d < e - c => TimeFits(c + d, block.pts) /\ ~BeginsBefore(c + d, boundary)
              /\ d > 0 => BeginsBefore(c + d - 1, boundary + 1) /\ BeginsBefore(c, boundary)
      BY <1>1, <1>3, <1>5, <2>1, TrimmedBlock
    <2> QED
      BY <2>2 DEF block
  <1>x. PICK x \in Nat : x = c + d
    BY <1>3
  <1>8. x \in 0 .. e /\ x \in Nat /\ (d = e - c <=> x = e) /\ (d < e - c <=> x < e)
    BY <1>3, <1>5, <1>x
  <1>9. ASSUME d > 0 PROVE a = c /\ blocks = <<>> /\ heard = <<>>
    <2>1. a = c
      <3>1. ASSUME a < c PROVE FALSE
        <4>1. ~BeginsBefore(a, boundary)
          BY <1>2, <1>4, <3>1 DEF Cut
        <4>2. BeginsBefore(c, boundary)
          BY <1>7, <1>9
        <4>3. a \in Int /\ c \in Int /\ boundary \in Int /\ boundary <= boundary
          BY <1>3
        <4> QED
          BY <1>3, <1>5, <4>1, <4>2, <4>3, EarlierBegins
      <3> QED
        BY <1>3, <1>5, <3>1
    <2>2. blocks = <<>> /\ heard = Stretch(At(c), At(c))
      BY <1>2, <1>4, <2>1 DEF Cut
    <2>3. At(c) \in Nat
      BY <1>1, <1>3, AtIs
    <2> QED
      BY <2>1, <2>2, <2>3, NothingRead
  <1>10. /\ \A f : At(f)' = At(f)
         /\ \A f, t : BeginsBefore(f, t)' <=> BeginsBefore(f, t)
         /\ \A f, t : TimeFits(f, t)' <=> TimeFits(f, t)
    BY <1>1 DEF At, BytesPerFrame, BeginsBefore, TimeFits, Rate
  <1>11. packet'.bytes = Stretch(At(e), At(e))
    <2>1. At(e) \in Nat
      BY <1>1, <1>3, AtIs
    <2>2. Stretch(At(e), At(e)) = <<>>
      BY <2>1, NothingRead
    <2> QED
      BY <1>1, <2>2 DEF NoPacket
  <1>12. /\ nextFrame' = e /\ pcm'.bytes = Stretch(At(x), At(e))
         /\ x = e => pcm' = NoPcm
         /\ x < e => TimeFits(x, pcm'.pts)
         /\ x <= e
    BY <1>1, <1>7, <1>8, <1>e, <1>x
  <1>13. CASE d = 0
    <2>1. x = c /\ x < e
      BY <1>3, <1>5, <1>13, <1>x
    <2>2. heard' = Stretch(At(a), At(x))
      BY <1>1, <1>2, <1>4, <2>1 DEF Cut
    <2>3. /\ a > 0 => BeginsBefore(a - 1, boundary + 1)
          /\ a = x => blocks' = <<>>
          /\ a < x => blocks' # <<>> /\ blocks'[1].byte = At(a)
      BY <1>1, <1>2, <1>4, <2>1 DEF Cut
    <2>4. ~BeginsBefore(a, boundary)
      <3>1. CASE a = c
        <4>1. d < e - c
          BY <1>3, <1>5, <1>13
        <4>2. ~BeginsBefore(x, boundary)
          BY <1>7, <1>x, <4>1
        <4> QED
          BY <2>1, <3>1, <4>2
      <3>2. CASE a # c
        <4>1. a < c
          BY <1>3, <1>5, <3>2
        <4> QED
          BY <1>2, <4>1 DEF Cut
      <3> QED
        BY <3>1, <3>2
    <2>5. \A i \in 1 .. Len(blocks') :
              \E f \in a .. x - 1 : blocks'[i].byte = At(f) /\ TimeFits(f, blocks'[i].pts)
      BY <1>1, <1>2, <1>4, <2>1 DEF Cut
    <2>6. Cut(a, x, e)'
      BY <1>1, <1>5, <1>10, <1>11, <1>12, <2>1, <2>2, <2>3, <2>4, <2>5 DEF Cut
    <2>7. a \in 0 .. nextFrame' /\ x \in 0 .. nextFrame' /\ e \in 0 .. nextFrame'
      BY <1>1, <1>2, <1>3, <1>8, <1>e
    <2>8. \E i, j, k \in 0 .. nextFrame' : Cut(i, j, k)'
      BY <2>6, <2>7
    <2>9. blocks \in Seq(Blocks) /\ ~reported /\ (sourceEnded => AtEnd)
      BY <1>1, ReportedMeans DEF PlayInv
    <2>10. AtEnd' <=> AtEnd
      BY <1>1 DEF AtEnd, FrameCount, DataLength, BytesPerFrame
    <2> QED
      BY <1>1, <2>8, <2>9, <2>10 DEF PlayInv
  <1>14. CASE d # 0
    <2>1. d > 0 /\ blocks' = <<>> /\ Len(blocks') = 0
      BY <1>1, <1>3, <1>9, <1>14
    <2>2. heard' = Stretch(At(x), At(x))
      <3>1. At(x) \in Nat
        BY <1>1, <1>8, AtIs
      <3>2. Stretch(At(x), At(x)) = <<>>
        BY <3>1, NothingRead
      <3> QED
        BY <1>1, <1>9, <2>1, <3>2
    <2>3. BeginsBefore(x - 1, boundary + 1) /\ (x < e => ~BeginsBefore(x, boundary))
      BY <1>7, <1>8, <1>x, <2>1
    <2>x. x \in Nat /\ ~(x < x)
      BY <1>8
    <2>6. Cut(x, x, e)'
      BY <1>1, <1>10, <1>11, <1>12, <2>1, <2>2, <2>3, <2>x DEF Cut
    <2>7. x \in 0 .. nextFrame' /\ e \in 0 .. nextFrame'
      BY <1>1, <1>3, <1>8, <1>e
    <2>8. \E i, j, k \in 0 .. nextFrame' : Cut(i, j, k)'
      BY <2>6, <2>7
    <2>9. blocks \in Seq(Blocks) /\ ~reported /\ (sourceEnded => AtEnd)
      BY <1>1, ReportedMeans DEF PlayInv
    <2>10. AtEnd' <=> AtEnd
      BY <1>1 DEF AtEnd, FrameCount, DataLength, BytesPerFrame
    <2> QED
      BY <1>1, <2>8, <2>9, <2>10 DEF PlayInv
  <1> QED
    BY <1>13, <1>14

LEMMA SubmitPlays ==
    ASSUME SourceInv, PlayTypes, PlayInv, Submit
    PROVE  PlayInv'
  <1>1. /\ packet' = packet /\ boundary' = boundary /\ sourceEnded' = sourceEnded
        /\ running' = running /\ reported' = reported
        /\ file' = file /\ layout' = layout /\ nextFrame' = nextFrame /\ pc' = pc
        /\ pc = "idle" /\ Built /\ running /\ pcm # NoPcm
        /\ \/ /\ pcm' = NoPcm /\ heard' = heard \o pcm.bytes
              /\ blocks' = Append(blocks, [byte |-> pcm.bytes[1], pts |-> pcm.pts])
           \/ pcm' = pcm /\ heard' = heard /\ blocks' = blocks
    BY DEF Submit, sourceVars, Built
  <1>2. ~reported
    BY <1>1, ReportedMeans
  <1>3. CASE pcm' = pcm /\ heard' = heard /\ blocks' = blocks
    BY <1>1, <1>2, <1>3, PlayStays
  <1>4. CASE /\ pcm' = NoPcm /\ heard' = heard \o pcm.bytes
             /\ blocks' = Append(blocks, [byte |-> pcm.bytes[1], pts |-> pcm.pts])
    <2>1. PICK a, b, c \in 0 .. nextFrame : Cut(a, b, c)
      BY <1>1, ReportedMeans
    <2>2. nextFrame \in Nat /\ a \in Nat /\ b \in Nat /\ c \in Nat
      BY <1>1, Opened
    <2>3. a <= b /\ b < c /\ c <= nextFrame /\ b <= c /\ a < c /\ a # c
      BY <1>1, <2>1, <2>2 DEF Cut
    <2>4. /\ At(a) \in Nat /\ At(b) \in Nat /\ At(a) <= At(b)
      BY <1>1, <2>2, <2>3, AtGrows
    <2>5. /\ At(c) \in Nat /\ At(b) <= At(c) /\ At(b) # At(c)
      BY <1>1, <2>2, <2>3, AtGrows
    <2>6. heard' = Stretch(At(a), At(c))
      <3>1. heard' = Stretch(At(a), At(b)) \o Stretch(At(b), At(c))
        BY <1>4, <2>1 DEF Cut
      <3> DEFINE x == At(a)
                 y == At(b)
                 z == At(c)
      <3>2. x \in Nat /\ y \in Nat /\ z \in Nat /\ x <= y /\ y <= z
        BY <2>4, <2>5
      <3> HIDE DEF x, y, z
      <3>3. Stretch(x, y) \o Stretch(y, z) = Stretch(x, z)
        BY <3>2, StretchJoin
      <3> QED
        BY <3>1, <3>3 DEF x, y, z
    <2> DEFINE block == [byte |-> pcm.bytes[1], pts |-> pcm.pts]
    <2>7. block.byte = At(b) /\ block.pts = pcm.pts /\ block \in Blocks
      <3> DEFINE y == At(b)
                 z == At(c)
      <3>1. y \in Nat /\ z \in Nat /\ y <= z /\ 1 \in 1 .. z - y
        BY <2>4, <2>5
      <3>2. pcm.bytes = Stretch(y, z)
        BY <2>1 DEF Cut
      <3> HIDE DEF y, z
      <3>3. Stretch(y, z)[1] = y + 1 - 1
        BY <3>1, StretchIs
      <3>4. pcm.bytes[1] = y
        BY <3>1, <3>2, <3>3
      <3>5. pcm.pts \in Int
        BY DEF PlayTypes, Pcms
      <3> QED
        BY <3>1, <3>4, <3>5 DEF y, Blocks
    <2> HIDE DEF block
    <2>8. blocks \in Seq(Blocks)
      BY DEF PlayInv
    <2>9. /\ blocks' \in Seq(Blocks) /\ Len(blocks') = Len(blocks) + 1
          /\ \A i \in 1 .. Len(blocks) : blocks'[i] = blocks[i]
          /\ blocks'[Len(blocks) + 1] = block
      <3>1. blocks' = Append(blocks, block)
        BY <1>4 DEF block
      <3> QED
        BY <2>7, <2>8, <3>1, AppendFacts
    <2>10. Len(blocks) \in Nat /\ Len(blocks') \in Nat /\ blocks' # <<>>
      BY <2>8, <2>9
    <2>11. blocks'[1].byte = At(a)
      <3>1. CASE a = b
        <4>1. Len(blocks) = 0
          BY <2>1, <3>1 DEF Cut
        <4>2. blocks'[1] = block
          BY <2>9, <4>1
        <4> QED
          BY <2>7, <3>1, <4>2
      <3>2. CASE a # b
        <4>1. a < b
          BY <2>2, <2>3, <3>2
        <4>2. blocks # <<>> /\ blocks[1].byte = At(a)
          BY <2>1, <4>1 DEF Cut
        <4>3. 1 \in 1 .. Len(blocks)
          BY <2>8, <4>2
        <4> QED
          BY <2>9, <4>2, <4>3
      <3> QED
        BY <3>1, <3>2
    <2>12. \A i \in 1 .. Len(blocks') :
              \E f \in a .. c - 1 : blocks'[i].byte = At(f) /\ TimeFits(f, blocks'[i].pts)
      <3>1. ASSUME NEW i \in 1 .. Len(blocks')
            PROVE  \E f \in a .. c - 1 : blocks'[i].byte = At(f) /\ TimeFits(f, blocks'[i].pts)
        <4>1. CASE i = Len(blocks) + 1
          <5>1. TimeFits(b, pcm.pts) /\ b \in a .. c - 1
            BY <2>1, <2>2, <2>3 DEF Cut
          <5> QED
            BY <2>7, <2>9, <4>1, <5>1
        <4>2. CASE i # Len(blocks) + 1
          <5>1. i \in 1 .. Len(blocks) /\ blocks'[i] = blocks[i]
            BY <2>9, <2>10, <4>2
          <5>2. PICK f \in a .. b - 1 : blocks[i].byte = At(f) /\ TimeFits(f, blocks[i].pts)
            BY <2>1, <5>1 DEF Cut
          <5>3. f \in a .. c - 1
            BY <2>2, <2>3
          <5> QED
            BY <5>1, <5>2, <5>3
        <4> QED
          BY <4>1, <4>2
      <3> QED
        BY <3>1
    <2>13. /\ \A f : At(f)' = At(f)
           /\ \A f, t : BeginsBefore(f, t)' <=> BeginsBefore(f, t)
           /\ \A f, t : TimeFits(f, t)' <=> TimeFits(f, t)
      BY <1>1 DEF At, BytesPerFrame, BeginsBefore, TimeFits, Rate
    <2>14. pcm'.bytes = Stretch(At(c), At(c))
      <3>1. Stretch(At(c), At(c)) = <<>>
        BY <2>5, NothingRead
      <3> QED
        BY <1>4, <3>1 DEF NoPcm
    <2>15. /\ packet.bytes = Stretch(At(c), At(nextFrame))
           /\ c = nextFrame => packet = NoPacket
           /\ c < nextFrame => packet.frame = c
           /\ a > 0 => BeginsBefore(a - 1, boundary + 1)
           /\ ~BeginsBefore(a, boundary)
      BY <2>1, <2>3 DEF Cut
    <2>16. At(nextFrame)' = At(nextFrame)
      BY <1>1, <2>13
    <2>17. Cut(a, c, c)'
      <3>1. ~(c < c) /\ c <= c /\ a <= c
        BY <2>2, <2>3
      <3> QED
        BY <1>1, <1>4, <2>3, <2>6, <2>10, <2>11, <2>12, <2>13, <2>14, <2>15, <2>16, <3>1 DEF Cut
    <2>18. \E i, j, k \in 0 .. nextFrame' : Cut(i, j, k)'
      BY <1>1, <2>1, <2>17
    <2>19. sourceEnded => AtEnd
      BY <1>1, ReportedMeans
    <2>20. AtEnd' <=> AtEnd
      BY <1>1 DEF AtEnd, FrameCount, DataLength, BytesPerFrame
    <2> QED
      BY <1>1, <1>2, <2>9, <2>18, <2>19, <2>20 DEF PlayInv
  <1> QED
    BY <1>1, <1>3, <1>4

LEMMA SeekPlays ==
    ASSUME SourceInv, NEW target \in SeekTargets, NEW resume \in BOOLEAN, Seek(target, resume)
    PROVE  PlayInv'
  <1>1. /\ boundary' \in Nat
    BY SeekKeeps
  <1>2. /\ packet' = NoPacket /\ pcm' = NoPcm /\ nextFrame' = FrameSought(boundary')
        /\ sourceEnded' = FALSE /\ reported' = FALSE /\ heard' = <<>> /\ blocks' = <<>>
        /\ file' = file /\ layout' = layout /\ pc' = pc /\ pc = "idle" /\ Built
    BY DEF Seek, Built
  <1>t. PICK time \in Nat : time = boundary'
    BY <1>1
  <1>3. PICK n \in Nat : n = nextFrame' /\ n = FrameSought(time)
    BY <1>2, <1>t, SoughtIs
  <1>4. /\ Rate \in Nat \ {0} /\ NanosPerSecond \in Nat \ {0}
    BY <1>2, Opened, NanosPerSecondAssumption DEF Rate
  <1>5. /\ \A f : At(f)' = At(f)
        /\ \A f, t : BeginsBefore(f, t)' <=> BeginsBefore(f, t)
    BY <1>2 DEF At, BytesPerFrame, BeginsBefore, Rate
  <1>6. BeginsBefore(n - 1, time + 1)
    <2> DEFINE g == FrameAt(time, Rate)
               u == time + 1
               m == n - 1
    <2>1. g \in Nat /\ g * NanosPerSecond <= time * Rate
      BY <1>4, SeekLandsBeforeTarget
    <2>2. n <= g
      <3>1. FrameCount \in Nat
        BY <1>2, Opened
      <3>2. FrameSought(time) = IF g <= FrameCount THEN g ELSE FrameCount
        BY <1>2, SoughtIs
      <3> HIDE DEF g
      <3> QED
        BY <1>3, <2>1, <3>1, <3>2
    <2> HIDE DEF g
    <2>3. u \in Int /\ u * Rate = time * Rate + Rate
      BY <1>4
    <2> HIDE DEF u
    <2>4. m \in Int /\ m <= g
      BY <2>1, <2>2
    <2> HIDE DEF m
    <2>5. m * NanosPerSecond <= g * NanosPerSecond
      BY <1>4, <2>1, <2>4, Monotone
    <2>6. /\ m * NanosPerSecond \in Int /\ g * NanosPerSecond \in Int
          /\ time * Rate \in Int /\ u * Rate \in Int
      BY <1>4, <2>1, <2>3, <2>4
    <2>7. m * NanosPerSecond < u * Rate
      BY <1>4, <2>1, <2>3, <2>5, <2>6
    <2> QED
      BY <2>7 DEF BeginsBefore, m, u
  <1>7. Stretch(At(n), At(n)) = <<>>
    <2>1. At(n) \in Nat
      BY <1>2, AtIs
    <2> QED
      BY <2>1, NothingRead
  <1>8. Cut(n, n, n)'
    <2>1. /\ heard' = Stretch(At(n)', At(n)') /\ pcm'.bytes = Stretch(At(n)', At(n)')
          /\ packet'.bytes = Stretch(At(n)', At(nextFrame)')
      <3>1. At(n)' = At(n) /\ At(nextFrame)' = At(n)'
        BY <1>3, <1>5 DEF At
      <3> QED
        BY <1>2, <1>7, <3>1 DEF NoPacket, NoPcm
    <2>2. n <= n /\ ~(n < n) /\ n <= nextFrame' /\ ~(n < nextFrame') /\ Len(blocks') = 0
      BY <1>2, <1>3
    <2>3. BeginsBefore(n - 1, boundary + 1)'
      BY <1>2, <1>6, <1>t DEF BeginsBefore, Rate
    <2> QED
      BY <1>2, <2>1, <2>2, <2>3 DEF Cut
  <1>9. \E i, j, k \in 0 .. nextFrame' : Cut(i, j, k)'
    <2>1. n \in 0 .. nextFrame'
      BY <1>3
    <2> QED
      BY <1>8, <2>1
  <1>10. <<>> \in Seq(Blocks)
    OBVIOUS
  <1> QED
    BY <1>2, <1>9, <1>10 DEF PlayInv

LEMMA EndSourcePlays ==
    ASSUME SourceInv, PlayInv, EndSource
    PROVE  PlayInv'
  <1>1. /\ packet' = packet /\ pcm' = pcm /\ boundary' = boundary /\ heard' = heard /\ blocks' = blocks
        /\ running' = running /\ reported' = reported /\ sourceEnded' = TRUE
        /\ file' = file /\ layout' = layout /\ nextFrame' = nextFrame /\ pc' = pc /\ pc = "idle"
        /\ running /\ AtEnd
    BY DEF EndSource, sourceVars
  <1>2. PICK a, b, c \in 0 .. nextFrame : Cut(a, b, c)
    BY <1>1, ReportedMeans
  <1>3. Cut(a, b, c)'
    BY <1>1, <1>2, CutStays
  <1>4. \E i, j, k \in 0 .. nextFrame' : Cut(i, j, k)'
    BY <1>1, <1>3
  <1>5. AtEnd' /\ ~reported /\ blocks \in Seq(Blocks)
    BY <1>1, ReportedMeans DEF PlayInv, AtEnd, FrameCount, DataLength, BytesPerFrame
  <1> QED
    BY <1>1, <1>4, <1>5 DEF PlayInv

LEMMA PollCompletionPlays ==
    ASSUME SourceInv, PlayInv, OutputInv, PollCompletion
    PROVE  PlayInv'
  <1>1. /\ packet' = packet /\ pcm' = pcm /\ boundary' = boundary /\ heard' = heard /\ blocks' = blocks
        /\ sourceEnded' = sourceEnded /\ real' = real
        /\ file' = file /\ layout' = layout /\ nextFrame' = nextFrame /\ pc' = pc /\ pc = "idle"
        /\ running /\ DecoderDrained
        /\ \/ Updated(output, Rate).buffered = 0 /\ ~running'
           \/ reported' = reported /\ running' = running
    BY DEF PollCompletion, sourceVars
  <1>2. Updated(output, Rate).buffered = real.buffered
    BY DEF OutputInv, IsTheDevice, Agree
  <1>3. ~reported
    BY <1>1, ReportedMeans
  <1>4. pc' = "idle" /\ reported' => DecoderDrained /\ ~running' /\ real'.buffered = 0
    BY <1>1, <1>2, <1>3
  <1> QED
    BY <1>1, <1>4, PlayStays

LEMMA StartPausePlays ==
    ASSUME SourceInv, PlayInv, Start \/ Pause
    PROVE  PlayInv'
  <1>1. /\ packet' = packet /\ pcm' = pcm /\ boundary' = boundary /\ heard' = heard /\ blocks' = blocks
        /\ sourceEnded' = sourceEnded /\ real' = real /\ reported' = reported
        /\ file' = file /\ layout' = layout /\ nextFrame' = nextFrame /\ pc' = pc /\ pc = "idle"
        /\ ~reported \/ running
    BY DEF Start, Pause, sourceVars
  <1>2. ~reported
    BY <1>1, ReportedMeans
  <1> QED
    BY <1>1, <1>2, PlayStays

LEMMA ObservePlays ==
    ASSUME SourceInv, PlayInv, Observe \/ Over \/ UNCHANGED vars
    PROVE  PlayInv'
  <1>1. /\ packet' = packet /\ pcm' = pcm /\ boundary' = boundary /\ heard' = heard /\ blocks' = blocks
        /\ sourceEnded' = sourceEnded /\ real' = real /\ reported' = reported /\ running' = running
        /\ file' = file /\ layout' = layout /\ nextFrame' = nextFrame /\ pc' = pc
    BY DEF Observe, Over, vars, sourceVars, playback, device
  <1>2. pc = "idle" => (reported => DecoderDrained /\ ~running /\ real.buffered = 0)
    BY ReportedMeans
  <1> QED
    BY <1>1, <1>2, PlayStays

(* A device that is empty stays empty. *)
LEMMA TickPlays ==
    ASSUME SourceInv, PlayInv, OutputInv, Tick
    PROVE  PlayInv'
  <1>1. /\ packet' = packet /\ pcm' = pcm /\ boundary' = boundary /\ heard' = heard /\ blocks' = blocks
        /\ sourceEnded' = sourceEnded /\ reported' = reported /\ running' = running
        /\ file' = file /\ layout' = layout /\ nextFrame' = nextFrame /\ pc' = pc /\ Built
        /\ real' = real \/ real' = Played(real, Rate)
    BY DEF Tick, TimePasses, sourceVars, playback
  <1>2. Rate \in Nat /\ real \in Devices
    BY <1>1, Opened DEF Rate, OutputInv, IsTheDevice
  <1>3. real.buffered = 0 => real'.buffered = 0
    <2> SUFFICES ASSUME real.buffered = 0 PROVE real'.buffered = 0
      OBVIOUS
    <2> DEFINE t == real.fraction + Rate
    <2>1. t \in Nat
      BY <1>2 DEF Devices
    <2>2. Played(real, Rate).buffered = real.buffered - Consumed(t, real.buffered)
      BY <1>2, PlayedIs
    <2> HIDE DEF t
    <2>3. Consumed(t, 0) \in Nat /\ Consumed(t, 0) <= 0
      BY <2>1, ConsumedIs
    <2>4. Played(real, Rate).buffered = 0
      BY <2>2, <2>3
    <2> QED
      BY <1>1, <2>4
  <1>4. pc \in {"idle", "packet"}
    BY <1>1 DEF Built
  <1>5. CASE pc = "packet"
    <2>1. \E a, b, c \in 0 .. nextFrame : Cut(a, b, c)
      BY <1>1 DEF PlayInv
    <2>2. PICK a, b, c \in 0 .. nextFrame : Cut(a, b, c)
      BY <2>1
    <2>3. Cut(a, b, c)'
      BY <1>1, <2>2, CutStays
    <2>4. \E i, j, k \in 0 .. nextFrame' : Cut(i, j, k)'
      BY <1>1, <2>3
    <2>5. packet = NoPacket /\ ~sourceEnded /\ ~reported /\ blocks \in Seq(Blocks)
      BY <1>5 DEF PlayInv
    <2> QED
      BY <1>1, <1>5, <2>4, <2>5 DEF PlayInv
  <1>6. CASE pc = "idle"
    <2>1. reported => DecoderDrained /\ ~running /\ real.buffered = 0
      BY <1>6, ReportedMeans
    <2> QED
      BY <1>1, <1>3, <1>6, <2>1, PlayStays
  <1> QED
    BY <1>4, <1>5, <1>6

LEMMA PlayBegins ==
    ASSUME Init
    PROVE  PlayInv
  <1>1. pc = "open" /\ blocks = <<>> /\ Untouched
    BY DEF Init, SourceInit, Untouched
  <1>2. <<>> \in Seq(Blocks)
    OBVIOUS
  <1> QED
    BY <1>1, <1>2 DEF PlayInv, Built

LEMMA PlayNext ==
    ASSUME SourceInv, PlayTypes, OutputInv, PlayInv, [Next]_vars
    PROVE  PlayInv'
  <1>1. CASE Build
    BY <1>1, BuildPlays
  <1>2. CASE Read \/ Break \/ Others
    BY <1>2, ReadPlays
  <1>3. CASE AskForPacket
    BY <1>3, AskForPacketPlays
  <1>4. CASE TakePacket
    BY <1>4, TakePacketPlays
  <1>5. CASE EndSource
    BY <1>5, EndSourcePlays
  <1>6. CASE Decode
    BY <1>6, DecodePlays
  <1>7. CASE Submit
    BY <1>7, SubmitPlays
  <1>8. CASE PollCompletion
    BY <1>8, PollCompletionPlays
  <1>9. CASE Start \/ Pause
    BY <1>9, StartPausePlays
  <1>10. CASE \E target \in SeekTargets, resume \in BOOLEAN : Seek(target, resume)
    BY <1>10, SeekPlays
  <1>11. CASE Tick
    BY <1>11, TickPlays
  <1>12. CASE Observe \/ Over \/ UNCHANGED vars
    BY <1>12, ObservePlays
  <1> QED
    BY <1>1, <1>2, <1>3, <1>4, <1>5, <1>6, <1>7, <1>8, <1>9, <1>10, <1>11, <1>12
    DEF Next, PlaybackStep

(* Behind every reachable cut: the bytes of the track up to nextFrame. *)
LEMMA CutIsHeard ==
    ASSUME SourceInv, PlayInv
    PROVE  HeardIsTheData
  <1> SUFFICES ASSUME Built PROVE HeardIsTheData
    BY DEF HeardIsTheData
  <1>1. PICK a, b, c \in 0 .. nextFrame : Cut(a, b, c)
    BY DEF PlayInv
  <1>e. PICK e \in Nat : e = nextFrame
    BY Opened
  <1>2. /\ a \in Nat /\ b \in Nat /\ c \in Nat /\ a <= b /\ b <= c /\ c <= e /\ a <= e
        /\ heard = Stretch(At(a), At(b))
        /\ pcm.bytes = Stretch(At(b), At(c)) /\ packet.bytes = Stretch(At(c), At(e))
    BY <1>1, <1>e DEF Cut
  <1>3. /\ At(a) \in Nat /\ At(b) \in Nat /\ At(a) <= At(b)
    BY <1>2, AtGrows
  <1>4. /\ At(c) \in Nat /\ At(b) <= At(c)
    BY <1>2, AtGrows
  <1>5. /\ At(e) \in Nat /\ At(c) <= At(e)
    BY <1>2, AtGrows
  <1>6. /\ At(e) - At(a) = (e - a) * BytesPerFrame /\ At(a) <= At(e)
    BY <1>2, AtGrows
  <1> DEFINE w == At(a)
             x == At(b)
             y == At(c)
             z == At(e)
  <1>7. w \in Nat /\ x \in Nat /\ y \in Nat /\ z \in Nat /\ w <= x /\ x <= y /\ y <= z /\ w <= y /\ w <= z
    BY <1>3, <1>4, <1>5
  <1>8. Bytes = (Stretch(w, x) \o Stretch(x, y)) \o Stretch(y, z)
    BY <1>2 DEF Bytes
  <1> HIDE DEF w, x, y, z
  <1>9. Stretch(w, x) \o Stretch(x, y) = Stretch(w, y)
    BY <1>7, StretchJoin
  <1>10. Stretch(w, y) \o Stretch(y, z) = Stretch(w, z)
    BY <1>7, StretchJoin
  <1>11. Bytes = Stretch(w, z)
    BY <1>8, <1>9, <1>10
  <1>12. /\ Bytes \in Seq(Nat) /\ Len(Bytes) = z - w
         /\ \A i \in 1 .. z - w : Bytes[i] = w + i - 1
    BY <1>7, <1>11, StretchIs
  <1>13. DOMAIN Bytes = 1 .. z - w
    BY <1>12
  <1>14. RegionStart + layout.data[1] + nextFrame * BytesPerFrame = z
    BY <1>e DEF At, z
  <1>15. \A i \in DOMAIN Bytes : Bytes[i] = z - Len(Bytes) + i - 1
    BY <1>7, <1>12, <1>13
  <1>16. Len(Bytes) % BytesPerFrame = 0
    <2> DEFINE n == e - a
    <2>1. n \in Nat
      BY <1>2
    <2>2. Len(Bytes) = n * BytesPerFrame
      BY <1>6, <1>12 DEF w, z
    <2> HIDE DEF n
    <2>3. (n * BytesPerFrame) % BytesPerFrame = 0
      BY <2>1, AtIs
    <2> QED
      BY <2>2, <2>3
  <1>17. z <= RegionStart + layout.data[2]
    <2>1. /\ BytesPerFrame \in {2, 4} /\ DataLength \in Nat /\ FrameCount \in Nat
          /\ BytesPerFrame * FrameCount = DataLength
          /\ layout.data[1] \in Nat /\ layout.data[2] = layout.data[1] + DataLength
          /\ RegionStart \in Nat /\ e <= FrameCount
      BY <1>e, Opened
    <2>2. e * BytesPerFrame <= DataLength /\ e * BytesPerFrame \in Nat
      <3>1. CASE BytesPerFrame = 2
        BY <2>1, <3>1
      <3>2. CASE BytesPerFrame = 4
        BY <2>1, <3>2
      <3> QED
        BY <2>1, <3>1, <3>2
    <2>3. z = RegionStart + layout.data[1] + e * BytesPerFrame
      BY DEF At, z
    <2> QED
      BY <2>1, <2>2, <2>3
  <1>18. (sourceEnded => AtEnd) /\ (reported => DecoderDrained /\ real.buffered = 0)
    BY DEF PlayInv
  <1> QED
    BY <1>14, <1>15, <1>16, <1>17, <1>18 DEF HeardIsTheData

LEMMA CutIsExact ==
    ASSUME SourceInv, PlayTypes, PlayInv
    PROVE  SeekIsExact
  <1> SUFFICES ASSUME Built PROVE SeekIsExact
    BY DEF SeekIsExact
  <1>1. PICK a, b, c \in 0 .. nextFrame : Cut(a, b, c)
    BY DEF PlayInv
  <1>2. /\ a \in Nat /\ b \in Nat /\ c \in Nat /\ a <= b /\ b <= c /\ c <= nextFrame
        /\ nextFrame \in Nat /\ FrameCount \in Nat /\ nextFrame <= FrameCount
    BY <1>1, Opened DEF Cut
  <1>3. blocks \in Seq(Blocks) /\ DOMAIN blocks = 1 .. Len(blocks)
    BY DEF PlayInv
  <1>4. ASSUME NEW f \in Nat PROVE FrameOf(At(f)) = f
    BY AtIs, 0 \in Nat
  <1>5. ASSUME blocks # <<>>
        PROVE  LET first == FrameOf(blocks[1].byte)
               IN  /\ ~BeginsBefore(first, boundary)
                   /\ first > 0 => BeginsBefore(first - 1, boundary + 1)
    <2>1. a < b
      BY <1>1, <1>2, <1>5 DEF Cut
    <2>2. /\ blocks[1].byte = At(a) /\ ~BeginsBefore(a, boundary)
          /\ a > 0 => BeginsBefore(a - 1, boundary + 1)
      BY <1>1, <1>2, <2>1 DEF Cut
    <2>3. FrameOf(blocks[1].byte) = a
      BY <1>2, <1>4, <2>2
    <2> QED
      BY <2>2, <2>3
  <1>6. ASSUME NEW i \in DOMAIN blocks
        PROVE  LET frame == FrameOf(blocks[i].byte)
               IN  /\ ~BeginsBefore(frame, blocks[i].pts)
                   /\ BeginsBefore(frame, blocks[i].pts + 2)
                   /\ blocks[i].pts >= boundary
    <2>1. i \in 1 .. Len(blocks)
      BY <1>3
    <2>2. PICK f \in a .. b - 1 : blocks[i].byte = At(f) /\ TimeFits(f, blocks[i].pts)
      BY <1>1, <2>1 DEF Cut
    <2>3. f \in Nat
      BY <1>2
    <2>4. FrameOf(blocks[i].byte) = f
      BY <1>4, <2>2, <2>3
    <2> QED
      BY <2>2, <2>4 DEF TimeFits
  <1>7. ASSUME DecoderDrained, blocks = <<>>, FrameCount > 0
        PROVE  BeginsBefore(FrameCount - 1, boundary + 1)
    <2>1. packet = NoPacket /\ pcm = NoPcm /\ sourceEnded
      BY <1>7 DEF DecoderDrained
    <2>2. nextFrame = FrameCount
      <3>1. AtEnd
        BY <2>1 DEF PlayInv
      <3> QED
        BY <1>2, <3>1 DEF AtEnd
    <2>3. a = b
      BY <1>1, <1>2, <1>7 DEF Cut
    <2>4. At(b) \in Nat /\ At(c) \in Nat /\ At(b) <= At(c) /\ (At(b) = At(c) => b = c)
      BY <1>2, AtGrows
    <2>5. At(nextFrame) \in Nat /\ At(c) <= At(nextFrame) /\ (At(c) = At(nextFrame) => c = nextFrame)
      BY <1>2, AtGrows
    <2>6. Stretch(At(b), At(c)) = <<>> /\ Stretch(At(c), At(nextFrame)) = <<>>
      BY <1>1, <2>1 DEF Cut, NoPcm, NoPacket
    <2>7. At(b) = At(c) /\ At(c) = At(nextFrame)
      BY <2>4, <2>5, <2>6, StretchIs
    <2>8. a = FrameCount
      BY <2>2, <2>3, <2>4, <2>5, <2>7
    <2> QED
      BY <1>1, <1>2, <1>7, <2>8 DEF Cut
  <1> QED
    BY <1>5, <1>6, <1>7 DEF SeekIsExact

PlaybackInv == SourceInv /\ SoughtInv /\ PlayTypes /\ OutputInv /\ PlayInv

LEMMA PlaybackInvAlways ==
    ASSUME Coordinated
    PROVE  Spec => []PlaybackInv
  <1>1. Init => PlaybackInv
    BY SourceBegins, SoughtBegins, PlayTypesBegin, OutputBegins, PlayBegins DEF Init, PlaybackInv
  <1>2. PlaybackInv /\ [Next]_vars => PlaybackInv'
    BY SourceNext, SoughtNext, PlayTypesNext, OutputNext, PlayNext DEF PlaybackInv
  <1> QED
    BY <1>1, <1>2, PTL DEF Spec

(***************************************************************************)
(* From seek to seek the output takes the bytes of the data chunk one      *)
(* after another and leaves none out, what it took, what waits in the      *)
(* decoder and what waits in the queue being three stretches of one file;  *)
(* and completion is reported when all of it has been played.  It takes    *)
(* others that keep away between the two system calls of a read; without   *)
(* that the statement is false (OthersMove may come before ReadSome).      *)
(***************************************************************************)
THEOREM HeardIsTheDataAlways ==
    ASSUME Coordinated
    PROVE  Spec => []HeardIsTheData
<1>1. PlaybackInv => HeardIsTheData
  BY CutIsHeard DEF PlaybackInv
<1> QED
  BY <1>1, PlaybackInvAlways, PTL

(***************************************************************************)
(* A seek, and the start of the track, is exact: the first frame heard is  *)
(* the first that does not begin before the target (up to a nanosecond),   *)
(* and every block has the time of its first frame, for every rate, packet *)
(* size and target, however the three roundings on the way fall.           *)
(***************************************************************************)
THEOREM SeekIsExactAlways ==
    ASSUME Coordinated
    PROVE  Spec => []SeekIsExact
<1>1. PlaybackInv => SeekIsExact
  BY CutIsExact DEF PlaybackInv
<1> QED
  BY <1>1, PlaybackInvAlways, PTL

=============================================================================
