-------------------------- MODULE CodecQueueProofs --------------------------
(***************************************************************************)
(* What the proofs about both Android decoders share.  First what is true  *)
(* of any sequence: induction, stated with sets because the provers cannot *)
(* instantiate a theorem about an arbitrary predicate, and what FlattenSeq *)
(* of SequencesExt, a recursive function, does with a sequence that grows  *)
(* at its end and shrinks at its beginning.  Then the queue inside a       *)
(* codec: where the end of the stream can be, what the platform may do,    *)
(* and what it may be given.                                               *)
(*                                                                         *)
(* The outputs of the two codecs are different records; the lemmas are for *)
(* any set of outputs with a number and a flag for the end (IsOutputs).    *)
(***************************************************************************)
EXTENDS CodecQueue, SequenceTheorems, WellFoundedInduction, TLAPS

-----------------------------------------------------------------------------
(* Induction *)

(* Every set of natural numbers has a least one. *)
LEMMA LeastNat ==
    ASSUME NEW T \in SUBSET Nat, T # {}
    PROVE  \E m \in T : \A n \in T : m <= n
  <1> DEFINE R == {p \in Nat \X Nat : p[1] < p[2]}
  <1>1. IsWellFoundedOn(R, Nat)
    BY NatLessThanWellFounded DEF OpToRel
  <1>2. \A m, n \in T : <<n, m>> \notin R => m <= n
    OBVIOUS
  <1> HIDE DEF R
  <1>3. PICK m \in T : \A n \in T : <<n, m>> \notin R
    BY <1>1, WFMin
  <1> QED
    BY <1>2, <1>3

(* A set with 1 and the successors of its members up to k has 1 .. k. *)
LEMMA Induction ==
    ASSUME NEW k \in Nat, NEW T,
           1 \in T, \A n \in 1 .. k - 1 : n \in T => n + 1 \in T
    PROVE  \A n \in 1 .. k : n \in T
  <1> DEFINE Rest == {n \in Nat : n \in 1 .. k /\ n \notin T}
  <1> SUFFICES ASSUME Rest # {} PROVE FALSE
    OBVIOUS
  <1>1. PICK m \in Rest : \A n \in Rest : m <= n
    <2>1. Rest \in SUBSET Nat
      OBVIOUS
    <2> HIDE DEF Rest
    <2> QED
      BY <2>1, LeastNat
  <1>2. m \in 1 .. k /\ m \notin T /\ m # 1
    BY <1>1
  <1>3. m - 1 \in 1 .. k - 1 /\ (m - 1) + 1 = m
    BY <1>2
  <1>4. m - 1 \in T
    BY <1>1, <1>2, <1>3
  <1> QED
    BY <1>2, <1>3, <1>4

-----------------------------------------------------------------------------
(* FlattenSeq *)

(* h[i] is what the first i elements of ss make when they are put together. *)
Joins(h, ss) ==
    h = [i \in 1 .. Len(ss) |-> IF i = 1 THEN ss[1] ELSE h[i - 1] \o ss[i]]

(* There is such a function. *)
LEMMA JoinExists ==
    ASSUME NEW S, NEW ss \in Seq(Seq(S)), ss # <<>>
    PROVE  \E h : Joins(h, ss)
  <1> DEFINE Start(g) == g[1] = ss[1]
             Go(g, n) == \A i \in 1 .. n - 1 : g[i + 1] = g[i] \o ss[i + 1]
             T == {n \in 1 .. Len(ss) : \E g : g = [i \in 1 .. n |-> g[i]] /\ Start(g) /\ Go(g, n)}
  <1>0. Len(ss) \in Nat \ {0}
    OBVIOUS
  <1>1. 1 \in T
    <2> DEFINE g == [i \in 1 .. 1 |-> ss[1]]
    <2>1. Start(g) /\ Go(g, 1)
      OBVIOUS
    <2>2. g = [i \in 1 .. 1 |-> g[i]]
      OBVIOUS
    <2> HIDE DEF g, Start, Go
    <2> QED
      BY <1>0, <2>1, <2>2
  <1>2. ASSUME NEW n \in 1 .. Len(ss) - 1, n \in T PROVE n + 1 \in T
    <2>0. n \in Nat \ {0} /\ n + 1 \in 1 .. Len(ss)
      BY <1>0
    <2>1. PICK g : g = [i \in 1 .. n |-> g[i]] /\ Start(g) /\ Go(g, n)
      BY <1>2
    <2> DEFINE f == [i \in 1 .. n + 1 |-> IF i = n + 1 THEN g[n] \o ss[n + 1] ELSE g[i]]
    <2>2. f = [i \in 1 .. n + 1 |-> f[i]]
      OBVIOUS
    <2>3. \A i \in 1 .. n : f[i] = g[i]
      BY <2>0
    <2>4. f[n + 1] = g[n] \o ss[n + 1]
      <3>1. n + 1 \in 1 .. n + 1
        BY <2>0
      <3> QED
        BY <3>1
    <2> HIDE DEF f
    <2>5. Start(f)
      BY <2>0, <2>1, <2>3
    <2>6. ASSUME NEW i \in 1 .. n PROVE f[i + 1] = f[i] \o ss[i + 1]
      <3>1. CASE i = n
        BY <2>0, <2>3, <2>4, <3>1
      <3>2. CASE i # n
        <4>1. i \in 1 .. n - 1 /\ i \in 1 .. n /\ i + 1 \in 1 .. n
          BY <2>0, <3>2
        <4> QED
          BY <2>1, <2>3, <4>1
      <3> QED
        BY <3>1, <3>2
    <2>7. Go(f, n + 1)
      <3>1. (n + 1) - 1 = n
        BY <2>0
      <3> QED
        BY <2>6, <3>1
    <2> HIDE DEF Start, Go
    <2> QED
      BY <2>0, <2>2, <2>5, <2>7
  <1>3. Len(ss) \in T
    <2> HIDE DEF T
    <2>1. \A n \in 1 .. Len(ss) : n \in T
      BY <1>0, <1>1, <1>2, Induction
    <2> QED
      BY <1>0, <2>1
  <1>4. PICK g : g = [i \in 1 .. Len(ss) |-> g[i]] /\ Start(g) /\ Go(g, Len(ss))
    BY <1>3
  <1>5. ASSUME NEW i \in 1 .. Len(ss)
        PROVE  g[i] = IF i = 1 THEN ss[1] ELSE g[i - 1] \o ss[i]
    <2>1. CASE i = 1
      BY <1>4, <2>1
    <2>2. CASE i # 1
      <3>1. i - 1 \in 1 .. Len(ss) - 1 /\ (i - 1) + 1 = i
        BY <1>0, <2>2
      <3> QED
        BY <1>4, <2>2, <3>1
    <2> QED
      BY <2>1, <2>2
  <1>6. g = [i \in 1 .. Len(ss) |-> IF i = 1 THEN ss[1] ELSE g[i - 1] \o ss[i]]
    <2> DEFINE r(i) == IF i = 1 THEN ss[1] ELSE g[i - 1] \o ss[i]
    <2>1. \A i \in 1 .. Len(ss) : g[i] = r(i)
      BY <1>5
    <2>2. g = [i \in 1 .. Len(ss) |-> g[i]]
      BY <1>4
    <2> HIDE DEF r
    <2>3. g = [i \in 1 .. Len(ss) |-> r(i)]
      BY <2>1, <2>2
    <2> QED
      BY <2>3 DEF r
  <1> QED
    BY <1>6 DEF Joins

(* Its values follow from one another. *)
LEMMA JoinSteps ==
    ASSUME NEW ss, Len(ss) \in Nat \ {0}, NEW h, Joins(h, ss)
    PROVE  /\ h[1] = ss[1]
           /\ \A i \in 1 .. Len(ss) - 1 : h[i + 1] = h[i] \o ss[i + 1]
  <1> DEFINE r(i) == IF i = 1 THEN ss[1] ELSE h[i - 1] \o ss[i]
  <1>1. h = [i \in 1 .. Len(ss) |-> r(i)]
    BY DEF Joins
  <1>2. r(1) = ss[1] /\ 1 \in 1 .. Len(ss)
    OBVIOUS
  <1>3. ASSUME NEW i \in 1 .. Len(ss) - 1
        PROVE  i + 1 \in 1 .. Len(ss) /\ r(i + 1) = h[i] \o ss[i + 1]
    <2>1. i + 1 \in 1 .. Len(ss) /\ i + 1 # 1 /\ (i + 1) - 1 = i
      OBVIOUS
    <2> QED
      BY <2>1
  <1> HIDE DEF r
  <1>4. \A i \in 1 .. Len(ss) : h[i] = r(i)
    BY <1>1
  <1> QED
    BY <1>2, <1>3, <1>4

(* It ends in FlattenSeq, and its values are sequences. *)
LEMMA Flattened ==
    ASSUME NEW S, NEW ss \in Seq(Seq(S)), ss # <<>>
    PROVE  \E h : /\ FlattenSeq(ss) = h[Len(ss)]
                  /\ h[1] = ss[1]
                  /\ \A i \in 1 .. Len(ss) - 1 : h[i + 1] = h[i] \o ss[i + 1]
                  /\ \A i \in 1 .. Len(ss) : h[i] \in Seq(S)
  <1> DEFINE h == CHOOSE g : Joins(g, ss)
  <1>0. Len(ss) \in Nat \ {0} /\ \A i \in 1 .. Len(ss) : ss[i] \in Seq(S)
    OBVIOUS
  <1>1. Joins(h, ss)
    BY JoinExists
  <1>2. FlattenSeq(ss) = h[Len(ss)]
    BY <1>0 DEF FlattenSeq, Joins
  <1> HIDE DEF h
  <1>3. /\ h[1] = ss[1]
        /\ \A i \in 1 .. Len(ss) - 1 : h[i + 1] = h[i] \o ss[i + 1]
    BY <1>0, <1>1, JoinSteps
  <1> DEFINE T == {i \in 1 .. Len(ss) : h[i] \in Seq(S)}
  <1>4. 1 \in T
    BY <1>0, <1>3
  <1>5. ASSUME NEW n \in 1 .. Len(ss) - 1, n \in T PROVE n + 1 \in T
    <2>1. n + 1 \in 1 .. Len(ss) /\ h[n] \in Seq(S) /\ ss[n + 1] \in Seq(S)
      BY <1>0, <1>5
    <2>2. h[n] \o ss[n + 1] \in Seq(S)
      BY <2>1
    <2> QED
      BY <1>3, <2>1, <2>2
  <1>6. \A n \in 1 .. Len(ss) : n \in T
    <2> HIDE DEF T
    <2> QED
      BY <1>0, <1>4, <1>5, Induction
  <1>7. \A n \in 1 .. Len(ss) : h[n] \in Seq(S)
    BY <1>6
  <1> QED
    BY <1>2, <1>3, <1>7

(* h goes on like that up to n; two sequences are alike up to n. *)
Goes(h, ss, n) == h[1] = ss[1] /\ \A i \in 1 .. n - 1 : h[i + 1] = h[i] \o ss[i + 1]
Alike(ss, tt, n) == \A i \in 1 .. n : ss[i] = tt[i]

(* Two sequences that begin alike are alike that far when they are joined. *)
LEMMA SameStart ==
    ASSUME NEW n \in Nat \ {0}, NEW f, NEW g, NEW ss, NEW tt,
           Goes(f, ss, n), Goes(g, tt, n), Alike(ss, tt, n)
    PROVE  f[n] = g[n]
  <1> DEFINE T == {i \in 1 .. n : f[i] = g[i]}
  <1> USE DEF Goes, Alike
  <1>1. 1 \in T
    OBVIOUS
  <1>2. ASSUME NEW i \in 1 .. n - 1, i \in T PROVE i + 1 \in T
    <2>1. i + 1 \in 1 .. n /\ f[i] = g[i]
      BY <1>2
    <2> QED
      BY <2>1
  <1>3. \A i \in 1 .. n : i \in T
    <2> HIDE DEF T
    <2> QED
      BY <1>1, <1>2, Induction
  <1> QED
    BY <1>3

(* Nothing flattens to nothing, and everything to a sequence. *)
LEMMA FlattenType ==
    ASSUME NEW S, NEW ss \in Seq(Seq(S))
    PROVE  FlattenSeq(ss) \in Seq(S) /\ (ss = <<>> => FlattenSeq(ss) = <<>>)
  <1>1. CASE ss = <<>>
    BY <1>1 DEF FlattenSeq
  <1>2. CASE ss # <<>>
    <2>1. Len(ss) \in 1 .. Len(ss)
      BY <1>2
    <2> QED
      BY <1>2, <2>1, Flattened
  <1> QED
    BY <1>1, <1>2

(* The elements of a sequence with one more, and of a sequence less its first. *)
LEMMA AppendFacts ==
    ASSUME NEW V, NEW q \in Seq(V), NEW v \in V
    PROVE  /\ Append(q, v) \in Seq(V) /\ Append(q, v) # <<>>
           /\ Len(Append(q, v)) = Len(q) + 1 /\ Len(q) \in Nat
           /\ Append(q, v)[Len(q) + 1] = v
           /\ \A i \in 1 .. Len(q) : Append(q, v)[i] = q[i]
  OBVIOUS

LEMMA TailFacts ==
    ASSUME NEW V, NEW q \in Seq(V), q # <<>>
    PROVE  /\ Tail(q) \in Seq(V) /\ Len(Tail(q)) = Len(q) - 1 /\ Len(q) \in Nat \ {0}
           /\ Head(q) = q[1] /\ Head(q) \in V
           /\ \A i \in 1 .. Len(q) - 1 : Tail(q)[i] = q[i + 1]
  OBVIOUS

(* One more sequence comes at the end. *)
LEMMA FlattenAppend ==
    ASSUME NEW S, NEW ss \in Seq(Seq(S)), NEW s \in Seq(S)
    PROVE  FlattenSeq(Append(ss, s)) = FlattenSeq(ss) \o s
  <1> DEFINE n == Len(ss)
             tt == Append(ss, s)
  <1>1. /\ tt \in Seq(Seq(S)) /\ tt # <<>> /\ Len(tt) = n + 1 /\ n \in Nat
        /\ tt[n + 1] = s /\ \A i \in 1 .. n : tt[i] = ss[i]
    BY AppendFacts
  <1> HIDE DEF tt
  <1>2. PICK g : /\ FlattenSeq(tt) = g[n + 1]
                 /\ g[1] = tt[1]
                 /\ \A i \in 1 .. n : g[i + 1] = g[i] \o tt[i + 1]
    <2>1. PICK g : /\ FlattenSeq(tt) = g[Len(tt)]
                   /\ g[1] = tt[1]
                   /\ \A i \in 1 .. Len(tt) - 1 : g[i + 1] = g[i] \o tt[i + 1]
      <3>1. tt \in Seq(Seq(S)) /\ tt # <<>>
        BY <1>1
      <3> HIDE DEF n
      <3>2. PICK g : /\ FlattenSeq(tt) = g[Len(tt)]
                     /\ g[1] = tt[1]
                     /\ \A i \in 1 .. Len(tt) - 1 : g[i + 1] = g[i] \o tt[i + 1]
                     /\ \A i \in 1 .. Len(tt) : g[i] \in Seq(S)
        BY <3>1, Flattened
      <3> QED
        BY <3>2
    <2>2. Len(tt) - 1 = n
      BY <1>1
    <2> QED
      BY <1>1, <2>1, <2>2
  <1>3. CASE ss = <<>>
    <2>1. FlattenSeq(tt) = s
      BY <1>1, <1>2, <1>3
    <2>2. FlattenSeq(ss) = <<>>
      BY <1>3, FlattenType
    <2> QED
      BY <2>1, <2>2 DEF tt
  <1>4. CASE ss # <<>>
    <2>1. n \in Nat \ {0} /\ n \in 1 .. n
      BY <1>4
    <2>2. PICK f : /\ FlattenSeq(ss) = f[n]
                   /\ f[1] = ss[1]
                   /\ \A i \in 1 .. n - 1 : f[i + 1] = f[i] \o ss[i + 1]
      BY <1>4, Flattened
    <2>3. g[n] = f[n]
      <3>1. \A i \in 1 .. n - 1 : i \in 1 .. n
        BY <2>1
      <3>2. \A i \in 1 .. n - 1 : g[i + 1] = g[i] \o tt[i + 1]
        BY <1>2, <3>1
      <3>3. g[1] = tt[1] /\ \A i \in 1 .. n : ss[i] = tt[i]
        BY <1>1, <1>2
      <3>4. f[1] = ss[1] /\ \A i \in 1 .. n - 1 : f[i + 1] = f[i] \o ss[i + 1]
        BY <2>2
      <3>5. n \in Nat \ {0}
        BY <2>1
      <3> HIDE DEF n
      <3>6. Goes(f, ss, n) /\ Goes(g, tt, n) /\ Alike(ss, tt, n)
        BY <3>2, <3>3, <3>4 DEF Goes, Alike
      <3>7. f[n] = g[n]
        BY <3>5, <3>6, SameStart
      <3> QED
        BY <3>7
    <2>4. g[n + 1] = g[n] \o tt[n + 1]
      BY <1>2, <2>1
    <2> QED
      BY <1>1, <1>2, <2>2, <2>3, <2>4 DEF tt
  <1> QED
    BY <1>3, <1>4

(* The order in which sequences are put together does not matter. *)
LEMMA JoinAssociative ==
    \A S : \A a, b, c \in Seq(S) : (a \o b) \o c = a \o (b \o c)
  BY ConcatAssociative

(* The first sequence leaves. *)
LEMMA FlattenTail ==
    ASSUME NEW S, NEW ss \in Seq(Seq(S)), ss # <<>>
    PROVE  FlattenSeq(ss) = Head(ss) \o FlattenSeq(Tail(ss))
  <1> DEFINE n == Len(ss)
             tt == Tail(ss)
             s == Head(ss)
  <1>1. /\ tt \in Seq(Seq(S)) /\ Len(tt) = n - 1 /\ n \in Nat \ {0} /\ n \in 1 .. n
        /\ s = ss[1] /\ s \in Seq(S)
        /\ \A i \in 1 .. n - 1 : tt[i] = ss[i + 1]
    BY TailFacts
  <1> HIDE DEF tt, s
  <1>2. PICK f : /\ FlattenSeq(ss) = f[n]
                 /\ f[1] = ss[1]
                 /\ \A i \in 1 .. n - 1 : f[i + 1] = f[i] \o ss[i + 1]
    <2>1. PICK f : /\ FlattenSeq(ss) = f[Len(ss)]
                   /\ f[1] = ss[1]
                   /\ \A i \in 1 .. Len(ss) - 1 : f[i + 1] = f[i] \o ss[i + 1]
                   /\ \A i \in 1 .. Len(ss) : f[i] \in Seq(S)
      BY Flattened
    <2> QED
      BY <2>1
  <1>3. CASE n = 1
    <2>1. tt = <<>>
      BY <1>1, <1>3
    <2>2. FlattenSeq(tt) = <<>>
      BY <1>1, <2>1, FlattenType
    <2>3. FlattenSeq(ss) = s
      BY <1>1, <1>2, <1>3
    <2> QED
      BY <1>1, <2>2, <2>3 DEF tt, s
  <1>4. CASE n # 1
    <2>1. tt # <<>> /\ tt \in Seq(Seq(S)) /\ Len(tt) = n - 1 /\ n \in Nat /\ n - 1 \in Nat \ {0}
      BY <1>1, <1>4
    <2>2. PICK g : /\ FlattenSeq(tt) = g[n - 1]
                   /\ g[1] = tt[1]
                   /\ \A i \in 1 .. (n - 1) - 1 : g[i + 1] = g[i] \o tt[i + 1]
                   /\ \A i \in 1 .. n - 1 : g[i] \in Seq(S)
      <3>1. PICK g : /\ FlattenSeq(tt) = g[Len(tt)]
                     /\ g[1] = tt[1]
                     /\ \A i \in 1 .. Len(tt) - 1 : g[i + 1] = g[i] \o tt[i + 1]
                     /\ \A i \in 1 .. Len(tt) : g[i] \in Seq(S)
        BY <2>1, Flattened
      <3> HIDE DEF n
      <3> QED
        BY <2>1, <3>1
    <2> DEFINE T == {i \in 1 .. n - 1 : f[i + 1] = s \o g[i]}
    <2> HIDE DEF n
    <2>3. 1 \in T
      <3>1. 1 \in 1 .. n - 1 /\ 1 + 1 = 2
        BY <2>1
      <3>2. f[1 + 1] = f[1] \o ss[1 + 1] /\ tt[1] = ss[1 + 1]
        BY <1>1, <1>2, <3>1
      <3> QED
        BY <1>1, <1>2, <2>2, <3>1, <3>2
    <2>4. ASSUME NEW i \in 1 .. (n - 1) - 1, i \in T PROVE i + 1 \in T
      <3>1. /\ i \in 1 .. n - 1 /\ i + 1 \in 1 .. n - 1
        BY <2>1
      <3>2. f[(i + 1) + 1] = f[i + 1] \o ss[(i + 1) + 1] /\ tt[i + 1] = ss[(i + 1) + 1]
        BY <1>1, <1>2, <3>1
      <3>3. f[i + 1] = s \o g[i] /\ g[i + 1] = g[i] \o tt[i + 1]
        BY <2>2, <2>4
      <3>4. s \in Seq(S) /\ g[i] \in Seq(S) /\ tt[i + 1] \in Seq(S)
        <4>1. i + 1 \in 1 .. Len(tt) /\ tt \in Seq(Seq(S))
          BY <2>1, <3>1
        <4>2. tt[i + 1] \in Seq(S)
          BY <4>1
        <4> QED
          BY <1>1, <2>2, <3>1, <4>2
      <3>5. (s \o g[i]) \o tt[i + 1] = s \o (g[i] \o tt[i + 1])
        <4> DEFINE a == g[i]
                   b == tt[i + 1]
        <4>1. s \in Seq(S) /\ a \in Seq(S) /\ b \in Seq(S)
          BY <3>4
        <4> HIDE DEF a, b
        <4>2. (s \o a) \o b = s \o (a \o b)
          <5>1. \A u, v, w \in Seq(S) : (u \o v) \o w = u \o (v \o w)
            BY JoinAssociative
          <5> QED
            BY <4>1, <5>1
        <4> QED
          BY <4>2 DEF a, b
      <3> QED
        BY <3>1, <3>2, <3>3, <3>5
    <2>5. n - 1 \in T
      <3> HIDE DEF T
      <3>1. n - 1 \in Nat /\ n - 1 \in 1 .. n - 1
        BY <2>1
      <3>2. \A i \in 1 .. n - 1 : i \in T
        BY <2>3, <2>4, <3>1, Induction
      <3> QED
        BY <3>1, <3>2
    <2>6. f[(n - 1) + 1] = s \o g[n - 1] /\ (n - 1) + 1 = n
      BY <2>1, <2>5
    <2> QED
      BY <1>2, <2>2, <2>6 DEF tt, s
  <1> QED
    BY <1>3, <1>4

(* The last sequence grows at its end. *)
LEMMA FlattenLast ==
    ASSUME NEW S, NEW ss \in Seq(Seq(S)), NEW tt \in Seq(Seq(S)), NEW x \in Seq(S),
           ss # <<>>, Len(tt) = Len(ss), Alike(ss, tt, Len(ss) - 1),
           tt[Len(ss)] = ss[Len(ss)] \o x
    PROVE  FlattenSeq(tt) = FlattenSeq(ss) \o x
  <1> DEFINE n == Len(ss)
  <1>1. n \in Nat \ {0} /\ n \in 1 .. n /\ tt # <<>> /\ ss[n] \in Seq(S)
    OBVIOUS
  <1>2. PICK f : /\ FlattenSeq(ss) = f[n]
                 /\ f[1] = ss[1]
                 /\ \A i \in 1 .. n - 1 : f[i + 1] = f[i] \o ss[i + 1]
                 /\ \A i \in 1 .. n : f[i] \in Seq(S)
    BY Flattened
  <1>3. PICK g : /\ FlattenSeq(tt) = g[n]
                 /\ g[1] = tt[1]
                 /\ \A i \in 1 .. n - 1 : g[i + 1] = g[i] \o tt[i + 1]
    <2>1. PICK g : /\ FlattenSeq(tt) = g[Len(tt)]
                   /\ g[1] = tt[1]
                   /\ \A i \in 1 .. Len(tt) - 1 : g[i + 1] = g[i] \o tt[i + 1]
                   /\ \A i \in 1 .. Len(tt) : g[i] \in Seq(S)
      <3>1. tt \in Seq(Seq(S)) /\ tt # <<>>
        BY <1>1
      <3> QED
        BY <3>1, Flattened
    <2> QED
      BY <2>1
  <1>4. tt[n] = ss[n] \o x /\ Alike(ss, tt, n - 1)
    OBVIOUS
  <1> HIDE DEF n
  <1>5. CASE n = 1
    BY <1>1, <1>2, <1>3, <1>4, <1>5
  <1>6. CASE n # 1
    <2>1. n - 1 \in Nat \ {0} /\ n - 1 \in 1 .. n - 1 /\ n - 1 \in 1 .. n /\ (n - 1) + 1 = n
      BY <1>1, <1>6
    <2>2. \A i \in 1 .. (n - 1) - 1 : i \in 1 .. n - 1
      BY <2>1
    <2>3. Goes(f, ss, n - 1) /\ Goes(g, tt, n - 1)
      BY <1>2, <1>3, <2>2 DEF Goes
    <2>4. f[n - 1] = g[n - 1]
      BY <1>4, <2>1, <2>3, SameStart
    <2>5. f[n] = f[n - 1] \o ss[n] /\ g[n] = g[n - 1] \o tt[n]
      BY <1>2, <1>3, <2>1
    <2>6. f[n - 1] \in Seq(S)
      BY <1>2, <2>1
    <2>7. (f[n - 1] \o ss[n]) \o x = f[n - 1] \o (ss[n] \o x)
      <3>1. \A u, v, w \in Seq(S) : (u \o v) \o w = u \o (v \o w)
        BY ONLY JoinAssociative
      <3> QED
        BY <1>1, <2>6, <3>1
    <2> QED
      BY <1>2, <1>3, <1>4, <2>4, <2>5, <2>7
  <1> QED
    BY <1>5, <1>6

-----------------------------------------------------------------------------
(* FlattenSeq of what a function makes of the elements of a queue *)

Mapped(F, q) == [i \in DOMAIN q |-> F[q[i]]]
FlattenMap(F, q) == FlattenSeq(Mapped(F, q))

(* F makes a sequence over V of every element of S. *)
Makes(F, S, V) == F \in [S -> Seq(V)]

LEMMA MapType ==
    ASSUME NEW S, NEW V, NEW F, Makes(F, S, V), NEW q \in Seq(S)
    PROVE  /\ Mapped(F, q) \in Seq(Seq(V))
           /\ Len(Mapped(F, q)) = Len(q)
           /\ \A i \in 1 .. Len(q) : Mapped(F, q)[i] = F[q[i]]
  <1>1. DOMAIN q = 1 .. Len(q) /\ Len(q) \in Nat /\ \A i \in 1 .. Len(q) : F[q[i]] \in Seq(V)
    BY DEF Makes
  <1> QED
    BY <1>1 DEF Mapped

LEMMA FlattenMapType ==
    ASSUME NEW S, NEW V, NEW F, Makes(F, S, V), NEW q \in Seq(S)
    PROVE  /\ FlattenMap(F, q) \in Seq(V)
           /\ q = <<>> => FlattenMap(F, q) = <<>>
  <1> DEFINE ss == Mapped(F, q)
  <1>1. ss \in Seq(Seq(V)) /\ Len(ss) = Len(q)
    BY MapType
  <1>2. FlattenMap(F, q) = FlattenSeq(ss)
    BY DEF FlattenMap
  <1> HIDE DEF ss
  <1>3. q = <<>> => ss = <<>>
    BY <1>1
  <1> QED
    BY <1>1, <1>2, <1>3, FlattenType

(* The queue grows at its end. *)
LEMMA FlattenMapAppend ==
    ASSUME NEW S, NEW V, NEW F, Makes(F, S, V), NEW q \in Seq(S), NEW s \in S
    PROVE  FlattenMap(F, Append(q, s)) = FlattenMap(F, q) \o F[s]
  <1> DEFINE r == Append(q, s)
             ss == Mapped(F, q)
             tt == Mapped(F, r)
  <1>0. r \in Seq(S) /\ Len(r) = Len(q) + 1 /\ Len(q) \in Nat
        /\ r[Len(q) + 1] = s /\ \A i \in 1 .. Len(q) : r[i] = q[i]
    BY AppendFacts
  <1>1. /\ ss \in Seq(Seq(V))
        /\ Len(ss) = Len(q)
        /\ \A i \in 1 .. Len(q) : ss[i] = F[q[i]]
    BY ONLY Makes(F, S, V), q \in Seq(S), MapType
  <1> HIDE DEF r
  <1>2. tt \in Seq(Seq(V)) /\ Len(tt) = Len(r) /\ \A i \in 1 .. Len(r) : tt[i] = F[r[i]]
    BY <1>0, MapType
  <1>3. F[s] \in Seq(V)
    BY DEF Makes
  <1>4. FlattenMap(F, q) = FlattenSeq(ss) /\ FlattenMap(F, r) = FlattenSeq(tt)
    BY DEF FlattenMap
  <1> HIDE DEF ss, tt
  <1>5. tt = Append(ss, F[s])
    <2> DEFINE uu == Append(ss, F[s])
    <2>1. uu \in Seq(Seq(V)) /\ Len(uu) = Len(ss) + 1
          /\ uu[Len(ss) + 1] = F[s] /\ \A i \in 1 .. Len(ss) : uu[i] = ss[i]
      BY <1>1, <1>3, AppendFacts
    <2> HIDE DEF uu
    <2>2. ASSUME NEW i \in 1 .. Len(uu) PROVE tt[i] = uu[i]
      <3>1. i \in 1 .. Len(r) /\ (i \in 1 .. Len(q) \/ i = Len(q) + 1)
        BY <1>0, <1>1, <2>1
      <3>2. CASE i \in 1 .. Len(q)
        <4>1. tt[i] = F[q[i]]
          BY <1>0, <1>2, <3>1, <3>2
        <4>2. uu[i] = F[q[i]]
          BY <1>1, <2>1, <3>2
        <4> QED
          BY <4>1, <4>2
      <3>3. CASE i = Len(q) + 1
        BY <1>0, <1>1, <1>2, <2>1, <3>1, <3>3
      <3> QED
        BY <3>1, <3>2, <3>3
    <2>3. Len(tt) = Len(uu) /\ \A i \in 1 .. Len(tt) : tt[i] = uu[i]
      BY <1>0, <1>1, <1>2, <2>1, <2>2
    <2>4. tt = uu
      BY <1>2, <2>1, <2>3, SeqEqual
    <2> QED
      BY <2>4 DEF uu
  <1>6. FlattenSeq(Append(ss, F[s])) = FlattenSeq(ss) \o F[s]
    BY <1>1, <1>3, FlattenAppend
  <1> QED
    BY <1>4, <1>5, <1>6 DEF r

(* The first of the queue leaves. *)
LEMMA FlattenMapTail ==
    ASSUME NEW S, NEW V, NEW F, Makes(F, S, V), NEW q \in Seq(S), q # <<>>
    PROVE  FlattenMap(F, q) = F[Head(q)] \o FlattenMap(F, Tail(q))
  <1> DEFINE r == Tail(q)
             ss == Mapped(F, q)
             tt == Mapped(F, r)
  <1>0. r \in Seq(S) /\ Len(r) = Len(q) - 1 /\ Len(q) \in Nat \ {0}
        /\ Head(q) = q[1] /\ \A i \in 1 .. Len(q) - 1 : r[i] = q[i + 1]
    BY TailFacts
  <1>1. ss \in Seq(Seq(V)) /\ Len(ss) = Len(q) /\ \A i \in 1 .. Len(q) : ss[i] = F[q[i]]
    BY MapType
  <1> HIDE DEF r
  <1>2. tt \in Seq(Seq(V)) /\ Len(tt) = Len(r) /\ \A i \in 1 .. Len(r) : tt[i] = F[r[i]]
    BY <1>0, MapType
  <1>4. FlattenMap(F, q) = FlattenSeq(ss) /\ FlattenMap(F, r) = FlattenSeq(tt)
    BY DEF FlattenMap
  <1> HIDE DEF ss, tt
  <1>5. ss # <<>> /\ Head(ss) = F[Head(q)]
    <2>1. ss # <<>>
      BY <1>0, <1>1
    <2>2. Head(ss) = ss[1] /\ 1 \in 1 .. Len(q)
      BY <1>0, <1>1, <2>1, TailFacts
    <2> QED
      BY <1>0, <1>1, <2>1, <2>2
  <1>6. Tail(ss) = tt
    <2> DEFINE uu == Tail(ss)
    <2>1. uu \in Seq(Seq(V)) /\ Len(uu) = Len(ss) - 1
          /\ \A i \in 1 .. Len(ss) - 1 : uu[i] = ss[i + 1]
      BY <1>1, <1>5, TailFacts
    <2> HIDE DEF uu
    <2>2. ASSUME NEW i \in 1 .. Len(uu) PROVE tt[i] = uu[i]
      <3>1. i \in 1 .. Len(r) /\ i + 1 \in 1 .. Len(q) /\ i \in 1 .. Len(q) - 1
        BY <1>0, <1>1, <2>1
      <3>2. uu[i] = F[q[i + 1]]
        BY <1>0, <1>1, <2>1, <3>1
      <3>3. tt[i] = F[q[i + 1]]
        BY <1>0, <1>2, <3>1
      <3> QED
        BY <3>2, <3>3
    <2>3. Len(tt) = Len(uu) /\ \A i \in 1 .. Len(tt) : tt[i] = uu[i]
      BY <1>0, <1>1, <1>2, <2>1, <2>2
    <2>4. tt = uu
      BY <1>2, <2>1, <2>3, SeqEqual
    <2> QED
      BY <2>4 DEF uu
  <1>7. FlattenSeq(ss) = Head(ss) \o FlattenSeq(Tail(ss))
    BY <1>1, <1>5, FlattenTail
  <1> QED
    BY <1>4, <1>5, <1>6, <1>7 DEF r

(* The last of the queue changes and makes more. *)
LastGrows(F, q, r, x) ==
    /\ q # <<>> /\ Len(r) = Len(q) /\ Alike(q, r, Len(q) - 1)
    /\ F[r[Len(q)]] = F[q[Len(q)]] \o x

LEMMA FlattenMapLast ==
    ASSUME NEW S, NEW V, NEW F, Makes(F, S, V), NEW q \in Seq(S), NEW r \in Seq(S),
           NEW x \in Seq(V), LastGrows(F, q, r, x)
    PROVE  FlattenMap(F, r) = FlattenMap(F, q) \o x
  <1>0. /\ q # <<>> /\ Len(r) = Len(q) /\ Alike(q, r, Len(q) - 1)
        /\ F[r[Len(q)]] = F[q[Len(q)]] \o x
    BY DEF LastGrows
  <1> DEFINE ss == Mapped(F, q)
             tt == Mapped(F, r)
  <1>1. ss \in Seq(Seq(V)) /\ Len(ss) = Len(q) /\ \A i \in 1 .. Len(q) : ss[i] = F[q[i]]
    BY MapType
  <1>2. tt \in Seq(Seq(V)) /\ Len(tt) = Len(r) /\ \A i \in 1 .. Len(r) : tt[i] = F[r[i]]
    BY MapType
  <1>3. FlattenMap(F, q) = FlattenSeq(ss) /\ FlattenMap(F, r) = FlattenSeq(tt)
    BY DEF FlattenMap
  <1> HIDE DEF ss, tt
  <1>4. Len(q) \in Nat \ {0} /\ Len(q) \in 1 .. Len(q) /\ ss # <<>>
    BY <1>0, <1>1
  <1>5. Alike(ss, tt, Len(ss) - 1)
    <2>1. \A i \in 1 .. Len(q) - 1 : i \in 1 .. Len(q)
      BY <1>4
    <2>2. \A i \in 1 .. Len(q) - 1 : ss[i] = F[q[i]] /\ tt[i] = F[r[i]] /\ r[i] = q[i]
      BY <1>0, <1>1, <1>2, <2>1 DEF Alike
    <2> QED
      BY <1>1, <2>2 DEF Alike
  <1>6. tt[Len(ss)] = ss[Len(ss)] \o x /\ Len(tt) = Len(ss)
    <2>1. ss[Len(q)] = F[q[Len(q)]] /\ tt[Len(q)] = F[r[Len(q)]]
      BY <1>0, <1>1, <1>2, <1>4
    <2> QED
      BY <1>0, <1>1, <1>2, <2>1
  <1>7. FlattenSeq(tt) = FlattenSeq(ss) \o x
    <2>1. ss \in Seq(Seq(V)) /\ tt \in Seq(Seq(V)) /\ x \in Seq(V) /\ ss # <<>>
      BY <1>1, <1>2, <1>4
    <2> QED
      BY ONLY <1>5, <1>6, <2>1, FlattenLast
  <1> QED
    BY <1>3, <1>7

-----------------------------------------------------------------------------
(* A queue that lies in three places, one after another *)

Join(a, b) == a \o b
Three(b, c, d) == Join(Join(b, c), d)

LEMMA Concats ==
    ASSUME NEW V, NEW s \in Seq(V), NEW x \in V
    PROVE  /\ <<>> \o s = s /\ s \o <<>> = s
           /\ <<x>> \o s # <<>> /\ Tail(<<x>> \o s) = s
           /\ s \o <<x>> = Append(s, x)
           /\ <<x>> \in Seq(V) /\ <<>> \in Seq(V)
  <1>1. <<x>> \in Seq(V) /\ <<>> \in Seq(V)
    OBVIOUS
  <1>2. <<x>> \o s # <<>> /\ Tail(<<x>> \o s) = s
    OBVIOUS
  <1>3. s \o <<x>> = Append(s, x)
    OBVIOUS
  <1>4. <<>> \o s = s /\ s \o <<>> = s
    OBVIOUS
  <1> QED
    BY <1>1, <1>2, <1>3, <1>4

LEMMA JoinFacts ==
    ASSUME NEW V
    PROVE  /\ \A a, b \in Seq(V) : Join(a, b) \in Seq(V)
           /\ \A a \in Seq(V) : Join(<<>>, a) = a /\ Join(a, <<>>) = a
           /\ \A a, b, c \in Seq(V) : Join(Join(a, b), c) = Join(a, Join(b, c))
           /\ <<>> \in Seq(V)
  <1>1. \A a, b, c \in Seq(V) : Join(Join(a, b), c) = Join(a, Join(b, c))
    BY ConcatAssociative DEF Join
  <1> QED
    BY <1>1 DEF Join

(* What leaves at the front, moves from one place to the next, and comes. *)
LEMMA ThreeJoined ==
    ASSUME NEW V, NEW b \in Seq(V), NEW c \in Seq(V), NEW d \in Seq(V), NEW s \in Seq(V)
    PROVE  /\ Three(b, c, d) \in Seq(V)
           /\ Three(<<>>, Join(s, c), d) = Join(s, Three(<<>>, c, d))
           /\ Three(s, c, d) = Join(s, Three(<<>>, c, d))
           /\ Three(b, Join(c, s), d) = Three(b, c, Join(s, d))
           /\ Three(b, c, Join(d, s)) = Join(Three(b, c, d), s)
           /\ Three(Join(s, b), c, d) = Join(s, Three(b, c, d))
  <1> DEFINE W == Seq(V)
  <1>1. /\ \A u, v \in W : Join(u, v) \in W
        /\ \A u \in W : Join(<<>>, u) = u
        /\ \A u, v, w \in W : Join(Join(u, v), w) = Join(u, Join(v, w))
        /\ <<>> \in W
    BY JoinFacts
  <1>2. b \in W /\ c \in W /\ d \in W /\ s \in W
    OBVIOUS
  <1> HIDE DEF W
  <1>3. Three(b, c, d) \in W
    BY <1>1, <1>2 DEF Three
  <1>4. Three(<<>>, Join(s, c), d) = Join(s, Three(<<>>, c, d))
    BY <1>1, <1>2 DEF Three
  <1>5. Three(s, c, d) = Join(s, Three(<<>>, c, d))
    BY <1>1, <1>2 DEF Three
  <1>6. Three(b, Join(c, s), d) = Three(b, c, Join(s, d))
    BY <1>1, <1>2 DEF Three
  <1>7. Three(b, c, Join(d, s)) = Join(Three(b, c, d), s)
    BY <1>1, <1>2 DEF Three
  <1>8. Three(Join(s, b), c, d) = Join(s, Three(b, c, d))
    BY <1>1, <1>2 DEF Three
  <1> QED
    BY <1>3, <1>4, <1>5, <1>6, <1>7, <1>8 DEF W

(* What leaves the third place enters the second. *)
LEMMA ThreeMoves ==
    ASSUME NEW V, NEW b \in Seq(V), NEW c \in Seq(V), NEW d \in Seq(V), NEW s \in Seq(V)
    PROVE  Three(b, Join(c, s), d) = Three(b, c, Join(s, d))
  <1> QED
    BY ThreeJoined

-----------------------------------------------------------------------------
(* Packets, inputs and outputs *)

USE PacketCountAssumption

Numbers == Packets \cup {Eos}

LEMMA NumbersDiffer ==
    /\ None \notin Packets \cup {Eos, Config} /\ Eos \notin Packets /\ Config \notin Packets
    /\ Eos # Config /\ Eos = PacketCount /\ Eos + 1 = Config
    /\ Packets \cup {Eos, Config} \subseteq Nat
  BY DEF None, Packets, Eos, Config

LEMMA ConfigFacts ==
    ConfigInput \in Inputs /\ ConfigInput.number = Config /\ ConfigInput.time = 0
  BY DEF ConfigInput, Inputs

(* Outputs of a codec: with a number, a flag for the end, and still one    *)
(* when the flag is set.                                                   *)
IsOutputs(S) ==
    \A o \in S :
        /\ o.number \in Packets \cup {None} /\ o.eos \in BOOLEAN
        /\ [o EXCEPT !.eos = TRUE] \in S
        /\ [o EXCEPT !.eos = TRUE].number = o.number /\ [o EXCEPT !.eos = TRUE].eos

(* The first element of a sequence and the rest keep the type. *)
LEMMA HeadAndTail ==
    ASSUME NEW S, NEW q \in Seq(S), q # <<>>
    PROVE  /\ Head(q) \in S
           /\ Tail(q) \in Seq(S)
           /\ Len(Tail(q)) = Len(q) - 1
           /\ Len(q) \in Nat \ {0}
           /\ Head(q) = q[1]
           /\ DOMAIN Tail(q) = 1 .. Len(q) - 1
           /\ \A i \in 1 .. Len(q) - 1 : Tail(q)[i] = q[i + 1]
  OBVIOUS

(* A sequence without elements. *)
LEMMA NoElement ==
    ASSUME NEW S, NEW q \in Seq(S), Len(q) = 0
    PROVE  q = <<>>
  OBVIOUS

LEMMA OneElement ==
    ASSUME NEW S, NEW x \in S
    PROVE  <<x>> \in Seq(S) /\ Len(<<x>>) = 1 /\ <<x>>[1] = x
  OBVIOUS

(* The last output with the flag, the others as they were. *)
LEMMA MarkFacts ==
    ASSUME NEW S, IsOutputs(S), NEW outputs \in Seq(S), outputs # <<>>
    PROVE  /\ Marked(outputs) \in Seq(S) /\ Len(Marked(outputs)) = Len(outputs)
           /\ Len(outputs) \in Nat \ {0}
           /\ \A i \in 1 .. Len(outputs) - 1 : Marked(outputs)[i] = outputs[i]
           /\ outputs[Len(outputs)] \in S
           /\ Marked(outputs)[Len(outputs)] = [outputs[Len(outputs)] EXCEPT !.eos = TRUE]
  <1>1. Len(outputs) \in Nat \ {0} /\ DOMAIN outputs = 1 .. Len(outputs)
        /\ outputs[Len(outputs)] \in S
    OBVIOUS
  <1> DEFINE n == Len(outputs)
             last == [outputs[n] EXCEPT !.eos = TRUE]
  <1>2. last \in S
    BY <1>1 DEF IsOutputs
  <1>3. Marked(outputs) = [outputs EXCEPT ![n] = last]
    BY <1>1 DEF Marked
  <1> HIDE DEF last
  <1>4. [outputs EXCEPT ![n] = last] \in Seq(S)
    BY <1>1, <1>2
  <1>5. Len([outputs EXCEPT ![n] = last]) = n
    BY <1>1, <1>2
  <1>6. /\ \A i \in 1 .. n - 1 : [outputs EXCEPT ![n] = last][i] = outputs[i]
        /\ [outputs EXCEPT ![n] = last][n] = last
    <2>1. n \in 1 .. n /\ DOMAIN outputs = 1 .. n /\ outputs = [i \in 1 .. n |-> outputs[i]]
      BY <1>1
    <2>0. n \in Nat
      BY <1>1
    <2> HIDE DEF n
    <2>2. \A i \in 1 .. n - 1 : i # n /\ i \in 1 .. n
      BY ONLY <2>0
    <2>3. [outputs EXCEPT ![n] = last][n] = last
      BY ONLY <2>1
    <2>4. \A i \in 1 .. n - 1 : [outputs EXCEPT ![n] = last][i] = outputs[i]
      BY ONLY <2>1, <2>2
    <2> QED
      BY <2>3, <2>4
  <1> QED
    BY <1>1, <1>3, <1>4, <1>5, <1>6 DEF last

-----------------------------------------------------------------------------
(* The end of the stream *)

(***************************************************************************)
(* Where the end of the stream can be: behind all the inputs, or in the    *)
(* last output, when no input is left.  So nothing overtakes it.           *)
(***************************************************************************)
EndIsLast(outputs, inputs) ==
    /\ \A i \in 1 .. Len(outputs) : outputs[i].eos => i = Len(outputs) /\ inputs = <<>>
    /\ \A i \in 1 .. Len(inputs) : inputs[i].number = Eos => i = Len(inputs)

(* The first output is taken. *)
LEMMA EndTaken ==
    ASSUME NEW S, NEW outputs \in Seq(S), NEW inputs \in Seq(Inputs), outputs # <<>>,
           EndIsLast(outputs, inputs)
    PROVE  /\ EndIsLast(Tail(outputs), inputs)
           /\ Head(outputs).eos => Tail(outputs) = <<>> /\ inputs = <<>>
           /\ Head(outputs) \in S /\ Tail(outputs) \in Seq(S)
  <1> DEFINE rest == Tail(outputs)
             out == Head(outputs)
             n == Len(outputs)
  <1>1. /\ out = outputs[1] /\ n \in Nat \ {0} /\ Len(rest) = n - 1
        /\ out \in S /\ rest \in Seq(S)
        /\ \A i \in 1 .. n - 1 : rest[i] = outputs[i + 1]
    BY HeadAndTail
  <1>2. /\ \A i \in 1 .. n : outputs[i].eos => i = n /\ inputs = <<>>
        /\ \A i \in 1 .. Len(inputs) : inputs[i].number = Eos => i = Len(inputs)
    BY DEF EndIsLast
  <1> HIDE DEF rest, out, n
  <1>3. ASSUME NEW i \in 1 .. n - 1, rest[i].eos PROVE i = n - 1 /\ inputs = <<>>
    <2>1. i + 1 \in 1 .. n
      BY <1>1
    <2>2. outputs[i + 1].eos
      BY <1>1, <1>3
    <2>3. i + 1 = n /\ inputs = <<>>
      BY <1>2, <2>1, <2>2
    <2> QED
      BY <1>1, <2>3
  <1>4. ASSUME out.eos PROVE rest = <<>> /\ inputs = <<>>
    <2>1. n = 1 /\ inputs = <<>>
      BY <1>1, <1>2, <1>4
    <2>2. Len(rest) = 0
      BY <1>1, <2>1
    <2> QED
      BY <1>1, <2>1, <2>2, NoElement
  <1>5. EndIsLast(rest, inputs)
    BY <1>1, <1>2, <1>3 DEF EndIsLast
  <1> QED
    BY <1>1, <1>4, <1>5 DEF rest, out

(* No end yet, and nothing behind the end of what is added. *)
LEMMA EndQueued ==
    ASSUME NEW S, NEW outputs \in Seq(S), NEW inputs \in Seq(Inputs), NEW items \in Seq(Inputs),
           \A i \in 1 .. Len(outputs) : ~outputs[i].eos,
           \A i \in 1 .. Len(inputs) : inputs[i].number # Eos,
           \A i \in 1 .. Len(items) : items[i].number = Eos => i = Len(items)
    PROVE  EndIsLast(outputs, inputs \o items)
  <1>1. /\ Len(inputs \o items) = Len(inputs) + Len(items)
        /\ Len(inputs) \in Nat /\ Len(items) \in Nat
    OBVIOUS
  <1>2. ASSUME NEW i \in 1 .. Len(inputs) + Len(items), (inputs \o items)[i].number = Eos
        PROVE  i = Len(inputs) + Len(items)
    <2>1. CASE i <= Len(inputs)
      <3>1. (inputs \o items)[i] = inputs[i] /\ i \in 1 .. Len(inputs)
        BY <1>1, <2>1
      <3> QED
        BY <1>2, <3>1
    <2>2. CASE i > Len(inputs)
      <3>1. /\ (inputs \o items)[i] = items[i - Len(inputs)]
            /\ i - Len(inputs) \in 1 .. Len(items)
        BY <1>1, <2>2
      <3>2. i - Len(inputs) = Len(items)
        BY <1>2, <3>1
      <3> QED
        BY <1>1, <3>2
    <2> QED
      BY <1>1, <2>1, <2>2
  <1> QED
    BY <1>1, <1>2 DEF EndIsLast

(* The first input is taken, and an output may be added. *)
LEMMA EndDecoded ==
    ASSUME NEW S, NEW outputs \in Seq(S), NEW inputs \in Seq(Inputs), inputs # <<>>,
           EndIsLast(outputs, inputs)
    PROVE  /\ EndIsLast(outputs, Tail(inputs))
           /\ Head(inputs).number = Eos => Tail(inputs) = <<>>
           /\ \A i \in 1 .. Len(outputs) : ~outputs[i].eos
           /\ \A output \in S :
                (output.eos => Tail(inputs) = <<>>)
                    => EndIsLast(Append(outputs, output), Tail(inputs))
  <1> DEFINE rest == Tail(inputs)
             item == Head(inputs)
             n == Len(inputs)
  <1>1. /\ item = inputs[1] /\ n \in Nat \ {0} /\ Len(rest) = n - 1 /\ rest \in Seq(Inputs)
        /\ \A i \in 1 .. n - 1 : rest[i] = inputs[i + 1]
    BY HeadAndTail
  <1>2. /\ \A i \in 1 .. Len(outputs) : ~outputs[i].eos
        /\ \A i \in 1 .. n : inputs[i].number = Eos => i = n
    BY DEF EndIsLast
  <1> HIDE DEF rest, item, n
  <1>3. ASSUME NEW i \in 1 .. n - 1, rest[i].number = Eos PROVE i = n - 1
    <2>1. i + 1 \in 1 .. n
      BY <1>1
    <2>2. inputs[i + 1].number = Eos
      BY <1>1, <1>3
    <2>3. i + 1 = n
      BY <1>2, <2>1, <2>2
    <2> QED
      BY <1>1, <2>3
  <1>4. ASSUME item.number = Eos PROVE rest = <<>>
    <2>1. Len(rest) = 0
      BY <1>1, <1>2, <1>4
    <2> QED
      BY <1>1, <2>1, NoElement
  <1>5. ASSUME NEW output \in S, output.eos => rest = <<>>
        PROVE  EndIsLast(Append(outputs, output), rest)
    <2>1. /\ Len(Append(outputs, output)) = Len(outputs) + 1 /\ Len(outputs) \in Nat
          /\ Append(outputs, output)[Len(outputs) + 1] = output
          /\ \A i \in 1 .. Len(outputs) : Append(outputs, output)[i] = outputs[i]
      BY AppendFacts
    <2>2. ASSUME NEW i \in 1 .. Len(outputs) + 1, Append(outputs, output)[i].eos
          PROVE  i = Len(outputs) + 1 /\ rest = <<>>
      <3>1. i \notin 1 .. Len(outputs)
        BY <1>2, <2>1, <2>2
      <3>2. i = Len(outputs) + 1
        BY <2>1, <3>1
      <3> QED
        BY <1>5, <2>1, <2>2, <3>2
    <2> QED
      BY <1>1, <1>3, <2>1, <2>2 DEF EndIsLast
  <1>6. EndIsLast(outputs, rest)
    BY <1>1, <1>2, <1>3 DEF EndIsLast
  <1> QED
    BY <1>2, <1>4, <1>5, <1>6 DEF rest, item

(* The last output gets the flag, when no input is left. *)
LEMMA EndMarked ==
    ASSUME NEW S, IsOutputs(S), NEW outputs \in Seq(S), outputs # <<>>,
           \A i \in 1 .. Len(outputs) : ~outputs[i].eos
    PROVE  EndIsLast(Marked(outputs), <<>>)
  <1> DEFINE n == Len(outputs)
  <1>1. /\ Len(Marked(outputs)) = n /\ n \in Nat \ {0}
        /\ \A i \in 1 .. n - 1 : Marked(outputs)[i] = outputs[i]
    BY MarkFacts
  <1> HIDE DEF n
  <1>2. \A i \in 1 .. n - 1 : ~Marked(outputs)[i].eos
    <2>1. \A i \in 1 .. n - 1 : i \in 1 .. n
      BY <1>1
    <2> QED
      BY <1>1, <2>1 DEF n
  <1>3. \A i \in 1 .. n : Marked(outputs)[i].eos => i = n
    BY <1>1, <1>2
  <1>4. Len(<<>>) = 0
    OBVIOUS
  <1> QED
    BY <1>1, <1>3, <1>4 DEF EndIsLast

-----------------------------------------------------------------------------
(* The codec as a queue *)

(***************************************************************************)
(* Emits and Accepts as functions, so that what is known of FlattenSeq     *)
(* applies.                                                                *)
(***************************************************************************)
EmitsOf(S) == [o \in S |-> Emits(o)]
AcceptsOf(S) == [item \in S |-> Accepts(item)]

LEMMA OfferedIs ==
    ASSUME NEW S, NEW outputs \in Seq(S)
    PROVE  Offered(outputs) = FlattenMap(EmitsOf(S), outputs)
  <1>1. \A i \in DOMAIN outputs : EmitsOf(S)[outputs[i]] = Emits(outputs[i])
    <2>1. \A i \in DOMAIN outputs : outputs[i] \in S
      OBVIOUS
    <2> QED
      BY <2>1 DEF EmitsOf
  <1>2. Mapped(EmitsOf(S), outputs) = [i \in DOMAIN outputs |-> Emits(outputs[i])]
    BY <1>1 DEF Mapped
  <1> QED
    BY <1>2 DEF Offered, FlattenMap

LEMMA WaitingIs ==
    ASSUME NEW S, NEW inputs \in Seq(S)
    PROVE  Waiting(inputs) = FlattenMap(AcceptsOf(S), inputs)
  <1>1. \A i \in DOMAIN inputs : AcceptsOf(S)[inputs[i]] = Accepts(inputs[i])
    <2>1. \A i \in DOMAIN inputs : inputs[i] \in S
      OBVIOUS
    <2> QED
      BY <2>1 DEF AcceptsOf
  <1>2. Mapped(AcceptsOf(S), inputs) = [i \in DOMAIN inputs |-> Accepts(inputs[i])]
    BY <1>1 DEF Mapped
  <1> QED
    BY <1>2 DEF Waiting, FlattenMap

(* What one output or input contributes. *)
LEMMA EmitsIs ==
    ASSUME NEW S, IsOutputs(S), NEW o \in S
    PROVE  /\ Emits(o) \in Seq(Numbers)
           /\ ~o.eos => Emits(o) \in Seq(Packets)
           /\ o.number = None /\ ~o.eos => Emits(o) = <<>>
           /\ o.number = None /\ o.eos => Emits(o) = <<Eos>>
           /\ o.number \in Packets /\ ~o.eos => Emits(o) = <<o.number>>
           /\ Emits(o) = Join(IF o.number = None THEN <<>> ELSE <<o.number>>,
                              IF o.eos THEN <<Eos>> ELSE <<>>)
  <1> DEFINE a == IF o.number = None THEN <<>> ELSE <<o.number>>
             b == IF o.eos THEN <<Eos>> ELSE <<>>
  <1>1. (o.number = None \/ o.number \in Packets) /\ o.eos \in BOOLEAN
    BY DEF IsOutputs
  <1>2. Emits(o) = a \o b
    BY DEF Emits
  <1>3. a \in Seq(Packets) /\ a \in Seq(Numbers)
    <2>1. ASSUME o.number \in Packets
          PROVE  <<o.number>> \in Seq(Packets) /\ <<o.number>> \in Seq(Numbers)
      BY <2>1, OneElement DEF Numbers
    <2>2. <<>> \in Seq(Packets) /\ <<>> \in Seq(Numbers)
      OBVIOUS
    <2> QED
      BY <1>1, <2>1, <2>2
  <1>4. b \in Seq(Numbers)
    <2>1. Eos \in Numbers
      BY DEF Numbers
    <2>2. <<Eos>> \in Seq(Numbers) /\ <<>> \in Seq(Numbers)
      BY <2>1, OneElement
    <2> QED
      BY <2>2
  <1>5. (o.number = None => a = <<>>) /\ (o.number \in Packets => a = <<o.number>>)
    BY NumbersDiffer
  <1>6. (o.eos => b = <<Eos>>) /\ (~o.eos => b = <<>>)
    OBVIOUS
  <1> HIDE DEF a, b
  <1>7. a \o b \in Seq(Numbers)
    BY <1>3, <1>4
  <1>8. b = <<>> => a \o b = a
    BY <1>3
  <1>9. a = <<>> => a \o b = b
    BY <1>4
  <1>10. Emits(o) = Join(a, b)
    BY <1>2 DEF Join
  <1> QED
    BY <1>2, <1>3, <1>5, <1>6, <1>7, <1>8, <1>9, <1>10 DEF a, b

LEMMA AcceptsIs ==
    ASSUME NEW item \in Inputs
    PROVE  /\ Accepts(item) \in Seq(Numbers)
           /\ item.number # Eos => Accepts(item) \in Seq(Packets)
           /\ item.number = Config => Accepts(item) = <<>>
           /\ item.number \in Packets \cup {Eos} => Accepts(item) = <<item.number>>
           /\ item.number \in Packets \cup {Eos, Config}
  <1>1. item.number = Config \/ item.number \in Packets \/ item.number = Eos
    BY DEF Inputs
  <1>2. CASE item.number = Config
    BY <1>2, NumbersDiffer DEF Accepts
  <1>3. CASE item.number \in Packets \cup {Eos}
    <2>1. Accepts(item) = <<item.number>>
      BY <1>3, NumbersDiffer DEF Accepts
    <2>2. <<item.number>> \in Seq(Numbers)
      BY <1>3, OneElement DEF Numbers
    <2>3. item.number \in Packets => <<item.number>> \in Seq(Packets)
      BY OneElement
    <2> QED
      BY <1>3, <2>1, <2>2, <2>3, NumbersDiffer
  <1> QED
    BY <1>1, <1>2, <1>3

LEMMA MapsMake ==
    ASSUME NEW S, IsOutputs(S)
    PROVE  /\ Makes(EmitsOf(S), S, Numbers) /\ Makes(AcceptsOf(Inputs), Inputs, Numbers)
           /\ \A o \in S : EmitsOf(S)[o] = Emits(o)
           /\ \A item \in Inputs : AcceptsOf(Inputs)[item] = Accepts(item)
  <1>1. \A o \in S : Emits(o) \in Seq(Numbers)
    BY EmitsIs
  <1>2. \A item \in Inputs : Accepts(item) \in Seq(Numbers)
    BY AcceptsIs
  <1> QED
    BY <1>1, <1>2 DEF Makes, EmitsOf, AcceptsOf

(* What the platform offers, as outputs come and go. *)
LEMMA OfferedSteps ==
    ASSUME NEW S, IsOutputs(S), NEW outputs \in Seq(S)
    PROVE  /\ Offered(outputs) \in Seq(Numbers)
           /\ Offered(<<>>) = <<>>
           /\ \A o \in S : Offered(Append(outputs, o)) = Join(Offered(outputs), Emits(o))
           /\ outputs # <<>> =>
                Offered(outputs) = Join(Emits(Head(outputs)), Offered(Tail(outputs)))
  <1> DEFINE F == EmitsOf(S)
  <1>1. Makes(F, S, Numbers) /\ \A o \in S : F[o] = Emits(o)
    BY MapsMake
  <1>2. \A q \in Seq(S) : Offered(q) = FlattenMap(F, q)
    BY OfferedIs
  <1> HIDE DEF F
  <1>3. \A q \in Seq(S) :
            FlattenMap(F, q) \in Seq(Numbers) /\ (q = <<>> => FlattenMap(F, q) = <<>>)
    BY <1>1, FlattenMapType
  <1>4. <<>> \in Seq(S)
    OBVIOUS
  <1>5. ASSUME NEW o \in S
        PROVE  Offered(Append(outputs, o)) = Join(Offered(outputs), Emits(o))
    <2>1. FlattenMap(F, Append(outputs, o)) = FlattenMap(F, outputs) \o F[o]
      BY <1>1, FlattenMapAppend
    <2>2. Append(outputs, o) \in Seq(S)
      BY AppendFacts
    <2> QED
      BY <1>1, <1>2, <2>1, <2>2 DEF Join
  <1>6. ASSUME outputs # <<>>
        PROVE  Offered(outputs) = Join(Emits(Head(outputs)), Offered(Tail(outputs)))
    <2>1. FlattenMap(F, outputs) = F[Head(outputs)] \o FlattenMap(F, Tail(outputs))
      BY <1>1, <1>6, FlattenMapTail
    <2>2. Head(outputs) \in S /\ Tail(outputs) \in Seq(S)
      BY <1>6, TailFacts
    <2> QED
      BY <1>1, <1>2, <2>1, <2>2 DEF Join
  <1> QED
    BY <1>2, <1>3, <1>4, <1>5, <1>6

(* What waits in the platform, as inputs come and go. *)
LEMMA WaitingSteps ==
    ASSUME NEW inputs \in Seq(Inputs)
    PROVE  /\ Waiting(inputs) \in Seq(Numbers)
           /\ Waiting(<<>>) = <<>>
           /\ \A x \in Inputs : Waiting(Append(inputs, x)) = Join(Waiting(inputs), Accepts(x))
           /\ inputs # <<>> =>
                Waiting(inputs) = Join(Accepts(Head(inputs)), Waiting(Tail(inputs)))
  <1> DEFINE F == AcceptsOf(Inputs)
  <1>1. Makes(F, Inputs, Numbers) /\ \A x \in Inputs : F[x] = Accepts(x)
    <2>1. \A x \in Inputs : Accepts(x) \in Seq(Numbers)
      BY AcceptsIs
    <2> QED
      BY <2>1 DEF Makes, AcceptsOf
  <1>2. \A q \in Seq(Inputs) : Waiting(q) = FlattenMap(F, q)
    BY WaitingIs
  <1> HIDE DEF F
  <1>3. \A q \in Seq(Inputs) :
            FlattenMap(F, q) \in Seq(Numbers) /\ (q = <<>> => FlattenMap(F, q) = <<>>)
    BY <1>1, FlattenMapType
  <1>4. <<>> \in Seq(Inputs)
    OBVIOUS
  <1>5. ASSUME NEW x \in Inputs
        PROVE  Waiting(Append(inputs, x)) = Join(Waiting(inputs), Accepts(x))
    <2>1. FlattenMap(F, Append(inputs, x)) = FlattenMap(F, inputs) \o F[x]
      BY <1>1, FlattenMapAppend
    <2>2. Append(inputs, x) \in Seq(Inputs)
      BY AppendFacts
    <2> QED
      BY <1>1, <1>2, <2>1, <2>2 DEF Join
  <1>6. ASSUME inputs # <<>>
        PROVE  Waiting(inputs) = Join(Accepts(Head(inputs)), Waiting(Tail(inputs)))
    <2>1. FlattenMap(F, inputs) = F[Head(inputs)] \o FlattenMap(F, Tail(inputs))
      BY <1>1, <1>6, FlattenMapTail
    <2>2. Head(inputs) \in Inputs /\ Tail(inputs) \in Seq(Inputs)
      BY <1>6, TailFacts
    <2> QED
      BY <1>1, <1>2, <2>1, <2>2 DEF Join
  <1> QED
    BY <1>2, <1>3, <1>4, <1>5, <1>6

(* The end joins the last output. *)
LEMMA OfferedEnd ==
    ASSUME NEW S, IsOutputs(S), NEW outputs \in Seq(S), outputs # <<>>,
           ~outputs[Len(outputs)].eos
    PROVE  Offered(Marked(outputs)) = Join(Offered(outputs), <<Eos>>)
  <1> DEFINE F == EmitsOf(S)
             n == Len(outputs)
             marked == Marked(outputs)
  <1>1. Makes(F, S, Numbers) /\ \A o \in S : F[o] = Emits(o)
    BY MapsMake
  <1>2. \A q \in Seq(S) : Offered(q) = FlattenMap(F, q)
    BY OfferedIs
  <1>3. /\ marked \in Seq(S) /\ Len(marked) = n /\ n \in Nat \ {0}
        /\ \A i \in 1 .. n - 1 : marked[i] = outputs[i]
        /\ outputs[n] \in S /\ marked[n] = [outputs[n] EXCEPT !.eos = TRUE]
    BY MarkFacts
  <1> HIDE DEF F, n, marked
  <1>4. marked[n] \in S /\ marked[n].number = outputs[n].number /\ marked[n].eos
    BY <1>3 DEF IsOutputs
  <1>5. Emits(marked[n]) = Emits(outputs[n]) \o <<Eos>>
    <2>1. outputs[n].number = None \/ outputs[n].number \in Packets
      BY <1>3 DEF IsOutputs
    <2>2. ~outputs[n].eos
      BY DEF n
    <2> QED
      BY <1>4, <2>1, <2>2 DEF Emits
  <1>6. <<Eos>> \in Seq(Numbers)
    BY DEF Numbers
  <1>7. /\ Len(marked) = Len(outputs) /\ Alike(outputs, marked, Len(outputs) - 1)
        /\ F[marked[Len(outputs)]] = F[outputs[Len(outputs)]] \o <<Eos>>
    BY <1>1, <1>3, <1>4, <1>5 DEF n, Alike
  <1>8. FlattenMap(F, marked) = FlattenMap(F, outputs) \o <<Eos>>
    <2> DEFINE x == <<Eos>>
    <2>1. Makes(F, S, Numbers) /\ marked \in Seq(S) /\ x \in Seq(Numbers)
          /\ F[marked[Len(outputs)]] = F[outputs[Len(outputs)]] \o x
      BY <1>1, <1>3, <1>6, <1>7
    <2> HIDE DEF x
    <2>2. LastGrows(F, outputs, marked, x)
      BY <1>7, <2>1 DEF LastGrows
    <2>3. FlattenMap(F, marked) = FlattenMap(F, outputs) \o x
      BY <2>1, <2>2, FlattenMapLast
    <2> QED
      BY <2>3 DEF x
  <1> QED
    BY <1>2, <1>3, <1>8 DEF Join, marked

(* Without an end in them, outputs and inputs are packets only. *)
LEMMA NoEnd ==
    ASSUME NEW S, IsOutputs(S), NEW outputs \in Seq(S), NEW inputs \in Seq(Inputs),
           \A i \in 1 .. Len(outputs) : ~outputs[i].eos,
           \A i \in 1 .. Len(inputs) : inputs[i].number # Eos
    PROVE  Offered(outputs) \in Seq(Packets) /\ Waiting(inputs) \in Seq(Packets)
  <1> DEFINE U == {o \in S : ~o.eos}
             T == {item \in Inputs : item.number # Eos}
  <1>1. outputs \in Seq(U)
    <2>1. \A i \in 1 .. Len(outputs) : outputs[i] \in U
      OBVIOUS
    <2> HIDE DEF U
    <2> QED
      BY <2>1
  <1>2. inputs \in Seq(T)
    <2>1. \A i \in 1 .. Len(inputs) : inputs[i] \in T
      OBVIOUS
    <2> HIDE DEF T
    <2> QED
      BY <2>1
  <1>3. \A o \in U : Emits(o) \in Seq(Packets)
    BY EmitsIs
  <1>4. \A item \in T : Accepts(item) \in Seq(Packets)
    BY AcceptsIs
  <1> HIDE DEF U, T
  <1>5. Makes(EmitsOf(U), U, Packets) /\ Makes(AcceptsOf(T), T, Packets)
    BY <1>3, <1>4 DEF Makes, EmitsOf, AcceptsOf
  <1>6. FlattenMap(EmitsOf(U), outputs) \in Seq(Packets)
        /\ FlattenMap(AcceptsOf(T), inputs) \in Seq(Packets)
    BY <1>1, <1>2, <1>5, FlattenMapType
  <1> QED
    BY <1>1, <1>2, <1>6, OfferedIs, WaitingIs

(***************************************************************************)
(* What the platform may do with the inputs and outputs it holds: take the *)
(* configuration, wait, decode an input to an output, or set the flag of   *)
(* the last one.                                                           *)
(***************************************************************************)
Decodes(S, inputs, outputs, inputs2, outputs2) ==
    LET current == Head(inputs).number
    IN  /\ inputs # <<>>
        /\ \/ current = Config /\ inputs2 = Tail(inputs) /\ outputs2 = outputs
           \/ inputs2 = inputs /\ outputs2 = outputs
           \/ /\ current = Eos /\ outputs # <<>>
              /\ inputs2 = Tail(inputs) /\ outputs2 = Marked(outputs)
           \/ \E output \in S :
                 /\ inputs2 = Tail(inputs) /\ outputs2 = Append(outputs, output)
                 /\ output.eos <=> current = Eos
                 /\ output.number = IF current \in Packets THEN current ELSE None

(* Inputs of any kind I and outputs of any kind S stay what they are. *)
LEMMA DecodesType ==
    ASSUME NEW S, NEW I, NEW outputs \in Seq(S), NEW inputs \in Seq(I),
           NEW outputs2, NEW inputs2, Decodes(S, inputs, outputs, inputs2, outputs2),
           Head(inputs).number = Eos => IsOutputs(S)
    PROVE  inputs2 \in Seq(I) /\ outputs2 \in Seq(S)
  <1> DEFINE rest == Tail(inputs)
             marked == Marked(outputs)
             current == Head(inputs).number
  <1>1. /\ inputs # <<>>
        /\ \/ inputs2 = rest /\ outputs2 = outputs
           \/ inputs2 = inputs /\ outputs2 = outputs
           \/ /\ current = Eos /\ outputs # <<>>
              /\ inputs2 = rest /\ outputs2 = marked
           \/ \E output \in S : inputs2 = rest /\ outputs2 = Append(outputs, output)
    BY DEF Decodes
  <1>2. rest \in Seq(I)
    BY <1>1, TailFacts
  <1>3. current = Eos /\ outputs # <<>> => marked \in Seq(S)
    BY MarkFacts
  <1>4. \A output \in S : Append(outputs, output) \in Seq(S)
    BY AppendFacts
  <1> HIDE DEF rest, marked, current
  <1> QED
    BY <1>1, <1>2, <1>3, <1>4

(* The end stays the last. *)
LEMMA DecodesEnd ==
    ASSUME NEW S, IsOutputs(S), NEW outputs \in Seq(S), NEW inputs \in Seq(Inputs),
           NEW outputs2, NEW inputs2, Decodes(S, inputs, outputs, inputs2, outputs2),
           EndIsLast(outputs, inputs)
    PROVE  EndIsLast(outputs2, inputs2)
  <1> DEFINE current == Head(inputs).number
             rest == Tail(inputs)
  <1>1. /\ inputs # <<>>
        /\ \/ current = Config /\ inputs2 = rest /\ outputs2 = outputs
           \/ inputs2 = inputs /\ outputs2 = outputs
           \/ /\ current = Eos /\ outputs # <<>>
              /\ inputs2 = rest /\ outputs2 = Marked(outputs)
           \/ \E output \in S :
                 /\ inputs2 = rest /\ outputs2 = Append(outputs, output)
                 /\ output.eos <=> current = Eos
    BY DEF Decodes
  <1>2. /\ EndIsLast(outputs, rest)
        /\ current = Eos => rest = <<>>
        /\ \A i \in 1 .. Len(outputs) : ~outputs[i].eos
        /\ \A output \in S :
              (output.eos => rest = <<>>) => EndIsLast(Append(outputs, output), rest)
    BY <1>1, EndDecoded
  <1>3. outputs # <<>> => EndIsLast(Marked(outputs), <<>>)
    BY <1>2, EndMarked
  <1> HIDE DEF current, rest
  <1> QED
    BY <1>1, <1>2, <1>3

(* The queue is the same. *)
LEMMA DecodesQueue ==
    ASSUME NEW S, IsOutputs(S), NEW outputs \in Seq(S), NEW inputs \in Seq(Inputs),
           NEW outputs2, NEW inputs2, Decodes(S, inputs, outputs, inputs2, outputs2),
           EndIsLast(outputs, inputs), NEW front \in Seq(Numbers)
    PROVE  Three(front, Offered(outputs2), Waiting(inputs2))
              = Three(front, Offered(outputs), Waiting(inputs))
  <1> DEFINE current == Head(inputs).number
             rest == Tail(inputs)
             c == Offered(outputs)
             d == Waiting(rest)
             s == Accepts(Head(inputs))
  <1>1. /\ inputs # <<>>
        /\ \/ current = Config /\ inputs2 = rest /\ outputs2 = outputs
           \/ inputs2 = inputs /\ outputs2 = outputs
           \/ /\ current = Eos /\ outputs # <<>>
              /\ inputs2 = rest /\ outputs2 = Marked(outputs)
           \/ \E output \in S :
                 /\ inputs2 = rest /\ outputs2 = Append(outputs, output)
                 /\ output.eos <=> current = Eos
                 /\ output.number = IF current \in Packets THEN current ELSE None
    BY DEF Decodes
  <1>2. Head(inputs) \in Inputs /\ rest \in Seq(Inputs)
    BY <1>1, HeadAndTail
  <1>3. /\ c \in Seq(Numbers) /\ d \in Seq(Numbers) /\ s \in Seq(Numbers)
        /\ Waiting(inputs) = Join(s, d)
    BY <1>1, <1>2, OfferedSteps, WaitingSteps, AcceptsIs
  <1>4. /\ current = Config => s = <<>>
        /\ current \in Packets \cup {Eos} => s = <<current>>
        /\ current \in Packets \cup {Eos, Config}
    BY <1>2, AcceptsIs
  <1>5. ASSUME outputs2 = outputs \/ Offered(outputs2) = Join(c, s),
               inputs2 = rest, outputs2 = outputs => s = <<>>
        PROVE  Offered(outputs2) = Join(c, s) /\ Waiting(inputs2) = d
    <2>1. s = <<>> => Join(c, s) = c
      BY <1>3, JoinFacts
    <2> QED
      BY <1>5, <2>1
  <1>6. Three(front, Join(c, s), d) = Three(front, c, Join(s, d))
    <2>1. front \in Seq(Numbers) /\ c \in Seq(Numbers) /\ d \in Seq(Numbers) /\ s \in Seq(Numbers)
      BY <1>3
    <2> HIDE DEF c, d, s
    <2> QED
      BY <2>1, ThreeMoves
  <1>7. ASSUME Offered(outputs2) = Join(c, s), Waiting(inputs2) = d
        PROVE  Three(front, Offered(outputs2), Waiting(inputs2))
                  = Three(front, Offered(outputs), Waiting(inputs))
    BY <1>3, <1>6, <1>7
  <1>8. CASE inputs2 = inputs /\ outputs2 = outputs
    BY <1>8
  <1>9. CASE current = Config /\ inputs2 = rest /\ outputs2 = outputs
    BY <1>4, <1>5, <1>7, <1>9
  <1>10. CASE /\ current = Eos /\ outputs # <<>>
              /\ inputs2 = rest /\ outputs2 = Marked(outputs)
    <2>1. ~outputs[Len(outputs)].eos
      <3>1. Len(outputs) \in 1 .. Len(outputs)
        BY <1>10
      <3> QED
        BY <1>1, <3>1 DEF EndIsLast
    <2>2. Offered(outputs2) = Join(c, <<Eos>>)
      BY <1>10, <2>1, OfferedEnd
    <2>3. Offered(outputs2) = Join(c, s) /\ Waiting(inputs2) = d
      BY <1>4, <1>10, <2>2
    <2> QED
      BY <1>7, <2>3
  <1>11. ASSUME NEW output \in S, inputs2 = rest, outputs2 = Append(outputs, output),
                output.eos <=> current = Eos,
                output.number = IF current \in Packets THEN current ELSE None
         PROVE  Three(front, Offered(outputs2), Waiting(inputs2))
                   = Three(front, Offered(outputs), Waiting(inputs))
    <2>1. Emits(output) = s
      <3>1. CASE current = Config
        <4>1. output.number = None /\ ~output.eos
          BY <1>11, <3>1, NumbersDiffer
        <4> QED
          BY <1>4, <3>1, <4>1, EmitsIs
      <3>2. CASE current = Eos
        <4>1. output.number = None /\ output.eos
          BY <1>11, <3>2, NumbersDiffer
        <4> QED
          BY <1>4, <3>2, <4>1, EmitsIs
      <3>3. CASE current \in Packets
        <4>1. output.number = current /\ ~output.eos /\ output.number \in Packets
          BY <1>11, <3>3, NumbersDiffer
        <4>2. Emits(output) = <<output.number>>
          BY <4>1, EmitsIs
        <4> QED
          BY <1>4, <3>3, <4>1, <4>2
      <3> QED
        BY <1>4, <3>1, <3>2, <3>3
    <2>2. Offered(outputs2) = Join(c, s) /\ Waiting(inputs2) = d
      BY <1>11, <2>1, OfferedSteps
    <2> QED
      BY <1>7, <2>2
  <1> HIDE DEF current, rest, c, d, s
  <1> QED
    BY <1>1, <1>8, <1>9, <1>10, <1>11

(* One more element comes behind two sequences as behind the second. *)
(* A sequence over a set is one over every larger set. *)
LEMMA LargerSet ==
    ASSUME NEW S, NEW T, S \subseteq T, NEW q \in Seq(S)
    PROVE  q \in Seq(T)
  OBVIOUS

LEMMA AppendBehind ==
    ASSUME NEW S, NEW a \in Seq(S), NEW b \in Seq(S), NEW x \in S
    PROVE  /\ a \o <<x>> = Append(a, x) /\ a \o <<>> = a
           /\ a \o Append(b, x) = Append(a \o b, x) /\ a \o b \in Seq(S)
  OBVIOUS

(* What submit adds: perhaps the configuration, then at most one input. *)
Added(items, x) ==
    \E due \in {<<>>, <<ConfigInput>>} : items = due \/ items = Append(due, x)

LEMMA DueWaiting ==
    ASSUME NEW inputs \in Seq(Inputs), NEW x \in Inputs, NEW due \in {<<>>, <<ConfigInput>>},
           x.number \in Packets \cup {Eos}
    PROVE  /\ Waiting(inputs \o due) = Waiting(inputs)
           /\ Waiting(inputs \o Append(due, x)) = Join(Waiting(inputs), <<x.number>>)
  <1>1. ConfigInput \in Inputs /\ <<ConfigInput>> \in Seq(Inputs) /\ <<>> \in Seq(Inputs)
    BY ConfigFacts, OneElement
  <1>2. due \in Seq(Inputs)
    BY <1>1
  <1>3. /\ inputs \o <<ConfigInput>> = Append(inputs, ConfigInput) /\ inputs \o <<>> = inputs
        /\ inputs \o Append(due, x) = Append(inputs \o due, x) /\ inputs \o due \in Seq(Inputs)
    BY <1>1, <1>2, AppendBehind
  <1>4. Waiting(inputs) \in Seq(Numbers)
    BY WaitingSteps
  <1>5. Waiting(Append(inputs, ConfigInput)) = Waiting(inputs)
    <2>1. Waiting(Append(inputs, ConfigInput)) = Join(Waiting(inputs), Accepts(ConfigInput))
      BY <1>1, WaitingSteps
    <2>2. Accepts(ConfigInput) = <<>>
      BY <1>1, AcceptsIs, ConfigFacts
    <2> QED
      BY <1>4, <2>1, <2>2, JoinFacts
  <1>6. Waiting(inputs \o due) = Waiting(inputs)
    BY <1>3, <1>5
  <1>7. Waiting(Append(inputs \o due, x)) = Join(Waiting(inputs \o due), <<x.number>>)
    <2>1. Accepts(x) = <<x.number>>
      BY AcceptsIs
    <2> QED
      BY <1>3, <2>1, WaitingSteps
  <1> QED
    BY <1>3, <1>6, <1>7

LEMMA AddedWaiting ==
    ASSUME NEW inputs \in Seq(Inputs), NEW x \in Inputs, NEW items, Added(items, x),
           x.number \in Packets \cup {Eos}
    PROVE  Waiting(inputs \o items) \in {Waiting(inputs), Join(Waiting(inputs), <<x.number>>)}
  BY DueWaiting DEF Added

(* What is added brings the end only at its end. *)
LEMMA AddedEnd ==
    ASSUME NEW x \in Inputs, NEW items, Added(items, x)
    PROVE  /\ items \in Seq(Inputs)
           /\ \A i \in 1 .. Len(items) : items[i].number = Eos => i = Len(items)
           /\ \A i \in 1 .. Len(items) : items[i] = ConfigInput \/ items[i] = x
  <1>1. PICK due \in {<<>>, <<ConfigInput>>} : items = due \/ items = Append(due, x)
    BY DEF Added
  <1>2. ConfigInput \in Inputs /\ ConfigInput.number # Eos
    BY ConfigFacts, NumbersDiffer
  <1>3. /\ due \in Seq(Inputs)
        /\ \A i \in 1 .. Len(due) : due[i].number # Eos /\ due[i] = ConfigInput
    <2>1. CASE due = <<>>
      BY <2>1
    <2>2. CASE due = <<ConfigInput>>
      BY <1>2, <2>2, OneElement
    <2> QED
      BY <2>1, <2>2
  <1>4. /\ Append(due, x) \in Seq(Inputs)
        /\ \A i \in 1 .. Len(Append(due, x)) :
              /\ Append(due, x)[i].number = Eos => i = Len(Append(due, x))
              /\ Append(due, x)[i] = ConfigInput \/ Append(due, x)[i] = x
    BY <1>3, AppendFacts
  <1> QED
    BY <1>1, <1>3, <1>4

-----------------------------------------------------------------------------
(* What the platform is given *)

Feeds == Seq(Packets \cup {Eos, Config})

(***************************************************************************)
(* Decodable, of any sequence: the configuration first, if it was lost,    *)
(* then one of `starts`, then every number after the one before.           *)
(***************************************************************************)
IsDecodable(f, lost, starts) ==
    \A i \in 1 .. Len(f) :
        /\ f[i] = Config <=> i = 1 /\ lost
        /\ f[i] # Config =>
              IF i = 1 \/ f[i - 1] = Config
              THEN f[i] \in starts
              ELSE f[i] = f[i - 1] + 1

(* Something other than the configuration is at its end. *)
Begun(f) == f # <<>> /\ f[Len(f)] # Config

(* One more number at the end. *)
LEMMA OneMore ==
    ASSUME NEW f \in Feeds, NEW lost \in BOOLEAN, NEW starts, NEW n \in Packets \cup {Eos},
           IsDecodable(f, lost, starts),
           f = <<>> => ~lost,
           ~Begun(f) => n \in starts,
           Begun(f) => n = f[Len(f)] + 1
    PROVE  IsDecodable(Append(f, n), lost, starts) /\ Begun(Append(f, n)) /\ Append(f, n) \in Feeds
           /\ Append(f, n)[Len(Append(f, n))] = n
  <1> DEFINE g == Append(f, n)
             k == Len(f)
  <1>1. /\ g \in Feeds /\ g # <<>> /\ Len(g) = k + 1 /\ k \in Nat
        /\ g[k + 1] = n /\ \A i \in 1 .. k : g[i] = f[i]
    BY AppendFacts DEF Feeds
  <1>2. n # Config
    BY NumbersDiffer
  <1>3. Begun(g)
    BY <1>1, <1>2 DEF Begun
  <1>4. f = <<>> <=> k = 0
    BY DEF Feeds
  <1> HIDE DEF g, k
  <1>5. ASSUME NEW i \in 1 .. k + 1
        PROVE  /\ g[i] = Config <=> i = 1 /\ lost
               /\ g[i] # Config =>
                     IF i = 1 \/ g[i - 1] = Config
                     THEN g[i] \in starts
                     ELSE g[i] = g[i - 1] + 1
    <2>1. CASE i \in 1 .. k
      <3>1. g[i] = f[i] /\ (i # 1 => g[i - 1] = f[i - 1])
        BY <1>1, <2>1
      <3> QED
        BY <2>1, <3>1 DEF IsDecodable, k
    <2>2. CASE i = k + 1 /\ k = 0
      <3>1. i = 1 /\ g[i] = n /\ f = <<>> /\ ~lost /\ ~Begun(f)
        BY <1>1, <1>4, <2>2 DEF Begun
      <3> QED
        BY <1>2, <3>1
    <2>3. CASE i = k + 1 /\ k # 0
      <3>1. i # 1 /\ g[i] = n /\ i - 1 = k /\ g[k] = f[k] /\ f # <<>>
        BY <1>1, <1>4, <2>3
      <3>2. Begun(f) <=> g[i - 1] # Config
        BY <3>1 DEF Begun, k
      <3>3. Begun(f) => n = g[i - 1] + 1
        BY <3>1 DEF k
      <3> QED
        BY <1>2, <3>1, <3>2, <3>3
    <2> QED
      BY <1>1, <2>1, <2>2, <2>3
  <1>6. IsDecodable(g, lost, starts)
    BY <1>1, <1>5 DEF IsDecodable
  <1> QED
    BY <1>1, <1>3, <1>6 DEF g

(* The configuration alone. *)
LEMMA ConfigFirst ==
    /\ <<Config>> \in Feeds /\ Len(<<Config>>) = 1 /\ <<Config>>[1] = Config
    /\ ~Begun(<<Config>>) /\ ~Begun(<<>>)
    /\ \A starts : IsDecodable(<<Config>>, TRUE, starts)
  BY DEF Feeds, Begun, IsDecodable

(* What submit adds to what the platform was given. *)
Numbered(items) == [i \in DOMAIN items |-> items[i].number]

LEMMA NumberedIs ==
    ASSUME NEW n \in Packets \cup {Eos}, NEW time,
           NEW due \in {<<>>, <<ConfigInput>>}, NEW f \in Feeds, due # <<>> => f = <<>>
    PROVE  /\ f \o Numbered(due) = IF due = <<>> THEN f ELSE <<Config>>
           /\ f \o Numbered(Append(due, [number |-> n, time |-> time]))
                 = Append(IF due = <<>> THEN f ELSE <<Config>>, n)
  <1> DEFINE item == [number |-> n, time |-> time]
  <1>1. f \o <<>> = f /\ f \o <<n>> = Append(f, n)
    BY DEF Feeds
  <1>2. CASE due = <<>>
    <2>1. Numbered(due) = <<>>
      BY <1>2 DEF Numbered
    <2>2. Numbered(Append(due, item)) = <<n>>
      <3>1. Append(due, item) = <<item>>
        BY <1>2
      <3> QED
        BY <3>1 DEF Numbered
    <2> QED
      BY <1>1, <1>2, <2>1, <2>2
  <1>3. CASE due = <<ConfigInput>>
    <2>1. Numbered(due) = <<Config>> /\ due # <<>> /\ f = <<>>
      BY <1>3, ConfigFacts DEF Numbered
    <2>2. Numbered(Append(due, item)) = <<Config, n>>
      <3> DEFINE items == Append(due, item)
      <3>1. /\ items \in Seq({ConfigInput, item}) /\ Len(items) = 2
            /\ items[1] = ConfigInput /\ items[2] = item
        BY <1>3
      <3> HIDE DEF items
      <3>2. Numbered(items) = [i \in 1 .. 2 |-> items[i].number]
        BY <3>1 DEF Numbered
      <3> QED
        BY <3>1, <3>2, ConfigFacts DEF items
    <2> QED
      BY <1>1, <2>1, <2>2
  <1> QED
    BY <1>2, <1>3

(***************************************************************************)
(* Submit, seen from what the platform was given (f before, g after): the  *)
(* configuration, when it is due, comes before everything else.            *)
(***************************************************************************)
Submitted(f, g, pending, due, n, time, queued) ==
    /\ due \in {<<>>, <<ConfigInput>>} /\ (due # <<>> => pending)
    /\ queued => ~pending \/ due # <<>>
    /\ g = f \o Numbered(IF queued THEN Append(due, [number |-> n, time |-> time]) ELSE due)

(* Pending or not, the configuration is where it belongs. *)
Answers(f, pending, lost) ==
    /\ pending => f = <<>> /\ lost
    /\ ~pending /\ f = <<>> => ~lost

LEMMA SubmittedGrows ==
    ASSUME NEW f \in Feeds, NEW lost \in BOOLEAN, NEW pending \in BOOLEAN, NEW starts,
           NEW n \in Packets \cup {Eos}, NEW time, NEW queued \in BOOLEAN, NEW due, NEW g,
           Submitted(f, g, pending, due, n, time, queued),
           IsDecodable(f, lost, starts), Answers(f, pending, lost),
           ~Begun(f) => n \in starts, Begun(f) => n = f[Len(f)] + 1
    PROVE  /\ IsDecodable(g, lost, starts) /\ g \in Feeds
           /\ Answers(g, pending /\ due = <<>>, lost)
           /\ queued => Begun(g) /\ g[Len(g)] = n
           /\ ~queued => (Begun(g) <=> Begun(f)) /\ (Begun(f) => g = f)
           /\ pending /\ due = <<>> => ~queued /\ g = f
  <1> DEFINE base == IF due = <<>> THEN f ELSE <<Config>>
  <1>1. /\ due \in {<<>>, <<ConfigInput>>} /\ (due # <<>> => pending)
        /\ queued => ~pending \/ due # <<>>
    BY DEF Submitted
  <1>2. g = IF queued THEN Append(base, n) ELSE base
    <2>1. due # <<>> => f = <<>>
      BY <1>1 DEF Answers
    <2> QED
      BY <1>1, <2>1, NumberedIs DEF Submitted
  <1>3. /\ base \in Feeds /\ IsDecodable(base, lost, starts)
        /\ Begun(base) <=> Begun(f)
        /\ Begun(f) => base = f
        /\ Answers(base, pending /\ due = <<>>, lost)
    <2>1. CASE due = <<>>
      BY <2>1
    <2>2. CASE due # <<>>
      <3>1. f = <<>> /\ lost = TRUE /\ base = <<Config>> /\ <<Config>> # <<>>
        BY <1>1, <2>2 DEF Answers
      <3> HIDE DEF base
      <3> QED
        BY <2>2, <3>1, ConfigFirst DEF Answers
    <2> QED
      BY <2>1, <2>2
  <1> HIDE DEF base
  <1>4. CASE ~queued
    <2>1. g = base
      BY <1>2, <1>4
    <2>2. pending /\ due = <<>> => g = f
      BY <2>1 DEF base
    <2> QED
      BY <1>3, <1>4, <2>1, <2>2
  <1>5. CASE queued
    <2>1. g = Append(base, n) /\ ~(pending /\ due = <<>>)
      BY <1>1, <1>2, <1>5
    <2>2. base = <<>> => ~lost
      BY <1>3, <2>1 DEF Answers
    <2>3. /\ ~Begun(base) => n \in starts
          /\ Begun(base) => n = base[Len(base)] + 1
      BY <1>3
    <2>4. IsDecodable(g, lost, starts) /\ Begun(g) /\ g \in Feeds /\ g[Len(g)] = n
      BY <1>3, <2>1, <2>2, <2>3, OneMore
    <2>5. Answers(g, pending /\ due = <<>>, lost)
      BY <2>1, <2>4 DEF Answers, Begun
    <2> QED
      BY <1>5, <2>1, <2>4, <2>5
  <1> QED
    BY <1>4, <1>5

=============================================================================
