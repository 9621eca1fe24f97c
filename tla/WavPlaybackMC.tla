--------------------------- MODULE WavPlaybackMC ---------------------------
(***************************************************************************)
(* Files for the model checker: every sequence of up to three chunks of a  *)
(* few kinds, with headers that tell the truth, less, more, or promise     *)
(* what the region does not hold; and one file of five frames.             *)
(***************************************************************************)
EXTENDS WavPlayback

Fmt(size, channels) == [id |-> "fmt", size |-> size, channels |-> channels]
Data(size) == [id |-> "data", size |-> size, channels |-> 0]
Other(size) == [id |-> "other", size |-> size, channels |-> 0]

Kinds == {Fmt(16, 1), Fmt(18, 2), Data(0), Data(4), Other(1)}

ChunkLists == UNION {[1 .. n -> Kinds] : n \in 0 .. 3}

(* The first n chunks fill the file up to there. *)
EndOf(chunks, n) == 12 + FoldLeft(LAMBDA size, c : size + PaddedSize(c), 0, SubSeq(chunks, 1, n))

FileOf(kinds, less, beyond) ==
    LET total == EndOf(kinds, Len(kinds))
    IN  [rate |-> 7, riffEnd |-> total - less, length |-> total - less + beyond,
         chunks |-> [i \in DOMAIN kinds |-> kinds[i] @@ [start |-> EndOf(kinds, i - 1)]]]

Bad == {<<Fmt(16, 0), Data(4)>>, <<Fmt(14, 1), Data(4)>>, <<Fmt(16, 2), Data(6)>>,
        <<Fmt(17, 1), Data(3)>>}

MCFiles ==
    {FileOf(chunks, d[1], d[2]) : chunks \in ChunkLists, d \in {<<0, 0>>, <<0, 1>>, <<1, 1>>, <<0, -1>>}}
        \cup {FileOf(chunks, 0, 0) : chunks \in Bad}
        \cup {FileOf(<<Fmt(16, 1), Data(10)>>, 0, d) : d \in {0, -3}}

(* Before the start, on a frame and between two, and behind the end. *)
MCSeekTargets == {-1, 2, 3, 4, 9}

=============================================================================
