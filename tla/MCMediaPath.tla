---------------------------- MODULE MCMediaPath ----------------------------
(***************************************************************************)
(* Instances of MediaPath for TLC: short files over short chunks.          *)
(***************************************************************************)
EXTENDS MediaPath, TLC

\* The instances are among those the theorems about packets and types are for.
ASSUME LossAssumption == MaxLost < SeqMod /\ Capacity > 3

Unit(code, bytes) == [code |-> code, bytes |-> bytes]

\* A parameter set, and pictures that need one, two full, or more packets, with
\* zeros inside them.  None ends with a zero, as in any H.264 stream.
Bodies == {<<SPS, 2>>, <<5, 0, 2>>, <<5, 0, 0, 2>>, <<5, 2, 1, 2, 0, 2>>, <<5, 2, 0, 2, 2, 0, 2>>}

Nals == {Unit(code, bytes) : code \in {3, 4}, bytes \in Bodies}

ShortMovies == UNION {[1..n -> Nals] : n \in 1..4}

\* Those the theorems about files are for; four units begin with a parameter set.
ClearMovies == {m \in ShortMovies : Film(m) /\ (Len(m) = 4 => m[1].bytes = <<SPS, 2>>)}

\* AAC frames, as long as Room allows.
AdtsFrames == {Unit(AdtsSize, bytes) : bytes \in {<<5>>, <<5, 2, 7>>}}

Recordings == {m \in UNION {[1..n -> AdtsFrames] : n \in 1..7} : Recording(m)}

MoviesAndRecordings == ClearMovies \cup Recordings

\* A zero in the last byte of the first chunk of twelve, inside a frame, and two
\* more chunks after it.
StraddlingMovies ==
  {<<Unit(3, <<5, 0, 2>>), Unit(4, <<5, 0, 2>>), Unit(4, <<5, 2, 0, 2, 2, 0, 2>>), Unit(code, bytes)>> :
     code \in {3, 4}, bytes \in {<<5, 0, 0, 2>>, <<5, 2, 1, 2, 0, 2>>}}
=============================================================================
