----------------------------- MODULE AACSource -----------------------------
(***************************************************************************)
(* AACMediaSource::GetFrameFromFile: reads the ADTS header at the          *)
(* beginning of the buffer, returns what the header says belongs to it,    *)
(* and goes on behind.  Header and frame are read through pointers into    *)
(* one array; only the place where the frame starts, and the place behind  *)
(* it, are found with iterators that cross from one array to the other.    *)
(***************************************************************************)
EXTENDS MediaSource

CONSTANT Beyond     \* what lies in memory behind an array

ASSUME BeyondAssumption == Beyond \notin Nat

\* The seven bytes of a header, abstracted to the sync word and the length of
\* the frame, header included (aacFrameLength).
AdtsSize == 2
Sync == 255

\* The k-th byte from place on, through a pointer.
Through(r, place, k) ==
  IF place.off + k < Capacity THEN r.data[place.arr][place.off + k] ELSE Beyond

\* What parseAdtsHeader may make of the length: anything, of bytes behind an array.
Lengths(r, place) ==
  IF Through(r, place, 1) = Beyond THEN AdtsSize..Capacity ELSE {Through(r, place, 1)}

(* it + 7 and it + aacFrameLength each read the next chunk when they reach *)
(* the other array.  There is no look at the end of the file: behind its   *)
(* last frame, parseAdtsHeader fails on what the array holds there.        *)
GetFrameFromFile ==
  IF Through(ring, ring.begin, 0) # Sync
    THEN Nothing(ring)
    ELSE \E length \in Lengths(ring, ring.begin) :
           LET body == Advance(ring, ring.begin, AdtsSize)
               next == Advance(body.ring, ring.begin, length)
           IN Frame(SetOffect(next.ring, next.it),
                    [k \in 1..(length - AdtsSize) |-> Through(body.ring, body.it, k - 1)])
=============================================================================
