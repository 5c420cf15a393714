---------------------------- MODULE MediaSource ----------------------------
(***************************************************************************)
(* MediaSource, as far as both its derived classes have it: the ring       *)
(* buffer over the file, and the frames GetFrameFromFile returned, which   *)
(* the task that called it puts into frames_ unless they are empty.        *)
(***************************************************************************)
EXTENDS RingBuffer

VARIABLES
  ring,         \* ring_buffer_
  returned,     \* the frames returned so far
  last          \* what the last call returned: "frame", "nothing", "none" yet

sourceVars == <<ring, returned, last>>

SourceInit(file) ==
  /\ ring = NewRing(file)
  /\ returned = <<>>
  /\ last = "none"

\* The ends of a call, which leaves the buffer as r.
Nothing(r) ==
  /\ ring' = r
  /\ last' = "nothing"
  /\ UNCHANGED returned

Frame(r, frame) ==
  /\ ring' = r
  /\ last' = IF frame = <<>> THEN "nothing" ELSE "frame"
  /\ returned' = IF frame = <<>> THEN returned ELSE Append(returned, frame)
=============================================================================
