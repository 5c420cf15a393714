----------------------------- MODULE H264Source -----------------------------
(***************************************************************************)
(* H264MediaSource::GetFrameFromFile: finds the next start code in the     *)
(* ring buffer and returns what lies between it and the one before.  One   *)
(* call is a step that looks for the start code at the beginning, one step *)
(* per byte of the loop, and a step that returns.                          *)
(***************************************************************************)
EXTENDS MediaSource

VARIABLES
  at,           \* "call", "scan" or "found"
  it,           \* the iterator of the call
  off           \* the length of the start code of the call

scanVars == <<at, it, off>>

\* Comparing code, byte by byte, with what is at place and after it: && goes no
\* further than the first difference, and every it + k is a look-ahead.
Compare(r, place, code) ==
  LET after[k \in 0..Len(code)] ==
        IF k = 0 THEN [ring |-> r, held |-> TRUE]
        ELSE LET before == after[k - 1]
                 ahead  == Advance(before.ring, place, k - 1)
             IN IF before.held
                  THEN [ring |-> ahead.ring, held |-> ByteAt(ahead.ring, ahead.it) = code[k]]
                  ELSE before
  IN after[Len(code)]

\* startCode3 and, where there is none, startCode4: the length of the code.
StartCode(r, place) ==
  LET three == Compare(r, place, <<0, 0, 1>>)
      four  == Compare(three.ring, place, <<0, 0, 0, 1>>)
  IN IF three.held THEN [ring |-> three.ring, length |-> 3]
     ELSE [ring |-> four.ring, length |-> IF four.held THEN 4 ELSE 0]

ScanInit ==
  /\ at = "call"
  /\ it = Place(0, 0)
  /\ off = 0

\* The end of a call.
CallEnds == at' = "call" /\ UNCHANGED <<it, off>>

\* The call, up to the loop.
Call ==
  /\ at = "call"
  /\ LET code == StartCode(ring, ring.begin)
         next == Advance(code.ring, ring.begin, code.length)
     IN IF Same(ring.begin, End(ring)) THEN Nothing(ring) /\ CallEnds
        ELSE IF code.length = 0 THEN Nothing(code.ring) /\ CallEnds
        ELSE /\ ring' = next.ring
             /\ it' = next.it
             /\ off' = code.length
             /\ at' = "scan"
             /\ UNCHANGED <<returned, last>>

\* Wrong variant: a byte that is not zero cannot be in a start code, nor what
\* follows it be the first of one.
ScanByTwo ==
  /\ at = "scan"
  /\ LET code == StartCode(ring, it)
         next == Advance(code.ring, it, IF ByteAt(ring, it) = 0 THEN 1 ELSE 2)
     IN IF Differ(it, End(ring)) /\ code.length = 0
          THEN ring' = next.ring /\ it' = next.it /\ UNCHANGED at
          ELSE /\ ring' = IF Differ(it, End(ring)) THEN code.ring ELSE ring
               /\ at' = "found"
               /\ UNCHANGED it
  /\ UNCHANGED <<off, returned, last>>

\* One turn of the loop, which ends at a start code or at the end of the file.
Scan ==
  /\ at = "scan"
  /\ LET code == StartCode(ring, it)
         next == Advance(code.ring, it, 1)
     IN IF Differ(it, End(ring)) /\ code.length = 0
          THEN ring' = next.ring /\ it' = next.it /\ UNCHANGED at
          ELSE /\ ring' = IF Differ(it, End(ring)) THEN code.ring ELSE ring
               /\ at' = "found"
               /\ UNCHANGED it
  /\ UNCHANGED <<off, returned, last>>

\* Wrong variant: a frame that the end of the file ends is not returned.
ReturnUnlessLast ==
  /\ at = "found"
  /\ CallEnds
  /\ LET start == Advance(ring, ring.begin, off)
     IN IF it = End(ring) \/ ~Ordered(start.it, it)
          THEN Nothing(ring)
          ELSE Frame(SetOffect(start.ring, it), DataBetween(start.ring, start.it, it))

\* What follows the loop.  A vector of a negative size throws.
Return ==
  /\ at = "found"
  /\ CallEnds
  /\ LET start == Advance(ring, ring.begin, off)
     IN IF Same(it, End(ring)) THEN Nothing(ring)
        ELSE IF ~Ordered(start.it, it) THEN Nothing(start.ring)
        ELSE Frame(SetOffect(start.ring, it), DataBetween(start.ring, start.it, it))
=============================================================================
