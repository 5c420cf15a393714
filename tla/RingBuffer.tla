----------------------------- MODULE RingBuffer -----------------------------
(***************************************************************************)
(* RingBuffer (RingBuffer.cpp): two arrays, filled in turn with the chunks *)
(* of a file, and iterators over them.  An iterator that crosses from one  *)
(* array to the other has the other filled with the next chunk, whether it *)
(* is the reader's own or the temporary of a look-ahead.                   *)
(*                                                                         *)
(* A ring buffer is a record, and what changes one returns the new one, so *)
(* that the calls of an expression can be made one after the other.        *)
(***************************************************************************)
EXTENDS Naturals, Sequences

CONSTANT Capacity       \* capacity_ (1 MB in the code)

ASSUME RingAssumption == Capacity \in Nat \ {0}

Offsets == 0..(Capacity - 1)

\* A place in the arrays: offect_ and cur_arr_, of the buffer or of an iterator.
Place(off, arr) == [off |-> off, arr |-> arr]

(* fread of the chunk that starts at from, into array a.  A short chunk is *)
(* the last one; it leaves what lies behind it in the array as it was.     *)
ReadChunk(r, a, from) ==
  LET left == Len(r.file) - from
      size == IF left < Capacity THEN left ELSE Capacity
  IN [r EXCEPT
       !.data[a] = [o \in Offsets |-> IF o < size THEN r.file[from + o + 1] ELSE @[o]],
       !.taken = from + size,
       !.eof = size < Capacity,
       !.last = IF size < Capacity THEN Place(size, a) ELSE @]

\* Wrong variant: behind its end, the file starts again.
ReadFileAgain(r, a) == ReadChunk(r, a, IF r.eof THEN 0 ELSE r.taken)

ReadFile(r, a) == IF r.eof THEN r ELSE ReadChunk(r, a, r.taken)

\* The constructor: array 0 holds the first chunk.  (last is remain_size_ and
\* eof_arr_, which mean nothing before the last chunk was read.)
NewRing(file) ==
  ReadFile([file |-> file, taken |-> 0, eof |-> FALSE, last |-> Place(0, 0),
            data |-> [a \in {0, 1} |-> [o \in Offsets |-> 0]],
            begin |-> Place(0, 0)], 0)

\* Before the last chunk was read, end() is nowhere.
End(r) == IF r.eof THEN r.last ELSE Place(Capacity + 1, r.begin.arr)

SetOffect(r, it) == [r EXCEPT !.begin = it]

ByteAt(r, it) == r.data[it.arr][it.off]

\* Wrong variant: the other array is not filled.
AdvanceInPlace(r, it, n) ==
  IF it.off + n < Capacity
    THEN [ring |-> r, it |-> Place(it.off + n, it.arr)]
    ELSE [ring |-> r, it |-> Place(it.off + n - Capacity, 1 - it.arr)]

\* operator+= (also as operator+, on a copy, and with n = 1 as operator++).
Advance(r, it, n) ==
  IF it.off + n < Capacity
    THEN [ring |-> r, it |-> Place(it.off + n, it.arr)]
  ELSE IF n > 2 * Capacity - it.off
    THEN [ring |-> r, it |-> it]
  ELSE [ring |-> ReadFile(r, 1 - it.arr),
        it |-> Place(it.off + n - Capacity, 1 - it.arr)]

\* operator!= and operator==, which are not each other's negation: places with
\* the same offset in different arrays are equal.
Differ(it1, it2) == it1 # it2
Same(it1, it2) == it1.off = it2.off /\ it1.arr # it2.arr

(* GetDataBetween, for places the code calls it with.  Places in the same  *)
(* array and out of order make the size negative; the vector of that size  *)
(* throws.                                                                 *)
Ordered(from, to) == from.arr = to.arr => from.off <= to.off

DataBetween(r, from, to) ==
  LET size == IF from.arr = to.arr THEN to.off - from.off ELSE to.off + Capacity - from.off
  IN [i \in 1..size |->
        IF from.off + i <= Capacity
          THEN r.data[from.arr][from.off + i - 1]
          ELSE r.data[to.arr][from.off + i - 1 - Capacity]]
=============================================================================
