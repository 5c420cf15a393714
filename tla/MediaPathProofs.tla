-------------------------- MODULE MediaPathProofs --------------------------
(***************************************************************************)
(* What the sinks do to a frame, for every frame, every size of a packet   *)
(* and every modulus of the sequence numbers: the packets fit the buffer,  *)
(* a client that follows the RFCs gets the frame or nothing, and can tell  *)
(* pictures apart by their timestamps.                                     *)
(*                                                                         *)
(* The client keeps a frame that is not complete across any number of lost *)
(* packets.  PartialInv says why nothing wrong comes of it: as long as     *)
(* fewer than SeqMod are lost, the number it expects is that of the next   *)
(* packet only if none was lost in between.  What the sources return is    *)
(* known to be bytes, and never empty (SourceInv); that it is the frames   *)
(* of the file is not needed here, and shown in MediaFileProofs.  Of the   *)
(* scan for a start code it is shown that it comes to its end, wherever    *)
(* that leads (ScanNearsEnd).                                              *)
(***************************************************************************)
EXTENDS MediaPath, SequenceTheorems, TLAPS

\* A place may be one behind the last of an array.
Places == [off : 0..Capacity, arr : {0, 1}]

Arrays == [{0, 1} -> [Offsets -> Nat]]

Rings == {r \in [file : Seq(Nat), taken : Nat, eof : BOOLEAN, last : Places,
                 data : Arrays, begin : Places] : r.taken <= Len(r.file)}

\* Those of one beginning.
RingsAt(place) == {r \in Rings : r.begin = place}

FrameTypes == Seq(Byte) \ {<<>>}

SourceInv ==
  /\ ring \in Rings
  /\ returned \in Seq(FrameTypes)
  /\ at \in {"call", "scan", "found"}
  /\ it \in Places /\ off \in Nat

-----------------------------------------------------------------------------

\* The first m + 1 bytes of what the client makes of a frame in fragments.
Joined(frame, m) == [k \in 1..(m + 1) |-> IF k <= Len(frame) THEN frame[k] ELSE Stray]

\* How many bytes of a frame are in the first i of its n fragments, without its
\* first byte but with the stray one.
UptoOf(frame, n, i) == IF i = n THEN Len(frame) ELSE i * MaxPkt

\* Packet p is fragment i of n.
FragmentOf(p, frame, n, i) ==
  /\ p.kind = "fragment" /\ p.type = frame[1]
  /\ p.start = (i = 1)
  /\ p.end = (i = n)
  /\ UptoOf(frame, n, i - 1) < UptoOf(frame, n, i)
  /\ UptoOf(frame, n, i - 1) < Len(frame)
  /\ p.data = [k \in 1..(UptoOf(frame, n, i) - UptoOf(frame, n, i - 1)) |->
                 IF UptoOf(frame, n, i - 1) + k < Len(frame)
                   THEN frame[UptoOf(frame, n, i - 1) + k + 1] ELSE Stray]

\* The frame that was sent last.
Current == returned[shown]
Upto(i) == UptoOf(Current, Len(sent), i)

\* The sequence number of packet i of the current frame, and of what comes next.
SeqOf(i) == IF i <= Len(sent) THEN sent[i].seq ELSE seq

Numbered ==
  /\ \A i \in 1..(Len(sent) + 1) : SeqOf(i) \in 0..(SeqMod - 1)
  /\ \A i \in 1..Len(sent) : SeqOf(i + 1) = (SeqOf(i) + 1) % SeqMod

SentWhole ==
  /\ Len(sent) = 1
  /\ sent[1].kind \in {"single", "au"} /\ sent[1].data = Current
  /\ IsAudio \/ Len(Current) <= MaxPkt

SentInFragments ==
  /\ ~IsAudio /\ Len(Current) > MaxPkt
  /\ Len(sent) > 1
  /\ \A i \in 1..Len(sent) : FragmentOf(sent[i], Current, Len(sent), i)

SentInv ==
  /\ shown \in 0..Len(returned) /\ timestamp \in Nat
  /\ Len(sent) \in Nat /\ arrived \in 0..Len(sent)
  /\ Numbered
  /\ IF shown = 0 THEN sent = <<>> ELSE SentWhole \/ SentInFragments

\* What the client has of a frame is the beginning of the current one, and the
\* next packet goes on with it; or a packet was lost, and the number of the next
\* packet tells: fewer than SeqMod were lost since.
PartialInv ==
  partial # <<>> =>
    \E d \in 0..lost :
      /\ (nextSeq + d) % SeqMod = SeqOf(arrived + 1)
      /\ d = 0 => /\ shown > 0 /\ SentInFragments
                  /\ arrived \in 1..(Len(sent) - 1)
                  /\ partial = Joined(Current, Upto(arrived))

\* Without loss it has all of it.
LosslessInv ==
  lost = 0 =>
    /\ Len(received) = IF InFlight THEN shown - 1 ELSE shown
    /\ \A i \in DOMAIN received : received[i].bytes = Arrives(returned[i])
    /\ InFlight /\ arrived > 0 => partial # <<>>

ReceivedInv ==
  /\ received \in Seq([bytes : Seq(Byte) \ {<<>>}, timestamp : Nat])
  /\ \A i \in DOMAIN received : \E j \in 1..shown : received[i].bytes = Arrives(returned[j])

ClientInv ==
  /\ lost \in 0..MaxLost /\ nextSeq \in 0..(SeqMod - 1)
  /\ ReceivedInv /\ PartialInv /\ LosslessInv

-----------------------------------------------------------------------------

\* The timestamps on the way are those of one frame.
SentTimes ==
  /\ \A i \in 1..Len(sent) : sent[i].timestamp \in Nat /\ sent[i].timestamp = sent[1].timestamp
  /\ InFlight => timestamp = IF ~IsAudio /\ Timeless(Current) THEN sent[1].timestamp
                             ELSE sent[1].timestamp + 1

\* The timestamp of the packets that come next.
Now == IF InFlight THEN sent[1].timestamp ELSE timestamp

Parameters(i) == ~IsAudio /\ received[i].bytes[1] \in {SPS, PPS}

\* The client's timestamps never go back, and stand still at parameter sets only.
TimeInv ==
  /\ \A i \in DOMAIN received : /\ received[i].timestamp <= Now
                                /\ received[i].timestamp = Now => Parameters(i)
  /\ \A i, j \in DOMAIN received :
       i < j => /\ received[i].timestamp <= received[j].timestamp
                /\ received[i].timestamp = received[j].timestamp => Parameters(i)

-----------------------------------------------------------------------------
(* Sequence numbers.                                                       *)

\* A remainder is known by the multiple it is added to.
LEMMA RemainderOf ==
  ASSUME NEW m \in Nat \ {0}, NEW q \in Nat, NEW r \in 0..(m - 1)
  PROVE  (m * q + r) % m = r
OBVIOUS

\* The successor of a number that wrapped around.
LEMMA NextNumber ==
  ASSUME NEW a \in Nat, NEW m \in Nat \ {0}
  PROVE  /\ a % m \in 0..(m - 1)
         /\ ((a % m) + 1) % m = (a + 1) % m
<1>1. a % m \in 0..(m - 1)
  OBVIOUS
<1>2. a = m * (a \div m) + (a % m) /\ a \div m \in Nat
  OBVIOUS
<1> DEFINE r == a % m
           q == a \div m
<1> HIDE DEF r, q
<1>3. a + 1 = m * q + (r + 1) /\ r \in 0..(m - 1) /\ q \in Nat
  BY <1>1, <1>2 DEF r, q
<1>4. CASE r + 1 < m
  <2>1. r + 1 \in 0..(m - 1)
    BY <1>3, <1>4
  <2>2. (m * q + (r + 1)) % m = r + 1 /\ (m * 0 + (r + 1)) % m = r + 1
    BY ONLY <1>3, <2>1, RemainderOf, m \in Nat \ {0}
  <2>3. m * 0 + (r + 1) = r + 1
    BY <1>3
  <2>4. QED
    BY <1>1, <1>3, <2>2, <2>3 DEF r
<1>5. CASE r + 1 = m
  <2>1. a + 1 = m * (q + 1) + 0 /\ q + 1 \in Nat /\ 0 \in 0..(m - 1)
    BY <1>3, <1>5
  <2>2. (m * (q + 1) + 0) % m = 0 /\ (m * 1 + 0) % m = 0
    BY ONLY <2>1, RemainderOf, m \in Nat \ {0}
  <2>3. m * 1 + 0 = r + 1
    BY <1>3, <1>5
  <2>4. QED
    BY <1>1, <2>1, <2>2, <2>3 DEF r
<1>6. QED
  BY <1>3, <1>4, <1>5

\* Fewer than m steps do not lead around to where they started.
LEMMA NotAround ==
  ASSUME NEW m \in Nat \ {0}, NEW x \in 0..(m - 1), NEW d \in 0..(m - 1), (x + d) % m = x
  PROVE  d = 0
OBVIOUS

-----------------------------------------------------------------------------
(* The ring buffer keeps its shape, whatever is looked at.                 *)

\* A chunk of the file in one of the arrays.
LEMMA ReadFileType ==
  ASSUME NEW r \in Rings, NEW a \in {0, 1}
  PROVE  ReadFile(r, a) \in Rings /\ ReadFile(r, a).begin = r.begin
<1>1. CASE r.eof
  BY <1>1 DEF ReadFile
<1>2. CASE ~r.eof
  <2> DEFINE from == r.taken
             left == Len(r.file) - from
             size == IF left < Capacity THEN left ELSE Capacity
             data == [r.data EXCEPT ![a] =
                        [o \in Offsets |-> IF o < size THEN r.file[from + o + 1] ELSE @[o]]]
             ends == IF size < Capacity THEN Place(size, a) ELSE r.last
  <2>1. /\ r.file \in Seq(Nat) /\ Len(r.file) \in Nat /\ from \in Nat /\ from <= Len(r.file)
        /\ r.data \in Arrays /\ r.last \in Places /\ r.begin \in Places
        /\ Capacity \in Nat \ {0}
    BY RingAssumption DEF Rings
  <2>2. size \in 0..Capacity /\ from + size \in Nat /\ from + size <= Len(r.file)
    BY <2>1
  <2> HIDE DEF size, from
  <2>3. ASSUME NEW o \in Offsets, o < size PROVE r.file[from + o + 1] \in Nat
    <3>1. from + o + 1 \in 1..Len(r.file)
      <4>1. o \in Nat
        BY RingAssumption DEF Offsets
      <4>2. QED
        BY <2>1, <2>2, <2>3, <4>1
    <3>2. QED
      BY ONLY <2>1, <3>1, ElementOfSeq
  <2>4. data \in Arrays
    <3>1. [o \in Offsets |-> IF o < size THEN r.file[from + o + 1] ELSE r.data[a][o]] \in [Offsets -> Nat]
      BY <2>1, <2>3 DEF Arrays
    <3>2. QED
      BY <2>1, <3>1 DEF Arrays
  <2>5. ends \in Places
    BY <2>1, <2>2 DEF Place, Places
  <2>6. ReadFile(r, a) = [r EXCEPT !.data = data, !.taken = from + size,
                                   !.eof = (size < Capacity), !.last = ends]
    BY <1>2, Zenon DEF ReadFile, ReadChunk, size, from
  <2> HIDE DEF data, ends
  <2> DEFINE Shapes == [file : Seq(Nat), taken : Nat, eof : BOOLEAN, last : Places,
                        data : Arrays, begin : Places]
             taken  == from + size
             eof    == size < Capacity
             next   == [r EXCEPT !.data = data, !.taken = taken, !.eof = eof, !.last = ends]
  <2>7. r \in Shapes
    BY DEF Rings
  <2>8. next \in Shapes /\ next.file = r.file /\ next.taken = taken /\ next.begin = r.begin
    <3>1. eof \in BOOLEAN /\ taken \in Nat
      BY <2>2
    <3> HIDE DEF eof, taken
    <3>2. QED
      BY <2>4, <2>5, <2>7, <3>1
  <2> HIDE DEF next, Shapes
  <2>9. next \in Rings
    BY <2>2, <2>8 DEF Rings, Shapes
  <2>10. QED
    BY <2>6, <2>8, <2>9 DEF next
<1>3. QED
  BY <1>1, <1>2

\* The constructor makes a ring buffer of that shape.
LEMMA NewRingType ==
  ASSUME NEW file \in Seq(Nat)
  PROVE  NewRing(file) \in Rings
<1> DEFINE r == [file |-> file, taken |-> 0, eof |-> FALSE, last |-> Place(0, 0),
                 data |-> [a \in {0, 1} |-> [o \in Offsets |-> 0]], begin |-> Place(0, 0)]
<1>1. Place(0, 0) \in Places
  BY RingAssumption DEF Place, Places
<1>2. [a \in {0, 1} |-> [o \in Offsets |-> 0]] \in Arrays
  BY DEF Arrays
<1>3. r \in Rings
  BY <1>1, <1>2, LenProperties DEF Rings
<1>4. QED
  BY <1>3, ReadFileType DEF NewRing

\* However far an iterator goes, it stays in an array, or one behind it.
LEMMA AdvanceType ==
  ASSUME NEW r \in Rings, NEW place \in Places, NEW k \in Nat
  PROVE  /\ Advance(r, place, k).ring \in Rings /\ Advance(r, place, k).ring.begin = r.begin
         /\ Advance(r, place, k).it \in Places
<1>1. /\ place.off \in 0..Capacity /\ place.arr \in {0, 1} /\ Capacity \in Nat \ {0}
      /\ 1 - place.arr \in {0, 1}
  BY RingAssumption DEF Places
<1>2. CASE place.off + k < Capacity
  <2>1. Place(place.off + k, place.arr) \in Places
    BY <1>1, <1>2 DEF Place, Places
  <2>2. QED
    BY <1>2, <2>1 DEF Advance
<1>3. CASE ~(place.off + k < Capacity) /\ k > 2 * Capacity - place.off
  BY <1>3 DEF Advance
<1>4. CASE ~(place.off + k < Capacity) /\ ~(k > 2 * Capacity - place.off)
  <2>1. place.off + k - Capacity \in 0..Capacity
    BY <1>1, <1>4
  <2>2. Place(place.off + k - Capacity, 1 - place.arr) \in Places
    BY <1>1, <2>1 DEF Place, Places
  <2>3. ReadFile(r, 1 - place.arr) \in Rings /\ ReadFile(r, 1 - place.arr).begin = r.begin
    BY <1>1, ReadFileType
  <2>4. QED
    BY <1>4, <2>2, <2>3 DEF Advance
<1>5. QED
  BY <1>2, <1>3, <1>4

\* A look at the byte k - 1 behind a place, if those before it were as in the code.
Looked(before, place, code, k) ==
  LET ahead == Advance(before.ring, place, k - 1)
  IN IF before.held
       THEN [ring |-> ahead.ring, held |-> ByteAt(ahead.ring, ahead.it) = code[k]]
       ELSE before

\* after has what n looks leave, one after the other.
Looks(after, n, r, place, code) ==
  after = [k \in 0..n |-> IF k = 0 THEN [ring |-> r, held |-> TRUE]
                          ELSE Looked(after[k - 1], place, code, k)]

\* Whatever looks there were, there can be one more.
LEMMA OneMoreLook ==
  ASSUME NEW r, NEW place, NEW code, NEW n \in Nat,
         \E after : Looks(after, n, r, place, code)
  PROVE  \E after : Looks(after, n + 1, r, place, code)
<1> PICK after : Looks(after, n, r, place, code)
  OBVIOUS
<1> DEFINE more == [k \in 0..(n + 1) |-> IF k <= n THEN after[k]
                                         ELSE Looked(after[n], place, code, n + 1)]
<1>1. \A k \in 0..(n + 1) : k # 0 => k - 1 \in 0..n /\ more[k - 1] = after[k - 1]
  OBVIOUS
<1>2. ASSUME NEW k \in 0..(n + 1)
      PROVE  more[k] = IF k = 0 THEN [ring |-> r, held |-> TRUE]
                       ELSE Looked(more[k - 1], place, code, k)
  <2>1. CASE k <= n
    <3>1. k \in 0..n /\ more[k] = after[k]
      BY <2>1
    <3>2. after[k] = IF k = 0 THEN [ring |-> r, held |-> TRUE]
                     ELSE Looked(after[k - 1], place, code, k)
      BY <3>1 DEF Looks
    <3> HIDE DEF more
    <3>3. QED
      BY <1>1, <3>1, <3>2
  <2>2. CASE k = n + 1
    <3>1. k # 0 /\ k - 1 = n /\ more[k] = Looked(after[n], place, code, n + 1)
      BY <2>2
    <3> HIDE DEF more
    <3>2. QED
      BY <1>1, <2>2, <3>1
  <2>3. QED
    BY <2>1, <2>2
<1>3. more = [k \in 0..(n + 1) |-> more[k]]
  OBVIOUS
<1> HIDE DEF more
<1>4. Looks(more, n + 1, r, place, code)
  BY <1>2, <1>3 DEF Looks
<1>5. QED
  BY <1>4

\* A comparison is as many looks as the code has bytes.
LEMMA CompareLooks ==
  ASSUME NEW r, NEW place, NEW code, Len(code) \in {3, 4}
  PROVE  \E after : /\ Looks(after, Len(code), r, place, code)
                    /\ Compare(r, place, code) = after[Len(code)]
<1> DEFINE E(n)  == \E after : Looks(after, n, r, place, code)
           after == CHOOSE a : Looks(a, Len(code), r, place, code)
<1>1. E(0)
  <2> DEFINE a == [k \in 0..0 |-> [ring |-> r, held |-> TRUE]]
  <2>1. Looks(a, 0, r, place, code)
    BY DEF Looks
  <2>2. QED
    BY <2>1
<1>2. E(1) /\ E(2) /\ E(3) /\ E(4)
  BY <1>1, OneMoreLook
<1>3. Looks(after, Len(code), r, place, code)
  BY <1>2
<1>4. Compare(r, place, code) = after[Len(code)]
  BY DEF Compare, Looks, Looked
<1>5. QED
  BY <1>3, <1>4

\* The looks of a comparison leave a ring buffer of the set S, which is closed
\* under looks.
LEMMA CompareStays ==
  ASSUME NEW S, NEW r \in S, NEW place, NEW code, Len(code) \in {3, 4},
         \A q \in S : \A k \in Nat : Advance(q, place, k).ring \in S
  PROVE  Compare(r, place, code).ring \in S
<1>1. PICK after : /\ Looks(after, Len(code), r, place, code)
                   /\ Compare(r, place, code) = after[Len(code)]
  BY CompareLooks
<1>2. after[0].ring \in S
  BY <1>1 DEF Looks
<1>3. ASSUME NEW k \in 1..Len(code), after[k - 1].ring \in S
      PROVE  after[k].ring \in S
  <2>1. k \in 0..Len(code) /\ k # 0 /\ k - 1 \in Nat
    OBVIOUS
  <2>2. after[k] = Looked(after[k - 1], place, code, k)
    BY <1>1, <2>1 DEF Looks
  <2>3. Advance(after[k - 1].ring, place, k - 1).ring \in S
    BY <1>3, <2>1
  <2>4. QED
    BY <1>3, <2>2, <2>3 DEF Looked
<1>4. after[Len(code)].ring \in S
  <2>1. 1 \in 1..Len(code) /\ 2 \in 1..Len(code) /\ 3 \in 1..Len(code)
    BY ONLY Len(code) \in {3, 4}
  <2>2. after[1 - 1].ring \in S => after[1].ring \in S
    BY <1>3, <2>1
  <2>3. after[2 - 1].ring \in S => after[2].ring \in S
    BY <1>3, <2>1
  <2>4. after[3 - 1].ring \in S => after[3].ring \in S
    BY <1>3, <2>1
  <2>5. 1 - 1 = 0 /\ 2 - 1 = 1 /\ 3 - 1 = 2 /\ 4 - 1 = 3
    OBVIOUS
  <2>6. after[3].ring \in S
    BY <1>2, <2>2, <2>3, <2>4, <2>5
  <2>7. CASE Len(code) = 3
    BY <2>6, <2>7
  <2>8. CASE Len(code) = 4
    <3>1. 4 \in 1..Len(code)
      BY <2>8
    <3>2. after[4 - 1].ring \in S => after[4].ring \in S
      BY <1>3, <3>1
    <3>3. QED
      BY <2>5, <2>6, <2>8, <3>2
  <2>9. QED
    BY <2>7, <2>8
<1>5. QED
  BY <1>1, <1>4

\* And so does the search for a start code, of three bytes or of four.
LEMMA StartCodeStays ==
  ASSUME NEW S, NEW r \in S, NEW place,
         \A q \in S : \A k \in Nat : Advance(q, place, k).ring \in S
  PROVE  StartCode(r, place).ring \in S /\ StartCode(r, place).length \in {0, 3, 4}
<1> DEFINE three == Compare(r, place, <<0, 0, 1>>)
           four  == Compare(three.ring, place, <<0, 0, 0, 1>>)
<1>1. three.ring \in S
  BY CompareStays
<1>2. four.ring \in S
  <2> HIDE DEF three
  <2>1. QED
    BY <1>1, CompareStays
<1>3. StartCode(r, place) = IF three.held THEN [ring |-> three.ring, length |-> 3]
                            ELSE [ring |-> four.ring, length |-> IF four.held THEN 4 ELSE 0]
  BY Zenon DEF StartCode
<1> HIDE DEF three, four
<1>4. QED
  BY <1>1, <1>2, <1>3

\* So the search keeps the ring buffer in shape.
LEMMA StartCodeType ==
  ASSUME NEW r \in Rings, NEW place \in Places
  PROVE  StartCode(r, place).ring \in RingsAt(r.begin) /\ StartCode(r, place).length \in {0, 3, 4}
<1>1. r \in RingsAt(r.begin)
  BY DEF RingsAt
<1>2. \A q \in RingsAt(r.begin) : \A k \in Nat : Advance(q, place, k).ring \in RingsAt(r.begin)
  BY AdvanceType DEF RingsAt
<1>3. QED
  BY <1>1, <1>2, StartCodeStays

\* What GetFrameFromFile returns of the arrays is a sequence of their bytes.
LEMMA DataBetweenType ==
  ASSUME NEW r \in Rings, NEW from \in Places, NEW to \in Places, Ordered(from, to)
  PROVE  DataBetween(r, from, to) \in Seq(Byte)
<1> DEFINE size == IF from.arr = to.arr THEN to.off - from.off ELSE to.off + Capacity - from.off
           byte(i) == IF from.off + i <= Capacity
                        THEN r.data[from.arr][from.off + i - 1]
                        ELSE r.data[to.arr][from.off + i - 1 - Capacity]
<1>1. /\ from.off \in 0..Capacity /\ to.off \in 0..Capacity /\ Capacity \in Nat
      /\ from.arr \in {0, 1} /\ to.arr \in {0, 1}
      /\ from.arr = to.arr => from.off <= to.off
      /\ r.data \in Arrays
  BY RingAssumption DEF Places, Rings, Ordered
<1>2. size \in Nat
  BY <1>1
<1>3. ASSUME NEW i \in 1..size PROVE byte(i) \in Byte
  <2>1. CASE from.off + i <= Capacity
    <3>1. from.off + i - 1 \in Offsets
      BY <1>1, <2>1 DEF Offsets
    <3>2. QED
      BY <1>1, <2>1, <3>1 DEF Arrays, Byte
  <2>2. CASE ~(from.off + i <= Capacity)
    <3>1. from.arr # to.arr /\ i <= to.off + Capacity - from.off
      BY <1>1, <2>2
    <3>2. from.off + i - 1 - Capacity \in Offsets
      BY <1>1, <2>2, <3>1 DEF Offsets
    <3>3. QED
      BY <1>1, <2>2, <3>2 DEF Arrays, Byte
  <2>3. QED
    BY <2>1, <2>2
<1>4. DataBetween(r, from, to) = [i \in 1..size |-> byte(i)]
  BY DEF DataBetween
<1> HIDE DEF size, byte
<1>5. QED
  BY <1>2, <1>3, <1>4, IsASeq

\* The end of a call adds the frame it found, unless that is empty.
LEMMA FrameType ==
  ASSUME returned \in Seq(FrameTypes), NEW r \in Rings, NEW frame \in Seq(Byte), Frame(r, frame)
  PROVE  ring' \in Rings /\ returned' \in Seq(FrameTypes)
<1>1. CASE frame = <<>>
  BY <1>1 DEF Frame
<1>2. CASE frame # <<>>
  <2>1. frame \in FrameTypes /\ returned' = Append(returned, frame) /\ ring' = r
    BY <1>2 DEF Frame, FrameTypes
  <2>2. QED
    BY <2>1
<1>3. QED
  BY <1>1, <1>2

\* So does it when an iterator becomes its beginning.
LEMMA SetOffectType ==
  ASSUME NEW r \in Rings, NEW place \in Places
  PROVE  SetOffect(r, place) \in Rings
BY DEF SetOffect, Rings

\* An AAC frame, read through a pointer, is a sequence of bytes, those behind
\* the array included.
LEMMA AccessUnitType ==
  ASSUME NEW r \in Rings, NEW place \in Places, NEW n \in Int
  PROVE  [k \in 1..n |-> Through(r, place, k - 1)] \in Seq(Byte)
<1>1. ASSUME NEW k \in Nat PROVE Through(r, place, k) \in Byte
  <2>1. place.off \in Nat /\ place.arr \in {0, 1} /\ r.data \in Arrays /\ Capacity \in Nat
    BY RingAssumption DEF Places, Rings
  <2>2. CASE place.off + k < Capacity
    <3>1. place.off + k \in Offsets
      BY <2>1, <2>2 DEF Offsets
    <3>2. QED
      BY <2>1, <2>2, <3>1 DEF Through, Arrays, Byte
  <2>3. CASE ~(place.off + k < Capacity)
    BY <2>3 DEF Through, Byte
  <2>4. QED
    BY <2>2, <2>3
<1>2. \A k \in 1..n : Through(r, place, k - 1) \in Byte
  BY <1>1
<1> DEFINE byte(k) == Through(r, place, k - 1)
<1> HIDE DEF byte
<1>3. \E m \in Nat : 1..n = 1..m
  <2>1. CASE n \in Nat
    BY <2>1
  <2>2. CASE n \notin Nat
    <3>1. 1..n = 1..0
      BY <2>2
    <3>2. QED
      BY <3>1
  <2>3. QED
    BY <2>1, <2>2
<1>4. [k \in 1..n |-> byte(k)] \in Seq(Byte)
  <2>1. PICK m \in Nat : 1..n = 1..m
    BY <1>3
  <2>2. \A k \in 1..m : byte(k) \in Byte
    BY <1>2, <2>1 DEF byte
  <2>3. [k \in 1..m |-> byte(k)] \in Seq(Byte)
    BY <2>2, IsASeq
  <2>4. QED
    BY <2>1, <2>3
<1>5. QED
  BY <1>4 DEF byte

-----------------------------------------------------------------------------
(* GetFrameFromFile keeps the ring buffer in shape and returns frames that *)
(* are sequences of bytes and never empty.                                 *)

\* The steps of a call for an H.264 file.
LEMMA FilmSource ==
  ASSUME SourceInv, Call \/ Scan \/ Return
  PROVE  SourceInv'
<1>1. ring.begin \in Places /\ ring \in Rings /\ it \in Places /\ off \in Nat
  BY DEF SourceInv, Rings
<1>2. CASE Call
  <2> DEFINE code == StartCode(ring, ring.begin)
             next == Advance(code.ring, ring.begin, code.length)
  <2>1. code.ring \in Rings /\ code.length \in Nat
    BY <1>1, StartCodeType DEF RingsAt
  <2>2. next.ring \in Rings /\ next.it \in Places
    <3> HIDE DEF code
    <3>1. QED
      BY <1>1, <2>1, AdvanceType
  <2>3. \/ Nothing(ring) /\ CallEnds
        \/ Nothing(code.ring) /\ CallEnds
        \/ /\ ring' = next.ring /\ it' = next.it /\ off' = code.length
           /\ at' = "scan" /\ UNCHANGED <<returned, last>>
    BY <1>2, Zenon DEF Call
  <2> HIDE DEF code, next
  <2>4. QED
    BY <2>1, <2>2, <2>3 DEF SourceInv, Nothing, CallEnds
<1>3. CASE Scan
  <2> DEFINE code == StartCode(ring, it)
             next == Advance(code.ring, it, 1)
  <2>1. code.ring \in Rings
    BY <1>1, StartCodeType DEF RingsAt
  <2>2. next.ring \in Rings /\ next.it \in Places
    <3> HIDE DEF code
    <3>1. QED
      BY <1>1, <2>1, AdvanceType
  <2>3. /\ \/ ring' = next.ring /\ it' = next.it /\ UNCHANGED at
           \/ ring' \in {ring, code.ring} /\ at' = "found" /\ UNCHANGED it
        /\ UNCHANGED <<off, returned, last>>
    BY <1>3, Zenon DEF Scan
  <2> HIDE DEF code, next
  <2>4. QED
    BY <2>1, <2>2, <2>3 DEF SourceInv
<1>4. CASE Return
  <2> DEFINE start == Advance(ring, ring.begin, off)
             frame == DataBetween(start.ring, start.it, it)
  <2>1. start.ring \in Rings /\ start.it \in Places
    BY <1>1, AdvanceType
  <2>2. CallEnds /\ \/ Nothing(ring)
                    \/ Nothing(start.ring)
                    \/ /\ Ordered(start.it, it)
                       /\ Frame(SetOffect(start.ring, it), frame)
    BY <1>4, Zenon DEF Return
  <2>3. Ordered(start.it, it) => frame \in Seq(Byte)
    <3> HIDE DEF start
    <3>1. QED
      BY <1>1, <2>1, DataBetweenType
  <2> HIDE DEF start, frame
  <2>4. ring' \in Rings /\ returned' \in Seq(FrameTypes)
    <3>1. CASE Nothing(ring) \/ Nothing(start.ring)
      BY <2>1, <3>1 DEF Nothing, SourceInv
    <3>2. CASE Ordered(start.it, it) /\ Frame(SetOffect(start.ring, it), frame)
      BY <1>1, <2>1, <2>3, <3>2, SetOffectType, FrameType DEF SourceInv
    <3>3. QED
      BY <2>2, <3>1, <3>2
  <2>5. QED
    BY <2>2, <2>4 DEF SourceInv, CallEnds
<1>5. QED
  BY <1>2, <1>3, <1>4

\* A call for an AAC file.
LEMMA AudioSource ==
  ASSUME SourceInv, GetFrameFromFile, UNCHANGED scanVars
  PROVE  SourceInv'
<1>1. ring.begin \in Places /\ ring \in Rings
  BY DEF SourceInv, Rings
<1>2. ring' \in Rings /\ returned' \in Seq(FrameTypes)
  <2>1. CASE Through(ring, ring.begin, 0) # Sync
    BY <2>1 DEF GetFrameFromFile, Nothing, SourceInv
  <2>2. CASE Through(ring, ring.begin, 0) = Sync
    <3> DEFINE body == Advance(ring, ring.begin, AdtsSize)
               next(length) == Advance(body.ring, ring.begin, length)
               frame(length) == [k \in 1..(length - AdtsSize) |-> Through(body.ring, body.it, k - 1)]
    <3>1. PICK length \in Lengths(ring, ring.begin) :
            Frame(SetOffect(next(length).ring, next(length).it), frame(length))
      BY <2>2, Zenon DEF GetFrameFromFile
    <3>2. length \in Nat
      <4>1. CASE Through(ring, ring.begin, 1) = Beyond
        <5>1. length \in AdtsSize..Capacity
          BY <4>1 DEF Lengths
        <5>2. QED
          BY <5>1, RingAssumption DEF AdtsSize
      <4>2. CASE Through(ring, ring.begin, 1) # Beyond
        <5>1. ring.begin.off \in Nat /\ ring.begin.arr \in {0, 1} /\ ring.data \in Arrays
          BY <1>1 DEF Places, Rings
        <5>2. length = Through(ring, ring.begin, 1) /\ ring.begin.off + 1 < Capacity
          BY <4>2 DEF Lengths, Through
        <5>3. ring.begin.off + 1 \in Offsets
          BY <5>1, <5>2, RingAssumption DEF Offsets
        <5>4. QED
          BY <5>1, <5>2, <5>3 DEF Through, Arrays
      <4>3. QED
        BY <4>1, <4>2
    <3>3. body.ring \in Rings /\ body.it \in Places
      BY <1>1, AdvanceType DEF AdtsSize
    <3> HIDE DEF body
    <3>4. next(length).ring \in Rings /\ next(length).it \in Places
      BY <1>1, <3>2, <3>3, AdvanceType
    <3>5. frame(length) \in Seq(Byte)
      <4>1. length - AdtsSize \in Int
        BY <3>2 DEF AdtsSize
      <4>2. QED
        BY <3>3, <4>1, AccessUnitType
    <3> HIDE DEF next, frame
    <3>6. SetOffect(next(length).ring, next(length).it) \in Rings
      BY <3>4, SetOffectType
    <3>7. QED
      BY <3>1, <3>5, <3>6, FrameType DEF SourceInv
  <2>3. QED
    BY <2>1, <2>2
<1>3. QED
  BY <1>2 DEF SourceInv, scanVars

\* The constructor and the iterator of the first call.
LEMMA SourceInvInit ==
  ASSUME Init
  PROVE  SourceInv
<1>1. FileOf(movie) \in Seq(Nat)
  BY FileAssumption DEF Init
<1>2. ring = NewRing(FileOf(movie)) /\ returned = <<>> /\ at = "call" /\ it = Place(0, 0) /\ off = 0
  BY DEF Init, SourceInit, ScanInit
<1>3. ring \in Rings
  BY <1>1, <1>2, NewRingType
<1>4. Place(0, 0) \in Places
  BY RingAssumption DEF Place, Places
<1>5. QED
  BY <1>2, <1>3, <1>4 DEF SourceInv

-----------------------------------------------------------------------------
(* The packets of a frame.                                                 *)

\* As many fragments as there are full ones and a rest, each with the bytes
\* between two multiples of MaxPkt, numbered from seq.
LEMMA FragmentsOf ==
  ASSUME NEW frame \in FrameTypes, Len(frame) > MaxPkt, seq \in Nat,
         NEW n, n = Len(Fragments(frame))
  PROVE  /\ n \in Nat /\ n > 1
         /\ \A i \in 1..n : /\ FragmentOf(Fragments(frame)[i], frame, n, i)
                            /\ Fragments(frame)[i].seq = (seq + i - 1) % SeqMod
                            /\ Fragments(frame)[i].timestamp = timestamp
                            /\ Fragments(frame)[i].size <= Room
<1> DEFINE L == Len(frame)
           full == L \div MaxPkt
           remain == L % MaxPkt
           number == IF remain > 0 THEN full + 1 ELSE full
           Size(i) == IF i <= full THEN MaxPkt ELSE remain
           Packet(i) == [seq |-> (seq + i - 1) % SeqMod, timestamp |-> timestamp, kind |-> "fragment",
                         type |-> frame[1], start |-> i = 1, end |-> i = number /\ i # 1,
                         data |-> Bytes(frame, 1 + (i - 1) * MaxPkt, Size(i)),
                         size |-> 2 + Size(i)]
<1>1. L \in Nat /\ MaxPkt \in Nat \ {0, 1}
  BY SinkAssumption, LenProperties DEF FrameTypes
<1>2. L = MaxPkt * full + remain /\ full \in Nat /\ remain \in 0..(MaxPkt - 1)
  BY <1>1
<1>3. Fragments(frame) = [i \in 1..number |-> Packet(i)]
  BY Zenon DEF Fragments
<1> HIDE DEF full, remain, Packet
<1>4. full >= 1 /\ (remain = 0 => full >= 2)
  <2>1. full = 0 => MaxPkt * full = 0
    BY <1>1
  <2>2. full = 1 => MaxPkt * full = MaxPkt
    BY <1>1
  <2>3. L > MaxPkt
    OBVIOUS
  <2> HIDE DEF L
  <2>4. QED
    BY <1>1, <1>2, <2>1, <2>2, <2>3
<1>5. number \in Nat /\ number > 1
  BY <1>2, <1>4
<1>6. n = number
  <2> HIDE DEF number
  <2>1. QED
    BY <1>3, <1>5
<1>7. ASSUME NEW i \in 1..n
      PROVE  /\ FragmentOf(Packet(i), frame, n, i)
             /\ Packet(i).seq = (seq + i - 1) % SeqMod
             /\ Packet(i).timestamp = timestamp
             /\ Packet(i).size <= Room
  <2> DEFINE from == UptoOf(frame, n, i - 1)
             to   == UptoOf(frame, n, i)
  <2>1. from = (i - 1) * MaxPkt /\ from \in Nat
    BY <1>1, <1>5, <1>6 DEF UptoOf
  <2>2. i * MaxPkt = (i - 1) * MaxPkt + MaxPkt /\ i * MaxPkt \in Nat
    BY <1>1, <1>5, <1>6
  <2>3. MaxPkt * full = full * MaxPkt
    BY <1>1, <1>2
  <2>4. to = from + Size(i) /\ Size(i) \in 1..MaxPkt /\ from < L
    <3>1. CASE i < n
      <4>1. i <= full /\ to = i * MaxPkt /\ Size(i) = MaxPkt
        BY <1>2, <1>5, <1>6, <3>1 DEF UptoOf
      <4>2. (i - 1) * MaxPkt < full * MaxPkt
        <5>1. i - 1 \in Nat /\ i - 1 < full
          <6> HIDE DEF from, to, L, number, Size
          <6>1. i \in Nat /\ i >= 1
            BY <1>5, <1>6
          <6>2. QED
            BY <1>2, <4>1, <6>1
        <5>2. QED
          BY <1>1, <1>2, <5>1
      <4> HIDE DEF from, to, L, number, Size
      <4>3. QED
        BY <1>1, <1>2, <2>1, <2>2, <2>3, <4>1, <4>2
    <3>2. CASE i = n /\ remain > 0
      <4>1. i = full + 1 /\ Size(i) = remain /\ to = L
        BY <1>2, <1>6, <3>2 DEF UptoOf
      <4>2. (i - 1) * MaxPkt = full * MaxPkt
        BY <1>1, <1>2, <4>1
      <4> HIDE DEF from, to, L, number, Size
      <4>3. QED
        BY <1>1, <1>2, <2>1, <2>3, <3>2, <4>1, <4>2
    <3>3. CASE i = n /\ ~(remain > 0)
      <4>1. i = full /\ Size(i) = MaxPkt /\ to = L /\ remain = 0
        BY <1>2, <1>6, <3>3 DEF UptoOf
      <4> HIDE DEF from, to, L, number, Size
      <4>2. QED
        BY <1>1, <1>2, <2>1, <2>2, <2>3, <4>1
    <3>4. QED
      BY <1>5, <1>6, <3>1, <3>2, <3>3
  <2>5. Packet(i).data = [k \in 1..(to - from) |-> IF from + k < L THEN frame[from + k + 1] ELSE Stray]
    <3>1. Packet(i).data = Bytes(frame, 1 + from, Size(i))
      BY <2>1 DEF Packet
    <3>2. to - from = Size(i)
      BY <2>1, <2>4
    <3>3. \A k \in 1..Size(i) : /\ 1 + from + k <= L <=> from + k < L
                                /\ 1 + from + k = from + k + 1
      BY <1>1, <2>1, <2>4
    <3> HIDE DEF from, to, Size
    <3>4. QED
      BY <3>1, <3>2, <3>3 DEF Bytes
  <2>6. Packet(i).end = (i = n)
    BY <1>5, <1>6 DEF Packet
  <2>7. Packet(i).size <= Room
    <3>1. Packet(i).size = 2 + Size(i)
      BY DEF Packet
    <3> HIDE DEF Size
    <3>2. QED
      BY <1>1, <2>4, <3>1 DEF Room
  <2>8. from < to
    <3> HIDE DEF from, to, Size
    <3>1. QED
      BY <1>1, <2>1, <2>4
  <2>9. /\ Packet(i).kind = "fragment" /\ Packet(i).type = frame[1] /\ Packet(i).start = (i = 1)
        /\ Packet(i).seq = (seq + i - 1) % SeqMod /\ Packet(i).timestamp = timestamp
    BY DEF Packet
  <2>10. FragmentOf(Packet(i), frame, n, i)
    <3> USE DEF from, to
    <3>1. QED
      BY <2>4, <2>5, <2>6, <2>8, <2>9, Zenon DEF FragmentOf
  <2>11. QED
    BY <2>7, <2>9, <2>10
<1>8. \A i \in 1..n : Fragments(frame)[i] = Packet(i)
  BY <1>3, <1>6
<1>9. QED
  BY <1>5, <1>6, <1>7, <1>8

-----------------------------------------------------------------------------
(* What is sent is the packets of the current frame, one after the other.  *)

\* The invariants of the source hold in every step: a call keeps them, and what
\* the sink and the client do leaves the source alone.
LEMMA SourceStep ==
  ASSUME SourceInv, [Next]_vars
  PROVE  SourceInv'
<1>1. CASE Take
  BY <1>1, FilmSource, AudioSource DEF Take
<1>2. CASE HandleTimeout
  BY <1>2 DEF HandleTimeout, sourceVars, scanVars, SourceInv
<1>3. CASE Arrive
  BY <1>3 DEF Arrive, sourceVars, scanVars, SourceInv
<1>4. CASE Enough \/ UNCHANGED vars
  BY <1>4 DEF Enough, vars, sourceVars, scanVars, SourceInv
<1>5. QED
  BY <1>1, <1>2, <1>3, <1>4 DEF Next

\* A call returns one more frame, or none.
LEMMA ReturnedGrows ==
  ASSUME Take
  PROVE  UNCHANGED returned \/ \E frame : returned' = Append(returned, frame)
<1>1. CASE Call
  BY <1>1, Zenon DEF Call, Nothing, CallEnds
<1>2. CASE Scan
  BY <1>2, Zenon DEF Scan
<1>3. CASE Return
  BY <1>3, Zenon DEF Return, Nothing, Frame
<1>4. CASE GetFrameFromFile
  BY <1>4, Zenon DEF GetFrameFromFile, Nothing, Frame
<1>5. QED
  BY <1>1, <1>2, <1>3, <1>4 DEF Take

\* The frames before stay.
LEMMA SourceGrows ==
  ASSUME SourceInv, SourceInv', Take
  PROVE  /\ Len(returned) \in Nat /\ Len(returned') \in Nat /\ Len(returned') >= Len(returned)
         /\ \A j \in 1..Len(returned) : returned'[j] = returned[j]
<1>1. UNCHANGED returned \/ \E frame : returned' = Append(returned, frame)
  BY ReturnedGrows
<1>2. returned \in Seq(FrameTypes) /\ returned' \in Seq(FrameTypes)
  BY DEF SourceInv
<1>3. CASE UNCHANGED returned
  BY <1>2, <1>3, LenProperties
<1>4. ASSUME NEW frame, returned' = Append(returned, frame)
      PROVE  /\ Len(returned') = Len(returned) + 1
             /\ \A j \in 1..Len(returned) : returned'[j] = returned[j]
  BY <1>2, <1>4
<1>5. QED
  BY <1>1, <1>2, <1>3, <1>4, LenProperties

\* Packets that are numbered from seq are numbered one after the other.
LEMMA NumberedFrom ==
  ASSUME seq \in 0..(SeqMod - 1), Len(sent') \in Nat,
         \A i \in 1..Len(sent') : sent'[i].seq = (seq + i - 1) % SeqMod,
         seq' = (seq + Len(sent')) % SeqMod
  PROVE  Numbered' /\ SeqOf(1)' = seq
<1> DEFINE n == Len(sent')
<1> USE SinkAssumption
<1>1. \A i : SeqOf(i)' = IF i <= n THEN sent'[i].seq ELSE seq'
  BY DEF SeqOf
<1>2. ASSUME NEW i \in 1..(n + 1) PROVE SeqOf(i)' = (seq + i - 1) % SeqMod
  <2>1. CASE i <= n
    <3>1. i \in 1..n
      BY <2>1
    <3>2. QED
      BY <1>1, <2>1, <3>1
  <2>2. CASE ~(i <= n)
    <3>1. i = n + 1
      BY <2>2
    <3>2. seq + n = seq + i - 1
      BY <3>1
    <3>3. QED
      BY <1>1, <2>2, <3>2
  <2>3. QED
    BY <2>1, <2>2
<1>3. ASSUME NEW i \in 1..(n + 1) PROVE SeqOf(i)' \in 0..(SeqMod - 1)
  BY <1>2
<1>4. ASSUME NEW i \in 1..n PROVE SeqOf(i + 1)' = (SeqOf(i)' + 1) % SeqMod
  <2>1. seq + i - 1 \in Nat /\ (seq + i - 1) + 1 = seq + (i + 1) - 1
    OBVIOUS
  <2>2. (((seq + i - 1) % SeqMod) + 1) % SeqMod = ((seq + i - 1) + 1) % SeqMod
    BY <2>1, NextNumber
  <2>3. SeqOf(i)' = (seq + i - 1) % SeqMod /\ SeqOf(i + 1)' = (seq + (i + 1) - 1) % SeqMod
    BY <1>2
  <2>4. QED
    BY <2>1, <2>2, <2>3
<1>5. SeqOf(1)' = seq
  <2>1. 1 \in 1..(n + 1) /\ seq + 1 - 1 = seq
    OBVIOUS
  <2>2. SeqOf(1)' = (seq + 1 - 1) % SeqMod
    BY <1>2, <2>1
  <2>3. seq % SeqMod = seq
    OBVIOUS
  <2>4. QED
    BY <2>1, <2>2, <2>3
<1>6. QED
  BY <1>3, <1>4, <1>5 DEF Numbered

\* A call of handleTimeout sends the next frame.
LEMMA HandleSends ==
  ASSUME SourceInv, SentInv, HandleTimeout
  PROVE  /\ SentInv' /\ SeqOf(1)' = seq /\ Len(sent') > 0
         /\ \A i \in 1..Len(sent') : /\ sent'[i].timestamp = timestamp
                                     /\ ~IsAudio => sent'[i].size <= Room
         /\ timestamp' = IF ~IsAudio /\ Timeless(Current') THEN timestamp ELSE timestamp + 1
<1> DEFINE frame == returned[shown + 1]
<1>1. shown \in Nat /\ shown + 1 \in 1..Len(returned) /\ frame \in FrameTypes
  <2>1. shown \in 0..Len(returned) /\ shown < Len(returned) /\ Len(returned) \in Nat
    BY LenProperties DEF SentInv, HandleTimeout, SourceInv
  <2>2. shown + 1 \in 1..Len(returned)
    BY <2>1
  <2>3. QED
    BY <2>1, <2>2, ElementOfSeq DEF SourceInv
<1>2. Current' = frame /\ IsAudio' = IsAudio /\ shown' # 0 /\ shown' \in 0..Len(returned')
  BY <1>1 DEF HandleTimeout, Current, IsAudio, sourceVars
<1>3. seq \in 0..(SeqMod - 1) /\ timestamp \in Nat /\ SeqMod \in Nat \ {0}
  <2>1. SeqOf(Len(sent) + 1) \in 0..(SeqMod - 1) /\ Len(sent) \in Nat
    BY DEF SentInv, Numbered
  <2>2. SeqOf(Len(sent) + 1) = seq
    BY <2>1 DEF SeqOf
  <2>3. QED
    BY <2>1, <2>2, SinkAssumption DEF SentInv
<1> HIDE DEF frame
<1>4. \/ IsAudio /\ SendAccessUnit(frame)
      \/ ~IsAudio /\ SendFrame(frame)
  BY DEF HandleTimeout, frame
<1>5. CASE IsAudio /\ SendAccessUnit(frame)
  <2>1. /\ Len(sent') = 1 /\ sent'[1].seq = seq /\ sent'[1].timestamp = timestamp
        /\ sent'[1].kind = "au" /\ sent'[1].data = frame
        /\ seq' = (seq + 1) % SeqMod /\ timestamp' = timestamp + 1
    BY <1>5 DEF SendAccessUnit
  <2>2. \A i \in 1..Len(sent') : i = 1 /\ sent'[i].seq = (seq + i - 1) % SeqMod
    <3>1. seq + 1 - 1 = seq /\ seq % SeqMod = seq
      BY <1>3
    <3>2. QED
      BY <2>1, <3>1
  <2>3. Numbered' /\ SeqOf(1)' = seq
    BY <1>3, <2>1, <2>2, NumberedFrom
  <2>4. SentWhole'
    BY <1>2, <1>5, <2>1 DEF SentWhole
  <2>5. arrived' = 0
    BY DEF HandleTimeout
  <2>6. SentInv'
    BY <1>2, <1>3, <2>1, <2>3, <2>4, <2>5 DEF SentInv
  <2>7. QED
    BY <1>5, <2>1, <2>2, <2>3, <2>6
<1>6. CASE ~IsAudio /\ SendFrame(frame)
  <2>1. /\ sent' = Packets(frame) /\ seq' = (seq + Len(sent')) % SeqMod
        /\ timestamp' = IF Timeless(frame) THEN timestamp ELSE timestamp + 1
        /\ arrived' = 0 /\ timestamp' \in Nat
    BY <1>3, <1>6 DEF SendFrame, HandleTimeout
  <2>2. MaxPkt \in Nat /\ Len(frame) \in Nat
    BY <1>1, SinkAssumption, LenProperties DEF FrameTypes
  <2>3. CASE Len(frame) <= MaxPkt
    <3>1. /\ Len(sent') = 1 /\ sent'[1].seq = seq /\ sent'[1].timestamp = timestamp
          /\ sent'[1].kind = "single" /\ sent'[1].data = frame /\ sent'[1].size <= Room
      BY <2>1, <2>2, <2>3 DEF Packets, Single, Room
    <3>2. \A i \in 1..Len(sent') : i = 1 /\ sent'[i].seq = (seq + i - 1) % SeqMod
      <4>1. seq + 1 - 1 = seq /\ seq % SeqMod = seq
        BY <1>3
      <4>2. QED
        BY <3>1, <4>1
    <3>3. Numbered' /\ SeqOf(1)' = seq
      BY <1>3, <2>1, <3>1, <3>2, NumberedFrom
    <3>4. SentWhole'
      BY <1>2, <2>3, <3>1 DEF SentWhole
    <3>5. SentInv'
      BY <1>2, <2>1, <3>1, <3>3, <3>4 DEF SentInv
    <3>6. QED
      BY <1>2, <1>6, <2>1, <3>1, <3>2, <3>3, <3>5
  <2>4. CASE Len(frame) > MaxPkt
    <3>1. sent' = Fragments(frame) /\ seq \in Nat
      BY <1>3, <2>1, <2>2, <2>4 DEF Packets
    <3>2. /\ Len(sent') \in Nat /\ Len(sent') > 1
          /\ \A i \in 1..Len(sent') : /\ FragmentOf(sent'[i], frame, Len(sent'), i)
                                      /\ sent'[i].seq = (seq + i - 1) % SeqMod
                                      /\ sent'[i].timestamp = timestamp
                                      /\ sent'[i].size <= Room
      BY <1>1, <2>4, <3>1, FragmentsOf
    <3>3. Numbered' /\ SeqOf(1)' = seq
      BY <1>3, <2>1, <3>2, NumberedFrom
    <3>4. SentInFragments'
      <4>1. ~IsAudio' /\ Len(Current') > MaxPkt
        BY <1>2, <1>6, <2>4
      <4>2. QED
        BY <1>2, <3>2, <4>1 DEF SentInFragments
    <3>5. SentInv'
      BY <1>2, <2>1, <3>2, <3>3, <3>4 DEF SentInv
    <3>6. QED
      BY <1>2, <1>6, <2>1, <3>2, <3>3, <3>5
  <2>5. QED
    BY <2>2, <2>3, <2>4
<1>7. QED
  BY <1>4, <1>5, <1>6

\* The current frame stays the current frame when more frames are taken.
LEMMA CurrentStays ==
  ASSUME SourceInv, SourceInv', SentInv, Take
  PROVE  /\ \A j \in 1..shown : returned'[j] = returned[j]
         /\ shown \in 0..Len(returned')
         /\ shown > 0 => Current' = Current
         /\ UNCHANGED <<movie, sinkVars, shown, arrived, clientVars, lost>>
         /\ IsAudio' = IsAudio
<1>1. UNCHANGED <<movie, sinkVars, shown, arrived, clientVars, lost>> /\ IsAudio' = IsAudio
  BY DEF Take, IsAudio
<1>2. shown \in 0..Len(returned) /\ Len(returned) \in Nat
  BY SourceGrows DEF SentInv
<1>3. \A j \in 1..shown : j \in 1..Len(returned)
  BY <1>2
<1>4. \A j \in 1..shown : returned'[j] = returned[j]
  BY <1>3, SourceGrows
<1>5. shown \in 0..Len(returned')
  BY <1>2, SourceGrows
<1>6. shown > 0 => shown \in 1..shown
  BY <1>2
<1>7. QED
  BY <1>1, <1>4, <1>5, <1>6 DEF Current

\* No other step disturbs what was sent.
LEMMA SentInvStep ==
  ASSUME SourceInv, SourceInv', SentInv, [Next]_vars
  PROVE  SentInv'
<1>1. CASE Take
  <2>1. /\ shown \in 0..Len(returned') /\ (shown > 0 => Current' = Current)
        /\ UNCHANGED <<sent, seq, timestamp, shown, arrived>> /\ IsAudio' = IsAudio
    BY <1>1, CurrentStays DEF sinkVars
  <2>2. Numbered'
    BY <2>1 DEF SentInv, Numbered, SeqOf
  <2>3. CASE shown = 0
    BY <2>1, <2>2, <2>3 DEF SentInv
  <2>4. CASE shown # 0
    <3>1. shown > 0
      BY <2>1, <2>4 DEF SentInv
    <3>2. SentWhole => SentWhole'
      BY <2>1, <3>1 DEF SentWhole
    <3>3. SentInFragments => SentInFragments'
      BY <2>1, <3>1 DEF SentInFragments
    <3>4. QED
      BY <2>1, <2>2, <2>4, <3>2, <3>3 DEF SentInv
  <2>5. QED
    BY <2>3, <2>4
<1>2. CASE HandleTimeout
  BY <1>2, HandleSends
<1>3. CASE Arrive
  <2>1. /\ UNCHANGED <<sent, seq, timestamp, shown, returned, movie>>
        /\ arrived' = arrived + 1 /\ arrived < Len(sent)
    BY <1>3 DEF Arrive, InFlight, sinkVars, sourceVars
  <2>2. UNCHANGED <<Numbered, SentWhole, SentInFragments>>
    BY <2>1 DEF Numbered, SeqOf, SentWhole, SentInFragments, Current, IsAudio
  <2>3. arrived' \in 0..Len(sent)
    BY <2>1 DEF SentInv
  <2>4. QED
    BY <2>1, <2>2, <2>3 DEF SentInv
<1>4. CASE Enough \/ UNCHANGED vars
  <2>1. UNCHANGED <<sent, seq, timestamp, shown, returned, movie, arrived>>
    BY <1>4 DEF Enough, vars, sinkVars, sourceVars
  <2>2. UNCHANGED <<Numbered, SentWhole, SentInFragments>>
    BY <2>1 DEF Numbered, SeqOf, SentWhole, SentInFragments, Current, IsAudio
  <2>3. QED
    BY <2>1, <2>2 DEF SentInv
<1>5. QED
  BY <1>1, <1>2, <1>3, <1>4 DEF Next

-----------------------------------------------------------------------------
(* The client has the frame or nothing of it.                              *)

\* Each fragment goes on where the one before it ended.
LEMMA OneMoreFragment ==
  ASSUME NEW frame \in FrameTypes, NEW n \in Nat, NEW i \in 1..n, NEW p,
         UptoOf(frame, n, i - 1) \in Nat, UptoOf(frame, n, i) \in Nat,
         FragmentOf(p, frame, n, i)
  PROVE  Joined(frame, UptoOf(frame, n, i - 1)) \o p.data = Joined(frame, UptoOf(frame, n, i))
<1> DEFINE from == UptoOf(frame, n, i - 1)
           to   == UptoOf(frame, n, i)
           L    == Len(frame)
           byte(k) == IF k <= L THEN frame[k] ELSE Stray
<1>1. /\ L \in Nat /\ from < to /\ from < L /\ from \in Nat /\ to \in Nat
      /\ p.data = [k \in 1..(to - from) |-> IF from + k < L THEN frame[from + k + 1] ELSE Stray]
  BY LenProperties DEF FragmentOf, FrameTypes
<1> HIDE DEF from, to, L
<1>2. \A k \in 1..(to - from) : /\ from + k < L <=> from + 1 + k <= L
                                /\ from + k + 1 = from + 1 + k
  BY <1>1
<1>3. p.data = [k \in 1..(to - from) |-> byte(from + 1 + k)]
  BY <1>1, <1>2
<1>4. Joined(frame, from) = [k \in 1..(from + 1) |-> byte(k)]
      /\ Joined(frame, to) = [k \in 1..(to + 1) |-> byte(k)]
  BY DEF Joined, L
<1> HIDE DEF byte
<1>5. [k \in 1..(from + 1) |-> byte(k)] \o [k \in 1..(to - from) |-> byte(from + 1 + k)]
        = [k \in 1..(to + 1) |-> byte(k)]
  BY <1>1
<1>6. QED
  BY <1>3, <1>4, <1>5 DEF from, to

\* With all of its fragments the client has the frame and the stray byte.
LEMMA AllFragments ==
  ASSUME NEW frame \in FrameTypes
  PROVE  Joined(frame, Len(frame)) = Append(frame, Stray) /\ Joined(frame, 0) = <<frame[1]>>
<1>1. Len(frame) \in Nat /\ Len(frame) > 0 /\ frame \in Seq(Byte)
  BY LenProperties DEF FrameTypes
<1>2. Joined(frame, 0) = <<frame[1]>>
  BY <1>1 DEF Joined
<1>3. Joined(frame, Len(frame)) = Append(frame, Stray)
  <2> DEFINE m == Len(frame) + 1
             more == Append(frame, Stray)
  <2>1. more \in Seq(Byte) /\ Len(more) = m
    BY <1>1 DEF Byte
  <2>2. \A k \in 1..m : more[k] = IF k <= Len(frame) THEN frame[k] ELSE Stray
    BY <1>1
  <2> HIDE DEF more
  <2>3. more = [k \in 1..m |-> more[k]]
    BY <2>1
  <2>4. QED
    BY <2>2, <2>3 DEF Joined, more
<1>4. QED
  BY <1>2, <1>3

\* What of a step of the client leaves the sink and the source alone.
LEMMA OnTheWay ==
  ASSUME SourceInv, SentInv, Arrive
  PROVE  /\ UNCHANGED <<movie, returned, seq, timestamp, sent, shown>>
         /\ arrived \in Nat /\ arrived' = arrived + 1
         /\ Len(sent) \in Nat /\ arrived + 1 \in 1..Len(sent)
         /\ shown > 0 /\ shown \in 1..Len(returned)
         /\ Current \in FrameTypes
         /\ IsAudio' = IsAudio /\ Current' = Current /\ SentInFragments' = SentInFragments
         /\ \A i : SeqOf(i)' = SeqOf(i) /\ Upto(i)' = Upto(i)
         /\ SentWhole \/ SentInFragments
<1>1. UNCHANGED <<movie, returned, seq, timestamp, sent, shown>> /\ arrived' = arrived + 1
  BY DEF Arrive, sinkVars, sourceVars
<1>2. arrived < Len(sent) /\ arrived \in Nat /\ Len(sent) \in Nat
  BY DEF Arrive, InFlight, SentInv
<1>3. shown # 0 /\ (SentWhole \/ SentInFragments)
  BY <1>2 DEF SentInv
<1>4. shown \in 1..Len(returned) /\ shown > 0
  BY <1>3, LenProperties DEF SentInv, SourceInv
<1>5. Current \in FrameTypes
  BY <1>4, ElementOfSeq DEF Current, SourceInv
<1>6. IsAudio' = IsAudio /\ Current' = Current
  BY <1>1 DEF IsAudio, Current
<1>7. \A i : SeqOf(i)' = SeqOf(i) /\ Upto(i)' = Upto(i)
  BY <1>1, <1>6 DEF SeqOf, Upto
<1>8. SentInFragments' = SentInFragments
  BY <1>1, <1>6 DEF SentInFragments
<1>9. QED
  BY <1>1, <1>2, <1>3, <1>4, <1>5, <1>6, <1>7, <1>8

\* PartialInv after a step, in terms of what is on the way.
NextPartial ==
  partial' # <<>> =>
    \E d \in 0..lost' :
      /\ (nextSeq' + d) % SeqMod = SeqOf(arrived + 2)
      /\ d = 0 => /\ SentInFragments
                  /\ arrived + 1 \in 1..(Len(sent) - 1)
                  /\ partial' = Joined(Current, Upto(arrived + 1))

\* What a step of the client makes of partial is what PartialInv says.
LEMMA FromNextPartial ==
  ASSUME SourceInv, SentInv, Arrive, NextPartial
  PROVE  PartialInv'
<1>1. arrived' = arrived + 1 /\ arrived' + 1 = arrived + 2
  BY OnTheWay
<1>2. shown' > 0 /\ Current' = Current /\ SentInFragments' = SentInFragments /\ Len(sent') = Len(sent)
  BY OnTheWay
<1>3. QED
  BY <1>1, <1>2, OnTheWay DEF PartialInv, NextPartial

\* A packet that is lost.
LEMMA LostPacket ==
  ASSUME SourceInv, SentInv, ClientInv, Arrive, Lose
  PROVE  NextPartial /\ lost' \in 0..MaxLost /\ lost' # 0 /\ UNCHANGED <<received, nextSeq>>
<1>1. lost \in Nat /\ lost' = lost + 1 /\ lost < MaxLost /\ UNCHANGED <<partial, nextSeq, received>>
  BY PathAssumption DEF ClientInv, Lose, clientVars
<1>2. lost' \in 0..MaxLost /\ lost' # 0
  BY <1>1, PathAssumption
<1>3. ASSUME partial # <<>>
      PROVE  \E d \in 0..lost' : d # 0 /\ (nextSeq + d) % SeqMod = SeqOf(arrived + 2)
  <2>1. PICK d \in 0..lost : (nextSeq + d) % SeqMod = SeqOf(arrived + 1)
    BY <1>3 DEF ClientInv, PartialInv
  <2>2. SeqOf(arrived + 1 + 1) = (SeqOf(arrived + 1) + 1) % SeqMod
    BY OnTheWay DEF SentInv, Numbered
  <2>3. nextSeq + d \in Nat /\ (nextSeq + d) + 1 = nextSeq + (d + 1) /\ SeqMod \in Nat \ {0}
    BY <1>1, SinkAssumption DEF ClientInv
  <2>4. (((nextSeq + d) % SeqMod) + 1) % SeqMod = ((nextSeq + d) + 1) % SeqMod
    BY <2>3, NextNumber
  <2>5. arrived + 1 + 1 = arrived + 2
    BY OnTheWay
  <2>6. (nextSeq + (d + 1)) % SeqMod = SeqOf(arrived + 2)
    BY <2>1, <2>2, <2>3, <2>4, <2>5
  <2>7. d + 1 \in 0..lost' /\ d + 1 # 0
    BY <1>1
  <2>8. QED
    BY <2>6, <2>7
<1>4. NextPartial
  BY <1>1, <1>3 DEF NextPartial
<1>5. QED
  BY <1>1, <1>2, <1>4

\* The number the client expects after a packet is that of the packet after it.
LEMMA NextExpected ==
  ASSUME SourceInv, SentInv, Arrive, nextSeq' = (sent[arrived + 1].seq + 1) % SeqMod
  PROVE  nextSeq' = SeqOf(arrived + 2) /\ nextSeq' \in 0..(SeqMod - 1)
<1>1. arrived + 1 \in 1..Len(sent) /\ arrived + 1 + 1 = arrived + 2 /\ Len(sent) \in Nat
  BY OnTheWay
<1>2. SeqOf(arrived + 1) = sent[arrived + 1].seq
  BY <1>1 DEF SeqOf
<1>3. SeqOf(arrived + 1 + 1) = (SeqOf(arrived + 1) + 1) % SeqMod
  BY <1>1 DEF SentInv, Numbered
<1>4. arrived + 2 \in 1..(Len(sent) + 1)
  BY <1>1, OnTheWay
<1>5. SeqOf(arrived + 2) \in 0..(SeqMod - 1)
  BY <1>4 DEF SentInv, Numbered
<1>6. QED
  BY <1>1, <1>2, <1>3, <1>5

\* The current frame is complete.
Completed ==
  /\ arrived' = Len(sent) /\ partial' = <<>>
  /\ received' = Append(received, [bytes |-> Arrives(Current),
                                   timestamp |-> sent[arrived + 1].timestamp])

\* A packet that is a whole frame.
LEMMA WholePacket ==
  ASSUME SourceInv, SentInv, ClientInv, Arrive, SentWhole, Receive(sent[arrived + 1])
  PROVE  Completed
<1>1. arrived + 1 = 1 /\ Len(sent) = 1 /\ arrived' = 1
  BY OnTheWay DEF SentWhole
<1>2. sent[1].kind # "fragment" /\ sent[1].data = Current
  BY DEF SentWhole
<1>3. Arrives(Current) = Current
  BY DEF SentWhole, Arrives
<1>4. Complete(sent[1].data, sent[1])
  BY <1>1, <1>2 DEF Receive
<1>5. QED
  BY <1>1, <1>2, <1>3, <1>4 DEF Complete, Completed

\* A fragment.
LEMMA FragmentPacket ==
  ASSUME MaxLost < SeqMod,
         SourceInv, SentInv, ClientInv, Arrive, SentInFragments, Receive(sent[arrived + 1])
  PROVE  \/ Completed
         \/ UNCHANGED received /\ NextPartial
            /\ (lost = 0 => arrived' < Len(sent) /\ partial' # <<>>)
<1> DEFINE i == arrived + 1
           n == Len(sent)
           p == sent[i]
           F == Current
           before == IF p.start THEN <<p.type>> ELSE partial
<1>1. /\ i \in 1..n /\ n \in Nat /\ n > 1 /\ arrived \in Nat /\ i - 1 = arrived
      /\ F \in FrameTypes /\ FragmentOf(p, F, n, i)
  BY OnTheWay DEF SentInFragments
<1>2. /\ p.kind = "fragment" /\ p.type = F[1] /\ p.start = (i = 1) /\ p.end = (i = n)
  BY <1>1, Zenon DEF FragmentOf
<1>3. Join(p) /\ nextSeq' = (p.seq + 1) % SeqMod /\ UNCHANGED lost /\ arrived' = i
  BY <1>2, OnTheWay DEF Receive
<1>4. \A j \in 0..n : Upto(j) \in Nat
  BY <1>1, SinkAssumption, LenProperties DEF Upto, UptoOf, FrameTypes
<1>5. nextSeq' = SeqOf(arrived + 2) /\ nextSeq' \in 0..(SeqMod - 1)
  BY <1>3, NextExpected
<1>6. p.seq = SeqOf(i)
  BY <1>1 DEF SeqOf
<1>7. \/ (before = <<>> \/ (i # 1 /\ p.seq # nextSeq)) /\ partial' = <<>> /\ UNCHANGED received
      \/ /\ before # <<>> /\ (i = 1 \/ p.seq = nextSeq)
         /\ \/ i = n /\ Complete(before \o p.data, p)
            \/ i # n /\ partial' = before \o p.data /\ UNCHANGED received
  BY <1>2, <1>3 DEF Join
<1>8. CASE (before = <<>> \/ (i # 1 /\ p.seq # nextSeq)) /\ partial' = <<>> /\ UNCHANGED received
  <2>1. lost # 0
    <3>1. SUFFICES ASSUME lost = 0 PROVE FALSE
      OBVIOUS
    <3>2. i # 1 /\ arrived > 0
      <4>1. i = 1 => before = <<F[1]>>
        BY <1>2
      <4>2. i # 1
        BY <1>8, <4>1
      <4>3. QED
        BY <1>1, <4>2
    <3>3. partial # <<>> /\ before = partial
      BY <1>2, <3>1, <3>2 DEF ClientInv, LosslessInv, Arrive
    <3>4. PICK d \in 0..lost : (nextSeq + d) % SeqMod = SeqOf(i)
      BY <3>3 DEF ClientInv, PartialInv
    <3>5. d = 0 /\ nextSeq \in 0..(SeqMod - 1) /\ SeqMod \in Nat \ {0}
      BY <3>1, SinkAssumption DEF ClientInv
    <3>6. nextSeq + 0 = nextSeq /\ nextSeq % SeqMod = nextSeq
      BY <3>5
    <3>7. nextSeq = p.seq
      BY <1>6, <3>4, <3>5, <3>6
    <3>8. QED
      BY <1>8, <3>3, <3>7
  <2>2. QED
    BY <1>8, <2>1 DEF NextPartial
<1>9. CASE before # <<>> /\ (i = 1 \/ p.seq = nextSeq)
  <2>1. before = Joined(F, Upto(i - 1))
    <3>1. CASE i = 1
      <4>1. Upto(i - 1) = 0
        BY <1>1, <3>1, SinkAssumption DEF Upto, UptoOf
      <4>2. before = <<F[1]>>
        BY <1>2, <3>1
      <4>3. QED
        BY <1>1, <4>1, <4>2, AllFragments
    <3>2. CASE i # 1
      <4>1. before = partial /\ partial # <<>> /\ p.seq = nextSeq
        BY <1>2, <1>9, <3>2
      <4>2. PICK d \in 0..lost :
              /\ (nextSeq + d) % SeqMod = SeqOf(i)
              /\ d = 0 => partial = Joined(F, Upto(arrived))
        BY <4>1 DEF ClientInv, PartialInv
      <4>3. /\ nextSeq \in 0..(SeqMod - 1) /\ SeqMod \in Nat \ {0}
            /\ d \in 0..(SeqMod - 1)
        BY SinkAssumption, PathAssumption DEF ClientInv
      <4>4. (nextSeq + d) % SeqMod = nextSeq
        BY <1>6, <4>1, <4>2
      <4>5. d = 0
        BY <4>3, <4>4, NotAround
      <4>6. QED
        BY <1>1, <4>1, <4>2, <4>5
    <3>3. QED
      BY <3>1, <3>2
  <2>2. before \o p.data = Joined(F, Upto(i))
    <3>1. i - 1 \in 0..n /\ i \in 0..n
      BY <1>1
    <3>2. UptoOf(F, n, i - 1) \in Nat /\ UptoOf(F, n, i) \in Nat
      BY <1>4, <3>1 DEF Upto
    <3>3. Joined(F, UptoOf(F, n, i - 1)) \o p.data = Joined(F, UptoOf(F, n, i))
      BY <1>1, <3>2, OneMoreFragment
    <3>4. QED
      BY <2>1, <3>3 DEF Upto
  <2> HIDE DEF before
  <2>3. CASE i = n /\ Complete(before \o p.data, p)
    <3>1. Upto(i) = Len(F)
      BY <2>3 DEF Upto, UptoOf
    <3>2. Arrives(F) = Append(F, Stray)
      <4>1. ~IsAudio /\ ~(Len(F) <= MaxPkt)
        BY <1>1, SinkAssumption, LenProperties DEF SentInFragments, FrameTypes
      <4>2. QED
        BY <4>1 DEF Arrives
    <3>3. before \o p.data = Arrives(F)
      BY <1>1, <2>2, <3>1, <3>2, AllFragments
    <3>4. QED
      BY <1>3, <2>3, <3>3 DEF Completed, Complete
  <2>4. CASE i # n /\ partial' = before \o p.data /\ UNCHANGED received
    <3>1. i \in 1..(n - 1) /\ arrived' < n
      BY <1>1, <1>3, <2>4
    <3>2. partial' = Joined(F, Upto(i))
      BY <2>2, <2>4
    <3>3. nextSeq' + 0 = nextSeq' /\ nextSeq' % SeqMod = nextSeq'
      BY <1>5, SinkAssumption
    <3>4. 0 \in 0..lost'
      BY <1>3, PathAssumption DEF ClientInv
    <3>5. NextPartial
      BY <1>5, <3>1, <3>2, <3>3, <3>4 DEF NextPartial
    <3>6. partial' # <<>>
      <4>1. Upto(i) \in Nat
        BY <1>1, <1>4
      <4>2. Len(Joined(F, Upto(i))) = Upto(i) + 1
        BY <4>1 DEF Joined
      <4>3. QED
        BY <3>2, <4>1, <4>2
    <3>7. QED
      BY <2>4, <3>1, <3>5, <3>6
  <2>5. QED
    BY <1>7, <1>9, <2>3, <2>4
<1>10. QED
  BY <1>7, <1>8, <1>9

\* What a step of the client does.
LEMMA ArriveEffect ==
  ASSUME MaxLost < SeqMod, SourceInv, SentInv, ClientInv, Arrive
  PROVE  /\ lost' \in 0..MaxLost /\ nextSeq' \in 0..(SeqMod - 1)
         /\ PartialInv'
         /\ lost' = 0 => lost = 0
         /\ \/ Completed
            \/ /\ UNCHANGED received
               /\ lost' = 0 => arrived' < Len(sent) /\ partial' # <<>>
<1>1. CASE Lose
  <2>1. nextSeq' \in 0..(SeqMod - 1)
    BY <1>1, LostPacket DEF ClientInv
  <2>2. QED
    BY <1>1, <2>1, LostPacket, FromNextPartial
<1>2. CASE Receive(sent[arrived + 1])
  <2>1. UNCHANGED lost /\ nextSeq' = (sent[arrived + 1].seq + 1) % SeqMod
    BY <1>2 DEF Receive
  <2>2. lost' \in 0..MaxLost /\ nextSeq' \in 0..(SeqMod - 1)
    BY <2>1, NextExpected DEF ClientInv
  <2>3. \/ Completed
        \/ UNCHANGED received /\ NextPartial
           /\ (lost = 0 => arrived' < Len(sent) /\ partial' # <<>>)
    BY <1>2, OnTheWay, WholePacket, FragmentPacket
  <2>4. Completed => NextPartial
    BY DEF Completed, NextPartial
  <2>5. QED
    BY <2>1, <2>2, <2>3, <2>4, FromNextPartial
<1>3. QED
  BY <1>1, <1>2 DEF Arrive

\* What arrives is not empty.
LEMMA ArrivesType ==
  ASSUME NEW frame \in FrameTypes
  PROVE  Arrives(frame) \in FrameTypes
<1>1. frame \in Seq(Byte) /\ frame # <<>> /\ Stray \in Byte
  BY DEF FrameTypes, Byte
<1>2. Append(frame, Stray) \in Seq(Byte) /\ Append(frame, Stray) # <<>>
  BY <1>1
<1>3. QED
  BY <1>1, <1>2 DEF Arrives, FrameTypes

\* The frames the client has, after a step of its own.
LEMMA ReceivedStep ==
  ASSUME SourceInv, SentInv, ReceivedInv, Arrive, UNCHANGED received \/ Completed,
         \A i \in 1..Len(sent) : sent[i].timestamp \in Nat
  PROVE  /\ ReceivedInv' /\ Len(received) \in Nat
         /\ Completed => /\ Len(received') = Len(received) + 1
                         /\ \A i \in 1..Len(received) : received'[i] = received[i]
                         /\ received'[Len(received) + 1] =
                              [bytes |-> Arrives(Current), timestamp |-> sent[arrived + 1].timestamp]
<1> DEFINE Frames == [bytes : Seq(Byte) \ {<<>>}, timestamp : Nat]
           new    == [bytes |-> Arrives(Current), timestamp |-> sent[arrived + 1].timestamp]
<1>1. received \in Seq(Frames)
  BY DEF ReceivedInv
<1>2. new \in Frames
  BY OnTheWay, ArrivesType DEF FrameTypes
<1>3. \A j : Arrives(returned[j])' = Arrives(returned[j])
  BY OnTheWay DEF Arrives
<1>4. UNCHANGED <<returned, shown>>
  BY OnTheWay
<1> HIDE DEF Frames, new
<1>5. CASE UNCHANGED received
  BY <1>1, <1>3, <1>4, <1>5, LenProperties DEF ReceivedInv, Frames, Completed, new
<1>6. CASE received' = Append(received, new)
  <2>1. /\ received' \in Seq(Frames) /\ Len(received) \in Nat
        /\ Len(received') = Len(received) + 1
        /\ \A i \in 1..Len(received) : received'[i] = received[i]
        /\ received'[Len(received) + 1] = new
    BY <1>1, <1>2, <1>6
  <2>2. new.bytes = Arrives(returned[shown]) /\ shown \in 1..shown
    BY OnTheWay DEF new, Current
  <2>3. ASSUME NEW i \in 1..Len(received')
        PROVE  \E j \in 1..shown : received'[i].bytes = Arrives(returned[j])
    <3>1. CASE i \in 1..Len(received)
      <4>1. \E j \in 1..shown : received[i].bytes = Arrives(returned[j])
        BY <1>1, <3>1 DEF ReceivedInv
      <4>2. QED
        BY <2>1, <3>1, <4>1
    <3>2. CASE i = Len(received) + 1
      BY <2>1, <2>2, <3>2
    <3>3. QED
      BY <2>1, <3>1, <3>2
  <2>4. ReceivedInv'
    <3>1. DOMAIN received' = 1..Len(received')
      BY <2>1
    <3>2. \A i \in DOMAIN received' : \E j \in 1..shown' : received'[i].bytes = Arrives(returned[j])'
      BY <1>3, <1>4, <2>3, <3>1
    <3>3. QED
      BY <2>1, <3>2, Zenon DEF ReceivedInv, Frames
  <2>5. QED
    BY <2>1, <2>4 DEF new
<1>7. QED
  BY <1>5, <1>6 DEF Completed, new

\* A frame is sent at its time, and the time goes on unless it is a parameter set.
LEMMA SentTimesStep ==
  ASSUME SourceInv, SourceInv', SentInv, SentTimes, [Next]_vars
  PROVE  SentTimes'
<1>1. CASE Take
  <2>1. UNCHANGED <<sent, arrived, timestamp, shown>> /\ IsAudio' = IsAudio
        /\ (shown > 0 => Current' = Current)
    BY <1>1, CurrentStays DEF sinkVars
  <2>2. ~InFlight'
    BY <1>1, <2>1 DEF Take, InFlight
  <2>3. QED
    BY <2>1, <2>2 DEF SentTimes
<1>2. CASE HandleTimeout
  <2>1. /\ Len(sent') \in Nat /\ Len(sent') > 0 /\ timestamp \in Nat
        /\ \A i \in 1..Len(sent') : sent'[i].timestamp = timestamp
        /\ timestamp' = IF ~IsAudio /\ Timeless(Current') THEN timestamp ELSE timestamp + 1
    BY <1>2, HandleSends DEF SentInv
  <2>2. 1 \in 1..Len(sent') /\ sent'[1].timestamp = timestamp
    BY <2>1
  <2>3. IsAudio' = IsAudio
    BY <1>2 DEF HandleTimeout, IsAudio
  <2>4. Timeless(Current)' = Timeless(Current')
    BY DEF Timeless, Current
  <2>5. QED
    BY <2>1, <2>2, <2>3, <2>4 DEF SentTimes
<1>3. CASE Arrive \/ Enough \/ UNCHANGED vars
  <2>1. UNCHANGED <<sent, timestamp, shown, returned, movie>> /\ (InFlight' => InFlight)
    <3>1. CASE Arrive
      BY <3>1, OnTheWay DEF Arrive
    <3>2. CASE Enough \/ UNCHANGED vars
      BY <3>2 DEF Enough, vars, sinkVars, sourceVars, InFlight
    <3>3. QED
      BY <1>3, <3>1, <3>2
  <2>2. Current' = Current /\ IsAudio' = IsAudio
    BY <2>1 DEF Current, IsAudio
  <2>3. Timeless(Current)' = Timeless(Current)
    BY <2>2 DEF Timeless
  <2>4. QED
    BY <2>1, <2>2, <2>3 DEF SentTimes
<1>4. QED
  BY <1>1, <1>2, <1>3 DEF Next

\* The invariants of the client, step by step.
LEMMA ClientInvStep ==
  ASSUME MaxLost < SeqMod, SourceInv, SourceInv', SentInv, SentTimes, ClientInv, [Next]_vars
  PROVE  ClientInv'
<1>1. CASE Take
  <2>1. /\ \A j \in 1..shown : returned'[j] = returned[j]
        /\ shown > 0 => Current' = Current
        /\ UNCHANGED <<sent, seq, movie, shown, arrived, partial, nextSeq, received, lost>>
        /\ IsAudio' = IsAudio /\ shown \in Nat
    BY <1>1, CurrentStays DEF sinkVars, clientVars, SentInv
  <2>2. \A j \in 1..shown : Arrives(returned[j])' = Arrives(returned[j])
    BY <2>1 DEF Arrives
  <2>3. ReceivedInv'
    BY <2>1, <2>2 DEF ReceivedInv, ClientInv
  <2>4. PartialInv'
    <3>1. \A i : SeqOf(i)' = SeqOf(i)
      BY <2>1 DEF SeqOf
    <3>2. ASSUME shown > 0, SentInFragments
          PROVE  SentInFragments' /\ Joined(Current, Upto(arrived))' = Joined(Current, Upto(arrived))
      BY <2>1, <3>2 DEF SentInFragments, Joined, Upto
    <3>3. QED
      BY <2>1, <3>1, <3>2 DEF PartialInv, ClientInv
  <2>5. LosslessInv'
    <3>1. ASSUME lost = 0
          PROVE  /\ DOMAIN received = 1..Len(received) /\ Len(received) \in Nat
                 /\ Len(received) = shown
      <4>1. ~InFlight /\ Len(received) = shown
        BY <1>1, <3>1 DEF Take, ClientInv, LosslessInv
      <4>2. QED
        BY <4>1, LenProperties DEF ClientInv, ReceivedInv
    <3>2. ~InFlight'
      BY <1>1, <2>1 DEF Take, InFlight
    <3>3. QED
      BY <2>1, <2>2, <3>1, <3>2 DEF LosslessInv, ClientInv
  <2>6. QED
    BY <2>1, <2>3, <2>4, <2>5 DEF ClientInv
<1>2. CASE HandleTimeout
  <2>1. /\ UNCHANGED <<movie, returned, partial, nextSeq, received, lost>>
        /\ shown' = shown + 1 /\ arrived' = 0 /\ shown \in Nat /\ ~InFlight
    BY <1>2 DEF HandleTimeout, sourceVars, clientVars, SentInv
  <2>2. SeqOf(1)' = seq /\ Len(sent') > 0 /\ InFlight'
    BY <1>2, <2>1, HandleSends DEF InFlight
  <2>3. \A j : Arrives(returned[j])' = Arrives(returned[j])
    BY <2>1 DEF Arrives, IsAudio
  <2>4. ReceivedInv'
    BY <2>1, <2>3 DEF ReceivedInv, ClientInv
  <2>5. arrived = Len(sent) /\ Len(sent) \in Nat
    BY <2>1 DEF InFlight, SentInv
  <2>6. SeqOf(arrived + 1) = seq
    BY <2>5 DEF SeqOf
  <2>7. ASSUME partial # <<>>
        PROVE  \E d \in 0..lost : d # 0 /\ (nextSeq + d) % SeqMod = seq
    BY <2>5, <2>6, <2>7 DEF ClientInv, PartialInv
  <2>8. PartialInv'
    <3>1. arrived' + 1 = 1
      BY <2>1
    <3>2. SeqOf(arrived + 1)' = seq
      BY <2>2, <3>1
    <3>3. QED
      BY <2>1, <2>7, <3>2 DEF PartialInv
  <2>9. LosslessInv'
    <3>1. shown' - 1 = shown /\ ~(arrived' > 0)
      BY <2>1
    <3>2. lost = 0 => Len(received) = shown /\ \A i \in DOMAIN received : received[i].bytes = Arrives(returned[i])
      BY <2>1 DEF LosslessInv, ClientInv
    <3>3. QED
      BY <2>1, <2>2, <2>3, <3>1, <3>2 DEF LosslessInv
  <2>10. QED
    BY <2>1, <2>4, <2>8, <2>9 DEF ClientInv
<1>3. CASE Arrive
  <2>1. /\ lost' \in 0..MaxLost /\ nextSeq' \in 0..(SeqMod - 1) /\ PartialInv'
        /\ lost' = 0 => lost = 0
        /\ \/ Completed
           \/ UNCHANGED received /\ (lost' = 0 => arrived' < Len(sent) /\ partial' # <<>>)
    BY <1>3, ArriveEffect
  <2>2. /\ ReceivedInv' /\ Len(received) \in Nat
        /\ Completed => /\ Len(received') = Len(received) + 1
                        /\ \A i \in 1..Len(received) : received'[i] = received[i]
                        /\ received'[Len(received) + 1].bytes = Arrives(Current)
    <3>1. ReceivedInv /\ \A i \in 1..Len(sent) : sent[i].timestamp \in Nat
      BY DEF SentTimes, ClientInv
    <3>2. UNCHANGED received \/ Completed
      BY <2>1
    <3>3. ReceivedInv' /\ Len(received) \in Nat
      BY <1>3, <3>1, <3>2, ReceivedStep
    <3>4. ASSUME Completed
          PROVE  /\ Len(received') = Len(received) + 1
                 /\ \A i \in 1..Len(received) : received'[i] = received[i]
                 /\ received'[Len(received) + 1] =
                      [bytes |-> Arrives(Current), timestamp |-> sent[arrived + 1].timestamp]
      BY <1>3, <3>1, <3>4, ReceivedStep
    <3>5. QED
      BY <3>3, <3>4
  <2>3. DOMAIN received = 1..Len(received) /\ DOMAIN received' = 1..Len(received')
    BY <2>2, LenProperties DEF ReceivedInv, ClientInv
  <2>4. \A j : Arrives(returned[j])' = Arrives(returned[j])
    BY <1>3, OnTheWay DEF Arrives
  <2>5. ASSUME lost' = 0
        PROVE  /\ Len(received') = IF InFlight' THEN shown - 1 ELSE shown
               /\ \A i \in 1..Len(received') : received'[i].bytes = Arrives(returned[i])
               /\ InFlight' /\ arrived' > 0 => partial' # <<>>
    <3>1. /\ Len(received) = shown - 1 /\ shown \in Nat
          /\ \A i \in 1..Len(received) : received[i].bytes = Arrives(returned[i])
      <4>1. lost = 0 /\ InFlight /\ shown \in Nat
        BY <1>3, <2>1, <2>5 DEF Arrive, SentInv
      <4>2. QED
        BY <2>3, <4>1 DEF LosslessInv, ClientInv
    <3>2. InFlight' <=> arrived' < Len(sent)
      BY <1>3, OnTheWay DEF InFlight
    <3>3. CASE Completed
      <4>1. ~InFlight' /\ Len(received') = shown
        <5>1. arrived' = Len(sent) /\ Len(sent) \in Nat
          BY <1>3, <3>3, OnTheWay DEF Completed
        <5>2. ~InFlight'
          BY <3>2, <5>1
        <5>3. Len(received') = Len(received) + 1
          BY <2>2, <3>3
        <5>4. QED
          BY <3>1, <5>2, <5>3
      <4>2. \A i \in 1..Len(received') : i \in 1..Len(received) \/ i = shown
        BY <3>1, <4>1
      <4>3. received'[shown].bytes = Arrives(returned[shown])
        BY <2>2, <3>1, <3>3 DEF Current
      <4>4. QED
        BY <2>2, <3>1, <3>3, <4>1, <4>2, <4>3
    <3>4. CASE ~Completed
      BY <2>1, <2>5, <3>1, <3>2, <3>4
    <3>5. QED
      BY <3>3, <3>4
  <2>6. LosslessInv'
    <3>1. UNCHANGED <<shown, returned>>
      BY <1>3, OnTheWay
    <3>2. QED
      BY <2>3, <2>4, <2>5, <3>1 DEF LosslessInv
  <2>7. QED
    BY <2>1, <2>2, <2>6 DEF ClientInv
<1>4. CASE Enough \/ UNCHANGED vars
  <2>1. /\ UNCHANGED <<sent, seq, movie, shown, returned, arrived, partial, nextSeq, received, lost>>
    BY <1>4 DEF Enough, vars, sinkVars, sourceVars, clientVars
  <2>2. UNCHANGED <<Current, IsAudio, InFlight>> /\ \A i : SeqOf(i)' = SeqOf(i)
    BY <2>1 DEF Current, IsAudio, InFlight, SeqOf
  <2>3. \A j : Arrives(returned[j])' = Arrives(returned[j])
    BY <2>1, <2>2 DEF Arrives
  <2>4. SentInFragments' = SentInFragments /\ Joined(Current, Upto(arrived))' = Joined(Current, Upto(arrived))
    BY <2>1, <2>2 DEF SentInFragments, Joined, Upto
  <2>5. ReceivedInv' /\ LosslessInv' /\ PartialInv'
    BY <2>1, <2>2, <2>3, <2>4 DEF ReceivedInv, LosslessInv, PartialInv, ClientInv
  <2>6. QED
    BY <2>1, <2>5 DEF ClientInv
<1>5. QED
  BY <1>1, <1>2, <1>3, <1>4 DEF Next

\* The next packets are not of an earlier time.
LEMMA NowGrows ==
  ASSUME SourceInv, SourceInv', SentInv, SentInv', SentTimes, SentTimes', [Next]_vars
  PROVE  /\ Now \in Nat /\ Now' \in Nat /\ Now <= Now'
         /\ ~Arrive => Now' = Now
<1>1. Now \in Nat /\ Now' \in Nat
  <2>1. ASSUME InFlight PROVE 1 \in 1..Len(sent)
    BY <2>1 DEF InFlight, SentInv
  <2>2. ASSUME InFlight' PROVE 1 \in 1..Len(sent')
    BY <2>2 DEF InFlight, SentInv
  <2>3. QED
    BY <2>1, <2>2 DEF Now, SentInv, SentTimes
<1>2. CASE Take
  <2>1. UNCHANGED <<sent, timestamp, arrived>>
    BY <1>2 DEF Take, sinkVars
  <2>2. QED
    BY <1>1, <2>1 DEF Now, InFlight
<1>3. CASE HandleTimeout
  <2>1. ~InFlight /\ Now = timestamp
    BY <1>3 DEF HandleTimeout, Now
  <2>2. Len(sent') > 0 /\ Len(sent') \in Nat /\ arrived' = 0
    BY <1>3, HandleSends DEF HandleTimeout, SentInv
  <2>3. InFlight' /\ 1 \in 1..Len(sent')
    BY <2>2 DEF InFlight
  <2>4. sent'[1].timestamp = timestamp
    BY <1>3, <2>3, HandleSends
  <2>5. Now' = sent'[1].timestamp
    BY <2>3 DEF Now
  <2>6. QED
    BY <1>1, <2>1, <2>4, <2>5
<1>4. CASE Arrive
  <2>1. InFlight /\ Now = sent[1].timestamp
    BY <1>4 DEF Arrive, Now
  <2>2. UNCHANGED <<sent, timestamp>>
    BY <1>4, OnTheWay
  <2>3. timestamp = Now \/ timestamp = Now + 1
    BY <2>1 DEF SentTimes
  <2>4. Now' = Now \/ Now' = timestamp
    BY <2>1, <2>2 DEF Now
  <2>5. QED
    BY <1>1, <1>4, <2>3, <2>4
<1>5. CASE Enough \/ UNCHANGED vars
  <2>1. UNCHANGED <<sent, timestamp, arrived>>
    BY <1>5 DEF Enough, vars, sinkVars
  <2>2. QED
    BY <1>1, <2>1 DEF Now, InFlight
<1>6. QED
  BY <1>2, <1>3, <1>4, <1>5 DEF Next

\* The timestamps of what the client has, step by step.
LEMMA TimeInvStep ==
  ASSUME MaxLost < SeqMod, SourceInv, SourceInv', SentInv, SentInv', SentTimes, SentTimes',
         ClientInv, TimeInv, [Next]_vars
  PROVE  TimeInv'
<1> DEFINE Frames == [bytes : Seq(Byte) \ {<<>>}, timestamp : Nat]
<1>1. received \in Seq(Frames)
  BY DEF ClientInv, ReceivedInv
<1>2. \A frame \in Frames : frame.timestamp \in Nat
  OBVIOUS
<1> HIDE DEF Frames
<1> PICK n : n = Len(received)
  OBVIOUS
<1>3. DOMAIN received = 1..n /\ n \in Nat /\ \A i \in 1..n : received[i].timestamp \in Nat
  BY <1>1, <1>2
<1>4. Now \in Nat /\ Now' \in Nat /\ Now <= Now' /\ (~Arrive => Now' = Now)
  BY NowGrows
<1>5. IsAudio' = IsAudio
  BY DEF Next, Take, HandleTimeout, Arrive, Enough, vars, IsAudio
<1>6. CASE UNCHANGED received
  <2>1. \A i : Parameters(i)' = Parameters(i)
    BY <1>5, <1>6 DEF Parameters
  <2>2. \A i \in 1..n : received[i].timestamp <= Now'
                        /\ (received[i].timestamp = Now' => received[i].timestamp = Now)
    BY <1>3, <1>4 DEF TimeInv
  <2>3. \A i \in 1..n : received[i].timestamp <= Now'
                        /\ (received[i].timestamp = Now' => Parameters(i))
    BY <1>3, <2>2 DEF TimeInv
  <2>4. \A i, j \in 1..n : i < j => /\ received[i].timestamp <= received[j].timestamp
                                    /\ received[i].timestamp = received[j].timestamp => Parameters(i)
    BY <1>3 DEF TimeInv
  <2>5. QED
    BY <1>3, <1>6, <2>1, <2>3, <2>4 DEF TimeInv
<1>7. CASE Arrive /\ Completed
  <2> DEFINE new == [bytes |-> Arrives(Current), timestamp |-> sent[arrived + 1].timestamp]
  <2>1. ReceivedInv /\ (\A i \in 1..Len(sent) : sent[i].timestamp \in Nat)
    BY DEF SentTimes, ClientInv
  <2>2. /\ Len(received') = n + 1 /\ ReceivedInv'
        /\ \A i \in 1..n : received'[i] = received[i]
        /\ received'[n + 1] = new
    BY <1>7, <2>1, ReceivedStep
  <2>3. DOMAIN received' = 1..(n + 1)
    BY <2>2, LenProperties DEF ReceivedInv
  <2>4. new.timestamp = Now
    <3>1. InFlight /\ arrived + 1 \in 1..Len(sent)
      BY <1>7, OnTheWay DEF Arrive
    <3>2. QED
      BY <3>1 DEF Now, SentTimes
  <2>5. ASSUME Now' = Now PROVE ~IsAudio /\ new.bytes[1] \in {SPS, PPS}
    <3>1. InFlight /\ ~InFlight' /\ Now' = timestamp /\ Now = sent[1].timestamp
      <4>1. arrived' = Len(sent) /\ UNCHANGED <<sent, timestamp>> /\ Len(sent) \in Nat /\ InFlight
        BY <1>7, OnTheWay DEF Completed, Arrive
      <4>2. QED
        BY <4>1 DEF InFlight, Now
    <3>2. ~IsAudio /\ Timeless(Current)
      <4>1. Now # Now + 1
        BY <1>4
      <4>2. timestamp = sent[1].timestamp /\ timestamp # sent[1].timestamp + 1
        BY <2>5, <3>1, <4>1, Zenon
      <4>3. QED
        BY <3>1, <4>2, Zenon DEF SentTimes
    <3>3. Len(Current) <= MaxPkt /\ Current[1] \in {SPS, PPS}
      BY <3>2 DEF Timeless
    <3>4. new.bytes = Current
      BY <3>3 DEF Arrives
    <3>5. QED
      BY <3>2, <3>3, <3>4
  <2> HIDE DEF new
  <2>6. \A i \in 1..n : Parameters(i) => Parameters(i)'
    BY <1>5, <2>2 DEF Parameters
  <2>7. Now' = Now => Parameters(n + 1)'
    BY <1>5, <2>2, <2>5 DEF Parameters
  <2>8. ASSUME NEW i \in 1..(n + 1)
        PROVE  /\ received'[i].timestamp <= Now
               /\ received'[i].timestamp = Now' => Parameters(i)'
    <3>1. CASE i \in 1..n
      BY <1>3, <1>4, <2>2, <2>6, <3>1 DEF TimeInv
    <3>2. CASE i = n + 1
      BY <1>4, <2>2, <2>4, <2>7, <3>2
    <3>3. QED
      BY <1>3, <3>1, <3>2
  <2>9. ASSUME NEW i \in 1..(n + 1), NEW j \in 1..(n + 1), i < j
        PROVE  /\ received'[i].timestamp <= received'[j].timestamp
               /\ received'[i].timestamp = received'[j].timestamp => Parameters(i)'
    <3>1. i \in 1..n
      BY <1>3, <2>9
    <3>2. CASE j \in 1..n
      BY <1>3, <2>2, <2>6, <2>9, <3>1, <3>2 DEF TimeInv
    <3>3. CASE j = n + 1
      <4>1. received'[j].timestamp = Now
        BY <2>2, <2>4, <3>3
      <4>2. /\ received[i].timestamp <= Now
            /\ received[i].timestamp = Now => Parameters(i)
        BY <1>3, <3>1 DEF TimeInv
      <4>3. QED
        BY <2>2, <2>6, <3>1, <4>1, <4>2
    <3>4. QED
      BY <1>3, <3>2, <3>3
  <2>10. \A i \in 1..(n + 1) : received'[i].timestamp <= Now'
    <3>1. \A i \in 1..(n + 1) : received'[i].timestamp \in Nat
      BY <1>3, <1>4, <2>2, <2>4
    <3>2. QED
      BY <1>4, <2>8, <3>1
  <2>11. QED
    BY <2>3, <2>8, <2>9, <2>10 DEF TimeInv
<1>8. UNCHANGED received \/ (Arrive /\ Completed)
  <2>1. CASE Arrive
    BY <2>1, ArriveEffect
  <2>2. CASE ~Arrive
    BY <2>2 DEF Next, Take, HandleTimeout, Enough, vars, clientVars
  <2>3. QED
    BY <2>1, <2>2
<1>9. QED
  BY <1>6, <1>7, <1>8

-----------------------------------------------------------------------------
(* No iterator over an H.264 file is left behind the last of an array.     *)

\* A step of at most Capacity from a place in an array leads to another one.
LEMMA AdvanceInside ==
  ASSUME NEW r, NEW place \in Places, place.off \in Offsets, NEW k \in 0..Capacity
  PROVE  Advance(r, place, k).it.off \in Offsets
<1>1. place.off \in 0..(Capacity - 1) /\ Capacity \in Nat /\ k \in 0..Capacity
  BY RingAssumption DEF Offsets
<1>2. CASE place.off + k < Capacity
  BY <1>1, <1>2 DEF Advance, Place, Offsets
<1>3. CASE ~(place.off + k < Capacity)
  <2>1. ~(k > 2 * Capacity - place.off)
    BY <1>1
  <2>2. place.off + k - Capacity \in 0..(Capacity - 1)
    BY <1>1, <1>3
  <2>3. QED
    BY <1>3, <2>1, <2>2 DEF Advance, Place, Offsets
<1>4. QED
  BY <1>2, <1>3

InsideInv ==
  ~IsAudio => ring.begin.off \in Offsets /\ it.off \in Offsets /\ off \in {0, 3, 4}

\* The steps of a call: the beginning of the buffer moves to the iterator of the
\* call only, and that goes by the length of a start code, or by one.
LEMMA InsideStep ==
  ASSUME Capacity > 3, SourceInv, InsideInv, [Next]_vars
  PROVE  InsideInv'
<1>1. IsAudio' = IsAudio
  BY DEF Next, Take, HandleTimeout, Arrive, Enough, vars, IsAudio
<1>2. SUFFICES ASSUME ~IsAudio
               PROVE  ring'.begin.off \in Offsets /\ it'.off \in Offsets /\ off' \in {0, 3, 4}
  BY <1>1 DEF InsideInv
<1>3. /\ ring.begin \in Places /\ ring \in Rings /\ it \in Places
      /\ ring.begin.off \in Offsets /\ it.off \in Offsets /\ off \in {0, 3, 4}
  BY <1>2 DEF SourceInv, Rings, InsideInv
<1>4. \A k \in {0, 1, 3, 4} : k \in 0..Capacity /\ k \in Nat
  BY RingAssumption
<1>5. CASE Call
  <2> DEFINE code == StartCode(ring, ring.begin)
             next == Advance(code.ring, ring.begin, code.length)
  <2>1. code.ring \in Rings /\ code.ring.begin = ring.begin /\ code.length \in {0, 3, 4}
    BY <1>3, StartCodeType DEF RingsAt
  <2>2. \/ ring' \in {ring, code.ring} /\ UNCHANGED <<it, off>>
        \/ ring' = next.ring /\ it' = next.it /\ off' = code.length
    BY <1>5, Zenon DEF Call, CallEnds, Nothing
  <2>3. next.ring.begin = ring.begin /\ next.it.off \in Offsets
    <3> HIDE DEF code
    <3>1. code.length \in 0..Capacity /\ code.length \in Nat
      BY <1>4, <2>1
    <3>2. QED
      BY <1>3, <2>1, <3>1, AdvanceType, AdvanceInside
  <2> HIDE DEF code, next
  <2>4. QED
    BY <1>3, <2>1, <2>2, <2>3
<1>6. CASE Scan
  <2> DEFINE code == StartCode(ring, it)
             next == Advance(code.ring, it, 1)
  <2>1. code.ring \in Rings /\ code.ring.begin = ring.begin
    BY <1>3, StartCodeType DEF RingsAt
  <2>2. /\ \/ ring' = next.ring /\ it' = next.it
           \/ ring' \in {ring, code.ring} /\ UNCHANGED it
        /\ UNCHANGED off
    BY <1>6, Zenon DEF Scan
  <2>3. next.ring.begin = ring.begin /\ next.it.off \in Offsets
    <3> HIDE DEF code
    <3>1. 1 \in 0..Capacity /\ 1 \in Nat
      BY <1>4
    <3>2. QED
      BY <1>3, <2>1, <3>1, AdvanceType, AdvanceInside
  <2> HIDE DEF code, next
  <2>4. QED
    BY <1>3, <2>1, <2>2, <2>3
<1>7. CASE Return
  <2> DEFINE start == Advance(ring, ring.begin, off)
             frame == DataBetween(start.ring, start.it, it)
  <2>1. start.ring.begin = ring.begin
    BY <1>3, <1>4, AdvanceType
  <2>2. /\ UNCHANGED <<it, off>>
        /\ \/ ring' \in {ring, start.ring}
           \/ ring' = SetOffect(start.ring, it)
    BY <1>7, Zenon DEF Return, CallEnds, Nothing, Frame
  <2>3. start.ring \in Rings
    BY <1>3, <1>4, AdvanceType
  <2> HIDE DEF start, frame
  <2>4. SetOffect(start.ring, it).begin = it
    BY <2>3 DEF SetOffect, Rings
  <2>5. QED
    BY <1>3, <2>1, <2>2, <2>4
<1>8. CASE UNCHANGED <<ring, it, off>>
  BY <1>3, <1>8
<1>9. \/ Call \/ Scan \/ Return
      \/ UNCHANGED <<ring, it, off>>
  BY <1>2 DEF Next, Take, HandleTimeout, Arrive, Enough, vars, sourceVars, scanVars
<1>10. QED
  BY <1>5, <1>6, <1>7, <1>8, <1>9

-----------------------------------------------------------------------------
(* The invariants together, and what follows.                              *)

FilmsFit == ~IsAudio => PacketsFit

MediaInv == SourceInv /\ SentInv /\ SentTimes /\ FilmsFit

\* Nothing was sent, and nothing received.
LEMMA MediaInvInit ==
  ASSUME Init
  PROVE  MediaInv /\ ClientInv /\ TimeInv /\ InsideInv
<1>1. SourceInv
  BY SourceInvInit
<1>2. /\ sent = <<>> /\ seq = 0 /\ timestamp = 0 /\ shown = 0 /\ arrived = 0
      /\ partial = <<>> /\ nextSeq = 0 /\ received = <<>> /\ lost = 0 /\ returned = <<>>
  BY DEF Init, SinkInit, SourceInit
<1>3. SeqMod \in Nat \ {0} /\ MaxLost \in Nat /\ Capacity \in Nat \ {0}
  BY SinkAssumption, PathAssumption, RingAssumption
<1>4. SentInv
  <2>1. Len(sent) = 0 /\ Len(returned) = 0 /\ \A i : i \in 1..1 => SeqOf(i) = 0
    BY <1>2 DEF SeqOf
  <2>2. Numbered
    BY <1>3, <2>1 DEF Numbered
  <2>3. QED
    BY <1>2, <2>1, <2>2 DEF SentInv
<1>5. ~InFlight /\ SentTimes /\ FilmsFit
  BY <1>2 DEF InFlight, SentTimes, FilmsFit, PacketsFit
<1>6. ClientInv
  BY <1>2, <1>3, <1>5 DEF ClientInv, ReceivedInv, PartialInv, LosslessInv
<1>7. TimeInv
  BY <1>2 DEF TimeInv
<1>8. InsideInv
  <2>1. it.off = 0 /\ off = 0
    BY DEF Init, ScanInit, Place
  <2>2. ring.begin = Place(0, 0)
    <3> DEFINE r == [file |-> FileOf(movie), taken |-> 0, eof |-> FALSE, last |-> Place(0, 0),
                     data |-> [a \in {0, 1} |-> [o \in Offsets |-> 0]], begin |-> Place(0, 0)]
    <3>1. r \in Rings
      <4>1. FileOf(movie) \in Seq(Nat)
        BY FileAssumption DEF Init
      <4>2. Place(0, 0) \in Places
        BY <1>3 DEF Place, Places
      <4>3. [a \in {0, 1} |-> [o \in Offsets |-> 0]] \in Arrays
        BY DEF Arrays
      <4>4. QED
        BY <4>1, <4>2, <4>3, LenProperties DEF Rings
    <3>2. ring = ReadFile(r, 0)
      BY DEF Init, SourceInit, NewRing
    <3>3. r.begin = Place(0, 0)
      OBVIOUS
    <3> HIDE DEF r
    <3>4. QED
      BY <3>1, <3>2, <3>3, ReadFileType
  <2>3. 0 \in Offsets
    BY <1>3 DEF Offsets
  <2>4. QED
    BY <2>1, <2>2, <2>3 DEF InsideInv, Place
<1>9. QED
  BY <1>1, <1>4, <1>5, <1>6, <1>7, <1>8 DEF MediaInv

\* The invariants of the source and of the sink, step by step.
LEMMA MediaInvStep ==
  ASSUME MediaInv, [Next]_vars
  PROVE  MediaInv'
<1>1. SourceInv' /\ SentInv'
  BY SourceStep, SentInvStep DEF MediaInv
<1>2. SentTimes'
  BY <1>1, SentTimesStep DEF MediaInv
<1>3. FilmsFit'
  <2>1. CASE HandleTimeout
    <3>1. IsAudio' = IsAudio
      BY <2>1 DEF HandleTimeout, IsAudio
    <3>2. ~IsAudio => \A i \in 1..Len(sent') : sent'[i].size <= Room
      BY <2>1, HandleSends DEF MediaInv
    <3>3. ~IsAudio => DOMAIN sent' = 1..Len(sent')
      <4>1. ~IsAudio => sent' = Packets(returned[shown + 1])
        BY <2>1 DEF HandleTimeout, SendFrame
      <4>2. Len(sent') \in Nat
        BY <1>1 DEF SentInv
      <4>3. QED
        BY <4>1, <4>2 DEF Packets, Single, Fragments
    <3>4. QED
      BY <3>1, <3>2, <3>3 DEF FilmsFit, PacketsFit
  <2>2. CASE ~HandleTimeout
    <3>1. UNCHANGED <<sent, movie>>
      BY <2>2 DEF Next, Take, Arrive, Enough, vars, sinkVars
    <3>2. QED
      BY <3>1 DEF FilmsFit, PacketsFit, IsAudio, Room, MediaInv
  <2>3. QED
    BY <2>1, <2>2
<1>4. QED
  BY <1>1, <1>2, <1>3 DEF MediaInv

\* They hold for any files and any loss.
LEMMA MediaInvariant ==
  Spec => []MediaInv
<1>1. Init => MediaInv
  BY MediaInvInit
<1>2. MediaInv /\ [Next]_vars => MediaInv'
  BY MediaInvStep
<1>3. QED
  BY <1>1, <1>2, PTL DEF Spec

\* Those of the client hold as long as the numbers do not come around.
LEMMA ClientInvariant ==
  ASSUME MaxLost < SeqMod
  PROVE  Spec => [](MediaInv /\ ClientInv /\ TimeInv)
<1>1. Init => MediaInv /\ ClientInv /\ TimeInv
  BY MediaInvInit
<1>2. (MediaInv /\ ClientInv /\ TimeInv) /\ [Next]_vars => (MediaInv /\ ClientInv /\ TimeInv)'
  <2> SUFFICES ASSUME MediaInv, ClientInv, TimeInv, [Next]_vars
               PROVE  MediaInv' /\ ClientInv' /\ TimeInv'
    OBVIOUS
  <2>1. MediaInv'
    BY MediaInvStep
  <2>2. SourceInv /\ SourceInv' /\ SentInv /\ SentInv' /\ SentTimes /\ SentTimes'
    BY <2>1 DEF MediaInv
  <2>3. ClientInv'
    BY <2>2, ClientInvStep
  <2>4. TimeInv'
    BY <2>2, TimeInvStep
  <2>5. QED
    BY <2>1, <2>3, <2>4
<1>3. QED
  BY <1>1, <1>2, PTL DEF Spec

\* Whatever the length of a frame of an H.264 file, none of its packets is longer
\* than the buffer that RtpSize gave it (H264MediaSink.h, sendFrame).
THEOREM FilmsFitHolds ==
  Spec => [](~IsAudio => PacketsFit)
<1>1. MediaInv => (~IsAudio => PacketsFit)
  BY DEF MediaInv, FilmsFit
<1>2. QED
  BY <1>1, MediaInvariant, PTL

\* The client has every frame, in order, when no packet is lost, and nothing but
\* whole frames when some are, as long as not so many are lost that the sequence
\* numbers of sendFrame come around: for every size of a packet and every file.
THEOREM ReassembledHolds ==
  ASSUME MaxLost < SeqMod
  PROVE  Spec => []Reassembled
<1>1. ClientInv => Reassembled
  BY DEF ClientInv, LosslessInv, ReceivedInv, Reassembled
<1>2. QED
  BY <1>1, ClientInvariant, PTL

\* Only a parameter set has the timestamp of another frame: sendFrame moves the
\* timestamp once for each picture, however many packets it is sent in.
THEOREM PicturesApartHolds ==
  ASSUME MaxLost < SeqMod
  PROVE  Spec => []PicturesApart
<1>1. ASSUME ClientInv, TimeInv PROVE PicturesApart
  <2>1. DOMAIN received = 1..Len(received) /\ Len(received) \in Nat
    BY <1>1, LenProperties DEF ClientInv, ReceivedInv
  <2>2. ASSUME NEW i \in DOMAIN received, NEW j \in DOMAIN received, i # j,
               received[i].timestamp = received[j].timestamp
        PROVE  Parameters(i) \/ Parameters(j)
    <3>1. CASE i < j
      BY <1>1, <2>2, <3>1 DEF TimeInv
    <3>2. CASE j < i
      BY <1>1, <2>2, <3>2 DEF TimeInv
    <3>3. QED
      BY <2>1, <2>2, <3>1, <3>2
  <2>3. QED
    BY <2>2 DEF PicturesApart, Parameters
<1>2. QED
  BY <1>1, ClientInvariant, PTL

\* No iterator over an H.264 file is behind the end of an array.
LEMMA InsideInvariant ==
  ASSUME Capacity > 3
  PROVE  Spec => []InsideInv
<1>1. Init => InsideInv
  BY MediaInvInit
<1>2. MediaInv /\ InsideInv /\ [Next]_vars => InsideInv'
  BY InsideStep DEF MediaInv
<1>3. QED
  BY <1>1, <1>2, MediaInvariant, PTL DEF Spec

\* But for the two iterators, the types do not depend on where a file is read.
LEMMA ClientTypes ==
  ASSUME MediaInv, ClientInv, it.off \in Offsets, ring.begin.off \in Offsets
  PROVE  TypeOK
<1>1. /\ it \in Places /\ ring.begin \in Places /\ at \in {"call", "scan", "found"}
      /\ ring.taken \in 0..Len(ring.file)
  BY LenProperties DEF MediaInv, SourceInv, Rings
<1>2. seq \in 0..(SeqMod - 1)
  <2>1. SeqOf(Len(sent) + 1) \in 0..(SeqMod - 1) /\ Len(sent) \in Nat
    BY DEF MediaInv, SentInv, Numbered
  <2>2. QED
    BY <2>1 DEF SeqOf
<1>3. nextSeq \in 0..(SeqMod - 1) /\ \A i \in DOMAIN received : received[i].bytes \in Seq(Byte)
  <2> DEFINE Frames == [bytes : Seq(Byte) \ {<<>>}, timestamp : Nat]
  <2>1. received \in Seq(Frames) /\ nextSeq \in 0..(SeqMod - 1)
    BY DEF ClientInv, ReceivedInv
  <2>2. \A frame \in Frames : frame.bytes \in Seq(Byte)
    OBVIOUS
  <2> HIDE DEF Frames
  <2>3. QED
    BY <2>1, <2>2
<1>4. QED
  BY <1>1, <1>2, <1>3 DEF TypeOK, Places

\* For an H.264 file every variable keeps its type: the iterators of GetFrame-
\* FromFile never stand behind the end of an array, the sequence numbers are of
\* 16 bits.  (What an ADTS header says can lead behind the end; a chunk that is
\* no longer than a start code could, too.)
THEOREM FilmTypesHold ==
  ASSUME MaxLost < SeqMod, Capacity > 3
  PROVE  Spec => [](~IsAudio => TypeOK)
<1>1. MediaInv /\ ClientInv /\ InsideInv => (~IsAudio => TypeOK)
  BY ClientTypes DEF InsideInv
<1>2. QED
  BY <1>1, ClientInvariant, InsideInvariant, PTL

-----------------------------------------------------------------------------
(* Every turn of the loop brings its iterator nearer to end().             *)

\* What r may become when chunks are read into array a: the last chunk, if it
\* is among them, ends there, and is no longer than what was left of the file.
ReadInto(a, r) ==
  {q \in RingsAt(r.begin) :
     /\ q.file = r.file /\ r.taken <= q.taken
     /\ r.eof => q = r
     /\ ~r.eof /\ q.eof =>
          q.last.arr = a /\ q.last.off \in Offsets /\ q.last.off <= Len(r.file) - r.taken}

\* Nothing was read.
LEMMA NothingRead ==
  ASSUME NEW r \in Rings, NEW a
  PROVE  r \in ReadInto(a, r)
<1>1. r.taken <= r.taken
  BY DEF Rings
<1>2. QED
  BY <1>1 DEF ReadInto, RingsAt

\* Reading a chunk, or none at the end of the file.
LEMMA ReadFileInto ==
  ASSUME NEW r \in Rings, NEW a \in {0, 1}
  PROVE  /\ ReadFile(r, a) \in ReadInto(a, r)
         /\ ~ReadFile(r, a).eof => ReadFile(r, a).taken = r.taken + Capacity
<1>1. ReadFile(r, a) \in RingsAt(r.begin)
  BY ReadFileType DEF RingsAt
<1>2. /\ Len(r.file) \in Nat /\ r.taken \in Nat /\ r.taken <= Len(r.file)
      /\ Capacity \in Nat \ {0} /\ r.eof \in BOOLEAN
  BY RingAssumption, LenProperties DEF Rings
<1>3. CASE r.eof
  <2>1. ReadFile(r, a) = r
    BY <1>3 DEF ReadFile
  <2>2. QED
    BY <1>1, <1>2, <1>3, <2>1 DEF ReadInto
<1>4. CASE ~r.eof
  <2> DEFINE left == Len(r.file) - r.taken
             size == IF left < Capacity THEN left ELSE Capacity
             q    == ReadFile(r, a)
  <2>1. size \in 0..Capacity /\ size <= left
    BY <1>2
  <2>2. /\ q.file = r.file /\ q.taken = r.taken + size
        /\ q.eof <=> size < Capacity
        /\ q.last = IF size < Capacity THEN Place(size, a) ELSE r.last
    BY <1>4 DEF ReadFile, ReadChunk, Rings
  <2>3. q \in RingsAt(r.begin)
    BY <1>1
  <2> HIDE DEF size, left, q
  <2>4. q.eof => q.last.arr = a /\ q.last.off = size /\ size \in Offsets
    BY <1>2, <2>1, <2>2 DEF Place, Offsets
  <2>5. ~q.eof => q.taken = r.taken + Capacity
    BY <1>2, <2>1, <2>2
  <2>6. q \in ReadInto(a, r)
    BY <1>2, <1>4, <2>1, <2>2, <2>3, <2>4 DEF ReadInto, left
  <2>7. QED
    BY <2>5, <2>6 DEF q
<1>5. QED
  BY <1>2, <1>3, <1>4

\* One read after the other.
LEMMA ReadIntoAgain ==
  ASSUME NEW r \in Rings, NEW a, NEW q \in ReadInto(a, r), NEW s \in ReadInto(a, q)
  PROVE  s \in ReadInto(a, r)
<1>1. q \in Rings /\ s \in Rings /\ q.begin = r.begin /\ s.begin = q.begin
  BY DEF ReadInto, RingsAt
<1>2. r.taken \in Nat /\ q.taken \in Nat /\ s.taken \in Nat /\ Len(r.file) \in Nat
  BY <1>1, LenProperties DEF Rings
<1>3. /\ q.file = r.file /\ r.taken <= q.taken /\ s.file = q.file /\ q.taken <= s.taken
      /\ r.eof => q = r
      /\ q.eof => s = q
      /\ ~r.eof /\ q.eof =>
          q.last.arr = a /\ q.last.off \in Offsets /\ q.last.off <= Len(r.file) - r.taken
      /\ ~q.eof /\ s.eof =>
          s.last.arr = a /\ s.last.off \in Offsets /\ s.last.off <= Len(q.file) - q.taken
  BY DEF ReadInto
<1>4. \A o \in Offsets : o \in Nat
  BY RingAssumption DEF Offsets
<1>5. CASE ~q.eof /\ s.eof
  BY <1>1, <1>2, <1>3, <1>4, <1>5 DEF ReadInto, RingsAt
<1>6. CASE q.eof \/ ~s.eof
  BY <1>1, <1>2, <1>3, <1>6 DEF ReadInto, RingsAt
<1>7. QED
  BY <1>5, <1>6

\* A look-ahead reads into the other array, if it reads.
LEMMA AdvanceInto ==
  ASSUME NEW r \in Rings, NEW place \in Places, NEW k \in Nat
  PROVE  Advance(r, place, k).ring \in ReadInto(1 - place.arr, r)
<1>1. 1 - place.arr \in {0, 1}
  BY DEF Places
<1>2. r \in ReadInto(1 - place.arr, r)
  BY NothingRead
<1>3. Advance(r, place, k).ring \in {r, ReadFile(r, 1 - place.arr)}
  BY Zenon DEF Advance
<1>4. QED
  BY <1>1, <1>2, <1>3, ReadFileInto

\* So does the search for a start code.
LEMMA StartCodeInto ==
  ASSUME NEW r \in Rings, NEW place \in Places
  PROVE  StartCode(r, place).ring \in ReadInto(1 - place.arr, r)
<1> DEFINE S == ReadInto(1 - place.arr, r)
<1>1. r \in S
  BY NothingRead
<1>2. ASSUME NEW q \in S, NEW k \in Nat PROVE Advance(q, place, k).ring \in S
  <2>1. q \in Rings
    BY DEF ReadInto, RingsAt
  <2>2. QED
    BY <2>1, AdvanceInto, ReadIntoAgain
<1> HIDE DEF S
<1>3. StartCode(r, place).ring \in S
  BY <1>1, <1>2, StartCodeStays
<1>4. QED
  BY <1>3 DEF S

\* The way around a circle of m places, from b to a.
LEMMA WayAround ==
  ASSUME NEW m \in Nat \ {0}, NEW a \in 0..(m - 1), NEW b \in 0..(m - 1)
  PROVE  (a + m - b) % m = IF b <= a THEN a - b ELSE a + m - b
<1>1. CASE b <= a
  <2>1. a - b \in 0..(m - 1) /\ m * 1 + (a - b) = a + m - b
    BY <1>1
  <2>2. QED
    BY <1>1, <2>1, RemainderOf
<1>2. CASE ~(b <= a)
  <2>1. a + m - b \in 0..(m - 1) /\ m * 0 + (a + m - b) = a + m - b
    BY <1>2
  <2>2. QED
    BY <1>2, <2>1, RemainderOf
<1>3. QED
  BY <1>1, <1>2

\* Rest, of any ring buffer and place.
AroundOf(p) == p.arr * Capacity + p.off

RestOf(r, p) ==
  IF r.eof THEN (AroundOf(r.last) + 2 * Capacity - AroundOf(p)) % (2 * Capacity)
  ELSE (Len(r.file) - r.taken) + Capacity - p.off

\* The way to a last place, from one array or the other.
LEMMA RestAtEnd ==
  ASSUME NEW r, r.eof, NEW p, r.last.off \in Offsets, p.off \in Offsets,
         r.last.arr \in {0, 1}, p.arr \in {0, 1}
  PROVE  RestOf(r, p) = IF r.last.arr = p.arr /\ p.off <= r.last.off THEN r.last.off - p.off
                        ELSE IF r.last.arr = p.arr THEN r.last.off + 2 * Capacity - p.off
                        ELSE r.last.off + Capacity - p.off
<1> DEFINE a == AroundOf(r.last)
           b == AroundOf(p)
           m == 2 * Capacity
<1>1. /\ r.last.off \in 0..(Capacity - 1) /\ p.off \in 0..(Capacity - 1)
      /\ Capacity \in Nat \ {0}
  BY RingAssumption DEF Offsets
<1>2. /\ a = (IF r.last.arr = 0 THEN r.last.off ELSE Capacity + r.last.off)
      /\ b = (IF p.arr = 0 THEN p.off ELSE Capacity + p.off)
  BY <1>1 DEF AroundOf
<1>3. m \in Nat \ {0} /\ a \in 0..(m - 1) /\ b \in 0..(m - 1)
  BY <1>1, <1>2
<1>4. RestOf(r, p) = (a + m - b) % m
  BY DEF RestOf
<1> HIDE DEF a, b
<1>5. RestOf(r, p) = IF b <= a THEN a - b ELSE a + m - b
  <2> HIDE DEF m
  <2>1. QED
    BY <1>3, <1>4, WayAround
<1>6. QED
  BY <1>1, <1>2, <1>5

\* One turn: whatever the look-aheads read before it (q), the iterator goes on by
\* one, and the end is nearer.
LEMMA NextTurn ==
  ASSUME NEW r \in Rings, NEW p \in Places, p.off \in Offsets,
         r.eof => r.last.off \in Offsets /\ r.last # p,
         NEW q \in ReadInto(1 - p.arr, r)
  PROVE  RestOf(Advance(q, p, 1).ring, Advance(q, p, 1).it) < RestOf(r, p)
<1> DEFINE s == Advance(q, p, 1).ring
           to == Advance(q, p, 1).it
<1>1. /\ q \in Rings /\ p.arr \in {0, 1} /\ 1 - p.arr \in {0, 1} /\ 1 \in Nat
      /\ Capacity \in Nat \ {0} /\ p.off \in 0..(Capacity - 1)
  BY RingAssumption DEF ReadInto, RingsAt, Places, Offsets
<1>2. s \in ReadInto(1 - p.arr, r)
  BY <1>1, AdvanceInto, ReadIntoAgain
<1>3. \/ p.off + 1 < Capacity /\ to = Place(p.off + 1, p.arr)
      \/ /\ p.off + 1 = Capacity /\ to = Place(0, 1 - p.arr)
         /\ ~s.eof => s.taken = q.taken + Capacity
  <2>1. CASE p.off + 1 < Capacity
    BY <2>1 DEF Advance
  <2>2. CASE ~(p.off + 1 < Capacity)
    <3>1. p.off + 1 = Capacity /\ ~(1 > 2 * Capacity - p.off) /\ p.off + 1 - Capacity = 0
      BY <1>1, <2>2
    <3>2. s = ReadFile(q, 1 - p.arr) /\ to = Place(p.off + 1 - Capacity, 1 - p.arr)
      BY <2>2, <3>1, Zenon DEF Advance
    <3>3. QED
      BY <1>1, <3>1, <3>2, ReadFileInto
  <2>3. QED
    BY <2>1, <2>2
<1> SUFFICES RestOf(s, to) < RestOf(r, p)
  OBVIOUS
<1> HIDE DEF s, to
<1>4. /\ to.off \in 0..(Capacity - 1) /\ to.arr \in {0, 1}
      /\ \/ to.off = p.off + 1 /\ to.arr = p.arr
         \/ /\ to.off = 0 /\ to.arr = 1 - p.arr /\ p.off + 1 = Capacity
            /\ ~s.eof => s.taken = q.taken + Capacity
  BY <1>1, <1>3 DEF Place
<1>5. /\ r.taken \in Nat /\ Len(r.file) \in Nat /\ r.taken <= Len(r.file)
      /\ q.taken \in Nat /\ s.taken \in Nat /\ r.taken <= q.taken /\ r.taken <= s.taken
      /\ s.file = r.file
      /\ r.last \in Places
  BY <1>2, LenProperties DEF ReadInto, RingsAt, Rings
<1>6. CASE r.eof
  <2>1. s = r /\ r.last.off \in 0..(Capacity - 1) /\ r.last.arr \in {0, 1}
    BY <1>2, <1>5, <1>6 DEF ReadInto, Offsets, Places
  <2>2. r.last.off # p.off \/ r.last.arr # p.arr
    BY <1>5, <1>6 DEF Places
  <2>3. RestOf(r, p) = IF r.last.arr = p.arr /\ p.off <= r.last.off THEN r.last.off - p.off
                       ELSE IF r.last.arr = p.arr THEN r.last.off + 2 * Capacity - p.off
                       ELSE r.last.off + Capacity - p.off
    BY <1>1, <1>6, <2>1, RestAtEnd DEF Offsets
  <2>4. RestOf(s, to) = IF r.last.arr = to.arr /\ to.off <= r.last.off THEN r.last.off - to.off
                        ELSE IF r.last.arr = to.arr THEN r.last.off + 2 * Capacity - to.off
                        ELSE r.last.off + Capacity - to.off
    BY <1>4, <1>6, <2>1, RestAtEnd DEF Offsets
  <2>5. QED
    BY <1>1, <1>4, <2>1, <2>2, <2>3, <2>4
<1>7. CASE ~r.eof /\ s.eof
  <2>1. /\ s.last.arr = 1 - p.arr /\ s.last.off \in 0..(Capacity - 1)
        /\ s.last.off <= Len(r.file) - r.taken
    BY <1>2, <1>7 DEF ReadInto, Offsets
  <2>2. RestOf(s, to) = IF s.last.arr = to.arr /\ to.off <= s.last.off THEN s.last.off - to.off
                        ELSE IF s.last.arr = to.arr THEN s.last.off + 2 * Capacity - to.off
                        ELSE s.last.off + Capacity - to.off
    BY <1>1, <1>4, <1>7, <2>1, RestAtEnd DEF Offsets
  <2>3. RestOf(r, p) = (Len(r.file) - r.taken) + Capacity - p.off
    BY <1>7 DEF RestOf
  <2>4. PICK left \in Nat : left = Len(r.file) - r.taken
    BY <1>5
  <2>5. RestOf(r, p) = left + Capacity - p.off /\ s.last.off <= left
    BY <2>1, <2>3, <2>4
  <2>6. CASE to.off = p.off + 1 /\ to.arr = p.arr
    <3>1. RestOf(s, to) = s.last.off + Capacity - (p.off + 1)
      BY <1>1, <2>1, <2>2, <2>6
    <3>2. QED
      BY <1>1, <2>1, <2>5, <3>1
  <2>7. CASE to.off = 0 /\ to.arr = 1 - p.arr /\ p.off + 1 = Capacity
    <3>1. RestOf(s, to) = s.last.off
      BY <2>1, <2>2, <2>7
    <3>2. RestOf(r, p) = left + 1
      BY <1>1, <2>4, <2>5, <2>7
    <3>3. s.last.off \in Nat /\ s.last.off <= left
      BY <1>1, <2>1, <2>5
    <3>4. QED
      BY <3>1, <3>2, <3>3
  <2>8. QED
    BY <1>4, <2>6, <2>7
<1>8. CASE ~r.eof /\ ~s.eof
  <2>1. /\ RestOf(r, p) = (Len(r.file) - r.taken) + Capacity - p.off
        /\ RestOf(s, to) = (Len(r.file) - s.taken) + Capacity - to.off
    BY <1>5, <1>8 DEF RestOf
  <2>2. PICK n \in Nat : n = Len(r.file)
    BY <1>5
  <2>3. CASE to.off = p.off + 1
    <3>1. PICK t \in Nat, u \in Nat, o \in Nat :
            t = r.taken /\ u = s.taken /\ o = p.off /\ t <= u
      BY <1>1, <1>5
    <3>2. RestOf(r, p) = n - t + Capacity - o
      BY <2>1, <2>2, <3>1
    <3>3. RestOf(s, to) = n - u + Capacity - (o + 1)
      BY <2>1, <2>2, <2>3, <3>1
    <3>4. QED
      BY <1>1, <3>1, <3>2, <3>3
  <2>4. CASE to.off = 0 /\ p.off + 1 = Capacity /\ s.taken = q.taken + Capacity
    <3>1. r.taken + Capacity <= s.taken
      BY <1>1, <1>5, <2>4
    <3>2. PICK t \in Nat, u \in Nat : t = r.taken /\ u = s.taken /\ t + Capacity <= u
      BY <1>5, <3>1
    <3>3. RestOf(r, p) = n - t + 1
      BY <1>1, <2>1, <2>2, <2>4, <3>2
    <3>4. RestOf(s, to) = n - u + Capacity
      BY <1>1, <2>1, <2>2, <2>4, <3>2
    <3>5. QED
      BY <1>1, <3>2, <3>3, <3>4
  <2>5. QED
    BY <1>4, <1>8, <2>3, <2>4
<1>9. QED
  BY <1>6, <1>7, <1>8

\* The last chunk ends inside an array.
EndsInside(r) == r.eof => r.last.off \in Offsets

\* Only a call for an H.264 file scans, and it does with nothing on its way.
ScanInv ==
  /\ IsAudio => at = "call"
  /\ at = "scan" => ~InFlight /\ shown = Len(returned)
  /\ ~IsAudio => EndsInside(ring)

\* Reads keep the end of the file inside an array.
LEMMA ReadInside ==
  ASSUME NEW r \in Rings, EndsInside(r), NEW a, NEW q \in ReadInto(a, r)
  PROVE  q \in Rings /\ EndsInside(q)
BY DEF ReadInto, RingsAt, EndsInside

\* The end stays where it is when the beginning moves.
LEMMA OffectInside ==
  ASSUME NEW r \in Rings, EndsInside(r), NEW place
  PROVE  EndsInside(SetOffect(r, place))
BY DEF EndsInside, SetOffect, Rings

\* The steps of a call for an H.264 file.
LEMMA FilmInside ==
  ASSUME SourceInv, EndsInside(ring), Call \/ Scan \/ Return
  PROVE  EndsInside(ring')
<1>1. ring.begin \in Places /\ ring \in Rings /\ it \in Places /\ off \in Nat
  BY DEF SourceInv, Rings
<1>2. ASSUME NEW place \in Places, NEW k \in Nat, NEW r \in Rings, EndsInside(r)
      PROVE  /\ Advance(r, place, k).ring \in Rings
             /\ EndsInside(Advance(r, place, k).ring)
             /\ StartCode(r, place).ring \in Rings
             /\ EndsInside(StartCode(r, place).ring)
  BY <1>2, AdvanceInto, StartCodeInto, ReadInside
<1>3. CASE Call
  <2> DEFINE code == StartCode(ring, ring.begin)
             next == Advance(code.ring, ring.begin, code.length)
  <2>1. ring' \in {ring, code.ring, next.ring}
    BY <1>3, Zenon DEF Call, Nothing
  <2>2. code.length \in Nat
    BY <1>1, StartCodeType
  <2>3. code.ring \in Rings /\ EndsInside(code.ring)
    BY <1>1, <1>2, 0 \in Nat
  <2>4. EndsInside(next.ring)
    <3> HIDE DEF code
    <3>1. QED
      BY <1>1, <1>2, <2>2, <2>3
  <2> HIDE DEF code, next
  <2>5. QED
    BY <2>1, <2>3, <2>4
<1>4. CASE Scan
  <2> DEFINE code == StartCode(ring, it)
             next == Advance(code.ring, it, 1)
  <2>1. ring' \in {ring, code.ring, next.ring}
    BY <1>4, Zenon DEF Scan
  <2>2. code.ring \in Rings /\ EndsInside(code.ring)
    BY <1>1, <1>2, 0 \in Nat
  <2>3. EndsInside(next.ring)
    <3> HIDE DEF code
    <3>1. QED
      BY <1>1, <1>2, <2>2, 1 \in Nat
  <2> HIDE DEF code, next
  <2>4. QED
    BY <2>1, <2>2, <2>3
<1>5. CASE Return
  <2> DEFINE start == Advance(ring, ring.begin, off)
  <2>1. ring' \in {ring, start.ring, SetOffect(start.ring, it)}
    BY <1>5, Zenon DEF Return, Nothing, Frame
  <2>2. start.ring \in Rings /\ EndsInside(start.ring)
    BY <1>1, <1>2
  <2> HIDE DEF start
  <2>3. QED
    BY <2>1, <2>2, OffectInside
<1>6. QED
  BY <1>3, <1>4, <1>5

\* The constructor.
LEMMA ScanInvInit ==
  ASSUME Init
  PROVE  ScanInv
<1>1. at = "call" /\ FileOf(movie) \in Seq(Nat) /\ ring = NewRing(FileOf(movie))
  BY FileAssumption DEF Init, ScanInit, SourceInit
<1> DEFINE r == [file |-> FileOf(movie), taken |-> 0, eof |-> FALSE, last |-> Place(0, 0),
                 data |-> [a \in {0, 1} |-> [o \in Offsets |-> 0]], begin |-> Place(0, 0)]
<1>2. r \in Rings
  <2>1. Place(0, 0) \in Places
    BY RingAssumption DEF Place, Places
  <2>2. [a \in {0, 1} |-> [o \in Offsets |-> 0]] \in Arrays
    BY DEF Arrays
  <2>3. QED
    BY <1>1, <2>1, <2>2, LenProperties DEF Rings
<1>3. ring = ReadFile(r, 0) /\ EndsInside(r)
  BY <1>1 DEF NewRing, EndsInside
<1> HIDE DEF r
<1>4. EndsInside(ring)
  BY <1>2, <1>3, ReadFileInto, ReadInside
<1>5. QED
  BY <1>1, <1>4 DEF ScanInv

\* Nothing is taken, sent or received while a call scans but by the call.
LEMMA ScanInvStep ==
  ASSUME SourceInv, ScanInv, [Next]_vars
  PROVE  ScanInv'
<1>1. Len(returned) \in Nat /\ shown = Len(returned) => ~(shown < Len(returned))
  BY LenProperties DEF SourceInv
<1>2. IsAudio' = IsAudio
  BY DEF Next, Take, HandleTimeout, Arrive, Enough, vars, IsAudio
<1>3. CASE Take
  <2>1. ~InFlight' /\ shown = Len(returned) /\ UNCHANGED shown
    BY <1>3 DEF Take, InFlight, sinkVars
  <2>2. CASE IsAudio
    <3>1. UNCHANGED at
      BY <1>3, <2>2 DEF Take, scanVars
    <3>2. QED
      BY <1>2, <2>2, <3>1 DEF ScanInv
  <2>3. CASE ~IsAudio
    <3>1. Call \/ Scan \/ Return
      BY <1>3, <2>3 DEF Take
    <3>2. EndsInside(ring')
      BY <2>3, <3>1, FilmInside DEF ScanInv
    <3>3. at' = "scan" => UNCHANGED returned
      BY <3>1 DEF Call, Scan, Return, CallEnds
    <3>4. QED
      BY <1>2, <2>1, <2>3, <3>2, <3>3 DEF ScanInv
  <2>4. QED
    BY <2>2, <2>3
<1>4. CASE HandleTimeout \/ Arrive
  <2>1. UNCHANGED <<ring, at>> /\ at # "scan"
    BY <1>1, <1>4 DEF HandleTimeout, Arrive, ScanInv, sourceVars, scanVars
  <2>2. QED
    BY <1>2, <2>1 DEF ScanInv
<1>5. CASE UNCHANGED vars
  BY <1>2, <1>5 DEF ScanInv, vars, sourceVars, scanVars, sinkVars, InFlight
<1>6. QED
  BY <1>3, <1>4, <1>5 DEF Next, Enough

\* A turn of the loop.
LEMMA ScanTurns ==
  ASSUME SourceInv, InsideInv, ScanInv, [Next]_vars, at = "scan", at' = "scan"
  PROVE  Rest' < Rest \/ UNCHANGED vars
<1>1. Rest = RestOf(ring, it) /\ Rest' = RestOf(ring', it')
  BY DEF Rest, RestOf, AroundOf
<1>2. (Take /\ ~IsAudio /\ Scan) \/ UNCHANGED vars
  <2>1. ~IsAudio /\ ~InFlight /\ shown = Len(returned) /\ Len(returned) \in Nat
    BY LenProperties DEF ScanInv, SourceInv
  <2>2. ~HandleTimeout /\ ~Arrive
    BY <2>1 DEF HandleTimeout, Arrive
  <2>3. ~Call /\ ~Return
    BY DEF Call, Return
  <2>4. QED
    BY <2>1, <2>2, <2>3 DEF Next, Take, Enough
<1>3. CASE Take /\ ~IsAudio /\ Scan
  <2> DEFINE q == StartCode(ring, it).ring
             next == Advance(q, it, 1)
  <2>1. Differ(it, End(ring)) /\ ring' = next.ring /\ it' = next.it
    BY <1>3, Zenon DEF Scan
  <2>2. ring \in Rings /\ it \in Places /\ it.off \in Offsets
    BY <1>3 DEF SourceInv, InsideInv
  <2>3. ring.eof => ring.last.off \in Offsets /\ ring.last # it
    BY <1>3, <2>1 DEF ScanInv, EndsInside, Differ, End
  <2>4. q \in ReadInto(1 - it.arr, ring)
    BY <2>2, StartCodeInto
  <2>5. RestOf(next.ring, next.it) < RestOf(ring, it)
    <3> HIDE DEF q
    <3>1. QED
      BY <2>2, <2>3, <2>4, NextTurn
  <2> HIDE DEF next
  <2>6. QED
    BY <1>1, <2>1, <2>5
<1>4. QED
  BY <1>2, <1>3

\* Every call of GetFrameFromFile for an H.264 file comes back: whatever its
\* look-aheads read, and whatever is in the file, each turn of the loop brings the
\* iterator nearer to end(), which none steps over.
THEOREM ScanNearsEndHolds ==
  ASSUME Capacity > 3
  PROVE  Spec => ScanNearsEnd
<1>1. Init => ScanInv
  BY ScanInvInit
<1>2. MediaInv /\ ScanInv /\ [Next]_vars => ScanInv'
  BY ScanInvStep DEF MediaInv
<1>3. MediaInv /\ InsideInv /\ ScanInv /\ [Next]_vars
        => [at = "scan" /\ at' = "scan" => Rest' < Rest]_vars
  BY ScanTurns DEF MediaInv
<1>4. QED
  BY <1>1, <1>2, <1>3, MediaInvariant, InsideInvariant, PTL DEF Spec, ScanNearsEnd
=============================================================================
