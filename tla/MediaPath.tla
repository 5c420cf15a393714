------------------------------ MODULE MediaPath ------------------------------
(***************************************************************************)
(* A file on its way to a client: GetFrameFromFile takes frames out of the *)
(* file, Sink::handleTimeout sends each as RTP packets, and the client     *)
(* puts them together again.  The source and the sink are those of H.264   *)
(* or those of AAC, by the kind of file.  FrameCache shows that frames are *)
(* sent in the order in which they were taken, so here each is sent as     *)
(* soon as it was.  Over UDP packets may be lost.                          *)
(***************************************************************************)
EXTENDS H264Source, AACSource, H264Sink, AACSink

CONSTANTS
  Movies,       \* the files: sequences of units, each with the length of what
                \* goes before its bytes (a start code or an ADTS header)
  MaxFrames,    \* bound on the frames taken out of a file
  MaxLost       \* bound on the packets lost

ASSUME PathAssumption == MaxFrames \in Nat /\ MaxLost \in Nat

VARIABLES
  movie,        \* the file there is
  shown,        \* how many of the returned frames were sent
  arrived,      \* how many of the packets sent last have arrived, or were lost
  partial,      \* the client: what it has of a fragmented frame
  nextSeq,      \* the client: the sequence number it expects
  received,     \* the client: the frames it has, with their timestamps
  lost

clientVars == <<partial, nextSeq, received>>
vars == <<movie, sourceVars, scanVars, sinkVars, shown, arrived, clientVars, lost>>

IsAudio == movie[1].code = AdtsSize

Prefix(unit) ==
  CASE unit.code = AdtsSize -> <<Sync, AdtsSize + Len(unit.bytes)>>
    [] unit.code = 3 -> <<0, 0, 1>>
    [] unit.code = 4 -> <<0, 0, 0, 1>>

\* The bytes of a file.
FileOf(m) ==
  LET upTo[i \in 0..Len(m)] ==
        IF i = 0 THEN <<>> ELSE upTo[i - 1] \o Prefix(m[i]) \o m[i].bytes
  IN upTo[Len(m)]

ASSUME FileAssumption == \A m \in Movies : FileOf(m) \in Seq(Nat)

\* How many bytes there are before unit i of a file.
StartOf(m, i) == Len(FileOf(SubSeq(m, 1, i - 1)))

Init ==
  /\ movie \in Movies
  /\ SourceInit(FileOf(movie))
  /\ ScanInit
  /\ SinkInit
  /\ shown = 0 /\ arrived = 0
  /\ partial = <<>>
  /\ nextSeq = 0
  /\ received = <<>>
  /\ lost = 0

\* Packets are on their way.
InFlight == arrived < Len(sent)

Take ==
  /\ ~InFlight /\ shown = Len(returned)
  /\ shown < MaxFrames
  /\ \/ ~IsAudio /\ (Call \/ Scan \/ Return)
     \/ IsAudio /\ GetFrameFromFile /\ UNCHANGED scanVars
  /\ UNCHANGED <<movie, sinkVars, shown, arrived, clientVars, lost>>

\* handleTimeout with the next frame.
HandleTimeout ==
  /\ ~InFlight /\ shown < Len(returned)
  /\ IF IsAudio THEN SendAccessUnit(returned[shown + 1]) ELSE SendFrame(returned[shown + 1])
  /\ shown' = shown + 1
  /\ arrived' = 0
  /\ UNCHANGED <<movie, sourceVars, scanVars, clientVars, lost>>

-----------------------------------------------------------------------------
(* The client (RFC 6184 and RFC 3640), and the network before it.          *)

Complete(bytes, p) ==
  /\ received' = Append(received, [bytes |-> bytes, timestamp |-> p.timestamp])
  /\ partial' = <<>>

\* A fragment joins what went before it, unless a packet between was lost.
Join(p) ==
  LET before == IF p.start THEN <<p.type>> ELSE partial
      joined == before \o p.data
  IN IF before = <<>> \/ (~p.start /\ p.seq # nextSeq)
       THEN partial' = <<>> /\ UNCHANGED received
     ELSE IF p.end THEN Complete(joined, p)
     ELSE partial' = joined /\ UNCHANGED received

Receive(p) ==
  /\ IF p.kind = "fragment" THEN Join(p) ELSE Complete(p.data, p)
  /\ nextSeq' = (p.seq + 1) % SeqMod
  /\ UNCHANGED lost

Lose ==
  /\ lost < MaxLost
  /\ lost' = lost + 1
  /\ UNCHANGED clientVars

Arrive ==
  /\ InFlight
  /\ arrived' = arrived + 1
  /\ Receive(sent[arrived + 1]) \/ Lose
  /\ UNCHANGED <<movie, sourceVars, scanVars, sinkVars, shown>>

\* The bound on frames is reached.
Enough == ~InFlight /\ shown = MaxFrames /\ UNCHANGED vars

Next == Take \/ HandleTimeout \/ Arrive \/ Enough

Spec == Init /\ [][Next]_vars

-----------------------------------------------------------------------------
(* Properties.                                                             *)

Byte == Nat \cup {Stray, Beyond}

TypeOK ==
  /\ it.off \in Offsets /\ it.arr \in {0, 1}
  /\ ring.begin.off \in Offsets /\ ring.begin.arr \in {0, 1}
  /\ ring.taken \in 0..Len(ring.file)
  /\ at \in {"call", "scan", "found"}
  /\ seq \in 0..(SeqMod - 1)
  /\ nextSeq \in 0..(SeqMod - 1)
  /\ \A i \in DOMAIN received : received[i].bytes \in Seq(Byte)

\* Unit i as it is returned.  Of an AAC frame that is cut by the end of a chunk,
\* the part in the chunk after the one where its data starts is torn off: there
\* are as many bytes, but from behind the array.
AsReturned(i) ==
  LET start == StartOf(movie, i) + movie[i].code
      inChunk(k) == (start + k - 1) \div Capacity = start \div Capacity
  IN IF IsAudio
       THEN [k \in DOMAIN movie[i].bytes |-> IF inChunk(k) THEN movie[i].bytes[k] ELSE Beyond]
       ELSE movie[i].bytes

(* Which files the next three are for, beside those TLC is given.          *)

\* Units with something in them, none longer than a chunk, and each with its
\* start code or header in one chunk, not at the end of it.
Chunked(m) ==
  /\ m # <<>>
  /\ \A i \in DOMAIN m :
       /\ m[i].bytes # <<>>
       /\ m[i].code + Len(m[i].bytes) <= Capacity
       /\ (StartOf(m, i) % Capacity) + m[i].code < Capacity

\* An H.264 file: nothing in a unit looks like a start code, or like the first
\* byte of the next one; and no full chunk ends with a zero.
Film(m) ==
  /\ m \in Seq([code : {3, 4}, bytes : Seq(Nat)])
  /\ Chunked(m)
  /\ \A i \in DOMAIN m :
       LET bytes == m[i].bytes
       IN /\ bytes[Len(bytes)] # 0
          /\ \A k \in 1..(Len(bytes) - 2) :
               ~(bytes[k] = 0 /\ bytes[k + 1] = 0 /\ bytes[k + 2] = 1)
  /\ \A p \in DOMAIN FileOf(m) : p % Capacity = 0 => FileOf(m)[p] # 0

\* An AAC file.
Recording(m) ==
  /\ m \in Seq([code : {AdtsSize}, bytes : Seq(Nat)])
  /\ Chunked(m)

\* "Read one frame from file" (H264MediaSource.h:27, AACMediaSource.h:59): as
\* far as the file goes, the n-th frame GetFrameFromFile returns is its n-th
\* unit, byte for byte, wherever the chunks of the ring buffer end; an AAC frame
\* cut by such an end is torn, but no frame after it.
FramesOfFile ==
  \A i \in DOMAIN returned \cap DOMAIN movie : returned[i] = AsReturned(i)

\* What lies behind the end of the file in the two arrays: what was read there
\* two chunks before, or the zeros of the constructor.  A unit may start with it.
StaleStart ==
  LET file == FileOf(movie)
      Behind(k) == LET old == Len(file) - 2 * Capacity + k
                   IN IF old > 0 THEN file[old] ELSE 0
      Holds(code) == \A k \in DOMAIN code : Behind(k) = code[k]
  IN IF IsAudio THEN Holds(<<Sync>>) ELSE Holds(<<0, 0, 1>>) \/ Holds(<<0, 0, 0, 1>>)

\* No frame is returned that is not in the file, however often the timer asks
\* after its end, unless a unit happens to start with what lies behind it.
NothingAdded == ~StaleStart => Len(returned) <= Len(movie)

\* GetFrameFromFile returns nothing only when every frame was returned: it
\* neither loses its place nor drops the frame that the end of the file ends.
NothingLeft == last = "nothing" => Len(returned) >= Len(movie)

\* How many places the iterator of a scan has before it until it is end(): round
\* the two arrays when the file was read to its end, else through what is left
\* of the file.
Rest ==
  LET Around(p) == p.arr * Capacity + p.off
  IN IF ring.eof
       THEN (Around(ring.last) + 2 * Capacity - Around(it)) % (2 * Capacity)
       ELSE (Len(ring.file) - ring.taken) + Capacity - it.off

\* A call of GetFrameFromFile, which holds the mutex that ReadFrame waits for,
\* returns: every turn of its loop, which stops at no other place than end(),
\* brings that place nearer, and none steps over it, whatever the look-aheads
\* read meanwhile.
ScanNearsEnd == [][at = "scan" /\ at' = "scan" => Rest' < Rest]_vars

\* What is sent fits into the buffer for one packet.  (An AAC frame is never
\* split: the files here have none longer than Room - AuHeader.)
PacketsFit == \A i \in DOMAIN sent : sent[i].size <= Room

\* What the client makes of the packets of a frame that went in fragments has
\* a byte at its end that is not of the frame (H264MediaSink.h:97).
Arrives(frame) == IF IsAudio \/ Len(frame) <= MaxPkt THEN frame ELSE Append(frame, Stray)

\* The FU bits and sequence numbers of sendFrame let a client tell frames
\* apart: without loss it has all of them, in order; with losses it never has a
\* mixture of two frames, or a frame with a hole.
Reassembled ==
  /\ lost = 0 => /\ Len(received) = IF InFlight THEN shown - 1 ELSE shown
                 /\ \A i \in DOMAIN received : received[i].bytes = Arrives(returned[i])
  /\ \A i \in DOMAIN received :
       \E j \in 1..shown : received[i].bytes = Arrives(returned[j])

\* Two pictures, or two audio frames, never have the same timestamp, however many
\* packets each took and whatever parameter sets went between them.
PicturesApart ==
  \A i, j \in DOMAIN received :
    /\ i # j
    /\ received[i].timestamp = received[j].timestamp
    => /\ ~IsAudio
       /\ received[i].bytes[1] \in {SPS, PPS} \/ received[j].bytes[1] \in {SPS, PPS}
=============================================================================
