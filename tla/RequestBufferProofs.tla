------------------------ MODULE RequestBufferProofs ------------------------
(***************************************************************************)
(* For every script, every size of the buffer and every way to cut the     *)
(* stream: rbuf_ holds what the call has read, and no data is forgotten in *)
(* the socket.  If no request has a second request line (OneLine), answers *)
(* go to requests that were asked, once and in order, as RequestDialogue   *)
(* has it; if requests are WellFormed, one that is read alone is answered  *)
(* with its own headers.                                                   *)
(*                                                                         *)
(* NoDataForgotten is not inductive: a call that ends must know that it    *)
(* emptied the socket.  It does, unless more came after its last read and  *)
(* made an edge of its own: only a read that filled rbuf_ to the last byte *)
(* leaves something behind, and then the loop goes on (Emptied).  The      *)
(* order of the answers is that of what was not read yet (OrderInv), and   *)
(* headers of earlier calls lie no further on than far (FarInv).           *)
(***************************************************************************)
EXTENDS RequestBuffer, SequenceTheorems, WellFoundedInduction, TLAPS

BufferTypes ==
  /\ script \in Scripts
  /\ asked \in Nat
  /\ wire \in Seq(Cells) /\ inbox \in Seq(Cells)
  /\ rbuf \in Seq(Cells) /\ got \in Seq(Cells)
  /\ rbuf # <<>>
  /\ n \in 0..Len(rbuf)

\* While the call runs: what is left in the socket, it will read, or an edge of
\* its own tells of it.
Emptied ==
  pc = "loop" /\ peer # "rst" => n = Len(rbuf) \/ inbox = <<>> \/ edge

BufferInv == BufferTypes /\ Received /\ Emptied /\ NoDataForgotten

-----------------------------------------------------------------------------
(* The sequences the actions are made of.                                  *)

LEMMA CellType ==
  ASSUME NEW kind \in {"method", "url", "cseq", "transport", "value", "line", "report",
                       "cut", "nul"},
         NEW req \in Nat
  PROVE  Cell(kind, req) \in Cells
BY DEF Cell, Cells

\* A request is a sequence of cells.
LEMMA RequestType ==
  ASSUME script \in Scripts, NEW i \in DOMAIN script
  PROVE  Request(i) \in Seq(Cells)
<1> DEFINE Kinds == {"method", "url", "cseq", "transport", "value", "line"}
<1>1. script \in Seq(Seq(Kinds))
  BY BufferAssumption
<1>2. i \in Nat /\ script[i] \in Seq(Kinds)
  BY <1>1
<1>3. \A p \in DOMAIN script[i] : script[i][p] \in Kinds
  BY <1>2
<1>4. \A p \in DOMAIN script[i] :
        Cell(script[i][p], IF script[i][p] = "line" THEN 0 ELSE i) \in Cells
  BY <1>2, <1>3, CellType
<1>5. DOMAIN script[i] = 1..Len(script[i]) /\ Len(script[i]) \in Nat
  BY <1>2
<1> QED
  BY <1>4, <1>5, IsASeq DEF Request

\* The smaller of two numbers.
LEMMA LeastType ==
  ASSUME NEW a \in Nat, NEW b \in Nat
  PROVE  /\ Least(a, b) \in Nat
         /\ Least(a, b) <= a /\ Least(a, b) <= b
         /\ Least(a, b) = a \/ Least(a, b) = b
BY DEF Least

\* A call takes what there is, as far as there is room; what it leaves, it had no
\* room for.
LEMMA TakenAndLeft ==
  ASSUME inbox \in Seq(Cells), inbox # <<>>, NEW size \in Nat \ {0}
  PROVE  /\ Taken(size) \in Seq(Cells)
         /\ Left(size) \in Seq(Cells)
         /\ Len(Taken(size)) \in 1..size
         /\ Len(Taken(size)) = size \/ Left(size) = <<>>
<1> DEFINE k == Least(size, Len(inbox))
<1>1. Len(inbox) \in Nat
  OBVIOUS
<1>2. k \in Nat /\ k <= size /\ k <= Len(inbox) /\ (k = size \/ k = Len(inbox))
  BY <1>1, LeastType
<1> HIDE DEF k
<1>3. /\ SubSeq(inbox, 1, k) \in Seq(Cells)
      /\ Len(SubSeq(inbox, 1, k)) = k
  BY <1>1, <1>2
<1>4. /\ SubSeq(inbox, k + 1, Len(inbox)) \in Seq(Cells)
      /\ k = Len(inbox) => SubSeq(inbox, k + 1, Len(inbox)) = <<>>
  BY <1>1, <1>2
<1>5. Len(inbox) > 0
  BY EmptySeq
<1>6. Taken(size) = SubSeq(inbox, 1, k) /\ Left(size) = SubSeq(inbox, k + 1, Len(inbox))
  BY DEF Taken, Left, k
<1>7. k \in 1..size
  BY <1>1, <1>2, <1>5
<1> QED
  BY <1>2, <1>3, <1>4, <1>6, <1>7

\* What is laid over a buffer it fits into is its beginning.
LEMMA OverlayType ==
  ASSUME NEW cells \in Seq(Cells), NEW buf \in Seq(Cells), Len(cells) <= Len(buf)
  PROVE  /\ Overlay(cells, buf) \in Seq(Cells)
         /\ Len(Overlay(cells, buf)) = Len(buf)
         /\ \A p \in 1..Len(cells) : Overlay(cells, buf)[p] = cells[p]
<1>1. Overlay(cells, buf) = [p \in 1..Len(buf) |-> IF p <= Len(cells) THEN cells[p] ELSE buf[p]]
  BY DEF Overlay
<1>2. \A p \in 1..Len(buf) : (IF p <= Len(cells) THEN cells[p] ELSE buf[p]) \in Cells
  OBVIOUS
<1>3. Len(buf) \in Nat /\ Len(cells) \in Nat
  OBVIOUS
<1>4. Overlay(cells, buf) \in Seq(Cells)
  BY <1>1, <1>2, <1>3, IsASeq
<1>5. DOMAIN Overlay(cells, buf) = 1..Len(buf)
  BY <1>1
<1> QED
  BY <1>1, <1>3, <1>4, <1>5

StartsWith(buf, cells) ==
  /\ Len(cells) <= Len(buf)
  /\ \A p \in 1..Len(cells) : buf[p] = cells[p]

\* What starts alike still does with more behind it.
LEMMA ConcatStarts ==
  ASSUME NEW a \in Seq(Cells), NEW b \in Seq(Cells),
         NEW c \in Seq(Cells), NEW d \in Seq(Cells),
         Len(a) = Len(c), StartsWith(a, c), StartsWith(b, d)
  PROVE  StartsWith(a \o b, c \o d)
<1> USE DEF StartsWith
<1>1. /\ Len(a) \in Nat /\ Len(b) \in Nat /\ Len(c) \in Nat /\ Len(d) \in Nat
      /\ a \o b \in Seq(Cells) /\ c \o d \in Seq(Cells)
      /\ Len(a \o b) = Len(a) + Len(b) /\ Len(c \o d) = Len(c) + Len(d)
  BY ConcatProperties, LenProperties
<1>2. ASSUME NEW p \in 1..Len(c \o d)
      PROVE  (a \o b)[p] = (c \o d)[p]
  <2>1. CASE p <= Len(c)
    <3>1. p \in 1..Len(c) /\ p \in 1..Len(a)
      BY <1>1, <2>1
    <3> QED
      BY <1>1, <3>1
  <2>2. CASE p > Len(c)
    <3>1. p - Len(c) \in 1..Len(d) /\ p \in 1..(Len(c) + Len(d)) /\ p \in 1..(Len(a) + Len(b))
      BY <1>1, <2>2
    <3>2. (c \o d)[p] = d[p - Len(c)]
      BY <1>1, <2>2, <3>1
    <3>3. (a \o b)[p] = b[p - Len(c)]
      BY <1>1, <2>2, <3>1
    <3> QED
      BY <3>1, <3>2, <3>3
  <2> QED
    BY <1>1, <2>1, <2>2
<1> QED
  BY <1>1, <1>2

-----------------------------------------------------------------------------
(* The invariant.                                                          *)

LEMMA BufferInit == Init => BufferInv
<1> SUFFICES ASSUME Init PROVE BufferInv
  OBVIOUS
<1> USE DEF Init
<1>1. /\ InitSize \in Nat \ {0}
      /\ Nul \in Cells
  BY BufferAssumption, CellType DEF Nul
<1>2. rbuf \in Seq(Cells) /\ Len(rbuf) = InitSize
  BY <1>1, IsASeq
<1>3. rbuf # <<>> /\ n \in 0..Len(rbuf)
  BY <1>1, <1>2
<1>4. wire \in Seq(Cells) /\ inbox \in Seq(Cells) /\ got \in Seq(Cells)
  OBVIOUS
<1>5. BufferTypes
  BY <1>2, <1>3, <1>4 DEF BufferTypes
<1> QED
  BY <1>5 DEF BufferInv, Received, Emptied, NoDataForgotten

\* The client and the network add to the socket only with an edge.
LEMMA EnvironmentKeeps ==
  ASSUME BufferInv, Ask \/ Report \/ Deliver \/ Close
  PROVE  BufferInv'
<1> USE DEF BufferInv, BufferTypes
<1>1. CASE Ask
  <2>1. /\ asked + 1 \in DOMAIN script
        /\ UNCHANGED <<script, inbox, edge, pc, rbuf, n, got, peer, gone>>
        /\ asked' = asked + 1
        /\ wire' = wire \o Request(asked + 1)
    BY <1>1, BufferAssumption DEF Ask, ClientStep, bufferVars
  <2>2. Request(asked + 1) \in Seq(Cells)
    BY <2>1, RequestType
  <2>3. wire' \in Seq(Cells) /\ asked' \in Nat
    BY <2>1, <2>2
  <2> QED
    BY <2>1, <2>3 DEF Received, Emptied, NoDataForgotten
<1>2. CASE Report
  <2>1. /\ UNCHANGED <<script, asked, inbox, edge, pc, rbuf, n, got, peer, gone>>
        /\ wire' = Append(wire, Cell("report", 0))
    BY <1>2 DEF Report, ClientStep, bufferVars
  <2>2. wire' \in Seq(Cells)
    BY <2>1, CellType
  <2> QED
    BY <2>1, <2>2 DEF Received, Emptied, NoDataForgotten
<1>3. CASE Deliver
  <2>1. PICK k \in 1..Len(wire) :
          /\ inbox' = inbox \o SubSeq(wire, 1, k)
          /\ wire' = SubSeq(wire, k + 1, Len(wire))
    BY <1>3 DEF Deliver
  <2>2. /\ edge' = TRUE
        /\ UNCHANGED <<script, asked, pc, rbuf, n, got, peer, gone>>
    BY <1>3 DEF Deliver, clientVars, bufferVars
  <2>3. SubSeq(wire, 1, k) \in Seq(Cells) /\ wire' \in Seq(Cells)
    BY <2>1
  <2>4. inbox' \in Seq(Cells)
    BY <2>1, <2>3
  <2> QED
    BY <2>2, <2>3, <2>4 DEF Received, Emptied, NoDataForgotten
<1>4. CASE Close
  <2>1. /\ edge' = TRUE
        /\ UNCHANGED <<script, asked, wire, inbox, pc, rbuf, n, got, gone>>
    BY <1>4 DEF Close, bufferVars
  <2> QED
    BY <2>1 DEF Received, Emptied, NoDataForgotten
<1> QED
  BY <1>1, <1>2, <1>3, <1>4

\* recv puts what it got where the last call began, up to the size of rbuf_.
LEMMA RecvKeeps ==
  ASSUME BufferInv, Recv
  PROVE  BufferInv'
<1> USE DEF BufferInv, BufferTypes
<1>1. UNCHANGED <<script, asked, peer, wire>>
  BY DEF Recv, ReportedEdge, clientVars
<1>2. CASE Disconnect
  <2>1. gone' = TRUE /\ pc' = "wait" /\ UNCHANGED <<inbox, rbuf, n, got>>
    BY <1>2 DEF Disconnect, bufferVars
  <2> QED
    BY <1>1, <2>1 DEF Received, Emptied, NoDataForgotten
<1>3. CASE ~Disconnect
  <2> DEFINE size == Len(rbuf)
  <2>1. /\ inbox # <<>>
        /\ rbuf' = Overlay(Taken(size), rbuf)
        /\ n' = Len(Taken(size))
        /\ got' = Taken(size)
        /\ inbox' = Left(size)
        /\ pc' = "loop"
    BY <1>3 DEF Recv
  <2>2. size \in Nat \ {0}
    BY EmptySeq
  <2> HIDE DEF size
  <2>3. /\ Taken(size) \in Seq(Cells) /\ Left(size) \in Seq(Cells)
        /\ Len(Taken(size)) \in 1..size
        /\ Len(Taken(size)) = size \/ Left(size) = <<>>
    BY <2>1, <2>2, TakenAndLeft
  <2>4. /\ rbuf' \in Seq(Cells) /\ Len(rbuf') = size
        /\ \A p \in 1..Len(Taken(size)) : rbuf'[p] = Taken(size)[p]
    BY <2>1, <2>2, <2>3, OverlayType DEF size
  <2>5. rbuf' # <<>>
    BY <2>2, <2>4
  <2>6. BufferTypes'
    BY <1>1, <2>1, <2>2, <2>3, <2>4, <2>5
  <2>7. Received'
    BY <2>1, <2>3, <2>4 DEF Received
  <2>8. Emptied' /\ NoDataForgotten'
    BY <2>1, <2>3, <2>4 DEF Emptied, NoDataForgotten
  <2> QED
    BY <2>6, <2>7, <2>8
<1> QED
  BY <1>2, <1>3

\* What is read goes behind the first n cells, which are all of rbuf_.
LEMMA ReadMoreKeeps ==
  ASSUME BufferInv, ReadMore
  PROVE  BufferInv'
<1> USE DEF BufferInv, BufferTypes
<1>1. /\ UNCHANGED <<script, asked, peer, wire, edge>>
      /\ pc = "loop" /\ n = Len(rbuf)
  BY DEF ReadMore, clientVars
<1>2. CASE peer = "rst" /\ pc' = "wait" /\ UNCHANGED <<inbox, bufferVars, gone>>
  BY <1>1, <1>2 DEF bufferVars, Received, Emptied, NoDataForgotten
<1>3. CASE Disconnect
  <2>1. gone' = TRUE /\ pc' = "wait" /\ UNCHANGED <<inbox, rbuf, n, got>>
    BY <1>3 DEF Disconnect, bufferVars
  <2> QED
    BY <1>1, <2>1 DEF Received, Emptied, NoDataForgotten
<1>4. ASSUME inbox # <<>>,
             rbuf' = rbuf \o Overlay(Taken(Len(rbuf)), [p \in DOMAIN rbuf |-> Nul]),
             n' = n + Len(Taken(Len(rbuf))),
             got' = got \o Taken(Len(rbuf)),
             inbox' = Left(Len(rbuf)),
             UNCHANGED <<pc, gone>>
      PROVE  BufferInv'
  <2> DEFINE size == Len(rbuf)
             empty == [p \in DOMAIN rbuf |-> Nul]
             more == Overlay(Taken(size), empty)
  <2>1. size \in Nat \ {0}
    BY EmptySeq
  <2>2. empty \in Seq(Cells) /\ Len(empty) = size
    <3>1. DOMAIN rbuf = 1..size /\ Nul \in Cells
      BY CellType DEF Nul
    <3> QED
      BY <2>1, <3>1, IsASeq
  <2>3. /\ Taken(size) \in Seq(Cells) /\ Left(size) \in Seq(Cells)
        /\ Len(Taken(size)) \in 1..size
        /\ Len(Taken(size)) = size \/ Left(size) = <<>>
    BY <1>4, <2>1, TakenAndLeft
  <2>4. /\ more \in Seq(Cells) /\ Len(more) = size
        /\ \A p \in 1..Len(Taken(size)) : more[p] = Taken(size)[p]
    <3> HIDE DEF empty, size
    <3> QED BY <2>1, <2>2, <2>3, OverlayType
  <2>5. rbuf' = rbuf \o more /\ n = size /\ size = Len(rbuf)
    BY <1>1, <1>4
  <2>6. /\ n' = size + Len(Taken(size)) /\ got' = got \o Taken(size)
        /\ inbox' = Left(size) /\ pc' = "loop"
    BY <1>1, <1>4
  <2> HIDE DEF size, more
  <2>7. Len(got) = size /\ \A p \in 1..size : rbuf[p] = got[p]
    BY <1>1, <2>5 DEF Received
  <2>8. /\ rbuf' \in Seq(Cells) /\ got' \in Seq(Cells)
        /\ Len(rbuf') = size + size /\ Len(got') = size + Len(Taken(size))
        /\ \A p \in 1..Len(got') : rbuf'[p] = got'[p]
    <3>1. /\ rbuf \in Seq(Cells) /\ got \in Seq(Cells)
          /\ Len(rbuf) = size /\ Len(rbuf) = Len(got)
          /\ StartsWith(rbuf, got)
      BY <2>1, <2>5, <2>7 DEF StartsWith
    <3>2. StartsWith(more, Taken(size))
      BY <2>1, <2>3, <2>4 DEF StartsWith
    <3> HIDE DEF BufferInv, BufferTypes
    <3>3. StartsWith(rbuf \o more, got \o Taken(size))
      BY <2>3, <2>4, <3>1, <3>2, ConcatStarts
    <3>4. rbuf \o more \in Seq(Cells) /\ Len(rbuf \o more) = size + size
      BY <2>4, <3>1, ConcatProperties
    <3>5. /\ got \o Taken(size) \in Seq(Cells)
          /\ Len(got \o Taken(size)) = size + Len(Taken(size))
      BY <2>3, <3>1, ConcatProperties
    <3> QED
      BY <2>5, <2>6, <3>3, <3>4, <3>5 DEF StartsWith
  <2>9. n' = Len(got') /\ n' \in 1..Len(rbuf') /\ rbuf' # <<>>
    BY <2>1, <2>3, <2>6, <2>8
  <2>10. BufferTypes'
    BY <1>1, <2>3, <2>6, <2>8, <2>9
  <2>11. Received'
    BY <2>8, <2>9 DEF Received
  <2>12. Emptied' /\ NoDataForgotten'
    BY <2>3, <2>6, <2>8 DEF Emptied, NoDataForgotten
  <2> QED
    BY <2>10, <2>11, <2>12
<1> QED
  BY <1>2, <1>3, <1>4 DEF ReadMore

\* An answered call leaves rbuf_ as it is, but for the 0 behind what it read.
LEMMA HandleKeeps ==
  ASSUME BufferInv, Handle
  PROVE  BufferInv'
<1> USE DEF BufferInv, BufferTypes
<1>1. /\ pc = "loop" /\ n # Len(rbuf) /\ pc' = "wait"
      /\ rbuf' = Terminated
      /\ UNCHANGED <<script, asked, peer, wire, inbox, edge, n, got, gone>>
  BY DEF Handle, clientVars
<1>2. n + 1 \in 1..Len(rbuf)
  BY <1>1
<1>3. (IF Ends(rbuf[n + 1]) THEN Cell("cut", 0) ELSE Nul) \in Cells
  BY CellType DEF Nul
<1>4. Terminated \in Seq(Cells) /\ Len(Terminated) = Len(rbuf)
  BY <1>2, <1>3, ExceptSeq DEF Terminated
<1>5. BufferTypes'
  <2>1. Len(rbuf) \in Nat /\ Len(rbuf) > 0
    BY <1>2
  <2> QED
    BY <1>1, <1>4, <2>1
<1>6. Emptied' /\ Received' /\ NoDataForgotten'
  BY <1>1 DEF Emptied, Received, NoDataForgotten
<1> QED
  BY <1>5, <1>6

\* rbuf_ and the socket, step by step.
LEMMA BufferStep == BufferInv /\ [Next]_vars => BufferInv'
<1> SUFFICES ASSUME BufferInv, [Next]_vars PROVE BufferInv'
  OBVIOUS
<1>1. CASE UNCHANGED vars
  BY <1>1 DEF BufferInv, BufferTypes, Received, Emptied, NoDataForgotten, vars, clientVars,
       bufferVars
<1>2. CASE Next
  BY <1>2, EnvironmentKeeps, RecvKeeps, ReadMoreKeeps, HandleKeeps
     DEF Next, HandleRtspRequest
<1> QED
  BY <1>1, <1>2

\* handleRtspRequest parses the bytes of the client, in order and without a gap,
\* inside the buffer, however the stream is cut and however often rbuf_ grows.
THEOREM ReceivedHolds == Spec => []Received
<1>1. BufferInv => Received
  BY DEF BufferInv
<1> QED
  BY <1>1, BufferInit, BufferStep, PTL DEF Spec

\* One call of handleRtspRequest per edge is enough: data stays in the socket only
\* with another edge to come.
THEOREM NoDataForgottenHolds == Spec => []NoDataForgotten
<1>1. BufferInv => NoDataForgotten
  BY DEF BufferInv
<1> QED
  BY <1>1, BufferInit, BufferStep, PTL DEF Spec

-----------------------------------------------------------------------------
(* The types.                                                              *)

\* A set of places has a last one.
LEMMA LastOfPlaces ==
  ASSUME NEW places \in SUBSET Nat, places # {},
         NEW bound \in Nat, \A p \in places : p <= bound
  PROVE  LastOf(places) \in places /\ \A q \in places : q <= LastOf(places)
<1> DEFINE below == {bound - p : p \in places}
           less  == {ss \in Nat \X Nat : ss[1] < ss[2]}
<1>1. below \subseteq Nat /\ below # {}
  OBVIOUS
<1>2. PICK least \in below : \A y \in below : ~ (<<y, least>> \in less)
  <2>1. IsWellFoundedOn(less, Nat)
    BY NatLessThanWellFounded DEF OpToRel
  <2> HIDE DEF less, below
  <2>2. QED
    BY <1>1, <2>1, WFMin
<1>3. \A y \in below : ~ (y < least)
  BY <1>1, <1>2
<1>4. PICK last \in places : least = bound - last
  OBVIOUS
<1>5. ASSUME NEW q \in places PROVE q <= last
  <2>1. ~ (bound - q < bound - last)
    BY <1>3, <1>4
  <2>2. QED
    BY <2>1
<1>6. \E p \in places : \A q \in places : q <= p
  BY <1>4, <1>5
<1>7. QED
  BY <1>6 DEF LastOf

\* far reaches as far as before, and over every header of the cells.
LEMMA FarReaches ==
  ASSUME NEW cells \in Seq(Cells), far \in Nat
  PROVE  /\ FarWith(cells) \in Nat /\ far <= FarWith(cells)
         /\ \A p \in Headers(cells) : p <= FarWith(cells)
<1> DEFINE places == Headers(cells) \cup {far}
<1>1. /\ Len(cells) \in Nat /\ Headers(cells) \subseteq 1..Len(cells)
  BY DEF Headers
<1>2. places \in SUBSET Nat /\ places # {} /\ \A p \in places : p <= Len(cells) + far
  BY <1>1
<1>3. LastOf(places) \in places /\ \A q \in places : q <= LastOf(places)
  <2> HIDE DEF places
  <2> QED
    BY <1>1, <1>2, LastOfPlaces, Len(cells) + far \in Nat
<1>4. QED
  BY <1>2, <1>3 DEF FarWith

\* Where the parser finds a header last, if it finds one.
LEMMA LastLine ==
  ASSUME NEW buf \in Seq(Cells), NEW lines \in SUBSET (3..Len(buf)), lines # {}
  PROVE  LastOf(lines) \in lines /\ \A q \in lines : q <= LastOf(lines)
<1>1. Len(buf) \in Nat /\ lines \in SUBSET Nat /\ \A p \in lines : p <= Len(buf)
  OBVIOUS
<1>2. QED
  BY <1>1, LastOfPlaces

\* What the parser finds, or keeps, is the number of a request or 0.
LEMMA ParsedTypes ==
  ASSUME NEW buf \in Seq(Cells), cseq \in Nat, transport \in Nat
  PROVE  ParsedCSeq(buf) \in Nat /\ ParsedTransport(buf) \in Nat
<1>1. ASSUME NEW p \in 3..Len(buf), HasValue(buf, p) PROVE buf[p + 1].req \in Nat
  <2>1. p + 1 \in 1..Len(buf)
    BY <1>1 DEF HasValue
  <2>2. buf[p + 1] \in Cells
    BY <2>1, ElementOfSeq
  <2>3. QED
    BY <2>2 DEF Cells
<1>2. ParsedCSeq(buf) \in Nat
  <2> DEFINE lines == LinesWith(buf, "cseq")
  <2>1. lines \in SUBSET (3..Len(buf))
    BY DEF LinesWith
  <2>2. lines # {} => LastOf(lines) \in 3..Len(buf)
    BY <2>1, LastLine
  <2>3. QED
    BY <1>1, <2>2 DEF ParsedCSeq
<1>3. ParsedTransport(buf) \in Nat
  <2> DEFINE lines == {p \in LinesWith(buf, "transport") : HasValue(buf, p)}
  <2>1. lines \in SUBSET (3..Len(buf))
    BY DEF LinesWith
  <2>2. lines # {} => LastOf(lines) \in lines
    BY <2>1, LastLine
  <2>3. lines # {} => LastOf(lines) \in 3..Len(buf) /\ HasValue(buf, LastOf(lines))
    BY <2>1, <2>2
  <2>4. QED
    BY <1>1, <2>3 DEF ParsedTransport
<1>4. QED
  BY <1>2, <1>3

ReplyTypes == [to : Nat, cseq : Nat, transport : Nat, alone : BOOLEAN]

\* The rest of TypeOK.
ParsedInv ==
  /\ asked <= Len(script) /\ reports \in 0..MaxReports
  /\ peer \in {"here", "fin", "rst"}
  /\ edge \in BOOLEAN /\ gone \in BOOLEAN
  /\ pc \in {"wait", "loop"}
  /\ far \in Nat
  /\ cseq \in Nat /\ transport \in Nat
  /\ replies \in Seq(ReplyTypes)
  /\ missed \subseteq Nat

\* Nothing was parsed or answered.
LEMMA ParsedInit == Init => ParsedInv
<1> SUFFICES ASSUME Init PROVE ParsedInv
  OBVIOUS
<1>1. Len(script) \in Nat /\ <<>> \in Seq(ReplyTypes)
  BY BufferAssumption DEF Init
<1>2. /\ asked = 0 /\ reports = 0 /\ peer = "here" /\ edge = FALSE /\ gone = FALSE
      /\ pc = "wait" /\ far = 0 /\ cseq = 0 /\ transport = 0 /\ replies = <<>> /\ missed = {}
  BY DEF Init
<1>3. MaxReports \in Nat
  BY BufferAssumption
<1>4. replies \in Seq(ReplyTypes)
  BY <1>1, <1>2, Zenon
<1>5. asked <= Len(script) /\ reports \in 0..MaxReports
  BY <1>1, <1>2, <1>3
<1>6. far \in Nat /\ cseq \in Nat /\ transport \in Nat /\ missed \subseteq Nat
  BY <1>2
<1>7. QED
  BY ONLY <1>2, <1>4, <1>5, <1>6 DEF ParsedInv

\* The values found and the answers given keep their types.
LEMMA ParsedStep ==
  ASSUME BufferInv, ParsedInv, [Next]_vars
  PROVE  ParsedInv'
<1>1. CASE UNCHANGED vars
  BY <1>1 DEF vars, clientVars, bufferVars, parsedVars, ParsedInv
<1>2. CASE Ask \/ Report \/ Deliver \/ Close
  <2>1. UNCHANGED <<script, pc, far, cseq, transport, replies, missed, gone>>
    BY <1>2 DEF Ask, Report, Deliver, Close, ClientStep, clientVars, bufferVars, parsedVars
  <2>2. /\ UNCHANGED asked \/ (asked < Len(script) /\ asked' = asked + 1)
        /\ UNCHANGED reports \/ (reports < MaxReports /\ reports' = reports + 1)
        /\ UNCHANGED peer \/ peer' \in {"fin", "rst"}
        /\ UNCHANGED edge \/ edge' = TRUE
    BY <1>2 DEF Ask, Report, Deliver, Close, ClientStep, clientVars
  <2>3. asked \in Nat /\ Len(script) \in Nat /\ MaxReports \in Nat
    BY BufferAssumption DEF BufferInv, BufferTypes
  <2>4. asked' <= Len(script') /\ reports' \in 0..MaxReports
    BY <2>1, <2>2, <2>3 DEF ParsedInv
  <2>5. QED
    BY <2>1, <2>2, <2>4 DEF ParsedInv
<1>3. CASE Recv \/ ReadMore
  <2>1. /\ UNCHANGED <<script, asked, reports, peer, cseq, transport, replies, missed>>
        /\ edge' \in BOOLEAN /\ gone' \in BOOLEAN /\ pc' \in {"wait", "loop"}
    BY <1>3 DEF Recv, ReadMore, ReportedEdge, Disconnect, clientVars, parsedVars, ParsedInv
  <2>2. UNCHANGED far \/ far' = FarWith(got')
    BY <1>3 DEF Recv, ReadMore, Disconnect, bufferVars
  <2>3. far' \in Nat
    <3>1. got' \in Seq(Cells)
      BY <1>3, RecvKeeps, ReadMoreKeeps DEF BufferInv, BufferTypes
    <3>2. \A cells \in Seq(Cells) : FarWith(cells) \in Nat
      BY FarReaches DEF ParsedInv
    <3>3. QED
      BY <2>2, <3>1, <3>2 DEF ParsedInv
  <2>4. QED
    BY <2>1, <2>3 DEF ParsedInv
<1>4. CASE Handle
  <2> DEFINE buf == Terminated
             reply == Reply(buf)
  <2>1. /\ UNCHANGED <<script, asked, reports, peer, edge, gone, far>>
        /\ pc' = "wait" /\ rbuf' = buf
        /\ missed' = missed \cup Missed
        /\ \/ UNCHANGED <<cseq, transport, replies>>
           \/ /\ RequestLine(buf)
              /\ cseq' = ParsedCSeq(buf) /\ transport' = ParsedTransport(buf)
              /\ replies' = Append(replies, reply)
    BY <1>4 DEF Handle, clientVars
  <2>2. buf \in Seq(Cells)
    BY <1>4, <2>1, HandleKeeps DEF BufferInv, BufferTypes
  <2>3. ParsedCSeq(buf) \in Nat /\ ParsedTransport(buf) \in Nat
    <3> HIDE DEF buf
    <3> QED
      BY <2>2, ParsedTypes DEF ParsedInv
  <2>4. Missed \subseteq Nat
    <3>1. got \in Seq(Cells)
      BY DEF BufferInv, BufferTypes
    <3>2. \A p \in DOMAIN got : got[p] \in Cells
      BY ONLY <3>1, LenProperties, ElementOfSeq
    <3>3. \A p \in DOMAIN got : got[p].req \in Nat
      BY ONLY <3>2 DEF Cells
    <3>4. QED
      BY ONLY <3>3 DEF Missed
  <2>5. RequestLine(buf) => reply \in ReplyTypes
    <3>1. (got = Request(buf[1].req) /\ far <= n + 1) \in BOOLEAN
      OBVIOUS
    <3>2. RequestLine(buf) => buf[1].req \in Nat
      <4> HIDE DEF buf
      <4>1. RequestLine(buf) => buf[1] \in Cells
        <5>1. RequestLine(buf) => 1 \in 1..Len(buf)
          BY <2>2 DEF RequestLine
        <5>2. QED
          BY ONLY <2>2, <5>1, ElementOfSeq
      <4>2. QED
        BY ONLY <4>1 DEF Cells
    <3>3. QED
      BY <2>3, <3>1, <3>2, Zenon DEF Reply, ReplyTypes
  <2>6. replies' \in Seq(ReplyTypes)
    <3>1. replies \in Seq(ReplyTypes)
      BY DEF ParsedInv
    <3> HIDE DEF buf, reply
    <3>2. QED
      BY ONLY <2>1, <2>5, <3>1
  <2>7. QED
    BY <2>1, <2>3, <2>4, <2>6 DEF ParsedInv
<1>5. QED
  BY <1>1, <1>2, <1>3, <1>4 DEF Next, HandleRtspRequest

\* The invariants of the buffer and of the parser.
LEMMA ParsedInvariant == Spec => [](BufferInv /\ ParsedInv)
<1>1. Init => BufferInv /\ ParsedInv
  BY BufferInit, ParsedInit
<1>2. BufferInv /\ ParsedInv /\ [Next]_vars => (BufferInv /\ ParsedInv)'
  BY BufferStep, ParsedStep
<1>3. QED
  BY <1>1, <1>2, PTL DEF Spec

\* Type correctness: whatever is parsed, n stays inside rbuf_.
THEOREM TypeCorrect == Spec => []TypeOK
<1>1. BufferInv /\ ParsedInv => TypeOK
  BY DEF BufferInv, BufferTypes, ParsedInv, ReplyTypes, TypeOK
<1>2. QED
  BY <1>1, ParsedInvariant, PTL

-----------------------------------------------------------------------------
(* The answers.  Requests come out of the socket in the order in which     *)
(* they were asked, and a call answers only the one it has read first; so  *)
(* what has not been read yet is later than every answer.                  *)

\* What was sent and not read.
Pending == inbox \o wire

Asks(cell) == cell.kind = "method"

\* Request i was asked, and no later one answered.
Open(i) == i \in 1..asked /\ \A k \in DOMAIN replies : replies[k].to < i

InOrder(cells) ==
  \A p, q \in 1..Len(cells) : p < q /\ Asks(cells[p]) /\ Asks(cells[q]) => cells[p].req < cells[q].req

\* The requests that start in the cells are open, and later than i.
OpenBehind(i, cells) ==
  \A p \in 1..Len(cells) : Asks(cells[p]) => Open(cells[p].req) /\ i < cells[p].req

OrderInv ==
  /\ InOrder(Pending) /\ OpenBehind(0, Pending)
  /\ \A k \in DOMAIN replies : replies[k].to \in 1..asked
  /\ pc = "loop" /\ Asks(got[1]) => Open(got[1].req) /\ OpenBehind(got[1].req, Pending)

\* What has not been read is a sequence of cells, those of the socket first.
LEMMA PendingType ==
  ASSUME BufferTypes
  PROVE  /\ Pending \in Seq(Cells) /\ Len(Pending) = Len(inbox) + Len(wire)
         /\ \A p \in 1..Len(Pending) : Pending[p] \in Cells
BY ConcatProperties, ElementOfSeq DEF BufferTypes, Pending

\* A read takes the beginning of what is pending.
LEMMA ReadPending ==
  ASSUME BufferTypes, inbox # <<>>, NEW size \in Nat \ {0}
  PROVE  LET k    == Len(Taken(size))
             rest == Left(size) \o wire
         IN  /\ k \in 1..Len(Pending) /\ rest \in Seq(Cells)
             /\ Len(rest) = Len(Pending) - k
             /\ \A p \in 1..k : Taken(size)[p] = Pending[p]
             /\ \A p \in 1..Len(rest) : rest[p] = Pending[p + k]
<1> DEFINE k == Least(size, Len(inbox))
<1>1. inbox \in Seq(Cells) /\ wire \in Seq(Cells) /\ Len(inbox) \in Nat \ {0} /\ Len(wire) \in Nat
  BY EmptySeq DEF BufferTypes
<1>2. k \in 1..Len(inbox)
  BY <1>1 DEF Least
<1>3. Taken(size) = SubSeq(inbox, 1, k) /\ Left(size) = SubSeq(inbox, k + 1, Len(inbox))
  BY DEF Taken, Left
<1> HIDE DEF k
<1>4. /\ \A p \in 1..k : inbox[p] \in Cells
      /\ \A p \in (k + 1)..Len(inbox) : inbox[p] \in Cells
  BY <1>1, <1>2, ElementOfSeq
<1>5. /\ Len(Taken(size)) = k
      /\ \A p \in 1..k : Taken(size)[p] = inbox[p]
  BY <1>1, <1>2, <1>3, <1>4, SubSeqProperties
<1>6. /\ Left(size) \in Seq(Cells) /\ Len(Left(size)) = Len(inbox) - k
      /\ \A p \in 1..(Len(inbox) - k) : Left(size)[p] = inbox[p + k]
  BY <1>1, <1>2, <1>3, <1>4, SubSeqProperties
<1>7. /\ Len(Pending) = Len(inbox) + Len(wire)
      /\ \A p \in 1..(Len(inbox) + Len(wire)) :
           Pending[p] = IF p <= Len(inbox) THEN inbox[p] ELSE wire[p - Len(inbox)]
  BY <1>1, ConcatProperties DEF Pending
<1> DEFINE rest == Left(size) \o wire
<1>8. /\ rest \in Seq(Cells) /\ Len(rest) = (Len(inbox) - k) + Len(wire)
      /\ \A p \in 1..((Len(inbox) - k) + Len(wire)) :
           rest[p] = IF p <= Len(inbox) - k THEN Left(size)[p] ELSE wire[p - (Len(inbox) - k)]
  <2>1. Left(size) \in Seq(Cells) /\ wire \in Seq(Cells)
    BY <1>1, <1>6
  <2>2. /\ rest \in Seq(Cells) /\ Len(rest) = Len(Left(size)) + Len(wire)
        /\ \A p \in 1..(Len(Left(size)) + Len(wire)) :
             rest[p] = IF p <= Len(Left(size)) THEN Left(size)[p] ELSE wire[p - Len(Left(size))]
    BY ONLY <2>1, ConcatProperties
  <2> HIDE DEF rest
  <2>3. QED
    BY ONLY <1>6, <2>2
<1> HIDE DEF rest
<1>9. ASSUME NEW p \in 1..Len(rest) PROVE rest[p] = Pending[p + k]
  <2>1. p \in 1..((Len(inbox) - k) + Len(wire)) /\ p + k \in 1..(Len(inbox) + Len(wire))
    BY <1>1, <1>2, <1>8
  <2>2. CASE p <= Len(inbox) - k
    BY <1>1, <1>2, <1>6, <1>7, <1>8, <2>1, <2>2
  <2>3. CASE p > Len(inbox) - k
    <3>1. rest[p] = wire[p - (Len(inbox) - k)]
      BY <1>1, <1>2, <1>8, <2>1, <2>3
    <3>2. ~(p + k <= Len(inbox)) /\ (p + k) - Len(inbox) = p - (Len(inbox) - k)
      BY <1>1, <1>2, <2>1, <2>3
    <3>3. Pending[p + k] = wire[(p + k) - Len(inbox)]
      BY <1>7, <2>1, <3>2
    <3>4. QED
      BY <3>1, <3>2, <3>3
  <2>4. QED
    BY <1>1, <1>2, <2>2, <2>3
<1>10. /\ k \in 1..Len(Pending) /\ Len(rest) = Len(Pending) - k
       /\ \A p \in 1..k : Pending[p] = inbox[p]
  BY <1>1, <1>2, <1>7, <1>8
<1>11. QED
  BY <1>5, <1>8, <1>9, <1>10 DEF rest

\* Nothing was read: everything is still to come, in order.
LEMMA OrderInit == Init => OrderInv
<1> SUFFICES ASSUME Init PROVE OrderInv
  OBVIOUS
<1>1. Len(Pending) = 0 /\ DOMAIN replies = {} /\ pc = "wait"
  BY DEF Init, Pending
<1>2. QED
  BY <1>1 DEF OrderInv, InOrder, OpenBehind

\* What the client sends goes behind what it sent before.
LEMMA AskOrder ==
  ASSUME \A s \in Scripts : \A i \in DOMAIN s : OneLine(s[i]),
         BufferInv, ParsedInv, OrderInv, Ask
  PROVE  OrderInv'
<1>0. PICK i : i = asked + 1
  OBVIOUS
<1> DEFINE more == Request(i)
<1>1. /\ i \in DOMAIN script /\ asked \in Nat /\ asked' = i
      /\ UNCHANGED <<script, inbox, pc, got, replies>>
      /\ wire' = wire \o more
  BY <1>0, BufferAssumption DEF BufferInv, BufferTypes, Ask, ClientStep, bufferVars, parsedVars
<1>2. more \in Seq(Cells) /\ inbox \in Seq(Cells) /\ wire \in Seq(Cells)
  BY <1>1, RequestType DEF BufferInv, BufferTypes
<1>3. \A p, q \in 1..Len(more) : Asks(more[p]) => p = 1 /\ more[p].req = i
  <2>1. DOMAIN more = DOMAIN script[i] /\ DOMAIN more = 1..Len(more)
    BY <1>2, LenProperties DEF Request
  <2>2. OneLine(script[i])
    BY <1>1 DEF BufferInv, BufferTypes
  <2>3. QED
    BY <2>1, <2>2 DEF Request, Asks, Cell, OneLine
<1> HIDE DEF more
<1>4. /\ Pending \in Seq(Cells) /\ Pending' = Pending \o more
      /\ Len(Pending) \in Nat /\ Len(more) \in Nat
      /\ Len(Pending') = Len(Pending) + Len(more)
      /\ \A p \in 1..(Len(Pending) + Len(more)) :
           Pending'[p] = IF p <= Len(Pending) THEN Pending[p] ELSE more[p - Len(Pending)]
  <2>1. Pending \in Seq(Cells) /\ Pending' = Pending \o more
    <3>1. inbox \o wire \in Seq(Cells) /\ (inbox \o wire) \o more = inbox \o (wire \o more)
      BY ONLY <1>2, ConcatProperties, ConcatAssociative
    <3>2. QED
      BY ONLY <1>1, <3>1 DEF Pending
  <2>2. QED
    BY <1>2, <2>1, ConcatProperties, LenProperties
<1>5. \A j : Open(j) => Open(j)' /\ j < i /\ j \in Nat
  BY <1>0, <1>1 DEF Open
<1>6. Open(i)'
  <2>1. \A k \in DOMAIN replies : replies[k].to \in 1..asked
    BY DEF OrderInv
  <2>2. QED
    BY <1>0, <1>1, <2>1 DEF Open
<1>7. ASSUME NEW p \in 1..Len(Pending'), Asks(Pending'[p])
      PROVE  \/ p <= Len(Pending) /\ Pending'[p] = Pending[p] /\ Open(Pending[p].req)
             \/ p = Len(Pending) + 1 /\ Pending'[p].req = i
  <2>1. CASE p <= Len(Pending)
    <3>1. p \in 1..Len(Pending) /\ Pending'[p] = Pending[p]
      BY <1>4, <2>1
    <3>2. QED
      BY <1>7, <3>1 DEF OrderInv, OpenBehind
  <2>2. CASE p > Len(Pending)
    <3>1. p - Len(Pending) \in 1..Len(more) /\ Pending'[p] = more[p - Len(Pending)]
      BY <1>4, <2>2
    <3>2. p - Len(Pending) = 1 /\ Pending'[p].req = i
      BY <1>3, <1>7, <3>1
    <3>3. QED
      BY <1>4, <3>2
  <2>3. QED
    BY <1>4, <2>1, <2>2
<1>8. InOrder(Pending)'
  <2> SUFFICES ASSUME NEW p \in 1..Len(Pending'), NEW q \in 1..Len(Pending'), p < q,
                      Asks(Pending'[p]), Asks(Pending'[q])
               PROVE  Pending'[p].req < Pending'[q].req
    BY DEF InOrder, Asks
  <2>1. p <= Len(Pending) /\ Pending'[p] = Pending[p] /\ Open(Pending[p].req)
    BY <1>4, <1>7
  <2>2. CASE q <= Len(Pending)
    <3>1. p \in 1..Len(Pending) /\ q \in 1..Len(Pending) /\ Pending'[q] = Pending[q]
      BY <1>4, <2>1, <2>2
    <3>2. QED
      BY <2>1, <3>1 DEF OrderInv, InOrder
  <2>3. CASE q = Len(Pending) + 1 /\ Pending'[q].req = i
    BY <1>5, <2>1, <2>3
  <2>4. QED
    BY <1>7, <2>2, <2>3
<1>9. ASSUME NEW j \in Nat, j < i, OpenBehind(j, Pending) PROVE OpenBehind(j, Pending)'
  <2> SUFFICES ASSUME NEW p \in 1..Len(Pending'), Asks(Pending'[p])
               PROVE  Open(Pending[p].req)' /\ j < Pending'[p].req
    BY DEF OpenBehind, Asks
  <2>1. CASE p <= Len(Pending) /\ Pending'[p] = Pending[p] /\ Open(Pending[p].req)
    <3>1. p \in 1..Len(Pending)
      BY <1>4, <2>1
    <3>2. QED
      BY <1>5, <1>9, <2>1, <3>1 DEF OpenBehind
  <2>2. CASE p = Len(Pending) + 1 /\ Pending'[p].req = i
    BY <1>6, <1>9, <2>2
  <2>3. QED
    BY <1>7, <2>1, <2>2
<1>10. QED
  <2>1. OpenBehind(0, Pending)'
    <3>1. 0 < i
      BY <1>0, <1>1
    <3>2. OpenBehind(0, Pending)
      BY DEF OrderInv
    <3>3. \A j \in Nat : j < i /\ OpenBehind(j, Pending) => OpenBehind(j, Pending)'
      BY <1>9
    <3>4. QED
      BY <3>1, <3>2, <3>3
  <2>2. ASSUME pc' = "loop", Asks(got'[1])
        PROVE  Open(got[1].req)' /\ OpenBehind(got[1].req, Pending)'
    <3>1. PICK j : j = got[1].req
      OBVIOUS
    <3>2. got' = got /\ pc = "loop" /\ Asks(got[1])
      BY <1>1, <2>2
    <3>3. Open(j) /\ OpenBehind(j, Pending)
      BY <3>1, <3>2 DEF OrderInv
    <3>4. Open(j)' /\ OpenBehind(j, Pending)'
      BY <1>5, <1>9, <3>3
    <3>5. QED
      BY <3>1, <3>2, <3>4
  <2>3. \A k \in DOMAIN replies' : replies'[k].to \in 1..asked'
    BY <1>0, <1>1 DEF OrderInv
  <2>4. QED
    BY <1>8, <2>1, <2>2, <2>3 DEF OrderInv, Asks

\* What is left after a read is still in order, and behind the first cell read.
LEMMA RestOrder ==
  ASSUME BufferTypes, OrderInv, inbox # <<>>, NEW size \in Nat \ {0},
         inbox' = Left(size), UNCHANGED <<wire, asked, replies>>
  PROVE  /\ InOrder(Pending)'
         /\ \A j : OpenBehind(j, Pending) => OpenBehind(j, Pending)'
         /\ Taken(size) # <<>> /\ Taken(size)[1] = Pending[1]
         /\ \A j : Asks(Pending[1]) /\ j = Pending[1].req => Open(j)' /\ OpenBehind(j, Pending)'
<1> DEFINE k == Len(Taken(size))
<1>1. /\ Len(Pending) \in Nat /\ k \in 1..Len(Pending) /\ Len(Pending') = Len(Pending) - k
      /\ \A p \in 1..k : Taken(size)[p] = Pending[p]
      /\ \A p \in 1..Len(Pending') : Pending'[p] = Pending[p + k]
  <2>1. Pending' = Left(size) \o wire
    BY DEF Pending
  <2>2. QED
    BY <2>1, ReadPending, PendingType, LenProperties
<1> HIDE DEF k
<1>2. \A p \in 1..Len(Pending') : p + k \in 2..Len(Pending) /\ p \in Nat
  BY <1>1
<1>3. \A i : Open(i)' <=> Open(i)
  BY DEF Open
<1>4. InOrder(Pending)'
  <2> SUFFICES ASSUME NEW p \in 1..Len(Pending'), NEW q \in 1..Len(Pending'),
                      p < q, Asks(Pending'[p]), Asks(Pending'[q])
               PROVE  Pending'[p].req < Pending'[q].req
    BY DEF InOrder, Asks
  <2>1. Pending'[p] = Pending[p + k] /\ Pending'[q] = Pending[q + k]
    BY <1>1
  <2>2. p + k \in 1..Len(Pending) /\ q + k \in 1..Len(Pending) /\ p + k < q + k
    BY <1>1, <1>2
  <2>3. Pending[p + k].req < Pending[q + k].req
    BY <2>1, <2>2 DEF OrderInv, InOrder
  <2>4. QED
    BY <2>1, <2>3
<1>5. ASSUME NEW j,
             \A q \in 2..Len(Pending) : Asks(Pending[q]) => Open(Pending[q].req) /\ j < Pending[q].req
      PROVE  OpenBehind(j, Pending)'
  <2> SUFFICES ASSUME NEW p \in 1..Len(Pending'), Asks(Pending'[p])
               PROVE  Open(Pending[p].req)' /\ j < Pending'[p].req
    BY DEF OpenBehind, Asks
  <2>1. PICK q \in 2..Len(Pending) : q = p + k
    BY <1>2
  <2>2. Pending'[p] = Pending[q]
    BY <1>1, <2>1
  <2>3. Open(Pending[q].req) /\ j < Pending[q].req
    BY <1>5, <2>2
  <2>4. PICK i : i = Pending[q].req
    OBVIOUS
  <2>5. Open(i)' /\ j < i
    BY <1>3, <2>3, <2>4
  <2>6. (Pending[p].req)' = i
    BY <2>2, <2>4
  <2>7. QED
    BY <2>5, <2>6
<1>6. \A j : OpenBehind(j, Pending) => OpenBehind(j, Pending)'
  <2> SUFFICES ASSUME NEW j, OpenBehind(j, Pending) PROVE OpenBehind(j, Pending)'
    OBVIOUS
  <2>1. \A q \in 2..Len(Pending) : Asks(Pending[q]) => Open(Pending[q].req) /\ j < Pending[q].req
    BY <1>1 DEF OpenBehind
  <2>2. QED
    BY <1>5, <2>1
<1>7. ASSUME NEW j, Asks(Pending[1]), j = Pending[1].req
      PROVE  Open(j)' /\ OpenBehind(j, Pending)'
  <2>1. 1 \in 1..Len(Pending)
    BY <1>1
  <2>2. \A q \in 2..Len(Pending) : Asks(Pending[q]) => Open(Pending[q].req) /\ j < Pending[q].req
    BY <1>7, <2>1 DEF OrderInv, InOrder, OpenBehind
  <2>3. Open(j)
    BY <1>7, <2>1 DEF OrderInv, OpenBehind
  <2>4. QED
    BY <1>3, <1>5, <2>2, <2>3
<1>8. Taken(size) # <<>> /\ Taken(size)[1] = Pending[1]
  BY <1>1 DEF k
<1>9. QED
  BY <1>4, <1>6, <1>7, <1>8

\* Nothing moves that matters here.
LEMMA QuietOrder ==
  ASSUME OrderInv, Pending' = Pending, UNCHANGED <<asked, replies>>,
         pc' = "wait" \/ UNCHANGED <<pc, got>>
  PROVE  OrderInv'
BY DEF OrderInv, InOrder, OpenBehind, Open, Asks

\* recv takes from the front of what is to come.
LEMMA RecvOrder ==
  ASSUME BufferInv, OrderInv, Recv
  PROVE  OrderInv'
<1>1. UNCHANGED <<wire, asked, replies>>
  BY DEF Recv, ReportedEdge, clientVars, parsedVars
<1>2. CASE Disconnect
  <2>1. pc' = "wait" /\ Pending' = Pending
    BY <1>1, <1>2 DEF Disconnect, Pending
  <2>2. QED
    BY <1>1, <2>1, QuietOrder
<1>3. CASE ~Disconnect
  <2> DEFINE size == Len(rbuf)
  <2>1. inbox # <<>> /\ got' = Taken(size) /\ inbox' = Left(size) /\ pc' = "loop"
    BY <1>3 DEF Recv
  <2>2. size \in Nat \ {0} /\ BufferTypes
    BY EmptySeq DEF BufferInv, BufferTypes
  <2> HIDE DEF size
  <2>3. /\ InOrder(Pending)' /\ OpenBehind(0, Pending)'
        /\ got'[1] = Pending[1]
        /\ \A j : Asks(Pending[1]) /\ j = Pending[1].req => Open(j)' /\ OpenBehind(j, Pending)'
    BY <1>1, <2>1, <2>2, RestOrder DEF OrderInv
  <2>4. \A k \in DOMAIN replies' : replies'[k].to \in 1..asked'
    BY <1>1 DEF OrderInv
  <2>5. Asks(got[1])' => Open(got[1].req)' /\ OpenBehind(got[1].req, Pending)'
    BY <2>3 DEF Asks, Open, OpenBehind
  <2>6. QED
    BY <2>3, <2>4, <2>5 DEF OrderInv
<1>4. QED
  BY <1>2, <1>3

\* So does every further read of the same call.
LEMMA ReadMoreOrder ==
  ASSUME BufferInv, OrderInv, ReadMore
  PROVE  OrderInv'
<1>1. UNCHANGED <<wire, asked, replies>> /\ pc = "loop"
  BY DEF ReadMore, clientVars, parsedVars
<1>2. CASE pc' = "wait" /\ UNCHANGED inbox
  BY <1>1, <1>2, QuietOrder DEF Pending
<1>3. CASE ~(pc' = "wait" /\ UNCHANGED inbox)
  <2> DEFINE size == Len(rbuf)
  <2>1. inbox # <<>> /\ got' = got \o Taken(size) /\ inbox' = Left(size) /\ pc' = pc
    BY <1>3 DEF ReadMore, Disconnect
  <2>2. size \in Nat \ {0} /\ BufferTypes
    BY EmptySeq DEF BufferInv, BufferTypes
  <2> HIDE DEF size
  <2>3. got'[1] = got[1]
    <3>1. got \in Seq(Cells) /\ Taken(size) \in Seq(Cells) /\ Len(got) >= 1 /\ Len(got) \in Nat
      <4>1. got \in Seq(Cells) /\ inbox \in Seq(Cells)
        BY DEF BufferInv, BufferTypes
      <4>2. Len(got) >= 1 /\ Len(got) \in Nat
        BY <1>1, <4>1, LenProperties DEF BufferInv, BufferTypes, Received
      <4>3. Taken(size) \in Seq(Cells)
        BY <2>1, <2>2, <4>1, TakenAndLeft
      <4>4. QED
        BY <4>1, <4>2, <4>3
    <3>2. 1 \in 1..(Len(got) + Len(Taken(size))) /\ 1 <= Len(got)
      BY <3>1, LenProperties
    <3>3. QED
      BY <2>1, <3>1, <3>2, ConcatProperties
  <2>4. /\ InOrder(Pending)' /\ OpenBehind(0, Pending)'
        /\ OpenBehind(got[1].req, Pending) => OpenBehind(got[1].req, Pending)'
    <3>1. \A j : OpenBehind(j, Pending) => OpenBehind(j, Pending)'
      BY <1>1, <2>1, <2>2, RestOrder
    <3>2. InOrder(Pending)'
      BY <1>1, <2>1, <2>2, RestOrder
    <3>3. QED
      BY <3>1, <3>2, <2>3 DEF OrderInv, OpenBehind
  <2>5. \A k \in DOMAIN replies' : replies'[k].to \in 1..asked'
    BY <1>1 DEF OrderInv
  <2>6. Asks(got[1])' => Open(got[1].req)' /\ OpenBehind(got[1].req, Pending)'
    BY <1>1, <2>3, <2>4 DEF OrderInv, Asks, Open
  <2>7. QED
    BY <2>4, <2>5, <2>6 DEF OrderInv
<1>4. QED
  BY <1>2, <1>3

\* The reply of a call is to the request its first cell is from.
LEMMA HandleAnswers ==
  ASSUME BufferInv, ParsedInv, OrderInv, Handle
  PROVE  /\ Terminated[1] = got[1] /\ Terminated \in Seq(Cells) /\ Len(Terminated) = Len(rbuf)
         /\ \/ UNCHANGED replies
            \/ /\ RequestLine(Terminated) /\ Asks(got[1])
               /\ Open(got[1].req) /\ OpenBehind(got[1].req, Pending)
               /\ replies' = Append(replies, Reply(Terminated))
               /\ Reply(Terminated).to = got[1].req
         /\ UNCHANGED <<asked, wire, inbox>> /\ pc' = "wait"
<1>1. /\ pc = "loop" /\ n \in 1..Len(rbuf) /\ n # Len(rbuf) /\ rbuf[1] = got[1]
      /\ rbuf \in Seq(Cells)
  BY DEF Handle, BufferInv, Received, BufferTypes
<1>2. n + 1 \in 2..Len(rbuf)
  BY <1>1
<1>3. Terminated[1] = got[1]
  BY <1>1, <1>2 DEF Terminated
<1>4. Terminated \in Seq(Cells) /\ Len(Terminated) = Len(rbuf)
  <2>1. (IF Ends(rbuf[n + 1]) THEN Cell("cut", 0) ELSE Nul) \in Cells
    BY CellType DEF Nul
  <2>2. QED
    BY <1>1, <1>2, <2>1, ExceptSeq DEF Terminated
<1>5. UNCHANGED <<asked, wire, inbox>> /\ pc' = "wait"
  BY DEF Handle, clientVars
<1>6. UNCHANGED replies \/ (RequestLine(Terminated) /\ replies' = Append(replies, Reply(Terminated)))
  BY Zenon DEF Handle
<1>7. Reply(Terminated).to = Terminated[1].req
  BY Zenon DEF Reply
<1>8. RequestLine(Terminated) => Asks(got[1]) /\ Open(got[1].req) /\ OpenBehind(got[1].req, Pending)
  BY <1>1, <1>3 DEF RequestLine, Asks, OrderInv
<1>9. QED
  BY <1>3, <1>4, <1>5, <1>6, <1>7, <1>8

\* A call answers the request whose first line it read, and no answer before
\* it was to a later one.
LEMMA HandleOrder ==
  ASSUME BufferInv, ParsedInv, OrderInv, Handle
  PROVE  OrderInv'
<1>1. Pending' = Pending /\ asked' = asked /\ pc' = "wait"
  BY HandleAnswers DEF Pending
<1>2. CASE UNCHANGED replies
  BY <1>1, <1>2, QuietOrder
<1>3. CASE ~UNCHANGED replies
  <2> DEFINE i == got[1].req
  <2>1. /\ Open(i) /\ OpenBehind(i, Pending)
        /\ replies' = Append(replies, Reply(Terminated))
        /\ Reply(Terminated).to = i
        /\ replies \in Seq(ReplyTypes)
    BY <1>3, HandleAnswers DEF ParsedInv
  <2>2. /\ DOMAIN replies = 1..Len(replies) /\ Len(replies) \in Nat
        /\ DOMAIN replies' = 1..(Len(replies) + 1)
        /\ \A k \in 1..Len(replies) : replies'[k] = replies[k]
        /\ replies'[Len(replies) + 1] = Reply(Terminated)
    BY <2>1
  <2>3. \A k \in DOMAIN replies' : \/ k \in DOMAIN replies /\ replies'[k] = replies[k]
                                   \/ replies'[k].to = i
    BY <2>1, <2>2
  <2> HIDE DEF i
  <2>4. \A j : Open(j) /\ i < j => Open(j)'
    BY <1>1, <2>3 DEF Open
  <2>5. OpenBehind(0, Pending)'
    BY <1>1, <2>1, <2>4 DEF OrderInv, OpenBehind, Asks
  <2>6. InOrder(Pending)'
    BY <1>1 DEF OrderInv, InOrder, Asks
  <2>7. \A k \in DOMAIN replies' : replies'[k].to \in 1..asked'
    BY <1>1, <2>1, <2>3 DEF OrderInv, Open
  <2>8. QED
    BY <1>1, <2>5, <2>6, <2>7 DEF OrderInv
<1>4. QED
  BY <1>2, <1>3

\* The order of answers, step by step.
LEMMA OrderStep ==
  ASSUME \A s \in Scripts : \A i \in DOMAIN s : OneLine(s[i]),
         BufferInv, ParsedInv, OrderInv, [Next]_vars
  PROVE  OrderInv'
<1>1. CASE UNCHANGED vars
  BY <1>1, QuietOrder DEF vars, clientVars, bufferVars, parsedVars, Pending
<1>2. CASE Ask
  BY <1>2, AskOrder
<1>3. CASE Report
  <2> DEFINE report == Cell("report", 0)
  <2>1. /\ wire' = Append(wire, report) /\ UNCHANGED <<inbox, asked, replies, pc, got>>
    BY <1>3 DEF Report, ClientStep, bufferVars, parsedVars
  <2>2. report \in Cells /\ inbox \in Seq(Cells) /\ wire \in Seq(Cells) /\ ~Asks(report)
    BY CellType DEF BufferInv, BufferTypes, Asks, Cell
  <2> HIDE DEF report
  <2>3. Pending \in Seq(Cells) /\ Pending' = Append(Pending, report)
    <3>1. <<report>> \in Seq(Cells) /\ wire' = wire \o <<report>>
      BY <2>1, <2>2, AppendIsConcat
    <3>2. Pending \in Seq(Cells) /\ Pending' = Pending \o <<report>>
      BY <2>1, <2>2, <3>1, ConcatProperties, ConcatAssociative DEF Pending
    <3>3. QED
      BY <2>2, <3>2, AppendIsConcat
  <2>4. /\ Len(Pending) \in Nat /\ Len(Pending') = Len(Pending) + 1
        /\ \A p \in 1..Len(Pending) : Pending'[p] = Pending[p]
        /\ Pending'[Len(Pending) + 1] = report
    BY <2>2, <2>3, AppendProperties, LenProperties
  <2>5. \A p \in 1..Len(Pending') :
          Asks(Pending'[p]) => p \in 1..Len(Pending) /\ Pending'[p] = Pending[p]
    BY <2>2, <2>4
  <2>6. QED
    BY <2>1, <2>5 DEF OrderInv, InOrder, OpenBehind, Open, Asks
<1>4. CASE Deliver
  <2>1. PICK k \in 1..Len(wire) :
          /\ inbox' = inbox \o SubSeq(wire, 1, k)
          /\ wire' = SubSeq(wire, k + 1, Len(wire))
    BY <1>4 DEF Deliver
  <2>2. UNCHANGED <<asked, replies, pc, got>>
    BY <1>4 DEF Deliver, clientVars, bufferVars, parsedVars
  <2>3. Pending' = Pending
    <3>1. /\ inbox \in Seq(Cells) /\ wire \in Seq(Cells) /\ Len(wire) \in Nat
          /\ SubSeq(wire, 1, k) \in Seq(Cells) /\ SubSeq(wire, k + 1, Len(wire)) \in Seq(Cells)
      BY <2>1, LenProperties DEF BufferInv, BufferTypes
    <3>2. SubSeq(wire, 1, k) \o SubSeq(wire, k + 1, Len(wire)) = wire
      <4>1. 1 \in 1..(Len(wire) + 1) /\ k \in (1 - 1)..Len(wire) /\ Len(wire) \in k..Len(wire)
        BY <2>1, <3>1
      <4>2. SubSeq(wire, 1, k) \o SubSeq(wire, k + 1, Len(wire)) = SubSeq(wire, 1, Len(wire))
        BY <3>1, <4>1, ConcatAdjacentSubSeq
      <4>3. QED
        BY <3>1, <4>2, SubSeqFull
    <3> DEFINE arrived == SubSeq(wire, 1, k)
               left    == SubSeq(wire, k + 1, Len(wire))
    <3>3. (inbox \o arrived) \o left = inbox \o (arrived \o left)
      <4>1. arrived \in Seq(Cells) /\ left \in Seq(Cells) /\ inbox \in Seq(Cells)
        BY <3>1
      <4> HIDE DEF arrived, left
      <4>2. QED
        BY ONLY <4>1, ConcatAssociative
    <3>4. QED
      BY <2>1, <3>2, <3>3 DEF Pending
  <2>4. QED
    BY <2>2, <2>3, QuietOrder
<1>5. CASE Close
  BY <1>5, QuietOrder DEF Close, bufferVars, parsedVars, Pending
<1>6. CASE Recv
  BY <1>6, RecvOrder
<1>7. CASE ReadMore
  BY <1>7, ReadMoreOrder
<1>8. CASE Handle
  BY <1>8, HandleOrder
<1>9. QED
  BY <1>1, <1>2, <1>3, <1>4, <1>5, <1>6, <1>7, <1>8 DEF Next, HandleRtspRequest

\* Everything the proofs know of the requests.
RequestInv == BufferInv /\ ParsedInv /\ OrderInv

\* The invariants of the buffer, of the parser and of the order of answers.
LEMMA RequestInvariant ==
  ASSUME \A s \in Scripts : \A i \in DOMAIN s : OneLine(s[i])
  PROVE  Spec => []RequestInv
<1>1. Init => OrderInv
  BY OrderInit
<1>2. BufferInv /\ ParsedInv /\ OrderInv /\ [Next]_vars => OrderInv'
  BY OrderStep
<1>3. QED
  BY <1>1, <1>2, ParsedInvariant, PTL DEF Spec, RequestInv

\* A step of the connection is a step of the dialogue, or none of it.
LEMMA DialogueStep ==
  ASSUME RequestInv, [Next]_vars
  PROVE  [Dialogue!Next]_<<asked, [k \in DOMAIN replies |-> replies[k].to]>>
<1> DEFINE answered == [k \in DOMAIN replies |-> replies[k].to]
<1> USE DEF RequestInv
<1>1. CASE Ask
  BY <1>1 DEF Ask, ClientStep, parsedVars, Dialogue!Next, Dialogue!Ask
<1>2. CASE UNCHANGED <<asked, replies>>
  BY <1>2
<1>3. CASE Handle /\ ~UNCHANGED replies
  <2> DEFINE i == got[1].req
             reply == Reply(Terminated)
  <2>1. /\ Open(i) /\ replies' = Append(replies, reply) /\ reply.to = i
        /\ asked' = asked
        /\ replies \in Seq(ReplyTypes)
    BY <1>3, HandleAnswers DEF ParsedInv
  <2>2. asked \in Nat /\ i \in 1..asked /\ i \in Nat
    <3>1. asked \in Nat
      BY DEF BufferInv, BufferTypes
    <3>2. i \in 1..asked
      BY <2>1 DEF Open
    <3>3. QED
      BY <3>1, <3>2
  <2>3. /\ DOMAIN replies = 1..Len(replies) /\ Len(replies) \in Nat
        /\ DOMAIN replies' = 1..(Len(replies) + 1)
        /\ \A k \in 1..Len(replies) : replies'[k] = replies[k]
        /\ replies'[Len(replies) + 1] = reply
        /\ \A k \in 1..Len(replies) : replies[k].to \in Nat
    <3>1. /\ DOMAIN replies = 1..Len(replies) /\ Len(replies) \in Nat
          /\ DOMAIN replies' = 1..(Len(replies) + 1)
          /\ \A k \in 1..Len(replies) : replies'[k] = replies[k]
          /\ replies'[Len(replies) + 1] = reply
      <4> HIDE DEF reply, i
      <4> QED BY <2>1
    <3>2. \A k \in 1..Len(replies) : replies[k] \in ReplyTypes
      BY <2>1, ElementOfSeq
    <3>3. QED
      BY <3>1, <3>2 DEF ReplyTypes
  <2> HIDE DEF i, reply
  <2>4. answered' = Append(answered, i)
    <3> DEFINE before == [k \in 1..Len(replies) |-> replies[k].to]
               after  == [k \in 1..(Len(replies) + 1) |-> replies'[k].to]
    <3>1. before \in Seq(Nat) /\ Len(before) = Len(replies)
      BY <2>3, IsASeq
    <3>2. \A k \in 1..(Len(replies) + 1) : replies'[k].to \in Nat
      BY <2>1, <2>2, <2>3
    <3>3. after \in Seq(Nat) /\ Len(after) = Len(replies) + 1
      BY <2>3, <3>2, IsASeq
    <3>4. /\ Append(before, i) \in Seq(Nat) /\ Len(Append(before, i)) = Len(replies) + 1
          /\ \A k \in 1..Len(replies) : Append(before, i)[k] = before[k]
          /\ Append(before, i)[Len(replies) + 1] = i
      BY <2>2, <3>1, AppendProperties
    <3>5. \A k \in 1..(Len(replies) + 1) : after[k] = Append(before, i)[k]
      BY <2>1, <2>3, <3>4
    <3>6. after = Append(before, i)
      <4> HIDE DEF after, before
      <4> QED
        BY <2>3, <3>3, <3>4, <3>5, SeqEqual
    <3>7. QED
      BY <2>3, <3>6
  <2>5. \A k \in DOMAIN answered : answered[k] < i
    BY <2>1 DEF Open
  <2>6. Dialogue!Answer
    BY <2>1, <2>2, <2>4, <2>5 DEF Dialogue!Answer
  <2>7. QED
    BY <2>6 DEF Dialogue!Next
<1>4. UNCHANGED <<asked, replies>> \/ Ask \/ (Handle /\ ~UNCHANGED replies)
  <2>1. CASE Handle
    BY <2>1 DEF Handle, clientVars
  <2>2. QED
    BY <2>1 DEF Next, HandleRtspRequest, Recv, ReadMore, ReportedEdge, Report, Deliver, Close,
       ClientStep, vars, clientVars, parsedVars
<1>5. QED
  BY <1>1, <1>2, <1>3, <1>4

\* However a client cuts and pipelines its requests, each of which has one request
\* line: what is answered was asked, once and in order.
THEOREM RefinesDialogue ==
  ASSUME \A s \in Scripts : \A i \in DOMAIN s : OneLine(s[i])
  PROVE  Spec => ImplementsDialogue
<1>1. Init => Dialogue!Init
  <2> SUFFICES ASSUME Init PROVE Dialogue!Init
    OBVIOUS
  <2>1. asked = 0 /\ replies = <<>>
    BY DEF Init
  <2>2. [k \in DOMAIN replies |-> replies[k].to] = <<>>
    BY <2>1
  <2>3. QED
    BY <2>1, <2>2 DEF Dialogue!Init
<1>2. RequestInv /\ [Next]_vars
        => [Dialogue!Next]_<<asked, [k \in DOMAIN replies |-> replies[k].to]>>
  BY DialogueStep
<1>3. QED
  BY <1>1, <1>2, RequestInvariant, PTL DEF Spec, ImplementsDialogue, Dialogue!Spec

-----------------------------------------------------------------------------
(* The headers of an answer.                                               *)

\* far is as far as headers lie in rbuf_.
FarInv == \A p \in 1..Len(rbuf) : rbuf[p].kind \in {"cseq", "transport"} => p <= far

\* No header was read.
LEMMA FarInit == Init => FarInv
<1> SUFFICES ASSUME Init PROVE FarInv
  OBVIOUS
<1>1. rbuf = [p \in 1..InitSize |-> Nul] /\ InitSize \in Nat
  BY BufferAssumption DEF Init
<1>2. QED
  BY <1>1 DEF FarInv, Nul, Cell

\* rbuf_ with cells over its beginning, in reach of what far is then.
LEMMA FarOverlay ==
  ASSUME NEW cells \in Seq(Cells), NEW buf \in Seq(Cells), Len(cells) <= Len(buf), far \in Nat,
         \A p \in 1..Len(buf) : buf[p].kind \in {"cseq", "transport"} => p <= far
  PROVE  \A p \in 1..Len(buf) :
           Overlay(cells, buf)[p].kind \in {"cseq", "transport"} => p <= FarWith(cells)
<1> SUFFICES ASSUME NEW p \in 1..Len(buf), Overlay(cells, buf)[p].kind \in {"cseq", "transport"}
             PROVE  p <= FarWith(cells)
  OBVIOUS
<1>1. p \in DOMAIN buf /\ p \in Nat /\ Len(cells) \in Nat /\ DOMAIN cells = 1..Len(cells)
  BY LenProperties
<1>2. /\ FarWith(cells) \in Nat /\ far <= FarWith(cells)
      /\ \A q \in Headers(cells) : q <= FarWith(cells)
  BY FarReaches
<1>3. CASE p <= Len(cells)
  <2>1. Overlay(cells, buf)[p] = cells[p]
    BY <1>1, <1>3 DEF Overlay
  <2>2. p \in Headers(cells)
    BY <1>1, <1>3, <2>1 DEF Headers
  <2>3. QED
    BY <1>2, <2>2
<1>4. CASE ~(p <= Len(cells))
  <2>1. Overlay(cells, buf)[p] = buf[p]
    BY <1>1, <1>4 DEF Overlay
  <2>2. p <= far
    BY <2>1
  <2>3. QED
    BY <1>1, <1>2, <2>2
<1>5. QED
  BY <1>3, <1>4

\* far goes up with every header that is read further on, and never down.
LEMMA FarStep ==
  ASSUME BufferInv, ParsedInv, FarInv, [Next]_vars
  PROVE  FarInv'
<1>1. /\ rbuf \in Seq(Cells) /\ got \in Seq(Cells) /\ Len(rbuf) \in Nat \ {0} /\ far \in Nat
  BY EmptySeq DEF BufferInv, BufferTypes, ParsedInv
<1>2. CASE UNCHANGED <<rbuf, far>>
  BY <1>2 DEF FarInv
<1> DEFINE size == Len(rbuf)
<1>3. ASSUME inbox # <<>>
      PROVE  Taken(size) \in Seq(Cells) /\ Len(Taken(size)) \in 1..size
  <2>1. inbox \in Seq(Cells) /\ size \in Nat \ {0}
    BY <1>1 DEF BufferInv, BufferTypes
  <2> HIDE DEF size
  <2>2. QED
    BY <1>3, <2>1, TakenAndLeft
<1>4. CASE Recv /\ ~UNCHANGED <<rbuf, far>>
  <2>1. inbox # <<>> /\ rbuf' = Overlay(Taken(size), rbuf) /\ far' = FarWith(Taken(size))
    BY <1>4 DEF Recv, Disconnect, bufferVars
  <2>2. Taken(size) \in Seq(Cells) /\ Len(Taken(size)) <= size
    BY <1>1, <1>3, <2>1
  <2> DEFINE cells == Taken(size)
  <2> HIDE DEF cells
  <2>3. \A p \in 1..Len(rbuf) :
          Overlay(cells, rbuf)[p].kind \in {"cseq", "transport"} => p <= FarWith(cells)
    BY <1>1, <2>2, FarOverlay DEF FarInv, cells
  <2>4. Len(rbuf') = Len(rbuf)
    BY <1>1, <2>1, <2>2, OverlayType
  <2>5. QED
    BY <2>1, <2>3, <2>4 DEF FarInv, cells
<1>5. CASE ReadMore /\ ~UNCHANGED <<rbuf, far>>
  <2> DEFINE empty == [p \in DOMAIN rbuf |-> Nul]
             cells == Taken(size)
             more  == Overlay(cells, empty)
  <2>1. /\ inbox # <<>> /\ rbuf' = rbuf \o more
        /\ far' = FarWith(got \o cells)
        /\ pc = "loop" /\ n = Len(rbuf)
    BY <1>5 DEF ReadMore, Disconnect, bufferVars
  <2>2. cells \in Seq(Cells) /\ Len(cells) \in 1..size
    BY <1>3, <2>1
  <2>3. Len(got) = size
    BY <2>1 DEF BufferInv, Received
  <2>4. empty \in Seq(Cells) /\ Len(empty) = size /\ \A p \in 1..size : empty[p] = Nul
    <3>1. DOMAIN rbuf = 1..size /\ Nul \in Cells
      BY <1>1, CellType, LenProperties DEF Nul
    <3> QED
      BY <1>1, <3>1, IsASeq
  <2> HIDE DEF empty, cells
  <2>5. more \in Seq(Cells) /\ Len(more) = size /\ \A p \in 1..Len(cells) : more[p] = cells[p]
    BY <1>1, <2>2, <2>4, OverlayType
  <2>6. \A p \in 1..size : p > Len(cells) => more[p] = Nul
    <3>1. DOMAIN empty = 1..size
      BY <2>4, LenProperties
    <3>2. QED
      BY <2>2, <2>4, <3>1 DEF Overlay
  <2>7. /\ got \o cells \in Seq(Cells) /\ Len(got \o cells) = size + Len(cells)
        /\ \A p \in 1..(size + Len(cells)) :
             (got \o cells)[p] = IF p <= size THEN got[p] ELSE cells[p - size]
    <3> HIDE DEF size
    <3>1. /\ got \o cells \in Seq(Cells) /\ Len(got \o cells) = Len(got) + Len(cells)
          /\ \A p \in 1..(Len(got) + Len(cells)) :
               (got \o cells)[p] = IF p <= Len(got) THEN got[p] ELSE cells[p - Len(got)]
      <4>1. got \in Seq(Cells) /\ cells \in Seq(Cells)
        BY <1>1, <2>2
      <4>2. QED
        BY ONLY <4>1, ConcatProperties
    <3>2. QED
      BY ONLY <2>3, <3>1
  <2>8. /\ far' \in Nat /\ far <= far'
        /\ \A p \in Headers(got \o cells) : p <= far'
    BY <1>1, <2>1, <2>7, FarReaches
  <2> HIDE DEF more, size
  <2>9. /\ Len(rbuf') = size + size /\ size \in Nat /\ size = Len(rbuf)
        /\ \A p \in 1..(size + size) : rbuf'[p] = IF p <= size THEN rbuf[p] ELSE more[p - size]
    <3>1. /\ Len(rbuf \o more) = Len(rbuf) + Len(more)
          /\ \A p \in 1..(Len(rbuf) + Len(more)) :
               (rbuf \o more)[p] = IF p <= Len(rbuf) THEN rbuf[p] ELSE more[p - Len(rbuf)]
      <4>1. rbuf \in Seq(Cells) /\ more \in Seq(Cells)
        BY <1>1, <2>5
      <4>2. QED
        BY ONLY <4>1, ConcatProperties
    <3>2. size = Len(rbuf) /\ size \in Nat
      BY <1>1 DEF size
    <3>3. QED
      BY ONLY <2>1, <2>5, <3>1, <3>2
  <2>10. ASSUME NEW p \in 1..(size + size), rbuf'[p].kind \in {"cseq", "transport"}
         PROVE  p <= far'
    <3>1. CASE p <= size
      <4>1. p \in 1..Len(rbuf) /\ rbuf'[p] = rbuf[p]
        BY <2>9, <3>1
      <4>2. p <= far
        BY <2>10, <4>1 DEF FarInv
      <4>3. QED
        BY <1>1, <2>8, <4>2
    <3>2. CASE p > size
      <4>1. p - size \in 1..size /\ rbuf'[p] = more[p - size]
        BY <2>9, <3>2
      <4>2. CASE p - size <= Len(cells)
        <5>1. p - size \in 1..Len(cells) /\ p \in 1..(size + Len(cells))
          BY <2>2, <2>9, <4>1, <4>2
        <5>2. (got \o cells)[p] = cells[p - size] /\ more[p - size] = cells[p - size]
          BY <2>5, <2>7, <2>9, <3>2, <5>1
        <5>3. p \in DOMAIN (got \o cells)
          BY <2>7, <5>1, LenProperties
        <5>4. p \in Headers(got \o cells)
          BY <2>10, <4>1, <5>2, <5>3 DEF Headers
        <5>5. QED
          BY <2>8, <5>4
      <4>3. CASE ~(p - size <= Len(cells))
        <5>1. more[p - size] = Nul
          BY <2>2, <2>6, <2>9, <4>1, <4>3
        <5>2. QED
          BY <2>10, <4>1, <5>1 DEF Nul, Cell
      <4>4. QED
        BY <4>2, <4>3
    <3>3. QED
      BY <2>9, <3>1, <3>2
  <2>11. QED
    BY <2>9, <2>10 DEF FarInv
<1>6. CASE Handle
  <2>1. rbuf' = Terminated /\ far' = far
    BY <1>6 DEF Handle
  <2>2. \A p \in 1..Len(rbuf) : Terminated[p] = rbuf[p] \/ Terminated[p].kind \in {"cut", "nul"}
    BY <1>1 DEF Terminated, Nul, Cell
  <2>3. Len(Terminated) = Len(rbuf)
    BY <1>1 DEF Terminated
  <2>4. QED
    BY <2>1, <2>2, <2>3 DEF FarInv
<1>7. UNCHANGED <<rbuf, far>> \/ Recv \/ ReadMore \/ Handle
  BY DEF Next, HandleRtspRequest, Ask, Report, Deliver, Close, ClientStep, vars, bufferVars
<1>8. QED
  BY <1>2, <1>4, <1>5, <1>6, <1>7

\* What the parser sees of a request that was read alone: the cells of the request,
\* and none of the headers that came before it.
LEMMA AloneSeen ==
  ASSUME \A s \in Scripts : \A i \in DOMAIN s : WellFormed(s[i]),
         BufferInv, ParsedInv, OrderInv, FarInv, Handle,
         RequestLine(Terminated), Reply(Terminated).alone,
         NEW i, i = got[1].req,
         NEW header \in {"cseq", "transport"}
  PROVE  /\ i \in DOMAIN script /\ Terminated \in Seq(Cells)
         /\ LinesWith(Terminated, header) = {p \in DOMAIN script[i] : script[i][p] = header}
         /\ LinesWith(Terminated, header) \subseteq 3..Len(Terminated)
         /\ \A p \in LinesWith(Terminated, header) :
              HasValue(Terminated, p) /\ Terminated[p + 1].req = i
<1> DEFINE buf     == Terminated
           request == script[i]
           Kinds   == {"method", "url", "cseq", "transport", "value", "line"}
<1>1. /\ buf[1] = got[1] /\ buf \in Seq(Cells) /\ Len(buf) = Len(rbuf)
      /\ i \in 1..asked
  <2>1. buf[1] = got[1] /\ buf \in Seq(Cells) /\ Len(buf) = Len(rbuf)
    BY HandleAnswers
  <2>2. pc = "loop" /\ buf[1].kind = "method"
    BY DEF Handle, RequestLine
  <2>3. Open(i)
    <3> HIDE DEF buf
    <3>1. QED
      BY <2>1, <2>2 DEF OrderInv, Asks
  <2>4. QED
    BY <2>1, <2>3 DEF Open
<1>2. script \in Seq(Seq(Kinds)) /\ asked \in Nat /\ asked <= Len(script)
  BY BufferAssumption DEF BufferInv, BufferTypes, ParsedInv
<1>3. i \in DOMAIN script /\ i \in Nat /\ request \in Seq(Kinds) /\ WellFormed(request)
  <2>1. i \in 1..Len(script) /\ i \in Nat /\ Len(script) \in Nat
    <3> HIDE DEF Kinds
    <3>1. i \in 1..asked
      BY <1>1
    <3>2. Len(script) \in Nat
      BY ONLY <1>2, LenProperties
    <3>3. QED
      BY ONLY <1>2, <3>1, <3>2
  <2>2. i \in DOMAIN script
    BY ONLY <1>2, <2>1, LenProperties
  <2>3. script[i] \in Seq(Kinds)
    BY ONLY <1>2, <2>1, ElementOfSeq
  <2>4. script \in Scripts
    BY DEF BufferInv, BufferTypes
  <2>5. QED
    BY <2>1, <2>2, <2>3, <2>4
<1>4. got = Request(i) /\ far <= n + 1 /\ far \in Nat
  <2>1. Reply(Terminated).alone = (got = Request(buf[1].req) /\ far <= n + 1)
    BY Zenon DEF Reply
  <2>2. QED
    BY <1>1, <2>1 DEF ParsedInv
<1>5. /\ n \in Nat /\ n = Len(got) /\ n + 1 \in 1..Len(buf) /\ rbuf \in Seq(Cells)
      /\ \A p \in 1..n : rbuf[p] = got[p]
  BY <1>1 DEF Handle, BufferInv, BufferTypes, Received
<1>6. DOMAIN request = 1..n /\ DOMAIN got = 1..n
  <2>1. DOMAIN got = DOMAIN request
    BY <1>4, Zenon DEF Request
  <2>2. got \in Seq(Cells)
    BY DEF BufferInv, BufferTypes
  <2>3. DOMAIN got = 1..Len(got)
    BY ONLY <2>2, LenProperties
  <2>4. QED
    BY <1>5, <2>1, <2>3
<1>7. \A p \in 1..Len(buf) :
        buf[p] = IF p = n + 1 THEN IF Ends(rbuf[p]) THEN Cell("cut", 0) ELSE Nul ELSE rbuf[p]
  BY <1>1, <1>5 DEF Terminated
<1>8. ASSUME NEW p \in 1..n
      PROVE  /\ p \in 1..Len(buf) /\ buf[p].kind = request[p]
             /\ request[p] # "line" => buf[p].req = i
  <2>1. p \in 1..Len(buf) /\ p # n + 1 /\ p \in DOMAIN request
    BY <1>5, <1>6
  <2>2. buf[p] = got[p]
    BY <1>5, <1>7, <2>1
  <2>3. got[p] = Cell(request[p], IF request[p] = "line" THEN 0 ELSE i)
    BY <1>4, <2>1, Zenon DEF Request
  <2>4. Cell(request[p], IF request[p] = "line" THEN 0 ELSE i).kind = request[p]
    BY Zenon DEF Cell
  <2>5. Cell(request[p], IF request[p] = "line" THEN 0 ELSE i).req
          = IF request[p] = "line" THEN 0 ELSE i
    BY Zenon DEF Cell
  <2> HIDE DEF buf, request
  <2>6. QED
    BY <2>1, <2>2, <2>3, <2>4, <2>5
<1>9. buf[n + 1].kind \in {"cut", "nul"}
  BY <1>5, <1>7 DEF Nul, Cell
<1> HIDE DEF buf, request
<1>10. ASSUME NEW p \in 1..Len(buf), buf[p].kind \in {"cseq", "transport"}
       PROVE  p \in 1..n /\ request[p] = buf[p].kind
  <2>1. p # n + 1
    BY <1>9, <1>10
  <2>2. rbuf[p].kind \in {"cseq", "transport"} /\ p \in 1..Len(rbuf)
    BY <1>1, <1>7, <1>10, <2>1
  <2>3. p <= far
    BY <2>2 DEF FarInv
  <2>4. p \in 1..n
    BY <1>4, <1>5, <2>1, <2>3
  <2>5. QED
    BY <1>8, <2>4
<1>11. ASSUME NEW p \in 1..n, request[p] \in {"cseq", "transport"}
       PROVE  /\ p \in 3..Len(buf) /\ buf[p].kind = request[p] /\ Ends(buf[p - 1])
              /\ HasValue(buf, p) /\ buf[p + 1].req = i
  <2>1. /\ p > 2 /\ request[p - 1] \in {"url", "value", "line"}
        /\ p + 1 \in 1..n /\ request[p + 1] = "value"
    BY <1>3, <1>6, <1>11 DEF WellFormed
  <2>2. p - 1 \in 1..n /\ p + 1 <= Len(buf)
    BY <1>5, <2>1
  <2>3. buf[p].kind = request[p] /\ buf[p - 1].kind = request[p - 1]
    BY <1>8, <2>2
  <2>4. buf[p + 1].kind = "value" /\ buf[p + 1].req = i
    BY <1>8, <2>1
  <2>5. QED
    BY <1>8, <2>1, <2>2, <2>3, <2>4 DEF Ends, HasValue
<1>12. LinesWith(buf, header) \subseteq 3..Len(buf)
  BY DEF LinesWith
<1>13. LinesWith(buf, header) = {p \in 1..n : request[p] = header}
  <2>1. ASSUME NEW p \in LinesWith(buf, header) PROVE p \in 1..n /\ request[p] = header
    <3>1. p \in 1..Len(buf) /\ buf[p].kind = header
      BY DEF LinesWith
    <3>2. QED
      BY <1>10, <3>1
  <2>2. ASSUME NEW p \in 1..n, request[p] = header PROVE p \in LinesWith(buf, header)
    BY <1>11, <2>2 DEF LinesWith
  <2>3. QED
    BY <2>1, <2>2
<1>14. \A p \in LinesWith(buf, header) : HasValue(buf, p) /\ buf[p + 1].req = i
  BY <1>11, <1>13
<1>15. QED
  BY <1>1, <1>3, <1>6, <1>12, <1>13, <1>14 DEF buf, request

\* So it is answered with its own CSeq and handled with its own Transport.
LEMMA OwnReply ==
  ASSUME \A s \in Scripts : \A i \in DOMAIN s : WellFormed(s[i]),
         BufferInv, ParsedInv, OrderInv, FarInv, Handle,
         RequestLine(Terminated), Reply(Terminated).alone
  PROVE  LET reply == Reply(Terminated)
         IN /\ reply.to \in DOMAIN script
            /\ reply.cseq = reply.to
            /\ (\E h \in DOMAIN script[reply.to] : script[reply.to][h] = "transport")
                 => reply.transport = reply.to
<1> DEFINE i   == got[1].req
           buf == Terminated
<1>1. /\ Reply(buf).to = i /\ Reply(buf).cseq = ParsedCSeq(buf)
      /\ Reply(buf).transport = ParsedTransport(buf)
  <2>1. buf[1] = got[1]
    BY HandleAnswers
  <2> HIDE DEF buf
  <2>2. QED
    BY <2>1 DEF Reply
<1>2. ASSUME NEW header \in {"cseq", "transport"}
      PROVE  /\ i \in DOMAIN script /\ buf \in Seq(Cells)
             /\ LinesWith(buf, header) = {p \in DOMAIN script[i] : script[i][p] = header}
             /\ LinesWith(buf, header) \subseteq 3..Len(buf)
             /\ \A p \in LinesWith(buf, header) : HasValue(buf, p) /\ buf[p + 1].req = i
  <2> HIDE DEF i
  <2>1. i = got[1].req
    BY DEF i
  <2>2. QED
    BY <2>1, AloneSeen
<1> HIDE DEF i, buf
<1>3. ParsedCSeq(buf) = i
  <2> DEFINE lines == LinesWith(buf, "cseq")
  <2>1. lines # {}
    <3>1. i \in DOMAIN script /\ script \in Scripts
      BY <1>2 DEF BufferInv, BufferTypes
    <3>2. \E p \in DOMAIN script[i] : script[i][p] = "cseq"
      BY <3>1 DEF WellFormed
    <3>3. QED
      BY <1>2, <3>2
  <2>2. LastOf(lines) \in lines
    BY <1>2, <2>1, LastLine
  <2>3. HasValue(buf, LastOf(lines)) /\ buf[LastOf(lines) + 1].req = i
    BY <1>2, <2>2
  <2>4. QED
    BY <2>1, <2>3 DEF ParsedCSeq
<1>4. ASSUME NEW h \in DOMAIN script[i], script[i][h] = "transport"
      PROVE  ParsedTransport(buf) = i
  <2> DEFINE lines == {p \in LinesWith(buf, "transport") : HasValue(buf, p)}
  <2>1. lines = LinesWith(buf, "transport") /\ lines # {}
    BY <1>2, <1>4
  <2>2. LastOf(lines) \in lines
    <3>1. lines \in SUBSET (3..Len(buf)) /\ buf \in Seq(Cells)
      BY <1>2
    <3> HIDE DEF lines
    <3>2. QED
      BY <2>1, <3>1, LastLine
  <2>3. buf[LastOf(lines) + 1].req = i
    BY <1>2, <2>2
  <2>4. QED
    BY <2>1, <2>3 DEF ParsedTransport
<1>5. QED
  BY <1>1, <1>2, <1>3, <1>4 DEF buf

\* OwnHeaders, with what a step needs to know of the replies before it.
OwnInv ==
  \A k \in DOMAIN replies :
    LET reply == replies[k]
    IN reply.alone =>
         /\ reply.to \in DOMAIN script
         /\ reply.cseq = reply.to
         /\ (\E h \in DOMAIN script[reply.to] : script[reply.to][h] = "transport")
              => reply.transport = reply.to

\* Only Handle writes a reply.
LEMMA OwnStep ==
  ASSUME \A s \in Scripts : \A i \in DOMAIN s : WellFormed(s[i]),
         BufferInv, ParsedInv, OrderInv, FarInv, OwnInv, [Next]_vars
  PROVE  OwnInv'
<1>1. CASE UNCHANGED <<replies, script>>
  BY <1>1 DEF OwnInv
<1>2. CASE Handle /\ ~UNCHANGED replies
  <2>1. /\ RequestLine(Terminated) /\ replies' = Append(replies, Reply(Terminated))
        /\ script' = script
    BY <1>2, HandleAnswers DEF Handle, clientVars
  <2>2. replies \in Seq(ReplyTypes)
    BY DEF ParsedInv
  <2>3. \A k \in DOMAIN replies' :
          \/ k \in DOMAIN replies /\ replies'[k] = replies[k]
          \/ replies'[k] = Reply(Terminated)
    <3> HIDE DEF ReplyTypes
    <3>1. QED
      BY <2>1, <2>2
  <2>4. \A reply : reply = Reply(Terminated) /\ reply.alone =>
          /\ reply.to \in DOMAIN script
          /\ reply.cseq = reply.to
          /\ (\E h \in DOMAIN script[reply.to] : script[reply.to][h] = "transport")
               => reply.transport = reply.to
    BY <1>2, <2>1, OwnReply, Zenon
  <2>5. QED
    BY <2>1, <2>3, <2>4 DEF OwnInv
<1>3. UNCHANGED <<replies, script>> \/ Handle
  BY DEF Next, HandleRtspRequest, Recv, ReportedEdge, ReadMore, Ask, Report, Deliver, Close,
         ClientStep, vars, clientVars, parsedVars
<1>4. CASE Handle /\ UNCHANGED replies
  BY <1>4, <1>1 DEF Handle, clientVars
<1>5. QED
  BY <1>1, <1>2, <1>3, <1>4

\* A request that was read alone is answered with its own headers, whatever the
\* calls before it left in rbuf_: of clients whose requests have a CSeq, and a
\* value behind each header.
THEOREM OwnHeadersHolds ==
  ASSUME \A s \in Scripts : \A i \in DOMAIN s : WellFormed(s[i])
  PROVE  Spec => []OwnHeaders
<1>1. \A s \in Scripts : \A i \in DOMAIN s : OneLine(s[i])
  BY DEF WellFormed
<1>2. Spec => []RequestInv
  BY <1>1, RequestInvariant
<1>3. Init => OwnInv
  BY DEF Init, OwnInv
<1>4. RequestInv /\ FarInv /\ [Next]_vars => FarInv'
  BY FarStep DEF RequestInv
<1>5. RequestInv /\ FarInv /\ OwnInv /\ [Next]_vars => OwnInv'
  BY OwnStep DEF RequestInv
<1>6. OwnInv => OwnHeaders
  BY DEF OwnInv, OwnHeaders
<1>7. QED
  BY <1>2, <1>3, <1>4, <1>5, <1>6, FarInit, PTL DEF Spec
=============================================================================
