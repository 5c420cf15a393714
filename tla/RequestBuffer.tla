--------------------------- MODULE RequestBuffer ---------------------------
(***************************************************************************)
(* RtspConnection::handleRtspRequest and the parsing of a request, for one *)
(* connection: how the bytes of a TCP stream, cut anywhere, get into rbuf_ *)
(* and what is read out of it.  RtspConnection has what the handlers do    *)
(* then; here a handler is the reply it writes.                            *)
(*                                                                         *)
(* A cell stands for some bytes of a line: the method, what follows it on  *)
(* the request line, the name of a header, its value, or a whole line that *)
(* says nothing to the parser.  A value is the request it came with: a     *)
(* CSeq of i, the channels or ports of the Transport line of request i.    *)
(***************************************************************************)
EXTENDS Naturals, Sequences

CONSTANTS
  Scripts,      \* what a client may ask: sequences of requests, each a sequence
                \* of kinds of cells, with "value" behind the name of a header
  InitSize,     \* the cells rbuf_ has room for at first (1024 bytes)
  MaxAhead,     \* bound on the requests a client sends without an answer
  MaxReports    \* bound on the RTCP packets a client sends in between

ASSUME BufferAssumption ==
  /\ InitSize \in Nat \ {0}
  /\ MaxAhead \in Nat /\ MaxReports \in Nat
  /\ \A s \in Scripts :
       s \in Seq(Seq({"method", "url", "cseq", "transport", "value", "line"}))

VARIABLES
  script,       \* the client's script
  asked,        \* how many requests of it were sent
  reports,      \* how many RTCP packets were
  wire,         \* cells that have not arrived
  inbox,        \* cells that arrived and were not read
  peer,         \* "here", "fin" (closed) or "rst" (aborted)
  edge,         \* epoll has an event of the connection to report
  pc,           \* "wait" for an event, or "loop" (behind the recv)
  rbuf,         \* rbuf_, of buf_size_ cells
  n,            \* the n of the call
  got,          \* what the call has read
  far,          \* the farthest cell in rbuf_ at which a header ever started
  cseq,         \* cseq_
  transport,    \* is_tcp_, channel1_ and channel2_
  replies,      \* the replies written so far
  missed,       \* requests that were read, but not as the first in rbuf_, or
                \* without their whole request line
  gone          \* the connection was given to disconnect_cb_

clientVars == <<script, asked, reports, peer>>
bufferVars == <<rbuf, n, got, far>>
parsedVars == <<cseq, transport, replies, missed>>
vars == <<clientVars, wire, inbox, edge, pc, bufferVars, parsedVars, gone>>

Cell(kind, req) == [kind |-> kind, req |-> req]

Nul == Cell("nul", 0)
Line == Cell("line", 0)

\* A cell with the end of a line; "cut" is one whose first byte was overwritten.
Ends(cell) == cell.kind \in {"url", "value", "line", "cut"}

\* The cells of request i of the script.
Request(i) ==
  [p \in DOMAIN script[i] |->
     Cell(script[i][p], IF script[i][p] = "line" THEN 0 ELSE i)]

Init ==
  /\ script \in Scripts
  /\ asked = 0 /\ reports = 0
  /\ wire = <<>> /\ inbox = <<>>
  /\ peer = "here"
  /\ edge = FALSE
  /\ pc = "wait"
  /\ rbuf = [p \in 1..InitSize |-> Nul]
  /\ n = 0
  /\ got = <<>> /\ far = 0
  /\ cseq = 0 /\ transport = 0
  /\ replies = <<>>
  /\ missed = {}
  /\ gone = FALSE

-----------------------------------------------------------------------------
(* The client and the network.                                             *)

ClientStep ==
  /\ peer = "here"
  /\ UNCHANGED <<script, inbox, edge, pc, bufferVars, parsedVars, gone>>

Ask ==
  /\ ClientStep
  /\ asked < Len(script)
  /\ asked < Len(replies) + MaxAhead
  /\ asked' = asked + 1
  /\ wire' = wire \o Request(asked + 1)
  /\ UNCHANGED <<reports, peer>>

\* A receiver report, interleaved with the requests (RFC 2326, 10.12).
Report ==
  /\ ClientStep
  /\ reports < MaxReports
  /\ reports' = reports + 1
  /\ wire' = Append(wire, Cell("report", 0))
  /\ UNCHANGED <<asked, peer>>

\* A segment arrives.  Segments end anywhere.
Deliver ==
  /\ peer # "rst"
  /\ \E k \in 1..Len(wire) :
       /\ inbox' = inbox \o SubSeq(wire, 1, k)
       /\ wire' = SubSeq(wire, k + 1, Len(wire))
  /\ edge' = TRUE
  /\ UNCHANGED <<clientVars, pc, bufferVars, parsedVars, gone>>

\* A close arrives behind everything sent, a reset at any time.
Close ==
  /\ peer = "here"
  /\ \/ peer' = "fin" /\ wire = <<>>
     \/ peer' = "rst"
  /\ edge' = TRUE
  /\ UNCHANGED <<script, asked, reports, wire, inbox, pc, bufferVars, parsedVars, gone>>

-----------------------------------------------------------------------------
(* handleRtspRequest.  Poll reports an edge only while there is something  *)
(* to read; between its report and the recv more may come, not less.       *)

Least(a, b) == IF a < b THEN a ELSE b

LastOf(places) == CHOOSE p \in places : \A q \in places : q <= p

Headers(cells) == {p \in DOMAIN cells : cells[p].kind \in {"cseq", "transport"}}

\* far, once the cells are at the beginning of rbuf_.
FarWith(cells) == LastOf(Headers(cells) \cup {far})

\* buf with the cells, from the start.
Overlay(cells, buf) ==
  [p \in DOMAIN buf |-> IF p <= Len(cells) THEN cells[p] ELSE buf[p]]

Disconnect ==
  /\ gone' = TRUE
  /\ pc' = "wait"
  /\ UNCHANGED <<inbox, bufferVars>>

Readable == inbox # <<>> \/ peer # "here"

ReportedEdge ==
  /\ pc = "wait" /\ ~gone
  /\ edge /\ Readable
  /\ edge' = FALSE
  /\ UNCHANGED <<clientVars, wire, parsedVars>>

\* The cells of the inbox a call takes into size bytes, and those it leaves.
Taken(size) == SubSeq(inbox, 1, Least(size, Len(inbox)))
Left(size) == SubSeq(inbox, Least(size, Len(inbox)) + 1, Len(inbox))

\* Wrong variants: no data is no reason to return, and what the buffer holds is
\* handled again; recv leaves room for the byte that is set to 0.
RecvIgnoresEnd ==
  /\ ReportedEdge
  /\ rbuf' = Overlay(Taken(Len(rbuf)), rbuf)
  /\ n' = IF inbox = <<>> THEN n ELSE Len(Taken(Len(rbuf)))
  /\ got' = Taken(Len(rbuf))
  /\ far' = FarWith(Taken(Len(rbuf)))
  /\ inbox' = Left(Len(rbuf))
  /\ pc' = "loop"
  /\ UNCHANGED gone

RecvLeavesRoom ==
  /\ ReportedEdge
  /\ \/ /\ inbox = <<>> \/ peer = "rst"
        /\ Disconnect
     \/ /\ inbox # <<>>
        /\ rbuf' = Overlay(Taken(Len(rbuf) - 1), rbuf)
        /\ n' = Len(Taken(Len(rbuf) - 1))
        /\ got' = Taken(Len(rbuf) - 1)
        /\ far' = FarWith(Taken(Len(rbuf) - 1))
        /\ inbox' = Left(Len(rbuf) - 1)
        /\ pc' = "loop"
        /\ UNCHANGED gone

Recv ==
  /\ ReportedEdge
  /\ \/ /\ inbox = <<>> \/ peer = "rst"
        /\ Disconnect
     \/ /\ inbox # <<>>
        /\ rbuf' = Overlay(Taken(Len(rbuf)), rbuf)
        /\ n' = Len(Taken(Len(rbuf)))
        /\ got' = Taken(Len(rbuf))
        /\ far' = FarWith(Taken(Len(rbuf)))
        /\ inbox' = Left(Len(rbuf))
        /\ pc' = "loop"
        /\ UNCHANGED gone

\* Wrong variant: what is read goes to the beginning of rbuf_, which stays as it is.
ReadMoreAtStart ==
  /\ pc = "loop" /\ n = Len(rbuf)
  /\ inbox # <<>>
  /\ rbuf' = Overlay(Taken(Len(rbuf)), rbuf)
  /\ n' = n + Len(Taken(Len(rbuf)))
  /\ got' = got \o Taken(Len(rbuf))
  /\ far' = FarWith(got \o Taken(Len(rbuf)))
  /\ inbox' = Left(Len(rbuf))
  /\ UNCHANGED <<clientVars, wire, edge, pc, parsedVars, gone>>

(* The read() of the loop, while the buffer is full to the last byte: it   *)
(* waits for data or the end of the connection.  What it gets goes behind  *)
(* rbuf_, which grows by a buffer as long as itself.  After an error the   *)
(* connection is not disconnected.  Here as in the recv, what came before  *)
(* a reset may be read or be lost.                                         *)
ReadMore ==
  /\ pc = "loop" /\ n = Len(rbuf)
  /\ \/ /\ peer = "rst"
        /\ pc' = "wait"
        /\ UNCHANGED <<inbox, bufferVars, gone>>
     \/ /\ peer = "fin" /\ inbox = <<>>
        /\ Disconnect
     \/ /\ inbox # <<>>
        /\ rbuf' = rbuf \o Overlay(Taken(Len(rbuf)), [p \in DOMAIN rbuf |-> Nul])
        /\ n' = n + Len(Taken(Len(rbuf)))
        /\ got' = got \o Taken(Len(rbuf))
        /\ far' = FarWith(got \o Taken(Len(rbuf)))
        /\ inbox' = Left(Len(rbuf))
        /\ UNCHANGED <<pc, gone>>
  /\ UNCHANGED <<clientVars, wire, edge, parsedVars>>

-----------------------------------------------------------------------------
(* Parsing.  All of rbuf_ is parsed, also what lies behind the n bytes.    *)

\* Wrong variant: nothing separates the request from what was read before.
TerminatedNowhere == rbuf

\* rbuf_[n] = 0: a line ends before it for the parser; if the line feed of its
\* own line is in that cell too, the next line starts behind it.
Terminated ==
  [rbuf EXCEPT ![n + 1] = IF Ends(@) THEN Cell("cut", 0) ELSE Nul]

\* parseRequestMethod: the request line must be there to its end.
RequestLine(buf) == Len(buf) > 1 /\ buf[1].kind = "method" /\ buf[2].kind = "url"

\* The lines parseRequestLine sees with a header, and the value of one.
LinesWith(buf, header) ==
  {p \in 3..Len(buf) : Ends(buf[p - 1]) /\ buf[p].kind = header}

HasValue(buf, p) == p < Len(buf) /\ buf[p + 1].kind = "value"

\* Later lines overwrite what earlier ones said.  A CSeq without a number is 0,
\* a Transport without a value is passed over.
ParsedCSeq(buf) ==
  LET lines == LinesWith(buf, "cseq")
  IN IF lines = {} THEN cseq
     ELSE IF HasValue(buf, LastOf(lines)) THEN buf[LastOf(lines) + 1].req ELSE 0

ParsedTransport(buf) ==
  LET lines == {p \in LinesWith(buf, "transport") : HasValue(buf, p)}
  IN IF lines = {} THEN transport ELSE buf[LastOf(lines) + 1].req

\* The requests in got whose request line is not all at the beginning of it.
Missed ==
  {got[p].req : p \in {q \in DOMAIN got : got[q].kind = "method" /\ (q > 1 \/ Len(got) = 1)}}

\* The reply of the handler.  alone: the call read one request and nothing else,
\* and no header ever lay behind the byte that was set to 0.
Reply(buf) ==
  [to |-> buf[1].req, cseq |-> ParsedCSeq(buf), transport |-> ParsedTransport(buf),
   alone |-> got = Request(buf[1].req) /\ far <= n + 1]

\* Wrong variant: a request is handled only once its empty line is there.
HandleWhole ==
  LET buf == Terminated
  IN /\ pc = "loop" /\ n # Len(rbuf)
     /\ rbuf' = buf
     /\ pc' = "wait"
     /\ IF RequestLine(buf) /\ got[n] = Line
          THEN /\ cseq' = ParsedCSeq(buf)
               /\ transport' = ParsedTransport(buf)
               /\ replies' = Append(replies, Reply(buf))
          ELSE UNCHANGED <<cseq, transport, replies>>
     /\ missed' = missed \cup Missed
     /\ UNCHANGED <<clientVars, wire, inbox, edge, n, got, far, gone>>

Handle ==
  LET buf == Terminated
  IN /\ pc = "loop" /\ n # Len(rbuf)
     /\ rbuf' = buf
     /\ pc' = "wait"
     /\ IF RequestLine(buf)
          THEN /\ cseq' = ParsedCSeq(buf)
               /\ transport' = ParsedTransport(buf)
               /\ replies' = Append(replies, Reply(buf))
          ELSE UNCHANGED <<cseq, transport, replies>>
     /\ missed' = missed \cup Missed
     /\ UNCHANGED <<clientVars, wire, inbox, edge, n, got, far, gone>>

HandleRtspRequest == Recv \/ ReadMore \/ Handle

Next == HandleRtspRequest \/ Ask \/ Report \/ Deliver \/ Close

Spec == Init /\ [][Next]_vars

\* The loop comes back to the connection, and TCP delivers.
FairSpec == Spec /\ WF_vars(HandleRtspRequest) /\ WF_vars(Deliver)

-----------------------------------------------------------------------------
(* Properties.                                                             *)

Cells == [kind : {"method", "url", "cseq", "transport", "value", "line", "report", "cut", "nul"},
          req : Nat]

TypeOK ==
  /\ script \in Scripts
  /\ asked \in 0..Len(script)
  /\ reports \in 0..MaxReports
  /\ wire \in Seq(Cells) /\ inbox \in Seq(Cells)
  /\ peer \in {"here", "fin", "rst"}
  /\ edge \in BOOLEAN /\ gone \in BOOLEAN
  /\ pc \in {"wait", "loop"}
  /\ rbuf \in Seq(Cells)
  /\ got \in Seq(Cells)
  /\ n \in 0..Len(rbuf) /\ far \in Nat
  /\ cseq \in Nat /\ transport \in Nat
  /\ replies \in Seq([to : Nat, cseq : Nat, transport : Nat, alone : BOOLEAN])
  /\ missed \subseteq Nat

\* However the stream was cut and however often rbuf_ grew, its first n bytes are
\* what the call has read, in order and without a gap, and n is where they end.
Received ==
  pc = "loop" => /\ n = Len(got)
                 /\ n \in 1..Len(rbuf)
                 /\ \A p \in 1..n : rbuf[p] = got[p]

\* Sockets are edge triggered and handleRtspRequest does not read until there is
\* nothing left: even so, it never leaves data in the socket without another
\* event to come.
NoDataForgotten == pc = "wait" /\ ~gone /\ peer # "rst" /\ inbox # <<>> => edge

(* Which requests the next two are for, beside those TLC is given.          *)

\* The request line is what a request begins with.
OneLine(request) == \A p \in DOMAIN request : request[p] = "method" => p = 1

\* A request with a CSeq, and with a value behind each name of a header, which
\* begins a line.
WellFormed(request) ==
  /\ OneLine(request)
  /\ \E p \in DOMAIN request : request[p] = "cseq"
  /\ \A p \in DOMAIN request : request[p] \in {"cseq", "transport"} =>
       /\ p > 2 /\ request[p - 1] \in {"url", "value", "line"}
       /\ p + 1 \in DOMAIN request /\ request[p + 1] = "value"

\* A request that was read alone is answered with its own CSeq, and handled with
\* its own Transport, whatever was in rbuf_ before it, as long as none of the
\* header lines read before started behind its end.
OwnHeaders ==
  \A k \in DOMAIN replies :
    LET reply == replies[k]
    IN reply.alone =>
         /\ reply.cseq = reply.to
         /\ (\E h \in DOMAIN script[reply.to] : script[reply.to][h] = "transport")
              => reply.transport = reply.to

\* Whatever clients send and however it is cut: an answer is to a request that
\* was asked, once, and in order.
Dialogue == INSTANCE RequestDialogue WITH
  answered <- [k \in DOMAIN replies |-> replies[k].to]

ImplementsDialogue == Dialogue!Spec

\* The call waits for more of a client that has sent all it had.
WaitsInRead == n = Len(rbuf) /\ inbox = <<>> /\ wire = <<>>

\* A request is answered, unless it was read behind something else or without
\* its whole request line, or filled rbuf_ to the last byte.
Answered ==
  \A i \in UNION {DOMAIN s : s \in Scripts} :
    asked >= i ~> \/ \E k \in DOMAIN replies : replies[k].to = i
                  \/ i \in missed
                  \/ WaitsInRead
                  \/ peer = "rst"
=============================================================================
