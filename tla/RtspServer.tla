----------------------------- MODULE RtspServer -----------------------------
(***************************************************************************)
(* The event loop with everything that runs on it: RtspServer accepts, an  *)
(* RtspConnection answers requests, the MediaSession sends when the timer  *)
(* of a track expires, and connections that ended are destroyed by a       *)
(* trigger event between two epoll_waits.                                  *)
(*                                                                         *)
(* All of it is one thread (Scheduler::loop); clients and timers run       *)
(* beside it and may act between any two of its steps.                     *)
(***************************************************************************)
EXTENDS RtspConnection

CONSTANT MayFill    \* TRUE: a recv may fill the buffer of a connection exactly

ASSUME ServerAssumption == MayFill \in BOOLEAN

VARIABLES
  pc,               \* where the loop is: "trigger", "wait", "dispatch", "read"
  reading,          \* in "read": the connection whose read() blocks the loop
  fd2conn           \* fd2conn_ (the entry under -1 a failed accept leaves is inert)

loopVars == <<pc, reading>>
vars == <<clientVars, taken, kernelVars, pollerVars, tracks,
          process, sess, rtp, disconnectVars, loopVars, fd2conn>>

LoopTypeOK ==
  /\ pc \in {"trigger", "wait", "dispatch", "read"}
  /\ reading \in [fd : Fds, first : Nat \ {0}] \cup {None}
  /\ fd2conn \in [Fds -> Clients \cup {None}]

TypeOK == KernelTypeOK /\ PollerTypeOK /\ SessionTypeOK /\ ConnTypeOK /\ LoopTypeOK

Init ==
  /\ KernelInit
  /\ PollerInit
  /\ SessionInit
  /\ ConnInit
  /\ pc = "trigger"
  /\ reading = None
  /\ fd2conn = [fd \in Fds |-> None]

At(place) == process = "up" /\ pc = place

-----------------------------------------------------------------------------
(* Between two epoll_waits: the queue of trigger events.                   *)

Listed == {disconnectList[i] : i \in DOMAIN disconnectList}

\* What assert(fd2conn_.count(clientFd) == 1) requires of every turn of the loop.
ListedOnce ==
  /\ \A i, j \in DOMAIN disconnectList : disconnectList[i] = disconnectList[j] => i = j
  /\ \A fd \in Listed : fd2conn[fd] # None

\* Wrong variant: only the last entry of the list is worked off.
HandleCloseConnectLast ==
  LET fd == disconnectList[Len(disconnectList)]
  IN /\ At("trigger")
     /\ triggers > 0
     /\ triggers' = triggers - 1
     /\ Destroy({fd2conn[fd]}, {fd})
     /\ fd2conn' = [fd2conn EXCEPT ![fd] = None]
     /\ disconnectList' = <<>>
     /\ UNCHANGED <<clientVars, taken, batch, capacity, loopVars, process>>

\* The one trigger there is: destroy every listed connection, clear the list.
HandleCloseConnect ==
  /\ At("trigger")
  /\ triggers > 0
  /\ triggers' = triggers - 1
  /\ IF ListedOnce
       THEN /\ Destroy({fd2conn[fd] : fd \in Listed}, Listed)
            /\ fd2conn' = [fd \in Fds |-> IF fd \in Listed THEN None ELSE fd2conn[fd]]
            /\ disconnectList' = <<>>
            /\ UNCHANGED process
       ELSE /\ process' = "aborted"
            /\ UNCHANGED <<fdUse, interest, ready, fd2event, tracks, sess, rtp,
                           fd2conn, disconnectList>>
  /\ UNCHANGED <<clientVars, taken, batch, capacity, loopVars>>

\* Wrong variant: the loop waits for events before it has run the triggers.
WaitWithTriggers ==
  /\ At("trigger")
  /\ pc' = "wait"
  /\ UNCHANGED <<clientVars, taken, kernelVars, pollerVars, tracks,
                 process, sess, rtp, disconnectVars, reading, fd2conn>>

NoTriggerLeft ==
  /\ At("trigger")
  /\ triggers = 0
  /\ pc' = "wait"
  /\ UNCHANGED <<clientVars, taken, kernelVars, pollerVars, tracks,
                 process, sess, rtp, disconnectVars, reading, fd2conn>>

-----------------------------------------------------------------------------
(* Poll: one epoll_wait, then every event it reported, in any order.       *)

Wait ==
  /\ At("wait")
  /\ EpollWait
  /\ pc' = "dispatch"
  /\ UNCHANGED <<clientVars, taken, fdUse, tracks,
                 process, sess, rtp, disconnectVars, reading, fd2conn>>

Turn ==
  /\ At("dispatch")
  /\ batch = {}
  /\ pc' = "trigger"
  /\ UNCHANGED <<clientVars, taken, kernelVars, pollerVars, tracks,
                 process, sess, rtp, disconnectVars, reading, fd2conn>>

\* One accept per event of the listening socket, however many are waiting.
\* Without a free descriptor accept fails and leaves the backlog alone.
HandleRead ==
  /\ At("dispatch")
  /\ Listen \in batch
  /\ batch' = batch \ {Listen}
  /\ IF FreeFds = {}
       THEN UNCHANGED <<backlog, fdUse, interest, ready, fd2event, fd2conn>>
       ELSE \E fd \in FreeFds :
              /\ backlog' = Tail(backlog)
              /\ fdUse' = [fdUse EXCEPT ![fd] = Head(backlog)]
              /\ AddIOEvent(fd, Head(backlog))
              /\ fd2conn' = [fd2conn EXCEPT ![fd] = Head(backlog)]
  /\ UNCHANGED <<script, peer, sent, full, taken, capacity, tracks,
                 process, sess, rtp, disconnectVars, loopVars>>

\* Wrong variant: an error of recv is not taken for the end of the connection.
RecvErrorIgnored(conn, fd) ==
  /\ ~Unread(conn) \/ peer[conn] = "rst"
  /\ IF peer[conn] = "fin" THEN HandleDisConnect(fd) ELSE UNCHANGED disconnectVars
  /\ UNCHANGED <<taken, fdUse, tracks, process, sess, rtp, loopVars>>

\* recv returns 0 or -1, the latter also when there is nothing to read.
RecvNothing(conn, fd) ==
  /\ ~Unread(conn) \/ peer[conn] = "rst"
  /\ HandleDisConnect(fd)
  /\ UNCHANGED <<taken, fdUse, tracks, process, sess, rtp, loopVars>>

\* recv takes all there is; only the first request of it is handled.
RecvRequest(conn, fd) ==
  /\ Unread(conn)
  /\ taken' = [taken EXCEPT ![conn] = sent[conn]]
  /\ \/ /\ HandleRequest(conn, fd, script[conn][taken[conn] + 1])
        /\ UNCHANGED loopVars
     \/ /\ MayFill
        /\ pc' = "read"
        /\ reading' = [fd |-> fd, first |-> taken[conn] + 1]
        /\ UNCHANGED <<fdUse, tracks, process, sess, rtp, disconnectVars>>

\* An event of a connection: handleRtspRequest.
ReadCallback(fd) ==
  /\ At("dispatch")
  /\ fd \in batch
  /\ fd2event[fd] # None
  /\ batch' = batch \ {fd}
  /\ RecvNothing(fd2event[fd], fd) \/ RecvRequest(fd2event[fd], fd)
  /\ UNCHANGED <<clientVars, interest, ready, fd2event, capacity, fd2conn>>

(* The read() that asks for more after a full buffer.  It has no           *)
(* MSG_DONTWAIT and the socket is blocking: the loop waits here until the  *)
(* client sends or closes.  After an error the connection is not listed.   *)
ReadMore ==
  LET fd   == reading.fd
      conn == fd2conn[fd]
  IN /\ At("read")
     /\ \/ /\ Unread(conn)
           /\ taken' = [taken EXCEPT ![conn] = sent[conn]]
           /\ \/ /\ HandleRequest(conn, fd, script[conn][reading.first])
                 /\ pc' = "dispatch" /\ reading' = None
              \/ UNCHANGED <<fdUse, tracks, process, sess, rtp, disconnectVars, loopVars>>
        \/ /\ ~Unread(conn) /\ peer[conn] = "fin"
           /\ HandleDisConnect(fd)
           /\ pc' = "dispatch" /\ reading' = None
           /\ UNCHANGED <<taken, fdUse, tracks, process, sess, rtp>>
        \/ /\ peer[conn] = "rst"
           /\ pc' = "dispatch" /\ reading' = None
           /\ UNCHANGED <<taken, fdUse, tracks, process, sess, rtp, disconnectVars>>
     /\ UNCHANGED <<clientVars, interest, ready, pollerVars, fd2conn>>

-----------------------------------------------------------------------------
(* Sending: Sink::handleTimeout and MediaSession::handleSessionSend.       *)

\* The RtpConnection of a registered pointer was destroyed with its owner.
Dangling(ptr) == ptr[2] > Len(rtp[ptr[1]])

\* The clients the packets of a track go to over TCP.
TcpReceivers(t) ==
  {ptr[1] : ptr \in {q \in tracks[t] :
     ~Dangling(q) /\ rtp[q[1]][q[2]].alive /\ rtp[q[1]][q[2]].tcp}}

SendOutcomes(t) ==
  IF \E ptr \in tracks[t] : Dangling(ptr)
    THEN {"undefined"}
    ELSE {"up"} \cup UNION {WriteOutcomes(c) : c \in TcpReceivers(t)}

(* The packets of one frame, to every receiver.  Each send waits for room, *)
(* and the loop with it; the last packets may fill buffers again.          *)
SendFrame(t) ==
  /\ TcpReceivers(t) \cap full = {}
  /\ \E filled \in SUBSET {c \in TcpReceivers(t) \cap Slow : peer[c] # "rst"} :
       full' = full \cup filled
  /\ process' \in SendOutcomes(t)

\* Poll takes every descriptor it finds no IOEvent for to be a timer's; for
\* one that is not, it would go through the end() of fd2timer_.
HandleTimeout(h) ==
  /\ At("dispatch")
  /\ h \in batch
  /\ h \in Fds => fd2event[h] = None
  /\ batch' = batch \ {h}
  /\ ready' = ready \ {h}
  /\ IF h \in Tracks THEN SendFrame(h) ELSE process' = "undefined" /\ UNCHANGED full
  /\ UNCHANGED <<script, peer, sent, backlog, taken, fdUse, interest, fd2event, capacity, tracks,
                 sess, rtp, disconnectVars, loopVars, fd2conn>>

-----------------------------------------------------------------------------
(* Scheduler::loop, and what clients and timers do beside it.              *)

LoopNext ==
  \/ HandleCloseConnect
  \/ NoTriggerLeft
  \/ Wait
  \/ Turn
  \/ HandleRead
  \/ \E fd \in Fds : ReadCallback(fd)
  \/ ReadMore
  \/ \E h \in Handles \ {Listen} : HandleTimeout(h)

Beside(A) ==
  /\ process = "up"
  /\ A
  /\ UNCHANGED <<pollerVars, tracks, process, sess, rtp, disconnectVars, loopVars, fd2conn>>

Environment ==
  \/ \E c \in Clients : \/ Beside(Connect(c))
                        \/ Beside(Send(c))
                        \/ Beside(Shut(c))
                        \/ Beside(Abort(c))
                        \/ Beside(Drain(c))
  \/ \E t \in Ticking : Beside(Expire(t))

\* A process that ended stays as it ended.
Ended == process # "up" /\ UNCHANGED vars

Next == LoopNext \/ Environment \/ Ended

Spec == Init /\ [][Next]_vars

\* The operating system keeps running the thread of the loop, and clients read
\* what they are sent.
FairSpec ==
  /\ Spec
  /\ WF_vars(LoopNext)
  /\ \A c \in Clients : WF_vars(Beside(Drain(c)))

-----------------------------------------------------------------------------
(* Properties.                                                             *)

\* In any step the process is up, the assert of handleCloseConnect (every
\* listed descriptor is in fd2conn_ exactly once, RtspServer.cpp:116) would hold
\* if the list were worked off now: no connection is disconnected twice, from
\* a TEARDOWN, a failed recv, or both, before it is destroyed.
DisconnectedOnce == ListedOnce /\ process # "aborted"

\* "The trigger event needs adding only once" (RtspServer.cpp:99): it is queued
\* exactly when connections wait to be destroyed, so none is forgotten and the
\* trigger never runs for an empty list.
TriggerWhenListed == triggers = IF disconnectList = <<>> THEN 0 ELSE 1

\* Poll keeps descriptors, not connections, for the events it has yet to
\* handle: each still belongs to the registered connection the event was for,
\* so that none goes to a newcomer or, through fd2timer_.end(), to nobody.
BatchOwned ==
  \A fd \in batch \cap Fds :
    /\ fd2event[fd] # None
    /\ fd2event[fd] = fd2conn[fd]
    /\ fd \notin Listed

\* Descriptors are accounted for: one in use by a connection is in fd2conn_ with
\* that connection, which no other entry holds, and fd2event_ has no entry
\* whose connection is gone (its callback argument would dangle).
DescriptorsAccounted ==
  \A fd \in Fds :
    /\ fd2conn[fd] = IF fdUse[fd] \in Clients THEN fdUse[fd] ELSE None
    /\ fd2event[fd] \in {fd2conn[fd], None}
    /\ \A other \in Fds : fd2conn[fd] = fd2conn[other] /\ fd2conn[fd] # None => fd = other

(* Which clients the next two are for, beside those TLC is given.          *)

\* The n-th request of a script sets up track t.
SetsUp(s, n, t) == s[n].method = "SETUP" /\ s[n].track = t

\* A script of a player: it asks for the session there is and sets up tracks
\* that exist, none twice, and track 1 only after track 0.
PlaysInOrder(s) ==
  /\ \A i \in DOMAIN s : s[i].method = "OPTIONS" => s[i].name = SessionName
  /\ \A i \in DOMAIN s : s[i].method = "SETUP" => s[i].track \in Tracks \cup {"none"}
  /\ \A i, j \in DOMAIN s, t \in Tracks : SetsUp(s, i, t) /\ SetsUp(s, j, t) => i = j
  /\ \A i \in DOMAIN s : SetsUp(s, i, TrackId1) => \E j \in 1..(i - 1) : SetsUp(s, j, TrackId0)

\* Players that wait for what they asked before they ask on.
OrderlyPlayers == MaxUnread = 1 /\ ~MayFill /\ \A s \in Scripts : PlaysInOrder(s)

\* Of the first n requests of a script, none sets up track 0 or one sets up track 1.
WholeAt(s, n) ==
  (\E i \in 1..n : SetsUp(s, i, TrackId0)) => \E i \in 1..n : SetsUp(s, i, TrackId1)

\* Players that set up both tracks, or none, before they leave; and an interest
\* mask that does not report a connection with nothing to read.
WholePlayers ==
  /\ OrderlyPlayers
  /\ Patient /\ "writable" \notin EventBits
  /\ \A s \in Scripts :
       /\ WholeAt(s, Len(s))
       /\ \A n \in DOMAIN s : s[n].method = "TEARDOWN" => WholeAt(s, n)

\* No track sends to an RtpConnection whose RtspConnection was destroyed.
NoDanglingRtp == \A t \in Tracks : \A ptr \in tracks[t] : ~Dangling(ptr)

\* Every RtpConnection set up for a track of the session stays on that track,
\* whatever other connections come and go, until its own is destroyed.
StaysRegistered ==
  [][\A t \in Tracks : \A ptr \in tracks[t] :
       ~Dangling(ptr) => ptr \in tracks'[t] \/ Dangling(ptr)']_vars

\* A packet or a reply that cannot be sent is logged (MediaSession.cpp:58,
\* SocketHelper.cpp:153) and the server goes on.
SurvivesSend == process # "sigpipe"

\* A request that arrived at an accepted connection is read.
RequestsRead ==
  \A c \in Clients :
    (Unread(c) /\ \E fd \in Fds : fd2conn[fd] = c)
      ~> (~Unread(c) \/ (\A fd \in Fds : fd2conn[fd] # c) \/ process # "up")

\* A connection its client closed is destroyed and its descriptor freed.
Reaped ==
  \A c \in Clients :
    (peer[c] \in {"fin", "rst"} /\ \E fd \in Fds : fd2conn[fd] = c)
      ~> ((\A fd \in Fds : fd2conn[fd] # c) \/ process # "up")

\* A connection in the listen queue is accepted.
Accepted ==
  \A i \in 1..Cardinality(Clients) :
    (\E c \in Clients : peer[c] # "absent" /\ Len(backlog) >= i /\ backlog[i] = c)
      ~> (Len(backlog) < i \/ process # "up")

\* Whatever the requests, the descriptors and the order of events, the server
\* treats connections as ConnLifecycle says (accept, handleDisConnect,
\* handleCloseConnect and ~RtspConnection together).
Lifecycle ==
  INSTANCE ConnLifecycle WITH
    holder  <- fd2conn,
    doomed  <- Listed,
    gone    <- {c \in Clients : /\ peer[c] # "absent"
                                /\ \A fd \in Fds : fd2conn[fd] # c
                                /\ \A i \in DOMAIN backlog : backlog[i] # c},
    running <- (process = "up")

ImplementsLifecycle == Lifecycle!Spec
=============================================================================
