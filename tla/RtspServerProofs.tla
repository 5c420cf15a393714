-------------------------- MODULE RtspServerProofs --------------------------
(***************************************************************************)
(* Proofs about RtspServer, for any number of clients and descriptors, any *)
(* scripts, masks and buffer sizes: the list of connections to destroy is  *)
(* always one handleCloseConnect can work off, its trigger is queued when  *)
(* it has to be, and an event is handled by the connection it was for.     *)
(*                                                                         *)
(* None of the three is inductive.  A handler may list its connection only *)
(* because no listed connection has an event left in the batch, and that   *)
(* holds because a batch starts only when the list is empty; an event has  *)
(* an owner because epoll watches only what fd2conn_ holds; and a newcomer *)
(* cannot take the descriptor of an event in the batch because a watched   *)
(* descriptor is in use.  LoopInv says this.                               *)
(*                                                                         *)
(* For the second half, RtspServer does with connections what              *)
(* ConnLifecycle promises: a client is connected once, on a descriptor of  *)
(* its own, hangs up once, and is released only after it hung up.  LoopInv *)
(* knows what a descriptor is used for, not which clients are where.       *)
(* OnceInv adds that: a client that connected is in one place only,        *)
(* waiting to be accepted or on one descriptor.  With it every step of the *)
(* server is one step of ConnLifecycle or none.                            *)
(***************************************************************************)
EXTENDS RtspServer, TLAPS

LoopTypes ==
  /\ fd2conn \in [Fds -> Clients \cup {None}]
  /\ fd2event \in [Fds -> Clients \cup {None}]
  /\ fdUse \in [Fds -> Clients \cup {Udp, None}]
  /\ interest \in [Handles -> AllEventBits \cup {"disarmed", None}]
  /\ ready \in SUBSET Handles
  /\ batch \in SUBSET Handles
  /\ disconnectList \in Seq(Fds)
  /\ backlog \in Seq(Clients)
  /\ Listen \in ready \cup batch => Len(backlog) >= 1
  /\ Listen \in ready \cap batch => Len(backlog) >= 2
  /\ pc \in {"trigger", "wait", "dispatch", "read"}
  /\ process # "aborted"

\* epoll watches, and reports, only descriptors of connections in fd2conn_.
Watched ==
  /\ \A fd \in Fds : fd2event[fd] = IF interest[fd] = None THEN None ELSE fd2conn[fd]
  /\ \A fd \in Fds : interest[fd] # None => fd2conn[fd] # None
  /\ \A fd \in Fds : fd2conn[fd] = IF fdUse[fd] \in Clients THEN fdUse[fd] ELSE None
  /\ \A fd \in Fds : fd \in ready \cup batch => interest[fd] # None

\* A listed connection is in fd2conn_, is listed once, and has no event left.
ListInv ==
  /\ \A i, j \in DOMAIN disconnectList : disconnectList[i] = disconnectList[j] => i = j
  /\ \A i \in DOMAIN disconnectList : /\ fd2conn[disconnectList[i]] # None
                                      /\ disconnectList[i] \notin batch
  /\ TriggerWhenListed

\* The list is empty when a batch is fetched; what read() blocks in is not listed.
PhaseInv ==
  /\ pc \in {"trigger", "wait"} => batch = {}
  /\ pc = "wait" => disconnectList = <<>>
  /\ pc = "read" => /\ reading.fd \in Fds
                    /\ fd2conn[reading.fd] # None
                    /\ reading.fd \notin batch
                    /\ \A i \in DOMAIN disconnectList : disconnectList[i] # reading.fd

USE DEF At

LoopInv == LoopTypes /\ Watched /\ ListInv /\ PhaseInv

-----------------------------------------------------------------------------
\* What a handler may do to the variables of LoopInv.
LEMMA RequestEffect ==
  ASSUME NEW conn \in Clients, NEW fd \in Fds, NEW req,
         fdUse \in [Fds -> Clients \cup {Udp, None}],
         process = "up",
         HandleRequest(conn, fd, req)
  PROVE  /\ process' # "aborted"
         /\ \/ UNCHANGED disconnectVars
            \/ HandleDisConnect(fd)
         /\ fdUse' \in [Fds -> Clients \cup {Udp, None}]
         /\ \A f \in Fds : fdUse'[f] # fdUse[f] => fdUse[f] = None /\ fdUse'[f] = Udp
<1>1. WriteOutcomes(conn) \subseteq {"up", "sigpipe"}
  BY DEF WriteOutcomes
<1>2. CASE HandleOptions(conn, req)
  BY <1>1, <1>2 DEF HandleOptions, Reply
<1>3. CASE HandleDescribe(conn, req)
  BY <1>1, <1>3 DEF HandleDescribe, Reply
<1>4. CASE HandleSetup(conn, req)
  <2>1. UNCHANGED disconnectVars
    BY <1>4 DEF HandleSetup
  <2>2. ASSUME NEW p1, OpenRtpConnection(conn, req, p1)
        PROVE  process' # "aborted"
    BY <1>1, <2>2 DEF OpenRtpConnection, Reply
  <2>3. CASE req.track = "none" /\ UNCHANGED <<rtp, tracks, fdUse, process>>
    BY <2>1, <2>3
  <2>4. CASE SetupTcp(conn, req)
    BY <2>1, <2>2, <2>4 DEF SetupTcp
  <2>5. CASE SetupUdp(conn, req)
    <3>1. CASE \E fds \in UdpSockets :
                 /\ fdUse' = [f \in Fds |-> IF f \in fds THEN Udp ELSE fdUse[f]]
                 /\ OpenRtpConnection(conn, req, [tcp |-> FALSE, alive |-> FALSE])
      <4>1. PICK fds \in UdpSockets :
                 /\ fdUse' = [f \in Fds |-> IF f \in fds THEN Udp ELSE fdUse[f]]
                 /\ OpenRtpConnection(conn, req, [tcp |-> FALSE, alive |-> FALSE])
        BY <3>1
      <4>2. fds \subseteq FreeFds
        BY DEF UdpSockets
      <4>3. QED
        BY <2>1, <2>2, <4>1, <4>2 DEF FreeFds
    <3>2. CASE process' = "exited" /\ UNCHANGED <<fdUse, rtp, tracks>>
      BY <2>1, <3>2
    <3>3. QED
      BY <2>5, <3>1, <3>2 DEF SetupUdp
  <2>6. QED
    BY <1>4, <2>3, <2>4, <2>5 DEF HandleSetup
<1>5. CASE HandlePlay(conn, req)
  BY <1>1, <1>5 DEF HandlePlay, Reply
<1>6. CASE HandleTeardown(conn, fd, req)
  BY <1>1, <1>6 DEF HandleTeardown, Reply
<1>7. CASE HandleUnknown(req)
  BY <1>7 DEF HandleUnknown
<1>8. QED
  BY <1>2, <1>3, <1>4, <1>5, <1>6, <1>7 DEF HandleRequest

\* Putting a connection whose event was just taken, or that read() was blocked
\* in, on the list keeps the list in order.
LEMMA Listing ==
  ASSUME disconnectList \in Seq(Fds), NEW fd \in Fds,
         fd2conn[fd] # None, fd \notin batch', batch' \subseteq batch,
         \A i \in DOMAIN disconnectList : disconnectList[i] # fd,
         ListInv, UNCHANGED fd2conn, HandleDisConnect(fd)
  PROVE  /\ disconnectList' \in Seq(Fds)
         /\ ListInv'
         /\ \A i \in DOMAIN disconnectList' :
              disconnectList'[i] = fd \/ \E j \in DOMAIN disconnectList :
                                            disconnectList'[i] = disconnectList[j]
<1>1. /\ disconnectList' \in Seq(Fds)
      /\ Len(disconnectList') = Len(disconnectList) + 1
      /\ \A i \in 1..Len(disconnectList) : disconnectList'[i] = disconnectList[i]
      /\ disconnectList'[Len(disconnectList) + 1] = fd
      /\ disconnectList' # <<>>
  BY DEF HandleDisConnect
<1>2. Len(disconnectList) \in Nat /\ DOMAIN disconnectList = 1..Len(disconnectList)
  OBVIOUS
<1>3. DOMAIN disconnectList' = DOMAIN disconnectList \cup {Len(disconnectList) + 1}
  BY <1>1, <1>2
<1>4. \A i, j \in DOMAIN disconnectList' : disconnectList'[i] = disconnectList'[j] => i = j
  BY <1>1, <1>2, <1>3 DEF ListInv
<1>5. \A i \in DOMAIN disconnectList' : /\ fd2conn'[disconnectList'[i]] # None
                                        /\ disconnectList'[i] \notin batch'
  BY <1>1, <1>2, <1>3 DEF ListInv
<1>6. TriggerWhenListed'
  <2>1. (Len(disconnectList) = 0) <=> (disconnectList = <<>>)
    OBVIOUS
  <2>2. QED
    BY <1>1, <2>1 DEF HandleDisConnect, ListInv, TriggerWhenListed
<1>7. QED
  BY <1>1, <1>2, <1>3, <1>4, <1>5, <1>6 DEF ListInv

-----------------------------------------------------------------------------
\* No connection, no event, no trigger.
LEMMA LoopInvInit == Init => LoopInv
<1> SUFFICES ASSUME Init PROVE LoopInv
  OBVIOUS
<1> USE KernelAssumption
<1>1. interest \in [Handles -> AllEventBits \cup {"disarmed", None}]
      /\ \A fd \in Fds : interest[fd] = None
  <2>1. PICK m \in [Handles \ Fds -> (EventBits \ {"writable"}) \cup {"clean"}] :
          interest = [h \in Handles |-> IF h \in Fds THEN None ELSE Mask(m[h])]
    BY DEF Init, PollerInit
  <2>2. Fds \subseteq Handles
    BY DEF Handles
  <2>3. QED
    BY <2>1, <2>2 DEF Mask, AllEventBits
<1>2. disconnectList = <<>> /\ backlog = <<>>
  BY DEF Init, KernelInit, ConnInit
<1>3. LoopTypes
  <2>1. disconnectList \in Seq(Fds) /\ backlog \in Seq(Clients)
    BY <1>2
  <2>2. Listen \notin ready \cup batch
    BY DEF Init, KernelInit, PollerInit
  <2>3. QED
    BY <1>1, <2>1, <2>2 DEF Init, KernelInit, PollerInit, ConnInit, LoopTypes
<1>4. Watched
  BY <1>1, Zenon DEF Init, KernelInit, PollerInit, Watched
<1>5. ListInv
  <2>1. DOMAIN disconnectList = {}
    BY <1>2
  <2>2. QED
    BY <1>2, <2>1 DEF Init, ConnInit, ListInv, TriggerWhenListed
<1>6. PhaseInv
  BY DEF Init, PollerInit, ConnInit, PhaseInv
<1>7. QED
  BY <1>3, <1>4, <1>5, <1>6 DEF LoopInv

\* Clients and timers: they only make descriptors ready that epoll watches.
LEMMA EnvironmentStep ==
  ASSUME LoopInv, Environment
  PROVE  LoopInv'
<1> USE KernelAssumption DEF LoopInv, LoopTypes, Handles
<1> DEFINE Wakes == /\ ready' \in SUBSET Handles
                    /\ \A fd \in Fds : fd \in ready' => fd \in ready \/ interest[fd] # None
                    /\ \/ backlog' = backlog /\ (Listen \in ready' => Listen \in ready)
                       \/ \E c \in Clients : backlog' = Append(backlog, c)
<1>1. UNCHANGED <<fd2conn, fd2event, fdUse, interest, batch, disconnectVars,
                  pc, process, reading>>
  BY DEF Environment, Beside, pollerVars, loopVars, Connect, Send, Shut, Abort, Drain, kernelVars,
         Expire
<1>2. ASSUME NEW c \in Clients, WakeFdOf(c), backlog' = backlog
      PROVE  Wakes
  BY <1>2 DEF WakeFdOf
<1>3. Wakes
  <2>1. ASSUME NEW c \in Clients, Connect(c) PROVE Wakes
    BY <2>1 DEF Connect
  <2>2. ASSUME NEW c \in Clients, Send(c) \/ Shut(c) \/ Abort(c) PROVE Wakes
    BY <1>2, <2>2 DEF Send, Shut, Abort
  <2>3. ASSUME NEW t \in Ticking, Expire(t) PROVE Wakes
    BY <2>3 DEF Expire, clientVars
  <2>4. ASSUME NEW c \in Clients, Drain(c) PROVE Wakes
    BY <2>4 DEF Drain, kernelVars
  <2>5. QED
    BY <2>1, <2>2, <2>3, <2>4 DEF Environment, Beside
<1>4. /\ backlog' \in Seq(Clients)
      /\ Listen \in ready' \cup batch' => Len(backlog') >= 1
      /\ Listen \in ready' \cap batch' => Len(backlog') >= 2
  <2>1. CASE backlog' = backlog /\ (Listen \in ready' => Listen \in ready)
    BY <1>1, <2>1
  <2>2. ASSUME NEW c \in Clients, backlog' = Append(backlog, c)
        PROVE  <1>4
    <3>1. Len(backlog') = Len(backlog) + 1 /\ Len(backlog) \in Nat
      BY <2>2
    <3>2. QED
      BY <1>1, <2>2, <3>1
  <2>3. QED
    BY <1>3, <2>1, <2>2
<1>5. LoopTypes'
  BY <1>1, <1>3, <1>4 DEF disconnectVars
<1>6. Watched'
  BY <1>1, <1>3 DEF Watched
<1>7. ListInv'
  BY <1>1 DEF ListInv, TriggerWhenListed, disconnectVars
<1>8. PhaseInv'
  BY <1>1 DEF PhaseInv, disconnectVars
<1>9. QED
  BY <1>5, <1>6, <1>7, <1>8

\* The trigger event: every listed connection is destroyed and the list emptied.
LEMMA CloseStep ==
  ASSUME LoopInv, HandleCloseConnect
  PROVE  LoopInv'
<1> USE KernelAssumption DEF LoopInv, LoopTypes
<1>1. ListedOnce
  BY DEF ListedOnce, Listed, ListInv
<1>2. /\ Destroy({fd2conn[fd] : fd \in Listed}, Listed)
      /\ fd2conn' = [fd \in Fds |-> IF fd \in Listed THEN None ELSE fd2conn[fd]]
      /\ disconnectList' = <<>>
      /\ triggers' = triggers - 1
      /\ triggers > 0
      /\ UNCHANGED <<process, batch, backlog, pc>>
      /\ pc = "trigger"
  BY <1>1, Zenon DEF HandleCloseConnect, loopVars, clientVars
<1>3. /\ interest' = [h \in Handles |-> IF h \in Listed THEN None ELSE interest[h]]
      /\ fd2event' = [fd \in Fds |-> IF fd \in Listed /\ interest[fd] # None
                                       THEN None ELSE fd2event[fd]]
      /\ ready' = ready \ Listed
      /\ fdUse' = [fd \in Fds |-> IF fd \in Listed THEN None ELSE fdUse[fd]]
  BY <1>2 DEF Destroy, RemoveIOEvent
<1>4. Listed \subseteq Fds /\ Fds \subseteq Handles /\ Listen \notin Listed
  BY DEF Listed, Handles
<1>5. batch = {} /\ batch' = {} /\ DOMAIN disconnectList' = {}
  BY <1>2 DEF PhaseInv
<1>6. disconnectList' \in Seq(Fds)
  BY <1>2
<1>7. LoopTypes'
  BY <1>2, <1>3, <1>4, <1>5, <1>6
<1>8. Watched'
  BY <1>2, <1>3, <1>4, <1>5 DEF Watched
<1>9. ListInv'
  <2>1. triggers = 1
    BY <1>2 DEF ListInv, TriggerWhenListed
  <2>2. QED
    BY <1>2, <1>5, <2>1 DEF ListInv, TriggerWhenListed
<1>10. PhaseInv'
  BY <1>2, <1>5 DEF PhaseInv
<1>11. QED
  BY <1>7, <1>8, <1>9, <1>10

\* The steps that only move on.
LEMMA QuietStep ==
  ASSUME LoopInv, NoTriggerLeft \/ Turn
  PROVE  LoopInv'
<1> USE DEF LoopInv
<1>1. /\ UNCHANGED <<fd2conn, fd2event, fdUse, interest, ready, batch, backlog,
                     disconnectList, triggers, process, reading>>
      /\ \/ pc = "trigger" /\ pc' = "wait" /\ triggers = 0
         \/ pc = "dispatch" /\ pc' = "trigger" /\ batch = {}
  BY DEF NoTriggerLeft, Turn, kernelVars, pollerVars, disconnectVars, clientVars
<1>2. LoopTypes'
  BY <1>1 DEF LoopTypes
<1>3. Watched'
  BY <1>1 DEF Watched
<1>4. ListInv'
  BY <1>1 DEF ListInv, TriggerWhenListed
<1>5. PhaseInv'
  BY <1>1 DEF PhaseInv, ListInv, TriggerWhenListed
<1>6. QED
  BY <1>2, <1>3, <1>4, <1>5

\* epoll_wait reports only what is ready, so only what epoll watches.
LEMMA WaitStep ==
  ASSUME LoopInv, Wait
  PROVE  LoopInv'
<1> USE KernelAssumption DEF LoopInv
<1>1. PICK evs \in SUBSET Reportable :
        batch' = evs /\ ready' = Reportable \ evs /\ interest' = Disarm(evs)
  BY DEF Wait, EpollWait
<1>2. /\ UNCHANGED <<fd2conn, fd2event, fdUse, backlog, disconnectList, triggers,
                     process, reading>>
      /\ pc = "wait" /\ pc' = "dispatch"
  BY DEF Wait, EpollWait, disconnectVars, clientVars
<1>3. /\ Reportable \subseteq ready
      /\ Listen \in Reportable => backlog # <<>>
  BY DEF Reportable, StillReady
<1>4. /\ interest' \in [Handles -> AllEventBits \cup {"disarmed", None}]
      /\ \A h \in Handles : interest'[h] = None <=> interest[h] = None
  <2>1. None \notin {"disarmed", "oneshot"} /\ "oneshot" \in AllEventBits
    BY DEF AllEventBits
  <2>2. QED
    BY <1>1, <2>1 DEF LoopTypes, Disarm
<1>5. Fds \subseteq Handles /\ disconnectList = <<>> /\ DOMAIN disconnectList' = {}
  BY <1>2 DEF Handles, PhaseInv
<1>6. LoopTypes'
  <2>1. Listen \in Reportable => Len(backlog) >= 1
    BY <1>3 DEF LoopTypes
  <2>2. QED
    BY <1>1, <1>2, <1>3, <1>4, <2>1 DEF LoopTypes
<1>7. Watched'
  BY <1>1, <1>2, <1>3, <1>4, <1>5 DEF Watched
<1>8. ListInv'
  BY <1>2, <1>5 DEF ListInv, TriggerWhenListed
<1>9. PhaseInv'
  BY <1>2 DEF PhaseInv
<1>10. QED
  BY <1>6, <1>7, <1>8, <1>9

\* The newcomer gets a free descriptor, which has no event in the batch.
LEMMA AcceptStep ==
  ASSUME LoopInv, HandleRead
  PROVE  LoopInv'
<1> USE KernelAssumption DEF LoopInv
<1>1. /\ batch' = batch \ {Listen} /\ Listen \in batch /\ pc = "dispatch"
      /\ UNCHANGED <<disconnectList, triggers, process, pc, reading>>
  BY DEF HandleRead, disconnectVars, loopVars
<1>2. CASE UNCHANGED <<backlog, fdUse, interest, ready, fd2event, fd2conn>>
  <2>1. LoopTypes'
    BY <1>1, <1>2 DEF LoopTypes
  <2>2. Watched'
    BY <1>1, <1>2 DEF Watched
  <2>3. ListInv'
    BY <1>1, <1>2 DEF ListInv, TriggerWhenListed
  <2>4. PhaseInv'
    BY <1>1, <1>2 DEF PhaseInv
  <2>5. QED
    BY <2>1, <2>2, <2>3, <2>4
<1>3. ASSUME NEW fd \in FreeFds,
             backlog' = Tail(backlog),
             fdUse' = [fdUse EXCEPT ![fd] = Head(backlog)],
             AddIOEvent(fd, Head(backlog)),
             fd2conn' = [fd2conn EXCEPT ![fd] = Head(backlog)]
      PROVE  LoopInv'
  <2> DEFINE conn == Head(backlog)
  <2>1. /\ backlog \in Seq(Clients) /\ Len(backlog) \in Nat /\ Len(backlog) >= 1
        /\ Listen \in ready => Len(backlog) >= 2
    BY <1>1 DEF LoopTypes
  <2>2. /\ conn \in Clients /\ conn # None
        /\ Tail(backlog) \in Seq(Clients) /\ Len(Tail(backlog)) = Len(backlog) - 1
    BY <2>1
  <2>3. /\ fd \in Fds /\ fdUse[fd] = None /\ fd2conn[fd] = None /\ interest[fd] = None
        /\ fd \notin ready \cup batch /\ fd \in Handles /\ fd # Listen
    <3>1. fd \in Fds /\ fdUse[fd] = None /\ None \notin Clients
      BY DEF FreeFds
    <3>2. fd \in Handles /\ fd # Listen
      BY <3>1 DEF Handles
    <3>3. QED
      BY <3>1, <3>2 DEF Watched
  <2>4. \/ UNCHANGED <<interest, ready, fd2event>>
        \/ \E bits \in AllEventBits :
             /\ interest' = [interest EXCEPT ![fd] = bits]
             /\ fd2event' = [fd2event EXCEPT ![fd] = conn]
             /\ ready' \in {ready, ready \cup {fd}}
    BY <1>3 DEF AddIOEvent
  <2>5. /\ interest' \in [Handles -> AllEventBits \cup {"disarmed", None}]
        /\ fd2event' \in [Fds -> Clients \cup {None}]
        /\ ready' \subseteq ready \cup {fd}
        /\ fd \in ready' => interest'[fd] # None
        /\ fd2event'[fd] = IF interest'[fd] = None THEN None ELSE conn
        /\ \A f \in Fds \ {fd} : interest'[f] = interest[f] /\ fd2event'[f] = fd2event[f]
    <3>1. CASE UNCHANGED <<interest, ready, fd2event>>
      BY <2>3, <3>1 DEF LoopTypes, Watched
    <3>2. ASSUME NEW bits \in AllEventBits,
                 interest' = [interest EXCEPT ![fd] = bits],
                 fd2event' = [fd2event EXCEPT ![fd] = conn],
                 ready' \in {ready, ready \cup {fd}}
          PROVE  <2>5
      <4>1. bits # None
        OBVIOUS
      <4>2. Fds \subseteq Handles
        BY DEF Handles
      <4>3. QED
        BY <2>2, <2>3, <3>2, <4>1, <4>2 DEF LoopTypes
    <3>3. QED
      BY <2>4, <3>1, <3>2
  <2>6. /\ fd2conn' \in [Fds -> Clients \cup {None}]
        /\ fdUse' \in [Fds -> Clients \cup {Udp, None}]
        /\ fd2conn'[fd] = conn /\ fdUse'[fd] = conn
        /\ \A f \in Fds \ {fd} : fd2conn'[f] = fd2conn[f] /\ fdUse'[f] = fdUse[f]
    BY <1>3, <2>2, <2>3 DEF LoopTypes
  <2>7. LoopTypes'
    BY <1>1, <1>3, <2>1, <2>2, <2>3, <2>5, <2>6 DEF LoopTypes
  <2>8. Watched'
    BY <1>1, <2>2, <2>3, <2>5, <2>6 DEF Watched
  <2>9. ListInv'
    <3>1. \A i \in DOMAIN disconnectList : disconnectList[i] \in Fds
      BY DEF LoopTypes
    <3>2. QED
      BY <1>1, <2>2, <2>6, <3>1 DEF ListInv, TriggerWhenListed
  <2>10. PhaseInv'
    BY <1>1 DEF PhaseInv
  <2>11. QED
    BY <2>7, <2>8, <2>9, <2>10
<1>4. QED
  BY <1>2, <1>3 DEF HandleRead

\* A handler: it lists at most the connection whose event or read() it serves.
LEMMA HandlerStep ==
  ASSUME LoopInv, NEW fd \in Fds,
         fd2conn[fd] # None, fd \notin batch', batch' \subseteq batch,
         \A i \in DOMAIN disconnectList : disconnectList[i] # fd,
         UNCHANGED disconnectVars \/ HandleDisConnect(fd),
         UNCHANGED <<backlog, interest, ready, fd2event, fd2conn>>,
         fdUse' \in [Fds -> Clients \cup {Udp, None}],
         \A f \in Fds : fdUse'[f] # fdUse[f] => fdUse[f] = None /\ fdUse'[f] = Udp,
         process' # "aborted",
         \/ pc' = "dispatch"
         \/ pc' = "read" /\ reading'.fd = fd /\ UNCHANGED disconnectVars
  PROVE  LoopInv'
<1> USE KernelAssumption DEF LoopInv
<1>1. /\ disconnectList' \in Seq(Fds)
      /\ ListInv'
  <2>1. CASE UNCHANGED disconnectVars
    BY <2>1 DEF LoopTypes, ListInv, TriggerWhenListed, disconnectVars
  <2>2. CASE HandleDisConnect(fd)
    BY <2>2, Listing DEF LoopTypes
  <2>3. QED
    BY <2>1, <2>2
<1>2. LoopTypes'
  BY <1>1 DEF LoopTypes
<1>3. Watched'
  BY DEF Watched, LoopTypes
<1>4. PhaseInv'
  BY DEF PhaseInv, disconnectVars
<1>5. QED
  BY <1>1, <1>2, <1>3, <1>4

\* A readable connection: a request, or the end of the connection.
LEMMA ReadCallbackStep ==
  ASSUME LoopInv, NEW fd \in Fds, ReadCallback(fd)
  PROVE  LoopInv'
<1> DEFINE conn == fd2event[fd]
<1>1. /\ pc = "dispatch" /\ process = "up" /\ fd \in batch /\ batch' = batch \ {fd}
      /\ conn \in Clients /\ fd2conn[fd] # None
      /\ \A i \in DOMAIN disconnectList : disconnectList[i] # fd
      /\ UNCHANGED <<backlog, interest, ready, fd2event, fd2conn>>
  BY DEF ReadCallback, LoopInv, LoopTypes, Watched, ListInv, clientVars
<1>2. fdUse \in [Fds -> Clients \cup {Udp, None}]
  BY DEF LoopInv, LoopTypes
<1>3. CASE RecvNothing(conn, fd)
  BY <1>1, <1>2, <1>3, HandlerStep DEF RecvNothing, loopVars
<1>4. CASE RecvRequest(conn, fd)
  <2> DEFINE req == script[conn][taken[conn] + 1]
  <2>1. CASE HandleRequest(conn, fd, req) /\ UNCHANGED loopVars
    <3>1. /\ process' # "aborted"
          /\ UNCHANGED disconnectVars \/ HandleDisConnect(fd)
          /\ fdUse' \in [Fds -> Clients \cup {Udp, None}]
          /\ \A f \in Fds : fdUse'[f] # fdUse[f] => fdUse[f] = None /\ fdUse'[f] = Udp
      BY <1>1, <1>2, <2>1, RequestEffect
    <3>2. QED
      BY <1>1, <2>1, <3>1, HandlerStep DEF loopVars
  <2>2. CASE /\ pc' = "read" /\ reading' = [fd |-> fd, first |-> taken[conn] + 1]
             /\ UNCHANGED <<fdUse, tracks, process, sess, rtp, disconnectVars>>
    BY <1>1, <1>2, <2>2, HandlerStep
  <2>3. QED
    BY <1>4, <2>1, <2>2 DEF RecvRequest
<1>5. QED
  BY <1>3, <1>4 DEF ReadCallback

\* The second read of a call, which blocked until the client went on.
LEMMA ReadMoreStep ==
  ASSUME LoopInv, ReadMore
  PROVE  LoopInv'
<1> DEFINE fd == reading.fd
           conn == fd2conn[fd]
           req == script[conn][reading.first]
<1>1. /\ pc = "read" /\ process = "up" /\ fd \in Fds /\ conn \in Clients /\ conn # None
      /\ fd \notin batch /\ batch' = batch
      /\ \A i \in DOMAIN disconnectList : disconnectList[i] # fd
      /\ UNCHANGED <<backlog, interest, ready, fd2event, fd2conn>>
  BY DEF ReadMore, LoopInv, LoopTypes, PhaseInv, clientVars, pollerVars
<1>2. fdUse \in [Fds -> Clients \cup {Udp, None}]
  BY DEF LoopInv, LoopTypes
<1>3. CASE HandleRequest(conn, fd, req) /\ pc' = "dispatch"
  <2>1. /\ process' # "aborted"
        /\ UNCHANGED disconnectVars \/ HandleDisConnect(fd)
        /\ fdUse' \in [Fds -> Clients \cup {Udp, None}]
        /\ \A f \in Fds : fdUse'[f] # fdUse[f] => fdUse[f] = None /\ fdUse'[f] = Udp
    BY <1>1, <1>2, <1>3, RequestEffect
  <2>2. QED
    BY <1>1, <1>3, <2>1, HandlerStep
<1>4. CASE UNCHANGED <<fdUse, tracks, process, sess, rtp, disconnectVars, loopVars>>
  BY <1>1, <1>2, <1>4, HandlerStep DEF loopVars
<1>5. CASE HandleDisConnect(fd) /\ pc' = "dispatch" /\ UNCHANGED <<fdUse, process>>
  BY <1>1, <1>2, <1>5, HandlerStep
<1>6. CASE pc' = "dispatch" /\ UNCHANGED <<fdUse, process, disconnectVars>>
  BY <1>1, <1>2, <1>6, HandlerStep
<1>7. QED
  BY <1>3, <1>4, <1>5, <1>6, Zenon DEF ReadMore

\* A timer: packets go out, and nothing of the invariant changes.
LEMMA TimeoutStep ==
  ASSUME LoopInv, NEW h \in Handles, HandleTimeout(h)
  PROVE  LoopInv'
<1> USE DEF LoopInv
<1>1. /\ pc = "dispatch" /\ batch' = batch \ {h} /\ ready' = ready \ {h}
      /\ UNCHANGED <<backlog, fdUse, interest, fd2event, fd2conn, disconnectList,
                     triggers, pc, reading>>
  BY DEF HandleTimeout, clientVars, disconnectVars, loopVars
<1>2. process' # "aborted"
  BY DEF HandleTimeout, SendFrame, SendOutcomes, WriteOutcomes
<1>3. LoopTypes'
  BY <1>1, <1>2 DEF LoopTypes
<1>4. Watched'
  BY <1>1 DEF Watched
<1>5. ListInv'
  BY <1>1 DEF ListInv, TriggerWhenListed
<1>6. PhaseInv'
  BY <1>1 DEF PhaseInv
<1>7. QED
  BY <1>3, <1>4, <1>5, <1>6

-----------------------------------------------------------------------------
\* Whatever clients send and whenever timers expire, a step keeps LoopInv.
LEMMA LoopInvStep ==
  ASSUME LoopInv, [Next]_vars
  PROVE  LoopInv'
<1>1. CASE UNCHANGED vars
  BY <1>1 DEF vars, clientVars, kernelVars, pollerVars, disconnectVars, loopVars,
              LoopInv, LoopTypes, Watched, ListInv, PhaseInv, TriggerWhenListed
<1>2. ASSUME LoopNext PROVE LoopInv'
  <2>1. CASE HandleCloseConnect
    BY <2>1, CloseStep
  <2>2. CASE NoTriggerLeft \/ Turn
    BY <2>2, QuietStep
  <2>3. CASE Wait
    BY <2>3, WaitStep
  <2>4. CASE HandleRead
    BY <2>4, AcceptStep
  <2>5. ASSUME NEW fd \in Fds, ReadCallback(fd) PROVE LoopInv'
    BY <2>5, ReadCallbackStep
  <2>6. CASE ReadMore
    BY <2>6, ReadMoreStep
  <2>7. ASSUME NEW h \in Handles \ {Listen}, HandleTimeout(h) PROVE LoopInv'
    BY <2>7, TimeoutStep
  <2>8. QED
    BY <1>2, <2>1, <2>2, <2>3, <2>4, <2>5, <2>6, <2>7 DEF LoopNext
<1>3. QED
  BY <1>1, <1>2, EnvironmentStep DEF Next, Ended

\* The loop keeps LoopInv.
THEOREM LoopInvariant == Spec => []LoopInv
<1>1. Init => LoopInv
  BY LoopInvInit
<1>2. LoopInv /\ [Next]_vars => LoopInv'
  BY LoopInvStep
<1>3. QED
  BY <1>1, <1>2, PTL DEF Spec

\* No assert of handleCloseConnect fails and no connection is listed twice.
THEOREM DisconnectedOnceHolds == Spec => []DisconnectedOnce
<1>1. LoopInv => DisconnectedOnce
  BY DEF LoopInv, LoopTypes, ListInv, DisconnectedOnce, ListedOnce, Listed
<1>2. QED
  BY <1>1, LoopInvariant, PTL

\* The close trigger is queued exactly when connections wait to be destroyed.
THEOREM TriggerWhenListedHolds == Spec => []TriggerWhenListed
<1>1. LoopInv => TriggerWhenListed
  BY DEF LoopInv, ListInv
<1>2. QED
  BY <1>1, LoopInvariant, PTL

\* Every event still to be handled belongs to a registered connection that is
\* not waiting to be destroyed.
THEOREM BatchOwnedHolds == Spec => []BatchOwned
<1>1. LoopInv => BatchOwned
  BY DEF LoopInv, Watched, ListInv, BatchOwned, Listed
<1>2. QED
  BY <1>1, LoopInvariant, PTL

-----------------------------------------------------------------------------
(* The life of a connection.                                               *)

Peers == {"absent", "here", "fin", "rst"}

Came    == {c \in Clients : peer[c] # "absent"}
Waiting == {backlog[i] : i \in DOMAIN backlog}
Holding == {fd2conn[fd] : fd \in Fds} \ {None}

\* A client is in the listen queue once, or on one descriptor, and only if it came.
OnceInv ==
  /\ peer \in [Clients -> Peers]
  /\ \A i, j \in DOMAIN backlog : backlog[i] = backlog[j] => i = j
  /\ \A fd, other \in Fds : fd2conn[fd] = fd2conn[other] /\ fd2conn[fd] # None => fd = other
  /\ Waiting \subseteq Came
  /\ Holding \subseteq Came \ Waiting

-----------------------------------------------------------------------------
(* What a step does to the places clients can be in.                       *)

Nothing == UNCHANGED <<fd2conn, disconnectList, backlog, Came>>

Arrival(c) ==
  /\ c \notin Came
  /\ Came' = Came \cup {c}
  /\ backlog' = Append(backlog, c)
  /\ UNCHANGED <<fd2conn, disconnectList>>

Acceptance(fd) ==
  /\ fd2conn[fd] = None
  /\ backlog # <<>>
  /\ fd2conn' = [fd2conn EXCEPT ![fd] = Head(backlog)]
  /\ backlog' = Tail(backlog)
  /\ UNCHANGED <<disconnectList, Came>>

HangingUp(fd) ==
  /\ fd2conn[fd] # None
  /\ fd \notin Listed
  /\ disconnectList' = Append(disconnectList, fd)
  /\ UNCHANGED <<fd2conn, backlog, Came>>

Removal ==
  /\ Listed # {}
  /\ fd2conn' = [fd \in Fds |-> IF fd \in Listed THEN None ELSE fd2conn[fd]]
  /\ disconnectList' = <<>>
  /\ UNCHANGED <<backlog, Came>>

Effect ==
  \/ Nothing
  \/ \E c \in Clients : Arrival(c)
  \/ \E fd \in Fds : Acceptance(fd)
  \/ \E fd \in Fds : HangingUp(fd)
  \/ Removal

\* A handler lists at most the connection it runs for.
LEMMA RequestLists ==
  ASSUME LoopInv, NEW fd \in Fds, NEW conn \in Clients, NEW req, process = "up",
         fd2conn[fd] # None, fd \notin Listed,
         HandleRequest(conn, fd, req), UNCHANGED <<fd2conn, clientVars>>
  PROVE  Effect
<1>1. UNCHANGED disconnectVars \/ HandleDisConnect(fd)
  BY RequestEffect DEF LoopInv, LoopTypes
<1>2. QED
  BY <1>1 DEF disconnectVars, HandleDisConnect, clientVars, Effect, Nothing, HangingUp, Came

\* Beside the loop only Connect moves a client, and no client becomes absent.
LEMMA ClientEffect ==
  ASSUME peer \in [Clients -> Peers], Environment
  PROVE  Effect /\ peer' \in [Clients -> Peers]
<1>1. UNCHANGED <<fd2conn, disconnectList>>
  BY DEF Environment, Beside, disconnectVars
<1>2. ASSUME NEW c \in Clients, Connect(c)
      PROVE  Arrival(c) /\ peer' \in [Clients -> Peers]
  BY <1>1, <1>2 DEF Connect, Arrival, Came, Peers
<1>3. ASSUME NEW c \in Clients, Send(c) \/ Shut(c) \/ Abort(c) \/ Drain(c)
      PROVE  Nothing /\ peer' \in [Clients -> Peers]
  BY <1>1, <1>3 DEF Send, Shut, Abort, Drain, Nothing, Came, Peers
<1>4. ASSUME NEW t \in Ticking, Expire(t)
      PROVE  Nothing /\ peer' \in [Clients -> Peers]
  BY <1>1, <1>4 DEF Expire, clientVars, Nothing, Came
<1>5. QED
  BY <1>2, <1>3, <1>4 DEF Environment, Beside, Effect

\* handleCloseConnect removes whoever is listed, and never runs for nobody.
LEMMA CloseRemoves ==
  ASSUME LoopInv, HandleCloseConnect
  PROVE  Removal
<1>1. ListedOnce
  BY DEF LoopInv, ListInv, ListedOnce, Listed
<1>2. /\ fd2conn' = [fd \in Fds |-> IF fd \in Listed THEN None ELSE fd2conn[fd]]
      /\ disconnectList' = <<>>
      /\ triggers > 0
      /\ UNCHANGED <<peer, backlog>>
  BY <1>1, Zenon DEF HandleCloseConnect, clientVars
<1>3. Listed # {}
  <2>1. disconnectList # <<>> /\ disconnectList \in Seq(Fds)
    BY <1>2 DEF LoopInv, LoopTypes, ListInv, TriggerWhenListed
  <2>2. 1 \in DOMAIN disconnectList
    BY <2>1
  <2>3. QED
    BY <2>2 DEF Listed
<1>4. QED
  BY <1>2, <1>3 DEF Removal, Came

\* What each step of the loop does to those places.
LEMMA LoopEffect ==
  ASSUME LoopInv, LoopNext
  PROVE  Effect /\ peer' = peer
<1>1. CASE HandleCloseConnect
  BY <1>1, CloseRemoves DEF HandleCloseConnect, clientVars, Effect
<1>2. CASE NoTriggerLeft \/ Wait \/ Turn
  BY <1>2 DEF NoTriggerLeft, Wait, Turn, clientVars, disconnectVars, Effect, Nothing, Came
<1>3. CASE HandleRead
  <2>1. UNCHANGED <<peer, disconnectList>>
    BY <1>3 DEF HandleRead, disconnectVars
  <2>2. CASE FreeFds = {}
    BY <1>3, <2>1, <2>2 DEF HandleRead, Effect, Nothing, Came
  <2>3. CASE FreeFds # {}
    <3>1. PICK fd \in FreeFds : /\ backlog' = Tail(backlog)
                                /\ fd2conn' = [fd2conn EXCEPT ![fd] = Head(backlog)]
      BY <1>3, <2>3 DEF HandleRead
    <3>2. fd \in Fds /\ fd2conn[fd] = None
      BY KernelAssumption DEF FreeFds, LoopInv, Watched
    <3>3. backlog # <<>>
      BY <1>3 DEF HandleRead, LoopInv, LoopTypes
    <3>4. QED
      BY <2>1, <3>1, <3>2, <3>3 DEF Effect, Acceptance, Came
  <2>4. QED
    BY <2>2, <2>3
<1>4. ASSUME NEW fd \in Fds, ReadCallback(fd)
      PROVE  Effect /\ peer' = peer
  <2> DEFINE conn == fd2event[fd]
  <2>1. /\ process = "up" /\ conn \in Clients /\ fd2conn[fd] # None /\ fd \notin Listed
        /\ UNCHANGED <<fd2conn, clientVars>>
    <3>1. /\ process = "up" /\ fd \in batch /\ conn # None
          /\ UNCHANGED <<fd2conn, clientVars>>
      BY <1>4 DEF ReadCallback, At, clientVars
    <3>2. conn \in Clients /\ fd2conn[fd] # None
      BY <3>1 DEF LoopInv, LoopTypes, Watched
    <3>3. fd \notin Listed
      BY <3>1 DEF LoopInv, ListInv, Listed
    <3>4. QED
      BY <3>1, <3>2, <3>3
  <2>2. CASE RecvNothing(conn, fd)
    BY <2>1, <2>2 DEF RecvNothing, HandleDisConnect, clientVars, Effect, HangingUp, Came
  <2>3. CASE HandleRequest(conn, fd, script[conn][taken[conn] + 1])
    BY <2>1, <2>3, RequestLists DEF clientVars
  <2>4. CASE UNCHANGED disconnectVars
    BY <2>1, <2>4 DEF disconnectVars, clientVars, Effect, Nothing, Came
  <2>5. \/ RecvNothing(conn, fd)
        \/ HandleRequest(conn, fd, script[conn][taken[conn] + 1])
        \/ UNCHANGED disconnectVars
    BY <1>4, Zenon DEF ReadCallback, RecvRequest
  <2>6. peer' = peer
    BY <2>1 DEF clientVars
  <2>7. QED
    BY <2>2, <2>3, <2>4, <2>5, <2>6
<1>5. CASE ReadMore
  <2> DEFINE fd == reading.fd
             conn == fd2conn[fd]
  <2>1. /\ process = "up" /\ fd \in Fds /\ conn \in Clients /\ conn # None
        /\ fd \notin Listed
        /\ UNCHANGED <<fd2conn, clientVars>>
    <3>1. /\ process = "up" /\ pc = "read"
          /\ UNCHANGED <<fd2conn, clientVars>>
      BY <1>5 DEF ReadMore, At, clientVars
    <3>2. fd \in Fds /\ conn \in Clients /\ conn # None /\ fd \notin Listed
      BY <3>1 DEF LoopInv, LoopTypes, PhaseInv, Listed
    <3>3. QED
      BY <3>1, <3>2
  <2>2. CASE HandleRequest(conn, fd, script[conn][reading.first])
    BY <2>1, <2>2, RequestLists DEF clientVars
  <2>3. CASE HandleDisConnect(fd)
    BY <2>1, <2>3 DEF HandleDisConnect, clientVars, Effect, HangingUp, Came
  <2>4. CASE UNCHANGED disconnectVars
    BY <2>1, <2>4 DEF disconnectVars, clientVars, Effect, Nothing, Came
  <2>5. \/ HandleRequest(conn, fd, script[conn][reading.first])
        \/ HandleDisConnect(fd)
        \/ UNCHANGED disconnectVars
    BY <1>5, Zenon DEF ReadMore
  <2>6. peer' = peer
    BY <2>1 DEF clientVars
  <2>7. QED
    BY <2>2, <2>3, <2>4, <2>5, <2>6
<1>6. ASSUME NEW h \in Handles, HandleTimeout(h)
      PROVE  Effect /\ peer' = peer
  BY <1>6 DEF HandleTimeout, disconnectVars, Effect, Nothing, Came
<1>7. QED
  BY <1>1, <1>2, <1>3, <1>4, <1>5, <1>6 DEF LoopNext

\* Every step does to the variables of OnceInv one of the things Effect lists.
LEMMA StepEffect ==
  ASSUME LoopInv, peer \in [Clients -> Peers], [Next]_vars
  PROVE  Effect /\ peer' \in [Clients -> Peers]
<1>1. CASE UNCHANGED vars
  BY <1>1 DEF vars, clientVars, disconnectVars, Effect, Nothing, Came
<1>2. CASE Ended
  BY <1>1, <1>2 DEF Ended
<1>3. QED
  BY <1>1, <1>2, ClientEffect, LoopEffect DEF Next

-----------------------------------------------------------------------------
\* The listen queue without its head.
LEMMA TailOfBacklog ==
  ASSUME backlog \in Seq(Clients), backlog # <<>>
  PROVE  /\ Len(backlog) \in Nat /\ Len(backlog) >= 1
         /\ DOMAIN backlog = 1..Len(backlog)
         /\ DOMAIN Tail(backlog) = 1..(Len(backlog) - 1)
         /\ \A i \in 1..(Len(backlog) - 1) : Tail(backlog)[i] = backlog[i + 1]
         /\ Head(backlog) = backlog[1]
OBVIOUS

\* No client is anywhere.
LEMMA OnceInvInit == Init => OnceInv
<1> SUFFICES ASSUME Init PROVE OnceInv
  OBVIOUS
<1>1. backlog = <<>> /\ peer = [c \in Clients |-> "absent"] /\ fd2conn = [fd \in Fds |-> None]
  BY DEF Init, KernelInit
<1>2. DOMAIN backlog = {}
  BY <1>1
<1>3. QED
  BY <1>1, <1>2 DEF OnceInv, Peers, Came, Waiting, Holding

\* A client moves from one place to another, and none is at two.
LEMMA OnceInvStep ==
  ASSUME LoopInv, OnceInv, [Next]_vars
  PROVE  OnceInv'
<1> USE KernelAssumption
<1>1. Effect /\ peer' \in [Clients -> Peers]
  BY StepEffect DEF OnceInv
<1>2. backlog \in Seq(Clients) /\ fd2conn \in [Fds -> Clients \cup {None}]
  BY DEF LoopInv, LoopTypes
<1>3. CASE Nothing
  BY <1>1, <1>3 DEF Nothing, OnceInv, Waiting, Holding
<1>4. ASSUME NEW c \in Clients, Arrival(c) PROVE OnceInv'
  <2>1. /\ Len(backlog) \in Nat
        /\ DOMAIN backlog = 1..Len(backlog)
        /\ DOMAIN backlog' = 1..(Len(backlog) + 1)
        /\ \A i \in 1..Len(backlog) : backlog'[i] = backlog[i]
        /\ backlog'[Len(backlog) + 1] = c
    BY <1>2, <1>4 DEF Arrival
  <2>2. c \notin Waiting \cup Holding
    BY <1>4 DEF Arrival, OnceInv
  <2>3. \A i, j \in DOMAIN backlog' : backlog'[i] = backlog'[j] => i = j
    BY <2>1, <2>2 DEF OnceInv, Waiting
  <2>4. Waiting' = Waiting \cup {c}
    BY <2>1 DEF Waiting
  <2>5. QED
    BY <1>1, <1>4, <2>2, <2>3, <2>4 DEF Arrival, OnceInv, Holding
<1>5. ASSUME NEW fd \in Fds, Acceptance(fd) PROVE OnceInv'
  <2> DEFINE conn == Head(backlog)
  <2>1. /\ DOMAIN backlog' = 1..(Len(backlog) - 1)
        /\ \A i \in 1..(Len(backlog) - 1) : backlog'[i] = backlog[i + 1]
        /\ DOMAIN backlog = 1..Len(backlog) /\ Len(backlog) \in Nat /\ Len(backlog) >= 1
        /\ conn = backlog[1] /\ conn \in Clients
    BY <1>2, <1>5, TailOfBacklog DEF Acceptance
  <2>2. conn \in Waiting /\ conn \notin Holding /\ conn \in Came
    BY <2>1 DEF OnceInv, Waiting
  <2>3. /\ \A i, j \in DOMAIN backlog' : backlog'[i] = backlog'[j] => i = j
        /\ Waiting' \subseteq Waiting \ {conn}
    <3>1. \A i \in DOMAIN backlog' : /\ i + 1 \in DOMAIN backlog /\ i + 1 # 1
                                     /\ backlog'[i] = backlog[i + 1]
      BY <2>1
    <3>2. 1 \in DOMAIN backlog
      BY <2>1
    <3>3. \A i \in DOMAIN backlog' : backlog'[i] # conn
      BY <2>1, <3>1, <3>2 DEF OnceInv
    <3>4. \A i, j \in DOMAIN backlog' : backlog'[i] = backlog'[j] => i = j
      BY <2>1, <3>1 DEF OnceInv
    <3>5. QED
      BY <3>1, <3>3, <3>4 DEF Waiting
  <2>4. fd2conn'[fd] = conn /\ \A f \in Fds \ {fd} : fd2conn'[f] = fd2conn[f]
    BY <1>2, <1>5 DEF Acceptance
  <2>5. Holding' \subseteq Holding \cup {conn}
    BY <2>4 DEF Holding
  <2>6. \A f, other \in Fds : fd2conn'[f] = fd2conn'[other] /\ fd2conn'[f] # None => f = other
    BY <2>1, <2>2, <2>4 DEF OnceInv, Holding
  <2>7. QED
    BY <1>1, <1>5, <2>2, <2>3, <2>5, <2>6 DEF Acceptance, OnceInv
<1>6. ASSUME NEW fd \in Fds, HangingUp(fd) PROVE OnceInv'
  BY <1>1, <1>6 DEF HangingUp, OnceInv, Waiting, Holding
<1>7. CASE Removal
  <2>1. \A f \in Fds : fd2conn'[f] # None => fd2conn'[f] = fd2conn[f]
    BY <1>7 DEF Removal
  <2>2. Holding' \subseteq Holding
    BY <2>1 DEF Holding
  <2>3. QED
    BY <1>1, <1>7, <2>1, <2>2 DEF Removal, OnceInv, Waiting
<1>8. QED
  BY <1>1, <1>3, <1>4, <1>5, <1>6, <1>7 DEF Effect

\* A client is never in two places.
LEMMA OnceInvariant == Spec => [](LoopInv /\ OnceInv)
<1>1. Init => OnceInv
  BY OnceInvInit
<1>2. LoopInv /\ OnceInv /\ [Next]_vars => OnceInv'
  BY OnceInvStep
<1>3. QED
  BY <1>1, <1>2, LoopInvariant, PTL DEF Spec

\* A descriptor in use by a connection is in fd2conn_ with that connection,
\* which no other descriptor has, and fd2event_ keeps no pointer to another.
THEOREM DescriptorsAccountedHolds == Spec => []DescriptorsAccounted
<1>1. LoopInv /\ OnceInv => DescriptorsAccounted
  BY DEF LoopInv, Watched, OnceInv, DescriptorsAccounted
<1>2. QED
  BY <1>1, OnceInvariant, PTL

-----------------------------------------------------------------------------
(* ConnLifecycle.                                                          *)

Gone == Came \ (Waiting \cup Holding)

\* The clients the refinement calls gone, before and after a step.
LEMMA GoneMapping ==
  /\ Gone = {c \in Clients : /\ peer[c] # "absent"
                             /\ \A fd \in Fds : fd2conn[fd] # c
                             /\ \A i \in DOMAIN backlog : backlog[i] # c}
  /\ Gone' = {c \in Clients : /\ peer'[c] # "absent"
                              /\ \A fd \in Fds : fd2conn'[fd] # c
                              /\ \A i \in DOMAIN backlog' : backlog'[i] # c}
BY KernelAssumption DEF Gone, Came, Waiting, Holding

\* Until a connection is removed no client is gone that was not, nor back.
LEMMA GoneSteps ==
  ASSUME LoopInv, OnceInv
  PROVE  /\ Nothing => Gone' = Gone
         /\ \A c \in Clients : Arrival(c) => Gone' = Gone
         /\ \A fd \in Fds : Acceptance(fd) => Gone' = Gone
         /\ \A fd \in Fds : HangingUp(fd) => Gone' = Gone
         /\ Removal => Gone' = Gone \cup {fd2conn[fd] : fd \in Listed}
<1> USE KernelAssumption
<1>1. backlog \in Seq(Clients) /\ fd2conn \in [Fds -> Clients \cup {None}]
  BY DEF LoopInv, LoopTypes
<1>2. Nothing => Gone' = Gone
  BY DEF Nothing, Gone, Waiting, Holding
<1>3. ASSUME NEW c \in Clients, Arrival(c) PROVE Gone' = Gone
  <2>1. /\ Len(backlog) \in Nat
        /\ DOMAIN backlog = 1..Len(backlog)
        /\ DOMAIN backlog' = 1..(Len(backlog) + 1)
        /\ \A i \in 1..Len(backlog) : backlog'[i] = backlog[i]
        /\ backlog'[Len(backlog) + 1] = c
    BY <1>1, <1>3 DEF Arrival
  <2>2. Waiting' = Waiting \cup {c}
    BY <2>1 DEF Waiting
  <2>3. Holding' = Holding
    BY <1>3 DEF Arrival, Holding
  <2>4. QED
    BY <1>3, <2>2, <2>3 DEF Arrival, Gone
<1>4. ASSUME NEW fd \in Fds, Acceptance(fd) PROVE Gone' = Gone
  <2> DEFINE conn == Head(backlog)
  <2>1. /\ DOMAIN backlog' = 1..(Len(backlog) - 1)
        /\ \A i \in 1..(Len(backlog) - 1) : backlog'[i] = backlog[i + 1]
        /\ DOMAIN backlog = 1..Len(backlog) /\ Len(backlog) \in Nat /\ Len(backlog) >= 1
        /\ conn = backlog[1] /\ conn \in Clients
    BY <1>1, <1>4, TailOfBacklog DEF Acceptance
  <2>2. Waiting' \cup {conn} = Waiting
    <3>1. \A i \in DOMAIN backlog' : i + 1 \in DOMAIN backlog /\ backlog'[i] = backlog[i + 1]
      BY <2>1
    <3>2. \A i \in DOMAIN backlog : i = 1 \/ (i - 1 \in DOMAIN backlog' /\ backlog'[i - 1] = backlog[i])
      BY <2>1
    <3>3. 1 \in DOMAIN backlog
      BY <2>1
    <3>4. QED
      BY <2>1, <3>1, <3>2, <3>3 DEF Waiting
  <2>3. fd2conn'[fd] = conn /\ fd2conn[fd] = None /\ conn # None
        /\ \A f \in Fds \ {fd} : fd2conn'[f] = fd2conn[f]
    BY <1>1, <1>4, <2>1 DEF Acceptance
  <2>4. Holding' = Holding \cup {conn}
    BY <2>3 DEF Holding
  <2>5. Came' = Came
    BY <1>4 DEF Acceptance
  <2>6. QED
    BY <2>2, <2>4, <2>5 DEF Gone
<1>5. ASSUME NEW fd \in Fds, HangingUp(fd) PROVE Gone' = Gone
  BY <1>5 DEF HangingUp, Gone, Waiting, Holding
<1>6. ASSUME Removal PROVE Gone' = Gone \cup {fd2conn[fd] : fd \in Listed}
  <2> DEFINE removed == {fd2conn[fd] : fd \in Listed}
  <2>1. \A f \in Fds : fd2conn'[f] = IF f \in Listed THEN None ELSE fd2conn[f]
    BY <1>6 DEF Removal
  <2>2. Listed \subseteq Fds /\ \A fd \in Listed : fd2conn[fd] # None
    BY DEF Listed, LoopInv, LoopTypes, ListInv
  <2>3. removed \subseteq Holding /\ Holding \subseteq Came \ Waiting
    BY <2>2 DEF Holding, OnceInv
  <2>4. Holding' = Holding \ removed
    <3>1. \A f \in Fds : f \notin Listed /\ fd2conn[f] # None => fd2conn[f] \notin removed
      BY <2>2 DEF OnceInv
    <3>2. QED
      BY <2>1, <3>1 DEF Holding
  <2>5. Came' = Came /\ Waiting' = Waiting
    BY <1>6 DEF Removal, Waiting
  <2>6. QED
    BY <2>3, <2>4, <2>5 DEF Gone
<1>7. QED
  BY <1>2, <1>3, <1>4, <1>5, <1>6

\* The connections on the list, as the list grows and is emptied.
LEMMA ListedSteps ==
  ASSUME LoopInv
  PROVE  /\ disconnectList' = disconnectList => Listed' = Listed
         /\ \A fd \in Fds : disconnectList' = Append(disconnectList, fd)
                            => Listed' = Listed \cup {fd}
         /\ Removal => Listed' = {}
<1>1. disconnectList' = disconnectList => Listed' = Listed
  BY DEF Listed
<1>2. ASSUME NEW fd \in Fds, disconnectList' = Append(disconnectList, fd)
      PROVE  Listed' = Listed \cup {fd}
  <2>1. disconnectList \in Seq(Fds)
    BY DEF LoopInv, LoopTypes
  <2>2. /\ Len(disconnectList) \in Nat
        /\ DOMAIN disconnectList = 1..Len(disconnectList)
        /\ DOMAIN disconnectList' = 1..(Len(disconnectList) + 1)
        /\ \A i \in 1..Len(disconnectList) : disconnectList'[i] = disconnectList[i]
        /\ disconnectList'[Len(disconnectList) + 1] = fd
    BY <1>2, <2>1
  <2>3. QED
    BY <2>2 DEF Listed
<1>3. ASSUME Removal PROVE Listed' = {}
  <2>1. DOMAIN disconnectList' = {}
    BY <1>3 DEF Removal
  <2>2. QED
    BY <2>1 DEF Listed
<1>4. QED
  BY <1>1, <1>2, <1>3

\* The initial states of the server are those of ConnLifecycle.
LEMMA LifecycleInit == Init => Lifecycle!Init
<1> SUFFICES ASSUME Init PROVE Lifecycle!Init
  OBVIOUS
<1>1. /\ disconnectList = <<>> /\ fd2conn = [fd \in Fds |-> None] /\ process = "up"
      /\ peer = [c \in Clients |-> "absent"]
  BY DEF Init, KernelInit, ConnInit
<1>2. Listed = {}
  <2>1. DOMAIN disconnectList = {}
    BY <1>1
  <2>2. QED
    BY <2>1 DEF Listed
<1>3. QED
  BY <1>1, <1>2 DEF Lifecycle!Init

\* A step of the server is a step of ConnLifecycle, or leaves it as it is.
LEMMA LifecycleStep ==
  ASSUME LoopInv, OnceInv, [Next]_vars
  PROVE  [Lifecycle!Next]_(Lifecycle!vars)
<1> USE KernelAssumption
<1> DEFINE running == process = "up"
<1>1. /\ Effect
      /\ fd2conn \in [Fds -> Clients \cup {None}]
      /\ Listed \subseteq Fds
  BY StepEffect DEF OnceInv, LoopInv, LoopTypes, Listed
<1>2. CASE UNCHANGED vars
  <2>1. UNCHANGED <<fd2conn, disconnectList, process, peer, backlog>>
    BY <1>2 DEF vars, clientVars, disconnectVars
  <2>2. UNCHANGED Lifecycle!vars
    BY <2>1 DEF Lifecycle!vars, Listed
  <2>3. QED
    BY <2>2
<1>3. CASE process = "up"
  <2>1. SUFFICES \/ \E fd \in Fds, c \in Clients : Lifecycle!Open(fd, c)
                 \/ \E fd \in Fds : Lifecycle!Hangup(fd)
                 \/ Lifecycle!Release
                 \/ UNCHANGED <<fd2conn, Listed, Gone>>
    BY <1>3, GoneMapping DEF Lifecycle!Next, Gone, Came, Waiting, Holding
  <2>2. CASE Nothing \/ \E c \in Clients : Arrival(c)
    BY <2>2, GoneSteps, ListedSteps DEF Nothing, Arrival
  <2>3. ASSUME NEW fd \in Fds, Acceptance(fd)
        PROVE  \E c \in Clients : Lifecycle!Open(fd, c)
    <3> DEFINE conn == Head(backlog)
    <3>1. conn \in Clients /\ conn \in Waiting
      <4>1. backlog \in Seq(Clients) /\ backlog # <<>>
        BY <2>3 DEF Acceptance, LoopInv, LoopTypes
      <4>2. QED
        BY <4>1, TailOfBacklog DEF Waiting
    <3>2. conn \notin Gone /\ \A other \in Fds : fd2conn[other] # conn
      BY <3>1 DEF Gone, OnceInv, Holding
    <3>3. fd2conn[fd] = None /\ fd2conn' = [fd2conn EXCEPT ![fd] = conn]
      BY <2>3 DEF Acceptance
    <3>4. Gone' = Gone /\ Listed' = Listed
      BY <2>3, GoneSteps, ListedSteps DEF Acceptance
    <3>5. Lifecycle!Open(fd, conn)
      BY <3>1, <3>2, <3>3, <3>4, GoneMapping DEF Lifecycle!Open
    <3>6. QED
      BY <3>1, <3>5
  <2>4. ASSUME NEW fd \in Fds, HangingUp(fd)
        PROVE  Lifecycle!Hangup(fd)
    BY <2>4, GoneSteps, ListedSteps, GoneMapping DEF HangingUp, Lifecycle!Hangup
  <2>5. CASE Removal
    BY <2>5, GoneSteps, ListedSteps, GoneMapping DEF Removal, Lifecycle!Release
  <2>6. QED
    BY <1>1, <2>2, <2>3, <2>4, <2>5 DEF Effect
<1>4. CASE process # "up" /\ Next
  BY <1>2, <1>4 DEF Next, LoopNext, Environment, Beside, Ended, HandleCloseConnect, NoTriggerLeft,
     Wait, Turn, HandleRead, ReadCallback, ReadMore, HandleTimeout, At
<1>5. QED
  BY <1>2, <1>3, <1>4

\* The server implements the safety part of ConnLifecycle.
THEOREM RefinesLifecycle == Spec => Lifecycle!Safety
<1>1. Init => Lifecycle!Init
  BY LifecycleInit
<1>2. LoopInv /\ OnceInv /\ [Next]_vars => [Lifecycle!Next]_(Lifecycle!vars)
  BY LifecycleStep
<1>3. QED
  BY <1>1, <1>2, OnceInvariant, PTL DEF Spec, Lifecycle!Safety
=============================================================================
