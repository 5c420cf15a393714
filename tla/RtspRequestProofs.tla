------------------------- MODULE RtspRequestProofs -------------------------
(***************************************************************************)
(* Every variable of RtspServer keeps its type, whatever clients ask, for  *)
(* any scripts the assumptions allow.  The steps of the loop have their    *)
(* types from LoopInv (RtspServerProofs); what is left is what requests do *)
(* to sessions, RtpConnections and tracks.                                 *)
(***************************************************************************)
EXTENDS RtspServerProofs, SequenceTheorems

Requests == [method : Methods, name : STRING,
             track : Tracks \cup {"bad", "none"}, transport : {"tcp", "udp", "none"}]

Outcomes == {"up", "sigpipe", "segv", "aborted", "exited", "undefined"}

\* A server reads only what was sent, and a client sends only what its script has.
ReadSent ==
  /\ \A c \in Clients : taken[c] <= sent[c] /\ sent[c] <= Len(script[c])
  /\ pc = "read" => /\ reading \in [fd : Fds, first : Nat \ {0}]
                    /\ fd2conn[reading.fd] \in Clients
                       => reading.first <= taken[fd2conn[reading.fd]]

TypeInv == TypeOK /\ ReadSent

\* A request that was sent is one of the script.
LEMMA RequestOf ==
  ASSUME TypeInv, NEW c \in Clients, NEW n \in Nat \ {0}, n <= sent[c]
  PROVE  script[c][n] \in Requests
<1>1. script[c] \in Seq(Requests)
  BY KernelAssumption DEF TypeInv, TypeOK, KernelTypeOK, Requests
<1>2. n \in 1..Len(script[c])
  BY <1>1 DEF TypeInv, TypeOK, KernelTypeOK, ReadSent
<1>3. QED
  BY <1>1, <1>2

\* What a write may make of the process is one of the outcomes.
LEMMA Writing == \A c : WriteOutcomes(c) \subseteq Outcomes
BY DEF WriteOutcomes, Outcomes

\* PLAY makes every RtpConnection of the connection alive, and adds none.
LEMMA Played ==
  ASSUME NEW rtps \in Seq(RtpConn)
  PROVE  LET alive == [i \in DOMAIN rtps |-> [rtps[i] EXCEPT !.alive = TRUE]]
         IN  alive \in Seq(RtpConn) /\ Len(alive) = Len(rtps)
<1> DEFINE alive == [i \in DOMAIN rtps |-> [rtps[i] EXCEPT !.alive = TRUE]]
<1>1. \A i \in DOMAIN rtps : [rtps[i] EXCEPT !.alive = TRUE] \in RtpConn
  <2>1. \A i \in DOMAIN rtps : rtps[i] \in RtpConn
    OBVIOUS
  <2>2. \A r \in RtpConn : [r EXCEPT !.alive = TRUE] \in RtpConn
    BY DEF RtpConn
  <2>3. QED
    BY ONLY <2>1, <2>2
<1>2. DOMAIN rtps = 1..Len(rtps) /\ Len(rtps) \in Nat
  OBVIOUS
<1>3. alive \in Seq(RtpConn)
  BY <1>1, <1>2, SeqDef
<1>4. DOMAIN alive = 1..Len(rtps)
  BY <1>2
<1> HIDE DEF alive
<1>5. Len(alive) = Len(rtps)
  BY <1>2, <1>3, <1>4
<1>6. QED
  BY <1>3, <1>5 DEF alive

\* What a handler changes keeps its type.
LEMMA RequestTypes ==
  ASSUME TypeOK, NEW conn \in Clients, NEW fd \in Fds, NEW req \in Requests,
         HandleRequest(conn, fd, req)
  PROVE  /\ ConnTypeOK' /\ SessionTypeOK'
         /\ fdUse' \in [Fds -> Clients \cup {Udp, None}]
<1>1. /\ sess \in [Clients -> {""} \cup STRING] /\ rtp \in [Clients -> Seq(RtpConn)]
      /\ process \in Outcomes /\ tracks \in [Tracks -> SUBSET Pointers]
      /\ disconnectList \in Seq(Fds) /\ triggers \in Nat
      /\ fdUse \in [Fds -> Clients \cup {Udp, None}]
  BY DEF TypeOK, ConnTypeOK, SessionTypeOK, KernelTypeOK, Outcomes
<1>2. ASSUME Reply(conn) PROVE process' \in Outcomes
  BY <1>2, Writing DEF Reply
<1>3. ASSUME UNCHANGED disconnectVars \/ HandleDisConnect(fd)
      PROVE  disconnectList' \in Seq(Fds) /\ triggers' \in Nat
  <2>1. disconnectList \in Seq(Fds) /\ triggers \in Nat
    BY <1>1
  <2>2. QED
    BY ONLY <1>3, <2>1 DEF disconnectVars, HandleDisConnect
<1>4. ASSUME NEW p1 \in RtpConn, OpenRtpConnection(conn, req, p1)
      PROVE  /\ rtp' \in [Clients -> Seq(RtpConn)]
             /\ tracks' \in [Tracks -> SUBSET Pointers]
             /\ process' \in Outcomes
  <2>0. rtp \in [Clients -> Seq(RtpConn)]
    BY <1>1
  <2>1. rtp' \in [Clients -> Seq(RtpConn)]
    <3>1. rtp' = [rtp EXCEPT ![conn] = Append(@, p1)]
      BY <1>4 DEF OpenRtpConnection
    <3>2. rtp[conn] \in Seq(RtpConn)
      BY <2>0
    <3>3. Append(rtp[conn], p1) \in Seq(RtpConn)
      BY ONLY <3>2, p1 \in RtpConn
    <3>4. QED
      BY ONLY <2>0, <3>1, <3>3
  <2>2. <<conn, Len(rtp[conn]) + 1>> \in Pointers
    <3>1. rtp[conn] \in Seq(RtpConn)
      BY <2>0
    <3>2. Len(rtp[conn]) \in Nat
      BY ONLY <3>1
    <3>3. QED
      BY <3>2 DEF Pointers
  <2>3. tracks' \in [Tracks -> SUBSET Pointers]
    <3> DEFINE ptr == <<conn, Len(rtp[conn]) + 1>>
    <3>1. \/ req.track \in Tracks /\ AddRtpConnection(req.track, ptr)
          \/ UNCHANGED tracks
      BY <1>4, Zenon DEF OpenRtpConnection
    <3> HIDE DEF ptr
    <3>2. tracks \in [Tracks -> SUBSET Pointers] /\ ptr \in Pointers
      BY <1>1, <2>2 DEF ptr
    <3>3. QED
      BY ONLY <3>1, <3>2 DEF AddRtpConnection
  <2>4. process' \in Outcomes
    <3>1. Reply(conn) \/ UNCHANGED process
      BY <1>4, Zenon DEF OpenRtpConnection
    <3>2. QED
      BY <1>1, <1>2, <3>1
  <2>5. QED
    BY <2>1, <2>3, <2>4
<1>5. CASE HandleOptions(conn, req)
  BY <1>1, <1>2, <1>3, <1>5 DEF HandleOptions, Requests, ConnTypeOK, SessionTypeOK, Outcomes
<1>6. CASE HandleDescribe(conn, req)
  BY <1>1, <1>2, <1>3, <1>6 DEF HandleDescribe, ConnTypeOK, SessionTypeOK, Outcomes
<1>7. CASE HandleSetup(conn, req)
  <2>1. UNCHANGED <<sess, disconnectVars>>
    BY <1>7 DEF HandleSetup
  <2>2. [tcp |-> TRUE, alive |-> FALSE] \in RtpConn /\ [tcp |-> FALSE, alive |-> FALSE] \in RtpConn
    BY DEF RtpConn
  <2>3. /\ rtp' \in [Clients -> Seq(RtpConn)]
        /\ tracks' \in [Tracks -> SUBSET Pointers]
        /\ process' \in Outcomes
        /\ fdUse' \in [Fds -> Clients \cup {Udp, None}]
    <3>1. CASE UNCHANGED <<rtp, tracks, fdUse, process>>
      BY <1>1, <3>1
    <3>2. CASE SetupTcp(conn, req)
      BY <1>1, <1>4, <2>2, <3>2 DEF SetupTcp
    <3>3. CASE SetupUdp(conn, req)
      BY <1>1, <1>4, <2>2, <3>3 DEF SetupUdp, Outcomes
    <3>4. QED
      BY <1>7, <3>1, <3>2, <3>3 DEF HandleSetup
  <2>4. QED
    BY <1>1, <1>3, <2>1, <2>3 DEF ConnTypeOK, SessionTypeOK, Outcomes
<1>8. CASE HandlePlay(conn, req)
  <2>1. [i \in DOMAIN rtp[conn] |-> [rtp[conn][i] EXCEPT !.alive = TRUE]] \in Seq(RtpConn)
    BY <1>1, Played
  <2>2. rtp' \in [Clients -> Seq(RtpConn)]
    BY <1>1, <1>8, <2>1 DEF HandlePlay
  <2>3. QED
    BY <1>1, <1>2, <1>3, <1>8, <2>2 DEF HandlePlay, ConnTypeOK, SessionTypeOK, Outcomes
<1>9. CASE HandleTeardown(conn, fd, req)
  BY <1>1, <1>2, <1>3, <1>9 DEF HandleTeardown, ConnTypeOK, SessionTypeOK, Outcomes
<1>10. CASE HandleUnknown(req)
  BY <1>1, <1>3, <1>10 DEF HandleUnknown, ConnTypeOK, SessionTypeOK, Outcomes
<1>11. QED
  BY <1>5, <1>6, <1>7, <1>8, <1>9, <1>10 DEF HandleRequest

\* The types hold at first.
LEMMA TypeInvInit == Init => TypeInv
<1> SUFFICES ASSUME Init PROVE TypeInv
  OBVIOUS
<1> USE KernelAssumption, PollerAssumption
<1>1. KernelTypeOK
  <2>1. interest \in [Handles -> AllEventBits \cup {"disarmed", None}]
    BY LoopInvInit DEF LoopInv, LoopTypes
  <2>2. backlog \in Seq(Clients)
    BY LoopInvInit DEF LoopInv, LoopTypes
  <2>3. QED
    BY <2>1, <2>2 DEF Init, KernelInit, KernelTypeOK
<1>2. PollerTypeOK /\ SessionTypeOK /\ LoopTypeOK
  BY DEF Init, PollerInit, SessionInit, PollerTypeOK, SessionTypeOK, LoopTypeOK
<1>3. ConnTypeOK
  <2>1. disconnectList \in Seq(Fds) /\ <<>> \in Seq(RtpConn)
    BY EmptySeq DEF Init, ConnInit
  <2>2. rtp \in [Clients -> Seq(RtpConn)]
    BY <2>1 DEF Init, ConnInit
  <2>3. sess \in [Clients -> {""} \cup STRING]
    BY DEF Init, ConnInit
  <2>4. process = "up" /\ triggers = 0
    BY DEF Init, ConnInit
  <2>5. QED
    BY <2>1, <2>2, <2>3, <2>4 DEF ConnTypeOK
<1>4. ReadSent
  <2>1. \A c \in Clients : Len(script[c]) \in Nat
    <3>1. ASSUME NEW c \in Clients PROVE Len(script[c]) \in Nat
      <4>1. script[c] \in Seq(Requests)
        BY DEF Init, KernelInit, Requests
      <4>2. QED
        BY <4>1
    <3>2. QED
      BY <3>1
  <2>2. QED
    BY <2>1 DEF Init, KernelInit, ReadSent
<1>5. QED
  BY <1>1, <1>2, <1>3, <1>4 DEF TypeInv, TypeOK

\* Clients send no more than their script, and the timers only wake the loop.
LEMMA TypeInvEnvironment ==
  ASSUME TypeInv, Environment
  PROVE  TypeInv'
<1> USE KernelAssumption
<1>1. UNCHANGED <<pollerVars, tracks, process, sess, rtp, disconnectVars, loopVars, fd2conn>>
  BY DEF Environment, Beside
<1>2. /\ script' = script /\ taken' = taken /\ fdUse' = fdUse /\ interest' = interest
  BY DEF Environment, Beside, Connect, Send, Shut, Abort, Drain, Expire, clientVars, kernelVars
<1>3. /\ peer' \in [Clients -> Peers] /\ backlog' \in Seq(Clients)
      /\ full' \subseteq Slow /\ ready' \in SUBSET Handles
  <2>1. /\ peer \in [Clients -> Peers] /\ backlog \in Seq(Clients)
        /\ full \subseteq Slow /\ ready \in SUBSET Handles
    BY DEF TypeInv, TypeOK, KernelTypeOK, Peers
  <2>2. Fds \subseteq Handles /\ Listen \in Handles /\ Ticking \subseteq Handles
    BY DEF Handles
  <2>3. ASSUME NEW c \in Clients, Connect(c) PROVE <1>3
    BY <2>1, <2>2, <2>3 DEF Connect, Peers
  <2>4. ASSUME NEW c \in Clients, Send(c) \/ Shut(c) \/ Abort(c) PROVE <1>3
    BY <2>1, <2>2, <2>4 DEF Send, Shut, Abort, WakeFdOf, Peers
  <2>5. ASSUME NEW c \in Clients, Drain(c) PROVE <1>3
    BY <2>1, <2>5 DEF Drain, kernelVars
  <2>6. ASSUME NEW t \in Ticking, Expire(t) PROVE <1>3
    BY <2>1, <2>2, <2>6 DEF Expire, clientVars
  <2>7. QED
    BY <2>3, <2>4, <2>5, <2>6 DEF Environment, Beside
<1>4. /\ sent' \in [Clients -> Nat]
      /\ \A c \in Clients : sent[c] <= sent'[c] /\ sent'[c] <= Len(script[c])
  <2>1. /\ sent \in [Clients -> Nat] /\ taken \in [Clients -> Nat]
        /\ \A c \in Clients : sent[c] <= Len(script[c])
    BY DEF TypeInv, TypeOK, KernelTypeOK, ReadSent
  <2>2. \A c \in Clients : Len(script[c]) \in Nat
    <3>1. ASSUME NEW c \in Clients PROVE Len(script[c]) \in Nat
      <4>1. script[c] \in Seq(Requests)
        BY DEF TypeInv, TypeOK, KernelTypeOK, Requests
      <4>2. QED
        BY <4>1
    <3>2. QED
      BY <3>1
  <2>3. ASSUME NEW c \in Clients, Send(c) PROVE <1>4
    BY <2>1, <2>2, <2>3 DEF Send
  <2>4. CASE sent' = sent
    BY <2>1, <2>2, <2>4
  <2>5. QED
    BY <2>3, <2>4 DEF Environment, Beside, Connect, Shut, Abort, Drain, Expire, clientVars
<1>5. TypeOK'
  BY <1>1, <1>2, <1>3, <1>4 DEF TypeInv, TypeOK, KernelTypeOK, PollerTypeOK, SessionTypeOK,
     ConnTypeOK, LoopTypeOK, pollerVars, disconnectVars, loopVars, Peers
<1>6. ReadSent'
  <2>1. /\ sent \in [Clients -> Nat] /\ taken \in [Clients -> Nat]
    BY DEF TypeInv, TypeOK, KernelTypeOK
  <2>2. QED
    BY <1>1, <1>2, <1>4, <2>1 DEF TypeInv, ReadSent, loopVars
<1>7. QED
  BY <1>5, <1>6 DEF TypeInv

\* What TypeOK says that LoopInv does not.
RestTypes ==
  /\ script \in [Clients -> Scripts]
  /\ peer \in [Clients -> Peers]
  /\ sent \in [Clients -> Nat]
  /\ taken \in [Clients -> Nat]
  /\ full \subseteq Slow
  /\ capacity \in Nat \ {0}
  /\ SessionTypeOK
  /\ process \in Outcomes
  /\ sess \in [Clients -> {""} \cup STRING]
  /\ rtp \in [Clients -> Seq(RtpConn)]
  /\ triggers \in Nat
  /\ reading \in [fd : Fds, first : Nat \ {0}] \cup {None}

\* TypeOK is what LoopInv has of it already, and the rest.
LEMMA TypesSplit ==
  /\ LoopInv => (TypeOK <=> RestTypes)
  /\ LoopInv' => (TypeOK' <=> RestTypes')
BY DEF LoopInv, LoopTypes, RestTypes, TypeOK, KernelTypeOK, PollerTypeOK, ConnTypeOK,
       LoopTypeOK, Peers, Outcomes

\* A handler keeps TypeInv: it runs for a client whose request was taken.
LEMMA HandlerTypes ==
  ASSUME LoopInv, LoopInv', TypeInv, NEW fd \in Fds, NEW first \in Nat \ {0},
         LET conn == fd2conn[fd]
         IN /\ conn # None
            /\ first <= sent[conn]
            /\ HandleRequest(conn, fd, script[conn][first]) \/ UNCHANGED <<tracks, process, sess, rtp, disconnectVars>>
            /\ taken' = [taken EXCEPT ![conn] = sent[conn]],
         \/ UNCHANGED reading
         \/ reading' = None /\ pc' = "dispatch"
         \/ reading' = [fd |-> fd, first |-> first],
         pc' = "read" => pc = "read" \/ reading' = [fd |-> fd, first |-> first],
         UNCHANGED <<script, peer, sent, full, capacity, fd2conn>>
  PROVE  TypeInv'
<1> DEFINE conn == fd2conn[fd]
<1>1. conn \in Clients /\ RestTypes
  BY TypesSplit DEF LoopInv, LoopTypes, TypeInv
<1>2. /\ SessionTypeOK'
      /\ process' \in Outcomes
      /\ sess' \in [Clients -> {""} \cup STRING]
      /\ rtp' \in [Clients -> Seq(RtpConn)]
      /\ triggers' \in Nat
  <2>1. CASE HandleRequest(conn, fd, script[conn][first])
    <3>1. script[conn][first] \in Requests
      BY <1>1, RequestOf
    <3>2. ConnTypeOK' /\ SessionTypeOK'
      BY <1>1, <2>1, <3>1, RequestTypes DEF TypeInv
    <3>3. QED
      BY <3>2 DEF ConnTypeOK, Outcomes
  <2>2. CASE UNCHANGED <<tracks, process, sess, rtp, disconnectVars>>
    BY <1>1, <2>2 DEF RestTypes, SessionTypeOK, disconnectVars
  <2>3. QED
    BY <2>1, <2>2
<1>3. /\ taken' \in [Clients -> Nat]
      /\ \A c \in Clients : taken[c] <= taken'[c] /\ taken'[c] <= sent[c]
      /\ first <= taken'[conn]
  <2>1. /\ taken \in [Clients -> Nat] /\ sent \in [Clients -> Nat]
        /\ \A c \in Clients : taken[c] <= sent[c]
    BY <1>1 DEF RestTypes, TypeInv, ReadSent
  <2>2. QED
    BY <1>1, <2>1
<1>4. RestTypes'
  <2>1. reading' \in [fd : Fds, first : Nat \ {0}] \cup {None}
    <3>1. [fd |-> fd, first |-> first] \in [fd : Fds, first : Nat \ {0}]
      OBVIOUS
    <3>2. reading \in [fd : Fds, first : Nat \ {0}] \cup {None}
      BY <1>1 DEF RestTypes
    <3>3. reading' \in {reading, None, [fd |-> fd, first |-> first]}
      OBVIOUS
    <3>4. QED
      BY ONLY <3>1, <3>2, <3>3
  <2>2. QED
    BY <1>1, <1>2, <1>3, <2>1 DEF RestTypes
<1>5. ReadSent'
  <2>1. /\ taken \in [Clients -> Nat] /\ sent \in [Clients -> Nat]
        /\ fd2conn' = fd2conn
    BY <1>1 DEF RestTypes
  <2>2. \A c \in Clients : taken'[c] <= sent'[c] /\ sent'[c] <= Len(script'[c])
    BY <1>3 DEF TypeInv, ReadSent
  <2>3. ASSUME pc' = "read"
        PROVE  /\ reading' \in [fd : Fds, first : Nat \ {0}]
               /\ fd2conn'[reading'.fd] \in Clients
                  => reading'.first <= taken'[fd2conn'[reading'.fd]]
    <3>1. CASE reading' = [fd |-> fd, first |-> first]
      BY <1>3, <2>1, <3>1
    <3>2. CASE pc = "read" /\ reading' = reading
      <4>1. /\ reading \in [fd : Fds, first : Nat \ {0}]
            /\ fd2conn[reading.fd] \in Clients => reading.first <= taken[fd2conn[reading.fd]]
        BY <1>1, <3>2 DEF TypeInv, ReadSent, RestTypes
      <4>2. QED
        BY <1>3, <2>1, <3>2, <4>1
    <3>3. QED
      BY <2>3, <3>1, <3>2
  <2>4. QED
    BY <2>2, <2>3 DEF ReadSent
<1>6. QED
  BY <1>4, <1>5, TypesSplit DEF TypeInv

\* A step of the loop that handles no request.
LEMMA OtherTypes ==
  ASSUME LoopInv, LoopInv', TypeInv, pc' # "read",
         UNCHANGED <<script, peer, sent, taken, reading>>,
         full' \subseteq Slow, capacity' \in Nat \ {0}, process' \in Outcomes,
         triggers' \in Nat, SessionTypeOK',
         sess' \in [Clients -> {""} \cup STRING],
         rtp' \in [Clients -> Seq(RtpConn)]
  PROVE  TypeInv'
<1>1. RestTypes'
  BY TypesSplit DEF RestTypes, TypeInv
<1>2. ReadSent'
  BY DEF TypeInv, ReadSent
<1>3. QED
  BY <1>1, <1>2, TypesSplit DEF TypeInv

\* The steps of the loop keep the types.
LEMMA TypeInvLoop ==
  ASSUME LoopInv, TypeInv, LoopNext
  PROVE  TypeInv'
<1>1. LoopInv' /\ RestTypes
  BY LoopInvStep, TypesSplit DEF Next, TypeInv
<1>2. /\ full \subseteq Slow /\ capacity \in Nat \ {0} /\ process \in Outcomes
      /\ triggers \in Nat /\ tracks \in [Tracks -> SUBSET Pointers]
      /\ sess \in [Clients -> {""} \cup STRING]
      /\ rtp \in [Clients -> Seq(RtpConn)]
  BY <1>1 DEF RestTypes, SessionTypeOK
<1>3. CASE HandleCloseConnect
  <2>1. /\ pc' = "trigger" /\ triggers' = triggers - 1 /\ triggers > 0
        /\ UNCHANGED <<script, peer, sent, taken, reading, full, capacity>>
    BY <1>3 DEF HandleCloseConnect, At, clientVars, loopVars
  <2>0. triggers' \in Nat
    <3>1. triggers \in Nat
      BY <1>2
    <3>2. QED
      BY ONLY <2>1, <3>1
  <2>2. CASE ListedOnce
    <3>1. Destroy({fd2conn[fd] : fd \in Listed}, Listed) /\ process' = process
      BY <1>3, <2>2, Zenon DEF HandleCloseConnect
    <3>2. sess' \in [Clients -> {""} \cup STRING]
      BY <1>2, <3>1 DEF Destroy
    <3>3. rtp' \in [Clients -> Seq(RtpConn)]
      BY <1>2, <3>1, EmptySeq DEF Destroy
    <3>4. tracks' \in [Tracks -> SUBSET Pointers]
      <4>1. RemoveSessionOf({fd2conn[fd] : fd \in Listed})
        BY <3>1 DEF Destroy
      <4>2. \E ptrs0, ptrs1 : RemoveRtpConnections(ptrs0, ptrs1)
        BY <4>1 DEF RemoveSessionOf
      <4>3. QED
        BY <1>2, <4>2, SessionAssumption DEF RemoveRtpConnections
    <3>5. QED
      <4>1. SessionTypeOK' /\ process' \in Outcomes
        BY <1>2, <3>1, <3>4 DEF SessionTypeOK
      <4>2. QED
        BY <1>1, <1>2, <2>0, <2>1, <3>2, <3>3, <4>1, OtherTypes
  <2>3. CASE ~ListedOnce
    <3>1. process' = "aborted" /\ UNCHANGED <<tracks, sess, rtp>>
      BY <1>3, <2>3, Zenon DEF HandleCloseConnect
    <3>2. QED
      <4>1. /\ SessionTypeOK' /\ process' \in Outcomes
            /\ sess' \in [Clients -> {""} \cup STRING]
            /\ rtp' \in [Clients -> Seq(RtpConn)]
        BY <1>2, <3>1 DEF SessionTypeOK, Outcomes
      <4>2. QED
        BY <1>1, <1>2, <2>0, <2>1, <4>1, OtherTypes
  <2>4. QED
    BY <2>2, <2>3
<1>4. CASE NoTriggerLeft \/ Turn
  BY <1>1, <1>2, <1>4, OtherTypes
     DEF NoTriggerLeft, Turn, clientVars, pollerVars, disconnectVars, SessionTypeOK
<1>5. CASE Wait
  <2>1. capacity' \in Nat \ {0}
    <3>1. capacity' = capacity \/ capacity' = 2 * capacity
      BY <1>5 DEF Wait, EpollWait
    <3>2. capacity \in Nat \ {0}
      BY <1>2
    <3>3. QED
      BY ONLY <3>1, <3>2
  <2>2. QED
    BY <1>1, <1>2, <1>5, <2>1, OtherTypes DEF Wait, clientVars, disconnectVars, SessionTypeOK
<1>6. CASE HandleRead
  BY <1>1, <1>2, <1>6, OtherTypes DEF HandleRead, At, disconnectVars, loopVars, SessionTypeOK
<1>7. ASSUME NEW h \in Handles, HandleTimeout(h) PROVE TypeInv'
  <2>1. full' \subseteq Slow
    BY <1>2, <1>7 DEF HandleTimeout, SendFrame
  <2>2. process' \in Outcomes
    <3>1. CASE h \in Tracks
      <4>1. SendOutcomes(h) \subseteq Outcomes
        BY Writing DEF SendOutcomes, Outcomes
      <4>2. process' \in SendOutcomes(h)
        BY <1>7, <3>1 DEF HandleTimeout, SendFrame
      <4>3. QED
        BY <4>1, <4>2
    <3>2. CASE h \notin Tracks
      BY <1>7, <3>2 DEF HandleTimeout, Outcomes
    <3>3. QED
      BY <3>1, <3>2
  <2>3. QED
    BY <1>1, <1>2, <1>7, <2>1, <2>2, OtherTypes
       DEF HandleTimeout, At, disconnectVars, loopVars, SessionTypeOK
<1>8. ASSUME NEW fd \in Fds, ReadCallback(fd) PROVE TypeInv'
  <2> DEFINE conn == fd2conn[fd]
             first == taken[conn] + 1
  <2>1. /\ fd \in batch /\ pc = "dispatch" /\ fd2event[fd] # None
        /\ UNCHANGED <<script, peer, sent, full, capacity, fd2conn>>
    BY <1>8 DEF ReadCallback, At, clientVars
  <2>2. fd2event[fd] = conn /\ conn # None /\ conn \in Clients
    BY <2>1 DEF LoopInv, LoopTypes, Watched
  <2>3. taken[conn] \in Nat /\ sent[conn] \in Nat
    BY <1>1, <2>2 DEF RestTypes
  <2>4. CASE RecvNothing(conn, fd)
    <3>1. /\ UNCHANGED <<taken, tracks, process, sess, rtp, loopVars>>
          /\ triggers' = triggers \/ triggers' = triggers + 1
      BY <2>4 DEF RecvNothing, HandleDisConnect
    <3>2. triggers' \in Nat
      <4>1. triggers \in Nat
        BY <1>2
      <4>2. QED
        BY ONLY <3>1, <4>1
    <3>3. QED
      BY <1>1, <1>2, <2>1, <3>1, <3>2, OtherTypes DEF loopVars, SessionTypeOK
  <2>5. CASE RecvRequest(conn, fd)
    <3>1. /\ Unread(conn)
          /\ taken' = [taken EXCEPT ![conn] = sent[conn]]
          /\ \/ HandleRequest(conn, fd, script[conn][first]) /\ UNCHANGED loopVars
             \/ /\ pc' = "read" /\ reading' = [fd |-> fd, first |-> first]
                /\ UNCHANGED <<fdUse, tracks, process, sess, rtp, disconnectVars>>
      BY <2>5, Zenon DEF RecvRequest
    <3>2. first \in Nat \ {0} /\ first <= sent[conn]
      BY <2>3, <3>1 DEF Unread
    <3>3. HandleRequest(conn, fd, script[conn][first])
          \/ UNCHANGED <<tracks, process, sess, rtp, disconnectVars>>
      BY <3>1
    <3>4. /\ UNCHANGED reading \/ reading' = [fd |-> fd, first |-> first]
          /\ pc' = "read" => reading' = [fd |-> fd, first |-> first]
      BY <2>1, <3>1 DEF loopVars
    <3>5. QED
      BY <1>1, <2>1, <2>2, <3>1, <3>2, <3>3, <3>4, HandlerTypes
  <2>6. QED
    BY <1>8, <2>2, <2>4, <2>5 DEF ReadCallback
<1>9. CASE ReadMore
  <2> DEFINE fd == reading.fd
             conn == fd2conn[fd]
             first == reading.first
  <2>1. /\ pc = "read"
        /\ UNCHANGED <<script, peer, sent, full, capacity, fd2conn>>
    BY <1>9 DEF ReadMore, At, clientVars, pollerVars
  <2>2. /\ reading \in [fd : Fds, first : Nat \ {0}]
        /\ conn # None /\ conn \in Clients
        /\ first <= taken[conn] /\ taken[conn] <= sent[conn]
    BY <2>1 DEF LoopInv, LoopTypes, PhaseInv, TypeInv, ReadSent
  <2>3. first \in Nat \ {0} /\ fd \in Fds /\ first <= sent[conn]
    <3>1. taken[conn] \in Nat /\ sent[conn] \in Nat
      BY <1>1, <2>2 DEF RestTypes
    <3>2. QED
      BY <2>2, <3>1
  <2>4. \/ /\ taken' = [taken EXCEPT ![conn] = sent[conn]]
           /\ \/ HandleRequest(conn, fd, script[conn][first]) /\ pc' = "dispatch" /\ reading' = None
              \/ UNCHANGED <<tracks, process, sess, rtp, disconnectVars, loopVars>>
        \/ /\ HandleDisConnect(fd) \/ UNCHANGED disconnectVars
           /\ pc' = "dispatch" /\ reading' = None
           /\ UNCHANGED <<taken, tracks, process, sess, rtp>>
    BY <1>9 DEF ReadMore
  <2>5. CASE /\ taken' = [taken EXCEPT ![conn] = sent[conn]]
             /\ HandleRequest(conn, fd, script[conn][first]) /\ pc' = "dispatch" /\ reading' = None
    BY <1>1, <2>1, <2>2, <2>3, <2>5, HandlerTypes
  <2>6. CASE /\ taken' = [taken EXCEPT ![conn] = sent[conn]]
             /\ UNCHANGED <<tracks, process, sess, rtp, disconnectVars, loopVars>>
    BY <1>1, <2>1, <2>2, <2>3, <2>6, HandlerTypes DEF loopVars
  <2>7. CASE /\ HandleDisConnect(fd) \/ UNCHANGED disconnectVars
             /\ pc' = "dispatch" /\ reading' = None
             /\ UNCHANGED <<taken, tracks, process, sess, rtp>>
    <3>1. triggers' \in Nat
      <4>1. triggers' = triggers \/ triggers' = triggers + 1
        BY <2>7 DEF HandleDisConnect, disconnectVars
      <4>2. triggers \in Nat
        BY <1>2
      <4>3. QED
        BY ONLY <4>1, <4>2
    <3>2. RestTypes'
      BY <1>1, <2>1, <2>7, <3>1 DEF RestTypes, SessionTypeOK
    <3>3. ReadSent'
      BY <2>1, <2>7 DEF TypeInv, ReadSent
    <3>4. QED
      BY <1>1, <3>2, <3>3, TypesSplit DEF TypeInv
  <2>8. QED
    BY <2>4, <2>5, <2>6, <2>7
<1>10. QED
  BY <1>3, <1>4, <1>5, <1>6, <1>7, <1>8, <1>9 DEF LoopNext

\* So do those of clients and timers.
LEMMA TypeInvStep ==
  ASSUME LoopInv, TypeInv, [Next]_vars
  PROVE  TypeInv'
<1>1. CASE UNCHANGED vars
  BY <1>1 DEF vars, clientVars, kernelVars, pollerVars, disconnectVars, loopVars, TypeInv, TypeOK,
     KernelTypeOK, PollerTypeOK, SessionTypeOK, ConnTypeOK, LoopTypeOK, ReadSent
<1>2. QED
  BY <1>1, TypeInvEnvironment, TypeInvLoop DEF Next, Ended

\* The types and the invariant of the loop.
LEMMA TypeInvariant == Spec => [](LoopInv /\ TypeInv)
<1>1. Init => TypeInv
  BY TypeInvInit
<1>2. LoopInv /\ TypeInv /\ [Next]_vars => TypeInv'
  BY TypeInvStep
<1>3. QED
  BY <1>1, <1>2, LoopInvariant, PTL DEF Spec

\* Every variable of the server keeps its type.
THEOREM TypeCorrect == Spec => []TypeOK
<1>1. TypeInv => TypeOK
  BY DEF TypeInv
<1>2. QED
  BY <1>1, TypeInvariant, PTL
=============================================================================
