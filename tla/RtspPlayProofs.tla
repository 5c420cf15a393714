--------------------------- MODULE RtspPlayProofs ---------------------------
(***************************************************************************)
(* What becomes of the RtpConnections in RtspServer, for any number of     *)
(* players and descriptors.  ~RtspConnection takes the first RtpConnection *)
(* of a connection from track 0 and the second from track 1, of the        *)
(* session the connection names then.  That is right for players that set  *)
(* up track 0 before track 1 (OrderlyPlayers): no track keeps a pointer to *)
(* an RtpConnection that was destroyed.  That no track loses one of        *)
(* somebody else needs both tracks to be set up, or none, by the time a    *)
(* connection ends (WholePlayers).  Without those hypotheses both are      *)
(* false, as the runs order and one_setup show.                            *)
(*                                                                         *)
(* PlayInv ties what tracks and rtp_conns_ hold to what each client has    *)
(* asked so far.                                                           *)
(***************************************************************************)
EXTENDS RtspRequestProofs, FiniteSetTheorems

\* Of the requests of client c that were read, one sets up track t.
Opened(c, t) == \E i \in 1..taken[c] : SetsUp(script[c], i, t)

NumOpened(c) ==
  (IF Opened(c, TrackId0) THEN 1 ELSE 0) + (IF Opened(c, TrackId1) THEN 1 ELSE 0)

\* A pointer on track t is where ~RtspConnection looks for it.
OnTrack(t, ptr) ==
  /\ ptr[1] \in Holding
  /\ sess[ptr[1]] = SessionName
  /\ ptr[2] = (IF t = TrackId0 THEN 1 ELSE 2)
  /\ ptr[2] <= Len(rtp[ptr[1]])

\* Requests are read one at a time, none before a connection was accepted.
OneByOne ==
  /\ pc # "read"
  /\ \A c \in Clients : sent[c] <= taken[c] + 1
  /\ \A c \in Clients \ (Holding \cup Gone) : taken[c] = 0

\* rtp_conns_ holds what the requests set up, until the connection is destroyed.
AsAsked ==
  /\ \A c \in Clients \ Holding : rtp[c] = <<>>
  /\ process = "up" => \A c \in Holding : Len(rtp[c]) = NumOpened(c)

PlayInv ==
  /\ OneByOne
  /\ AsAsked
  /\ \A t \in Tracks : \A ptr \in tracks[t] : OnTrack(t, ptr)

-----------------------------------------------------------------------------
\* No track is set up, and no request was asked.
LEMMA PlayInvInit == OrderlyPlayers /\ Init => PlayInv
<1> SUFFICES ASSUME Init PROVE PlayInv
  OBVIOUS
<1>1. /\ fd2conn = [fd \in Fds |-> None] /\ rtp = [c \in Clients |-> <<>>]
      /\ taken = [c \in Clients |-> 0] /\ sent = [c \in Clients |-> 0]
      /\ tracks = [t \in Tracks |-> {}] /\ pc = "trigger"
  BY DEF Init, KernelInit, ConnInit, SessionInit
<1>2. Holding = {}
  BY <1>1 DEF Holding
<1>3. QED
  BY <1>1, <1>2 DEF PlayInv, OneByOne, AsAsked

\* Clients move to a connection from the listen queue, none comes back.
LEMMA PlaceStep ==
  ASSUME LoopInv, OnceInv, Effect, UNCHANGED disconnectList
  PROVE  /\ Holding \subseteq Holding' /\ Gone' = Gone
         /\ (Holding' \ Holding) \cap Gone = {}
<1>1. fd2conn \in [Fds -> Clients \cup {None}] /\ backlog \in Seq(Clients)
  BY DEF LoopInv, LoopTypes
<1>2. CASE Nothing
  BY <1>2, GoneSteps DEF Nothing, Holding
<1>3. ASSUME NEW c \in Clients, Arrival(c) PROVE Holding' = Holding /\ Gone' = Gone
  BY <1>3, GoneSteps DEF Arrival, Holding
<1>4. ASSUME NEW fd \in Fds, Acceptance(fd)
      PROVE  /\ Holding \subseteq Holding' /\ Gone' = Gone
             /\ (Holding' \ Holding) \cap Gone = {}
  <2>1. fd2conn'[fd] = Head(backlog) /\ \A f \in Fds \ {fd} : fd2conn'[f] = fd2conn[f]
    BY <1>1, <1>4 DEF Acceptance
  <2>2. Holding \subseteq Holding' /\ Holding' \subseteq Holding \cup {Head(backlog)}
    BY <1>4, <2>1 DEF Acceptance, Holding
  <2>3. Head(backlog) \in Waiting
    BY <1>1, <1>4, TailOfBacklog DEF Acceptance, Waiting
  <2>4. QED
    BY <1>4, <2>2, <2>3, GoneSteps DEF Gone
<1>5. ASSUME NEW fd \in Fds, HangingUp(fd) PROVE Holding' = Holding /\ Gone' = Gone
  BY <1>5, GoneSteps DEF HangingUp, Holding
<1>6. CASE Removal
  BY <1>6 DEF Removal, Listed
<1>7. QED
  BY <1>2, <1>3, <1>4, <1>5, <1>6 DEF Effect

\* A step that handles no request and destroys nothing.
LEMMA QuietPlay ==
  ASSUME TypeInv, PlayInv, process = "up",
         Holding \subseteq Holding', Gone' = Gone, (Holding' \ Holding) \cap Gone = {},
         Holding' \subseteq Clients,
         UNCHANGED <<script, taken, tracks, sess, rtp>>,
         pc' # "read", \A c \in Clients : sent'[c] <= taken[c] + 1
  PROVE  PlayInv'
<1>1. OneByOne'
  BY DEF PlayInv, OneByOne
<1>2. \A c, t : Opened(c, t)' <=> Opened(c, t)
  BY DEF Opened
<1>3. \A c \in Holding' \ Holding : rtp[c] = <<>> /\ taken[c] = 0
  BY DEF PlayInv, OneByOne, AsAsked
<1>4. \A c \in Holding' \ Holding : NumOpened(c) = 0 /\ Len(rtp[c]) = 0
  BY <1>3 DEF NumOpened, Opened
<1>5. AsAsked'
  BY <1>2, <1>4 DEF PlayInv, AsAsked, NumOpened
<1>6. ASSUME NEW t \in Tracks, NEW ptr \in tracks'[t] PROVE OnTrack(t, ptr)'
  BY DEF PlayInv, OnTrack
<1>7. QED
  BY <1>1, <1>5, <1>6 DEF PlayInv

\* What handleCloseConnect leaves: the listed connections are gone, with every
\* pointer to an RtpConnection of theirs, and nothing else has changed.
LEMMA RemovalPlay ==
  ASSUME LoopInv, OnceInv, TypeInv, PlayInv, HandleCloseConnect
  PROVE  PlayInv'
<1> DEFINE conns == {fd2conn[fd] : fd \in Listed}
<1>1. /\ Destroy(conns, Listed)
      /\ UNCHANGED <<script, peer, sent, taken, pc, process>>
      /\ process = "up"
  <2>1. ListedOnce
    BY DEF LoopInv, ListInv, ListedOnce, Listed
  <2>2. QED
    BY <2>1, Zenon DEF HandleCloseConnect, At, clientVars, loopVars
<1>2. /\ fd2conn' = [fd \in Fds |-> IF fd \in Listed THEN None ELSE fd2conn[fd]]
      /\ Gone' = Gone \cup conns
  BY CloseRemoves, GoneSteps DEF Removal
<1>3. Holding' = Holding \ conns /\ conns \subseteq Holding
  <2>1. Listed \subseteq Fds /\ \A fd \in Listed : fd2conn[fd] # None
    BY DEF LoopInv, LoopTypes, ListInv, Listed
  <2>2. \A fd \in Fds, other \in Listed : fd2conn[fd] = fd2conn[other] => fd = other
    BY <2>1 DEF OnceInv
  <2>3. Holding' = Holding \ conns
    BY <1>2, <2>1, <2>2 DEF Holding
  <2>4. QED
    BY <2>1, <2>3 DEF Holding
<1>4. /\ sess' = [c \in Clients |-> IF c \in conns THEN "" ELSE sess[c]]
      /\ rtp' = [c \in Clients |-> IF c \in conns THEN <<>> ELSE rtp[c]]
  BY <1>1 DEF Destroy
<1>5. PICK lost \in SUBSET tracks[TrackId1] :
        RemoveRtpConnections(
          {<<c, 1>> : c \in {d \in conns : rtp[d] # <<>> /\ sess[d] = SessionName}},
          {<<c, 2>> : c \in {d \in conns : rtp[d] # <<>> /\ sess[d] = SessionName}} \cup lost)
  BY <1>1, Zenon DEF Destroy, RemoveSessionOf
<1> HIDE DEF conns
<1>6. OneByOne'
  BY <1>1, <1>2, <1>3 DEF PlayInv, OneByOne
<1>7. AsAsked'
  <2>1. \A c \in Clients \ Holding' : rtp'[c] = <<>>
    BY <1>3, <1>4 DEF PlayInv, AsAsked
  <2>2. \A c \in Holding' : c \in Clients /\ rtp'[c] = rtp[c] /\ NumOpened(c)' = NumOpened(c)
    BY <1>1, <1>3, <1>4 DEF LoopInv, LoopTypes, Holding, NumOpened, Opened
  <2>3. QED
    BY <1>1, <1>3, <2>1, <2>2 DEF PlayInv, AsAsked
<1>8. ASSUME NEW t \in Tracks, NEW ptr \in tracks'[t] PROVE OnTrack(t, ptr)'
  <2>1. tracks \in [Tracks -> SUBSET Pointers]
    BY DEF TypeInv, TypeOK, SessionTypeOK
  <2>2. /\ ptr \in tracks[t]
        /\ \A c \in conns : rtp[c] # <<>> /\ sess[c] = SessionName
              => ptr # <<c, IF t = TrackId0 THEN 1 ELSE 2>>
    <3>1. CASE t = TrackId0
      BY <1>5, <2>1, <3>1, SessionAssumption DEF RemoveRtpConnections
    <3>2. CASE t = TrackId1
      BY <1>5, <2>1, <3>2, SessionAssumption DEF RemoveRtpConnections
    <3>3. QED
      BY <3>1, <3>2, SessionAssumption
  <2>3. OnTrack(t, ptr) /\ ptr = <<ptr[1], ptr[2]>> /\ ptr[1] \in Clients
    BY <2>1, <2>2 DEF PlayInv, Pointers
  <2>4. rtp[ptr[1]] # <<>>
    BY <2>3 DEF OnTrack
  <2>5. ptr[1] \notin conns
    BY <2>2, <2>3, <2>4 DEF OnTrack
  <2>6. QED
    BY <1>3, <1>4, <2>3, <2>5 DEF OnTrack
<1>9. QED
  BY <1>6, <1>7, <1>8 DEF PlayInv

\* What a handler does to rtp_conns_, session_name_ and the tracks.
Opening(conn, t) ==
  /\ Len(rtp'[conn]) = Len(rtp[conn]) + 1
  /\ \/ tracks' = tracks
     \/ sess[conn] = SessionName /\ AddRtpConnection(t, <<conn, Len(rtp[conn]) + 1>>)

\* What a request of a player does to its RtpConnections and its session: at
\* most one is added, behind the others and on the track that was asked for.
LEMMA RequestOpens ==
  ASSUME TypeOK, NEW conn \in Clients, NEW fd \in Fds, NEW req,
         HandleRequest(conn, fd, req),
         req.method = "SETUP" => req.track \in Tracks \cup {"none"},
         req.method = "OPTIONS" => req.name = SessionName
  PROVE  /\ \A c \in Clients \ {conn} : rtp'[c] = rtp[c] /\ sess'[c] = sess[c]
         /\ sess'[conn] \in {sess[conn], SessionName}
         /\ \/ /\ tracks' = tracks /\ Len(rtp'[conn]) = Len(rtp[conn])
               /\ process' = "up" => req.method # "SETUP" \/ req.track = "none"
            \/ req.method = "SETUP" /\ req.track \in Tracks /\ Opening(conn, req.track)
<1>1. /\ sess \in [Clients -> {""} \cup STRING] /\ rtp \in [Clients -> Seq(RtpConn)]
      /\ rtp[conn] \in Seq(RtpConn)
  BY DEF TypeOK, ConnTypeOK
<1>2. CASE HandleOptions(conn, req)
  BY <1>1, <1>2 DEF HandleOptions
<1>3. CASE HandleDescribe(conn, req) \/ HandleTeardown(conn, fd, req) \/ HandleUnknown(req)
  BY <1>1, <1>3 DEF HandleDescribe, HandleTeardown, HandleUnknown
<1>4. CASE HandlePlay(conn, req)
  <2> DEFINE alive == [i \in DOMAIN rtp[conn] |-> [rtp[conn][i] EXCEPT !.alive = TRUE]]
  <2>1. rtp' = [rtp EXCEPT ![conn] = alive] /\ UNCHANGED <<sess, tracks>> /\ req.method = "PLAY"
    BY <1>4 DEF HandlePlay
  <2>2. alive \in Seq(RtpConn) /\ Len(alive) = Len(rtp[conn])
    BY <1>1, Played
  <2> HIDE DEF alive
  <2>3. QED
    BY <1>1, <2>1, <2>2
<1>5. CASE HandleSetup(conn, req)
  <2>1. req.method = "SETUP" /\ sess' = sess
    BY <1>5 DEF HandleSetup
  <2>2. CASE UNCHANGED <<rtp, tracks>> /\ (req.track = "none" \/ process' = "exited")
    BY <2>1, <2>2
  <2>3. ASSUME NEW p1 \in RtpConn, OpenRtpConnection(conn, req, p1), req.track # "none"
        PROVE  /\ \A c \in Clients \ {conn} : rtp'[c] = rtp[c]
               /\ req.track \in Tracks /\ Opening(conn, req.track)
    <3>1. Append(rtp[conn], p1) \in Seq(RtpConn) /\ Len(Append(rtp[conn], p1)) = Len(rtp[conn]) + 1
      <4>1. rtp[conn] \in Seq(RtpConn)
        BY <1>1
      <4>2. QED
        BY ONLY <4>1, p1 \in RtpConn
    <3>2. rtp' = [rtp EXCEPT ![conn] = Append(rtp[conn], p1)]
      BY <2>3 DEF OpenRtpConnection
    <3>3. /\ Len(rtp'[conn]) = Len(rtp[conn]) + 1
          /\ \A c \in Clients \ {conn} : rtp'[c] = rtp[c]
      BY ONLY <1>1, <3>1, <3>2, conn \in Clients
    <3>4. \/ tracks' = tracks
          \/ /\ sess[conn] = SessionName
             /\ AddRtpConnection(req.track, <<conn, Len(rtp[conn]) + 1>>)
      BY <2>3, Zenon DEF OpenRtpConnection
    <3>5. QED
      BY <2>1, <2>3, <3>3, <3>4 DEF Opening
  <2>4. CASE SetupTcp(conn, req) \/ SetupUdp(conn, req)
    <3>1. [tcp |-> TRUE, alive |-> FALSE] \in RtpConn /\ [tcp |-> FALSE, alive |-> FALSE] \in RtpConn
      BY DEF RtpConn
    <3>2. CASE req.track # "none"
      BY <2>1, <2>2, <2>3, <2>4, <3>1, <3>2 DEF SetupTcp, SetupUdp
    <3>3. CASE req.track = "none"
      BY <1>5, <2>1, <2>4, <3>3 DEF HandleSetup
    <3>4. QED
      BY <3>2, <3>3
  <2>5. QED
    BY <1>5, <2>2, <2>4 DEF HandleSetup
<1>6. QED
  BY <1>2, <1>3, <1>4, <1>5 DEF HandleRequest

\* The request a recv returns is the next one of an orderly player, alone.
LEMMA NextRequest ==
  ASSUME OrderlyPlayers, LoopInv, TypeInv, OneByOne, NEW conn \in Holding, Unread(conn)
  PROVE  LET n   == taken[conn] + 1
             req == script[conn][n]
         IN  /\ conn \in Clients
             /\ taken \in [Clients -> Nat] /\ sent \in [Clients -> Nat]
             /\ n \in Nat \ {0} /\ sent[conn] = n
             /\ script[conn] \in Scripts /\ PlaysInOrder(script[conn])
             /\ n \in DOMAIN script[conn]
             /\ DOMAIN script[conn] = 1..Len(script[conn]) /\ Len(script[conn]) \in Nat
             /\ req.method = "SETUP" => req.track \in Tracks \cup {"none"}
             /\ req.method = "OPTIONS" => req.name = SessionName
<1> DEFINE n == taken[conn] + 1
           req == script[conn][n]
<1>1. /\ conn \in Clients /\ n \in Nat \ {0} /\ sent[conn] = n
      /\ taken \in [Clients -> Nat] /\ sent \in [Clients -> Nat]
  <2>1. conn \in Clients /\ taken \in [Clients -> Nat] /\ sent \in [Clients -> Nat]
    BY DEF LoopInv, LoopTypes, Holding, TypeInv, TypeOK, KernelTypeOK
  <2>2. sent[conn] > taken[conn] /\ sent[conn] <= taken[conn] + 1
    BY <2>1 DEF Unread, OneByOne
  <2>3. QED
    BY <2>1, <2>2
<1>2. /\ script[conn] \in Scripts /\ PlaysInOrder(script[conn])
      /\ n \in DOMAIN script[conn]
      /\ DOMAIN script[conn] = 1..Len(script[conn]) /\ Len(script[conn]) \in Nat
  <2>1. script[conn] \in Scripts /\ script[conn] \in Seq(Requests)
    BY <1>1, KernelAssumption DEF TypeInv, TypeOK, KernelTypeOK, Requests
  <2>2. n <= Len(script[conn])
    BY <1>1 DEF TypeInv, ReadSent
  <2>3. QED
    BY <1>1, <2>1, <2>2 DEF OrderlyPlayers
<1>3. /\ req.method = "SETUP" => req.track \in Tracks \cup {"none"}
      /\ req.method = "OPTIONS" => req.name = SessionName
  BY <1>2 DEF PlaysInOrder
<1>4. QED
  BY <1>1, <1>2, <1>3

\* A request: its handler opens at most the RtpConnection the request is for.
LEMMA RequestPlay ==
  ASSUME OrderlyPlayers, LoopInv, TypeInv, PlayInv, process = "up",
         NEW conn \in Holding, NEW fd \in Fds,
         Unread(conn), taken' = [taken EXCEPT ![conn] = sent[conn]],
         HandleRequest(conn, fd, script[conn][taken[conn] + 1]),
         UNCHANGED <<script, sent, pc>>, Holding' = Holding, Gone' = Gone
  PROVE  PlayInv'
<1> DEFINE n == taken[conn] + 1
           req == script[conn][n]
           rtps == rtp[conn]
<1>1. /\ conn \in Clients /\ taken[conn] \in Nat /\ n \in Nat \ {0} /\ sent[conn] = n
      /\ taken \in [Clients -> Nat] /\ sent \in [Clients -> Nat]
  BY NextRequest DEF PlayInv
<1>2. /\ n \in DOMAIN script[conn]
      /\ DOMAIN script[conn] = 1..Len(script[conn]) /\ Len(script[conn]) \in Nat
  BY NextRequest DEF PlayInv
<1>3. PlaysInOrder(script[conn])
  BY NextRequest DEF PlayInv
<1>4. /\ taken'[conn] = n /\ \A c \in Clients \ {conn} : taken'[c] = taken[c]
  BY <1>1
<1>5. /\ \A t : Opened(conn, t)' <=> Opened(conn, t) \/ SetsUp(script[conn], n, t)
      /\ \A c \in Clients \ {conn} : \A t : Opened(c, t)' <=> Opened(c, t)
  <2>1. 1..n = 1..taken[conn] \cup {n}
    BY <1>1
  <2>2. QED
    BY <1>4, <2>1 DEF Opened
<1>6. rtp \in [Clients -> Seq(RtpConn)] /\ Len(rtps) \in Nat /\ Len(rtps) = NumOpened(conn)
  <2>1. rtp \in [Clients -> Seq(RtpConn)]
    BY DEF TypeInv, TypeOK, ConnTypeOK
  <2>2. QED
    BY <1>1, <2>1 DEF PlayInv, AsAsked
<1>7. req.method = "SETUP" => req.track \in Tracks \cup {"none"}
  BY NextRequest DEF PlayInv
<1>8. req.method = "OPTIONS" => req.name = SessionName
  BY NextRequest DEF PlayInv
<1>9. /\ \A c \in Clients \ {conn} : rtp'[c] = rtp[c] /\ sess'[c] = sess[c]
      /\ sess'[conn] \in {sess[conn], SessionName}
      /\ \/ /\ tracks' = tracks /\ Len(rtp'[conn]) = Len(rtp[conn])
            /\ process' = "up" => req.method # "SETUP" \/ req.track = "none"
         \/ req.method = "SETUP" /\ req.track \in Tracks /\ Opening(conn, req.track)
  BY <1>1, <1>7, <1>8, RequestOpens DEF TypeInv
<1> HIDE DEF req
<1>10. OneByOne'
  BY <1>1, <1>4 DEF PlayInv, OneByOne
<1>11. \A c \in Clients \ Holding' : rtp'[c] = <<>>
  BY <1>9 DEF PlayInv, AsAsked
<1>12. \A c \in Holding \ {conn} : /\ c \in Clients /\ rtp'[c] = rtp[c]
                                   /\ NumOpened(c)' = NumOpened(c)
  BY <1>5, <1>9 DEF LoopInv, LoopTypes, Holding, NumOpened
<1>13. CASE /\ tracks' = tracks /\ Len(rtp'[conn]) = Len(rtp[conn])
            /\ process' = "up" => req.method # "SETUP" \/ req.track = "none"
  <2>1. process' = "up" => NumOpened(conn)' = NumOpened(conn)
    BY <1>5, <1>13, KernelAssumption, SessionAssumption DEF SetsUp, NumOpened, req
  <2>2. AsAsked'
    BY <1>6, <1>11, <1>12, <1>13, <2>1 DEF PlayInv, AsAsked
  <2>3. ASSUME NEW t \in Tracks, NEW ptr \in tracks'[t] PROVE OnTrack(t, ptr)'
    <3>1. OnTrack(t, ptr)
      BY <1>13 DEF PlayInv
    <3>2. ptr[1] \in Clients
      BY <3>1, <1>1, <1>12 DEF OnTrack
    <3>3. QED
      BY <1>9, <1>13, <3>1, <3>2 DEF OnTrack
  <2>4. QED
    BY <1>10, <2>2, <2>3 DEF PlayInv
<1>14. ASSUME NEW t \in Tracks, req.method = "SETUP", req.track = t, Opening(conn, t)
       PROVE  PlayInv'
  <2>1. SetsUp(script[conn], n, t)
    BY <1>14 DEF SetsUp, req
  <2>2. ~Opened(conn, t)
    <3>1. \A i \in 1..taken[conn] : i \in DOMAIN script[conn] /\ i # n
      BY <1>1, <1>2
    <3>2. QED
      BY <1>2, <1>3, <2>1, <3>1 DEF Opened, PlaysInOrder
  <2>3. t = TrackId1 => Opened(conn, TrackId0)
    <3>1. n - 1 = taken[conn]
      BY <1>1
    <3>2. QED
      BY <1>2, <1>3, <2>1, <3>1 DEF PlaysInOrder, Opened
  <2>4. t = TrackId0 => ~Opened(conn, TrackId1)
    <3>1. \A i \in DOMAIN script[conn] : SetsUp(script[conn], i, TrackId1)
                                         => \E j \in 1..(i - 1) : SetsUp(script[conn], j, TrackId0)
      BY <1>3 DEF PlaysInOrder
    <3>2. \A i \in 1..taken[conn] : i \in DOMAIN script[conn] /\ 1..(i - 1) \subseteq 1..taken[conn]
      BY <1>1, <1>2
    <3>3. Opened(conn, TrackId1) => Opened(conn, TrackId0)
      BY <3>1, <3>2 DEF Opened
    <3>4. QED
      BY <2>2, <3>3
  <2>5. \A s \in Tracks \ {t} : ~SetsUp(script[conn], n, s)
    BY <2>1 DEF SetsUp
  <2>6. /\ NumOpened(conn) = (IF t = TrackId0 THEN 0 ELSE 1)
        /\ NumOpened(conn)' = (IF t = TrackId0 THEN 1 ELSE 2)
    <3>1. /\ \A s \in Tracks : Opened(conn, s)' <=> Opened(conn, s) \/ s = t
          /\ t \in {TrackId0, TrackId1} /\ TrackId0 # TrackId1
          /\ TrackId0 \in Tracks /\ TrackId1 \in Tracks
      BY <1>5, <2>1, <2>5, SessionAssumption
    <3>2. CASE t = TrackId0
      BY <2>2, <2>4, <3>1, <3>2 DEF NumOpened
    <3>3. CASE t = TrackId1
      BY <2>2, <2>3, <3>1, <3>3 DEF NumOpened
    <3>4. QED
      BY <3>1, <3>2, <3>3
  <2>7. Len(rtp'[conn]) = (IF t = TrackId0 THEN 1 ELSE 2)
    BY <1>6, <1>14, <2>6 DEF Opening
  <2>8. AsAsked'
    BY <1>11, <1>12, <2>6, <2>7 DEF PlayInv, AsAsked
  <2>9. ASSUME NEW s \in Tracks, NEW ptr \in tracks'[s] PROVE OnTrack(s, ptr)'
    <3>1. CASE ptr \in tracks[s]
      <4>1. OnTrack(s, ptr)
        BY <3>1 DEF PlayInv
      <4>2. ptr[1] \in Clients /\ Len(rtps) <= Len(rtp'[conn])
        BY <1>1, <1>6, <1>12, <2>6, <2>7, <4>1 DEF OnTrack
      <4>3. CASE ptr[1] = conn
        <5>1. ptr[2] \in Nat /\ ptr[2] <= Len(rtps)
          BY <4>1, <4>3 DEF OnTrack
        <5>2. ptr[2] <= Len(rtp'[conn])
          BY ONLY <1>6, <4>2, <5>1, <2>7
        <5>3. QED
          BY <1>9, <4>1, <4>3, <5>2 DEF OnTrack
      <4>4. CASE ptr[1] # conn
        BY <1>9, <4>1, <4>2, <4>4 DEF OnTrack
      <4>5. QED
        BY <4>3, <4>4
    <3>2. CASE ptr \notin tracks[s]
      <4>1. /\ s = t /\ ptr = <<conn, Len(rtps) + 1>> /\ sess[conn] = SessionName
        <5>1. tracks \in [Tracks -> SUBSET Pointers]
          BY DEF TypeInv, TypeOK, SessionTypeOK
        <5>2. /\ sess[conn] = SessionName
              /\ tracks' = [tracks EXCEPT ![t] = tracks[t] \cup {<<conn, Len(rtps) + 1>>}]
          BY <1>14, <3>2 DEF Opening, AddRtpConnection
        <5>3. QED
          BY <3>2, <5>1, <5>2
      <4>2. ptr[1] = conn /\ ptr[2] = (IF t = TrackId0 THEN 1 ELSE 2)
        BY <1>6, <2>6, <4>1
      <4>3. QED
        BY <1>9, <2>7, <4>1, <4>2 DEF OnTrack
    <3>3. QED
      BY <3>1, <3>2
  <2>10. QED
    BY <1>10, <2>8, <2>9 DEF PlayInv
<1>15. QED
  BY <1>9, <1>13, <1>14

\* Whatever orderly players ask and whenever they leave, a step keeps PlayInv.
LEMMA PlayInvStep ==
  ASSUME OrderlyPlayers, LoopInv, OnceInv, TypeInv, PlayInv, [Next]_vars
  PROVE  PlayInv'
<1>1. Holding' \subseteq Clients
  <2>1. LoopInv'
    BY LoopInvStep
  <2>2. QED
    BY <2>1 DEF LoopInv, LoopTypes, Holding
<1>2. /\ sent \in [Clients -> Nat] /\ taken \in [Clients -> Nat]
      /\ pc # "read" /\ \A c \in Clients : sent[c] <= taken[c] + 1
  BY DEF TypeInv, TypeOK, KernelTypeOK, PlayInv, OneByOne
<1>3. CASE UNCHANGED vars
  BY <1>3 DEF vars, clientVars, kernelVars, loopVars, PlayInv, OneByOne, AsAsked, OnTrack,
     NumOpened, Opened, Holding, Gone, Came, Waiting
<1>4. CASE Environment
  <2>1. Effect
    BY <1>4, ClientEffect DEF OnceInv
  <2>2. /\ process = "up"
        /\ UNCHANGED <<script, taken, tracks, sess, rtp, pc, disconnectList>>
    BY <1>4 DEF Environment, Beside, Connect, Send, Shut, Abort, Drain, Expire,
       clientVars, disconnectVars, loopVars
  <2>3. \A c \in Clients : sent'[c] <= taken[c] + 1
    <3>1. ASSUME NEW d \in Clients, Send(d) PROVE <2>3
      <4>1. sent' = [sent EXCEPT ![d] = @ + 1] /\ sent[d] - taken[d] < 1
        BY <3>1 DEF Send, OrderlyPlayers
      <4>2. QED
        BY <1>2, <4>1
    <3>2. CASE UNCHANGED sent
      BY <1>2, <3>2
    <3>3. QED
      BY <1>4, <3>1, <3>2 DEF Environment, Beside, Connect, Shut, Abort, Drain, Expire, clientVars
  <2>4. QED
    BY <1>1, <1>2, <2>1, <2>2, <2>3, PlaceStep, QuietPlay
<1>5. CASE HandleCloseConnect
  BY <1>5, RemovalPlay
<1>6. CASE \/ NoTriggerLeft \/ Wait \/ Turn \/ HandleRead
           \/ \E h \in Handles \ {Listen} : HandleTimeout(h)
  <2>1. Effect
    BY <1>6, LoopEffect DEF LoopNext
  <2>2. /\ process = "up" /\ pc' # "read"
        /\ UNCHANGED <<script, sent, taken, tracks, sess, rtp, disconnectList>>
    BY <1>2, <1>6 DEF NoTriggerLeft, Wait, Turn, HandleRead, HandleTimeout, At,
       clientVars, disconnectVars, loopVars
  <2>3. QED
    BY <1>1, <1>2, <2>1, <2>2, PlaceStep, QuietPlay
<1>7. ASSUME NEW fd \in Fds, ReadCallback(fd) PROVE PlayInv'
  <2> DEFINE conn == fd2conn[fd]
  <2>1. /\ process = "up" /\ pc = "dispatch" /\ fd \in batch
        /\ fd2event[fd] # None
        /\ UNCHANGED <<script, peer, sent, backlog, fd2conn>>
    BY <1>7 DEF ReadCallback, At, clientVars
  <2>2. fd2event[fd] = conn /\ conn \in Holding
    BY <2>1 DEF LoopInv, Watched, Holding
  <2>3. Holding' = Holding /\ Gone' = Gone
    BY <2>1 DEF Holding, Gone, Came, Waiting
  <2>4. CASE RecvNothing(conn, fd)
    <3>1. UNCHANGED <<taken, tracks, process, sess, rtp, pc>>
      BY <2>4 DEF RecvNothing, loopVars
    <3>2. QED
      BY <1>1, <1>2, <2>1, <2>3, <3>1, QuietPlay
  <2>5. CASE RecvRequest(conn, fd)
    <3>1. /\ Unread(conn)
          /\ taken' = [taken EXCEPT ![conn] = sent[conn]]
          /\ HandleRequest(conn, fd, script[conn][taken[conn] + 1])
          /\ UNCHANGED pc
      BY <2>5 DEF RecvRequest, OrderlyPlayers, loopVars
    <3>2. QED
      BY <2>1, <2>2, <2>3, <3>1, RequestPlay
  <2>6. QED
    BY <1>7, <2>2, <2>4, <2>5 DEF ReadCallback
<1>8. CASE ReadMore
  BY <1>2, <1>8 DEF ReadMore, At
<1>9. QED
  BY <1>3, <1>4, <1>5, <1>6, <1>7, <1>8 DEF Next, LoopNext, Ended

\* Everything the proofs know of a server with orderly players.
ServerInv == LoopInv /\ OnceInv /\ TypeInv /\ PlayInv

\* All invariants of the server, for orderly players.
LEMMA ServerInvariant ==
  ASSUME OrderlyPlayers
  PROVE  Spec => []ServerInv
<1>1. Init => PlayInv
  BY PlayInvInit
<1>2. LoopInv /\ OnceInv /\ TypeInv /\ PlayInv /\ [Next]_vars => PlayInv'
  BY PlayInvStep
<1>3. QED
  BY <1>1, <1>2, OnceInvariant, TypeInvariant, PTL DEF Spec, ServerInv

\* With orderly players, however many, whenever they leave, no track sends to an
\* RtpConnection that was destroyed with its owner.
THEOREM NoDanglingRtpHolds ==
  ASSUME OrderlyPlayers
  PROVE  Spec => []NoDanglingRtp
<1>1. ServerInv => NoDanglingRtp
  <2> SUFFICES ASSUME ServerInv, NEW t \in Tracks, NEW ptr \in tracks[t] PROVE ~Dangling(ptr)
    BY DEF NoDanglingRtp
  <2>1. OnTrack(t, ptr)
    BY DEF ServerInv, PlayInv
  <2>2. ptr[1] \in Clients
    BY <2>1 DEF OnTrack, Holding, ServerInv, LoopInv, LoopTypes
  <2>3. rtp[ptr[1]] \in Seq(RtpConn)
    BY <2>2 DEF ServerInv, TypeInv, TypeOK, ConnTypeOK
  <2>4. Len(rtp[ptr[1]]) \in Nat
    BY <2>3
  <2>5. QED
    BY <2>1, <2>4 DEF OnTrack, Dangling
<1>2. QED
  BY <1>1, ServerInvariant, PTL

-----------------------------------------------------------------------------
(* A connection ends only when its player has set up both tracks or none:  *)
(* it hung up with its whole script read, or asked for the TEARDOWN.       *)

StayInv ==
  /\ \A fd \in Fds : interest[fd] # "writable"
  /\ \A c \in Clients : peer[c] \in {"fin", "rst"} => taken[c] = Len(script[c])
  /\ \A fd \in batch \cap Fds : Readable(fd2conn[fd])
  /\ process = "up" => \A fd \in Listed : Len(rtp[fd2conn[fd]]) # 1

\* No connection is on its way out.
LEMMA StayInvInit == WholePlayers /\ Init => StayInv
<1> SUFFICES ASSUME WholePlayers, Init PROVE StayInv
  OBVIOUS
<1>1. \A fd \in Fds : interest[fd] = None
  <2>1. PICK m \in [Handles \ Fds -> (EventBits \ {"writable"}) \cup {"clean"}] :
          interest = [h \in Handles |-> IF h \in Fds THEN None ELSE Mask(m[h])]
    BY DEF Init, PollerInit
  <2>2. QED
    BY <2>1 DEF Handles
<1>2. /\ peer = [c \in Clients |-> "absent"] /\ batch = {} /\ disconnectList = <<>>
  BY DEF Init, KernelInit, PollerInit, ConnInit
<1>4. DOMAIN disconnectList = {}
  BY <1>2
<1>3. None # "writable"
  BY KernelAssumption DEF AllEventBits
<1>5. QED
  BY <1>1, <1>2, <1>3, <1>4 DEF StayInv, Listed

\* Of the first n requests of a player, both tracks were set up or none.
LEMMA Whole ==
  ASSUME WholePlayers, NEW s \in Scripts, NEW n \in Nat, n <= Len(s), WholeAt(s, n)
  PROVE  (\E i \in 1..n : SetsUp(s, i, TrackId0)) <=> (\E i \in 1..n : SetsUp(s, i, TrackId1))
<1>1. PlaysInOrder(s) /\ s \in Seq(Requests)
  BY KernelAssumption DEF WholePlayers, OrderlyPlayers, Requests
<1>2. Len(s) \in Nat /\ DOMAIN s = 1..Len(s)
  BY <1>1
<1>3. \A i \in 1..n : i \in DOMAIN s /\ 1..(i - 1) \subseteq 1..n
  BY <1>2
<1>4. \A i \in DOMAIN s : SetsUp(s, i, TrackId1) => \E j \in 1..(i - 1) : SetsUp(s, j, TrackId0)
  BY <1>1 DEF PlaysInOrder
<1>5. QED
  BY <1>3, <1>4 DEF WholeAt

\* A player that has closed its connection was read to the end.
LEMMA ClosedRead ==
  ASSUME TypeInv, StayInv, NEW c \in Clients, peer[c] \in {"fin", "rst"}
  PROVE  taken[c] = Len(script[c]) /\ ~Unread(c)
<1>1. taken[c] = Len(script[c]) /\ sent[c] <= Len(script[c])
  BY DEF StayInv, TypeInv, ReadSent
<1>2. sent[c] \in Nat /\ taken[c] \in Nat
  BY DEF TypeInv, TypeOK, KernelTypeOK
<1>3. QED
  BY <1>1, <1>2 DEF Unread

\* Beside the loop connections only become ready to be read.
LEMMA StayEnvironment ==
  ASSUME WholePlayers, LoopInv, TypeInv, StayInv, Environment
  PROVE  StayInv'
<1>1. UNCHANGED <<interest, batch, fd2conn, disconnectList, rtp, process, script, taken>>
  BY DEF Environment, Beside, Connect, Send, Shut, Abort, Drain, Expire, clientVars, kernelVars,
     pollerVars, disconnectVars
<1>2. /\ sent \in [Clients -> Nat] /\ peer \in [Clients -> Peers] /\ taken \in [Clients -> Nat]
  BY DEF TypeInv, TypeOK, KernelTypeOK, Peers
<1>3. ASSUME NEW c \in Clients
      PROVE  /\ peer'[c] \in {"fin", "rst"} => taken[c] = Len(script[c])
             /\ Readable(c) => Readable(c)'
  <2> DEFINE Goal == /\ peer'[c] \in {"fin", "rst"} => taken[c] = Len(script[c])
                     /\ Readable(c) => Readable(c)'
  <2>1. ASSUME NEW d \in Clients, Connect(d) PROVE Goal
    BY <1>1, <1>2, <2>1 DEF Connect, StayInv, Readable, Unread
  <2>2. ASSUME NEW d \in Clients, Send(d) PROVE Goal
    <3>1. sent'[c] \in Nat /\ sent[c] <= sent'[c] /\ peer' = peer
      BY <1>2, <2>2 DEF Send
    <3>2. QED
      BY <1>1, <1>2, <3>1 DEF StayInv, Readable, Unread
  <2>3. ASSUME NEW d \in Clients, Shut(d) \/ Abort(d) PROVE Goal
    BY <1>1, <1>2, <2>3 DEF Shut, Abort, MayClose, WholePlayers, StayInv, Readable, Unread
  <2>4. CASE UNCHANGED <<peer, sent>>
    BY <1>1, <2>4 DEF StayInv, Readable, Unread
  <2>5. QED
    BY <2>1, <2>2, <2>3, <2>4 DEF Environment, Beside, Drain, Expire, clientVars
<1>4. \A fd \in batch \cap Fds : fd2conn[fd] \in Clients
  BY DEF LoopInv, LoopTypes, Watched
<1>5. QED
  BY <1>1, <1>3, <1>4 DEF StayInv, Listed

\* An event of a connection, and what its handler lists.
LEMMA StayCallback ==
  ASSUME WholePlayers, ServerInv, PlayInv', StayInv, NEW fd \in Fds, ReadCallback(fd)
  PROVE  StayInv'
<1> DEFINE conn == fd2conn[fd]
           n == taken[conn] + 1
           req == script[conn][n]
<1>1. /\ process = "up" /\ fd \in batch /\ fd2event[fd] # None
      /\ batch' = batch \ {fd}
      /\ UNCHANGED <<script, peer, sent, interest, fd2conn>>
  BY DEF ReadCallback, At, clientVars
<1>2. /\ fd2event[fd] = conn /\ conn \in Holding /\ conn \in Clients
      /\ \A f \in Fds \ {fd} : fd2conn[f] # conn
      /\ fd \notin Listed /\ Listed \subseteq Fds
  BY <1>1 DEF ServerInv, LoopInv, LoopTypes, Watched, ListInv, OnceInv, Holding, Listed
<1>3. /\ script[conn] \in Scripts /\ taken[conn] \in Nat /\ sent[conn] \in Nat
      /\ taken[conn] <= sent[conn] /\ sent[conn] <= Len(script[conn])
      /\ taken \in [Clients -> Nat]
  BY <1>2 DEF ServerInv, TypeInv, TypeOK, KernelTypeOK, ReadSent
<1>4. CASE RecvNothing(conn, fd)
  <2>1. UNCHANGED <<taken, rtp, process>> /\ HandleDisConnect(fd)
        /\ (~Unread(conn) \/ peer[conn] = "rst")
    BY <1>4 DEF RecvNothing
  <2>2. peer[conn] \in {"fin", "rst"}
    BY <1>1, <2>1 DEF StayInv, Readable
  <2>3. taken[conn] = Len(script[conn])
    BY <1>2, <2>2, ClosedRead DEF ServerInv
  <2>4. NumOpened(conn) # 1
    BY <1>3, <2>3, Whole DEF NumOpened, Opened, WholePlayers
  <2>5. Len(rtp[conn]) # 1
    BY <1>1, <1>2, <2>4 DEF ServerInv, PlayInv, AsAsked
  <2>6. Listed' = Listed \cup {fd}
    BY <2>1, ListedSteps DEF ServerInv, HandleDisConnect
  <2>7. QED
    BY <1>1, <2>1, <2>5, <2>6 DEF StayInv, Readable, Unread
<1>5. CASE RecvRequest(conn, fd)
  <2>1. /\ Unread(conn)
        /\ taken' = [taken EXCEPT ![conn] = sent[conn]]
        /\ HandleRequest(conn, fd, req)
    BY <1>5 DEF RecvRequest, WholePlayers, OrderlyPlayers
  <2>2. sent[conn] = n /\ n \in DOMAIN script[conn] /\ n \in Nat
    BY <1>2, <2>1, NextRequest DEF ServerInv, PlayInv, WholePlayers
  <2>3. \A c \in Clients : peer[c] \in {"fin", "rst"} => taken'[c] = Len(script[c])
    BY <2>1, <1>2, ClosedRead DEF ServerInv, StayInv
  <2>4. \A f \in batch' \cap Fds : Readable(fd2conn[f])'
    <3>1. \A f \in batch' \cap Fds : fd2conn[f] # conn /\ Readable(fd2conn[f])
      BY <1>1, <1>2 DEF StayInv
    <3>2. \A f \in Fds : fd2conn[f] # conn => (Readable(fd2conn[f])' <=> Readable(fd2conn[f]))
      BY <1>1, <1>3, <2>1 DEF Readable, Unread
    <3>3. QED
      BY <3>1, <3>2
  <2>5. \A f \in Listed : fd2conn[f] \in Clients \ {conn}
    BY <1>2 DEF ServerInv, LoopInv, LoopTypes, ListInv, Listed
  <2>6. /\ req.method = "SETUP" => req.track \in Tracks \cup {"none"}
        /\ req.method = "OPTIONS" => req.name = SessionName
    BY <1>2, <2>1, NextRequest DEF ServerInv, PlayInv, WholePlayers
  <2>7. \A c \in Clients \ {conn} : rtp'[c] = rtp[c]
    BY <1>2, <2>1, <2>6, RequestOpens DEF ServerInv, TypeInv
  <2>8. CASE Listed' = Listed
    BY <1>1, <2>3, <2>4, <2>5, <2>7, <2>8 DEF StayInv
  <2>9. CASE req.method = "TEARDOWN" /\ HandleDisConnect(fd)
    <3>1. WholeAt(script[conn], n)
      BY <1>3, <2>2, <2>9 DEF WholePlayers
    <3>2. taken'[conn] = n
      BY <1>2, <1>3, <2>1, <2>2
    <3>3. script[conn] \in Seq(Requests)
      BY <1>3, KernelAssumption DEF Requests
    <3>4. n <= Len(script[conn])
      BY <2>2, <3>3
    <3>5. (\E i \in 1..n : SetsUp(script[conn], i, TrackId0))
             <=> (\E i \in 1..n : SetsUp(script[conn], i, TrackId1))
      BY <1>3, <2>2, <3>1, <3>4, Whole
    <3>6. script' = script /\ conn' = conn
      BY <1>1
    <3>7. Opened(conn, TrackId0)' <=> Opened(conn, TrackId1)'
      BY ONLY <3>2, <3>5, <3>6 DEF Opened, SetsUp
    <3>8. NumOpened(conn)' # 1
      BY ONLY <3>7 DEF NumOpened
    <3>9. process' = "up" => Len(rtp'[conn]) # 1
      BY <1>1, <1>2, <3>8 DEF PlayInv, AsAsked, Holding
    <3>10. Listed' = Listed \cup {fd}
      BY <2>9, ListedSteps DEF ServerInv, HandleDisConnect
    <3>11. QED
      BY <1>1, <2>3, <2>4, <2>5, <2>7, <3>9, <3>10 DEF StayInv
  <2>10. Listed' = Listed \/ (req.method = "TEARDOWN" /\ HandleDisConnect(fd))
    BY <2>1 DEF HandleRequest, HandleOptions, HandleDescribe, HandleSetup, HandlePlay,
       HandleTeardown, HandleUnknown, disconnectVars, Listed
  <2>11. QED
    BY <2>8, <2>9, <2>10
<1>6. QED
  BY <1>1, <1>2, <1>4, <1>5 DEF ReadCallback

\* Nothing is listed, and no event left, once the connections are destroyed.
LEMMA StayClose ==
  ASSUME LoopInv, StayInv, HandleCloseConnect
  PROVE  StayInv'
<1>1. ListedOnce
  BY DEF LoopInv, ListInv, ListedOnce, Listed
<1>2. /\ interest' = [h \in Handles |-> IF h \in Listed THEN None ELSE interest[h]]
      /\ UNCHANGED <<script, peer, taken, batch>>
  <2>1. Destroy({fd2conn[fd] : fd \in Listed}, Listed) /\ UNCHANGED <<script, peer, taken, batch>>
    BY <1>1, Zenon DEF HandleCloseConnect, clientVars
  <2>2. QED
    BY <2>1, Zenon DEF Destroy, RemoveIOEvent
<1>3. batch = {}
  BY DEF HandleCloseConnect, LoopInv, PhaseInv, At
<1>4. Listed' = {}
  BY CloseRemoves, ListedSteps
<1>5. \A fd \in Fds : interest'[fd] # "writable"
  BY <1>2, KernelAssumption DEF StayInv, Handles, AllEventBits
<1>6. QED
  BY <1>2, <1>3, <1>4, <1>5 DEF StayInv

\* Without a stray EPOLLOUT epoll reports a connection only when a read of it
\* would return.
LEMMA StayWait ==
  ASSUME LoopInv, StayInv, Wait
  PROVE  StayInv'
<1>1. PICK evs \in SUBSET Reportable :
        batch' = evs /\ interest' = Disarm(evs)
  BY DEF Wait, EpollWait
<1>2. UNCHANGED <<script, peer, sent, taken, fd2conn, rtp, process, disconnectList>>
  BY DEF Wait, clientVars, disconnectVars
<1>3. \A fd \in Fds : interest'[fd] # "writable"
  BY <1>1 DEF StayInv, Disarm, Handles
<1>4. ASSUME NEW fd \in batch' \cap Fds PROVE Readable(fd2conn[fd])
  <2>1. StillReady(fd) /\ interest[fd] # None
    BY <1>1 DEF Reportable, StillReady
  <2>2. Readable(fdUse[fd])
    BY <2>1 DEF StillReady, StayInv
  <2>3. fd2conn[fd] = fdUse[fd]
    BY <2>1 DEF LoopInv, Watched
  <2>4. QED
    BY <2>2, <2>3
<1>5. \A fd \in batch' \cap Fds : Readable(fd2conn[fd])'
  BY <1>2, <1>4 DEF Readable, Unread
<1>6. QED
  BY <1>2, <1>3, <1>5 DEF StayInv, Listed

\* A newcomer takes a descriptor that is neither listed nor in the batch.
LEMMA StayAccept ==
  ASSUME WholePlayers, LoopInv, StayInv, HandleRead
  PROVE  StayInv'
<1>1. /\ UNCHANGED <<script, peer, sent, taken, rtp, process, disconnectList>>
      /\ batch' \subseteq batch
  BY DEF HandleRead, disconnectVars
<1> DEFINE Kept == /\ \A f \in Fds : interest'[f] # "writable"
                   /\ \A f \in Fds \ FreeFds : fd2conn'[f] = fd2conn[f]
<1>2. Kept
  <2>1. CASE UNCHANGED <<interest, fd2conn>>
    BY <2>1 DEF StayInv
  <2>2. ASSUME NEW fd \in FreeFds, NEW c, AddIOEvent(fd, c),
               fd2conn' = [fd2conn EXCEPT ![fd] = c]
        PROVE  Kept
    <3>1. \A f \in Fds \ FreeFds : fd2conn'[f] = fd2conn[f]
      BY <2>2 DEF LoopInv, LoopTypes
    <3>2. \A f \in Fds : interest'[f] # "writable"
      BY <2>2 DEF AddIOEvent, StayInv, WholePlayers, LoopInv, LoopTypes, FreeFds, Handles
    <3>3. QED
      BY <3>1, <3>2
  <2>3. QED
    BY <2>1, <2>2 DEF HandleRead
<1>3. \A f \in (batch \cap Fds) \cup Listed : f \in Fds \ FreeFds
  BY KernelAssumption DEF LoopInv, LoopTypes, Watched, ListInv, Listed, FreeFds
<1>4. \A f \in batch' \cap Fds : Readable(fd2conn[f])
  BY <1>1 DEF StayInv
<1>5. \A f \in batch' \cap Fds : Readable(fd2conn[f])'
  BY <1>1, <1>2, <1>3, <1>4 DEF Readable, Unread
<1>6. Listed' = Listed
  BY <1>1, ListedSteps
<1>7. QED
  BY <1>1, <1>2, <1>3, <1>5, <1>6 DEF StayInv

\* StayInv, step by step: a connection ends where its script has set up both
\* tracks or none.
LEMMA StayInvStep ==
  ASSUME WholePlayers, ServerInv, PlayInv', StayInv, [Next]_vars
  PROVE  StayInv'
<1>1. CASE UNCHANGED vars
  BY <1>1 DEF vars, clientVars, kernelVars, pollerVars, disconnectVars, StayInv, Readable, Unread,
     Listed
<1>2. CASE Environment
  BY <1>2, StayEnvironment DEF ServerInv
<1>3. CASE HandleCloseConnect
  BY <1>3, StayClose DEF ServerInv
<1>4. CASE NoTriggerLeft \/ Turn
  BY <1>4 DEF NoTriggerLeft, Turn, clientVars, kernelVars, pollerVars, disconnectVars, StayInv,
     Readable, Unread, Listed
<1>5. CASE Wait
  BY <1>5, StayWait DEF ServerInv
<1>6. CASE HandleRead
  BY <1>6, StayAccept DEF ServerInv
<1>7. ASSUME NEW fd \in Fds, ReadCallback(fd) PROVE StayInv'
  BY <1>7, StayCallback
<1>8. CASE ReadMore
  BY <1>8 DEF ReadMore, ServerInv, PlayInv, OneByOne, At
<1>9. ASSUME NEW h \in Handles, HandleTimeout(h) PROVE StayInv'
  <2>1. /\ UNCHANGED <<script, peer, sent, taken, interest, fd2conn, rtp, disconnectList>>
        /\ batch' \subseteq batch /\ process = "up"
    BY <1>9 DEF HandleTimeout, disconnectVars, At
  <2>2. QED
    BY <2>1 DEF StayInv, Readable, Unread, Listed
<1>10. QED
  BY <1>1, <1>2, <1>3, <1>4, <1>5, <1>6, <1>7, <1>8, <1>9 DEF Next, LoopNext, Ended

\* A request takes nothing from a track.
LEMMA RequestKeeps ==
  ASSUME tracks \in [Tracks -> SUBSET Pointers], NEW conn, NEW fd, NEW req,
         HandleRequest(conn, fd, req)
  PROVE  \A t \in Tracks : tracks[t] \subseteq tracks'[t]
<1>1. ASSUME NEW p1, OpenRtpConnection(conn, req, p1)
      PROVE  \A t \in Tracks : tracks[t] \subseteq tracks'[t]
  BY <1>1 DEF OpenRtpConnection, AddRtpConnection
<1>2. CASE HandleSetup(conn, req)
  BY <1>1, <1>2 DEF HandleSetup, SetupTcp, SetupUdp
<1>3. QED
  BY <1>2 DEF HandleRequest, HandleOptions, HandleDescribe, HandlePlay, HandleTeardown, HandleUnknown

\* Since every connection that ends has set up both tracks or none, no
\* destructor reads past the end of rtp_conns_, and each removes its own.
LEMMA CloseKeeps ==
  ASSUME ServerInv, StayInv, HandleCloseConnect,
         NEW t \in Tracks, NEW ptr \in tracks[t], ~Dangling(ptr)
  PROVE  ptr \in tracks'[t] \/ Dangling(ptr)'
<1> DEFINE conns  == {fd2conn[fd] : fd \in Listed}
           known  == {c \in conns : rtp[c] # <<>> /\ sess[c] = SessionName}
           single == {c \in known : Len(rtp[c]) = 1}
<1>1. ListedOnce /\ process = "up"
  BY DEF ServerInv, LoopInv, ListInv, ListedOnce, Listed, HandleCloseConnect, At
<1>2. Destroy(conns, Listed)
  BY <1>1, Zenon DEF HandleCloseConnect
<1>3. single = {}
  BY <1>1 DEF StayInv
<1>4. tracks \in [Tracks -> SUBSET Pointers] /\ \A q \in tracks[t] : OnTrack(t, q)
  BY DEF ServerInv, PlayInv, TypeInv, TypeOK, SessionTypeOK
<1>5. rtp' = [c \in Clients |-> IF c \in conns THEN <<>> ELSE rtp[c]]
  BY <1>2, Zenon DEF Destroy
<1>6. PICK lost \in SUBSET tracks[TrackId1] :
        /\ Cardinality(lost) <= Cardinality(single)
        /\ RemoveRtpConnections({<<c, 1>> : c \in known}, {<<c, 2>> : c \in known} \cup lost)
  BY <1>2, Zenon DEF Destroy, RemoveSessionOf
<1>7. \A c \in known : c \in conns
  OBVIOUS
<1> HIDE DEF conns, known, single
<1>8. Tracks = {TrackId0, TrackId1} /\ TrackId0 # TrackId1
  BY SessionAssumption, Zenon
<1>9. ptr[1] \in Clients /\ ptr[2] \in {1, 2}
  BY <1>4 DEF OnTrack, ServerInv, LoopInv, LoopTypes, Holding
<1>10. CASE ptr[1] \in conns
  BY <1>5, <1>9, <1>10 DEF Dangling
<1>11. CASE ptr[1] \notin conns
  <2>1. IsFiniteSet(lost)
    <3>1. \A q \in tracks[TrackId1] : q \in Pointers /\ OnTrack(TrackId1, q)
      <4>1. TrackId1 \in Tracks
        BY <1>8
      <4>2. QED
        BY <1>4, <4>1 DEF ServerInv, PlayInv
    <3>2. \A q \in tracks[TrackId1] : q \in Pointers /\ q[2] = 2
      BY <1>8, <3>1 DEF OnTrack
    <3>3. lost \subseteq Clients \X {2}
      BY <1>6, <3>2 DEF Pointers
    <3>4. IsFiniteSet(Clients \X {2})
      BY KernelAssumption, FS_Product, FS_Singleton
    <3>5. QED
      BY <3>3, <3>4, FS_Subset
  <2>2. lost = {}
    BY <1>3, <1>6, <2>1, FS_CardinalityType, FS_EmptySet
  <2>3. /\ ptr \notin {<<c, 1>> : c \in known}
        /\ ptr \notin {<<c, 2>> : c \in known} \cup lost
    BY <1>7, <1>11, <2>2
  <2>4. ptr \in tracks'[t]
    <3>1. t \in {TrackId0, TrackId1}
      BY <1>8
    <3>2. QED
      BY <1>4, <1>6, <2>3, <3>1 DEF RemoveRtpConnections
  <2>5. QED
    BY <2>4
<1>12. QED
  BY <1>10, <1>11

\* The players may be any number and end at any time, with a TEARDOWN or
\* without: an RtpConnection stays on its track until its owner is destroyed.
THEOREM StaysRegisteredHolds ==
  ASSUME WholePlayers
  PROVE  Spec => StaysRegistered
<1> DEFINE Stays == \A t \in Tracks : \A ptr \in tracks[t] :
                      ~Dangling(ptr) => ptr \in tracks'[t] \/ Dangling(ptr)'
<1>1. OrderlyPlayers
  BY DEF WholePlayers
<1>2. ServerInv /\ StayInv /\ [Next]_vars => [Stays]_vars
  <2> SUFFICES ASSUME ServerInv, StayInv, Next PROVE Stays
    OBVIOUS
  <2> DEFINE Keeps == \A t \in Tracks : tracks[t] \subseteq tracks'[t]
  <2>1. CASE HandleCloseConnect
    BY <2>1, CloseKeeps
  <2>2. tracks \in [Tracks -> SUBSET Pointers]
    BY DEF ServerInv, TypeInv, TypeOK, SessionTypeOK
  <2>3. ASSUME NEW fd \in Fds, ReadCallback(fd) PROVE Keeps
    BY <2>2, <2>3, RequestKeeps DEF ReadCallback, RecvNothing, RecvRequest
  <2>4. CASE ReadMore
    BY <2>2, <2>4, RequestKeeps DEF ReadMore
  <2>5. CASE NoTriggerLeft \/ Wait \/ Turn \/ HandleRead \/ Environment \/ Ended
    BY <2>5 DEF NoTriggerLeft, Wait, Turn, HandleRead, Environment, Beside, Ended, vars
  <2>6. ASSUME NEW h \in Handles, HandleTimeout(h) PROVE Keeps
    BY <2>6 DEF HandleTimeout
  <2>7. QED
    BY <2>1, <2>3, <2>4, <2>5, <2>6 DEF Next, LoopNext
<1>3. Init => StayInv
  BY StayInvInit
<1>4. ServerInv /\ ServerInv' /\ StayInv /\ [Next]_vars => StayInv'
  BY StayInvStep DEF ServerInv
<1>5. Spec => []ServerInv
  BY <1>1, ServerInvariant
<1>6. QED
  BY <1>2, <1>3, <1>4, <1>5, PTL DEF Spec, StaysRegistered
=============================================================================
