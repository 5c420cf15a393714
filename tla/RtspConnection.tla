--------------------------- MODULE RtspConnection ---------------------------
(***************************************************************************)
(* RtspConnection (RtspConnection.cpp) and the RtpConnections it opens     *)
(* (Rtp.cpp): what one request does.  The handlers reach the server        *)
(* through two callbacks, which add an RtpConnection to a track and put    *)
(* the connection on the server's list of connections to destroy.          *)
(*                                                                         *)
(* An operator below says what its handler does to the session name and    *)
(* the RtpConnections of the connection, to the tracks, the disconnect     *)
(* list, the descriptors (a UDP SETUP opens two) and the process.          *)
(***************************************************************************)
EXTENDS EpollPoller, MediaSession

VARIABLES
  process,          \* "up", or how the process ended
  sess,             \* session_name_ of each connection
  rtp,              \* rtp_conns_ of each connection
  disconnectList,   \* RtspServer's disconnect_list_
  triggers          \* how often close_trigger_event_ is in trigger_events_

disconnectVars == <<disconnectList, triggers>>

RtpConn == [tcp : BOOLEAN, alive : BOOLEAN]

ConnTypeOK ==
  /\ process \in {"up", "sigpipe", "segv", "aborted", "exited", "undefined"}
  /\ sess \in [Clients -> {""} \cup STRING]    \* "" until an OPTIONS named one
  /\ rtp \in [Clients -> Seq(RtpConn)]
  /\ disconnectList \in Seq(Fds)
  /\ triggers \in Nat

ConnInit ==
  /\ process = "up"
  /\ sess = [c \in Clients |-> ""]
  /\ rtp = [c \in Clients |-> <<>>]
  /\ disconnectList = <<>>
  /\ triggers = 0

-----------------------------------------------------------------------------
(* RtspServer::handleDisConnect, behind both disconnect_cb_ and            *)
(* RtspCloseCb: the connection is only put on the list, since it is one of *)
(* its own member functions that is running.                               *)

\* Wrong variant: every disconnect queues the trigger.
HandleDisConnectAlwaysTriggers(fd) ==
  /\ disconnectList' = Append(disconnectList, fd)
  /\ triggers' = triggers + 1

HandleDisConnect(fd) ==
  /\ disconnectList' = Append(disconnectList, fd)
  /\ triggers' = IF Len(disconnectList) = 0 THEN triggers + 1 ELSE triggers

-----------------------------------------------------------------------------
(* The handlers.  conn is the client whose connection runs the handler, fd *)
(* its descriptor, req the request.                                        *)

\* The reply: a Write to the connection, whose result is ignored.
Reply(conn) == conn \notin full /\ process' \in WriteOutcomes(conn)

\* Only OPTIONS sets session_name_, also when no such session exists.
HandleOptions(conn, req) ==
  /\ req.method = "OPTIONS"
  /\ sess' = [sess EXCEPT ![conn] = req.name]
  /\ Reply(conn)
  /\ UNCHANGED <<rtp, tracks, fdUse, disconnectVars>>

\* Without a known session LookMediaSession returns null and is dereferenced.
HandleDescribe(conn, req) ==
  /\ req.method = "DESCRIBE"
  /\ IF sess[conn] = SessionName THEN Reply(conn) ELSE process' = "segv"
  /\ UNCHANGED <<sess, rtp, tracks, fdUse, disconnectVars>>

(* is_tcp_ when a SETUP is handled: set by the last Transport line in      *)
(* rbuf_, which still holds the tails of earlier reads and whatever        *)
(* followed the request in this one; uninitialised before any such line.   *)
TransportIsTcp(conn) ==
  LET heard == {script[conn][i].transport : i \in 1..sent[conn]} \ {"none"}
  IN IF heard = {} THEN BOOLEAN ELSE {t = "tcp" : t \in heard}

\* The descriptors a UDP RtpConnection opens: two, or what is left of them.
UdpSockets ==
  {fds \in SUBSET FreeFds :
     Cardinality(fds) = IF Cardinality(FreeFds) < 2 THEN Cardinality(FreeFds) ELSE 2}

\* Wrong variant: the track gets the pointer before rtp_conns_ has grown.
OpenRtpConnectionTooEarly(conn, req, p1) ==
  /\ rtp' = [rtp EXCEPT ![conn] = Append(@, p1)]
  /\ IF req.track \in Tracks /\ sess[conn] = SessionName
       THEN AddRtpConnection(req.track, <<conn, Len(rtp[conn])>>)
       ELSE UNCHANGED tracks
  /\ IF req.track \in Tracks THEN Reply(conn) ELSE UNCHANGED process

\* p1 joins rtp_conns_ before the track is looked at; on a track that does
\* not exist it stays there, unregistered, and there is no reply.
OpenRtpConnection(conn, req, p1) ==
  /\ rtp' = [rtp EXCEPT ![conn] = Append(@, p1)]
  /\ IF req.track \in Tracks /\ sess[conn] = SessionName
       THEN AddRtpConnection(req.track, <<conn, Len(rtp[conn]) + 1>>)
       ELSE UNCHANGED tracks
  /\ IF req.track \in Tracks THEN Reply(conn) ELSE UNCHANGED process

SetupTcp(conn, req) ==
  /\ OpenRtpConnection(conn, req, [tcp |-> TRUE, alive |-> FALSE])
  /\ UNCHANGED fdUse

\* The RTCP socket is bound to local_rtcp_port_, which was never given a value;
\* a bind that fails exits the process.
SetupUdp(conn, req) ==
  \/ \E fds \in UdpSockets :
       /\ fdUse' = [fd \in Fds |-> IF fd \in fds THEN Udp ELSE fdUse[fd]]
       /\ OpenRtpConnection(conn, req, [tcp |-> FALSE, alive |-> FALSE])
  \/ /\ FreeFds # {}
     /\ process' = "exited"
     /\ UNCHANGED <<fdUse, rtp, tracks>>

HandleSetup(conn, req) ==
  /\ req.method = "SETUP"
  /\ \/ /\ req.track = "none"
        /\ UNCHANGED <<rtp, tracks, fdUse, process>>
     \/ /\ req.track # "none"
        /\ \/ TRUE \in TransportIsTcp(conn) /\ SetupTcp(conn, req)
           \/ FALSE \in TransportIsTcp(conn) /\ SetupUdp(conn, req)
  /\ UNCHANGED <<sess, disconnectVars>>

HandlePlay(conn, req) ==
  /\ req.method = "PLAY"
  /\ Reply(conn)
  /\ rtp' = [rtp EXCEPT ![conn] =
       [i \in DOMAIN rtp[conn] |-> [rtp[conn][i] EXCEPT !.alive = TRUE]]]
  /\ UNCHANGED <<sess, tracks, fdUse, disconnectVars>>

\* Wrong variant: both callbacks of the connection are called.
HandleTeardownTwice(conn, fd, req) ==
  /\ req.method = "TEARDOWN"
  /\ Reply(conn)
  /\ disconnectList' = disconnectList \o <<fd, fd>>
  /\ triggers' = IF disconnectList = <<>> THEN 1 ELSE triggers
  /\ UNCHANGED <<sess, rtp, tracks, fdUse>>

HandleTeardown(conn, fd, req) ==
  /\ req.method = "TEARDOWN"
  /\ Reply(conn)
  /\ HandleDisConnect(fd)
  /\ UNCHANGED <<sess, rtp, tracks, fdUse>>

HandleUnknown(req) ==
  /\ req.method = "UNKNOWN"
  /\ UNCHANGED <<process, sess, rtp, tracks, fdUse, disconnectVars>>

HandleRequest(conn, fd, req) ==
  \/ HandleOptions(conn, req)
  \/ HandleDescribe(conn, req)
  \/ HandleSetup(conn, req)
  \/ HandlePlay(conn, req)
  \/ HandleTeardown(conn, fd, req)
  \/ HandleUnknown(req)

-----------------------------------------------------------------------------
(* The destructor.                                                         *)

\* Wrong variant: the second RtpConnection is forgotten.
RemoveSessionOfTrack0(conns) ==
  RemoveRtpConnections({<<c, 1>> : c \in {d \in conns : sess[d] = SessionName}}, {})

(* The RtpConnections of each connection in conns: the first is taken from *)
(* track 0 and the second from track 1, of the session its connection      *)
(* names now.  With a single RtpConnection, rtp_conns_[1] is read out of   *)
(* bounds and may hold any pointer: lost is what such reads remove.        *)
RemoveSessionOf(conns) ==
  LET known  == {c \in conns : rtp[c] # <<>> /\ sess[c] = SessionName}
      single == {c \in known : Len(rtp[c]) = 1}
  IN \E lost \in SUBSET tracks[TrackId1] :
       /\ Cardinality(lost) <= Cardinality(single)
       /\ RemoveRtpConnections({<<c, 1>> : c \in known},
                               {<<c, 2>> : c \in known} \cup lost)

\* ~RtspConnection of each connection in conns, which hold the descriptors fds.
Destroy(conns, fds) ==
  /\ RemoveIOEvent(fds)
  /\ RemoveSessionOf(conns)
  /\ fdUse' = [fd \in Fds |-> IF fd \in fds THEN None ELSE fdUse[fd]]
  /\ sess' = [c \in Clients |-> IF c \in conns THEN "" ELSE sess[c]]
  /\ rtp' = [c \in Clients |-> IF c \in conns THEN <<>> ELSE rtp[c]]
=============================================================================
