---------------------------- MODULE MCRtspServer ----------------------------
(***************************************************************************)
(* Instances of RtspServer for TLC: the requests clients may send.         *)
(***************************************************************************)
EXTENDS RtspServer, TLC

Req(m, name, track, transport) ==
  [method |-> m, name |-> name, track |-> track, transport |-> transport]

Plain(m) == Req(m, SessionName, "none", "none")
Setup(track, transport) == Req("SETUP", SessionName, track, transport)

\* What ffplay sends, over TCP.
Play == <<Plain("OPTIONS"), Plain("DESCRIBE"), Setup(TrackId0, "tcp"),
          Setup(TrackId1, "tcp"), Plain("PLAY"), Plain("TEARDOWN")>>

\* The shortest sequences that reach every branch of the handlers.
Odd == {
  <<Plain("OPTIONS"), Setup(TrackId0, "tcp"), Plain("TEARDOWN")>>,
  <<Plain("OPTIONS"), Setup("bad", "udp"), Setup(TrackId1, "none")>>,
  <<Req("OPTIONS", "other", "none", "none"), Setup("none", "none"), Plain("DESCRIBE")>>,
  <<Plain("UNKNOWN"), Setup(TrackId0, "none")>>}

\* Clients that set up both tracks, track 0 first, or none.
PlayScripts == {Play, SubSeq(Play, 1, 5), SubSeq(Play, 1, 1)}

\* The instance with these scripts is one NoDanglingRtp and StaysRegistered are
\* proved for.
ASSUME PlayAssumption == Scripts = PlayScripts /\ Patient => WholePlayers

\* Clients that only ask what the server can do.
HelloScripts == {SubSeq(Play, 1, 1)}

\* A client that sets up track 1 before track 0.
ReversedScripts ==
  {<<Plain("OPTIONS"), Setup(TrackId1, "tcp"), Setup(TrackId0, "tcp"), Plain("TEARDOWN")>>}

\* Clients that play both tracks, and clients that set up track 0 alone.
OneSetupScripts ==
  {SubSeq(Play, 1, 5), <<Plain("OPTIONS"), Setup(TrackId0, "tcp"), Plain("TEARDOWN")>>}

\* Bound: a mask with a stray EPOLLONESHOT, a mask that was refused, or a loop
\* blocked in read() is explored only while at most one client has connected;
\* everything else with all of them.  The masks of the timers, which stand still
\* where this bound is used, make no difference.
Seldom ==
  \/ reading # None
  \/ \E h \in Handles :
       /\ interest[h] \notin {"clean", "writable"}
       /\ h \in Fds => fd2conn[h] # None

FewAtOnce ==
  /\ Seldom => Cardinality({c \in Clients : peer[c] # "absent"}) <= 1
  /\ \A t \in Tracks : interest[t] = "clean"

Sym == Permutations(Clients) \cup Permutations(Fds)
=============================================================================
