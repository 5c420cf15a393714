------------------------------- MODULE Kernel -------------------------------
(***************************************************************************)
(* What the code uses of the operating system, and the clients at the      *)
(* other end of it: TCP connections, the table of file descriptors, and    *)
(* the interest and ready lists of the one epoll instance.  Nothing here   *)
(* is code of the repository; each definition is what the calls in         *)
(* Poller.cpp, SocketHelper.cpp, RtspServer.cpp and RtspConnection.cpp     *)
(* rely on.                                                                *)
(*                                                                         *)
(* A client connects once and then sends, in order, the requests of the    *)
(* script it was given.  The bytes of a request are abstracted to the      *)
(* fields the handlers read.                                               *)
(***************************************************************************)
EXTENDS Naturals, Sequences, FiniteSets

CONSTANTS
  Clients,      \* the clients, each good for one connection
  Fds,          \* descriptors the process may open besides its fixed ones
  Listen,       \* the listening socket
  Tracks,       \* one timer descriptor per track
  Scripts,      \* the request sequences a client may send
  MaxUnread,    \* bound on the requests in flight from one client
  Ticking,      \* bound on the timers: the tracks whose timer runs at all
  Slow,         \* bound on the clients that fall behind with reading
  Patient,      \* TRUE: a client closes only after its whole script was read
  EventBits,    \* what epoll_ctl(ADD) may make of the events mask
  None,         \* "nobody", "no entry"
  Udp           \* holder of the descriptors of UDP sockets

Methods == {"OPTIONS", "DESCRIBE", "SETUP", "PLAY", "TEARDOWN", "UNKNOWN"}

(* The mask of a struct epoll_event that was never zeroed: "clean" is the     *)
(* mask the code asks for (EPOLLIN|EPOLLET); "writable" and "oneshot" have *)
(* a stray EPOLLOUT or EPOLLONESHOT; "refused" is one epoll_ctl rejects.   *)
AllEventBits == {"clean", "writable", "oneshot", "refused"}

ASSUME KernelAssumption ==
  /\ IsFiniteSet(Clients) /\ IsFiniteSet(Fds) /\ IsFiniteSet(Tracks)
  /\ Tracks \cap {"bad", "none"} = {}
  /\ Fds \cap Tracks = {} /\ Listen \notin Fds \cup Tracks
  /\ None \notin Clients \cup Fds \cup Tracks \cup {Udp, Listen}
  /\ None \notin AllEventBits \cup {"disarmed"}
  /\ Udp \notin Clients
  /\ MaxUnread \in Nat \ {0}
  /\ Ticking \subseteq Tracks
  /\ Slow \subseteq Clients
  /\ Patient \in BOOLEAN
  /\ EventBits \in SUBSET AllEventBits
  /\ \A s \in Scripts :
       /\ s \in Seq([method : Methods, name : STRING,
                     track : Tracks \cup {"bad", "none"},
                     transport : {"tcp", "udp", "none"}])

VARIABLES
  script,       \* the script of each client
  peer,         \* "absent", "here", "fin" (closed) or "rst" (aborted)
  sent,         \* how many requests of its script a client has sent
  taken,        \* how many of those the server's recv has consumed
  backlog,      \* connections waiting in the listen queue
  full,         \* clients that have not read what fills the buffer of their socket
  fdUse,        \* who holds a descriptor: a client, Udp, or None (free)
  interest,     \* epoll's interest list: the mask a descriptor is held with
  ready         \* epoll's ready list

clientVars == <<script, peer, sent, backlog, full>>
kernelVars == <<fdUse, interest, ready>>

Handles == Fds \cup {Listen} \cup Tracks

KernelTypeOK ==
  /\ script \in [Clients -> Scripts]
  /\ peer \in [Clients -> {"absent", "here", "fin", "rst"}]
  /\ sent \in [Clients -> Nat]
  /\ taken \in [Clients -> Nat]
  /\ backlog \in Seq(Clients)
  /\ full \subseteq Slow
  /\ fdUse \in [Fds -> Clients \cup {Udp, None}]
  /\ interest \in [Handles -> AllEventBits \cup {"disarmed", None}]
  /\ ready \in SUBSET Handles

KernelInit ==
  /\ script \in [Clients -> Scripts]
  /\ peer = [c \in Clients |-> "absent"]
  /\ sent = [c \in Clients |-> 0]
  /\ taken = [c \in Clients |-> 0]
  /\ backlog = <<>>
  /\ full = {}
  /\ fdUse = [fd \in Fds |-> None]
  /\ ready = {}

FreeFds == {fd \in Fds : fdUse[fd] = None}

Unread(c) == sent[c] > taken[c]

\* A read of the connection would return something, if only 0 or an error.
Readable(c) == Unread(c) \/ peer[c] \in {"fin", "rst"}

-----------------------------------------------------------------------------
(* The clients.  Every arrival is an edge: it puts the descriptor, if      *)
(* epoll watches it, on the ready list.                                    *)

WakeFdOf(c) ==
  ready' = ready \cup {fd \in Fds : fdUse[fd] = c /\ interest[fd] # None}

Connect(c) ==
  /\ peer[c] = "absent"
  /\ peer' = [peer EXCEPT ![c] = "here"]
  /\ backlog' = Append(backlog, c)
  /\ ready' = IF interest[Listen] = None THEN ready ELSE ready \cup {Listen}
  /\ UNCHANGED <<script, sent, taken, full, fdUse, interest>>

Send(c) ==
  /\ peer[c] = "here"
  /\ sent[c] < Len(script[c])
  /\ sent[c] - taken[c] < MaxUnread
  /\ sent' = [sent EXCEPT ![c] = @ + 1]
  /\ WakeFdOf(c)
  /\ UNCHANGED <<script, peer, taken, backlog, full, fdUse, interest>>

MayClose(c) == Patient => taken[c] = Len(script[c])

\* An orderly close (FIN).
Shut(c) ==
  /\ peer[c] = "here"
  /\ MayClose(c)
  /\ peer' = [peer EXCEPT ![c] = "fin"]
  /\ WakeFdOf(c)
  /\ UNCHANGED <<script, sent, taken, backlog, full, fdUse, interest>>

\* A reset, also what a closed peer answers to data.
Abort(c) ==
  /\ peer[c] \in {"here", "fin"}
  /\ MayClose(c)
  /\ peer' = [peer EXCEPT ![c] = "rst"]
  /\ full' = full \ {c}
  /\ WakeFdOf(c)
  /\ UNCHANGED <<script, sent, taken, backlog, fdUse, interest>>

\* The client reads, or after its close the kernel does.
Drain(c) ==
  /\ c \in full
  /\ full' = full \ {c}
  /\ UNCHANGED <<script, peer, sent, taken, backlog, kernelVars>>

\* The timer of a track runs out (again).
Expire(t) ==
  /\ interest[t] # None
  /\ ready' = ready \cup {t}
  /\ UNCHANGED <<clientVars, taken, fdUse, interest>>

-----------------------------------------------------------------------------
(* The calls.                                                              *)

\* epoll_wait looks again at what is on the ready list: an edge whose data
\* was read in the meantime is dropped.
StillReady(h) ==
  /\ interest[h] \notin {"disarmed", None}
  /\ h = Listen => backlog # <<>>
  /\ h \in Fds => interest[h] = "writable" \/ Readable(fdUse[h])

Reportable == {h \in ready : StillReady(h)}

\* What is left of the interest list once the events in evs were reported.
Disarm(evs) ==
  [h \in Handles |->
     IF h \in evs /\ interest[h] = "oneshot" THEN "disarmed" ELSE interest[h]]

\* write() and send() to a connection the peer has reset fail, and may raise
\* SIGPIPE, which nothing in the program catches or ignores.  The sockets are
\* blocking: without room for the data the calls wait (a step that writes is
\* guarded by c \notin full).
WriteOutcomes(c) == IF peer[c] = "rst" THEN {"up", "sigpipe"} ELSE {"up"}
=============================================================================
