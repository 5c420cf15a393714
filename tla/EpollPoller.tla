----------------------------- MODULE EpollPoller -----------------------------
(***************************************************************************)
(* EpollPoller (Poller.cpp): the map from descriptors to event objects and *)
(* the array epoll_wait fills.  Every event object carries a raw pointer   *)
(* to its owner, so an entry of fd2event is represented by that owner, the *)
(* connection of a client.  The listening socket and the timers register   *)
(* before the loop starts and stay; only connections come and go.          *)
(***************************************************************************)
EXTENDS Kernel

CONSTANT InitCapacity   \* size of events_ at the start (16 in the code)

ASSUME PollerAssumption == InitCapacity \in Nat \ {0}

VARIABLES
  fd2event,     \* fd2event_, for the descriptors of connections
  batch,        \* what the last epoll_wait reported and Poll has yet to handle
  capacity      \* events_.size()

pollerVars == <<fd2event, batch, capacity>>

PollerTypeOK ==
  /\ fd2event \in [Fds -> Clients \cup {None}]
  /\ batch \in SUBSET Handles
  /\ capacity \in Nat \ {0}

\* What epoll_ctl(ADD) leaves on the interest list for a mask of the caller.
Mask(bits) == IF bits = "refused" THEN None ELSE bits

\* (A listening socket or a timer never becomes writable: for them a stray
\* EPOLLOUT is as good as none.)
PollerInit ==
  /\ \E m \in [Handles \ Fds -> (EventBits \ {"writable"}) \cup {"clean"}] :
       interest = [h \in Handles |-> IF h \in Fds THEN None ELSE Mask(m[h])]
  /\ fd2event = [fd \in Fds |-> None]
  /\ batch = {}
  /\ capacity = InitCapacity

\* AddIOEvent for a connection: the mask starts from uninitialised memory.
AddIOEvent(fd, conn) ==
  \E bits \in EventBits :
    IF bits = "refused"
      THEN UNCHANGED <<interest, ready, fd2event>>
      ELSE /\ interest' = [interest EXCEPT ![fd] = bits]
           /\ fd2event' = [fd2event EXCEPT ![fd] = conn]
           /\ ready' = IF bits = "writable" \/ Readable(conn)
                         THEN ready \cup {fd} ELSE ready

\* Wrong variant: the entry of fd2event_ survives.
RemoveIOEventOnlyFromEpoll(fds) ==
  /\ interest' = [h \in Handles |-> IF h \in fds THEN None ELSE interest[h]]
  /\ ready' = ready \ fds
  /\ UNCHANGED fd2event

\* RemoveIOEvent for each of some descriptors: where epoll_ctl(DEL) fails,
\* because the descriptor was never registered, the map keeps its entry.
RemoveIOEvent(fds) ==
  /\ interest' = [h \in Handles |-> IF h \in fds THEN None ELSE interest[h]]
  /\ fd2event' = [fd \in Fds |-> IF fd \in fds /\ interest[fd] # None
                                   THEN None ELSE fd2event[fd]]
  /\ ready' = ready \ fds

\* Wrong variant: events that did not fit into events_ are forgotten.
EpollWaitForgets ==
  \E evs \in SUBSET Reportable :
    /\ Cardinality(evs) = IF Cardinality(Reportable) < capacity
                            THEN Cardinality(Reportable) ELSE capacity
    /\ batch' = evs
    /\ ready' = {}
    /\ interest' = Disarm(evs)
    /\ UNCHANGED <<fd2event, capacity>>

\* The epoll_wait of Poll and the doubling of events_ when it came back full.
EpollWait ==
  \E evs \in SUBSET Reportable :
    /\ Cardinality(evs) = IF Cardinality(Reportable) < capacity
                            THEN Cardinality(Reportable) ELSE capacity
    /\ batch' = evs
    /\ ready' = Reportable \ evs
    /\ interest' = Disarm(evs)
    /\ capacity' = IF Cardinality(evs) = capacity THEN 2 * capacity ELSE capacity
    /\ UNCHANGED fd2event
=============================================================================
