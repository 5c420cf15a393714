--------------------------- MODULE ConnLifecycle ---------------------------
(***************************************************************************)
(* What the server promises about connections, without saying how: each    *)
(* client's connection is opened at most once, on a descriptor nothing     *)
(* else holds; once it hung up it is doomed for good; and all doomed       *)
(* connections are released together, never one that did not hang up.      *)
(* Whatever is doomed is released in the end, unless the process ends.     *)
(***************************************************************************)
EXTENDS Naturals, FiniteSets

CONSTANTS Clients, Fds, None

VARIABLES
  holder,   \* the client whose connection a descriptor is
  doomed,   \* descriptors of connections that hung up
  gone,     \* clients whose connection was released
  running

vars == <<holder, doomed, gone, running>>

Init ==
  /\ holder = [fd \in Fds |-> None]
  /\ doomed = {}
  /\ gone = {}
  /\ running = TRUE

Open(fd, c) ==
  /\ holder[fd] = None
  /\ c \notin gone
  /\ \A other \in Fds : holder[other] # c
  /\ holder' = [holder EXCEPT ![fd] = c]
  /\ UNCHANGED <<doomed, gone>>

Hangup(fd) ==
  /\ holder[fd] # None
  /\ fd \notin doomed
  /\ doomed' = doomed \cup {fd}
  /\ UNCHANGED <<holder, gone>>

Release ==
  /\ doomed # {}
  /\ gone' = gone \cup {holder[fd] : fd \in doomed}
  /\ holder' = [fd \in Fds |-> IF fd \in doomed THEN None ELSE holder[fd]]
  /\ doomed' = {}

\* The process may end with any step, and then everything stays as it is.
Next ==
  /\ running
  /\ \/ \E fd \in Fds, c \in Clients : Open(fd, c)
     \/ \E fd \in Fds : Hangup(fd)
     \/ Release
     \/ UNCHANGED <<holder, doomed, gone>>
  /\ running' \in BOOLEAN

Safety == Init /\ [][Next]_vars

DoomedReleased == \A fd \in Fds : fd \in doomed ~> (fd \notin doomed \/ ~running)

Spec == Safety /\ DoomedReleased
=============================================================================
