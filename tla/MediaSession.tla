---------------------------- MODULE MediaSession ----------------------------
(***************************************************************************)
(* MediaSession (MediaSession.cpp): for each of its two tracks, the list   *)
(* of raw pointers to the RtpConnections the packets of the track go to.   *)
(* The i-th RtpConnection of client c's RtspConnection is <<c, i>>; the    *)
(* list is a set, since its order is only the order of sending.            *)
(***************************************************************************)
EXTENDS Kernel

CONSTANTS
  TrackId0, TrackId1,
  SessionName           \* the one session main.cpp registers

ASSUME SessionAssumption ==
  /\ Tracks = {TrackId0, TrackId1} /\ TrackId0 # TrackId1
  /\ SessionName \in STRING /\ SessionName # ""

VARIABLE tracks

Pointers == Clients \X (Nat \ {0})

SessionTypeOK == tracks \in [Tracks -> SUBSET Pointers]

SessionInit == tracks = [t \in Tracks |-> {}]

AddRtpConnection(t, ptr) == tracks' = [tracks EXCEPT ![t] = @ \cup {ptr}]

\* Wrong variant: the lists are cleared.
RemoveAllRtpConnections(ptrs0, ptrs1) ==
  tracks' = [t \in Tracks |-> IF ptrs0 \cup ptrs1 = {} THEN tracks[t] ELSE {}]

\* RemoveRtpConnection, for several pointers of each track.
RemoveRtpConnections(ptrs0, ptrs1) ==
  tracks' = [tracks EXCEPT ![TrackId0] = @ \ ptrs0, ![TrackId1] = @ \ ptrs1]
=============================================================================
