SPECIFICATION FairSpec
CONSTANTS
  Clients = {c1, c2}
  Fds = {f1, f2}
  Listen = Listen
  TrackId0 = t0
  TrackId1 = t1
  Tracks = {t0, t1}
  Scripts <- PlayScripts
  MaxUnread = 1
  Ticking = {t0}
  Slow = {c1}
  Patient = TRUE
  EventBits = {"clean"}
  None = None
  Udp = Udp
  InitCapacity = 2
  SessionName = "test"
  MayFill = FALSE
INVARIANTS NoDanglingRtp
PROPERTIES StaysRegistered RequestsRead Reaped ImplementsLifecycle
