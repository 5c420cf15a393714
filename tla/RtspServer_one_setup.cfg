SPECIFICATION Spec
CONSTANTS
  Clients = {c1, c2}
  Fds = {f1, f2}
  Listen = Listen
  TrackId0 = t0
  TrackId1 = t1
  Tracks = {t0, t1}
  Scripts <- OneSetupScripts
  MaxUnread = 1
  Ticking = {t0}
  Slow = {}
  Patient = TRUE
  EventBits = {"clean"}
  None = None
  Udp = Udp
  InitCapacity = 2
  SessionName = "test"
  MayFill = FALSE
PROPERTY StaysRegistered
