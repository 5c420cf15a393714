SPECIFICATION Spec
CONSTANTS
  Clients = {c1, c2}
  Fds = {f1, f2}
  Listen = Listen
  TrackId0 = t0
  TrackId1 = t1
  Tracks = {t0, t1}
  Scripts <- Odd
  MaxUnread = 1
  Ticking = {}
  Slow = {}
  Patient = FALSE
  EventBits = {"clean", "writable", "oneshot", "refused"}
  None = None
  Udp = Udp
  InitCapacity = 1
  SessionName = "test"
  MayFill = TRUE
SYMMETRY Sym
INVARIANTS TypeOK DisconnectedOnce TriggerWhenListed BatchOwned DescriptorsAccounted
CONSTRAINT FewAtOnce
