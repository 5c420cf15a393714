SPECIFICATION Spec
CONSTANTS
  Capacity = 12
  MaxPkt = 3
  SeqMod = 4
  Stray = Stray
  Beyond = Beyond
  AuHeader = 2
  Movies <- StraddlingMovies
  MaxFrames = 5
  MaxLost = 1
INVARIANT FramesOfFile
