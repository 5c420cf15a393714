SPECIFICATION Spec
CONSTANTS
  Capacity = 12
  MaxPkt = 3
  SeqMod = 4
  Stray = Stray
  Beyond = Beyond
  AuHeader = 2
  Movies <- MoviesAndRecordings
  MaxFrames = 8
  MaxLost = 3
INVARIANTS TypeOK FramesOfFile NothingAdded NothingLeft PacketsFit Reassembled PicturesApart
PROPERTY ScanNearsEnd
