SPECIFICATION FairSpec
CONSTANTS
  h264 = h264
  aac = aac
  Sources <- MCSources
  Workers = {w1, w2, w3}
  MaxFrames = 3
  FileFrames <- MCFileFrames
  None = None
INVARIANTS TypeOK OneReader InOrder Replaced
PROPERTY FramePlayed
