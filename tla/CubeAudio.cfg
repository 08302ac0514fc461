CONSTANTS
  N = 3
  BufferSizes = {2, 3}
  Chunks = {1, 3, 5}
  Width = 16
  SampleSize = 2
  None = None
SPECIFICATION FairSpec
INVARIANTS NotFilledWhilePlaying
PROPERTIES RefinesQueue FeedReturns RemoveReturns
