SPECIFICATION FairSpec
CONSTANTS
  Pages = {0, 1}
  PageSize = 2
  Data = {0, 1}
  PadSizes = {2}
  MaxOver = 1
  MaxTransfers = 2
INVARIANTS
  FileKeepsUp
  NoStrayInterrupt
PROPERTIES
  RefinesCard
  PageArrives
  TransferEnds
