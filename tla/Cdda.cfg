SPECIFICATION FairSpec
CONSTANTS
  Offsets = {1, 3}
  Length = 3
  MaxStarts = 3
INVARIANTS
  OneFile
  SoundMatchesStatus
  QuietAfterStop
PROPERTIES
  CallsReturn
