SPECIFICATION RcntFairSpec
CONSTANTS
  Wrap = 4
  One = 4
  Word = 128
  Rates = {2, 16}
  Modes <- MCModes
  Values = {1, 3}
  MaxPending = 2
  MaxLate = 1
PROPERTIES
  FiresWhenReadingSays
  ReadingRuns
  KeepsTicking
