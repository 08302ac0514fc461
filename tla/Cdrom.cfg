CONSTANTS
  Commands = {"Sync", "Setmode", "Pause", "Init", "Stop", "SeekL", "GetTN", "Test", "ReadN"}
  Sizes = {1, 3}
  Manners = {"rude", "polling", "waiting"}
  ReadErrors = TRUE
  EndOfFile = TRUE
SPECIFICATION FairSpec
INVARIANTS NeverStranded ResponseKept ReadGoesOn
PROPERTIES ResultsStay ResponsesCome CausesAreSeen SectorsCome
