CONSTANTS
  GPU = GPU
  OTC = OTC
  Channels = {GPU, OTC}
SPECIFICATION ConsoleSpec
INVARIANTS InterruptLine BusyHasAnEnd OneEndPerTransfer NoEndForgotten
PROPERTIES EveryEndIsSeen
