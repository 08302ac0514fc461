CONSTANTS
  VBlank = VBlank
  Rcnt = Rcnt
  Irqs = {VBlank, Rcnt}
  Counters = {Rcnt}
  Forced = {}
SPECIFICATION FairSpec
INVARIANTS WakeUpKept
PROPERTIES RestoresInterruptEnable InterruptsGetThrough
