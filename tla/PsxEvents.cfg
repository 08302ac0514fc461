CONSTANTS
  SPU = SPU
  Exception = Exception
  Cdrom = Cdrom
  SIO = SIO
  Idle = Idle
  Events = {SPU, Exception, Cdrom, SIO}
  Times <- MCTimes
  SpuRate = 3
  IdleDelta = 4
  MaxOvershoot = 2
  MaxLate = 2
  MaxPending = 5
SPECIFICATION Spec
INVARIANTS DeltasEncodeDeadlines
PROPERTIES RunsAtItsDeadline DisorderNeedsLateSchedule RefinesTimeline
