CONSTANTS
  SPU = SPU
  Exception = Exception
  Cdrom = Cdrom
  Idle = Idle
  Events = {SPU, Exception, Cdrom}
  Times <- MCTimes
  SpuRate = 3
  IdleDelta = 4
  MaxOvershoot = 2
  MaxLate = 2
  MaxPending = 5
  MaxSoftCalls = 2
SPECIFICATION HLEFairSpec

PROPERTIES BackOnlyAfterLateStore SpuRecurs
