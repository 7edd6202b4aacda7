CONSTANTS
  Addrs <- MCAddrs
  Delays <- MCDelays
  Intervals <- MCIntervals
  MaxTimers = 3
  ClockLimit = 2
  MaxPending = 1
  NoTimer = NoTimer

SPECIFICATION Spec

INVARIANT TypeOK
INVARIANT TimerOwnership
INVARIANT NoLostWakeup
PROPERTY DueTimerRuns

CHECK_DEADLOCK FALSE
