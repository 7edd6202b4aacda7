CONSTANTS
  Addrs <- MCAddrs
  Delays <- MCDelays
  Intervals <- MCIntervals
  MaxTimers = 2
  ClockLimit = 2
  MaxPending = 1
  NoTimer = NoTimer

SPECIFICATION Spec

PROPERTY CancelledTimerNeverRuns

CHECK_DEADLOCK FALSE
