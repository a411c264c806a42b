SPECIFICATION Spec
CONSTANTS
  NumIntIds = 3
  TimerIntId = 2
INVARIANTS CountExact NoSilentInterrupt
