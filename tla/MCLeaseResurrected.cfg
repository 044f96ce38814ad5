\* A heartbeat that waits for the row while its lease runs out.
SPECIFICATION Spec
CONSTANTS
  w1 = w1  w2 = w2
  Workers = {w1, w2}
  LeaseTicks = 2
  EndOfTime = 4
PROPERTY ExpiredNotRenewed
CHECK_DEADLOCK FALSE
