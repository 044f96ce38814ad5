\* A normalization or an extraction job; the clock stops at EndOfTime.
SPECIFICATION Spec
CONSTANTS
  w1 = w1  w2 = w2
  Workers = {w1, w2}
  LeaseTicks = 2
  EndOfTime = 6
PROPERTIES WriteFenced RenewalFenced RenewalBounded
CHECK_DEADLOCK FALSE
