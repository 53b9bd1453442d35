SPECIFICATION Spec
CONSTANTS
  Calls = {a1, a2}
  MaxCounts = {1}
  Intervals = {0, 3}
  Tick = 2
INVARIANT RateWithinInterval
