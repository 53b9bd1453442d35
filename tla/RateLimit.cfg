SPECIFICATION FairSpec
CONSTANTS
  Calls = {a1, a2}
  MaxCounts = {1}
  Intervals = {0, 3}
  Tick = 2
INVARIANT RateWithinLag
PROPERTY NoOvertaking
PROPERTY AcquireReturns
