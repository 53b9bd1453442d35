SPECIFICATION FairSpec
CONSTANTS
  Procs = {p1, p2, p3, p4}
INVARIANT TokensMatchHolders
INVARIANT QueueMatchesSleepers
INVARIANT NoLostWakeup
PROPERTY ImplementsSharedLock
PROPERTY WokenInOrder
PROPERTY SleepersWake
\* The program may stop with everybody asleep and the condition false.
CHECK_DEADLOCK FALSE
