SPECIFICATION FairSpec
CONSTANTS
  p1 = p1
  p2 = p2
  p3 = p3
  a = a
  b = b
  t1 = t1
  t2 = t2
  s1 = s1
  s2 = s2
  Packages = {"waitgroup", "once", "keylock", "tparallel", "rsem"}
  WGProcs <- MCProcs
  WGDeltas <- MCWGDeltas
  WGMax = 3
  OnceCalls <- MCProcs
  KLProcs <- MCProcs
  KLKeys <- MCKeys
  KLRequests <- MCRequests
  KLNone = none
  TPTests <- MCTests
  TPTop = Run
  TPSubtests <- MCSubtests
  TPParallel <- MCTests
  RSCalls <- MCPair
  RSLimit = 1
INVARIANT WGTokenMeansZero
INVARIANT OnceBeforeReturn
INVARIANT KLKeysConserved
INVARIANT TPSequentialAlone
INVARIANT TPRunWaitsForAll
INVARIANT RSLimitHolds
PROPERTY WGWaitersReturn
PROPERTY KLOthersDoNotMatter
PROPERTY RSWaiterGetsIn
CHECK_DEADLOCK FALSE
