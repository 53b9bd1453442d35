SPECIFICATION FairSpec
CONSTANTS
  p1 = p1
  p2 = p2
  p3 = p3
  a = a
  b = b
  t1 = t1
  t2 = t2
  s1 = s1
  s2 = s2
  Packages = {"tparallel"}
  WGProcs <- MCProcs
  WGDeltas <- MCWGDeltas
  WGMax = 3
  OnceCalls <- MCProcs
  KLProcs <- MCProcs
  KLKeys <- MCKeys
  KLRequests <- MCRequests
  KLNone = none
  TPTests <- MCTests
  TPTop = Run
  TPSubtests <- MCFlat
  TPParallel <- MCTests
  RSCalls <- MCPair
  RSLimit = 1
CHECK_DEADLOCK FALSE
PROPERTY TPRunReturns
