SPECIFICATION Spec
CONSTANTS
  c1 = c1
  c2 = c2
  c3 = c3
  id1 = id1
  id2 = id2
  f1 = f1
  f2 = f2
  NoDir = NoDir
  Calls <- MCCalls
  IDs <- MCIDs
  Entries <- MCEntries
  Faults <- MCCrashOnly
INVARIANT GetReturnsWholeArtifact
