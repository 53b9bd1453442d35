SPECIFICATION FileSpec
CONSTANTS
  NoDir = NoDir
  Calls = {c1, c2}
  IDs = {id1, id2}
  Entries = {{"file", "data"}}
  Faults = {"mkdir", "rename", "unlink", "stat", "open", "close", "crash"}
INVARIANT IncompleteFileWasReported
INVARIANT WriterStartsEmpty
