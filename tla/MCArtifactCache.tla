--------------------------- MODULE MCArtifactCache ---------------------------
(* ArtifactCache on a small instance: three calls, two artifacts of two files. *)
EXTENDS ArtifactCache

CONSTANTS c1, c2, c3, id1, id2, f1, f2

MCCalls == {c1, c2, c3}
MCIDs == {id1, id2}
MCEntries == {{f1}, {f2}}
MCFaults == {"mkdir", "rename", "unlink", "stat", "crash"}

\* No system call fails, only the process may die.
MCCrashOnly == {"crash"}
=============================================================================
