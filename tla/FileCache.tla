------------------------------ MODULE FileCache ------------------------------
(***************************************************************************)
(* distbuild/pkg/filecache/filecache.go: a cache of single files on top of *)
(* the artifact cache.  A file is an artifact whose only entry is the file *)
(* "file"; it has come into being ("file") before its bytes are all there  *)
(* ("data"), and one unlink takes both away.                               *)
(*                                                                         *)
(* Remove, Get and the lock protocol are those of ArtifactCache, called    *)
(* unchanged; Write, the fileWriter and its abort are new.  The caller is  *)
(* one that writes all the bytes and then calls Close, or calls abort.     *)
(***************************************************************************)
EXTENDS ArtifactCache

ASSUME FileCacheAssumption == Entries = {{"file", "data"}}

VARIABLES
  file,  \* file[c]: the *os.File of a call of Write
  lost   \* history: IDs whose last fileWriter saw f.Close fail

fvars == <<vars, file, lost>>

FileTypeOK ==
  /\ TypeOK
  /\ file \in [Calls -> {"none", "open", "written", "closed", "panicked"}]
  /\ lost \subseteq IDs

FileInit ==
  /\ Init
  /\ file = [c \in Calls |-> "none"]
  /\ lost = {}

SetFile(c, state) == file' = [file EXCEPT ![c] = state]

\* Mutant: the file is opened without O_TRUNC.
OpenFileKeepingData(c) ==
  /\ pc[c] = "writing" /\ file[c] = "none"
  /\ \/ /\ tmp' = [tmp EXCEPT ![item[c]] = @ \union {"file"}]
        /\ lost' = lost \ {item[c]}
        /\ SetFile(c, "open")
     \/ /\ "open" \in Faults
        /\ SetFile(c, "panicked")
        /\ UNCHANGED <<tmp, lost>>
  /\ UNCHANGED <<cached, writeLocked, readLocked, pc, item, cut>>

\* os.Create truncates.  When it fails, Write calls its result abort, still
\* nil, and the goroutine panics: it never gets to commit or abortDir.
OpenFile(c) ==
  /\ pc[c] = "writing" /\ file[c] = "none"
  /\ \/ /\ tmp' = [tmp EXCEPT ![item[c]] = {"file"}]
        /\ lost' = lost \ {item[c]}
        /\ SetFile(c, "open")
     \/ /\ "open" \in Faults
        /\ SetFile(c, "panicked")
        /\ UNCHANGED <<tmp, lost>>
  /\ UNCHANGED <<cached, writeLocked, readLocked, pc, item, cut>>

WriteData(c) ==
  /\ file[c] = "open"
  /\ tmp' = [tmp EXCEPT ![item[c]] = Whole]
  /\ SetFile(c, "written")
  /\ UNCHANGED <<cached, writeLocked, readLocked, pc, item, cut, lost>>

\* Mutant: a failed f.Close goes unnoticed.
CloseFileUnreported(c) ==
  /\ file[c] = "written"
  /\ SetFile(c, "closed")
  /\ \/ UNCHANGED tmp
     \/ "close" \in Faults /\ tmp' = [tmp EXCEPT ![item[c]] = {"file"}]
  /\ UNCHANGED <<cached, writeLocked, readLocked, pc, item, cut, lost>>

\* fileWriter.Close, its first half: a failed close may have lost bytes.
CloseFile(c) ==
  /\ file[c] = "written"
  /\ SetFile(c, "closed")
  /\ \/ UNCHANGED <<tmp, lost>>
     \/ /\ "close" \in Faults
        /\ \E d \in {{"file"}, Whole} : tmp' = [tmp EXCEPT ![item[c]] = d]
        /\ lost' = lost \union {item[c]}
  /\ UNCHANGED <<cached, writeLocked, readLocked, pc, item, cut>>

\* Its second half: the commit, whatever f.Close returned.
CommitFile(c) ==
  /\ file[c] = "closed"
  /\ Rename(c)
  /\ SetFile(c, "none")
  /\ UNCHANGED lost

\* abort: closes the file and goes on to abortDir, whatever f.Close returned.
AbortFile(c) ==
  /\ file[c] \in {"open", "written"}
  /\ Abort(c)
  /\ SetFile(c, "none")
  /\ UNCHANGED lost

FileRestart ==
  /\ Restart
  /\ file' = [c \in Calls |-> "none"]
  /\ UNCHANGED lost

\* What is handed to the artifact cache as it is: Create at the head of Write,
\* Remove and Get, and the rest of such a call inside the artifact cache.
BeginWrite(c, id) == Create(c, id) /\ UNCHANGED <<file, lost>>
RemoveFile(c, id) == Remove(c, id) /\ UNCHANGED <<file, lost>>
GetFile(c, id) == Get(c, id) /\ UNCHANGED <<file, lost>>

InArtifactCache(c) ==
  /\ \/ Mkdir(c) \/ AbortStep(c) \/ RemoveStep(c)
     \/ Stat(c) \/ EndGet(c) \/ Unlock(c)
  /\ UNCHANGED <<file, lost>>

FileNext ==
  \/ \E c \in Calls, id \in IDs :
       BeginWrite(c, id) \/ RemoveFile(c, id) \/ GetFile(c, id)
  \/ \E c \in Calls :
       \/ InArtifactCache(c) \/ OpenFile(c) \/ WriteData(c)
       \/ CloseFile(c) \/ CommitFile(c) \/ AbortFile(c)
  \/ FileRestart

FileSpec == FileInit /\ [][FileNext]_fvars
-----------------------------------------------------------------------------
\* An incomplete file sits in the cache only after a removal that stopped half
\* way, or after a Close that told its caller about the loss.
IncompleteFileWasReported ==
  \A id \in IDs :
    cached[id] \in {NoDir, Whole} \/ id \in cut \union lost
      \/ \E c \in Calls : pc[c] = "removing" /\ item[c] = id

\* A writer starts from an empty file, although a failed commit or abort may
\* have left the bytes of an earlier writer in the temporary directory.
WriterStartsEmpty == \A c \in Calls : file[c] = "open" => tmp[item[c]] = {"file"}

\* artifact/README.md: a goroutine that began to write calls commit or abort
\* when it is done with the artifact.  A Write that has ended, by whichever
\* path, should therefore not go on holding the write lock.
EndedWriteHoldsNoLock ==
  \A c \in Calls : file[c] = "panicked" => item[c] \notin writeLocked
=============================================================================
