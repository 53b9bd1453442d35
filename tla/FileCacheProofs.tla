--------------------------- MODULE FileCacheProofs ---------------------------
(***************************************************************************)
(* Proofs about FileCache, on top of those about the artifact cache.  Most *)
(* of its steps are steps of the artifact cache, whose lemmas then apply;  *)
(* the others write into the directory of a lone writer, or rename it      *)
(* whatever it holds.                                                      *)
(***************************************************************************)
EXTENDS FileCache, ArtifactCacheProofs

(* Of two calls inside write sections of one artifact there is only one.   *)
LEMMA WriterIsAlone ==
  ASSUME CoreInv, NEW c \in Calls, NEW d \in Calls,
         pc[c] \in WriteSection, pc[d] \in WriteSection, item[c] = item[d]
  PROVE  c = d
BY DEF CoreInv, TypeOK, LocksMatchCalls, Writers

(* A writer may put anything into its directory.                           *)
LEMMA FillKeepsCore ==
  ASSUME CoreInv, NEW c \in Calls, pc[c] = "writing", NEW dir \in SUBSET Whole,
         tmp' = [tmp EXCEPT ![item[c]] = dir],
         UNCHANGED <<cached, writeLocked, readLocked, pc, item, cut>>
  PROVE  CoreInv'
<1> USE DEF CoreInv
<1>1. TypeOK'
  BY DEF TypeOK, Dirs
<1>2. LocksMatchCalls'
  <2>1. \A i : Writers(i)' = Writers(i) /\ Readers(i)' = Readers(i)
    BY DEF Writers, Readers
  <2> QED
    BY <2>1 DEF LocksMatchCalls
<1>3. WriterKeepsDirectory'
  BY CacheAssumption DEF WriterKeepsDirectory, TypeOK
<1>4. NothingCachedYet'
  BY DEF NothingCachedYet
<1> QED
  BY <1>1, <1>2, <1>3, <1>4

(* A writer may rename its directory, complete or not.                     *)
LEMMA RenameKeepsCore ==
  ASSUME CoreInv, NEW c \in Calls, pc[c] = "writing", Rename(c)
  PROVE  CoreInv'
<1> USE DEF CoreInv
<1>1. TypeOK'
  BY WholeIsADirectory DEF Rename, Goto, TypeOK, WriteSection
<1>2. LocksMatchCalls'
  BY StayKeepsLocks DEF Rename, WriteSection
<1>3. ASSUME NEW d \in Calls, pc'[d] \in {"mkdir", "writing", "aborting"}
      PROVE  /\ item' = item /\ item[d] # item[c]
             /\ pc[d] = pc'[d]
             /\ tmp'[item[d]] = tmp[item[d]] /\ cached'[item[d]] = cached[item[d]]
  <2>1. d # c /\ pc[d] = pc'[d] /\ item' = item
    BY <1>3 DEF Rename, Goto, TypeOK
  <2>2. item[d] # item[c]
    BY <1>3, <2>1, WriterIsAlone DEF WriteSection
  <2> QED
    BY <2>1, <2>2 DEF Rename, TypeOK
<1>4. WriterKeepsDirectory'
  BY <1>3 DEF WriterKeepsDirectory
<1>5. NothingCachedYet'
  BY <1>3 DEF NothingCachedYet
<1> QED
  BY <1>1, <1>2, <1>4, <1>5
-----------------------------------------------------------------------------
(* What the file of each writer says about its directory.  A directory that *)
(* is committed is whole or its loss was reported, and this is so only as  *)
(* long as nobody else writes there: the lock of the artifact cache is what *)
(* keeps FileInv inductive.                                                *)
FilesAreWritten == \A c \in Calls : file[c] # "none" => pc[c] = "writing"

FilesAreFilled ==
  \A c \in Calls :
    /\ file[c] = "written" => tmp[item[c]] = Whole
    /\ file[c] = "closed" => tmp[item[c]] = Whole \/ item[c] \in lost

FileInv ==
  /\ CoreInv /\ FileTypeOK
  /\ FilesAreWritten /\ WriterStartsEmpty /\ FilesAreFilled
  /\ IncompleteFileWasReported

LEMMA WholeIsTheFile == Whole = {"file", "data"}
BY FileCacheAssumption DEF Whole

LEMMA IncompleteIsTorn == IncompleteFileWasReported = TornBut(lost)
BY DEF IncompleteFileWasReported, TornBut

LEMMA InitFileInv == FileInit => FileInv
<1> SUFFICES ASSUME FileInit PROVE FileInv
  OBVIOUS
<1>1. CoreInv /\ TypeOK
  BY InitIInv DEF FileInit, IInv, CoreInv
<1>2. IncompleteFileWasReported
  BY DEF FileInit, Init, IncompleteFileWasReported
<1> QED
  BY <1>1, <1>2 DEF FileInit, FileInv, FileTypeOK, FilesAreWritten,
                    WriterStartsEmpty, FilesAreFilled

(* A step of the artifact cache that is taken by a call without a file, or *)
(* ends a write, leaves the files of the other writers as they are.        *)
LEMMA CacheStepKeepsFiles ==
  ASSUME FileInv, NEW c \in Calls, file[c] = "none", file' = file, lost' = lost,
         \A d \in Calls \ {c} : pc'[d] = pc[d] /\ item'[d] = item[d],
         \A i \in IDs : (pc[c] \notin WriteSection \/ i # item[c]) => tmp'[i] = tmp[i]
  PROVE  FilesAreWritten' /\ WriterStartsEmpty' /\ FilesAreFilled'
<1>1. ASSUME NEW d \in Calls, file[d] # "none"
      PROVE  /\ pc'[d] = pc[d] /\ item'[d] = item[d] /\ tmp'[item[d]] = tmp[item[d]]
             /\ d # c
  <2>1. d # c /\ pc[d] \in WriteSection
    BY <1>1 DEF FileInv, FilesAreWritten, WriteSection
  <2>2. pc[c] \in WriteSection => item[d] # item[c]
    BY <2>1, WriterIsAlone DEF FileInv
  <2> QED
    BY <2>1, <2>2 DEF FileInv, CoreInv, TypeOK
<1> QED
  BY <1>1 DEF FileInv, FilesAreWritten, WriterStartsEmpty, FilesAreFilled

LEMMA CacheStep_Inv ==
  ASSUME FileInv, NEW c \in Calls, file' = file, lost' = lost,
         \/ \E id \in IDs : Create(c, id) \/ Remove(c, id) \/ Get(c, id)
         \/ Mkdir(c) \/ AbortStep(c) \/ RemoveStep(c)
         \/ Stat(c) \/ EndGet(c) \/ Unlock(c)
  PROVE  FileInv'
<1>1. Next
  BY DEF Next, Step
<1>2. CoreInv'
  BY <1>1, TypeStep, LockStep, DirectoryStep, CreatorStep DEF FileInv, CoreInv
<1>3. IncompleteFileWasReported'
  <2> PICK S : S = lost
    OBVIOUS
  <2>1. TornBut(S)
    BY IncompleteIsTorn DEF FileInv
  <2>2. TornBut(S)'
    BY <1>1, <2>1, TornButStep DEF FileInv
  <2> QED
    BY <2>2 DEF IncompleteFileWasReported, TornBut
<1>4. file[c] = "none"
  <2>1. pc[c] # "writing"
    BY DEF Create, Remove, Get, Start, Mkdir, AbortStep, RemoveStep, Stat, EndGet, Unlock
  <2> QED
    BY <2>1 DEF FileInv, FilesAreWritten
<1>5. \A d \in Calls \ {c} : pc'[d] = pc[d] /\ item'[d] = item[d]
  BY DEF Create, Remove, Get, Start, Mkdir, AbortStep, RemoveStep, Stat, EndGet,
         Unlock, Goto, FileInv, CoreInv, TypeOK
<1>6. \A i \in IDs : (pc[c] \notin WriteSection \/ i # item[c]) => tmp'[i] = tmp[i]
  BY DEF Create, Remove, Get, Start, Mkdir, AbortStep, RemoveStep, Stat, EndGet,
         Unlock, WriteSection, FileInv, CoreInv, TypeOK
<1>7. FilesAreWritten' /\ WriterStartsEmpty' /\ FilesAreFilled'
  BY <1>4, <1>5, <1>6, CacheStepKeepsFiles
<1>8. FileTypeOK'
  BY <1>2 DEF FileInv, CoreInv, FileTypeOK
<1> QED
  BY <1>2, <1>3, <1>7, <1>8 DEF FileInv
-----------------------------------------------------------------------------
(* The steps in which a writer works on its file: nobody else has one in   *)
(* the same directory.                                                     *)
LEMMA OthersWriteElsewhere ==
  ASSUME FileInv, NEW c \in Calls, pc[c] = "writing",
         NEW d \in Calls, file[d] # "none", d # c
  PROVE  pc[d] = "writing" /\ item[d] # item[c]
BY WriterIsAlone DEF FileInv, FilesAreWritten, WriteSection

(* A writer changes its directory, its file, and what is known of a loss   *)
(* of that file.                                                           *)
LEMMA WriterStep_Inv ==
  ASSUME FileInv, NEW c \in Calls, pc[c] = "writing",
         NEW dir \in SUBSET Whole, tmp' = [tmp EXCEPT ![item[c]] = dir],
         NEW state \in {"open", "written", "closed"}, SetFile(c, state),
         state = "open" => dir = {"file"},
         state = "written" => dir = Whole,
         state = "closed" => dir = Whole \/ item[c] \in lost',
         lost' \subseteq IDs,
         \A i \in IDs \ {item[c]} : i \in lost' <=> i \in lost,
         UNCHANGED <<cached, writeLocked, readLocked, pc, item, cut>>
  PROVE  FileInv'
<1>1. CoreInv'
  BY FillKeepsCore DEF FileInv
<1>2. FileTypeOK'
  BY <1>1 DEF FileInv, CoreInv, FileTypeOK, SetFile
<1>3. \A d \in Calls \ {c} :
        /\ file'[d] = file[d]
        /\ file[d] # "none" => /\ pc[d] = "writing" /\ item[d] # item[c]
                               /\ tmp'[item[d]] = tmp[item[d]]
                               /\ item[d] \in lost' <=> item[d] \in lost
  <2> TAKE d \in Calls \ {c}
  <2>1. file'[d] = file[d]
    BY DEF SetFile, FileInv, FileTypeOK
  <2>2. CASE file[d] # "none"
    <3>1. pc[d] = "writing" /\ item[d] # item[c]
      BY <2>2, OthersWriteElsewhere
    <3>2. item[d] \in IDs /\ item[c] \in IDs
      BY DEF FileInv, CoreInv, TypeOK
    <3> QED
      BY <2>1, <3>1, <3>2 DEF FileInv, CoreInv, TypeOK
  <2> QED
    BY <2>1, <2>2
<1>4. tmp'[item[c]] = dir /\ file'[c] = state
  BY DEF SetFile, FileInv, FileTypeOK, CoreInv, TypeOK
<1>5. FilesAreWritten'
  BY <1>3, <1>4 DEF FilesAreWritten
<1>6. WriterStartsEmpty'
  BY <1>3, <1>4 DEF WriterStartsEmpty, FileInv
<1>7. FilesAreFilled'
  BY <1>3, <1>4 DEF FilesAreFilled, FileInv
<1>8. IncompleteFileWasReported'
  <2>1. cached[item[c]] = NoDir
    BY DEF FileInv, CoreInv, NothingCachedYet
  <2> QED
    BY <2>1 DEF FileInv, IncompleteFileWasReported
<1> QED
  BY <1>1, <1>2, <1>5, <1>6, <1>7, <1>8 DEF FileInv

LEMMA CommitFile_Inv == ASSUME FileInv, NEW c \in Calls, CommitFile(c) PROVE FileInv'
<1>1. pc[c] = "writing" /\ lost' = lost /\ item' = item /\ cut' = cut
  BY DEF CommitFile, FileInv, FilesAreWritten, Rename
<1>2. CoreInv'
  BY <1>1, RenameKeepsCore DEF CommitFile, FileInv
<1>3. FileTypeOK'
  BY <1>2 DEF CommitFile, SetFile, FileInv, CoreInv, FileTypeOK
<1>4. \A d \in Calls \ {c} :
        /\ file'[d] = file[d] /\ pc'[d] = pc[d]
        /\ file[d] # "none" => pc[d] = "writing" /\ tmp'[item[d]] = tmp[item[d]]
  <2> TAKE d \in Calls \ {c}
  <2>1. file'[d] = file[d] /\ pc'[d] = pc[d]
    BY DEF CommitFile, SetFile, Rename, Goto, FileInv, FileTypeOK, CoreInv, TypeOK
  <2>2. file[d] # "none" => pc[d] = "writing" /\ item[d] # item[c]
    BY <1>1, OthersWriteElsewhere
  <2> QED
    BY <2>1, <2>2 DEF CommitFile, Rename, FileInv, CoreInv, TypeOK
<1>5. file'[c] = "none"
  BY DEF CommitFile, SetFile, FileInv, FileTypeOK
<1>6. FilesAreWritten' /\ WriterStartsEmpty' /\ FilesAreFilled'
  BY <1>1, <1>4, <1>5 DEF FilesAreWritten, WriterStartsEmpty, FilesAreFilled, FileInv
<1>7. IncompleteFileWasReported'
  <2>1. tmp[item[c]] = Whole \/ item[c] \in lost
    BY DEF CommitFile, FileInv, FilesAreFilled
  <2>2. \A d \in Calls : pc[d] = "removing" => pc'[d] = "removing"
    BY <1>1, <1>4
  <2>3. \A id \in IDs : \/ cached'[id] = cached[id]
                        \/ cached'[id] = Whole
                        \/ id \in lost
    BY <2>1 DEF CommitFile, Rename, FileInv, CoreInv, TypeOK
  <2> QED
    BY <1>1, <2>2, <2>3 DEF FileInv, IncompleteFileWasReported
<1> QED
  BY <1>2, <1>3, <1>6, <1>7 DEF FileInv

LEMMA AbortFile_Inv == ASSUME FileInv, NEW c \in Calls, AbortFile(c) PROVE FileInv'
<1>1. Next /\ UNCHANGED <<tmp, cached, item, cut, lost>> /\ pc[c] = "writing"
  BY DEF AbortFile, Abort, Next, Step
<1>2. CoreInv'
  BY <1>1, TypeStep, LockStep, DirectoryStep, CreatorStep DEF FileInv, CoreInv
<1>3. FileTypeOK'
  BY <1>2, <1>1 DEF AbortFile, SetFile, FileInv, CoreInv, FileTypeOK
<1>4. /\ \A d \in Calls \ {c} : file'[d] = file[d] /\ pc'[d] = pc[d]
      /\ file'[c] = "none"
  BY DEF AbortFile, Abort, SetFile, Goto, FileInv, FileTypeOK, CoreInv, TypeOK
<1>5. FilesAreWritten' /\ WriterStartsEmpty' /\ FilesAreFilled'
  BY <1>1, <1>4 DEF FilesAreWritten, WriterStartsEmpty, FilesAreFilled, FileInv
<1>6. IncompleteFileWasReported'
  BY <1>1, <1>4 DEF FileInv, IncompleteFileWasReported
<1> QED
  BY <1>2, <1>3, <1>5, <1>6 DEF FileInv

LEMMA FileStep_Inv == FileInv /\ [FileNext]_fvars => FileInv'
<1> SUFFICES ASSUME FileInv, [FileNext]_fvars PROVE FileInv'
  OBVIOUS
<1>0. \A c \in Calls : item[c] \in IDs
  BY DEF FileInv, CoreInv, TypeOK
<1>1. ASSUME NEW c \in Calls, NEW id \in IDs,
             BeginWrite(c, id) \/ RemoveFile(c, id) \/ GetFile(c, id)
      PROVE  FileInv'
  BY <1>1, CacheStep_Inv DEF BeginWrite, RemoveFile, GetFile
<1>2. ASSUME NEW c \in Calls, InArtifactCache(c) PROVE FileInv'
  BY <1>2, CacheStep_Inv DEF InArtifactCache
<1>3. ASSUME NEW c \in Calls, OpenFile(c) PROVE FileInv'
  <2>1. CASE SetFile(c, "panicked") /\ UNCHANGED <<tmp, lost>>
    <3>1. UNCHANGED vars /\ pc[c] = "writing"
      BY <1>3, <2>1 DEF OpenFile, vars
    <3>2. CoreInv'
      BY <3>1, TypeStep, LockStep, DirectoryStep, CreatorStep DEF FileInv, CoreInv
    <3>3. /\ file' \in [Calls -> {"none", "open", "written", "closed", "panicked"}]
          /\ file'[c] = "panicked" /\ \A d \in Calls \ {c} : file'[d] = file[d]
      BY <2>1 DEF SetFile, FileInv, FileTypeOK
    <3> QED
      BY <2>1, <3>1, <3>2, <3>3
         DEF vars, FileInv, CoreInv, FileTypeOK, FilesAreWritten, WriterStartsEmpty,
             FilesAreFilled, IncompleteFileWasReported
  <2>2. CASE /\ tmp' = [tmp EXCEPT ![item[c]] = {"file"}]
             /\ lost' = lost \ {item[c]} /\ SetFile(c, "open")
    <3>1. {"file"} \in SUBSET Whole
      BY WholeIsTheFile
    <3>2. lost' \subseteq IDs /\ \A i \in IDs \ {item[c]} : i \in lost' <=> i \in lost
      BY <2>2 DEF FileInv, FileTypeOK
    <3>3. pc[c] = "writing" /\ UNCHANGED <<cached, writeLocked, readLocked, pc, item, cut>>
      BY <1>3 DEF OpenFile
    <3> QED
      BY <2>2, <3>1, <3>2, <3>3, WriterStep_Inv
  <2> QED
    BY <1>3, <2>1, <2>2 DEF OpenFile
<1>4. ASSUME NEW c \in Calls, WriteData(c) PROVE FileInv'
  <2>1. pc[c] = "writing"
    BY <1>4 DEF WriteData, FileInv, FilesAreWritten
  <2> QED
    BY <1>4, <2>1, WriterStep_Inv DEF WriteData, FileInv, FileTypeOK
<1>5. ASSUME NEW c \in Calls, CloseFile(c) PROVE FileInv'
  <2>1. pc[c] = "writing" /\ tmp[item[c]] = Whole
    BY <1>5 DEF CloseFile, FileInv, FilesAreWritten, FilesAreFilled
  <2>2. CASE UNCHANGED <<tmp, lost>>
    <3>1. tmp' = [tmp EXCEPT ![item[c]] = Whole]
      BY <2>1, <2>2 DEF FileInv, CoreInv, TypeOK
    <3> QED
      BY <1>5, <2>1, <2>2, <3>1, WriterStep_Inv DEF CloseFile, FileInv, FileTypeOK
  <2>3. ASSUME NEW d \in {{"file"}, Whole}, tmp' = [tmp EXCEPT ![item[c]] = d],
               lost' = lost \union {item[c]}
        PROVE  FileInv'
    <3>1. d \in SUBSET Whole
      BY WholeIsTheFile
    <3> QED
      BY <1>0, <1>5, <2>1, <2>3, <3>1, WriterStep_Inv DEF CloseFile, FileInv, FileTypeOK
  <2> QED
    BY <1>5, <2>2, <2>3 DEF CloseFile
<1>6. ASSUME NEW c \in Calls, CommitFile(c) \/ AbortFile(c) PROVE FileInv'
  BY <1>6, CommitFile_Inv, AbortFile_Inv
<1>7. CASE FileRestart
  <2>1. Next
    BY <1>7 DEF FileRestart, Next
  <2>2. CoreInv'
    BY <2>1, TypeStep, LockStep, DirectoryStep, CreatorStep DEF FileInv, CoreInv
  <2>3. IncompleteFileWasReported'
    BY <1>7 DEF FileRestart, Restart, FileInv, IncompleteFileWasReported
  <2> QED
    BY <1>7, <2>2, <2>3 DEF FileRestart, FileInv, CoreInv, FileTypeOK,
                       FilesAreWritten, WriterStartsEmpty, FilesAreFilled
<1>8. CASE UNCHANGED fvars
  <2>1. UNCHANGED vars
    BY <1>8 DEF fvars
  <2>2. CoreInv'
    BY <2>1, TypeStep, LockStep, DirectoryStep, CreatorStep DEF FileInv, CoreInv
  <2> QED
    BY <1>8, <2>1, <2>2 DEF fvars, vars, FileInv, CoreInv, FileTypeOK, FilesAreWritten,
                       WriterStartsEmpty, FilesAreFilled, IncompleteFileWasReported
<1> QED
  BY <1>1, <1>2, <1>3, <1>4, <1>5, <1>6, <1>7, <1>8 DEF FileNext

THEOREM FileInvariance == FileSpec => []FileInv
BY InitFileInv, FileStep_Inv, PTL DEF FileSpec

(* Whatever fails and whoever crashes, an incomplete file is found in the  *)
(* cache only if a removal stopped half way or its writer was told.        *)
THEOREM LossesAreReported == FileSpec => []IncompleteFileWasReported
<1>1. FileInv => IncompleteFileWasReported
  BY DEF FileInv
<1> QED
  BY <1>1, FileInvariance, PTL

(* A writer never appends to what an earlier one has left.                 *)
THEOREM WritersStartEmpty == FileSpec => []WriterStartsEmpty
<1>1. FileInv => WriterStartsEmpty
  BY DEF FileInv
<1> QED
  BY <1>1, FileInvariance, PTL

(* The lock maps stay exact although a write may end in a panic and a commit *)
(* may rename what is not complete: the lock of a panicked write is one of a *)
(* call that is still inside.                                              *)
THEOREM FileLocksAreExact == FileSpec => [](FileTypeOK /\ LocksMatchCalls)
<1>1. FileInv => FileTypeOK /\ LocksMatchCalls
  BY DEF FileInv, CoreInv
<1> QED
  BY <1>1, FileInvariance, PTL

LEMMA FileReaderIsUndisturbed ==
  ASSUME FileInv, [FileNext]_fvars, NEW c \in Calls,
         pc[c] = "reading", pc'[c] = "reading"
  PROVE  cached'[item[c]] = cached[item[c]]
<1>1. ASSUME NEW d \in Calls, CommitFile(d) PROVE cached'[item[c]] = cached[item[c]]
  <2>1. pc[d] = "writing" /\ item[d] \in IDs /\ item[c] \in IDs
    BY <1>1 DEF CommitFile, FileInv, FilesAreWritten, CoreInv, TypeOK
  <2>2. d \in Writers(item[d]) /\ c \in Readers(item[c])
    BY <2>1 DEF Writers, Readers, WriteSection, ReadSection
  <2>3. item[d] # item[c]
    BY <2>1, <2>2 DEF FileInv, CoreInv, LocksMatchCalls
  <2> QED
    BY <1>1, <2>1, <2>3 DEF CommitFile, Rename, FileInv, CoreInv, TypeOK
<1>2. ASSUME NEW d \in Calls, OpenFile(d) \/ WriteData(d) \/ CloseFile(d)
      PROVE  cached' = cached
  BY <1>2 DEF OpenFile, WriteData, CloseFile
<1>3. ASSUME [Next]_vars PROVE cached'[item[c]] = cached[item[c]]
  BY <1>3, ReaderIsUndisturbed DEF FileInv
<1>4. ASSUME NEW d \in Calls, AbortFile(d) \/ InArtifactCache(d) PROVE Next
  BY <1>4 DEF AbortFile, InArtifactCache, Next, Step
<1>5. ASSUME NEW d \in Calls, NEW id \in IDs,
             BeginWrite(d, id) \/ RemoveFile(d, id) \/ GetFile(d, id)
      PROVE  Next
  BY <1>5 DEF BeginWrite, RemoveFile, GetFile, Next
<1>6. FileRestart \/ UNCHANGED fvars => [Next]_vars
  BY DEF FileRestart, fvars, Next
<1> QED
  BY <1>1, <1>2, <1>3, <1>4, <1>5, <1>6 DEF FileNext

(* What a reader of the file cache has opened stays as it is, complete or   *)
(* not, until it closes it.                                                *)
THEOREM FileReadersAreStable == FileSpec => ReadersSeeStableArtifact
<1> DEFINE Undisturbed ==
      \A c \in Calls : pc[c] = "reading" /\ pc'[c] = "reading"
                         => cached'[item[c]] = cached[item[c]]
<1>1. FileInv /\ [FileNext]_fvars => [Undisturbed]_vars
  BY FileReaderIsUndisturbed
<1> QED
  BY FileInvariance, <1>1, PTL DEF FileSpec, ReadersSeeStableArtifact
=============================================================================
