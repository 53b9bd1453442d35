---------------------------- MODULE ArtifactCache ----------------------------
(***************************************************************************)
(* distbuild/pkg/artifact/cache.go: the on-disk cache of job outputs.      *)
(*                                                                         *)
(* Every method is a few critical sections of c.mu with system calls in    *)
(* between, so one action is one critical section or one system call, and  *)
(* a crash may come between any two.  A call that fails to take its lock   *)
(* (ErrExists, ErrWriteLocked, ErrReadLocked) returns with nothing         *)
(* changed: such a call is a stuttering step here.                         *)
(***************************************************************************)
EXTENDS Naturals, FiniteSets

CONSTANTS
  Calls,    \* calls of Create, Remove and Get in flight
  IDs,      \* build.ID: what names an artifact
  Entries,  \* the entries of a complete artifact; an entry is a set of parts
            \* that come one by one and are unlinked together
  NoDir,    \* a directory that does not exist
  Faults    \* the failures considered: system calls by name, and "crash"

Whole == UNION Entries

ASSUME CacheAssumption ==
  /\ IsFiniteSet(Calls)
  /\ \A dir \in SUBSET Whole : NoDir # dir
  /\ {} \notin Entries /\ Entries # {}
  /\ Faults \subseteq {"mkdir", "rename", "unlink", "stat", "open", "close", "crash"}

VARIABLES
  tmp,          \* tmp[id]: the parts in <root>/tmp/<id>, or NoDir
  cached,       \* cached[id]: the parts in <root>/c/<xx>/<id>, or NoDir
  writeLocked,  \* Cache.writeLocked, a set of IDs
  readLocked,   \* Cache.readLocked, a count for every ID (0: no map entry)
  pc,           \* where each call is
  item,         \* the ID each call is about
  cut           \* history: IDs whose last removal stopped half way

vars == <<tmp, cached, writeLocked, readLocked, pc, item, cut>>

Dirs == {NoDir} \union SUBSET Whole

WriteSection == {"mkdir", "writing", "aborting", "removing", "wunlock"}
ReadSection == {"stat", "reading", "runlock"}

TypeOK ==
  /\ tmp \in [IDs -> Dirs]
  /\ cached \in [IDs -> Dirs]
  /\ writeLocked \subseteq IDs
  /\ readLocked \in [IDs -> Nat]
  /\ pc \in [Calls -> {"idle"} \union WriteSection \union ReadSection]
  /\ item \in [Calls -> IDs]
  /\ cut \subseteq IDs

Init ==
  /\ tmp = [id \in IDs |-> NoDir]
  /\ cached = [id \in IDs |-> NoDir]
  /\ writeLocked = {}
  /\ readLocked = [id \in IDs |-> 0]
  /\ pc = [c \in Calls |-> "idle"]
  /\ item \in [Calls -> IDs]
  /\ cut = {}

Goto(c, l) == pc' = [pc EXCEPT ![c] = l]

Start(c, id, l) ==
  /\ pc[c] = "idle"
  /\ item' = [item EXCEPT ![c] = id]
  /\ Goto(c, l)
-----------------------------------------------------------------------------
(* Locks: each is one critical section of c.mu.                            *)

\* Mutant: a write lock that does not look at the readers.
WriteLockIgnoringReaders(id, remove) ==
  /\ cached[id] = NoDir \/ remove
  /\ id \notin writeLocked
  /\ writeLocked' = writeLocked \union {id}
  /\ UNCHANGED readLocked

\* Mutant: a write lock that does not look at the writers.
WriteLockIgnoringWriters(id, remove) ==
  /\ cached[id] = NoDir \/ remove
  /\ readLocked[id] = 0
  /\ writeLocked' = writeLocked \union {id}
  /\ UNCHANGED readLocked

\* Mutant: a write lock that does not look at the cache directory.
WriteLockIgnoringCache(id, remove) ==
  /\ id \notin writeLocked
  /\ readLocked[id] = 0
  /\ writeLocked' = writeLocked \union {id}
  /\ UNCHANGED readLocked

WriteLock(id, remove) ==
  /\ cached[id] = NoDir \/ remove
  /\ id \notin writeLocked
  /\ readLocked[id] = 0
  /\ writeLocked' = writeLocked \union {id}
  /\ UNCHANGED readLocked

WriteUnlock(id) ==
  /\ writeLocked' = writeLocked \ {id}
  /\ UNCHANGED readLocked

\* Mutant: a read lock that does not look at the writers.
ReadLockIgnoringWriters(id) ==
  /\ readLocked' = [readLocked EXCEPT ![id] = @ + 1]
  /\ UNCHANGED writeLocked

ReadLock(id) ==
  /\ id \notin writeLocked
  /\ readLocked' = [readLocked EXCEPT ![id] = @ + 1]
  /\ UNCHANGED writeLocked

ReadUnlock(id) ==
  /\ readLocked' = [readLocked EXCEPT ![id] = @ - 1]
  /\ UNCHANGED writeLocked

\* The deferred writeUnlock of Remove, commit, abort, and Create's on failure.
Unlock(c) ==
  /\ pc[c] = "wunlock"
  /\ WriteUnlock(item[c])
  /\ Goto(c, "idle")
  /\ UNCHANGED <<tmp, cached, item, cut>>
-----------------------------------------------------------------------------
(* Create, commit and abort.                                               *)

Create(c, id) ==
  /\ Start(c, id, "mkdir")
  /\ WriteLock(id, FALSE)
  /\ UNCHANGED <<tmp, cached, cut>>

\* Mutant: the early return on a failed MkdirAll keeps the write lock.
MkdirKeepingLock(c) ==
  /\ pc[c] = "mkdir"
  /\ \/ /\ tmp' = [tmp EXCEPT ![item[c]] = IF @ = NoDir THEN {} ELSE @]
        /\ Goto(c, "writing")
     \/ /\ "mkdir" \in Faults
        /\ Goto(c, "idle")
        /\ UNCHANGED tmp
  /\ UNCHANGED <<cached, writeLocked, readLocked, item, cut>>

\* os.MkdirAll also succeeds on a directory an earlier call left behind.
Mkdir(c) ==
  /\ pc[c] = "mkdir"
  /\ \/ /\ tmp' = [tmp EXCEPT ![item[c]] = IF @ = NoDir THEN {} ELSE @]
        /\ Goto(c, "writing")
     \/ /\ "mkdir" \in Faults
        /\ Goto(c, "wunlock")
        /\ UNCHANGED tmp
  /\ UNCHANGED <<cached, writeLocked, readLocked, item, cut>>

\* The caller fills the directory it was given.
WritePart(c) ==
  /\ pc[c] = "writing"
  /\ \E x \in Whole \ tmp[item[c]] :
       tmp' = [tmp EXCEPT ![item[c]] = @ \union {x}]
  /\ UNCHANGED <<cached, writeLocked, readLocked, pc, item, cut>>

\* os.Rename refuses a target that exists, unless it is an empty directory.
Rename(c) ==
  /\ \/ /\ cached[item[c]] \in {NoDir, {}}
        /\ cached' = [cached EXCEPT ![item[c]] = tmp[item[c]]]
        /\ tmp' = [tmp EXCEPT ![item[c]] = NoDir]
     \/ /\ "rename" \in Faults \/ cached[item[c]] \notin {NoDir, {}}
        /\ UNCHANGED <<tmp, cached>>
  /\ Goto(c, "wunlock")
  /\ UNCHANGED <<writeLocked, readLocked, item, cut>>

\* Mutant: a commit that copies into the cache part by part instead of renaming.
CommitByCopy(c) ==
  /\ pc[c] = "writing"
  /\ \E d \in SUBSET Whole \ {{}} :
       cached' = [cached EXCEPT ![item[c]] = d]
  /\ Goto(c, IF cached'[item[c]] = Whole THEN "wunlock" ELSE "writing")
  /\ UNCHANGED <<tmp, writeLocked, readLocked, item, cut>>

\* The caller commits an artifact it has finished writing.
Commit(c) ==
  /\ pc[c] = "writing"
  /\ tmp[item[c]] = Whole
  /\ Rename(c)

Abort(c) ==
  /\ pc[c] = "writing"
  /\ Goto(c, "aborting")
  /\ UNCHANGED <<tmp, cached, writeLocked, readLocked, item, cut>>

\* What a directory may become by the next unlink or rmdir of os.RemoveAll.
Shrunk(dir) ==
  IF dir \in {NoDir, {}} THEN {NoDir}
  ELSE {dir \ e : e \in {e \in Entries : e \intersect dir # {}}}

AbortStep(c) ==
  /\ pc[c] = "aborting"
  /\ \/ \E d \in Shrunk(tmp[item[c]]) :
          /\ tmp' = [tmp EXCEPT ![item[c]] = d]
          /\ IF d = NoDir THEN Goto(c, "wunlock") ELSE UNCHANGED pc
     \/ /\ "unlink" \in Faults
        /\ Goto(c, "wunlock")
        /\ UNCHANGED tmp
  /\ UNCHANGED <<cached, writeLocked, readLocked, item, cut>>
-----------------------------------------------------------------------------
(* Remove.                                                                 *)

Remove(c, id) ==
  /\ Start(c, id, "removing")
  /\ WriteLock(id, TRUE)
  /\ UNCHANGED <<tmp, cached, cut>>

RemoveStep(c) ==
  /\ pc[c] = "removing"
  /\ \/ \E d \in Shrunk(cached[item[c]]) :
          /\ cached' = [cached EXCEPT ![item[c]] = d]
          /\ IF d = NoDir THEN Goto(c, "wunlock") ELSE UNCHANGED pc
          /\ cut' = IF d = NoDir THEN cut \ {item[c]} ELSE cut
     \/ /\ "unlink" \in Faults
        /\ cut' = cut \union {item[c]}
        /\ Goto(c, "wunlock")
        /\ UNCHANGED cached
  /\ UNCHANGED <<tmp, writeLocked, readLocked, item>>
-----------------------------------------------------------------------------
(* Get and the unlock function it returns.                                 *)

Get(c, id) ==
  /\ Start(c, id, "stat")
  /\ ReadLock(id)
  /\ UNCHANGED <<tmp, cached, cut>>

\* Mutant: the failed stat unlocks and hands out unlock() as well.
StatUnlockingTwice(c) ==
  /\ pc[c] = "stat"
  /\ \/ /\ cached[item[c]] # NoDir
        /\ Goto(c, "reading")
        /\ UNCHANGED <<writeLocked, readLocked>>
     \/ /\ cached[item[c]] = NoDir
        /\ Goto(c, "runlock")
        /\ ReadUnlock(item[c])
  /\ UNCHANGED <<tmp, cached, item, cut>>

Stat(c) ==
  /\ pc[c] = "stat"
  /\ \/ cached[item[c]] # NoDir /\ Goto(c, "reading")
     \/ cached[item[c]] = NoDir /\ Goto(c, "runlock")
     \/ "stat" \in Faults /\ Goto(c, "runlock")
  /\ UNCHANGED <<tmp, cached, writeLocked, readLocked, item, cut>>

\* readUnlock: by the caller's unlock(), or by Get itself after a failed stat.
EndGet(c) ==
  /\ pc[c] \in {"reading", "runlock"}
  /\ ReadUnlock(item[c])
  /\ Goto(c, "idle")
  /\ UNCHANGED <<tmp, cached, item, cut>>
-----------------------------------------------------------------------------
\* The process dies and NewCache runs on the same root: tmp is emptied, the
\* cache directory is kept as it is and both lock maps start empty.
Restart ==
  /\ "crash" \in Faults
  /\ tmp' = [id \in IDs |-> NoDir]
  /\ writeLocked' = {}
  /\ readLocked' = [id \in IDs |-> 0]
  /\ pc' = [c \in Calls |-> "idle"]
  /\ cut' = cut \union {item[c] : c \in {c \in Calls : pc[c] = "removing"}}
  /\ UNCHANGED <<cached, item>>

\* The steps of a call already begun, its caller's commit, abort and unlock
\* included.
Step(c) ==
  \/ Mkdir(c) \/ Commit(c) \/ Abort(c) \/ AbortStep(c)
  \/ RemoveStep(c) \/ Stat(c) \/ EndGet(c) \/ Unlock(c)

Next ==
  \/ \E c \in Calls, id \in IDs : Create(c, id) \/ Remove(c, id) \/ Get(c, id)
  \/ \E c \in Calls : Step(c) \/ WritePart(c)
  \/ Restart

Spec == Init /\ [][Next]_vars

\* The Go scheduler runs every goroutine that can run, and a caller sooner or
\* later commits, aborts or unlocks what it was given.
FairSpec == Spec /\ \A c \in Calls : WF_vars(Step(c))
-----------------------------------------------------------------------------
Writers(id) == {c \in Calls : pc[c] \in WriteSection /\ item[c] = id}
Readers(id) == {c \in Calls : pc[c] \in ReadSection /\ item[c] = id}

\* The two lock maps say exactly which calls are inside: a reader count never
\* drifts, a write lock has one holder, and no artifact is read while another
\* call creates or removes it.
LocksMatchCalls ==
  \A id \in IDs :
    /\ id \in writeLocked <=> Writers(id) # {}
    /\ \A c, d \in Writers(id) : c = d
    /\ readLocked[id] = Cardinality(Readers(id))
    /\ Writers(id) = {} \/ Readers(id) = {}

\* The directory a writer was given is there for as long as it writes: no
\* other call's commit or abort takes tmp/<id> away from under it.
WriterKeepsDirectory ==
  \A c \in Calls : pc[c] = "writing" => tmp[item[c]] # NoDir

\* What is being created is not in the cache: nothing that happens between
\* the look at the directory in writeLock and the rename in commit can put it
\* there, so that a rename never meets an artifact under its target.
NothingCachedYet ==
  \A c \in Calls :
    pc[c] \in {"mkdir", "writing", "aborting"} => cached[item[c]] = NoDir

\* An incomplete artifact in the cache directory is always the work of a
\* removal, running or stopped half way by a crash or a failed unlink: no
\* interleaving of Create, commit, abort and restart leaves one behind.
TornOnlyByRemoval ==
  \A id \in IDs :
    cached[id] \in {NoDir, Whole} \/ id \in cut
      \/ \E c \in Calls : pc[c] = "removing" /\ item[c] = id

\* What a reader got stays as it is until the reader calls unlock, whatever
\* the other calls do meanwhile.
ReadersSeeStableArtifact ==
  [][\A c \in Calls :
       pc[c] = "reading" /\ pc'[c] = "reading"
         => cached'[item[c]] = cached[item[c]]]_vars

\* Every path out of Create, commit, abort and Remove, the failing ones too,
\* gives the write lock back.
WriteLockReleased == \A id \in IDs : id \in writeLocked ~> id \notin writeLocked

\* The cache as its callers see it: a directory is one of three contents, the
\* lock maps are the calls inside, and a writer has only its intention.
ContentOf(dir) ==
  IF dir = NoDir THEN "absent" ELSE IF dir = Whole THEN "whole" ELSE "torn"

PhaseAt(l) ==
  CASE l \in {"mkdir", "writing", "aborting"} -> "create"
    [] l = "removing" -> "remove"
    [] l = "wunlock" -> "done"
    [] OTHER -> "none"

storeContent == [id \in IDs |-> ContentOf(cached[id])]
storeWriters == [id \in IDs |-> Writers(id)]
storeReaders == [id \in IDs |-> Readers(id)]
storePhase == [c \in Calls |-> PhaseAt(pc[c])]

Store == INSTANCE ArtifactStore WITH
  content <- storeContent, writers <- storeWriters,
  readers <- storeReaders, phase <- storePhase

\* Mutexes, lock maps, tmp directories and renames together implement the
\* abstract store: an artifact appears whole, in one step, for a lone writer.
ImplementsStore == Store!Spec

\* build/graph.go: a job's ID determines its output completely, so a Get that
\* succeeds should hand out the complete artifact.
GetReturnsWholeArtifact ==
  \A c \in Calls : pc[c] = "reading" => cached[item[c]] = Whole
=============================================================================
