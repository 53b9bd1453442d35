------------------------- MODULE ArtifactCacheProofs -------------------------
(***************************************************************************)
(* Proofs about ArtifactCache for any finite set of calls, any set of IDs, *)
(* any artifact of at least one entry and any of the failures.             *)
(*                                                                         *)
(* The lemmas of the first part say how the five ways a call moves between *)
(* the sections (stays in one, enters and leaves each) act on the lock     *)
(* maps; the induction then has one step for every action.                 *)
(***************************************************************************)
EXTENDS ArtifactCache, FiniteSetTheorems, TLAPS

Sections == {"idle"} \union WriteSection \union ReadSection

LEMMA ReadersAreFinite == ASSUME NEW id PROVE IsFiniteSet(Readers(id))
<1>1. Readers(id) \subseteq Calls
  BY DEF Readers
<1> QED
  BY <1>1, CacheAssumption, FS_Subset

LEMMA SectionsAreDisjoint ==
  /\ "idle" \notin WriteSection /\ "idle" \notin ReadSection
  /\ \A l : ~(l \in WriteSection /\ l \in ReadSection)
BY DEF WriteSection, ReadSection

SameCallsInside(i) == Writers(i)' = Writers(i) /\ Readers(i)' = Readers(i)

(* How a move of one call changes the sets of calls inside: not at all while *)
(* it stays in its section, and at one ID when it enters or leaves one.    *)
LEMMA StaySets ==
  ASSUME TypeOK, NEW c \in Calls, NEW l, Goto(c, l),
         \/ pc[c] \in WriteSection /\ l \in WriteSection
         \/ pc[c] \in ReadSection /\ l \in ReadSection,
         UNCHANGED item
  PROVE  \A i : SameCallsInside(i)
BY SectionsAreDisjoint DEF Goto, TypeOK, Writers, Readers, SameCallsInside

LEMMA EnterWriteSets ==
  ASSUME TypeOK, LocksMatchCalls,
         NEW c \in Calls, NEW id \in IDs, NEW l \in WriteSection,
         NEW remove \in BOOLEAN,
         Start(c, id, l), WriteLock(id, remove)
  PROVE  /\ Writers(id) = {} /\ Readers(id) = {}
         /\ Writers(id)' = {c} /\ Readers(id)' = {}
         /\ \A i \in IDs \ {id} : SameCallsInside(i)
<1>1. Writers(id) = {} /\ Readers(id) = {}
  <2>1. Cardinality(Readers(id)) = 0
    BY DEF LocksMatchCalls, WriteLock
  <2>2. Readers(id) = {}
    BY <2>1, ReadersAreFinite, FS_EmptySet
  <2> QED
    BY <2>2 DEF LocksMatchCalls, WriteLock
<1>2. Writers(id)' = {c} /\ Readers(id)' = {}
  BY <1>1, SectionsAreDisjoint DEF Start, Goto, TypeOK, Writers, Readers
<1>3. ASSUME NEW i \in IDs, i # id PROVE SameCallsInside(i)
  BY <1>3, SectionsAreDisjoint
     DEF Start, Goto, TypeOK, Writers, Readers, SameCallsInside
<1> QED
  BY <1>1, <1>2, <1>3

LEMMA LeaveWriteSets ==
  ASSUME TypeOK, LocksMatchCalls,
         NEW c \in Calls, NEW id \in IDs, item[c] = id, pc[c] \in WriteSection,
         Goto(c, "idle"), item' = item
  PROVE  /\ Writers(id) = {c} /\ Readers(id) = {}
         /\ Writers(id)' = {} /\ Readers(id)' = {}
         /\ \A i \in IDs \ {id} : SameCallsInside(i)
<1>1. c \in Writers(id)
  BY DEF Writers
<1>2. Writers(id) = {c} /\ Readers(id) = {}
  BY <1>1 DEF LocksMatchCalls
<1>3. Writers(id)' = {} /\ Readers(id)' = {}
  BY <1>2, SectionsAreDisjoint DEF Goto, TypeOK, Writers, Readers
<1>4. ASSUME NEW i \in IDs, i # id PROVE SameCallsInside(i)
  BY <1>4, SectionsAreDisjoint
     DEF Goto, TypeOK, Writers, Readers, SameCallsInside
<1> QED
  BY <1>2, <1>3, <1>4

LEMMA EnterReadSets ==
  ASSUME TypeOK, LocksMatchCalls,
         NEW c \in Calls, NEW id \in IDs, NEW l \in ReadSection,
         Start(c, id, l), ReadLock(id)
  PROVE  /\ Writers(id) = {} /\ c \notin Readers(id)
         /\ Writers(id)' = {} /\ Readers(id)' = Readers(id) \union {c}
         /\ \A i \in IDs \ {id} : SameCallsInside(i)
<1>1. Writers(id) = {}
  BY DEF LocksMatchCalls, ReadLock
<1>2. c \notin Readers(id)
  BY SectionsAreDisjoint DEF Start, Readers
<1>3. Writers(id)' = {} /\ Readers(id)' = Readers(id) \union {c}
  BY <1>1, SectionsAreDisjoint DEF Start, Goto, TypeOK, Writers, Readers
<1>4. ASSUME NEW i \in IDs, i # id PROVE SameCallsInside(i)
  BY <1>4, SectionsAreDisjoint
     DEF Start, Goto, TypeOK, Writers, Readers, SameCallsInside
<1> QED
  BY <1>1, <1>2, <1>3, <1>4

LEMMA LeaveReadSets ==
  ASSUME TypeOK, LocksMatchCalls,
         NEW c \in Calls, NEW id \in IDs, item[c] = id, pc[c] \in ReadSection,
         Goto(c, "idle"), item' = item
  PROVE  /\ Writers(id) = {} /\ c \in Readers(id)
         /\ Writers(id)' = {} /\ Readers(id)' = Readers(id) \ {c}
         /\ \A i \in IDs \ {id} : SameCallsInside(i)
<1>1. c \in Readers(id)
  BY DEF Readers
<1>2. Writers(id) = {}
  BY <1>1 DEF LocksMatchCalls
<1>3. Writers(id)' = {} /\ Readers(id)' = Readers(id) \ {c}
  BY <1>2, SectionsAreDisjoint DEF Goto, TypeOK, Writers, Readers
<1>4. ASSUME NEW i \in IDs, i # id PROVE SameCallsInside(i)
  BY <1>4, SectionsAreDisjoint
     DEF Goto, TypeOK, Writers, Readers, SameCallsInside
<1> QED
  BY <1>1, <1>2, <1>3, <1>4

(* The lock maps follow each of these moves.                               *)
LEMMA StayKeepsLocks ==
  ASSUME TypeOK, LocksMatchCalls,
         NEW c \in Calls, NEW l, Goto(c, l),
         \/ pc[c] \in WriteSection /\ l \in WriteSection
         \/ pc[c] \in ReadSection /\ l \in ReadSection,
         UNCHANGED <<item, writeLocked, readLocked>>
  PROVE  LocksMatchCalls'
BY StaySets DEF LocksMatchCalls, SameCallsInside

LEMMA EnterWrite ==
  ASSUME TypeOK, LocksMatchCalls,
         NEW c \in Calls, NEW id \in IDs, NEW l \in WriteSection,
         NEW remove \in BOOLEAN,
         Start(c, id, l), WriteLock(id, remove)
  PROVE  LocksMatchCalls'
<1>1. /\ Writers(id)' = {c} /\ Readers(id)' = {}
      /\ \A i \in IDs \ {id} : SameCallsInside(i)
  BY EnterWriteSets
<1>2. Cardinality(Readers(id)') = 0
  BY <1>1, FS_EmptySet
<1>3. ASSUME NEW i \in IDs PROVE readLocked'[i] = Cardinality(Readers(i)')
  <2>1. CASE i = id
    BY <2>1, <1>2 DEF WriteLock
  <2>2. CASE i # id
    BY <2>2, <1>1 DEF LocksMatchCalls, WriteLock, SameCallsInside
  <2> QED
    BY <2>1, <2>2
<1> QED
  BY <1>1, <1>3 DEF LocksMatchCalls, WriteLock, SameCallsInside

LEMMA LeaveWrite ==
  ASSUME TypeOK, LocksMatchCalls,
         NEW c \in Calls, pc[c] \in WriteSection,
         Goto(c, "idle"), WriteUnlock(item[c]), item' = item
  PROVE  LocksMatchCalls'
<1>1. PICK id \in IDs : item[c] = id
  BY DEF TypeOK
<1>2. /\ Readers(id) = {} /\ Writers(id)' = {} /\ Readers(id)' = {}
      /\ \A i \in IDs \ {id} : SameCallsInside(i)
  BY <1>1, LeaveWriteSets
<1> QED
  BY <1>1, <1>2 DEF LocksMatchCalls, WriteUnlock, SameCallsInside

LEMMA EnterRead ==
  ASSUME TypeOK, LocksMatchCalls,
         NEW c \in Calls, NEW id \in IDs, NEW l \in ReadSection,
         Start(c, id, l), ReadLock(id)
  PROVE  LocksMatchCalls'
<1>1. /\ Writers(id) = {} /\ c \notin Readers(id)
      /\ Writers(id)' = {} /\ Readers(id)' = Readers(id) \union {c}
      /\ \A i \in IDs \ {id} : SameCallsInside(i)
  BY EnterReadSets
<1>2. Cardinality(Readers(id)') = Cardinality(Readers(id)) + 1
  BY <1>1, ReadersAreFinite, FS_AddElement
<1>3. \A i \in IDs : readLocked'[i] = IF i = id THEN readLocked[id] + 1
                                     ELSE readLocked[i]
  BY DEF ReadLock, TypeOK
<1>4. ASSUME NEW i \in IDs PROVE readLocked'[i] = Cardinality(Readers(i)')
  <2>1. CASE i = id
    BY <2>1, <1>2, <1>3 DEF LocksMatchCalls
  <2>2. CASE i # id
    BY <2>2, <1>1, <1>3 DEF LocksMatchCalls, SameCallsInside
  <2> QED
    BY <2>1, <2>2
<1> QED
  BY <1>1, <1>4 DEF LocksMatchCalls, ReadLock, SameCallsInside

LEMMA LeaveRead ==
  ASSUME TypeOK, LocksMatchCalls,
         NEW c \in Calls, pc[c] \in ReadSection,
         Goto(c, "idle"), ReadUnlock(item[c]), item' = item
  PROVE  LocksMatchCalls' /\ readLocked[item[c]] \in Nat \ {0}
<1>1. PICK id \in IDs : item[c] = id
  BY DEF TypeOK
<1>2. /\ c \in Readers(id)
      /\ Writers(id)' = {} /\ Readers(id)' = Readers(id) \ {c}
      /\ \A i \in IDs \ {id} : SameCallsInside(i)
  BY <1>1, LeaveReadSets
<1>3. /\ Cardinality(Readers(id)') = Cardinality(Readers(id)) - 1
      /\ Cardinality(Readers(id)') \in Nat
  BY <1>2, ReadersAreFinite, FS_RemoveElement, FS_CardinalityType
<1>4. \A i \in IDs : readLocked'[i] = IF i = id THEN readLocked[id] - 1
                                     ELSE readLocked[i]
  BY <1>1 DEF ReadUnlock, TypeOK
<1>5. readLocked[id] = Cardinality(Readers(id)) /\ Cardinality(Readers(id)) \in Nat
  BY ReadersAreFinite, FS_CardinalityType DEF LocksMatchCalls
<1>6. ASSUME NEW i \in IDs PROVE readLocked'[i] = Cardinality(Readers(i)')
  <2>1. CASE i = id
    BY <2>1, <1>3, <1>4, <1>5
  <2>2. CASE i # id
    BY <2>2, <1>2, <1>4 DEF LocksMatchCalls, SameCallsInside
  <2> QED
    BY <2>1, <2>2
<1>7. LocksMatchCalls'
  BY <1>1, <1>2, <1>6 DEF LocksMatchCalls, ReadUnlock, SameCallsInside
<1> QED
  BY <1>1, <1>3, <1>5, <1>7
-----------------------------------------------------------------------------
(* The inductive invariant: TypeOK alone is not inductive, since a counter  *)
(* of readers stays a natural number only because it counts readers, and a  *)
(* writer adds to a directory only because nobody has removed it.          *)
CoreInv == TypeOK /\ LocksMatchCalls /\ WriterKeepsDirectory /\ NothingCachedYet
IInv == CoreInv /\ TornOnlyByRemoval

LEMMA WholeIsADirectory == Whole \in Dirs /\ {} \in Dirs /\ NoDir \in Dirs
BY DEF Dirs

LEMMA ShrunkIsADirectory ==
  ASSUME NEW dir \in Dirs, NEW d \in Shrunk(dir) PROVE d \in Dirs
BY DEF Dirs, Shrunk

LEMMA InitIInv == Init => IInv
<1> SUFFICES ASSUME Init PROVE IInv
  OBVIOUS
<1>1. TypeOK
  BY DEF Init, TypeOK, Dirs
<1>2. \A id \in IDs : Writers(id) = {} /\ Readers(id) = {}
  BY SectionsAreDisjoint DEF Init, Writers, Readers
<1>3. LocksMatchCalls
  BY <1>2, FS_EmptySet DEF Init, LocksMatchCalls
<1>4. TornOnlyByRemoval
  BY DEF Init, TornOnlyByRemoval
<1>5. WriterKeepsDirectory /\ NothingCachedYet
  BY DEF Init, WriterKeepsDirectory, NothingCachedYet
<1> QED
  BY <1>1, <1>3, <1>4, <1>5 DEF IInv, CoreInv

LEMMA TypeStep == CoreInv /\ [Next]_vars => TypeOK'
<1> SUFFICES ASSUME CoreInv, [Next]_vars PROVE TypeOK'
  OBVIOUS
<1> USE DEF CoreInv
<1>1. ASSUME NEW c \in Calls, NEW id \in IDs, Create(c, id) PROVE TypeOK'
  BY <1>1 DEF Create, Start, Goto, WriteLock, TypeOK, WriteSection
<1>2. ASSUME NEW c \in Calls, NEW id \in IDs, Remove(c, id) PROVE TypeOK'
  BY <1>2 DEF Remove, Start, Goto, WriteLock, TypeOK, WriteSection
<1>3. ASSUME NEW c \in Calls, NEW id \in IDs, Get(c, id) PROVE TypeOK'
  BY <1>3 DEF Get, Start, Goto, ReadLock, TypeOK, ReadSection
<1>4. ASSUME NEW c \in Calls, Mkdir(c) PROVE TypeOK'
  BY <1>4, WholeIsADirectory DEF Mkdir, Goto, TypeOK, WriteSection
<1>5. ASSUME NEW c \in Calls, Commit(c) PROVE TypeOK'
  BY <1>5, WholeIsADirectory DEF Commit, Rename, Goto, TypeOK, WriteSection
<1>6. ASSUME NEW c \in Calls, Abort(c) PROVE TypeOK'
  BY <1>6 DEF Abort, Goto, TypeOK, WriteSection
<1>7. ASSUME NEW c \in Calls, AbortStep(c) PROVE TypeOK'
  BY <1>7, ShrunkIsADirectory DEF AbortStep, Goto, TypeOK, WriteSection
<1>8. ASSUME NEW c \in Calls, RemoveStep(c) PROVE TypeOK'
  BY <1>8, ShrunkIsADirectory DEF RemoveStep, Goto, TypeOK, WriteSection
<1>9. ASSUME NEW c \in Calls, Stat(c) PROVE TypeOK'
  BY <1>9 DEF Stat, Goto, TypeOK, ReadSection
<1>10. ASSUME NEW c \in Calls, EndGet(c) PROVE TypeOK'
  <2>1. readLocked[item[c]] \in Nat \ {0}
    BY <1>10, LeaveRead DEF EndGet, ReadSection
  <2>2. readLocked[item[c]] - 1 \in Nat
    BY <2>1
  <2> QED
    BY <1>10, <2>2 DEF EndGet, ReadUnlock, Goto, TypeOK
<1>11. ASSUME NEW c \in Calls, Unlock(c) PROVE TypeOK'
  BY <1>11 DEF Unlock, WriteUnlock, Goto, TypeOK
<1>12. ASSUME NEW c \in Calls, WritePart(c) PROVE TypeOK'
  <2> PICK x \in Whole \ tmp[item[c]] :
        tmp' = [tmp EXCEPT ![item[c]] = @ \union {x}]
    BY <1>12 DEF WritePart
  <2>1. tmp[item[c]] \in SUBSET Whole
    BY <1>12 DEF WritePart, TypeOK, Dirs, WriterKeepsDirectory
  <2> QED
    BY <1>12, <2>1 DEF WritePart, TypeOK, Dirs
<1>13. ASSUME Restart PROVE TypeOK'
  BY <1>13, WholeIsADirectory DEF Restart, TypeOK
<1>14. CASE UNCHANGED vars
  BY <1>14 DEF vars, TypeOK
<1> QED
  BY <1>1, <1>2, <1>3, <1>4, <1>5, <1>6, <1>7, <1>8, <1>9, <1>10, <1>11,
     <1>12, <1>13, <1>14 DEF Next, Step

LEMMA LockStep == CoreInv /\ [Next]_vars => LocksMatchCalls'
<1> SUFFICES ASSUME CoreInv, [Next]_vars PROVE LocksMatchCalls'
  OBVIOUS
<1> USE DEF CoreInv
<1>1. ASSUME NEW c \in Calls, NEW id \in IDs, Create(c, id)
      PROVE  LocksMatchCalls'
  BY <1>1, EnterWrite DEF Create, WriteSection
<1>2. ASSUME NEW c \in Calls, NEW id \in IDs, Remove(c, id)
      PROVE  LocksMatchCalls'
  BY <1>2, EnterWrite DEF Remove, WriteSection
<1>3. ASSUME NEW c \in Calls, NEW id \in IDs, Get(c, id)
      PROVE  LocksMatchCalls'
  BY <1>3, EnterRead DEF Get, ReadSection
<1>4. ASSUME NEW c \in Calls, Mkdir(c) PROVE LocksMatchCalls'
  BY <1>4, StayKeepsLocks DEF Mkdir, WriteSection
<1>5. ASSUME NEW c \in Calls, Commit(c) PROVE LocksMatchCalls'
  BY <1>5, StayKeepsLocks DEF Commit, Rename, WriteSection
<1>6. ASSUME NEW c \in Calls, Abort(c) PROVE LocksMatchCalls'
  BY <1>6, StayKeepsLocks DEF Abort, WriteSection
<1>7. ASSUME NEW c \in Calls, AbortStep(c) PROVE LocksMatchCalls'
  <2>1. CASE UNCHANGED pc
    <3>1. Goto(c, pc[c])
      BY <2>1 DEF Goto, TypeOK
    <3> QED
      BY <1>7, <3>1, StayKeepsLocks DEF AbortStep, WriteSection
  <2>2. CASE Goto(c, "wunlock")
    BY <1>7, <2>2, StayKeepsLocks DEF AbortStep, WriteSection
  <2> QED
    BY <1>7, <2>1, <2>2 DEF AbortStep
<1>8. ASSUME NEW c \in Calls, RemoveStep(c) PROVE LocksMatchCalls'
  <2>1. CASE UNCHANGED pc
    <3>1. Goto(c, pc[c])
      BY <2>1 DEF Goto, TypeOK
    <3> QED
      BY <1>8, <3>1, StayKeepsLocks DEF RemoveStep, WriteSection
  <2>2. CASE Goto(c, "wunlock")
    BY <1>8, <2>2, StayKeepsLocks DEF RemoveStep, WriteSection
  <2> QED
    BY <1>8, <2>1, <2>2 DEF RemoveStep
<1>9. ASSUME NEW c \in Calls, Stat(c) PROVE LocksMatchCalls'
  BY <1>9, StayKeepsLocks DEF Stat, ReadSection
<1>10. ASSUME NEW c \in Calls, EndGet(c) PROVE LocksMatchCalls'
  BY <1>10, LeaveRead DEF EndGet, ReadSection
<1>11. ASSUME NEW c \in Calls, Unlock(c) PROVE LocksMatchCalls'
  BY <1>11, LeaveWrite DEF Unlock, WriteSection
<1>12. ASSUME \/ \E c \in Calls : WritePart(c)
              \/ UNCHANGED vars
       PROVE  LocksMatchCalls'
  <2>1. UNCHANGED <<pc, item, writeLocked, readLocked>>
    BY <1>12 DEF WritePart, vars
  <2>2. \A id : Writers(id)' = Writers(id) /\ Readers(id)' = Readers(id)
    BY <2>1 DEF Writers, Readers
  <2> QED
    BY <2>1, <2>2 DEF LocksMatchCalls
<1>13. ASSUME Restart PROVE LocksMatchCalls'
  <2>1. \A id \in IDs : Writers(id)' = {} /\ Readers(id)' = {}
    BY <1>13, SectionsAreDisjoint DEF Restart, Writers, Readers
  <2>2. \A id \in IDs : Cardinality(Readers(id)') = 0
    BY <2>1, FS_EmptySet
  <2> QED
    BY <1>13, <2>1, <2>2 DEF Restart, LocksMatchCalls
<1> QED
  BY <1>1, <1>2, <1>3, <1>4, <1>5, <1>6, <1>7, <1>8, <1>9, <1>10, <1>11,
     <1>12, <1>13 DEF Next, Step

LEMMA DirectoryStep == CoreInv /\ [Next]_vars => WriterKeepsDirectory'
<1> SUFFICES ASSUME CoreInv, [Next]_vars, NEW d \in Calls, pc'[d] = "writing"
             PROVE  tmp'[item'[d]] # NoDir
  BY DEF WriterKeepsDirectory
<1> USE DEF CoreInv
<1>1. ASSUME pc[d] = "writing", item'[d] = item[d],
             tmp'[item[d]] = tmp[item[d]]
      PROVE  tmp'[item'[d]] # NoDir
  BY <1>1 DEF WriterKeepsDirectory
<1>2. ASSUME NEW c \in Calls, pc[c] \in WriteSection, c # d,
             pc[d] = "writing", UNCHANGED item,
             \A i \in IDs \ {item[c]} : tmp'[i] = tmp[i]
      PROVE  tmp'[item'[d]] # NoDir
  <2>1. item[c] # item[d]
    BY <1>2 DEF LocksMatchCalls, Writers, WriteSection, TypeOK
  <2> QED
    BY <1>1, <1>2, <2>1 DEF TypeOK
<1>3. ASSUME NEW c \in Calls, NEW id \in IDs,
             Create(c, id) \/ Remove(c, id) \/ Get(c, id)
      PROVE  tmp'[item'[d]] # NoDir
  BY <1>1, <1>3 DEF Create, Remove, Get, Start, Goto, TypeOK
<1>4. ASSUME NEW c \in Calls, Mkdir(c) PROVE tmp'[item'[d]] # NoDir
  <2>1. CASE c = d
    <3>1. tmp'[item[d]] \in SUBSET Whole
      BY <1>4, <2>1 DEF Mkdir, Goto, TypeOK, Dirs
    <3>2. item' = item
      BY <1>4 DEF Mkdir
    <3> QED
      BY <3>1, <3>2, CacheAssumption
  <2>2. CASE c # d
    BY <1>2, <1>4, <2>2 DEF Mkdir, Goto, TypeOK, WriteSection
  <2> QED
    BY <2>1, <2>2
<1>5. ASSUME NEW c \in Calls, Commit(c) PROVE tmp'[item'[d]] # NoDir
  BY <1>2, <1>5 DEF Commit, Rename, Goto, TypeOK, WriteSection
<1>6. ASSUME NEW c \in Calls, Abort(c) PROVE tmp'[item'[d]] # NoDir
  BY <1>1, <1>6 DEF Abort, Goto, TypeOK
<1>7. ASSUME NEW c \in Calls, AbortStep(c) PROVE tmp'[item'[d]] # NoDir
  BY <1>2, <1>7 DEF AbortStep, Goto, TypeOK, WriteSection
<1>8. ASSUME NEW c \in Calls, RemoveStep(c) PROVE tmp'[item'[d]] # NoDir
  BY <1>1, <1>8 DEF RemoveStep, Goto, TypeOK
<1>9. ASSUME NEW c \in Calls, Stat(c) \/ EndGet(c) \/ Unlock(c)
      PROVE  tmp'[item'[d]] # NoDir
  BY <1>1, <1>9 DEF Stat, EndGet, Unlock, Goto, TypeOK
<1>10. ASSUME NEW c \in Calls, WritePart(c) PROVE tmp'[item'[d]] # NoDir
  <2>1. pc[d] = "writing" /\ item' = item /\ item[d] \in IDs
    BY <1>10 DEF WritePart, TypeOK
  <2>2. CASE item[d] = item[c]
    <3>1. tmp'[item[c]] \in SUBSET Whole
      BY <1>10 DEF WritePart, TypeOK, Dirs, WriterKeepsDirectory
    <3> QED
      BY <2>1, <2>2, <3>1, CacheAssumption
  <2>3. CASE item[d] # item[c]
    BY <1>1, <1>10, <2>1, <2>3 DEF WritePart, TypeOK
  <2> QED
    BY <2>2, <2>3
<1>11. CASE Restart
  BY <1>11 DEF Restart
<1>12. CASE UNCHANGED vars
  BY <1>1, <1>12 DEF vars
<1> QED
  BY <1>3, <1>4, <1>5, <1>6, <1>7, <1>8, <1>9, <1>10, <1>11, <1>12
     DEF Next, Step

LEMMA CreatorStep == CoreInv /\ [Next]_vars => NothingCachedYet'
<1> DEFINE Creating == {"mkdir", "writing", "aborting"}
<1> SUFFICES ASSUME CoreInv, [Next]_vars, NEW d \in Calls, pc'[d] \in Creating
             PROVE  cached'[item'[d]] = NoDir
  BY DEF NothingCachedYet
<1> USE DEF CoreInv
<1>1. ASSUME pc[d] \in Creating, item'[d] = item[d],
             cached'[item[d]] = cached[item[d]]
      PROVE  cached'[item'[d]] = NoDir
  BY <1>1 DEF NothingCachedYet
<1>2. ASSUME NEW c \in Calls, NEW id \in IDs, Create(c, id)
      PROVE  cached'[item'[d]] = NoDir
  BY <1>1, <1>2 DEF Create, Start, Goto, WriteLock, TypeOK
<1>3. ASSUME NEW c \in Calls, NEW id \in IDs, Remove(c, id) \/ Get(c, id)
      PROVE  cached'[item'[d]] = NoDir
  BY <1>1, <1>3 DEF Remove, Get, Start, Goto, TypeOK
<1>4. ASSUME NEW c \in Calls,
             \/ Mkdir(c) \/ Abort(c) \/ AbortStep(c) \/ WritePart(c)
             \/ Stat(c) \/ EndGet(c) \/ Unlock(c)
      PROVE  cached'[item'[d]] = NoDir
  BY <1>1, <1>4 DEF Mkdir, Abort, AbortStep, WritePart, Stat, EndGet, Unlock,
                    Goto, TypeOK
<1>5. ASSUME NEW c \in Calls, Commit(c) \/ RemoveStep(c)
      PROVE  cached'[item'[d]] = NoDir
  <2>1. /\ pc[c] \in WriteSection /\ c # d
        /\ item' = item /\ pc[d] \in Creating
        /\ \A i \in IDs \ {item[c]} : cached'[i] = cached[i]
    BY <1>5 DEF Commit, Rename, RemoveStep, Goto, TypeOK, WriteSection
  <2>2. item[c] # item[d]
    BY <2>1 DEF LocksMatchCalls, Writers, WriteSection, TypeOK
  <2> QED
    BY <1>1, <2>1, <2>2 DEF TypeOK
<1>6. CASE Restart
  BY <1>6 DEF Restart
<1>7. CASE UNCHANGED vars
  BY <1>1, <1>7 DEF vars
<1> QED
  BY <1>2, <1>3, <1>4, <1>5, <1>6, <1>7 DEF Next, Step

\* The same for a cache in which the artifacts of S may be incomplete anyway.
TornBut(S) ==
  \A id \in IDs :
    cached[id] \in {NoDir, Whole} \/ id \in cut \union S
      \/ \E c \in Calls : pc[c] = "removing" /\ item[c] = id

LEMMA TornButStep ==
  ASSUME NEW S, CoreInv, TornBut(S), [Next]_vars PROVE TornBut(S)'
<1> USE DEF CoreInv
<1>1. ASSUME UNCHANGED <<cached, cut>>,
             \A c \in Calls : pc[c] = "removing" =>
                pc'[c] = "removing" /\ item'[c] = item[c]
      PROVE  TornBut(S)'
  BY <1>1 DEF TornBut
<1>2. ASSUME NEW c \in Calls, NEW id \in IDs,
             Create(c, id) \/ Remove(c, id) \/ Get(c, id)
      PROVE  TornBut(S)'
  BY <1>1, <1>2 DEF Create, Remove, Get, Start, Goto, TypeOK
<1>3. ASSUME NEW c \in Calls,
             \/ Mkdir(c) \/ Abort(c) \/ AbortStep(c) \/ WritePart(c)
             \/ Stat(c) \/ EndGet(c) \/ Unlock(c)
      PROVE  TornBut(S)'
  BY <1>1, <1>3 DEF Mkdir, Abort, AbortStep, WritePart, Stat, EndGet, Unlock,
                    Goto, TypeOK
<1>4. ASSUME NEW c \in Calls, Commit(c) PROVE TornBut(S)'
  <2>1. \A i \in IDs : cached'[i] = cached[i] \/ cached'[i] = Whole
    BY <1>4 DEF Commit, Rename, TypeOK
  <2>2. /\ cut' = cut /\ item' = item
        /\ \A e \in Calls : pc[e] = "removing" => pc'[e] = "removing"
    BY <1>4 DEF Commit, Rename, Goto, TypeOK
  <2> QED
    BY <2>1, <2>2 DEF TornBut
<1>5. ASSUME NEW c \in Calls, RemoveStep(c) PROVE TornBut(S)'
  <2>1. /\ item' = item /\ item[c] \in IDs
        /\ \A e \in Calls \ {c} : pc'[e] = pc[e]
        /\ \A i \in IDs \ {item[c]} :
              cached'[i] = cached[i] /\ (i \in cut => i \in cut')
    BY <1>5 DEF RemoveStep, Goto, TypeOK
  <2>2. \/ cached'[item[c]] = NoDir
        \/ item[c] \in cut'
        \/ pc'[c] = "removing"
    BY <1>5 DEF RemoveStep, Goto, TypeOK
  <2> QED
    BY <2>1, <2>2 DEF TornBut
<1>6. ASSUME Restart PROVE TornBut(S)'
  BY <1>6 DEF Restart, TornBut
<1>7. CASE UNCHANGED vars
  BY <1>1, <1>7 DEF vars
<1> QED
  BY <1>2, <1>3, <1>4, <1>5, <1>6, <1>7 DEF Next, Step

LEMMA TornStep == IInv /\ [Next]_vars => TornOnlyByRemoval'
<1>1. TornOnlyByRemoval = TornBut({}) /\ TornOnlyByRemoval' = TornBut({})'
  BY DEF TornOnlyByRemoval, TornBut
<1> QED
  BY <1>1, TornButStep DEF IInv
-----------------------------------------------------------------------------
(* IInv holds in every reachable state.                                    *)
THEOREM InvariantHolds == Spec => []IInv
<1>1. IInv /\ [Next]_vars => IInv'
  BY TypeStep, LockStep, DirectoryStep, CreatorStep, TornStep
     DEF IInv, CoreInv
<1> QED
  BY InitIInv, <1>1, PTL DEF Spec

(* The variables stay within their types: a reader count never goes below  *)
(* zero, whichever of Get's exits is taken.                                *)
THEOREM TypeCorrect == Spec => []TypeOK
<1>1. IInv => TypeOK
  BY DEF IInv, CoreInv
<1> QED
  BY InvariantHolds, <1>1, PTL

(* writeLocked and readLocked agree with the calls that are inside, for any *)
(* number of calls, and no call reads what another one writes.             *)
THEOREM LocksAreExact == Spec => []LocksMatchCalls
<1>1. IInv => LocksMatchCalls
  BY DEF IInv, CoreInv
<1> QED
  BY InvariantHolds, <1>1, PTL

(* The directory Create handed out exists until its caller ends the write. *)
THEOREM DirectoryIsKept == Spec => []WriterKeepsDirectory
<1>1. IInv => WriterKeepsDirectory
  BY DEF IInv, CoreInv
<1> QED
  BY InvariantHolds, <1>1, PTL

(* From the look at the cache directory to the rename, an artifact that is  *)
(* created has not appeared there.                                         *)
THEOREM CreatorsComeFirst == Spec => []NothingCachedYet
<1>1. IInv => NothingCachedYet
  BY DEF IInv, CoreInv
<1> QED
  BY InvariantHolds, <1>1, PTL

(* Only a removal that is running, or stopped half way, leaves an incomplete *)
(* artifact in the cache directory.                                        *)
THEOREM TearsComeFromRemovals == Spec => []TornOnlyByRemoval
<1>1. IInv => TornOnlyByRemoval
  BY DEF IInv, CoreInv
<1> QED
  BY InvariantHolds, <1>1, PTL

LEMMA ReaderIsUndisturbed ==
  ASSUME CoreInv, [Next]_vars, NEW c \in Calls,
         pc[c] = "reading", pc'[c] = "reading"
  PROVE  cached'[item[c]] = cached[item[c]]
<1> USE DEF CoreInv
<1>1. PICK id \in IDs : item[c] = id
  BY DEF TypeOK
<1>2. ASSUME NEW d \in Calls, pc[d] \in WriteSection PROVE item[d] # id
  <2>1. c \in Readers(id)
    BY <1>1 DEF Readers, ReadSection
  <2> QED
    BY <1>2, <2>1 DEF LocksMatchCalls, Writers
<1>3. ASSUME NEW d \in Calls, RemoveStep(d) \/ Commit(d)
      PROVE  cached'[id] = cached[id]
  <2>1. item[d] # id /\ item[d] \in IDs
    BY <1>2, <1>3 DEF RemoveStep, Commit, WriteSection, TypeOK
  <2> QED
    BY <1>3, <2>1 DEF RemoveStep, Commit, Rename, TypeOK
<1>4. ASSUME NEW d \in Calls, NEW i \in IDs,
             Create(d, i) \/ Remove(d, i) \/ Get(d, i)
      PROVE  cached' = cached
  BY <1>4 DEF Create, Remove, Get
<1>5. ASSUME NEW d \in Calls,
             \/ Mkdir(d) \/ Abort(d) \/ AbortStep(d) \/ WritePart(d)
             \/ Stat(d) \/ EndGet(d) \/ Unlock(d)
      PROVE  cached' = cached
  BY <1>5 DEF Mkdir, Abort, AbortStep, WritePart, Stat, EndGet, Unlock
<1>6. CASE Restart \/ UNCHANGED vars
  BY <1>6 DEF Restart, vars
<1> QED
  BY <1>1, <1>3, <1>4, <1>5, <1>6 DEF Next, Step

(* A reader's artifact is the same at its unlock as it was at its Get.     *)
THEOREM ReadersAreStable == Spec => ReadersSeeStableArtifact
<1> DEFINE Undisturbed ==
      \A c \in Calls : pc[c] = "reading" /\ pc'[c] = "reading"
                         => cached'[item[c]] = cached[item[c]]
<1>1. IInv /\ [Next]_vars => [Undisturbed]_vars
  BY ReaderIsUndisturbed DEF IInv
<1> QED
  BY InvariantHolds, <1>1, PTL DEF Spec, ReadersSeeStableArtifact
-----------------------------------------------------------------------------
(***************************************************************************)
(* The artifact cache implements the abstract store: its initial state is  *)
(* one of the store's, and each of its steps is a step of the store or     *)
(* leaves the store as it is.                                              *)
(***************************************************************************)

(* How the refinement mapping moves with the variables it is built from.   *)
LEMMA PhaseMove ==
  ASSUME TypeOK, NEW c \in Calls, NEW l, Goto(c, l)
  PROVE  storePhase' = [storePhase EXCEPT ![c] = PhaseAt(l)]
BY DEF TypeOK, Goto, storePhase

LEMMA PhaseStays ==
  ASSUME TypeOK, NEW c \in Calls, NEW l, Goto(c, l), PhaseAt(l) = PhaseAt(pc[c])
  PROVE  storePhase' = storePhase
BY DEF TypeOK, Goto, storePhase

LEMMA CallsMove ==
  ASSUME NEW id \in IDs, \A i \in IDs \ {id} : SameCallsInside(i)
  PROVE  /\ storeWriters' = [storeWriters EXCEPT ![id] = Writers(id)']
         /\ storeReaders' = [storeReaders EXCEPT ![id] = Readers(id)']
BY DEF SameCallsInside, storeWriters, storeReaders

LEMMA CallsStay ==
  ASSUME \A i \in IDs : SameCallsInside(i)
  PROVE  UNCHANGED <<storeWriters, storeReaders>>
BY DEF SameCallsInside, storeWriters, storeReaders

LEMMA ContentMove ==
  ASSUME TypeOK, NEW id \in IDs, NEW dir, cached' = [cached EXCEPT ![id] = dir]
  PROVE  storeContent' = [storeContent EXCEPT ![id] = ContentOf(dir)]
BY DEF TypeOK, storeContent

LEMMA ContentStays == ASSUME UNCHANGED cached PROVE UNCHANGED storeContent
BY DEF storeContent

LEMMA WholeIsContent == Whole # NoDir /\ Whole # {}
<1>1. Whole # NoDir
  BY CacheAssumption
<1>2. PICK e \in Entries : e # {}
  BY CacheAssumption
<1> QED
  BY <1>1, <1>2 DEF Whole

LEMMA InitRefines == Init => Store!Init
<1> SUFFICES ASSUME Init PROVE Store!Init
  OBVIOUS
<1>1. \A id : Writers(id) = {} /\ Readers(id) = {}
  BY SectionsAreDisjoint DEF Init, Writers, Readers
<1> QED
  BY <1>1 DEF Init, Store!Init, storeContent, storeWriters, storeReaders,
              storePhase, ContentOf, PhaseAt

LEMMA CreateRefines ==
  ASSUME IInv, NEW c \in Calls, NEW id \in IDs, Create(c, id)
  PROVE  Store!BeginCreate(c, id)
<1>1. /\ Writers(id) = {} /\ Readers(id) = {}
      /\ Writers(id)' = {c} /\ Readers(id)' = {}
      /\ \A i \in IDs \ {id} : SameCallsInside(i)
  BY EnterWriteSets DEF IInv, CoreInv, Create, WriteSection
<1>2. storeWriters' = [storeWriters EXCEPT ![id] = {c}] /\ storeReaders' = storeReaders
  BY <1>1, CallsMove DEF storeReaders
<1>3. storePhase' = [storePhase EXCEPT ![c] = "create"] /\ storePhase[c] = "none"
  BY PhaseMove DEF IInv, CoreInv, Create, Start, PhaseAt, storePhase
<1>4. storeContent' = storeContent /\ storeContent[id] = "absent"
  BY ContentStays DEF Create, WriteLock, storeContent, ContentOf
<1> QED
  BY <1>1, <1>2, <1>3, <1>4
     DEF Store!BeginCreate, Store!Free, storeWriters, storeReaders

LEMMA RemoveRefines ==
  ASSUME IInv, NEW c \in Calls, NEW id \in IDs, Remove(c, id)
  PROVE  Store!BeginRemove(c, id)
<1>1. /\ Writers(id) = {} /\ Readers(id) = {}
      /\ Writers(id)' = {c} /\ Readers(id)' = {}
      /\ \A i \in IDs \ {id} : SameCallsInside(i)
  BY EnterWriteSets DEF IInv, CoreInv, Remove, WriteSection
<1>2. storeWriters' = [storeWriters EXCEPT ![id] = {c}] /\ storeReaders' = storeReaders
  BY <1>1, CallsMove DEF storeReaders
<1>3. storePhase' = [storePhase EXCEPT ![c] = "remove"] /\ storePhase[c] = "none"
  BY PhaseMove DEF IInv, CoreInv, Remove, Start, PhaseAt, storePhase
<1>4. storeContent' = storeContent
  BY ContentStays DEF Remove
<1> QED
  BY <1>1, <1>2, <1>3, <1>4
     DEF Store!BeginRemove, Store!Free, storeWriters, storeReaders

LEMMA GetRefines ==
  ASSUME IInv, NEW c \in Calls, NEW id \in IDs, Get(c, id)
  PROVE  Store!BeginRead(c, id)
<1>1. /\ Writers(id) = {} /\ Writers(id)' = {}
      /\ Readers(id)' = Readers(id) \union {c}
      /\ \A i \in IDs \ {id} : SameCallsInside(i)
  BY EnterReadSets DEF IInv, CoreInv, Get, ReadSection
<1>2. /\ storeReaders' = [storeReaders EXCEPT ![id] = @ \union {c}]
      /\ storeWriters' = storeWriters
  BY <1>1, CallsMove DEF storeReaders, storeWriters
<1>3. storePhase' = storePhase
  BY PhaseStays DEF IInv, CoreInv, Get, Start, PhaseAt
<1>4. storeContent' = storeContent
  BY ContentStays DEF Get
<1> QED
  BY <1>1, <1>2, <1>3, <1>4 DEF Store!BeginRead, storeWriters

LEMMA EndGetRefines ==
  ASSUME IInv, NEW c \in Calls, NEW id \in IDs, item[c] = id, EndGet(c)
  PROVE  Store!EndRead(c, id)
<1>1. /\ c \in Readers(id) /\ Writers(id) = {} /\ Writers(id)' = {}
      /\ Readers(id)' = Readers(id) \ {c}
      /\ \A i \in IDs \ {id} : SameCallsInside(i)
  BY LeaveReadSets DEF IInv, CoreInv, EndGet, ReadSection
<1>2. /\ storeReaders' = [storeReaders EXCEPT ![id] = @ \ {c}]
      /\ storeWriters' = storeWriters
  BY <1>1, CallsMove DEF storeReaders, storeWriters
<1>3. storePhase' = storePhase
  BY PhaseStays DEF IInv, CoreInv, EndGet, PhaseAt
<1>4. storeContent' = storeContent
  BY ContentStays DEF EndGet
<1> QED
  BY <1>1, <1>2, <1>3, <1>4 DEF Store!EndRead, storeReaders

LEMMA UnlockRefines ==
  ASSUME IInv, NEW c \in Calls, NEW id \in IDs, item[c] = id, Unlock(c)
  PROVE  Store!Release(c, id)
<1>1. /\ Writers(id) = {c} /\ Readers(id) = {}
      /\ Writers(id)' = {} /\ Readers(id)' = {}
      /\ \A i \in IDs \ {id} : SameCallsInside(i)
  BY LeaveWriteSets DEF IInv, CoreInv, Unlock, WriteSection
<1>2. /\ storeWriters' = [storeWriters EXCEPT ![id] = @ \ {c}]
      /\ storeReaders' = storeReaders
  BY <1>1, CallsMove DEF storeReaders, storeWriters
<1>3. storePhase' = [storePhase EXCEPT ![c] = "none"] /\ storePhase[c] = "done"
  BY PhaseMove DEF IInv, CoreInv, Unlock, PhaseAt, storePhase
<1>4. storeContent' = storeContent
  BY ContentStays DEF Unlock
<1> QED
  BY <1>1, <1>2, <1>3, <1>4 DEF Store!Release, storeWriters

(* A call that moves on inside its section is still a writer or a reader.  *)
LEMMA MoveInside ==
  ASSUME IInv, NEW c \in Calls, NEW l, Goto(c, l), UNCHANGED item,
         \/ pc[c] \in WriteSection /\ l \in WriteSection
         \/ pc[c] \in ReadSection /\ l \in ReadSection
  PROVE  UNCHANGED <<storeWriters, storeReaders>>
BY StaySets, CallsStay DEF IInv, CoreInv

LEMMA GiveUpRefines ==
  ASSUME IInv, NEW c \in Calls, pc[c] \in WriteSection \ {"wunlock"},
         Goto(c, "wunlock"), UNCHANGED <<item, cached>>
  PROVE  Store!GiveUp(c)
<1>1. UNCHANGED <<storeWriters, storeReaders>>
  BY MoveInside DEF WriteSection
<1>2. /\ storePhase' = [storePhase EXCEPT ![c] = "done"]
      /\ storePhase[c] \in {"create", "remove"}
  BY PhaseMove DEF IInv, CoreInv, WriteSection, PhaseAt, storePhase
<1> QED
  BY <1>1, <1>2, ContentStays DEF Store!GiveUp

LEMMA WriteOnRefines ==
  ASSUME IInv, NEW c \in Calls, NEW l \in {"mkdir", "writing", "aborting"},
         pc[c] \in {"mkdir", "writing", "aborting"},
         Goto(c, l), UNCHANGED <<item, cached>>
  PROVE  UNCHANGED Store!vars
<1>1. UNCHANGED <<storeWriters, storeReaders>>
  BY MoveInside DEF WriteSection
<1>2. storePhase' = storePhase
  BY PhaseStays DEF IInv, CoreInv, PhaseAt
<1> QED
  BY <1>1, <1>2, ContentStays DEF Store!vars

LEMMA CommitRefines ==
  ASSUME IInv, NEW c \in Calls, NEW id \in IDs, item[c] = id, Commit(c)
  PROVE  Store!Publish(c, id) \/ Store!GiveUp(c)
<1>1. CASE UNCHANGED cached
  BY <1>1, GiveUpRefines DEF Commit, Rename, WriteSection
<1>2. CASE cached[id] = NoDir /\ cached' = [cached EXCEPT ![id] = Whole]
  <2>1. c \in storeWriters[id]
    BY DEF Commit, WriteSection, storeWriters, Writers
  <2>2. UNCHANGED <<storeWriters, storeReaders>>
    BY MoveInside DEF Commit, Rename, WriteSection
  <2>3. storePhase' = [storePhase EXCEPT ![c] = "done"] /\ storePhase[c] = "create"
    BY PhaseMove DEF IInv, CoreInv, Commit, Rename, PhaseAt, storePhase
  <2>4. /\ storeContent' = [storeContent EXCEPT ![id] = "whole"]
        /\ storeContent[id] = "absent"
    BY <1>2, ContentMove, WholeIsContent DEF IInv, CoreInv, ContentOf, storeContent
  <2> QED
    BY <2>1, <2>2, <2>3, <2>4 DEF Store!Publish
<1> QED
  BY <1>1, <1>2 DEF Commit, Rename, IInv, CoreInv, NothingCachedYet

(* An unlink takes something away, so what is left of a directory is never *)
(* the complete artifact.                                                  *)
LEMMA ShrunkIsTorn ==
  ASSUME NEW dir \in Dirs, NEW d \in Shrunk(dir), d # NoDir
  PROVE  dir # NoDir /\ ContentOf(d) = "torn"
<1>1. dir \notin {NoDir, {}}
  BY DEF Shrunk
<1>2. PICK e \in Entries : d = dir \ e /\ e \intersect dir # {}
  BY <1>1 DEF Shrunk
<1>3. d # Whole
  BY <1>1, <1>2 DEF Dirs
<1> QED
  BY <1>1, <1>3 DEF ContentOf

LEMMA RemoveStepRefines ==
  ASSUME IInv, NEW c \in Calls, NEW id \in IDs, item[c] = id, RemoveStep(c)
  PROVE  Store!Tear(c, id) \/ Store!Erase(c, id) \/ Store!GiveUp(c)
<1>1. c \in storeWriters[id] /\ storePhase[c] = "remove"
  BY DEF RemoveStep, WriteSection, storeWriters, Writers, storePhase, PhaseAt
<1>2. CASE UNCHANGED cached /\ Goto(c, "wunlock")
  BY <1>2, GiveUpRefines DEF RemoveStep, WriteSection
<1>3. ASSUME NEW d \in Shrunk(cached[id]),
             cached' = [cached EXCEPT ![id] = d],
             IF d = NoDir THEN Goto(c, "wunlock") ELSE UNCHANGED pc
      PROVE  Store!Tear(c, id) \/ Store!Erase(c, id)
  <2>1. storeContent' = [storeContent EXCEPT ![id] = ContentOf(d)]
    BY <1>3, ContentMove DEF IInv, CoreInv
  <2>2. CASE d = NoDir
    <3>1. UNCHANGED <<storeWriters, storeReaders>>
      BY <1>3, <2>2, MoveInside DEF RemoveStep, WriteSection
    <3>2. storePhase' = [storePhase EXCEPT ![c] = "done"]
      BY <1>3, <2>2, PhaseMove DEF IInv, CoreInv, PhaseAt
    <3> QED
      BY <1>1, <2>1, <2>2, <3>1, <3>2 DEF Store!Erase, ContentOf
  <2>3. CASE d # NoDir
    <3>1. cached[id] # NoDir /\ ContentOf(d) = "torn"
      BY <2>3, ShrunkIsTorn DEF IInv, CoreInv, TypeOK
    <3>2. storeContent[id] # "absent"
      BY <3>1 DEF storeContent, ContentOf
    <3>3. UNCHANGED <<storeWriters, storeReaders, storePhase>>
      BY <1>3, <2>3 DEF RemoveStep, storeWriters, storeReaders, storePhase,
                        Writers, Readers
    <3> QED
      BY <1>1, <2>1, <3>1, <3>2, <3>3 DEF Store!Tear
  <2> QED
    BY <2>2, <2>3
<1> QED
  BY <1>2, <1>3 DEF RemoveStep

LEMMA RestartRefines == ASSUME IInv, Restart PROVE Store!Crash
<1>1. \A id : Writers(id)' = {} /\ Readers(id)' = {}
  BY SectionsAreDisjoint DEF Restart, Writers, Readers
<1>2. storeWriters' = [id \in IDs |-> {}] /\ storeReaders' = [id \in IDs |-> {}]
  BY <1>1 DEF storeWriters, storeReaders
<1>3. storePhase' = [c \in Calls |-> "none"]
  BY DEF Restart, storePhase, PhaseAt
<1> QED
  BY <1>2, <1>3, ContentStays DEF Restart, Store!Crash

LEMMA StepRefines == IInv /\ [Next]_vars => [Store!Next]_Store!vars
<1> SUFFICES ASSUME IInv, [Next]_vars PROVE [Store!Next]_Store!vars
  OBVIOUS
<1>1. ASSUME NEW c \in Calls, NEW id \in IDs,
             Create(c, id) \/ Remove(c, id) \/ Get(c, id)
      PROVE  Store!Next
  BY <1>1, CreateRefines, RemoveRefines, GetRefines DEF Store!Next
<1>2. ASSUME NEW c \in Calls,
             Commit(c) \/ RemoveStep(c) \/ EndGet(c) \/ Unlock(c)
      PROVE  Store!Next
  <2>1. item[c] \in IDs
    BY DEF IInv, CoreInv, TypeOK
  <2> QED
    BY <1>2, <2>1, CommitRefines, RemoveStepRefines, EndGetRefines,
       UnlockRefines DEF Store!Next
<1>3. ASSUME NEW c \in Calls, Mkdir(c) PROVE [Store!Next]_Store!vars
  BY <1>3, GiveUpRefines, WriteOnRefines DEF Mkdir, WriteSection, Store!Next
<1>4. ASSUME NEW c \in Calls, Abort(c) PROVE UNCHANGED Store!vars
  BY <1>4, WriteOnRefines DEF Abort
<1>5. ASSUME NEW c \in Calls, AbortStep(c) PROVE [Store!Next]_Store!vars
  <2>1. CASE UNCHANGED pc
    <3>1. Goto(c, "aborting")
      BY <1>5, <2>1 DEF AbortStep, Goto, IInv, CoreInv, TypeOK
    <3> QED
      BY <1>5, <3>1, WriteOnRefines DEF AbortStep
  <2>2. CASE Goto(c, "wunlock")
    BY <1>5, <2>2, GiveUpRefines DEF AbortStep, WriteSection, Store!Next
  <2> QED
    BY <1>5, <2>1, <2>2 DEF AbortStep
<1>6. ASSUME NEW c \in Calls, Stat(c) PROVE UNCHANGED Store!vars
  <2>1. PICK l \in {"reading", "runlock"} : Goto(c, l)
    BY <1>6 DEF Stat
  <2>2. UNCHANGED <<storeWriters, storeReaders>>
    BY <1>6, <2>1, MoveInside DEF Stat, ReadSection
  <2>3. storePhase' = storePhase
    BY <1>6, <2>1, PhaseStays DEF Stat, IInv, CoreInv, PhaseAt
  <2> QED
    BY <1>6, <2>2, <2>3, ContentStays DEF Stat, Store!vars
<1>7. ASSUME \/ \E c \in Calls : WritePart(c)
             \/ UNCHANGED vars
      PROVE  UNCHANGED Store!vars
  <2>1. UNCHANGED <<cached, pc, item>>
    BY <1>7 DEF WritePart, vars
  <2> QED
    BY <2>1 DEF Store!vars, storeContent, storeWriters, storeReaders,
                storePhase, Writers, Readers
<1>8. ASSUME Restart PROVE Store!Next
  BY <1>8, RestartRefines DEF Store!Next
<1> QED
  BY <1>1, <1>2, <1>3, <1>4, <1>5, <1>6, <1>7, <1>8 DEF Next, Step

(* For any calls, IDs and failures, callers of the artifact cache see the  *)
(* abstract store: each artifact appears whole and in one step.            *)
THEOREM CacheImplementsStore == Spec => ImplementsStore
BY InvariantHolds, InitRefines, StepRefines, PTL
   DEF Spec, ImplementsStore, Store!Spec
=============================================================================
