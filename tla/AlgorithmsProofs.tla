--------------------------- MODULE AlgorithmsProofs ---------------------------
(***************************************************************************)
(* More proofs about the programs of MCPrograms: of the algorithms over a  *)
(* list, the depth-first walks of hogwarts and distbuild, the list of      *)
(* lrucache and the sweep of hotelbusiness, and of what is passed on, by   *)
(* firewall, otp, testtool, tarstream and MergeChans.  Each has an         *)
(* invariant of its own, and a step of another program leaves it alone.    *)
(***************************************************************************)
EXTENDS ProgramsProofs, SequenceTheorems

LEMMA AlgorithmSteps ==
  ASSUME [Next]_vars
  PROVE  /\ [TSNextStep]_tsvars /\ [HWNext]_hwvars /\ [LRUNext]_lruvars /\ [FWNext]_fwvars
         /\ [OTNext]_otvars /\ [TTGradeNext \/ TTExportNext]_ttvars /\ [TANext]_tavars
         /\ [MGNext]_mgvars /\ [HBNext]_hbvars
BY DEF Next, SharedNext, ComputedNext, ToolsNext, vars, shared, computed, tools

\* A set of numbers with an upper bound has a greatest one.
LEMMA GreatestNat ==
  ASSUME NEW T \in SUBSET Nat, T # {}, NEW b \in Nat, \A m \in T : m <= b
  PROVE  \E n \in T : \A m \in T : m <= n
<1> DEFINE U == {b - m : m \in T}
<1>0. U \in SUBSET Nat /\ U # {}
  <2>1. \A m \in T : b - m \in Nat
    OBVIOUS
  <2>2. PICK m \in T : TRUE
    OBVIOUS
  <2>3. b - m \in U
    OBVIOUS
  <2> QED  BY <2>1, <2>3
<1>1. PICK n \in U : \A m \in U : n <= m
  <2> HIDE DEF U
  <2> QED  BY <1>0, LeastNat
<1>2. PICK k \in T : n = b - k
  <2> QED  BY <1>1
<1>3. \A m \in T : b - k <= b - m
  BY <1>1, <1>2
<1> QED  BY <1>3

-----------------------------------------------------------------------------
(* Sequences. *)

\* A sequence without its last element.
LEMMA FrontShape ==
  ASSUME NEW S, NEW s \in Seq(S), s # <<>>
  PROVE  /\ Front(s) \in Seq(S) /\ Len(Front(s)) = Len(s) - 1 /\ DOMAIN Front(s) = 1..Len(s) - 1
         /\ \A k \in 1..Len(s) - 1 : Front(s)[k] = s[k]
<1>1. Len(s) \in Nat /\ Len(s) # 0 /\ DOMAIN s = 1..Len(s) /\ \A k \in 1..Len(s) : s[k] \in S
  BY ElementOfSeq, EmptySeq, LenProperties
<1>2. \A k \in 1..Len(s) - 1 : k \in 1..Len(s) /\ 1 + k - 1 = k
  BY <1>1
<1>3. 1 \in Int /\ Len(s) - 1 \in Int /\ (Len(s) - 1) - 1 + 1 = Len(s) - 1
  BY <1>1
<1>4. /\ SubSeq(s, 1, Len(s) - 1) \in Seq(S)
      /\ Len(SubSeq(s, 1, Len(s) - 1)) = IF 1 <= Len(s) - 1 THEN (Len(s) - 1) - 1 + 1 ELSE 0
      /\ \A k \in 1..(Len(s) - 1) - 1 + 1 : SubSeq(s, 1, Len(s) - 1)[k] = s[1 + k - 1]
  BY <1>1, <1>2, <1>3, SubSeqProperties
<1>5. Len(Front(s)) = Len(s) - 1
  BY <1>1, <1>4 DEF Front
<1>6. Front(s) \in Seq(S)
  BY <1>4 DEF Front
<1>7. DOMAIN Front(s) = 1..Len(s) - 1
  BY <1>5, <1>6, LenProperties
<1> QED  BY <1>2, <1>3, <1>4, <1>5, <1>6, <1>7 DEF Front

\* A sequence with the element at p put behind the others.
LEMMA MovedShape ==
  ASSUME NEW S, NEW s \in Seq(S), NEW p \in 1..Len(s)
  PROVE  LET t == Append(RemoveAt(s, p), s[p]) IN
         /\ t \in Seq(S) /\ Len(t) = Len(s) /\ t[Len(s)] = s[p]
         /\ \A i \in 1..Len(s) - 1 : t[i] = IF i < p THEN s[i] ELSE s[i + 1]
<1>0. PICK n, t : n = Len(s) /\ t = Append(RemoveAt(s, p), s[p])
  OBVIOUS
<1>1. n \in Nat /\ p \in 1..n /\ p \in Nat /\ \A i \in 1..n : s[i] \in S
  BY <1>0, ElementOfSeq, LenProperties
<1> DEFINE a == SubSeq(s, 1, p - 1)
           b == SubSeq(s, p + 1, n)
<1>2. a \in Seq(S) /\ Len(a) = p - 1 /\ \A i \in 1..p - 1 : a[i] = s[i]
  <2>1. 1 \in Int /\ p - 1 \in Int /\ \A i \in 1..p - 1 : s[i] \in S
    BY <1>1
  <2>2. /\ a \in Seq(S) /\ Len(a) = IF 1 <= p - 1 THEN (p - 1) - 1 + 1 ELSE 0
        /\ \A i \in 1..(p - 1) - 1 + 1 : a[i] = s[1 + i - 1]
    BY <2>1, SubSeqProperties
  <2>3. Len(a) = p - 1 /\ (p - 1) - 1 + 1 = p - 1 /\ \A i \in 1..p - 1 : 1 + i - 1 = i
    BY <1>1, <2>2
  <2> HIDE DEF a
  <2> QED  BY <2>2, <2>3
<1>3. b \in Seq(S) /\ Len(b) = n - p /\ \A i \in 1..n - p : b[i] = s[i + p]
  <2>1. n \in Int /\ p + 1 \in Int /\ \A i \in p + 1..n : s[i] \in S
    BY <1>1
  <2>2. /\ b \in Seq(S) /\ Len(b) = IF p + 1 <= n THEN n - (p + 1) + 1 ELSE 0
        /\ \A i \in 1..n - (p + 1) + 1 : b[i] = s[(p + 1) + i - 1]
    BY <2>1, SubSeqProperties
  <2>3. Len(b) = n - p /\ n - (p + 1) + 1 = n - p /\ \A i \in 1..n - p : (p + 1) + i - 1 = i + p
    BY <1>1, <2>2
  <2> HIDE DEF b
  <2> QED  BY <2>2, <2>3
<1>4. t = Append(a \o b, s[p])
  BY <1>0 DEF RemoveAt
<1> HIDE DEF a, b
<1>5. /\ a \o b \in Seq(S) /\ Len(a \o b) = n - 1
      /\ \A i \in 1..n - 1 : (a \o b)[i] = IF i < p THEN s[i] ELSE s[i + 1]
  <2>1. /\ a \o b \in Seq(S) /\ Len(a \o b) = Len(a) + Len(b)
        /\ \A i \in 1..Len(a) + Len(b) : (a \o b)[i] = IF i <= Len(a) THEN a[i] ELSE b[i - Len(a)]
    BY <1>2, <1>3, ConcatProperties
  <2>2. Len(a) + Len(b) = n - 1
    BY <1>1, <1>2, <1>3
  <2>3. ASSUME NEW i \in 1..n - 1 PROVE (a \o b)[i] = IF i < p THEN s[i] ELSE s[i + 1]
    <3>1. (a \o b)[i] = IF i <= p - 1 THEN a[i] ELSE b[i - (p - 1)]
      BY <1>2, <2>1, <2>2
    <3>2. CASE i < p
      <4>1. i \in 1..p - 1 /\ i <= p - 1
        BY <1>1, <3>2
      <4> QED  BY <1>2, <3>1, <3>2, <4>1
    <3>3. CASE ~(i < p)
      <4>1. i - (p - 1) \in 1..n - p /\ ~(i <= p - 1) /\ (i - (p - 1)) + p = i + 1
        BY <1>1, <3>3
      <4> QED  BY <1>3, <3>1, <3>3, <4>1
    <3> QED  BY <3>2, <3>3
  <2> QED  BY <2>1, <2>2, <2>3
<1>6. PICK c : c = a \o b
  OBVIOUS
<1>7. c \in Seq(S) /\ s[p] \in S /\ t = Append(c, s[p])
  BY <1>1, <1>4, <1>5, <1>6
<1>8. /\ t \in Seq(S) /\ Len(t) = Len(c) + 1 /\ t[Len(c) + 1] = s[p]
      /\ \A i \in 1..Len(c) : t[i] = c[i]
  BY <1>7, AppendProperties
<1>9. Len(c) = n - 1 /\ (n - 1) + 1 = n
  BY <1>1, <1>5, <1>6
<1> QED  BY <1>0, <1>5, <1>6, <1>8, <1>9

-----------------------------------------------------------------------------
(* TopSort: the jobs on the stack depend on one another from the bottom to *)
(* the top, so a dependency that is met on the stack closes a circle.      *)

TSDone(i) == \E k \in DOMAIN tsSorted : tsSorted[k] = i
TSOnStack(i) == \E k \in DOMAIN tsStack : tsStack[k].job = i
TSDependency(i, d) == TSIndex(tsJobs[i].deps[d])

TSTypeOK ==
  /\ tsJobs \in Seq([id : TSIDs, deps : Seq(TSIDs)])
  /\ tsStack \in Seq([job : DOMAIN tsJobs, dep : Nat])
  /\ tsNext \in Nat \ {0} /\ tsNext <= Len(tsJobs) + 1
  /\ tsVisited \subseteq DOMAIN tsJobs
  /\ tsSorted \in Seq(DOMAIN tsJobs)

TSStackSound ==
  /\ \A k, l \in DOMAIN tsStack : tsStack[k].job = tsStack[l].job => k = l
  /\ \A k \in DOMAIN tsStack : tsStack[k].dep <= Len(tsJobs[tsStack[k].job].deps)
  /\ \A k \in DOMAIN tsStack : k < Len(tsStack) =>
       /\ tsStack[k].dep > 0
       /\ TSDependency(tsStack[k].job, tsStack[k].dep) = tsStack[k + 1].job

\* A job that was visited is sorted or on the stack, and not both.
TSVisitedSound ==
  /\ \A i \in DOMAIN tsJobs : i \in tsVisited <=> TSDone(i) \/ TSOnStack(i)
  /\ \A i \in DOMAIN tsJobs : ~(TSDone(i) /\ TSOnStack(i))
  /\ \A i \in DOMAIN tsJobs : i < tsNext => i \in tsVisited
  /\ IsInjective(tsSorted)

\* The graphs that can be sorted, as TSOrderSound has them.
TSSortable ==
  /\ ~TSCycle
  /\ \A i, j \in DOMAIN tsJobs : tsJobs[i].id = tsJobs[j].id => i = j
  /\ \A i \in DOMAIN tsJobs : ToSet(tsJobs[i].deps) \subseteq {tsJobs[j].id : j \in DOMAIN tsJobs}

\* The dependencies that a call of visit has gone through are sorted, but for the
\* one it is in.
TSPassed ==
  \A k \in DOMAIN tsStack : \A d \in 1..tsStack[k].dep :
    TSDone(TSDependency(tsStack[k].job, d)) \/ (k < Len(tsStack) /\ d = tsStack[k].dep)

TSOrdered ==
  \A i \in DOMAIN tsSorted :
    \A need \in TSNeeds(tsSorted[i]) : \E j \in 1..i - 1 : tsSorted[j] = need

TSInv ==
  /\ TSTypeOK /\ TSStackSound /\ TSVisitedSound
  /\ TSSortable => TSPassed /\ TSOrdered

LEMMA TSTypes ==
  ASSUME TSTypeOK
  PROVE  /\ DOMAIN tsJobs = 1..Len(tsJobs) /\ Len(tsJobs) \in Nat
         /\ \A i \in DOMAIN tsJobs : tsJobs[i].deps \in Seq(TSIDs)
                                     /\ DOMAIN tsJobs[i].deps = 1..Len(tsJobs[i].deps)
                                     /\ Len(tsJobs[i].deps) \in Nat
         /\ DOMAIN tsStack = 1..Len(tsStack) /\ Len(tsStack) \in Nat
         /\ \A k \in DOMAIN tsStack : tsStack[k].job \in DOMAIN tsJobs /\ tsStack[k].dep \in Nat
         /\ DOMAIN tsSorted = 1..Len(tsSorted) /\ Len(tsSorted) \in Nat
         /\ \A k \in DOMAIN tsSorted : tsSorted[k] \in DOMAIN tsJobs
<1> DEFINE J == [id : TSIDs, deps : Seq(TSIDs)]
           D == DOMAIN tsJobs
           F == [job : D, dep : Nat]
<1>1. tsJobs \in Seq(J) /\ tsStack \in Seq(F) /\ tsSorted \in Seq(D)
  BY DEF TSTypeOK
<1>2. /\ DOMAIN tsJobs = 1..Len(tsJobs) /\ Len(tsJobs) \in Nat
      /\ \A i \in 1..Len(tsJobs) : tsJobs[i] \in J
  <2> HIDE DEF J
  <2> QED  BY <1>1, ElementOfSeq, LenProperties
<1>3. /\ DOMAIN tsStack = 1..Len(tsStack) /\ Len(tsStack) \in Nat
      /\ \A k \in 1..Len(tsStack) : tsStack[k] \in F
  <2> HIDE DEF F
  <2> QED  BY <1>1, ElementOfSeq, LenProperties
<1>4. /\ DOMAIN tsSorted = 1..Len(tsSorted) /\ Len(tsSorted) \in Nat
      /\ \A k \in 1..Len(tsSorted) : tsSorted[k] \in D
  <2> HIDE DEF D
  <2> QED  BY <1>1, ElementOfSeq, LenProperties
<1>5. ASSUME NEW i \in DOMAIN tsJobs
      PROVE  /\ tsJobs[i].deps \in Seq(TSIDs) /\ DOMAIN tsJobs[i].deps = 1..Len(tsJobs[i].deps)
             /\ Len(tsJobs[i].deps) \in Nat
  <2>1. tsJobs[i].deps \in Seq(TSIDs)
    BY <1>2
  <2> QED  BY <2>1, LenProperties
<1> QED  BY <1>2, <1>3, <1>4, <1>5

LEMMA TSIndexType ==
  ASSUME TSTypeOK, NEW id, DOMAIN tsJobs # {}
  PROVE  TSIndex(id) \in DOMAIN tsJobs
<1> DEFINE bearers == {i \in DOMAIN tsJobs : tsJobs[i].id = id}
<1>1. DOMAIN tsJobs = 1..Len(tsJobs) /\ Len(tsJobs) \in Nat /\ 1 \in DOMAIN tsJobs
  BY DEF TSTypeOK
<1>2. CASE bearers = {}
  BY <1>1, <1>2 DEF TSIndex
<1>3. CASE bearers # {}
  <2>1. bearers \in SUBSET Nat /\ \A m \in bearers : m <= Len(tsJobs)
    BY <1>1
  <2>2. \E i \in bearers : \A j \in bearers : j <= i
    <3> HIDE DEF bearers
    <3> QED  BY <1>1, <1>3, <2>1, GreatestNat
  <2> QED  BY <1>3, <2>2 DEF TSIndex
<1> QED  BY <1>2, <1>3

\* Among jobs with IDs of their own, the job of a dependency is the one that is needed.
LEMMA TSNeedsAreDependencies ==
  ASSUME TSTypeOK, TSSortable, NEW i \in DOMAIN tsJobs
  PROVE  TSNeeds(i) = {TSDependency(i, d) : d \in 1..Len(tsJobs[i].deps)}
<1>2. DOMAIN tsJobs[i].deps = 1..Len(tsJobs[i].deps) /\ DOMAIN tsJobs = 1..Len(tsJobs)
  BY TSTypes
<1>3. ASSUME NEW j \in DOMAIN tsJobs PROVE TSIndex(tsJobs[j].id) = j
  <2>1. {k \in DOMAIN tsJobs : tsJobs[k].id = tsJobs[j].id} = {j}
    BY DEF TSSortable
  <2>2. j <= j
    BY <1>2
  <2> QED  BY <2>1, <2>2 DEF TSIndex
<1>4. ASSUME NEW d \in 1..Len(tsJobs[i].deps) PROVE TSDependency(i, d) \in TSNeeds(i)
  <2>1. tsJobs[i].deps[d] \in ToSet(tsJobs[i].deps)
    BY <1>2 DEF ToSet
  <2>2. PICK j \in DOMAIN tsJobs : tsJobs[j].id = tsJobs[i].deps[d]
    BY <2>1 DEF TSSortable
  <2> QED  BY <1>3, <2>1, <2>2 DEF TSNeeds, TSDependency
<1>5. ASSUME NEW j \in TSNeeds(i)
      PROVE  \E d \in 1..Len(tsJobs[i].deps) : j = TSDependency(i, d)
  <2>1. PICK d \in 1..Len(tsJobs[i].deps) : tsJobs[j].id = tsJobs[i].deps[d]
    BY <1>2 DEF TSNeeds, ToSet
  <2>2. TSIndex(tsJobs[j].id) = j
    BY <1>3 DEF TSNeeds
  <2> QED  BY <2>1, <2>2 DEF TSDependency
<1> QED  BY <1>4, <1>5

\* A graph that can be sorted has no dependency of the top of the stack on the stack.
LEMMA TSNoBackEdge ==
  ASSUME TSTypeOK, TSStackSound, TSSortable, tsStack # <<>>,
         NEW d \in 1..Len(TSDeps)
  PROVE  ~TSOnStack(TSDependency(TSTop.job, d))
<1> DEFINE n == Len(tsStack)
<1>0. n \in Nat \ {0} /\ DOMAIN tsStack = 1..n /\ TSTop = tsStack[n]
      /\ \A k \in 1..n : tsStack[k].job \in DOMAIN tsJobs
  <2>1. n \in Nat /\ DOMAIN tsStack = 1..n /\ \A k \in 1..n : tsStack[k].job \in DOMAIN tsJobs
    BY TSTypes
  <2>2. n # 0
    BY DEF TSTypeOK
  <2> QED  BY <2>1, <2>2 DEF TSTop, Last
<1> SUFFICES ASSUME NEW m \in 1..n, tsStack[m].job = TSDependency(TSTop.job, d) PROVE FALSE
  BY <1>0 DEF TSOnStack
<1> DEFINE S == {tsStack[k].job : k \in m..n}
<1>1. S \in (SUBSET DOMAIN tsJobs) \ {{}}
  <2>1. \A k \in m..n : tsStack[k].job \in DOMAIN tsJobs
    BY <1>0
  <2>2. m \in m..n
    BY <1>0
  <2> QED  BY <2>1, <2>2
<1>2. ASSUME NEW k \in m..n PROVE TSNeeds(tsStack[k].job) \intersect S # {}
  <2>1. CASE k = n
    <3>1. tsStack[m].job \in TSNeeds(tsStack[n].job)
      BY <1>0, TSNeedsAreDependencies DEF TSDeps
    <3> QED  BY <1>0, <2>1, <3>1
  <2>2. CASE k < n
    <3>1. tsStack[k].dep \in 1..Len(tsJobs[tsStack[k].job].deps)
          /\ TSDependency(tsStack[k].job, tsStack[k].dep) = tsStack[k + 1].job
      <4>1. k \in DOMAIN tsStack /\ k < Len(tsStack)
        BY <1>0, <2>2
      <4>2. tsStack[k].dep \in Nat /\ tsStack[k].job \in DOMAIN tsJobs
        BY <4>1, TSTypes
      <4>3. Len(tsJobs[tsStack[k].job].deps) \in Nat
        BY <4>2, TSTypes
      <4> QED  BY <4>1, <4>2, <4>3 DEF TSStackSound
    <3>2. tsStack[k + 1].job \in TSNeeds(tsStack[k].job)
      <4>1. tsStack[k].job \in DOMAIN tsJobs
        BY <1>0
      <4> QED  BY <3>1, <4>1, TSNeedsAreDependencies
    <3>3. k + 1 \in m..n
      BY <2>2, <1>0
    <3> QED  BY <3>2, <3>3
  <2>3. k \in Int /\ n \in Int /\ k <= n
    BY <1>0
  <2>4. k = n \/ k < n
    BY <2>3
  <2> QED  BY <2>1, <2>2, <2>4
<1>3. \A i \in S : TSNeeds(i) \intersect S # {}
  BY <1>2
<1> QED
  <2> HIDE DEF S
  <2> QED  BY <1>1, <1>3 DEF TSSortable, TSCycle

LEMMA TSSameJobs ==
  ASSUME tsJobs' = tsJobs
  PROVE  /\ TSSortable' = TSSortable
         /\ \A i : TSNeeds(i)' = TSNeeds(i)
         /\ \A i, d : TSDependency(i, d)' = TSDependency(i, d)
BY DEF TSSortable, TSCycle, TSNeeds, TSDependency, TSIndex

LEMMA TSInitInv == TSInit => TSInv
<1> SUFFICES ASSUME TSInit PROVE TSInv
  OBVIOUS
<1>1. tsJobs = <<>> /\ tsStack = <<>> /\ tsSorted = <<>> /\ tsVisited = {} /\ tsNext = 1
  BY DEF TSInit
<1>2. TSTypeOK
  BY <1>1 DEF TSTypeOK
<1> QED  BY <1>1, <1>2 DEF TSInv, TSStackSound, TSVisitedSound, TSPassed, TSOrdered, IsInjective

LEMMA TSTopSortKeeps ==
  ASSUME TSInv, TSTopSort
  PROVE  TSInv'
<1>1. tsJobs = <<>> /\ tsJobs' \in TSGraphs /\ UNCHANGED <<tsStack, tsNext, tsVisited, tsSorted>>
  BY DEF TSTopSort
<1>2. TSTypeOK
  BY DEF TSInv
<1>3. tsStack = <<>> /\ tsSorted = <<>> /\ tsVisited = {} /\ tsNext = 1
  <2>1. Len(tsJobs) = 0 /\ DOMAIN tsJobs = {}
    BY <1>1
  <2>2. Len(tsStack) = 0 /\ Len(tsSorted) = 0
    BY <1>2, <2>1, TSTypes
  <2> QED  BY <1>2, <2>1, <2>2, EmptySeq DEF TSTypeOK
<1>4. TSTypeOK'
  <2>1. tsJobs' \in Seq([id : TSIDs, deps : Seq(TSIDs)])
    BY <1>1, TSAssumption
  <2>2. Len(tsJobs') \in Nat
    BY <2>1
  <2> QED  BY <1>1, <1>3, <2>1, <2>2 DEF TSTypeOK
<1>5. \A i \in DOMAIN tsJobs' : ~(i < tsNext')
  <2>1. DOMAIN tsJobs' = 1..Len(tsJobs') /\ Len(tsJobs') \in Nat
    BY <1>4 DEF TSTypeOK
  <2> QED  BY <1>1, <1>3, <2>1
<1> QED  BY <1>1, <1>3, <1>4, <1>5
         DEF TSInv, TSStackSound, TSVisitedSound, TSPassed, TSOrdered, IsInjective, TSDone, TSOnStack

LEMMA TSLoopKeeps ==
  ASSUME TSInv, TSLoop
  PROVE  TSInv'
<1>1. /\ tsStack = <<>> /\ tsNext <= Len(tsJobs) /\ tsNext' = tsNext + 1
      /\ tsJobs' = tsJobs /\ tsSorted' = tsSorted
  BY DEF TSLoop
<1>2. TSTypeOK /\ TSStackSound /\ TSVisitedSound /\ (TSSortable => TSPassed /\ TSOrdered)
  BY DEF TSInv
<1>3. tsNext \in DOMAIN tsJobs
  BY <1>1, <1>2, TSTypes DEF TSTypeOK
<1>4. TSSortable => TSOrdered'
  BY <1>1, <1>2, TSSameJobs DEF TSOrdered
<1>5. \A i \in DOMAIN tsJobs : i < tsNext' => i < tsNext \/ i = tsNext
  BY <1>1, <1>2, TSTypes DEF TSTypeOK
<1>6. CASE tsNext \in tsVisited
  <2>1. UNCHANGED <<tsStack, tsVisited>>
    BY <1>6 DEF TSLoop
  <2>2. TSTypeOK'
    BY <1>1, <1>2, <2>1, TSTypes DEF TSTypeOK
  <2>3. TSStackSound' /\ TSPassed'
    BY <1>1, <2>1 DEF TSStackSound, TSPassed
  <2>4. TSVisitedSound'
    BY <1>1, <1>2, <1>5, <1>6, <2>1 DEF TSVisitedSound, TSDone, TSOnStack
  <2> QED  BY <1>1, <1>4, <2>2, <2>3, <2>4, TSSameJobs DEF TSInv
<1>7. CASE tsNext \notin tsVisited
  <2>1. tsStack' = <<[job |-> tsNext, dep |-> 0]>> /\ tsVisited' = tsVisited \union {tsNext}
    BY <1>7 DEF TSLoop
  <2>2. Len(tsStack') = 1 /\ DOMAIN tsStack' = {1} /\ tsStack'[1].job = tsNext /\ tsStack'[1].dep = 0
    BY <2>1
  <2>3. TSTypeOK'
    BY <1>1, <1>2, <1>3, <2>1, TSTypes DEF TSTypeOK
  <2>4. TSStackSound'
    <3>1. Len(tsJobs[tsNext].deps) \in Nat
      BY <1>2, <1>3, TSTypes
    <3> QED  BY <1>1, <2>2, <3>1 DEF TSStackSound
  <2>5. TSPassed'
    BY <2>2 DEF TSPassed
  <2>6. \A i : TSDone(i)' = TSDone(i) /\ (TSOnStack(i)' <=> i = tsNext) /\ ~TSOnStack(i)
    BY <1>1, <2>2 DEF TSDone, TSOnStack
  <2>7. TSVisitedSound'
    BY <1>1, <1>2, <1>3, <1>5, <1>7, <2>1, <2>6 DEF TSVisitedSound
  <2> QED  BY <1>1, <1>4, <2>3, <2>4, <2>5, <2>7, TSSameJobs DEF TSInv
<1> QED  BY <1>6, <1>7

\* The stack with the next dependency of its top counted.
LEMMA TSCounted ==
  ASSUME TSTypeOK, tsStack # <<>>
  PROVE  /\ TSTop = tsStack[Len(tsStack)] /\ Len(tsStack) \in DOMAIN tsStack
         /\ TSNextDep \in Seq([job : DOMAIN tsJobs, dep : Nat])
         /\ Len(TSNextDep) = Len(tsStack) /\ DOMAIN TSNextDep = DOMAIN tsStack
         /\ TSNextDep[Len(tsStack)] = [job |-> TSTop.job, dep |-> TSTop.dep + 1]
         /\ \A k \in DOMAIN tsStack : k # Len(tsStack) => TSNextDep[k] = tsStack[k]
<1> DEFINE F == [job : DOMAIN tsJobs, dep : Nat]
           n == Len(tsStack)
           e == [tsStack[n] EXCEPT !.dep = @ + 1]
<1>1. tsStack \in Seq(F)
  BY DEF TSTypeOK
<1>2. n \in Nat /\ DOMAIN tsStack = 1..n
  BY TSTypes
<1>3. n # 0
  BY <1>1
<1>4. n \in 1..n
  BY <1>2, <1>3
<1>5. tsStack[n] \in F
  <2> HIDE DEF F
  <2> QED  BY <1>1, <1>4, ElementOfSeq
<1>6. e \in F /\ e = [job |-> tsStack[n].job, dep |-> tsStack[n].dep + 1]
  BY <1>5
<1>7. TSNextDep = [tsStack EXCEPT ![n] = e]
  BY DEF TSNextDep
<1>8. /\ TSNextDep \in Seq(F) /\ Len(TSNextDep) = n
      /\ \A j \in 1..n : TSNextDep[j] = IF j = n THEN e ELSE tsStack[j]
  <2> HIDE DEF F, e
  <2> QED  BY <1>1, <1>4, <1>6, <1>7, ExceptSeq
<1>9. DOMAIN TSNextDep = 1..n
  BY <1>8, LenProperties
<1> QED  BY <1>2, <1>4, <1>6, <1>8, <1>9 DEF TSTop, Last

LEMMA TSVisitKeeps ==
  ASSUME TSInv, TSVisit
  PROVE  TSInv'
<1> DEFINE n == Len(tsStack)
           i == TSTop.job
           d == TSTop.dep + 1
           job == TSIndex(TSDeps[TSTop.dep + 1])
<1>1. /\ tsStack # <<>> /\ TSTop.dep < Len(TSDeps)
      /\ tsJobs' = tsJobs /\ tsNext' = tsNext /\ tsSorted' = tsSorted
  BY DEF TSVisit
<1>2. TSTypeOK /\ TSStackSound /\ TSVisitedSound /\ (TSSortable => TSPassed /\ TSOrdered)
  BY DEF TSInv
<1>3. /\ n \in Nat \ {0} /\ DOMAIN tsStack = 1..n /\ TSTop = tsStack[n]
      /\ i \in DOMAIN tsJobs /\ TSTop.dep \in Nat /\ d \in 1..Len(tsJobs[i].deps)
      /\ Len(tsJobs[i].deps) \in Nat
  BY <1>1, <1>2, TSTypes, TSCounted DEF TSDeps
<1>10. /\ TSNextDep[n] = [job |-> i, dep |-> d] /\ TSNextDep \in Seq([job : DOMAIN tsJobs, dep : Nat])
       /\ Len(TSNextDep) = n /\ DOMAIN TSNextDep = 1..n
       /\ \A k \in 1..n : k # n => TSNextDep[k] = tsStack[k]
  BY <1>1, <1>2, <1>3, TSCounted
<1>11. /\ job \in tsVisited => tsStack' = TSNextDep /\ tsVisited' = tsVisited
       /\ job \notin tsVisited => /\ tsStack' = Append(TSNextDep, [job |-> job, dep |-> 0])
                                  /\ tsVisited' = tsVisited \union {job}
  BY DEF TSVisit
<1>12. tsStack[n].job = i /\ tsStack[n].dep = d - 1 /\ d \in Nat \ {0} /\ d <= Len(tsJobs[i].deps)
  BY <1>3
<1>4. job = TSDependency(i, d) /\ job \in DOMAIN tsJobs
  BY <1>2, <1>3, TSIndexType DEF TSDependency, TSDeps
<1>5. TSSortable => ~TSOnStack(job)
  BY <1>1, <1>2, <1>3, <1>4, TSNoBackEdge DEF TSDeps
<1> HIDE DEF n, i, d, job
<1>6. TSSortable' = TSSortable /\ (TSSortable => TSOrdered')
  BY <1>1, <1>2, TSSameJobs DEF TSOrdered
<1>7. \A a : TSDone(a)' = TSDone(a)
  BY <1>1 DEF TSDone
<1>13. /\ \A k, l \in 1..n : tsStack[k].job = tsStack[l].job => k = l
       /\ \A k \in 1..n : tsStack[k].dep <= Len(tsJobs[tsStack[k].job].deps)
       /\ \A k \in 1..n : k < n =>
            /\ tsStack[k].dep > 0
            /\ TSDependency(tsStack[k].job, tsStack[k].dep) = tsStack[k + 1].job
  BY <1>2, <1>3 DEF TSStackSound
<1>14. ASSUME TSSortable, NEW k \in 1..n, NEW c \in 1..tsStack[k].dep
       PROVE  TSDone(TSDependency(tsStack[k].job, c)) \/ (k < n /\ c = tsStack[k].dep)
  BY <1>2, <1>3, <1>14 DEF TSPassed
<1>15. ASSUME TSSortable, NEW c \in 1..d, c # d
       PROVE  TSDone(TSDependency(i, c))
  <2>1. n \in 1..n /\ c \in 1..tsStack[n].dep /\ ~(n < n)
    BY <1>3, <1>12, <1>15
  <2>2. TSDone(TSDependency(tsStack[n].job, c))
    BY <1>14, <1>15, <2>1
  <2> QED  BY <1>12, <2>2
<1>8. CASE job \in tsVisited
  <2>1. tsStack' = TSNextDep /\ tsVisited' = tsVisited
    BY <1>8, <1>11
  <2>2. /\ Len(tsStack') = n /\ DOMAIN tsStack' = 1..n
        /\ tsStack'[n] = [job |-> i, dep |-> d]
        /\ \A k \in 1..n : k # n => tsStack'[k] = tsStack[k]
    BY <2>1, <1>10
  <2>3. TSTypeOK'
    BY <1>1, <1>2, <2>1, <1>10 DEF TSTypeOK
  <2>4. \A k \in 1..n : tsStack'[k].job = tsStack[k].job
    BY <1>12, <2>2
  <2>5. TSStackSound'
    <3>1. \A k \in 1..n : tsStack'[k].dep <= Len(tsJobs[tsStack[k].job].deps)
      BY <1>3, <1>12, <1>13, <2>2, <2>4
    <3>2. ASSUME NEW k \in 1..n, k < n
          PROVE  /\ tsStack'[k].dep > 0
                 /\ TSDependency(tsStack'[k].job, tsStack'[k].dep) = tsStack'[k + 1].job
      <4>1. k # n /\ k + 1 \in 1..n
        BY <1>3, <3>2
      <4>2. tsStack'[k] = tsStack[k] /\ tsStack'[k + 1].job = tsStack[k + 1].job
        BY <2>2, <2>4, <4>1
      <4> QED  BY <1>13, <3>2, <4>2
    <3>3. \A k, l \in 1..n : tsStack'[k].job = tsStack'[l].job => k = l
      BY <1>13, <2>4
    <3> QED  BY <1>1, <1>3, <2>2, <2>4, <3>1, <3>2, <3>3, TSSameJobs DEF TSStackSound
  <2>6. \A a : TSOnStack(a)' = TSOnStack(a)
    BY <1>3, <2>2, <2>4 DEF TSOnStack
  <2>7. TSVisitedSound'
    BY <1>1, <1>2, <1>7, <2>1, <2>6 DEF TSVisitedSound
  <2>8. ASSUME TSSortable PROVE TSPassed'
    <3> SUFFICES ASSUME NEW k \in 1..n, NEW c \in 1..tsStack'[k].dep
                 PROVE  TSDone(TSDependency(tsStack[k].job, c)) \/ (k < n /\ c = tsStack[k].dep)
      BY <1>1, <1>7, <2>2, <2>4, TSSameJobs DEF TSPassed
    <3>1. CASE k # n
      <4>1. tsStack'[k] = tsStack[k]
        BY <2>2, <3>1
      <4> QED  BY <1>14, <2>8, <4>1
    <3>2. CASE k = n /\ c = d
      <4>1. TSDone(job)
        BY <1>2, <1>4, <1>5, <1>8, <2>8 DEF TSVisitedSound
      <4> QED  BY <1>4, <1>12, <3>2, <4>1
    <3>3. CASE k = n /\ c # d
      <4>1. c \in 1..d
        BY <2>2, <3>3
      <4> QED  BY <1>12, <1>15, <2>8, <3>3, <4>1
    <3> QED  BY <3>1, <3>2, <3>3
  <2> QED  BY <1>6, <2>3, <2>5, <2>7, <2>8 DEF TSInv
<1>9. CASE job \notin tsVisited
  <2> DEFINE e == [job |-> job, dep |-> 0]
  <2>1. tsStack' = Append(TSNextDep, e) /\ tsVisited' = tsVisited \union {job}
    BY <1>9, <1>11
  <2>2. e \in [job : DOMAIN tsJobs, dep : Nat]
    BY <1>4
  <2>3. /\ tsStack' \in Seq([job : DOMAIN tsJobs, dep : Nat])
        /\ Len(tsStack') = n + 1 /\ DOMAIN tsStack' = 1..n + 1
        /\ tsStack'[n + 1] = e
        /\ tsStack'[n] = [job |-> i, dep |-> d]
        /\ \A k \in 1..n : k # n => tsStack'[k] = tsStack[k]
    <3> DEFINE F == [job : DOMAIN tsJobs, dep : Nat]
    <3>1. TSNextDep \in Seq(F) /\ Len(TSNextDep) = n /\ e \in F
      BY <2>2, <1>10
    <3>2. /\ tsStack' \in Seq(F) /\ Len(tsStack') = n + 1 /\ tsStack'[n + 1] = e
          /\ \A k \in 1..n : tsStack'[k] = TSNextDep[k]
      <4> HIDE DEF F, e
      <4> QED  BY <2>1, <3>1, AppendProperties
    <3>3. DOMAIN tsStack' = 1..n + 1
      <4> HIDE DEF F
      <4> QED  BY <3>2, LenProperties
    <3> QED  BY <1>3, <1>10, <3>2, <3>3
  <2>4. TSTypeOK'
    BY <1>1, <1>2, <1>4, <2>1, <2>3 DEF TSTypeOK
  <2>5. \A k \in 1..n : tsStack'[k].job = tsStack[k].job
    BY <1>12, <2>3
  <2>6. ~TSOnStack(job) /\ ~TSDone(job)
    BY <1>2, <1>4, <1>9 DEF TSVisitedSound
  <2>7. \A k \in 1..n : tsStack[k].job # job
    BY <1>3, <2>6 DEF TSOnStack
  <2>8. TSStackSound'
    <3>1. \A k, l \in 1..n + 1 : tsStack'[k].job = tsStack'[l].job => k = l
      <4>1. \A k \in 1..n + 1 : k \in 1..n \/ k = n + 1
        BY <1>3
      <4> QED  BY <1>13, <2>3, <2>5, <2>7, <4>1
    <3>2. \A k \in 1..n + 1 : tsStack'[k].dep <= Len(tsJobs[tsStack'[k].job].deps)
      <4>1. \A k \in 1..n + 1 : (k \in 1..n /\ k # n) \/ k = n \/ k = n + 1
        BY <1>3
      <4>2. Len(tsJobs[job].deps) \in Nat
        BY <1>2, <1>4, TSTypes
      <4>3. ASSUME NEW k \in 1..n, k # n
            PROVE  tsStack'[k].dep <= Len(tsJobs[tsStack'[k].job].deps)
        BY <1>13, <2>3, <4>3
      <4>4. tsStack'[n].dep <= Len(tsJobs[tsStack'[n].job].deps)
        BY <1>12, <2>3
      <4>5. tsStack'[n + 1].dep <= Len(tsJobs[tsStack'[n + 1].job].deps)
        BY <2>3, <4>2
      <4> QED  BY <4>1, <4>3, <4>4, <4>5
    <3>3. ASSUME NEW k \in 1..n + 1, k < n + 1
          PROVE  /\ tsStack'[k].dep > 0
                 /\ TSDependency(tsStack'[k].job, tsStack'[k].dep) = tsStack'[k + 1].job
      <4>1. CASE k = n
        BY <1>12, <1>4, <2>3, <4>1
      <4>2. CASE k < n
        <5>1. k \in 1..n /\ k # n /\ k + 1 \in 1..n
          BY <1>3, <4>2
        <5> QED  BY <1>13, <2>3, <2>5, <4>2, <5>1
      <4> QED  BY <1>3, <3>3, <4>1, <4>2
    <3> QED  BY <1>1, <2>3, <3>1, <3>2, <3>3, TSSameJobs DEF TSStackSound
  <2>9. \A a : TSOnStack(a)' <=> TSOnStack(a) \/ a = job
    <3>1. \A k \in 1..n + 1 : k \in 1..n \/ k = n + 1
      BY <1>3
    <3>2. n + 1 \in 1..n + 1 /\ \A k \in 1..n : k \in 1..n + 1
      BY <1>3
    <3> QED  BY <1>3, <2>3, <2>5, <3>1, <3>2 DEF TSOnStack
  <2>10. TSVisitedSound'
    BY <1>1, <1>2, <1>7, <2>1, <2>6, <2>9 DEF TSVisitedSound
  <2>11. ASSUME TSSortable PROVE TSPassed'
    <3> SUFFICES ASSUME NEW k \in 1..n + 1, NEW c \in 1..tsStack'[k].dep
                 PROVE  \/ TSDone(TSDependency(tsStack'[k].job, c))
                        \/ k < n + 1 /\ c = tsStack'[k].dep
      BY <1>1, <1>7, <2>3, TSSameJobs DEF TSPassed
    <3>0. (k \in 1..n /\ k # n) \/ k = n \/ k = n + 1
      BY <1>3
    <3>1. CASE k \in 1..n /\ k # n
      <4>1. tsStack'[k] = tsStack[k]
        BY <2>3, <3>1
      <4>2. k < n + 1
        BY <1>3, <3>1
      <4> QED  BY <1>14, <2>11, <3>1, <4>1, <4>2
    <3>2. CASE k = n /\ c = d
      <4>1. n < n + 1
        BY <1>3
      <4> QED  BY <2>3, <3>2, <4>1
    <3>3. CASE k = n /\ c # d
      <4>1. c \in 1..d /\ tsStack'[k].job = i
        BY <2>3, <3>3
      <4> QED  BY <1>15, <2>11, <3>3, <4>1
    <3>4. CASE k = n + 1
      BY <2>3, <3>4
    <3> QED  BY <3>0, <3>1, <3>2, <3>3, <3>4
  <2> QED  BY <1>6, <2>4, <2>8, <2>10, <2>11 DEF TSInv
<1> QED  BY <1>8, <1>9

LEMMA TSAppendKeeps ==
  ASSUME TSInv, TSAppend
  PROVE  TSInv'
<1>0. PICK n, m, i : n = Len(tsStack) /\ m = Len(tsSorted) /\ i = TSTop.job
  OBVIOUS
<1>1. /\ tsStack # <<>> /\ TSTop.dep = Len(TSDeps)
      /\ tsSorted' = Append(tsSorted, i) /\ tsStack' = Front(tsStack)
      /\ tsJobs' = tsJobs /\ tsNext' = tsNext /\ tsVisited' = tsVisited
  BY <1>0 DEF TSAppend
<1>2. TSTypeOK /\ TSStackSound /\ TSVisitedSound /\ (TSSortable => TSPassed /\ TSOrdered)
  BY DEF TSInv
<1>3. /\ n = Len(tsStack) /\ n \in Nat \ {0} /\ DOMAIN tsStack = 1..n /\ tsStack[n].job = i
      /\ i \in DOMAIN tsJobs /\ tsStack[n].dep = Len(tsJobs[i].deps)
      /\ Len(tsJobs[i].deps) \in Nat
      /\ m = Len(tsSorted) /\ m \in Nat /\ DOMAIN tsSorted = 1..m
  BY <1>0, <1>1, <1>2, TSTypes, TSCounted DEF TSDeps
<1>4. /\ tsStack' \in Seq([job : DOMAIN tsJobs, dep : Nat])
      /\ Len(tsStack') = n - 1 /\ DOMAIN tsStack' = 1..n - 1
      /\ \A k \in 1..n - 1 : tsStack'[k] = tsStack[k]
  <2> DEFINE R == [job : DOMAIN tsJobs, dep : Nat]
  <2>1. tsStack \in Seq(R) /\ tsStack # <<>>
    BY <1>1, <1>2 DEF TSTypeOK
  <2>2. /\ tsStack' \in Seq(R) /\ Len(tsStack') = n - 1
        /\ \A k \in 1..n - 1 : tsStack'[k] = tsStack[k]
    <3> HIDE DEF R
    <3> QED  BY <1>0, <1>1, <2>1, FrontShape
  <2>3. DOMAIN tsStack' = 1..n - 1
    <3> HIDE DEF R
    <3> QED  BY <2>2, LenProperties
  <2> QED  BY <2>2, <2>3
<1>5. /\ tsSorted' \in Seq(DOMAIN tsJobs) /\ Len(tsSorted') = m + 1 /\ DOMAIN tsSorted' = 1..m + 1
      /\ tsSorted'[m + 1] = i /\ \A k \in 1..m : tsSorted'[k] = tsSorted[k]
  <2> DEFINE D == DOMAIN tsJobs
  <2>1. tsSorted \in Seq(D) /\ i \in D
    BY <1>2, <1>3 DEF TSTypeOK
  <2>2. /\ tsSorted' \in Seq(D) /\ Len(tsSorted') = m + 1 /\ tsSorted'[m + 1] = i
        /\ \A k \in 1..m : tsSorted'[k] = tsSorted[k]
    <3> HIDE DEF D
    <3> QED  BY <1>0, <1>1, <2>1, AppendProperties
  <2>3. DOMAIN tsSorted' = 1..m + 1
    <3> HIDE DEF D
    <3> QED  BY <2>2, LenProperties
  <2> QED  BY <2>2, <2>3
<1>6. TSSortable' = TSSortable
  BY <1>1, TSSameJobs
<1>7. /\ \A k, l \in 1..n : tsStack[k].job = tsStack[l].job => k = l
      /\ \A k \in 1..n : tsStack[k].dep <= Len(tsJobs[tsStack[k].job].deps)
      /\ \A k \in 1..n : k < n =>
           /\ tsStack[k].dep > 0
           /\ TSDependency(tsStack[k].job, tsStack[k].dep) = tsStack[k + 1].job
  BY <1>2, <1>3 DEF TSStackSound
<1>8. n \in 1..n /\ \A k \in 1..n - 1 : k \in 1..n /\ k < n /\ k # n
  BY <1>3
<1>9. \A k \in 1..n : k \in 1..n - 1 \/ k = n
  BY <1>3
<1>10. m + 1 \in 1..m + 1 /\ \A k \in 1..m : k \in 1..m + 1
  BY <1>3
<1>11. \A k \in 1..m + 1 : k \in 1..m \/ k = m + 1
  BY <1>3
<1>12. TSTypeOK'
  BY <1>1, <1>2, <1>4, <1>5 DEF TSTypeOK
<1>13. TSStackSound'
  <2>1. ASSUME NEW k \in 1..n - 1, k < n - 1
        PROVE  /\ tsStack'[k].dep > 0
               /\ TSDependency(tsStack'[k].job, tsStack'[k].dep) = tsStack'[k + 1].job
    <3>1. k + 1 \in 1..n - 1
      BY <1>3, <2>1
    <3> QED  BY <1>4, <1>7, <1>8, <3>1
  <2>2. \A k, l \in 1..n - 1 : tsStack'[k].job = tsStack'[l].job => k = l
    BY <1>4, <1>7, <1>8
  <2>3. \A k \in 1..n - 1 : tsStack'[k].dep <= Len(tsJobs[tsStack'[k].job].deps)
    BY <1>4, <1>7, <1>8
  <2> QED  BY <1>1, <1>4, <2>1, <2>2, <2>3, TSSameJobs DEF TSStackSound
<1>14. \A a : TSDone(a)' <=> TSDone(a) \/ a = i
  BY <1>3, <1>5, <1>10, <1>11 DEF TSDone
<1>15. \A a : TSOnStack(a) <=> TSOnStack(a)' \/ a = i
  BY <1>3, <1>4, <1>8, <1>9 DEF TSOnStack
<1>16. ~TSOnStack(i)' /\ ~TSDone(i)
  <2>1. ~TSOnStack(i)'
    BY <1>3, <1>4, <1>7, <1>8 DEF TSOnStack
  <2> QED  BY <1>2, <1>3, <1>15, <2>1 DEF TSVisitedSound
<1>17. TSVisitedSound'
  <2>1. IsInjective(tsSorted')
    <3>1. \A k \in 1..m : tsSorted[k] # i
      BY <1>3, <1>16 DEF TSDone
    <3>2. \A k, l \in 1..m : tsSorted[k] = tsSorted[l] => k = l
      BY <1>2, <1>3 DEF TSVisitedSound, IsInjective
    <3>3. \A k, l \in 1..m + 1 : tsSorted'[k] = tsSorted'[l] => k = l
      BY <1>5, <1>11, <3>1, <3>2
    <3> QED  BY <1>5, <3>3 DEF IsInjective
  <2> QED  BY <1>1, <1>2, <1>14, <1>15, <1>16, <2>1 DEF TSVisitedSound
<1>18. ASSUME TSSortable PROVE TSPassed'
  <2>1. ASSUME NEW k \in 1..n - 1, NEW c \in 1..tsStack[k].dep
        PROVE  \/ TSDone(TSDependency(tsStack[k].job, c)) \/ TSDependency(tsStack[k].job, c) = i
               \/ k < n - 1 /\ c = tsStack[k].dep
    <3>1. TSDone(TSDependency(tsStack[k].job, c)) \/ (k < n /\ c = tsStack[k].dep)
      BY <1>2, <1>3, <1>8, <1>18 DEF TSPassed
    <3>2. CASE k = n - 1 /\ c = tsStack[k].dep
      <4>1. k + 1 = n
        BY <1>3, <3>2
      <4> QED  BY <1>3, <1>7, <1>8, <3>2, <4>1
    <3>3. k < n - 1 \/ k = n - 1
      BY <1>3
    <3> QED  BY <3>1, <3>2, <3>3
  <2>2. ASSUME NEW a, TSDone(a) \/ a = i PROVE \E j \in DOMAIN tsSorted' : tsSorted'[j] = a
    BY <1>3, <1>5, <1>10, <2>2 DEF TSDone
  <2>3. ASSUME NEW k \in 1..n - 1, NEW c \in 1..tsStack'[k].dep
        PROVE  \/ \E j \in DOMAIN tsSorted' : tsSorted'[j] = TSDependency(tsStack'[k].job, c)
               \/ k < Len(tsStack') /\ c = tsStack'[k].dep
    BY <1>4, <2>1, <2>2
  <2>4. \A a, c : TSDependency(a, c)' = TSDependency(a, c)
    BY <1>1, TSSameJobs
  <2> QED  BY <1>4, <2>3, <2>4 DEF TSPassed, TSDone
<1>19. ASSUME TSSortable PROVE TSOrdered'
  <2>1. ASSUME NEW k \in 1..m, NEW need \in TSNeeds(tsSorted'[k])
        PROVE  \E j \in 1..k - 1 : tsSorted'[j] = need
    <3>1. PICK j \in 1..k - 1 : tsSorted[j] = need
      BY <1>2, <1>3, <1>5, <1>19, <2>1 DEF TSOrdered
    <3>2. j \in 1..m
      BY <1>3
    <3> QED  BY <1>5, <3>1, <3>2
  <2>2. ASSUME NEW need \in TSNeeds(i)
        PROVE  \E j \in 1..(m + 1) - 1 : tsSorted'[j] = need
    <3>1. PICK c \in 1..Len(tsJobs[i].deps) : need = TSDependency(i, c)
      BY <1>2, <1>3, <1>19, TSNeedsAreDependencies
    <3>2. TSDone(need)
      <4>1. TSDone(TSDependency(tsStack[n].job, c)) \/ (n < n /\ c = tsStack[n].dep)
        BY <1>2, <1>3, <1>8, <1>19 DEF TSPassed
      <4> QED  BY <1>3, <3>1, <4>1
    <3>3. PICK j \in 1..m : tsSorted[j] = need
      BY <1>3, <3>2 DEF TSDone
    <3>4. (m + 1) - 1 = m
      BY <1>3
    <3> QED  BY <1>5, <3>3, <3>4
  <2>3. \A k \in 1..m + 1 : \A need \in TSNeeds(tsSorted'[k]) :
          \E j \in 1..k - 1 : tsSorted'[j] = need
    BY <1>5, <1>11, <2>1, <2>2
  <2>4. \A a : TSNeeds(a)' = TSNeeds(a)
    BY <1>1, TSSameJobs
  <2> QED  BY <1>5, <2>3, <2>4 DEF TSOrdered
<1> QED  BY <1>6, <1>12, <1>13, <1>17, <1>18, <1>19 DEF TSInv

LEMMA TSInvariance == TSInv /\ [TSNextStep]_tsvars => TSInv'
<1> SUFFICES ASSUME TSInv, [TSNextStep]_tsvars PROVE TSInv'
  OBVIOUS
<1>1. CASE UNCHANGED tsvars
  <2>1. /\ tsJobs' = tsJobs /\ tsStack' = tsStack /\ tsNext' = tsNext
        /\ tsVisited' = tsVisited /\ tsSorted' = tsSorted
    BY <1>1 DEF tsvars
  <2>2. TSTypeOK' = TSTypeOK /\ TSSortable' = TSSortable
    BY <2>1, TSSameJobs DEF TSTypeOK
  <2>3. /\ \A a : TSDone(a)' = TSDone(a) /\ TSOnStack(a)' = TSOnStack(a) /\ TSNeeds(a)' = TSNeeds(a)
        /\ \A a, c : TSDependency(a, c)' = TSDependency(a, c)
    BY <2>1, TSSameJobs DEF TSDone, TSOnStack
  <2>4. TSStackSound' = TSStackSound /\ TSVisitedSound' = TSVisitedSound
    BY <2>1, <2>3 DEF TSStackSound, TSVisitedSound
  <2>5. TSPassed' = TSPassed /\ TSOrdered' = TSOrdered
    BY <2>1, <2>3 DEF TSPassed, TSOrdered
  <2> QED  BY <2>2, <2>4, <2>5 DEF TSInv
<1> QED  BY <1>1, TSTopSortKeeps, TSLoopKeeps, TSVisitKeeps, TSAppendKeeps DEF TSNextStep

LEMMA TSInvImplies == TSInv => TSOrderSound
<1> SUFFICES ASSUME TSInv PROVE TSOrderSound
  OBVIOUS
<1>1. TSTypeOK /\ TSVisitedSound /\ (TSSortable => TSOrdered)
  BY DEF TSInv
<1>2. ASSUME tsNext > Len(tsJobs), tsStack = <<>> PROVE ToSet(tsSorted) = DOMAIN tsJobs
  <2>1. \A i \in DOMAIN tsJobs : i < tsNext
    BY <1>1, <1>2, TSTypes DEF TSTypeOK
  <2>2. \A i : ~TSOnStack(i)
    BY <1>2 DEF TSOnStack
  <2>3. \A i \in DOMAIN tsJobs : TSDone(i)
    BY <1>1, <2>1, <2>2 DEF TSVisitedSound
  <2>4. \A k \in DOMAIN tsSorted : tsSorted[k] \in DOMAIN tsJobs
    BY <1>1, TSTypes
  <2> QED  BY <2>3, <2>4 DEF TSDone, ToSet
<1> QED  BY <1>1, <1>2 DEF TSOrderSound, TSVisitedSound, TSSortable, TSOrdered

-----------------------------------------------------------------------------
(* Courses: the courses on the stack need one another from the bottom to   *)
(* the top, and a course leaves only after all that it needs.              *)

HWOnStack(c) == \E k \in DOMAIN hwStack : hwStack[k].name = c

HWTypeOK ==
  /\ hwPrereqs = HWNoCall \/ hwPrereqs \in HWPrereqs
  /\ hwLeft \subseteq DOMAIN hwPrereqs
  /\ hwIn \in [HWCourses -> Nat] /\ hwOut \in [HWCourses -> Nat] /\ hwTime \in Nat \ {0}
  /\ hwStack \in Seq([name : HWCourses, dep : Nat])

HWStackSound ==
  /\ \A k, l \in DOMAIN hwStack : hwStack[k].name = hwStack[l].name => k = l
  /\ \A k \in DOMAIN hwStack : hwStack[k].dep <= Len(HWDeps(hwStack[k].name))
  /\ \A k \in DOMAIN hwStack : k < Len(hwStack) =>
       /\ hwStack[k].dep > 0
       /\ HWDeps(hwStack[k].name)[hwStack[k].dep] = hwStack[k + 1].name

\* The courses of the stack are those that are entered and not left, and the
\* courses entered are courses of the call.
HWTimesSound ==
  /\ \A c \in HWCourses : hwIn[c] # 0 /\ hwOut[c] = 0 <=> HWOnStack(c)
  /\ \A c \in HWCourses : hwOut[c] # 0 => hwIn[c] # 0
  /\ \A c \in HWCourses : hwOut[c] < hwTime
  /\ \A c \in DOMAIN hwPrereqs \ hwLeft : hwIn[c] # 0
  /\ \A c \in HWCourses : hwIn[c] # 0 => c \in HWNamed

\* The courses that a call of Visit has gone through have been left, but for the one
\* that it is in.
HWPassed ==
  \A k \in DOMAIN hwStack : \A d \in 1..hwStack[k].dep :
    hwOut[HWDeps(hwStack[k].name)[d]] # 0 \/ (k < Len(hwStack) /\ d = hwStack[k].dep)

HWOrdered ==
  \A c \in HWCourses : hwOut[c] # 0 =>
    \A need \in HWNeeds[c] : hwOut[need] # 0 /\ hwOut[need] < hwOut[c]

HWInv ==
  /\ HWTypeOK /\ HWStackSound /\ HWTimesSound /\ HWPassed /\ HWOrdered
  /\ hwPrereqs = HWNoCall => hwList = <<>>
  /\ HWCourseListSound

LEMMA HWTypes ==
  ASSUME HWTypeOK
  PROVE  /\ DOMAIN hwStack = 1..Len(hwStack) /\ Len(hwStack) \in Nat
         /\ \A k \in DOMAIN hwStack : hwStack[k].name \in HWCourses /\ hwStack[k].dep \in Nat
         /\ DOMAIN hwPrereqs \subseteq HWCourses
         /\ \A c : /\ HWDeps(c) \in Seq(HWCourses) /\ Len(HWDeps(c)) \in Nat
                   /\ \A d \in 1..Len(HWDeps(c)) : HWDeps(c)[d] \in HWCourses
                   /\ ToSet(HWDeps(c)) = {HWDeps(c)[d] : d \in 1..Len(HWDeps(c))}
         /\ \A c \in HWCourses : HWNeeds[c] = {HWDeps(c)[d] : d \in 1..Len(HWDeps(c))}
<1> DEFINE F == [name : HWCourses, dep : Nat]
<1>1. /\ DOMAIN hwStack = 1..Len(hwStack) /\ Len(hwStack) \in Nat
      /\ \A k \in 1..Len(hwStack) : hwStack[k] \in F
  <2>1. hwStack \in Seq(F)
    BY DEF HWTypeOK
  <2> HIDE DEF F
  <2> QED  BY <2>1, ElementOfSeq, LenProperties
<1>2. DOMAIN hwPrereqs \subseteq HWCourses /\ \A c \in DOMAIN hwPrereqs : hwPrereqs[c] \in Seq(HWCourses)
  <2>1. CASE hwPrereqs = HWNoCall
    BY <2>1 DEF HWNoCall
  <2>2. CASE hwPrereqs \in HWPrereqs
    BY <2>2, HWAssumption
  <2> QED  BY <2>1, <2>2 DEF HWTypeOK
<1>3. ASSUME NEW c PROVE HWDeps(c) \in Seq(HWCourses)
  <2>1. <<>> \in Seq(HWCourses)
    BY EmptySeq
  <2> QED  BY <1>2, <2>1 DEF HWDeps
<1>4. ASSUME NEW c
      PROVE  /\ Len(HWDeps(c)) \in Nat
             /\ \A d \in 1..Len(HWDeps(c)) : HWDeps(c)[d] \in HWCourses
             /\ ToSet(HWDeps(c)) = {HWDeps(c)[d] : d \in 1..Len(HWDeps(c))}
  <2>1. DOMAIN HWDeps(c) = 1..Len(HWDeps(c)) /\ Len(HWDeps(c)) \in Nat
    BY <1>3, LenProperties
  <2>2. \A d \in 1..Len(HWDeps(c)) : HWDeps(c)[d] \in HWCourses
    BY <1>3, ElementOfSeq
  <2>3. ToSet(HWDeps(c)) = {HWDeps(c)[d] : d \in DOMAIN HWDeps(c)}
    BY DEF ToSet
  <2> QED  BY <2>1, <2>2, <2>3
<1>5. ASSUME NEW c \in HWCourses PROVE HWNeeds[c] = {HWDeps(c)[d] : d \in 1..Len(HWDeps(c))}
  <2>1. HWNeeds[c] = ToSet(HWDeps(c))
    BY DEF HWNeeds
  <2> QED  BY <1>4, <2>1
<1> QED  BY <1>1, <1>2, <1>3, <1>4, <1>5

LEMMA HWSamePrereqs ==
  ASSUME hwPrereqs' = hwPrereqs
  PROVE  /\ \A c : HWDeps(c)' = HWDeps(c)
         /\ HWNeeds' = HWNeeds /\ HWNamed' = HWNamed /\ HWCycle' = HWCycle
<1>1. \A c : HWDeps(c)' = HWDeps(c)
  BY DEF HWDeps
<1>2. HWNeeds' = HWNeeds
  BY DEF HWNeeds, HWDeps
<1> QED  BY <1>1, <1>2 DEF HWNamed, HWCycle

LEMMA HWInitInv == HWInit => HWInv
<1> SUFFICES ASSUME HWInit PROVE HWInv
  OBVIOUS
<1>1. /\ hwPrereqs = <<>> /\ hwLeft = {} /\ hwTime = 1 /\ hwStack = <<>> /\ hwList = <<>>
      /\ hwIn = [n \in HWCourses |-> 0] /\ hwOut = [n \in HWCourses |-> 0]
  BY DEF HWInit, HWNoCall
<1>2. HWTypeOK
  BY <1>1, EmptySeq DEF HWTypeOK, HWNoCall
<1>3. \A c : ~HWOnStack(c)
  BY <1>1 DEF HWOnStack
<1>4. HWTimesSound
  BY <1>1, <1>3 DEF HWTimesSound
<1> QED  BY <1>1, <1>2, <1>4 DEF HWInv, HWStackSound, HWPassed, HWOrdered, HWCourseListSound

LEMMA HWGetCourseListKeeps ==
  ASSUME HWInv, HWGetCourseList
  PROVE  HWInv'
<1>1. /\ hwPrereqs = HWNoCall /\ hwPrereqs' \in HWPrereqs /\ hwLeft' = DOMAIN hwPrereqs'
      /\ hwIn' = hwIn /\ hwOut' = hwOut /\ hwTime' = hwTime /\ hwStack' = hwStack /\ hwList' = hwList
  BY DEF HWGetCourseList
<1>2. HWTypeOK /\ HWTimesSound /\ hwList = <<>>
  BY <1>1 DEF HWInv
<1>3. \A c \in HWCourses : hwIn[c] = 0 /\ hwOut[c] = 0
  <2>1. DOMAIN hwPrereqs = {} /\ \A c : HWDeps(c) = <<>>
    BY <1>1 DEF HWNoCall, HWDeps
  <2>2. HWNamed = {}
    <3>1. \A c \in HWCourses : HWNeeds[c] = {}
      BY <2>1 DEF HWNeeds, ToSet
    <3> QED  BY <2>1, <3>1 DEF HWNamed
  <2> QED  BY <1>2, <2>2 DEF HWTimesSound
<1>4. DOMAIN hwStack = {}
  <2>1. \A c \in HWCourses : ~HWOnStack(c)
    BY <1>2, <1>3 DEF HWTimesSound
  <2> QED  BY <1>2, <2>1, HWTypes DEF HWOnStack
<1>5. HWTypeOK'
  BY <1>1, <1>2 DEF HWTypeOK
<1>6. HWStackSound' /\ HWPassed' /\ HWOrdered'
  BY <1>1, <1>3, <1>4 DEF HWStackSound, HWPassed, HWOrdered
<1>7. HWTimesSound'
  BY <1>1, <1>2, <1>3, <1>4 DEF HWTimesSound, HWOnStack
<1> QED  BY <1>1, <1>2, <1>5, <1>6, <1>7 DEF HWInv, HWCourseListSound

LEMMA HWRangeKeeps ==
  ASSUME HWInv, HWRange
  PROVE  HWInv'
<1>1. PICK name \in hwLeft :
        /\ hwLeft' = hwLeft \ {name}
        /\ \/ hwOut[name] # 0 /\ UNCHANGED <<hwIn, hwOut, hwTime, hwStack>>
           \/ hwOut[name] = 0 /\ HWEnter(name)
  BY DEF HWRange
<1>2. hwStack = <<>> /\ hwList = <<>> /\ hwPrereqs' = hwPrereqs /\ hwList' = hwList
  BY DEF HWRange
<1>3. HWTypeOK /\ HWTimesSound /\ HWOrdered
  BY DEF HWInv
<1>4. name \in DOMAIN hwPrereqs /\ name \in HWCourses /\ DOMAIN hwPrereqs \subseteq HWCourses
  BY <1>1, <1>3, HWTypes DEF HWTypeOK
<1>5. name \in HWNamed
  BY <1>4 DEF HWNamed
<1>6. \A c : HWDeps(c)' = HWDeps(c) /\ HWNeeds' = HWNeeds /\ HWNamed' = HWNamed
  BY <1>2, HWSamePrereqs
<1>7. \A c : ~HWOnStack(c)
  BY <1>2 DEF HWOnStack
<1>8. hwList' = <<>> /\ HWCourseListSound'
  BY <1>2 DEF HWCourseListSound
<1>9. CASE hwOut[name] # 0 /\ UNCHANGED <<hwIn, hwOut, hwTime, hwStack>>
  <2>1. HWTypeOK'
    BY <1>1, <1>2, <1>3, <1>9 DEF HWTypeOK
  <2>2. HWStackSound' /\ HWPassed'
    BY <1>2, <1>9 DEF HWStackSound, HWPassed
  <2>3. HWTimesSound'
    BY <1>1, <1>2, <1>3, <1>4, <1>6, <1>9 DEF HWTimesSound, HWOnStack
  <2>4. HWOrdered'
    BY <1>3, <1>6, <1>9 DEF HWOrdered
  <2> QED  BY <1>8, <2>1, <2>2, <2>3, <2>4 DEF HWInv
<1>10. CASE hwOut[name] = 0 /\ HWEnter(name)
  <2>1. /\ hwIn' = [hwIn EXCEPT ![name] = hwTime] /\ hwTime' = hwTime + 1 /\ hwOut' = hwOut
        /\ hwStack' = <<[name |-> name, dep |-> 0]>>
    BY <1>2, <1>10 DEF HWEnter
  <2>2. Len(hwStack') = 1 /\ DOMAIN hwStack' = {1} /\ hwStack'[1].name = name /\ hwStack'[1].dep = 0
    BY <2>1
  <2>3. HWTypeOK'
    <3>1. hwStack' \in Seq([name : HWCourses, dep : Nat])
      BY <1>4, <2>1
    <3> QED  BY <1>1, <1>2, <1>3, <1>4, <2>1, <3>1 DEF HWTypeOK
  <2>4. HWStackSound'
    <3>1. Len(HWDeps(name)) \in Nat
      BY <1>3, HWTypes
    <3> QED  BY <1>6, <2>2, <3>1 DEF HWStackSound
  <2>5. HWPassed'
    BY <2>2 DEF HWPassed
  <2>6. \A c : HWOnStack(c)' <=> c = name
    BY <2>2 DEF HWOnStack
  <2>7. \A c \in HWCourses : hwIn'[c] = IF c = name THEN hwTime ELSE hwIn[c]
    BY <1>3, <1>4, <2>1 DEF HWTypeOK
  <2>8. hwTime \in Nat \ {0} /\ \A c \in HWCourses : hwOut[c] \in Nat
    BY <1>3 DEF HWTypeOK
  <2>9. HWTimesSound'
    <3>1. \A c \in HWCourses : hwIn'[c] # 0 /\ hwOut'[c] = 0 <=> c = name
      BY <1>3, <1>7, <1>10, <2>1, <2>7, <2>8 DEF HWTimesSound
    <3>2. \A c \in HWCourses : hwOut'[c] # 0 => hwIn'[c] # 0
      BY <1>3, <2>1, <2>7, <2>8 DEF HWTimesSound
    <3>3. \A c \in HWCourses : hwOut'[c] < hwTime'
      BY <1>3, <2>1, <2>8 DEF HWTimesSound
    <3>4. \A c \in DOMAIN hwPrereqs \ hwLeft' : hwIn'[c] # 0
      BY <1>1, <1>3, <1>4, <2>7, <2>8 DEF HWTimesSound
    <3>5. \A c \in HWCourses : hwIn'[c] # 0 => c \in HWNamed
      BY <1>3, <1>5, <2>7 DEF HWTimesSound
    <3> QED  BY <1>2, <1>6, <2>6, <3>1, <3>2, <3>3, <3>4, <3>5 DEF HWTimesSound
  <2>10. HWOrdered'
    BY <1>3, <1>6, <2>1 DEF HWOrdered
  <2> QED  BY <1>8, <2>3, <2>4, <2>5, <2>9, <2>10 DEF HWInv
<1> QED  BY <1>1, <1>9, <1>10

\* The stack with the next dependency of its top counted.
LEMMA HWCounted ==
  ASSUME HWTypeOK, hwStack # <<>>
  PROVE  /\ HWTop = hwStack[Len(hwStack)] /\ Len(hwStack) \in DOMAIN hwStack
         /\ HWNextDep \in Seq([name : HWCourses, dep : Nat])
         /\ Len(HWNextDep) = Len(hwStack) /\ DOMAIN HWNextDep = DOMAIN hwStack
         /\ HWNextDep[Len(hwStack)] = [name |-> HWTop.name, dep |-> HWTop.dep + 1]
         /\ \A k \in DOMAIN hwStack : k # Len(hwStack) => HWNextDep[k] = hwStack[k]
<1> DEFINE F == [name : HWCourses, dep : Nat]
           n == Len(hwStack)
           e == [hwStack[n] EXCEPT !.dep = @ + 1]
<1>1. hwStack \in Seq(F)
  BY DEF HWTypeOK
<1>2. n \in Nat /\ DOMAIN hwStack = 1..n
  BY HWTypes
<1>3. n # 0
  BY <1>1
<1>4. n \in 1..n
  BY <1>2, <1>3
<1>5. hwStack[n] \in F
  <2> HIDE DEF F
  <2> QED  BY <1>1, <1>4, ElementOfSeq
<1>6. e \in F /\ e = [name |-> hwStack[n].name, dep |-> hwStack[n].dep + 1]
  BY <1>5
<1>7. HWNextDep = [hwStack EXCEPT ![n] = e]
  BY DEF HWNextDep
<1>8. /\ HWNextDep \in Seq(F) /\ Len(HWNextDep) = n
      /\ \A j \in 1..n : HWNextDep[j] = IF j = n THEN e ELSE hwStack[j]
  <2> HIDE DEF F, e
  <2> QED  BY <1>1, <1>4, <1>6, <1>7, ExceptSeq
<1>9. DOMAIN HWNextDep = 1..n
  BY <1>8, LenProperties
<1> QED  BY <1>2, <1>4, <1>6, <1>8, <1>9 DEF HWTop, Last

\* A course that is needed by the top of the stack and that is on the stack closes
\* a circle.
LEMMA HWBackEdge ==
  ASSUME HWTypeOK, HWStackSound, hwStack # <<>>,
         NEW d \in 1..Len(HWDeps(HWTop.name)), HWOnStack(HWDeps(HWTop.name)[d])
  PROVE  HWCycle
<1>0. PICK n : n = Len(hwStack)
  OBVIOUS
<1>1. /\ n \in Nat \ {0} /\ DOMAIN hwStack = 1..n /\ HWTop = hwStack[n]
      /\ \A k \in 1..n : hwStack[k].name \in HWCourses /\ hwStack[k].dep \in Nat
  BY <1>0, HWTypes, HWCounted
<1>2. PICK m \in 1..n : hwStack[m].name = HWDeps(HWTop.name)[d]
  BY <1>1 DEF HWOnStack
<1> DEFINE S == {hwStack[k].name : k \in m..n}
<1>3. S \in (SUBSET HWCourses) \ {{}}
  <2>1. m \in m..n /\ \A k \in m..n : k \in 1..n
    BY <1>1
  <2>2. hwStack[m].name \in S
    BY <2>1
  <2>3. S \subseteq HWCourses
    BY <1>1, <2>1
  <2> QED  BY <2>2, <2>3
<1>4. ASSUME NEW k \in m..n PROVE HWNeeds[hwStack[k].name] \intersect S # {}
  <2>0. k \in 1..n /\ (k = n \/ k < n)
    BY <1>1
  <2>1. CASE k = n
    <3>1. hwStack[m].name \in HWNeeds[hwStack[n].name]
      BY <1>1, <1>2, <2>0, <2>1, HWTypes
    <3>2. m \in m..n
      BY <1>1
    <3> QED  BY <2>1, <3>1, <3>2
  <2>2. CASE k < n
    <3>1. /\ hwStack[k].dep > 0 /\ hwStack[k].dep <= Len(HWDeps(hwStack[k].name))
          /\ HWDeps(hwStack[k].name)[hwStack[k].dep] = hwStack[k + 1].name
      BY <1>0, <1>1, <2>0, <2>2 DEF HWStackSound
    <3>2. hwStack[k].dep \in 1..Len(HWDeps(hwStack[k].name))
      BY <1>1, <2>0, <3>1, HWTypes
    <3>3. hwStack[k + 1].name \in HWNeeds[hwStack[k].name]
      BY <1>1, <2>0, <3>1, <3>2, HWTypes
    <3>4. k + 1 \in m..n
      BY <1>1, <2>2
    <3> QED  BY <3>3, <3>4
  <2> QED  BY <2>0, <2>1, <2>2
<1>5. \A c \in S : HWNeeds[c] \intersect S # {}
  BY <1>4
<1> QED
  <2> HIDE DEF S
  <2> QED  BY <1>3, <1>5 DEF HWCycle

LEMMA HWVisitDepKeeps ==
  ASSUME HWInv, HWVisitDep
  PROVE  HWInv'
<1>0. PICK n, t, d, c : n = Len(hwStack) /\ t = HWTop.name /\ d = HWTop.dep + 1 /\ c = HWDep
  OBVIOUS
<1>1. /\ hwStack # <<>> /\ HWTop.dep < Len(HWDeps(HWTop.name)) /\ hwList = <<>>
      /\ hwPrereqs' = hwPrereqs /\ hwLeft' = hwLeft
  BY DEF HWVisitDep
<1>2. HWTypeOK /\ HWStackSound /\ HWTimesSound /\ HWPassed /\ HWOrdered
  BY DEF HWInv
<1>3. /\ n \in Nat \ {0} /\ DOMAIN hwStack = 1..n /\ t \in HWCourses /\ d \in 1..Len(HWDeps(t))
      /\ d \in Nat \ {0} /\ d <= Len(HWDeps(t)) /\ hwStack[n].name = t /\ hwStack[n].dep = d - 1
  BY <1>0, <1>1, <1>2, HWTypes, HWCounted
<1>4. c = HWDeps(t)[d] /\ c \in HWCourses
  BY <1>0, <1>2, <1>3, HWTypes DEF HWDep
<1>5. /\ HWNextDep[n] = [name |-> t, dep |-> d] /\ HWNextDep \in Seq([name : HWCourses, dep : Nat])
      /\ Len(HWNextDep) = n /\ DOMAIN HWNextDep = 1..n
      /\ \A k \in 1..n : k # n => HWNextDep[k] = hwStack[k]
  BY <1>0, <1>1, <1>2, <1>3, HWCounted
<1>6. /\ \A k, l \in 1..n : hwStack[k].name = hwStack[l].name => k = l
      /\ \A k \in 1..n : hwStack[k].dep <= Len(HWDeps(hwStack[k].name))
      /\ \A k \in 1..n : k < n =>
           /\ hwStack[k].dep > 0
           /\ HWDeps(hwStack[k].name)[hwStack[k].dep] = hwStack[k + 1].name
  BY <1>0, <1>2, <1>3 DEF HWStackSound
<1>7. \A k \in 1..n : \A e \in 1..hwStack[k].dep :
        hwOut[HWDeps(hwStack[k].name)[e]] # 0 \/ (k < n /\ e = hwStack[k].dep)
  BY <1>0, <1>2, <1>3 DEF HWPassed
<1>8. ASSUME NEW e \in 1..d, e # d PROVE hwOut[HWDeps(t)[e]] # 0
  <2>1. n \in 1..n /\ e \in 1..hwStack[n].dep /\ ~(n < n)
    BY <1>3, <1>8
  <2> QED  BY <1>3, <1>7, <2>1
<1>9. /\ \A x : HWDeps(x)' = HWDeps(x)
      /\ HWNeeds' = HWNeeds /\ HWNamed' = HWNamed /\ HWCycle' = HWCycle
  BY <1>1, HWSamePrereqs
<1>10. c \in HWNamed
  <2>1. c \in HWNeeds[t]
    BY <1>2, <1>3, <1>4, HWTypes
  <2> QED  BY <1>3, <2>1 DEF HWNamed
<1>11. hwPrereqs # HWNoCall
  <2>1. CASE hwPrereqs = HWNoCall
    <3>1. Len(HWDeps(t)) = 0
      BY <2>1 DEF HWNoCall, HWDeps
    <3> QED  BY <1>3, <3>1
  <2> QED  BY <2>1
<1>12. \/ hwOut[c] # 0 /\ hwStack' = HWNextDep /\ UNCHANGED <<hwIn, hwOut, hwTime, hwList>>
       \/ /\ hwOut[c] = 0 /\ hwIn[c] # 0 /\ hwList' = HWPanic
          /\ UNCHANGED <<hwIn, hwOut, hwTime, hwStack>>
       \/ /\ hwOut[c] = 0 /\ hwIn[c] = 0 /\ hwIn' = [hwIn EXCEPT ![c] = hwTime]
          /\ hwTime' = hwTime + 1 /\ hwStack' = Append(HWNextDep, [name |-> c, dep |-> 0])
          /\ UNCHANGED <<hwOut, hwList>>
  BY <1>0 DEF HWVisitDep
<1>13. CASE hwOut[c] # 0 /\ hwStack' = HWNextDep /\ UNCHANGED <<hwIn, hwOut, hwTime, hwList>>
  <2>1. \A k \in 1..n : hwStack'[k].name = hwStack[k].name
    BY <1>3, <1>5, <1>13
  <2>2. HWTypeOK'
    BY <1>1, <1>2, <1>5, <1>13 DEF HWTypeOK
  <2>3. HWStackSound'
    <3>1. \A k \in 1..n : hwStack'[k].dep <= Len(HWDeps(hwStack[k].name))
      <4>1. hwStack'[n].dep <= Len(HWDeps(hwStack[n].name))
        BY <1>3, <1>5, <1>13
      <4>2. ASSUME NEW k \in 1..n, k # n PROVE hwStack'[k].dep <= Len(HWDeps(hwStack[k].name))
        BY <1>5, <1>6, <1>13, <4>2
      <4> QED  BY <4>1, <4>2
    <3>2. ASSUME NEW k \in 1..n, k < n
          PROVE  /\ hwStack'[k].dep > 0
                 /\ HWDeps(hwStack'[k].name)[hwStack'[k].dep] = hwStack'[k + 1].name
      <4>1. k # n /\ k + 1 \in 1..n
        BY <1>3, <3>2
      <4> QED  BY <1>5, <1>6, <1>13, <2>1, <3>2, <4>1
    <3>3. \A k, l \in 1..n : hwStack'[k].name = hwStack'[l].name => k = l
      BY <1>6, <2>1
    <3>4. \A k \in 1..n : hwStack'[k].dep <= Len(HWDeps(hwStack'[k].name))
      BY <2>1, <3>1
    <3>5. DOMAIN hwStack' = 1..n /\ Len(hwStack') = n
      BY <1>5, <1>13
    <3> QED  BY <1>9, <3>2, <3>3, <3>4, <3>5 DEF HWStackSound
  <2>4. \A x : HWOnStack(x)' <=> HWOnStack(x)
    BY <1>3, <1>5, <1>13, <2>1 DEF HWOnStack
  <2>5. HWTimesSound'
    BY <1>1, <1>2, <1>9, <1>13, <2>4 DEF HWTimesSound
  <2>6. HWPassed'
    <3>1. ASSUME NEW k \in 1..n, NEW e \in 1..hwStack'[k].dep
          PROVE  hwOut[HWDeps(hwStack'[k].name)[e]] # 0 \/ (k < n /\ e = hwStack'[k].dep)
      <4>1. CASE k # n
        BY <1>5, <1>7, <1>13, <4>1
      <4>2. CASE k = n
        BY <1>4, <1>5, <1>8, <1>13, <4>2
      <4> QED  BY <4>1, <4>2
    <3>2. DOMAIN hwStack' = 1..n /\ Len(hwStack') = n
      BY <1>5, <1>13
    <3> QED  BY <1>9, <1>13, <3>1, <3>2 DEF HWPassed
  <2>7. HWOrdered'
    BY <1>2, <1>9, <1>13 DEF HWOrdered
  <2> QED  BY <1>1, <1>11, <1>13, <2>2, <2>3, <2>5, <2>6, <2>7 DEF HWInv, HWCourseListSound
<1>14. CASE /\ hwOut[c] = 0 /\ hwIn[c] # 0 /\ hwList' = HWPanic
            /\ UNCHANGED <<hwIn, hwOut, hwTime, hwStack>>
  <2>1. HWCycle
    <3>1. HWOnStack(c)
      BY <1>2, <1>4, <1>14 DEF HWTimesSound
    <3> QED  BY <1>0, <1>1, <1>2, <1>3, <1>4, <3>1, HWBackEdge
  <2>2. HWCourseListSound'
    BY <1>9, <1>14, <2>1 DEF HWCourseListSound
  <2>3. HWTypeOK' /\ HWStackSound' /\ HWPassed' /\ HWOrdered'
    BY <1>1, <1>2, <1>9, <1>14 DEF HWTypeOK, HWStackSound, HWPassed, HWOrdered
  <2>4. HWTimesSound'
    BY <1>1, <1>2, <1>9, <1>14 DEF HWTimesSound, HWOnStack
  <2> QED  BY <1>1, <1>11, <2>2, <2>3, <2>4 DEF HWInv
<1>15. CASE /\ hwOut[c] = 0 /\ hwIn[c] = 0 /\ hwIn' = [hwIn EXCEPT ![c] = hwTime]
            /\ hwTime' = hwTime + 1 /\ hwStack' = Append(HWNextDep, [name |-> c, dep |-> 0])
            /\ UNCHANGED <<hwOut, hwList>>
  <2> DEFINE f == [name |-> c, dep |-> 0]
  <2>1. /\ hwStack' \in Seq([name : HWCourses, dep : Nat])
        /\ Len(hwStack') = n + 1 /\ DOMAIN hwStack' = 1..n + 1
        /\ hwStack'[n + 1] = f
        /\ hwStack'[n] = [name |-> t, dep |-> d]
        /\ \A k \in 1..n : k # n => hwStack'[k] = hwStack[k]
    <3> DEFINE F == [name : HWCourses, dep : Nat]
    <3>1. HWNextDep \in Seq(F) /\ Len(HWNextDep) = n /\ f \in F
      BY <1>4, <1>5
    <3>2. /\ hwStack' \in Seq(F) /\ Len(hwStack') = n + 1 /\ hwStack'[n + 1] = f
          /\ \A k \in 1..n : hwStack'[k] = HWNextDep[k]
      <4> HIDE DEF F, f
      <4>1. hwStack' = Append(HWNextDep, f)
        BY <1>15 DEF f
      <4> QED  BY <3>1, <4>1, AppendProperties
    <3>3. DOMAIN hwStack' = 1..n + 1
      <4> HIDE DEF F
      <4> QED  BY <3>2, LenProperties
    <3>4. n \in 1..n
      BY <1>3
    <3> QED  BY <1>5, <3>2, <3>3, <3>4
  <2>2. HWTypeOK'
    <3>1. hwIn' \in [HWCourses -> Nat] /\ hwTime' \in Nat \ {0} /\ hwOut' = hwOut
      BY <1>2, <1>4, <1>15 DEF HWTypeOK
    <3> QED  BY <1>1, <1>2, <2>1, <3>1 DEF HWTypeOK
  <2>3. \A k \in 1..n : hwStack'[k].name = hwStack[k].name
    BY <1>3, <2>1
  <2>4. \A k \in 1..n : hwStack[k].name # c
    BY <1>2, <1>3, <1>4, <1>15 DEF HWTimesSound, HWOnStack
  <2>5. \A k \in 1..n + 1 : (k \in 1..n /\ k # n) \/ k = n \/ k = n + 1
    BY <1>3
  <2>6. n \in 1..n /\ n + 1 \in 1..n + 1 /\ \A k \in 1..n : k \in 1..n + 1
    BY <1>3
  <2>7. HWStackSound'
    <3>1. \A k, l \in 1..n + 1 : hwStack'[k].name = hwStack'[l].name => k = l
      <4>1. \A k \in 1..n + 1 : k \in 1..n \/ k = n + 1
        BY <1>3
      <4> QED  BY <1>6, <2>1, <2>3, <2>4, <4>1
    <3>2. \A k \in 1..n + 1 : hwStack'[k].dep <= Len(HWDeps(hwStack'[k].name))
      <4>1. Len(HWDeps(c)) \in Nat
        BY <1>2, HWTypes
      <4>2. ASSUME NEW k \in 1..n, k # n
            PROVE  hwStack'[k].dep <= Len(HWDeps(hwStack'[k].name))
        BY <1>6, <2>1, <4>2
      <4>3. hwStack'[n].dep <= Len(HWDeps(hwStack'[n].name))
        BY <1>3, <2>1
      <4>4. hwStack'[n + 1].dep <= Len(HWDeps(hwStack'[n + 1].name))
        BY <2>1, <4>1
      <4> QED  BY <2>5, <4>2, <4>3, <4>4
    <3>3. ASSUME NEW k \in 1..n + 1, k < n + 1
          PROVE  /\ hwStack'[k].dep > 0
                 /\ HWDeps(hwStack'[k].name)[hwStack'[k].dep] = hwStack'[k + 1].name
      <4>1. CASE k = n
        BY <1>3, <1>4, <2>1, <4>1
      <4>2. CASE k < n
        <5>1. k \in 1..n /\ k # n /\ k + 1 \in 1..n
          BY <1>3, <4>2
        <5> QED  BY <1>6, <2>1, <2>3, <4>2, <5>1
      <4> QED  BY <1>3, <3>3, <4>1, <4>2
    <3> QED  BY <1>9, <2>1, <3>1, <3>2, <3>3 DEF HWStackSound
  <2>8. \A x : HWOnStack(x)' <=> HWOnStack(x) \/ x = c
    <3>1. \A x : HWOnStack(x)' <=> \E k \in 1..n + 1 : hwStack'[k].name = x
      BY <2>1 DEF HWOnStack
    <3>2. \A x : HWOnStack(x) <=> \E k \in 1..n : hwStack[k].name = x
      BY <1>3 DEF HWOnStack
    <3>3. hwStack'[n + 1].name = c
      BY <2>1
    <3>4. \A k \in 1..n + 1 : k \in 1..n \/ k = n + 1
      BY <2>5
    <3>5. ASSUME NEW k \in 1..n + 1 PROVE HWOnStack(hwStack'[k].name) \/ hwStack'[k].name = c
      BY <2>3, <3>2, <3>3, <3>4
    <3>6. ASSUME NEW k \in 1..n PROVE k \in 1..n + 1 /\ hwStack'[k].name = hwStack[k].name
      BY <2>3, <2>6
    <3> QED  BY <2>6, <3>1, <3>2, <3>3, <3>5, <3>6
  <2>9. hwTime \in Nat \ {0} /\ \A x \in HWCourses : hwOut[x] \in Nat
    BY <1>2 DEF HWTypeOK
  <2>10. \A x \in HWCourses : hwIn'[x] = IF x = c THEN hwTime ELSE hwIn[x]
    BY <1>2, <1>4, <1>15 DEF HWTypeOK
  <2>11. HWTimesSound'
    <3>1. \A x \in HWCourses : hwIn'[x] # 0 /\ hwOut'[x] = 0 <=> HWOnStack(x) \/ x = c
      BY <1>2, <1>15, <2>9, <2>10 DEF HWTimesSound
    <3>2. \A x \in HWCourses : hwOut'[x] # 0 => hwIn'[x] # 0
      BY <1>2, <1>15, <2>9, <2>10 DEF HWTimesSound
    <3>3. \A x \in HWCourses : hwOut'[x] < hwTime'
      BY <1>2, <1>15, <2>9 DEF HWTimesSound
    <3>4. \A x \in DOMAIN hwPrereqs \ hwLeft : hwIn'[x] # 0
      <4>1. DOMAIN hwPrereqs \subseteq HWCourses
        BY <1>2, HWTypes
      <4> QED  BY <1>2, <2>9, <2>10, <4>1 DEF HWTimesSound
    <3>5. \A x \in HWCourses : hwIn'[x] # 0 => x \in HWNamed
      BY <1>2, <1>10, <2>10 DEF HWTimesSound
    <3> QED  BY <1>1, <1>9, <2>8, <3>1, <3>2, <3>3, <3>4, <3>5 DEF HWTimesSound
  <2>12. HWPassed'
    <3>1. ASSUME NEW k \in 1..n + 1, NEW e \in 1..hwStack'[k].dep
          PROVE  hwOut[HWDeps(hwStack'[k].name)[e]] # 0 \/ (k < n + 1 /\ e = hwStack'[k].dep)
      <4>1. CASE k \in 1..n /\ k # n
        <5>1. k < n + 1
          BY <1>3, <4>1
        <5> QED  BY <1>7, <2>1, <4>1, <5>1
      <4>2. CASE k = n
        <5>1. n < n + 1
          BY <1>3
        <5> QED  BY <1>8, <2>1, <4>2, <5>1
      <4>3. CASE k = n + 1
        BY <2>1, <4>3
      <4> QED  BY <2>5, <4>1, <4>2, <4>3
    <3> QED  BY <1>9, <1>15, <2>1, <3>1 DEF HWPassed
  <2>13. HWOrdered'
    BY <1>2, <1>9, <1>15 DEF HWOrdered
  <2> QED  BY <1>1, <1>11, <1>15, <2>2, <2>7, <2>11, <2>12, <2>13 DEF HWInv, HWCourseListSound
<1> QED  BY <1>12, <1>13, <1>14, <1>15

LEMMA HWLeaveKeeps ==
  ASSUME HWInv, HWLeave
  PROVE  HWInv'
<1>0. PICK n, t : n = Len(hwStack) /\ t = HWTop.name
  OBVIOUS
<1>1. /\ hwStack # <<>> /\ HWTop.dep = Len(HWDeps(t)) /\ hwList = <<>>
      /\ hwOut' = [hwOut EXCEPT ![t] = hwTime] /\ hwTime' = hwTime + 1 /\ hwStack' = Front(hwStack)
      /\ hwPrereqs' = hwPrereqs /\ hwLeft' = hwLeft /\ hwIn' = hwIn /\ hwList' = hwList
  BY <1>0 DEF HWLeave
<1>2. HWTypeOK /\ HWStackSound /\ HWTimesSound /\ HWPassed /\ HWOrdered
  BY DEF HWInv
<1>3. /\ n \in Nat \ {0} /\ DOMAIN hwStack = 1..n /\ t \in HWCourses
      /\ hwStack[n].name = t /\ hwStack[n].dep = Len(HWDeps(t)) /\ Len(HWDeps(t)) \in Nat
  BY <1>0, <1>1, <1>2, HWTypes, HWCounted
<1>4. /\ hwStack' \in Seq([name : HWCourses, dep : Nat])
      /\ Len(hwStack') = n - 1 /\ DOMAIN hwStack' = 1..n - 1
      /\ \A k \in 1..n - 1 : hwStack'[k] = hwStack[k]
  <2> DEFINE F == [name : HWCourses, dep : Nat]
  <2>1. hwStack \in Seq(F)
    BY <1>2 DEF HWTypeOK
  <2> HIDE DEF F
  <2> QED  BY <1>0, <1>1, <2>1, FrontShape DEF F
<1>5. /\ \A k, l \in 1..n : hwStack[k].name = hwStack[l].name => k = l
      /\ \A k \in 1..n : hwStack[k].dep <= Len(HWDeps(hwStack[k].name))
      /\ \A k \in 1..n : k < n =>
           /\ hwStack[k].dep > 0
           /\ HWDeps(hwStack[k].name)[hwStack[k].dep] = hwStack[k + 1].name
  BY <1>0, <1>2, <1>3 DEF HWStackSound
<1>6. \A k \in 1..n : \A e \in 1..hwStack[k].dep :
        hwOut[HWDeps(hwStack[k].name)[e]] # 0 \/ (k < n /\ e = hwStack[k].dep)
  BY <1>0, <1>2, <1>3 DEF HWPassed
<1>7. n \in 1..n /\ \A k \in 1..n - 1 : k \in 1..n /\ k < n /\ k # n
  BY <1>3
<1>8. \A k \in 1..n : k \in 1..n - 1 \/ k = n
  BY <1>3
<1>9. /\ \A x : HWDeps(x)' = HWDeps(x)
      /\ HWNeeds' = HWNeeds /\ HWNamed' = HWNamed
  BY <1>1, HWSamePrereqs
<1>10. /\ hwTime \in Nat \ {0} /\ \A x \in HWCourses : hwOut[x] \in Nat /\ hwOut[x] < hwTime
       /\ \A x \in HWCourses : hwOut'[x] = IF x = t THEN hwTime ELSE hwOut[x]
  BY <1>1, <1>2, <1>3 DEF HWTypeOK, HWTimesSound
<1>11. HWOnStack(t) /\ hwIn[t] # 0 /\ hwOut[t] = 0
  BY <1>2, <1>3, <1>7 DEF HWTimesSound, HWOnStack
<1>12. HWTypeOK'
  BY <1>1, <1>2, <1>3, <1>4 DEF HWTypeOK
<1>13. HWStackSound'
  <2>1. ASSUME NEW k \in 1..n - 1, k < n - 1
        PROVE  /\ hwStack'[k].dep > 0
               /\ HWDeps(hwStack'[k].name)[hwStack'[k].dep] = hwStack'[k + 1].name
    <3>1. k + 1 \in 1..n - 1
      BY <1>3, <2>1
    <3> QED  BY <1>4, <1>5, <1>7, <3>1
  <2>2. \A k, l \in 1..n - 1 : hwStack'[k].name = hwStack'[l].name => k = l
    BY <1>4, <1>5, <1>7
  <2>3. \A k \in 1..n - 1 : hwStack'[k].dep <= Len(HWDeps(hwStack'[k].name))
    BY <1>4, <1>5, <1>7
  <2> QED  BY <1>4, <1>9, <2>1, <2>2, <2>3 DEF HWStackSound
<1>14. \A x : HWOnStack(x)' <=> HWOnStack(x) /\ x # t
  <2>1. \A x : HWOnStack(x)' <=> \E k \in 1..n - 1 : hwStack[k].name = x
    BY <1>4 DEF HWOnStack
  <2>2. \A x : HWOnStack(x) <=> \E k \in 1..n : hwStack[k].name = x
    BY <1>3 DEF HWOnStack
  <2>3. \A k \in 1..n - 1 : hwStack[k].name # t
    BY <1>3, <1>5, <1>7
  <2> QED  BY <1>3, <1>7, <1>8, <2>1, <2>2, <2>3
<1>15. HWTimesSound'
  <2>1. \A x \in HWCourses : hwIn'[x] # 0 /\ hwOut'[x] = 0 <=> HWOnStack(x) /\ x # t
    BY <1>1, <1>2, <1>10 DEF HWTimesSound
  <2>2. \A x \in HWCourses : hwOut'[x] # 0 => hwIn'[x] # 0
    BY <1>1, <1>2, <1>10, <1>11 DEF HWTimesSound
  <2>3. \A x \in HWCourses : hwOut'[x] < hwTime'
    BY <1>1, <1>10
  <2> QED  BY <1>1, <1>2, <1>9, <1>14, <2>1, <2>2, <2>3 DEF HWTimesSound
<1>16. HWPassed'
  <2>1. ASSUME NEW k \in 1..n - 1, NEW e \in 1..hwStack[k].dep
        PROVE  hwOut'[HWDeps(hwStack[k].name)[e]] # 0 \/ (k < n - 1 /\ e = hwStack[k].dep)
    <3>1. hwOut[HWDeps(hwStack[k].name)[e]] # 0 \/ e = hwStack[k].dep
      BY <1>6, <1>7
    <3>2. HWDeps(hwStack[k].name)[e] \in HWCourses
      <4>1. hwStack[k].dep \in Nat /\ Len(HWDeps(hwStack[k].name)) \in Nat
        BY <1>2, <1>3, <1>7, HWTypes
      <4>2. hwStack[k].dep <= Len(HWDeps(hwStack[k].name))
        BY <1>5, <1>7
      <4>3. e \in 1..Len(HWDeps(hwStack[k].name))
        BY <4>1, <4>2
      <4> QED  BY <1>2, <4>3, HWTypes
    <3>3. CASE hwOut[HWDeps(hwStack[k].name)[e]] # 0
      BY <1>10, <3>2, <3>3
    <3>4. CASE e = hwStack[k].dep /\ k = n - 1
      <4>1. k + 1 = n
        BY <1>3, <3>4
      <4> QED  BY <1>3, <1>5, <1>7, <1>10, <3>4, <4>1
    <3>5. k < n - 1 \/ k = n - 1
      BY <1>3
    <3> QED  BY <3>1, <3>3, <3>4, <3>5
  <2>2. \A k \in 1..n - 1 : \A e \in 1..hwStack'[k].dep :
          hwOut'[HWDeps(hwStack'[k].name)[e]] # 0 \/ (k < n - 1 /\ e = hwStack'[k].dep)
    BY <1>4, <2>1
  <2> QED  BY <1>4, <1>9, <2>2 DEF HWPassed
<1>17. HWOrdered'
  <2>1. ASSUME NEW x \in HWCourses, hwOut'[x] # 0, NEW need \in HWNeeds[x]
        PROVE  hwOut'[need] # 0 /\ hwOut'[need] < hwOut'[x]
    <3>1. need \in HWCourses
      BY <1>2, HWTypes
    <3>2. CASE x = t
      <4>1. PICK e \in 1..Len(HWDeps(t)) : need = HWDeps(t)[e]
        BY <1>2, <1>3, <3>2, HWTypes
      <4>2. hwOut[need] # 0
        BY <1>3, <1>6, <1>7, <4>1
      <4> QED  BY <1>10, <1>11, <3>1, <3>2, <4>2
    <3>3. CASE x # t
      <4>1. hwOut[need] # 0 /\ hwOut[need] < hwOut[x]
        BY <1>2, <1>10, <2>1, <3>3 DEF HWOrdered
      <4> QED  BY <1>10, <1>11, <3>1, <3>3, <4>1
    <3> QED  BY <3>2, <3>3
  <2> QED  BY <1>9, <2>1 DEF HWOrdered
<1> QED
  <2>1. HWCourseListSound' /\ (hwPrereqs' = HWNoCall => hwList' = <<>>)
    BY <1>1 DEF HWCourseListSound
  <2> QED  BY <1>12, <1>13, <1>15, <1>16, <1>17, <2>1 DEF HWInv, HWNoCall

LEMMA HWReturnKeeps ==
  ASSUME HWInv, HWReturn
  PROVE  HWInv'
<1> DEFINE E == {c \in HWCourses : hwIn[c] # 0}
<1>1. /\ hwPrereqs # HWNoCall /\ hwLeft = {} /\ hwStack = <<>>
      /\ UNCHANGED <<hwPrereqs, hwLeft, hwIn, hwOut, hwTime, hwStack>>
  BY DEF HWReturn
<1>2. PICK list \in SetToSeqs(E) :
        /\ \A i, j \in DOMAIN list : i < j => hwOut[list[i]] <= hwOut[list[j]]
        /\ hwList' = list
  BY DEF HWReturn
<1>3. HWTypeOK /\ HWStackSound /\ HWTimesSound /\ HWPassed /\ HWOrdered
  BY DEF HWInv
<1>4. \A c \in E : c \in HWCourses /\ hwOut[c] # 0
  BY <1>1, <1>3 DEF HWTimesSound, HWOnStack
<1>5. \A c \in HWCourses : hwOut[c] \in Nat
  BY <1>3 DEF HWTypeOK
<1>6. DOMAIN hwPrereqs \subseteq E
  BY <1>1, <1>3, HWTypes DEF HWTimesSound
<1>7. \A c \in E : \A need \in HWNeeds[c] : need \in E /\ hwOut[need] < hwOut[c]
  <2>1. ASSUME NEW c \in E, NEW need \in HWNeeds[c] PROVE need \in E /\ hwOut[need] < hwOut[c]
    <3>1. hwOut[need] # 0 /\ hwOut[need] < hwOut[c]
      BY <1>3, <1>4 DEF HWOrdered
    <3>2. need \in HWCourses
      BY <1>3, HWTypes
    <3> QED  BY <1>3, <3>1, <3>2 DEF HWTimesSound
  <2> QED  BY <2>1
<1>8. \A c \in HWCourses : HWNeeds[c] # {} => c \in E
  <2>1. ASSUME NEW c \in HWCourses, c \notin DOMAIN hwPrereqs PROVE HWNeeds[c] = {}
    <3>1. HWDeps(c) = <<>>
      BY <2>1 DEF HWDeps
    <3> QED  BY <3>1 DEF HWNeeds, ToSet
  <2> QED  BY <1>6, <2>1
<1>9. HWNamed = E
  <2>1. HWNamed \subseteq E
    BY <1>6, <1>7, <1>8 DEF HWNamed
  <2>2. E \subseteq HWNamed
    BY <1>3 DEF HWTimesSound
  <2> QED  BY <2>1, <2>2
<1>10. ~HWCycle
  <2> SUFFICES ASSUME NEW S \in (SUBSET HWCourses) \ {{}}, \A c \in S : HWNeeds[c] \intersect S # {}
               PROVE  FALSE
    BY DEF HWCycle
  <2>1. \A c \in S : \E b \in S : hwOut[b] < hwOut[c]
    BY <1>7, <1>8
  <2> DEFINE O == {hwOut[c] : c \in S}
  <2>2. O \subseteq Nat /\ O # {}
    BY <1>5
  <2>3. PICK o \in O : \A p \in O : o <= p
    <3> HIDE DEF O
    <3> QED  BY <2>2, LeastNat
  <2>4. PICK c \in S : o = hwOut[c]
    BY <2>3
  <2>5. PICK b \in S : hwOut[b] < hwOut[c]
    BY <2>1
  <2>6. hwOut[c] <= hwOut[b]
    BY <2>3, <2>4
  <2> QED  BY <1>5, <2>5, <2>6
<1>11. PICK m : m = Cardinality(E)
  OBVIOUS
<1>12. IsFiniteSet(E) /\ m \in Nat
  BY <1>11, HWAssumption, FS_Subset, FS_CardinalityType
<1>13. /\ list \in [1..m -> E] /\ DOMAIN list = 1..m
       /\ \A i, j \in 1..m : list[i] = list[j] => i = j
  <2> HIDE DEF E
  <2> QED  BY <1>2, <1>11 DEF SetToSeqs
<1>14. ToSet(list) = E
  <2> HIDE DEF E
  <2>1. IsFiniteSet(1..m) /\ Cardinality(1..m) = m
    BY <1>12, FS_Interval
  <2>2. list \in Injection(1..m, E)
    BY <1>13 DEF Injection, IsInjective
  <2>3. list \in Surjection(1..m, E)
    BY <1>11, <1>12, <2>1, <2>2, FS_Injection
  <2>4. \A c \in E : \E i \in 1..m : list[i] = c
    BY <2>3 DEF Surjection
  <2> QED  BY <1>13, <2>4 DEF ToSet
<1>15. list # HWPanic
  <2>1. \A i \in DOMAIN list : list[i] \in HWCourses
    BY <1>13
  <2>2. 1 \in DOMAIN HWPanic /\ HWPanic[1] = "Cycle Deps!!!"
    BY DEF HWPanic
  <2> QED  BY <2>1, <2>2, HWAssumption
<1>16. \A i \in DOMAIN list : \A need \in HWNeeds[list[i]] : \E j \in 1..i - 1 : list[j] = need
  <2> SUFFICES ASSUME NEW i \in 1..m, NEW need \in HWNeeds[list[i]]
               PROVE  \E j \in 1..i - 1 : list[j] = need
    BY <1>13
  <2>1. list[i] \in E /\ need \in E /\ hwOut[need] < hwOut[list[i]]
    BY <1>7, <1>13
  <2>2. PICK j \in 1..m : list[j] = need
    BY <1>13, <1>14, <2>1 DEF ToSet
  <2>3. hwOut[list[i]] \in Nat /\ hwOut[list[j]] \in Nat
    BY <1>4, <1>5, <2>1, <2>2
  <2>4. ~(i < j) /\ i # j
    BY <1>2, <1>13, <2>1, <2>2, <2>3
  <2>5. j \in 1..i - 1
    BY <1>12, <2>4
  <2> QED  BY <2>2, <2>5
<1>17. HWCourseListSound'
  <2>1. HWCycle' = HWCycle /\ HWNamed' = HWNamed /\ HWNeeds' = HWNeeds
    BY <1>1, HWSamePrereqs
  <2>2. IsInjective(list)
    BY <1>13 DEF IsInjective
  <2> HIDE DEF E
  <2> QED  BY <1>2, <1>9, <1>10, <1>14, <1>15, <1>16, <2>1, <2>2 DEF HWCourseListSound
<1>18. HWTypeOK' /\ HWStackSound' /\ HWPassed'
  BY <1>1, <1>3, HWSamePrereqs DEF HWTypeOK, HWStackSound, HWPassed
<1>19. HWTimesSound' /\ HWOrdered'
  BY <1>1, <1>3, HWSamePrereqs DEF HWTimesSound, HWOnStack, HWOrdered
<1> QED  BY <1>1, <1>17, <1>18, <1>19 DEF HWInv

LEMMA HWInvariance == HWInv /\ [HWNext]_hwvars => HWInv'
<1> SUFFICES ASSUME HWInv, [HWNext]_hwvars PROVE HWInv'
  OBVIOUS
<1>1. CASE UNCHANGED hwvars
  <2>1. UNCHANGED <<hwPrereqs, hwLeft, hwIn, hwOut, hwTime, hwStack, hwList>>
    BY <1>1 DEF hwvars
  <2>2. /\ \A c : HWDeps(c)' = HWDeps(c) /\ HWOnStack(c)' = HWOnStack(c)
        /\ HWNeeds' = HWNeeds /\ HWNamed' = HWNamed /\ HWCycle' = HWCycle
    BY <2>1, HWSamePrereqs DEF HWOnStack
  <2>3. HWTypeOK' = HWTypeOK /\ HWCourseListSound' = HWCourseListSound
    BY <2>1, <2>2 DEF HWTypeOK, HWCourseListSound
  <2>4. HWStackSound' = HWStackSound /\ HWTimesSound' = HWTimesSound
    BY <2>1, <2>2 DEF HWStackSound, HWTimesSound
  <2>5. HWPassed' = HWPassed /\ HWOrdered' = HWOrdered
    BY <2>1, <2>2 DEF HWPassed, HWOrdered
  <2> QED  BY <2>1, <2>3, <2>4, <2>5 DEF HWInv
<1> QED  BY <1>1, HWGetCourseListKeeps, HWRangeKeeps, HWVisitDepKeeps, HWLeaveKeeps, HWReturnKeeps
         DEF HWNext

\* Whatever the graph and whatever the prerequisites, the walks of distbuild and of
\* hogwarts put what is needed before what needs it.
THEOREM NeedsComeFirst == Spec => []DependenciesComeFirst
<1>1. Init => HWInv /\ TSInv
  BY HWInitInv, TSInitInv DEF Init
<1>2. HWInv /\ TSInv /\ [Next]_vars => HWInv' /\ TSInv'
  BY AlgorithmSteps, HWInvariance, TSInvariance
<1>3. HWInv /\ TSInv => DependenciesComeFirst
  BY TSInvImplies DEF DependenciesComeFirst, HWInv
<1> QED  BY <1>1, <1>2, <1>3, PTL DEF Spec
-----------------------------------------------------------------------------
(* LRUCache: the list holds the keys that the history knows, in the order  *)
(* of their accesses.                                                      *)

LRUEntry == [key : LRUKeys, value : LRUValues]
LRUKnown == {k \in LRUKeys : lruUsed[k] > 0}

LRUTypeOK ==
  /\ lruCapacity \in Int /\ lruOps \in Nat
  /\ lruList \in Seq(LRUEntry)
  /\ lruUsed \in [LRUKeys -> Nat] /\ \A k \in LRUKeys : lruUsed[k] <= lruOps
  /\ lruValue \in [LRUKeys -> LRUValues \union {0}]

LRUMapSound ==
  /\ DOMAIN lruCache = LRUKnown
  /\ \A k \in LRUKnown : lruCache[k] \in 1..Len(lruList) /\ lruList[lruCache[k]].key = k

LRUListSound ==
  /\ \A i, j \in 1..Len(lruList) : i < j => lruUsed[lruList[i].key] < lruUsed[lruList[j].key]
  /\ \A i \in 1..Len(lruList) : /\ lruList[i].key \in LRUKnown
                                /\ lruList[i].value = lruValue[lruList[i].key]
  /\ IF lruCapacity > 0 THEN Len(lruList) <= lruCapacity ELSE Len(lruList) = 0

LRUInv == LRUTypeOK /\ LRUMapSound /\ LRUListSound

\* The elements of a set that come after one of it, after one that is not the first,
\* and after the first.
LEMMA LaterElements ==
  ASSUME NEW K, IsFiniteSet(K), NEW u, \A k \in K : u[k] \in Nat, NEW k \in K,
         NEW later, later = {j \in K : u[j] > u[k]}
  PROVE  /\ Cardinality(later) \in Nat /\ Cardinality(K) \in Nat
         /\ Cardinality(later) <= Cardinality(K) - 1
         /\ (\E o \in K : u[o] < u[k]) => Cardinality(later) <= Cardinality(K) - 2
         /\ (\A o \in K : o # k => u[k] < u[o]) => Cardinality(later) = Cardinality(K) - 1
<1>1. /\ IsFiniteSet(K \ {k}) /\ Cardinality(K \ {k}) = Cardinality(K) - 1
      /\ Cardinality(K) \in Nat
  BY FS_RemoveElement, FS_CardinalityType
<1>2. later \subseteq K \ {k}
  OBVIOUS
<1>3. /\ IsFiniteSet(later) /\ Cardinality(later) \in Nat
      /\ Cardinality(later) <= Cardinality(K) - 1
  BY <1>1, <1>2, FS_Subset, FS_CardinalityType
<1>4. ASSUME NEW o \in K, u[o] < u[k] PROVE Cardinality(later) <= Cardinality(K) - 2
  <2>1. o \in K \ {k} /\ later \subseteq (K \ {k}) \ {o}
    BY <1>4
  <2>2. /\ IsFiniteSet((K \ {k}) \ {o})
        /\ Cardinality((K \ {k}) \ {o}) = (Cardinality(K) - 1) - 1
    BY <1>1, <2>1, FS_RemoveElement
  <2>3. Cardinality(later) <= (Cardinality(K) - 1) - 1
    BY <2>1, <2>2, FS_Subset
  <2> QED  BY <1>1, <1>3, <2>3
<1>5. ASSUME \A o \in K : o # k => u[k] < u[o] PROVE Cardinality(later) = Cardinality(K) - 1
  <2>1. later = K \ {k}
    BY <1>5
  <2> QED  BY <1>1, <2>1
<1> QED  BY <1>1, <1>3, <1>4, <1>5

LEMMA LRUTypes ==
  ASSUME LRUInv
  PROVE  /\ DOMAIN lruList = 1..Len(lruList) /\ Len(lruList) \in Nat
         /\ \A i \in 1..Len(lruList) : /\ lruList[i] = [key |-> lruList[i].key, value |-> lruList[i].value]
                                       /\ lruList[i].key \in LRUKeys /\ lruList[i].value \in LRUValues
         /\ \A i, j \in 1..Len(lruList) : lruList[i].key = lruList[j].key => i = j
         /\ LRUKnown = {lruList[i].key : i \in 1..Len(lruList)}
         /\ IsFiniteSet(LRUKnown) /\ Cardinality(LRUKnown) = Len(lruList)
<1>0. PICK n : n = Len(lruList)
  OBVIOUS
<1>1. lruList \in Seq(LRUEntry)
  BY DEF LRUInv, LRUTypeOK
<1>2. DOMAIN lruList = 1..n /\ n \in Nat /\ \A i \in 1..n : lruList[i] \in LRUEntry
  BY <1>0, <1>1, ElementOfSeq, LenProperties
<1>3. \A i \in 1..n : /\ lruList[i] = [key |-> lruList[i].key, value |-> lruList[i].value]
                      /\ lruList[i].key \in LRUKeys /\ lruList[i].value \in LRUValues
  BY <1>2 DEF LRUEntry
<1>4. \A i, j \in 1..n : lruList[i].key = lruList[j].key => i = j
  <2> SUFFICES ASSUME NEW i \in 1..n, NEW j \in 1..n, lruList[i].key = lruList[j].key, i < j
               PROVE  FALSE
    BY <1>2
  <2>1. lruUsed[lruList[i].key] < lruUsed[lruList[j].key] /\ lruUsed[lruList[i].key] \in Nat
    BY <1>0, <1>3 DEF LRUInv, LRUListSound, LRUTypeOK
  <2> QED  BY <2>1
<1>5. LRUKnown = {lruList[i].key : i \in 1..n}
  <2>1. \A i \in 1..n : lruList[i].key \in LRUKnown
    BY <1>0 DEF LRUInv, LRUListSound
  <2>2. \A k \in LRUKnown : lruCache[k] \in 1..n /\ lruList[lruCache[k]].key = k
    BY <1>0 DEF LRUInv, LRUMapSound
  <2> QED  BY <2>1, <2>2
<1>6. IsFiniteSet(LRUKnown) /\ Cardinality(LRUKnown) = n
  <2> DEFINE f == [i \in 1..n |-> lruList[i].key]
  <2>1. f \in Bijection(1..n, LRUKnown)
    <3>1. f \in [1..n -> LRUKnown]
      BY <1>5
    <3>2. \A i, j \in 1..n : f[i] = f[j] => i = j
      BY <1>4
    <3>3. \A k \in LRUKnown : \E i \in 1..n : f[i] = k
      BY <1>5
    <3> HIDE DEF f
    <3> QED  BY <3>1, <3>2, <3>3 DEF Bijection, Injection, Surjection, IsInjective
  <2>2. ExistsBijection(1..n, LRUKnown)
    BY <2>1 DEF ExistsBijection
  <2>3. LRUKnown \in SUBSET LRUKeys
    BY DEF LRUKnown
  <2>4. IsFiniteSet(LRUKnown)
    BY <2>3, LRUAssumption, FS_Subset
  <2> QED  BY <1>2, <2>2, <2>4, FS_CountingElements
<1> QED  BY <1>0, <1>2, <1>3, <1>4, <1>5, <1>6

LEMMA LRUInitInv == LRUInit => LRUInv
<1> SUFFICES ASSUME LRUInit PROVE LRUInv
  OBVIOUS
<1>1. /\ lruCapacity \in LRUCapacities /\ lruList = <<>> /\ lruCache = <<>> /\ lruOps = 0
      /\ lruUsed = [k \in LRUKeys |-> 0] /\ lruValue = [k \in LRUKeys |-> 0]
  BY DEF LRUInit
<1>2. LRUTypeOK
  <2>1. lruList \in Seq(LRUEntry)
    BY <1>1, EmptySeq
  <2> QED  BY <1>1, <2>1, LRUAssumption DEF LRUTypeOK
<1>3. LRUKnown = {} /\ Len(lruList) = 0 /\ DOMAIN lruCache = {}
  <2>1. \A k \in LRUKeys : ~(lruUsed[k] > 0)
    BY <1>1
  <2>2. Len(lruList) = 0 /\ DOMAIN lruCache = {}
    BY <1>1
  <2> QED  BY <2>1, <2>2 DEF LRUKnown
<1>4. LRUListSound /\ LRUMapSound
  BY <1>2, <1>3 DEF LRUListSound, LRUMapSound, LRUTypeOK
<1> QED  BY <1>2, <1>4 DEF LRUInv

\* A list with the element of a key behind the others.
LRUTouched(list, key) ==
  /\ list \in Seq(LRUEntry) /\ Len(list) = Len(lruList) /\ list[Len(lruList)].key = key
  /\ \A i \in 1..Len(lruList) - 1 :
       list[i] = IF i < lruCache[key] THEN lruList[i] ELSE lruList[i + 1]

\* An access of a key that is known, by Get or by Set, which gives it a value.
LEMMA LRUHitKeeps ==
  ASSUME LRUInv, LRUCall, NEW key \in LRUKnown, NEW list, LRUTouched(list, key),
         lruList' = list, lruCache' = LRUPlacesMoved(key),
         lruUsed' = [lruUsed EXCEPT ![key] = lruOps + 1],
         NEW v \in LRUValues \union {0}, list[Len(lruList)].value = v,
         lruValue' = [lruValue EXCEPT ![key] = v]
  PROVE  LRUInv'
<1>0. PICK n, p : n = Len(lruList) /\ p = lruCache[key]
  OBVIOUS
<1>16. /\ lruList' \in Seq(LRUEntry) /\ Len(lruList') = n
       /\ \A i \in 1..n - 1 : lruList'[i] = IF i < p THEN lruList[i] ELSE lruList[i + 1]
       /\ lruList'[n].key = key /\ lruList'[n].value = v
  BY <1>0 DEF LRUTouched
<1>17. /\ lruValue' \in [LRUKeys -> LRUValues \union {0}] /\ lruValue'[key] = v
       /\ \A k \in LRUKeys : k # key => lruValue'[k] = lruValue[k]
  BY DEF LRUInv, LRUTypeOK, LRUKnown
<1>1. lruOps' = lruOps + 1 /\ lruCapacity' = lruCapacity
  BY DEF LRUCall
<1>2. /\ n \in Nat /\ p \in 1..n /\ lruList[p].key = key /\ key \in LRUKeys /\ lruOps \in Nat
      /\ \A k \in LRUKeys : lruUsed[k] \in Nat /\ lruUsed[k] <= lruOps
  BY <1>0, LRUTypes DEF LRUInv, LRUTypeOK, LRUMapSound, LRUKnown
<1>3. /\ \A i, j \in 1..n : lruList[i].key = lruList[j].key => i = j
      /\ \A i \in 1..n : lruList[i].key \in LRUKeys
      /\ LRUKnown = {lruList[i].key : i \in 1..n}
  BY <1>0, LRUTypes
<1>4. \A k \in LRUKeys : lruUsed'[k] = IF k = key THEN lruOps + 1 ELSE lruUsed[k]
  BY DEF LRUInv, LRUTypeOK
<1>5. /\ \A i, j \in 1..n : i < j => lruUsed[lruList[i].key] < lruUsed[lruList[j].key]
      /\ \A i \in 1..n : /\ lruList[i].key \in LRUKnown
                         /\ lruList[i].value = lruValue[lruList[i].key]
      /\ IF lruCapacity > 0 THEN n <= lruCapacity ELSE n = 0
  BY <1>0 DEF LRUInv, LRUListSound
<1> DEFINE old == [i \in 1..n - 1 |-> IF i < p THEN i ELSE i + 1]
<1>6. ASSUME NEW i \in 1..n - 1
      PROVE  /\ old[i] \in 1..n /\ old[i] # p /\ lruList'[i] = lruList[old[i]]
             /\ lruList[old[i]].key # key
  <2>1. old[i] = IF i < p THEN i ELSE i + 1
    OBVIOUS
  <2>2. old[i] \in 1..n /\ old[i] # p
    BY <1>2, <2>1
  <2>3. lruList'[i] = lruList[old[i]]
    BY <1>16, <2>1
  <2> QED  BY <1>2, <1>3, <2>2, <2>3
<1>7. ASSUME NEW i \in 1..n - 1, NEW j \in 1..n - 1, i < j PROVE old[i] < old[j]
  BY <1>2, <1>7
<1> HIDE DEF old
<1>9. \A i \in 1..n : i \in 1..n - 1 \/ i = n
  BY <1>2
<1>10. n \in 1..n /\ \A i \in 1..n - 1 : i \in 1..n /\ i < n
  BY <1>2
<1>11. LRUTypeOK'
  <2>1. lruUsed' \in [LRUKeys -> Nat]
    BY <1>2, <1>4 DEF LRUInv, LRUTypeOK
  <2>2. \A k \in LRUKeys : lruUsed'[k] <= lruOps + 1
    BY <1>2, <1>4
  <2>3. lruCapacity' \in Int /\ lruOps' \in Nat
    BY <1>1 DEF LRUInv, LRUTypeOK
  <2> QED  BY <1>1, <1>16, <1>17, <2>1, <2>2, <2>3 DEF LRUTypeOK
<1>12. \A k \in LRUKeys : lruUsed'[k] > 0 <=> k \in LRUKnown
  BY <1>2, <1>4 DEF LRUKnown
<1>13. LRUKnown' = LRUKnown
  BY <1>12 DEF LRUKnown
<1>14. LRUListSound'
  <2>1. ASSUME NEW i \in 1..n, NEW j \in 1..n, i < j
        PROVE  lruUsed'[lruList'[i].key] < lruUsed'[lruList'[j].key]
    <3>1. i \in 1..n - 1
      BY <1>2, <2>1
    <3>2. lruUsed'[lruList'[i].key] = lruUsed[lruList[old[i]].key]
      BY <1>3, <1>4, <1>6, <3>1
    <3>3. CASE j = n
      BY <1>2, <1>3, <1>4, <1>6, <1>16, <3>1, <3>2, <3>3
    <3>4. CASE j \in 1..n - 1
      <4>1. lruUsed'[lruList'[j].key] = lruUsed[lruList[old[j]].key]
        BY <1>3, <1>4, <1>6, <3>4
      <4>2. old[i] < old[j] /\ old[i] \in 1..n /\ old[j] \in 1..n
        BY <1>6, <1>7, <2>1, <3>1, <3>4
      <4> QED  BY <1>5, <3>2, <4>1, <4>2
    <3> QED  BY <1>9, <3>3, <3>4
  <2>2. ASSUME NEW i \in 1..n
        PROVE  lruList'[i].key \in LRUKnown /\ lruList'[i].value = lruValue'[lruList'[i].key]
    <3>1. CASE i = n
      BY <1>16, <1>17, <3>1
    <3>2. CASE i \in 1..n - 1
      <4>1. lruList'[i] = lruList[old[i]] /\ old[i] \in 1..n /\ lruList[old[i]].key # key
        BY <1>6, <3>2
      <4>2. /\ lruList[old[i]].key \in LRUKnown /\ lruList[old[i]].key \in LRUKeys
            /\ lruList[old[i]].value = lruValue[lruList[old[i]].key]
        BY <1>3, <1>5, <4>1
      <4> QED  BY <1>17, <4>1, <4>2
    <3> QED  BY <1>9, <3>1, <3>2
  <2> QED  BY <1>1, <1>5, <1>13, <1>16, <2>1, <2>2 DEF LRUListSound
<1>15. LRUMapSound'
  <2>1. /\ DOMAIN lruCache = LRUKnown
        /\ \A k \in LRUKnown : lruCache[k] \in 1..n /\ lruList[lruCache[k]].key = k
    BY <1>0 DEF LRUInv, LRUMapSound
  <2>2. /\ DOMAIN lruCache' = LRUKnown
        /\ \A k \in LRUKnown :
             lruCache'[k] = IF lruCache[k] = p THEN n
                            ELSE IF lruCache[k] > p THEN lruCache[k] - 1 ELSE lruCache[k]
    BY <1>0, <2>1 DEF LRUPlacesMoved
  <2>3. ASSUME NEW k \in LRUKnown
        PROVE  lruCache'[k] \in 1..n /\ lruList'[lruCache'[k]].key = k
    <3>1. PICK i \in 1..n : i = lruCache[k] /\ lruList[i].key = k
      BY <2>1
    <3>2. CASE i = p
      BY <1>2, <1>10, <1>16, <2>2, <3>1, <3>2
    <3>3. CASE i < p
      <4>1. lruCache'[k] = i /\ i \in 1..n - 1
        BY <1>2, <2>2, <3>1, <3>3
      <4> QED  BY <1>16, <3>1, <3>3, <4>1
    <3>4. CASE i > p
      <4>1. PICK j : j = i - 1
        OBVIOUS
      <4>2. lruCache'[k] = j /\ j \in 1..n - 1 /\ ~(j < p) /\ j + 1 = i
        BY <1>2, <2>2, <3>1, <3>4, <4>1
      <4>3. lruList'[j] = lruList[i]
        BY <1>16, <4>2
      <4> QED  BY <1>10, <3>1, <4>2, <4>3
    <3> QED  BY <1>2, <3>2, <3>3, <3>4
  <2> QED  BY <1>13, <1>16, <2>2, <2>3 DEF LRUMapSound
<1> QED  BY <1>11, <1>14, <1>15 DEF LRUInv

LEMMA LRUMovedShape ==
  ASSUME LRUInv, NEW key \in LRUKnown
  PROVE  /\ LRUTouched(LRUMoved(key), key)
         /\ LRUMoved(key)[Len(lruList)] = lruList[lruCache[key]]
         /\ Len(lruList) \in Nat \ {0} /\ Len(LRUMoved(key)) = Len(lruList)
         /\ LRUMoved(key) \in Seq(LRUEntry)
         /\ lruList[lruCache[key]].key = key
         /\ lruList[lruCache[key]].value = lruValue[key]
<1>0. PICK p, list : p = lruCache[key] /\ list = LRUMoved(key)
  OBVIOUS
<1>1. /\ p \in 1..Len(lruList) /\ lruList[p].key = key /\ lruList \in Seq(LRUEntry)
      /\ lruList[p].value = lruValue[key] /\ Len(lruList) \in Nat
  BY <1>0, LRUTypes DEF LRUInv, LRUMapSound, LRUTypeOK, LRUListSound
<1>2. list = Append(RemoveAt(lruList, p), lruList[p])
  BY <1>0 DEF LRUMoved
<1>3. /\ list \in Seq(LRUEntry) /\ Len(list) = Len(lruList) /\ list[Len(lruList)] = lruList[p]
      /\ \A i \in 1..Len(lruList) - 1 : list[i] = IF i < p THEN lruList[i] ELSE lruList[i + 1]
  BY <1>1, <1>2, MovedShape
<1> QED  BY <1>0, <1>1, <1>3 DEF LRUTouched

LEMMA LRUGetKeeps ==
  ASSUME LRUInv, NEW key \in LRUKeys, LRUGet(key)
  PROVE  LRUInv'
<1>1. /\ LRUCall /\ lruOps' = lruOps + 1 /\ lruCapacity' = lruCapacity /\ lruValue' = lruValue
      /\ lruUsed' = [lruUsed EXCEPT ![key] = IF @ = 0 THEN 0 ELSE lruOps + 1]
  BY DEF LRUGet, LRUCall
<1>2. DOMAIN lruCache = LRUKnown
  BY DEF LRUInv, LRUMapSound
<1>3. \A k \in LRUKeys : lruUsed[k] \in Nat
  BY DEF LRUInv, LRUTypeOK
<1>4. CASE key \notin DOMAIN lruCache
  <2>1. lruList' = lruList /\ lruCache' = lruCache
    BY <1>4 DEF LRUGet
  <2>2. lruUsed[key] = 0
    BY <1>2, <1>3, <1>4 DEF LRUKnown
  <2>3. lruUsed' = lruUsed
    BY <1>1, <2>2 DEF LRUInv, LRUTypeOK
  <2>4. LRUTypeOK'
    BY <1>1, <2>1, <2>3 DEF LRUInv, LRUTypeOK
  <2> QED  BY <1>1, <2>1, <2>3, <2>4 DEF LRUInv, LRUMapSound, LRUListSound, LRUKnown
<1>5. CASE key \in DOMAIN lruCache
  <2>1. lruList' = LRUMoved(key) /\ lruCache' = LRUPlacesMoved(key)
    BY <1>5 DEF LRUGet
  <2>2. key \in LRUKnown /\ lruUsed[key] # 0
    BY <1>2, <1>5 DEF LRUKnown
  <2>3. PICK list : list = LRUMoved(key)
    OBVIOUS
  <2>4. LRUTouched(list, key) /\ list[Len(lruList)].value = lruValue[key]
    BY <2>2, <2>3, LRUMovedShape
  <2>5. lruUsed' = [lruUsed EXCEPT ![key] = lruOps + 1]
    BY <1>1, <2>2
  <2>6. lruValue' = [lruValue EXCEPT ![key] = lruValue[key]] /\ lruValue[key] \in LRUValues \union {0}
    BY <1>1 DEF LRUInv, LRUTypeOK
  <2>7. lruList' = list /\ lruCache' = LRUPlacesMoved(key)
    BY <2>1, <2>3
  <2> QED  BY <1>1, <2>2, <2>4, <2>5, <2>6, <2>7, LRUHitKeeps
<1> QED  BY <1>4, <1>5

\* A list without its first q elements and with one more, and the map and the accesses
\* that go with it.
LRUPushed(list, q, key) ==
  /\ list \in Seq(LRUEntry) /\ Len(list) = (Len(lruList) - q) + 1
  /\ \A i \in 1..Len(lruList) - q : list[i] = lruList[i + q]
  /\ list[Len(list)].key = key

LRUPlacesFit(places, q, key) ==
  /\ DOMAIN places = {k \in LRUKnown : ~(q = 1 /\ k = lruList[1].key)} \union {key}
  /\ places[key] = (Len(lruList) - q) + 1
  /\ \A k \in DOMAIN places : k # key => places[k] = lruCache[k] - q

LRUForgot(used, q, key) ==
  /\ used \in [LRUKeys -> Nat] /\ used[key] = lruOps + 1
  /\ \A k \in LRUKeys : k # key =>
       used[k] = IF q = 1 /\ k = lruList[1].key THEN 0 ELSE lruUsed[k]

\* A Set of a key that is not known, with the first entry out of the list or not.
LEMMA LRUMissKeeps ==
  ASSUME LRUInv, LRUCall, NEW key \in LRUKeys, key \notin LRUKnown,
         NEW q \in 0..1, q <= Len(lruList), lruCapacity > 0, (Len(lruList) - q) + 1 <= lruCapacity,
         NEW list, LRUPushed(list, q, key), lruList' = list, LRUPlacesFit(lruCache', q, key),
         LRUForgot(lruUsed', q, key),
         NEW v \in LRUValues \union {0}, list[Len(list)].value = v,
         lruValue' = [lruValue EXCEPT ![key] = v]
  PROVE  LRUInv'
<1>0. PICK n, used, value : n = Len(lruList) /\ used = lruUsed' /\ value = lruValue'
  OBVIOUS
<1>1. lruOps' = lruOps + 1 /\ lruCapacity' = lruCapacity
  BY DEF LRUCall
<1>2. n \in Nat /\ q \in Nat /\ lruOps \in Nat /\ \A k \in LRUKeys : lruUsed[k] \in Nat /\ lruUsed[k] <= lruOps
  BY <1>0, LRUTypes DEF LRUInv, LRUTypeOK
<1>3. /\ \A i, j \in 1..n : lruList[i].key = lruList[j].key => i = j
      /\ \A i \in 1..n : lruList[i].key \in LRUKeys /\ lruList[i].key # key
      /\ LRUKnown = {lruList[i].key : i \in 1..n}
  <2>1. /\ \A i, j \in 1..n : lruList[i].key = lruList[j].key => i = j
        /\ \A i \in 1..n : lruList[i].key \in LRUKeys
        /\ LRUKnown = {lruList[i].key : i \in 1..n}
    BY <1>0, LRUTypes
  <2>2. \A i \in 1..n : lruList[i].key \in LRUKnown
    BY <2>1
  <2> QED  BY <2>1, <2>2
<1>5. /\ \A i, j \in 1..n : i < j => lruUsed[lruList[i].key] < lruUsed[lruList[j].key]
      /\ \A i \in 1..n : /\ lruList[i].key \in LRUKnown
                         /\ lruList[i].value = lruValue[lruList[i].key]
  BY <1>0 DEF LRUInv, LRUListSound
<1>6. PICK m : m = (n - q) + 1
  OBVIOUS
<1>4. /\ list \in Seq(LRUEntry) /\ Len(list) = m /\ list[m].key = key /\ list[m].value = v
      /\ \A i \in 1..n - q : list[i] = lruList[i + q]
  BY <1>0, <1>6 DEF LRUPushed
<1>13. /\ used \in [LRUKeys -> Nat] /\ used[key] = lruOps + 1
       /\ \A k \in LRUKeys : k # key =>
            used[k] = IF q = 1 /\ k = lruList[1].key THEN 0 ELSE lruUsed[k]
  BY <1>0 DEF LRUForgot
<1>14. /\ value \in [LRUKeys -> LRUValues \union {0}] /\ value[key] = v
       /\ \A k \in LRUKeys : k # key => value[k] = lruValue[k]
  BY <1>0 DEF LRUInv, LRUTypeOK
<1>7. /\ m \in Nat \ {0} /\ m \in 1..m /\ m - 1 = n - q /\ \A i \in 1..m : i \in 1..n - q \/ i = m
      /\ \A i \in 1..n - q : i \in 1..m /\ i < m /\ i + q \in 1..n /\ (q = 1 => i + q # 1)
  <2>1. n - q \in Nat /\ m = (n - q) + 1
    BY <1>0, <1>2, <1>6
  <2>2. PICK h : h = n - q
    OBVIOUS
  <2>3. m \in Nat \ {0} /\ m \in 1..m /\ m - 1 = h /\ \A i \in 1..m : i \in 1..h \/ i = m
    BY <2>1, <2>2
  <2>4. \A i \in 1..h : i \in 1..m /\ i < m
    BY <2>1, <2>2
  <2>5. \A i \in 1..h : i + q \in 1..n /\ (q = 1 => i + q # 1)
    BY <1>2, <2>2
  <2> QED  BY <2>2, <2>3, <2>4, <2>5
<1>8. ASSUME NEW i \in 1..n - q
      PROVE  /\ list[i] = lruList[i + q] /\ list[i].key # key
             /\ list[i].key \in LRUKnown
             /\ used[list[i].key] = lruUsed[lruList[i + q].key]
  <2>1. q = 1 => 1 \in 1..n /\ lruList[i + q].key # lruList[1].key
    BY <1>2, <1>3, <1>7
  <2>2. list[i] = lruList[i + q] /\ i + q \in 1..n
    BY <1>4, <1>7
  <2>3. /\ lruList[i + q].key # key /\ lruList[i + q].key \in LRUKeys
        /\ lruList[i + q].key \in LRUKnown
    BY <1>3, <1>5, <2>2
  <2>4. ~(q = 1 /\ lruList[i + q].key = lruList[1].key)
    BY <2>1
  <2> QED  BY <1>13, <2>2, <2>3, <2>4
<1>9. LRUTypeOK'
  <2>1. \A k \in LRUKeys : used[k] <= lruOps + 1
    BY <1>2, <1>13
  <2>2. lruCapacity' \in Int /\ lruOps' \in Nat
    BY <1>1 DEF LRUInv, LRUTypeOK
  <2> QED  BY <1>0, <1>1, <1>4, <1>13, <1>14, <2>1, <2>2 DEF LRUTypeOK
<1>10. \A k \in LRUKnown : k \in LRUKeys /\ lruUsed[k] > 0
  BY DEF LRUKnown
<1>11. LRUListSound'
  <2>1. ASSUME NEW i \in 1..m, NEW j \in 1..m, i < j
        PROVE  used[list[i].key] < used[list[j].key]
    <3>1. i \in 1..n - q
      BY <1>7, <2>1
    <3>2. CASE j = m
      <4>1. lruUsed[lruList[i + q].key] \in Nat /\ lruUsed[lruList[i + q].key] <= lruOps
        BY <1>2, <1>3, <1>7, <3>1
      <4> QED  BY <1>2, <1>4, <1>8, <1>13, <3>1, <3>2, <4>1
    <3>3. CASE j \in 1..n - q
      <4>1. i + q < j + q /\ i + q \in 1..n /\ j + q \in 1..n
        BY <1>2, <1>7, <2>1, <3>1, <3>3
      <4> QED  BY <1>5, <1>8, <3>1, <3>3, <4>1
    <3> QED  BY <1>7, <3>2, <3>3
  <2>2. ASSUME NEW i \in 1..m
        PROVE  list[i].key \in LRUKeys /\ used[list[i].key] > 0 /\ list[i].value = value[list[i].key]
    <3>1. CASE i = m
      <4>1. used[key] > 0
        BY <1>2, <1>13
      <4> QED  BY <1>4, <1>14, <3>1, <4>1
    <3>2. CASE i \in 1..n - q
      <4>1. PICK k : k = list[i].key
        OBVIOUS
      <4>2. /\ k # key /\ k \in LRUKnown /\ used[k] = lruUsed[lruList[i + q].key]
            /\ list[i] = lruList[i + q] /\ i + q \in 1..n
        BY <1>7, <1>8, <3>2, <4>1
      <4>3. k \in LRUKeys /\ used[k] > 0
        BY <1>10, <4>1, <4>2
      <4>4. list[i].value = value[k]
        BY <1>5, <1>14, <4>1, <4>2, <4>3
      <4> QED  BY <4>1, <4>3, <4>4
    <3> QED  BY <1>7, <3>1, <3>2
  <2>3. /\ Len(list) = m /\ m <= lruCapacity /\ lruList' = list /\ lruUsed' = used /\ lruValue' = value
    BY <1>0, <1>4, <1>6
  <2>4. \A i \in 1..m : list[i].key \in LRUKnown'
    BY <2>2, <2>3 DEF LRUKnown
  <2> QED  BY <1>1, <2>1, <2>2, <2>3, <2>4 DEF LRUListSound
<1>12. LRUMapSound'
  <2>1. PICK places : places = lruCache'
    OBVIOUS
  <2>2. /\ DOMAIN places = {k \in LRUKnown : ~(q = 1 /\ k = lruList[1].key)} \union {key}
        /\ places[key] = m
        /\ \A k \in DOMAIN places : k # key => places[k] = lruCache[k] - q
    BY <1>0, <1>6, <2>1 DEF LRUPlacesFit
  <2>3. \A k \in LRUKnown : lruCache[k] \in 1..n /\ lruList[lruCache[k]].key = k
    BY <1>0 DEF LRUInv, LRUMapSound
  <2>4. ASSUME NEW k \in LRUKeys
        PROVE  used[k] > 0 <=> k \in DOMAIN places
    <3>1. CASE k = key
      BY <1>2, <1>13, <2>2, <3>1
    <3>2. CASE k # key
      <4>1. used[k] = IF q = 1 /\ k = lruList[1].key THEN 0 ELSE lruUsed[k]
        BY <1>13, <3>2
      <4>2. k \in LRUKnown <=> lruUsed[k] > 0
        BY DEF LRUKnown
      <4> QED  BY <2>2, <3>2, <4>1, <4>2
    <3> QED  BY <3>1, <3>2
  <2>5. DOMAIN places = LRUKnown'
    <3>1. \A k \in DOMAIN places : k \in LRUKeys
      BY <1>10, <2>2
    <3> QED  BY <1>0, <2>4, <3>1 DEF LRUKnown
  <2>6. ASSUME NEW k \in DOMAIN places
        PROVE  places[k] \in 1..m /\ list[places[k]].key = k
    <3>1. CASE k = key
      BY <1>4, <1>7, <2>2, <3>1
    <3>2. CASE k # key
      <4>1. k \in LRUKnown /\ ~(q = 1 /\ k = lruList[1].key) /\ places[k] = lruCache[k] - q
        BY <2>2, <3>2
      <4>2. PICK i \in 1..n : i = lruCache[k] /\ lruList[i].key = k
        BY <2>3, <4>1
      <4>3. i - q \in 1..n - q /\ (i - q) + q = i
        <5>1. q = 1 => i # 1
          BY <4>1, <4>2
        <5>2. q \in 0..1 /\ n \in Nat
          BY <1>2
        <5> QED  BY <4>2, <5>1, <5>2
      <4>4. list[i - q].key = k
        BY <1>4, <4>2, <4>3
      <4> QED  BY <1>7, <4>1, <4>2, <4>3, <4>4
    <3> QED  BY <3>1, <3>2
  <2>7. lruList' = list /\ Len(list) = m
    BY <1>4
  <2> QED  BY <2>1, <2>5, <2>6, <2>7 DEF LRUMapSound
<1> QED  BY <1>9, <1>11, <1>12 DEF LRUInv

\* The keys that a Set leaves in the history, those in the list until it but for the
\* oldest of a list that is full.
LRUKept(key) == LRUKnown \union {key}
LRUAfter(key) == [lruUsed EXCEPT ![key] = lruOps + 1]

LEMMA LRURemembered ==
  ASSUME LRUInv, LRUCall, NEW key \in LRUKeys, NEW value \in LRUValues, LRURemember(key, value)
  PROVE  /\ lruUsed' \in [LRUKeys -> Nat]
         /\ \A k \in LRUKeys : k \notin LRUKept(key) => lruUsed'[k] = 0
         /\ \A k \in LRUKept(key) :
              LET later == {j \in LRUKept(key) : LRUAfter(key)[j] > LRUAfter(key)[k]} IN
              lruUsed'[k] = IF Cardinality(later) < lruCapacity THEN LRUAfter(key)[k] ELSE 0
         /\ IsFiniteSet(LRUKept(key)) /\ \A k \in LRUKept(key) : LRUAfter(key)[k] \in Nat
         /\ Cardinality(LRUKept(key)) =
              IF key \in LRUKnown THEN Len(lruList) ELSE Len(lruList) + 1
<1> DEFINE u == LRUAfter(key)
           K == LRUKept(key)
           later(k) == {j \in K : u[j] > u[k]}
<1>1. /\ lruOps \in Nat /\ u = [lruUsed EXCEPT ![key] = lruOps + 1]
      /\ \A k \in LRUKeys : lruUsed[k] \in Nat /\ u[k] = IF k = key THEN lruOps + 1 ELSE lruUsed[k]
  BY DEF LRUInv, LRUTypeOK, LRUAfter
<1>2. \A k \in LRUKeys : u[k] \in Nat
  BY <1>1
<1>3. K = {k \in LRUKeys : u[k] > 0}
  BY <1>1 DEF LRUKept, LRUKnown
<1>4. lruUsed' = [k \in LRUKeys |-> IF Cardinality({j \in {l \in LRUKeys : u[l] > 0} : u[j] > u[k]})
                                          < lruCapacity THEN u[k] ELSE 0]
  BY DEF LRURemember, LRUCall, LRUAfter
<1>5. IsFiniteSet(K) /\ Cardinality(K) = IF key \in LRUKnown THEN Len(lruList) ELSE Len(lruList) + 1
  BY LRUTypes, FS_AddElement DEF LRUKept
<1>6. \A k \in LRUKeys : lruUsed'[k] = IF Cardinality(later(k)) < lruCapacity THEN u[k] ELSE 0
  BY <1>3, <1>4
<1>7. \A k \in K : k \in LRUKeys
  BY <1>3
<1>8. \A k \in LRUKeys : k \notin K => u[k] = 0
  BY <1>2, <1>3
<1>9. lruUsed' \in [LRUKeys -> Nat]
  BY <1>2, <1>4
<1> QED  BY <1>2, <1>5, <1>6, <1>7, <1>8, <1>9

LEMMA LRUSetKeeps ==
  ASSUME LRUInv, NEW key \in LRUKeys, NEW value \in LRUValues, LRUSet(key, value)
  PROVE  LRUInv'
<1>0. PICK n, K, u : n = Len(lruList) /\ K = LRUKept(key) /\ u = LRUAfter(key)
  OBVIOUS
<1> DEFINE later(k) == {j \in K : u[j] > u[k]}
<1>1. /\ LRUCall /\ LRURemember(key, value)
      /\ lruOps' = lruOps + 1 /\ lruCapacity' = lruCapacity
      /\ lruValue' = [lruValue EXCEPT ![key] = value]
  BY DEF LRUSet, LRUCall, LRURemember
<1>2. /\ lruUsed' \in [LRUKeys -> Nat] /\ IsFiniteSet(K) /\ \A k \in K : u[k] \in Nat
      /\ \A k \in LRUKeys : k \notin K => lruUsed'[k] = 0
      /\ \A k \in K : lruUsed'[k] = IF Cardinality(later(k)) < lruCapacity THEN u[k] ELSE 0
      /\ Cardinality(K) = IF key \in LRUKnown THEN n ELSE n + 1
  BY <1>0, <1>1, LRURemembered
<1>3. /\ n \in Nat /\ lruCapacity \in Int /\ lruOps \in Nat
      /\ \A k \in LRUKeys : lruUsed[k] \in Nat /\ lruUsed[k] <= lruOps
      /\ \A k \in LRUKeys : u[k] = IF k = key THEN lruOps + 1 ELSE lruUsed[k]
      /\ u \in [LRUKeys -> Nat] /\ u = [lruUsed EXCEPT ![key] = lruOps + 1]
  <2>1. /\ n \in Nat /\ lruCapacity \in Int /\ lruOps \in Nat /\ lruUsed \in [LRUKeys -> Nat]
        /\ \A k \in LRUKeys : lruUsed[k] \in Nat /\ lruUsed[k] <= lruOps
    BY <1>0, LRUTypes DEF LRUInv, LRUTypeOK
  <2> QED  BY <1>0, <2>1 DEF LRUAfter
<1>4. DOMAIN lruCache = LRUKnown /\ K = LRUKnown \union {key} /\ K \subseteq LRUKeys
  BY <1>0 DEF LRUInv, LRUMapSound, LRUKept, LRUKnown
<1>5. /\ lruValue' \in [LRUKeys -> LRUValues \union {0}] /\ lruValue'[key] = value
      /\ \A k \in LRUKeys : k # key => lruValue'[k] = lruValue[k]
  BY <1>1 DEF LRUInv, LRUTypeOK
<1>6. ASSUME NEW k \in K
      PROVE  /\ Cardinality(later(k)) \in Nat /\ Cardinality(later(k)) <= Cardinality(K) - 1
             /\ (\E o \in K : u[o] < u[k]) => Cardinality(later(k)) <= Cardinality(K) - 2
             /\ (\A o \in K : o # k => u[k] < u[o]) => Cardinality(later(k)) = Cardinality(K) - 1
  BY <1>2, LaterElements
<1> HIDE DEF later
<1>7. CASE lruCapacity <= 0
  <2>1. UNCHANGED <<lruList, lruCache>>
    BY <1>3, <1>7 DEF LRUSet
  <2>2. n = 0
    BY <1>0, <1>3, <1>7 DEF LRUInv, LRUListSound
  <2>3. \A k \in K : ~(Cardinality(later(k)) < lruCapacity)
    BY <1>3, <1>6, <1>7
  <2>4. \A k \in LRUKeys : lruUsed'[k] = 0
    BY <1>2, <2>3
  <2>5. LRUTypeOK'
    BY <1>1, <1>2, <1>3, <1>5, <2>1, <2>4 DEF LRUInv, LRUTypeOK
  <2>6. LRUKnown' = {} /\ LRUKnown = {}
    <3>1. LRUKnown' = {}
      BY <2>4 DEF LRUKnown
    <3> QED  BY <1>0, <2>2, <3>1, LRUTypes
  <2> QED  BY <1>0, <1>1, <1>4, <1>7, <2>1, <2>2, <2>5, <2>6 DEF LRUInv, LRUMapSound, LRUListSound
<1>8. CASE lruCapacity > 0 /\ key \in DOMAIN lruCache
  <2>1. /\ lruList' = [LRUMoved(key) EXCEPT ![Len(lruList)].value = value]
        /\ lruCache' = LRUPlacesMoved(key)
    BY <1>3, <1>8 DEF LRUSet
  <2>2. PICK list : list = LRUMoved(key)
    OBVIOUS
  <2>3. LRUTouched(list, key) /\ n \in 1..n /\ list[n].key = key /\ Len(list) = n
        /\ list \in Seq(LRUEntry)
    BY <1>0, <1>4, <1>8, <2>2, LRUMovedShape DEF LRUTouched
  <2>4. PICK e : e = [list[n] EXCEPT !.value = value]
    OBVIOUS
  <2>5. e \in LRUEntry /\ e.key = key /\ e.value = value
    <3>1. list[n] \in LRUEntry
      BY <2>3, ElementOfSeq
    <3> QED  BY <2>3, <2>4, <3>1 DEF LRUEntry
  <2>6. /\ lruList' \in Seq(LRUEntry) /\ Len(lruList') = n
        /\ \A i \in 1..n : lruList'[i] = IF i = n THEN e ELSE list[i]
    <3>1. lruList' = [list EXCEPT ![n] = e]
      BY <1>0, <2>1, <2>2, <2>4
    <3> QED  BY <2>3, <2>5, <3>1, ExceptSeq
  <2>7. LRUTouched(lruList', key) /\ lruList'[n].value = value
    <3>1. \A i \in 1..n - 1 : i \in 1..n /\ i # n
      BY <1>3
    <3>2. lruList'[n].key = key /\ lruList'[n].value = value
      BY <2>3, <2>5, <2>6
    <3>3. \A i \in 1..n - 1 : lruList'[i] = list[i]
      BY <2>6, <3>1
    <3>4. \A i \in 1..n - 1 : list[i] = IF i < lruCache[key] THEN lruList[i] ELSE lruList[i + 1]
      BY <1>0, <2>3 DEF LRUTouched
    <3>5. \A i \in 1..n - 1 : lruList'[i] = IF i < lruCache[key] THEN lruList[i] ELSE lruList[i + 1]
      BY <3>3, <3>4
    <3> QED  BY <1>0, <2>6, <3>2, <3>5 DEF LRUTouched
  <2>8. n <= lruCapacity
    BY <1>0, <1>8 DEF LRUInv, LRUListSound
  <2>9. lruUsed' = u
    <3>1. \A k \in K : Cardinality(later(k)) < lruCapacity
      BY <1>2, <1>3, <1>4, <1>6, <1>8, <2>8
    <3>2. \A k \in LRUKeys : k \notin K => u[k] = 0
      BY <1>3, <1>4 DEF LRUKnown
    <3>3. \A k \in LRUKeys : lruUsed'[k] = u[k]
      BY <1>2, <3>1, <3>2
    <3> QED  BY <1>2, <1>3, <3>3
  <2>10. PICK new : new = lruList'
    OBVIOUS
  <2>11. LRUTouched(new, key) /\ new[Len(lruList)].value = value /\ lruCache' = LRUPlacesMoved(key)
    BY <1>0, <2>1, <2>7, <2>10
  <2>12. key \in LRUKnown /\ value \in LRUValues \union {0}
    BY <1>4, <1>8
  <2> QED  BY <1>1, <1>3, <2>9, <2>10, <2>11, <2>12, LRUHitKeeps
<1>9. CASE lruCapacity > 0 /\ key \notin DOMAIN lruCache
  <2>1. /\ lruList' = Append(LRUEvicted, [key |-> key, value |-> value])
        /\ lruCache' = LRUPlaced(LRUPlacesLeft, key, Len(LRUEvicted) + 1)
    BY <1>3, <1>9 DEF LRUSet
  <2>2. PICK q : q = IF n >= lruCapacity THEN 1 ELSE 0
    OBVIOUS
  <2>3. /\ n <= lruCapacity /\ q \in 0..1 /\ q <= n /\ (n - q) + 1 <= lruCapacity
        /\ n - q \in Nat
    <3>1. n <= lruCapacity
      BY <1>0, <1>9 DEF LRUInv, LRUListSound
    <3> QED  BY <1>3, <1>9, <2>2, <3>1
  <2>4. /\ LRUEvicted \in Seq(LRUEntry) /\ Len(LRUEvicted) = n - q
        /\ \A i \in 1..n - q : LRUEvicted[i] = lruList[i + q]
    <3>1. lruList \in Seq(LRUEntry)
      BY DEF LRUInv, LRUTypeOK
    <3>2. CASE n >= lruCapacity
      <4>1. LRUEvicted = Tail(lruList) /\ q = 1 /\ lruList # <<>>
        BY <1>0, <1>3, <1>9, <2>2, <3>2 DEF LRUEvicted
      <4> QED  BY <1>0, <3>1, <4>1, HeadTailProperties
    <3>3. CASE ~(n >= lruCapacity)
      <4>1. LRUEvicted = lruList /\ q = 0
        BY <1>0, <2>2, <3>3 DEF LRUEvicted
      <4> QED  BY <1>0, <1>3, <3>1, <4>1
    <3> QED  BY <3>2, <3>3
  <2>5. /\ lruList' \in Seq(LRUEntry) /\ Len(lruList') = (n - q) + 1
        /\ \A i \in 1..n - q : lruList'[i] = lruList[i + q]
        /\ lruList'[(n - q) + 1] = [key |-> key, value |-> value]
    <3>1. [key |-> key, value |-> value] \in LRUEntry
      BY DEF LRUEntry
    <3> QED  BY <2>1, <2>4, <3>1, AppendProperties
  <2>6. Cardinality(K) = n + 1 /\ lruUsed[key] = 0
    BY <1>2, <1>3, <1>4, <1>9 DEF LRUKnown
  <2>7. /\ LRUKnown = {lruList[i].key : i \in 1..n}
        /\ \A i, j \in 1..n : i < j => lruUsed[lruList[i].key] < lruUsed[lruList[j].key]
    BY <1>0, LRUTypes DEF LRUInv, LRUListSound
  <2>8. ASSUME NEW k \in LRUKeys, k # key
        PROVE  lruUsed'[k] = IF q = 1 /\ k = lruList[1].key THEN 0 ELSE lruUsed[k]
    <3>1. CASE k \notin K
      <4>1. lruUsed'[k] = 0 /\ lruUsed[k] = 0
        BY <1>2, <1>3, <1>4, <3>1 DEF LRUKnown
      <4> QED  BY <4>1
    <3>2. CASE k \in K /\ q = 0
      <4>1. Cardinality(later(k)) < lruCapacity
        BY <1>3, <1>6, <2>2, <2>3, <2>6, <3>2
      <4> QED  BY <1>2, <1>3, <2>8, <3>2, <4>1
    <3>3. CASE k \in K /\ q = 1
      <4>1. PICK i \in 1..n : lruList[i].key = k
        BY <1>4, <2>7, <2>8, <3>3
      <4>2. n = lruCapacity /\ 1 \in 1..n
        BY <1>3, <1>9, <2>2, <2>3, <3>3
      <4>3. CASE i = 1
        <5>1. ASSUME NEW o \in K, o # k PROVE u[k] < u[o]
          <6>1. CASE o = key
            BY <1>3, <2>8, <6>1
          <6>2. CASE o # key
            <7>1. PICK j \in 1..n : lruList[j].key = o
              BY <1>4, <2>7, <5>1, <6>2
            <7>2. 1 < j
              BY <4>1, <4>3, <5>1, <7>1
            <7> QED  BY <1>3, <1>4, <2>7, <2>8, <4>1, <4>2, <4>3, <5>1, <6>2, <7>1, <7>2
          <6> QED  BY <6>1, <6>2
        <5>2. Cardinality(later(k)) = n
          BY <1>3, <1>6, <2>6, <3>3, <5>1
        <5> QED  BY <1>2, <1>3, <3>3, <4>1, <4>2, <4>3, <5>2
      <4>4. CASE i # 1
        <5>1. PICK o : o = lruList[1].key
          OBVIOUS
        <5>2. o \in LRUKnown /\ o # key
          BY <1>4, <1>9, <2>7, <4>2, <5>1
        <5>3. lruUsed[o] < lruUsed[k]
          <6>1. 1 < i
            BY <4>4
          <6> QED  BY <2>7, <4>1, <4>2, <5>1, <6>1
        <5>4. o \in K /\ u[o] < u[k] /\ o # k
          BY <1>3, <1>4, <2>8, <5>2, <5>3
        <5>5. Cardinality(later(k)) <= Cardinality(K) - 2
          BY <1>6, <3>3, <5>4
        <5>6. Cardinality(later(k)) < lruCapacity
          BY <1>3, <1>6, <2>6, <3>3, <4>2, <5>5
        <5> QED  BY <1>2, <1>3, <2>8, <3>3, <5>1, <5>4, <5>6
      <4> QED  BY <4>3, <4>4
    <3> QED  BY <2>3, <3>1, <3>2, <3>3
  <2>9. lruUsed'[key] = lruOps + 1
    <3>1. key \in K
      BY <1>4
    <3>2. CASE n + 1 <= lruCapacity
      BY <1>2, <1>3, <1>6, <2>6, <3>1, <3>2
    <3>3. CASE n = lruCapacity
      <4>1. 1 \in 1..n
        BY <1>3, <1>9, <3>3
      <4>2. PICK o : o = lruList[1].key
        OBVIOUS
      <4>3. o \in K /\ o # key /\ o \in LRUKeys
        BY <1>4, <1>9, <2>7, <4>1, <4>2
      <4>4. u[o] < u[key]
        BY <1>3, <4>3
      <4>5. Cardinality(later(key)) < lruCapacity
        BY <1>3, <1>6, <2>6, <3>1, <3>3, <4>3, <4>4
      <4> QED  BY <1>2, <1>3, <3>1, <4>5
    <3> QED  BY <1>3, <2>3, <3>2, <3>3
  <2>10. PICK list : list = lruList'
    OBVIOUS
  <2>11. /\ LRUPushed(list, q, key) /\ list[Len(list)].value = value
         /\ LRUPlacesFit(lruCache', q, key)
    <3>1. /\ list \in Seq(LRUEntry) /\ Len(list) = (n - q) + 1
          /\ \A i \in 1..n - q : list[i] = lruList[i + q]
          /\ list[Len(list)].key = key /\ list[Len(list)].value = value
      BY <2>5, <2>10
    <3>2. PICK left : left = LRUPlacesLeft
      OBVIOUS
    <3>3. \A k \in LRUKnown : lruCache[k] \in Nat
      BY <1>0 DEF LRUInv, LRUMapSound
    <3>4. /\ DOMAIN left = {k \in LRUKnown : ~(q = 1 /\ k = lruList[1].key)}
          /\ \A k \in DOMAIN left : left[k] = lruCache[k] - q
      <4>1. CASE n >= lruCapacity
        <5>1. left = [k \in DOMAIN lruCache \ {lruList[1].key} |-> lruCache[k] - 1] /\ q = 1
          BY <1>0, <2>2, <3>2, <4>1 DEF LRUPlacesLeft
        <5> QED  BY <1>4, <5>1
      <4>2. CASE ~(n >= lruCapacity)
        <5>1. left = lruCache /\ q = 0
          BY <1>0, <2>2, <3>2, <4>2 DEF LRUPlacesLeft
        <5> QED  BY <1>4, <3>3, <5>1
      <4> QED  BY <4>1, <4>2
    <3>5. lruCache' = [k \in DOMAIN left \union {key} |-> IF k = key THEN (n - q) + 1 ELSE left[k]]
      BY <2>1, <2>4, <3>2 DEF LRUPlaced
    <3>6. LRUPlacesFit(lruCache', q, key)
      BY <1>0, <3>4, <3>5 DEF LRUPlacesFit
    <3> QED  BY <1>0, <3>1, <3>6 DEF LRUPushed
  <2>12. LRUForgot(lruUsed', q, key)
    BY <1>2, <2>8, <2>9 DEF LRUForgot
  <2>13. key \notin LRUKnown /\ value \in LRUValues \union {0}
    BY <1>4, <1>9
  <2> QED  BY <1>0, <1>1, <1>9, <2>3, <2>10, <2>11, <2>12, <2>13, LRUMissKeeps
<1> QED  BY <1>3, <1>7, <1>8, <1>9

LEMMA LRUClearKeeps ==
  ASSUME LRUInv, LRUClear
  PROVE  LRUInv'
<1>1. /\ lruOps' = lruOps + 1 /\ lruCapacity' = lruCapacity /\ lruValue' = lruValue
      /\ lruList' = <<>> /\ lruCache' = <<>> /\ lruUsed' = [k \in LRUKeys |-> 0]
  BY DEF LRUClear, LRUCall
<1>2. LRUTypeOK'
  <2>1. lruList' \in Seq(LRUEntry)
    BY <1>1, EmptySeq
  <2>2. \A k \in LRUKeys : lruUsed'[k] <= lruOps + 1
    BY <1>1 DEF LRUInv, LRUTypeOK
  <2> QED  BY <1>1, <2>1, <2>2 DEF LRUInv, LRUTypeOK
<1>3. LRUKnown' = {} /\ Len(lruList') = 0 /\ DOMAIN lruCache' = {}
  <2>1. \A k \in LRUKeys : ~(lruUsed'[k] > 0)
    BY <1>1
  <2>2. Len(lruList') = 0 /\ DOMAIN lruCache' = {}
    BY <1>1
  <2> QED  BY <2>1, <2>2 DEF LRUKnown
<1>4. LRUMapSound' /\ LRUListSound'
  BY <1>2, <1>3 DEF LRUMapSound, LRUListSound, LRUTypeOK
<1> QED  BY <1>2, <1>4 DEF LRUInv

LEMMA LRUInvariance == LRUInv /\ [LRUNext]_lruvars => LRUInv'
<1> SUFFICES ASSUME LRUInv, [LRUNext]_lruvars PROVE LRUInv'
  OBVIOUS
<1>1. CASE UNCHANGED lruvars
  BY <1>1 DEF lruvars, LRUInv, LRUTypeOK, LRUMapSound, LRUListSound, LRUKnown
<1>2. ASSUME NEW key \in LRUKeys, LRUGet(key) PROVE LRUInv'
  BY <1>2, LRUGetKeeps
<1>3. ASSUME NEW key \in LRUKeys, NEW value \in LRUValues, LRUSet(key, value) PROVE LRUInv'
  BY <1>3, LRUSetKeeps
<1> QED  BY <1>1, <1>2, <1>3, LRUClearKeeps DEF LRUNext

LEMMA LRUInvImplies == LRUInv => LRUKeepsLatest
<1> SUFFICES ASSUME LRUInv PROVE LRUKeepsLatest
  OBVIOUS
<1>0. PICK n, keys : n = Len(lruList) /\ keys = [i \in DOMAIN lruList |-> lruList[i].key]
  OBVIOUS
<1>1. /\ DOMAIN lruList = 1..n /\ n \in Nat
      /\ \A i, j \in 1..n : lruList[i].key = lruList[j].key => i = j
      /\ LRUKnown = {lruList[i].key : i \in 1..n} /\ Cardinality(LRUKnown) = n
  BY <1>0, LRUTypes
<1>2. keys \in SetToSeqs(LRUKnown)
  <2>1. keys \in [1..n -> LRUKnown]
    BY <1>0, <1>1
  <2>2. \A i, j \in 1..n : i # j => keys[i] # keys[j]
    BY <1>0, <1>1
  <2> QED  BY <1>1, <2>1, <2>2 DEF SetToSeqs
<1>3. \A i, j \in DOMAIN keys : i < j => lruUsed[keys[i]] < lruUsed[keys[j]]
  <2>1. DOMAIN keys = 1..n /\ \A i \in 1..n : keys[i] = lruList[i].key
    BY <1>0, <1>1
  <2> QED  BY <1>0, <2>1 DEF LRUInv, LRUListSound
<1>4. \A m \in 1..Len(lruList) : LRURange(m) = SubSeq(keys, 1, m)
  BY <1>0 DEF LRURange
<1>5. ASSUME NEW k \in LRUKeys
      PROVE  LRULookup(k) = IF k \in LRUKnown THEN <<lruValue[k]>> ELSE <<>>
  <2>1. DOMAIN lruCache = LRUKnown
    BY DEF LRUInv, LRUMapSound
  <2>2. CASE k \in LRUKnown
    <3>1. lruCache[k] \in 1..n /\ lruList[lruCache[k]].key = k
      BY <1>0, <2>2 DEF LRUInv, LRUMapSound
    <3>2. lruList[lruCache[k]].value = lruValue[k]
      BY <1>0, <3>1 DEF LRUInv, LRUListSound
    <3> QED  BY <2>1, <2>2, <3>2 DEF LRULookup
  <2>3. CASE k \notin LRUKnown
    BY <2>1, <2>3 DEF LRULookup
  <2> QED  BY <2>2, <2>3
<1> QED  BY <1>2, <1>3, <1>4, <1>5 DEF LRUKeepsLatest, LRUKnown

\* Whatever the capacity and the calls, an LRU cache holds the keys that were used
\* last, with what was last set for them, and Range goes through them in that order.
THEOREM LatestStayInCache == Spec => []LRUKeepsLatest
<1>1. Init => LRUInv
  BY LRUInitInv DEF Init
<1>2. LRUInv /\ [Next]_vars => LRUInv'
  BY AlgorithmSteps, LRUInvariance
<1> QED  BY <1>1, <1>2, LRUInvImplies, PTL DEF Spec
-----------------------------------------------------------------------------
(* firewall: what has passed a check.                                      *)

FWRulesOf(c) == FWRulesFor(fwReq[c].path)

FWBlocked(c) == FWBlocksRequest(FWRulesOf(c), fwReq[c], fwReq[c].body)
FWAnswerBlocked(c) == FWBlocksResponse(FWRulesOf(c), fwGiven[c], fwGiven[c].body)

\* What the client is to get.
FWDue(c) ==
  IF FWBlocked(c) THEN FWForbidden
  ELSE IF fwGiven[c] = FWNoResponse THEN FWBadGateway
  ELSE IF FWAnswerBlocked(c) THEN FWForbidden ELSE fwGiven[c]

\* A request that went on is one that no rule blocks, with its own body.
FWCallInv(c) ==
  /\ fwPc[c] # "none" => fwReq[c] \in FWRequests
  /\ fwGiven[c] = FWNoResponse \/ (fwGiven[c] \in FWResponses /\ fwPc[c] # "none")
  /\ fwPc[c] \in {"none", "request", "forward"} => fwGiven[c] = FWNoResponse
  /\ fwPc[c] = "response" => fwGiven[c] \in FWResponses /\ fwResp[c] = fwGiven[c]
  /\ ~fwBroken[c] =>
       /\ fwPc[c] = "forward" \/ fwGiven[c] # FWNoResponse =>
            ~FWBlocked(c) /\ fwBody[c] = fwReq[c].body
       /\ fwPc[c] \in {"reply", "answered"} => fwResp[c] = FWDue(c)

FWInv ==
  /\ DOMAIN fwPc = FWCalls /\ DOMAIN fwReq = FWCalls /\ DOMAIN fwBody = FWCalls
  /\ fwBroken \in [FWCalls -> BOOLEAN] /\ DOMAIN fwGiven = FWCalls /\ DOMAIN fwResp = FWCalls
  /\ fwConfig = <<>> \/ \E file \in FWConfigs : fwConfig = file.rules
  /\ fwServer = "start" => \A c \in FWCalls : fwPc[c] = "none"
  /\ \A c \in FWCalls : FWCallInv(c)

LEMMA FWInitInv == FWInit => FWInv
BY DEF FWInit, FWInv, FWCallInv

\* What is blocked depends on the configuration, the request and the response.
LEMMA FWSameBlocked ==
  ASSUME NEW c \in FWCalls, fwConfig' = fwConfig, fwReq'[c] = fwReq[c]
  PROVE  /\ FWBlocked(c)' <=> FWBlocked(c)
         /\ fwGiven'[c] = fwGiven[c] => (FWAnswerBlocked(c)' <=> FWAnswerBlocked(c))
         /\ fwGiven'[c] = fwGiven[c] => FWDue(c)' = FWDue(c)
<1>1. FWRulesOf(c)' = FWRulesOf(c)
  BY DEF FWRulesOf, FWRulesFor
<1>2. FWBlocked(c)' <=> FWBlocked(c)
  BY <1>1 DEF FWBlocked, FWBlocksRequest, FWHeader
<1>3. fwGiven'[c] = fwGiven[c] => (FWAnswerBlocked(c)' <=> FWAnswerBlocked(c))
  BY <1>1 DEF FWAnswerBlocked, FWBlocksResponse
<1> QED  BY <1>2, <1>3 DEF FWDue

LEMMA FWUntouched ==
  ASSUME NEW c \in FWCalls, fwConfig' = fwConfig, fwPc'[c] = fwPc[c], fwReq'[c] = fwReq[c],
         fwBody'[c] = fwBody[c], fwBroken'[c] = fwBroken[c], fwGiven'[c] = fwGiven[c],
         fwResp'[c] = fwResp[c], FWCallInv(c)
  PROVE  FWCallInv(c)'
BY FWSameBlocked DEF FWCallInv

\* A step of the call c leaves the others as they are.
LEMMA FWOneCall ==
  ASSUME FWInv, NEW c \in FWCalls, UNCHANGED <<fwServer, fwConfig>>, fwServer # "start",
         DOMAIN fwPc' = FWCalls, DOMAIN fwReq' = FWCalls, DOMAIN fwBody' = FWCalls,
         fwBroken' \in [FWCalls -> BOOLEAN], DOMAIN fwGiven' = FWCalls, DOMAIN fwResp' = FWCalls,
         \A d \in FWCalls \ {c} :
           /\ fwPc'[d] = fwPc[d] /\ fwReq'[d] = fwReq[d] /\ fwBody'[d] = fwBody[d]
           /\ fwBroken'[d] = fwBroken[d] /\ fwGiven'[d] = fwGiven[d] /\ fwResp'[d] = fwResp[d],
         FWCallInv(c)'
  PROVE  FWInv'
<1>1. ASSUME NEW d \in FWCalls, d # c PROVE FWCallInv(d)'
  <2>1. FWCallInv(d)
    BY DEF FWInv
  <2> QED
    BY <1>1, <2>1, FWUntouched
<1> QED  BY <1>1 DEF FWInv

LEMMA FWInvariance == FWInv /\ [FWNext]_fwvars => FWInv'
<1> SUFFICES ASSUME FWInv, [FWNext]_fwvars PROVE FWInv'
  OBVIOUS
<1>1. CASE UNCHANGED fwvars
  BY <1>1, FWUntouched DEF fwvars, FWInv
<1>2. CASE FWMain
  <2>1. fwConfig' = fwConfig \/ \E file \in FWConfigs : fwConfig' = file.rules
    BY <1>2 DEF FWMain, FWLoadConfig
  <2>2. UNCHANGED <<fwPc, fwReq, fwBody, fwBroken, fwGiven, fwResp>>
        /\ \A c \in FWCalls : fwPc[c] = "none"
    BY <1>2 DEF FWMain, FWInv
  <2>3. \A c \in FWCalls : FWCallInv(c)'
    BY <2>2 DEF FWInv, FWCallInv
  <2> QED  BY <2>1, <2>2, <2>3 DEF FWInv
<1>3. CASE FWSignal \/ FWExit
  BY <1>3, FWUntouched DEF FWSignal, FWExit, FWInv
<1>4. ASSUME NEW c \in FWCalls, FWAsk(c) PROVE FWInv'
  BY <1>4, FWOneCall DEF FWAsk, FWGoto, FWInv, FWCallInv
<1>5. ASSUME NEW c \in FWCalls, FWCheckRequest(c) PROVE FWInv'
  <2>1. FWCallInv(c) /\ fwPc[c] = "request"
    BY <1>5 DEF FWInv, FWCheckRequest
  <2>2. PICK err \in BOOLEAN :
          LET r == fwReq[c]
              read == IF err THEN FWPartial[r.body] ELSE r.body
          IN
          /\ fwBroken' = [fwBroken EXCEPT ![c] = err]
          /\ IF FWBlocksRequest(FWRulesFor(r.path), r, read)
             THEN /\ fwResp' = [fwResp EXCEPT ![c] = FWForbidden]
                  /\ FWGoto(c, "reply")
                  /\ UNCHANGED fwBody
             ELSE /\ fwBody' = [fwBody EXCEPT ![c] = IF err THEN "empty" ELSE r.body]
                  /\ FWGoto(c, "forward")
                  /\ UNCHANGED fwResp
    BY <1>5 DEF FWCheckRequest
  <2>3. UNCHANGED <<fwServer, fwConfig, fwReq, fwGiven>> /\ fwServer # "start"
    BY <1>5 DEF FWCheckRequest, FWRunning
  <2>4. (FWBlocked(c)' <=> FWBlocked(c)) /\ fwGiven[c] = FWNoResponse
    BY <2>1, <2>3, FWSameBlocked DEF FWCallInv
  <2>5. CASE err
    <3>1. fwBroken'[c] = TRUE /\ fwPc'[c] \in {"reply", "forward"}
      BY <2>2, <2>5 DEF FWGoto, FWInv
    <3>2. FWCallInv(c)'
      BY <2>1, <2>3, <2>4, <3>1 DEF FWCallInv
    <3> QED  BY <2>2, <2>3, <3>2, FWOneCall DEF FWGoto, FWInv
  <2>6. CASE ~err
    <3>1. CASE FWBlocked(c)
      <4>1. fwPc'[c] = "reply" /\ fwResp'[c] = FWForbidden
        BY <2>2, <2>6, <3>1 DEF FWGoto, FWInv, FWRulesOf, FWBlocked
      <4>2. FWCallInv(c)'
        BY <2>1, <2>3, <2>4, <3>1, <4>1 DEF FWCallInv, FWDue
      <4> QED  BY <2>2, <2>3, <4>2, FWOneCall DEF FWGoto, FWInv
    <3>2. CASE ~FWBlocked(c)
      <4>1. fwBody'[c] = fwReq[c].body /\ fwPc'[c] = "forward"
        BY <2>2, <2>6, <3>2 DEF FWGoto, FWInv, FWRulesOf, FWBlocked
      <4>2. FWCallInv(c)'
        BY <2>1, <2>3, <2>4, <3>2, <4>1 DEF FWCallInv
      <4> QED  BY <2>2, <2>3, <4>2, FWOneCall DEF FWGoto, FWInv
    <3> QED  BY <3>1, <3>2
  <2> QED  BY <2>5, <2>6
<1>6. ASSUME NEW c \in FWCalls, FWForward(c) PROVE FWInv'
  <2>1. FWCallInv(c) /\ fwPc[c] = "forward"
    BY <1>6 DEF FWInv, FWForward
  <2>2. UNCHANGED <<fwServer, fwConfig, fwReq, fwBody, fwBroken>> /\ fwServer # "start"
    BY <1>6 DEF FWForward, FWRunning
  <2>3. (FWBlocked(c)' <=> FWBlocked(c)) /\ fwGiven[c] = FWNoResponse
    BY <2>1, <2>2, FWSameBlocked DEF FWCallInv
  <2>4. ASSUME UNCHANGED fwGiven, fwPc' = [fwPc EXCEPT ![c] = "reply"],
               fwResp' = [fwResp EXCEPT ![c] = FWBadGateway]
        PROVE  FWInv'
    <3>1. fwPc'[c] = "reply" /\ fwResp'[c] = FWBadGateway /\ fwGiven'[c] = fwGiven[c]
      BY <2>4 DEF FWInv
    <3>2. FWCallInv(c)'
      BY <2>1, <2>2, <2>3, <3>1 DEF FWCallInv, FWDue
    <3> QED  BY <2>2, <2>4, <3>2, FWOneCall DEF FWInv
  <2>5. ASSUME NEW resp \in FWResponses, fwGiven' = [fwGiven EXCEPT ![c] = resp],
               fwResp' = [fwResp EXCEPT ![c] = resp], fwPc' = [fwPc EXCEPT ![c] = "response"]
        PROVE  FWInv'
    <3>1. fwGiven'[c] = resp /\ fwResp'[c] = resp /\ fwPc'[c] = "response"
      BY <2>5 DEF FWInv
    <3>2. FWCallInv(c)'
      BY <2>1, <2>2, <2>3, <3>1 DEF FWCallInv
    <3> QED  BY <2>2, <2>5, <3>2, FWOneCall DEF FWInv
  <2> QED  BY <1>6, <2>4, <2>5 DEF FWForward, FWGoto
<1>7. ASSUME NEW c \in FWCalls, FWCheckResponse(c) PROVE FWInv'
  <2>1. FWCallInv(c) /\ fwPc[c] = "response"
    BY <1>7 DEF FWInv, FWCheckResponse
  <2>2. PICK err \in BOOLEAN :
          LET resp == fwResp[c]
              read == IF err THEN FWPartial[resp.body] ELSE resp.body
          IN
          /\ fwBroken' = [fwBroken EXCEPT ![c] = @ \/ err]
          /\ fwResp' = [fwResp EXCEPT ![c] =
               IF FWBlocksResponse(FWRulesFor(fwReq[c].path), resp, read) THEN FWForbidden
               ELSE IF err THEN [resp EXCEPT !.body = "empty"] ELSE resp]
    BY <1>7 DEF FWCheckResponse
  <2>3. UNCHANGED <<fwServer, fwConfig, fwReq, fwBody, fwGiven>> /\ fwServer # "start"
        /\ fwPc' = [fwPc EXCEPT ![c] = "reply"]
    BY <1>7 DEF FWCheckResponse, FWRunning, FWGoto
  <2>4. /\ FWBlocked(c)' <=> FWBlocked(c)
        /\ FWDue(c)' = FWDue(c)
        /\ fwGiven[c] \in FWResponses /\ fwGiven[c] # FWNoResponse /\ fwResp[c] = fwGiven[c]
        /\ fwPc'[c] = "reply"
    BY <2>1, <2>3, FWSameBlocked, FWAssumption DEF FWCallInv, FWInv
  <2>5. CASE err
    <3>1. fwBroken'[c] = TRUE
      BY <2>2, <2>5 DEF FWInv
    <3>2. FWCallInv(c)'
      BY <2>1, <2>3, <2>4, <3>1 DEF FWCallInv
    <3> QED  BY <2>2, <2>3, <3>2, FWOneCall DEF FWInv
  <2>6. CASE ~err
    <3>1. fwBroken'[c] = fwBroken[c]
      BY <2>2, <2>6 DEF FWInv
    <3>2. fwResp'[c] = IF FWAnswerBlocked(c) THEN FWForbidden ELSE fwGiven[c]
      BY <2>2, <2>4, <2>6 DEF FWInv, FWAnswerBlocked, FWRulesOf
    <3>3. FWCallInv(c)'
      BY <2>1, <2>3, <2>4, <3>1, <3>2 DEF FWCallInv, FWDue
    <3> QED  BY <2>2, <2>3, <3>3, FWOneCall DEF FWInv
  <2> QED  BY <2>5, <2>6
<1>8. ASSUME NEW c \in FWCalls, FWReply(c) PROVE FWInv'
  <2>1. FWCallInv(c) /\ fwPc[c] = "reply"
    BY <1>8 DEF FWInv, FWReply
  <2>2. UNCHANGED <<fwServer, fwConfig, fwReq, fwBody, fwBroken, fwGiven, fwResp>>
        /\ fwServer # "start" /\ fwPc' = [fwPc EXCEPT ![c] = "answered"]
    BY <1>8 DEF FWReply, FWRunning, FWGoto
  <2>3. (FWBlocked(c)' <=> FWBlocked(c)) /\ FWDue(c)' = FWDue(c) /\ fwPc'[c] = "answered"
    BY <2>2, FWSameBlocked DEF FWInv
  <2>4. FWCallInv(c)'
    BY <2>1, <2>2, <2>3 DEF FWCallInv
  <2> QED  BY <2>2, <2>4, FWOneCall DEF FWInv
<1> QED  BY <1>1, <1>2, <1>3, <1>4, <1>5, <1>6, <1>7, <1>8 DEF FWNext

\* The checks of the code block what the rules do not permit.
LEMMA FWChecksAreRules ==
  ASSUME FWInv, NEW c \in FWCalls
  PROVE  /\ fwReq[c] \in FWRequests => (FWBlocked(c) <=> ~FWPermitted(c))
         /\ fwGiven[c] \in FWResponses => (FWAnswerBlocked(c) <=> ~FWAnswerPermitted(c))
<1>1. FWRulesOf(c) = {fwConfig[i] : i \in FWSpeaking(c)}
  BY DEF FWRulesOf, FWRulesFor, FWSpeaking, ToSet
<1>2. \A i \in FWSpeaking(c) :
        fwConfig[i].maxRequest \in Seq(Nat) /\ fwConfig[i].maxResponse \in Seq(Nat)
  BY FWAssumption DEF FWInv, FWSpeaking
<1>3. ASSUME fwReq[c] \in FWRequests, NEW i \in FWSpeaking(c)
      PROVE  FWBlocksRequest({fwConfig[i]}, fwReq[c], fwReq[c].body)
               <=> ~FWPermits(fwConfig[i], fwReq[c])
  <2>1. FWLength[fwReq[c].body] \in Nat
    BY <1>3, FWAssumption
  <2>2. ASSUME fwConfig[i].maxRequest # <<>> PROVE fwConfig[i].maxRequest[1] \in Nat
    BY <1>2, <2>2
  <2>3. (fwConfig[i].maxRequest # <<>> /\ FWLength[fwReq[c].body] > fwConfig[i].maxRequest[1])
          <=> ~(fwConfig[i].maxRequest # <<>>
                  => FWLength[fwReq[c].body] <= fwConfig[i].maxRequest[1])
    BY <2>1, <2>2
  <2> QED  BY <2>3, Zenon DEF FWBlocksRequest, FWPermits
<1>4. ASSUME fwGiven[c] \in FWResponses, NEW i \in FWSpeaking(c)
      PROVE  FWBlocksResponse({fwConfig[i]}, fwGiven[c], fwGiven[c].body)
               <=> ~FWPermitsResponse(fwConfig[i], fwGiven[c])
  <2>1. FWLength[fwGiven[c].body] \in Nat
    BY <1>4, FWAssumption
  <2>2. ASSUME fwConfig[i].maxResponse # <<>> PROVE fwConfig[i].maxResponse[1] \in Nat
    BY <1>2, <2>2
  <2>3. (fwConfig[i].maxResponse # <<>> /\ FWLength[fwGiven[c].body] > fwConfig[i].maxResponse[1])
          <=> ~(fwConfig[i].maxResponse # <<>>
                  => FWLength[fwGiven[c].body] <= fwConfig[i].maxResponse[1])
    BY <2>1, <2>2
  <2> QED  BY <2>3, Zenon DEF FWBlocksResponse, FWPermitsResponse
<1>5. FWBlocked(c) <=>
        \E i \in FWSpeaking(c) : FWBlocksRequest({fwConfig[i]}, fwReq[c], fwReq[c].body)
  BY <1>1, Zenon DEF FWBlocked, FWBlocksRequest
<1>6. FWAnswerBlocked(c) <=>
        \E i \in FWSpeaking(c) : FWBlocksResponse({fwConfig[i]}, fwGiven[c], fwGiven[c].body)
  BY <1>1, Zenon DEF FWAnswerBlocked, FWBlocksResponse
<1> QED  BY <1>3, <1>4, <1>5, <1>6 DEF FWPermitted, FWAnswerPermitted

LEMMA FWInvRules == FWInv => FWRulesHold
<1> SUFFICES ASSUME FWInv, NEW c \in FWCalls, ~fwBroken[c]
             PROVE  /\ fwPc[c] = "forward" \/ fwGiven[c] # FWNoResponse =>
                         FWPermitted(c) /\ fwBody[c] = fwReq[c].body
                    /\ fwPc[c] = "answered" =>
                         fwResp[c] = IF ~FWPermitted(c) THEN FWForbidden
                                     ELSE IF fwGiven[c] = FWNoResponse THEN FWBadGateway
                                     ELSE IF FWAnswerPermitted(c) THEN fwGiven[c]
                                     ELSE FWForbidden
  BY DEF FWRulesHold
<1>1. FWCallInv(c)
  BY DEF FWInv
<1>2. fwPc[c] = "forward" \/ fwGiven[c] # FWNoResponse => fwPc[c] # "none"
  BY <1>1 DEF FWCallInv
<1>3. fwPc[c] = "forward" \/ fwGiven[c] # FWNoResponse =>
        FWPermitted(c) /\ fwBody[c] = fwReq[c].body
  BY <1>1, <1>2, FWChecksAreRules DEF FWCallInv
<1>4. ASSUME fwPc[c] = "answered"
      PROVE  fwResp[c] = IF ~FWPermitted(c) THEN FWForbidden
                         ELSE IF fwGiven[c] = FWNoResponse THEN FWBadGateway
                         ELSE IF FWAnswerPermitted(c) THEN fwGiven[c] ELSE FWForbidden
  BY <1>1, <1>4, FWChecksAreRules DEF FWCallInv, FWDue
<1> QED  BY <1>3, <1>4
-----------------------------------------------------------------------------
(* otp: where the next byte goes, and that both sources are there.         *)

OTTypeOK == otOut \in Seq(Nat \X Nat) /\ otData \in Nat /\ otPrng \in Nat

OTInv == OTTypeOK /\ OTAligned

LEMMA OTInitInv == OTInit => OTInv
BY DEF OTInit, OTInv, OTTypeOK, OTAligned

\* The bytes of one more call come out at the places they are xored at.
LEMMA OTCallAligned ==
  ASSUME OTTypeOK, NEW n \in Nat
  PROVE  /\ otOut \o OTXored(n) \in Seq(Nat \X Nat)
         /\ Len(otOut \o OTXored(n)) = Len(otOut) + n
         /\ Len(otOut) = otData /\ otPrng = otData /\ (\A i \in DOMAIN otOut : otOut[i] = <<i, i>>)
              => \A i \in DOMAIN (otOut \o OTXored(n)) : (otOut \o OTXored(n))[i] = <<i, i>>
<1>0. PICK S, old, new, out, m :
        S = Nat \X Nat /\ old = otOut /\ new = OTXored(n) /\ out = old \o new /\ m = Len(old)
  OBVIOUS
<1>1. new \in Seq(S) /\ Len(new) = n /\ \A i \in 1..n : new[i] = <<otData + i, otPrng + i>>
  BY <1>0 DEF OTXored, OTTypeOK
<1>2. old \in Seq(S)
  BY <1>0 DEF OTTypeOK
<1>3. /\ out \in Seq(S) /\ Len(out) = m + n /\ m \in Nat
      /\ \A i \in 1..m + n : out[i] = IF i <= m THEN old[i] ELSE new[i - m]
  <2>1. out = old \o new /\ m = Len(old)
    BY <1>0
  <2> QED  BY <1>1, <1>2, <2>1, ConcatProperties, LenProperties
<1>4. DOMAIN old = 1..m /\ DOMAIN out = 1..m + n
  <2>1. m = Len(old)
    BY <1>0
  <2> QED  BY <1>2, <1>3, <2>1, LenProperties
<1>5. ASSUME m = otData, otPrng = otData, \A i \in 1..m : old[i] = <<i, i>>, NEW i \in 1..m + n
      PROVE  out[i] = <<i, i>>
  <2>1. CASE i <= m
    BY <1>3, <1>5, <2>1
  <2>2. CASE i > m
    <3>1. PICK k \in 1..n : i = m + k /\ i - m = k
      BY <1>3, <2>2
    <3>2. out[i] = new[k]
      BY <1>3, <3>1, <2>2
    <3> QED  BY <1>1, <1>5, <3>1, <3>2
  <2> QED  BY <1>3, <2>1, <2>2
<1> QED  BY <1>0, <1>3, <1>4, <1>5

LEMMA OTInvariance == OTInv /\ [OTNext]_otvars => OTInv'
<1> SUFFICES ASSUME OTInv, [OTNext]_otvars PROVE OTInv'
  OBVIOUS
<1>1. CASE UNCHANGED otvars
  BY <1>1 DEF otvars, OTInv, OTTypeOK, OTAligned
<1>2. ASSUME ~otFailed, NEW len \in OTBuffers, OTRead(len) PROVE OTInv'
  <2>1. PICK nr \in 0..OTMin(len, OTMax - otData), err \in BOOLEAN :
          \/ /\ nr = 0
             /\ otFailed' = (err /\ len > 0)
             /\ UNCHANGED <<otMode, otData, otPrng, otOut, otShort>>
          \/ /\ nr > 0
             /\ \E prn \in 0..nr, prerr \in BOOLEAN :
                  /\ otData' = otData + nr
                  /\ otPrng' = otPrng + prn
                  /\ otOut' = otOut \o OTXored(prn)
                  /\ otShort' = (otShort \/ prn < nr)
                  /\ otFailed' = (err \/ (prerr /\ prn = 0))
             /\ UNCHANGED otMode
    BY <1>2 DEF OTRead
  <2>2. CASE UNCHANGED <<otData, otPrng, otOut, otShort>>
    BY <1>2, <2>2 DEF OTInv, OTTypeOK, OTAligned
  <2>3. ASSUME NEW prn \in 0..nr, nr > 0, otData' = otData + nr, otPrng' = otPrng + prn,
               otOut' = otOut \o OTXored(prn), otShort' = (otShort \/ prn < nr)
        PROVE  OTInv'
    <3>1. prn \in Nat /\ nr \in Nat /\ otData' \in Nat /\ otPrng' \in Nat
      BY <2>3 DEF OTInv, OTTypeOK
    <3>2. OTTypeOK'
      BY <2>3, <3>1, OTCallAligned DEF OTInv, OTTypeOK
    <3>3. ASSUME ~otShort'
          PROVE  /\ \A i \in DOMAIN otOut' : otOut'[i] = <<i, i>>
                 /\ Len(otOut') = otData' /\ otPrng' = otData'
      <4>1. ~otShort /\ ~(prn < nr)
        BY <2>3, <3>3
      <4>3. prn = nr
        BY <2>3, <3>1, <4>1
      <4>2. /\ \A i \in DOMAIN otOut : otOut[i] = <<i, i>>
            /\ Len(otOut) = otData /\ otPrng = otData
        BY <1>2, <4>1 DEF OTInv, OTAligned
      <4> QED  BY <2>3, <3>1, <4>2, <4>3, OTCallAligned DEF OTInv
    <3> QED  BY <3>2, <3>3 DEF OTInv, OTAligned
  <2> QED  BY <2>1, <2>2, <2>3
<1>3. ASSUME ~otFailed, NEW len \in OTBuffers, len <= OTMax - otData, OTWrite(len) PROVE OTInv'
  <2>1. PICK prn \in 0..OTMin(len, OTMax - otData), prerr \in BOOLEAN :
          /\ otPrng' = otPrng + prn
          /\ otShort' = (otShort \/ prn < len \/ prerr)
          /\ \/ /\ prerr
                /\ otData' = otData + prn
                /\ otFailed' = TRUE
                /\ UNCHANGED otOut
             \/ /\ ~prerr
                /\ \E wn \in 0..prn, werr \in BOOLEAN :
                     /\ wn < prn => werr
                     /\ otOut' = otOut \o OTXored(wn)
                     /\ otData' = otData + wn
                     /\ otFailed' = werr
    BY <1>3 DEF OTWrite
  <2>2. /\ len \in Nat /\ prn \in Nat /\ prn <= len
        /\ otData \in Nat /\ otPrng \in Nat /\ otPrng' \in Nat
    BY <1>3, <2>1, OTAssumption DEF OTMin, OTInv, OTTypeOK
  <2>3. CASE prerr
    <3>1. otShort' /\ otData' = otData + prn /\ otOut' = otOut
      BY <2>1, <2>3
    <3>2. OTTypeOK'
      BY <2>2, <3>1 DEF OTInv, OTTypeOK
    <3> QED  BY <3>1, <3>2 DEF OTInv, OTAligned
  <2>4. ASSUME NEW wn \in 0..prn, NEW werr \in BOOLEAN, wn < prn => werr,
               otOut' = otOut \o OTXored(wn), otData' = otData + wn, otFailed' = werr
        PROVE  OTInv'
    <3>1. wn \in Nat /\ otData' \in Nat
      BY <2>2, <2>4
    <3>2. OTTypeOK'
      BY <2>2, <2>4, <3>1, OTCallAligned DEF OTInv, OTTypeOK
    <3>3. ASSUME ~otShort'
          PROVE  /\ \A i \in DOMAIN otOut' : otOut'[i] = <<i, i>>
                 /\ Len(otOut') = otData'
                 /\ ~otFailed' => otPrng' = otData'
      <4>1. /\ \A i \in DOMAIN otOut : otOut[i] = <<i, i>>
            /\ Len(otOut) = otData /\ otPrng = otData
        BY <1>3, <2>1, <3>3 DEF OTInv, OTAligned
      <4>2. /\ \A i \in DOMAIN otOut' : otOut'[i] = <<i, i>>
            /\ Len(otOut') = otData'
        BY <2>4, <3>1, <4>1, OTCallAligned DEF OTInv
      <4>3. ~otFailed' => otPrng' = otData'
        BY <2>1, <2>2, <2>4, <4>1
      <4> QED  BY <4>2, <4>3
    <3> QED  BY <3>2, <3>3 DEF OTInv, OTAligned
  <2> QED  BY <2>1, <2>3, <2>4
<1> QED  BY <1>1, <1>2, <1>3 DEF OTNext
-----------------------------------------------------------------------------
(* testtool, grade: how far the submission that is graded has come.        *)

TTTests(t) == {f \in DOMAIN TTPrivate[t] : TTPrivate[t][f].test}
TTKept(t) == {f \in DOMAIN TTPrivate[t] :
                TTPrivate[t][f].testdata \/ "change" \in TTPrivate[t][f].bars}

TTTypeOK ==
  /\ ttPc \in {"start", "next", "build", "test", "report", "done", "failed", "fatal"}
  /\ ttChanged \in Seq(DOMAIN TTPrivate) /\ ttQueue \in Seq(DOMAIN TTPrivate)
  /\ ttPc \in {"build", "test", "report"} => ttQueue # <<>>

\* The tree of the task is put together from private tests.
TTTreeFits(t) ==
  /\ \A f \in TTTests(t) \union TTKept(t) : f \in DOMAIN ttTree /\ ttTree[f].from = "private"
  /\ ttPc = "build" => \A f \in TTTests(t) : TTPrivate[t][f].pkg \in ttTodo
  /\ ttPc = "test" => \A f \in TTTests(t) :
       /\ <<"build", TTPrivate[t][f].pkg>> \in ttPassed
       /\ TTPrivate[t][f].pkg \in ttTodo
            \/ {"test", "race", "baseline"} \X {TTPrivate[t][f].pkg} \subseteq ttPassed
  /\ ttPc = "report" =>
       \A score : score = [tree |-> ttTree, passed |-> ttPassed, hits |-> ttHits]
                    => TTEarned(TTPrivate[t], score)

TTScored ==
  \A t \in DOMAIN ttScores : \A score : score = ttScores[t] => TTEarned(TTPrivate[t], score)

\* No changed task is forgotten: it waits, is reported, or was turned down.
TTNoneForgotten ==
  /\ \A i \in DOMAIN ttChanged :
       ttFailed \/ ttChanged[i] \in DOMAIN ttScores
         \/ \E j \in DOMAIN ttQueue : ttQueue[j] = ttChanged[i]
  /\ ttPc = "done" => ttQueue = <<>> /\ ~ttFailed

TTGradeInv ==
  /\ TTTypeOK
  /\ ttPc \in {"build", "test", "report"} => \A t : t = TTTask => TTTreeFits(t)
  /\ TTScored
  /\ TTNoneForgotten

LEMMA TTInitGrade == TTInit => TTGradeInv
<1> SUFFICES ASSUME TTInit PROVE TTGradeInv
  OBVIOUS
<1>1. TTTypeOK
  BY DEF TTInit, TTTypeOK
<1>2. DOMAIN ttScores = {} /\ DOMAIN ttChanged = {} /\ ttPc = "start"
  BY DEF TTInit
<1> QED  BY <1>1, <1>2 DEF TTGradeInv, TTNoneForgotten, TTScored

LEMMA TTTaskType ==
  ASSUME TTTypeOK, ttQueue # <<>>
  PROVE  /\ TTTask \in DOMAIN TTPrivate /\ Tail(ttQueue) \in Seq(DOMAIN TTPrivate)
         /\ \A j \in DOMAIN ttQueue : ttQueue[j] = TTTask
              \/ \E k \in DOMAIN Tail(ttQueue) : Tail(ttQueue)[k] = ttQueue[j]
<1>1. PICK S, q, rest : S = DOMAIN TTPrivate /\ q = ttQueue /\ rest = Tail(q)
  OBVIOUS
<1>2. q \in Seq(S) /\ q # <<>>
  BY <1>1 DEF TTTypeOK
<1>3. /\ Head(q) \in S /\ rest \in Seq(S) /\ Len(rest) = Len(q) - 1
      /\ \A i \in 1..Len(rest) : rest[i] = q[i + 1]
  <2>1. rest = Tail(q)
    BY <1>1
  <2> QED  BY <1>2, <2>1, HeadTailProperties
<1>4. Head(q) = q[1] /\ Len(q) \in Nat /\ DOMAIN q = 1..Len(q) /\ DOMAIN rest = 1..Len(rest)
  BY <1>2, <1>3, LenProperties
<1>5. ASSUME NEW j \in DOMAIN q, j # 1 PROVE \E k \in DOMAIN rest : rest[k] = q[j]
  <2>1. j - 1 \in 1..Len(rest) /\ (j - 1) + 1 = j
    BY <1>3, <1>4, <1>5
  <2> QED  BY <1>3, <1>4, <2>1
<1> QED  BY <1>1, <1>3, <1>4, <1>5 DEF TTTask

\* What a task asks of the submission, and of which packages it runs the tests.
LEMMA TTTestsOf ==
  ASSUME NEW t \in DOMAIN TTPrivate
  PROVE  /\ TTTestFiles(TTPrivate[t]) = TTTests(t)
         /\ TTProtectedFiles(TTPrivate[t]) \union TTTestdata(TTPrivate[t]) \subseteq DOMAIN TTPrivate[t]
         /\ TTKept(t) \subseteq TTProtectedFiles(TTPrivate[t]) \union TTTestdata(TTPrivate[t])
BY TTAssumption DEF TTTestFiles, TTPackageFiles, TTTests, TTProtectedFiles, TTTestdata, TTKept

LEMMA TTAssembledFits ==
  ASSUME NEW t \in DOMAIN TTPrivate, NEW student, NEW tree, tree = TTAssembled(TTPrivate[t], student)
  PROVE  /\ \A f \in TTTests(t) \union TTKept(t) :
              f \in DOMAIN tree /\ tree[f] = TTPrivate[t][f] /\ tree[f].from = "private"
         /\ \A f \in TTTests(t) : /\ TTPrivate[t][f].pkg \in TTTestPackages(TTPrivate[t])
                                  /\ TTPrivate[t][f].pkg \in TTTestPackages(tree)
<1>1. PICK private : private = TTPrivate[t]
  OBVIOUS
<1>2. \A f \in TTTestFiles(private) \union TTProtectedFiles(private) \union TTTestdata(private) :
        f \in DOMAIN tree /\ tree[f] = private[f]
  <2>1. PICK tests, protected, testdata, module :
          /\ tests = TTTestFiles(private) /\ protected = TTProtectedFiles(private)
          /\ testdata = TTTestdata(private) /\ module = TTModuleFiles(private)
    OBVIOUS
  <2>2. PICK a, b, c :
          /\ a = TTOver(student, private, tests) /\ b = TTOver(a, private, protected)
          /\ c = TTOver(b, private, testdata)
    OBVIOUS
  <2>3. tree = TTOver(c, private, module)
    BY <1>1, <2>1, <2>2 DEF TTAssembled
  <2>4. \A f \in tests : f \in DOMAIN a /\ a[f] = private[f]
    BY <2>2 DEF TTOver
  <2>5. \A f \in tests \union protected : f \in DOMAIN b /\ b[f] = private[f]
    BY <2>2, <2>4 DEF TTOver
  <2>6. \A f \in tests \union protected \union testdata : f \in DOMAIN c /\ c[f] = private[f]
    BY <2>2, <2>5 DEF TTOver
  <2>7. \A f \in tests \union protected \union testdata : f \in DOMAIN tree /\ tree[f] = private[f]
    BY <2>3, <2>6 DEF TTOver
  <2> QED  BY <2>1, <2>7
<1>3. ASSUME NEW f \in TTTests(t) \union TTKept(t)
      PROVE  f \in DOMAIN tree /\ tree[f] = TTPrivate[t][f] /\ tree[f].from = "private"
  <2>1. f \in DOMAIN TTPrivate[t] /\ f \in DOMAIN tree /\ tree[f] = TTPrivate[t][f]
    BY <1>1, <1>2, TTTestsOf DEF TTTests, TTKept
  <2> QED  BY <2>1, TTAssumption
<1>4. ASSUME NEW f \in TTTests(t)
      PROVE  /\ TTPrivate[t][f].pkg \in TTTestPackages(TTPrivate[t])
             /\ TTPrivate[t][f].pkg \in TTTestPackages(tree)
  <2>1. f \in TTTestFiles(TTPrivate[t])
    BY TTTestsOf
  <2>2. f \in TTTestFiles(tree)
    BY <1>3, <2>1 DEF TTTestFiles, TTPackageFiles
  <2> QED  BY <1>3, <2>1, <2>2 DEF TTTestPackages
<1> QED  BY <1>3, <1>4

\* The coverage that is required is that of every test that asks for one.
LEMMA TTRequirementRight ==
  ASSUME NEW t \in DOMAIN TTPrivate, NEW f \in TTTests(t), TTPrivate[t][f].cover # <<>>
  PROVE  TTRequirement(TTPrivate[t]) = TTPrivate[t][f].cover
<1>1. PICK asking : asking = {i \in DOMAIN TTNames :
                TTNames[i] \in TTTestFiles(TTPrivate[t]) /\ TTPrivate[t][TTNames[i]].cover # <<>>}
  OBVIOUS
<1>2. PICK n \in DOMAIN TTNames : TTNames[n] = f
  BY TTAssumption DEF TTTests, ToSet
<1>3. n \in asking
  BY <1>1, <1>2, TTTestsOf
<1>4. Min(asking) \in asking
  <2>1. asking \in SUBSET Nat /\ asking # {}
    <3>1. ASSUME NEW S, TTNames \in Seq(S) PROVE DOMAIN TTNames \subseteq Nat
      BY <3>1, LenProperties
    <3>2. DOMAIN TTNames \subseteq Nat
      BY <3>1, TTAssumption
    <3> QED  BY <1>1, <1>3, <3>2
  <2>2. \E i \in asking : \A j \in asking : i <= j
    BY <2>1, LeastNat
  <2> QED  BY <2>2 DEF Min
<1>5. PICK g : g = TTNames[Min(asking)]
  OBVIOUS
<1>6. g \in TTTests(t) /\ TTPrivate[t][g].cover # <<>>
  BY <1>1, <1>4, <1>5, TTTestsOf
<1>7. TTPrivate[t][g].cover = TTPrivate[t][f].cover
  BY <1>6, TTAssumption DEF TTTests
<1> QED  BY <1>1, <1>3, <1>5, <1>7 DEF TTRequirement

LEMMA TTChangedType ==
  ASSUME NEW file \in TTDeadlines, file.reads, file.parses, NEW files,
         NEW list \in TTChangedTasks(file.schedule, files)
  PROVE  list \in Seq(DOMAIN TTPrivate)
<1> DEFINE watching(f) == {task \in TTTasks(file.schedule) : \E path \in task.watch : IsPrefix(path, f)}
           touched == UNION {TTFindTask(file.schedule, TTComponent(f)) \union watching(f) : f \in files}
           names == {task.name : task \in touched}
<1>1. touched \subseteq TTTasks(file.schedule)
  BY DEF TTFindTask
<1>2. \A task \in TTTasks(file.schedule) : task.name \in DOMAIN TTPrivate
  BY TTAssumption DEF TTTasks
<1>3. names \subseteq DOMAIN TTPrivate
  <2> HIDE DEF touched
  <2> QED  BY <1>1, <1>2
<1>4. list \in SetToSeqs(names)
  BY DEF TTChangedTasks
<1> HIDE DEF names
<1>5. Cardinality(names) \in Nat
  BY <1>3, TTAssumption, FS_Subset, FS_CardinalityType
<1>6. PICK n \in Nat : list \in [1..n -> names]
  BY <1>4, <1>5 DEF SetToSeqs
<1> QED  BY <1>3, <1>6

\* The loop goes on once the task is reported or turned down.
LEMMA TTNextTaskKeeps ==
  ASSUME TTGradeInv, ttQueue # <<>>, TTNextTask("next"), UNCHANGED ttChanged, TTScored',
         DOMAIN ttScores \subseteq DOMAIN ttScores', ttFailed => ttFailed',
         ttFailed' \/ TTTask \in DOMAIN ttScores'
  PROVE  TTGradeInv'
<1>1. ttPc' = "next" /\ ttQueue' = Tail(ttQueue)
  BY DEF TTNextTask, TTGoto
<1>2. TTTypeOK'
  BY <1>1, TTTaskType DEF TTGradeInv, TTTypeOK
<1>3. TTNoneForgotten'
  <2>1. \A j \in DOMAIN ttQueue : ttQueue[j] = TTTask \/ \E k \in DOMAIN ttQueue' : ttQueue'[k] = ttQueue[j]
    BY <1>1, TTTaskType DEF TTGradeInv
  <2>2. ASSUME NEW i \in DOMAIN ttChanged
        PROVE  ttFailed' \/ ttChanged[i] \in DOMAIN ttScores'
                 \/ \E k \in DOMAIN ttQueue' : ttQueue'[k] = ttChanged[i]
    <3>1. ttFailed \/ ttChanged[i] \in DOMAIN ttScores
            \/ \E j \in DOMAIN ttQueue : ttQueue[j] = ttChanged[i]
      BY DEF TTGradeInv, TTNoneForgotten
    <3> QED  BY <2>1, <3>1
  <2> QED  BY <1>1, <2>2 DEF TTNoneForgotten
<1> QED  BY <1>1, <1>2, <1>3 DEF TTGradeInv

LEMMA TTRejectKeeps ==
  ASSUME TTGradeInv, ttQueue # <<>>, TTReject
  PROVE  TTGradeInv'
<1>1. TTScored'
  BY DEF TTReject, TTGradeInv, TTScored
<1> QED  BY <1>1, TTNextTaskKeeps DEF TTReject

\* A step that stays with the task it is at.
LEMMA TTSameTask ==
  ASSUME TTGradeInv, UNCHANGED <<ttChanged, ttQueue, ttScores, ttFailed>>,
         ttPc' \in {"next", "build", "test", "report", "failed", "fatal"},
         ttPc' \in {"build", "test", "report"} => /\ ttQueue # <<>>
                                                  /\ \A t : t = TTTask => TTTreeFits(t)'
  PROVE  TTGradeInv'
<1>1. TTTask' = TTTask
  BY DEF TTTask
<1>2. TTScored' /\ TTTypeOK' /\ TTNoneForgotten'
  BY DEF TTGradeInv, TTScored, TTTypeOK, TTNoneForgotten
<1> QED  BY <1>1, <1>2 DEF TTGradeInv

LEMMA TTGradeKeeps ==
  ASSUME TTGradeInv, TTGrade
  PROVE  TTGradeInv'
<1>1. TTScored'
  BY DEF TTGrade, TTGradeInv, TTScored
<1>2. PICK listed \in BOOLEAN, file \in TTDeadlines :
        IF listed /\ TTLoadDeadlines(file) # <<>>
        THEN /\ \E files \in TTPushes :
                  ttChanged' \in TTChangedTasks(TTLoadDeadlines(file)[1], files)
             /\ TTGoto("next")
        ELSE TTGoto("failed") /\ UNCHANGED ttChanged
  BY DEF TTGrade
<1>3. ttQueue' = ttChanged' /\ ttPc' \in {"next", "failed"}
  BY <1>2 DEF TTGrade, TTGoto
<1>4. ttChanged' \in Seq(DOMAIN TTPrivate)
  <2>1. CASE listed /\ TTLoadDeadlines(file) # <<>>
    <3>1. file.reads /\ file.parses /\ TTLoadDeadlines(file)[1] = file.schedule
      BY <2>1 DEF TTLoadDeadlines
    <3> QED  BY <1>2, <2>1, <3>1, TTChangedType
  <2>2. CASE ~(listed /\ TTLoadDeadlines(file) # <<>>)
    BY <1>2, <2>2 DEF TTGradeInv, TTTypeOK
  <2> QED  BY <2>1, <2>2
<1>5. TTTypeOK' /\ TTNoneForgotten'
  BY <1>3, <1>4 DEF TTTypeOK, TTNoneForgotten
<1> QED  BY <1>1, <1>3, <1>5 DEF TTGradeInv

LEMMA TTAssembleKeeps ==
  ASSUME TTGradeInv, TTAssemble
  PROVE  TTGradeInv'
<1>1. PICK student \in TTStudents : ttTree' = TTAssembled(TTPrivate[TTTask], student)
  BY DEF TTAssemble
<1>2. /\ ttQueue # <<>> /\ ttPc' = "build" /\ UNCHANGED <<ttChanged, ttQueue, ttFailed, ttScores>>
      /\ ttTodo' = TTTestPackages(IF TTPercent = <<>> THEN TTPrivate[TTTask] ELSE ttTree')
  BY DEF TTAssemble, TTGoto
<1>3. PICK t : t = TTTask
  OBVIOUS
<1>4. t \in DOMAIN TTPrivate
  BY <1>2, <1>3, TTTaskType DEF TTGradeInv
<1>5. /\ \A f \in TTTests(t) \union TTKept(t) : f \in DOMAIN ttTree' /\ ttTree'[f].from = "private"
      /\ \A f \in TTTests(t) : TTPrivate[t][f].pkg \in ttTodo'
  BY <1>1, <1>2, <1>3, <1>4, TTAssembledFits
<1>6. TTTreeFits(t)'
  BY <1>2, <1>5 DEF TTTreeFits
<1> QED  BY <1>2, <1>3, <1>6, TTSameTask

LEMMA TTBuildKeeps ==
  ASSUME TTGradeInv, TTBuild
  PROVE  TTGradeInv'
<1>1. ttPc = "build" /\ ttQueue # <<>> /\ \A t : t = TTTask => TTTreeFits(t)
  BY DEF TTBuild, TTGradeInv, TTTypeOK
<1>2. CASE TTReject
  BY <1>1, <1>2, TTRejectKeeps
<1>3. CASE /\ ttPassed' = {<<"build", pkg>> : pkg \in ttTodo}
           /\ TTGoto("test")
           /\ UNCHANGED <<ttChanged, ttQueue, ttTree, ttTodo, ttHits, ttTries, ttFailed, ttScores>>
  <2>1. ASSUME NEW t, t = TTTask PROVE TTTreeFits(t)'
    BY <1>1, <1>3, <2>1 DEF TTTreeFits, TTGoto
  <2> QED  BY <1>1, <1>3, <2>1, TTSameTask DEF TTGoto
<1> QED  BY <1>2, <1>3 DEF TTBuild

LEMMA TTTestKeeps ==
  ASSUME TTGradeInv, TTTest
  PROVE  TTGradeInv'
<1>1. ttPc = "test" /\ ttQueue # <<>> /\ \A t : t = TTTask => TTTreeFits(t)
  BY DEF TTTest, TTGradeInv, TTTypeOK
<1>2. CASE TTReject
  BY <1>1, <1>2, TTRejectKeeps
<1>3. ASSUME NEW pkg, ttPassed' = ttPassed \union {"test", "race", "baseline"} \X {pkg},
             ttTodo' = ttTodo \ {pkg},
             UNCHANGED <<ttPc, ttChanged, ttQueue, ttTree, ttTries, ttFailed, ttScores>>
      PROVE  TTGradeInv'
  <2>1. ASSUME NEW t, t = TTTask PROVE TTTreeFits(t)'
    <3>1. \A f \in TTTests(t) :
            /\ <<"build", TTPrivate[t][f].pkg>> \in ttPassed
            /\ TTPrivate[t][f].pkg \in ttTodo
                 \/ {"test", "race", "baseline"} \X {TTPrivate[t][f].pkg} \subseteq ttPassed
      BY <1>1, <2>1 DEF TTTreeFits
    <3>2. ASSUME NEW f \in TTTests(t)
          PROVE  /\ <<"build", TTPrivate[t][f].pkg>> \in ttPassed'
                 /\ TTPrivate[t][f].pkg \in ttTodo'
                      \/ {"test", "race", "baseline"} \X {TTPrivate[t][f].pkg} \subseteq ttPassed'
      BY <1>3, <3>1
    <3> QED  BY <1>1, <1>3, <2>1, <3>2 DEF TTTreeFits
  <2> QED  BY <1>1, <1>3, <2>1, TTSameTask
<1> QED  BY <1>2, <1>3 DEF TTTest

LEMMA TTLintKeeps ==
  ASSUME TTGradeInv, TTLint
  PROVE  TTGradeInv'
<1>1. ttPc = "test" /\ ttTodo = {} /\ ttQueue # <<>> /\ \A t : t = TTTask => TTTreeFits(t)
  BY DEF TTLint, TTGradeInv, TTTypeOK
<1>2. CASE TTReject
  BY <1>1, <1>2, TTRejectKeeps
<1>3. CASE /\ TTPercent # <<>> => TTCoverageReached(TTPercent[1], ttHits)
           /\ ttPassed' = ttPassed \union {<<"lint", "all">>}
           /\ TTGoto("report")
           /\ UNCHANGED <<ttChanged, ttQueue, ttTree, ttTodo, ttHits, ttTries, ttFailed, ttScores>>
  <2>1. ASSUME NEW t, t = TTTask PROVE TTTreeFits(t)'
    <3>1. t \in DOMAIN TTPrivate
      BY <1>1, <2>1, TTTaskType DEF TTGradeInv
    <3>2. /\ \A f \in TTTests(t) \union TTKept(t) : f \in DOMAIN ttTree /\ ttTree[f].from = "private"
          /\ \A f \in TTTests(t) :
               {"build", "test", "race", "baseline"} \X {TTPrivate[t][f].pkg} \subseteq ttPassed
      <4>1. ASSUME NEW f \in TTTests(t), NEW pkg, pkg = TTPrivate[t][f].pkg
            PROVE  {"build", "test", "race", "baseline"} \X {pkg} \subseteq ttPassed
        <5>1. <<"build", pkg>> \in ttPassed /\ {"test", "race", "baseline"} \X {pkg} \subseteq ttPassed
          BY <1>1, <2>1, <4>1 DEF TTTreeFits
        <5> QED  BY <5>1
      <4> QED  BY <1>1, <2>1, <4>1 DEF TTTreeFits
    <3>3. ASSUME NEW f \in TTTests(t), TTPrivate[t][f].cover # <<>>
          PROVE  IF TTSum(DOMAIN TTSize) = 0 THEN TTPrivate[t][f].cover[1] = 0
                 ELSE TTSum(ttHits) * 100 >= TTPrivate[t][f].cover[1] * TTSum(DOMAIN TTSize)
      <4>1. TTPercent = TTPrivate[t][f].cover
        BY <2>1, <3>1, <3>3, TTRequirementRight DEF TTPercent
      <4> QED  BY <1>3, <3>3, <4>1 DEF TTCoverageReached
    <3>4. ASSUME NEW score, score = [tree |-> ttTree, passed |-> ttPassed', hits |-> ttHits]
          PROVE  TTEarned(TTPrivate[t], score)
      <4>1. score.tree = ttTree /\ score.passed = ttPassed' /\ score.hits = ttHits
        BY <3>4
      <4>2. ttPassed \subseteq ttPassed' /\ <<"lint", "all">> \in ttPassed'
        BY <1>3
      <4> QED  BY <3>2, <3>3, <4>1, <4>2 DEF TTEarned, TTTests, TTKept
    <3> QED  BY <1>3, <3>2, <3>4 DEF TTTreeFits, TTGoto
  <2> QED  BY <1>1, <1>3, <2>1, TTSameTask DEF TTGoto
<1> QED  BY <1>2, <1>3 DEF TTLint

LEMMA TTReportKeeps ==
  ASSUME TTGradeInv, TTReport
  PROVE  TTGradeInv'
<1>1. ttPc = "report" /\ ttQueue # <<>> /\ (\A t : t = TTTask => TTTreeFits(t))
      /\ UNCHANGED <<ttChanged, ttFailed>>
  BY DEF TTReport, TTGradeInv, TTTypeOK
<1>2. PICK received \in BOOLEAN, answered \in BOOLEAN :
        /\ ttScores' = IF ~received THEN ttScores
                       ELSE [t \in DOMAIN ttScores \union {TTTask} |->
                               IF t = TTTask
                               THEN [tree |-> ttTree, passed |-> ttPassed, hits |-> ttHits]
                               ELSE ttScores[t]]
        /\ IF received /\ answered THEN TTNextTask("next")
           ELSE /\ ttTries' = ttTries + 1
                /\ UNCHANGED <<ttPc, ttQueue, ttTree, ttTodo, ttHits, ttPassed>>
  BY DEF TTReport
<1>3. PICK t, now : t = TTTask /\ now = [tree |-> ttTree, passed |-> ttPassed, hits |-> ttHits]
  OBVIOUS
<1>4. TTEarned(TTPrivate[t], now)
  BY <1>1, <1>3 DEF TTTreeFits
<1>5. /\ DOMAIN ttScores \subseteq DOMAIN ttScores' /\ (received => t \in DOMAIN ttScores')
      /\ \A u \in DOMAIN ttScores' : \/ u = t /\ ttScores'[u] = now
                                     \/ u \in DOMAIN ttScores /\ ttScores'[u] = ttScores[u]
  BY <1>2, <1>3
<1>6. TTScored'
  BY <1>4, <1>5 DEF TTGradeInv, TTScored
<1>7. CASE received /\ answered
  BY <1>1, <1>2, <1>3, <1>5, <1>6, <1>7, TTNextTaskKeeps
<1>8. CASE UNCHANGED <<ttPc, ttQueue, ttTree, ttTodo, ttHits, ttPassed>>
  <2>1. TTTask' = TTTask
    BY <1>8 DEF TTTask
  <2>2. \A u : TTTreeFits(u) => TTTreeFits(u)'
    BY <1>8 DEF TTTreeFits
  <2>3. TTTypeOK' /\ TTNoneForgotten'
    BY <1>1, <1>5, <1>8 DEF TTGradeInv, TTTypeOK, TTNoneForgotten
  <2> QED  BY <1>1, <1>6, <2>1, <2>2, <2>3 DEF TTGradeInv
<1> QED  BY <1>2, <1>7, <1>8

LEMMA TTReturnKeeps ==
  ASSUME TTGradeInv, TTReturn
  PROVE  TTGradeInv'
<1>1. /\ ttQueue = <<>> /\ ttPc' = IF ttFailed THEN "failed" ELSE "done"
      /\ UNCHANGED <<ttChanged, ttQueue, ttScores, ttFailed>>
  BY DEF TTReturn, TTGoto
<1> QED  BY <1>1 DEF TTGradeInv, TTTypeOK, TTScored, TTNoneForgotten

LEMMA TTGradeStepKeeps == TTGradeInv /\ [TTGradeNext \/ TTExportNext]_ttvars => TTGradeInv'
<1> SUFFICES ASSUME TTGradeInv, [TTGradeNext \/ TTExportNext]_ttvars PROVE TTGradeInv'
  OBVIOUS
<1>1. CASE UNCHANGED grading
  BY <1>1 DEF grading, TTGradeInv, TTTypeOK, TTTask, TTTreeFits, TTScored, TTNoneForgotten
<1>2. CASE TTFatal \/ TTReportFailed
  BY <1>2, TTSameTask DEF TTFatal, TTReportFailed, TTGoto
<1> QED  BY <1>1, <1>2, TTGradeKeeps, TTAssembleKeeps, TTBuildKeeps, TTTestKeeps, TTLintKeeps,
            TTReportKeeps, TTReturnKeeps DEF TTGradeNext, TTExportNext, ttvars, grading

LEMMA TTGradeInvImplies == TTGradeInv => TTScoresEarned
<1> SUFFICES ASSUME TTGradeInv PROVE TTScoresEarned
  OBVIOUS
<1>1. \A t \in DOMAIN ttScores : TTEarned(TTPrivate[t], ttScores[t])
  BY DEF TTGradeInv, TTScored
<1>2. ASSUME ttPc = "done", NEW i \in DOMAIN ttChanged PROVE ttChanged[i] \in DOMAIN ttScores
  <2>1. ~ttFailed /\ DOMAIN ttQueue = {}
    BY <1>2 DEF TTGradeInv, TTNoneForgotten
  <2> QED  BY <2>1 DEF TTGradeInv, TTNoneForgotten
<1> QED  BY <1>1, <1>2 DEF TTScoresEarned
-----------------------------------------------------------------------------
(* testtool, export: nothing private is in the tree that is committed.     *)

TTPublishable(f) ==
  TTMaster[f].needs \intersect {"private", "solution"} = {} /\ f \notin TTDotPrivate

TTExportInv ==
  /\ DOMAIN ttGit = {"step", "work", "public", "remote"}
  /\ ttGit.work \subseteq DOMAIN TTMaster
  /\ ttGit.step \in {2, 3} => \A f \in ttGit.work : TTPublishable(f)
  /\ \A f \in ttGit.public \union ttGit.remote : TTPublishable(f)

LEMMA TTInitExport == TTInit => TTExportInv
BY DEF TTInit, TTExportInv

LEMMA TTRemovePrivateKeeps ==
  ASSUME TTExportInv, TTRemovePrivate
  PROVE  TTExportInv'
<1>1. PICK files, listed :
        /\ files = TTPrivateFiles([f \in ttGit.work |-> TTMaster[f]])
        /\ listed = TTDotPrivate \intersect ttGit.work
        /\ ttGit' = [ttGit EXCEPT !.work = @ \ (files \union listed),
                                  !.step = IF files \intersect listed = {} THEN 2 ELSE 0]
  BY DEF TTRemovePrivate
<1>2. ASSUME NEW f \in ttGit.work, TTMaster[f].needs \intersect {"private", "solution"} # {}
      PROVE  f \in files
  BY <1>1, <1>2, TTAssumption DEF TTExportInv, TTPrivateFiles, TTPackageFiles
<1>3. \A f \in ttGit.work \ (files \union listed) : TTPublishable(f)
  BY <1>1, <1>2 DEF TTPublishable
<1>4. /\ DOMAIN ttGit' = {"step", "work", "public", "remote"}
      /\ ttGit'.work = ttGit.work \ (files \union listed)
      /\ ttGit'.public = ttGit.public /\ ttGit'.remote = ttGit.remote
  BY <1>1 DEF TTExportInv
<1> QED  BY <1>3, <1>4 DEF TTExportInv

LEMMA TTExportStepKeeps == TTExportInv /\ [TTGradeNext \/ TTExportNext]_ttvars => TTExportInv'
<1> SUFFICES ASSUME TTExportInv, [TTGradeNext \/ TTExportNext]_ttvars PROVE TTExportInv'
  OBVIOUS
<1>1. CASE UNCHANGED ttGit
  BY <1>1 DEF TTExportInv
<1>2. CASE TTStep(0, 1) \/ TTStep(2, 3)
  BY <1>2 DEF TTStep, TTExportInv
<1>3. CASE TTCommit
  <2>1. /\ DOMAIN ttGit' = {"step", "work", "public", "remote"} /\ ttGit'.step = 4
        /\ ttGit'.work = ttGit.work /\ ttGit'.public = ttGit.work /\ ttGit'.remote = ttGit.remote
    BY <1>3 DEF TTCommit, TTExportInv
  <2> QED  BY <1>3, <2>1 DEF TTCommit, TTExportInv
<1>4. CASE TTPush
  <2>1. /\ DOMAIN ttGit' = {"step", "work", "public", "remote"} /\ ttGit'.step = 5
        /\ ttGit'.work = ttGit.work /\ ttGit'.public = ttGit.public
        /\ ttGit'.remote \in {ttGit.remote, ttGit.public}
    BY <1>4 DEF TTPush, TTExportInv
  <2> QED  BY <2>1 DEF TTExportInv
<1>5. CASE TTCheckoutMaster \/ TTExportFails
  <2>1. /\ DOMAIN ttGit' = {"step", "work", "public", "remote"} /\ ttGit'.step = 0
        /\ ttGit'.work = DOMAIN TTMaster \/ ttGit'.work \subseteq ttGit.work
        /\ ttGit'.public = ttGit.public /\ ttGit'.remote = ttGit.remote
    <3>1. ASSUME NEW work, ttGit' = [ttGit EXCEPT !.work = work, !.step = 0]
          PROVE  /\ DOMAIN ttGit' = {"step", "work", "public", "remote"} /\ ttGit'.step = 0
                 /\ ttGit'.work = work /\ ttGit'.public = ttGit.public
                 /\ ttGit'.remote = ttGit.remote
      BY <3>1 DEF TTExportInv
    <3>2. CASE ttGit' = [ttGit EXCEPT !.step = 0]
      BY <3>2 DEF TTExportInv
    <3>3. CASE ttGit' = [ttGit EXCEPT !.work = DOMAIN TTMaster, !.step = 0]
      BY <3>1, <3>3
    <3>4. ASSUME NEW f, ttGit' = [ttGit EXCEPT !.work = @ \ {f}, !.step = 0]
          PROVE  ttGit' = [ttGit EXCEPT !.work = ttGit.work \ {f}, !.step = 0]
      BY <3>4
    <3>5. ASSUME NEW f, ttGit' = [ttGit EXCEPT !.work = @ \ {f}, !.step = 0]
          PROVE  /\ DOMAIN ttGit' = {"step", "work", "public", "remote"} /\ ttGit'.step = 0
                 /\ ttGit'.work \subseteq ttGit.work /\ ttGit'.public = ttGit.public
                 /\ ttGit'.remote = ttGit.remote
      BY <3>1, <3>4, <3>5
    <3> QED  BY <1>5, <3>2, <3>3, <3>5 DEF TTCheckoutMaster, TTExportFails
  <2> QED  BY <2>1 DEF TTExportInv
<1> QED  BY <1>1, <1>2, <1>3, <1>4, <1>5, TTRemovePrivateKeeps
         DEF TTGradeNext, TTExportNext, TTExport, ttvars

LEMMA TTExportInvImplies == TTExportInv => TTNothingPrivatePublished
BY DEF TTExportInv, TTPublishable, TTNothingPrivatePublished
-----------------------------------------------------------------------------
(* tarstream: the stream follows the walk, and what has been received is a *)
(* part of it.                                                             *)

TABlocks == UNION {{data[i] : i \in DOMAIN data} : data \in TAContents}
TAItem == [name : {TAWalk[i] : i \in DOMAIN TAWalk}, dir : BOOLEAN, size : Nat, data : Seq(TABlocks)]

TATypeOK ==
  /\ taStream \in Seq(TAItem)
  /\ taPos = Len(taStream) + 1 /\ Len(taStream) <= Len(TAWalk)
  /\ taSend \in {"walk", "copy", "ok", "error"}
  /\ DOMAIN taSource \subseteq TAFiles
  /\ \A path \in DOMAIN taSource : taSource[path] \in TAContents

\* The item of the i-th path: a directory has no data, and a file that nobody has
\* touched has the size that it has now, and its data when it has all of it.
TAItemFits(i) ==
  LET item == taStream[i] IN
  /\ item.name = TAWalk[i]
  /\ item.dir <=> TAWalk[i] \notin TAFiles
  /\ item.dir => item.size = 0 /\ item.data = <<>>
  /\ Len(item.data) <= item.size
  /\ ~item.dir /\ item.name \notin taTouched =>
       /\ item.size = Len(taSource[item.name])
       /\ (taSend = "copy" /\ i = Len(taStream)) \/ Len(item.data) < item.size
            \/ item.data = taSource[item.name]

TASenderInv ==
  /\ TATypeOK
  /\ TAFiles \ DOMAIN taSource \subseteq taTouched
  /\ \A i \in 1..Len(taStream) : TAItemFits(i)
  /\ taSend = "copy" => Len(taStream) > 0 /\ ~taStream[Len(taStream)].dir
  /\ taSend = "ok" => Len(taStream) = Len(TAWalk)

\* The receiver of an empty directory has put up the items before the next one, all
\* of them with their data.
TAReceived == {i \in 1..Len(taStream) : i < taRead}

TAReceiverInv ==
  /\ taRead \in 1..Len(taStream) + 1
  /\ taSend = "copy" => taRead <= Len(taStream)
  /\ taReceive = "ok" => taRead > Len(taStream) /\ taSend \in {"ok", "error"}
  /\ DOMAIN taDest = {"dirs", "files"}
  /\ taDest.dirs = {taStream[i].name : i \in {k \in TAReceived : taStream[k].dir}}
  /\ DOMAIN taDest.files = {taStream[i].name : i \in {k \in TAReceived : ~taStream[k].dir}}
  /\ \A i \in TAReceived : Len(taStream[i].data) = taStream[i].size
  /\ \A i \in TAReceived : ~taStream[i].dir => taDest.files[taStream[i].name] = taStream[i].data

TAInv ==
  /\ TASenderInv
  /\ taFound.dirs = {} /\ taFound.files = <<>> /\ taReceive # "error" => TAReceiverInv

LEMMA TAInitInv == TAInit => TAInv
<1> SUFFICES ASSUME TAInit PROVE TAInv
  OBVIOUS
<1>1. TASenderInv
  BY TAAssumption, LenProperties DEF TAInit, TASenderInv, TATypeOK
<1>2. taFound.dirs = {} /\ taFound.files = <<>> => TAReceiverInv
  <2>1. Len(taStream) = 0 /\ TAReceived = {}
    BY DEF TAInit, TAReceived
  <2>2. DOMAIN taDest = {"dirs", "files"} /\ taDest = taFound
    BY TAAssumption DEF TAInit
  <2>3. taFound.files = <<>> => DOMAIN taFound.files = {}
    OBVIOUS
  <2> QED  BY <2>1, <2>2, <2>3 DEF TAInit, TAReceiverInv
<1> QED  BY <1>1, <1>2 DEF TAInv

LEMMA TATypes ==
  ASSUME TASenderInv
  PROVE  /\ Len(taStream) \in Nat /\ DOMAIN taStream = 1..Len(taStream)
         /\ Len(TAWalk) \in Nat /\ DOMAIN TAWalk = 1..Len(TAWalk)
         /\ \A i \in 1..Len(taStream) :
              /\ taStream[i] \in TAItem /\ taStream[i].name = TAWalk[i]
              /\ taStream[i].size \in Nat /\ taStream[i].data \in Seq(TABlocks)
              /\ Len(taStream[i].data) \in Nat
         /\ \A i, j \in 1..Len(taStream) : taStream[i].name = taStream[j].name => i = j
         /\ \A path \in DOMAIN taSource :
              taSource[path] \in Seq(TABlocks) /\ Len(taSource[path]) \in Nat
<1>1. Len(taStream) \in Nat /\ DOMAIN taStream = 1..Len(taStream)
      /\ \A i \in 1..Len(taStream) : taStream[i] \in TAItem
  <2> HIDE DEF TAItem
  <2> QED  BY LenProperties, ElementOfSeq DEF TASenderInv, TATypeOK
<1>2. Len(TAWalk) \in Nat /\ DOMAIN TAWalk = 1..Len(TAWalk)
  <2>1. PICK S : S = {TAWalk[i] : i \in DOMAIN TAWalk}
    OBVIOUS
  <2>2. TAWalk \in Seq(S)
    BY <2>1, TAAssumption
  <2> QED  BY <2>2, LenProperties
<1>3. \A i \in 1..Len(taStream) : taStream[i].name = TAWalk[i] /\ i \in DOMAIN TAWalk
  <2>1. \A i \in 1..Len(taStream) : taStream[i].name = TAWalk[i]
    BY DEF TASenderInv, TAItemFits
  <2>2. Len(taStream) <= Len(TAWalk)
    BY DEF TASenderInv, TATypeOK
  <2> QED  BY <1>1, <1>2, <2>1, <2>2
<1>4. \A i, j \in 1..Len(taStream) : taStream[i].name = taStream[j].name => i = j
  BY <1>3, TAAssumption
<1>5. \A path \in DOMAIN taSource : taSource[path] \in Seq(TABlocks)
  BY TAAssumption DEF TASenderInv, TATypeOK, TABlocks
<1>6. \A i \in 1..Len(taStream) : taStream[i].size \in Nat /\ taStream[i].data \in Seq(TABlocks)
  BY <1>1 DEF TAItem
<1> HIDE DEF TABlocks
<1>7. \A s \in Seq(TABlocks) : Len(s) \in Nat
  BY LenProperties
<1> QED  BY <1>1, <1>2, <1>3, <1>4, <1>5, <1>6, <1>7

\* The receiver is where it was as long as the sender leaves alone what was received.
LEMMA TASenderMoves ==
  ASSUME TASenderInv, TAReceiverInv, UNCHANGED receiver, TASenderInv', taReceive # "ok",
         Len(taStream) <= Len(taStream'), taSend' = "copy" => taRead <= Len(taStream'),
         \A i \in TAReceived : taStream'[i] = taStream[i]
  PROVE  TAReceiverInv'
<1>1. PICK n : n = Len(taStream)
  OBVIOUS
<1>2. PICK m : m = Len(taStream')
  OBVIOUS
<1>3. n \in Nat /\ m \in Nat /\ n <= m /\ taRead \in 1..n + 1
  <2>1. Len(taStream) \in Nat
    BY TATypes
  <2>2. Len(taStream') \in Nat
    BY LenProperties DEF TASenderInv, TATypeOK
  <2> QED  BY <1>1, <1>2, <2>1, <2>2 DEF TAReceiverInv
<1>4. taRead' = taRead /\ taDest' = taDest /\ taReceive' = taReceive
  BY DEF receiver
<1>5. TAReceived' = TAReceived
  BY <1>1, <1>2, <1>3, <1>4 DEF TAReceived
<1>6. taRead' \in 1..m + 1
  BY <1>3, <1>4
<1> QED  BY <1>2, <1>4, <1>5, <1>6 DEF TAReceiverInv

LEMMA TAHeaderKeeps ==
  ASSUME TAInv, TAHeader
  PROVE  TAInv'
<1>1. TASenderInv /\ taSend = "walk" /\ taPos <= Len(TAWalk)
      /\ UNCHANGED <<taSource, taTouched, taBroken>> /\ UNCHANGED receiver
  BY DEF TAInv, TAHeader
<1>2. CASE taSend' = "error" /\ UNCHANGED <<taPos, taStream>>
  <2>1. TASenderInv'
    BY <1>1, <1>2 DEF TASenderInv, TATypeOK, TAItemFits
  <2>2. TAReceiverInv => TAReceiverInv'
    BY <1>1, <1>2 DEF TAReceiverInv, TAReceived, receiver
  <2> QED  BY <1>1, <2>1, <2>2 DEF TAInv, receiver
<1>3. ASSUME NEW path, path = TAWalk[taPos], ~(path \in TAFiles \ DOMAIN taSource),
             taStream' = Append(taStream,
               [name |-> path, dir |-> path \notin TAFiles, data |-> <<>>,
                size |-> IF path \in TAFiles THEN Len(taSource[path]) ELSE 0]),
             taSend' = IF path \in TAFiles THEN "copy" ELSE "walk", taPos' = taPos + 1
      PROVE  TAInv'
  <2>1. PICK n, new :
          n = Len(taStream) /\ new = [name |-> path, dir |-> path \notin TAFiles, data |-> <<>>,
                size |-> IF path \in TAFiles THEN Len(taSource[path]) ELSE 0]
    OBVIOUS
  <2>2. n \in Nat /\ taPos = n + 1 /\ Len(TAWalk) \in Nat /\ n + 1 \in DOMAIN TAWalk
    <3>1. n \in Nat /\ Len(TAWalk) \in Nat /\ DOMAIN TAWalk = 1..Len(TAWalk)
      BY <1>1, <2>1, TATypes
    <3>2. taPos = n + 1
      BY <1>1, <2>1 DEF TASenderInv, TATypeOK
    <3> QED  BY <1>1, <3>1, <3>2
  <2>3. path \in TAFiles =>
          path \in DOMAIN taSource /\ taSource[path] \in Seq(TABlocks) /\ Len(taSource[path]) \in Nat
    BY <1>1, <1>3, TATypes
  <2>4. new \in TAItem
    <3>1. <<>> \in Seq(TABlocks)
      OBVIOUS
    <3> QED  BY <1>3, <2>1, <2>2, <2>3, <3>1 DEF TAItem
  <2>5. /\ taStream' \in Seq(TAItem) /\ Len(taStream') = n + 1 /\ taStream'[n + 1] = new
        /\ \A i \in 1..n : taStream'[i] = taStream[i]
    <3>1. taStream \in Seq(TAItem)
      BY <1>1 DEF TASenderInv, TATypeOK
    <3>2. taStream' = Append(taStream, new)
      BY <1>3, <2>1
    <3> HIDE DEF TAItem
    <3> QED  BY <2>1, <2>2, <2>4, <3>1, <3>2, AppendProperties
  <2>6. TAItemFits(n + 1)'
    <3>1. path \in TAFiles => taSend' = "copy"
      BY <1>3
    <3>2. Len(<<>>) = 0
      OBVIOUS
    <3>3. n + 1 = Len(taStream')
      BY <2>5
    <3>4. /\ new.name = TAWalk[n + 1] /\ (new.dir <=> TAWalk[n + 1] \notin TAFiles)
          /\ new.data = <<>> /\ (new.dir => new.size = 0)
          /\ ~new.dir => new.size = Len(taSource[new.name]) /\ new.size \in Nat
      BY <1>3, <2>1, <2>2, <2>3
    <3> QED  BY <1>1, <1>3, <2>5, <3>1, <3>2, <3>3, <3>4 DEF TAItemFits
  <2>7. ASSUME NEW i \in 1..n PROVE TAItemFits(i)'
    <3>1. TAItemFits(i) /\ taStream'[i] = taStream[i]
      BY <1>1, <2>1, <2>5 DEF TASenderInv
    <3> QED  BY <1>1, <3>1 DEF TAItemFits
  <2>8. TASenderInv'
    <3>1. TATypeOK'
      <4>1. taPos' = Len(taStream') + 1 /\ Len(taStream') <= Len(TAWalk)
        BY <1>1, <1>3, <2>2, <2>5
      <4> QED  BY <1>1, <1>3, <2>5, <4>1 DEF TASenderInv, TATypeOK
    <3>2. \A i \in 1..Len(taStream') : TAItemFits(i)'
      <4>1. \A i \in 1..Len(taStream') : i = n + 1 \/ i \in 1..n
        BY <2>2, <2>5
      <4> QED  BY <2>6, <2>7, <4>1
    <3>3. taSend' = "copy" => Len(taStream') > 0 /\ ~taStream'[Len(taStream')].dir
      <4>1. path \in TAFiles => ~new.dir
        BY <2>1
      <4>2. taSend' = "copy" => path \in TAFiles
        BY <1>3
      <4> QED  BY <2>2, <2>5, <4>1, <4>2
    <3> QED  BY <1>1, <1>3, <3>1, <3>2, <3>3 DEF TASenderInv
  <2>9. ASSUME TAReceiverInv PROVE TAReceiverInv'
    <3>1. taRead \in 1..n + 1 /\ taReceive # "ok" /\ \A i \in TAReceived : i \in 1..n
      BY <1>1, <2>1, <2>9 DEF TAReceiverInv, TAReceived
    <3>2. taRead <= Len(taStream') /\ Len(taStream) <= Len(taStream')
      BY <2>1, <2>2, <2>5, <3>1
    <3> QED  BY <1>1, <2>5, <2>8, <2>9, <3>1, <3>2, TASenderMoves
  <2> QED  BY <1>1, <2>8, <2>9 DEF TAInv, receiver
<1> QED  BY <1>2, <1>3 DEF TAHeader

LEMMA TACopyKeeps ==
  ASSUME TAInv, TACopy
  PROVE  TAInv'
<1>1. TASenderInv /\ taSend = "copy"
      /\ UNCHANGED <<taSource, taTouched, taPos, taBroken>> /\ UNCHANGED receiver
  BY DEF TAInv, TACopy
<1>2. PICK n, item : n = Len(taStream) /\ item = taStream[n]
  OBVIOUS
<1>3. /\ n \in Nat /\ n > 0 /\ n \in 1..n /\ DOMAIN taStream = 1..n
      /\ item \in TAItem /\ item.size \in Nat /\ ~item.dir /\ TAItemFits(n)
      /\ item.name = TAWalk[n] /\ TAWalk[n] \in TAFiles
  <2>1. n \in Nat /\ n > 0 /\ DOMAIN taStream = 1..n /\ ~item.dir
    BY <1>1, <1>2, TATypes DEF TASenderInv
  <2>2. n \in 1..n
    BY <2>1
  <2>3. item \in TAItem /\ item.size \in Nat /\ TAItemFits(n)
    BY <1>1, <1>2, <2>2, TATypes DEF TASenderInv
  <2> QED  BY <1>2, <2>1, <2>2, <2>3 DEF TAItemFits
<1>4. CASE item.name \notin DOMAIN taSource /\ taSend' = "error" /\ UNCHANGED taStream
  <2>1. item.name \in taTouched
    BY <1>1, <1>3, <1>4 DEF TASenderInv
  <2>2. ASSUME NEW i \in 1..n PROVE TAItemFits(i)'
    <3>1. TAItemFits(i)
      BY <1>1, <1>2 DEF TASenderInv
    <3>2. CASE i = n
      BY <1>1, <1>2, <1>4, <2>1, <3>1, <3>2 DEF TAItemFits
    <3>3. CASE i # n
      BY <1>1, <1>2, <1>4, <3>1, <3>3 DEF TAItemFits
    <3> QED  BY <3>2, <3>3
  <2>3. TASenderInv'
    BY <1>1, <1>2, <1>4, <2>2 DEF TASenderInv, TATypeOK
  <2>4. TAReceiverInv => TAReceiverInv'
    BY <1>1, <1>4 DEF TAReceiverInv, TAReceived, receiver
  <2> QED  BY <1>1, <2>3, <2>4 DEF TAInv, receiver
<1>5. ASSUME item.name \in DOMAIN taSource, NEW m \in 0..item.size, m <= Len(taSource[item.name]),
             taStream' = [taStream EXCEPT ![n].data = SubSeq(taSource[item.name], 1, m)],
             taSend' \in {"error", "walk"}
      PROVE  TAInv'
  <2>1. PICK data : data = taSource[item.name]
    OBVIOUS
  <2>2. data \in Seq(TABlocks) /\ Len(data) \in Nat /\ m \in Nat
    BY <1>1, <1>3, <1>5, <2>1, TATypes
  <2>3. PICK copied : copied = SubSeq(data, 1, m)
    OBVIOUS
  <2>4. copied \in Seq(TABlocks) /\ Len(copied) = m /\ (m = Len(data) => copied = data)
    <3> HIDE DEF TABlocks
    <3>1. 1 \in Int /\ m \in Int /\ \A i \in 1..m : i \in 1..Len(data)
      BY <1>5, <2>1, <2>2
    <3>2. copied \in Seq(TABlocks) /\ Len(copied) = m
      BY <1>5, <2>1, <2>2, <2>3, <3>1
    <3>3. ASSUME m = Len(data) PROVE copied = data
      BY <2>2, <2>3, <3>3
    <3> QED  BY <3>2, <3>3
  <2>5. PICK new : new = [item EXCEPT !.data = copied]
    OBVIOUS
  <2>6. /\ new \in TAItem /\ new.data = copied /\ new.name = item.name /\ new.dir = item.dir
        /\ new.size = item.size
    BY <1>3, <2>4, <2>5 DEF TAItem
  <2>7. taStream' = [taStream EXCEPT ![n] = new]
    BY <1>2, <1>5, <2>1, <2>3, <2>5
  <2>8. /\ taStream' \in Seq(TAItem) /\ Len(taStream') = n /\ taStream'[n] = new
        /\ \A i \in 1..n - 1 : taStream'[i] = taStream[i]
    <3>1. taStream \in Seq(TAItem)
      BY <1>1 DEF TASenderInv, TATypeOK
    <3> HIDE DEF TAItem
    <3> QED  BY <1>2, <1>3, <2>6, <2>7, <3>1, ExceptSeq
  <2>9. ASSUME NEW i \in 1..n PROVE TAItemFits(i)'
    <3>1. TAItemFits(i)
      BY <1>1, <1>2 DEF TASenderInv
    <3>2. CASE i = n
      <4>1. item.name \notin taTouched => item.size = Len(data)
        BY <1>2, <1>3, <2>1 DEF TAItemFits
      <4>2. copied = data \/ Len(copied) < item.size \/ item.name \in taTouched
        BY <1>3, <1>5, <2>2, <2>4, <4>1
      <4>3. Len(copied) <= item.size
        BY <1>3, <2>2, <2>4, <1>5
      <4> QED  BY <1>1, <1>3, <2>1, <2>6, <2>8, <3>2, <4>1, <4>2, <4>3 DEF TAItemFits
    <3>3. CASE i # n
      <4>1. taStream'[i] = taStream[i]
        BY <1>3, <2>8, <3>3
      <4> QED  BY <1>1, <1>2, <3>1, <3>3, <4>1 DEF TAItemFits
    <3> QED  BY <3>2, <3>3
  <2>10. TASenderInv'
    <3>1. TATypeOK'
      BY <1>1, <1>2, <1>5, <2>8 DEF TASenderInv, TATypeOK
    <3> QED  BY <1>1, <1>5, <2>8, <2>9, <3>1 DEF TASenderInv
  <2>11. ASSUME TAReceiverInv PROVE TAReceiverInv'
    <3>1. taRead <= n /\ taRead \in 1..n + 1 /\ taReceive # "ok"
      BY <1>1, <1>2, <2>11 DEF TAReceiverInv
    <3>2. \A i \in TAReceived : i \in 1..n - 1
      BY <1>2, <1>3, <3>1 DEF TAReceived
    <3> QED  BY <1>1, <1>2, <1>3, <1>5, <2>8, <2>10, <2>11, <3>1, <3>2, TASenderMoves
  <2> QED  BY <1>1, <2>10, <2>11 DEF TAInv, receiver
<1> QED  BY <1>2, <1>4, <1>5 DEF TACopy

LEMMA TACloseKeeps ==
  ASSUME TAInv, TAClose
  PROVE  TAInv'
<1>1. /\ TASenderInv /\ taSend = "walk" /\ taPos > Len(TAWalk) /\ taSend' \in {"ok", "error"}
      /\ UNCHANGED <<taSource, taTouched, taPos, taStream>> /\ UNCHANGED receiver
  BY DEF TAInv, TAClose
<1>2. Len(taStream) = Len(TAWalk)
  BY <1>1, TATypes DEF TASenderInv, TATypeOK
<1>3. TASenderInv'
  BY <1>1, <1>2 DEF TASenderInv, TATypeOK, TAItemFits
<1>4. TAReceiverInv => TAReceiverInv'
  BY <1>1 DEF TAReceiverInv, TAReceived, receiver
<1> QED  BY <1>1, <1>3, <1>4 DEF TAInv, receiver

LEMMA TADisturbKeeps ==
  ASSUME TAInv, TADisturb
  PROVE  TAInv'
<1>1. TASenderInv /\ UNCHANGED <<taPos, taStream, taSend>> /\ UNCHANGED receiver
  BY DEF TAInv, TADisturb, sender
<1>2. \E path :
        /\ DOMAIN taSource' \subseteq DOMAIN taSource /\ DOMAIN taSource \ DOMAIN taSource' \subseteq {path}
        /\ taSource' = taSource \/ path \in taTouched'
        /\ taTouched \subseteq taTouched'
        /\ \A p \in DOMAIN taSource' :
             taSource'[p] \in TAContents /\ (p # path => taSource'[p] = taSource[p])
  <2>1. \A p \in DOMAIN taSource : taSource[p] \in TAContents
    BY <1>1 DEF TASenderInv, TATypeOK
  <2>2. CASE UNCHANGED <<taSource, taTouched>>
    BY <2>1, <2>2
  <2>3. ASSUME NEW path \in DOMAIN taSource, NEW data \in TAContents,
               taSource' = [taSource EXCEPT ![path] = data], taTouched' = taTouched \union {path}
        PROVE  \A p \in DOMAIN taSource' :
                 taSource'[p] \in TAContents /\ (p # path => taSource'[p] = taSource[p])
    BY <2>1, <2>3
  <2>4. ASSUME NEW path \in DOMAIN taSource,
               taSource' = [p \in DOMAIN taSource \ {path} |-> taSource[p]],
               taTouched' = taTouched \union {path}
        PROVE  \A p \in DOMAIN taSource' :
                 taSource'[p] \in TAContents /\ (p # path => taSource'[p] = taSource[p])
    BY <2>1, <2>4
  <2> QED  BY <2>2, <2>3, <2>4 DEF TADisturb
<1>3. PICK path :
        /\ DOMAIN taSource' \subseteq DOMAIN taSource /\ DOMAIN taSource \ DOMAIN taSource' \subseteq {path}
        /\ taSource' = taSource \/ path \in taTouched'
        /\ taTouched \subseteq taTouched'
        /\ \A p \in DOMAIN taSource' :
             taSource'[p] \in TAContents /\ (p # path => taSource'[p] = taSource[p])
  BY <1>2
<1>4. \A p \in TAFiles \ taTouched' : p \in DOMAIN taSource /\ taSource'[p] = taSource[p]
  BY <1>1, <1>3 DEF TASenderInv
<1>5. ASSUME NEW i \in 1..Len(taStream) PROVE TAItemFits(i)'
  <2>1. TAItemFits(i)
    BY <1>1 DEF TASenderInv
  <2>2. ~taStream[i].dir => taStream[i].name \in TAFiles
    BY <2>1 DEF TAItemFits
  <2> QED  BY <1>1, <1>3, <1>4, <2>1, <2>2 DEF TAItemFits
<1>6. TASenderInv'
  <2>1. TAFiles \ DOMAIN taSource' \subseteq taTouched'
    BY <1>1, <1>3 DEF TASenderInv
  <2> QED  BY <1>1, <1>3, <1>5, <2>1 DEF TASenderInv, TATypeOK
<1>7. TAReceiverInv => TAReceiverInv'
  BY <1>1 DEF TAReceiverInv, TAReceived, receiver
<1> QED  BY <1>1, <1>6, <1>7 DEF TAInv, receiver

LEMMA TASenderKept ==
  ASSUME TASenderInv, UNCHANGED <<taSource, taTouched>>, UNCHANGED sender
  PROVE  TASenderInv'
BY DEF TASenderInv, TATypeOK, TAItemFits, sender

LEMMA TAReceiveKeeps ==
  ASSUME TAInv, TAReceive
  PROVE  TAInv'
<1>1. /\ TASenderInv /\ UNCHANGED <<taSource, taTouched, taFound>> /\ UNCHANGED sender
      /\ taReceive = "run" /\ taRead <= Len(taStream) /\ (taRead < Len(taStream) \/ taSend # "copy")
  BY DEF TAInv, TAReceive
<1>2. TASenderInv'
  BY <1>1, TASenderKept
<1>3. ASSUME TAReceiverInv, taReceive' # "error" PROVE TAReceiverInv'
  <2>1. PICK n, k, item, path :
          n = Len(taStream) /\ k = taRead /\ item = taStream[k] /\ path = item.name
    OBVIOUS
  <2>2. /\ n \in Nat /\ k \in 1..n /\ item.data \in Seq(TABlocks) /\ Len(item.data) \in Nat
        /\ item.size \in Nat /\ Len(item.data) <= item.size
    <3>1. n \in Nat /\ k \in 1..n
      BY <1>1, <1>3, <2>1, TATypes DEF TAReceiverInv
    <3>2. TAItemFits(k)
      BY <1>1, <2>1, <3>1 DEF TASenderInv
    <3> QED  BY <1>1, <2>1, <3>1, <3>2, TATypes DEF TAItemFits
  <2>3. path \notin DOMAIN taDest.files /\ path \notin taDest.dirs
    <3>1. \A i \in TAReceived : taStream[i].name # path
      BY <1>1, <2>1, <2>2, TATypes DEF TAReceived
    <3> QED  BY <1>3, <3>1 DEF TAReceiverInv
  <2>4. PICK written : written = item.data \o SubSeq(<<>>, Len(item.data) + 1, Len(<<>>))
    OBVIOUS
  <2>5. written = item.data
    <3> HIDE DEF TABlocks
    <3>1. Len(<<>>) = 0 /\ 0 < Len(item.data) + 1
      BY <2>2
    <3>2. SubSeq(<<>>, Len(item.data) + 1, Len(<<>>)) = <<>>
      BY <2>2, <3>1, SubSeqEmpty
    <3> QED  BY <2>2, <2>4, <3>2, ConcatEmptySeq
  <2>6. /\ taDest' = IF item.dir THEN [taDest EXCEPT !.dirs = @ \union {path}]
                     ELSE [taDest EXCEPT !.files =
                             [p \in DOMAIN @ \union {path} |-> IF p = path THEN written ELSE @[p]]]
        /\ taRead' = k + 1
        /\ ~(Len(item.data) < item.size)
    BY <1>1, <1>3, <2>1, <2>3, <2>4 DEF TAReceive
  <2>7. Len(item.data) = item.size
    BY <2>2, <2>6
  <2>8. /\ DOMAIN taDest' = {"dirs", "files"}
        /\ taDest'.dirs = IF item.dir THEN taDest.dirs \union {path} ELSE taDest.dirs
        /\ DOMAIN taDest'.files = IF item.dir THEN DOMAIN taDest.files
                                  ELSE DOMAIN taDest.files \union {path}
        /\ ~item.dir => taDest'.files[path] = item.data
        /\ \A p \in DOMAIN taDest.files : taDest'.files[p] = taDest.files[p]
    <3>1. DOMAIN taDest = {"dirs", "files"}
      BY <1>3 DEF TAReceiverInv
    <3>2. CASE item.dir
      BY <2>6, <3>1, <3>2
    <3>3. CASE ~item.dir
      <4>1. PICK old, new : old = taDest.files /\ new = [p \in DOMAIN old \union {path} |->
                                                          IF p = path THEN written ELSE old[p]]
        OBVIOUS
      <4>2. taDest' = [taDest EXCEPT !.files = new]
        BY <2>6, <3>3, <4>1
      <4>3. taDest'.files = new /\ taDest'.dirs = taDest.dirs /\ DOMAIN taDest' = {"dirs", "files"}
        BY <3>1, <4>2
      <4> QED  BY <2>3, <2>5, <3>3, <4>1, <4>3
    <3> QED  BY <3>2, <3>3
  <2>9. TAReceived = 1..k - 1 /\ TAReceived' = 1..k - 1 \union {k}
    BY <1>1, <2>1, <2>2, <2>6 DEF TAReceived, sender
  <2>10. taStream' = taStream /\ taSend' = taSend
    BY <1>1 DEF sender
  <2>11. taDest'.dirs = {taStream'[i].name : i \in {j \in TAReceived' : taStream'[j].dir}}
    BY <1>3, <2>1, <2>8, <2>9, <2>10 DEF TAReceiverInv
  <2>12. DOMAIN taDest'.files = {taStream'[i].name : i \in {j \in TAReceived' : ~taStream'[j].dir}}
    BY <1>3, <2>1, <2>8, <2>9, <2>10 DEF TAReceiverInv
  <2>13. \A i \in TAReceived' : Len(taStream'[i].data) = taStream'[i].size
    BY <1>3, <2>1, <2>7, <2>9, <2>10 DEF TAReceiverInv
  <2>14. \A i \in TAReceived' : ~taStream'[i].dir =>
           taDest'.files[taStream'[i].name] = taStream'[i].data
    <3>1. ASSUME NEW i \in TAReceived, ~taStream[i].dir
          PROVE  taDest'.files[taStream[i].name] = taStream[i].data
      <4>1. taStream[i].name \in DOMAIN taDest.files
        BY <1>3, <3>1 DEF TAReceiverInv
      <4> QED  BY <1>3, <2>8, <3>1, <4>1 DEF TAReceiverInv
    <3> QED  BY <2>1, <2>8, <2>9, <2>10, <3>1
  <2>15. taRead' \in 1..Len(taStream') + 1 /\ (taSend' = "copy" => taRead' <= Len(taStream'))
    BY <1>1, <2>1, <2>2, <2>6, <2>10
  <2>16. taReceive' # "ok"
    BY <1>1, <1>3, <2>1, <2>3 DEF TAReceive
  <2> QED  BY <2>8, <2>11, <2>12, <2>13, <2>14, <2>15, <2>16 DEF TAReceiverInv
<1> QED  BY <1>1, <1>2, <1>3 DEF TAInv

LEMMA TAInvariance == TAInv /\ [TANext]_tavars => TAInv'
<1> SUFFICES ASSUME TAInv, [TANext]_tavars PROVE TAInv'
  OBVIOUS
<1>1. CASE UNCHANGED tavars
  <2>1. TASenderInv'
    BY <1>1, TASenderKept DEF TAInv, tavars, sender
  <2> QED  BY <1>1, <2>1 DEF tavars, TAInv, TAReceiverInv, TAReceived
<1>2. CASE TAReceiveEOF
  <2>1. /\ TASenderInv /\ UNCHANGED <<taSource, taTouched, taFound, taDest, taRead>> /\ UNCHANGED sender
        /\ taReceive = "run" /\ taRead > Len(taStream) /\ taSend \in {"ok", "error"}
    BY <1>2 DEF TAInv, TAReceiveEOF
  <2>2. TASenderInv'
    BY <2>1, TASenderKept
  <2> QED  BY <2>1, <2>2 DEF TAInv, TAReceiverInv, TAReceived, sender
<1> QED  BY <1>1, <1>2, TAHeaderKeeps, TACopyKeeps, TACloseKeeps, TADisturbKeeps, TAReceiveKeeps
         DEF TANext

LEMMA TAInvImplies == TAInv => TAArrivesWhole
<1> SUFFICES ASSUME TAInv, taReceive = "ok", taFound.dirs = {}, taFound.files = <<>>
             PROVE  /\ taDest.dirs \union DOMAIN taDest.files = {TAWalk[i] : i \in 1..Len(taStream)}
                    /\ DOMAIN taDest.files = {TAWalk[i] : i \in 1..Len(taStream)} \intersect TAFiles
                    /\ taSend = "ok" => Len(taStream) = Len(TAWalk)
                    /\ \A i \in 1..Len(taStream) : TAWalk[i] \in TAFiles =>
                         /\ Len(taDest.files[TAWalk[i]]) = taStream[i].size
                         /\ TAWalk[i] \notin taTouched => taDest.files[TAWalk[i]] = taSource[TAWalk[i]]
  BY DEF TAArrivesWhole
<1>1. TASenderInv /\ TAReceiverInv
  BY DEF TAInv
<1>2. TAReceived = 1..Len(taStream) /\ taSend # "copy"
  BY <1>1, TATypes DEF TAReceived, TAReceiverInv
<1>3. \A i \in 1..Len(taStream) :
        taStream[i].name = TAWalk[i] /\ (taStream[i].dir <=> TAWalk[i] \notin TAFiles)
  BY <1>1 DEF TASenderInv, TAItemFits
<1>4. /\ taDest.dirs = {TAWalk[i] : i \in {k \in 1..Len(taStream) : TAWalk[k] \notin TAFiles}}
      /\ DOMAIN taDest.files = {TAWalk[i] : i \in {k \in 1..Len(taStream) : TAWalk[k] \in TAFiles}}
  BY <1>1, <1>2, <1>3 DEF TAReceiverInv
<1>5. taSend = "ok" => Len(taStream) = Len(TAWalk)
  BY <1>1 DEF TASenderInv
<1>6. ASSUME NEW i \in 1..Len(taStream), TAWalk[i] \in TAFiles
      PROVE  /\ Len(taDest.files[TAWalk[i]]) = taStream[i].size
             /\ TAWalk[i] \notin taTouched => taDest.files[TAWalk[i]] = taSource[TAWalk[i]]
  <2>1. /\ Len(taStream[i].data) = taStream[i].size /\ taStream[i].size \in Nat
        /\ taDest.files[TAWalk[i]] = taStream[i].data
    BY <1>1, <1>2, <1>3, <1>6, TATypes DEF TAReceiverInv
  <2>2. TAItemFits(i)
    BY <1>1 DEF TASenderInv
  <2> QED  BY <1>2, <1>3, <1>6, <2>1, <2>2 DEF TAItemFits
<1> QED  BY <1>4, <1>5, <1>6

-----------------------------------------------------------------------------
(* MergeChans: what has come out was sent in this order, and what is still *)
(* to come is the rest.                                                    *)

MGSent(c) == Len(MGSources[c]) - Len(mgLeft[c]) - Len(mgHave[c])

MGTypeOK ==
  /\ mgLeft \in [MGChans -> Seq(MGValues)] /\ mgHave \in [MGChans -> Seq(MGValues)]
  /\ mgPc \in [MGChans -> {"range", "done"}]
  /\ mgOut \in Seq(MGValues)

\* A goroutine holds one value at most, the next one to be sent.
MGChanSound(c) ==
  /\ Len(mgHave[c]) <= 1 /\ MGSent(c) \in Nat
  /\ mgHave[c] # <<>> => mgHave[c][1] = MGSources[c][MGSent(c) + 1]
  /\ \A i \in 1..Len(mgLeft[c]) : mgLeft[c][i] = MGSources[c][MGSent(c) + Len(mgHave[c]) + i]
  /\ mgPc[c] = "done" => mgLeft[c] = <<>> /\ mgHave[c] = <<>>

\* from tells where each value came from.
MGFrom(from) ==
  /\ from \in [DOMAIN mgOut -> MGChans]
  /\ \A c \in MGChans :
       /\ MGUpTo(from, c, Len(mgOut)) = MGSent(c)
       /\ \A i \in DOMAIN mgOut : from[i] = c => mgOut[i] = MGSources[c][MGUpTo(from, c, i)]

MGRunning == {c \in MGChans : mgPc[c] = "range"}

MGInv ==
  /\ MGTypeOK
  /\ \A c \in MGChans : MGChanSound(c)
  /\ \E from : MGFrom(from)
  /\ mgWg = Cardinality(MGRunning)
  /\ mgClosed => MGRunning = {}

LEMMA MGInitInv == MGInit => MGInv
<1> SUFFICES ASSUME MGInit PROVE MGInv
  OBVIOUS
<1>0. IsFiniteSet(MGChans) /\ MGSources \in [MGChans -> Seq(MGValues)]
  BY MGAssumption DEF MGChans
<1>1. MGTypeOK
  <2>1. <<>> \in Seq(MGValues)
    OBVIOUS
  <2> QED  BY <1>0, <2>1 DEF MGInit, MGTypeOK
<1>2. ASSUME NEW c \in MGChans PROVE MGChanSound(c) /\ MGSent(c) = 0
  <2>1. mgLeft[c] = MGSources[c] /\ mgHave[c] = <<>> /\ mgPc[c] = "range"
    BY <1>2 DEF MGInit
  <2>2. PICK n \in Nat : n = Len(MGSources[c])
    BY <1>0, <1>2
  <2>3. Len(<<>>) = 0
    OBVIOUS
  <2>4. MGSent(c) = n - n - 0
    BY <2>1, <2>2, <2>3 DEF MGSent
  <2>5. MGSent(c) = 0
    BY <2>4
  <2> QED  BY <2>1, <2>2, <2>3, <2>5 DEF MGChanSound
<1>3. \E from : MGFrom(from)
  <2> DEFINE from == [i \in {} |-> 0]
  <2>1. mgOut = <<>> /\ DOMAIN mgOut = {} /\ Len(mgOut) = 0
    BY DEF MGInit
  <2>2. from \in [DOMAIN mgOut -> MGChans]
    BY <2>1
  <2>3. ASSUME NEW c \in MGChans PROVE MGUpTo(from, c, Len(mgOut)) = 0
    <3>1. {j \in 1..0 : from[j] = c} = {}
      OBVIOUS
    <3> QED  BY <2>1, <3>1, FS_EmptySet DEF MGUpTo
  <2>4. MGFrom(from)
    BY <1>2, <2>1, <2>2, <2>3 DEF MGFrom
  <2> QED  BY <2>4
<1>4. MGRunning = MGChans /\ mgWg = Cardinality(MGRunning) /\ ~mgClosed
  BY DEF MGInit, MGRunning
<1> QED  BY <1>1, <1>2, <1>3, <1>4 DEF MGInv

\* What one goroutine does leaves the channels of the others as they are.
LEMMA MGOthers ==
  ASSUME NEW c, mgLeft'[c] = mgLeft[c], mgHave'[c] = mgHave[c], mgPc'[c] = mgPc[c]
  PROVE  (MGChanSound(c) => MGChanSound(c)') /\ MGSent(c)' = MGSent(c)
BY DEF MGChanSound, MGSent

LEMMA MGReceiveKeeps ==
  ASSUME MGInv, NEW c \in MGChans, MGReceive(c)
  PROVE  MGInv'
<1>1. /\ MGTypeOK /\ MGChanSound(c) /\ MGRunning' = MGRunning
      /\ mgOut' = mgOut /\ mgWg' = mgWg /\ mgPc' = mgPc /\ mgClosed' = mgClosed
  BY DEF MGInv, MGReceive, MGRunning
<1>2. PICK left \in Seq(MGValues) : left = mgLeft[c]
  BY <1>1 DEF MGTypeOK
<1>3. /\ left # <<>> /\ mgHave[c] = <<>> /\ mgPc[c] = "range"
      /\ mgHave' = [mgHave EXCEPT ![c] = <<Head(left)>>]
      /\ mgLeft' = [mgLeft EXCEPT ![c] = Tail(left)]
  BY <1>2 DEF MGReceive
<1>4. /\ Len(left) \in Nat \ {0} /\ Head(left) = left[1] /\ left[1] \in MGValues
      /\ Tail(left) \in Seq(MGValues) /\ Len(Tail(left)) = Len(left) - 1
      /\ \A i \in 1..Len(left) - 1 : Tail(left)[i] = left[i + 1]
  BY <1>2, <1>3
<1>5. <<left[1]>> \in Seq(MGValues) /\ Len(<<left[1]>>) = 1 /\ <<left[1]>>[1] = left[1]
  BY <1>4
<1>6. /\ mgHave'[c] = <<left[1]>> /\ mgLeft'[c] = Tail(left)
      /\ mgHave' \in [MGChans -> Seq(MGValues)] /\ mgLeft' \in [MGChans -> Seq(MGValues)]
      /\ \A d \in MGChans \ {c} : mgHave'[d] = mgHave[d] /\ mgLeft'[d] = mgLeft[d]
  BY <1>1, <1>3, <1>4, <1>5 DEF MGTypeOK
<1>7. MGTypeOK'
  BY <1>1, <1>6 DEF MGTypeOK
<1>8. PICK n \in Nat : n = MGSent(c)
  BY <1>1 DEF MGChanSound
<1>9. Len(MGSources[c]) \in Nat
  BY MGAssumption DEF MGChans
<1>10. MGSent(c)' = n
  BY <1>2, <1>3, <1>4, <1>5, <1>6, <1>8, <1>9 DEF MGSent
<1>11. MGChanSound(c)'
  <2>1. \A i \in 1..Len(left) : left[i] = MGSources[c][n + 0 + i]
    BY <1>1, <1>2, <1>3, <1>8 DEF MGChanSound
  <2>2. left[1] = MGSources[c][n + 1]
    BY <1>4, <2>1
  <2>3. ASSUME NEW i \in 1..Len(left) - 1 PROVE Tail(left)[i] = MGSources[c][n + 1 + i]
    <3>1. i + 1 \in 1..Len(left) /\ n + 0 + (i + 1) = n + 1 + i
      BY <1>4, <2>3
    <3> QED  BY <1>4, <2>1, <2>3, <3>1
  <2> QED  BY <1>1, <1>3, <1>4, <1>5, <1>6, <1>8, <1>10, <2>2, <2>3 DEF MGChanSound
<1>12. \A d \in MGChans : MGChanSound(d)' /\ MGSent(d)' = MGSent(d)
  <2>1. ASSUME NEW d \in MGChans \ {c} PROVE MGChanSound(d)' /\ MGSent(d)' = MGSent(d)
    <3>1. MGChanSound(d)
      BY DEF MGInv
    <3> QED  BY <1>1, <1>6, <3>1, MGOthers
  <2> QED  BY <1>8, <1>10, <1>11, <2>1
<1>13. \E from : MGFrom(from)'
  <2>1. PICK from : MGFrom(from)
    BY DEF MGInv
  <2> QED  BY <1>1, <1>12, <2>1 DEF MGFrom
<1> QED  BY <1>1, <1>7, <1>12, <1>13 DEF MGInv

\* One value more.
LEMMA MGUpToNext ==
  ASSUME NEW n \in Nat, NEW from, NEW next, NEW c, NEW d,
         \A i \in 1..n : next[i] = from[i], next[n + 1] = c
  PROVE  /\ \A i \in 1..n : MGUpTo(next, d, i) = MGUpTo(from, d, i)
         /\ MGUpTo(from, d, n) \in Nat
         /\ MGUpTo(next, d, n + 1) = IF c = d THEN MGUpTo(from, d, n) + 1 ELSE MGUpTo(from, d, n)
<1>1. ASSUME NEW i \in 1..n PROVE MGUpTo(next, d, i) = MGUpTo(from, d, i)
  <2>1. {j \in 1..i : next[j] = d} = {j \in 1..i : from[j] = d}
    BY <1>1
  <2> QED  BY <2>1 DEF MGUpTo
<1>2. PICK S : S = {j \in 1..n : from[j] = d}
  OBVIOUS
<1>3. IsFiniteSet(S) /\ Cardinality(S) \in Nat /\ n + 1 \notin S
  <2>1. IsFiniteSet(1..n) /\ S \in SUBSET (1..n)
    BY <1>2, FS_Interval
  <2>2. IsFiniteSet(S)
    BY <2>1, FS_Subset
  <2> QED  BY <1>2, <2>2, FS_CardinalityType
<1>4. {j \in 1..n + 1 : next[j] = d} = IF c = d THEN S \union {n + 1} ELSE S
  BY <1>2
<1>5. Cardinality(S \union {n + 1}) = Cardinality(S) + 1
  BY <1>3, FS_AddElement
<1> QED  BY <1>1, <1>2, <1>3, <1>4, <1>5 DEF MGUpTo

LEMMA MGSendKeeps ==
  ASSUME MGInv, NEW c \in MGChans, MGSend(c)
  PROVE  MGInv'
<1>1. /\ MGTypeOK /\ MGChanSound(c) /\ MGRunning' = MGRunning
      /\ mgLeft' = mgLeft /\ mgWg' = mgWg /\ mgPc' = mgPc /\ mgClosed' = mgClosed
  BY DEF MGInv, MGSend, MGRunning
<1>2. PICK have \in Seq(MGValues) : have = mgHave[c]
  BY <1>1 DEF MGTypeOK
<1>3. /\ have # <<>> /\ Len(have) <= 1
      /\ mgOut' = mgOut \o have
      /\ mgHave' = [mgHave EXCEPT ![c] = <<>>]
  BY <1>1, <1>2 DEF MGSend, MGChanSound
<1>4. Len(have) = 1 /\ have[1] \in MGValues
  <2>1. Len(have) \in Nat /\ Len(have) # 0
    BY <1>2, <1>3, EmptySeq, LenProperties
  <2>2. PICK k \in Nat \ {0} : k = Len(have)
    BY <2>1
  <2>3. k <= 1
    BY <1>3, <2>2
  <2>4. Len(have) = 1
    BY <2>2, <2>3
  <2> QED  BY <1>2, <2>4, ElementOfSeq
<1>5. PICK n \in Nat : n = Len(mgOut)
  BY <1>1 DEF MGTypeOK
<1>6. /\ mgOut \in Seq(MGValues) /\ DOMAIN mgOut = 1..n
      /\ mgOut' \in Seq(MGValues) /\ Len(mgOut') = n + 1 /\ DOMAIN mgOut' = 1..n + 1
      /\ \A i \in 1..n : mgOut'[i] = mgOut[i]
      /\ mgOut'[n + 1] = have[1]
  <2>1. mgOut \in Seq(MGValues) /\ DOMAIN mgOut = 1..n
    BY <1>1, <1>5 DEF MGTypeOK
  <2>2. /\ mgOut \o have \in Seq(MGValues) /\ Len(mgOut \o have) = n + 1
        /\ \A i \in 1..n + 1 :
             (mgOut \o have)[i] = IF i <= n THEN mgOut[i] ELSE have[i - n]
    <3>1. PICK out \in Seq(MGValues) : out = mgOut
      BY <2>1
    <3>2. Len(out) = n /\ Len(have) = 1
      BY <1>4, <1>5, <3>1
    <3>3. /\ out \o have \in Seq(MGValues) /\ Len(out \o have) = Len(out) + Len(have)
          /\ \A i \in 1..Len(out) + Len(have) :
               (out \o have)[i] = IF i <= Len(out) THEN out[i] ELSE have[i - Len(out)]
      BY <1>2, ConcatProperties
    <3> QED  BY <3>1, <3>2, <3>3
  <2>3. DOMAIN (mgOut \o have) = 1..n + 1
    BY <2>2, LenProperties
  <2>4. \A i \in 1..n : (mgOut \o have)[i] = mgOut[i]
    BY <2>2
  <2>5. (mgOut \o have)[n + 1] = have[1]
    BY <2>2
  <2> QED  BY <1>3, <2>1, <2>2, <2>3, <2>4, <2>5
<1>7. /\ mgHave'[c] = <<>> /\ mgHave' \in [MGChans -> Seq(MGValues)]
      /\ \A d \in MGChans \ {c} : mgHave'[d] = mgHave[d]
  <2>1. <<>> \in Seq(MGValues)
    OBVIOUS
  <2> QED  BY <1>1, <1>3, <2>1 DEF MGTypeOK
<1>8. MGTypeOK'
  BY <1>1, <1>6, <1>7 DEF MGTypeOK
<1>9. PICK m \in Nat : m = MGSent(c)
  BY <1>1 DEF MGChanSound
<1>10. Len(MGSources[c]) \in Nat /\ mgLeft[c] \in Seq(MGValues) /\ Len(mgLeft[c]) \in Nat
  BY <1>1, MGAssumption DEF MGChans, MGTypeOK
<1>11. MGSent(c)' = m + 1
  <2>1. Len(mgHave[c]) = 1 /\ Len(mgHave'[c]) = 0
    BY <1>2, <1>4, <1>7
  <2>2. PICK a \in Nat, b \in Nat : a = Len(MGSources[c]) /\ b = Len(mgLeft[c])
    BY <1>10
  <2>3. m = a - b - 1
    BY <1>9, <2>1, <2>2 DEF MGSent
  <2>4. MGSent(c)' = a - b - 0
    BY <1>1, <2>1, <2>2 DEF MGSent
  <2> QED  BY <2>2, <2>3, <2>4
<1>12. have[1] = MGSources[c][m + 1]
  BY <1>1, <1>2, <1>3, <1>9 DEF MGChanSound
<1>13. MGChanSound(c)'
  <2>1. ASSUME NEW i \in 1..Len(mgLeft[c]) PROVE mgLeft[c][i] = MGSources[c][(m + 1) + 0 + i]
    <3>1. m + 1 + i = (m + 1) + 0 + i /\ mgLeft[c][i] = MGSources[c][m + 1 + i]
      BY <1>1, <1>2, <1>4, <1>9, <1>10, <2>1 DEF MGChanSound
    <3> QED  BY <3>1
  <2>2. mgPc[c] # "done"
    BY <1>1, <1>2, <1>3 DEF MGChanSound
  <2>3. Len(<<>>) = 0
    OBVIOUS
  <2> QED  BY <1>1, <1>7, <1>11, <2>1, <2>2, <2>3 DEF MGChanSound
<1>14. \A d \in MGChans \ {c} : MGChanSound(d)' /\ MGSent(d)' = MGSent(d)
  <2>1. ASSUME NEW d \in MGChans \ {c} PROVE MGChanSound(d)' /\ MGSent(d)' = MGSent(d)
    <3>1. MGChanSound(d)
      BY DEF MGInv
    <3> QED  BY <1>1, <1>7, <3>1, MGOthers
  <2> QED  BY <2>1
<1>15. \E from : MGFrom(from)'
  <2>1. PICK from : MGFrom(from)
    BY DEF MGInv
  <2>2. PICK next : next = [i \in 1..n + 1 |-> IF i = n + 1 THEN c ELSE from[i]]
    OBVIOUS
  <2>3. next \in [1..n + 1 -> MGChans] /\ next[n + 1] = c /\ \A i \in 1..n : next[i] = from[i]
    BY <1>6, <2>1, <2>2 DEF MGFrom
  <2>4. ASSUME NEW d \in MGChans
        PROVE  /\ MGUpTo(next, d, n + 1) = MGSent(d)'
               /\ \A i \in 1..n + 1 : next[i] = d => mgOut'[i] = MGSources[d][MGUpTo(next, d, i)]
    <3>1. MGUpTo(from, d, n) = MGSent(d)
      BY <1>5, <2>1 DEF MGFrom
    <3>2. MGUpTo(next, d, n + 1) = MGSent(d)'
      <4>1. CASE d = c
        BY <1>9, <1>11, <2>3, <3>1, <4>1, MGUpToNext
      <4>2. CASE d # c
        BY <1>14, <2>3, <3>1, <4>2, MGUpToNext
      <4> QED  BY <4>1, <4>2
    <3>3. ASSUME NEW i \in 1..n, next[i] = d PROVE mgOut'[i] = MGSources[d][MGUpTo(next, d, i)]
      <4>1. from[i] = d /\ mgOut'[i] = mgOut[i] /\ MGUpTo(next, d, i) = MGUpTo(from, d, i)
        BY <1>6, <2>3, <3>3, MGUpToNext
      <4>2. mgOut[i] = MGSources[d][MGUpTo(from, d, i)]
        BY <1>6, <2>1, <4>1 DEF MGFrom
      <4> QED  BY <4>1, <4>2
    <3>4. next[n + 1] = d => mgOut'[n + 1] = MGSources[d][MGUpTo(next, d, n + 1)]
      BY <1>6, <1>11, <1>12, <2>3, <3>2
    <3>5. 1..n + 1 = (1..n) \union {n + 1}
      OBVIOUS
    <3> QED  BY <3>2, <3>3, <3>4, <3>5
  <2>5. MGFrom(next)'
    BY <1>6, <2>3, <2>4 DEF MGFrom
  <2> QED  BY <2>5
<1> QED  BY <1>1, <1>8, <1>13, <1>14, <1>15 DEF MGInv

LEMMA MGDoneKeeps ==
  ASSUME MGInv, NEW c \in MGChans, MGDone(c)
  PROVE  MGInv'
<1>1. /\ MGTypeOK /\ MGChanSound(c) /\ mgPc[c] = "range" /\ mgHave[c] = <<>> /\ mgLeft[c] = <<>>
      /\ mgLeft' = mgLeft /\ mgHave' = mgHave /\ mgOut' = mgOut /\ mgClosed' = mgClosed
      /\ mgPc' = [mgPc EXCEPT ![c] = "done"] /\ mgWg' = mgWg - 1
  BY DEF MGInv, MGDone
<1>2. MGTypeOK'
  BY <1>1 DEF MGTypeOK
<1>3. MGChanSound(c)'
  BY <1>1 DEF MGChanSound, MGSent
<1>4. ASSUME NEW d \in MGChans \ {c} PROVE MGChanSound(d)'
  BY <1>1, <1>4, MGOthers DEF MGInv, MGTypeOK
<1>5. \E from : MGFrom(from)'
  <2>1. PICK from : MGFrom(from)
    BY DEF MGInv
  <2> QED  BY <1>1, <2>1 DEF MGFrom, MGSent
<1>6. IsFiniteSet(MGRunning) /\ c \in MGRunning /\ MGRunning' = MGRunning \ {c}
  <2>1. IsFiniteSet(MGChans)
    BY MGAssumption DEF MGChans
  <2>2. IsFiniteSet(MGRunning)
    BY <2>1, FS_Subset DEF MGRunning
  <2> QED  BY <1>1, <2>2 DEF MGRunning, MGTypeOK
<1>7. mgWg' = Cardinality(MGRunning')
  BY <1>1, <1>6, FS_RemoveElement DEF MGInv
<1>8. mgClosed' => MGRunning' = {}
  BY <1>1, <1>6 DEF MGInv
<1> QED  BY <1>2, <1>3, <1>4, <1>5, <1>7, <1>8 DEF MGInv

LEMMA MGUnchanged ==
  ASSUME MGInv, UNCHANGED <<mgLeft, mgHave, mgPc, mgWg, mgOut>>, mgClosed' => MGRunning = {}
  PROVE  MGInv'
<1>1. MGTypeOK' /\ MGRunning' = MGRunning
  BY DEF MGInv, MGTypeOK, MGRunning
<1>2. ASSUME NEW c \in MGChans PROVE MGChanSound(c)'
  BY <1>2, MGOthers DEF MGInv
<1>3. \E from : MGFrom(from)'
  <2>1. PICK from : MGFrom(from)
    BY DEF MGInv
  <2> QED  BY <2>1 DEF MGFrom, MGSent
<1> QED  BY <1>1, <1>2, <1>3 DEF MGInv

LEMMA MGInvariance == MGInv /\ [MGNext]_mgvars => MGInv'
<1> SUFFICES ASSUME MGInv, [MGNext]_mgvars PROVE MGInv'
  OBVIOUS
<1>1. ASSUME MGClose PROVE MGInv'
  <2>1. IsFiniteSet(MGRunning)
    BY MGAssumption, FS_Subset DEF MGRunning, MGChans
  <2>2. MGRunning = {}
    BY <1>1, <2>1, FS_EmptySet DEF MGClose, MGInv
  <2> QED  BY <1>1, <2>2, MGUnchanged DEF MGClose
<1>2. CASE UNCHANGED mgvars
  <2>1. mgClosed' => MGRunning = {}
    BY <1>2 DEF mgvars, MGInv
  <2> QED  BY <1>2, <2>1, MGUnchanged DEF mgvars
<1> QED  BY <1>1, <1>2, MGReceiveKeeps, MGSendKeeps, MGDoneKeeps DEF MGNext

LEMMA MGInvImplies == MGInv => MGMergeComplete
<1> SUFFICES ASSUME MGInv PROVE MGMergeComplete
  OBVIOUS
<1>1. PICK from : MGFrom(from)
  BY DEF MGInv
<1>2. ASSUME mgClosed, NEW c \in MGChans PROVE mgLeft[c] = <<>> /\ mgHave[c] = <<>>
  BY <1>2 DEF MGInv, MGRunning, MGTypeOK, MGChanSound
<1> QED  BY <1>1, <1>2 DEF MGMergeComplete, MGFrom, MGSent

-----------------------------------------------------------------------------
(* hotelbusiness: the loads of the dates that the sweep has gone through.  *)
(* Events come in the order of their dates, so at the end of a date those  *)
(* up to it have been taken, and the count is that of its guests.          *)

HBStays == \A i \in DOMAIN hbGuests : hbGuests[i][1] < hbGuests[i][2]
HBDateOf(i, in) == hbGuests[i][IF in THEN 1 ELSE 2]
HBEventOf(i, in) == [guest |-> i, in |-> in, date |-> HBDateOf(i, in)]

\* The guests whose arrival or departure has been taken.
HBTaken(in) == {i \in DOMAIN hbGuests : HBEventOf(i, in) \notin hbEvents}

HBTypeOK ==
  /\ hbGuests \in Seq(Int \X Int)
  /\ hbDate \in Int /\ hbCount \in Int /\ hbPrev \in Int
  /\ hbLoads \in Seq(Int \X Int)
  /\ hbEvents \subseteq {HBEventOf(i, in) : i \in DOMAIN hbGuests, in \in BOOLEAN}

HBSweep ==
  /\ hbCount = Cardinality(HBTaken(TRUE)) - Cardinality(HBTaken(FALSE))
  /\ hbDate \in HBDates
  /\ \A i \in DOMAIN hbGuests, in \in BOOLEAN :
       IF i \in HBTaken(in) THEN HBDateOf(i, in) <= hbDate ELSE HBDateOf(i, in) >= hbDate

\* What the date before has reported is the load before this one, if there was one.
HBPrevSound ==
  \/ \A date : date = hbDate => hbPrev = HBBefore(date)
  \/ hbPrev = -1 /\ \A date \in HBDates : hbDate <= date

HBChanges == {date \in HBDates : HBAt(date) # HBBefore(date)}
HBLoadsAre(dates) ==
  /\ {hbLoads[i][1] : i \in DOMAIN hbLoads} = dates
  /\ \A i, j \in DOMAIN hbLoads : i < j => hbLoads[i][1] < hbLoads[j][1]
  /\ \A i \in DOMAIN hbLoads : \A date : date = hbLoads[i][1] => hbLoads[i][2] = HBAt(date)

HBLoadsSound ==
  \A dates : dates = {date \in HBChanges : date < hbDate} => HBLoadsAre(dates)

HBInv ==
  /\ HBTypeOK
  /\ hbPc \in {"call", "loop", "done"}
  /\ hbPc = "call" => hbLoads = <<>> /\ hbCount = 0 /\ hbPrev = -1
  /\ hbPc = "loop" /\ HBStays =>
       HBSweep /\ HBPrevSound /\ HBLoadsSound
  /\ hbPc = "done" /\ HBStays => \A dates : dates = HBChanges => HBLoadsAre(dates)

LEMMA HBTypes ==
  ASSUME HBTypeOK
  PROVE  /\ IsFiniteSet(DOMAIN hbGuests)
         /\ \A i \in DOMAIN hbGuests : hbGuests[i][1] \in Int /\ hbGuests[i][2] \in Int
         /\ \A i \in DOMAIN hbGuests, in \in BOOLEAN : HBDateOf(i, in) \in HBDates
         /\ \A date \in HBDates : /\ date \in Int
                                  /\ \E i \in DOMAIN hbGuests, in \in BOOLEAN : date = HBDateOf(i, in)
<1>1. PICK s \in Seq(Int \X Int) : s = hbGuests
  BY DEF HBTypeOK
<1>2. Len(s) \in Nat /\ DOMAIN s = 1..Len(s) /\ \A i \in 1..Len(s) : s[i] \in Int \X Int
  BY ElementOfSeq, LenProperties
<1>3. IsFiniteSet(1..Len(s))
  BY <1>2, FS_Interval
<1>4. \A i \in DOMAIN hbGuests : hbGuests[i][1] \in Int /\ hbGuests[i][2] \in Int
  BY <1>1, <1>2
<1>5. ASSUME NEW i \in DOMAIN hbGuests, NEW in \in BOOLEAN PROVE HBDateOf(i, in) \in HBDates
  BY <1>5 DEF HBDateOf, HBDates
<1>6. ASSUME NEW date \in HBDates
      PROVE  date \in Int /\ \E i \in DOMAIN hbGuests, in \in BOOLEAN : date = HBDateOf(i, in)
  <2>1. CASE \E i \in DOMAIN hbGuests : date = hbGuests[i][1]
    <3>1. PICK i \in DOMAIN hbGuests : date = hbGuests[i][1]
      BY <2>1
    <3>2. date = HBDateOf(i, TRUE)
      BY <3>1 DEF HBDateOf
    <3> QED  BY <1>4, <3>1, <3>2
  <2>2. CASE \E i \in DOMAIN hbGuests : date = hbGuests[i][2]
    <3>1. PICK i \in DOMAIN hbGuests : date = hbGuests[i][2]
      BY <2>2
    <3>2. date = HBDateOf(i, FALSE)
      BY <3>1 DEF HBDateOf
    <3> QED  BY <1>4, <3>1, <3>2
  <2> QED  BY <1>6, <2>1, <2>2 DEF HBDates
<1> QED  BY <1>1, <1>2, <1>3, <1>4, <1>5, <1>6

\* The guests that are there at dinner are those who came, without those who left.
LEMMA HBCountSplits ==
  ASSUME HBTypeOK, HBStays, NEW came, NEW left,
         came \subseteq DOMAIN hbGuests, left \subseteq came
  PROVE  /\ Cardinality(came \ left) = Cardinality(came) - Cardinality(left)
         /\ Cardinality(came \ left) \in Nat
         /\ Cardinality(came \ left) = 0 <=> came = left
<1>1. IsFiniteSet(came) /\ IsFiniteSet(left) /\ IsFiniteSet(came \ left)
  BY HBTypes, FS_Subset
<1>2. Cardinality((came \ left) \union left)
        = Cardinality(came \ left) + Cardinality(left) - Cardinality((came \ left) \intersect left)
  BY <1>1, FS_Union
<1>3. (came \ left) \union left = came /\ (came \ left) \intersect left = {}
  OBVIOUS
<1>4. /\ Cardinality({}) = 0 /\ Cardinality(came) \in Nat /\ Cardinality(left) \in Nat
      /\ Cardinality(came \ left) \in Nat
      /\ Cardinality(came \ left) = 0 <=> came \ left = {}
  BY <1>1, FS_EmptySet, FS_CardinalityType
<1>5. Cardinality(came \ left) = Cardinality(came) - Cardinality(left)
  <2>1. PICK a \in Nat, b \in Nat, d \in Nat :
          a = Cardinality(came) /\ b = Cardinality(left) /\ d = Cardinality(came \ left)
    BY <1>4
  <2>2. a = d + b - 0
    BY <1>2, <1>3, <1>4, <2>1
  <2> QED  BY <2>1, <2>2
<1>6. came \ left = {} <=> came = left
  OBVIOUS
<1> QED  BY <1>4, <1>5, <1>6

\* Once all events up to the date of the sweep are taken, and none beyond it, the
\* count is the load of this date; and it is the one before the next date.
LEMMA HBCountIsLoad ==
  ASSUME HBTypeOK, HBStays, HBSweep,
         \A i \in DOMAIN hbGuests, in \in BOOLEAN : i \notin HBTaken(in) => HBDateOf(i, in) > hbDate
  PROVE  /\ hbCount = HBAt(hbDate)
         /\ \A date \in HBDates :
              date > hbDate /\ (\A other \in HBDates : other > hbDate => date <= other)
                => HBBefore(date) = hbCount
<1>0. hbDate \in Int
  BY DEF HBTypeOK
<1>1. /\ HBTaken(TRUE) = {i \in DOMAIN hbGuests : hbGuests[i][1] <= hbDate}
      /\ HBTaken(FALSE) = {i \in DOMAIN hbGuests : hbGuests[i][2] <= hbDate}
  <2>1. ASSUME NEW i \in DOMAIN hbGuests, NEW in \in BOOLEAN
        PROVE  i \in HBTaken(in) <=> HBDateOf(i, in) <= hbDate
    <3>1. HBDateOf(i, in) \in Int
      BY HBTypes
    <3>2. IF i \in HBTaken(in) THEN HBDateOf(i, in) <= hbDate ELSE HBDateOf(i, in) > hbDate
      BY DEF HBSweep
    <3> QED  BY <1>0, <3>1, <3>2
  <2>2. \A in \in BOOLEAN : HBTaken(in) \subseteq DOMAIN hbGuests
    BY DEF HBTaken
  <2>3. \A i \in DOMAIN hbGuests : HBDateOf(i, TRUE) = hbGuests[i][1] /\ HBDateOf(i, FALSE) = hbGuests[i][2]
    BY DEF HBDateOf
  <2> QED  BY <2>1, <2>2, <2>3
<1>2. HBTaken(FALSE) \subseteq HBTaken(TRUE)
  <2>1. ASSUME NEW i \in DOMAIN hbGuests, hbGuests[i][2] <= hbDate
        PROVE  hbGuests[i][1] <= hbDate
    <3>1. hbGuests[i][1] \in Int /\ hbGuests[i][2] \in Int /\ hbGuests[i][1] < hbGuests[i][2]
      BY HBTypes DEF HBStays
    <3> QED  BY <1>0, <2>1, <3>1
  <2> QED  BY <1>1, <2>1
<1>3. hbCount = Cardinality(HBTaken(TRUE) \ HBTaken(FALSE))
  BY <1>1, <1>2, HBCountSplits DEF HBSweep
<1>4. {i \in DOMAIN hbGuests : hbGuests[i][1] <= hbDate /\ hbDate < hbGuests[i][2]}
        = HBTaken(TRUE) \ HBTaken(FALSE)
  <2>1. ASSUME NEW i \in DOMAIN hbGuests
        PROVE  hbDate < hbGuests[i][2] <=> ~(hbGuests[i][2] <= hbDate)
    <3>1. hbGuests[i][2] \in Int
      BY HBTypes
    <3> QED  BY <1>0, <3>1
  <2> QED  BY <1>1, <2>1
<1>5. ASSUME NEW date \in HBDates, date > hbDate,
             \A other \in HBDates : other > hbDate => date <= other
      PROVE  HBBefore(date) = hbCount
  <2>1. date \in Int /\ \A i \in DOMAIN hbGuests : hbGuests[i][1] \in HBDates /\ hbGuests[i][2] \in HBDates
    BY HBTypes DEF HBDates
  <2>2. ASSUME NEW i \in DOMAIN hbGuests
        PROVE  /\ hbGuests[i][1] < date <=> hbGuests[i][1] <= hbDate
               /\ date <= hbGuests[i][2] <=> ~(hbGuests[i][2] <= hbDate)
    BY <1>0, <1>5, <2>1, HBTypes
  <2>3. {i \in DOMAIN hbGuests : hbGuests[i][1] < date /\ date <= hbGuests[i][2]}
          = HBTaken(TRUE) \ HBTaken(FALSE)
    BY <1>1, <2>2
  <2> QED  BY <1>3, <2>3 DEF HBBefore
<1> QED  BY <1>3, <1>4, <1>5 DEF HBAt

\* The first date and the last one are among the changes.
LEMMA HBEndsChange ==
  ASSUME HBTypeOK, HBStays, NEW date \in HBDates
  PROVE  /\ HBAt(date) \in Nat /\ HBBefore(date) \in Nat
         /\ (\A other \in HBDates : date <= other) => HBAt(date) # HBBefore(date)
         /\ (\A other \in HBDates : other <= date) => HBAt(date) # HBBefore(date)
<1>0. /\ date \in Int
      /\ \A i \in DOMAIN hbGuests : hbGuests[i][1] \in HBDates /\ hbGuests[i][2] \in HBDates
  BY HBTypes DEF HBDates
<1>1. PICK at : at = {i \in DOMAIN hbGuests : hbGuests[i][1] <= date /\ date < hbGuests[i][2]}
  OBVIOUS
<1>2. PICK before : before = {i \in DOMAIN hbGuests : hbGuests[i][1] < date /\ date <= hbGuests[i][2]}
  OBVIOUS
<1>3. IsFiniteSet(at) /\ IsFiniteSet(before)
  BY <1>1, <1>2, HBTypes, FS_Subset
<1>4. /\ Cardinality(at) \in Nat /\ Cardinality(before) \in Nat
      /\ Cardinality(at) = 0 <=> at = {}
      /\ Cardinality(before) = 0 <=> before = {}
  BY <1>3, FS_CardinalityType, FS_EmptySet
<1>5. HBAt(date) = Cardinality(at) /\ HBBefore(date) = Cardinality(before)
  BY <1>1, <1>2 DEF HBAt, HBBefore
<1>6. PICK i \in DOMAIN hbGuests : date = hbGuests[i][1] \/ date = hbGuests[i][2]
  BY DEF HBDates
<1>7. hbGuests[i][1] \in Int /\ hbGuests[i][2] \in Int /\ hbGuests[i][1] < hbGuests[i][2]
  BY HBTypes DEF HBStays
<1>8. ASSUME \A other \in HBDates : date <= other PROVE HBAt(date) # HBBefore(date)
  <2>1. date = hbGuests[i][1]
    BY <1>0, <1>6, <1>7, <1>8
  <2>2. i \in at
    BY <1>0, <1>1, <1>7, <2>1
  <2>3. before = {}
    BY <1>0, <1>2, <1>8, HBTypes
  <2> QED  BY <1>4, <1>5, <2>2, <2>3
<1>9. ASSUME \A other \in HBDates : other <= date PROVE HBAt(date) # HBBefore(date)
  <2>1. date = hbGuests[i][2]
    BY <1>0, <1>6, <1>7, <1>9
  <2>2. i \in before
    BY <1>0, <1>2, <1>7, <2>1
  <2>3. at = {}
    BY <1>0, <1>1, <1>9, HBTypes
  <2> QED  BY <1>4, <1>5, <2>2, <2>3
<1> QED  BY <1>4, <1>5, <1>8, <1>9

\* One load more.
LEMMA HBAppend ==
  ASSUME HBTypeOK, hbGuests' = hbGuests, NEW dates, HBLoadsAre(dates), NEW d \in Int,
         NEW n \in Int, n = HBAt(d), \A other \in dates : other \in Int /\ other < d,
         hbLoads' = Append(hbLoads, <<d, n>>)
  PROVE  hbLoads' \in Seq(Int \X Int) /\ HBLoadsAre(dates \union {d})'
<1>1. PICK loads \in Seq(Int \X Int) : loads = hbLoads
  BY DEF HBTypeOK
<1>2. PICK k \in Nat : k = Len(loads)
  OBVIOUS
<1>3. /\ DOMAIN hbLoads = 1..k
      /\ hbLoads' \in Seq(Int \X Int) /\ DOMAIN hbLoads' = 1..k + 1
      /\ hbLoads'[k + 1] = <<d, n>> /\ \A i \in 1..k : hbLoads'[i] = hbLoads[i]
  BY <1>1, <1>2, AppendProperties, LenProperties
<1>4. 1..k + 1 = (1..k) \union {k + 1} /\ k + 1 \notin 1..k
  OBVIOUS
<1>5. {hbLoads'[i][1] : i \in 1..k + 1} = dates \union {d}
  <2>1. {hbLoads[i][1] : i \in 1..k} = dates
    BY <1>3 DEF HBLoadsAre
  <2>2. {hbLoads'[i][1] : i \in 1..k} = dates
    BY <1>3, <2>1
  <2>3. hbLoads'[k + 1][1] = d
    BY <1>3
  <2> QED  BY <1>4, <2>2, <2>3
<1>6. ASSUME NEW i \in 1..k + 1, NEW j \in 1..k + 1, i < j
      PROVE  hbLoads'[i][1] < hbLoads'[j][1]
  <2>1. i \in 1..k
    BY <1>6
  <2>2. CASE j \in 1..k
    BY <1>3, <1>6, <2>1, <2>2 DEF HBLoadsAre
  <2>3. CASE j = k + 1
    <3>1. hbLoads[i][1] \in dates
      BY <1>3, <2>1 DEF HBLoadsAre
    <3> QED  BY <1>3, <2>1, <2>3, <3>1
  <2> QED  BY <1>4, <2>2, <2>3
<1>7. ASSUME NEW i \in 1..k + 1, NEW date, date = hbLoads'[i][1]
      PROVE  hbLoads'[i][2] = HBAt(date)'
  <2>1. HBAt(date)' = HBAt(date)
    BY DEF HBAt
  <2>2. CASE i \in 1..k
    BY <1>3, <1>7, <2>1, <2>2 DEF HBLoadsAre
  <2>3. CASE i = k + 1
    BY <1>3, <1>7, <2>1, <2>3
  <2> QED  BY <1>4, <2>2, <2>3
<1> QED  BY <1>3, <1>5, <1>6, <1>7 DEF HBLoadsAre

\* What depends on the guests only.
LEMMA HBSameGuests ==
  ASSUME hbGuests' = hbGuests
  PROVE  /\ HBStays' = HBStays /\ HBDates' = HBDates /\ HBChanges' = HBChanges
         /\ \A date : HBAt(date)' = HBAt(date) /\ HBBefore(date)' = HBBefore(date)
         /\ \A i, in : HBEventOf(i, in)' = HBEventOf(i, in) /\ HBDateOf(i, in)' = HBDateOf(i, in)
<1>1. \A date : HBAt(date)' = HBAt(date) /\ HBBefore(date)' = HBBefore(date)
  BY DEF HBAt, HBBefore
<1>2. HBDates' = HBDates /\ HBStays' = HBStays
  BY DEF HBDates, HBStays
<1>3. HBChanges' = HBChanges
  BY <1>1, <1>2 DEF HBChanges
<1>4. \A i, in : HBEventOf(i, in)' = HBEventOf(i, in) /\ HBDateOf(i, in)' = HBDateOf(i, in)
  BY DEF HBEventOf, HBDateOf
<1> QED  BY <1>1, <1>2, <1>3, <1>4

LEMMA HBEventTaken ==
  ASSUME HBTypeOK, hbGuests' = hbGuests, NEW event \in hbEvents, hbEvents' = hbEvents \ {event}
  PROVE  \E g \in DOMAIN hbGuests, b \in BOOLEAN :
           /\ event = HBEventOf(g, b) /\ event.in = b /\ event.date = HBDateOf(g, b)
           /\ event.date \in Int /\ event.date \in HBDates
           /\ g \notin HBTaken(b) /\ HBTaken(b)' = HBTaken(b) \union {g}
           /\ \A in \in BOOLEAN : in # b => HBTaken(in)' = HBTaken(in)
<1>1. PICK g \in DOMAIN hbGuests, b \in BOOLEAN : event = HBEventOf(g, b)
  BY DEF HBTypeOK
<1>2. event.in = b /\ event.date = HBDateOf(g, b) /\ event.guest = g
  BY <1>1 DEF HBEventOf
<1>3. g \notin HBTaken(b)
  BY <1>1 DEF HBTaken
<1>4. ASSUME NEW in \in BOOLEAN, NEW i \in DOMAIN hbGuests
      PROVE  i \in HBTaken(in)' <=> i \in HBTaken(in) \/ (i = g /\ in = b)
  <2>1. HBEventOf(i, in).guest = i /\ HBEventOf(i, in).in = in
    BY DEF HBEventOf
  <2>2. HBEventOf(i, in) = event <=> i = g /\ in = b
    BY <1>1, <1>2, <2>1
  <2>3. HBEventOf(i, in)' = HBEventOf(i, in)
    BY HBSameGuests
  <2> QED  BY <2>2, <2>3 DEF HBTaken
<1>5. \A in \in BOOLEAN : HBTaken(in)' \subseteq DOMAIN hbGuests /\ HBTaken(in) \subseteq DOMAIN hbGuests
  BY DEF HBTaken
<1>6. event.date \in HBDates
  BY <1>2, HBTypes
<1>7. HBTaken(b)' = HBTaken(b) \union {g}
  BY <1>4, <1>5
<1>8. ASSUME NEW in \in BOOLEAN, in # b PROVE HBTaken(in)' = HBTaken(in)
  BY <1>4, <1>5, <1>8
<1>9. event.date \in Int
  BY <1>6, HBTypes
<1> QED  BY <1>1, <1>2, <1>3, <1>6, <1>7, <1>8, <1>9

\* The sweep goes on over one event, the earliest.
LEMMA HBEventSweeps ==
  ASSUME HBTypeOK, HBStays, HBSweep, hbGuests' = hbGuests,
         NEW event \in HBEarliest(hbEvents), hbEvents' = hbEvents \ {event},
         hbDate' = IF event.date > hbDate THEN event.date ELSE hbDate,
         hbCount' = IF event.in THEN hbCount + 1 ELSE hbCount - 1
  PROVE  HBSweep' /\ event.date \in HBDates /\ event.date \in Int /\ event.date >= hbDate
<1>0. hbDate \in Int /\ hbCount \in Int /\ event \in hbEvents
  BY DEF HBTypeOK, HBEarliest
<1>1. PICK g \in DOMAIN hbGuests, b \in BOOLEAN :
        /\ event = HBEventOf(g, b) /\ event.in = b /\ event.date = HBDateOf(g, b)
        /\ event.date \in Int /\ event.date \in HBDates
        /\ g \notin HBTaken(b) /\ HBTaken(b)' = HBTaken(b) \union {g}
        /\ \A in \in BOOLEAN : in # b => HBTaken(in)' = HBTaken(in)
  BY <1>0, HBEventTaken
<1>2. event.date >= hbDate /\ hbDate' = event.date
  BY <1>0, <1>1 DEF HBSweep
<1>3. ASSUME NEW i \in DOMAIN hbGuests, NEW in \in BOOLEAN
      PROVE  /\ i \notin HBTaken(in) => HBDateOf(i, in) >= event.date
             /\ HBDateOf(i, in) \in Int
  <2>1. i \notin HBTaken(in) => HBEventOf(i, in) \in hbEvents
    BY <1>3 DEF HBTaken
  <2>2. HBEventOf(i, in).date = HBDateOf(i, in)
    BY DEF HBEventOf
  <2> QED  BY <1>3, <2>1, <2>2, HBTypes DEF HBEarliest
<1>4. ASSUME NEW i \in DOMAIN hbGuests, NEW in \in BOOLEAN
      PROVE  IF i \in HBTaken(in)' THEN HBDateOf(i, in)' <= hbDate' ELSE HBDateOf(i, in)' >= hbDate'
  <2>1. HBDateOf(i, in)' = HBDateOf(i, in) /\ HBDateOf(i, in) \in Int
    BY <1>3, <1>4, HBSameGuests
  <2>2. i \in HBTaken(in)' <=> i \in HBTaken(in) \/ (i = g /\ in = b)
    BY <1>1, <1>4
  <2>3. i \in HBTaken(in) => HBDateOf(i, in) <= hbDate
    BY <1>4 DEF HBSweep
  <2> QED  BY <1>0, <1>1, <1>2, <1>3, <2>1, <2>2, <2>3
<1>5. hbCount' = Cardinality(HBTaken(TRUE)') - Cardinality(HBTaken(FALSE)')
  <2>1. \A in \in BOOLEAN : IsFiniteSet(HBTaken(in)) /\ Cardinality(HBTaken(in)) \in Nat
    BY HBTypes, FS_Subset, FS_CardinalityType DEF HBTaken
  <2>2. Cardinality(HBTaken(b)') = Cardinality(HBTaken(b)) + 1
    BY <1>1, <2>1, FS_AddElement
  <2>0. PICK came \in Nat, left \in Nat :
          /\ came = Cardinality(HBTaken(TRUE)) /\ left = Cardinality(HBTaken(FALSE))
          /\ hbCount = came - left
    BY <2>1 DEF HBSweep
  <2>3. CASE b = TRUE
    <3>1. /\ Cardinality(HBTaken(TRUE)') = came + 1 /\ HBTaken(FALSE)' = HBTaken(FALSE)
          /\ hbCount' = hbCount + 1
      BY <1>1, <2>0, <2>2, <2>3
    <3>2. Cardinality(HBTaken(FALSE)') = left
      BY <2>0, <3>1
    <3>3. PICK count \in Int : count = hbCount
      BY <1>0
    <3>4. count = came - left /\ hbCount' = count + 1
      BY <2>0, <3>1, <3>3
    <3>5. hbCount' = (came + 1) - left
      BY <3>4
    <3> QED  BY <3>1, <3>2, <3>5
  <2>4. CASE b = FALSE
    <3>1. /\ Cardinality(HBTaken(FALSE)') = left + 1 /\ HBTaken(TRUE)' = HBTaken(TRUE)
          /\ hbCount' = hbCount - 1
      BY <1>1, <2>0, <2>2, <2>4
    <3>2. Cardinality(HBTaken(TRUE)') = came
      BY <2>0, <3>1
    <3>3. PICK count \in Int : count = hbCount
      BY <1>0
    <3>4. count = came - left /\ hbCount' = count - 1
      BY <2>0, <3>1, <3>3
    <3>5. hbCount' = came - (left + 1)
      BY <3>4
    <3> QED  BY <3>1, <3>2, <3>5
  <2> QED  BY <2>3, <2>4
<1>6. hbDate' \in HBDates'
  BY <1>1, <1>2, HBSameGuests
<1> QED  BY <1>1, <1>2, <1>4, <1>5, <1>6 DEF HBSweep

\* A date that is over is a change exactly when the sweep reports it.
LEMMA HBReported ==
  ASSUME HBTypeOK, HBStays, HBSweep, HBPrevSound, hbCount = HBAt(hbDate)
  PROVE  hbPrev # hbCount <=> hbDate \in HBChanges
<1>1. PICK d : d = hbDate
  OBVIOUS
<1>2. d \in HBDates
  BY <1>1 DEF HBSweep
<1>3. HBAt(d) \in Nat /\ HBBefore(d) \in Nat
  BY <1>2, HBEndsChange
<1>4. hbCount = HBAt(d)
  BY <1>1
<1>5. CASE \A date : date = hbDate => hbPrev = HBBefore(date)
  <2>1. hbPrev = HBBefore(d)
    BY <1>1, <1>5
  <2> QED  BY <1>1, <1>2, <1>3, <1>4, <2>1 DEF HBChanges
<1>6. CASE hbPrev = -1 /\ \A date \in HBDates : hbDate <= date
  <2>1. \A other \in HBDates : d <= other
    BY <1>1, <1>6
  <2>2. HBAt(d) # HBBefore(d)
    BY <1>2, <2>1, HBEndsChange
  <2>3. hbPrev # hbCount
    BY <1>3, <1>4, <1>6
  <2> QED  BY <1>1, <1>2, <2>2, <2>3 DEF HBChanges
<1> QED  BY <1>5, <1>6 DEF HBPrevSound

LEMMA HBReportKeeps ==
  ASSUME HBTypeOK, HBStays, HBSweep, HBPrevSound, HBLoadsSound, hbGuests' = hbGuests,
         NEW event \in HBEarliest(hbEvents), event.date \in HBDates,
         event.date > hbDate, HBReport(event)
  PROVE  HBPrevSound' /\ HBLoadsSound'
<1>0. /\ hbDate \in Int /\ hbCount \in Int /\ event.date \in Int /\ hbDate' = event.date
      /\ \A date \in HBDates : date \in Int
  BY HBTypes DEF HBTypeOK, HBReport
<1>1. ASSUME NEW i \in DOMAIN hbGuests, NEW in \in BOOLEAN, i \notin HBTaken(in)
      PROVE  HBDateOf(i, in) >= event.date
  <2>1. HBEventOf(i, in) \in hbEvents
    BY <1>1 DEF HBTaken
  <2>2. HBEventOf(i, in).date = HBDateOf(i, in)
    BY DEF HBEventOf
  <2> QED  BY <2>1, <2>2 DEF HBEarliest
<1>2. ASSUME NEW other \in HBDates, other > hbDate PROVE event.date <= other
  <2>1. PICK i \in DOMAIN hbGuests, in \in BOOLEAN : other = HBDateOf(i, in)
    BY <1>2, HBTypes
  <2>2. other \in Int
    BY <1>0, <1>2
  <2>3. i \notin HBTaken(in)
    BY <1>0, <1>2, <2>1, <2>2 DEF HBSweep
  <2> QED  BY <1>0, <1>1, <2>1, <2>2, <2>3
<1>3. hbCount = HBAt(hbDate) /\ HBBefore(event.date) = hbCount
  <2>1. \A i \in DOMAIN hbGuests, in \in BOOLEAN : i \notin HBTaken(in) => HBDateOf(i, in) > hbDate
    <3>1. ASSUME NEW i \in DOMAIN hbGuests, NEW in \in BOOLEAN, i \notin HBTaken(in)
          PROVE  HBDateOf(i, in) > hbDate
      <4>1. HBDateOf(i, in) \in Int
        BY HBTypes
      <4> QED  BY <1>0, <1>1, <3>1, <4>1
    <3> QED  BY <3>1
  <2> QED  BY <1>2, <2>1, HBCountIsLoad
<1>4. PICK old : old = {date \in HBChanges : date < hbDate}
  OBVIOUS
<1>5. HBLoadsAre(old)
  BY <1>4 DEF HBLoadsSound
<1>6. HBChanges \subseteq HBDates
  BY DEF HBChanges
<1>7. {date \in HBChanges' : date < hbDate'} = IF hbDate \in HBChanges THEN old \union {hbDate} ELSE old
  <2>1. HBChanges' = HBChanges
    BY HBSameGuests
  <2>2. \A date \in HBChanges : date < event.date <=> date < hbDate \/ date = hbDate
    BY <1>0, <1>2, <1>6
  <2> QED  BY <1>0, <1>4, <2>1, <2>2
<1>8. hbPrev # hbCount <=> hbDate \in HBChanges
  BY <1>3, HBReported
<1>9. hbPrev' = hbCount
  BY <1>0, <1>8 DEF HBReport
<1>10. HBPrevSound'
  <2>1. \A date : date = event.date => hbCount = HBBefore(date)'
    <3>1. PICK d : d = event.date
      OBVIOUS
    <3>2. HBBefore(d)' = HBBefore(d) /\ HBBefore(d) = hbCount
      BY <1>3, <3>1, HBSameGuests
    <3> QED  BY <3>1, <3>2
  <2> QED  BY <1>0, <1>9, <2>1 DEF HBPrevSound
<1>11. CASE hbDate \in HBChanges
  <2>1. hbLoads' = Append(hbLoads, <<hbDate, hbCount>>)
    BY <1>0, <1>8, <1>11 DEF HBReport
  <2>2. PICK d \in Int, n \in Int : d = hbDate /\ n = hbCount
    BY <1>0
  <2>3. n = HBAt(d)
    BY <1>3, <2>2
  <2>4. \A other \in old : other \in Int /\ other < d
    BY <1>0, <1>4, <1>6, <2>2
  <2>5. hbLoads' = Append(hbLoads, <<d, n>>)
    BY <2>1, <2>2
  <2>6. HBLoadsAre(old \union {d})'
    BY <1>5, <2>3, <2>4, <2>5, HBAppend
  <2>7. PICK now : now = old \union {d}
    OBVIOUS
  <2>8. HBLoadsAre(now)'
    BY <2>6, <2>7
  <2>9. {date \in HBChanges' : date < hbDate'} = now
    BY <1>7, <1>11, <2>2, <2>7
  <2> QED  BY <1>10, <2>8, <2>9 DEF HBLoadsSound
<1>12. CASE hbDate \notin HBChanges
  <2>1. hbLoads' = hbLoads
    BY <1>0, <1>8, <1>12 DEF HBReport
  <2>2. HBLoadsAre(old)'
    BY <1>5, <2>1, HBSameGuests DEF HBLoadsAre
  <2>3. {date \in HBChanges' : date < hbDate'} = old
    BY <1>7, <1>12
  <2> QED  BY <1>10, <2>2, <2>3 DEF HBLoadsSound
<1> QED  BY <1>11, <1>12

LEMMA HBEventKeeps ==
  ASSUME HBInv, HBEvent
  PROVE  HBInv'
<1>1. PICK event \in HBEarliest(hbEvents) :
        /\ hbEvents' = hbEvents \ {event}
        /\ HBReport(event)
        /\ hbCount' = IF event.in THEN hbCount + 1 ELSE hbCount - 1
  BY DEF HBEvent
<1>2. hbPc = "loop" /\ hbPc' = "loop" /\ hbGuests' = hbGuests /\ HBTypeOK
  BY DEF HBEvent, HBInv
<1>3. /\ hbDate \in Int /\ hbCount \in Int /\ hbPrev \in Int /\ event \in hbEvents
      /\ hbLoads \in Seq(Int \X Int)
  BY <1>2 DEF HBTypeOK, HBEarliest
<1>4. event.date \in Int /\ event.date \in HBDates
  BY <1>1, <1>2, <1>3, HBEventTaken
<1>5. HBTypeOK'
  <2>1. hbEvents' \subseteq {HBEventOf(i, in)' : i \in DOMAIN hbGuests', in \in BOOLEAN}
    <3>1. ASSUME NEW e \in hbEvents PROVE \E i \in DOMAIN hbGuests', in \in BOOLEAN : e = HBEventOf(i, in)'
      BY <1>2, HBSameGuests DEF HBTypeOK
    <3> QED  BY <1>1, <3>1
  <2>2. hbLoads' \in Seq(Int \X Int)
    <3>1. <<hbDate, hbCount>> \in Int \X Int
      BY <1>3
    <3>2. Append(hbLoads, <<hbDate, hbCount>>) \in Seq(Int \X Int)
      BY <1>3, <3>1, AppendProperties
    <3> QED  BY <1>1, <1>3, <3>2 DEF HBReport
  <2>3. hbDate' \in Int /\ hbPrev' \in Int
    BY <1>1, <1>3, <1>4 DEF HBReport
  <2>4. hbCount' \in Int
    BY <1>1, <1>3
  <2>5. hbGuests' \in Seq(Int \X Int)
    BY <1>2 DEF HBTypeOK
  <2> QED  BY <2>1, <2>2, <2>3, <2>4, <2>5 DEF HBTypeOK
<1>6. ASSUME HBStays PROVE HBSweep' /\ HBPrevSound' /\ HBLoadsSound'
  <2>1. HBSweep /\ HBPrevSound /\ HBLoadsSound
    BY <1>2, <1>6 DEF HBInv
  <2>2. hbDate' = IF event.date > hbDate THEN event.date ELSE hbDate
    BY <1>1, <1>3, <1>4 DEF HBReport
  <2>3. HBSweep' /\ event.date >= hbDate
    BY <1>1, <1>2, <1>6, <2>1, <2>2, HBEventSweeps
  <2>4. CASE event.date > hbDate
    BY <1>1, <1>2, <1>4, <1>6, <2>1, <2>3, <2>4, HBReportKeeps
  <2>5. CASE event.date = hbDate
    <3>1. hbDate' = hbDate /\ hbLoads' = hbLoads /\ hbPrev' = hbPrev
      BY <1>1, <1>3, <2>5 DEF HBReport
    <3>2. HBPrevSound'
      BY <1>2, <2>1, <3>1, HBSameGuests DEF HBPrevSound
    <3>3. HBLoadsSound'
      BY <1>2, <2>1, <3>1, HBSameGuests DEF HBLoadsSound, HBLoadsAre
    <3> QED  BY <2>3, <3>2, <3>3
  <2> QED  BY <1>3, <1>4, <2>3, <2>4, <2>5
<1> QED  BY <1>2, <1>5, <1>6, HBSameGuests DEF HBInv

LEMMA HBReturnKeeps ==
  ASSUME HBInv, HBReturn
  PROVE  HBInv'
<1>1. /\ hbPc = "loop" /\ hbEvents = {} /\ hbPc' = "done" /\ hbGuests' = hbGuests /\ HBTypeOK
      /\ hbLoads' = Append(hbLoads, <<hbDate, hbCount>>)
      /\ UNCHANGED <<hbEvents, hbDate, hbCount, hbPrev>>
  BY DEF HBReturn, HBInv
<1>2. PICK d \in Int, n \in Int : d = hbDate /\ n = hbCount
  BY <1>1 DEF HBTypeOK
<1>3. HBTypeOK'
  <2>1. hbLoads' \in Seq(Int \X Int)
    <3>1. <<d, n>> \in Int \X Int /\ hbLoads \in Seq(Int \X Int)
      BY <1>1 DEF HBTypeOK
    <3> QED  BY <1>1, <1>2, <3>1, AppendProperties
  <2> QED  BY <1>1, <2>1 DEF HBTypeOK
<1>4. ASSUME HBStays PROVE \A dates : dates = HBChanges' => HBLoadsAre(dates)'
  <2>1. HBSweep /\ HBPrevSound /\ HBLoadsSound
    BY <1>1, <1>4 DEF HBInv
  <2>2. \A i \in DOMAIN hbGuests, in \in BOOLEAN : i \in HBTaken(in)
    BY <1>1 DEF HBTaken
  <2>3. n = HBAt(d)
    BY <1>1, <1>2, <1>4, <2>1, <2>2, HBCountIsLoad
  <2>4. d \in HBDates /\ \A other \in HBDates : other \in Int /\ other <= d
    <3>1. ASSUME NEW other \in HBDates PROVE other \in Int /\ other <= d
      <4>1. PICK i \in DOMAIN hbGuests, in \in BOOLEAN : other = HBDateOf(i, in)
        BY <1>1, HBTypes
      <4> QED  BY <1>1, <1>2, <2>1, <2>2, <4>1, HBTypes DEF HBSweep
    <3> QED  BY <1>2, <2>1, <3>1 DEF HBSweep
  <2>5. d \in HBChanges
    BY <1>1, <1>4, <2>4, HBEndsChange DEF HBChanges
  <2>6. PICK old : old = {date \in HBChanges : date < hbDate}
    OBVIOUS
  <2>7. HBLoadsAre(old)
    BY <2>1, <2>6 DEF HBLoadsSound
  <2>8. HBChanges = old \union {d} /\ \A other \in old : other \in Int /\ other < d
    <3>1. \A other \in HBChanges : other \in Int /\ other <= d
      BY <2>4 DEF HBChanges
    <3>2. ASSUME NEW other \in HBChanges PROVE other < hbDate <=> other # d
      BY <1>2, <3>1, <3>2
    <3>3. old = HBChanges \ {d}
      BY <2>6, <3>2
    <3>4. \A other \in old : other < d
      BY <1>2, <2>6
    <3> QED  BY <2>5, <3>1, <3>3, <3>4
  <2>9. HBLoadsAre(old \union {d})'
    BY <1>1, <1>2, <2>3, <2>7, <2>8, HBAppend
  <2>10. PICK now : now = old \union {d}
    OBVIOUS
  <2>11. HBLoadsAre(now)'
    BY <2>9, <2>10
  <2>12. HBChanges' = now
    BY <1>1, <2>8, <2>10, HBSameGuests
  <2> QED  BY <2>11, <2>12
<1> QED  BY <1>1, <1>3, <1>4, HBSameGuests DEF HBInv

\* The sort puts one of the earliest events first.
LEMMA HBFirst ==
  ASSUME NEW s \in Seq(Int \X Int), s # <<>>, NEW events,
         \A k \in DOMAIN s : /\ [guest |-> k, in |-> TRUE, date |-> s[k][1]] \in events
                             /\ [guest |-> k, in |-> FALSE, date |-> s[k][2]] \in events,
         \A e \in events : \E k \in DOMAIN s : e.date = s[k][1] \/ e.date = s[k][2]
  PROVE  /\ HBEarliest(events) # {}
         /\ \A e \in HBEarliest(events) :
              /\ e.date \in Int
              /\ \E i \in DOMAIN s : e.date = s[i][1] \/ e.date = s[i][2]
              /\ \A i \in DOMAIN s : e.date <= s[i][1] /\ e.date <= s[i][2]
<1>1. Len(s) \in Nat /\ DOMAIN s = 1..Len(s) /\ Len(s) # 0 /\ \A i \in 1..Len(s) : s[i] \in Int \X Int
  BY ElementOfSeq, LenProperties, EmptySeq
<1>2. \A i \in DOMAIN s : s[i][1] \in Int /\ s[i][2] \in Int
  BY <1>1
<1>3. IsFiniteSet(DOMAIN s) /\ DOMAIN s # {}
  <2>1. PICK n \in Nat \ {0} : n = Len(s)
    BY <1>1
  <2>2. DOMAIN s = 1..n /\ 1 \in 1..n
    BY <1>1, <2>1
  <2>3. IsFiniteSet(1..n)
    BY FS_Interval
  <2>4. 1..n # {}
    BY <2>2
  <2> QED  BY <2>2, <2>3, <2>4
<1>4. PICK f : f = [i \in DOMAIN s |-> IF s[i][1] <= s[i][2] THEN 0 - s[i][1] ELSE 0 - s[i][2]]
  OBVIOUS
<1>5. \A i \in DOMAIN s : f[i] \in Int
  BY <1>2, <1>4
<1>6. PICK i \in DOMAIN s : \A j \in DOMAIN s : f[j] <= f[i]
  BY <1>3, <1>5, LGGreatest
<1>8. PICK e : e = IF s[i][1] <= s[i][2] THEN [guest |-> i, in |-> TRUE, date |-> s[i][1]]
                                         ELSE [guest |-> i, in |-> FALSE, date |-> s[i][2]]
  OBVIOUS
<1>9. e \in events /\ e.date = (IF s[i][1] <= s[i][2] THEN s[i][1] ELSE s[i][2]) /\ e.date \in Int
  BY <1>2, <1>8
<1>10. ASSUME NEW j \in DOMAIN s PROVE e.date <= s[j][1] /\ e.date <= s[j][2]
  <2>1. f[j] <= f[i] /\ f[i] \in Int /\ s[j][1] \in Int /\ s[j][2] \in Int
    BY <1>2, <1>5, <1>6
  <2>2. /\ f[j] = IF s[j][1] <= s[j][2] THEN 0 - s[j][1] ELSE 0 - s[j][2]
        /\ f[i] = IF s[i][1] <= s[i][2] THEN 0 - s[i][1] ELSE 0 - s[i][2]
    BY <1>4
  <2>3. s[i][1] \in Int /\ s[i][2] \in Int
    BY <1>2
  <2>4. PICK a \in Int, b \in Int, c \in Int, d \in Int :
          a = s[i][1] /\ b = s[i][2] /\ c = s[j][1] /\ d = s[j][2]
    BY <2>1, <2>3
  <2>5. /\ f[i] = IF a <= b THEN 0 - a ELSE 0 - b
        /\ f[j] = IF c <= d THEN 0 - c ELSE 0 - d
        /\ e.date = IF a <= b THEN a ELSE b
    BY <1>9, <2>2, <2>4
  <2>6. (IF c <= d THEN 0 - c ELSE 0 - d) <= (IF a <= b THEN 0 - a ELSE 0 - b)
    BY <2>1, <2>5
  <2>7. (IF a <= b THEN a ELSE b) <= c /\ (IF a <= b THEN a ELSE b) <= d
    <3>1. CASE a <= b /\ c <= d
      <4>1. 0 - c <= 0 - a
        BY <2>6, <3>1
      <4> QED  BY <3>1, <4>1
    <3>2. CASE a <= b /\ ~(c <= d)
      <4>1. 0 - d <= 0 - a
        BY <2>6, <3>2
      <4> QED  BY <3>2, <4>1
    <3>3. CASE ~(a <= b) /\ c <= d
      <4>1. 0 - c <= 0 - b
        BY <2>6, <3>3
      <4> QED  BY <3>3, <4>1
    <3>4. CASE ~(a <= b) /\ ~(c <= d)
      <4>1. 0 - d <= 0 - b
        BY <2>6, <3>4
      <4> QED  BY <3>4, <4>1
    <3> QED  BY <3>1, <3>2, <3>3, <3>4
  <2> QED  BY <2>4, <2>5, <2>7
<1>11. e \in HBEarliest(events)
  <2>1. ASSUME NEW other \in events PROVE e.date <= other.date
    <3>1. PICK j \in DOMAIN s : other.date = s[j][1] \/ other.date = s[j][2]
      OBVIOUS
    <3> QED  BY <1>10, <3>1
  <2> QED  BY <1>9, <2>1 DEF HBEarliest
<1>12. ASSUME NEW first \in HBEarliest(events)
       PROVE  /\ first.date \in Int
              /\ \E j \in DOMAIN s : first.date = s[j][1] \/ first.date = s[j][2]
              /\ \A j \in DOMAIN s : first.date <= s[j][1] /\ first.date <= s[j][2]
  <2>1. first \in events /\ \A other \in events : first.date <= other.date
    BY DEF HBEarliest
  <2>3. PICK j \in DOMAIN s : first.date = s[j][1] \/ first.date = s[j][2]
    BY <2>1
  <2>4. ASSUME NEW k \in DOMAIN s PROVE first.date <= s[k][1] /\ first.date <= s[k][2]
    <3>1. PICK came, left : /\ came = [guest |-> k, in |-> TRUE, date |-> s[k][1]]
                            /\ left = [guest |-> k, in |-> FALSE, date |-> s[k][2]]
      OBVIOUS
    <3>2. came \in events /\ left \in events /\ came.date = s[k][1] /\ left.date = s[k][2]
      BY <3>1
    <3> QED  BY <2>1, <3>2
  <2> QED  BY <1>2, <2>3, <2>4
<1> QED  BY <1>11, <1>12

LEMMA HBComputeKeeps ==
  ASSUME HBInv, HBComputeLoad
  PROVE  HBInv'
<1>1. /\ hbPc = "call" /\ HBTypeOK /\ hbLoads = <<>> /\ hbCount = 0 /\ hbPrev = -1
      /\ hbLoads' = <<>> /\ hbCount' = 0 /\ hbPrev' = -1
      /\ hbGuests' \in Seq(Int \X Int)
  BY HBAssumption DEF HBComputeLoad, HBInv
<1>2. PICK s \in Seq(Int \X Int) : s = hbGuests'
  BY <1>1
<1>3. hbEvents' = {[guest |-> i, in |-> in, date |-> s[i][IF in THEN 1 ELSE 2]] :
                     i \in DOMAIN s, in \in BOOLEAN}
  BY <1>2 DEF HBComputeLoad
<1>4. /\ hbEvents' = {HBEventOf(i, in)' : i \in DOMAIN hbGuests', in \in BOOLEAN}
      /\ \A in \in BOOLEAN : HBTaken(in)' = {}
  <2>1. \A i, in : HBEventOf(i, in)' = [guest |-> i, in |-> in, date |-> s[i][IF in THEN 1 ELSE 2]]
    BY <1>2 DEF HBEventOf, HBDateOf
  <2>2. hbEvents' = {HBEventOf(i, in)' : i \in DOMAIN hbGuests', in \in BOOLEAN}
    BY <1>2, <1>3, <2>1
  <2> QED  BY <2>2 DEF HBTaken
<1>5. HBLoadsAre({})'
  BY <1>1 DEF HBLoadsAre
<1>6. CASE s = <<>>
  <2>1. DOMAIN s = {} /\ hbEvents' = {}
    BY <1>3, <1>6
  <2>2. hbPc' = "done" /\ hbDate' = hbDate
    BY <2>1 DEF HBComputeLoad
  <2>3. HBTypeOK'
    BY <1>1, <2>1, <2>2 DEF HBTypeOK
  <2>4. HBChanges' = {}
    BY <1>2, <2>1 DEF HBChanges, HBDates
  <2>5. \A dates : dates = HBChanges' => HBLoadsAre(dates)'
    BY <1>5, <2>4
  <2> QED  BY <2>2, <2>3, <2>5 DEF HBInv
<1>7. CASE s # <<>>
  <2>1. PICK events : events = hbEvents'
    OBVIOUS
  <2>2. /\ HBEarliest(events) # {} /\ events # {}
        /\ \A e \in HBEarliest(events) :
             /\ e.date \in Int
             /\ \E i \in DOMAIN s : e.date = s[i][1] \/ e.date = s[i][2]
             /\ \A i \in DOMAIN s : e.date <= s[i][1] /\ e.date <= s[i][2]
    <3>1. /\ \A k \in DOMAIN s : /\ [guest |-> k, in |-> TRUE, date |-> s[k][1]] \in events
                                /\ [guest |-> k, in |-> FALSE, date |-> s[k][2]] \in events
          /\ \A e \in events : \E k \in DOMAIN s : e.date = s[k][1] \/ e.date = s[k][2]
      <4>1. ASSUME NEW k \in DOMAIN s
            PROVE  /\ [guest |-> k, in |-> TRUE, date |-> s[k][1]] \in events
                   /\ [guest |-> k, in |-> FALSE, date |-> s[k][2]] \in events
        <5>1. HBEventOf(k, TRUE)' = [guest |-> k, in |-> TRUE, date |-> s[k][1]]
          BY <1>2 DEF HBEventOf, HBDateOf
        <5>2. HBEventOf(k, FALSE)' = [guest |-> k, in |-> FALSE, date |-> s[k][2]]
          BY <1>2 DEF HBEventOf, HBDateOf
        <5>3. \A in \in BOOLEAN : HBEventOf(k, in)' \in events
          BY <1>2, <1>4, <2>1
        <5> QED  BY <5>1, <5>2, <5>3
      <4>2. ASSUME NEW e \in events PROVE \E k \in DOMAIN s : e.date = s[k][1] \/ e.date = s[k][2]
        <5>1. PICK k \in DOMAIN s, in \in BOOLEAN : e = HBEventOf(k, in)'
          BY <1>2, <1>4, <2>1
        <5>2. e.date = s[k][1] \/ e.date = s[k][2]
          BY <1>2, <5>1 DEF HBEventOf, HBDateOf
        <5> QED  BY <5>2
      <4> QED  BY <4>1, <4>2
    <3>2. HBEarliest(events) \subseteq events
      BY DEF HBEarliest
    <3> QED  BY <1>7, <3>1, <3>2, HBFirst
  <2>3. PICK e \in HBEarliest(events) : hbPc' = "loop" /\ hbDate' = e.date
    <3>1. hbPc' = "loop" /\ hbDate' = (CHOOSE e \in HBEarliest(events) : TRUE).date
      BY <2>1, <2>2 DEF HBComputeLoad
    <3>2. (CHOOSE e \in HBEarliest(events) : TRUE) \in HBEarliest(events)
      BY <2>2
    <3> QED  BY <3>1, <3>2
  <2>4. /\ hbDate' \in Int
        /\ \E i \in DOMAIN s : hbDate' = s[i][1] \/ hbDate' = s[i][2]
        /\ \A i \in DOMAIN s : hbDate' <= s[i][1] /\ hbDate' <= s[i][2]
    BY <2>2, <2>3
  <2>5. HBDates' = {s[i][1] : i \in DOMAIN s} \union {s[i][2] : i \in DOMAIN s}
    BY <1>2 DEF HBDates
  <2>6. hbDate' \in HBDates' /\ \A date \in HBDates' : hbDate' <= date
    BY <2>4, <2>5
  <2>7. HBTypeOK'
    BY <1>1, <1>4, <2>4 DEF HBTypeOK
  <2>8. HBSweep'
    <3>1. ASSUME NEW i \in DOMAIN s, NEW in \in BOOLEAN PROVE HBDateOf(i, in)' >= hbDate'
      BY <1>2, <2>4, <3>1 DEF HBDateOf
    <3>2. hbCount' = Cardinality(HBTaken(TRUE)') - Cardinality(HBTaken(FALSE)')
      <4>1. HBTaken(TRUE)' = {} /\ HBTaken(FALSE)' = {} /\ Cardinality({}) = 0
        BY <1>4, FS_EmptySet
      <4>2. Cardinality(HBTaken(TRUE)') = 0 /\ Cardinality(HBTaken(FALSE)') = 0
        BY <4>1
      <4>3. hbCount' = 0 - 0
        BY <1>1
      <4> QED  BY <4>2, <4>3
    <3> QED  BY <1>2, <1>4, <2>6, <3>1, <3>2 DEF HBSweep
  <2>9. HBPrevSound'
    BY <1>1, <2>6 DEF HBPrevSound
  <2>10. HBLoadsSound'
    <3>1. HBChanges' \subseteq HBDates' /\ \A date \in HBDates' : date \in Int
      <4>1. \A i \in DOMAIN s : s[i][1] \in Int /\ s[i][2] \in Int
        <5>1. \A i \in DOMAIN s : s[i] \in Int \X Int
          BY ElementOfSeq, LenProperties
        <5> QED  BY <5>1
      <4> QED  BY <2>5, <4>1 DEF HBChanges
    <3>2. {date \in HBChanges' : date < hbDate'} = {}
      <4>1. ASSUME NEW date \in HBChanges', date < hbDate' PROVE FALSE
        <5>1. date \in Int /\ hbDate' <= date
          BY <2>6, <3>1
        <5> QED  BY <2>4, <4>1, <5>1
      <4> QED  BY <4>1
    <3> QED  BY <1>5, <3>2 DEF HBLoadsSound
  <2> QED  BY <2>3, <2>7, <2>8, <2>9, <2>10 DEF HBInv
<1> QED  BY <1>6, <1>7

LEMMA HBInitInv == HBInit => HBInv
<1> SUFFICES ASSUME HBInit PROVE HBInv
  OBVIOUS
<1>1. <<>> \in Seq(Int \X Int)
  OBVIOUS
<1> QED  BY <1>1 DEF HBInit, HBInv, HBTypeOK

LEMMA HBInvariance == HBInv /\ [HBNext]_hbvars => HBInv'
<1> SUFFICES ASSUME HBInv, [HBNext]_hbvars PROVE HBInv'
  OBVIOUS
<1>1. CASE UNCHANGED hbvars
  <2>1. /\ hbGuests' = hbGuests /\ hbEvents' = hbEvents /\ hbDate' = hbDate /\ hbCount' = hbCount
        /\ hbPrev' = hbPrev /\ hbLoads' = hbLoads /\ hbPc' = hbPc
    BY <1>1 DEF hbvars
  <2>2. HBTypeOK'
    BY <2>1, HBSameGuests DEF HBInv, HBTypeOK
  <2>3. \A in : HBTaken(in)' = HBTaken(in)
    BY <2>1, HBSameGuests DEF HBTaken
  <2>4. \A dates : HBLoadsAre(dates)' <=> HBLoadsAre(dates)
    BY <2>1, HBSameGuests DEF HBLoadsAre
  <2>5. HBSweep => HBSweep'
    BY <2>1, <2>3, HBSameGuests DEF HBSweep
  <2>6. (HBPrevSound => HBPrevSound') /\ (HBLoadsSound => HBLoadsSound')
    BY <2>1, <2>4, HBSameGuests DEF HBPrevSound, HBLoadsSound
  <2> QED  BY <2>1, <2>2, <2>4, <2>5, <2>6, HBSameGuests DEF HBInv
<1> QED  BY <1>1, HBComputeKeeps, HBEventKeeps, HBReturnKeeps DEF HBNext

LEMMA HBInvImplies == HBInv => HBLoadsExact
<1> SUFFICES ASSUME HBInv, hbPc = "done", HBStays
             PROVE  /\ {hbLoads[i][1] : i \in DOMAIN hbLoads} = HBChanges
                    /\ \A i, j \in DOMAIN hbLoads : i < j => hbLoads[i][1] < hbLoads[j][1]
                    /\ \A i \in DOMAIN hbLoads : hbLoads[i][2] = HBAt(hbLoads[i][1])
  BY DEF HBLoadsExact, HBStays, HBChanges
<1>1. HBLoadsAre(HBChanges)
  BY DEF HBInv
<1> QED  BY <1>1 DEF HBLoadsAre

\* Whatever the rules, the bodies, the splits into calls, the trees, the students, the
\* directories and the channels: nothing passes that a rule forbids, no byte is xored
\* with another's, no score is unearned, nothing private is published, no file arrives
\* in part and no value is lost on its way through a merge, repeated or overtaken.
THEOREM NothingEverSlipsThrough == Spec => []NothingSlipsThrough
<1> DEFINE Inv == FWInv /\ OTInv /\ TTGradeInv /\ TTExportInv /\ TAInv /\ MGInv
<1>1. Init => Inv
  BY FWInitInv, OTInitInv, TTInitGrade, TTInitExport, TAInitInv, MGInitInv DEF Init
<1>2. Inv /\ [Next]_vars => Inv'
  BY AlgorithmSteps, FWInvariance, OTInvariance, TTGradeStepKeeps, TTExportStepKeeps,
     TAInvariance, MGInvariance
<1>3. Inv => NothingSlipsThrough
  BY FWInvRules, TTGradeInvImplies, TTExportInvImplies, TAInvImplies, MGInvImplies
     DEF NothingSlipsThrough, OTInv
<1> QED  BY <1>1, <1>2, <1>3, PTL DEF Spec

\* The loads that hotelbusiness computes, whatever guests there are that stay for a
\* night, and in whatever order its sort leaves the events of one date.
THEOREM LoadsAreExact == Spec => []HBLoadsExact
<1>1. Init => HBInv
  BY HBInitInv DEF Init
<1>2. HBInv /\ [Next]_vars => HBInv'
  BY AlgorithmSteps, HBInvariance
<1> QED  BY <1>1, <1>2, HBInvImplies, PTL DEF Spec
=============================================================================
