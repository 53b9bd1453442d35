------------------------------- MODULE TopSort -------------------------------
(***************************************************************************)
(* distbuild/pkg/build/top_sort.go: jobs in the order of their             *)
(* dependencies.  The walk is one of Go's recursion, kept here as a stack. *)
(***************************************************************************)
EXTENDS Integers, Sequences, SequencesExt

CONSTANTS
  TSIDs,     \* job IDs
  TSGraphs   \* the arguments: sequences of [id, deps]

ASSUME TSAssumption == TSGraphs \subseteq Seq([id : TSIDs, deps : Seq(TSIDs)])

VARIABLES
  tsJobs,     \* jobs
  tsStack,    \* the calls of visit: [job, dep: how many deps are behind it]
  tsNext,     \* i, the job from which the outer loop goes on
  tsVisited,  \* visited
  tsSorted    \* sorted, the indexes of the jobs

tsvars == <<tsJobs, tsStack, tsNext, tsVisited, tsSorted>>

TSInit ==
  /\ tsJobs = <<>> /\ tsStack = <<>> /\ tsNext = 1
  /\ tsVisited = {} /\ tsSorted = <<>>

TSTopSort ==
  /\ tsJobs = <<>>
  /\ tsJobs' \in TSGraphs
  /\ UNCHANGED <<tsStack, tsNext, tsVisited, tsSorted>>

\* jobIDIndex: the last job with the ID, and the first of all for an unknown one.
TSIndex(id) ==
  LET bearers == {i \in DOMAIN tsJobs : tsJobs[i].id = id} IN
  IF bearers = {} THEN 1 ELSE CHOOSE i \in bearers : \A j \in bearers : j <= i

TSLoop ==
  /\ tsStack = <<>> /\ tsNext <= Len(tsJobs)
  /\ tsNext' = tsNext + 1
  /\ IF tsNext \in tsVisited
     THEN UNCHANGED <<tsStack, tsVisited>>
     ELSE /\ tsStack' = <<[job |-> tsNext, dep |-> 0]>>
          /\ tsVisited' = tsVisited \union {tsNext}
  /\ UNCHANGED <<tsJobs, tsSorted>>

TSTop == Last(tsStack)
TSNextDep == [tsStack EXCEPT ![Len(tsStack)].dep = @ + 1]
TSDeps == tsJobs[TSTop.job].deps

TSVisit ==
  /\ tsStack # <<>> /\ TSTop.dep < Len(TSDeps)
  /\ LET job == TSIndex(TSDeps[TSTop.dep + 1]) IN
       IF job \in tsVisited
       THEN tsStack' = TSNextDep /\ UNCHANGED tsVisited
       ELSE /\ tsStack' = Append(TSNextDep, [job |-> job, dep |-> 0])
            /\ tsVisited' = tsVisited \union {job}
  /\ UNCHANGED <<tsJobs, tsNext, tsSorted>>

TSAppend ==
  /\ tsStack # <<>> /\ TSTop.dep = Len(TSDeps)
  /\ tsSorted' = Append(tsSorted, TSTop.job)
  /\ tsStack' = Front(tsStack)
  /\ UNCHANGED <<tsJobs, tsNext, tsVisited>>

TSNextStep == TSTopSort \/ TSLoop \/ TSVisit \/ TSAppend
-----------------------------------------------------------------------------
TSNeeds(i) == {j \in DOMAIN tsJobs : tsJobs[j].id \in ToSet(tsJobs[i].deps)}
TSCycle ==
  \E S \in (SUBSET DOMAIN tsJobs) \ {{}} : \A i \in S : TSNeeds(i) \intersect S # {}

\* distbuild/pkg/build/top_sort.go:3: of a graph without cycles, with an ID of
\* its own for every job and no dependency outside, every job is sorted, once,
\* and never before one that it depends on.
TSOrderSound ==
  LET IDs == {tsJobs[i].id : i \in DOMAIN tsJobs} IN
  /\ IsInjective(tsSorted)
  /\ tsNext > Len(tsJobs) /\ tsStack = <<>> => ToSet(tsSorted) = DOMAIN tsJobs
  /\ ~TSCycle
       /\ (\A i, j \in DOMAIN tsJobs : tsJobs[i].id = tsJobs[j].id => i = j)
       /\ (\A i \in DOMAIN tsJobs : ToSet(tsJobs[i].deps) \subseteq IDs)
     => \A i \in DOMAIN tsSorted :
          \A need \in TSNeeds(tsSorted[i]) : \E j \in 1..i - 1 : tsSorted[j] = need
=============================================================================
