------------------------------- MODULE Courses -------------------------------
(***************************************************************************)
(* hogwarts/courselist.go: a depth-first walk over the prerequisites, which *)
(* starts at the courses in the order of Go's map iteration, any order.    *)
(***************************************************************************)
EXTENDS Integers, Sequences, FiniteSets, SequencesExt

CONSTANTS
  HWCourses,  \* names of courses
  HWPrereqs   \* the maps from a course to the sequence of its prerequisites

\* No course is taken for a panic.
ASSUME HWAssumption ==
  /\ IsFiniteSet(HWCourses) /\ "Cycle Deps!!!" \notin HWCourses
  /\ \A prereqs \in HWPrereqs : /\ DOMAIN prereqs \subseteq HWCourses
                                /\ \A c \in DOMAIN prereqs : prereqs[c] \in Seq(HWCourses)

VARIABLES
  hwPrereqs,  \* prereqs, or HWNoCall
  hwLeft,     \* the keys that the range of GetCourseList has not come to
  hwIn, hwOut,\* times, TimeIn and TimeOut of each course; 0 for none
  hwTime,     \* cur_time
  hwStack,    \* the calls of Visit: [name, dep: how many deps are behind it]
  hwList      \* what GetCourseList returns: <<>> until it does

hwvars == <<hwPrereqs, hwLeft, hwIn, hwOut, hwTime, hwStack, hwList>>

HWNoCall == <<>>
HWPanic == <<"Cycle Deps!!!">>

HWInit ==
  /\ hwPrereqs = HWNoCall /\ hwLeft = {}
  /\ hwIn = [n \in HWCourses |-> 0] /\ hwOut = [n \in HWCourses |-> 0]
  /\ hwTime = 1
  /\ hwStack = <<>> /\ hwList = <<>>

\* GetCourseList with an empty map returns at once.
HWGetCourseList ==
  /\ hwPrereqs = HWNoCall
  /\ \E prereqs \in HWPrereqs : hwPrereqs' = prereqs /\ hwLeft' = DOMAIN prereqs
  /\ UNCHANGED <<hwIn, hwOut, hwTime, hwStack, hwList>>

HWEnter(name) ==
  /\ hwIn' = [hwIn EXCEPT ![name] = hwTime]
  /\ hwTime' = hwTime + 1
  /\ hwStack' = Append(hwStack, [name |-> name, dep |-> 0])
  /\ UNCHANGED hwOut

HWRange ==
  /\ hwStack = <<>> /\ hwList = <<>>
  /\ \E name \in hwLeft :
       /\ hwLeft' = hwLeft \ {name}
       /\ \/ hwOut[name] # 0 /\ UNCHANGED <<hwIn, hwOut, hwTime, hwStack>>
          \/ hwOut[name] = 0 /\ HWEnter(name)
  /\ UNCHANGED <<hwPrereqs, hwList>>

HWTop == Last(hwStack)
HWDeps(name) == IF name \in DOMAIN hwPrereqs THEN hwPrereqs[name] ELSE <<>>
HWDep == HWDeps(HWTop.name)[HWTop.dep + 1]
HWNextDep == [hwStack EXCEPT ![Len(hwStack)].dep = @ + 1]

\* Mutant: a course that has been entered is not entered again, finished or not.
HWVisitDepEntered ==
  /\ hwStack # <<>> /\ HWTop.dep < Len(HWDeps(HWTop.name)) /\ hwList = <<>>
  /\ IF hwIn[HWDep] # 0
     THEN hwStack' = HWNextDep /\ UNCHANGED <<hwIn, hwOut, hwTime, hwList>>
     ELSE /\ hwIn' = [hwIn EXCEPT ![HWDep] = hwTime]
          /\ hwTime' = hwTime + 1
          /\ hwStack' = Append(HWNextDep, [name |-> HWDep, dep |-> 0])
          /\ UNCHANGED <<hwOut, hwList>>
  /\ UNCHANGED <<hwPrereqs, hwLeft>>

\* The loop of Visit over deps: a finished course is passed over, one that is on
\* the stack is a cycle.
HWVisitDep ==
  /\ hwStack # <<>> /\ HWTop.dep < Len(HWDeps(HWTop.name)) /\ hwList = <<>>
  /\ \/ /\ hwOut[HWDep] # 0
        /\ hwStack' = HWNextDep
        /\ UNCHANGED <<hwIn, hwOut, hwTime, hwList>>
     \/ /\ hwOut[HWDep] = 0 /\ hwIn[HWDep] # 0
        /\ hwList' = HWPanic
        /\ UNCHANGED <<hwIn, hwOut, hwTime, hwStack>>
     \/ /\ hwOut[HWDep] = 0 /\ hwIn[HWDep] = 0
        /\ hwIn' = [hwIn EXCEPT ![HWDep] = hwTime]
        /\ hwTime' = hwTime + 1
        /\ hwStack' = Append(HWNextDep, [name |-> HWDep, dep |-> 0])
        /\ UNCHANGED <<hwOut, hwList>>
  /\ UNCHANGED <<hwPrereqs, hwLeft>>

HWLeave ==
  /\ hwStack # <<>> /\ HWTop.dep = Len(HWDeps(HWTop.name)) /\ hwList = <<>>
  /\ hwOut' = [hwOut EXCEPT ![HWTop.name] = hwTime]
  /\ hwTime' = hwTime + 1
  /\ hwStack' = Front(hwStack)
  /\ UNCHANGED <<hwPrereqs, hwLeft, hwIn, hwList>>

\* The courses of times, sorted by TimeOut.
HWReturn ==
  /\ hwPrereqs # HWNoCall /\ hwLeft = {} /\ hwStack = <<>> /\ hwList = <<>>
  /\ \E list \in SetToSeqs({n \in HWCourses : hwIn[n] # 0}) :
       /\ \A i, j \in DOMAIN list : i < j => hwOut[list[i]] <= hwOut[list[j]]
       /\ hwList' = list
  /\ UNCHANGED <<hwPrereqs, hwLeft, hwIn, hwOut, hwTime, hwStack>>

HWNext == HWGetCourseList \/ HWRange \/ HWVisitDep \/ HWLeave \/ HWReturn
-----------------------------------------------------------------------------
HWNeeds == [n \in HWCourses |-> ToSet(HWDeps(n))]
HWNamed == DOMAIN hwPrereqs \union UNION {HWNeeds[n] : n \in HWCourses}

\* Some courses need one another in a circle.
HWCycle == \E S \in (SUBSET HWCourses) \ {{}} : \A n \in S : HWNeeds[n] \intersect S # {}

\* hogwarts/README.md: a list in which every course comes after those it needs,
\* whatever order the map is walked in; the walk panics when there is none.
HWCourseListSound ==
  hwList # <<>> =>
    IF HWCycle THEN hwList = HWPanic
    ELSE /\ hwList # HWPanic
         /\ IsInjective(hwList) /\ ToSet(hwList) = HWNamed
         /\ \A i \in DOMAIN hwList :
              \A need \in HWNeeds[hwList[i]] : \E j \in 1..i - 1 : hwList[j] = need
=============================================================================
