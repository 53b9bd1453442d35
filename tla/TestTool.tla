------------------------------ MODULE TestTool ------------------------------
(***************************************************************************)
(* tools/testtool/commands: "grade" finds the tasks that a push touches,   *)
(* tests each in a directory put together from the repository of the       *)
(* student and the private one, and reports those that pass; "export"      *)
(* publishes the private repository without its private files.             *)
(*                                                                         *)
(* A tree is a function from the names of files to records with: whose     *)
(* version it is (from), its package, whether it is Go code and a test,    *)
(* the build tags it needs and those that bar it, whether it lies in the   *)
(* directory testdata right in the task (one below a subpackage is like    *)
(* any other), and the coverage its tests must reach (<<>> for none).  The *)
(* go command, golangci-lint, rsync and git succeed or fail.               *)
(***************************************************************************)
EXTENDS Integers, Sequences, FiniteSets, SequencesExt

CONSTANTS
  TTDeadlines,  \* what the file of deadlines may be: [reads, parses, schedule], a schedule
                \* being a sequence of groups, each one of tasks: [name, watch]
  TTPushes,     \* the sets of changed files, each a sequence of tokens
  TTPrivate,    \* the private tree of each task
  TTStudents,   \* what students may have made of it
  TTMaster,     \* the tree that is exported
  TTNames,      \* the names of files and tasks in the order of sort.Strings
  TTSize,       \* numStmt of each block of code
  TTDotPrivate  \* files listed in .private

\* docs/build.md: how the files of a task are marked.  The deadlines list tasks of
\* the private repository, and the tests of a task ask for one coverage.
ASSUME TTAssumption ==
  /\ IsFiniteSet(DOMAIN TTPrivate) /\ TTNames \in Seq(ToSet(TTNames))
  /\ \A file \in TTDeadlines : \A group \in ToSet(file.schedule) : \A task \in ToSet(group) :
       task.name \in DOMAIN TTPrivate
  /\ \A t \in DOMAIN TTPrivate : \A f \in DOMAIN TTPrivate[t] :
       LET file == TTPrivate[t][f] IN
       /\ f \in ToSet(TTNames) /\ file.from = "private"
       /\ file.test => file.go /\ file.needs \subseteq {"private"} /\ "private" \notin file.bars
       /\ "change" \in file.bars => file.go /\ file.needs = {}
       /\ file.test /\ file.cover # <<>> =>
            \A g \in DOMAIN TTPrivate[t] : TTPrivate[t][g].cover \in {<<>>, file.cover}
  /\ \A f \in DOMAIN TTMaster :
       TTMaster[f].needs \intersect {"private", "solution"} # {} =>
         /\ TTMaster[f].go /\ TTMaster[f].needs \subseteq {"private", "solution"}
         /\ TTMaster[f].bars \intersect {"private", "solution"} = {}

VARIABLES
  ttPc,       \* where grade is; "done", "failed" and "fatal" are ends
  ttChanged,  \* changedTasks
  ttQueue,    \* those still to be tested
  ttTree,     \* tmpRepo
  ttTodo,     \* test packages still to be run
  ttHits,     \* blocks counted in some coverage profile
  ttPassed,   \* what has succeeded on ttTree
  ttTries,    \* attempts to report
  ttFailed,   \* some task has failed
  ttScores,   \* the server: what each reported task was reported on
  ttGit       \* the repository that export works in

ttvars == <<ttPc, ttChanged, ttQueue, ttTree, ttTodo, ttHits, ttPassed, ttTries, ttFailed,
            ttScores, ttGit>>
grading == <<ttPc, ttChanged, ttQueue, ttTree, ttTodo, ttHits, ttPassed, ttTries, ttFailed,
             ttScores>>
-----------------------------------------------------------------------------
\* getPackageFiles.
TTPackageFiles(tree, tags) ==
  {f \in DOMAIN tree : /\ tree[f].go
                       /\ tree[f].needs \subseteq tags
                       /\ tree[f].bars \intersect tags = {}}

TTTestFiles(tree) == {f \in TTPackageFiles(tree, {"private"}) : tree[f].test}

TTProtectedFiles(tree) == TTPackageFiles(tree, {}) \ TTPackageFiles(tree, {"change"})

\* listPrivateFiles without the two lists that may name a file again.
TTPrivateFiles(tree) == TTPackageFiles(tree, {"private", "solution"}) \ TTPackageFiles(tree, {})

TTTestdata(tree) == {f \in DOMAIN tree : tree[f].testdata}

TTModuleFiles(tree) == DOMAIN tree \intersect {"go.mod"}

\* listTestsAndBinaries: the packages of a tree with tests in them.
TTTestPackages(tree) == {tree[f].pkg : f \in TTTestFiles(tree)}

\* getCoverageRequirements: the first comment in the order of the file names.
TTRequirement(private) ==
  LET asking == {i \in DOMAIN TTNames :
                   TTNames[i] \in TTTestFiles(private) /\ private[TTNames[i]].cover # <<>>}
  IN IF asking = {} THEN <<>> ELSE private[TTNames[Min(asking)]].cover

TTSum(blocks) == FoldSet(LAMBDA b, n : n + TTSize[b], 0, blocks)

\* calCoverage and the comparison with the requirement.
TTCoverageReached(percent, hits) ==
  LET total == TTSum(DOMAIN TTSize) IN
  IF total = 0 THEN percent = 0 ELSE TTSum(hits) * 100 >= percent * total

\* copyFiles: what is there is replaced.
TTOver(tree, private, files) ==
  [f \in DOMAIN tree \union files |-> IF f \in files THEN private[f] ELSE tree[f]]

\* testSubmission up to the tests.
TTAssembled(private, student) ==
  LET tests == TTOver(student, private, TTTestFiles(private))
      protected == TTOver(tests, private, TTProtectedFiles(private))
      testdata == TTOver(protected, private, TTTestdata(private))
  IN TTOver(testdata, private, TTModuleFiles(private))

TTComponent(file) ==
  LET slashes == {i \in DOMAIN file : file[i] = "/"} IN
  IF slashes = {} THEN file
  ELSE SubSeq(file, 1, (CHOOSE i \in slashes : \A j \in slashes : i <= j) - 1)

\* Deadlines.Tasks and FindTask.  It stops at the first task of the name, and only
\* the name is used.
TTTasks(deadlines) == UNION {ToSet(group) : group \in ToSet(deadlines)}
TTFindTask(deadlines, name) == {task \in TTTasks(deadlines) : <<task.name>> = name}

\* loadDeadlines: the schedule, or nothing.
TTLoadDeadlines(file) == IF file.reads /\ file.parses THEN <<file.schedule>> ELSE <<>>

\* The order of sort.Strings.
TTBefore(a, b) == \E i, j \in DOMAIN TTNames : i < j /\ TTNames[i] = a /\ TTNames[j] = b

\* findChangedTasks: the list of the names, each once and sorted.
TTChangedTasks(deadlines, files) ==
  LET watching(f) == {task \in TTTasks(deadlines) : \E path \in task.watch : IsPrefix(path, f)}
      touched == UNION {TTFindTask(deadlines, TTComponent(f)) \union watching(f) : f \in files}
  IN {list \in SetToSeqs({task.name : task \in touched}) :
        \A i, j \in DOMAIN list : i < j => TTBefore(list[i], list[j])}
-----------------------------------------------------------------------------
TTInit ==
  /\ ttPc = "start" /\ ttChanged = <<>> /\ ttQueue = <<>>
  /\ ttTree = <<>> /\ ttTodo = {} /\ ttHits = {} /\ ttPassed = {}
  /\ ttTries = 0 /\ ttFailed = FALSE /\ ttScores = <<>>
  /\ ttGit = [step |-> 0, work |-> DOMAIN TTMaster, public |-> {}, remote |-> {}]

TTGoto(l) == ttPc' = l

TTTask == Head(ttQueue)
TTPercent == TTRequirement(TTPrivate[TTTask])

\* grade up to its loop: git may fail, and so may the file of deadlines.
TTGrade ==
  /\ ttPc = "start"
  /\ \E listed \in BOOLEAN, file \in TTDeadlines :
       IF listed /\ TTLoadDeadlines(file) # <<>>
       THEN /\ \E files \in TTPushes : ttChanged' \in TTChangedTasks(TTLoadDeadlines(file)[1], files)
            /\ TTGoto("next")
       ELSE TTGoto("failed") /\ UNCHANGED ttChanged
  /\ ttQueue' = ttChanged'
  /\ UNCHANGED <<ttTree, ttTodo, ttHits, ttPassed, ttTries, ttFailed, ttScores>>

\* log.Fatal: rsync, a temporary directory, the go command or sandbox fails.
TTFatal ==
  /\ ttPc \in {"next", "build", "test"}
  /\ ttQueue # <<>>
  /\ TTGoto("fatal")
  /\ UNCHANGED <<ttChanged, ttQueue, ttTree, ttTodo, ttHits, ttPassed, ttTries, ttFailed, ttScores>>

TTAssemble ==
  /\ ttPc = "next" /\ ttQueue # <<>>
  /\ \E student \in TTStudents : ttTree' = TTAssembled(TTPrivate[TTTask], student)
  /\ ttPassed' = {} /\ ttHits' = {}
  /\ ttTodo' = TTTestPackages(IF TTPercent = <<>> THEN TTPrivate[TTTask] ELSE ttTree')
  /\ TTGoto("build")
  /\ UNCHANGED <<ttChanged, ttQueue, ttTries, ttFailed, ttScores>>

\* The loop of grade goes on with the next task.
TTNextTask(pc) == /\ ttQueue' = Tail(ttQueue)
                  /\ ttTree' = <<>> /\ ttTodo' = {} /\ ttHits' = {} /\ ttPassed' = {}
                  /\ ttTries' = 0
                  /\ TTGoto(pc)

\* testSubmission returns an error.  A TestFailedError goes on to reportTestResults,
\* which leaves it there; other errors are not reported either.
TTReject == /\ ttFailed' = TRUE
            /\ TTNextTask("next")
            /\ UNCHANGED <<ttChanged, ttScores>>

\* Every binary and test binary is built before a test is run.
TTBuild ==
  /\ ttPc = "build"
  /\ \/ /\ ttPassed' = {<<"build", pkg>> : pkg \in ttTodo}
        /\ TTGoto("test")
        /\ UNCHANGED <<ttChanged, ttQueue, ttTree, ttTodo, ttHits, ttTries, ttFailed, ttScores>>
     \/ TTReject

\* One round of the loop over testBinaries: the tests, the tests and benchmarks of
\* the binary with the race detector, and the benchmarks beside the baseline.
TTTest ==
  /\ ttPc = "test"
  /\ \E pkg \in ttTodo :
       \/ /\ ttPassed' = ttPassed \union {"test", "race", "baseline"} \X {pkg}
          /\ \E hits \in SUBSET DOMAIN TTSize :
               ttHits' = IF TTPercent = <<>> THEN {} ELSE ttHits \union hits
          /\ ttTodo' = ttTodo \ {pkg}
          /\ UNCHANGED <<ttPc, ttChanged, ttQueue, ttTree, ttTries, ttFailed, ttScores>>
       \/ TTReject

TTLint ==
  /\ ttPc = "test" /\ ttTodo = {}
  /\ \/ /\ TTPercent # <<>> => TTCoverageReached(TTPercent[1], ttHits)
        /\ ttPassed' = ttPassed \union {<<"lint", "all">>}
        /\ TTGoto("report")
        /\ UNCHANGED <<ttChanged, ttQueue, ttTree, ttTodo, ttHits, ttTries, ttFailed, ttScores>>
     \/ TTReject

\* reportTestResults: three attempts.  The answer of the server may be lost after it
\* has taken the report.
TTReport ==
  /\ ttPc = "report" /\ ttTries < 3
  /\ \E received, answered \in BOOLEAN :
       /\ ttScores' = IF ~received THEN ttScores
                      ELSE [t \in DOMAIN ttScores \union {TTTask} |->
                              IF t = TTTask
                              THEN [tree |-> ttTree, passed |-> ttPassed, hits |-> ttHits]
                              ELSE ttScores[t]]
       /\ IF received /\ answered THEN TTNextTask("next")
          ELSE /\ ttTries' = ttTries + 1
               /\ UNCHANGED <<ttPc, ttQueue, ttTree, ttTodo, ttHits, ttPassed>>
  /\ UNCHANGED <<ttChanged, ttFailed>>

TTReportFailed ==
  /\ ttPc = "report" /\ ttTries = 3
  /\ TTGoto("fatal")
  /\ UNCHANGED <<ttChanged, ttQueue, ttTree, ttTodo, ttHits, ttPassed, ttTries, ttFailed, ttScores>>

TTReturn ==
  /\ ttPc = "next" /\ ttQueue = <<>>
  /\ TTGoto(IF ttFailed THEN "failed" ELSE "done")
  /\ UNCHANGED <<ttChanged, ttQueue, ttTree, ttTodo, ttHits, ttPassed, ttTries, ttFailed, ttScores>>
-----------------------------------------------------------------------------
\* exportCode.  Step 1 is on a new branch at public with the files of master around,
\* 2 without the private ones, 3 on public, 4 after the commit, 5 after the push.
TTStep(k, to) == ttGit.step = k /\ ttGit' = [ttGit EXCEPT !.step = to]

TTRemovePrivate ==
  /\ ttGit.step = 1
  /\ LET files == TTPrivateFiles([f \in ttGit.work |-> TTMaster[f]])
         listed == TTDotPrivate \intersect ttGit.work
     IN \* A file listed twice is removed once, and the second os.Remove fails.
        ttGit' = [ttGit EXCEPT !.work = @ \ (files \union listed),
                               !.step = IF files \intersect listed = {} THEN 2 ELSE 0]

TTCommit ==
  /\ ttGit.step = 3
  /\ ttGit' = [ttGit EXCEPT !.public = ttGit.work, !.step = 4]

\* The push is a flag; so is the checkout of master after it.
TTPush ==
  /\ ttGit.step = 4
  /\ \/ ttGit' = [ttGit EXCEPT !.remote = ttGit.public, !.step = 5]
     \/ ttGit' = [ttGit EXCEPT !.step = 5]

TTCheckoutMaster ==
  /\ ttGit.step = 5
  /\ \/ ttGit' = [ttGit EXCEPT !.work = DOMAIN TTMaster, !.step = 0]
     \/ ttGit' = [ttGit EXCEPT !.step = 0]

\* A git command fails, or os.Remove after some of the files: log.Fatal.  The next
\* run begins with whatever is in the working tree.
TTExportFails ==
  /\ ttGit.step > 0
  /\ \/ ttGit' = [ttGit EXCEPT !.step = 0]
     \/ /\ ttGit.step = 1
        /\ \E f \in TTPrivateFiles([g \in ttGit.work |-> TTMaster[g]]) :
             ttGit' = [ttGit EXCEPT !.work = @ \ {f}, !.step = 0]

TTExport ==
  \/ TTStep(0, 1) \/ TTRemovePrivate \/ TTStep(2, 3) \/ TTCommit \/ TTPush \/ TTCheckoutMaster
  \/ TTExportFails

TTGradeNext ==
  /\ \/ TTGrade \/ TTFatal \/ TTAssemble \/ TTBuild \/ TTTest \/ TTLint
     \/ TTReport \/ TTReportFailed \/ TTReturn
  /\ UNCHANGED ttGit

TTExportNext == TTExport /\ UNCHANGED grading
-----------------------------------------------------------------------------
\* A submission that deserves its report: every test, every file with !change and
\* every file in the testdata of the task is the private version, and the test
\* packages have all been built and passed, with the coverage asked for.  This is less
\* than docs/build.md:17, which lets nobody change any testdata: one that lies below a
\* subpackage is not copied, and nothing is claimed of it here.
TTEarned(private, score) ==
  LET tests == {f \in DOMAIN private : private[f].test}
      kept == {f \in DOMAIN private : private[f].testdata \/ "change" \in private[f].bars}
      total == TTSum(DOMAIN TTSize)
  IN /\ \A f \in tests \union kept : f \in DOMAIN score.tree /\ score.tree[f].from = "private"
     /\ \A f \in tests : {"build", "test", "race", "baseline"} \X {private[f].pkg}
                           \subseteq score.passed
     /\ <<"lint", "all">> \in score.passed
     /\ \A f \in tests : private[f].cover # <<>> =>
          IF total = 0 THEN private[f].cover[1] = 0
          ELSE TTSum(score.hits) * 100 >= private[f].cover[1] * total

\* docs/build.md: only what deserves it, as above, is reported, and a run of grade that ends well
\* has reported every task it was about.
TTScoresEarned ==
  /\ \A t \in DOMAIN ttScores : TTEarned(TTPrivate[t], ttScores[t])
  /\ ttPc = "done" => \A i \in DOMAIN ttChanged : ttChanged[i] \in DOMAIN ttScores

\* docs/build.md: students never get a private test or the solution of the author.
TTNothingPrivatePublished ==
  \A f \in ttGit.public \union ttGit.remote :
    TTMaster[f].needs \intersect {"private", "solution"} = {} /\ f \notin TTDotPrivate
=============================================================================
