----------------------------- MODULE MCPrograms -----------------------------
(***************************************************************************)
(* The services, and the packages that compute something, side by side: a  *)
(* behaviour runs the program it picks at the start and leaves the others  *)
(* in their initial states.                                                *)
(***************************************************************************)
EXTENDS Ledger, UrlShortener, CoverMe, Dao, Firewall, DigitalClock, IPRange,
        ParseDuration, LRUCache, Courses, TopSort, HotelBusiness, Otp,
        GenericSum, TestTool, TarStream, BinCache, ServerFixture,
        TestEqual

CONSTANTS Programs, p1, p2, c1, c2, c3

VARIABLE program

MCPair == {p1, p2}
MCThree == {c1, c2, c3}
MCRedis == {c1, c2}

MCLedgerRequests ==
  [op : {"CreateAccount"}, id : LGIDs]
    \union {[op |-> "GetBalance", id |-> 1]}
    \union [op : {"Deposit"}, id : {1}, amount : {-1, 2}]
    \union [op : {"Withdraw"}, id : {1}, amount : {1}]
    \union [op : {"Transfer"}, from : LGIDs, to : LGIDs, amount : {1}]

\* Two rules of one endpoint; "short", "fine" and "long" are bodies of 1, 2 and 3.
MCBodies == {"empty", "short", "fine", "long"}
MCLength == [b \in MCBodies |-> CASE b = "empty" -> 0 [] b = "short" -> 1
                                  [] b = "fine" -> 2 [] b = "long" -> 3]
MCPartial == [b \in MCBodies |-> IF b = "long" THEN "fine" ELSE "empty"]
MCRule == [endpoint |-> "/a", forbiddenUserAgents |-> {"curl"},
           forbiddenHeaders |-> {<<"Content-Type", {"x"}>>}, requiredHeaders |-> {},
           maxRequest |-> <<2>>, maxResponse |-> <<>>, forbiddenCodes |-> {500},
           forbiddenRequestRE |-> {}, forbiddenResponseRE |-> {}]
MCRules == <<MCRule,
             [MCRule EXCEPT !.requiredHeaders = {"Id"}, !.maxRequest = <<>>, !.maxResponse = <<2>>,
                            !.forbiddenResponseRE = {"short"}, !.forbiddenRequestRE = {"short"}]>>
MCConfigs == {[reads |-> FALSE, parses |-> FALSE, rules |-> <<>>],
              [reads |-> TRUE, parses |-> FALSE, rules |-> <<>>]}
               \union [reads : {TRUE}, parses : {TRUE}, rules : {<<>>, MCRules}]
MCHeaders == {<<>>, [h \in {"Id"} |-> "i"],
              [h \in {"Id", "User-Agent"} |-> IF h = "Id" THEN "i" ELSE "curl"],
              [h \in {"Id", "Content-Type"} |-> IF h = "Id" THEN "i" ELSE "x"]}
MCRequests == [path : {"/a", "/b"}, headers : MCHeaders, body : MCBodies]
MCResponses == [code : {200, 500}, body : MCBodies]

\* Digits of two by two pixels, and a colon of one by two.
MCBitmap == [c \in {"0", "1", "2", ":"} |->
  CASE c = ":" -> <<<<0>>, <<1>>>>          [] c = "0" -> <<<<1, 1>>, <<1, 1>>>>
    [] c = "1" -> <<<<0, 1>>, <<0, 1>>>>    [] c = "2" -> <<<<1, 0>>, <<0, 0>>>>]
MCScales == {<<>>, <<0>>, <<1>>, <<3>>, <<30>>, <<31>>, <<65536>>}
MCHours == {<<"2">>, <<"2", "1">>}
MCSixty == {<<"0", "2">>, <<"1", "1">>}
MCNow == {<<"2", "1", ":", "0", "2", ":", "0", "2">>}
MCTimes ==
  {<<>>, <<"2", "1", ":", "0", "2", ":", "1", "1">>, <<"2", ":", "0", "2", ":", "1", "1">>,
   <<"2", ":", "0", "2", ":", "1", "1", ".", "1">>, <<"2", "2", ":", "0", "2", ":", "2", "2">>,
   <<"2", "1", ":", "0", "2", ":", "1", "1", ".", "1">>, <<"2", "1", ":", "0", "2", ":", "1">>}

\* Address lists, and what is left of some of them with one symbol lost, replaced
\* or put in; two runs of digits never touch.
MCNumber == [s \in {"2", "254", "300", "30", "33", "huge"} |->
  CASE s = "2" -> 2 [] s = "254" -> 254 [] s = "300" -> 300
    [] s = "30" -> 30 [] s = "33" -> 33 [] s = "huge" -> 1000]
MCNet == <<"2", ".", "2", ".", "254", ".">>
MCOctets == {<<"300">>, <<"*">>, <<"2", "-", "30">>, <<"254", "-", "2">>}
MCTargets == {MCNet \o octet \o mask : octet \in MCOctets,
                mask \in {<<>>, <<"/", "30">>, <<"/", "33">>}}
MCLists == {MCNet \o octet \o comma \o MCNet \o other :
              octet \in {<<"*">>, <<"254", "-", "2">>}, comma \in {<<",">>, <<",", " ">>},
              other \in {<<"300">>, <<"30", "/", "30">>}}
MCSpoilt(s) ==
  UNION {{RemoveAt(s, i)} \union {ReplaceAt(s, i, c) : c \in {",", " ", "-", "huge", "?", "*"}}
           : i \in DOMAIN s}
    \union {InsertAt(s, i, c) : c \in {".", "NUL", "2", "huge", "U+E002"}, i \in 1..Len(s) + 1}
MCAddresses ==
  {s \in MCTargets \union MCLists
           \union MCSpoilt(MCNet \o <<"*">>)
           \union MCSpoilt(MCNet \o <<"2", "-", "30", "/", "30">>)
           \union MCSpoilt(MCNet \o <<"30", ",", " ">> \o MCNet \o <<"2">>) :
     \A i \in 1..Len(s) - 1 : {s[i], s[i + 1]} \intersect DOMAIN MCNumber = {}
                                \/ ~({s[i], s[i + 1]} \subseteq DOMAIN MCNumber)}

MCDurations == UNION {[1..n -> {"0", "3", ".", "-", "h", "u"}] : n \in 0..5}
MCUnits == [s \in {<<"h">>, <<"u">>} |-> IF s = <<"h">> THEN 10 ELSE 1]

MCLinks == {<<>>} \union {<<c>> : c \in MCThree} \union {s \in MCThree \X MCThree : s[1] # s[2]}
MCPrereqs == UNION {[D -> MCLinks] : D \in SUBSET MCThree}
MCGraphs == {[i \in 1..3 |-> [id |-> ids[i], deps |-> deps[i]]] :
               ids \in {<<c1, c2, c3>>, <<c1, c2, c1>>}, deps \in [1..3 -> MCLinks]}

MCGuests == UNION {[1..n -> {<<1, 2>>, <<1, 3>>, <<2, 3>>, <<2, 4>>, <<3, 3>>}] : n \in 0..3}
MCSlices == UNION {[1..n -> 1..3] : n \in 0..3}
MCMaps == UNION {[D -> {0, 1, 2}] : D \in SUBSET {1, 2}}
MCRows == UNION {[1..n -> {<<1, 0>>, <<1, 1>>, <<1, -1>>}] : n \in 0..2}
MCMatrices == UNION {[1..n -> MCRows] : n \in 0..2}
\* Integers and strings, []any and map[string]int of them, nil and empty, and a float.
MCScalar(type, is) == [type |-> type, kind |-> "scalar", nil |-> FALSE, is |-> is]
MCSlice(is) == [type |-> "[]any", kind |-> "slice", nil |-> FALSE, is |-> is]
MCMap(is) == [type |-> "map", kind |-> "map", nil |-> FALSE, is |-> is]
MCNilValue == [type |-> "nil", kind |-> "nil", nil |-> TRUE, is |-> "nil"]
MCElements == {MCScalar("int", "1"), MCScalar("int", "2"), MCScalar("string", "1"), MCNilValue}
MCValues ==
  MCElements \union {[type |-> "float", kind |-> "other", nil |-> FALSE, is |-> "1"]}
    \union {MCSlice(is) : is \in UNION {[1..n -> MCElements] : n \in 0..2}}
    \union {MCMap(is) : is \in UNION {[D -> MCElements \ {MCNilValue}] : D \in SUBSET {"k", "l"}}}
    \union {[v EXCEPT !.nil = TRUE] : v \in {MCSlice(<<>>), MCMap(<<>>)}}

MCSources == [c \in MCThree |-> IF c = c1 THEN <<1, 2>> ELSE IF c = c2 THEN <<2>> ELSE <<>>]

\* testtool: the private tree of a task, with or without a coverage to be reached.
MCFile(from, pkg, needs, bars) ==
  [from |-> from, pkg |-> pkg, go |-> TRUE, test |-> FALSE, needs |-> needs, bars |-> bars,
   testdata |-> FALSE, cover |-> <<>>]
MCTest(from, pkg, needs, cover) ==
  [MCFile(from, pkg, needs, {}) EXCEPT !.test = TRUE, !.cover = cover]
MCPlain(from, testdata) == [MCFile(from, "none", {}, {}) EXCEPT !.go = FALSE, !.testdata = testdata]
MCPrivateTree(cover) ==
  [f \in {"go.mod", "a.go", "a_solution.go", "a_test.go", "b_test.go", "data", "guard.go"} |->
     CASE f = "go.mod" -> MCPlain("private", FALSE)
       [] f = "a.go" -> MCFile("private", "a", {}, {"solution"})
       [] f = "a_solution.go" -> MCFile("private", "a", {"solution"}, {})
       [] f = "a_test.go" -> MCTest("private", "a", {}, cover)
       [] f = "b_test.go" -> MCTest("private", "b", {"private"}, <<>>)
       [] f = "data" -> MCPlain("private", TRUE)
       [] f = "guard.go" -> MCFile("private", "a", {}, {"change"})]
\* One student has changed every public file and added a test, another has deleted
\* all that is not to be changed.
MCStudentTrees ==
  {[f \in {"go.mod", "a.go", "a_test.go", "c_test.go", "data", "guard.go"} |->
      CASE f = "go.mod" -> MCPlain("student", FALSE)
        [] f = "a_test.go" -> MCTest("student", "a", {}, <<0>>)
        [] f = "c_test.go" -> MCTest("student", "c", {}, <<>>)
        [] f = "data" -> MCPlain("student", TRUE)
        [] OTHER -> MCFile("student", "a", {}, {})],
   [f \in {"a.go"} |-> MCFile("student", "a", {}, {"solution"})]}
MCTasks == [t \in {"sum", "cond"} |-> MCPrivateTree(IF t = "sum" THEN <<50>> ELSE <<>>)]
MCDeadlines ==
  {[reads |-> FALSE, parses |-> FALSE, schedule |-> <<>>],
   [reads |-> TRUE, parses |-> FALSE, schedule |-> <<>>],
   [reads |-> TRUE, parses |-> TRUE,
    schedule |-> <<<<[name |-> "sum", watch |-> {}]>>,
                   <<[name |-> "cond", watch |-> {<<"tools", "/">>}]>>>>]}
MCPushes == {{<<>>}, {<<"sum", "mary", "/", "x">>, <<>>}, {<<"sum", "/", "x">>},
             {<<"tools", "/", "x">>, <<"README">>, <<"sum", "/", "x">>}}
MCNames == <<"a.go", "a_solution.go", "a_test.go", "b_test.go", "c_test.go", "cond", "data",
             "go.mod", "guard.go", "sum">>
MCSizes == [b \in {"one", "two"} |-> IF b = "one" THEN 1 ELSE 2]
MCMaster == MCPrivateTree(<<>>)

\* tarstream: a file, and a directory with another; what the receiver may have already.
MCWalkOrder == <<"a", "d", "d/b">>
MCParent == [p \in {"a", "d", "d/b"} |-> IF p = "d/b" THEN "d" ELSE "."]
MCContents == {<<>>, <<1>>, <<1, 1>>}
MCNothing == [dirs |-> {}, files |-> <<>>]
MCLeftovers == {MCNothing, [dirs |-> {"d"}, files |-> <<>>],
                [dirs |-> {}, files |-> [p \in {"a"} |-> <<2, 2>>]]}
-----------------------------------------------------------------------------
shared == <<lgvars, usvars, cmvars, daovars, fwvars, dcvars>>
tools == <<ttvars, tavars, bcvars, sfvars, tevars>>
computed ==
  <<ipvars, pdvars, lruvars, hwvars, tsvars, hbvars, otvars, gsvars, mgvars>>
vars == <<program, shared, computed, tools>>

\* The programs that are not run have one initial state each.
Init ==
  /\ program \in Programs
  /\ LGInit /\ USInit /\ CMInit /\ DAOInit /\ FWInit /\ DCInit
  /\ IPInit /\ PDInit /\ LRUInit /\ HWInit /\ TSInit /\ HBInit /\ OTInit /\ GSInit /\ MGInit
  /\ TTInit /\ TAInit /\ BCInit /\ SFInit /\ TEInit
  /\ program # "lrucache" => lruCapacity = 0
  /\ program # "otp" => otMode = "reader"
  /\ program # "bincache" => bcLocal
  /\ program # "tarstream" => taFound = MCNothing /\ taSource = [p \in TAFiles |-> <<>>]

SharedNext ==
  \/ program = "ledger" /\ LGNext /\ UNCHANGED <<usvars, cmvars, daovars, fwvars, dcvars>>
  \/ program = "urlshortener" /\ USNext /\ UNCHANGED <<lgvars, cmvars, daovars, fwvars, dcvars>>
  \/ program = "coverme" /\ CMNext /\ UNCHANGED <<lgvars, usvars, daovars, fwvars, dcvars>>
  \/ program = "dao" /\ DAONext /\ UNCHANGED <<lgvars, usvars, cmvars, fwvars, dcvars>>
  \/ program = "firewall" /\ FWNext /\ UNCHANGED <<lgvars, usvars, cmvars, daovars, dcvars>>
  \/ program = "digitalclock" /\ DCNext /\ UNCHANGED <<lgvars, usvars, cmvars, daovars, fwvars>>

ComputedNext ==
  \/ /\ program = "iprange" /\ IPNext
     /\ UNCHANGED <<pdvars, lruvars, hwvars, tsvars, hbvars, otvars, gsvars, mgvars>>
  \/ /\ program = "tabletest" /\ PDNext
     /\ UNCHANGED <<ipvars, lruvars, hwvars, tsvars, hbvars, otvars, gsvars, mgvars>>
  \/ /\ program = "lrucache" /\ LRUNext
     /\ UNCHANGED <<ipvars, pdvars, hwvars, tsvars, hbvars, otvars, gsvars, mgvars>>
  \/ /\ program = "hogwarts" /\ HWNext
     /\ UNCHANGED <<ipvars, pdvars, lruvars, tsvars, hbvars, otvars, gsvars, mgvars>>
  \/ /\ program = "topsort" /\ TSNextStep
     /\ UNCHANGED <<ipvars, pdvars, lruvars, hwvars, hbvars, otvars, gsvars, mgvars>>
  \/ /\ program = "hotelbusiness" /\ HBNext
     /\ UNCHANGED <<ipvars, pdvars, lruvars, hwvars, tsvars, otvars, gsvars, mgvars>>
  \/ /\ program = "otp" /\ OTNext
     /\ UNCHANGED <<ipvars, pdvars, lruvars, hwvars, tsvars, hbvars, gsvars, mgvars>>
  \/ /\ program = "genericsum" /\ GSNext
     /\ UNCHANGED <<ipvars, pdvars, lruvars, hwvars, tsvars, hbvars, otvars, mgvars>>
  \/ /\ program = "mergechans" /\ MGNext
     /\ UNCHANGED <<ipvars, pdvars, lruvars, hwvars, tsvars, hbvars, otvars, gsvars>>

ToolsNext ==
  \/ program = "grade" /\ TTGradeNext /\ UNCHANGED <<tavars, bcvars, sfvars, tevars>>
  \/ program = "export" /\ TTExportNext /\ UNCHANGED <<tavars, bcvars, sfvars, tevars>>
  \/ program = "tarstream" /\ TANext /\ UNCHANGED <<ttvars, bcvars, sfvars, tevars>>
  \/ program = "bincache" /\ BCNext /\ UNCHANGED <<ttvars, tavars, sfvars, tevars>>
  \/ program = "fixtures" /\ SFNext /\ UNCHANGED <<ttvars, tavars, bcvars, tevars>>
  \/ program = "testequal" /\ TENext /\ UNCHANGED <<ttvars, tavars, bcvars, sfvars>>

Next ==
  /\ UNCHANGED program
  /\ \/ SharedNext /\ UNCHANGED <<computed, tools>>
     \/ ComputedNext /\ UNCHANGED <<shared, tools>>
     \/ ToolsNext /\ UNCHANGED <<shared, computed>>

Spec == Init /\ [][Next]_vars
-----------------------------------------------------------------------------
\* What a service has told its callers stays true through whatever other requests
\* come in between: the keys of urlshortener, the finished todos of coverme, the
\* IDs of dao, the binaries of testtool's cache and the servers of the fixtures.
AnswersStayTrue ==
  USAnswersAgree /\ CMReadsAreFresh /\ DAOUsersKeepIDs /\ BCBinariesStay /\ SFOwnServer

\* What passes through is checked or changed as a whole: the traffic of firewall
\* by its rules, the streams of otp byte by byte, the submissions that testtool
\* reports, what it publishes, the directories that tarstream carries over and the
\* values that MergeChans merges.
NothingSlipsThrough ==
  /\ FWRulesHold /\ OTAligned /\ MGMergeComplete
  /\ TTScoresEarned /\ TTNothingPrivatePublished /\ TAArrivesWhole

\* Both depth-first walks, of hogwarts and of distbuild, give an order in which
\* whatever is needed comes first.
DependenciesComeFirst == HWCourseListSound /\ TSOrderSound

\* The results of tabletest, hotelbusiness, genericsum, testequal and digitalclock are
\* those of their definitions: no sum wraps, no load is lost or repeated, no assertion
\* passes or fails that should not, and an image shows the time it is of.
ResultsAreExact ==
  /\ PDSumsRight /\ HBLoadsExact /\ GSComparesRight
  /\ TEAssertionsRight /\ DCImageShowsTime
=============================================================================
