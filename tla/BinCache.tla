------------------------------ MODULE BinCache ------------------------------
(***************************************************************************)
(* tools/testtool/bincache.go: tests that run side by side ask for the     *)
(* binary of a package.  On a student's machine it is built on demand into *)
(* a directory of the cache; in the grader it was built before and its     *)
(* place is handed over in an environment variable.                        *)
(***************************************************************************)
EXTENDS Integers, FiniteSets

CONSTANTS
  BCCallers,  \* goroutines that call GetBinary
  BCPackages, \* import paths
  BCMaxBuilds \* bound on the builds

VARIABLES
  bcLocal,    \* TESTTOOL_BINARIES is not set
  bcBinaries, \* the map of the cache: import path -> file name
  bcFiles,    \* the binaries on disk: file name -> import path
  bcBuilds,   \* builds begun so far; each has a random name of its own
  bcPc,       \* "new", then "idle", "build", "store", and "closed" once everybody is gone
  bcAsked,    \* the import path of each caller
  bcName,     \* the file name it builds
  bcGot       \* what GetBinary has returned to it, 0 for nothing

bcvars == <<bcLocal, bcBinaries, bcFiles, bcBuilds, bcPc, bcAsked, bcName, bcGot>>

\* The grader has built some of the packages.
BCInit ==
  /\ bcLocal \in BOOLEAN
  /\ bcFiles \in IF bcLocal THEN {<<>>} ELSE {[n \in 1..1 |-> p] : p \in BCPackages}
  /\ bcBinaries = <<>>
  /\ bcBuilds = 1
  /\ bcPc = [c \in BCCallers |-> "new"]
  /\ bcAsked \in [BCCallers -> {CHOOSE p \in BCPackages : TRUE}]
  /\ bcName = [c \in BCCallers |-> 0] /\ bcGot = [c \in BCCallers |-> 0]

BCGoto(c, l) == bcPc' = [bcPc EXCEPT ![c] = l]

\* NewBinCache of a local cache; its directory may fail to be made.
BCNewLocalBinCache ==
  /\ bcLocal /\ \A c \in BCCallers : bcPc[c] = "new"
  /\ \E l \in {"idle", "closed"} : bcPc' = [c \in BCCallers |-> l]
  /\ UNCHANGED <<bcLocal, bcBinaries, bcFiles, bcBuilds, bcAsked, bcName, bcGot>>

\* newCIBuildCache: the variable names what the grader has built, or is no JSON, which
\* ends the tests.
BCNewCIBuildCache ==
  /\ ~bcLocal /\ \A c \in BCCallers : bcPc[c] = "new"
  /\ \/ /\ bcBinaries' = [p \in {bcFiles[n] : n \in DOMAIN bcFiles} |->
                            CHOOSE n \in DOMAIN bcFiles : bcFiles[n] = p]
        /\ bcPc' = [c \in BCCallers |-> "idle"]
     \/ bcPc' = [c \in BCCallers |-> "closed"] /\ UNCHANGED bcBinaries
  /\ UNCHANGED <<bcLocal, bcFiles, bcBuilds, bcAsked, bcName, bcGot>>

\* GetBinary of a local cache up to the look at the map: not a lock, so two callers may
\* both miss.
BCGetBinary(c) ==
  /\ bcLocal /\ bcPc[c] = "idle"
  /\ \E p \in BCPackages :
       /\ bcAsked' = [bcAsked EXCEPT ![c] = p]
       /\ IF p \in DOMAIN bcBinaries
          THEN bcGot' = [bcGot EXCEPT ![c] = bcBinaries[p]] /\ UNCHANGED bcPc
          ELSE bcGot' = [bcGot EXCEPT ![c] = 0] /\ BCGoto(c, "build")
  /\ UNCHANGED <<bcLocal, bcBinaries, bcFiles, bcBuilds, bcName>>

\* GetBinary in the grader: what was not built is an error.
BCGetBuiltBinary(c) ==
  /\ ~bcLocal /\ bcPc[c] = "idle"
  /\ \E p \in BCPackages :
       /\ bcAsked' = [bcAsked EXCEPT ![c] = p]
       /\ bcGot' = [bcGot EXCEPT ![c] = IF p \in DOMAIN bcBinaries THEN bcBinaries[p] ELSE 0]
  /\ UNCHANGED <<bcLocal, bcBinaries, bcFiles, bcBuilds, bcPc, bcName>>

\* runGo: log.Fatal when the build fails, which ends all the tests.
BCBuild(c) ==
  /\ bcPc[c] = "build" /\ bcBuilds < BCMaxBuilds
  /\ bcBuilds' = bcBuilds + 1
  /\ \/ /\ bcFiles' = [n \in DOMAIN bcFiles \union {bcBuilds'} |->
                         IF n = bcBuilds' THEN bcAsked[c] ELSE bcFiles[n]]
        /\ bcName' = [bcName EXCEPT ![c] = bcBuilds']
        /\ BCGoto(c, "store")
     \/ bcPc' = [d \in BCCallers |-> "closed"] /\ UNCHANGED <<bcFiles, bcName>>
  /\ UNCHANGED <<bcLocal, bcBinaries, bcAsked, bcGot>>

BCStore(c) ==
  /\ bcPc[c] = "store"
  /\ bcBinaries' = [p \in DOMAIN bcBinaries \union {bcAsked[c]} |->
                      IF p = bcAsked[c] THEN bcName[c] ELSE bcBinaries[p]]
  /\ bcGot' = [bcGot EXCEPT ![c] = bcName[c]]
  /\ BCGoto(c, "idle")
  /\ UNCHANGED <<bcLocal, bcFiles, bcBuilds, bcAsked, bcName>>

\* CloseFunc, after the tests: the directory of a local cache goes away.
BCClose ==
  /\ \A c \in BCCallers : bcPc[c] = "idle"
  /\ bcPc' = [c \in BCCallers |-> "closed"]
  /\ bcFiles' = IF bcLocal THEN <<>> ELSE bcFiles
  /\ UNCHANGED <<bcLocal, bcBinaries, bcBuilds, bcAsked, bcName, bcGot>>

BCNext ==
  \/ \E c \in BCCallers : BCGetBinary(c) \/ BCGetBuiltBinary(c) \/ BCBuild(c) \/ BCStore(c)
  \/ BCNewLocalBinCache \/ BCNewCIBuildCache \/ BCClose
-----------------------------------------------------------------------------
\* The comment of BinCache: what GetBinary has returned, and what it will return from
\* the map, is a binary of that package for as long as tests run, though others may
\* have built and stored another one since.
BCBinariesStay ==
  \A c \in BCCallers : bcPc[c] # "closed" =>
    /\ bcGot[c] # 0 /\ bcPc[c] = "idle" =>
         bcGot[c] \in DOMAIN bcFiles /\ bcFiles[bcGot[c]] = bcAsked[c]
    /\ \A p \in DOMAIN bcBinaries : bcBinaries[p] \in DOMAIN bcFiles /\ bcFiles[bcBinaries[p]] = p
=============================================================================
