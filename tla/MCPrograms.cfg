SPECIFICATION Spec
CONSTANTS
  p1 = p1
  p2 = p2
  c1 = c1
  c2 = c2
  c3 = c3
  Programs = {"ledger", "urlshortener", "coverme", "dao", "firewall", "digitalclock",
              "iprange", "tabletest", "lrucache", "hogwarts", "topsort",
              "hotelbusiness", "otp", "genericsum", "mergechans",
              "grade", "export", "tarstream", "bincache", "fixtures", "testequal"}
  LGIDs = {1, 2}
  LGCalls <- MCPair
  LGRequests <- MCLedgerRequests
  LGMax = 2
  LGNobody = nobody
  USCalls <- MCPair
  USUrls <- MCThree
  USBase = 2
  USNone = none
  CMClients <- MCPair
  CMMax = 2
  DAONames = {"ann", "bob"}
  DAOMaxID = 3
  FWCalls = {p1}
  FWConfigs <- MCConfigs
  FWRequests <- MCRequests
  FWResponses <- MCResponses
  FWLength <- MCLength
  FWPartial <- MCPartial
  DCPorts = {0, 65535, 65536}
  DCScales <- MCScales
  DCTimes <- MCTimes
  DCBitmap <- MCBitmap
  DCHours <- MCHours
  DCSixty <- MCSixty
  DCNow <- MCNow
  IPTexts <- MCAddresses
  IPNumber <- MCNumber
  IPTooBig = 1000
  IPMaxIPs = 600
  PDTexts <- MCDurations
  PDUnits <- MCUnits
  PDBits = 5
  LRUKeys <- MCThree
  LRUValues = {1, 2}
  LRUCapacities = {0, 2}
  LRUMaxOps = 5
  HWCourses <- MCThree
  HWPrereqs <- MCPrereqs
  TSIDs <- MCThree
  TSGraphs <- MCGraphs
  HBGuestLists <- MCGuests
  OTBuffers = {0, 1, 3}
  OTMax = 4
  GSSlices <- MCSlices
  GSMaps <- MCMaps
  GSMatrices <- MCMatrices
  MGSources <- MCSources
  MGValues = {1, 2}
  TTDeadlines <- MCDeadlines
  TTPushes <- MCPushes
  TTPrivate <- MCTasks
  TTStudents <- MCStudentTrees
  TTMaster <- MCMaster
  TTNames <- MCNames
  TTSize <- MCSizes
  TTDotPrivate = {"data"}
  TAWalk <- MCWalkOrder
  TAParent <- MCParent
  TAContents <- MCContents
  TAFiles = {"a", "d/b"}
  TALeftovers <- MCLeftovers
  BCCallers <- MCPair
  BCPackages = {"p", "q"}
  BCMaxBuilds = 4
  SFTests <- MCThree
  SFRedis <- MCRedis
  SFPorts = {1, 2}
  TEValues <- MCValues
INVARIANT LGNoDeadlock
INVARIANT AnswersStayTrue
INVARIANT NothingSlipsThrough
 
INVARIANT LRUKeepsLatest
INVARIANT DependenciesComeFirst
INVARIANT ResultsAreExact
PROPERTY LGImplementsBank
CHECK_DEADLOCK FALSE
