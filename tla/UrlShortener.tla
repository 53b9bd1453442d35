---------------------------- MODULE UrlShortener ----------------------------
(***************************************************************************)
(* urlshortener/main.go: requests share two maps and a counter under one   *)
(* mutex, and are answered after it is released.  A signal makes the       *)
(* server close: ListenAndServe then returns at once, main after it, and   *)
(* the process ends whatever Shutdown still waits for.  A new process      *)
(* starts with empty maps.                                                 *)
(***************************************************************************)
EXTENDS Integers, Sequences

CONSTANTS
  USCalls,   \* HTTP requests
  USUrls,    \* URLs
  USBase,    \* how many digits base62Chars has
  USNone     \* no request, no URL

ASSUME USAssumption == USBase \in Nat /\ USBase > 1 /\ USNone \notin USUrls

VARIABLES
  usCounter,   \* counter
  usUrlToKey,  \* urlToKey, a partial function
  usKeyToUrl,  \* keyToUrl
  usServer,    \* "up", "closing" once Shutdown has begun, "exited"
  usPc,        \* where each request is
  usAsked,     \* what it asks for: a URL to shorten, a key to go to
  usAnswer,    \* what it is going to be answered
  usGiven      \* history: the pairs of a URL and its key that this process
               \* has answered

usvars == <<usCounter, usUrlToKey, usKeyToUrl, usServer, usPc, usAsked, usAnswer, usGiven>>
usMaps == <<usCounter, usUrlToKey, usKeyToUrl>>

\* intToBase62 of a positive counter.
USKey[n \in Nat] ==
  IF n = 0 THEN <<>> ELSE Append(USKey[n \div USBase], n % USBase)

USTypeOK ==
  /\ usCounter \in Nat
  /\ DOMAIN usUrlToKey \subseteq USUrls
  /\ \A key \in DOMAIN usKeyToUrl : usKeyToUrl[key] \in USUrls
  /\ usServer \in {"up", "closing", "exited"}
  /\ usPc \in [USCalls -> {"none", "pong", "404", "shorten", "go", "answer", "lost"}]

USInit ==
  /\ usCounter = 0 /\ usUrlToKey = <<>> /\ usKeyToUrl = <<>>
  /\ usServer = "up"
  /\ usPc = [c \in USCalls |-> "none"]
  /\ usAsked = [c \in USCalls |-> <<>>]
  /\ usAnswer = [c \in USCalls |-> <<>>]
  /\ usGiven = {}

USGoto(c, l) == usPc' = [usPc EXCEPT ![c] = l]
USInFlight == {c \in USCalls : usPc[c] \in {"pong", "404", "shorten", "go", "answer"}}
USWith(f, x, y) == [z \in DOMAIN f \union {x} |-> IF z = x THEN y ELSE f[z]]
-----------------------------------------------------------------------------
\* RunServerWithRouting: the routes; gin answers 404 to everything else.
USRoutes ==
  {<<"GET", "/pong", "pong">>, <<"POST", "/shorten", "shorten">>, <<"GET", "/go/:key", "go">>}
USMethods == {route[1] : route \in USRoutes}
USPaths == {route[2] : route \in USRoutes}
USHandler(method, path) ==
  IF \E route \in USRoutes : route[1] = method /\ route[2] = path
  THEN (CHOOSE route \in USRoutes : route[1] = method /\ route[2] = path)[3]
  ELSE "404"

\* A request arrives, and is routed.  The URL is USNone in a body that does not bind;
\* a key may be one of an earlier process, or of nobody yet.
USAsk(c) ==
  /\ usServer = "up" /\ usPc[c] \in {"none", "lost"}
  /\ \E method \in USMethods, path \in USPaths :
       LET handler == USHandler(method, path) IN
       /\ USGoto(c, handler)
       /\ \/ /\ handler = "shorten"
             /\ \E url \in USUrls \union {USNone} : usAsked' = [usAsked EXCEPT ![c] = <<url>>]
          \/ /\ handler = "go"
             /\ \E n \in 1..usCounter + 1 : usAsked' = [usAsked EXCEPT ![c] = <<USNone, USKey[n]>>]
          \/ /\ handler \in {"pong", "404"}
             /\ usAsked' = [usAsked EXCEPT ![c] = <<USNone>>]
  /\ usAnswer' = [usAnswer EXCEPT ![c] = <<>>]
  /\ UNCHANGED <<usMaps, usServer, usGiven>>

\* pongHandler, and the answer of gin to a request that has no route.
USPong(c) ==
  /\ usPc[c] \in {"pong", "404"} /\ usServer # "exited"
  /\ usAnswer' = [usAnswer EXCEPT ![c] = <<USNone>>]
  /\ USGoto(c, "answer")
  /\ UNCHANGED <<usMaps, usServer, usAsked, usGiven>>

\* Mutant: a URL gets a new key whether it has one or not.
USShortenUnlooked(c) ==
  /\ usPc[c] = "shorten" /\ usServer # "exited" /\ usAsked[c][1] # USNone
  /\ LET url == usAsked[c][1] IN
       /\ usCounter' = usCounter + 1
       /\ usUrlToKey' = USWith(usUrlToKey, url, USKey[usCounter + 1])
       /\ usKeyToUrl' = USWith(usKeyToUrl, USKey[usCounter + 1], url)
       /\ usAnswer' = [usAnswer EXCEPT ![c] = <<url, USKey[usCounter + 1]>>]
  /\ USGoto(c, "answer")
  /\ UNCHANGED <<usServer, usAsked, usGiven>>

\* shortenHandler: 400 for a body that does not bind, else from Lock to Unlock.
USShorten(c) ==
  /\ usPc[c] = "shorten" /\ usServer # "exited"
  /\ LET url == usAsked[c][1] IN
       \/ /\ url = USNone
          /\ usAnswer' = [usAnswer EXCEPT ![c] = <<USNone>>]
          /\ UNCHANGED usMaps
       \/ /\ url \in DOMAIN usUrlToKey
          /\ usAnswer' = [usAnswer EXCEPT ![c] = <<url, usUrlToKey[url]>>]
          /\ UNCHANGED usMaps
       \/ /\ url \in USUrls \ DOMAIN usUrlToKey
          /\ usCounter' = usCounter + 1
          /\ usUrlToKey' = USWith(usUrlToKey, url, USKey[usCounter + 1])
          /\ usKeyToUrl' = USWith(usKeyToUrl, USKey[usCounter + 1], url)
          /\ usAnswer' = [usAnswer EXCEPT ![c] = <<url, USKey[usCounter + 1]>>]
  /\ USGoto(c, "answer")
  /\ UNCHANGED <<usServer, usAsked, usGiven>>

\* goHandler: 302 to the URL, or 404.
USGo(c) ==
  /\ usPc[c] = "go" /\ usServer # "exited"
  /\ LET key == usAsked[c][2] IN
       usAnswer' = [usAnswer EXCEPT ![c] =
         <<IF key \in DOMAIN usKeyToUrl THEN usKeyToUrl[key] ELSE USNone, key>>]
  /\ USGoto(c, "answer")
  /\ UNCHANGED <<usMaps, usServer, usAsked, usGiven>>

USReply(c) ==
  /\ usPc[c] = "answer" /\ usServer # "exited"
  /\ usGiven' = usGiven \union (IF usAnswer[c][1] = USNone THEN {} ELSE {usAnswer[c]})
  /\ usAsked' = [usAsked EXCEPT ![c] = <<>>]
  /\ usAnswer' = [usAnswer EXCEPT ![c] = <<>>]
  /\ USGoto(c, "none")
  /\ UNCHANGED <<usMaps, usServer>>

\* SIGINT or SIGTERM: Shutdown closes the listener and waits for the requests.
USSignal ==
  /\ usServer = "up"
  /\ usServer' = "closing"
  /\ UNCHANGED <<usMaps, usPc, usAsked, usAnswer, usGiven>>

\* ListenAndServe has returned ErrServerClosed, and main returns.
USExit ==
  /\ usServer = "closing"
  /\ usServer' = "exited"
  /\ usPc' = [c \in USCalls |-> IF c \in USInFlight THEN "lost" ELSE usPc[c]]
  /\ UNCHANGED <<usMaps, usAsked, usAnswer, usGiven>>

\* main of a new process.
USMain ==
  /\ usServer = "exited"
  /\ usServer' = "up"
  /\ usCounter' = 0 /\ usUrlToKey' = <<>> /\ usKeyToUrl' = <<>>
  /\ usGiven' = {}
  /\ UNCHANGED <<usPc, usAsked, usAnswer>>

USNext ==
  \/ \E c \in USCalls : USAsk(c) \/ USPong(c) \/ USShorten(c) \/ USGo(c) \/ USReply(c)
  \/ USSignal \/ USExit \/ USMain
-----------------------------------------------------------------------------
\* urlshortener/README.md: a key that has been answered leads to the URL it was
\* made for, with whatever requests in between; a URL has one key, a key one URL.
USAnswersAgree ==
  \A p, q \in usGiven :
    /\ p[1] \in DOMAIN usUrlToKey /\ usUrlToKey[p[1]] = p[2]
    /\ p[2] \in DOMAIN usKeyToUrl /\ usKeyToUrl[p[2]] = p[1]
    /\ (p[1] = q[1]) = (p[2] = q[2])
=============================================================================
