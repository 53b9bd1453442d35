------------------------------ MODULE Firewall ------------------------------
(***************************************************************************)
(* firewall/cmd/firewall/main.go: a reverse proxy whose transport checks   *)
(* each request against the rules of its endpoint, forwards it, and checks *)
(* the response.  A body is one of a few contents with a length; a regular *)
(* expression is the set of what it matches, empty when it does not        *)
(* compile.                                                                *)
(***************************************************************************)
EXTENDS Integers, Sequences, SequencesExt

CONSTANTS
  FWCalls,      \* requests in flight
  FWConfigs,    \* what the file of -conf may be: [reads, parses, rules]
  FWRequests,   \* [path, headers: name -> value, body]
  FWResponses,  \* [code, body] of the service
  FWLength,     \* the length of each body
  FWPartial     \* what is read of a body when reading it fails

VARIABLES
  fwServer, \* "start", "up", "closing", "exited"
  fwConfig, \* config.Rules
  fwPc,     \* where each request is
  fwReq,    \* the request, as it was sent
  fwBody,   \* the body that is forwarded
  fwBroken, \* reading a body has failed
  fwGiven,  \* history: the response of the service
  fwResp    \* the response on its way to the client, or what it has got

fwvars == <<fwServer, fwConfig, fwPc, fwReq, fwBody, fwBroken, fwGiven, fwResp>>

FWForbidden == [code |-> 403, body |-> "Forbidden"]
FWNoResponse == [code |-> 0, body |-> "empty"]
FWBadGateway == [code |-> 502, body |-> "empty"]

\* Bodies have lengths, the limits of a rule are optional numbers, and no response is
\* told apart from those of the service.
ASSUME FWAssumption ==
  /\ \A r \in FWRequests \union FWResponses : FWLength[r.body] \in Nat
  /\ \A file \in FWConfigs : \A i \in DOMAIN file.rules :
       file.rules[i].maxRequest \in Seq(Nat) /\ file.rules[i].maxResponse \in Seq(Nat)
  /\ FWNoResponse \notin FWResponses

FWInit ==
  /\ fwServer = "start" /\ fwConfig = <<>>
  /\ fwPc = [c \in FWCalls |-> "none"]
  /\ fwReq = [c \in FWCalls |-> [path |-> "", headers |-> <<>>, body |-> "empty"]]
  /\ fwBody = [c \in FWCalls |-> "empty"]
  /\ fwBroken = [c \in FWCalls |-> FALSE]
  /\ fwGiven = [c \in FWCalls |-> FWNoResponse]
  /\ fwResp = [c \in FWCalls |-> FWNoResponse]

FWGoto(c, l) == fwPc' = [fwPc EXCEPT ![c] = l]
FWRunning == fwServer \in {"up", "closing"}

\* Mutant: the first rule of the endpoint is the only one.
FWFirstRule(path) ==
  LET rules == SelectSeq(fwConfig, LAMBDA rule : rule.endpoint = path) IN
  IF rules = <<>> THEN {} ELSE {rules[1]}

\* getRulesForEndpoint.
FWRulesFor(path) == {rule \in ToSet(fwConfig) : rule.endpoint = path}

\* Header.Get, "" for a header that is not there.
FWHeader(r, name) == IF name \in DOMAIN r.headers THEN r.headers[name] ELSE ""

\* shouldBlockRequest.
FWBlocksRequest(rules, r, body) ==
  \E rule \in rules :
    \/ FWHeader(r, "User-Agent") \in rule.forbiddenUserAgents
    \/ \E h \in rule.forbiddenHeaders : FWHeader(r, h[1]) \in h[2]
    \/ \E name \in rule.requiredHeaders : FWHeader(r, name) = ""
    \/ rule.maxRequest # <<>> /\ FWLength[body] > rule.maxRequest[1]
    \/ body \in rule.forbiddenRequestRE

\* shouldBlockResponse.
FWBlocksResponse(rules, resp, body) ==
  \E rule \in rules :
    \/ resp.code \in rule.forbiddenCodes
    \/ rule.maxResponse # <<>> /\ FWLength[body] > rule.maxResponse[1]
    \/ body \in rule.forbiddenResponseRE
-----------------------------------------------------------------------------
\* loadConfig: no rules in an empty file, and none to go on with when it cannot be
\* read or parsed.
FWLoadConfig(file) == IF file.reads /\ file.parses THEN <<file.rules>> ELSE <<>>

FWFlags == {"-service-addr", "-conf", "-addr"}

\* main: log.Fatal unless all flags are given, the address of the service is one, the
\* configuration is loaded and the port can be listened on.
FWMain ==
  /\ fwServer = "start"
  /\ \E given \in {FWFlags} \union {FWFlags \ {flag} : flag \in FWFlags},
        valid, listens \in BOOLEAN, file \in FWConfigs :
       IF given = FWFlags /\ valid /\ FWLoadConfig(file) # <<>> /\ listens
       THEN fwServer' = "up" /\ fwConfig' = FWLoadConfig(file)[1]
       ELSE fwServer' = "exited" /\ UNCHANGED fwConfig
  /\ UNCHANGED <<fwPc, fwReq, fwBody, fwBroken, fwGiven, fwResp>>

FWAsk(c) ==
  /\ fwServer = "up" /\ fwPc[c] = "none"
  /\ \E r \in FWRequests : fwReq' = [fwReq EXCEPT ![c] = r]
  /\ FWGoto(c, "request")
  /\ UNCHANGED <<fwServer, fwConfig, fwBody, fwBroken, fwGiven, fwResp>>

\* RoundTrip up to the transport of the request.  When its body cannot be read to
\* the end, what was read is checked and nothing is forwarded in its place.
FWCheckRequest(c) ==
  /\ fwPc[c] = "request" /\ FWRunning
  /\ \E err \in BOOLEAN :
       LET r == fwReq[c]
           read == IF err THEN FWPartial[r.body] ELSE r.body
       IN
       /\ fwBroken' = [fwBroken EXCEPT ![c] = err]
       /\ IF FWBlocksRequest(FWRulesFor(r.path), r, read)
          THEN /\ fwResp' = [fwResp EXCEPT ![c] = FWForbidden]
               /\ FWGoto(c, "reply")
               /\ UNCHANGED fwBody
          ELSE /\ fwBody' = [fwBody EXCEPT ![c] = IF err THEN "empty" ELSE r.body]
               /\ FWGoto(c, "forward")
               /\ UNCHANGED fwResp
  /\ UNCHANGED <<fwServer, fwConfig, fwReq, fwGiven>>

\* The service answers, or the proxy answers 502 for it.
FWForward(c) ==
  /\ fwPc[c] = "forward" /\ FWRunning
  /\ \/ /\ \E resp \in FWResponses :
             fwGiven' = [fwGiven EXCEPT ![c] = resp] /\ fwResp' = [fwResp EXCEPT ![c] = resp]
        /\ FWGoto(c, "response")
     \/ /\ fwResp' = [fwResp EXCEPT ![c] = FWBadGateway]
        /\ FWGoto(c, "reply")
        /\ UNCHANGED fwGiven
  /\ UNCHANGED <<fwServer, fwConfig, fwReq, fwBody, fwBroken>>

\* The rest of RoundTrip.  A body that cannot be read to the end has been read as
\* far as it goes when the proxy copies it: nothing is left.
FWCheckResponse(c) ==
  /\ fwPc[c] = "response" /\ FWRunning
  /\ \E err \in BOOLEAN :
       LET resp == fwResp[c]
           read == IF err THEN FWPartial[resp.body] ELSE resp.body
       IN
       /\ fwBroken' = [fwBroken EXCEPT ![c] = @ \/ err]
       /\ fwResp' = [fwResp EXCEPT ![c] =
            IF FWBlocksResponse(FWRulesFor(fwReq[c].path), resp, read) THEN FWForbidden
            ELSE IF err THEN [resp EXCEPT !.body = "empty"] ELSE resp]
  /\ FWGoto(c, "reply")
  /\ UNCHANGED <<fwServer, fwConfig, fwReq, fwBody, fwGiven>>

FWReply(c) ==
  /\ fwPc[c] = "reply" /\ FWRunning
  /\ FWGoto(c, "answered")
  /\ UNCHANGED <<fwServer, fwConfig, fwReq, fwBody, fwBroken, fwGiven, fwResp>>

\* setupGracefulShutdown, as in urlshortener.
FWSignal ==
  /\ fwServer = "up"
  /\ fwServer' = "closing"
  /\ UNCHANGED <<fwConfig, fwPc, fwReq, fwBody, fwBroken, fwGiven, fwResp>>

\* ListenAndServe returns, and main with it: the requests in flight are lost.
FWExit ==
  /\ fwServer = "closing"
  /\ fwServer' = "exited"
  /\ UNCHANGED <<fwConfig, fwPc, fwReq, fwBody, fwBroken, fwGiven, fwResp>>

FWNext ==
  \/ \E c \in FWCalls :
       \/ FWAsk(c) \/ FWCheckRequest(c) \/ FWForward(c) \/ FWCheckResponse(c)
       \/ FWReply(c)
  \/ FWMain \/ FWSignal \/ FWExit
-----------------------------------------------------------------------------
(* What the rules of configs/example.yaml mean.                            *)

FWPermits(rule, r) ==
  /\ FWHeader(r, "User-Agent") \notin rule.forbiddenUserAgents
  /\ \A h \in rule.forbiddenHeaders : FWHeader(r, h[1]) \notin h[2]
  /\ \A name \in rule.requiredHeaders : FWHeader(r, name) # ""
  /\ rule.maxRequest # <<>> => FWLength[r.body] <= rule.maxRequest[1]
  /\ r.body \notin rule.forbiddenRequestRE

FWPermitsResponse(rule, resp) ==
  /\ resp.code \notin rule.forbiddenCodes
  /\ rule.maxResponse # <<>> => FWLength[resp.body] <= rule.maxResponse[1]
  /\ resp.body \notin rule.forbiddenResponseRE

\* The places of the rules that speak of a request.
FWSpeaking(c) == {i \in DOMAIN fwConfig : fwConfig[i].endpoint = fwReq[c].path}
FWPermitted(c) == \A i \in FWSpeaking(c) : FWPermits(fwConfig[i], fwReq[c])
FWAnswerPermitted(c) == \A i \in FWSpeaking(c) : FWPermitsResponse(fwConfig[i], fwGiven[c])

\* firewall/README.md: a request goes on to the service exactly when every rule of
\* its endpoint permits it, and then with its own body; the client gets the very
\* response of the service exactly when every such rule permits that one too, and
\* 403 when one does not.  Said of requests whose bodies can be read to the end.
FWRulesHold ==
  \A c \in FWCalls : ~fwBroken[c] =>
    /\ fwPc[c] = "forward" \/ fwGiven[c] # FWNoResponse =>
         FWPermitted(c) /\ fwBody[c] = fwReq[c].body
    /\ fwPc[c] = "answered" =>
         fwResp[c] = IF ~FWPermitted(c) THEN FWForbidden
                     ELSE IF fwGiven[c] = FWNoResponse THEN FWBadGateway
                     ELSE IF FWAnswerPermitted(c) THEN fwGiven[c] ELSE FWForbidden
=============================================================================
