------------------------------- MODULE CoverMe -------------------------------
(***************************************************************************)
(* coverme: clients, the HTTP handlers of app/app.go and the storage of    *)
(* models/storage.go.  The storage hands out pointers: a handler marshals  *)
(* a todo after the lock is released, as it is by then.                    *)
(***************************************************************************)
EXTENDS Integers

CONSTANTS
  CMClients,  \* clients, each with one request at a time
  CMMax       \* bound: the todos that are created

ASSUME CMAssumption == CMMax \in Nat

VARIABLES
  cmTodos,  \* todos, by ID: whether each is finished
  cmNextID, \* nextID
  cmPc,     \* where the request of each client is
  cmReq,    \* the request
  cmSees,   \* the IDs of the todos its handler points to
  cmAnswer, \* the answer its client has got
  cmDone,   \* history: the IDs whose finish was answered with 200
  cmOwed    \* history: cmDone when the request was sent

cmvars == <<cmTodos, cmNextID, cmPc, cmReq, cmSees, cmAnswer, cmDone, cmOwed>>

CMIDs == 0..CMMax
\* The body of a create request may lack a title, be no JSON, or be null.
CMRequests ==
  [op : {"create"}, body : {"good", "untitled", "malformed", "null"}]
    \union [op : {"get", "finish"}, id : CMIDs] \union [op : {"list"}]
CMNoAnswer == [status |-> 0, todos |-> <<>>]

CMTypeOK ==
  /\ cmNextID \in CMIDs
  /\ DOMAIN cmTodos \subseteq CMIDs
  /\ \A id \in DOMAIN cmTodos : cmTodos[id] \in BOOLEAN
  /\ cmPc \in [CMClients -> {"idle", "sent", "marshal", "answered"}]
  /\ cmReq \in [CMClients -> CMRequests]
  /\ cmSees \in [CMClients -> SUBSET CMIDs]
  /\ cmDone \subseteq CMIDs
  /\ cmOwed \in [CMClients -> SUBSET CMIDs]

CMInit ==
  /\ cmTodos = <<>> /\ cmNextID = 0 /\ cmDone = {}
  /\ cmPc = [c \in CMClients |-> "idle"]
  /\ cmReq = [c \in CMClients |-> [op |-> "list"]]
  /\ cmSees = [c \in CMClients |-> {}]
  /\ cmAnswer = [c \in CMClients |-> CMNoAnswer]
  /\ cmOwed = [c \in CMClients |-> {}]

CMGoto(c, l) == cmPc' = [cmPc EXCEPT ![c] = l]

\* The client gets an answer; status 0 is a connection that breaks off.
CMRespond(c, status, todos) ==
  /\ cmAnswer' = [cmAnswer EXCEPT ![c] = [status |-> status, todos |-> todos]]
  /\ CMGoto(c, "answered")

CMSee(c, ids) ==
  /\ cmSees' = [cmSees EXCEPT ![c] = ids]
  /\ CMGoto(c, "marshal")

\* Add, Get, List and Finish of client/client.go.
CMSend(c) ==
  /\ cmPc[c] \in {"idle", "answered"}
  /\ \E r \in CMRequests : cmReq' = [cmReq EXCEPT ![c] = r]
  /\ cmOwed' = [cmOwed EXCEPT ![c] = cmDone]
  /\ cmAnswer' = [cmAnswer EXCEPT ![c] = CMNoAnswer]
  /\ CMGoto(c, "sent")
  /\ UNCHANGED <<cmTodos, cmNextID, cmSees, cmDone>>

\* addTodo: decoding null leaves req nil, and req.Title panics.
CMRejectCreate(c) ==
  /\ cmReq[c].op = "create" /\ cmReq[c].body # "good"
  /\ CMRespond(c, IF cmReq[c].body = "null" THEN 0 ELSE 400, <<>>)
  /\ UNCHANGED <<cmTodos, cmNextID, cmSees>>

\* addTodo and AddTodo.
CMCreate(c) ==
  /\ cmReq[c].op = "create" /\ cmReq[c].body = "good"
  /\ cmNextID < CMMax
  /\ cmNextID' = cmNextID + 1
  /\ cmTodos' = [id \in DOMAIN cmTodos \union {cmNextID} |->
                   id # cmNextID /\ cmTodos[id]]
  /\ CMSee(c, {cmNextID})
  /\ UNCHANGED cmAnswer

\* getTodo, list and finishTodo with what they call in the storage; an unknown ID
\* is a server error.
CMUnknown(c) ==
  /\ cmReq[c].op \in {"get", "finish"} /\ cmReq[c].id \notin DOMAIN cmTodos
  /\ CMRespond(c, 500, <<>>)
  /\ UNCHANGED <<cmTodos, cmNextID, cmSees>>

CMGet(c) ==
  /\ cmReq[c].op = "get" /\ cmReq[c].id \in DOMAIN cmTodos
  /\ CMSee(c, {cmReq[c].id})
  /\ UNCHANGED <<cmTodos, cmNextID, cmAnswer>>

CMList(c) ==
  /\ cmReq[c].op = "list"
  /\ CMSee(c, DOMAIN cmTodos)
  /\ UNCHANGED <<cmTodos, cmNextID, cmAnswer>>

CMFinish(c) ==
  /\ cmReq[c].op = "finish" /\ cmReq[c].id \in DOMAIN cmTodos
  /\ cmTodos' = [cmTodos EXCEPT ![cmReq[c].id] = TRUE]
  /\ CMSee(c, {})
  /\ UNCHANGED <<cmNextID, cmAnswer>>

CMHandle(c) ==
  /\ cmPc[c] = "sent"
  /\ CMRejectCreate(c) \/ CMCreate(c) \/ CMUnknown(c) \/ CMGet(c) \/ CMList(c) \/ CMFinish(c)
  /\ UNCHANGED <<cmReq, cmDone, cmOwed>>

\* json.Marshal reads the todos one after the other, each as it is by then,
CMRead(c) ==
  /\ cmPc[c] = "marshal"
  /\ \E id \in cmSees[c] :
       /\ cmSees' = [cmSees EXCEPT ![c] = @ \ {id}]
       /\ cmAnswer' = [cmAnswer EXCEPT ![c].todos =
            [i \in DOMAIN @ \union {id} |-> IF i = id THEN cmTodos[id] ELSE @[i]]]
  /\ UNCHANGED <<cmTodos, cmNextID, cmPc, cmReq, cmDone, cmOwed>>

\* and RespondJSON, or finishTodo with a bare header, answers.
CMMarshal(c) ==
  /\ cmPc[c] = "marshal" /\ cmSees[c] = {}
  /\ CMRespond(c, IF cmReq[c].op = "create" THEN 201 ELSE 200, cmAnswer[c].todos)
  /\ cmDone' = IF cmReq[c].op = "finish" THEN cmDone \union {cmReq[c].id} ELSE cmDone
  /\ UNCHANGED <<cmTodos, cmNextID, cmReq, cmSees, cmOwed>>

CMNext == \E c \in CMClients : CMSend(c) \/ CMHandle(c) \/ CMRead(c) \/ CMMarshal(c)
-----------------------------------------------------------------------------
\* A todo whose finish was answered before a request was sent is a finished one
\* in the answer to that request, and is in every answer that lists the todos.
CMReadsAreFresh ==
  \A c \in CMClients :
    LET answer == cmAnswer[c] IN
    cmPc[c] = "answered" /\ answer.status = 200 =>
      /\ \A id \in cmOwed[c] \intersect DOMAIN answer.todos : answer.todos[id]
      /\ cmReq[c].op = "list" => cmOwed[c] \subseteq DOMAIN answer.todos
=============================================================================
