---------------------------- MODULE ArtifactStore ----------------------------
(***************************************************************************)
(* What distbuild's artifact cache promises its callers, without locks     *)
(* maps, directories or system calls: an artifact appears in one step,     *)
(* whoever reads it keeps everyone else from changing it, and whoever      *)
(* creates or removes it is alone with it.  Only a removal may leave an    *)
(* artifact "torn", and a crash may strike between any two steps.          *)
(***************************************************************************)
CONSTANTS
  Calls,    \* calls of Create, Remove and Get in flight
  IDs       \* artifact identifiers

VARIABLES
  content,  \* content[id]: "absent", "whole" or "torn"
  writers,  \* writers[id]: the calls that hold id for writing
  readers,  \* readers[id]: the calls that hold id for reading
  phase     \* phase[c]: what a writing call still has to do

vars == <<content, writers, readers, phase>>

TypeOK ==
  /\ content \in [IDs -> {"absent", "whole", "torn"}]
  /\ writers \in [IDs -> SUBSET Calls]
  /\ readers \in [IDs -> SUBSET Calls]
  /\ phase \in [Calls -> {"none", "create", "remove", "done"}]

Init ==
  /\ content = [id \in IDs |-> "absent"]
  /\ writers = [id \in IDs |-> {}]
  /\ readers = [id \in IDs |-> {}]
  /\ phase = [c \in Calls |-> "none"]

Free(id) == writers[id] = {} /\ readers[id] = {}

BeginCreate(c, id) ==
  /\ phase[c] = "none"
  /\ Free(id)
  /\ content[id] = "absent"
  /\ writers' = [writers EXCEPT ![id] = {c}]
  /\ phase' = [phase EXCEPT ![c] = "create"]
  /\ UNCHANGED <<content, readers>>

BeginRemove(c, id) ==
  /\ phase[c] = "none"
  /\ Free(id)
  /\ writers' = [writers EXCEPT ![id] = {c}]
  /\ phase' = [phase EXCEPT ![c] = "remove"]
  /\ UNCHANGED <<content, readers>>

\* The only step that makes an artifact readable: from nothing to all of it.
Publish(c, id) ==
  /\ c \in writers[id] /\ phase[c] = "create"
  /\ content[id] = "absent"
  /\ content' = [content EXCEPT ![id] = "whole"]
  /\ phase' = [phase EXCEPT ![c] = "done"]
  /\ UNCHANGED <<writers, readers>>

Tear(c, id) ==
  /\ c \in writers[id] /\ phase[c] = "remove"
  /\ content[id] # "absent"
  /\ content' = [content EXCEPT ![id] = "torn"]
  /\ UNCHANGED <<writers, readers, phase>>

Erase(c, id) ==
  /\ c \in writers[id] /\ phase[c] = "remove"
  /\ content' = [content EXCEPT ![id] = "absent"]
  /\ phase' = [phase EXCEPT ![c] = "done"]
  /\ UNCHANGED <<writers, readers>>

\* A failure reported to the caller, or an abort: the content stays as it is.
GiveUp(c) ==
  /\ phase[c] \in {"create", "remove"}
  /\ phase' = [phase EXCEPT ![c] = "done"]
  /\ UNCHANGED <<content, writers, readers>>

Release(c, id) ==
  /\ c \in writers[id] /\ phase[c] = "done"
  /\ writers' = [writers EXCEPT ![id] = @ \ {c}]
  /\ phase' = [phase EXCEPT ![c] = "none"]
  /\ UNCHANGED <<content, readers>>

BeginRead(c, id) ==
  /\ writers[id] = {}
  /\ readers' = [readers EXCEPT ![id] = @ \union {c}]
  /\ UNCHANGED <<content, writers, phase>>

EndRead(c, id) ==
  /\ c \in readers[id]
  /\ readers' = [readers EXCEPT ![id] = @ \ {c}]
  /\ UNCHANGED <<content, writers, phase>>

\* A crash forgets who held what and keeps what was on disk.
Crash ==
  /\ writers' = [id \in IDs |-> {}]
  /\ readers' = [id \in IDs |-> {}]
  /\ phase' = [c \in Calls |-> "none"]
  /\ UNCHANGED content

Next ==
  \/ \E c \in Calls, id \in IDs :
       \/ BeginCreate(c, id) \/ BeginRemove(c, id)
       \/ Publish(c, id) \/ Tear(c, id) \/ Erase(c, id) \/ Release(c, id)
       \/ BeginRead(c, id) \/ EndRead(c, id)
  \/ \E c \in Calls : GiveUp(c)
  \/ Crash

Spec == Init /\ [][Next]_vars
=============================================================================
