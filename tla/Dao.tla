--------------------------------- MODULE Dao ---------------------------------
(***************************************************************************)
(* dao/dao.go over PostgreSQL: every call is one statement, whose answer   *)
(* may get lost after it took effect.                                      *)
(***************************************************************************)
EXTENDS Integers

CONSTANTS
  DAONames,
  DAOMaxID   \* bound: the IDs that the sequence gives

ASSUME DAOAssumption == DAOMaxID \in Nat

VARIABLES
  daoUsers,  \* the table: from an ID to its name
  daoSerial, \* the latest ID of the sequence
  daoAnswer, \* what the latest call returned: [op, id, result]
  daoKnown   \* history: for each ID that Create returned, the names it may have

daovars == <<daoUsers, daoSerial, daoAnswer, daoKnown>>

DAOInit ==
  /\ daoUsers = <<>> /\ daoSerial = 0
  /\ daoAnswer = [op |-> "CreateDao", id |-> 0, result |-> <<>>]
  /\ daoKnown = <<>>

DAOSays(op, id, result) == daoAnswer' = [op |-> op, id |-> id, result |-> result]
DAOWith(f, x, y) == [z \in DOMAIN f \union {x} |-> IF z = x THEN y ELSE f[z]]
DAOWithout(f, x) == [z \in DOMAIN f \ {x} |-> f[z]]
DAOKnows(id, names) ==
  daoKnown' = IF id \in DOMAIN daoKnown THEN [daoKnown EXCEPT ![id] = names] ELSE daoKnown

\* SERIAL: the sequence goes on also when the insert fails.
DAONextID == daoSerial + 1

DAOCreate(name) ==
  /\ daoSerial < DAOMaxID /\ daoSerial' = daoSerial + 1
  /\ \/ DAOSays("Create", 0, <<"error">>) /\ UNCHANGED <<daoUsers, daoKnown>>
     \/ /\ daoUsers' = DAOWith(daoUsers, DAONextID, name)
        /\ \/ DAOSays("Create", 0, <<"error">>) /\ UNCHANGED daoKnown
           \/ /\ DAOSays("Create", DAONextID, <<>>)
              /\ daoKnown' = DAOWith(daoKnown, DAONextID, {name})

DAOUpdate(id, name) ==
  /\ \/ /\ id \notin DOMAIN daoUsers
        /\ DAOSays("Update", id, <<"ErrNoRows">>)
        /\ UNCHANGED <<daoUsers, daoKnown>>
     \/ /\ id \in DOMAIN daoUsers
        /\ daoUsers' = [daoUsers EXCEPT ![id] = name]
        /\ DAOSays("Update", id, <<>>) \/ DAOSays("Update", id, <<"error">>)
        /\ DAOKnows(id, {name})
  /\ UNCHANGED daoSerial

DAODelete(id) ==
  /\ \/ /\ id \notin DOMAIN daoUsers
        /\ DAOSays("Delete", id, <<"ErrNoRows">>)
        /\ UNCHANGED <<daoUsers, daoKnown>>
     \/ /\ id \in DOMAIN daoUsers
        /\ daoUsers' = DAOWithout(daoUsers, id)
        /\ DAOSays("Delete", id, <<>>) \/ DAOSays("Delete", id, <<"error">>)
        /\ DAOKnows(id, {})
  /\ UNCHANGED daoSerial

DAOLookup(id) ==
  /\ DAOSays("Lookup", id, IF id \in DOMAIN daoUsers THEN <<daoUsers[id]>> ELSE <<"ErrNoRows">>)
  /\ UNCHANGED <<daoUsers, daoSerial, daoKnown>>

DAOList ==
  /\ DAOSays("List", 0, daoUsers)
  /\ UNCHANGED <<daoUsers, daoSerial, daoKnown>>

\* ctx is cancelled, or the database is away.
DAOFail ==
  /\ DAOSays("failed", 0, <<"error">>)
  /\ UNCHANGED <<daoUsers, daoSerial, daoKnown>>

DAONext ==
  \/ \E name \in DAONames : DAOCreate(name) \/ \E id \in 1..DAOMaxID : DAOUpdate(id, name)
  \/ \E id \in 1..DAOMaxID : DAODelete(id) \/ DAOLookup(id)
  \/ DAOList \/ DAOFail
-----------------------------------------------------------------------------
\* An ID that Create has returned stays with its user: it is found under the ID
\* with the name it got last, and not at all, nor anybody else, once it is deleted.
DAOUsersKeepIDs ==
  /\ \A id \in DOMAIN daoKnown :
       IF daoKnown[id] = {} THEN id \notin DOMAIN daoUsers
       ELSE id \in DOMAIN daoUsers /\ daoUsers[id] \in daoKnown[id]
  /\ daoAnswer.op = "Lookup" /\ daoAnswer.id \in DOMAIN daoKnown =>
       daoAnswer.result \in IF daoKnown[daoAnswer.id] = {} THEN {<<"ErrNoRows">>}
                            ELSE {<<name>> : name \in daoKnown[daoAnswer.id]}
=============================================================================
