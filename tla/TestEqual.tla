----------------------------- MODULE TestEqual -----------------------------
(***************************************************************************)
(* testequal/assertions.go: IsEqual by reflection, and the assertions that *)
(* report to a test.  A value has a type, a kind and what it is; the value *)
(* of a nil interface has the type "nil", floats, structs and pointers are *)
(* of the kind "other".                                                    *)
(***************************************************************************)
EXTENDS Naturals, FiniteSets

CONSTANT TEValues \* what is compared: [type, kind, nil, is]

ASSUME TEAssumption ==
  \A v \in TEValues : v.kind \in {"slice", "map"} => \A k \in DOMAIN v.is : v.is[k] \in TEValues

VARIABLES
  tePair,   \* expected and actual of the last call, <<>> before
  teCall,   \* the assertion that was called
  teReport, \* t.Errorf was called
  teStop,   \* t.FailNow was called
  teResult  \* TRUE or FALSE, "panic" or "none"

tevars == <<tePair, teCall, teReport, teStop, teResult>>

TEInit ==
  tePair = <<>> /\ teCall = "none" /\ teReport = FALSE /\ teStop = FALSE /\ teResult = "none"

\* IsEqual: the ways it may end.  The keys of a map come in any order, and the first
\* that differs, or panics, decides.
IsEqual[expected \in TEValues, actual \in TEValues] ==
  IF expected.type # actual.type THEN {"different"}
  ELSE IF expected.type = "nil" THEN {"panic"} \* Kind of a nil reflect.Type
  ELSE IF expected.kind = "scalar"
       THEN {IF expected.is = actual.is THEN "equal" ELSE "different"}
  ELSE IF expected.kind = "other" THEN {"different"}
  ELSE IF expected.nil # actual.nil \/ Cardinality(DOMAIN expected.is) # Cardinality(DOMAIN actual.is)
       THEN {"different"}
  ELSE LET at(k) == IF k \in DOMAIN actual.is THEN IsEqual[expected.is[k], actual.is[k]]
                    ELSE {"different"}
           unequal == {k \in DOMAIN expected.is : at(k) # {"equal"}}
           first == {k \in unequal : expected.kind = "map" \/ \A i \in unequal : k <= i}
       IN IF unequal = {} THEN {"equal"} ELSE UNION {at(k) : k \in first}

\* AssertEqual, AssertNotEqual, RequireEqual and RequireNotEqual.
TEAssert ==
  /\ teCall = "none"
  /\ teCall' \in {"AssertEqual", "AssertNotEqual", "RequireEqual", "RequireNotEqual"}
  /\ \E expected, actual \in TEValues :
       /\ tePair' = <<expected, actual>>
       /\ \E how \in IsEqual[expected, actual] :
            LET holds == (how = "equal") = (teCall' \in {"AssertEqual", "RequireEqual"}) IN
            IF how = "panic" THEN teResult' = "panic" /\ UNCHANGED <<teReport, teStop>>
            ELSE /\ teReport' = ~holds
                 /\ teStop' = (~holds /\ teCall' \in {"RequireEqual", "RequireNotEqual"})
                 /\ teResult' = IF teCall' \in {"AssertEqual", "AssertNotEqual"} THEN holds ELSE "none"

TENext == TEAssert
-----------------------------------------------------------------------------
TESupported[v \in TEValues] ==
  \/ v.kind = "scalar"
  \/ v.kind \in {"slice", "map"} /\ \A k \in DOMAIN v.is : TESupported[v.is[k]]

\* testequal/README.md: of values of the supported kinds an assertion fails exactly when
\* they are not what it says, where nil is not the same as empty.
TEAssertionsRight ==
  (teCall # "none" /\ TESupported[tePair[1]] /\ TESupported[tePair[2]]) =>
    LET same == tePair[1].type = tePair[2].type /\ tePair[1] = tePair[2]
        right == same = (teCall \in {"AssertEqual", "RequireEqual"}) IN
    /\ teReport = ~right
    /\ teStop => teReport
    /\ teCall \in {"AssertEqual", "AssertNotEqual"} => ~teStop /\ teResult = right
    /\ teCall \in {"RequireEqual", "RequireNotEqual"} => teStop = ~right
=============================================================================
