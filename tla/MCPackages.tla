----------------------------- MODULE MCPackages -----------------------------
(***************************************************************************)
(* The packages that nothing else in the repository calls, side by side: a *)
(* behaviour runs the one it picks at the start and leaves the others in   *)
(* their initial states.                                                   *)
(***************************************************************************)
EXTENDS WaitGroup, Once, KeyLock, TParallel, RSem

CONSTANTS Packages, p1, p2, p3, a, b, t1, t2, s1, s2

VARIABLE package

MCWGDeltas == {-2, -1, 1, 2}
MCProcs == {p1, p2, p3}
MCPair == {p1, p2}
MCKeys == {a, b}
MCRequests == {<<a>>, <<a, b>>, <<b, a>>, <<b, b>>}
MCTests == {t1, t2, s1, s2}
MCSubtests == [t \in MCTests \union {TPTop} |->
  CASE t = TPTop -> <<t1, t2>>
    [] t = t1 -> <<s1>>
    [] t = s1 -> <<s2>>
    [] OTHER -> <<>>]

\* The top-level tests alone, without subtests.
MCFlat == [MCSubtests EXCEPT ![t1] = <<>>, ![s1] = <<>>]

vars == <<package, wgvars, oncevars, klvars, tpvars, rsvars>>

PackagesTypeOK == WGTypeOK /\ OnceTypeOK /\ KLTypeOK /\ TPTypeOK /\ RSTypeOK

Init ==
  /\ package \in Packages
  /\ WGInit /\ OnceInit /\ KLInit /\ TPInit /\ RSInit

Next ==
  /\ UNCHANGED package
  /\ \/ package = "waitgroup" /\ WGNext /\ UNCHANGED <<oncevars, klvars, tpvars, rsvars>>
     \/ package = "once" /\ OnceNext /\ UNCHANGED <<wgvars, klvars, tpvars, rsvars>>
     \/ package = "keylock" /\ KLNext /\ UNCHANGED <<wgvars, oncevars, tpvars, rsvars>>
     \/ package = "tparallel" /\ TPNext /\ UNCHANGED <<wgvars, oncevars, klvars, rsvars>>
     \/ package = "rsem" /\ RSNext /\ UNCHANGED <<wgvars, oncevars, klvars, tpvars>>

Spec == Init /\ [][Next]_vars

\* A goroutine that is not blocked goes on; a mutex, a channel and a timer serve
\* everybody in the end.
FairSpec ==
  /\ Spec
  /\ \A p \in WGProcs : WF_wgvars(WGReceive(p)) /\ WF_wgvars(WGReturn(p))
  /\ \A p \in KLProcs :
       /\ SF_klvars(KLLock(p)) /\ WF_klvars(KLInsert(p)) /\ WF_klvars(KLStartInsert(p))
       /\ WF_klvars(KLTake(p) \/ KLTimeOut(p) \/ KLCancelled(p)) /\ WF_klvars(KLReturn(p))
  /\ \A s \in Starters : WF_tpvars(package = "tparallel" /\ TPStep(s))
  /\ WF_rsvars(package = "rsem" /\ RSAdvance)
  /\ \A p \in RSCalls : SF_rsvars(RSScript(p)) /\ WF_rsvars(RSRetry(p))
                        /\ WF_rsvars(RSRefresh(p)) /\ WF_rsvars(RSReturn(p))
=============================================================================
