------------------------------ MODULE MCDupCall ------------------------------
(* DupCall with three calls of Do: a leader, a follower and a late caller.    *)
EXTENDS DupCall, TLC

CONSTANTS d1, d2, d3

MCCalls == {d1, d2, d3}
MCSymmetry == Permutations(MCCalls)
=============================================================================
