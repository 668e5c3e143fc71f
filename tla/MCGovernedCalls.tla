--------------------------- MODULE MCGovernedCalls ---------------------------
(* Instances of GovernedCalls for TLC: writes w1 and w2 and a read r1, in   *)
(* one process or in two.                                                   *)
EXTENDS GovernedCallsInv

CONSTANTS w1, w2, r1, p1, p2

TwoProcesses == [c \in Call |-> IF c = w2 THEN p2 ELSE p1]
OneProcess   == [c \in Call |-> p1]
=============================================================================
