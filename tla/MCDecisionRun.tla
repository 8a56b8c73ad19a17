---------------------------- MODULE MCDecisionRun -----------------------------
(* An instance of DecisionRun for TLC.                                     *)
EXTENDS DecisionRun

CONSTANTS r1, s1, s2, d1, d2, w1
=============================================================================
