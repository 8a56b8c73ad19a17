----------------------------- MODULE MCAdviceRun ------------------------------
(* Instances of AdviceRun for TLC.                                         *)
EXTENDS AdviceRun

CONSTANTS r1, r2, s1, s2, d1, d2, w1, w2
=============================================================================
