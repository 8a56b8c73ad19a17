-------------------------- MODULE MCBookProjection ---------------------------
(***************************************************************************)
(* Instances of BookProjection for TLC.  Two workers are the smallest      *)
(* number for which a DELETE can wait and skip, and for which two rebuilds *)
(* can deadlock.                                                           *)
(***************************************************************************)
EXTENDS BookProjection

CONSTANTS s1, s2, w1, w2

Buys == {1}
BuysAndSells == {1, -1}
=============================================================================
