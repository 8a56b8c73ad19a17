--------------------------- MODULE MCCommandQueue ---------------------------
(***************************************************************************)
(* Instances of CommandQueue for TLC.  Three keys, one of each kind, three *)
(* ids, two API requests and two workers are enough for: two requests      *)
(* racing on one key, other commands in between, a cancel that races a     *)
(* claim, and a claim that skips the row another worker has locked.        *)
(***************************************************************************)
EXTENDS CommandQueue, TLC

CONSTANTS k1, k2, k3, i1, i2, i3, c1, c2, w1, w2

(* k1: an ordinary handler; k2: a lake handler; k3: a type that HANDLERS   *)
(* does not know.                                                          *)
MCHandled == {k1, k2} \cap Keys
MCAmbiguous == {k2} \cap Keys

Symmetry == Permutations(Ids) \cup Permutations(Clients) \cup Permutations(Workers)
=============================================================================
