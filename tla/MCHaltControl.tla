---------------------------- MODULE MCHaltControl ----------------------------
(***************************************************************************)
(* Instances of HaltControl for TLC.  Three halts let a book be halted,    *)
(* halted again, resumed and halted once more.                             *)
(***************************************************************************)
EXTENDS HaltControl, TLC

CONSTANTS h1, h2, h3, w1, w2, w3

Symmetry == Permutations(Halts) \cup Permutations(Workers)
=============================================================================
