---------------------------- MODULE MCThumbStore ----------------------------
(* Small instances of ThumbStore. *)
EXTENDS ThumbStore, TLC

CONSTANTS w1, w2, a, b

Symmetry == Permutations(Worker)
=============================================================================
