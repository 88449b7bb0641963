--------------------------- MODULE MCThumbFactory ---------------------------
(* Two requests of one application and one more Queue call for another       *)
(* client: enough for a reply and a Finished of different requests to cross. *)
EXTENDS ThumbFactory, TLC

CONSTANTS r1, r2

Symmetry == Permutations({r1, r2})
=============================================================================
