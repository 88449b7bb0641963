--------------------------- MODULE MCThumbnailer ---------------------------
(* Small instances of Thumbnailer for TLC: two normal threads and one large  *)
(* thread as in the code, two urls of two mime types, and a limit of one url *)
(* instead of fifty, so that both pools are used.                            *)
EXTENDS Thumbnailer, TLC

CONSTANTS u1, u2, n1, n2, l1

SameKey == u1 :> "png" @@ u2 :> "png"
Symmetry == Permutations({n1, n2})
=============================================================================
