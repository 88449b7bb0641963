------------------------- MODULE MCSpecializedCall -------------------------
(* Two threads that call for the same uri: the first twice, so that a        *)
(* callback can outlive its call, the second once, so that one answer        *)
(* reaches two callers.                                                      *)
EXTENDS SpecializedCall, TLC

CONSTANTS c1, c2, a, b

TwoAndOne == c1 :> 2 @@ c2 :> 1
=============================================================================
