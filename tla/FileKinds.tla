----------------------------- MODULE FileKinds -----------------------------
(***************************************************************************)
(* The kinds of file that the tables of the daemon tell apart: a uri       *)
(* scheme with a mime type.                                                *)
(***************************************************************************)
CONSTANTS
  Scheme,
  Mime,
  None   \* where the code has NULL

Key == Scheme \X Mime

MimesOf(K) == {k[2] : k \in K}
=============================================================================
