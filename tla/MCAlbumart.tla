----------------------------- MODULE MCAlbumart -----------------------------
(* Small instances of Albumart. *)
EXTENDS Albumart

CONSTANTS x, p, q

\* Both names, the album's only, and a title with a kind of its own.
MCWanted ==
  {[artist |-> x, album |-> x, kind |-> "podcast"],
   [artist |-> None, album |-> x, kind |-> "album"],
   [artist |-> x, album |-> None, kind |-> "podcast"]}
=============================================================================
