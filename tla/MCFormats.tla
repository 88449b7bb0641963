----------------------------- MODULE MCFormats -----------------------------
(* Two requests, one change of the configuration, a thumbnail of another url *)
(* and ints of four bits, which three files of these sizes exceed.           *)
EXTENDS Formats

Sizes == [f \in Format |-> IF f = "png" THEN 3 ELSE 2]
Cleanings == {<<0, 0>>, <<3, 0>>, <<6, 0>>, <<-1, 2>>, <<-1, 3>>}
AnotherUrl == {[mtime |-> 1, size |-> 3]}
=============================================================================
