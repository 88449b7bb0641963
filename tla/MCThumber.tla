----------------------------- MODULE MCThumber -----------------------------
(* Two calls: one file, two files, or a call whose uri is empty and dropped. *)
EXTENDS Thumber

CONSTANTS a, b

MCLists == {<<>>, <<a>>, <<a, b>>}
MCSizes == <<"large", "cropped">>
=============================================================================
