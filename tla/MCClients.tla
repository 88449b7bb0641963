----------------------------- MODULE MCClients -----------------------------
(* Two requests or loads of one application, up to two tasks of a service in *)
(* an orderly life of the daemon, one of each of two lives in a rough one,   *)
(* and every handle a failed call may leave.                                 *)
EXTENDS Clients, TLC

CONSTANTS i1, i2

Symmetry == Permutations({i1, i2})
=============================================================================
