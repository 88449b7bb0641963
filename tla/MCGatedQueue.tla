---------------------------- MODULE MCGatedQueue ----------------------------
(* One normal thread and the large one, two requests of up to two urls that  *)
(* have a handler each, any signal of Tracker at any time.                   *)
EXTENDS GatedQueue, TLC

CONSTANTS u1, u2, n1, l1

OwnKey == u1 :> "png" @@ u2 :> "jpeg"
=============================================================================
