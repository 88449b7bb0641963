--------------------------- MODULE MCTrackerGate ---------------------------
(* A request of a few urls and up to two signals of Tracker under way.       *)
EXTENDS TrackerGate
=============================================================================
