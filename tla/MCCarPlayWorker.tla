--------------------------- MODULE MCCarPlayWorker ---------------------------
(* Instances of CarPlayWorker for TLC: the constants are given in the       *)
(* configurations, which only differ in their bounds.                       *)
EXTENDS CarPlayWorker
=============================================================================
