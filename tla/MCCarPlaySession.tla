--------------------------- MODULE MCCarPlaySession ---------------------------
(* Instances of CarPlaySession for TLC. *)
EXTENDS CarPlaySession

AnyEnvironment == BOOLEAN
=============================================================================
