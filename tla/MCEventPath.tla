----------------------------- MODULE MCEventPath -----------------------------
(* Three button presses, a queue of two frames or three bytes, a socket     *)
(* that holds three of a frame's units, a fault beside the stops and the    *)
(* kill, and two sessions.                                                  *)
EXTENDS EventPath
=============================================================================
