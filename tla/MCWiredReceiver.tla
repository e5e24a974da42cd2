--------------------------- MODULE MCWiredReceiver ---------------------------
(* Two phones one after the other, or one that is plugged in again; two     *)
(* requests, so that one meets a busy worker, and one wait that times out.  *)
EXTENDS WiredReceiver
=============================================================================
