--------------------------- MODULE MCMicrophonePath ---------------------------
(* Five datagrams and a window of three, so that some fall out of it; the   *)
(* third has half a sample.  Queues of two packets, as in the code, and     *)
(* three requests of the phone: open, close and open again.                 *)
EXTENDS MicrophonePath
MCOdd == {3}
=============================================================================
