--------------------------- MODULE MCAirPlaySession ---------------------------
(* Instances of AirPlaySession for TLC. *)
EXTENDS AirPlaySession

(* Live video with the required audio stream; two optional streams, whose   *)
(* late answers meet the requests that follow; a file with nothing else.    *)
ThreeOptions ==
  {[source |-> "live", streams |-> {"media"}],
   [source |-> "none", streams |-> {"microphone", "guidance"}],
   [source |-> "file", streams |-> {}]}
=============================================================================
