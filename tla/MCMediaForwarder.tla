--------------------------- MODULE MCMediaForwarder ---------------------------
(* Instances of MediaForwarder for TLC. *)
EXTENDS MediaForwarder

BothKinds == {"video", "audio"}
=============================================================================
