--------------------------- MODULE MCLiveWidget ---------------------------
(* A widget with two or three values. *)
EXTENDS LiveWidget
=============================================================================
