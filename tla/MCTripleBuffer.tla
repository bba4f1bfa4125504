-------------------------- MODULE MCTripleBuffer --------------------------
(* The triple buffer with up to MaxVersion published snapshots. *)
EXTENDS TripleBuffer
=============================================================================
