---------------------------- MODULE MCExecutor ----------------------------
(* Two deferred mods, one native worker thread, a ring of three slots. *)
EXTENDS ExecutorOnRing

TwoMods == <<"native", "lua">>
OneMod == <<"lua">>
=============================================================================
