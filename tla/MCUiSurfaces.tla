--------------------------- MODULE MCUiSurfaces ---------------------------
(***************************************************************************)
(* Three worlds for the UI pipeline.  In the steady one every draw         *)
(* callback always emits the same widgets and none faults; in the shifting *)
(* one a callback chooses what it emits, emits more widgets than there are *)
(* slots for, or faults and is disabled; in the crowded one callbacks      *)
(* fault while there are more surfaces than MAX_SURFACES.                  *)
(***************************************************************************)
EXTENDS UiSurfaces

ButtonNames == {"button"}
WorldsOfMods ==
    {[draws |-> {<<"button", "slider">>}, faults |-> FALSE, acts |-> 3, regs |-> 3],
     [draws |-> {<<"button">>, <<"slider", "button", "button">>}, faults |-> TRUE, acts |-> 1, regs |-> 2],
     [draws |-> {<<"button">>}, faults |-> TRUE, acts |-> 0, regs |-> 3]}
=============================================================================
