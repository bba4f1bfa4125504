----------------------------- MODULE MCPresent -----------------------------
(* Mirror, borderless and windowed takeover, with graphics that work and   *)
(* graphics that fail, no hook at all, and the setting that starts both    *)
(* hosts of mod.ui.                                                        *)
EXTENDS Present

WorldsOfSettings ==
    [ddraw : {"1"}, takeover : {0, 1, 2}, faults : BOOLEAN]
    \union [ddraw : {"off"}, takeover : {0, 1}, faults : {FALSE}]
    \union [ddraw : {"true"}, takeover : {1}, faults : {FALSE}]
=============================================================================
