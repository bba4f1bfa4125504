------------------------------ MODULE MCLoader ------------------------------
(***************************************************************************)
(* Two DLLs, either of which may not load: one waits for two places, one   *)
(* after the other, one for the second of them; a Lua mod built for a      *)
(* newer API.  A host with everything on, the Japanese edition with        *)
(* everything off but the voices, and a host that is not the game.         *)
(***************************************************************************)
EXTENDS Loader

DllNames == {"first", "second"}
ExportsOf == [d \in DllNames |-> {"early", "init"}]
ProbeOf == [d \in DllNames |-> IF d = "first" THEN <<"safepoint", "seed">> ELSE <<"seed">>]
LuaNames == {"lua"}
WantsOf == [m \in LuaNames |-> <<1, 1>>]

World(edition, sotes, voiced, keepactive, skip) ==
    [edition |-> edition, sotes |-> sotes, voice |-> voiced, keepactive |-> keepactive, skip |-> skip]
WorldsOfHosts == {World("EN", TRUE, TRUE, TRUE, TRUE), World("JP", TRUE, TRUE, FALSE, FALSE),
                  World("other", FALSE, TRUE, TRUE, TRUE)}
=============================================================================
