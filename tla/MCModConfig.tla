---------------------------- MODULE MCModConfig ----------------------------
(* Two settings of two mods, an integer and a fraction, and a table of two *)
(* rows; the file is empty, or hand-written with a key twice.              *)
EXTENDS ModConfig

KeyNames == {"glide.fps", "zoom.level"}
ModNames == {"glide", "zoom"}
ModOfKey == [k \in KeyNames |-> IF k = "glide.fps" THEN "glide" ELSE "zoom"]
SchemaOfKey == [k \in KeyNames |->
                  IF k = "glide.fps" THEN [int |-> TRUE, min |-> 0, max |-> 5, default |-> 2]
                                     ELSE [int |-> FALSE, min |-> 1, max |-> 4, default |-> 2]]
InputValues == [k \in KeyNames |-> {-1, 7}]
JunkText == -99
FirstFiles == {<<>>,
               <<[key |-> "zoom.level", val |-> JunkText], [key |-> "zoom.level", val |-> 4]>>}
=============================================================================
