---------------------------- MODULE MCModInstall ----------------------------
(***************************************************************************)
(* A mod with two releases that share a file, each with one of its own and *)
(* the second with an optional user-supplied one, and a mod of one file.   *)
(***************************************************************************)
EXTENDS ModInstall, TLC

Releases == (<<"A", 1>> :> <<"shared", "old">>)
         @@ (<<"A", 2>> :> <<"shared", "new", "user">>)
         @@ (<<"B", 1>> :> <<"b">>)
UserFiles == {"user"}
=============================================================================
