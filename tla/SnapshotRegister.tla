------------------------- MODULE SnapshotRegister -------------------------
(***************************************************************************)
(* What the lock-free hand-over between the engine thread and a renderer   *)
(* promises, with no buffers and no atomics: a register the producer       *)
(* overwrites and the consumer copies.  Versions are numbered in the order *)
(* they are produced; version 0 is the empty value everybody starts with.  *)
(* "Latest wins, an unconsumed frame is dropped" (core/ui.cpp:7-10) is the  *)
(* fact that Take always copies the newest version, never an older one.    *)
(***************************************************************************)
EXTENDS Naturals

CONSTANT MaxVersion   \* bound on the versions one behaviour produces

VARIABLES latest,     \* newest published version
          taken       \* version the consumer holds

rvars == <<latest, taken>>

Init == /\ latest = 0
        /\ taken = 0

Publish == /\ latest < MaxVersion
           /\ latest' = latest + 1
           /\ UNCHANGED taken

Take == /\ taken # latest
        /\ taken' = latest
        /\ UNCHANGED latest

Next == Publish \/ Take

Spec == Init /\ [][Next]_rvars
=============================================================================
