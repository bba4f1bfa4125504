----------------------------- MODULE ModInstall -----------------------------
(***************************************************************************)
(* Installing, updating and removing mods in a game directory              *)
(* (launcher/core/src/install.rs), and what a failure or a crash of the    *)
(* launcher leaves behind.                                                 *)
(*                                                                         *)
(* The launcher makes one call at a time.  A call is split where it can    *)
(* fail or where a crash can separate it: each file placed, the rollback,  *)
(* the pruning of stale files, and the two steps that record the result,   *)
(* in memory and in oss_installed.json.  The content of a file is the mod  *)
(* and version it came from; fetching, hashing and directories are not     *)
(* modelled beyond whether a file could be placed.                         *)
(***************************************************************************)
EXTENDS Naturals, Sequences, FiniteSets

CONSTANTS Ships,      \* dests of each version: <<mod, version>> -> sequence
          Optional,   \* dests of user-supplied files that may be left out
          Nothing,    \* no file, or no installed version
          Damaged,    \* a file whose write failed half-way
          MaxCalls    \* bound on the calls of one behaviour

Release == DOMAIN Ships
Mod == {r[1] : r \in Release}
Shipped(r) == {Ships[r][i] : i \in DOMAIN Ships[r]}
Dest == UNION {Shipped(r) : r \in Release}
Manifest == [Mod -> [rel : Release \cup {Nothing}, files : SUBSET Dest]]

\* Releases of different mods ship different files.
ASSUME ShipsAssumption ==
    /\ \A r \in Release : Ships[r] \in Seq(Shipped(r))
    /\ \A r, q \in Release : r[1] # q[1] => Shipped(r) \cap Shipped(q) = {}
    /\ MaxCalls \in Nat
ASSUME SentinelsAssumption ==
    Nothing \notin Release /\ Damaged \notin Release /\ Nothing \notin Manifest

VARIABLES disk,   \* content of each dest
          mem,    \* the launcher's InstalledManifest
          saved,  \* oss_installed.json; Nothing when it cannot be parsed
          call,   \* the call in progress
          calls,  \* calls so far
          rough,  \* whether a disk operation failed or the launcher crashed
          hurt    \* mods whose last update was rolled back after overwriting

vars == <<disk, mem, saved, call, calls, rough, hurt>>

None == [rel |-> Nothing, files |-> {}]
Empty == [m \in Mod |-> None]
NoCall == [phase |-> "none", mod |-> Nothing, rel |-> Nothing, next |-> 1,
           written |-> {}, prev |-> {}, before |-> [d \in Dest |-> Nothing]]
Idle == call.phase = "none"

\* remove_file on every dest of a set; each may fail, and is then left.
Unlink(dests) ==
    \E gone \in SUBSET dests :
        /\ disk' = [d \in Dest |-> IF d \in gone THEN Nothing ELSE disk[d]]
        /\ rough' = (rough \/ \E d \in dests \ gone : disk[d] # Nothing)

(***************************************************************************)
(* install_version.                                                        *)
(***************************************************************************)
InstallBegin(rel) ==
    /\ Idle /\ calls < MaxCalls
    /\ calls' = calls + 1
    /\ call' = [NoCall EXCEPT !.phase = "place", !.mod = rel[1], !.rel = rel,
                              !.prev = mem[rel[1]].files, !.before = disk]
    /\ UNCHANGED <<disk, mem, saved, rough, hurt>>

Placing == call.phase = "place" /\ call.next <= Len(Ships[call.rel])
File == Ships[call.rel][call.next]

\* Fetched or picked, verified, and written over whatever was there.
PlaceFile ==
    /\ Placing
    /\ disk' = [disk EXCEPT ![File] = call.rel]
    /\ call' = [call EXCEPT !.next = @ + 1, !.written = @ \cup {File}]
    /\ UNCHANGED <<mem, saved, calls, rough, hurt>>

SkipAny ==
    /\ Placing
    /\ call' = [call EXCEPT !.next = @ + 1]
    /\ UNCHANGED <<disk, mem, saved, calls, rough, hurt>>

\* An optional file the user did not pick.
SkipOptional ==
    /\ Placing /\ File \in Optional
    /\ call' = [call EXCEPT !.next = @ + 1]
    /\ UNCHANGED <<disk, mem, saved, calls, rough, hurt>>

\* The download fails, the hash does not match, a required file was not picked:
\* nothing is written.  Or the write itself fails, after truncating the file.
PlaceFails ==
    /\ Placing
    /\ call' = [call EXCEPT !.phase = "rollback"]
    /\ \/ UNCHANGED <<disk, rough>>
       \/ disk' = [disk EXCEPT ![File] = Damaged] /\ rough' = TRUE
    /\ UNCHANGED <<mem, saved, calls, hurt>>

\* The files written by this call are removed, and the call returns an error.
Rollback ==
    /\ call.phase = "rollback"
    /\ Unlink(call.written)
    /\ hurt' = IF call.written \cap call.prev = {} THEN hurt ELSE hurt \cup {call.mod}
    /\ call' = NoCall
    /\ UNCHANGED <<mem, saved, calls>>

StaleNone == {}

\* Files of the previous version that this one did not write.
Stale == call.prev \ call.written

Prune ==
    /\ call.phase = "place" /\ ~Placing
    /\ Unlink(Stale)
    /\ call' = [call EXCEPT !.phase = "record"]
    /\ UNCHANGED <<mem, saved, calls, hurt>>

Record ==
    /\ call.phase = "record"
    /\ mem' = [mem EXCEPT ![call.mod] = [rel |-> call.rel, files |-> call.written]]
    /\ hurt' = hurt \ {call.mod}
    /\ call' = [call EXCEPT !.phase = "save"]
    /\ UNCHANGED <<disk, saved, calls, rough>>

(***************************************************************************)
(* remove_mod.                                                             *)
(***************************************************************************)
RemoveBegin(m) ==
    /\ Idle /\ calls < MaxCalls /\ mem[m] # None
    /\ calls' = calls + 1
    /\ mem' = [mem EXCEPT ![m] = None]
    /\ call' = [NoCall EXCEPT !.phase = "unlink", !.mod = m,
                              !.prev = mem[m].files, !.before = disk]
    /\ UNCHANGED <<disk, saved, rough, hurt>>

RemoveFiles ==
    /\ call.phase = "unlink"
    /\ Unlink(call.prev)
    /\ hurt' = hurt \ {call.mod}
    /\ call' = [call EXCEPT !.phase = "save"]
    /\ UNCHANGED <<mem, saved, calls>>

(***************************************************************************)
(* InstalledManifest::save and load.                                       *)
(***************************************************************************)
Save ==
    /\ call.phase = "save"
    /\ saved' = mem
    /\ call' = NoCall
    /\ UNCHANGED <<disk, mem, calls, rough, hurt>>

\* The write fails: the old manifest is still there, or it is truncated.
SaveFails ==
    /\ call.phase = "save"
    /\ saved' \in {saved, Nothing}
    /\ rough' = TRUE
    /\ call' = NoCall
    /\ UNCHANGED <<disk, mem, calls, hurt>>

\* load(..).unwrap_or_default(): an unreadable manifest counts as an empty one.
Loaded == IF saved = Nothing THEN Empty ELSE saved

\* The launcher is restarted, or the game directory is chosen again.
Reload ==
    /\ Idle /\ mem # Loaded
    /\ mem' = Loaded
    /\ UNCHANGED <<disk, saved, call, calls, rough, hurt>>

\* The launcher dies in the middle of a call and is started again.
Crash ==
    /\ ~Idle
    /\ mem' = Loaded
    /\ rough' = TRUE
    /\ call' = NoCall
    /\ UNCHANGED <<disk, saved, calls, hurt>>

Init ==
    /\ disk = [d \in Dest |-> Nothing]
    /\ mem = Empty /\ saved = Empty
    /\ call = NoCall /\ calls = 0
    /\ rough = FALSE /\ hurt = {}

Install == \/ \E rel \in Release : InstallBegin(rel)
           \/ PlaceFile \/ SkipOptional \/ PlaceFails \/ Rollback \/ Prune \/ Record
RemoveMod == (\E m \in Mod : RemoveBegin(m)) \/ RemoveFiles

Next == Install \/ RemoveMod \/ Save \/ SaveFails \/ Reload \/ Crash

Spec == Init /\ [][Next]_vars
-----------------------------------------------------------------------------
TypeOK ==
    /\ disk \in [Dest -> Release \cup {Nothing, Damaged}]
    /\ mem \in Manifest /\ (saved = Nothing \/ saved \in Manifest)
    /\ call.phase \in {"none", "place", "rollback", "record", "save", "unlink"}
    /\ call.mod \in Mod \cup {Nothing} /\ call.rel \in Release \cup {Nothing}
    /\ call.written \subseteq Dest /\ call.prev \subseteq Dest
    /\ calls \in 0..MaxCalls /\ rough \in BOOLEAN /\ hurt \subseteq Mod

\* "What got placed is recorded in an installed manifest so removal is exact"
\* (install.rs:6-7): as long as the disk works and the launcher is not killed,
\* whatever downloads and hashes fail, every file in the game directory is
\* listed by the manifest, which says the same in memory and on disk, and every
\* listed file is there with the content of the release listed, except for mods
\* whose files a failed update has overwritten and removed.
ManifestExact ==
    Idle /\ ~rough =>
        /\ saved = mem
        /\ \A d \in Dest : disk[d] # Nothing => \E m \in Mod : d \in mem[m].files
        /\ \A m \in Mod \ hurt : \A d \in mem[m].files : disk[d] = mem[m].rel

\* Whatever went wrong before, an install that returns Ok leaves the mod whole:
\* every required file of the release is there with its content, recorded, and
\* the record is on disk.  Installing again repairs anything.
InstalledIsWhole ==
    [][call.phase = "save" /\ call.rel # Nothing /\ Idle' /\ saved' = mem =>
          /\ saved'[call.mod].rel = call.rel
          /\ Shipped(call.rel) \ Optional \subseteq saved'[call.mod].files
          /\ \A d \in saved'[call.mod].files : disk'[d] = call.rel]_vars

\* "The old install (manifest + its files) is left untouched" (install.rs:118)
\* when an install fails.
OldInstallUntouched ==
    [][call.phase = "rollback" /\ Idle' /\ ~rough' =>
          \A d \in call.prev : disk'[d] = call.before[d]]_vars
=============================================================================
