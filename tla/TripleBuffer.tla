--------------------------- MODULE TripleBuffer ---------------------------
(***************************************************************************)
(* The lock-free triple buffer of core/ui.cpp (76-98) as the two threads   *)
(* that share it execute it: the engine thread records a snapshot in       *)
(* g_buf[g_write_ix] (ui_build) and swaps it into the middle with a CAS on *)
(* g_ctl (snap_publish); the UI thread swaps the middle out with another   *)
(* CAS (snap_fetch) and replays g_buf[g_read_ix] (render_frame).           *)
(*                                                                         *)
(* Each atomic operation on g_ctl is a step of its own, and so is the      *)
(* plain assignment of the private index that follows a successful CAS:    *)
(* the other thread may run between the two.  Filling and replaying a      *)
(* buffer take time; a buffer being filled holds Torn.  The build targets  *)
(* 32-bit x86, whose locked compare-exchange is a full fence, so steps     *)
(* interleave (no weaker order is modelled).                               *)
(***************************************************************************)
EXTENDS Naturals

CONSTANTS MaxVersion,   \* bound on the snapshot versions one behaviour builds
          Torn          \* content of a buffer while ui_build is filling it

ASSUME VersionAssumption == MaxVersion \in Nat
ASSUME TornAssumption == Torn \notin Nat

VARIABLES buf,       \* g_buf: version recorded in each buffer
          ctl,       \* g_ctl: [fresh, mid]
          write_ix,  \* g_write_ix, private to the engine thread
          read_ix,   \* g_read_ix, private to the UI thread
          last,      \* g_last_hash: version of the last published snapshot
          epc,       \* where the engine thread is in ui_build / snap_publish
          eold,      \* snap_publish's local `old`
          upc,       \* where the UI thread is in its loop
          uold       \* snap_fetch's local `old`

vars == <<buf, ctl, write_ix, read_ix, last, epc, eold, upc, uold>>
engineVars == <<write_ix, last, epc, eold>>
uiVars == <<read_ix, upc, uold>>

Ix == 0..2
Ctl == [fresh : BOOLEAN, mid : Ix]
Version == 0..MaxVersion

(***************************************************************************)
(* The engine thread.                                                      *)
(***************************************************************************)
\* ui_build starts recording: g_buf[g_write_ix].surfaces.clear().
BuildBegin ==
    /\ epc = "idle"
    /\ epc' = "filling"
    /\ buf' = [buf EXCEPT ![write_ix] = Torn]
    /\ UNCHANGED <<ctl, write_ix, last, eold, uiVars>>

\* The recorded snapshot hashes to g_last_hash: nothing is published.
BuildUnchanged ==
    /\ epc = "filling"
    /\ epc' = "idle"
    /\ buf' = [buf EXCEPT ![write_ix] = last]
    /\ UNCHANGED <<ctl, write_ix, last, eold, uiVars>>

\* The recorded snapshot is a new one: remember its hash and publish it.
BuildChanged ==
    /\ epc = "filling"
    /\ last < MaxVersion
    /\ last' = last + 1
    /\ buf' = [buf EXCEPT ![write_ix] = last + 1]
    /\ epc' = "publish"
    /\ UNCHANGED <<ctl, write_ix, eold, uiVars>>

\* snap_publish: old = g_ctl.load().
PublishLoad ==
    /\ epc = "publish"
    /\ eold' = ctl
    /\ epc' = "cas"
    /\ UNCHANGED <<buf, ctl, write_ix, last, uiVars>>

PublishCasForgetsFresh ==
    /\ epc = "cas"
    /\ ctl = eold
    /\ ctl' = [fresh |-> eold.fresh, mid |-> write_ix]
    /\ epc' = "swap"
    /\ UNCHANGED <<buf, write_ix, last, eold, uiVars>>

\* The CAS succeeds: the filled buffer becomes the fresh middle.
PublishCas ==
    /\ epc = "cas"
    /\ ctl = eold
    /\ ctl' = [fresh |-> TRUE, mid |-> write_ix]
    /\ epc' = "swap"
    /\ UNCHANGED <<buf, write_ix, last, eold, uiVars>>

\* The CAS fails because the UI thread fetched meanwhile: `old` is reloaded.
PublishRetry ==
    /\ epc = "cas"
    /\ ctl # eold
    /\ eold' = ctl
    /\ UNCHANGED <<buf, ctl, write_ix, last, epc, uiVars>>

\* g_write_ix = old & 3: the displaced middle is the next write buffer.
PublishSwap ==
    /\ epc = "swap"
    /\ write_ix' = eold.mid
    /\ epc' = "idle"
    /\ UNCHANGED <<buf, ctl, last, eold, uiVars>>

(***************************************************************************)
(* The UI thread.                                                          *)
(***************************************************************************)
\* snap_fetch finds the fresh bit clear and returns false; the frame is
\* rendered from the buffer it already has.
FetchStale ==
    /\ upc = "idle"
    /\ ~ctl.fresh
    /\ upc' = "replay"
    /\ UNCHANGED <<buf, ctl, read_ix, uold, engineVars>>

\* snap_fetch finds the fresh bit set.
FetchFresh ==
    /\ upc = "idle"
    /\ ctl.fresh
    /\ upc' = "load"
    /\ UNCHANGED <<buf, ctl, read_ix, uold, engineVars>>

\* old = g_ctl.load(), a second load: the engine may have published between.
FetchLoad ==
    /\ upc = "load"
    /\ uold' = ctl
    /\ upc' = "cas"
    /\ UNCHANGED <<buf, ctl, read_ix, engineVars>>

FetchCasNoCompare ==
    /\ upc = "cas"
    /\ ctl' = [fresh |-> FALSE, mid |-> read_ix]
    /\ upc' = "swap"
    /\ UNCHANGED <<buf, read_ix, uold, engineVars>>

FetchCasKeepsFresh ==
    /\ upc = "cas"
    /\ ctl = uold
    /\ ctl' = [fresh |-> TRUE, mid |-> read_ix]
    /\ upc' = "swap"
    /\ UNCHANGED <<buf, read_ix, uold, engineVars>>

\* The CAS succeeds: the old read buffer becomes the (stale) middle.
FetchCas ==
    /\ upc = "cas"
    /\ ctl = uold
    /\ ctl' = [fresh |-> FALSE, mid |-> read_ix]
    /\ upc' = "swap"
    /\ UNCHANGED <<buf, read_ix, uold, engineVars>>

\* The CAS fails because the engine published again: `old` is reloaded.
FetchRetry ==
    /\ upc = "cas"
    /\ ctl # uold
    /\ uold' = ctl
    /\ UNCHANGED <<buf, ctl, read_ix, upc, engineVars>>

\* g_read_ix = old & 3.
FetchSwap ==
    /\ upc = "swap"
    /\ read_ix' = uold.mid
    /\ upc' = "replay"
    /\ UNCHANGED <<buf, ctl, uold, engineVars>>

\* render_frame has walked g_buf[g_read_ix]; the loop waits for a wake-up.
ReplayEnd ==
    /\ upc = "replay"
    /\ upc' = "idle"
    /\ UNCHANGED <<buf, ctl, read_ix, uold, engineVars>>

Init ==
    /\ buf = [i \in Ix |-> 0]
    /\ ctl = [fresh |-> FALSE, mid |-> 2]
    /\ write_ix = 0
    /\ read_ix = 1
    /\ last = 0
    /\ epc = "idle"
    /\ eold = [fresh |-> FALSE, mid |-> 2]
    /\ upc = "idle"
    /\ uold = [fresh |-> FALSE, mid |-> 2]

Engine == \/ BuildBegin \/ BuildUnchanged \/ BuildChanged
          \/ PublishLoad \/ PublishCas \/ PublishRetry \/ PublishSwap

Ui == \/ FetchStale \/ FetchFresh
      \/ FetchLoad \/ FetchCas \/ FetchRetry \/ FetchSwap \/ ReplayEnd

Next == Engine \/ Ui

Spec == Init /\ [][Next]_vars

(***************************************************************************)
(* The engine thread is the game's and steps as long as the game runs; the *)
(* UI loop wakes at the latest on its 250 ms heartbeat (ui.cpp:626), so    *)
(* both are weakly fair.  Nothing obliges ui_build to find a change.       *)
(***************************************************************************)
FairSpec == Spec /\ WF_vars(Ui)
                 /\ WF_vars(PublishLoad \/ PublishCas \/ PublishRetry \/ PublishSwap)
-----------------------------------------------------------------------------
(***************************************************************************)
(* Properties.                                                             *)
(***************************************************************************)
TypeOK ==
    /\ buf \in [Ix -> Version \cup {Torn}]
    /\ ctl \in Ctl
    /\ write_ix \in Ix
    /\ read_ix \in Ix
    /\ last \in Version
    /\ epc \in {"idle", "filling", "publish", "cas", "swap"}
    /\ eold \in Ctl
    /\ upc \in {"idle", "load", "cas", "swap", "replay"}
    /\ uold \in Ctl

\* The buffer each thread owns: after a won CAS it is the displaced middle,
\* although the private index still names the buffer that was handed over.
EngineOwns == IF epc = "swap" THEN eold.mid ELSE write_ix
UiOwns     == IF upc = "swap" THEN uold.mid ELSE read_ix

\* "The three indices are always a permutation of {0,1,2}" (ui.cpp:78): at
\* every step of every interleaving, the buffer the engine owns, the middle
\* and the buffer the UI owns are three different buffers.
Ownership ==
    /\ EngineOwns # ctl.mid
    /\ UiOwns # ctl.mid
    /\ EngineOwns # UiOwns

\* "Producer + consumer never touch the same buffer" (ui.cpp:78-79): while the
\* UI thread walks its snapshot nobody is recording into that buffer, so what
\* it draws is a complete snapshot.
NoTornReplay ==
    upc = "replay" => /\ buf[read_ix] # Torn
                      /\ ~(epc = "filling" /\ write_ix = read_ix)

\* Only the buffer being recorded holds a partial snapshot.
OnlyTorn == \A i \in Ix : buf[i] = Torn => epc = "filling" /\ i = write_ix

\* The version the UI thread would hold after a fetch right now.
Newest == IF ctl.fresh THEN buf[ctl.mid] ELSE buf[UiOwns]

\* What the two CAS loops know: the newest version is `last`, except between
\* recording a new snapshot and winning the CAS that publishes it; the fresh
\* bit is set exactly when the middle is newer than what the UI holds, and
\* only the UI clears it.
Handover ==
    /\ epc \in {"publish", "cas"} => /\ buf[write_ix] = last
                                    /\ last > 0
                                    /\ Newest = last - 1
    /\ epc \in {"idle", "filling", "swap"} => Newest = last
    /\ ctl.fresh => buf[UiOwns] < buf[ctl.mid]
    /\ upc \in {"load", "cas"} => ctl.fresh

\* The inductive invariant behind the theorems of TripleBuffer_proofs.
IInv == TypeOK /\ Ownership /\ OnlyTorn /\ Handover

\* The triple buffer implements the latest-wins register of SnapshotRegister:
\* a publish is the CAS of snap_publish, a take is the CAS of snap_fetch.
Register == INSTANCE SnapshotRegister WITH latest <- Newest, taken <- buf[UiOwns]
RefinesRegister == Register!Spec

\* Every published snapshot, or one that superseded it, reaches the UI thread's
\* replay: a wake-up that races the fetch is not lost for good.
Delivered ==
    \A v \in Version : (last = v /\ epc = "swap") ~> (upc = "replay" /\ buf[read_ix] >= v)
=============================================================================
