------------------------------ MODULE Present ------------------------------
(***************************************************************************)
(* The picture: the hook on the game's present (executor.c), the frame it  *)
(* captures and hands to the companion window through a second triple      *)
(* buffer, or puts into the game window itself (ddraw_present.cpp), and    *)
(* the two hosts of mod.ui, of which one is meant to run: the companion    *)
(* window with a thread of its own, and the overlay on the engine thread   *)
(* (ui.cpp).                                                               *)
(*                                                                         *)
(* Snapshots of mod.ui are the latest-wins register that TripleBuffer      *)
(* implements; frames have no such luxury here, and each exchange on       *)
(* g_latest is a step.  A buffer that is being copied into holds Torn.     *)
(***************************************************************************)
EXTENDS Naturals

CONSTANTS Worlds,       \* settings and how reliable the graphics are, see `world`
          MaxFrames,    \* bound: frames captured after this many count as the same frame
          MaxSnapshots, \* bound: snapshots published
          Torn

ASSUME BoundsAssumption == MaxFrames \in Nat /\ MaxSnapshots \in Nat /\ Torn \notin Nat
ASSUME WorldsAssumption == Worlds \subseteq [ddraw : {"off", "1", "true"}, takeover : Nat, faults : BOOLEAN]

VARIABLES world,    \* [ddraw, takeover, faults]: of oss_loader.cfg, and whether Direct3D may fail on us
          \* frames
          fr,       \* g_fr: number of the frame in each buffer
          latest,   \* g_latest: [ix, fresh]
          write_ix, read_ix, have,   \* g_write_ix, g_read_ix, g_have
          frames,   \* frames captured
          uncounted,\* g_pubseq differs from what the UI loop last saw
          \* engine thread
          epc,      \* "game", or where it is in the present hook
          ready,    \* g_e_ready
          rtv,      \* g_e_rtv
          lastframe,\* buffer of g_e_lastframe, or 3 for none
          shown,    \* the frame the game rendered last is in its window
          overlay,  \* "no", "up", "failed": g_ov_started, g_ov_failed
          ovvisible,\* g_ov_visible
          \* mod.ui
          snap,     \* snapshots published
          started,  \* g_started
          event,    \* g_dirty is signalled
          \* UI thread
          upc,      \* "none", "starting", "dead", or where it is in its loop
          visible,  \* g_visible
          urtv,     \* g_rtv
          prev_key, busy, fresh, input,   \* the loop's variables
          taken,    \* the snapshot it holds
          drawn,    \* [snap, frame] the companion window shows
          \* the user
          key,      \* the toggle key is down
          msg       \* a message waiting for the companion window, or "none" (bound: one at a time)

frameVars == <<fr, latest, write_ix, read_ix, have, frames, uncounted>>
gameVars == <<ready, rtv, lastframe, shown, overlay, ovvisible>>
loopVars == <<visible, urtv, prev_key, busy, fresh, input, taken, drawn>>
userVars == <<key, msg>>
vars == <<world, frameVars, epc, gameVars, snap, started, event, upc, loopVars, userVars>>

Ix == 0..2
NoBuffer == 3

\* install_present_hook takes the setting for a boolean, and sets the takeover only with the hook
Hooked == world.ddraw # "off"
Takeover == Hooked /\ world.takeover > 0
Active == Takeover /\ ready        \* ddp_takeover_active

\* Then the companion runs beside the overlay, and both read the snapshots
TwoHosts == Takeover /\ world.ddraw = "true"

\* snap_fetch.  Two hosts move one g_read_ix from two threads: it may end at any buffer, also at
\* the one that is being written, and Torn stands for them all
Fetched == IF TwoHosts THEN Torn ELSE snap

(***************************************************************************)
(* The engine thread.                                                      *)
(***************************************************************************)
\* ui_start, from the loader thread: with the takeover, the overlay is the UI.  It takes the setting
\* for a number, and "true" reads as 0
UiStart ==
    /\ ~started
    /\ started' = TRUE
    /\ upc' = IF world.ddraw = "1" /\ world.takeover > 0 THEN "none" ELSE "starting"
    /\ UNCHANGED <<world, frameVars, epc, gameVars, snap, event, loopVars, userVars>>

\* ui_build finds a change
Build ==
    /\ epc = "game" /\ started
    /\ snap < MaxSnapshots
    /\ snap' = snap + 1
    /\ event' = TRUE
    /\ UNCHANGED <<world, frameVars, epc, gameVars, started, upc, loopVars, userVars>>

\* The game presents a frame it has rendered; without the hook it just does
Rendered ==
    /\ epc = "game"
    /\ IF Hooked THEN epc' = "lock" /\ shown' = FALSE ELSE epc' = epc /\ shown' = TRUE
    /\ UNCHANGED <<world, frameVars, ready, rtv, lastframe, overlay, ovvisible, snap, started, event, upc, loopVars, userVars>>

\* ddp_on_present: the back buffer cannot be locked, or is of no known format
CaptureFails ==
    /\ epc = "lock" /\ world.faults
    /\ epc' = "after"
    /\ UNCHANGED <<world, frameVars, gameVars, snap, started, event, upc, loopVars, userVars>>

CopyBegin ==
    /\ epc = "lock"
    /\ fr' = [fr EXCEPT ![write_ix] = Torn]
    /\ epc' = "copy"
    /\ UNCHANGED <<world, latest, write_ix, read_ix, have, frames, uncounted, gameVars, snap, started, event, upc, loopVars, userVars>>

CopyEnd ==
    /\ epc = "copy"
    /\ frames' = IF frames < MaxFrames THEN frames + 1 ELSE frames
    /\ fr' = [fr EXCEPT ![write_ix] = frames']
    /\ epc' = IF Takeover THEN "take" ELSE "publish"
    /\ UNCHANGED <<world, latest, write_ix, read_ix, have, uncounted, gameVars, snap, started, event, upc, loopVars, userVars>>

\* ui_overlay_present: brought up once, and not tried again if that fails
OverlayPresent ==
    /\ IF started /\ overlay = "no"
       THEN overlay' \in {"up", "failed"}
       ELSE overlay' = overlay
    /\ taken' = IF overlay' = "up" /\ ovvisible THEN Fetched ELSE taken

\* e_present_frame: without a target, or if the texture cannot be mapped, it returns early
PresentFrame(ix) ==
    \/ /\ rtv'
       /\ shown' = (fr[ix] = frames)
       /\ OverlayPresent
    \/ /\ ~rtv' \/ world.faults
       /\ UNCHANGED <<shown, overlay, taken>>

\* mutant of CreateFails: ready before it is
CreateFailsReady ==
    /\ epc = "take" /\ ~ready
    /\ ready' = TRUE
    /\ epc' = "publish"
    /\ UNCHANGED <<world, frameVars, rtv, lastframe, shown, overlay, ovvisible, snap, started, event, upc, loopVars, userVars>>

\* ddp_engine_present while the device cannot be created: the next frame tries again
CreateFails ==
    /\ epc = "take" /\ ~ready
    /\ epc' = "publish"
    /\ UNCHANGED <<world, frameVars, gameVars, snap, started, event, upc, loopVars, userVars>>

EnginePresent ==
    /\ epc = "take"
    /\ ready' = TRUE
    /\ rtv' = (rtv \/ ~ready)
    /\ lastframe' = write_ix
    /\ PresentFrame(write_ix)
    /\ epc' = "publish"
    /\ UNCHANGED <<world, frameVars, ovvisible, snap, started, event, upc, visible, urtv, prev_key, busy, fresh, input, drawn, userVars>>

\* mutant of Publish: the buffer just published is written next
PublishKeepsBuffer ==
    /\ epc = "publish"
    /\ latest' = [ix |-> write_ix, fresh |-> TRUE]
    /\ epc' = "count"
    /\ UNCHANGED <<world, fr, write_ix, read_ix, have, frames, uncounted, gameVars, snap, started, event, upc, loopVars, userVars>>

\* InterlockedExchange on g_latest; the buffer that was there is written next
Publish ==
    /\ epc = "publish"
    /\ latest' = [ix |-> write_ix, fresh |-> TRUE]
    /\ write_ix' = latest.ix
    /\ epc' = "count"
    /\ UNCHANGED <<world, fr, read_ix, have, frames, uncounted, gameVars, snap, started, event, upc, loopVars, userVars>>

\* g_pubseq++
Count ==
    /\ epc = "count"
    /\ uncounted' = TRUE
    /\ epc' = "after"
    /\ UNCHANGED <<world, fr, latest, write_ix, read_ix, have, frames, gameVars, snap, started, event, upc, loopVars, userVars>>

\* present_c: who presents, the wake-up of the companion, and the game's own present
After ==
    /\ epc = "after"
    /\ shown' = (shown \/ ~Active)
    /\ event' = (event \/ (started /\ visible))
    /\ epc' = "game"
    /\ UNCHANGED <<world, frameVars, ready, rtv, lastframe, overlay, ovvisible, snap, started, upc, loopVars, userVars>>

\* ddp_on_resize, in the modal loop of a drag
Resize ==
    /\ epc = "game" /\ Takeover /\ world.takeover = 2 /\ ready
    /\ rtv' \in {TRUE} \union (IF world.faults THEN {FALSE} ELSE {})
    /\ IF lastframe # NoBuffer THEN PresentFrame(lastframe) ELSE UNCHANGED <<shown, overlay, taken>>
    /\ UNCHANGED <<world, frameVars, epc, ready, lastframe, ovvisible, snap, started, event, upc, visible, urtv, prev_key, busy, fresh, input, drawn, userVars>>

\* ui_overlay_wndproc: the toggle key, in the game window
OverlayToggle ==
    /\ epc = "game" /\ overlay = "up"
    /\ ovvisible' = ~ovvisible
    /\ UNCHANGED <<world, frameVars, epc, ready, rtv, lastframe, shown, overlay, snap, started, event, upc, loopVars, userVars>>

(***************************************************************************)
(* The UI thread of the companion window.                                  *)
(***************************************************************************)
UiInit ==
    /\ upc = "starting"
    /\ \/ /\ upc' = "wait"
          /\ visible' = (world.takeover = 0)
          /\ urtv' = TRUE
       \/ /\ upc' = "dead"
          /\ UNCHANGED <<visible, urtv>>
    /\ UNCHANGED <<world, frameVars, epc, gameVars, snap, started, event, prev_key, busy, fresh, input, taken, drawn, userVars>>

\* MsgWaitForMultipleObjects: for ever if the window is hidden, else 250 ms at most
Wakes == event \/ msg # "none" \/ visible

Wake ==
    /\ upc = "wait" /\ Wakes
    /\ event' = FALSE
    /\ upc' = "pump"
    /\ UNCHANGED <<world, frameVars, epc, gameVars, snap, started, loopVars, userVars>>

\* The messages (wndproc: close hides, size recreates the target), then the toggle key
Pump ==
    /\ upc = "pump"
    /\ msg' = "none"
    /\ input' = (msg = "input")
    /\ urtv' \in IF msg = "size" THEN {TRUE} \union (IF world.faults THEN {FALSE} ELSE {}) ELSE {urtv}
    /\ LET still == visible /\ msg # "close"
       IN visible' = IF key /\ ~prev_key THEN ~still ELSE still
    /\ prev_key' = key
    /\ upc' = "snap"
    /\ UNCHANGED <<world, frameVars, epc, gameVars, snap, started, event, busy, fresh, taken, drawn, key>>

LookSnapshot ==
    /\ upc = "snap"
    /\ fresh' \in IF TwoHosts THEN BOOLEAN ELSE {taken # snap}
    /\ taken' = Fetched
    /\ upc' = "frame"
    /\ UNCHANGED <<world, frameVars, epc, gameVars, snap, started, event, visible, urtv, prev_key, busy, input, drawn, userVars>>

\* mutant of Reason: a captured frame is none
ReasonUi == fresh \/ input \/ busy

Reason == fresh \/ input \/ busy \/ uncounted

\* ddp_frame_seq, and whether there is anything to render
LookFrame ==
    /\ upc = "frame"
    /\ uncounted' = FALSE
    /\ IF visible /\ Reason /\ urtv
       THEN upc' = "draw" /\ busy' = busy
       ELSE upc' = "wait" /\ busy' = FALSE
    /\ fresh' = FALSE /\ input' = FALSE
    /\ UNCHANGED <<world, fr, latest, write_ix, read_ix, have, frames, epc, gameVars, snap, started, event, visible, urtv, prev_key, taken, drawn, userVars>>

\* render_frame replays the snapshot, and ddp_draw_background looks for a frame (fetch_latest)
Draw ==
    /\ upc = "draw"
    /\ busy' \in BOOLEAN
    /\ drawn' = [drawn EXCEPT !.snap = taken]
    /\ upc' = IF Active THEN "wait" ELSE IF latest.fresh THEN "swap" ELSE IF have THEN "convert" ELSE "wait"
    /\ UNCHANGED <<world, frameVars, epc, gameVars, snap, started, event, visible, urtv, prev_key, fresh, input, taken, userVars>>

\* mutant of FetchSwap: the fresh bit stays
FetchSwapKeepsFresh ==
    /\ upc = "swap"
    /\ latest' = [ix |-> read_ix, fresh |-> TRUE]
    /\ read_ix' = latest.ix
    /\ have' = TRUE
    /\ upc' = "convert"
    /\ UNCHANGED <<world, fr, write_ix, frames, uncounted, epc, gameVars, snap, started, event, loopVars, userVars>>

\* The exchange hands back the buffer read so far and takes whatever is there by now
FetchSwap ==
    /\ upc = "swap"
    /\ latest' = [ix |-> read_ix, fresh |-> FALSE]
    /\ read_ix' = latest.ix
    /\ have' = TRUE
    /\ upc' = "convert"
    /\ UNCHANGED <<world, fr, write_ix, frames, uncounted, epc, gameVars, snap, started, event, loopVars, userVars>>

\* convert_to_rgba has read the buffer
Convert ==
    /\ upc = "convert"
    /\ drawn' = [drawn EXCEPT !.frame = fr[read_ix]]
    /\ upc' = "wait"
    /\ UNCHANGED <<world, frameVars, epc, gameVars, snap, started, event, visible, urtv, prev_key, busy, fresh, input, taken, userVars>>

(***************************************************************************)
(* The user.  Only Pump looks at the key and the messages, so that both    *)
(* may as well come while the loop waits.                                  *)
(***************************************************************************)
Key == /\ upc = "wait"
       /\ key' = ~key
       /\ UNCHANGED <<world, frameVars, epc, gameVars, snap, started, event, upc, loopVars, msg>>

Message ==
    /\ upc = "wait" /\ visible
    /\ msg = "none"
    /\ msg' \in {"close", "input", "size"}
    /\ UNCHANGED <<world, frameVars, epc, gameVars, snap, started, event, upc, loopVars, key>>

Init ==
    /\ world \in Worlds
    /\ fr = [i \in Ix |-> 0] /\ latest = [ix |-> 2, fresh |-> FALSE]
    /\ write_ix = 0 /\ read_ix = 1 /\ have = FALSE
    /\ frames = 0 /\ uncounted = FALSE
    /\ epc = "game" /\ ready = FALSE /\ rtv = FALSE /\ lastframe = NoBuffer /\ shown = TRUE
    /\ overlay = "no" /\ ovvisible = TRUE
    /\ snap = 0 /\ started = FALSE /\ event = FALSE
    /\ upc = "none" /\ visible = TRUE /\ urtv = FALSE
    /\ prev_key = FALSE /\ busy = FALSE /\ fresh = FALSE /\ input = FALSE
    /\ taken = 0 /\ drawn = [snap |-> 0, frame |-> 0]
    /\ key = FALSE /\ msg = "none"

Hook == Rendered \/ CopyBegin \/ CopyEnd \/ EnginePresent \/ Publish \/ Count \/ After
Loop == Wake \/ Pump \/ LookSnapshot \/ LookFrame \/ Draw \/ FetchSwap \/ Convert

Next ==
    \/ UiStart \/ Build \/ Rendered \/ CaptureFails \/ CopyBegin \/ CopyEnd
    \/ CreateFails \/ EnginePresent \/ Publish \/ Count \/ After \/ Resize \/ OverlayToggle
    \/ UiInit \/ Wake \/ Pump \/ LookSnapshot \/ LookFrame \/ Draw \/ FetchSwap \/ Convert
    \/ Key \/ Message

Spec == Init /\ [][Next]_vars

\* The game keeps presenting, and the UI thread runs whenever it is not waiting
FairSpec == Spec /\ WF_vars(Hook) /\ WF_vars(Loop)

(***************************************************************************)
(* Properties.                                                             *)
(***************************************************************************)
TypeOK ==
    /\ fr \in [Ix -> (0..MaxFrames) \union {Torn}]
    /\ latest \in [ix : Ix, fresh : BOOLEAN] /\ {write_ix, read_ix} \subseteq Ix
    /\ lastframe \in Ix \union {NoBuffer}
    /\ {have, uncounted, ready, rtv, shown, ovvisible, started, event, visible, urtv,
        prev_key, busy, fresh, input, key} \subseteq BOOLEAN
    /\ epc \in {"game", "lock", "copy", "take", "publish", "count", "after"}
    /\ upc \in {"none", "starting", "dead", "wait", "pump", "snap", "frame", "draw", "swap", "convert"}

(***************************************************************************)
(* "{write, read, published} stay a permutation of {0,1,2} - so neither    *)
(* thread ever touches the other's live buffer" (ddraw_present.cpp:26-27): *)
(* the engine thread never copies into the buffer the UI thread converts,  *)
(* and the frame a resize presents again is never one being copied.        *)
(***************************************************************************)
FrameWhole ==
    /\ {write_ix, read_ix, latest.ix} = Ix
    /\ upc = "convert" => fr[read_ix] # Torn
    /\ epc = "game" /\ lastframe # NoBuffer => fr[lastframe] # Torn

\* The frames, too, go through a latest-wins register: the exchange of the publisher and that of the
\* reader, each unconditional, never bring back an older frame.
Newest == IF latest.fresh THEN fr[latest.ix] ELSE fr[read_ix]
Frames == INSTANCE SnapshotRegister WITH MaxVersion <- MaxFrames, latest <- Newest, taken <- fr[read_ix]
FramesInOrder == Frames!Spec

(***************************************************************************)
(* Whatever the settings, and whether or not the loader's device could be  *)
(* created yet, when the game's present returns the frame it rendered is   *)
(* in its window, by the loader's present or by its own ("skip the game    *)
(* present only if we ARE presenting", ddraw_present.cpp:92), and a resize *)
(* does not put an older one there.  Once Direct3D or DirectDraw fails     *)
(* with the device up it need not be: the game's present stays skipped.    *)
(***************************************************************************)
EveryFrameShown == epc = "game" /\ ~world.faults => shown

(***************************************************************************)
(* As long as the game presents, a companion window that is visible gets   *)
(* to show the newest snapshot of mod.ui and the newest frame, also a      *)
(* snapshot it fetched, and did not draw, while it was hidden.  Without    *)
(* the hook on the present, nothing but a change or the mouse would; and   *)
(* beside an overlay, which there should never be (HANDOFF.md:360-364), it *)
(* is told nothing for certain.                                            *)
(***************************************************************************)
CompanionCurrent ==
    (Hooked /\ ~TwoHosts /\ ~world.faults /\ upc = "wait" /\ visible)
      ~> (~visible \/ drawn = [snap |-> snap, frame |-> frames])
=============================================================================
