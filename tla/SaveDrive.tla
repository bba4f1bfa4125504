---------------------------- MODULE SaveDrive -----------------------------
(***************************************************************************)
(* mod.game.save.load (core/sotes_bindings.c 381-645): the drive that      *)
(* takes the player from the title into a save by injecting buttons into   *)
(* the game's input ring, and mod.game.attract and mod.game.input, which   *)
(* share the demo trigger and the ring slot with it.                       *)
(*                                                                         *)
(* All of it runs on the engine thread, in three callbacks: al_title_cb at *)
(* every safepoint, which is the entry of the title's own poll; the nav    *)
(* observer, when the title has consumed a button; the picker observer, at *)
(* every poll of the save list.  Between them the title, the player and    *)
(* other mods act.  The title, the list and the ring are the game's; they  *)
(* appear as the comments of the source describe them: the title polls     *)
(* whatever it likes and may miss a button, a record is good for 100 ms    *)
(* (Expires), the memory of a menu that was left may or may not look like  *)
(* a title menu afterwards (lingers).  What polls VA_PICKER_POLL between    *)
(* the commit and the game is the list, as the source takes for granted,   *)
(* and the bytes of the demo trigger are the expected ones.                *)
(***************************************************************************)
EXTENDS Naturals

CONSTANT MaxPresses   \* bound on what the player and other mods press or set

ASSUME PressesAssumption == MaxPresses \in Nat

VARIABLES world,     \* a save exists; a menu that was left still looks like one
          al,        \* g_al_state, g_al_title_ctrl, g_al_committed, g_al_pk_mgr
          hooked,    \* which of g_al_pk_h and g_al_nav_h are held
          framecb,   \* al_title_cb is registered
          frozen,    \* g_al_demo_frozen
          slot,      \* the fresh record in slot 63, and who injected it
          menu,      \* what the game shows
          cursor,    \* the row of the title's cursor
          poll,      \* the button the title is polling
          user,      \* the button the player is pressing
          meddled,   \* what the player and other mods did that the drive has to bear
          newgame,   \* a confirm of the drive started a new game
          presses

driveVars == <<al, hooked, framecb, frozen>>
gameVars == <<menu, cursor, poll>>
inputVars == <<slot, user, meddled, presses>>
saveVars == <<world, driveVars, gameVars, inputVars, newgame>>

Button == {"nav", "ok", "back"}
NoRec == [id |-> "none", by |-> "none"]
SceneLoaded == menu = "play"

(***************************************************************************)
(* The drive.                                                              *)
(***************************************************************************)
\* al_title_continue_row of the captured controller: -1 no title menu, -2 a
\* title without Continue.
ContinueRow ==
    IF ~(al.ctrl = "live" /\ menu = "title") /\ ~world.lingers THEN "gone"
    ELSE IF world.save THEN "continue" ELSE "absent"

\* al_stop, with the rest of the drive's state in a: restore the demo trigger,
\* drop the hooks.
Stop(a) ==
    /\ al' = [a EXCEPT !.state = "done"]
    /\ frozen' = FALSE
    /\ hooked' = {}

Inject(id) == slot' = [id |-> id, by |-> "drive"]
Rest == UNCHANGED <<al, hooked, frozen>>

\* l_save_load: freeze the demo trigger, install what hooks_entry_c and
\* exec_on_frame_c accept.  In any later state it refuses.
Load(got, cb) ==
    /\ al.state = "idle"
    /\ al' = [al EXCEPT !.state = "title", !.ctrl = "none", !.committed = FALSE]
    /\ frozen' = TRUE
    /\ hooked' = got /\ framecb' = cb
    /\ UNCHANGED <<world, gameVars, inputVars, newgame>>

\* Before Continue is committed, a button makes the title call the observer
\* that captures its controller; after it, nothing may be pressed.
Provoke == /\ IF al.committed THEN UNCHANGED slot ELSE Inject("nav")
           /\ Rest /\ UNCHANGED cursor

CommitBlind ==
    /\ Inject("ok") /\ al' = [al EXCEPT !.committed = TRUE]
    /\ UNCHANGED <<hooked, frozen, cursor>>

CommitOnce ==
    /\ cursor' = IF al.ctrl = "live" /\ menu = "title" THEN "continue" ELSE cursor
    /\ IF al.committed THEN UNCHANGED slot ELSE Inject("ok")
    /\ al' = [al EXCEPT !.committed = TRUE]
    /\ UNCHANGED <<hooked, frozen>>

\* al_title_set_cursor and the confirm, at every safepoint until the list is up; the write misses a title that has been
\* replaced by another.
Commit ==
    /\ cursor' = IF al.ctrl = "live" /\ menu = "title" THEN "continue" ELSE cursor
    /\ Inject("ok") /\ al' = [al EXCEPT !.committed = TRUE]
    /\ UNCHANGED <<hooked, frozen>>

\* The captured controller is no title menu any more.
Forget == /\ al' = [al EXCEPT !.ctrl = "none"]
          /\ UNCHANGED <<hooked, frozen, slot, cursor>>

\* al_title_cb.
TitleCb ==
    IF ~framecb \/ al.state = "done" THEN Rest /\ UNCHANGED <<slot, cursor>>
    ELSE IF SceneLoaded THEN Stop(al) /\ UNCHANGED <<slot, cursor>>
    ELSE IF al.state # "title" \/ al.pk THEN Rest /\ UNCHANGED <<slot, cursor>>
    ELSE IF al.ctrl = "none" THEN Provoke
    ELSE CASE ContinueRow = "continue" -> Commit
           [] ContinueRow = "absent" -> Stop(al) /\ UNCHANGED <<slot, cursor>>
           [] ContinueRow = "gone" -> Forget

\* al_menu_nav_cb, when the title has consumed a button.
NavCb == al' = IF "nav" \in hooked /\ al.state = "title" THEN [al EXCEPT !.ctrl = "live"] ELSE al

\* al_picker_cb: the phase, then the confirm or, in a scene, the end.
PickerCb ==
    LET a == [al EXCEPT !.pk = TRUE, !.state = IF @ = "title" THEN "picker" ELSE @]
    IN IF "picker" \notin hooked \/ ~al.committed THEN Rest /\ UNCHANGED slot
       ELSE IF SceneLoaded THEN Stop(a) /\ UNCHANGED slot
       ELSE Inject("ok") /\ al' = a /\ UNCHANGED <<hooked, frozen>>

(***************************************************************************)
(* Other mods and the player.                                              *)
(***************************************************************************)
\* mod.game.attract.set.
AttractSet(on) ==
    /\ presses < MaxPresses /\ presses' = presses + 1
    /\ frozen' = ~on
    /\ meddled' = meddled \union (IF on THEN {"attract"} ELSE {})
    /\ UNCHANGED <<world, al, hooked, framecb, gameVars, slot, user, newgame>>

Meddles(id) == CASE id = "ok" -> {"confirm"} [] id = "back" -> {"back"} [] OTHER -> {}

\* mod.game.input.press of another mod: al_inject into the same slot.
InputPress(id) ==
    /\ presses < MaxPresses /\ presses' = presses + 1
    /\ slot' = [id |-> id, by |-> "mod"]
    /\ meddled' = meddled \union Meddles(id)
    /\ UNCHANGED <<world, driveVars, gameVars, user, newgame>>

Player(id) ==
    /\ presses < MaxPresses /\ presses' = presses + 1
    /\ user' = id
    /\ meddled' = meddled \union Meddles(id)
    /\ UNCHANGED <<world, driveVars, gameVars, slot, newgame>>

(***************************************************************************)
(* The game.                                                               *)
(***************************************************************************)
Row == {"start", "other"} \union (IF world.save THEN {"continue"} ELSE {})

\* A title comes up, with a cursor of its own; a controller captured before is
\* not it, or has by chance the same address.
TitleOpens ==
    /\ menu' = "title"
    /\ cursor' \in Row
    /\ \E c \in {al.ctrl, IF al.ctrl = "live" THEN "stale" ELSE al.ctrl} : al' = [al EXCEPT !.ctrl = c]

Boot ==
    /\ menu = "boot" /\ poll = "none"
    /\ TitleOpens
    /\ UNCHANGED <<world, hooked, framecb, frozen, poll, inputVars, newgame>>

\* A poll of a button: first the safepoint, then, in the title, the poll itself.
Safepoint(id) ==
    /\ poll = "none"
    /\ TitleCb
    /\ poll' = IF menu = "title" THEN id ELSE "none"
    /\ UNCHANGED <<world, framecb, menu, user, meddled, presses, newgame>>

Pressed(id) == slot.id = id \/ user = id

\* The button is taken from slot 63, polled first, or else from the player.
Taken(id) == IF slot.id = id THEN slot' = NoRec /\ UNCHANGED user
                             ELSE user' = "none" /\ UNCHANGED slot

Misses ==
    /\ poll # "none"
    /\ poll' = "none"
    /\ UNCHANGED <<world, driveVars, menu, cursor, inputVars, newgame>>

TitleNav ==
    /\ poll = "nav" /\ Pressed("nav") /\ Taken("nav")
    /\ NavCb
    /\ poll' = "none" /\ cursor' \in Row \ {cursor}
    /\ UNCHANGED <<world, hooked, framecb, frozen, menu, meddled, presses, newgame>>

\* rows[cursor] is committed.
TitleConfirm ==
    /\ poll = "ok" /\ Pressed("ok") /\ Taken("ok")
    /\ NavCb
    /\ poll' = "none"
    /\ menu' = CASE cursor = "start" -> "play" [] cursor = "continue" -> "list" [] OTHER -> "title"
    /\ newgame' = (newgame \/ (cursor = "start" /\ slot.id = "ok" /\ slot.by = "drive"))
    /\ UNCHANGED <<world, hooked, framecb, frozen, cursor, meddled, presses>>

\* A poll of 0x4378d0 that finds nothing: of the list, of a menu in the game, or
\* of some other menu before the title is up.
PickerPoll ==
    /\ menu \in {"boot", "list", "play"} /\ poll = "none"
    /\ PickerCb
    /\ UNCHANGED <<world, framecb, gameVars, user, meddled, presses, newgame>>

ListConfirm ==
    /\ menu = "list" /\ poll = "none" /\ Pressed("ok") /\ Taken("ok")
    /\ menu' = "loading"
    /\ UNCHANGED <<world, driveVars, cursor, poll, meddled, presses, newgame>>

ListBack ==
    /\ menu = "list" /\ poll = "none" /\ Pressed("back") /\ Taken("back")
    /\ TitleOpens
    /\ UNCHANGED <<world, hooked, framecb, frozen, poll, meddled, presses, newgame>>

Loaded ==
    /\ menu = "loading" /\ poll = "none"
    /\ menu' = "play"
    /\ UNCHANGED <<world, driveVars, cursor, poll, inputVars, newgame>>

\* The title times out into the demo, which outlasts any record in the ring.
Demo ==
    /\ menu = "title" /\ poll = "none" /\ ~frozen
    /\ menu' = "demo" /\ slot' = NoRec
    /\ UNCHANGED <<world, driveVars, cursor, poll, user, meddled, presses, newgame>>

DemoEnds ==
    /\ menu = "demo" /\ poll = "none"
    /\ TitleOpens
    /\ UNCHANGED <<world, hooked, framecb, frozen, poll, inputVars, newgame>>

Expires ==
    /\ slot # NoRec /\ slot' = NoRec
    /\ UNCHANGED <<world, driveVars, gameVars, user, meddled, presses, newgame>>

DriveInit ==
    /\ world \in [save : BOOLEAN, lingers : BOOLEAN]
    /\ al = [state |-> "idle", ctrl |-> "none", committed |-> FALSE, pk |-> FALSE]
    /\ hooked = {} /\ framecb = FALSE /\ frozen = FALSE
    /\ slot = NoRec /\ user = "none" /\ meddled = {} /\ presses = 0
    /\ menu = "boot" /\ cursor \in Row /\ poll = "none" /\ newgame = FALSE

Game == \/ Boot \/ \E id \in Button : Safepoint(id)
        \/ Misses \/ TitleNav \/ TitleConfirm
        \/ PickerPoll \/ ListConfirm \/ ListBack \/ Loaded \/ Demo \/ DemoEnds \/ Expires

Mods == \/ \E got \in SUBSET {"picker", "nav"}, cb \in BOOLEAN : Load(got, cb)
        \/ \E on \in BOOLEAN : AttractSet(on)
        \/ \E id \in Button : InputPress(id) \/ Player(id)

DriveNext == Game \/ Mods

\* The title polls each button again and again, and in the end a confirm that
\* is there whenever it polls is taken ("re-injected each frame"); the list
\* polls and takes its confirm, and loading ends.
DriveFair ==
    /\ WF_saveVars(Boot) /\ WF_saveVars(Misses) /\ WF_saveVars(DemoEnds)
    /\ \A id \in Button : SF_saveVars(Safepoint(id))
    /\ SF_saveVars(TitleNav) /\ SF_saveVars(TitleConfirm)
    /\ SF_saveVars(PickerPoll) /\ SF_saveVars(ListConfirm) /\ WF_saveVars(Loaded)

DriveSpec == DriveInit /\ [][DriveNext]_saveVars /\ DriveFair
-----------------------------------------------------------------------------
DriveTypeOK ==
    /\ al \in [state : {"idle", "title", "picker", "done"}, ctrl : {"none", "live", "stale"},
               committed : BOOLEAN, pk : BOOLEAN]
    /\ hooked \subseteq {"picker", "nav"} /\ {framecb, frozen, newgame} \subseteq BOOLEAN
    /\ slot \in [id : Button, by : {"drive", "mod"}] \union {NoRec}
    /\ menu \in {"boot", "title", "list", "loading", "play", "demo"} /\ cursor \in Row
    /\ poll \in Button \union {"none"} /\ user \in Button \union {"none"}
    /\ meddled \subseteq {"attract", "confirm", "back"}

\* "A NEW GAME can no longer be started by accident" (sotes_bindings.c:482-483):
\* as long as the title is not rebuilt under the drive (the player does not
\* back out of the save list, no mod turns the demo on), no confirm of the
\* drive is taken with the cursor on Start, whatever else moves the cursor,
\* presses or confirms in between.
NoNewGame == meddled \cap {"back", "attract"} = {} => ~newgame

(***************************************************************************)
(* The inductive invariant behind NoNewGame.                               *)
(***************************************************************************)
Undisturbed == meddled \cap {"back", "attract"} = {}

\* Nobody but the player and other mods presses back, and the title is there
\* whenever it polls.
Pressing ==
    /\ (slot.id = "back" \/ user = "back") => "back" \in meddled
    /\ poll # "none" => menu = "title"

\* What the drive has done by itself: it confirms only what it has committed,
\* commits only with a save and its callback, and knows nothing before it began.
OwnDoing ==
    /\ slot = [id |-> "ok", by |-> "drive"] => al.committed
    /\ al.committed => world.save /\ framecb /\ al.state # "idle"
    /\ al.pk => al.committed
    /\ al.state = "idle" => hooked = {} /\ al.ctrl = "none"

\* The title under a drive that is at work is the one it captured.
SameTitle ==
    /\ al.state \in {"title", "picker"} => frozen
    /\ al.ctrl = "stale" => al.state = "done"
    /\ menu = "boot" => al.ctrl = "none"
    /\ menu = "demo" => al.ctrl = "none" \/ al.state = "done"
    /\ menu \in {"boot", "demo"} => ~al.committed
    /\ al.committed /\ menu = "title" => al.state = "title" /\ al.ctrl = "live" /\ ~al.pk

\* While the title polls, a confirm of the drive lies next to Continue.
AtContinue ==
    poll # "none" /\ slot = [id |-> "ok", by |-> "drive"] => cursor = "continue"

DriveIInv ==
    /\ DriveTypeOK /\ Pressing /\ OwnDoing
    /\ Undisturbed => SameTitle /\ AtContinue /\ ~newgame

\* A drive that got its hooks ends, with the demo restored and the hooks
\* dropped, if nobody else confirms, backs out or turns the demo on: in the
\* save, or at a title that has none.
DriveEnds ==
    (al.state = "title" /\ hooked = {"picker", "nav"} /\ framecb)
      ~> (meddled # {} \/ (al.state = "done" /\ hooked = {} /\ ~frozen))
=============================================================================
