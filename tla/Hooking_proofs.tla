------------------------- MODULE Hooking_proofs --------------------------
(***************************************************************************)
(* Theorems about the save drive of core/sotes_bindings.c, which works     *)
(* from the callbacks of hooks: it never starts a new game; and about      *)
(* MinHook, which puts every hook into the game: its tables agree, no      *)
(* stopped thread is left where a jump is taken out, a trampoline does     *)
(* what the instructions do that it was copied from, and a thread that     *)
(* could be stopped runs no bytes but its function's.                      *)
(***************************************************************************)
EXTENDS SaveDrive, MinHook, SequenceTheorems, FiniteSetTheorems,
        WellFoundedInduction, TLAPS

-----------------------------------------------------------------------------
(***************************************************************************)
(* The save drive (core/sotes_bindings.c 381-645), for every number of     *)
(* presses and settings of the player and of other mods: no new game.      *)
(***************************************************************************)
\* Before the drive begins nothing was captured, committed or pressed.
LEMMA DriveInitIInv == DriveInit => DriveIInv
<1> SUFFICES ASSUME DriveInit PROVE DriveIInv
  OBVIOUS
<1>1. DriveTypeOK
  <2>1. al \in [state : {"idle", "title", "picker", "done"}, ctrl : {"none", "live", "stale"},
               committed : BOOLEAN, pk : BOOLEAN]
    BY DEF DriveInit
  <2>2. {framecb, frozen, newgame} \subseteq BOOLEAN
    BY DEF DriveInit
  <2> QED
    BY <2>1, <2>2 DEF DriveInit, DriveTypeOK, Row
<1>2. Pressing /\ OwnDoing /\ SameTitle /\ AtContinue /\ ~newgame
  BY DEF DriveInit, Pressing, OwnDoing, SameTitle, AtContinue, NoRec
<1> QED
  BY <1>1, <1>2 DEF DriveIInv

\* The cases of al_title_cb (sotes_bindings.c:559-594): it keeps out of the way,
\* stops, or does one of three things with a title it waits at.
LEMMA TitleCbDoes ==
  ASSUME DriveIInv, TitleCb
  PROVE  \/ /\ ~(framecb /\ al.state = "title" /\ ~al.pk)
            /\ Rest /\ UNCHANGED <<slot, cursor>>
         \/ /\ SceneLoaded \/ (al.state = "title" /\ ~world.save)
            /\ Stop(al) /\ UNCHANGED <<slot, cursor>>
         \/ /\ framecb /\ al.state = "title" /\ ~al.pk
            /\ \/ al.ctrl = "none" /\ Provoke
               \/ al.ctrl # "none" /\ world.save /\ Commit
               \/ ~(al.ctrl = "live" /\ menu = "title") /\ Forget
  BY DEF TitleCb, ContinueRow, SceneLoaded, DriveIInv, DriveTypeOK

\* Every step of the drive, the game, the player and other mods keeps DriveIInv.
LEMMA DriveStepIInv == DriveIInv /\ [DriveNext]_saveVars => DriveIInv'
<1> SUFFICES ASSUME DriveIInv, [DriveNext]_saveVars PROVE DriveIInv'
  OBVIOUS
<1> USE DEF driveVars, gameVars, inputVars
\* The drive begins with nothing committed and no confirm of its own.
<1>1. ASSUME NEW got \in SUBSET {"picker", "nav"}, NEW cb \in BOOLEAN, Load(got,
   cb) PROVE DriveIInv'
  <2>1. DriveTypeOK'
    BY ZenonT(60), <1>1 DEF DriveIInv, DriveTypeOK, Button, NoRec, Row, Load, Rest
  <2>2. Pressing' /\ OwnDoing'
    BY <1>1 DEF DriveIInv, DriveTypeOK, Pressing, OwnDoing, Button, NoRec, Load, Rest
  <2>3. Undisturbed' => SameTitle' /\ AtContinue' /\ ~newgame'
    BY <1>1 DEF DriveIInv, DriveTypeOK, OwnDoing, Pressing, SameTitle, AtContinue, Undisturbed,
       NoRec, Load, Rest
  <2> QED
    BY <2>1, <2>2, <2>3 DEF DriveIInv
\* Turning the demo on disturbs, turning it off freezes it.
<1>2. ASSUME NEW on \in BOOLEAN, AttractSet(on) PROVE DriveIInv'
  <2>1. DriveTypeOK'
    BY <1>2 DEF DriveIInv, DriveTypeOK, Button, NoRec, Row, AttractSet
  <2>2. Pressing' /\ OwnDoing'
    BY <1>2 DEF DriveIInv, DriveTypeOK, Pressing, OwnDoing, Button, NoRec, AttractSet
  <2>3. Undisturbed' => SameTitle' /\ AtContinue' /\ ~newgame'
    BY <1>2 DEF DriveIInv, DriveTypeOK, OwnDoing, Pressing, SameTitle, AtContinue, Undisturbed,
       NoRec, AttractSet
  <2> QED
    BY <2>1, <2>2, <2>3 DEF DriveIInv
\* Another mod's record is not the drive's; its back disturbs.
<1>3. ASSUME NEW id \in Button, InputPress(id) PROVE DriveIInv'
  <2>1. DriveTypeOK'
    BY <1>3 DEF DriveIInv, DriveTypeOK, Button, NoRec, Row, InputPress, Meddles, Button
  <2>2. Pressing' /\ OwnDoing'
    BY <1>3 DEF DriveIInv, DriveTypeOK, Pressing, OwnDoing, Button, NoRec, InputPress,
       Meddles, Button
  <2>3. Undisturbed' => SameTitle' /\ AtContinue' /\ ~newgame'
    BY <1>3 DEF DriveIInv, DriveTypeOK, OwnDoing, Pressing, SameTitle, AtContinue, Undisturbed,
       NoRec, InputPress, Meddles, Button
  <2> QED
    BY <2>1, <2>2, <2>3 DEF DriveIInv
<1>4. ASSUME NEW id \in Button, Player(id) PROVE DriveIInv'
  <2>1. DriveTypeOK'
    BY <1>4 DEF DriveIInv, DriveTypeOK, Button, NoRec, Row, Player, Meddles, Button
  <2>2. Pressing' /\ OwnDoing'
    BY <1>4 DEF DriveIInv, DriveTypeOK, Pressing, OwnDoing, Button, NoRec, Player, Meddles,
       Button
  <2>3. Undisturbed' => SameTitle' /\ AtContinue' /\ ~newgame'
    BY <1>4 DEF DriveIInv, DriveTypeOK, OwnDoing, Pressing, SameTitle, AtContinue, Undisturbed,
       NoRec, Player, Meddles, Button
  <2> QED
    BY <2>1, <2>2, <2>3 DEF DriveIInv
\* The first title: nothing was captured before it.
<1>5. CASE Boot
  <2>1. DriveTypeOK'
    BY <1>5 DEF DriveIInv, DriveTypeOK, Button, NoRec, Row, Boot, TitleOpens
  <2>2. Pressing' /\ OwnDoing'
    BY <1>5 DEF DriveIInv, DriveTypeOK, Pressing, OwnDoing, Button, NoRec, Boot, TitleOpens
  <2>3. Undisturbed' => SameTitle' /\ AtContinue' /\ ~newgame'
    BY <1>5 DEF DriveIInv, DriveTypeOK, OwnDoing, Pressing, SameTitle, AtContinue, Undisturbed,
       NoRec, Boot, TitleOpens
  <2> QED
    BY <2>1, <2>2, <2>3 DEF DriveIInv
\* What al_title_cb does, case by case.
<1>6. ASSUME NEW id \in Button, Safepoint(id) PROVE DriveIInv'
  <2>0. /\ TitleCb
        /\ poll = "none" /\ poll' = IF menu = "title" THEN id ELSE "none"
        /\ UNCHANGED <<world, framecb, menu, user, meddled, presses, newgame>>
        /\ poll' \in Button \union {"none"}
    BY <1>6 DEF Safepoint
  <2>1. CASE /\ ~(framecb /\ al.state = "title" /\ ~al.pk)
             /\ Rest /\ UNCHANGED <<slot, cursor>>
    <3>1. DriveTypeOK'
      BY <2>0, <2>1 DEF DriveIInv, DriveTypeOK, Button, NoRec, Row, Rest
    <3>2. Pressing' /\ OwnDoing'
      BY <2>0, <2>1 DEF DriveIInv, DriveTypeOK, Pressing, OwnDoing, Button, NoRec, Rest
    <3>3. Undisturbed' => SameTitle' /\ AtContinue' /\ ~newgame'
      BY <2>0, <2>1 DEF DriveIInv, DriveTypeOK, OwnDoing, Pressing, SameTitle, AtContinue,
         Undisturbed, NoRec, Rest
    <3> QED
      BY <3>1, <3>2, <3>3 DEF DriveIInv
  <2>2. CASE /\ SceneLoaded \/ (al.state = "title" /\ ~world.save)
             /\ Stop(al) /\ UNCHANGED <<slot, cursor>>
    <3>1. DriveTypeOK'
      BY <2>0, <2>2 DEF DriveIInv, DriveTypeOK, Button, NoRec, Row, Stop, SceneLoaded
    <3>2. Pressing' /\ OwnDoing'
      BY <2>0, <2>2 DEF DriveIInv, DriveTypeOK, Pressing, OwnDoing, Button, NoRec, Stop,
         SceneLoaded
    <3>3. Undisturbed' => SameTitle' /\ AtContinue' /\ ~newgame'
      BY <2>0, <2>2 DEF DriveIInv, DriveTypeOK, OwnDoing, Pressing, SameTitle, AtContinue,
         Undisturbed, NoRec, Stop, SceneLoaded
    <3> QED
      BY <3>1, <3>2, <3>3 DEF DriveIInv
  <2>3. CASE framecb /\ al.state = "title" /\ al.ctrl = "none" /\ Provoke
    <3>1. DriveTypeOK'
      BY <2>0, <2>3 DEF DriveIInv, DriveTypeOK, Button, NoRec, Row, Provoke, Inject, Rest
    <3>2. Pressing' /\ OwnDoing'
      BY <2>0, <2>3 DEF DriveIInv, DriveTypeOK, Pressing, OwnDoing, Button, NoRec, Provoke,
         Inject, Rest
    <3>3. Undisturbed' => SameTitle' /\ AtContinue' /\ ~newgame'
      BY <2>0, <2>3 DEF DriveIInv, DriveTypeOK, OwnDoing, Pressing, SameTitle, AtContinue,
         Undisturbed, NoRec, Provoke, Inject, Rest
    <3> QED
      BY <3>1, <3>2, <3>3 DEF DriveIInv
  <2>4. CASE framecb /\ al.state = "title" /\ ~al.pk /\ al.ctrl # "none" /\ world.save /\ Commit
    <3>1. DriveTypeOK'
      BY <2>0, <2>4 DEF DriveIInv, DriveTypeOK, Button, NoRec, Row, Commit, Inject
    <3>2. Pressing' /\ OwnDoing'
      BY <2>0, <2>4 DEF DriveIInv, DriveTypeOK, Pressing, OwnDoing, Button, NoRec, Commit,
         Inject
    <3>3. Undisturbed' => SameTitle' /\ AtContinue' /\ ~newgame'
      BY <2>0, <2>4 DEF DriveIInv, DriveTypeOK, OwnDoing, Pressing, SameTitle, AtContinue,
         Undisturbed, NoRec, Commit, Inject
    <3> QED
      BY <3>1, <3>2, <3>3 DEF DriveIInv
  <2>5. CASE al.state = "title" /\ ~(al.ctrl = "live" /\ menu = "title") /\ Forget
    <3>1. DriveTypeOK'
      BY <2>0, <2>5 DEF DriveIInv, DriveTypeOK, Button, NoRec, Row, Forget
    <3>2. Pressing' /\ OwnDoing'
      BY <2>0, <2>5 DEF DriveIInv, DriveTypeOK, Pressing, OwnDoing, Button, NoRec, Forget
    <3>3. Undisturbed' => SameTitle' /\ AtContinue' /\ ~newgame'
      BY <2>0, <2>5 DEF DriveIInv, DriveTypeOK, OwnDoing, Pressing, SameTitle, AtContinue,
         Undisturbed, NoRec, Forget
    <3> QED
      BY <3>1, <3>2, <3>3 DEF DriveIInv
  <2> QED
    BY <2>0, <2>1, <2>2, <2>3, <2>4, <2>5, TitleCbDoes
<1>7. CASE Misses
  <2>1. DriveTypeOK'
    BY <1>7 DEF DriveIInv, DriveTypeOK, Button, NoRec, Row, Misses
  <2>2. Pressing' /\ OwnDoing'
    BY <1>7 DEF DriveIInv, DriveTypeOK, Pressing, OwnDoing, Button, NoRec, Misses
  <2>3. Undisturbed' => SameTitle' /\ AtContinue' /\ ~newgame'
    BY <1>7 DEF DriveIInv, DriveTypeOK, OwnDoing, Pressing, SameTitle, AtContinue, Undisturbed,
       NoRec, Misses
  <2> QED
    BY <2>1, <2>2, <2>3 DEF DriveIInv
<1>8. CASE TitleNav
  <2>1. DriveTypeOK'
    BY <1>8 DEF DriveIInv, DriveTypeOK, Button, NoRec, Row, TitleNav, NavCb, Taken, Pressed
  <2>2. Pressing' /\ OwnDoing'
    BY <1>8 DEF DriveIInv, DriveTypeOK, Pressing, OwnDoing, Button, NoRec, TitleNav, NavCb,
       Taken, Pressed
  <2>3. Undisturbed' => SameTitle' /\ AtContinue' /\ ~newgame'
    BY <1>8 DEF DriveIInv, DriveTypeOK, OwnDoing, Pressing, SameTitle, AtContinue, Undisturbed,
       NoRec, TitleNav, NavCb, Taken, Pressed
  <2> QED
    BY <2>1, <2>2, <2>3 DEF DriveIInv
\* Of a confirm of the drive, AtContinue says where the cursor is.
<1>9. CASE TitleConfirm
  <2>1. DriveTypeOK'
    BY <1>9 DEF DriveIInv, DriveTypeOK, Button, NoRec, Row, TitleConfirm, NavCb, Taken, Pressed
  <2>2. Pressing' /\ OwnDoing'
    BY <1>9 DEF DriveIInv, DriveTypeOK, Pressing, OwnDoing, Button, NoRec, TitleConfirm,
       NavCb, Taken, Pressed
  <2>4. Undisturbed' => SameTitle'
    BY <1>9 DEF DriveIInv, DriveTypeOK, OwnDoing, Pressing, SameTitle, Undisturbed, NoRec,
       TitleConfirm, NavCb, Taken, Pressed
  <2>5. Undisturbed' => AtContinue'
    BY <1>9 DEF DriveIInv, DriveTypeOK, OwnDoing, Pressing, SameTitle, AtContinue,
       Undisturbed, NoRec, TitleConfirm, NavCb, Taken, Pressed
  <2>6. ASSUME Undisturbed' PROVE ~newgame'
    <3>1. Undisturbed /\ poll = "ok"
      BY <1>9, <2>6 DEF TitleConfirm, Undisturbed
    <3>2. ~(cursor = "start" /\ slot.id = "ok" /\ slot.by = "drive")
      <4>1. slot.id = "ok" /\ slot.by = "drive" => slot = [id |-> "ok", by |-> "drive"]
        BY DEF DriveIInv, DriveTypeOK, NoRec
      <4> QED
        BY <3>1, <4>1 DEF DriveIInv, AtContinue
    <3>3. newgame' = (newgame \/ (cursor = "start" /\ slot.id = "ok" /\ slot.by = "drive"))
      BY <1>9 DEF TitleConfirm
    <3>4. ~newgame
      BY <3>1 DEF DriveIInv
    <3> QED
      BY <3>2, <3>3, <3>4, Zenon
  <2> QED
    BY <2>1, <2>2, <2>4, <2>5, <2>6 DEF DriveIInv
\* The picker observer acts on a committed drive only, never at a title.
<1>10. CASE PickerPoll
  <2>0. /\ PickerCb
        /\ UNCHANGED <<world, framecb, gameVars, user, meddled, presses, newgame>>
    BY <1>10 DEF PickerPoll
  <2>1. DriveTypeOK'
    <3>1. al' \in [state : {"idle", "title", "picker", "done"},
                   ctrl : {"none", "live", "stale"}, committed : BOOLEAN, pk : BOOLEAN]
      BY ZenonT(60), <2>0 DEF PickerCb, Stop, Rest, DriveIInv, DriveTypeOK
    <3>2. hooked' \subseteq {"picker", "nav"} /\ {framecb, frozen, newgame}' \subseteq BOOLEAN
      BY <2>0 DEF PickerCb, Stop, Rest, DriveIInv, DriveTypeOK
    <3>3. slot' \in [id : Button, by : {"drive", "mod"}] \union {NoRec}
      BY <2>0 DEF PickerCb, Stop, Rest, Inject, Button, DriveIInv, DriveTypeOK
    <3> QED
      BY <2>0, <3>1, <3>2, <3>3 DEF DriveIInv, DriveTypeOK, Row
  <2>2. Pressing' /\ OwnDoing'
    <3>1. poll' = "none" /\ slot'.id = "back" => slot.id = "back"
      BY <1>10, <2>0 DEF PickerPoll, PickerCb, Stop, Inject, Rest
    <3>2. Pressing'
      BY <1>10, <2>0, <3>1 DEF PickerPoll, DriveIInv, Pressing
    <3>3. OwnDoing'
      BY <2>0 DEF PickerCb, Stop, Inject, Rest, DriveIInv, DriveTypeOK, OwnDoing, NoRec
    <3> QED
      BY <3>2, <3>3
  <2>3. Undisturbed' => SameTitle' /\ AtContinue' /\ ~newgame'
    BY ZenonT(60), <1>10 DEF DriveIInv, DriveTypeOK, OwnDoing, Pressing, SameTitle, AtContinue, Undisturbed,
       NoRec, PickerPoll, PickerCb, Stop, Inject, Rest, SceneLoaded
  <2> QED
    BY <2>1, <2>2, <2>3 DEF DriveIInv
<1>11. CASE ListConfirm
  <2>1. DriveTypeOK'
    BY <1>11 DEF DriveIInv, DriveTypeOK, Button, NoRec, Row, ListConfirm, Taken, Pressed
  <2>2. Pressing' /\ OwnDoing'
    BY <1>11 DEF DriveIInv, DriveTypeOK, Pressing, OwnDoing, Button, NoRec, ListConfirm,
       Taken, Pressed
  <2>3. Undisturbed' => SameTitle' /\ AtContinue' /\ ~newgame'
    BY <1>11 DEF DriveIInv, DriveTypeOK, OwnDoing, Pressing, SameTitle, AtContinue, Undisturbed,
       NoRec, ListConfirm, Taken, Pressed
  <2> QED
    BY <2>1, <2>2, <2>3 DEF DriveIInv
\* Back is of the player or of another mod.
<1>12. CASE ListBack
  <2>1. DriveTypeOK'
    BY <1>12 DEF DriveIInv, DriveTypeOK, Button, NoRec, Row, ListBack, TitleOpens, Taken,
       Pressed
  <2>2. Pressing' /\ OwnDoing'
    BY <1>12 DEF DriveIInv, DriveTypeOK, Pressing, OwnDoing, Button, NoRec, ListBack,
       TitleOpens, Taken, Pressed
  <2>3. Undisturbed' => SameTitle' /\ AtContinue' /\ ~newgame'
    BY <1>12 DEF DriveIInv, DriveTypeOK, OwnDoing, Pressing, SameTitle, AtContinue, Undisturbed,
       NoRec, ListBack, TitleOpens, Taken, Pressed
  <2> QED
    BY <2>1, <2>2, <2>3 DEF DriveIInv
<1>13. CASE Loaded
  <2>1. DriveTypeOK'
    BY <1>13 DEF DriveIInv, DriveTypeOK, Button, NoRec, Row, Loaded
  <2>2. Pressing' /\ OwnDoing'
    BY <1>13 DEF DriveIInv, DriveTypeOK, Pressing, OwnDoing, Button, NoRec, Loaded
  <2>3. Undisturbed' => SameTitle' /\ AtContinue' /\ ~newgame'
    BY <1>13 DEF DriveIInv, DriveTypeOK, OwnDoing, Pressing, SameTitle, AtContinue, Undisturbed,
       NoRec, Loaded
  <2> QED
    BY <2>1, <2>2, <2>3 DEF DriveIInv
\* A drive at work keeps the demo frozen.
<1>14. CASE Demo
  <2>1. DriveTypeOK'
    BY <1>14 DEF DriveIInv, DriveTypeOK, Button, NoRec, Row, Demo
  <2>2. Pressing' /\ OwnDoing'
    BY <1>14 DEF DriveIInv, DriveTypeOK, Pressing, OwnDoing, Button, NoRec, Demo
  <2>3. Undisturbed' => SameTitle' /\ AtContinue' /\ ~newgame'
    BY <1>14 DEF DriveIInv, DriveTypeOK, OwnDoing, Pressing, SameTitle, AtContinue, Undisturbed,
       NoRec, Demo
  <2> QED
    BY <2>1, <2>2, <2>3 DEF DriveIInv
\* The demo was entered without a captured title.
<1>15. CASE DemoEnds
  <2>1. DriveTypeOK'
    BY <1>15 DEF DriveIInv, DriveTypeOK, Button, NoRec, Row, DemoEnds, TitleOpens
  <2>2. Pressing' /\ OwnDoing'
    BY <1>15 DEF DriveIInv, DriveTypeOK, Pressing, OwnDoing, Button, NoRec, DemoEnds, TitleOpens
  <2>3. Undisturbed' => SameTitle' /\ AtContinue' /\ ~newgame'
    BY <1>15 DEF DriveIInv, DriveTypeOK, OwnDoing, Pressing, SameTitle, AtContinue, Undisturbed,
       NoRec, DemoEnds, TitleOpens
  <2> QED
    BY <2>1, <2>2, <2>3 DEF DriveIInv
<1>16. CASE Expires
  <2>1. DriveTypeOK'
    BY <1>16 DEF DriveIInv, DriveTypeOK, Button, NoRec, Row, Expires
  <2>2. Pressing' /\ OwnDoing'
    BY <1>16 DEF DriveIInv, DriveTypeOK, Pressing, OwnDoing, Button, NoRec, Expires
  <2>3. Undisturbed' => SameTitle' /\ AtContinue' /\ ~newgame'
    BY <1>16 DEF DriveIInv, DriveTypeOK, OwnDoing, Pressing, SameTitle, AtContinue, Undisturbed,
       NoRec, Expires
  <2> QED
    BY <2>1, <2>2, <2>3 DEF DriveIInv
<1>17. CASE UNCHANGED saveVars
  <2>1. DriveTypeOK'
    BY <1>17 DEF DriveIInv, DriveTypeOK, Button, NoRec, Row, saveVars
  <2>2. Pressing' /\ OwnDoing'
    BY <1>17 DEF DriveIInv, DriveTypeOK, Pressing, OwnDoing, Button, NoRec, saveVars
  <2>3. Undisturbed' => SameTitle' /\ AtContinue' /\ ~newgame'
    BY <1>17 DEF DriveIInv, DriveTypeOK, OwnDoing, Pressing, SameTitle, AtContinue, Undisturbed,
       NoRec, saveVars
  <2> QED
    BY <2>1, <2>2, <2>3 DEF DriveIInv
<1> QED
  BY <1>1, <1>2, <1>3, <1>4, <1>5, <1>6, <1>7, <1>8, <1>9, <1>10, <1>11, <1>12, <1>13, <1>14,
     <1>15, <1>16, <1>17 DEF DriveNext, Game, Mods

\* Types of the drive, and what it knows of the title while nobody disturbs it.
THEOREM DriveInvariant == DriveSpec => []DriveIInv
  BY DriveInitIInv, DriveStepIInv, PTL DEF DriveSpec

\* sotes_bindings.c:482-483: no new game by accident.
THEOREM NeverNewGame == DriveSpec => []NoNewGame
<1>1. DriveIInv => NoNewGame
  BY DEF DriveIInv, Undisturbed, NoNewGame
<1> QED
  BY <1>1, DriveInvariant, PTL

-----------------------------------------------------------------------------
(***************************************************************************)
(* MinHook's tables (core/minhook/src/hook.c, buffer.c), for every number  *)
(* of functions, threads, pages and slots and whatever the functions       *)
(* consist of: the hooks, the slots, the pages and the jumps agree.        *)
(***************************************************************************)
Program == UNION {Programs(tg) : tg \in Targets}
Copies == {CreateTrampoline(p).ips : p \in Program} \cup {<<>>}
Aboves == {CreateTrampoline(p).patchAbove : p \in Program}
EntryRec == [target : Targets, slot : Slots, isEnabled : BOOLEAN, queueEnable : BOOLEAN,
             patchAbove : Aboves, ips : Copies]
PageRec == [id : Blocks, free : Seq(1 .. SLOTS), used : Nat]

\* A slot of a page of ps that is not among the page's free ones.
OccupiedIn(ps, s) == \E i \in DOMAIN ps : /\ ps[i].id = s[1] /\ s[2] \in 1 .. SLOTS
                                         /\ s[2] \notin Range(ps[i].free)

\* Each page is in the list once, and its count and its list of free slots agree.
Sized(ps) ==
    /\ \A i, j \in DOMAIN ps : ps[i].id = ps[j].id => i = j
    /\ \A i \in DOMAIN ps : IsInjective(ps[i].free) /\ ps[i].used = SLOTS - Len(ps[i].free)

\* DeleteHookEntry and the end of FreeBuffer: the elements after the one removed move up.
LEMMA RemovedAt ==
  ASSUME NEW S, NEW s \in Seq(S), NEW i \in 1 .. Len(s)
  PROVE  /\ RemoveAt(s, i) \in Seq(S) /\ Len(RemoveAt(s, i)) = Len(s) - 1
         /\ \A j \in 1 .. Len(s) - 1 : RemoveAt(s, i)[j] = IF j < i THEN s[j] ELSE s[j + 1]
<1> DEFINE a == SubSeq(s, 1, i - 1)
           b == SubSeq(s, i + 1, Len(s))
<1>1. Len(s) \in Nat /\ i \in Nat /\ \A k \in 1 .. Len(s) : s[k] \in S
  BY ElementOfSeq, LenProperties
<1>2. /\ a \in Seq(S) /\ Len(a) = i - 1 /\ \A k \in 1 .. i - 1 : a[k] = s[k]
  <2>1. \A k \in 1 .. i - 1 : s[k] \in S
    BY <1>1
  <2>2. 1 <= i /\ i - 1 <= Len(s)
    BY <1>1
  <2>3. QED
    BY <1>1, <2>1, <2>2, SubSeqProperties
<1>3. /\ b \in Seq(S) /\ Len(b) = Len(s) - i /\ \A k \in 1 .. Len(s) - i : b[k] = s[k + i]
  <2>1. \A k \in i + 1 .. Len(s) : s[k] \in S
    BY <1>1
  <2>2. /\ b \in Seq(S)
        /\ Len(b) = IF i + 1 <= Len(s) THEN Len(s) - (i + 1) + 1 ELSE 0
        /\ \A k \in 1 .. Len(s) - (i + 1) + 1 : b[k] = s[i + 1 + k - 1]
    BY <1>1, <2>1, SubSeqProperties
  <2>3. Len(b) = Len(s) - i
    BY <1>1, <2>2
  <2>4. \A k \in 1 .. Len(s) - i : b[k] = s[k + i]
    <3> SUFFICES ASSUME NEW k \in 1 .. Len(s) - i PROVE b[k] = s[k + i]
      OBVIOUS
    <3> HIDE DEF b
    <3>1. k \in 1 .. Len(s) - (i + 1) + 1 /\ i + 1 + k - 1 = k + i
      BY <1>1
    <3>2. QED
      BY <2>2, <3>1
  <2>5. QED
    BY <2>2, <2>3, <2>4
<1>4. RemoveAt(s, i) = a \o b
  BY DEF RemoveAt
<1> HIDE DEF a, b
<1>5. /\ a \o b \in Seq(S) /\ Len(a \o b) = Len(a) + Len(b)
      /\ \A j \in 1 .. Len(a) + Len(b) : (a \o b)[j] = IF j <= Len(a) THEN a[j] ELSE b[j - Len(a)]
  BY <1>2, <1>3, ConcatProperties
<1>6. Len(a) + Len(b) = Len(s) - 1
  BY <1>1, <1>2, <1>3
<1>7. ASSUME NEW j \in 1 .. Len(s) - 1
      PROVE  RemoveAt(s, i)[j] = IF j < i THEN s[j] ELSE s[j + 1]
  <2>1. (a \o b)[j] = IF j <= i - 1 THEN a[j] ELSE b[j - (i - 1)]
    BY <1>2, <1>5, <1>6
  <2>2. CASE j < i
    <3>1. j \in 1 .. i - 1 /\ j <= i - 1
      BY <1>1, <2>2
    <3>2. QED
      BY <1>2, <1>4, <2>1, <2>2, <3>1
  <2>3. CASE ~(j < i)
    <3>1. /\ j - (i - 1) \in 1 .. Len(s) - i /\ j - (i - 1) + i = j + 1 /\ ~(j <= i - 1)
      BY <1>1, <2>3
    <3>2. QED
      BY <1>3, <1>4, <2>1, <2>3, <3>1
  <2>4. QED
    BY <2>2, <2>3
<1>8. QED
  BY <1>4, <1>5, <1>6, <1>7

\* AllocateBuffer takes the first free slot of a page, FreeBuffer puts one back in front.
LEMMA SlotTaken ==
  ASSUME NEW f \in Seq(1 .. SLOTS), IsInjective(f), f # <<>>
  PROVE  /\ Head(f) \in 1 .. SLOTS /\ Head(f) \in Range(f)
         /\ Tail(f) \in Seq(1 .. SLOTS) /\ IsInjective(Tail(f)) /\ Len(Tail(f)) = Len(f) - 1
         /\ Range(Tail(f)) = Range(f) \ {Head(f)}
<1>1. /\ Len(f) \in Nat /\ Len(f) > 0 /\ DOMAIN f = 1 .. Len(f) /\ Head(f) = f[1]
      /\ Head(f) \in 1 .. SLOTS
  <2>1. Len(f) \in Nat \ {0} /\ DOMAIN f = 1 .. Len(f)
    BY EmptySeq, LenProperties
  <2>2. Head(f) \in 1 .. SLOTS
    BY HeadTailProperties
  <2>3. QED
    BY <2>1, <2>2
<1>2. /\ Tail(f) \in Seq(1 .. SLOTS) /\ Len(Tail(f)) = Len(f) - 1
      /\ \A k \in 1 .. Len(Tail(f)) : Tail(f)[k] = f[k + 1]
  BY HeadTailProperties
<1> DEFINE g == Tail(f)
<1>3. DOMAIN g = 1 .. Len(f) - 1 /\ \A k \in 1 .. Len(f) - 1 : g[k] = f[k + 1]
  BY <1>2
<1> HIDE DEF g
<1>4. IsInjective(g)
  <2> SUFFICES ASSUME NEW a \in DOMAIN g, NEW b \in DOMAIN g, g[a] = g[b] PROVE a = b
    BY DEF IsInjective
  <2>1. a \in Nat /\ b \in Nat /\ a + 1 \in DOMAIN f /\ b + 1 \in DOMAIN f
    BY <1>1, <1>3
  <2>2. f[a + 1] = f[b + 1]
    BY <1>3
  <2>3. a + 1 = b + 1
    BY <2>1, <2>2 DEF IsInjective
  <2>4. QED
    BY <2>1, <2>3
<1>5. ASSUME NEW x PROVE x \in Range(g) <=> x \in Range(f) \ {Head(f)}
  <2>1. ASSUME NEW k \in DOMAIN g, x = g[k] PROVE x \in Range(f) /\ x # f[1]
    <3>1. k + 1 \in DOMAIN f /\ 1 \in DOMAIN f /\ k + 1 # 1 /\ x = f[k + 1]
      BY <1>1, <1>3, <2>1
    <3>2. QED
      BY <3>1 DEF IsInjective, Range
  <2>2. ASSUME NEW k \in DOMAIN f, x = f[k], x # f[1] PROVE x \in Range(g)
    <3>1. k - 1 \in DOMAIN g /\ g[k - 1] = f[k]
      <4>1. k # 1 /\ k \in 1 .. Len(f)
        BY <1>1, <2>2
      <4>2. k - 1 \in 1 .. Len(f) - 1 /\ (k - 1) + 1 = k
        BY <1>1, <4>1
      <4>3. QED
        BY <1>3, <4>2
    <3>2. QED
      BY <2>2, <3>1 DEF Range
  <2>3. QED
    BY <1>1, <2>1, <2>2 DEF Range
<1>6. Head(f) \in Range(f)
  BY <1>1 DEF Range
<1>7. QED
  BY <1>1, <1>2, <1>4, <1>5, <1>6 DEF g

LEMMA SlotBack ==
  ASSUME NEW f \in Seq(1 .. SLOTS), IsInjective(f), NEW x \in 1 .. SLOTS, x \notin Range(f)
  PROVE  /\ <<x>> \o f \in Seq(1 .. SLOTS) /\ IsInjective(<<x>> \o f)
         /\ Len(<<x>> \o f) = Len(f) + 1 /\ Range(<<x>> \o f) = Range(f) \cup {x}
<1> DEFINE g == <<x>> \o f
<1>1. Len(f) \in Nat /\ DOMAIN f = 1 .. Len(f)
  BY LenProperties
<1>2. /\ g \in Seq(1 .. SLOTS) /\ Len(g) = Len(f) + 1 /\ g[1] = x
      /\ \A k \in 1 .. Len(f) : g[k + 1] = f[k]
  <2>1. <<x>> \in Seq(1 .. SLOTS) /\ Len(<<x>>) = 1 /\ <<x>>[1] = x
    OBVIOUS
  <2>2. /\ g \in Seq(1 .. SLOTS) /\ Len(g) = 1 + Len(f)
        /\ \A k \in 1 .. 1 + Len(f) : g[k] = IF k <= 1 THEN <<x>>[k] ELSE f[k - 1]
    BY <2>1, ConcatProperties
  <2>3. g[1] = x
    BY <1>1, <2>1, <2>2
  <2> HIDE DEF g
  <2>4. ASSUME NEW k \in 1 .. Len(f) PROVE g[k + 1] = f[k]
    <3>1. k + 1 \in 1 .. 1 + Len(f) /\ ~(k + 1 <= 1) /\ (k + 1) - 1 = k
      BY <1>1
    <3>2. QED
      BY <2>2, <3>1
  <2>5. QED
    BY <1>1, <2>2, <2>3, <2>4
<1> HIDE DEF g
<1>3. DOMAIN g = 1 .. Len(f) + 1
  BY <1>2, LenProperties
<1>4. \A k \in DOMAIN g : k = 1 \/ \E j \in DOMAIN f : k = j + 1 /\ g[k] = f[j]
  <2> SUFFICES ASSUME NEW k \in DOMAIN g, k # 1
               PROVE  \E j \in DOMAIN f : k = j + 1 /\ g[k] = f[j]
    OBVIOUS
  <2>1. k - 1 \in 1 .. Len(f) /\ k = (k - 1) + 1
    BY <1>1, <1>3
  <2>2. QED
    BY <1>1, <1>2, <2>1
<1>5. IsInjective(g)
  <2> SUFFICES ASSUME NEW a \in DOMAIN g, NEW b \in DOMAIN g, g[a] = g[b] PROVE a = b
    BY DEF IsInjective
  <2>1. QED
    BY <1>2, <1>4 DEF IsInjective, Range
<1>6. ASSUME NEW y PROVE y \in Range(g) <=> y \in Range(f) \cup {x}
  <2>1. ASSUME NEW j \in DOMAIN f PROVE f[j] \in Range(g)
    <3>1. j + 1 \in DOMAIN g /\ g[j + 1] = f[j]
      BY <1>1, <1>2, <1>3
    <3>2. QED
      BY <3>1 DEF Range
  <2>2. x \in Range(g)
    <3>1. 1 \in DOMAIN g
      BY <1>1, <1>3
    <3>2. QED
      BY <1>2, <3>1 DEF Range
  <2>3. QED
    BY <1>2, <1>4, <2>1, <2>2 DEF Range
<1>7. QED
  BY <1>2, <1>5, <1>6 DEF g

\* A list of different slots of a page is no longer than the page has slots, and
\* when it is as long, it names them all.
LEMMA SlotsCounted ==
  ASSUME NEW f \in Seq(1 .. SLOTS), IsInjective(f)
  PROVE  Len(f) <= SLOTS /\ (Len(f) = SLOTS => Range(f) = 1 .. SLOTS)
<1>0. SLOTS \in Nat /\ Len(f) \in Nat /\ f \in [1 .. Len(f) -> 1 .. SLOTS]
  BY SizesAssumption, LenProperties
<1>1. f \in Injection(1 .. Len(f), 1 .. SLOTS)
  BY <1>0 DEF Injection, IsInjective
<1>2. /\ IsFiniteSet(1 .. SLOTS) /\ Cardinality(1 .. SLOTS) = SLOTS
      /\ Cardinality(1 .. Len(f)) = Len(f)
  <2>1. ASSUME NEW n \in Nat PROVE IsFiniteSet(1 .. n) /\ Cardinality(1 .. n) = n
    <3>1. 1 \in Int /\ n \in Int
      OBVIOUS
    <3>2. IsFiniteSet(1 .. n) /\ Cardinality(1 .. n) = IF 1 > n THEN 0 ELSE n - 1 + 1
      BY <3>1, FS_Interval, Zenon
    <3>3. QED
      BY <3>2
  <2>2. QED
    BY <1>0, <2>1
<1>3. Len(f) <= SLOTS /\ (Len(f) = SLOTS <=> f \in Surjection(1 .. Len(f), 1 .. SLOTS))
  BY <1>1, <1>2, FS_Injection
<1>4. ASSUME f \in Surjection(1 .. Len(f), 1 .. SLOTS) PROVE Range(f) = 1 .. SLOTS
  BY <1>0, <1>4 DEF Surjection, Range
<1>5. QED
  BY <1>3, <1>4
-----------------------------------------------------------------------------
LEMMA FirstFreeIs ==
  ASSUME NEW ps \in Seq(PageRec), \E i \in DOMAIN ps : ps[i].free # <<>>
  PROVE  FirstFree(ps) \in DOMAIN ps /\ ps[FirstFree(ps)].free # <<>>
<1> DEFINE R == OpToRel(<, Nat)
           S == {i \in DOMAIN ps : ps[i].free # <<>>}
<1>1. DOMAIN ps = 1 .. Len(ps) /\ Len(ps) \in Nat
  BY LenProperties
<1>2. S # {} /\ S \in SUBSET Nat
  BY <1>1
<1>3. PICK i \in S : \A j \in S : <<j, i>> \notin R
  <2>1. IsWellFoundedOn(R, Nat)
    BY NatLessThanWellFounded
  <2> HIDE DEF R, S
  <2>2. QED
    BY <1>2, <2>1, WFMin
<1>4. \A j \in 1 .. i - 1 : ps[j].free = <<>>
  <2> SUFFICES ASSUME NEW j \in 1 .. i - 1, ps[j].free # <<>> PROVE FALSE
    OBVIOUS
  <2>1. i \in 1 .. Len(ps)
    BY <1>1, <1>3
  <2>2. j \in 1 .. Len(ps) /\ j < i /\ j \in Nat /\ i \in Nat
    BY <1>1, <2>1
  <2>3. j \in S
    BY <1>1, <2>2
  <2>4. <<j, i>> \in R
    BY <2>2 DEF OpToRel
  <2>5. QED
    BY <1>3, <2>3, <2>4
<1>5. \E k \in DOMAIN ps : ps[k].free # <<>> /\ \A j \in 1 .. k - 1 : ps[j].free = <<>>
  BY <1>3, <1>4
<1>6. QED
  BY <1>5 DEF FirstFree

\* One page changes its list and its count together.
Refilled(ps, i, f, n) == [ps EXCEPT ![i] = [ps[i] EXCEPT !.free = f, !.used = n]]

LEMMA PageChanged ==
  ASSUME NEW ps \in Seq(PageRec), Sized(ps), NEW i \in DOMAIN ps, NEW f \in Seq(1 .. SLOTS),
         IsInjective(f), NEW n \in Nat, n = SLOTS - Len(f), NEW new,
         new = Refilled(ps, i, f, n)
  PROVE  /\ new \in Seq(PageRec) /\ Sized(new) /\ DOMAIN new = DOMAIN ps /\ Len(new) = Len(ps)
         /\ new[i].id = ps[i].id /\ new[i].free = f /\ new[i].used = n
         /\ \A j \in DOMAIN ps : j # i => new[j] = ps[j]
<1>1. ps[i] \in PageRec
  BY ElementOfSeq, LenProperties
<1>2. PICK p : p = [ps[i] EXCEPT !.free = f, !.used = n]
  OBVIOUS
<1>3. p \in PageRec /\ p.id = ps[i].id /\ p.free = f /\ p.used = n
  BY <1>1, <1>2 DEF PageRec
<1>4. new = [ps EXCEPT ![i] = p]
  BY <1>2 DEF Refilled
<1>5. /\ new \in Seq(PageRec) /\ DOMAIN new = DOMAIN ps /\ Len(new) = Len(ps) /\ new[i] = p
      /\ \A j \in DOMAIN ps : j # i => new[j] = ps[j]
  BY <1>3, <1>4, ExceptSeq
<1>6. \A j \in DOMAIN ps : new[j].id = ps[j].id
  BY <1>3, <1>5
<1>7. Sized(new)
  <2>1. \A a, b \in DOMAIN new : new[a].id = new[b].id => a = b
    <3>1. \A a, b \in DOMAIN ps : ps[a].id = ps[b].id => a = b
      BY DEF Sized
    <3>2. DOMAIN new = DOMAIN ps
      BY <1>5
    <3>3. ASSUME NEW a \in DOMAIN ps, NEW b \in DOMAIN ps, new[a].id = new[b].id PROVE a = b
      BY <1>6, <3>1, <3>3
    <3>4. QED
      BY <3>2, <3>3
  <2>2. ASSUME NEW a \in DOMAIN new
        PROVE  IsInjective(new[a].free) /\ new[a].used = SLOTS - Len(new[a].free)
    <3>1. CASE a = i
      BY <1>3, <1>5, <3>1
    <3>2. CASE a # i
      <4>1. new[a] = ps[a] /\ a \in DOMAIN ps
        BY <1>5, <3>2
      <4>2. QED
        BY <4>1 DEF Sized
    <3>3. QED
      BY <3>1, <3>2
  <2>3. QED
    BY <2>1, <2>2 DEF Sized
<1>8. QED
  BY <1>3, <1>5, <1>7

\* Which slots of which pages are occupied afterwards.
LEMMA PageOccupied ==
  ASSUME NEW ps \in Seq(PageRec), Sized(ps), NEW i \in DOMAIN ps, NEW new, DOMAIN new = DOMAIN ps,
         new[i].id = ps[i].id, \A j \in DOMAIN ps : j # i => new[j] = ps[j], NEW s \in Slots
  PROVE  OccupiedIn(new, s) <=> IF s[1] = ps[i].id THEN s[2] \notin Range(new[i].free)
                                ELSE OccupiedIn(ps, s)
<1>1. s[2] \in 1 .. SLOTS
  BY DEF Slots
<1>2. CASE s[1] = ps[i].id
  <2>1. \A j \in DOMAIN new : new[j].id = s[1] => j = i
    BY <1>2 DEF Sized
  <2>2. QED
    BY <1>1, <1>2, <2>1 DEF OccupiedIn
<1>3. CASE s[1] # ps[i].id
  BY <1>3 DEF OccupiedIn
<1>4. QED
  BY <1>2, <1>3

LEMMA AllocateIs ==
  ASSUME NEW ps \in Seq(PageRec), Sized(ps), \E i \in DOMAIN ps : ps[i].free # <<>>,
         NEW k, k = FirstFree(ps), NEW place, place = <<ps[k].id, Head(ps[k].free)>>
  PROVE  /\ k \in DOMAIN ps /\ place \in Slots /\ ~OccupiedIn(ps, place)
         /\ AllocateBuffer(ps) \in Seq(PageRec) /\ Sized(AllocateBuffer(ps))
         /\ (\A j \in DOMAIN ps : j # k => ps[j].used > 0) =>
               \A j \in DOMAIN AllocateBuffer(ps) : AllocateBuffer(ps)[j].used > 0
         /\ \A s \in Slots : OccupiedIn(AllocateBuffer(ps), s) <=> OccupiedIn(ps, s) \/ s = place
<1>1. k \in DOMAIN ps /\ ps[k].free # <<>>
  BY FirstFreeIs
<1>2. ps[k] \in PageRec
  BY <1>1, ElementOfSeq, LenProperties
<1>3. PICK f : f = ps[k].free
  OBVIOUS
<1>4. f \in Seq(1 .. SLOTS) /\ IsInjective(f) /\ f # <<>> /\ ps[k].used = SLOTS - Len(f)
  BY <1>1, <1>2, <1>3 DEF PageRec, Sized
<1>5. /\ Head(f) \in 1 .. SLOTS /\ Head(f) \in Range(f)
      /\ Tail(f) \in Seq(1 .. SLOTS) /\ IsInjective(Tail(f)) /\ Len(Tail(f)) = Len(f) - 1
      /\ Range(Tail(f)) = Range(f) \ {Head(f)}
  BY <1>4, SlotTaken
<1>6. PICK new : new = AllocateBuffer(ps)
  OBVIOUS
<1>7. PICK n : n = ps[k].used + 1
  OBVIOUS
<1>8. n \in Nat /\ n > 0 /\ n = SLOTS - Len(Tail(f))
  <2>1. ps[k].used \in Nat /\ Len(f) \in Nat /\ SLOTS \in Nat
    BY <1>2, <1>4, LenProperties, SizesAssumption DEF PageRec
  <2>2. QED
    BY <1>4, <1>5, <1>7, <2>1
<1>9. new = Refilled(ps, k, Tail(f), n)
  BY <1>1, <1>3, <1>6, <1>7 DEF AllocateBuffer, Refilled
<1>10. /\ new \in Seq(PageRec) /\ Sized(new) /\ DOMAIN new = DOMAIN ps
       /\ new[k].id = ps[k].id /\ new[k].free = Tail(f) /\ new[k].used = n
       /\ \A j \in DOMAIN ps : j # k => new[j] = ps[j]
  <2>1. n = SLOTS - Len(Tail(f)) /\ n \in Nat
    BY <1>8
  <2>2. PICK h : h = Tail(f)
    OBVIOUS
  <2>3. h \in Seq(1 .. SLOTS) /\ IsInjective(h) /\ n = SLOTS - Len(h) /\ new = Refilled(ps, k, h, n)
    BY <1>5, <1>9, <2>1, <2>2
  <2>4. /\ new \in Seq(PageRec) /\ Sized(new) /\ DOMAIN new = DOMAIN ps
        /\ new[k].id = ps[k].id /\ new[k].free = h /\ new[k].used = n
        /\ \A j \in DOMAIN ps : j # k => new[j] = ps[j]
    BY <1>1, <2>1, <2>3, PageChanged
  <2>5. QED
    BY <2>2, <2>4
<1>11. place = <<ps[k].id, Head(f)>> /\ place \in Slots
  BY <1>2, <1>3, <1>5 DEF PageRec, Slots
<1>12. \A s \in Slots : OccupiedIn(ps, s) <=> IF s[1] = ps[k].id THEN s[2] \notin Range(f)
                                              ELSE OccupiedIn(ps, s)
  BY <1>1, <1>3, PageOccupied
<1>13. \A s \in Slots : OccupiedIn(new, s) <=> IF s[1] = ps[k].id THEN s[2] \notin Range(Tail(f))
                                               ELSE OccupiedIn(ps, s)
  BY <1>1, <1>10, PageOccupied
<1>14. ~OccupiedIn(ps, place)
  BY <1>5, <1>11, <1>12
<1>15. ASSUME NEW s \in Slots PROVE OccupiedIn(new, s) <=> OccupiedIn(ps, s) \/ s = place
  <2>1. s = <<s[1], s[2]>>
    BY DEF Slots
  <2>2. CASE s[1] = ps[k].id
    <3>1. s = place <=> s[2] = Head(f)
      BY <1>11, <2>1, <2>2
    <3>2. QED
      BY <1>5, <1>12, <1>13, <2>2, <3>1
  <2>3. CASE s[1] # ps[k].id
    BY <1>11, <1>13, <2>1, <2>3
  <2>4. QED
    BY <2>2, <2>3
<1>16. (\A j \in DOMAIN ps : j # k => ps[j].used > 0) => \A j \in DOMAIN new : new[j].used > 0
  BY <1>8, <1>10
<1>17. QED
  BY <1>1, <1>6, <1>10, <1>11, <1>14, <1>15, <1>16

LEMMA FreeIs ==
  ASSUME NEW ps \in Seq(PageRec), Sized(ps), \A j \in DOMAIN ps : ps[j].used > 0,
         NEW place \in Slots, OccupiedIn(ps, place)
  PROVE  /\ FreeBuffer(ps, place) \in Seq(PageRec) /\ Sized(FreeBuffer(ps, place))
         /\ \A j \in DOMAIN FreeBuffer(ps, place) : FreeBuffer(ps, place)[j].used > 0
         /\ \A s \in Slots : OccupiedIn(FreeBuffer(ps, place), s) <=> OccupiedIn(ps, s) /\ s # place
<1>1. PICK i : i = CHOOSE j \in DOMAIN ps : ps[j].id = place[1]
  OBVIOUS
<1>2. i \in DOMAIN ps /\ ps[i].id = place[1]
  <2>1. \E j \in DOMAIN ps : ps[j].id = place[1]
    BY DEF OccupiedIn
  <2>2. QED
    BY <1>1, <2>1
<1>3. ps[i] \in PageRec /\ DOMAIN ps = 1 .. Len(ps) /\ Len(ps) \in Nat
  BY <1>2, ElementOfSeq, LenProperties
<1>4. PICK f : f = ps[i].free
  OBVIOUS
<1>5. PICK x : x = place[2]
  OBVIOUS
<1>6. /\ f \in Seq(1 .. SLOTS) /\ IsInjective(f) /\ ps[i].used = SLOTS - Len(f)
      /\ ps[i].used \in Nat /\ ps[i].used > 0 /\ SLOTS \in Nat /\ Len(f) \in Nat
  BY <1>2, <1>3, <1>4, SizesAssumption, LenProperties DEF PageRec, Sized
<1>7. place = <<ps[i].id, x>> /\ x \in 1 .. SLOTS /\ x \notin Range(f)
  <2>1. place = <<place[1], place[2]>> /\ place[2] \in 1 .. SLOTS
    BY DEF Slots
  <2>2. \A j \in DOMAIN ps : ps[j].id = place[1] => j = i
    BY <1>2 DEF Sized
  <2>3. QED
    BY <1>2, <1>4, <1>5, <2>1, <2>2 DEF OccupiedIn
<1>8. PICK g : g = <<x>> \o f
  OBVIOUS
<1>9. g \in Seq(1 .. SLOTS) /\ IsInjective(g) /\ Len(g) = Len(f) + 1 /\ Range(g) = Range(f) \cup {x}
  BY <1>6, <1>7, <1>8, SlotBack
<1>10. PICK n : n = ps[i].used - 1
  OBVIOUS
<1>11. n \in Nat /\ n = SLOTS - Len(g)
  BY <1>6, <1>9, <1>10
<1>12. PICK left : left = Refilled(ps, i, g, n)
  OBVIOUS
<1>13. /\ left \in Seq(PageRec) /\ Sized(left) /\ DOMAIN left = DOMAIN ps /\ Len(left) = Len(ps)
       /\ left[i].id = ps[i].id /\ left[i].free = g /\ left[i].used = n
       /\ \A j \in DOMAIN ps : j # i => left[j] = ps[j]
  BY <1>2, <1>9, <1>11, <1>12, PageChanged
<1>14. PICK new : new = FreeBuffer(ps, place)
  OBVIOUS
<1>15. new = IF n = 0 THEN RemoveAt(left, i) ELSE left
  <2>1. left = [ps EXCEPT ![i].free = <<place[2]>> \o @, ![i].used = @ - 1]
    BY <1>2, <1>4, <1>5, <1>8, <1>10, <1>12 DEF Refilled
  <2>2. FreeBuffer(ps, place) = IF left[i].used = 0 THEN RemoveAt(left, i) ELSE left
    BY <1>1, <2>1 DEF FreeBuffer
  <2>3. QED
    BY <1>13, <1>14, <2>2
<1>16. \A s \in Slots : OccupiedIn(ps, s) <=> IF s[1] = ps[i].id THEN s[2] \notin Range(f)
                                              ELSE OccupiedIn(ps, s)
  BY <1>2, <1>4, PageOccupied
<1>17. \A s \in Slots : OccupiedIn(left, s) <=> IF s[1] = ps[i].id THEN s[2] \notin Range(g)
                                                ELSE OccupiedIn(ps, s)
  BY <1>2, <1>13, PageOccupied
<1>18. ASSUME NEW s \in Slots PROVE OccupiedIn(left, s) <=> OccupiedIn(ps, s) /\ s # place
  <2>1. s = <<s[1], s[2]>>
    BY DEF Slots
  <2>2. CASE s[1] = ps[i].id
    <3>1. s = place <=> s[2] = x
      BY <1>7, <2>1, <2>2
    <3>2. QED
      BY <1>9, <1>16, <1>17, <2>2, <3>1
  <2>3. CASE s[1] # ps[i].id
    BY <1>7, <1>17, <2>1, <2>3
  <2>4. QED
    BY <2>2, <2>3
<1>19. CASE n # 0
  <2>1. \A j \in DOMAIN left : left[j].used > 0
    BY <1>11, <1>13, <1>19
  <2>2. QED
    BY <1>13, <1>14, <1>15, <1>18, <1>19, <2>1
<1>20. CASE n = 0
  <2>1. new = RemoveAt(left, i) /\ i \in 1 .. Len(left) /\ Len(left) = Len(ps)
    BY <1>2, <1>3, <1>13, <1>15, <1>20
  <2>2. /\ new \in Seq(PageRec) /\ Len(new) = Len(ps) - 1
        /\ \A j \in 1 .. Len(ps) - 1 : new[j] = IF j < i THEN left[j] ELSE left[j + 1]
    <3>1. left \in Seq(PageRec)
      BY <1>13
    <3>2. /\ RemoveAt(left, i) \in Seq(PageRec) /\ Len(RemoveAt(left, i)) = Len(left) - 1
          /\ \A j \in 1 .. Len(left) - 1 :
                RemoveAt(left, i)[j] = IF j < i THEN left[j] ELSE left[j + 1]
      BY <2>1, <3>1, RemovedAt
    <3>3. QED
      BY <2>1, <3>2
  <2>3. DOMAIN new = 1 .. Len(ps) - 1
    BY <2>2, LenProperties
  <2> DEFINE to(j) == IF j < i THEN j ELSE j + 1
  <2>4. /\ \A j \in DOMAIN new : to(j) \in DOMAIN left /\ to(j) # i /\ new[j] = left[to(j)]
        /\ \A a, b \in DOMAIN new : to(a) = to(b) => a = b
        /\ \A k \in DOMAIN left : k # i => \E j \in DOMAIN new : to(j) = k
    <3>1. i \in 1 .. Len(ps) /\ DOMAIN left = 1 .. Len(ps)
      BY <1>2, <1>3, <1>13
    <3>2. \A j \in DOMAIN new : to(j) \in DOMAIN left /\ to(j) # i /\ new[j] = left[to(j)]
      BY <1>3, <2>2, <2>3, <3>1
    <3>3. \A a, b \in DOMAIN new : to(a) = to(b) => a = b
      BY <1>3, <2>3, <3>1
    <3>4. ASSUME NEW k \in DOMAIN left, k # i PROVE \E j \in DOMAIN new : to(j) = k
      <4>1. CASE k < i
        <5>1. k \in DOMAIN new
          BY <1>3, <2>3, <3>1, <4>1
        <5>2. QED
          BY <4>1, <5>1
      <4>2. CASE ~(k < i)
        <5>1. k - 1 \in DOMAIN new /\ ~(k - 1 < i) /\ (k - 1) + 1 = k
          BY <1>3, <2>3, <3>1, <3>4, <4>2
        <5>2. QED
          BY <5>1
      <4>3. QED
        BY <4>1, <4>2
    <3>5. QED
      BY <3>2, <3>3, <3>4
  <2> HIDE DEF to
  <2>5. Sized(new)
    BY <1>13, <2>4 DEF Sized
  <2>6. \A j \in DOMAIN new : new[j].used > 0
    BY <1>13, <2>4
  <2>7. Range(g) = 1 .. SLOTS
    <3>1. Len(g) = SLOTS
      BY <1>6, <1>9, <1>11, <1>20
    <3>2. QED
      BY <1>9, <3>1, SlotsCounted
  <2>8. ASSUME NEW s \in Slots PROVE OccupiedIn(new, s) <=> OccupiedIn(left, s)
    <3>1. s[2] \in 1 .. SLOTS
      BY DEF Slots
    <3>2. \A j \in DOMAIN left : s[2] \notin Range(left[j].free) => j # i
      BY <1>13, <2>7, <3>1
    <3>3. ASSUME OccupiedIn(left, s) PROVE OccupiedIn(new, s)
      <4>1. PICK k \in DOMAIN left : left[k].id = s[1] /\ s[2] \notin Range(left[k].free)
        BY <3>3 DEF OccupiedIn
      <4>2. PICK j \in DOMAIN new : to(j) = k
        BY <2>4, <3>2, <4>1
      <4>3. new[j] = left[k]
        BY <2>4, <4>2
      <4>4. QED
        BY <3>1, <4>1, <4>3 DEF OccupiedIn
    <3>4. ASSUME OccupiedIn(new, s) PROVE OccupiedIn(left, s)
      BY <2>4, <3>4 DEF OccupiedIn
    <3>5. QED
      BY <3>3, <3>4
  <2>9. QED
    BY <1>14, <1>18, <2>2, <2>5, <2>6, <2>8
<1>21. QED
  BY <1>19, <1>20
-----------------------------------------------------------------------------
(***************************************************************************)
(* The tables.                                                             *)
(***************************************************************************)
Actions == {"disable", "enable", "apply queued"}
Switches == UNION {[S -> BOOLEAN] : S \in SUBSET Nat}
CallRec == [fn : {"set", "all", "apply", "remove", "uninitialize"}, action : Actions,
            span : SUBSET Nat, todo : SUBSET Nat, enable : Switches, pos : Nat, scan : SUBSET Threads,
            unmoved : SUBSET Threads]

TableTypes ==
    /\ code \in [Targets -> Program]
    /\ hooks \in Seq(EntryRec) /\ pages \in Seq(PageRec)
    /\ text \in [Slots -> [target : Targets \cup {"none"}, ips : Copies]]
    /\ patched \in [Targets -> {"none", "long", "short"}]

Once == \A i, j \in DOMAIN hooks : hooks[i].target = hooks[j].target => i = j
Own == \A i \in DOMAIN hooks : text[hooks[i].slot].target = hooks[i].target
InUse == \A i \in DOMAIN pages : pages[i].used > 0
Held == \A s \in Slots : OccupiedIn(pages, s) <=> \E i \in DOMAIN hooks : hooks[i].slot = s
Jumps == \A tg \in Targets :
            patched[tg] # "none" <=> \E i \in DOMAIN hooks : hooks[i].target = tg /\ hooks[i].isEnabled

\* What the call in progress has still to patch is in the table, and it removes
\* only what it has disabled.
Pending == ~Free =>
    /\ call \in CallRec /\ call.todo \subseteq DOMAIN hooks /\ call.todo \subseteq DOMAIN call.enable
    /\ call.fn \in {"remove", "uninitialize"} => \A i \in call.todo : ~call.enable[i]
    /\ call.fn = "remove" => /\ call.pos \in DOMAIN hooks
                             /\ hooks[call.pos].isEnabled => call.pos \in call.todo
    /\ call.fn = "uninitialize" => \A i \in DOMAIN hooks : hooks[i].isEnabled => i \in call.todo

Books == TableTypes /\ Once /\ Own /\ InUse /\ Sized(pages) /\ Held /\ Jumps
TablesIInv == Books /\ Pending

LEMMA HooksAre ==
  ASSUME TableTypes
  PROVE  /\ DOMAIN hooks = 1 .. Len(hooks) /\ Len(hooks) \in Nat
         /\ \A i \in DOMAIN hooks : /\ hooks[i] \in EntryRec /\ i \in Nat
                                    /\ hooks[i].target \in Targets /\ hooks[i].slot \in Slots
                                    /\ hooks[i].isEnabled \in BOOLEAN
<1>1. DOMAIN hooks = 1 .. Len(hooks) /\ Len(hooks) \in Nat /\ \A i \in 1 .. Len(hooks) : hooks[i] \in EntryRec
  BY LenProperties, ElementOfSeq DEF TableTypes
<1>2. QED
  BY <1>1 DEF EntryRec

\* No two entries have a slot in common, since a slot is of one function.
LEMMA SlotsApart ==
  ASSUME Books
  PROVE  \A i, j \in DOMAIN hooks : hooks[i].slot = hooks[j].slot => i = j
BY DEF Books, Own, Once

\* A step that leaves the tables alone.
LEMMA BooksKept ==
  ASSUME Books, UNCHANGED <<code, hooks, pages, text, patched>>
  PROVE  Books'
BY DEF Books, TableTypes, Once, Own, InUse, Sized, Held, OccupiedIn, Jumps

\* Queueing keeps what an entry says about its function, its slot and its jump.
LEMMA EntriesRenewed ==
  ASSUME Books, hooks' \in Seq(EntryRec), DOMAIN hooks' = DOMAIN hooks,
         \A i \in DOMAIN hooks : /\ hooks'[i].target = hooks[i].target /\ hooks'[i].slot = hooks[i].slot
                                 /\ hooks'[i].isEnabled = hooks[i].isEnabled,
         UNCHANGED <<code, pages, text, patched>>
  PROVE  Books'
<1>1. TableTypes' /\ InUse' /\ Sized(pages)'
  BY DEF Books, TableTypes, InUse, Sized
<1>2. Once' /\ Own' /\ Jumps'
  BY DEF Books, Once, Own, Jumps
<1>3. Held'
  BY DEF Books, Held, OccupiedIn
<1>4. QED
  BY <1>1, <1>2, <1>3 DEF Books

LEMMA QueueBooks ==
  ASSUME Books, NEW tgs, NEW enable \in BOOLEAN, QueueHook(tgs, enable)
  PROVE  Books'
<1>1. hooks' = [i \in DOMAIN hooks |->
                   IF hooks[i].target \in tgs THEN [hooks[i] EXCEPT !.queueEnable = enable] ELSE hooks[i]]
  BY DEF QueueHook
<1>2. /\ DOMAIN hooks = 1 .. Len(hooks) /\ Len(hooks) \in Nat
      /\ \A i \in DOMAIN hooks : hooks[i] \in EntryRec
  BY HooksAre DEF Books
<1>3. ASSUME NEW i \in DOMAIN hooks
      PROVE  /\ hooks'[i] \in EntryRec
             /\ hooks'[i].target = hooks[i].target /\ hooks'[i].slot = hooks[i].slot
             /\ hooks'[i].isEnabled = hooks[i].isEnabled
  <2>1. PICK h \in EntryRec : h = hooks[i]
    BY <1>2
  <2>2. /\ [h EXCEPT !.queueEnable = enable] \in EntryRec
        /\ [h EXCEPT !.queueEnable = enable].target = h.target
        /\ [h EXCEPT !.queueEnable = enable].slot = h.slot
        /\ [h EXCEPT !.queueEnable = enable].isEnabled = h.isEnabled
    BY DEF EntryRec
  <2>3. hooks'[i] = IF h.target \in tgs THEN [h EXCEPT !.queueEnable = enable] ELSE h
    BY <1>1, <2>1
  <2>4. QED
    BY <2>1, <2>2, <2>3
<1>4. hooks' \in Seq(EntryRec) /\ DOMAIN hooks' = DOMAIN hooks
  <2>1. DOMAIN hooks' = 1 .. Len(hooks)
    BY <1>1, <1>2
  <2>2. hooks' \in [1 .. Len(hooks) -> EntryRec]
    BY <1>1, <1>2, <1>3, <2>1
  <2>3. QED
    BY <1>2, <2>1, <2>2, SeqDef
<1>5. QED
  BY <1>3, <1>4, EntriesRenewed DEF QueueHook

\* MH_CreateHook.
LEMMA RoomIs ==
  ASSUME Books, NEW b \in Blocks, pages = WithRoom(b) \/ b \in Unallocated, NEW room, room = WithRoom(b)
  PROVE  /\ room \in Seq(PageRec) /\ Sized(room) /\ \E i \in DOMAIN room : room[i].free # <<>>
         /\ \A j \in DOMAIN room : j # FirstFree(room) => room[j].used > 0
         /\ \A s \in Slots : OccupiedIn(room, s) <=> OccupiedIn(pages, s)
<1>0. pages \in Seq(PageRec) /\ Sized(pages) /\ InUse
  BY DEF Books, TableTypes
<1>1. CASE \E i \in DOMAIN pages : pages[i].free # <<>>
  <2>1. room = pages
    BY <1>1 DEF WithRoom
  <2>2. QED
    BY <1>0, <1>1, <2>1 DEF InUse
<1>2. CASE ~\E i \in DOMAIN pages : pages[i].free # <<>>
  <2>1. PICK all : all = [i \in 1 .. SLOTS |-> SLOTS + 1 - i]
    OBVIOUS
  <2>2. PICK p : p = [id |-> b, free |-> all, used |-> 0]
    OBVIOUS
  <2>3. room = <<p>> \o pages
    BY <1>2, <2>1, <2>2 DEF WithRoom
  <2>4. SLOTS \in Nat /\ SLOTS > 0
    BY SizesAssumption
  <2>5. /\ all \in Seq(1 .. SLOTS) /\ IsInjective(all) /\ Len(all) = SLOTS /\ all # <<>>
        /\ Range(all) = 1 .. SLOTS
    <3>1. \A i \in 1 .. SLOTS : SLOTS + 1 - i \in 1 .. SLOTS
      BY <2>4
    <3>2. all \in [1 .. SLOTS -> 1 .. SLOTS]
      BY <2>1, <3>1
    <3>3. all \in Seq(1 .. SLOTS) /\ Len(all) = SLOTS
      BY <2>4, <3>2, SeqDef
    <3>4. IsInjective(all)
      <4> SUFFICES ASSUME NEW i \in 1 .. SLOTS, NEW j \in 1 .. SLOTS, all[i] = all[j] PROVE i = j
        BY <3>2 DEF IsInjective
      <4>1. SLOTS + 1 - i = SLOTS + 1 - j
        BY <2>1
      <4>2. QED
        BY <2>4, <4>1
    <3>5. Range(all) = 1 .. SLOTS
      BY <3>3, <3>4, SlotsCounted
    <3>6. all # <<>>
      BY <2>4, <3>3
    <3>7. QED
      BY <3>3, <3>4, <3>5, <3>6
  <2>6. p \in PageRec /\ p.id = b /\ p.free = all /\ p.used = 0
    BY <2>2, <2>5 DEF PageRec
  <2>7. DOMAIN pages = 1 .. Len(pages) /\ Len(pages) \in Nat
    BY <1>0, LenProperties
  <2>8. /\ room \in Seq(PageRec) /\ DOMAIN room = 1 .. Len(pages) + 1 /\ room[1] = p
        /\ \A j \in DOMAIN pages : room[j + 1] = pages[j]
    <3>1. <<p>> \in Seq(PageRec) /\ Len(<<p>>) = 1 /\ <<p>>[1] = p
      BY <2>6
    <3>2. /\ room \in Seq(PageRec) /\ Len(room) = 1 + Len(pages)
          /\ \A k \in 1 .. 1 + Len(pages) : room[k] = IF k <= 1 THEN <<p>>[k] ELSE pages[k - 1]
      BY <1>0, <2>3, <3>1, ConcatProperties
    <3>3. DOMAIN room = 1 .. Len(pages) + 1
      BY <2>7, <3>2, LenProperties
    <3>4. room[1] = p
      BY <2>7, <3>1, <3>2
    <3>5. ASSUME NEW j \in DOMAIN pages PROVE room[j + 1] = pages[j]
      <4>1. j + 1 \in 1 .. 1 + Len(pages) /\ ~(j + 1 <= 1) /\ (j + 1) - 1 = j
        BY <2>7
      <4>2. QED
        BY <3>2, <4>1
    <3>6. QED
      BY <3>2, <3>3, <3>4, <3>5
  <2>9. /\ \A k \in DOMAIN room : k = 1 \/ \E j \in DOMAIN pages : k = j + 1 /\ room[k] = pages[j]
        /\ 1 \in DOMAIN room /\ \A j \in DOMAIN pages : j + 1 \in DOMAIN room
    <3>1. ASSUME NEW k \in DOMAIN room, k # 1
          PROVE  \E j \in DOMAIN pages : k = j + 1 /\ room[k] = pages[j]
      <4>1. k - 1 \in DOMAIN pages /\ k = (k - 1) + 1
        BY <2>7, <2>8, <3>1
      <4>2. QED
        BY <2>8, <4>1
    <3>2. QED
      BY <2>7, <2>8, <3>1
  <2>10. \A j \in DOMAIN pages : pages[j].id # b
    <3>1. pages # room
      BY <1>2, <2>5, <2>6, <2>8, <2>9
    <3>2. QED
      BY <3>1 DEF Unallocated
  <2>11. Sized(room)
    <3>1. ASSUME NEW k \in DOMAIN room, NEW l \in DOMAIN room, room[k].id = room[l].id PROVE k = l
      <4>1. room[1].id = b /\ \A i \in DOMAIN room : i # 1 => room[i].id # b
        BY <2>6, <2>8, <2>9, <2>10
      <4>2. CASE k = 1 \/ l = 1
        BY <3>1, <4>1, <4>2
      <4>3. CASE k # 1 /\ l # 1
        <5>1. PICK i \in DOMAIN pages : k = i + 1 /\ room[k] = pages[i]
          BY <2>9, <4>3
        <5>2. PICK j \in DOMAIN pages : l = j + 1 /\ room[l] = pages[j]
          BY <2>9, <4>3
        <5>3. i = j
          BY <1>0, <3>1, <5>1, <5>2 DEF Sized
        <5>4. QED
          BY <5>1, <5>2, <5>3
      <4>4. QED
        BY <4>2, <4>3
    <3>2. ASSUME NEW k \in DOMAIN room
          PROVE  IsInjective(room[k].free) /\ room[k].used = SLOTS - Len(room[k].free)
      <4>1. CASE k = 1
        BY <2>4, <2>5, <2>6, <2>8, <4>1
      <4>2. CASE k # 1
        <5>1. PICK j \in DOMAIN pages : room[k] = pages[j]
          BY <2>9, <4>2
        <5>2. IsInjective(pages[j].free) /\ pages[j].used = SLOTS - Len(pages[j].free)
          BY <1>0 DEF Sized
        <5>3. QED
          BY <5>1, <5>2
      <4>3. QED
        BY <4>1, <4>2
    <3>3. QED
      BY <3>1, <3>2 DEF Sized
  <2>12. FirstFree(room) = 1
    <3>1. \E i \in DOMAIN room : room[i].free # <<>>
      BY <2>5, <2>6, <2>8, <2>9
    <3>2. FirstFree(room) \in DOMAIN room /\ room[FirstFree(room)].free # <<>>
      BY <2>8, <3>1, FirstFreeIs
    <3>3. QED
      BY <1>2, <2>9, <3>2
  <2>13. \A j \in DOMAIN room : j # FirstFree(room) => room[j].used > 0
    BY <1>0, <2>9, <2>12 DEF InUse
  <2>14. ASSUME NEW s \in Slots PROVE OccupiedIn(room, s) <=> OccupiedIn(pages, s)
    <3>1. ASSUME OccupiedIn(room, s) PROVE OccupiedIn(pages, s)
      <4>1. PICK i \in DOMAIN room : /\ room[i].id = s[1] /\ s[2] \in 1 .. SLOTS
                                     /\ s[2] \notin Range(room[i].free)
        BY <3>1 DEF OccupiedIn
      <4>2. i # 1
        BY <2>5, <2>6, <2>8, <4>1
      <4>3. PICK j \in DOMAIN pages : room[i] = pages[j]
        BY <2>9, <4>2
      <4>4. QED
        BY <4>1, <4>3 DEF OccupiedIn
    <3>2. ASSUME OccupiedIn(pages, s) PROVE OccupiedIn(room, s)
      <4>1. PICK j \in DOMAIN pages : /\ pages[j].id = s[1] /\ s[2] \in 1 .. SLOTS
                                      /\ s[2] \notin Range(pages[j].free)
        BY <3>2 DEF OccupiedIn
      <4>2. j + 1 \in DOMAIN room /\ room[j + 1] = pages[j]
        BY <2>8, <2>9
      <4>3. QED
        BY <4>1, <4>2 DEF OccupiedIn
    <3>3. QED
      BY <3>1, <3>2
  <2>15. \E i \in DOMAIN room : room[i].free # <<>>
    BY <2>5, <2>6, <2>8, <2>9
  <2>16. QED
    BY <2>8, <2>11, <2>13, <2>14, <2>15
<1>3. QED
  BY <1>1, <1>2
\* The tables after MH_CreateHook: entry h, at position N, has got the slot at place.
Creates(tg, place, h, N) ==
    /\ pages' \in Seq(PageRec) /\ Sized(pages') /\ \A j \in DOMAIN pages' : pages'[j].used > 0
    /\ \A s \in Slots : OccupiedIn(pages', s) <=> OccupiedIn(pages, s) \/ s = place
    /\ UNCHANGED <<code, patched>>
    /\ text' = [text EXCEPT ![place] = [target |-> tg, ips |-> h.ips]]
    /\ orig' = [orig EXCEPT ![tg] = place]
    /\ h.target = tg /\ h.slot = place /\ ~h.isEnabled
    /\ h.ips = Shape(tg).ips /\ h.patchAbove = Shape(tg).patchAbove
    /\ hooks' \in Seq(EntryRec) /\ DOMAIN hooks' = DOMAIN hooks \cup {N} /\ hooks'[N] = h
    /\ \A i \in DOMAIN hooks : /\ hooks'[i] = hooks[i] /\ i # N
                               /\ hooks[i].target # tg /\ hooks[i].slot # place

LEMMA EntryCreated ==
  ASSUME Books, NEW tg \in Targets, NEW b \in Blocks, MH_CreateHook(tg, b)
  PROVE  \E place \in Slots, h \in EntryRec, N \in Nat : Creates(tg, place, h, N)
<1>1. PICK room : room = WithRoom(b)
  OBVIOUS
<1>2. PICK k : k = FirstFree(room)
  OBVIOUS
<1>3. PICK place : place = <<room[k].id, Head(room[k].free)>>
  OBVIOUS
<1>4. /\ room \in Seq(PageRec) /\ Sized(room) /\ \E i \in DOMAIN room : room[i].free # <<>>
      /\ \A j \in DOMAIN room : j # k => room[j].used > 0
      /\ \A s \in Slots : OccupiedIn(room, s) <=> OccupiedIn(pages, s)
  BY <1>1, <1>2, RoomIs DEF MH_CreateHook
<1>5. /\ place \in Slots /\ ~OccupiedIn(room, place)
      /\ AllocateBuffer(room) \in Seq(PageRec) /\ Sized(AllocateBuffer(room))
      /\ \A j \in DOMAIN AllocateBuffer(room) : AllocateBuffer(room)[j].used > 0
      /\ \A s \in Slots : OccupiedIn(AllocateBuffer(room), s) <=> OccupiedIn(room, s) \/ s = place
  BY <1>2, <1>3, <1>4, AllocateIs
<1>6. /\ pages' = AllocateBuffer(room) /\ UNCHANGED <<code, patched>>
      /\ text' = [text EXCEPT ![place] = [target |-> tg, ips |-> Shape(tg).ips]]
      /\ orig' = [orig EXCEPT ![tg] = place]
      /\ AddEntry(tg, place) /\ Entries(tg) = {}
  BY <1>1, <1>2, <1>3 DEF MH_CreateHook
<1>7. PICK h : h = [target |-> tg, slot |-> place, isEnabled |-> FALSE, queueEnable |-> FALSE,
                    patchAbove |-> Shape(tg).patchAbove, ips |-> Shape(tg).ips]
  OBVIOUS
<1>8. /\ code[tg] \in Program /\ hooks \in Seq(EntryRec) /\ TableTypes
  BY DEF Books, TableTypes
<1>9. Shape(tg).ips \in Copies /\ Shape(tg).patchAbove \in Aboves
  BY <1>8 DEF Shape, Copies, Aboves
<1>10. /\ h \in EntryRec /\ h.target = tg /\ h.slot = place /\ h.isEnabled = FALSE
       /\ h.ips = Shape(tg).ips /\ h.patchAbove = Shape(tg).patchAbove
  BY <1>5, <1>7, <1>9 DEF EntryRec
<1>11. hooks' = Append(hooks, h)
  BY <1>6, <1>7 DEF AddEntry
<1>12. /\ DOMAIN hooks = 1 .. Len(hooks) /\ Len(hooks) \in Nat
       /\ \A i \in DOMAIN hooks : hooks[i].target \in Targets /\ hooks[i].slot \in Slots
  BY <1>8, HooksAre
<1>13. PICK N : N = Len(hooks) + 1
  OBVIOUS
<1>14. /\ hooks' \in Seq(EntryRec) /\ DOMAIN hooks' = DOMAIN hooks \cup {N} /\ hooks'[N] = h
       /\ \A i \in DOMAIN hooks : hooks'[i] = hooks[i] /\ i # N
  <2>1. /\ hooks' \in Seq(EntryRec) /\ Len(hooks') = Len(hooks) + 1
        /\ \A i \in 1 .. Len(hooks) : hooks'[i] = hooks[i]
        /\ hooks'[Len(hooks) + 1] = h
    BY <1>8, <1>10, <1>11, AppendProperties
  <2>2. DOMAIN hooks' = 1 .. Len(hooks) + 1
    BY <2>1, LenProperties
  <2>3. QED
    BY <1>12, <1>13, <2>1, <2>2
<1>15. \A i \in DOMAIN hooks : hooks[i].target # tg /\ hooks[i].slot # place
  <2>1. \A i \in DOMAIN hooks : hooks[i].target # tg
    BY <1>6 DEF Entries
  <2>2. \A i \in DOMAIN hooks : OccupiedIn(pages, hooks[i].slot)
    BY <1>12 DEF Books, Held
  <2>3. QED
    BY <1>4, <1>5, <1>12, <2>1, <2>2
<1>16. /\ pages' \in Seq(PageRec) /\ Sized(pages') /\ \A j \in DOMAIN pages' : pages'[j].used > 0
       /\ \A s \in Slots : OccupiedIn(pages', s) <=> OccupiedIn(pages, s) \/ s = place
  BY <1>4, <1>5, <1>6
<1>17. text' = [text EXCEPT ![place] = [target |-> tg, ips |-> h.ips]]
  BY <1>6, <1>10
<1>18. place \in Slots /\ h \in EntryRec /\ N \in Nat
  BY <1>5, <1>10, <1>12, <1>13
<1>19. /\ UNCHANGED <<code, patched>> /\ orig' = [orig EXCEPT ![tg] = place]
       /\ h.target = tg /\ h.slot = place /\ ~h.isEnabled
       /\ h.ips = Shape(tg).ips /\ h.patchAbove = Shape(tg).patchAbove
  BY <1>6, <1>10
<1>20. QED
  BY <1>14, <1>15, <1>16, <1>17, <1>18, <1>19 DEF Creates

LEMMA CreateBooks ==
  ASSUME Books, NEW tg \in Targets, NEW b \in Blocks, MH_CreateHook(tg, b)
  PROVE  Books'
<1>10. PICK place \in Slots, h \in EntryRec, N \in Nat : Creates(tg, place, h, N)
  BY EntryCreated
<1>1. /\ pages' \in Seq(PageRec) /\ Sized(pages') /\ \A j \in DOMAIN pages' : pages'[j].used > 0
      /\ \A s \in Slots : OccupiedIn(pages', s) <=> OccupiedIn(pages, s) \/ s = place
      /\ UNCHANGED <<code, patched>>
      /\ text' = [text EXCEPT ![place] = [target |-> tg, ips |-> h.ips]]
      /\ h.target = tg /\ h.slot = place /\ ~h.isEnabled
      /\ hooks' \in Seq(EntryRec) /\ DOMAIN hooks' = DOMAIN hooks \cup {N} /\ hooks'[N] = h
      /\ \A i \in DOMAIN hooks : /\ hooks'[i] = hooks[i] /\ i # N
                                 /\ hooks[i].target # tg /\ hooks[i].slot # place
  BY <1>10 DEF Creates
<1>2. /\ TableTypes /\ h.ips \in Copies
      /\ \A i \in DOMAIN hooks : hooks[i].target \in Targets /\ hooks[i].slot \in Slots
  <2>1. h.ips \in Copies
    BY DEF EntryRec
  <2>2. QED
    BY <2>1, HooksAre DEF Books
<1>3. TableTypes' /\ InUse' /\ Sized(pages)'
  <2>1. text' \in [Slots -> [target : Targets \cup {"none"}, ips : Copies]]
    BY <1>1, <1>2 DEF TableTypes
  <2>2. Sized(pages)'
    BY <1>1 DEF Sized
  <2>3. QED
    BY <1>1, <1>2, <2>1, <2>2 DEF TableTypes, InUse
<1>4. Once'
  BY <1>1 DEF Books, Once
<1>5. Own'
  <2>1. text'[place].target = tg /\ \A s \in Slots : s # place => text'[s] = text[s]
    BY <1>1, <1>2 DEF TableTypes
  <2>2. QED
    BY <1>1, <1>2, <2>1 DEF Books, Own
<1>6. Held'
  <2>1. \A s \in Slots : (\E i \in DOMAIN hooks' : hooks'[i].slot = s)
                            <=> (\E i \in DOMAIN hooks : hooks[i].slot = s) \/ s = place
    BY <1>1
  <2>2. \A s \in Slots : OccupiedIn(pages', s) <=> \E i \in DOMAIN hooks' : hooks'[i].slot = s
    BY <1>1, <2>1 DEF Books, Held
  <2>3. QED
    BY <2>2 DEF Held, OccupiedIn
<1>7. Jumps'
  BY <1>1 DEF Books, Jumps
<1>8. QED
  BY <1>3, <1>4, <1>5, <1>6, <1>7 DEF Books

\* DeleteHookEntry moves the last entry to the place of the one it deletes.
LEMMA EntryDeleted ==
  ASSUME TableTypes, NEW pos \in DOMAIN hooks, NEW new, new = DeleteHookEntry(pos)
  PROVE  /\ new \in Seq(EntryRec)
         /\ \A j \in DOMAIN new : \E i \in DOMAIN hooks \ {pos} : new[j] = hooks[i]
         /\ \A i \in DOMAIN hooks \ {pos} : \E j \in DOMAIN new : new[j] = hooks[i]
         /\ Once => \A a, b \in DOMAIN new : new[a].target = new[b].target => a = b
<1>1. /\ DOMAIN hooks = 1 .. Len(hooks) /\ Len(hooks) \in Nat /\ hooks \in Seq(EntryRec)
      /\ pos \in 1 .. Len(hooks)
      /\ \A i \in DOMAIN hooks : hooks[i] \in EntryRec
  BY HooksAre DEF TableTypes
<1>2. PICK n : n = Len(hooks)
  OBVIOUS
<1>3. n \in Nat /\ n > 0 /\ n \in DOMAIN hooks /\ DOMAIN hooks = 1 .. n
  BY <1>1, <1>2
<1>4. PICK moved : moved = [hooks EXCEPT ![pos] = hooks[n]]
  OBVIOUS
<1>5. /\ moved \in Seq(EntryRec) /\ Len(moved) = n /\ moved[pos] = hooks[n]
      /\ \A i \in DOMAIN hooks : i # pos => moved[i] = hooks[i]
  BY <1>1, <1>2, <1>3, <1>4, ExceptSeq
<1>7. new = RemoveAt(moved, n)
  BY <1>2, <1>4 DEF DeleteHookEntry
<1>8. /\ new \in Seq(EntryRec) /\ Len(new) = n - 1
      /\ \A j \in 1 .. n - 1 : new[j] = IF j < n THEN moved[j] ELSE moved[j + 1]
  <2>1. n \in 1 .. Len(moved) /\ Len(moved) = n
    BY <1>3, <1>5
  <2>2. /\ RemoveAt(moved, n) \in Seq(EntryRec) /\ Len(RemoveAt(moved, n)) = Len(moved) - 1
        /\ \A j \in 1 .. Len(moved) - 1 :
              RemoveAt(moved, n)[j] = IF j < n THEN moved[j] ELSE moved[j + 1]
    BY <1>5, <2>1, RemovedAt
  <2>3. QED
    BY <1>7, <2>1, <2>2
<1>9. DOMAIN new = 1 .. n - 1 /\ \A j \in 1 .. n - 1 : new[j] = moved[j]
  BY <1>3, <1>8, LenProperties
<1> DEFINE from(j) == IF j = pos THEN n ELSE j
<1>10. /\ \A j \in DOMAIN new : from(j) \in DOMAIN hooks \ {pos} /\ new[j] = hooks[from(j)]
       /\ \A a, b \in DOMAIN new : from(a) = from(b) => a = b
       /\ \A i \in DOMAIN hooks \ {pos} : \E j \in DOMAIN new : from(j) = i
  <2>1. \A j \in DOMAIN new : from(j) \in DOMAIN hooks \ {pos} /\ new[j] = hooks[from(j)]
    BY <1>3, <1>5, <1>9
  <2>2. \A a, b \in DOMAIN new : from(a) = from(b) => a = b
    BY <1>3, <1>9
  <2>3. ASSUME NEW i \in DOMAIN hooks \ {pos} PROVE \E j \in DOMAIN new : from(j) = i
    <3>1. CASE i = n
      <4>1. pos \in DOMAIN new /\ from(pos) = i
        BY <1>1, <1>2, <1>3, <1>9, <3>1
      <4>2. QED
        BY <4>1
    <3>2. CASE i # n
      <4>1. i \in DOMAIN new /\ from(i) = i
        BY <1>3, <1>9, <3>2
      <4>2. QED
        BY <4>1
    <3>3. QED
      BY <3>1, <3>2
  <2>4. QED
    BY <2>1, <2>2, <2>3
<1> HIDE DEF from
<1>11. /\ \A j \in DOMAIN new : \E i \in DOMAIN hooks \ {pos} : new[j] = hooks[i]
       /\ \A i \in DOMAIN hooks \ {pos} : \E j \in DOMAIN new : new[j] = hooks[i]
  BY <1>10
<1>12. ASSUME NEW a \in DOMAIN new, NEW b \in DOMAIN new, Once, new[a].target = new[b].target
       PROVE  a = b
  <2>1. from(a) \in DOMAIN hooks /\ from(b) \in DOMAIN hooks
    BY <1>10
  <2>2. hooks[from(a)].target = hooks[from(b)].target
    BY <1>10, <1>12
  <2>3. from(a) = from(b)
    BY <1>12, <2>1, <2>2 DEF Once
  <2>4. QED
    BY <1>10, <2>3
<1>13. QED
  BY <1>8, <1>11, <1>12

\* An entry without its jump goes, and its slot with it.
LEMMA DeleteBooks ==
  ASSUME Books, NEW pos \in DOMAIN hooks, ~hooks[pos].isEnabled, Delete(pos), UNCHANGED <<code, patched>>
  PROVE  Books'
<1>1. PICK place : place = hooks[pos].slot
  OBVIOUS
<1>2. TableTypes /\ place \in Slots /\ pages \in Seq(PageRec) /\ Sized(pages) /\ InUse
  BY <1>1, HooksAre DEF Books, TableTypes
<1>3. OccupiedIn(pages, place)
  BY <1>1, <1>2 DEF Books, Held
<1>4. /\ pages' \in Seq(PageRec) /\ Sized(pages')
      /\ \A j \in DOMAIN pages' : pages'[j].used > 0
      /\ \A s \in Slots : OccupiedIn(pages', s) <=> OccupiedIn(pages, s) /\ s # place
  <2>1. pages' = FreeBuffer(pages, place)
    BY <1>1 DEF Delete
  <2>2. \A j \in DOMAIN pages : pages[j].used > 0
    BY <1>2 DEF InUse
  <2>3. QED
    BY <1>2, <1>3, <2>1, <2>2, FreeIs
<1>5. /\ hooks' \in Seq(EntryRec)
      /\ \A j \in DOMAIN hooks' : \E i \in DOMAIN hooks \ {pos} : hooks'[j] = hooks[i]
      /\ \A i \in DOMAIN hooks \ {pos} : \E j \in DOMAIN hooks' : hooks'[j] = hooks[i]
      /\ Once => \A a, b \in DOMAIN hooks' : hooks'[a].target = hooks'[b].target => a = b
  <2>1. PICK new : new = DeleteHookEntry(pos)
    OBVIOUS
  <2>20. TableTypes /\ pos \in DOMAIN hooks
    BY <1>2
  <2>21. new \in Seq(EntryRec)
    BY <2>20, <2>1, EntryDeleted
  <2>22. \A j \in DOMAIN new : \E i \in DOMAIN hooks \ {pos} : new[j] = hooks[i]
    BY <2>20, <2>1, EntryDeleted
  <2>23. \A i \in DOMAIN hooks \ {pos} : \E j \in DOMAIN new : new[j] = hooks[i]
    BY <2>20, <2>1, EntryDeleted
  <2>24. Once => \A a, b \in DOMAIN new : new[a].target = new[b].target => a = b
    BY <2>20, <2>1, EntryDeleted
  <2>2. /\ new \in Seq(EntryRec)
        /\ \A j \in DOMAIN new : \E i \in DOMAIN hooks \ {pos} : new[j] = hooks[i]
        /\ \A i \in DOMAIN hooks \ {pos} : \E j \in DOMAIN new : new[j] = hooks[i]
        /\ Once => \A a, b \in DOMAIN new : new[a].target = new[b].target => a = b
    BY <2>21, <2>22, <2>23, <2>24
  <2>3. hooks' = new
    BY <2>1 DEF Delete
  <2>4. QED
    BY <2>2, <2>3
<1>6. text' = [text EXCEPT ![place] = Nothing]
  BY <1>1 DEF Delete
<1>7. TableTypes' /\ InUse' /\ Sized(pages)'
  <2>1. Nothing \in [target : Targets \cup {"none"}, ips : Copies]
    BY DEF Nothing, Copies
  <2>2. text' \in [Slots -> [target : Targets \cup {"none"}, ips : Copies]]
    BY <1>2, <1>6, <2>1 DEF TableTypes
  <2>3. Sized(pages)'
    BY <1>4 DEF Sized
  <2>4. QED
    BY <1>2, <1>4, <1>5, <2>2, <2>3 DEF TableTypes, InUse
<1>8. Once'
  BY <1>5 DEF Books, Once
<1>9. \A i \in DOMAIN hooks \ {pos} : hooks[i].slot # place /\ hooks[i].slot \in Slots
  BY <1>1, <1>2, SlotsApart, HooksAre
<1>10. Own'
  <2>1. \A s \in Slots : s # place => text'[s] = text[s]
    BY <1>2, <1>6 DEF TableTypes
  <2>2. \A i \in DOMAIN hooks \ {pos} : text'[hooks[i].slot].target = hooks[i].target
    BY <1>9, <2>1 DEF Books, Own
  <2>3. QED
    BY <1>5, <2>2 DEF Own
<1>11. Held'
  <2>1. ASSUME NEW s \in Slots
        PROVE  (\E j \in DOMAIN hooks' : hooks'[j].slot = s)
                  <=> (\E i \in DOMAIN hooks : hooks[i].slot = s) /\ s # place
    BY <1>1, <1>5, <1>9
  <2>2. \A s \in Slots : OccupiedIn(pages', s) <=> \E i \in DOMAIN hooks' : hooks'[i].slot = s
    BY <1>4, <2>1 DEF Books, Held
  <2>3. QED
    BY <2>2 DEF Held, OccupiedIn
<1>12. Jumps'
  <2>1. ASSUME NEW tg \in Targets
        PROVE  (\E j \in DOMAIN hooks' : hooks'[j].target = tg /\ hooks'[j].isEnabled)
                  <=> (\E i \in DOMAIN hooks : hooks[i].target = tg /\ hooks[i].isEnabled)
    BY <1>5
  <2>2. QED
    BY <2>1 DEF Books, Jumps
<1>13. QED
  BY <1>7, <1>8, <1>10, <1>11, <1>12 DEF Books

\* MH_Uninitialize, once no function has a jump.
LEMMA DeleteAllBooks ==
  ASSUME Books, \A i \in DOMAIN hooks : ~hooks[i].isEnabled, DeleteAll, UNCHANGED <<code, patched>>
  PROVE  Books'
<1>1. hooks' = <<>> /\ pages' = <<>> /\ text' = [s \in Slots |-> Nothing]
  BY DEF DeleteAll
<1>2. DOMAIN hooks' = {} /\ DOMAIN pages' = {}
  BY <1>1
<1>3. TableTypes'
  <2>1. Nothing \in [target : Targets \cup {"none"}, ips : Copies]
    BY DEF Nothing, Copies
  <2>2. <<>> \in Seq(EntryRec) /\ <<>> \in Seq(PageRec)
    BY EmptySeq
  <2>3. QED
    BY <1>1, <2>1, <2>2 DEF Books, TableTypes
<1>4. Once' /\ Own' /\ InUse' /\ Sized(pages)' /\ Held'
  BY <1>2 DEF Once, Own, InUse, Sized, Held, OccupiedIn
<1>5. Jumps'
  BY <1>2 DEF Books, Jumps
<1>6. QED
  BY <1>3, <1>4, <1>5 DEF Books

-----------------------------------------------------------------------------
(* A call that patches.                                                     *)

\* The entry that is next is one of those the call has still to patch.
LEMMA NextIs ==
  ASSUME call \in CallRec, call.todo # {}
  PROVE  NextEntry \in call.todo
<1>1. PICK todo : todo = call.todo
  OBVIOUS
<1>2. todo \in SUBSET Nat /\ todo # {}
  BY <1>1 DEF CallRec
<1>3. PICK i \in todo : \A j \in todo : <<j, i>> \notin OpToRel(<, Nat)
  BY <1>2, NatLessThanWellFounded, WFMin
<1>4. \A j \in todo : i <= j
  <2>1. \A j \in todo : ~(j < i)
    BY <1>2, <1>3, Zenon DEF OpToRel
  <2>2. QED
    BY <1>2, <2>1
<1>5. NextEntry = CHOOSE k \in todo : \A j \in todo : k <= j
  BY <1>1 DEF NextEntry
<1>6. NextEntry \in todo
  BY <1>4, <1>5
<1>7. QED
  BY <1>1, <1>6

\* EnableHookLL writes the jump of one function and the entry of the same function.
LEMMA PatchBooks ==
  ASSUME Books, Pending, Patch
  PROVE  Books' /\ Pending'
<1>1. /\ ~Free /\ call.todo # {} /\ call \in CallRec
      /\ call.todo \subseteq DOMAIN hooks /\ call.todo \subseteq DOMAIN call.enable
  BY DEF Patch, Pending
<1>2. PICK i : i = NextEntry
  OBVIOUS
<1>3. i \in call.todo /\ i \in DOMAIN hooks /\ i \in DOMAIN call.enable
  <2>1. NextEntry \in call.todo
    BY <1>1, NextIs
  <2>2. QED
    BY <1>1, <1>2, <2>1
<1>4. PICK enable \in BOOLEAN : enable = call.enable[i]
  <2>1. call.enable \in Switches
    BY <1>1 DEF CallRec
  <2>2. PICK S \in SUBSET Nat : call.enable \in [S -> BOOLEAN]
    BY <2>1 DEF Switches
  <2>3. call.enable[i] \in BOOLEAN
    BY <1>3, <2>2
  <2>4. QED
    BY <2>3
<1>5. PICK h \in EntryRec : h = hooks[i]
  BY <1>3, HooksAre DEF Books
<1>6. PICK g : g = [h EXCEPT !.isEnabled = enable, !.queueEnable = enable]
  OBVIOUS
<1>7. /\ g \in EntryRec /\ g.target = h.target /\ g.slot = h.slot
      /\ g.isEnabled = enable
  BY <1>4, <1>5, <1>6 DEF EntryRec
<1>8. hooks \in Seq(EntryRec) /\ DOMAIN hooks = 1 .. Len(hooks) /\ h.target \in Targets
  BY <1>5, HooksAre DEF Books, TableTypes, EntryRec
<1>9. hooks' = [hooks EXCEPT ![i] = g]
  <2>1. hooks' = [hooks EXCEPT ![i].isEnabled = enable, ![i].queueEnable = enable]
    BY <1>2, <1>4 DEF Patch
  <2>2. QED
    BY <1>3, <1>5, <1>6, <1>8, <2>1
<1>10. /\ hooks' \in Seq(EntryRec) /\ DOMAIN hooks' = DOMAIN hooks /\ hooks'[i] = g
       /\ \A j \in DOMAIN hooks : j # i => hooks'[j] = hooks[j]
  <2>1. PICK new : new = hooks'
    OBVIOUS
  <2>2. new \in Seq(EntryRec) /\ Len(new) = Len(hooks)
    BY <1>3, <1>7, <1>8, <1>9, <2>1, ExceptSeq
  <2>3. DOMAIN new = 1 .. Len(new)
    BY <2>2, LenProperties
  <2>4. QED
    BY <1>3, <1>8, <1>9, <2>1, <2>2, <2>3
<1>11. \A j \in DOMAIN hooks : hooks'[j].target = hooks[j].target /\ hooks'[j].slot = hooks[j].slot
  BY <1>5, <1>7, <1>10
<1>12. UNCHANGED <<code, heap, pages, text>>
  BY DEF Patch
<1>13. PICK jump \in {"none", "long", "short"} :
          patched' = [patched EXCEPT ![h.target] = jump] /\ (jump # "none" <=> enable)
  <2>1. patched' = [patched EXCEPT ![h.target] =
                       IF ~enable THEN "none" ELSE IF h.patchAbove THEN "short" ELSE "long"]
    BY <1>2, <1>4, <1>5 DEF Patch
  <2>2. PICK jump : jump = IF ~enable THEN "none" ELSE IF h.patchAbove THEN "short" ELSE "long"
    OBVIOUS
  <2>3. jump \in {"none", "long", "short"} /\ (jump # "none" <=> enable)
    BY <1>4, <2>2
  <2>4. QED
    BY <2>1, <2>2, <2>3
<1>14. TableTypes'
  BY <1>8, <1>10, <1>12, <1>13 DEF Books, TableTypes
<1>15. Once' /\ Own'
  BY <1>10, <1>11, <1>12 DEF Books, Once, Own
<1>16. InUse' /\ Sized(pages)'
  BY <1>12 DEF Books, InUse, Sized
<1>17. Held'
  BY <1>10, <1>11, <1>12 DEF Books, Held, OccupiedIn
<1>18. Jumps'
  <2>1. ASSUME NEW tg \in Targets, tg = h.target
        PROVE  patched'[tg] # "none" <=> \E j \in DOMAIN hooks' : hooks'[j].target = tg /\ hooks'[j].isEnabled
    <3>1. patched'[tg] # "none" <=> enable
      BY <1>13, <2>1 DEF Books, TableTypes
    <3>2. \A j \in DOMAIN hooks' : hooks'[j].target = tg <=> j = i
      BY <1>3, <1>5, <1>10, <1>11, <2>1 DEF Books, Once
    <3>3. hooks'[i].isEnabled = enable /\ i \in DOMAIN hooks'
      BY <1>3, <1>7, <1>10
    <3>4. QED
      BY <3>1, <3>2, <3>3
  <2>2. ASSUME NEW tg \in Targets, tg # h.target
        PROVE  patched'[tg] # "none" <=> \E j \in DOMAIN hooks' : hooks'[j].target = tg /\ hooks'[j].isEnabled
    <3>1. patched'[tg] = patched[tg]
      BY <1>13, <2>2 DEF Books, TableTypes
    <3>2. \A j \in DOMAIN hooks : hooks[j].target = tg => hooks'[j] = hooks[j]
      BY <1>5, <1>10, <2>2
    <3>3. (\E j \in DOMAIN hooks' : hooks'[j].target = tg /\ hooks'[j].isEnabled)
             <=> \E j \in DOMAIN hooks : hooks[j].target = tg /\ hooks[j].isEnabled
      BY <1>10, <1>11, <3>2
    <3>4. QED
      BY <3>1, <3>3 DEF Books, Jumps
  <2>3. QED
    BY <2>1, <2>2 DEF Jumps
<1>19. /\ call' \in CallRec /\ call'.todo = call.todo \ {i}
       /\ call'.fn = call.fn /\ call'.pos = call.pos /\ call'.enable = call.enable
  <2>1. call' = [call EXCEPT !.todo = call.todo \ {i}]
    BY <1>2 DEF Patch
  <2>2. PICK c \in CallRec : c = call
    BY <1>1
  <2>3. c.todo \ {i} \in SUBSET Nat
    BY <2>2 DEF CallRec
  <2>4. /\ [c EXCEPT !.todo = c.todo \ {i}] \in CallRec
        /\ [c EXCEPT !.todo = c.todo \ {i}].todo = c.todo \ {i}
        /\ [c EXCEPT !.todo = c.todo \ {i}].fn = c.fn
        /\ [c EXCEPT !.todo = c.todo \ {i}].pos = c.pos
        /\ [c EXCEPT !.todo = c.todo \ {i}].enable = c.enable
    BY <2>2, <2>3 DEF CallRec
  <2>5. QED
    BY <2>1, <2>2, <2>4
<1>20. call.fn \in {"remove", "uninitialize"} => ~hooks'[i].isEnabled
  BY <1>1, <1>3, <1>4, <1>7, <1>10 DEF Pending
<1>21. \A j \in DOMAIN hooks : j # i => hooks'[j].isEnabled = hooks[j].isEnabled
  BY <1>10
<1>22. Pending'
  <2>1. call'.todo \subseteq DOMAIN hooks' /\ call'.todo \subseteq DOMAIN call'.enable
    BY <1>1, <1>10, <1>19 DEF Pending
  <2>2. call'.fn \in {"remove", "uninitialize"} => \A j \in call'.todo : ~call'.enable[j]
    BY <1>1, <1>19 DEF Pending
  <2>3. call'.fn = "remove" => /\ call'.pos \in DOMAIN hooks'
                               /\ hooks'[call'.pos].isEnabled => call'.pos \in call'.todo
    BY <1>1, <1>10, <1>19, <1>20, <1>21 DEF Pending
  <2>4. call'.fn = "uninitialize" => \A j \in DOMAIN hooks' : hooks'[j].isEnabled => j \in call'.todo
    BY <1>1, <1>10, <1>19, <1>20, <1>21 DEF Pending
  <2>5. QED
    BY <1>19, <2>1, <2>2, <2>3, <2>4 DEF Pending
<1>23. QED
  BY <1>14, <1>15, <1>16, <1>17, <1>18, <1>22 DEF Books

\* What a call that is about to patch has to say for Pending to hold.
LEMMA FreezeBooks ==
  ASSUME Books, NEW fn \in {"set", "all", "apply", "remove", "uninitialize"}, NEW action \in Actions,
         NEW span \in SUBSET Nat, NEW todo \in SUBSET DOMAIN hooks, NEW enable \in Switches,
         todo \subseteq DOMAIN enable, NEW pos \in Nat,
         fn \in {"remove", "uninitialize"} => \A i \in todo : ~enable[i],
         fn = "remove" => pos \in DOMAIN hooks /\ pos \in todo,
         fn = "uninitialize" => \A i \in DOMAIN hooks : hooks[i].isEnabled => i \in todo,
         FreezeFor(fn, action, span, todo, enable, pos)
  PROVE  Books' /\ Pending'
<1>1. UNCHANGED <<code, hooks, pages, text, patched>>
  BY DEF FreezeFor, lib
<1>2. PICK c : c = call'
  OBVIOUS
<1>3. c = [fn |-> fn, action |-> action, span |-> span, todo |-> todo, enable |-> enable,
           pos |-> pos, scan |-> Threads, unmoved |-> {}]
  BY <1>2 DEF FreezeFor
<1>4. todo \in SUBSET Nat
  BY HooksAre DEF Books
<1>5. /\ c \in CallRec /\ c.todo = todo /\ c.enable = enable /\ c.fn = fn /\ c.pos = pos
  BY <1>3, <1>4 DEF CallRec
<1>6. Pending'
  BY <1>1, <1>2, <1>5 DEF Pending
<1>7. QED
  BY <1>1, <1>6, BooksKept

LEMMA SwitchesAre ==
  ASSUME TableTypes, NEW enable, NEW S \in SUBSET DOMAIN hooks, enable \in [S -> BOOLEAN]
  PROVE  enable \in Switches
BY HooksAre DEF Switches

LEMMA SetBooks ==
  ASSUME TablesIInv, NEW tg \in Targets, NEW enable \in BOOLEAN, EnableHook(tg, enable)
  PROVE  TablesIInv'
<1>1. PICK pos \in Entries(tg) :
         FreezeFor("set", "enable", {pos}, {pos}, [i \in {pos} |-> enable], pos)
  BY DEF EnableHook
<1>2. pos \in DOMAIN hooks /\ pos \in Nat
  BY HooksAre DEF Entries, TablesIInv, Books
<1>3. [i \in {pos} |-> enable] \in Switches /\ DOMAIN [i \in {pos} |-> enable] = {pos}
  <2>1. {pos} \in SUBSET DOMAIN hooks /\ TableTypes /\ [i \in {pos} |-> enable] \in [{pos} -> BOOLEAN]
    BY <1>2 DEF TablesIInv, Books
  <2>2. QED
    BY <2>1, SwitchesAre
<1>4. Books' /\ Pending'
  <2>1. PICK act : act = [i \in {pos} |-> enable]
    OBVIOUS
  <2>2. Books /\ "set" \in {"set", "all", "apply", "remove", "uninitialize"} /\ "enable" \in Actions
    BY DEF TablesIInv, Actions
  <2>3. {pos} \in SUBSET Nat /\ {pos} \in SUBSET DOMAIN hooks
    BY <1>2
  <2>4. act \in Switches /\ DOMAIN act = {pos} /\ {pos} \subseteq DOMAIN act
    BY <1>3, <2>1
  <2>5. FreezeFor("set", "enable", {pos}, {pos}, act, pos)
    BY <1>1, <2>1
  <2>6. QED
    BY <1>2, <2>2, <2>3, <2>4, <2>5, FreezeBooks
<1>5. QED
  BY <1>4 DEF TablesIInv

LEMMA AllBooks ==
  ASSUME TablesIInv, NEW fn \in {"all", "uninitialize"}, NEW enable \in BOOLEAN,
         fn = "uninitialize" => ~enable, EnableAllHooks(fn, enable)
  PROVE  TablesIInv'
<1>1. PICK todo, act, span, action :
         /\ todo = {i \in DOMAIN hooks : hooks[i].isEnabled # enable}
         /\ act = [i \in DOMAIN hooks |-> enable] /\ span = DOMAIN hooks
         /\ action = IF enable THEN "enable" ELSE "disable"
  OBVIOUS
<1>2. FreezeFor(fn, action, span, todo, act, 0)
  BY <1>1 DEF EnableAllHooks, Differ
<1>3. Books /\ TableTypes
  BY DEF TablesIInv, Books
<1>4. action \in Actions /\ todo \in SUBSET DOMAIN hooks /\ span \in SUBSET Nat
  BY <1>1, <1>3, HooksAre DEF Actions
<1>5. act \in [DOMAIN hooks -> BOOLEAN] /\ DOMAIN act = DOMAIN hooks /\ \A i \in todo : act[i] = enable
  BY <1>1
<1>6. act \in Switches
  BY <1>3, <1>5, SwitchesAre
<1>7. fn = "uninitialize" => \A i \in DOMAIN hooks : hooks[i].isEnabled => i \in todo
  BY <1>1
<1>8. /\ fn \in {"set", "all", "apply", "remove", "uninitialize"} /\ fn # "remove" /\ 0 \in Nat
      /\ todo \subseteq DOMAIN act
      /\ fn \in {"remove", "uninitialize"} => \A i \in todo : ~act[i]
  BY <1>4, <1>5
<1>9. Books' /\ Pending'
  BY <1>2, <1>3, <1>4, <1>6, <1>7, <1>8, FreezeBooks
<1>10. QED
  BY <1>9 DEF TablesIInv

LEMMA ApplyBooks ==
  ASSUME TablesIInv, MH_ApplyQueued
  PROVE  TablesIInv'
<1>1. PICK todo, act, span :
         /\ todo = {i \in DOMAIN hooks : hooks[i].isEnabled # hooks[i].queueEnable}
         /\ act = [i \in DOMAIN hooks |-> hooks[i].queueEnable] /\ span = DOMAIN hooks
  OBVIOUS
<1>2. FreezeFor("apply", "apply queued", span, todo, act, 0)
  BY <1>1 DEF MH_ApplyQueued, Differ
<1>3. Books /\ TableTypes
  BY DEF TablesIInv, Books
<1>4. "apply queued" \in Actions /\ todo \in SUBSET DOMAIN hooks /\ span \in SUBSET Nat
  BY <1>1, <1>3, HooksAre DEF Actions
<1>5. act \in [DOMAIN hooks -> BOOLEAN] /\ DOMAIN act = DOMAIN hooks
  <2>1. ASSUME NEW i \in DOMAIN hooks PROVE hooks[i].queueEnable \in BOOLEAN
    BY <1>3, HooksAre DEF EntryRec
  <2>2. QED
    BY <1>1, <2>1
<1>6. act \in Switches
  BY <1>3, <1>5, SwitchesAre
<1>7. "apply" \in {"set", "all", "apply", "remove", "uninitialize"} /\ 0 \in Nat /\ todo \subseteq DOMAIN act
  BY <1>4, <1>5
<1>8. Books' /\ Pending'
  BY <1>2, <1>3, <1>4, <1>6, <1>7, FreezeBooks
<1>9. QED
  BY <1>8 DEF TablesIInv

LEMMA RemoveBooks ==
  ASSUME TablesIInv, NEW tg \in Targets, MH_RemoveHook(tg)
  PROVE  TablesIInv'
<1>1. PICK pos \in Entries(tg) :
         \/ /\ hooks[pos].isEnabled
            /\ FreezeFor("remove", "disable", {pos}, {pos}, [i \in {pos} |-> FALSE], pos)
         \/ /\ ~hooks[pos].isEnabled
            /\ Delete(pos)
            /\ UNCHANGED <<code, patched, call, ip, suspended, missed>>
  BY DEF MH_RemoveHook
<1>2. Books /\ TableTypes /\ Free /\ pos \in DOMAIN hooks /\ pos \in Nat
  BY HooksAre DEF Entries, TablesIInv, Books, MH_RemoveHook
<1>3. CASE FreezeFor("remove", "disable", {pos}, {pos}, [i \in {pos} |-> FALSE], pos)
  <2>1. PICK act, span, todo : act = [i \in {pos} |-> FALSE] /\ span = {pos} /\ todo = {pos}
    OBVIOUS
  <2>2. /\ act \in [todo -> BOOLEAN] /\ DOMAIN act = todo /\ (\A i \in todo : ~act[i])
        /\ todo \in SUBSET DOMAIN hooks
    BY <1>2, <2>1
  <2>3. act \in Switches
    BY <1>2, <2>2, SwitchesAre
  <2>4. "disable" \in Actions /\ span \in SUBSET Nat /\ pos \in todo
    BY <1>2, <2>1 DEF Actions
  <2>5. FreezeFor("remove", "disable", span, todo, act, pos)
    BY <1>3, <2>1
  <2>6. "remove" \in {"set", "all", "apply", "remove", "uninitialize"} /\ todo \subseteq DOMAIN act
    BY <2>2
  <2>7. Books' /\ Pending'
    BY <1>2, <2>2, <2>3, <2>4, <2>5, <2>6, FreezeBooks
  <2>8. QED
    BY <2>7 DEF TablesIInv
<1>4. CASE ~hooks[pos].isEnabled /\ Delete(pos) /\ UNCHANGED <<code, patched, call, ip, suspended, missed>>
  <2>1. Books'
    BY <1>2, <1>4, DeleteBooks
  <2>2. Pending'
    BY <1>2, <1>4 DEF Pending, Free
  <2>3. QED
    BY <2>1, <2>2 DEF TablesIInv
<1>5. QED
  BY <1>1, <1>3, <1>4

\* A call that ends: what it removes has lost its jump.
LEMMA FinishBooks ==
  ASSUME TablesIInv, Finish
  PROVE  TablesIInv'
<1>1. /\ Books /\ TableTypes /\ ~Free /\ call.todo = {} /\ call \in CallRec
      /\ call' = Idle /\ UNCHANGED <<code, patched>>
      /\ CASE call.fn = "remove" -> Delete(call.pos)
           [] call.fn = "uninitialize" -> DeleteAll
           [] OTHER -> UNCHANGED <<lib, retracted>>
  BY DEF TablesIInv, Books, Pending, Finish, Unlocked
<1>2. Pending'
  BY <1>1 DEF Pending, Free
<1>3. CASE call.fn = "remove"
  <2>1. PICK pos : pos = call.pos
    OBVIOUS
  <2>2. pos \in DOMAIN hooks /\ ~hooks[pos].isEnabled
    BY <1>1, <1>3, <2>1 DEF TablesIInv, Pending
  <2>3. Delete(pos)
    BY <1>1, <1>3, <2>1
  <2>4. Books'
    BY <1>1, <2>2, <2>3, DeleteBooks
  <2>5. QED
    BY <1>2, <2>4 DEF TablesIInv
<1>4. CASE call.fn = "uninitialize"
  <2>1. \A i \in DOMAIN hooks : ~hooks[i].isEnabled
    BY <1>1, <1>4 DEF TablesIInv, Pending
  <2>2. DeleteAll
    BY <1>1, <1>4
  <2>3. QED
    BY <1>1, <1>2, <2>1, <2>2, DeleteAllBooks DEF TablesIInv
<1>5. CASE call.fn # "remove" /\ call.fn # "uninitialize"
  <2>1. UNCHANGED <<code, hooks, pages, text, patched>>
    BY <1>1, <1>5 DEF lib
  <2>2. QED
    BY <1>1, <1>2, <2>1, BooksKept DEF TablesIInv
<1>6. QED
  BY <1>3, <1>4, <1>5

-----------------------------------------------------------------------------
(***************************************************************************)
(* The theorem.                                                            *)
(***************************************************************************)
LEMMA TablesInit == Init => TablesIInv
<1> SUFFICES ASSUME Init PROVE TablesIInv
  OBVIOUS
<1>1. hooks = <<>> /\ pages = <<>> /\ DOMAIN hooks = {} /\ DOMAIN pages = {} /\ Free
  BY DEF Init, Free
<1>2. TableTypes
  <2>1. Nothing \in [target : Targets \cup {"none"}, ips : Copies]
    BY DEF Nothing, Copies
  <2>2. text \in [Slots -> [target : Targets \cup {"none"}, ips : Copies]]
    BY <2>1 DEF Init
  <2>3. <<>> \in Seq(EntryRec) /\ <<>> \in Seq(PageRec)
    BY EmptySeq
  <2>4. code \in [Targets -> Program] /\ patched \in [Targets -> {"none", "long", "short"}]
    BY DEF Init, Program
  <2>5. QED
    BY <1>1, <2>2, <2>3, <2>4 DEF TableTypes
<1>3. Once /\ Own /\ InUse /\ Sized(pages) /\ Held
  BY <1>1 DEF Once, Own, InUse, Sized, Held, OccupiedIn
<1>4. Jumps
  BY <1>1 DEF Init, Jumps
<1>5. QED
  BY <1>1, <1>2, <1>3, <1>4 DEF TablesIInv, Books, Pending

\* What the call in progress remembers of a thread that Freeze has come to.
LEMMA FreezeThreadCall ==
  ASSUME call \in CallRec, NEW t \in Threads, FreezeThread(t)
  PROVE  /\ call' \in CallRec /\ call'.scan = call.scan \ {t}
         /\ call'.todo = call.todo /\ call'.fn = call.fn /\ call'.action = call.action
         /\ call'.span = call.span /\ call'.enable = call.enable /\ call'.pos = call.pos
         /\ call.unmoved \subseteq call'.unmoved
<1>1. PICK c \in CallRec : c = call
  OBVIOUS
<1>2. \E U \in SUBSET Threads : /\ c.unmoved \subseteq U
                                /\ call' = [c EXCEPT !.scan = c.scan \ {t}, !.unmoved = U]
  <2>1. c.unmoved \in SUBSET Threads /\ c.unmoved \cup {t} \in SUBSET Threads
    BY DEF CallRec
  <2>2. [c EXCEPT !.scan = c.scan \ {t}] = [c EXCEPT !.scan = c.scan \ {t}, !.unmoved = c.unmoved]
    BY DEF CallRec
  <2>3. QED
    BY <1>1, <2>1, <2>2 DEF FreezeThread
<1>3. PICK U \in SUBSET Threads : /\ c.unmoved \subseteq U
                                 /\ call' = [c EXCEPT !.scan = c.scan \ {t}, !.unmoved = U]
  BY <1>2
<1>4. c.scan \ {t} \in SUBSET Threads
  BY DEF CallRec
<1>5. QED
  BY <1>1, <1>3, <1>4 DEF CallRec

LEMMA FreezeThreadBooks ==
  ASSUME TablesIInv, NEW t \in Threads, FreezeThread(t)
  PROVE  TablesIInv'
<1>1. UNCHANGED <<code, hooks, pages, text, patched>> /\ ~Free
  BY DEF FreezeThread, lib
<1>5. /\ call' \in CallRec /\ call'.todo = call.todo /\ call'.fn = call.fn /\ call'.pos = call.pos
      /\ call'.enable = call.enable
  BY <1>1, FreezeThreadCall DEF TablesIInv, Pending
<1>6. Pending'
  BY <1>1, <1>5 DEF TablesIInv, Pending
<1>7. QED
  BY <1>1, <1>6, BooksKept DEF TablesIInv

\* A step of a thread changes where that thread is.
LEMMA RunKeeps ==
  ASSUME NEW t \in Threads, Run(t)
  PROVE  UNCHANGED <<code, hooks, pages, text, patched, call>>
<1>1. \E at : Arrive(t, at)
  BY DEF Run, Enter, RunTarget, RunAbove, RunDetour, RunTrampoline
<1>2. QED
  BY <1>1 DEF Arrive, lib

LEMMA TablesStep == TablesIInv /\ [Next]_vars => TablesIInv'
<1> SUFFICES ASSUME TablesIInv, [Next]_vars PROVE TablesIInv'
  OBVIOUS
<1>0. Books /\ Pending
  BY DEF TablesIInv
<1>1. ASSUME UNCHANGED <<code, hooks, pages, text, patched, call>> PROVE TablesIInv'
  <2>1. Books'
    BY <1>0, <1>1, BooksKept
  <2>2. Pending'
    BY <1>0, <1>1 DEF Pending, Free
  <2>3. QED
    BY <2>1, <2>2 DEF TablesIInv
<1>2. ASSUME Free, UNCHANGED call PROVE Pending'
  BY <1>2 DEF Pending, Free
<1>3. CASE MH_Initialize
  BY <1>1, <1>3 DEF MH_Initialize
<1>4. ASSUME NEW tg \in Targets, NEW b \in Blocks, MH_CreateHook(tg, b) PROVE TablesIInv'
  <2>1. Books'
    BY <1>0, <1>4, CreateBooks
  <2>2. Pending'
    BY <1>2, <1>4 DEF MH_CreateHook
  <2>3. QED
    BY <2>1, <2>2 DEF TablesIInv
<1>5. ASSUME NEW tgs, NEW enable \in BOOLEAN, QueueHook(tgs, enable) PROVE TablesIInv'
  <2>1. Books'
    BY <1>0, <1>5, QueueBooks
  <2>2. Pending'
    BY <1>2, <1>5 DEF QueueHook
  <2>3. QED
    BY <2>1, <2>2 DEF TablesIInv
<1>6. ASSUME NEW tg \in Targets, NEW enable \in BOOLEAN, EnableHook(tg, enable) PROVE TablesIInv'
  BY <1>6, SetBooks
<1>7. ASSUME NEW enable \in BOOLEAN, EnableAllHooks("all", enable) PROVE TablesIInv'
  BY <1>7, AllBooks
<1>8. CASE MH_ApplyQueued
  BY <1>8, ApplyBooks
<1>9. ASSUME NEW tg \in Targets, MH_RemoveHook(tg) PROVE TablesIInv'
  BY <1>9, RemoveBooks
<1>10. CASE MH_Uninitialize
  <2>1. CASE EnableAllHooks("uninitialize", FALSE)
    BY <2>1, AllBooks
  <2>2. CASE /\ Free /\ \A i \in DOMAIN hooks : ~hooks[i].isEnabled
             /\ DeleteAll /\ UNCHANGED <<code, patched, call>>
    <3>1. Books'
      BY <1>0, <2>2, DeleteAllBooks
    <3>2. QED
      BY <1>2, <2>2, <3>1 DEF TablesIInv
  <2>3. QED
    BY <1>10, <2>1, <2>2 DEF MH_Uninitialize
<1>11. ASSUME NEW t \in Threads, FreezeThread(t) PROVE TablesIInv'
  BY <1>11, FreezeThreadBooks
<1>12. CASE Patch
  BY <1>0, <1>12, PatchBooks DEF TablesIInv
<1>13. CASE PatchFails
  <2>1. UNCHANGED <<code, hooks, pages, text, patched>> /\ call' = Idle
    BY <1>13 DEF PatchFails, Unlocked, lib
  <2>2. Pending'
    BY <2>1 DEF Pending, Free
  <2>3. QED
    BY <1>0, <2>1, <2>2, BooksKept DEF TablesIInv
<1>14. CASE Finish
  BY <1>14, FinishBooks
<1>15. ASSUME NEW t \in Threads, Run(t) PROVE TablesIInv'
  BY <1>1, <1>15, RunKeeps
<1>16. CASE UNCHANGED vars
  BY <1>1, <1>16 DEF vars
<1>17. CASE Library
  BY <1>3, <1>4, <1>5, <1>6, <1>7, <1>8, <1>9, <1>10, <1>11, <1>12, <1>13, <1>14, <1>17 DEF Library
<1>18. QED
  BY <1>15, <1>16, <1>17 DEF Next

\* The invariant says what TablesAgree says.
LEMMA TablesTell == TablesIInv => TablesAgree
<1> SUFFICES ASSUME TablesIInv PROVE TablesAgree
  OBVIOUS
<1>1. TableTypes /\ Once /\ Own /\ InUse /\ Sized(pages) /\ Held /\ Jumps
  BY DEF TablesIInv, Books
<1> DEFINE held(pg) == (1 .. SLOTS) \ Range(pg.free)
           enabled == {i \in DOMAIN hooks : hooks[i].isEnabled}
<1>2. \A i, j \in DOMAIN hooks : i # j => hooks[i].target # hooks[j].target
  BY <1>1 DEF Once
<1>3. \A i \in DOMAIN hooks : text[hooks[i].slot].target = hooks[i].target
  BY <1>1 DEF Own
<1>4. \A i, j \in DOMAIN pages : i # j => pages[i].id # pages[j].id
  BY <1>1 DEF Sized
<1>5. \A i \in DOMAIN pages : /\ IsInjective(pages[i].free)
                              /\ pages[i].used = SLOTS - Len(pages[i].free)
                              /\ pages[i].used > 0
  BY <1>1 DEF Sized, InUse
<1>6. {hooks[i].slot : i \in DOMAIN hooks}
         = UNION {{<<pages[i].id, s>> : s \in held(pages[i])} : i \in DOMAIN pages}
  <2>1. \A i \in DOMAIN pages : pages[i].id \in Blocks
    <3>1. pages \in Seq(PageRec)
      BY <1>1 DEF TableTypes
    <3>2. DOMAIN pages = 1 .. Len(pages)
      BY <3>1, LenProperties
    <3>3. \A i \in DOMAIN pages : pages[i] \in PageRec
      BY <3>1, <3>2, ElementOfSeq
    <3>4. QED
      BY <3>3 DEF PageRec
  <2>2. ASSUME NEW s \in {hooks[i].slot : i \in DOMAIN hooks}
        PROVE  s \in UNION {{<<pages[i].id, n>> : n \in held(pages[i])} : i \in DOMAIN pages}
    <3>1. s \in Slots /\ OccupiedIn(pages, s)
      BY <1>1, HooksAre DEF Held
    <3>2. PICK i \in DOMAIN pages : /\ pages[i].id = s[1] /\ s[2] \in 1 .. SLOTS
                                    /\ s[2] \notin Range(pages[i].free)
      BY <3>1 DEF OccupiedIn
    <3>3. s = <<pages[i].id, s[2]>> /\ s[2] \in held(pages[i])
      BY <3>1, <3>2 DEF Slots
    <3>4. s \in {<<pages[i].id, n>> : n \in held(pages[i])}
      BY <3>3
    <3>5. QED
      BY <3>4
  <2>3. ASSUME NEW i \in DOMAIN pages, NEW n \in held(pages[i])
        PROVE  <<pages[i].id, n>> \in {hooks[j].slot : j \in DOMAIN hooks}
    <3>1. PICK s : s = <<pages[i].id, n>>
      OBVIOUS
    <3>2. s \in Slots /\ s[1] = pages[i].id /\ s[2] = n
      BY <2>1, <3>1 DEF Slots
    <3>3. OccupiedIn(pages, s)
      BY <3>2 DEF OccupiedIn
    <3>4. \E j \in DOMAIN hooks : hooks[j].slot = s
      BY <1>1, <3>2, <3>3 DEF Held
    <3>5. QED
      BY <3>1, <3>4
  <2>4. QED
    <3> HIDE DEF held
    <3>1. ASSUME NEW s \in UNION {{<<pages[i].id, n>> : n \in held(pages[i])} : i \in DOMAIN pages}
          PROVE  s \in {hooks[j].slot : j \in DOMAIN hooks}
      BY <2>3
    <3>2. QED
      BY <2>2, <3>1
<1>7. {tg \in Targets : patched[tg] # "none"} = {hooks[i].target : i \in enabled}
  BY <1>1, HooksAre DEF Jumps
<1>8. QED
  BY <1>2, <1>3, <1>4, <1>5, <1>6, <1>7 DEF TablesAgree

\* The tables fit together, and what a call in progress has still to change is in them.
THEOREM TablesInvariant == Spec => []TablesIInv
<1>1. QED
  BY TablesInit, TablesStep, PTL DEF Spec

\* hook.c and buffer.c keep one story of the hooks, the slots, the pages and the jumps.
THEOREM TablesHold == Spec => []TablesAgree
<1>1. QED
  BY TablesInvariant, TablesTell, PTL

-----------------------------------------------------------------------------
(***************************************************************************)
(* MinHook's threads (Freeze and ProcessThreadIPs of hook.c): whatever the *)
(* functions, the threads and the calls, a jump is taken out of a function *)
(* only when no stopped thread is on the long jump above it or in its      *)
(* trampoline.  Freeze moves a thread by the entry whose function it is in *)
(* (Once), and the entries a call has still to patch are among those that  *)
(* Freeze was given, with the same direction (Aimed): MH_DisableHook of    *)
(* one function is the exception.                                          *)
(***************************************************************************)
\* On the jump above the function of h, or in its trampoline.
Stands(at, h) ==
    at = <<"above", h.target>> \/ (at[1] = "tramp" /\ at[3] = h.slot /\ InTrampoline(at))

\* Where a thread can be.
Spot(at) ==
    \/ at = <<"out">>
    \/ \E tg \in Targets : \/ at = <<"above", tg>> /\ Shape(tg).patchAbove
                           \/ at = <<"target", tg, at[3]>>
                           \/ at = <<"tramp", tg, at[3], at[4]>>
                           \/ at[1] \in {"detour", "lost"} /\ at[2] = tg

Located == DOMAIN ip = Threads /\ suspended \subseteq Threads /\ \A t \in Threads : Spot(ip[t])

\* An entry describes its function and the trampoline in its slot.
Copied ==
    /\ \A i \in DOMAIN hooks : /\ hooks[i].patchAbove = Shape(hooks[i].target).patchAbove
                               /\ hooks[i].ips = text[hooks[i].slot].ips
    /\ \A tg \in Targets : patched[tg] = "short" => Shape(tg).patchAbove

\* The positions and the action Freeze was given are those of the entries that will change.
Aimed == ~Free /\ call.fn # "set" =>
    /\ call.span \subseteq DOMAIN hooks
    /\ \A i \in call.todo : /\ i \in call.span /\ call.enable[i] = Wanted(call.action, i)
                            /\ hooks[i].isEnabled # call.enable[i]

\* No thread that was stopped and could be moved stands where a jump will be taken out.
Cleared ==
    /\ Free => suspended = {}
    /\ ~Free /\ call.fn # "set" =>
          \A t \in suspended \ call.unmoved, i \in call.todo :
             ~call.enable[i] => ~Stands(ip[t], hooks[i])

FreezeIInv == TablesIInv /\ Located /\ Copied /\ Aimed /\ Cleared

-----------------------------------------------------------------------------
\* Nobody is hooked, and nobody stopped.
LEMMA FreezeInit == Init => FreezeIInv
<1> SUFFICES ASSUME Init PROVE FreezeIInv
  OBVIOUS
<1>1. Free /\ hooks = <<>> /\ DOMAIN hooks = {} /\ suspended = {}
  BY DEF Init, Free
<1>2. Located
  BY <1>1 DEF Init, Located, Spot
<1>3. Copied
  BY <1>1 DEF Init, Copied
<1>4. Aimed /\ Cleared
  BY <1>1 DEF Aimed, Cleared
<1>5. QED
  BY <1>2, <1>3, <1>4, TablesInit DEF FreezeIInv

\* What FindNewIP and FindOldIP make of an address.
LEMMA NewPlace ==
  ASSUME NEW h, NEW at
  PROVE  \/ FindNewIP(h, at) = at
         \/ \E o : FindNewIP(h, at) = <<"tramp", h.target, h.slot, o>>
BY DEF FindNewIP

LEMMA OldPlace ==
  ASSUME NEW h, NEW at
  PROVE  \/ \E o : FindOldIP(h, at) = <<"target", h.target, o>>
         \/ /\ FindOldIP(h, at) = at
            /\ ~(h.patchAbove /\ at = <<"above", h.target>>)
            /\ \A k \in DOMAIN h.ips : at # <<"tramp", h.target, h.slot, h.ips[k].new>>
BY DEF FindOldIP

\* A stopped thread stays where it is, or goes to a place of the one entry that moves it.
LEMMA Moves ==
  ASSUME NEW at, NEW span, NEW action, NEW new, new = ProcessThreadIPs(at, span, action)
  PROVE  \/ new = at
         \/ \E i \in span : /\ at # <<"out">> /\ at[2] = hooks[i].target
                            /\ \E o : \/ new = <<"target", hooks[i].target, o>>
                                      \/ new = <<"tramp", hooks[i].target, hooks[i].slot, o>>
<1> DEFINE own == {i \in span : /\ hooks[i].isEnabled # Wanted(action, i)
                                /\ at # <<"out">> /\ at[2] = hooks[i].target}
           mover == CHOOSE i \in own : TRUE
<1>1. new = IF own = {} THEN at
            ELSE IF Wanted(action, mover) THEN FindNewIP(hooks[mover], at) ELSE FindOldIP(hooks[mover], at)
  BY DEF ProcessThreadIPs
<1>2. own # {} => mover \in own
  OBVIOUS
<1>3. CASE own # {}
  <2>1. PICK i \in own : new \in {FindNewIP(hooks[i], at), FindOldIP(hooks[i], at)}
    BY <1>1, <1>2, <1>3
  <2>2. i \in span /\ at # <<"out">> /\ at[2] = hooks[i].target
    OBVIOUS
  <2>3. \/ new = at
        \/ \E o : \/ new = <<"target", hooks[i].target, o>>
                  \/ new = <<"tramp", hooks[i].target, hooks[i].slot, o>>
    BY <2>1, NewPlace, OldPlace
  <2>4. QED
    BY <2>2, <2>3
<1>4. QED
  BY <1>1, <1>3

\* A thread that stands where the jump of entry i will be taken out is moved away.
LEMMA MovedAway ==
  ASSUME Books, Copied, NEW at, Spot(at), NEW span \in SUBSET DOMAIN hooks, NEW action, NEW i \in span,
         hooks[i].isEnabled, ~Wanted(action, i),
         NEW new, new = ProcessThreadIPs(at, span, action)
  PROVE  ~Stands(new, hooks[i])
<1>1. PICK h : h = hooks[i]
  OBVIOUS
<1>2. /\ h.patchAbove = Shape(h.target).patchAbove /\ h.ips = text[h.slot].ips
      /\ text[h.slot].target = h.target
  BY <1>1 DEF Copied, Books, Own
<1>3. CASE at = <<"out">> \/ at[2] # h.target
  <2>1. ~Stands(at, h)
    <3>1. at[1] = "tramp" => at = <<"tramp", at[2], at[3], at[4]>>
      BY DEF Spot
    <3>2. QED
      BY <1>2, <1>3, <3>1 DEF Stands, InTrampoline
  <2>2. ASSUME NEW j \in span, at # <<"out">>, at[2] = hooks[j].target, NEW o,
               \/ new = <<"target", hooks[j].target, o>>
               \/ new = <<"tramp", hooks[j].target, hooks[j].slot, o>>
        PROVE  ~Stands(new, h)
    <3>1. j # i /\ j \in DOMAIN hooks /\ i \in DOMAIN hooks
      BY <1>1, <1>3, <2>2
    <3>2. hooks[j].slot # h.slot
      BY <1>1, <3>1, SlotsApart
    <3>3. CASE new = <<"target", hooks[j].target, o>>
      BY <3>3 DEF Stands
    <3>4. CASE new = <<"tramp", hooks[j].target, hooks[j].slot, o>>
      BY <3>2, <3>4 DEF Stands
    <3>5. QED
      BY <2>2, <3>3, <3>4
  <2>3. QED
    BY <1>1, <2>1, <2>2, Moves
<1>4. CASE at # <<"out">> /\ at[2] = h.target
  <2> DEFINE own == {j \in span : /\ hooks[j].isEnabled # Wanted(action, j)
                                  /\ at # <<"out">> /\ at[2] = hooks[j].target}
             mover == CHOOSE j \in own : TRUE
  <2>1. i \in own /\ \A j \in own : j = i
    BY <1>1, <1>4 DEF Books, Once
  <2>2. own # {} /\ mover = i
    BY <2>1
  <2>3. new = IF own = {} THEN at
              ELSE IF Wanted(action, mover) THEN FindNewIP(hooks[mover], at) ELSE FindOldIP(hooks[mover], at)
    BY DEF ProcessThreadIPs
  <2>4. new = FindOldIP(h, at)
    BY <1>1, <2>2, <2>3
  <2>5. ASSUME NEW o, new = <<"target", h.target, o>> PROVE ~Stands(new, h)
    BY <2>5 DEF Stands
  <2>6. ASSUME new = at, ~(h.patchAbove /\ at = <<"above", h.target>>),
               \A k \in DOMAIN h.ips : at # <<"tramp", h.target, h.slot, h.ips[k].new>>
        PROVE  ~Stands(new, h)
    <3>1. at # <<"above", h.target>>
      <4>1. SUFFICES ASSUME at = <<"above", h.target>> PROVE FALSE
        OBVIOUS
      <4>2. Shape(h.target).patchAbove
        BY <4>1 DEF Spot
      <4>3. QED
        BY <1>2, <2>6, <4>1, <4>2
    <3>2. ASSUME at[1] = "tramp", at[3] = h.slot, InTrampoline(at) PROVE FALSE
      <4>1. at = <<"tramp", h.target, h.slot, at[4]>>
        BY <1>4, <3>2 DEF Spot
      <4>2. \E k \in DOMAIN h.ips : h.ips[k].new = at[4]
        BY <1>2, <3>2 DEF InTrampoline
      <4>3. QED
        BY <2>6, <4>1, <4>2
    <3>3. QED
      BY <2>6, <3>1, <3>2 DEF Stands
  <2>7. QED
    BY <1>1, <2>4, <2>5, <2>6, OldPlace
<1>5. QED
  BY <1>1, <1>3, <1>4

-----------------------------------------------------------------------------
(* What a step of each kind keeps.                                         *)

\* A step that leaves the threads where they are, and stops none.
LEMMA LocatedKept ==
  ASSUME Located, UNCHANGED code, UNCHANGED ip, suspended' \in {suspended, {}}
  PROVE  Located'
BY DEF Located, Spot, Shape

\* A thread's own step leads to a place.
LEMMA RunArrives ==
  ASSUME Located, Copied, NEW t \in Threads, Run(t)
  PROVE  t \notin suspended /\ \E at : Spot(at) /\ Arrive(t, at)
<1>1. PICK tg : tg = ip[t][2]
  OBVIOUS
<1>2. /\ t \notin suspended
      /\ ip[t][1] \in {"target", "above", "detour", "tramp"} => tg \in Targets
  BY <1>1 DEF Run, Located, Spot
<1>3. \A g \in Targets : \A o : Spot(<<"target", g, o>>) /\ Spot(InTarget(g, o))
  BY DEF Spot, InTarget
<1>4. \A g \in Targets : \A n, o : Spot(<<"tramp", g, n, o>>)
  BY DEF Spot
<1>5. \A g \in Targets : /\ Spot(<<"detour", g>>) /\ Spot(<<"lost", g>>)
                         /\ patched[g] = "short" => Spot(<<"above", g>>)
  BY DEF Spot, Copied
<1>6. Spot(<<"out">>)
  BY DEF Spot
<1>7. ASSUME NEW g \in Targets, Enter(t, g) PROVE \E at : Spot(at) /\ Arrive(t, at)
  BY <1>3, <1>7 DEF Enter
<1>8. CASE RunTarget(t)
  <2>1. PICK at : /\ Arrive(t, at)
                  /\ \/ at \in {<<"detour", tg>>, <<"lost", tg>>}
                     \/ patched[tg] = "short" /\ at = <<"above", tg>>
                     \/ \E o : at = InTarget(tg, o)
    BY <1>1, <1>8 DEF RunTarget
  <2>2. QED
    BY <1>2, <1>3, <1>5, <1>8, <2>1 DEF RunTarget
<1>9. CASE RunAbove(t)
  <2>1. PICK at \in {<<"detour", tg>>, <<"lost", tg>>, <<"target", tg, 0>>} : Arrive(t, at)
    BY <1>1, <1>9 DEF RunAbove
  <2>2. QED
    BY <1>2, <1>3, <1>5, <1>9, <2>1 DEF RunAbove
<1>10. CASE RunDetour(t)
  <2>1. PICK at \in {<<"out">>, <<"tramp", tg, orig[tg], 0>>} : Arrive(t, at)
    BY <1>1, <1>10 DEF RunDetour
  <2>2. QED
    BY <1>2, <1>4, <1>6, <1>10, <2>1 DEF RunDetour
<1>11. CASE RunTrampoline(t)
  <2>1. PICK at : /\ Arrive(t, at)
                  /\ \/ at = <<"lost", tg>>
                     \/ \E n, o : at = <<"tramp", tg, n, o>>
                     \/ \E o : at = InTarget(tg, o)
    BY <1>1, <1>11 DEF RunTrampoline
  <2>2. QED
    BY <1>2, <1>3, <1>4, <1>5, <1>11, <2>1 DEF RunTrampoline
<1>12. QED
  BY <1>2, <1>7, <1>8, <1>9, <1>10, <1>11 DEF Run

\* A thread that runs is not one of those that are stopped.
LEMMA RunFrees ==
  ASSUME FreezeIInv, NEW t \in Threads, Run(t)
  PROVE  Located' /\ Copied' /\ Aimed' /\ Cleared'
<1>1. PICK at : Spot(at) /\ Arrive(t, at)
  BY RunArrives DEF FreezeIInv
<1>2. /\ t \notin suspended /\ ip' = [ip EXCEPT ![t] = at]
      /\ UNCHANGED <<code, hooks, pages, text, patched, call, suspended>>
  BY <1>1, RunArrives DEF FreezeIInv, Arrive, lib
<1>3. DOMAIN ip' = Threads /\ ip'[t] = at /\ \A s \in Threads : s # t => ip'[s] = ip[s]
  BY <1>2 DEF FreezeIInv, Located
<1>4. Located'
  BY <1>1, <1>2, <1>3 DEF FreezeIInv, Located, Spot, Shape
<1>5. Copied' /\ Aimed'
  BY <1>2 DEF FreezeIInv, Copied, Shape, Aimed, Free, Wanted
<1>6. Cleared'
  <2>1. ASSUME NEW s \in suspended, NEW i
        PROVE  ip'[s] = ip[s] /\ (Stands(ip[s], hooks[i]))' = Stands(ip[s], hooks[i])
    BY <1>2, <1>3 DEF FreezeIInv, Located, Stands, InTrampoline
  <2>2. QED
    BY <1>2, <2>1 DEF FreezeIInv, Cleared, Free
<1>7. QED
  BY <1>4, <1>5, <1>6

\* A call that frees the threads, or starts to stop them: nobody is stopped.
LEMMA NobodyStopped ==
  ASSUME suspended' = {}
  PROVE  Cleared'
BY DEF Cleared

\* While the library is free, nothing is aimed at.
LEMMA FreeIsAimless ==
  ASSUME Free'
  PROVE  Aimed'
BY DEF Aimed

\* A new entry is filled in from the same shape as its slot; the other slots stay.
LEMMA CreateCopied ==
  ASSUME Books, Copied, NEW tg \in Targets, NEW b \in Blocks, MH_CreateHook(tg, b)
  PROVE  Copied'
<1>10. PICK place \in Slots, h \in EntryRec, N \in Nat : Creates(tg, place, h, N)
  BY EntryCreated
<1>1. /\ UNCHANGED <<code, patched>>
      /\ text' = [text EXCEPT ![place] = [target |-> tg, ips |-> h.ips]]
      /\ h.target = tg /\ h.slot = place
      /\ h.ips = Shape(tg).ips /\ h.patchAbove = Shape(tg).patchAbove
      /\ DOMAIN hooks' = DOMAIN hooks \cup {N} /\ hooks'[N] = h
      /\ \A i \in DOMAIN hooks : hooks'[i] = hooks[i] /\ hooks[i].slot # place
  BY <1>10 DEF Creates
<1>2. /\ DOMAIN text = Slots /\ \A i \in DOMAIN hooks : hooks[i].slot \in Slots
  BY HooksAre DEF Books, TableTypes
<1>3. text'[place].ips = h.ips /\ \A i \in DOMAIN hooks : text'[hooks[i].slot] = text[hooks[i].slot]
  BY <1>1, <1>2
<1>6. ASSUME NEW i \in DOMAIN hooks'
      PROVE  /\ hooks'[i].patchAbove = CreateTrampoline(code[hooks'[i].target]).patchAbove
             /\ hooks'[i].ips = text'[hooks'[i].slot].ips
  BY <1>1, <1>3 DEF Copied, Shape
<1>7. QED
  BY <1>1, <1>6 DEF Copied, Shape

LEMMA QueueCopied ==
  ASSUME Books, Copied, NEW tgs, NEW enable \in BOOLEAN, QueueHook(tgs, enable)
  PROVE  Copied'
<1>1. /\ hooks' = [i \in DOMAIN hooks |->
                     IF hooks[i].target \in tgs THEN [hooks[i] EXCEPT !.queueEnable = enable] ELSE hooks[i]]
      /\ UNCHANGED <<code, text, patched>>
  BY DEF QueueHook
<1>2. ASSUME NEW i \in DOMAIN hooks
      PROVE  /\ hooks'[i].patchAbove = hooks[i].patchAbove /\ hooks'[i].ips = hooks[i].ips
             /\ hooks'[i].target = hooks[i].target /\ hooks'[i].slot = hooks[i].slot
  <2>1. PICK h \in EntryRec : h = hooks[i]
    BY HooksAre DEF Books
  <2>2. /\ [h EXCEPT !.queueEnable = enable].patchAbove = h.patchAbove
        /\ [h EXCEPT !.queueEnable = enable].ips = h.ips
        /\ [h EXCEPT !.queueEnable = enable].target = h.target
        /\ [h EXCEPT !.queueEnable = enable].slot = h.slot
    BY DEF EntryRec
  <2>3. hooks'[i] = IF h.target \in tgs THEN [h EXCEPT !.queueEnable = enable] ELSE h
    BY <1>1, <2>1
  <2>4. QED
    BY <2>1, <2>2, <2>3
<1>3. DOMAIN hooks' = DOMAIN hooks
  BY <1>1
<1>4. QED
  BY <1>1, <1>2, <1>3 DEF Copied, Shape

LEMMA DeleteCopied ==
  ASSUME Books, Copied, NEW pos \in DOMAIN hooks, Delete(pos), UNCHANGED <<code, patched>>
  PROVE  Copied'
<1>1. PICK new : new = DeleteHookEntry(pos)
  OBVIOUS
<1>2. TableTypes
  BY DEF Books
<1>3. \A j \in DOMAIN new : \E i \in DOMAIN hooks \ {pos} : new[j] = hooks[i]
  BY <1>1, <1>2, EntryDeleted
<1>4. hooks' = new /\ text' = [text EXCEPT ![hooks[pos].slot] = Nothing]
  BY <1>1 DEF Delete
<1>5. ASSUME NEW i \in DOMAIN hooks \ {pos} PROVE text'[hooks[i].slot] = text[hooks[i].slot]
  <2>1. hooks[i].slot \in Slots /\ hooks[i].slot # hooks[pos].slot
    BY <1>2, SlotsApart, HooksAre
  <2>2. QED
    BY <1>2, <1>4, <2>1 DEF TableTypes
<1>6. QED
  BY <1>3, <1>4, <1>5 DEF Copied, Shape

\* EnableHookLL writes the short jump only below a function with room for the long one.
LEMMA PatchCopied ==
  ASSUME Books, Copied, Pending, Patch
  PROVE  Copied'
<1>1. PICK i : i = NextEntry
  OBVIOUS
<1>2. i \in DOMAIN hooks
  <2>1. call \in CallRec /\ call.todo # {} /\ call.todo \subseteq DOMAIN hooks
    BY DEF Patch, Pending
  <2>2. QED
    BY <1>1, <2>1, NextIs
<1>3. PICK h \in EntryRec : h = hooks[i]
  BY <1>2, HooksAre DEF Books
<1>4. PICK enable : enable = call.enable[i]
  OBVIOUS
<1>5. PICK g : g = [h EXCEPT !.isEnabled = enable, !.queueEnable = enable]
  OBVIOUS
<1>6. /\ g.target = h.target /\ g.slot = h.slot /\ g.ips = h.ips /\ g.patchAbove = h.patchAbove
  BY <1>5 DEF EntryRec
<1>7. hooks' = [hooks EXCEPT ![i] = g]
  <2>1. hooks' = [hooks EXCEPT ![i].isEnabled = enable, ![i].queueEnable = enable]
    BY <1>1, <1>4 DEF Patch
  <2>2. hooks \in Seq(EntryRec) /\ DOMAIN hooks = 1 .. Len(hooks)
    BY HooksAre DEF Books, TableTypes
  <2>3. QED
    BY <1>2, <1>3, <1>5, <2>1, <2>2
<1>8. DOMAIN hooks' = DOMAIN hooks /\ hooks'[i] = g /\ \A j \in DOMAIN hooks : j # i => hooks'[j] = hooks[j]
  BY <1>2, <1>7
<1>9. UNCHANGED <<code, text>>
  BY DEF Patch
<1>10. ASSUME NEW j \in DOMAIN hooks'
       PROVE  /\ hooks'[j].patchAbove = CreateTrampoline(code[hooks'[j].target]).patchAbove
              /\ hooks'[j].ips = text[hooks'[j].slot].ips
  BY <1>3, <1>6, <1>8 DEF Copied, Shape
<1>11. ASSUME NEW tg \in Targets, patched'[tg] = "short" PROVE CreateTrampoline(code[tg]).patchAbove
  <2>1. patched' = [patched EXCEPT ![h.target] =
                       IF ~enable THEN "none" ELSE IF h.patchAbove THEN "short" ELSE "long"]
    BY <1>1, <1>3, <1>4 DEF Patch
  <2>2. patched \in [Targets -> {"none", "long", "short"}]
    BY DEF Books, TableTypes
  <2>3. CASE tg = h.target
    <3>1. h.patchAbove
      BY <1>11, <2>1, <2>2, <2>3
    <3>2. QED
      BY <1>2, <1>3, <2>3, <3>1 DEF Copied, Shape
  <2>4. CASE tg # h.target
    <3>1. patched[tg] = "short"
      BY <1>11, <2>1, <2>2, <2>4
    <3>2. QED
      BY <3>1 DEF Copied, Shape
  <2>5. QED
    BY <2>3, <2>4
<1>12. QED
  BY <1>9, <1>10, <1>11 DEF Copied, Shape

\* The next entry is dealt with; the others, of other functions, are as they were.
LEMMA PatchClears ==
  ASSUME FreezeIInv, Patch
  PROVE  Aimed' /\ Cleared'
<1>1. PICK i : i = NextEntry
  OBVIOUS
<1>2. /\ ~Free /\ call \in CallRec /\ call.todo # {} /\ call.todo \subseteq DOMAIN hooks
      /\ Books
  BY DEF Patch, FreezeIInv, TablesIInv, Pending
<1>3. i \in call.todo /\ i \in DOMAIN hooks
  BY <1>1, <1>2, NextIs
<1>4. PICK c \in CallRec : c = call
  BY <1>2
<1>5. /\ call'.todo = call.todo \ {i} /\ call'.fn = call.fn /\ call'.action = call.action
      /\ call'.span = call.span /\ call'.enable = call.enable /\ call'.unmoved = call.unmoved
  <2>1. call' = [c EXCEPT !.todo = c.todo \ {i}]
    BY <1>1, <1>4 DEF Patch
  <2>2. QED
    BY <1>4, <2>1 DEF CallRec
<1>6. DOMAIN hooks' = DOMAIN hooks /\ \A j \in DOMAIN hooks : j # i => hooks'[j] = hooks[j]
  <2>1. PICK enable : enable = call.enable[i]
    OBVIOUS
  <2>2. hooks' = [hooks EXCEPT ![i].isEnabled = enable, ![i].queueEnable = enable]
    BY <1>1, <2>1 DEF Patch
  <2>3. QED
    BY <1>3, <2>2
<1>7. UNCHANGED <<text, ip, suspended>>
  BY DEF Patch
<1>12. ~Free'
  <2>1. call'.fn # "none"
    BY <1>4, <1>5 DEF CallRec
  <2>2. QED
    BY <2>1 DEF Free, Idle
<1>8. ASSUME NEW j \in call'.todo PROVE j \in call.todo /\ j \in DOMAIN hooks /\ hooks'[j] = hooks[j]
  BY <1>2, <1>5, <1>6
<1>9. CASE call.fn # "set"
  <2>1. Aimed /\ Cleared
    BY DEF FreezeIInv
  <2>2. Aimed'
    <3>1. call'.span \subseteq DOMAIN hooks'
      BY <1>2, <1>5, <1>6, <1>9, <2>1 DEF Aimed
    <3>2. ASSUME NEW j \in call'.todo
          PROVE  /\ j \in call'.span /\ call'.enable[j] = Wanted(call.action, j)'
                 /\ hooks'[j].isEnabled # call'.enable[j]
      BY <1>2, <1>5, <1>8, <1>9, <2>1 DEF Aimed, Wanted
    <3>3. QED
      BY <1>5, <3>1, <3>2 DEF Aimed, Wanted
  <2>3. Cleared'
    <3>1. ASSUME NEW t \in suspended \ call.unmoved, NEW j \in call'.todo, ~call'.enable[j]
          PROVE  ~Stands(ip[t], hooks[j])' 
      <4>1. ~Stands(ip[t], hooks[j])
        BY <1>2, <1>5, <1>8, <1>9, <2>1, <3>1 DEF Cleared
      <4>2. QED
        BY <1>7, <1>8, <4>1 DEF Stands, InTrampoline
    <3>2. QED
      BY <1>5, <1>7, <1>12, <3>1 DEF Cleared
  <2>4. QED
    BY <2>2, <2>3
<1>10. CASE call.fn = "set"
  BY <1>5, <1>10, <1>12 DEF Aimed, Cleared
<1>11. QED
  BY <1>9, <1>10

\* A thread that is stopped is moved away from where a jump will be taken out.
LEMMA FreezeThreadClears ==
  ASSUME FreezeIInv, NEW t \in Threads, FreezeThread(t)
  PROVE  Located' /\ Copied' /\ Aimed' /\ Cleared'
<1>1. /\ Books /\ Located /\ Copied /\ Aimed /\ Cleared /\ ~Free /\ call \in CallRec
      /\ call.todo \subseteq DOMAIN hooks
      /\ UNCHANGED <<code, hooks, text, patched>>
  BY DEF FreezeIInv, TablesIInv, Pending, FreezeThread, lib
<1>2. PICK c \in CallRec : c = call
  BY <1>1
<1>3. /\ call'.todo = call.todo /\ call'.fn = call.fn /\ call'.action = call.action
      /\ call'.span = call.span /\ call'.enable = call.enable
      /\ call.unmoved \subseteq call'.unmoved
  BY <1>1, FreezeThreadCall
<1>4. ~Free'
  <2>1. call'.fn # "none"
    BY <1>2, <1>3 DEF CallRec
  <2>2. QED
    BY <2>1 DEF Free, Idle
<1>5. Copied'
  BY <1>1 DEF Copied, Shape
<1>6. Aimed'
  BY <1>1, <1>3, <1>4 DEF Aimed, Wanted
<1>7. CASE /\ UNCHANGED ip
           /\ \/ UNCHANGED suspended
              \/ suspended' = suspended \cup {t} /\ t \in call'.unmoved
  <2>1. Located'
    BY <1>1, <1>7 DEF Located, Spot, Shape
  <2>3. suspended' \ call'.unmoved \subseteq suspended \ call.unmoved
    BY <1>3, <1>7
  <2>2. Cleared'
    BY <1>1, <1>3, <1>4, <1>7, <2>3 DEF Cleared, Stands, InTrampoline
  <2>4. QED
    BY <1>5, <1>6, <2>1, <2>2
<1>8. CASE /\ suspended' = suspended \cup {t}
           /\ ip' = [ip EXCEPT ![t] = ProcessThreadIPs(ip[t], call.span, call.action)]
  <2>1. PICK at, new : at = ip[t] /\ new = ProcessThreadIPs(at, call.span, call.action)
    OBVIOUS
  <2>2. DOMAIN ip' = Threads /\ ip'[t] = new /\ \A s \in Threads : s # t => ip'[s] = ip[s]
    BY <1>1, <1>8, <2>1 DEF Located
  <2>3. Spot(at)
    BY <1>1, <2>1 DEF Located
  <2>4. Spot(new)
    <3>4. PICK span, action : span = call.span /\ action = call.action
      OBVIOUS
    <3>5. new = ProcessThreadIPs(at, span, action)
      BY <2>1, <3>4
    <3>1. CASE new = at
      BY <2>3, <3>1
    <3>2. ASSUME NEW i, at # <<"out">>, at[2] = hooks[i].target, NEW o,
                 \/ new = <<"target", hooks[i].target, o>>
                 \/ new = <<"tramp", hooks[i].target, hooks[i].slot, o>>
          PROVE  Spot(new)
      <4>1. hooks[i].target \in Targets
        BY <2>3, <3>2 DEF Spot
      <4>2. QED
        BY <3>2, <4>1 DEF Spot
    <3>3. QED
      BY <3>1, <3>2, <3>5, Moves
  <2>5. Located'
    BY <1>1, <1>8, <2>2, <2>4 DEF Located, Spot, Shape
  <2>6. ASSUME call.fn # "set", NEW s \in suspended' \ call'.unmoved, NEW i \in call.todo,
               ~call.enable[i]
        PROVE  ~Stands(ip'[s], hooks[i])
    <3>1. CASE s = t
      <4>1. PICK span \in SUBSET DOMAIN hooks : span = call.span
        BY <1>1, <2>6 DEF Aimed
      <4>2. PICK action : action = call.action
        OBVIOUS
      <4>3. i \in span /\ hooks[i].isEnabled # call.enable[i] /\ call.enable[i] = Wanted(action, i)
        BY <1>1, <2>6, <4>1, <4>2 DEF Aimed
      <4>4. i \in DOMAIN hooks /\ hooks[i].isEnabled \in BOOLEAN /\ call.enable[i] \in BOOLEAN
        <5>1. i \in DOMAIN hooks /\ hooks[i].isEnabled \in BOOLEAN
          BY <1>1, HooksAre DEF Books
        <5>2. call.enable \in Switches /\ i \in DOMAIN call.enable
          BY <1>1, <1>2 DEF CallRec, FreezeIInv, TablesIInv, Pending
        <5>3. PICK S \in SUBSET Nat : call.enable \in [S -> BOOLEAN]
          BY <5>2 DEF Switches
        <5>4. QED
          BY <5>1, <5>2, <5>3
      <4>5. hooks[i].isEnabled /\ ~Wanted(action, i)
        BY <2>6, <4>3, <4>4
      <4>6. ~Stands(new, hooks[i])
        BY <1>1, <2>1, <2>3, <4>1, <4>2, <4>3, <4>5, MovedAway
      <4>7. QED
        BY <2>2, <3>1, <4>6
    <3>2. CASE s # t
      <4>1. s \in suspended \ call.unmoved /\ ip'[s] = ip[s]
        BY <1>1, <1>3, <1>8, <2>2, <2>6, <3>2 DEF Located
      <4>2. QED
        BY <1>1, <2>6, <4>1 DEF Cleared
    <3>3. QED
      BY <3>1, <3>2
  <2>7. Cleared'
    BY <1>1, <1>3, <1>4, <2>6 DEF Cleared, Stands, InTrampoline
  <2>8. QED
    BY <1>5, <1>6, <2>5, <2>7
<1>9. t \in call'.unmoved
      \/ ~(call' = [call EXCEPT !.scan = @ \ {t}, !.unmoved = @ \cup {t}])
  BY <1>1, <1>2 DEF CallRec
<1>10. QED
  BY <1>7, <1>8, <1>9 DEF FreezeThread

\* A call that starts stops nobody yet, and aims at what it will change.
LEMMA StartsClear ==
  ASSUME FreezeIInv, Free,
         NEW fn, NEW action, NEW span, NEW todo, NEW enable, NEW pos,
         FreezeFor(fn, action, span, todo, enable, pos),
         fn # "set" => /\ span \subseteq DOMAIN hooks
                       /\ \A i \in todo : /\ i \in span /\ enable[i] = Wanted(action, i)
                                          /\ hooks[i].isEnabled # enable[i]
  PROVE  Located' /\ Copied' /\ Aimed' /\ Cleared'
<1>1. /\ UNCHANGED <<code, hooks, text, patched, ip, suspended>>
      /\ Located /\ Copied /\ suspended = {}
  BY DEF FreezeFor, lib, FreezeIInv, Cleared
<1>2. PICK c : c = call'
  OBVIOUS
<1>3. c = [fn |-> fn, action |-> action, span |-> span, todo |-> todo, enable |-> enable,
           pos |-> pos, scan |-> Threads, unmoved |-> {}]
  BY <1>2 DEF FreezeFor
<1>4. c.fn = fn /\ c.action = action /\ c.span = span /\ c.todo = todo /\ c.enable = enable
  BY <1>3
<1>5. Located' /\ Cleared'
  BY <1>1, LocatedKept, NobodyStopped
<1>6. Copied'
  BY <1>1 DEF Copied, Shape
<1>7. Aimed'
  BY <1>1, <1>2, <1>4 DEF Aimed, Wanted
<1>8. QED
  BY <1>5, <1>6, <1>7

\* The calls that start to stop the threads, or delete at once.
LEMMA SetClear ==
  ASSUME FreezeIInv, NEW tg \in Targets, NEW enable \in BOOLEAN, EnableHook(tg, enable)
  PROVE  Located' /\ Copied' /\ Aimed' /\ Cleared'
<1>1. PICK pos, span, act : Free /\ span = {pos} /\ FreezeFor("set", "enable", span, span, act, pos)
  BY DEF EnableHook
<1>2. QED
  BY <1>1, StartsClear

LEMMA AllClear ==
  ASSUME FreezeIInv, NEW fn, NEW enable \in BOOLEAN, EnableAllHooks(fn, enable)
  PROVE  Located' /\ Copied' /\ Aimed' /\ Cleared'
<1>1. PICK todo, act, span, action :
         /\ todo = {i \in DOMAIN hooks : hooks[i].isEnabled # enable}
         /\ act = [i \in DOMAIN hooks |-> enable] /\ span = DOMAIN hooks
         /\ action = IF enable THEN "enable" ELSE "disable"
  OBVIOUS
<1>2. Free /\ FreezeFor(fn, action, span, todo, act, 0)
  BY <1>1 DEF EnableAllHooks, Differ
<1>3. \A i : Wanted(action, i) = enable
  BY <1>1 DEF Wanted
<1>4. /\ span \subseteq DOMAIN hooks
      /\ \A i \in todo : i \in span /\ act[i] = Wanted(action, i) /\ hooks[i].isEnabled # act[i]
  BY <1>1, <1>3
<1>5. QED
  BY <1>2, <1>4, StartsClear

LEMMA ApplyClear ==
  ASSUME FreezeIInv, MH_ApplyQueued
  PROVE  Located' /\ Copied' /\ Aimed' /\ Cleared'
<1>1. PICK todo, act, span :
         /\ todo = {i \in DOMAIN hooks : hooks[i].isEnabled # hooks[i].queueEnable}
         /\ act = [i \in DOMAIN hooks |-> hooks[i].queueEnable] /\ span = DOMAIN hooks
  OBVIOUS
<1>2. Free /\ FreezeFor("apply", "apply queued", span, todo, act, 0)
  BY <1>1 DEF MH_ApplyQueued, Differ
<1>3. \A i : Wanted("apply queued", i) = hooks[i].queueEnable
  BY DEF Wanted
<1>4. /\ span \subseteq DOMAIN hooks
      /\ \A i \in todo : i \in span /\ act[i] = Wanted("apply queued", i) /\ hooks[i].isEnabled # act[i]
  BY <1>1, <1>3
<1>5. QED
  BY <1>2, <1>4, StartsClear

LEMMA RemoveClear ==
  ASSUME FreezeIInv, NEW tg \in Targets, MH_RemoveHook(tg)
  PROVE  Located' /\ Copied' /\ Aimed' /\ Cleared'
<1>1. PICK pos \in Entries(tg) :
         \/ /\ hooks[pos].isEnabled
            /\ FreezeFor("remove", "disable", {pos}, {pos}, [i \in {pos} |-> FALSE], pos)
         \/ /\ Delete(pos)
            /\ UNCHANGED <<code, patched, call, ip, suspended, missed>>
  BY DEF MH_RemoveHook
<1>2. Books /\ Free /\ pos \in DOMAIN hooks
  BY DEF Entries, FreezeIInv, TablesIInv, MH_RemoveHook
<1>3. CASE hooks[pos].isEnabled /\ FreezeFor("remove", "disable", {pos}, {pos}, [i \in {pos} |-> FALSE], pos)
  <2>1. PICK act, span : act = [i \in {pos} |-> FALSE] /\ span = {pos}
    OBVIOUS
  <2>2. FreezeFor("remove", "disable", span, span, act, pos)
    BY <1>3, <2>1
  <2>3. \A i : Wanted("disable", i) = FALSE
    BY DEF Wanted
  <2>4. /\ span \subseteq DOMAIN hooks
        /\ \A i \in span : act[i] = Wanted("disable", i) /\ hooks[i].isEnabled # act[i]
    BY <1>2, <1>3, <2>1, <2>3
  <2>5. QED
    BY <1>2, <2>2, <2>4, StartsClear
<1>4. CASE Delete(pos) /\ UNCHANGED <<code, patched, call, ip, suspended, missed>>
  <2>1. Copied /\ Located /\ suspended = {}
    BY <1>2 DEF FreezeIInv, Cleared
  <2>2. Copied'
    BY <1>2, <1>4, <2>1, DeleteCopied
  <2>3. Located' /\ Cleared'
    BY <1>4, <2>1, LocatedKept, NobodyStopped
  <2>4. Aimed'
    BY <1>2, <1>4, FreeIsAimless DEF Free
  <2>5. QED
    BY <2>2, <2>3, <2>4
<1>5. QED
  BY <1>1, <1>3, <1>4

\* A call that ends lets the threads go.
LEMMA FinishClear ==
  ASSUME FreezeIInv, Finish
  PROVE  Located' /\ Copied' /\ Aimed' /\ Cleared'
<1>1. /\ Books /\ Pending /\ Located /\ Copied /\ ~Free /\ call'= Idle /\ suspended' = {}
      /\ UNCHANGED <<code, patched, ip>>
      /\ CASE call.fn = "remove" -> Delete(call.pos)
           [] call.fn = "uninitialize" -> DeleteAll
           [] OTHER -> UNCHANGED <<lib, retracted>>
  BY DEF FreezeIInv, TablesIInv, Finish, Unlocked
<1>2. Located' /\ Cleared' /\ Aimed'
  BY <1>1, LocatedKept, NobodyStopped, FreeIsAimless DEF Free
<1>3. CASE call.fn = "remove"
  <2>1. PICK pos : pos = call.pos
    OBVIOUS
  <2>2. pos \in DOMAIN hooks /\ Delete(pos)
    BY <1>1, <1>3, <2>1 DEF Pending
  <2>3. Copied'
    BY <1>1, <2>2, DeleteCopied
  <2>4. QED
    BY <1>2, <2>3
<1>4. CASE call.fn = "uninitialize"
  <2>1. hooks' = <<>>
    BY <1>1, <1>4 DEF DeleteAll
  <2>2. Copied'
    BY <1>1, <2>1 DEF Copied, Shape
  <2>3. QED
    BY <1>2, <2>2
<1>5. CASE call.fn # "remove" /\ call.fn # "uninitialize"
  <2>1. UNCHANGED <<hooks, text>>
    BY <1>1, <1>5 DEF lib
  <2>2. Copied'
    BY <1>1, <2>1 DEF Copied, Shape
  <2>3. QED
    BY <1>2, <2>2
<1>6. QED
  BY <1>3, <1>4, <1>5

\* Every call, every step of Freeze and of the patch, and every thread.
LEMMA FreezeStep == FreezeIInv /\ [Next]_vars => FreezeIInv'
<1> SUFFICES ASSUME FreezeIInv, [Next]_vars PROVE FreezeIInv'
  OBVIOUS
<1> DEFINE Kept == Located' /\ Copied' /\ Aimed' /\ Cleared'
<1>0. Books /\ Located /\ Copied /\ TablesIInv'
  BY TablesStep DEF FreezeIInv, TablesIInv
<1> SUFFICES Kept
  BY <1>0 DEF FreezeIInv
<1>1. ASSUME UNCHANGED <<code, hooks, text, patched, call, ip, suspended>> PROVE Kept
  BY <1>0, <1>1, LocatedKept DEF FreezeIInv, Copied, Shape, Aimed, Free, Wanted, Cleared, Stands, InTrampoline
<1>2. ASSUME Free, Copied', UNCHANGED <<code, call, ip, suspended>> PROVE Kept
  <2>1. suspended' = {} /\ Free'
    BY <1>2 DEF FreezeIInv, Cleared, Free
  <2>2. QED
    BY <1>0, <1>2, <2>1, LocatedKept, NobodyStopped, FreeIsAimless
<1>3. CASE MH_Initialize
  BY <1>1, <1>3 DEF MH_Initialize
<1>4. ASSUME NEW tg \in Targets, NEW b \in Blocks, MH_CreateHook(tg, b) PROVE Kept
  <2>1. Copied'
    BY <1>0, <1>4, CreateCopied
  <2>2. QED
    BY <1>2, <1>4, <2>1 DEF MH_CreateHook
<1>5. ASSUME NEW tgs, NEW enable \in BOOLEAN, QueueHook(tgs, enable) PROVE Kept
  <2>1. Copied'
    BY <1>0, <1>5, QueueCopied
  <2>2. QED
    BY <1>2, <1>5, <2>1 DEF QueueHook
<1>6. ASSUME NEW tg \in Targets, NEW enable \in BOOLEAN, EnableHook(tg, enable) PROVE Kept
  BY <1>6, SetClear
<1>7. ASSUME NEW enable \in BOOLEAN, EnableAllHooks("all", enable) PROVE Kept
  BY <1>7, AllClear
<1>8. CASE MH_ApplyQueued
  BY <1>8, ApplyClear
<1>9. ASSUME NEW tg \in Targets, MH_RemoveHook(tg) PROVE Kept
  BY <1>9, RemoveClear
<1>10. CASE MH_Uninitialize
  <2>1. CASE EnableAllHooks("uninitialize", FALSE)
    BY <2>1, AllClear
  <2>2. CASE Free /\ DeleteAll /\ UNCHANGED <<code, patched, call, ip, suspended>>
    <3>1. hooks' = <<>>
      BY <2>2 DEF DeleteAll
    <3>2. Copied'
      BY <1>0, <2>2, <3>1 DEF Copied, Shape
    <3>3. QED
      BY <1>2, <2>2, <3>2
  <2>3. QED
    BY <1>10, <2>1, <2>2 DEF MH_Uninitialize
<1>11. ASSUME NEW t \in Threads, FreezeThread(t) PROVE Kept
  BY <1>11, FreezeThreadClears
<1>12. CASE Patch
  <2>1. Pending /\ UNCHANGED <<code, ip, suspended>>
    BY <1>12 DEF FreezeIInv, TablesIInv, Patch
  <2>2. Copied'
    BY <1>0, <1>12, <2>1, PatchCopied
  <2>3. Located'
    BY <1>0, <2>1, LocatedKept
  <2>4. QED
    BY <1>12, <2>2, <2>3, PatchClears
<1>13. CASE PatchFails
  <2>1. UNCHANGED <<code, hooks, text, patched, ip>> /\ call' = Idle /\ suspended' = {}
    BY <1>13 DEF PatchFails, Unlocked, lib
  <2>2. Copied'
    BY <1>0, <2>1 DEF Copied, Shape
  <2>3. QED
    BY <1>0, <2>1, <2>2, LocatedKept, NobodyStopped, FreeIsAimless DEF Free
<1>14. CASE Finish
  BY <1>14, FinishClear
<1>15. ASSUME NEW t \in Threads, Run(t) PROVE Kept
  BY <1>15, RunFrees
<1>16. CASE UNCHANGED vars
  BY <1>1, <1>16 DEF vars
<1> HIDE DEF Kept
<1>17. CASE Library
  BY <1>3, <1>4, <1>5, <1>6, <1>7, <1>8, <1>9, <1>10, <1>11, <1>12, <1>13, <1>14, <1>17 DEF Library
<1>18. QED
  BY <1>15, <1>16, <1>17 DEF Next

\* Only EnableHookLL takes a jump out, that of the entry that is next.
LEMMA PatchLeaves ==
  ASSUME FreezeIInv, [Next]_vars, NEW i \in DOMAIN hooks,
         patched[hooks[i].target] # "none", patched'[hooks[i].target] = "none", call.fn # "set"
  PROVE  \A t \in suspended \ call.unmoved : ~Stands(ip[t], hooks[i])
<1>1. ASSUME UNCHANGED patched PROVE FALSE
  BY <1>1
<1>2. Library
  <2>1. ASSUME NEW t \in Threads, Run(t) PROVE FALSE
    BY <1>1, <2>1, RunKeeps
  <2>2. ~UNCHANGED vars
    BY <1>1 DEF vars
  <2>3. QED
    BY <2>1, <2>2 DEF Next
<1>3. Patch
  <2>1. ASSUME NEW fn, NEW enable, EnableAllHooks(fn, enable) PROVE FALSE
    BY <1>1, <2>1 DEF EnableAllHooks, FreezeFor
  <2>2. ASSUME NEW tg, NEW enable, EnableHook(tg, enable) PROVE FALSE
    BY <1>1, <2>2 DEF EnableHook, FreezeFor
  <2>3. ASSUME NEW tg, MH_RemoveHook(tg) PROVE FALSE
    BY <1>1, <2>3 DEF MH_RemoveHook, FreezeFor
  <2>4. ASSUME MH_ApplyQueued PROVE FALSE
    BY <1>1, <2>4 DEF MH_ApplyQueued, FreezeFor
  <2>5. ASSUME MH_Uninitialize PROVE FALSE
    BY <1>1, <2>1, <2>5 DEF MH_Uninitialize
  <2>6. ASSUME MH_Initialize \/ PatchFails \/ Finish PROVE FALSE
    BY <1>1, <2>6 DEF MH_Initialize, PatchFails, Finish, Unlocked
  <2>7. ASSUME NEW t, FreezeThread(t) PROVE FALSE
    BY <1>1, <2>7 DEF FreezeThread
  <2>8. ASSUME NEW tg, NEW b, MH_CreateHook(tg, b) PROVE FALSE
    BY <1>1, <2>8 DEF MH_CreateHook
  <2>9. ASSUME NEW tgs, NEW enable, QueueHook(tgs, enable) PROVE FALSE
    BY <1>1, <2>9 DEF QueueHook
  <2>10. QED
    BY <1>2, <2>1, <2>2, <2>3, <2>4, <2>5, <2>6, <2>7, <2>8, <2>9 DEF Library
<1>4. PICK k : k = NextEntry
  OBVIOUS
<1>5. /\ ~Free /\ call \in CallRec /\ call.todo # {} /\ call.todo \subseteq DOMAIN hooks
      /\ Books /\ Cleared
  BY <1>3 DEF Patch, FreezeIInv, TablesIInv, Pending
<1>6. k \in call.todo /\ k \in DOMAIN hooks
  BY <1>4, <1>5, NextIs
<1>7. PICK enable, jump :
         /\ enable = call.enable[k]
         /\ jump = IF ~enable THEN "none" ELSE IF hooks[k].patchAbove THEN "short" ELSE "long"
  OBVIOUS
<1>8. patched' = [patched EXCEPT ![hooks[k].target] = jump]
  BY <1>3, <1>4, <1>7 DEF Patch
<1>9. hooks[i].target = hooks[k].target /\ ~enable
  <2>1. DOMAIN patched = Targets /\ hooks[i].target \in Targets
    BY <1>5, HooksAre DEF Books, TableTypes
  <2>2. hooks[i].target = hooks[k].target
    BY <1>8, <2>1
  <2>3. jump = "none"
    BY <1>8, <2>1, <2>2
  <2>4. QED
    BY <1>7, <2>2, <2>3
<1>10. i = k
  BY <1>5, <1>6, <1>9 DEF Books, Once
<1>11. QED
  BY <1>5, <1>6, <1>7, <1>9, <1>10 DEF Cleared

(***************************************************************************)
(* The theorems.                                                           *)
(***************************************************************************)
\* The tables, where the threads are and what the call in progress will change fit together.
THEOREM FreezeInvariant == Spec => []FreezeIInv
<1>1. QED
  BY FreezeInit, FreezeStep, PTL DEF Spec

\* hook.c's EnableHookLL takes a jump out only when Freeze has moved everybody away who stood
\* on the long jump above the function or in its trampoline (ACTION_DISABLE, ACTION_APPLY_QUEUED),
\* the threads apart whose context it could not read or set.
THEOREM LeavesNobodyHolds == Spec => LeavesNobody
<1>1. FreezeIInv /\ [Next]_vars =>
        [\A i \in DOMAIN hooks :
            (patched[hooks[i].target] # "none" /\ patched'[hooks[i].target] = "none" /\ call.fn # "set")
            => \A t \in suspended \ call.unmoved :
                  /\ ip[t] # <<"above", hooks[i].target>>
                  /\ ~(ip[t][1] = "tramp" /\ ip[t][3] = hooks[i].slot /\ InTrampoline(ip[t]))]_vars
  <2>1. ASSUME FreezeIInv, [Next]_vars, NEW i \in DOMAIN hooks,
               patched[hooks[i].target] # "none", patched'[hooks[i].target] = "none", call.fn # "set",
               NEW t \in suspended \ call.unmoved
        PROVE  /\ ip[t] # <<"above", hooks[i].target>>
               /\ ~(ip[t][1] = "tramp" /\ ip[t][3] = hooks[i].slot /\ InTrampoline(ip[t]))
    BY <2>1, PatchLeaves DEF Stands
  <2>2. QED
    BY <2>1
<1>2. QED
  BY <1>1, FreezeInvariant, PTL DEF Spec, LeavesNobody

-----------------------------------------------------------------------------
(***************************************************************************)
(* The trampoline (CreateTrampolineFunction of trampoline.c): for every    *)
(* well-formed function, a copy it reports does what the instructions do   *)
(* that it was made from.  After each pass of the loop the copies follow   *)
(* one another, and jmpDest is behind every branch into the copied part,   *)
(* so that no instruction under such a branch has changed its length       *)
(* (Tracks).                                                               *)
(***************************************************************************)
\* What holds of 0 and passes to the next number holds up to L.
LEMMA UpTo ==
  ASSUME NEW L \in Nat, NEW S, 0 \in S, \A n \in 0 .. L - 1 : n \in S => n + 1 \in S
  PROVE  \A n \in 0 .. L : n \in S
<1> SUFFICES ASSUME \E n \in 0 .. L : n \notin S PROVE FALSE
  OBVIOUS
<1> DEFINE R == OpToRel(<, Nat)
           B == {n \in 0 .. L : n \notin S}
<1>1. B # {} /\ B \in SUBSET Nat
  OBVIOUS
<1>2. PICK n \in B : \A j \in B : <<j, n>> \notin R
  <2>1. IsWellFoundedOn(R, Nat)
    BY NatLessThanWellFounded
  <2> HIDE DEF R, B
  <2>2. QED
    BY <1>1, <2>1, WFMin
<1>3. n \in 0 .. L /\ n \notin S /\ n # 0
  BY <1>2
<1>4. n - 1 \in 0 .. L - 1 /\ n - 1 \in 0 .. L /\ n - 1 < n /\ n - 1 + 1 = n /\ n \in Nat /\ n - 1 \in Nat
  BY <1>3
<1>5. n - 1 \notin S
  BY <1>3, <1>4
<1>6. n - 1 \in B
  BY <1>4, <1>5
<1>7. <<n - 1, n>> \in R
  BY <1>4 DEF OpToRel
<1>8. QED
  BY <1>2, <1>6, <1>7

\* The recursive functions exist: what the loop has done after each instruction, ...
LEMMA CopyingIs ==
  ASSUME NEW p, NEW L \in Nat, Len(p.ins) = L
  PROVE  /\ DOMAIN Copying(p) = 0 .. L
         /\ Copying(p)[0] = Begin
         /\ \A n \in 1 .. L : Copying(p)[n] = Pass(Copying(p)[n - 1], p.ins[n])
<1> DEFINE Grown(f, n) == f = [i \in 0 .. n |-> IF i = 0 THEN Begin ELSE Pass(f[i - 1], p.ins[i])]
           S == {n \in 0 .. L : \E f : Grown(f, n)}
<1>1. 0 \in S
  <2>1. PICK f : f = [i \in 0 .. 0 |-> Begin]
    OBVIOUS
  <2>2. Grown(f, 0)
    BY <2>1
  <2> HIDE DEF Grown
  <2>3. QED
    BY <2>2
<1>2. ASSUME NEW n \in 0 .. L - 1, n \in S PROVE n + 1 \in S
  <2>1. PICK f : Grown(f, n)
    BY <1>2
  <2> DEFINE h == [i \in 0 .. n + 1 |-> IF i = n + 1 THEN Pass(f[n], p.ins[n + 1]) ELSE f[i]]
  <2>2. DOMAIN h = 0 .. n + 1
    OBVIOUS
  <2>3. ASSUME NEW i \in 0 .. n + 1
        PROVE  h[i] = IF i = 0 THEN Begin ELSE Pass(h[i - 1], p.ins[i])
    <3>1. CASE i = n + 1
      <4>1. i # 0 /\ i - 1 = n /\ n \in 0 .. n + 1 /\ n # n + 1
        BY <3>1
      <4>2. h[n] = f[n] /\ h[i] = Pass(f[n], p.ins[n + 1])
        BY <3>1, <4>1
      <4>3. QED
        BY <3>1, <4>1, <4>2
    <3>2. CASE i = 0
      <4>1. 0 # n + 1 /\ 0 \in 0 .. n
        OBVIOUS
      <4>2. f[0] = Begin
        BY <2>1, <4>1
      <4>3. QED
        BY <3>2, <4>1, <4>2
    <3>3. CASE i # n + 1 /\ i # 0
      <4>1. i \in 0 .. n /\ i - 1 \in 0 .. n + 1 /\ i - 1 # n + 1
        BY <3>3
      <4>2. h[i] = f[i] /\ h[i - 1] = f[i - 1]
        BY <3>3, <4>1
      <4>3. f[i] = Pass(f[i - 1], p.ins[i])
        BY <2>1, <3>3, <4>1
      <4>4. QED
        BY <3>3, <4>2, <4>3
    <3>4. QED
      BY <3>1, <3>2, <3>3
  <2>4. Grown(h, n + 1)
    <3> HIDE DEF h
    <3>1. h = [i \in 0 .. n + 1 |-> h[i]]
      BY <2>2 DEF h
    <3>2. QED
      BY <2>3, <3>1
  <2>5. n + 1 \in 0 .. L
    OBVIOUS
  <2> HIDE DEF h, Grown
  <2>6. QED
    BY <2>4, <2>5
<1>3. L \in S
  <2> HIDE DEF S
  <2>1. \A n \in 0 .. L - 1 : n \in S => n + 1 \in S
    BY <1>2
  <2>2. \A n \in 0 .. L : n \in S
    BY <1>1, <2>1, UpTo
  <2>3. QED
    BY <2>2
<1>4. \E f : Grown(f, L)
  BY <1>3
<1>5. Grown(Copying(p), L)
  BY <1>4 DEF Copying
<1>6. QED
  BY <1>5

\* ... and where each instruction begins.
LEMMA OffsetsAre ==
  ASSUME NEW p, NEW L \in Nat, Len(p.ins) = L
  PROVE  /\ DOMAIN Offsets(p) = 1 .. L + 1
         /\ Offsets(p)[1] = 0
         /\ \A n \in 1 .. L : Offsets(p)[n + 1] = Offsets(p)[n] + p.ins[n].len
<1> DEFINE Grown(f, n) == f = [i \in 1 .. n + 1 |-> IF i = 1 THEN 0 ELSE f[i - 1] + p.ins[i - 1].len]
           S == {n \in 0 .. L : \E f : Grown(f, n)}
<1>1. 0 \in S
  <2>1. PICK f : f = [i \in 1 .. 1 |-> 0]
    OBVIOUS
  <2>2. Grown(f, 0)
    BY <2>1
  <2> HIDE DEF Grown
  <2>3. QED
    BY <2>2
<1>2. ASSUME NEW n \in 0 .. L - 1, n \in S PROVE n + 1 \in S
  <2>1. PICK f : Grown(f, n)
    BY <1>2
  <2> DEFINE h == [i \in 1 .. n + 2 |-> IF i = n + 2 THEN f[n + 1] + p.ins[n + 1].len ELSE f[i]]
  <2>2. DOMAIN h = 1 .. n + 2
    OBVIOUS
  <2>3. ASSUME NEW i \in 1 .. n + 2
        PROVE  h[i] = IF i = 1 THEN 0 ELSE h[i - 1] + p.ins[i - 1].len
    <3>1. CASE i = n + 2
      <4>1. i # 1 /\ i - 1 = n + 1 /\ n + 1 \in 1 .. n + 2 /\ n + 1 # n + 2
        BY <3>1
      <4>2. h[n + 1] = f[n + 1] /\ h[i] = f[n + 1] + p.ins[n + 1].len
        BY <3>1, <4>1
      <4>3. QED
        BY <3>1, <4>1, <4>2
    <3>2. CASE i = 1
      <4>1. 1 # n + 2 /\ 1 \in 1 .. n + 1
        OBVIOUS
      <4>2. f[1] = 0
        BY <2>1, <4>1
      <4>3. QED
        BY <3>2, <4>1, <4>2
    <3>3. CASE i # n + 2 /\ i # 1
      <4>1. i \in 1 .. n + 1 /\ i - 1 \in 1 .. n + 2 /\ i - 1 # n + 2
        BY <3>3
      <4>2. h[i] = f[i] /\ h[i - 1] = f[i - 1]
        BY <3>3, <4>1
      <4>3. f[i] = f[i - 1] + p.ins[i - 1].len
        BY <2>1, <3>3, <4>1
      <4>4. QED
        BY <3>3, <4>2, <4>3
    <3>4. QED
      BY <3>1, <3>2, <3>3
  <2>4. Grown(h, n + 1)
    <3> HIDE DEF h
    <3>1. h = [i \in 1 .. n + 2 |-> h[i]] /\ n + 1 + 1 = n + 2
      BY <2>2 DEF h
    <3>2. QED
      BY <2>3, <3>1
  <2>5. n + 1 \in 0 .. L
    OBVIOUS
  <2> HIDE DEF h, Grown
  <2>6. QED
    BY <2>4, <2>5
<1>3. L \in S
  <2> HIDE DEF S
  <2>1. \A n \in 0 .. L - 1 : n \in S => n + 1 \in S
    BY <1>2
  <2>2. \A n \in 0 .. L : n \in S
    BY <1>1, <2>1, UpTo
  <2>3. QED
    BY <2>2
<1>4. \E f : Grown(f, L)
  BY <1>3
<1>5. Grown(Offsets(p), L)
  <2>1. L + 1 = Len(p.ins) + 1
    OBVIOUS
  <2>2. QED
    BY <1>4, <2>1 DEF Offsets
<1>6. ASSUME NEW n \in 1 .. L PROVE Offsets(p)[n + 1] = Offsets(p)[n] + p.ins[n].len
  <2>1. n + 1 \in 1 .. L + 1 /\ n + 1 # 1 /\ n + 1 - 1 = n
    OBVIOUS
  <2>2. QED
    BY <1>5, <2>1
<1>7. DOMAIN Offsets(p) = 1 .. L + 1 /\ Offsets(p)[1] = 0
  <2>1. 1 \in 1 .. L + 1
    OBVIOUS
  <2>2. QED
    BY <1>5, <2>1
<1>8. QED
  BY <1>6, <1>7


-----------------------------------------------------------------------------
(* The instructions of a function. *)
LEMMA InstructionsAre ==
  ASSUME NEW p, WellFormed(p)
  PROVE  /\ Len(p.ins) \in Nat /\ DOMAIN p.ins = 1 .. Len(p.ins)
         /\ \A i \in 1 .. Len(p.ins) : /\ p.ins[i] \in [op : Operations, len : Nat \ {0}, to : Int]
                                       /\ p.ins[i].op \in Operations /\ p.ins[i].to \in Int
                                       /\ p.ins[i].len \in Nat /\ p.ins[i].len > 0
                                       /\ CopySize(p.ins[i]) \in Nat /\ CopySize(p.ins[i]) > 0
<1>1. p.ins \in Seq([op : Operations, len : Nat \ {0}, to : Int])
  BY DEF WellFormed
<1>2. Len(p.ins) \in Nat /\ DOMAIN p.ins = 1 .. Len(p.ins)
  BY <1>1, LenProperties
<1>3. ASSUME NEW i \in 1 .. Len(p.ins) PROVE p.ins[i] \in [op : Operations, len : Nat \ {0}, to : Int]
  BY <1>1, <1>2, ElementOfSeq
<1>4. ASSUME NEW i \in 1 .. Len(p.ins)
      PROVE  /\ p.ins[i].op \in Operations /\ p.ins[i].to \in Int
             /\ p.ins[i].len \in Nat /\ p.ins[i].len > 0
  BY <1>3
<1>5. ASSUME NEW i \in 1 .. Len(p.ins) PROVE CopySize(p.ins[i]) \in Nat /\ CopySize(p.ins[i]) > 0
  BY <1>4 DEF CopySize, JMP_REL, JCC_REL
<1>6. QED
  BY <1>2, <1>3, <1>4, <1>5

\* Instructions follow one another.
LEMMA OffsetsGrow ==
  ASSUME NEW p, WellFormed(p)
  PROVE  /\ OffsetOf(p, 1) = 0
         /\ \A i \in 1 .. Len(p.ins) : OffsetOf(p, i + 1) = OffsetOf(p, i) + p.ins[i].len
         /\ \A i \in 1 .. Len(p.ins) + 1 : OffsetOf(p, i) \in Nat
         /\ \A i, j \in 1 .. Len(p.ins) + 1 : i < j => OffsetOf(p, i) < OffsetOf(p, j)
<1> DEFINE L == Len(p.ins)
           S == {n \in 0 .. L : /\ OffsetOf(p, n + 1) \in Nat
                                /\ \A i \in 1 .. n : OffsetOf(p, i) \in Nat /\ OffsetOf(p, i) < OffsetOf(p, n + 1)}
<1>1. L \in Nat /\ \A i \in 1 .. L : p.ins[i].len \in Nat /\ p.ins[i].len > 0
  BY InstructionsAre
<1> HIDE DEF L
<1>2. OffsetOf(p, 1) = 0 /\ \A i \in 1 .. L : OffsetOf(p, i + 1) = OffsetOf(p, i) + p.ins[i].len
  BY <1>1, OffsetsAre DEF OffsetOf, L
<1>3. 0 \in S
  BY <1>1, <1>2
<1>4. ASSUME NEW n \in 0 .. L - 1, n \in S PROVE n + 1 \in S
  <2>1. /\ n + 1 \in 1 .. L /\ n + 1 \in 0 .. L
        /\ p.ins[n + 1].len \in Nat /\ p.ins[n + 1].len > 0
        /\ OffsetOf(p, n + 2) = OffsetOf(p, n + 1) + p.ins[n + 1].len /\ n + 1 + 1 = n + 2
    <3>1. n + 1 \in 1 .. L /\ n + 1 \in 0 .. L /\ n + 1 + 1 = n + 2
      BY <1>1
    <3>2. QED
      BY <1>1, <1>2, <3>1
  <2>2. OffsetOf(p, n + 1) \in Nat /\ \A i \in 1 .. n : OffsetOf(p, i) \in Nat /\ OffsetOf(p, i) < OffsetOf(p, n + 1)
    BY <1>4
  <2>3. OffsetOf(p, n + 2) \in Nat /\ OffsetOf(p, n + 1) < OffsetOf(p, n + 2)
    BY <2>1, <2>2
  <2>4. ASSUME NEW i \in 1 .. n + 1 PROVE OffsetOf(p, i) \in Nat /\ OffsetOf(p, i) < OffsetOf(p, n + 2)
    <3>1. CASE i = n + 1
      BY <2>2, <2>3, <3>1
    <3>2. CASE i # n + 1
      <4>1. i \in 1 .. n
        BY <3>2
      <4>2. QED
        BY <2>2, <2>3, <4>1
    <3>3. QED
      BY <3>1, <3>2
  <2>5. QED
    BY <2>1, <2>3, <2>4
<1>5. \A n \in 0 .. L : n \in S
  <2> HIDE DEF S
  <2>1. \A n \in 0 .. L - 1 : n \in S => n + 1 \in S
    BY <1>4
  <2>2. QED
    BY <1>1, <1>3, <2>1, UpTo
<1>6. ASSUME NEW i \in 1 .. L + 1 PROVE OffsetOf(p, i) \in Nat
  <2>1. i - 1 \in 0 .. L /\ i - 1 + 1 = i
    BY <1>1
  <2>2. QED
    BY <1>5, <2>1
<1>7. ASSUME NEW i \in 1 .. L + 1, NEW j \in 1 .. L + 1, i < j PROVE OffsetOf(p, i) < OffsetOf(p, j)
  <2>1. j - 1 \in 0 .. L /\ j - 1 + 1 = j /\ i \in 1 .. j - 1
    BY <1>1, <1>7
  <2>2. QED
    BY <1>5, <2>1
<1>8. QED
  BY <1>2, <1>6, <1>7 DEF L

LEMMA InstructionAt ==
  ASSUME NEW p, WellFormed(p), NEW i \in 1 .. Len(p.ins)
  PROVE  InsAt(p, OffsetOf(p, i)) = p.ins[i]
<1>1. DOMAIN p.ins = 1 .. Len(p.ins) /\ Len(p.ins) \in Nat
  BY InstructionsAre
<1>2. ASSUME NEW j \in DOMAIN p.ins, OffsetOf(p, j) = OffsetOf(p, i) PROVE j = i
  <2>1. i \in 1 .. Len(p.ins) + 1 /\ j \in 1 .. Len(p.ins) + 1
    BY <1>1
  <2>2. OffsetOf(p, i) \in Nat /\ OffsetOf(p, j) \in Nat
    BY <2>1, OffsetsGrow
  <2>3. /\ i < j => OffsetOf(p, i) < OffsetOf(p, j)
        /\ j < i => OffsetOf(p, j) < OffsetOf(p, i)
    BY <2>1, OffsetsGrow
  <2>4. QED
    BY <1>2, <2>1, <2>2, <2>3
<1>3. QED
  BY <1>1, <1>2 DEF InsAt

-----------------------------------------------------------------------------
\* Leaves the function, or at least the copied part.
Leaves(ins) == ins.op = "ret" \/ (ins.op = "jmp" /\ Far(ins))

\* Both sides of the m instructions that s has copied.
Measures(p, s, m) ==
    /\ m \in 0 .. Len(p.ins)
    /\ s.ips \in Seq([old : Nat, new : Nat]) /\ Len(s.ips) = m
    /\ s.old = OffsetOf(p, m + 1) /\ s.new \in Nat /\ s.jmpDest \in Nat
    /\ \A k \in 1 .. m : s.ips[k].old = OffsetOf(p, k)
    /\ m = 0 => s.new = 0
    /\ m > 0 => s.ips[1].new = 0

Grows(p, s, m) ==
    /\ \A k \in 1 .. m - 1 : s.ips[k + 1].new = s.ips[k].new + CopySize(p.ins[k])
    /\ \A k \in 1 .. m - 1 : OffsetOf(p, k) < JMP_REL

\* jmpDest is behind every copied branch, and no instruction under one changes its length.
Guards(p, s, m) ==
    \A k \in 1 .. m : OffsetOf(p, k) < JMP_REL /\ Internal(p.ins[k]) =>
        /\ p.ins[k].to <= s.jmpDest
        /\ \A i \in k .. m : OffsetOf(p, i) < p.ins[k].to => CopySize(p.ins[i]) = p.ins[i].len

Ends(p, s, m) ==
    /\ s.state = "copying" =>
          /\ m > 0 => OffsetOf(p, m) < JMP_REL /\ s.new = s.ips[m].new + CopySize(p.ins[m])
    /\ s.state = "finished" =>
          /\ m > 0
          /\ OffsetOf(p, m) < JMP_REL =>
                /\ Leaves(p.ins[m])
                /\ \A k \in 1 .. m : Internal(p.ins[k]) => p.ins[k].to <= OffsetOf(p, m)

Tracks(p, s, m) == Measures(p, s, m) /\ Grows(p, s, m) /\ Guards(p, s, m) /\ Ends(p, s, m)

LEMMA BeginTracks ==
  ASSUME NEW p, WellFormed(p)
  PROVE  Tracks(p, Begin, 0)
<1>1. Len(p.ins) \in Nat /\ OffsetOf(p, 1) = 0
  BY InstructionsAre, OffsetsGrow
<1>2. Begin.ips = <<>> /\ Len(<<>>) = 0 /\ <<>> \in Seq([old : Nat, new : Nat])
  BY DEF Begin
<1>3. QED
  BY <1>1, <1>2 DEF Tracks, Measures, Grows, Guards, Ends, Begin

LEMMA PassTracks ==
  ASSUME NEW p, WellFormed(p), NEW m, NEW s, Tracks(p, s, m), m < Len(p.ins), s.state = "copying",
         NEW r, r = CopyOne(s, p.ins[m + 1]), r.state # "refused"
  PROVE  Tracks(p, r, m + 1) /\ r.state \in {"copying", "finished"}
<1> DEFINE ins == p.ins[m + 1]
           back == s.old >= JMP_REL
           dest == IF ~back /\ Internal(ins) /\ ins.to > s.jmpDest THEN ins.to ELSE s.jmpDest
           size == IF back THEN JMP_REL ELSE CopySize(ins)
           leaves == ins.op = "ret" \/ (ins.op = "jmp" /\ Far(ins))
           refused == \/ ins.op = "bad"
                      \/ ~back /\ ins.op = "loop" /\ Far(ins)
                      \/ s.old < dest /\ size # ins.len
                      \/ s.new + size > TRAMPOLINE_MAX_SIZE
                      \/ Len(s.ips) >= MAX_IPS
           one == [old |-> s.old, new |-> s.new]
<1>1. /\ m \in Nat /\ m + 1 \in 1 .. Len(p.ins) /\ m + 1 \in Nat /\ m + 1 \in 0 .. Len(p.ins)
      /\ m + 2 \in 1 .. Len(p.ins) + 1 /\ m + 1 + 1 = m + 2 /\ (m + 1) - 1 = m /\ Len(p.ins) \in Nat
  BY InstructionsAre DEF Tracks, Measures
<1>2. /\ s.ips \in Seq([old : Nat, new : Nat]) /\ Len(s.ips) = m
      /\ s.old = OffsetOf(p, m + 1) /\ s.new \in Nat /\ s.jmpDest \in Nat
  BY DEF Tracks, Measures, Grows, Guards, Ends
<1>3. /\ ins.to \in Int /\ ins.len \in Nat /\ ins.len > 0 /\ CopySize(ins) \in Nat /\ CopySize(ins) > 0
  BY <1>1, InstructionsAre
<1>4. /\ s.old \in Nat /\ OffsetOf(p, m + 2) = s.old + ins.len
      /\ \A i \in 1 .. Len(p.ins) + 1 : OffsetOf(p, i) \in Nat
  <2>1. m + 1 \in 1 .. Len(p.ins) + 1
    BY <1>1
  <2>2. QED
    BY <1>1, <1>2, <2>1, OffsetsGrow
<1>5. ~refused
  <2>1. refused => r = [s EXCEPT !.state = "refused"]
    BY DEF CopyOne
  <2>2. QED
    BY <2>1 DEF CopyOne
<1>6. r = [state |-> IF back \/ (leaves /\ s.old >= s.jmpDest) THEN "finished" ELSE "copying",
           old |-> s.old + ins.len, new |-> s.new + size, jmpDest |-> dest, ips |-> Append(s.ips, one)]
  BY <1>5 DEF CopyOne
<1>7. /\ dest \in Nat /\ dest >= s.jmpDest /\ ~back /\ Internal(ins) => ins.to <= dest
      /\ dest \in Nat /\ dest >= s.jmpDest
  BY <1>2, <1>3 DEF Internal, JMP_REL
<1>8. size \in Nat /\ (~back => size = CopySize(ins))
  BY <1>3 DEF JMP_REL
<1>9. s.old < dest => size = ins.len
  BY <1>5
<1>10. /\ r.ips \in Seq([old : Nat, new : Nat]) /\ Len(r.ips) = m + 1 /\ r.ips[m + 1] = one
       /\ \A k \in 1 .. m : r.ips[k] = s.ips[k]
  <2>1. r.ips = Append(s.ips, one) /\ one \in [old : Nat, new : Nat]
    BY <1>2, <1>4, <1>6
  <2> HIDE DEF one
  <2>2. QED
    BY <1>1, <1>2, <2>1, AppendProperties
<1>11. one.old = s.old /\ one.new = s.new
  OBVIOUS
<1>12. /\ r.old = s.old + ins.len /\ r.new = s.new + size /\ r.jmpDest = dest
       /\ r.state = IF back \/ (leaves /\ s.old >= s.jmpDest) THEN "finished" ELSE "copying"
  BY <1>6
<1>13. leaves <=> Leaves(ins)
  BY DEF Leaves
<1>14. /\ \A k \in 1 .. m : s.ips[k].old = OffsetOf(p, k)
       /\ m = 0 => s.new = 0
       /\ m > 0 => s.ips[1].new = 0
       /\ \A k \in 1 .. m - 1 : s.ips[k + 1].new = s.ips[k].new + CopySize(p.ins[k])
       /\ \A k \in 1 .. m - 1 : OffsetOf(p, k) < JMP_REL
       /\ m > 0 => OffsetOf(p, m) < JMP_REL /\ s.new = s.ips[m].new + CopySize(p.ins[m])
  BY DEF Tracks, Measures, Grows, Guards, Ends
<1>15. \A k \in 1 .. m : OffsetOf(p, k) < JMP_REL /\ Internal(p.ins[k]) =>
          /\ p.ins[k].to <= s.jmpDest
          /\ \A i \in k .. m : OffsetOf(p, i) < p.ins[k].to => CopySize(p.ins[i]) = p.ins[i].len
  BY DEF Tracks, Measures, Grows, Guards, Ends
<1> HIDE DEF dest, size, leaves, refused, one
<1>16. \A k \in 1 .. m : OffsetOf(p, k) < JMP_REL
  <2> SUFFICES ASSUME NEW k \in 1 .. m PROVE OffsetOf(p, k) < JMP_REL
    OBVIOUS
  <2>1. (k = m /\ m > 0) \/ k \in 1 .. m - 1
    BY <1>1
  <2>2. QED
    BY <1>14, <2>1
<1>17. \A k \in 1 .. m + 1 : r.ips[k].old = OffsetOf(p, k)
  <2> SUFFICES ASSUME NEW k \in 1 .. m + 1 PROVE r.ips[k].old = OffsetOf(p, k)
    OBVIOUS
  <2>1. CASE k \in 1 .. m
    BY <1>10, <1>14, <2>1
  <2>2. CASE k = m + 1
    BY <1>2, <1>10, <1>11, <2>2
  <2>3. QED
    BY <1>1, <2>1, <2>2
<1>18. r.ips[1].new = 0
  <2>1. CASE m = 0
    BY <1>1, <1>10, <1>11, <1>14, <2>1
  <2>2. CASE m > 0
    <3>1. 1 \in 1 .. m
      BY <1>1, <2>2
    <3>2. QED
      BY <1>10, <1>14, <2>2, <3>1
  <2>3. QED
    BY <1>1, <2>1, <2>2
<1>19. \A k \in 1 .. m : r.ips[k + 1].new = r.ips[k].new + CopySize(p.ins[k])
  <2> SUFFICES ASSUME NEW k \in 1 .. m PROVE r.ips[k + 1].new = r.ips[k].new + CopySize(p.ins[k])
    OBVIOUS
  <2>1. CASE k = m
    <3>1. m > 0 /\ r.ips[k + 1].new = s.new /\ r.ips[k].new = s.ips[m].new
      <4>1. m > 0 /\ m \in 1 .. m /\ k + 1 = m + 1
        BY <1>1, <2>1
      <4>2. r.ips[m + 1].new = s.new /\ r.ips[k + 1] = r.ips[m + 1]
        BY <4>1, <1>10, <1>11
      <4>3. r.ips[m] = s.ips[m]
        BY ONLY <4>1, <1>10
      <4>4. r.ips[k].new = s.ips[m].new
        BY ONLY <4>3, <2>1
      <4>5. QED
        BY ONLY <4>1, <4>2, <4>4
    <3>2. s.new = s.ips[m].new + CopySize(p.ins[m])
      BY ONLY <3>1, <1>14
    <3>3. r.ips[k + 1].new = s.ips[m].new + CopySize(p.ins[m])
      BY ONLY <3>1, <3>2
    <3>4. CopySize(p.ins[k]) = CopySize(p.ins[m])
      BY ONLY <2>1
    <3>5. QED
      BY ONLY <3>1, <3>3, <3>4
  <2>2. CASE k # m
    <3>1. k \in 1 .. m - 1 /\ k + 1 \in 1 .. m
      BY <1>1, <2>2
    <3>2. QED
      BY <1>10, <1>14, <3>1
  <2>3. QED
    BY <2>1, <2>2
<1>20. ASSUME NEW k \in 1 .. m + 1, OffsetOf(p, k) < JMP_REL, Internal(p.ins[k])
       PROVE  p.ins[k].to <= dest
  <2>1. CASE k \in 1 .. m
    <3>1. p.ins[k].to <= s.jmpDest /\ k \in 1 .. Len(p.ins)
      <4>1. k \in 1 .. Len(p.ins)
        BY ONLY <1>1, <2>1
      <4>2. p.ins[k].to <= s.jmpDest
        BY ONLY <1>15, <1>20, <2>1
      <4>3. QED
        BY <4>1, <4>2
    <3>2. p.ins[k].to \in Int
      BY <3>1, InstructionsAre
    <3>3. QED
      BY <1>2, <1>7, <3>1, <3>2
  <2>2. CASE k = m + 1
    <3>1. ~back /\ Internal(ins)
      BY <1>2, <1>4, <1>20, <2>2 DEF JMP_REL
    <3>2. QED
      BY <1>7, <2>2, <3>1
  <2>3. QED
    BY <1>1, <2>1, <2>2
<1>21. ASSUME NEW k \in 1 .. m + 1, OffsetOf(p, k) < JMP_REL, Internal(p.ins[k]),
              NEW i \in k .. m + 1, OffsetOf(p, i) < p.ins[k].to
       PROVE  CopySize(p.ins[i]) = p.ins[i].len
  <2>1. CASE i \in 1 .. m
    <3>1. k \in 1 .. m /\ i \in k .. m
      BY <1>1, <2>1
    <3>2. QED
      BY <1>15, <1>21, <3>1
  <2>2. CASE i = m + 1
    <3>1. p.ins[k].to \in 0 .. JMP_REL - 1
      BY <1>21 DEF Internal
    <3>2. s.old < p.ins[k].to /\ p.ins[k].to <= dest
      BY <1>2, <1>20, <1>21, <2>2
    <3>3. s.old < dest /\ ~back
      BY ONLY <1>4, <1>7, <3>1, <3>2 DEF JMP_REL
    <3>4. QED
      BY <1>8, <1>9, <2>2, <3>3
  <2>3. QED
    BY <1>1, <2>1, <2>2
<1>22. r.state = "copying" => OffsetOf(p, m + 1) < JMP_REL /\ r.new = r.ips[m + 1].new + CopySize(ins)
  <2>1. r.state = "copying" => ~back
    BY <1>12
  <2>2. ~back => OffsetOf(p, m + 1) < JMP_REL
    BY <1>2, <1>4 DEF JMP_REL
  <2>3. r.ips[m + 1].new = s.new
    BY <1>10, <1>11
  <2>4. QED
    BY <1>8, <1>12, <2>1, <2>2, <2>3
<1>23. ASSUME r.state = "finished", OffsetOf(p, m + 1) < JMP_REL
       PROVE  /\ Leaves(ins)
              /\ \A k \in 1 .. m + 1 : Internal(p.ins[k]) => p.ins[k].to <= OffsetOf(p, m + 1)
  <2>1. ~back
    BY <1>2, <1>4, <1>23 DEF JMP_REL
  <2>2. Leaves(ins) /\ s.old >= s.jmpDest
    BY <1>12, <1>13, <1>23, <2>1
  <2>3. ~Internal(ins)
    BY <2>2 DEF Leaves, Far, Internal, Branches
  <2>4. ASSUME NEW k \in 1 .. m + 1, Internal(p.ins[k]) PROVE p.ins[k].to <= OffsetOf(p, m + 1)
    <3>1. k \in 1 .. m
      BY <1>1, <2>3, <2>4
    <3>2. p.ins[k].to <= s.jmpDest /\ p.ins[k].to \in Int
      BY <1>15, <1>16, <2>4, <3>1 DEF Internal, JMP_REL
    <3>3. QED
      BY <1>2, <1>4, <2>2, <3>2
  <2>5. QED
    BY <2>2, <2>4
<1>24. r.state \in {"copying", "finished"}
  BY <1>12
<1>25. r.old = OffsetOf(p, m + 1 + 1) /\ r.new \in Nat /\ r.jmpDest \in Nat
  BY <1>1, <1>2, <1>4, <1>7, <1>8, <1>12
<1>26. \A k \in 1 .. (m + 1) - 1 : OffsetOf(p, k) < JMP_REL
  BY <1>1, <1>16
<1>27. \A k \in 1 .. (m + 1) - 1 : r.ips[k + 1].new = r.ips[k].new + CopySize(p.ins[k])
  BY <1>1, <1>19
<1>28. \A k \in 1 .. m + 1 : OffsetOf(p, k) < JMP_REL /\ Internal(p.ins[k]) =>
          /\ p.ins[k].to <= r.jmpDest
          /\ \A i \in k .. m + 1 : OffsetOf(p, i) < p.ins[k].to => CopySize(p.ins[i]) = p.ins[i].len
  BY <1>12, <1>20, <1>21
<1>29. /\ m + 1 \in 0 .. Len(p.ins) /\ m + 1 > 0
       /\ m + 1 = 0 => r.new = 0
       /\ m + 1 > 0 => r.ips[1].new = 0
       /\ r.ips \in Seq([old : Nat, new : Nat]) /\ Len(r.ips) = m + 1
  <2>1. m + 1 \in 0 .. Len(p.ins) /\ m + 1 > 0 /\ m + 1 # 0
    BY ONLY <1>1
  <2>2. QED
    BY ONLY <1>10, <1>18, <2>1
<1>30. Measures(p, r, m + 1)
  BY <1>17, <1>25, <1>29 DEF Measures
<1>31. Grows(p, r, m + 1) /\ Guards(p, r, m + 1)
  BY ONLY <1>26, <1>27, <1>28, Zenon DEF Grows, Guards
<1>32. Ends(p, r, m + 1)
  BY <1>22, <1>23, <1>29 DEF Ends
<1>33. QED
  BY <1>24, <1>30, <1>31, <1>32 DEF Tracks

LEMMA CopyTracks ==
  ASSUME NEW p, WellFormed(p), Copy(p).state = "finished"
  PROVE  Tracks(p, Copy(p), Len(Copy(p).ips))
<1> DEFINE L == Len(p.ins)
           St(n) == Copying(p)[n]
           S == {n \in 0 .. L : /\ St(n).state # "refused" => /\ \E m \in 0 .. n : Tracks(p, St(n), m)
                                                             /\ St(n).state \in {"copying", "finished"}
                                /\ St(n).state = "copying" => Tracks(p, St(n), n)}
<1>1. L \in Nat /\ St(0) = Begin /\ \A n \in 1 .. L : St(n) = Pass(St(n - 1), p.ins[n])
  BY InstructionsAre, CopyingIs
<1>2. 0 \in S
  <2>1. Tracks(p, St(0), 0) /\ St(0).state = "copying"
    BY <1>1, BeginTracks DEF Begin
  <2>2. 0 \in 0 .. L /\ 0 \in 0 .. 0
    BY <1>1
  <2> HIDE DEF St
  <2>3. QED
    BY <2>1, <2>2
<1>3. ASSUME NEW n \in 0 .. L - 1, n \in S PROVE n + 1 \in S
  <2>1. /\ n + 1 \in 1 .. L /\ n + 1 \in 0 .. L /\ n < L /\ n + 1 - 1 = n /\ n + 1 \in 0 .. n + 1
        /\ 0 .. n \subseteq 0 .. n + 1
    BY <1>1
  <2>2. St(n + 1) = Pass(St(n), p.ins[n + 1])
    <3> HIDE DEF St
    <3>1. QED
      BY <1>1, <2>1
  <2> HIDE DEF St
  <2>3. CASE St(n).state # "copying"
    <3>1. St(n + 1) = St(n)
      BY <2>2, <2>3 DEF Pass
    <3>2. QED
      BY <1>3, <2>1, <2>3, <3>1
  <2>4. CASE St(n).state = "copying"
    <3>1. Tracks(p, St(n), n) /\ St(n + 1) = CopyOne(St(n), p.ins[n + 1])
      BY <1>3, <2>2, <2>4 DEF Pass
    <3>2. CASE St(n + 1).state = "refused"
      BY <2>1, <3>2
    <3>3. CASE St(n + 1).state # "refused"
      <4>1. Tracks(p, St(n + 1), n + 1) /\ St(n + 1).state \in {"copying", "finished"}
        BY <2>1, <2>4, <3>1, <3>3, PassTracks DEF L
      <4>2. QED
        BY <2>1, <4>1
    <3>4. QED
      BY <3>2, <3>3
  <2>5. QED
    BY <2>3, <2>4
<1>4. L \in S
  <2> HIDE DEF S, L
  <2>1. \A n \in 0 .. L - 1 : n \in S => n + 1 \in S
    BY <1>3
  <2>2. \A n \in 0 .. L : n \in S
    BY <1>1, <1>2, <2>1, UpTo
  <2>3. QED
    BY <1>1, <2>2
<1>5. St(L) = Copy(p)
  BY DEF Copy
<1> HIDE DEF St, L
<1>6. PICK m \in 0 .. L : Tracks(p, Copy(p), m)
  BY <1>4, <1>5
<1>7. m = Len(Copy(p).ips)
  BY <1>6 DEF Tracks, Measures
<1>8. QED
  BY <1>6, <1>7

-----------------------------------------------------------------------------
\* The boundaries of a trampoline, as they are in the end.
Bounds(p, ips, m) ==
    /\ m \in 1 .. Len(p.ins) /\ DOMAIN ips = 1 .. m
    /\ \A k \in 1 .. m : ips[k] \in [old : Nat, new : Nat] /\ ips[k].old = OffsetOf(p, k)
    /\ ips[1].new = 0
    /\ \A k \in 1 .. m - 1 : ips[k + 1].new = ips[k].new + CopySize(p.ins[k])
    /\ \A k \in 1 .. m - 1 : OffsetOf(p, k) < JMP_REL
    /\ \A k \in 1 .. m : OffsetOf(p, k) < JMP_REL /\ Internal(p.ins[k]) =>
          \A i \in k .. m : OffsetOf(p, i) < p.ins[k].to => CopySize(p.ins[i]) = p.ins[i].len
    /\ OffsetOf(p, m) < JMP_REL =>
          /\ Leaves(p.ins[m])
          /\ \A k \in 1 .. m : Internal(p.ins[k]) => p.ins[k].to <= OffsetOf(p, m)

LEMMA CopiedAre ==
  ASSUME NEW p, WellFormed(p), Copy(p).state = "finished", NEW ips, ips = Copy(p).ips, NEW m, m = Len(ips)
  PROVE  Bounds(p, ips, m)
<1> DEFINE s == Copy(p)
<1>1. Tracks(p, s, m)
  BY CopyTracks
<1>2. s.state = "finished" /\ s.ips = ips
  OBVIOUS
<1> HIDE DEF s
<1>3. m > 0 /\ m \in 0 .. Len(p.ins) /\ Len(p.ins) \in Nat
  BY <1>1, <1>2, InstructionsAre DEF Tracks, Measures, Ends
<1>4. m \in 1 .. Len(p.ins)
  BY <1>3
<1>5. /\ ips \in Seq([old : Nat, new : Nat]) /\ \A k \in 1 .. m : ips[k].old = OffsetOf(p, k)
      /\ ips[1].new = 0
  BY <1>1, <1>2, <1>3 DEF Tracks, Measures
<1>6. DOMAIN ips = 1 .. m /\ \A k \in 1 .. m : ips[k] \in [old : Nat, new : Nat]
  BY <1>5, LenProperties, ElementOfSeq
<1>7. /\ \A k \in 1 .. m - 1 : ips[k + 1].new = ips[k].new + CopySize(p.ins[k])
      /\ \A k \in 1 .. m - 1 : OffsetOf(p, k) < JMP_REL
  BY <1>1, <1>2 DEF Tracks, Grows
<1>8. \A k \in 1 .. m : OffsetOf(p, k) < JMP_REL /\ Internal(p.ins[k]) =>
         \A i \in k .. m : OffsetOf(p, i) < p.ins[k].to => CopySize(p.ins[i]) = p.ins[i].len
  BY <1>1, <1>2 DEF Tracks, Guards
<1>9. OffsetOf(p, m) < JMP_REL =>
         /\ Leaves(p.ins[m])
         /\ \A k \in 1 .. m : Internal(p.ins[k]) => p.ins[k].to <= OffsetOf(p, m)
  BY <1>1, <1>2 DEF Tracks, Ends
<1>10. QED
  BY <1>4, <1>5, <1>6, <1>7, <1>8, <1>9 DEF Bounds

\* Copies follow one another, so that an offset of the trampoline is in one of them at most.
LEMMA CopiesGrow ==
  ASSUME NEW p, WellFormed(p), Copy(p).state = "finished", NEW ips, ips = Copy(p).ips, NEW m, m = Len(ips),
         NEW i \in 1 .. m, NEW j \in 1 .. m, i < j
  PROVE  ips[i].new < ips[j].new
<1> DEFINE S == {n \in 0 .. m - 1 : \A k \in 1 .. n : ips[k].new < ips[n + 1].new}
<1>1. /\ m \in 1 .. Len(p.ins) /\ \A k \in 1 .. m : ips[k] \in [old : Nat, new : Nat]
      /\ \A k \in 1 .. m - 1 : ips[k + 1].new = ips[k].new + CopySize(p.ins[k])
  <2>1. Bounds(p, ips, m)
    BY CopiedAre
  <2>2. QED
    BY <2>1 DEF Bounds
<1>2. m \in Nat /\ Len(p.ins) \in Nat
  BY <1>1, InstructionsAre
<1>3. i \in 1 .. m /\ j \in 1 .. m
  OBVIOUS
<1>4. 0 \in S
  BY <1>1, <1>2
<1>5. ASSUME NEW n \in 0 .. (m - 1) - 1, n \in S PROVE n + 1 \in S
  <2>1. n + 1 \in 1 .. m - 1 /\ n + 1 \in 1 .. m /\ n + 2 \in 1 .. m /\ n + 1 + 1 = n + 2 /\ n + 1 \in 0 .. m - 1
    BY <1>2
  <2>2. n + 1 \in 1 .. Len(p.ins)
    BY <1>1, <1>2, <2>1
  <2>3. ips[n + 2].new = ips[n + 1].new + CopySize(p.ins[n + 1])
    BY <1>1, <2>1
  <2>4. CopySize(p.ins[n + 1]) \in Nat /\ CopySize(p.ins[n + 1]) > 0
    BY <2>2, InstructionsAre
  <2>5. ips[n + 1].new \in Nat
    BY <1>1, <2>1
  <2>6. ips[n + 1].new < ips[n + 2].new /\ ips[n + 2].new \in Nat
    BY ONLY <2>3, <2>4, <2>5
  <2>7. ASSUME NEW k \in 1 .. n + 1 PROVE ips[k].new < ips[n + 2].new
    <3>1. CASE k = n + 1
      BY <2>6, <3>1
    <3>2. CASE k # n + 1
      <4>1. k \in 1 .. n /\ k \in 1 .. m
        BY <1>2, <3>2
      <4>2. ips[k].new < ips[n + 1].new /\ ips[k].new \in Nat
        BY <1>1, <1>5, <4>1
      <4>3. QED
        BY <2>5, <2>6, <4>2
    <3>3. QED
      BY <3>1, <3>2
  <2>8. QED
    BY <2>1, <2>7
<1>6. j - 1 \in S
  <2> HIDE DEF S
  <2>1. m - 1 \in Nat /\ j - 1 \in 0 .. m - 1
    BY <1>1, <1>2, <1>3
  <2>2. \A n \in 0 .. (m - 1) - 1 : n \in S => n + 1 \in S
    BY <1>5
  <2>3. \A n \in 0 .. m - 1 : n \in S
    BY <1>4, <2>1, <2>2, UpTo
  <2>4. QED
    BY <2>1, <2>3
<1>7. i \in 1 .. j - 1 /\ j - 1 + 1 = j
  BY <1>2, <1>3
<1>8. QED
  BY <1>6, <1>7

\* Where no copy is longer, copies are as far apart as the instructions.
LEMMA CopiesEven ==
  ASSUME NEW p, WellFormed(p), Copy(p).state = "finished", NEW ips, ips = Copy(p).ips, NEW m, m = Len(ips),
         NEW i \in 1 .. m, NEW j \in 1 .. m, i <= j,
         \A k \in i .. j - 1 : CopySize(p.ins[k]) = p.ins[k].len
  PROVE  ips[j].new = ips[i].new + OffsetOf(p, j) - OffsetOf(p, i)
<1> DEFINE S == {n \in 0 .. j - i : ips[i + n].new = ips[i].new + OffsetOf(p, i + n) - OffsetOf(p, i)}
<1>1. /\ m \in 1 .. Len(p.ins) /\ \A k \in 1 .. m : ips[k] \in [old : Nat, new : Nat]
      /\ \A k \in 1 .. m - 1 : ips[k + 1].new = ips[k].new + CopySize(p.ins[k])
  <2>1. Bounds(p, ips, m)
    BY CopiedAre
  <2>2. QED
    BY <2>1 DEF Bounds
<1>2. m \in Nat /\ Len(p.ins) \in Nat
  BY <1>1, InstructionsAre
<1>3. i \in 1 .. m /\ j \in 1 .. m /\ j - i \in Nat
  OBVIOUS
<1>4. OffsetOf(p, i) \in Nat /\ ips[i].new \in Nat
  <2>1. i \in 1 .. Len(p.ins) + 1
    BY <1>1, <1>2, <1>3
  <2>2. QED
    BY <1>1, <1>3, <2>1, OffsetsGrow
<1>5. 0 \in S
  <2>1. i + 0 = i /\ 0 \in 0 .. j - i
    BY <1>3
  <2>2. QED
    BY <1>4, <2>1
<1>6. ASSUME NEW n \in 0 .. (j - i) - 1, n \in S PROVE n + 1 \in S
  <2>1. /\ n \in Nat /\ i + n \in i .. j - 1 /\ i + n \in 1 .. m - 1 /\ i + n \in 1 .. m
        /\ i + n + 1 = i + (n + 1) /\ n + 1 \in 0 .. j - i
    BY <1>2, <1>3
  <2>2. i + n \in 1 .. Len(p.ins) /\ i + n \in 1 .. Len(p.ins) + 1
    BY <1>1, <1>2, <2>1
  <2> DEFINE k == i + n
  <2> HIDE DEF k
  <2>3. /\ ips[k + 1].new = ips[k].new + CopySize(p.ins[k]) /\ ips[k].new \in Nat
        /\ CopySize(p.ins[k]) = p.ins[k].len
    <3>1. k \in i .. j - 1 /\ k \in 1 .. m - 1 /\ k \in 1 .. m
      BY <2>1 DEF k
    <3>2. QED
      BY <1>1, <3>1
  <2>4. OffsetOf(p, k + 1) = OffsetOf(p, k) + p.ins[k].len /\ OffsetOf(p, k) \in Nat
    BY <2>2, OffsetsGrow DEF k
  <2>5. p.ins[k].len \in Nat
    BY <2>2, InstructionsAre DEF k
  <2>6. ips[k].new = ips[i].new + OffsetOf(p, k) - OffsetOf(p, i)
    BY <1>6 DEF k
  <2>7. ips[k + 1].new = ips[i].new + OffsetOf(p, k + 1) - OffsetOf(p, i)
    BY ONLY <1>4, <2>3, <2>4, <2>5, <2>6
  <2>8. k + 1 = i + (n + 1)
    BY <2>1 DEF k
  <2>9. QED
    BY <2>1, <2>7, <2>8
<1>7. j - i \in S
  <2> HIDE DEF S
  <2>1. \A n \in 0 .. (j - i) - 1 : n \in S => n + 1 \in S
    BY <1>6
  <2>2. \A n \in 0 .. j - i : n \in S
    BY <1>3, <1>5, <2>1, UpTo
  <2>3. QED
    BY <1>3, <2>2
<1>8. i + (j - i) = j
  BY <1>2, <1>3
<1>9. QED
  BY <1>7, <1>8

\* The one copy at an offset of the trampoline.
LEMMA CopyAt ==
  ASSUME NEW p, WellFormed(p), Copy(p).state = "finished", NEW ips, ips = Copy(p).ips, NEW m, m = Len(ips),
         NEW k \in 1 .. m, NEW j \in 1 .. m, ips[k].new = ips[j].new
  PROVE  k = j
<1>1. Bounds(p, ips, m)
  BY CopiedAre
<1>2. ips[k].new \in Nat /\ ips[j].new \in Nat
  BY <1>1 DEF Bounds
<1>3. k < j => ips[k].new < ips[j].new
  BY CopiesGrow
<1>4. j < k => ips[j].new < ips[k].new
  BY CopiesGrow
<1>5. QED
  BY <1>2, <1>3, <1>4

\* Where a copied branch goes to, there is the copy of what the branch goes to.
LEMMA BranchCopied ==
  ASSUME NEW p, WellFormed(p), Copy(p).state = "finished", ~BackOverLonger(p),
         NEW ips, ips = Copy(p).ips, NEW m, m = Len(ips),
         NEW k \in 1 .. m, OffsetOf(p, k) < JMP_REL, Internal(p.ins[k])
  PROVE  \E j \in 1 .. m : /\ OffsetOf(p, j) = p.ins[k].to /\ ips[j].old = p.ins[k].to
                           /\ ips[j].new = ips[k].new + p.ins[k].to - ips[k].old
<1>1. Bounds(p, ips, m)
  BY CopiedAre
<1>2. /\ m \in 1 .. Len(p.ins) /\ Len(p.ins) \in Nat /\ DOMAIN p.ins = 1 .. Len(p.ins)
      /\ k \in 1 .. Len(p.ins)
  <2>1. m \in 1 .. Len(p.ins) /\ Len(p.ins) \in Nat /\ DOMAIN p.ins = 1 .. Len(p.ins)
    BY <1>1, InstructionsAre DEF Bounds
  <2>2. QED
    BY <2>1
<1>3. PICK j \in 1 .. Len(p.ins) : OffsetOf(p, j) = p.ins[k].to
  BY <1>2 DEF WellFormed, Boundaries
<1>4. p.ins[k].to \in 0 .. JMP_REL - 1
  BY DEF Internal
<1>5. /\ OffsetOf(p, j) \in Nat /\ OffsetOf(p, k) \in Nat /\ OffsetOf(p, m) \in Nat
      /\ m < j => OffsetOf(p, m) < OffsetOf(p, j)
  <2>1. j \in 1 .. Len(p.ins) + 1 /\ k \in 1 .. Len(p.ins) + 1 /\ m \in 1 .. Len(p.ins) + 1
    BY <1>2
  <2>2. QED
    BY <2>1, OffsetsGrow
<1>6. j \in 1 .. m
  <2>1. OffsetOf(p, m) < JMP_REL => p.ins[k].to <= OffsetOf(p, m)
    BY <1>1 DEF Bounds
  <2>2. OffsetOf(p, j) <= OffsetOf(p, m)
    BY ONLY <1>3, <1>4, <1>5, <2>1 DEF JMP_REL
  <2>3. ~(m < j)
    BY <1>5, <2>2
  <2>4. QED
    BY <1>2, <2>3
<1>7. ips[j].new = ips[k].new + OffsetOf(p, j) - OffsetOf(p, k)
  <2>1. CASE k <= j
    <3>1. ASSUME NEW i \in k .. j - 1 PROVE CopySize(p.ins[i]) = p.ins[i].len
      <4>1. i \in k .. m /\ i < j /\ i \in 1 .. Len(p.ins) + 1 /\ j \in 1 .. Len(p.ins) + 1
        BY <1>2, <1>6, <2>1
      <4>2. OffsetOf(p, i) < OffsetOf(p, j)
        BY <4>1, OffsetsGrow
      <4>3. OffsetOf(p, i) < p.ins[k].to
        BY <1>3, <4>2
      <4>4. QED
        BY <1>1, <4>1, <4>3 DEF Bounds
    <3>2. QED
      BY <1>6, <2>1, <3>1, CopiesEven
  <2>2. CASE j < k
    <3>1. ASSUME NEW i \in j .. k - 1 PROVE CopySize(p.ins[i]) = p.ins[i].len
      <4>1. i \in 1 .. k - 1 /\ i \in 1 .. Len(p.ins) + 1 /\ j \in 1 .. Len(p.ins) + 1
        BY <1>2, <1>6, <2>2
      <4>2. j < i => OffsetOf(p, j) < OffsetOf(p, i)
        BY <4>1, OffsetsGrow
      <4>3. i = j \/ j < i
        BY <1>6
      <4>4. OffsetOf(p, i) \in Nat
        BY <4>1, OffsetsGrow
      <4>5. OffsetOf(p, i) >= p.ins[k].to
        BY <1>3, <1>5, <4>2, <4>3, <4>4
      <4>6. QED
        BY <1>2, <4>1, <4>5 DEF BackOverLonger
    <3>2. ips[k].new = ips[j].new + OffsetOf(p, k) - OffsetOf(p, j)
      BY <1>6, <2>2, <3>1, CopiesEven
    <3>3. ips[k].new \in Nat /\ ips[j].new \in Nat
      BY <1>1, <1>6 DEF Bounds
    <3>4. QED
      BY ONLY <1>5, <3>2, <3>3
  <2>3. QED
    BY <1>2, <2>1, <2>2
<1>8. ips[k].old = OffsetOf(p, k) /\ ips[j].old = OffsetOf(p, j)
  BY <1>1, <1>6 DEF Bounds
<1>9. QED
  BY <1>3, <1>6, <1>7, <1>8


\* What a place after the copy of an instruction stands for.
Meant(ips, n) == IF n[1] = "own" THEN {n[2]}
                 ELSE {ips[j].old : j \in {j \in DOMAIN ips : ips[j].new = n[2]}}
After(p, ips, k) == <<"copy", ips[k].new + CopySize(p.ins[k])>>
Target(p, ips, k) == IF Internal(p.ins[k]) THEN <<"copy", ips[k].new + p.ins[k].to - ips[k].old>>
                     ELSE <<"own", p.ins[k].to>>

LEMMA CopyMeans ==
  ASSUME NEW p, WellFormed(p), Copy(p).state = "finished", NEW ips, ips = Copy(p).ips, NEW m, m = Len(ips),
         NEW j \in 1 .. m
  PROVE  Meant(ips, <<"copy", ips[j].new>>) = {ips[j].old}
<1>1. DOMAIN ips = 1 .. m
  BY CopiedAre DEF Bounds
<1>2. {i \in DOMAIN ips : ips[i].new = ips[j].new} = {j}
  BY <1>1, CopyAt
<1>3. \A n : n = <<"copy", ips[j].new>> => n[1] = "copy" /\ n[2] = ips[j].new
  OBVIOUS
<1>4. Meant(ips, <<"copy", ips[j].new>>) = {ips[i].old : i \in {i \in DOMAIN ips : ips[i].new = ips[j].new}}
  BY DEF Meant
<1>5. QED
  BY <1>2, <1>4

LEMMA OwnMeans == ASSUME NEW ips, NEW d PROVE Meant(ips, <<"own", d>>) = {d}
BY DEF Meant

\* Control that goes on to the next instruction goes on to its copy.
LEMMA AfterCopied ==
  ASSUME NEW p, WellFormed(p), Copy(p).state = "finished", NEW ips, ips = Copy(p).ips, NEW m, m = Len(ips),
         NEW k \in 1 .. m, OffsetOf(p, k) < JMP_REL, ~Leaves(p.ins[k])
  PROVE  /\ k + 1 \in 1 .. m
         /\ After(p, ips, k) = <<"copy", ips[k + 1].new>>
         /\ ips[k + 1].old = ips[k].old + p.ins[k].len
<1>1. Bounds(p, ips, m)
  BY CopiedAre
<1>2. k # m
  BY <1>1 DEF Bounds
<1>3. /\ m \in Nat /\ k \in 1 .. m - 1 /\ k + 1 \in 1 .. m /\ k \in 1 .. Len(p.ins)
  <2>1. m \in 1 .. Len(p.ins) /\ Len(p.ins) \in Nat
    BY <1>1, InstructionsAre DEF Bounds
  <2>2. QED
    BY <1>2, <2>1
<1>4. ips[k + 1].new = ips[k].new + CopySize(p.ins[k])
  BY <1>1, <1>3 DEF Bounds
<1>5. ips[k].old = OffsetOf(p, k) /\ ips[k + 1].old = OffsetOf(p, k + 1)
  BY <1>1, <1>3 DEF Bounds
<1>6. OffsetOf(p, k + 1) = OffsetOf(p, k) + p.ins[k].len
  BY <1>3, OffsetsGrow
<1>7. QED
  BY <1>3, <1>4, <1>5, <1>6 DEF After

LEMMA TargetMeans ==
  ASSUME NEW p, WellFormed(p), Copy(p).state = "finished", ~BackOverLonger(p),
         NEW ips, ips = Copy(p).ips, NEW m, m = Len(ips),
         NEW k \in 1 .. m, OffsetOf(p, k) < JMP_REL
  PROVE  Meant(ips, Target(p, ips, k)) = {p.ins[k].to}
<1>1. CASE Internal(p.ins[k])
  <2>1. PICK j \in 1 .. m : /\ ips[j].old = p.ins[k].to
                            /\ ips[j].new = ips[k].new + p.ins[k].to - ips[k].old
    BY <1>1, BranchCopied
  <2>2. Target(p, ips, k) = <<"copy", ips[j].new>>
    BY <1>1, <2>1 DEF Target
  <2>3. Meant(ips, <<"copy", ips[j].new>>) = {ips[j].old}
    BY CopyMeans
  <2>4. QED
    BY <2>1, <2>2, <2>3
<1>2. CASE ~Internal(p.ins[k])
  BY <1>2, OwnMeans DEF Target
<1>3. QED
  BY <1>1, <1>2

\* What the processor does after the copy of an instruction, by the kind of the instruction.
Onwards(p, ips, k) ==
    LET op == p.ins[k].op IN
    IF op = "ret" THEN {<<"own", Outside>>}
    ELSE IF op = "jmp" THEN {Target(p, ips, k)}
    ELSE IF op \in {"jcc", "loop"} THEN {After(p, ips, k), Target(p, ips, k)}
    ELSE {After(p, ips, k)}

LEMMA OnwardsIs ==
  ASSUME NEW p, WellFormed(p), Copy(p).state = "finished", NEW ips, ips = Copy(p).ips, NEW m, m = Len(ips),
         NEW k \in 1 .. m
  PROVE  /\ ips[k].old = OffsetOf(p, k) /\ OffsetOf(p, k) \in Nat /\ InsAt(p, ips[k].old) = p.ins[k]
         /\ ips[k].old >= JMP_REL => CopiedNext(p, ips, k) = {<<"own", ips[k].old>>}
         /\ ips[k].old < JMP_REL => CopiedNext(p, ips, k) = Onwards(p, ips, k)
<1>1. Bounds(p, ips, m)
  BY CopiedAre
<1>2. k \in 1 .. Len(p.ins) /\ k \in 1 .. Len(p.ins) + 1
  <2>1. m \in 1 .. Len(p.ins) /\ Len(p.ins) \in Nat
    BY <1>1, InstructionsAre DEF Bounds
  <2>2. QED
    BY <2>1
<1>3. ips[k].old = OffsetOf(p, k)
  BY <1>1 DEF Bounds
<1>4. OffsetOf(p, k) \in Nat
  BY <1>2, OffsetsGrow
<1>5. InsAt(p, ips[k].old) = p.ins[k]
  BY <1>2, <1>3, InstructionAt
<1>6. ips[k].old >= JMP_REL => CopiedNext(p, ips, k) = {<<"own", ips[k].old>>}
  BY DEF CopiedNext
<1>7. ASSUME ips[k].old < JMP_REL
      PROVE  CopiedNext(p, ips, k) = Onwards(p, ips, k)
  <2>1. ~(ips[k].old >= JMP_REL)
    BY <1>3, <1>4, <1>7 DEF JMP_REL
  <2>2. QED
    BY <1>5, <2>1 DEF CopiedNext, Target, After, Onwards
<1>8. QED
  BY <1>3, <1>4, <1>5, <1>6, <1>7

LEMMA CopyFaithful ==
  ASSUME NEW p, WellFormed(p), ~BackOverLonger(p)
  PROVE  Faithful(p)
<1> SUFFICES ASSUME CreateTrampoline(p).ok PROVE Faithful(p)
  BY DEF Faithful
<1> DEFINE Meanings(k) == UNION {Meant(Copy(p).ips, n) : n \in CopiedNext(p, Copy(p).ips, k)}
<1>1. Copy(p).state = "finished"
  BY DEF CreateTrampoline
<1>2. PICK ips, m : ips = Copy(p).ips /\ m = Len(ips)
  OBVIOUS
<1>3. DOMAIN ips = 1 .. m
  BY <1>1, <1>2, CopiedAre DEF Bounds
<1>4. \A k \in 1 .. m : CopiedSuccessors(p, k) = UNION {Meant(ips, n) : n \in CopiedNext(p, ips, k)}
  BY <1>2 DEF CopiedSuccessors, Meant
<1>5. ASSUME NEW k \in 1 .. m
      PROVE  CopiedSuccessors(p, k) = IF ips[k].old >= JMP_REL THEN {ips[k].old} ELSE Successors(p, ips[k].old)
  <2> DEFINE op == p.ins[k].op
             o == ips[k].old
  <2>1. /\ o = OffsetOf(p, k) /\ o \in Nat /\ InsAt(p, o) = p.ins[k]
        /\ o >= JMP_REL => CopiedNext(p, ips, k) = {<<"own", o>>}
        /\ o < JMP_REL => CopiedNext(p, ips, k) = Onwards(p, ips, k)
    <3>1. o = OffsetOf(p, k) /\ OffsetOf(p, k) \in Nat /\ InsAt(p, o) = p.ins[k]
      BY <1>1, <1>2, OnwardsIs
    <3>2. o >= JMP_REL => CopiedNext(p, ips, k) = {<<"own", o>>}
      BY <1>1, <1>2, OnwardsIs
    <3>3. o < JMP_REL => CopiedNext(p, ips, k) = Onwards(p, ips, k)
      BY <1>1, <1>2, OnwardsIs
    <3>4. QED
      BY <3>1, <3>2, <3>3
  <2>2. CopiedSuccessors(p, k) = UNION {Meant(ips, n) : n \in CopiedNext(p, ips, k)}
    BY <1>4
  <2>3. Successors(p, o) = Follow(p.ins[k], o, p.ins[k].to)
    BY <2>1 DEF Successors
  <2>4. o < JMP_REL /\ ~Leaves(p.ins[k]) => Meant(ips, After(p, ips, k)) = {o + p.ins[k].len}
    <3> SUFFICES ASSUME o < JMP_REL, ~Leaves(p.ins[k]) PROVE Meant(ips, After(p, ips, k)) = {o + p.ins[k].len}
      OBVIOUS
    <3>1. /\ k + 1 \in 1 .. m /\ After(p, ips, k) = <<"copy", ips[k + 1].new>>
          /\ ips[k + 1].old = o + p.ins[k].len
      BY <1>1, <1>2, <2>1, AfterCopied
    <3>2. Meant(ips, <<"copy", ips[k + 1].new>>) = {ips[k + 1].old}
      BY <1>1, <1>2, <3>1, CopyMeans
    <3>3. QED
      BY <3>1, <3>2
  <2>5. o < JMP_REL => Meant(ips, Target(p, ips, k)) = {p.ins[k].to}
    <3>1. o < JMP_REL => OffsetOf(p, k) < JMP_REL
      BY <2>1
    <3> HIDE DEF o
    <3>2. QED
      BY <1>1, <1>2, <3>1, TargetMeans
  <2>6. Leaves(p.ins[k]) => op \in {"ret", "jmp"}
    BY DEF Leaves
  <2> HIDE DEF op, o
  <2>7. CASE o >= JMP_REL
    <3>1. CopiedSuccessors(p, k) = Meant(ips, <<"own", o>>)
      BY <2>1, <2>2, <2>7
    <3>2. QED
      BY <2>7, <3>1, OwnMeans DEF o
  <2>8. CASE ~(o >= JMP_REL)
    <3>1. o < JMP_REL
      BY <2>1, <2>8 DEF JMP_REL
    <3>2. CASE op = "ret"
      <4>1. CopiedSuccessors(p, k) = Meant(ips, <<"own", Outside>>)
        BY <2>1, <2>2, <3>1, <3>2 DEF Onwards, op
      <4>2. Successors(p, o) = {Outside}
        BY <2>3, <3>2 DEF Follow, op
      <4>3. QED
        BY <2>8, <4>1, <4>2, OwnMeans DEF o
    <3>3. CASE op = "jmp"
      <4>1. CopiedSuccessors(p, k) = Meant(ips, Target(p, ips, k))
        BY <2>1, <2>2, <3>1, <3>3 DEF Onwards, op
      <4>2. Successors(p, o) = {p.ins[k].to}
        BY <2>3, <3>3 DEF Follow, op
      <4>3. QED
        BY <2>5, <2>8, <3>1, <4>1, <4>2 DEF o
    <3>4. CASE op \in {"jcc", "loop"}
      <4>1. CopiedNext(p, ips, k) = {After(p, ips, k), Target(p, ips, k)}
        BY <2>1, <3>1, <3>4 DEF Onwards, op
      <4>2. CopiedSuccessors(p, k) = Meant(ips, After(p, ips, k)) \cup Meant(ips, Target(p, ips, k))
        BY <2>2, <4>1
      <4>3. Successors(p, o) = {o + p.ins[k].len, p.ins[k].to}
        BY <2>3, <3>4 DEF Follow, op
      <4>4. Meant(ips, After(p, ips, k)) = {o + p.ins[k].len} /\ Meant(ips, Target(p, ips, k)) = {p.ins[k].to}
        BY <2>4, <2>5, <2>6, <3>1, <3>4
      <4>5. CopiedSuccessors(p, k) = Successors(p, o)
        BY <4>2, <4>3, <4>4
      <4>6. QED
        BY <2>8, <4>5 DEF o
    <3>5. CASE op \notin {"ret", "jmp", "jcc", "loop"}
      <4>1. CopiedSuccessors(p, k) = Meant(ips, After(p, ips, k))
        BY <2>1, <2>2, <3>1, <3>5 DEF Onwards, op
      <4>2. Successors(p, o) = {o + p.ins[k].len}
        BY <2>3, <3>5 DEF Follow, op
      <4>3. QED
        BY <2>4, <2>6, <2>8, <3>1, <3>5, <4>1, <4>2 DEF o
    <3>6. QED
      BY <3>2, <3>3, <3>4, <3>5
  <2>9. QED
    BY <2>7, <2>8
<1>6. QED
  BY <1>2, <1>3, <1>5 DEF Faithful

(* Where a function, and its trampoline, go on to. *)

\* A boundary is where an instruction begins.
LEMMA BoundariesAre ==
  ASSUME NEW p, WellFormed(p), NEW o \in Boundaries(p)
  PROVE  o \in Nat /\ \E i \in 1 .. Len(p.ins) : OffsetOf(p, i) = o /\ InsAt(p, o) = p.ins[i]
<1>1. PICK i \in DOMAIN p.ins : OffsetOf(p, i) = o
  BY DEF Boundaries
<1>2. i \in 1 .. Len(p.ins) /\ i \in 1 .. Len(p.ins) + 1
  BY InstructionsAre
<1>3. QED
  BY <1>1, <1>2, OffsetsGrow, InstructionAt

\* Nothing but a branch from behind the copied part leads to the middle of it.
LEMMA OwnOnwards ==
  ASSUME NEW p, WellFormed(p), Copy(p).state = "finished", ~Unforeseen(p),
         NEW ips, ips = Copy(p).ips, NEW m, m = Len(ips),
         NEW o \in Boundaries(p), o >= JMP_REL \/ \E k \in 1 .. m : ips[k].old = o,
         NEW next \in Successors(p, o), next \in Boundaries(p)
  PROVE  /\ next >= JMP_REL \/ \E k \in 1 .. m : ips[k].old = next
         /\ o >= JMP_REL => next = 0 \/ next >= JMP_REL
<1>1. Bounds(p, ips, m)
  BY CopiedAre
<1>2. o \in Nat /\ next \in Nat
  BY BoundariesAre
<1>3. 1 \in 1 .. m /\ ips[1].old = 0
  <2>1. m \in 1 .. Len(p.ins) /\ Len(p.ins) \in Nat
    BY <1>1, InstructionsAre DEF Bounds
  <2>2. 1 \in 1 .. m
    BY <2>1
  <2>3. ips[1].old = OffsetOf(p, 1)
    BY <1>1, <2>2 DEF Bounds
  <2>4. QED
    BY <2>2, <2>3, OffsetsGrow
<1>4. ASSUME o >= JMP_REL PROVE next = 0 \/ next >= JMP_REL
  <2>1. PICK i \in 1 .. Len(p.ins) : OffsetOf(p, i) = o /\ InsAt(p, o) = p.ins[i]
    BY BoundariesAre
  <2>2. PICK ins : ins = p.ins[i]
    OBVIOUS
  <2>3. ins.len \in Nat /\ i \in DOMAIN p.ins
    BY <2>2, InstructionsAre
  <2>4. next = o + ins.len \/ next = Outside \/ (ins.op \in Branches /\ next = ins.to)
    BY <2>1, <2>2 DEF Successors, Follow, Branches
  <2>5. ins.op \in Branches => ins.to \notin 1 .. JMP_REL - 1
    BY <1>4, <2>1, <2>2, <2>3 DEF Unforeseen, BackInto
  <2>6. QED
    BY <1>2, <1>4, <2>3, <2>4, <2>5 DEF JMP_REL, Outside
<1>5. ASSUME ~(o >= JMP_REL) PROVE next >= JMP_REL \/ \E k \in 1 .. m : ips[k].old = next
  <2>1. PICK k \in 1 .. m : ips[k].old = o
    BY <1>5
  <2>2. PICK ins : ins = p.ins[k]
    OBVIOUS
  <2>3. InsAt(p, o) = ins /\ OffsetOf(p, k) = o
    BY <2>1, <2>2, OnwardsIs
  <2>4. OffsetOf(p, k) < JMP_REL
    BY <1>2, <1>5, <2>3 DEF JMP_REL
  <2>5. \/ ins.op \notin {"ret", "jmp"} /\ next = o + ins.len
        \/ next = Outside \/ (ins.op \in Branches /\ next = ins.to)
    BY <2>3 DEF Successors, Follow, Branches
  <2>6. CASE ins.op \notin {"ret", "jmp"} /\ next = o + ins.len
    <3>1. ~Leaves(p.ins[k])
      BY <2>2, <2>6 DEF Leaves
    <3>2. k + 1 \in 1 .. m /\ ips[k + 1].old = ips[k].old + p.ins[k].len
      BY <2>4, <3>1, AfterCopied
    <3>3. QED
      BY <2>1, <2>2, <2>6, <3>2
  <2>7. CASE ins.op \in Branches /\ next = ins.to
    <3>1. CASE Internal(ins)
      <4>1. \E j \in 1 .. m : ips[j].old = p.ins[k].to
        BY <2>2, <2>4, <3>1, BranchCopied DEF Unforeseen
      <4>2. QED
        BY <2>2, <2>7, <4>1
    <3>2. CASE ~Internal(ins)
      BY <1>2, <2>7, <3>2 DEF Internal, JMP_REL
    <3>3. QED
      BY <3>1, <3>2
  <2>8. QED
    BY <1>2, <2>5, <2>6, <2>7 DEF Outside
<1>6. QED
  BY <1>3, <1>4, <1>5

\* From a copy, to a copy or to the function behind what a jump overwrites.
LEMMA CopyOnwards ==
  ASSUME NEW p, WellFormed(p), Copy(p).state = "finished", ~Unforeseen(p),
         NEW ips, ips = Copy(p).ips, NEW m, m = Len(ips), NEW k \in 1 .. m,
         NEW next \in CopiedNext(p, ips, k)
  PROVE  \/ \E j \in 1 .. m : next = <<"copy", ips[j].new>>
         \/ \E d : next = <<"own", d>> /\ (d \in Boundaries(p) => d >= JMP_REL)
<1>1. /\ ips[k].old = OffsetOf(p, k) /\ OffsetOf(p, k) \in Nat
      /\ ips[k].old >= JMP_REL => CopiedNext(p, ips, k) = {<<"own", ips[k].old>>}
      /\ ips[k].old < JMP_REL => CopiedNext(p, ips, k) = Onwards(p, ips, k)
  BY OnwardsIs
<1>2. CASE ips[k].old >= JMP_REL
  BY <1>1, <1>2
<1>3. CASE ips[k].old < JMP_REL
  <2>1. PICK ins : ins = p.ins[k]
    OBVIOUS
  <2>2. \/ next = <<"own", Outside>>
        \/ ins.op \in Branches /\ next = Target(p, ips, k)
        \/ ins.op \notin {"ret", "jmp"} /\ next = After(p, ips, k)
    BY <1>1, <1>3, <2>1 DEF Onwards, Branches
  <2>3. CASE next = <<"own", Outside>>
    <3>1. Outside \notin Boundaries(p)
      BY BoundariesAre DEF Outside
    <3>2. QED
      BY <2>3, <3>1
  <2>4. CASE ins.op \in Branches /\ next = Target(p, ips, k)
    <3>1. CASE Internal(ins)
      <4>1. PICK j \in 1 .. m : ips[j].new = ips[k].new + p.ins[k].to - ips[k].old
        BY <1>1, <1>3, <2>1, <3>1, BranchCopied DEF Unforeseen
      <4>2. next = <<"copy", ips[j].new>>
        BY <2>1, <2>4, <3>1, <4>1 DEF Target
      <4>3. QED
        BY <4>2
    <3>2. CASE ~Internal(ins)
      <4>1. next = <<"own", ins.to>>
        BY <2>1, <2>4, <3>2 DEF Target
      <4>2. ins.to \in Boundaries(p) => ins.to >= JMP_REL
        <5>1. ins.to \in Boundaries(p) => ins.to \in Nat
          BY BoundariesAre
        <5>2. QED
          BY <2>4, <3>2, <5>1 DEF Internal, JMP_REL
      <4>3. QED
        BY <4>1, <4>2
    <3>3. QED
      BY <3>1, <3>2
  <2>5. CASE ins.op \notin {"ret", "jmp"} /\ next = After(p, ips, k)
    <3>1. ~Leaves(p.ins[k]) /\ OffsetOf(p, k) < JMP_REL
      BY <1>1, <1>3, <2>1, <2>5 DEF Leaves
    <3>2. k + 1 \in 1 .. m /\ After(p, ips, k) = <<"copy", ips[k + 1].new>>
      BY <3>1, AfterCopied
    <3>3. QED
      BY <2>5, <3>2
  <2>6. QED
    BY <2>2, <2>3, <2>4, <2>5
<1>4. QED
  BY <1>1, <1>2, <1>3 DEF JMP_REL

-----------------------------------------------------------------------------
(***************************************************************************)
(* The threads of MinHook: one that could be stopped runs no bytes of a    *)
(* patch, and no trampoline but its function's.  While a call is under way *)
(* a stopped thread need not be where it may run on, but it is ready for   *)
(* the change its function has still to go through (Ready); one that runs  *)
(* is clear of the jump (Clear), and in a function at an instruction that  *)
(* has a copy, or behind what a jump overwrites (Reached): this is what    *)
(* lets the next Freeze move it.                                           *)
(***************************************************************************)
\* What RunsOwnCode leaves out: functions a hook was taken from, and code MinHook cannot see through.
Excused(at) == at[2] \in retracted \/ Unforeseen(code[at[2]])

\* At the copy of an instruction, in the trampoline of an entry.
InCopy(at) ==
    \E i \in DOMAIN hooks : /\ at = <<"tramp", hooks[i].target, hooks[i].slot, at[4]>>
                            /\ \E k \in DOMAIN hooks[i].ips : hooks[i].ips[k].new = at[4]

\* Where a thread may run on: while the function holds a jump, not in the bytes it was copied from.
Clear(at) ==
    /\ at[1] = "target" => patched[at[2]] = "none" \/ at[3] = 0 \/ at[3] >= JMP_REL
    /\ at[1] = "above" => patched[at[2]] = "short"
    /\ at[1] = "tramp" => InCopy(at)
    /\ at[1] # "lost"

\* At an instruction that was copied, or behind what a jump overwrites.
Reached(tg, o) ==
    /\ o \in Boundaries(code[tg])
    /\ o >= JMP_REL \/ \E k \in DOMAIN Shape(tg).ips : Shape(tg).ips[k].old = o

Known(at) ==
    /\ at[1] = "detour" => \E i \in DOMAIN hooks : hooks[i].target = at[2]
    /\ at[1] = "target" /\ Shape(at[2]).ok => Reached(at[2], at[3])

\* Where a stopped thread is, when the call has still to change its function or not.
Ready(at) ==
    /\ \A i \in call.todo : hooks[i].target = at[2] =>
          /\ call.enable[i] => Clear(at) /\ (at[1] = "target" => at[3] >= JMP_REL)
          /\ ~call.enable[i] /\ call.fn # "set" => at[1] \notin {"above", "tramp", "lost"}
    /\ (\A i \in call.todo : hooks[i].target # at[2]) => Clear(at)

Placed(t) ==
    \/ ip[t] = <<"out">>
    \/ Excused(ip[t])
    \/ Known(ip[t]) /\ IF t \in suspended THEN Ready(ip[t]) ELSE Clear(ip[t])

Threaded == \A t \in Threads \ missed : Placed(t)

\* Freeze deals with each thread once.
Watched == ~Free => /\ call.scan \cap suspended = {}
                    /\ Threads \subseteq call.scan \cup suspended \cup missed

\* Freeze is told of exactly what will change, but for MH_DisableHook of one function.
Pointed == ~Free =>
    /\ call.span \subseteq DOMAIN hooks
    /\ \A i \in call.todo : /\ i \in call.span /\ hooks[i].isEnabled # call.enable[i]
                            /\ \/ call.enable[i] = Wanted(call.action, i)
                               \/ call.fn = "set" /\ call.action = "enable" /\ ~call.enable[i]
    /\ call.scan # {} => \A i \in call.span : hooks[i].isEnabled # Wanted(call.action, i) => i \in call.todo

Furnished == /\ DOMAIN orig = Targets
             /\ \A i \in DOMAIN hooks : LET tg == hooks[i].target IN
                   /\ Shape(tg).ok /\ hooks[i].ips = Shape(tg).ips
                   /\ orig[tg] = hooks[i].slot

RunIInv == FreezeIInv /\ Watched /\ Pointed /\ Furnished /\ Threaded

-----------------------------------------------------------------------------
(* What becomes of the entries. *)
SameEntry(h, g) == g.target = h.target /\ g.slot = h.slot /\ g.ips = h.ips

\* A step that keeps of the entries what threads see.
LEMMA FurnishedKept ==
  ASSUME Furnished, UNCHANGED <<code, orig>>,
         \A j \in DOMAIN hooks' : \E i \in DOMAIN hooks : SameEntry(hooks[i], hooks'[j])
  PROVE  Furnished'
<1> SUFFICES ASSUME NEW j \in DOMAIN hooks'
             PROVE  /\ CreateTrampoline(code'[hooks'[j].target]).ok
                    /\ hooks'[j].ips = CreateTrampoline(code'[hooks'[j].target]).ips
                    /\ orig'[hooks'[j].target] = hooks'[j].slot
  BY DEF Furnished, Shape
<1>1. PICK i \in DOMAIN hooks : SameEntry(hooks[i], hooks'[j])
  OBVIOUS
<1>2. /\ CreateTrampoline(code[hooks[i].target]).ok
      /\ hooks[i].ips = CreateTrampoline(code[hooks[i].target]).ips
      /\ orig[hooks[i].target] = hooks[i].slot
  BY DEF Furnished, Shape
<1>3. QED
  BY <1>1, <1>2 DEF SameEntry

\* An entry that stays, or is one of a function that is excused from now on.
Stays(i) == hooks[i].target \in retracted' \/ \E j \in DOMAIN hooks' : SameEntry(hooks[i], hooks'[j])

\* Where a thread may be, it may be after a step that keeps the entries.
LEMMA InCopyStays ==
  ASSUME \A i \in DOMAIN hooks : Stays(i), NEW at, InCopy(at)
  PROVE  at[2] \in retracted' \/ InCopy(at)'
<1>1. PICK i \in DOMAIN hooks : /\ at = <<"tramp", hooks[i].target, hooks[i].slot, at[4]>>
                                /\ \E k \in DOMAIN hooks[i].ips : hooks[i].ips[k].new = at[4]
  BY DEF InCopy
<1>2. at[2] = hooks[i].target
  BY <1>1
<1>3. CASE hooks[i].target \in retracted'
  BY <1>2, <1>3
<1>4. ASSUME NEW j \in DOMAIN hooks', SameEntry(hooks[i], hooks'[j]) PROVE InCopy(at)'
  BY <1>1, <1>4 DEF InCopy, SameEntry
<1>5. QED
  BY <1>3, <1>4 DEF Stays

LEMMA KnownStays ==
  ASSUME \A i \in DOMAIN hooks : Stays(i), UNCHANGED code, NEW at, Known(at)
  PROVE  at[2] \in retracted' \/ Known(at)'
<1> SUFFICES ASSUME at[2] \notin retracted' PROVE Known(at)'
  OBVIOUS
<1>1. ASSUME at[1] = "detour" PROVE \E j \in DOMAIN hooks' : hooks'[j].target = at[2]
  BY <1>1 DEF Known, Stays, SameEntry
<1>2. ASSUME at[1] = "target", CreateTrampoline(code[at[2]]).ok PROVE Reached(at[2], at[3])
  BY <1>2 DEF Known, Shape
<1>3. Reached(at[2], at[3])' = Reached(at[2], at[3])
  BY DEF Reached, Shape
<1>4. QED
  BY <1>1, <1>2, <1>3 DEF Known, Shape

LEMMA ClearStays ==
  ASSUME \A i \in DOMAIN hooks : Stays(i), NEW at, patched'[at[2]] = patched[at[2]], Clear(at)
  PROVE  at[2] \in retracted' \/ Clear(at)'
BY InCopyStays DEF Clear

LEMMA ExcusedStays ==
  ASSUME UNCHANGED code, retracted \subseteq retracted', NEW at, Excused(at)
  PROVE  Excused(at)'
BY DEF Excused

\* A call that stops nobody, or has ended: the threads are where they were.
LEMMA ThreadsLeft ==
  ASSUME UNCHANGED <<code, patched, ip, missed>>, suspended' = {}, retracted \subseteq retracted',
         \A i \in DOMAIN hooks : Stays(i),
         \A t \in Threads \ missed : \/ ip[t] = <<"out">> \/ Excused(ip[t]) \/ ip[t][2] \in retracted'
                                     \/ Known(ip[t]) /\ Clear(ip[t])
  PROVE  Threaded'
<1> SUFFICES ASSUME NEW t \in Threads \ missed PROVE Placed(t)'
  BY DEF Threaded
<1>1. PICK at : at = ip[t]
  OBVIOUS
<1>2. ip'[t] = at /\ t \notin suspended'
  BY <1>1
<1>3. CASE Known(at) /\ Clear(at)
  <2>1. at[2] \in retracted' \/ Known(at)'
    BY <1>3, KnownStays
  <2>2. at[2] \in retracted' \/ Clear(at)'
    BY <1>3, ClearStays
  <2>3. at[2] \in retracted' => Excused(at)'
    BY DEF Excused
  <2>4. QED
    BY <1>2, <2>1, <2>2, <2>3 DEF Placed
<1>4. CASE Excused(at) \/ at[2] \in retracted'
  <2>1. Excused(at)'
    BY <1>4, ExcusedStays DEF Excused
  <2>2. QED
    BY <1>2, <2>1 DEF Placed
<1>5. CASE at = <<"out">>
  BY <1>2, <1>5 DEF Placed
<1>6. QED
  BY <1>1, <1>3, <1>4, <1>5

\* While the library is free every thread that was never missed runs.
LEMMA FreePlaces ==
  ASSUME RunIInv, Free
  PROVE  \A t \in Threads \ missed : \/ ip[t] = <<"out">> \/ Excused(ip[t])
                                     \/ Known(ip[t]) /\ Clear(ip[t])
BY DEF RunIInv, FreezeIInv, Cleared, Threaded, Placed

\* While it is free there is nothing to watch.
LEMMA FreeWatches == ASSUME Free' PROVE Watched' /\ Pointed'
BY DEF Watched, Pointed

-----------------------------------------------------------------------------
(* The calls that stop no thread. *)
\* A new entry has a trampoline of its own; nobody is in it yet.
LEMMA CreateRuns ==
  ASSUME RunIInv, NEW tg \in Targets, NEW b \in Blocks, MH_CreateHook(tg, b)
  PROVE  Furnished' /\ Threaded'
<1>1. PICK place \in Slots, h \in EntryRec, N \in Nat : Creates(tg, place, h, N)
  BY EntryCreated DEF RunIInv, FreezeIInv, TablesIInv
<1>2. /\ UNCHANGED <<code, patched>> /\ orig' = [orig EXCEPT ![tg] = place]
      /\ h.target = tg /\ h.slot = place /\ h.ips = Shape(tg).ips
      /\ DOMAIN hooks' = DOMAIN hooks \cup {N} /\ hooks'[N] = h
      /\ \A i \in DOMAIN hooks : hooks'[i] = hooks[i] /\ hooks[i].target # tg
  BY <1>1 DEF Creates
<1>3. Free /\ Shape(tg).ok /\ UNCHANGED <<ip, suspended, missed, retracted>>
  BY DEF MH_CreateHook
<1>4. Furnished
  BY DEF RunIInv
<1>5. DOMAIN orig' = Targets /\ orig'[tg] = place /\ \A g \in Targets : g # tg => orig'[g] = orig[g]
  BY <1>2, <1>4 DEF Furnished
<1>6. ASSUME NEW j \in DOMAIN hooks'
      PROVE  /\ CreateTrampoline(code'[hooks'[j].target]).ok
             /\ hooks'[j].ips = CreateTrampoline(code'[hooks'[j].target]).ips
             /\ orig'[hooks'[j].target] = hooks'[j].slot
  <2>1. CASE j = N
    BY <1>2, <1>3, <1>5, <2>1 DEF Shape
  <2>2. CASE j \in DOMAIN hooks
    <3>1. hooks'[j] = hooks[j] /\ hooks[j].target # tg /\ hooks[j].target \in Targets
      BY <1>2, <2>2, HooksAre DEF RunIInv, FreezeIInv, TablesIInv, Books, EntryRec
    <3>2. /\ CreateTrampoline(code[hooks[j].target]).ok
          /\ hooks[j].ips = CreateTrampoline(code[hooks[j].target]).ips
          /\ orig[hooks[j].target] = hooks[j].slot
      BY <1>4, <2>2 DEF Furnished, Shape
    <3>3. QED
      BY <1>2, <1>5, <3>1, <3>2
  <2>3. QED
    BY <1>2, <2>1, <2>2
<1>7. Furnished'
  BY <1>5, <1>6 DEF Furnished, Shape
<1>8. \A i \in DOMAIN hooks : Stays(i)
  BY <1>2 DEF Stays, SameEntry
<1>9. suspended' = {}
  BY <1>3 DEF RunIInv, FreezeIInv, Cleared
<1>10. Threaded'
  BY <1>2, <1>3, <1>8, <1>9, FreePlaces, ThreadsLeft
<1>11. QED
  BY <1>7, <1>10

\* Queueing changes no entry in what threads see of it.
LEMMA QueueRuns ==
  ASSUME RunIInv, NEW tgs, NEW enable \in BOOLEAN, QueueHook(tgs, enable)
  PROVE  Furnished' /\ Threaded'
<1>1. /\ hooks' = [i \in DOMAIN hooks |->
                     IF hooks[i].target \in tgs THEN [hooks[i] EXCEPT !.queueEnable = enable] ELSE hooks[i]]
      /\ Free /\ UNCHANGED <<code, patched, orig, ip, suspended, missed, retracted>>
  BY DEF QueueHook
<1>2. ASSUME NEW i \in DOMAIN hooks PROVE i \in DOMAIN hooks' /\ SameEntry(hooks[i], hooks'[i])
  <2>1. PICK h \in EntryRec : h = hooks[i]
    BY HooksAre DEF RunIInv, FreezeIInv, TablesIInv, Books
  <2>2. SameEntry(h, [h EXCEPT !.queueEnable = enable]) /\ SameEntry(h, h)
    BY DEF EntryRec, SameEntry
  <2>3. hooks'[i] = IF h.target \in tgs THEN [h EXCEPT !.queueEnable = enable] ELSE h
    BY <1>1, <2>1
  <2>4. QED
    BY <1>1, <2>1, <2>2, <2>3
<1>3. DOMAIN hooks' = DOMAIN hooks
  BY <1>1
<1>4. Furnished'
  <2>1. \A j \in DOMAIN hooks' : \E i \in DOMAIN hooks : SameEntry(hooks[i], hooks'[j])
    BY <1>2, <1>3
  <2>2. Furnished
    BY DEF RunIInv
  <2>3. QED
    BY <1>1, <2>1, <2>2, FurnishedKept
<1>5. \A i \in DOMAIN hooks : Stays(i)
  BY <1>2 DEF Stays
<1>6. suspended' = {}
  BY <1>1 DEF RunIInv, FreezeIInv, Cleared
<1>7. Threaded'
  BY <1>1, <1>5, <1>6, FreePlaces, ThreadsLeft
<1>8. QED
  BY <1>4, <1>7

\* Only the entry deleted goes, and its function is excused from now on.
LEMMA DeleteStays ==
  ASSUME Books, Furnished, NEW pos \in DOMAIN hooks, Delete(pos), UNCHANGED code
  PROVE  Furnished' /\ retracted \subseteq retracted' /\ \A i \in DOMAIN hooks : Stays(i)
<1>1. PICK new : new = DeleteHookEntry(pos)
  OBVIOUS
<1>2. TableTypes
  BY DEF Books
<1>3. /\ \A j \in DOMAIN new : \E i \in DOMAIN hooks \ {pos} : new[j] = hooks[i]
      /\ \A i \in DOMAIN hooks \ {pos} : \E j \in DOMAIN new : new[j] = hooks[i]
  BY <1>1, <1>2, EntryDeleted
<1>4. hooks' = new /\ retracted' = retracted \cup {hooks[pos].target} /\ UNCHANGED orig
  BY <1>1 DEF Delete
<1>5. \A j \in DOMAIN hooks' : \E i \in DOMAIN hooks : SameEntry(hooks[i], hooks'[j])
  BY <1>3, <1>4 DEF SameEntry
<1>6. Furnished'
  BY <1>4, <1>5, FurnishedKept
<1>7. ASSUME NEW i \in DOMAIN hooks PROVE Stays(i)
  <2>1. CASE i = pos
    BY <1>4, <2>1 DEF Stays
  <2>2. CASE i # pos
    BY <1>3, <1>4, <2>2 DEF Stays, SameEntry
  <2>3. QED
    BY <2>1, <2>2
<1>8. QED
  BY <1>4, <1>6, <1>7

\* All entries go, and all their functions are excused.
LEMMA DeleteAllStays ==
  ASSUME Furnished, DeleteAll, UNCHANGED code
  PROVE  Furnished' /\ retracted \subseteq retracted' /\ \A i \in DOMAIN hooks : Stays(i)
<1>1. /\ hooks' = <<>> /\ UNCHANGED orig
      /\ retracted' = retracted \cup {hooks[i].target : i \in DOMAIN hooks}
  BY DEF DeleteAll
<1>2. DOMAIN hooks' = {}
  BY <1>1
<1>3. Furnished'
  BY <1>1, <1>2, FurnishedKept
<1>4. \A i \in DOMAIN hooks : Stays(i)
  BY <1>1 DEF Stays
<1>5. QED
  BY <1>1, <1>3, <1>4

-----------------------------------------------------------------------------
(* A call that starts to stop the threads. *)
\* Freeze is told of the entries that will change, and only of those.
LEMMA StartsPoint ==
  ASSUME RunIInv, Free,
         NEW fn, NEW action, NEW span, NEW todo, NEW enable, NEW pos,
         FreezeFor(fn, action, span, todo, enable, pos),
         span \subseteq DOMAIN hooks,
         \A i \in todo : /\ i \in span /\ hooks[i].isEnabled # enable[i]
                         /\ \/ enable[i] = Wanted(action, i)
                            \/ fn = "set" /\ action = "enable" /\ ~enable[i],
         \A i \in span : hooks[i].isEnabled # Wanted(action, i) => i \in todo
  PROVE  Watched' /\ Pointed' /\ Furnished' /\ Threaded'
<1>1. /\ UNCHANGED <<code, hooks, orig, patched, ip, suspended, missed, retracted>>
      /\ suspended = {} /\ Furnished
  BY DEF FreezeFor, lib, RunIInv, FreezeIInv, Cleared
<1>2. PICK c : c = call'
  OBVIOUS
<1>3. c = [fn |-> fn, action |-> action, span |-> span, todo |-> todo, enable |-> enable,
           pos |-> pos, scan |-> Threads, unmoved |-> {}]
  BY <1>2 DEF FreezeFor
<1>4. c.fn = fn /\ c.action = action /\ c.span = span /\ c.todo = todo /\ c.enable = enable /\ c.scan = Threads
  BY <1>3
<1>5. Watched'
  BY <1>1, <1>2, <1>4 DEF Watched
<1>6. \A i : Wanted(action, i)' = Wanted(action, i)
  BY <1>1 DEF Wanted
<1>7. Pointed'
  BY <1>1, <1>2, <1>4, <1>6 DEF Pointed, Wanted
<1>8. \A j \in DOMAIN hooks : SameEntry(hooks[j], hooks'[j])
  BY <1>1 DEF SameEntry
<1>9. Furnished'
  BY <1>1, <1>8, FurnishedKept
<1>10. \A i \in DOMAIN hooks : Stays(i)
  BY <1>1, <1>8 DEF Stays
<1>11. Threaded'
  BY <1>1, <1>10, FreePlaces, ThreadsLeft
<1>12. QED
  BY <1>5, <1>7, <1>9, <1>11

\* MH_EnableHook and MH_DisableHook: Freeze is told to enable, and moves nobody out of a hook.
LEMMA SetRuns ==
  ASSUME RunIInv, NEW tg \in Targets, NEW enable \in BOOLEAN, EnableHook(tg, enable)
  PROVE  Watched' /\ Pointed' /\ Furnished' /\ Threaded'
<1>1. PICK pos \in Entries(tg) :
         /\ hooks[pos].isEnabled # enable
         /\ FreezeFor("set", "enable", {pos}, {pos}, [i \in {pos} |-> enable], pos)
  BY DEF EnableHook
<1>2. PICK span, act : span = {pos} /\ act = [i \in {pos} |-> enable]
  OBVIOUS
<1>3. Free /\ FreezeFor("set", "enable", span, span, act, pos)
  BY <1>1, <1>2 DEF EnableHook
<1>4. \A i : Wanted("enable", i) = TRUE
  BY DEF Wanted
<1>5. /\ span \subseteq DOMAIN hooks
      /\ \A i \in span : /\ i \in span /\ hooks[i].isEnabled # act[i]
                         /\ \/ act[i] = Wanted("enable", i)
                            \/ "set" = "set" /\ "enable" = "enable" /\ ~act[i]
      /\ \A i \in span : hooks[i].isEnabled # Wanted("enable", i) => i \in span
  BY <1>1, <1>2, <1>4 DEF Entries
<1>6. QED
  BY <1>3, <1>5, StartsPoint

\* EnableAllHooksLL.
LEMMA AllRuns ==
  ASSUME RunIInv, NEW fn, NEW enable \in BOOLEAN, EnableAllHooks(fn, enable)
  PROVE  Watched' /\ Pointed' /\ Furnished' /\ Threaded'
<1>1. PICK todo, act, span, action :
         /\ todo = {i \in DOMAIN hooks : hooks[i].isEnabled # enable}
         /\ act = [i \in DOMAIN hooks |-> enable] /\ span = DOMAIN hooks
         /\ action = IF enable THEN "enable" ELSE "disable"
  OBVIOUS
<1>2. Free /\ FreezeFor(fn, action, span, todo, act, 0)
  BY <1>1 DEF EnableAllHooks, Differ
<1>3. \A i : Wanted(action, i) = enable
  BY <1>1 DEF Wanted
<1>4. /\ span \subseteq DOMAIN hooks
      /\ \A i \in todo : i \in span /\ hooks[i].isEnabled # act[i] /\ act[i] = Wanted(action, i)
      /\ \A i \in span : hooks[i].isEnabled # Wanted(action, i) => i \in todo
  BY <1>1, <1>3
<1>5. QED
  BY <1>2, <1>4, StartsPoint

\* MH_ApplyQueued.
LEMMA ApplyRuns ==
  ASSUME RunIInv, MH_ApplyQueued
  PROVE  Watched' /\ Pointed' /\ Furnished' /\ Threaded'
<1>1. PICK todo, act, span, action :
         /\ todo = {i \in DOMAIN hooks : hooks[i].isEnabled # hooks[i].queueEnable}
         /\ act = [i \in DOMAIN hooks |-> hooks[i].queueEnable] /\ span = DOMAIN hooks
         /\ action = "apply queued"
  OBVIOUS
<1>2. Free /\ FreezeFor("apply", action, span, todo, act, 0)
  BY <1>1 DEF MH_ApplyQueued, Differ
<1>3. \A i : Wanted(action, i) = hooks[i].queueEnable
  BY <1>1 DEF Wanted
<1>4. /\ span \subseteq DOMAIN hooks
      /\ \A i \in todo : i \in span /\ hooks[i].isEnabled # act[i] /\ act[i] = Wanted(action, i)
      /\ \A i \in span : hooks[i].isEnabled # Wanted(action, i) => i \in todo
  BY <1>1, <1>3
<1>5. QED
  BY <1>2, <1>4, StartsPoint

\* A deletion while the library is free: who stands in the trampoline is excused.
LEMMA FreeDeletes ==
  ASSUME RunIInv, Free, UNCHANGED <<code, patched, call, ip, suspended, missed>>,
         Furnished', retracted \subseteq retracted', \A i \in DOMAIN hooks : Stays(i)
  PROVE  Watched' /\ Pointed' /\ Furnished' /\ Threaded'
<1>1. suspended' = {} /\ Free'
  BY DEF RunIInv, FreezeIInv, Cleared, Free
<1>2. Threaded'
  BY <1>1, FreePlaces, ThreadsLeft
<1>3. QED
  BY <1>1, <1>2, FreeWatches

\* MH_RemoveHook deletes at once, or starts to disable.
LEMMA RemoveRuns ==
  ASSUME RunIInv, NEW tg \in Targets, MH_RemoveHook(tg)
  PROVE  Watched' /\ Pointed' /\ Furnished' /\ Threaded'
<1>1. PICK pos \in Entries(tg) :
         \/ /\ hooks[pos].isEnabled
            /\ FreezeFor("remove", "disable", {pos}, {pos}, [i \in {pos} |-> FALSE], pos)
         \/ /\ Delete(pos)
            /\ UNCHANGED <<code, patched, call, ip, suspended, missed>>
  BY DEF MH_RemoveHook
<1>2. Books /\ Furnished /\ Free /\ pos \in DOMAIN hooks
  BY DEF Entries, RunIInv, FreezeIInv, TablesIInv, MH_RemoveHook
<1>3. CASE hooks[pos].isEnabled /\ FreezeFor("remove", "disable", {pos}, {pos}, [i \in {pos} |-> FALSE], pos)
  <2>1. PICK act, span : act = [i \in {pos} |-> FALSE] /\ span = {pos}
    OBVIOUS
  <2>2. FreezeFor("remove", "disable", span, span, act, pos)
    BY <1>3, <2>1
  <2>3. \A i : Wanted("disable", i) = FALSE
    BY DEF Wanted
  <2>4. /\ span \subseteq DOMAIN hooks
        /\ \A i \in span : i \in span /\ hooks[i].isEnabled # act[i] /\ act[i] = Wanted("disable", i)
        /\ \A i \in span : hooks[i].isEnabled # Wanted("disable", i) => i \in span
    BY <1>2, <1>3, <2>1, <2>3
  <2>5. QED
    BY <1>2, <2>2, <2>4, StartsPoint
<1>4. CASE Delete(pos) /\ UNCHANGED <<code, patched, call, ip, suspended, missed>>
  <2>1. Furnished' /\ retracted \subseteq retracted' /\ \A i \in DOMAIN hooks : Stays(i)
    BY <1>2, <1>4, DeleteStays
  <2>2. QED
    BY <1>2, <1>4, <2>1, FreeDeletes
<1>5. QED
  BY <1>1, <1>3, <1>4

\* MH_Uninitialize likewise.
LEMMA UninitializeRuns ==
  ASSUME RunIInv, MH_Uninitialize
  PROVE  Watched' /\ Pointed' /\ Furnished' /\ Threaded'
<1>1. CASE EnableAllHooks("uninitialize", FALSE)
  BY <1>1, AllRuns
<1>2. CASE Free /\ DeleteAll /\ UNCHANGED <<code, patched, call, ip, suspended, missed>>
  <2>1. Furnished' /\ retracted \subseteq retracted' /\ \A i \in DOMAIN hooks : Stays(i)
    BY <1>2, DeleteAllStays DEF RunIInv
  <2>2. QED
    BY <1>2, <2>1, FreeDeletes
<1>3. QED
  BY <1>1, <1>2 DEF MH_Uninitialize

\* MH_Initialize changes nothing a thread can see.
LEMMA InitializeRuns ==
  ASSUME RunIInv, MH_Initialize
  PROVE  Watched' /\ Pointed' /\ Furnished' /\ Threaded'
<1>1. /\ Free /\ Furnished
      /\ UNCHANGED <<code, hooks, orig, patched, call, ip, suspended, missed, retracted>>
  BY DEF MH_Initialize, RunIInv
<1>2. \A i \in DOMAIN hooks : SameEntry(hooks[i], hooks'[i])
  BY <1>1 DEF SameEntry
<1>3. Furnished'
  BY <1>1, <1>2, FurnishedKept
<1>4. \A i \in DOMAIN hooks : Stays(i)
  BY <1>1, <1>2 DEF Stays
<1>5. QED
  BY <1>1, <1>3, <1>4, FreeDeletes

\* A call that ends lets the threads go: what a pending entry was to be disabled is excused.
LEMMA EndPlaces ==
  ASSUME RunIInv, ~Free, call.scan = {},
         \A i \in call.todo : ~call.enable[i] => hooks[i].target \in retracted'
  PROVE  \A t \in Threads \ missed : \/ ip[t] = <<"out">> \/ Excused(ip[t]) \/ ip[t][2] \in retracted'
                                     \/ Known(ip[t]) /\ Clear(ip[t])
<1> SUFFICES ASSUME NEW t \in Threads \ missed
             PROVE  \/ ip[t] = <<"out">> \/ Excused(ip[t]) \/ ip[t][2] \in retracted'
                    \/ Known(ip[t]) /\ Clear(ip[t])
  OBVIOUS
<1>1. PICK at : at = ip[t]
  OBVIOUS
<1>2. t \in suspended
  BY DEF RunIInv, Watched
<1>3. at = <<"out">> \/ Excused(at) \/ (Known(at) /\ Ready(at))
  BY <1>1, <1>2 DEF RunIInv, Threaded, Placed
<1>4. CASE Known(at) /\ Ready(at)
  <2>1. CASE \E i \in call.todo : hooks[i].target = at[2]
    BY <1>1, <1>4, <2>1 DEF Ready
  <2>2. CASE \A i \in call.todo : hooks[i].target # at[2]
    BY <1>1, <1>4, <2>2 DEF Ready
  <2>3. QED
    BY <2>1, <2>2
<1>5. QED
  BY <1>1, <1>3, <1>4

\* VirtualProtect refuses: what was to be disabled is excused, what was to be enabled is not.
LEMMA FailRuns ==
  ASSUME RunIInv, PatchFails
  PROVE  Watched' /\ Pointed' /\ Furnished' /\ Threaded'
<1>1. /\ ~Free /\ call.scan = {} /\ Furnished /\ Free' /\ suspended' = {}
      /\ UNCHANGED <<code, hooks, orig, patched, ip, missed>>
      /\ retracted' = retracted \cup {hooks[i].target : i \in {i \in call.todo : ~call.enable[i]}}
  BY DEF PatchFails, Unlocked, lib, RunIInv, Free
<1>2. \A i \in DOMAIN hooks : SameEntry(hooks[i], hooks'[i])
  BY <1>1 DEF SameEntry
<1>3. Furnished'
  BY <1>1, <1>2, FurnishedKept
<1>4. \A i \in DOMAIN hooks : Stays(i)
  BY <1>1, <1>2 DEF Stays
<1>5. /\ retracted \subseteq retracted'
      /\ \A i \in call.todo : ~call.enable[i] => hooks[i].target \in retracted'
  BY <1>1
<1>6. Threaded'
  BY <1>1, <1>4, <1>5, EndPlaces, ThreadsLeft
<1>7. QED
  BY <1>1, <1>3, <1>6, FreeWatches

\* The end of a call, with what it deletes.
LEMMA FinishRuns ==
  ASSUME RunIInv, Finish
  PROVE  Watched' /\ Pointed' /\ Furnished' /\ Threaded'
<1>1. /\ ~Free /\ call.scan = {} /\ call.todo = {} /\ Furnished /\ Books /\ Pending
      /\ Free' /\ suspended' = {} /\ UNCHANGED <<code, patched, ip, missed>>
      /\ CASE call.fn = "remove" -> Delete(call.pos)
           [] call.fn = "uninitialize" -> DeleteAll
           [] OTHER -> UNCHANGED <<lib, retracted>>
  BY DEF Finish, Unlocked, RunIInv, FreezeIInv, TablesIInv, Free
<1>2. Furnished' /\ retracted \subseteq retracted' /\ \A i \in DOMAIN hooks : Stays(i)
  <2>1. CASE call.fn = "remove"
    <3>1. PICK pos : pos = call.pos
      OBVIOUS
    <3>2. pos \in DOMAIN hooks /\ Delete(pos)
      BY <1>1, <2>1, <3>1 DEF Pending
    <3>3. QED
      BY <1>1, <3>2, DeleteStays
  <2>2. CASE call.fn = "uninitialize"
    <3>1. DeleteAll
      BY <1>1, <2>2
    <3>2. QED
      BY <1>1, <3>1, DeleteAllStays
  <2>3. CASE call.fn # "remove" /\ call.fn # "uninitialize"
    <3>1. UNCHANGED <<hooks, orig, retracted>>
      BY <1>1, <2>3 DEF lib
    <3>2. \A i \in DOMAIN hooks : SameEntry(hooks[i], hooks'[i])
      BY <3>1 DEF SameEntry
    <3>3. Furnished'
      BY <1>1, <3>1, <3>2, FurnishedKept
    <3>4. QED
      BY <3>1, <3>2, <3>3 DEF Stays
  <2>4. QED
    BY <2>1, <2>2, <2>3
<1>3. Threaded'
  BY <1>1, <1>2, EndPlaces, ThreadsLeft
<1>4. QED
  BY <1>1, <1>2, <1>3, FreeWatches

-----------------------------------------------------------------------------
(* Freeze. *)
\* The functions' code is what MinHook works on.
LEMMA CodeWellFormed ==
  ASSUME TableTypes, NEW tg \in Targets
  PROVE  WellFormed(code[tg])
BY ProgramsAssumption DEF TableTypes, Program

\* A trampoline holds copies of instructions of its function, and the first is of the first.
LEMMA ShapeCopies ==
  ASSUME TableTypes, NEW tg \in Targets, Shape(tg).ok, NEW p, p = code[tg],
         NEW ips, ips = Shape(tg).ips, NEW m, m = Len(ips)
  PROVE  /\ WellFormed(p) /\ Copy(p).state = "finished" /\ ips = Copy(p).ips /\ Bounds(p, ips, m)
         /\ DOMAIN ips = 1 .. m /\ 1 \in 1 .. m /\ ips[1].old = 0 /\ ips[1].new = 0
         /\ \A k \in DOMAIN ips : ips[k].old \in Boundaries(p) /\ ips[k].old \in Nat
<1>1. WellFormed(p) /\ Copy(p).state = "finished" /\ ips = Copy(p).ips
  BY CodeWellFormed DEF Shape, CreateTrampoline
<1>2. Bounds(p, ips, m)
  BY <1>1, CopiedAre
<1>3. DOMAIN ips = 1 .. m /\ m \in 1 .. Len(p.ins) /\ Len(p.ins) \in Nat /\ DOMAIN p.ins = 1 .. Len(p.ins)
  BY <1>1, <1>2, InstructionsAre DEF Bounds
<1>4. 1 \in 1 .. m
  BY <1>3
<1>5. ips[1].old = 0 /\ ips[1].new = 0
  BY <1>1, <1>2, <1>4, OffsetsGrow DEF Bounds
<1>6. ASSUME NEW k \in DOMAIN ips PROVE ips[k].old \in Boundaries(p) /\ ips[k].old \in Nat
  <2>1. k \in 1 .. m /\ k \in DOMAIN p.ins /\ k \in 1 .. Len(p.ins) + 1
    BY <1>3
  <2>2. ips[k].old = OffsetOf(p, k) /\ OffsetOf(p, k) \in Nat
    BY <1>1, <1>2, <2>1, OffsetsGrow DEF Bounds
  <2>3. QED
    BY <2>1, <2>2 DEF Boundaries
<1>7. QED
  BY <1>1, <1>2, <1>3, <1>4, <1>5, <1>6

\* So that an entry's thread is moved to where a function may be run on from.
LEMMA EntryCopies ==
  ASSUME TableTypes, Furnished, NEW i \in DOMAIN hooks, NEW h, h = hooks[i]
  PROVE  (\A k \in DOMAIN h.ips : Reached(h.target, h.ips[k].old)) /\ Reached(h.target, 0)
<1>1. PICK tg, ips, m, p : tg = h.target /\ ips = Shape(tg).ips /\ m = Len(ips) /\ p = code[tg]
  OBVIOUS
<1>2. tg \in Targets /\ Shape(tg).ok /\ h.ips = ips
  BY <1>1, HooksAre DEF Furnished
<1>3. DOMAIN ips = 1 .. m /\ 1 \in 1 .. m /\ ips[1].old = 0 /\ \A k \in DOMAIN ips : ips[k].old \in Boundaries(p)
  <2>1. TableTypes /\ tg \in Targets /\ Shape(tg).ok /\ p = code[tg] /\ ips = Shape(tg).ips /\ m = Len(ips)
    BY <1>1, <1>2
  <2>2. /\ WellFormed(p) /\ Copy(p).state = "finished" /\ ips = Copy(p).ips /\ Bounds(p, ips, m)
        /\ DOMAIN ips = 1 .. m /\ 1 \in 1 .. m /\ ips[1].old = 0 /\ ips[1].new = 0
        /\ \A k \in DOMAIN ips : ips[k].old \in Boundaries(p) /\ ips[k].old \in Nat
    BY ONLY <2>1, ShapeCopies, ZenonT(60)
  <2>3. QED
    BY ONLY <2>2
<1>4. QED
  BY <1>1, <1>2, <1>3 DEF Reached

\* Enabling: who stands on an instruction that was copied goes to the copy.
LEMMA NewReady ==
  ASSUME TableTypes, Furnished, NEW i \in DOMAIN hooks, NEW h, h = hooks[i], patched[h.target] = "none",
         NEW at, Spot(at), at[2] = h.target, at # <<"out">>, Known(at), Clear(at),
         NEW new, new = FindNewIP(h, at)
  PROVE  Known(new) /\ Clear(new) /\ new[2] = at[2] /\ (new[1] = "target" => new[3] >= JMP_REL)
<1>1. h.ips = Shape(h.target).ips /\ Shape(h.target).ok
  BY DEF Furnished
<1>2. CASE \E k \in DOMAIN h.ips : at = <<"target", h.target, h.ips[k].old>>
  <2>1. PICK k : k = CHOOSE q \in DOMAIN h.ips : h.ips[q].old = at[3]
    OBVIOUS
  <2>2. k \in DOMAIN h.ips
    BY <1>2, <2>1
  <2>3. new = <<"tramp", h.target, h.slot, h.ips[k].new>>
    BY <1>2, <2>1 DEF FindNewIP
  <2>4. InCopy(new)
    BY <2>2, <2>3 DEF InCopy
  <2>5. QED
    BY <2>3, <2>4 DEF Known, Clear
<1>3. CASE \A k \in DOMAIN h.ips : at # <<"target", h.target, h.ips[k].old>>
  <2>1. new = at
    BY <1>3 DEF FindNewIP
  <2>2. ASSUME at[1] = "target" PROVE at[3] >= JMP_REL
    <3>1. at = <<"target", h.target, at[3]>>
      BY <2>2 DEF Spot
    <3>2. Reached(h.target, at[3])
      BY <1>1, <2>2 DEF Known
    <3>3. QED
      BY <1>1, <1>3, <3>1, <3>2 DEF Reached
  <2>3. QED
    BY <2>1, <2>2
<1>4. QED
  BY <1>2, <1>3

\* Disabling: who stands on the jump above or in the trampoline goes to the function.
LEMMA OldReady ==
  ASSUME TableTypes, Once, Copied, Furnished, NEW i \in DOMAIN hooks, NEW h, h = hooks[i],
         NEW at, Spot(at), at[2] = h.target, at # <<"out">>, Known(at), Clear(at),
         NEW new, new = FindOldIP(h, at)
  PROVE  Known(new) /\ new[2] = at[2] /\ new[1] \notin {"above", "tramp", "lost"}
<1>1. h.patchAbove = Shape(h.target).patchAbove
  BY DEF Copied
<1>2. CASE at[1] = "above"
  <2>1. at = <<"above", h.target>> /\ h.patchAbove
    BY <1>1, <1>2 DEF Spot
  <2>2. new = <<"target", h.target, 0>>
    BY <2>1 DEF FindOldIP
  <2>3. Reached(h.target, 0)
    BY EntryCopies
  <2>4. QED
    BY <2>2, <2>3 DEF Known
<1>3. CASE at[1] = "tramp"
  <2>1. PICK j \in DOMAIN hooks : /\ at = <<"tramp", hooks[j].target, hooks[j].slot, at[4]>>
                                  /\ \E k \in DOMAIN hooks[j].ips : hooks[j].ips[k].new = at[4]
    BY <1>3 DEF Clear, InCopy
  <2>2. hooks[j].target = h.target
    BY <2>1
  <2>3. j = i
    BY <2>2 DEF Once
  <2>4. PICK k : k = CHOOSE q \in DOMAIN h.ips : h.ips[q].new = at[4]
    OBVIOUS
  <2>5. k \in DOMAIN h.ips /\ \E q \in DOMAIN h.ips : at = <<"tramp", h.target, h.slot, h.ips[q].new>>
    BY <2>1, <2>3, <2>4
  <2>6. at # <<"above", h.target>>
    BY <1>3
  <2>7. new = <<"target", h.target, h.ips[k].old>>
    BY <2>4, <2>5, <2>6 DEF FindOldIP
  <2>8. Reached(h.target, h.ips[k].old)
    BY <2>5, EntryCopies
  <2>9. QED
    BY <2>7, <2>8 DEF Known
<1>4. CASE at[1] \notin {"above", "tramp"}
  <2>1. /\ at # <<"above", h.target>>
        /\ \A k \in DOMAIN h.ips : at # <<"tramp", h.target, h.slot, h.ips[k].new>>
    BY <1>4
  <2>2. new = at
    BY <2>1 DEF FindOldIP
  <2>3. QED
    BY <1>4, <2>2 DEF Clear
<1>5. QED
  BY <1>2, <1>3, <1>4

\* A thread that is stopped is ready for what the call will do.
LEMMA FreezeReady ==
  ASSUME RunIInv, ~Free, call.scan # {}, NEW at, Spot(at), at # <<"out">>, Known(at), Clear(at),
         NEW span, span = call.span, NEW action, action = call.action,
         NEW new, new = ProcessThreadIPs(at, span, action)
  PROVE  Known(new) /\ Ready(new)
<1> DEFINE own == {i \in span : /\ hooks[i].isEnabled # Wanted(action, i)
                                /\ at # <<"out">> /\ at[2] = hooks[i].target}
           mover == CHOOSE i \in own : TRUE
<1>1. new = IF own = {} THEN at
            ELSE IF Wanted(action, mover) THEN FindNewIP(hooks[mover], at) ELSE FindOldIP(hooks[mover], at)
  BY DEF ProcessThreadIPs
<1>2. /\ TableTypes /\ Once /\ Jumps /\ Copied /\ Furnished
      /\ call \in CallRec /\ call.todo \subseteq DOMAIN hooks /\ call.todo \subseteq DOMAIN call.enable
  BY DEF RunIInv, FreezeIInv, TablesIInv, Books, Pending
<1>3. /\ span \subseteq DOMAIN hooks
      /\ \A i \in call.todo : /\ i \in span /\ hooks[i].isEnabled # call.enable[i]
                              /\ \/ call.enable[i] = Wanted(action, i)
                                 \/ call.fn = "set" /\ action = "enable" /\ ~call.enable[i]
      /\ \A i \in span : hooks[i].isEnabled # Wanted(action, i) => i \in call.todo
  BY DEF RunIInv, Pointed
<1>4. own \subseteq call.todo /\ \A i \in own : hooks[i].target = at[2]
  BY <1>3
<1>5. own # {} => mover \in own
  OBVIOUS
<1>6. CASE \A i \in call.todo : hooks[i].target # at[2]
  <2>1. own = {}
    BY <1>4, <1>6
  <2>2. new = at
    BY <1>1, <2>1
  <2>3. QED
    BY <1>6, <2>2 DEF Ready
<1>7. ASSUME NEW i \in call.todo, hooks[i].target = at[2] PROVE Known(new) /\ Ready(new)
  <2>1. PICK h : h = hooks[i]
    OBVIOUS
  <2>2. i \in DOMAIN hooks /\ i \in span /\ hooks[i].isEnabled \in BOOLEAN /\ call.enable[i] \in BOOLEAN
    <3>1. i \in DOMAIN hooks /\ hooks[i].isEnabled \in BOOLEAN
      BY <1>2, HooksAre
    <3>2. call.enable \in Switches /\ i \in DOMAIN call.enable
      BY <1>2 DEF CallRec
    <3>3. PICK S \in SUBSET Nat : call.enable \in [S -> BOOLEAN]
      BY <3>2 DEF Switches
    <3>4. QED
      BY <1>3, <3>1, <3>2, <3>3
  <2>3. \A j \in call.todo : hooks[j].target = at[2] => j = i
    BY <1>2, <1>7, <2>2 DEF Once
  <2>4. own \subseteq {i}
    BY <1>4, <2>3
  <2>5. CASE call.enable[i]
    <3>1. ~hooks[i].isEnabled /\ Wanted(action, i) = TRUE
      BY <1>3, <2>2, <2>5
    <3>2. i \in own
      BY <1>7, <2>2, <3>1
    <3>3. mover = i /\ own # {}
      BY <1>5, <2>4, <3>2
    <3>4. new = FindNewIP(h, at)
      BY <1>1, <2>1, <3>1, <3>3
    <3>5. patched[h.target] = "none"
      <4>1. h.target \in Targets
        BY <1>2, <2>1, <2>2, HooksAre
      <4>2. \A j \in DOMAIN hooks : hooks[j].target = h.target => j = i
        BY <1>2, <2>1, <2>2 DEF Once
      <4>3. QED
        BY <1>2, <3>1, <4>1, <4>2 DEF Jumps
    <3>6. Known(new) /\ Clear(new) /\ new[2] = at[2] /\ (new[1] = "target" => new[3] >= JMP_REL)
      BY <1>2, <1>7, <2>1, <2>2, <3>4, <3>5, NewReady
    <3>7. Ready(new)
      BY <1>7, <2>3, <2>5, <3>6 DEF Ready
    <3>8. QED
      BY <3>6, <3>7
  <2>6. CASE ~call.enable[i] /\ Wanted(action, i) = FALSE
    <3>1. hooks[i].isEnabled
      BY <1>3, <2>2, <2>6
    <3>2. i \in own
      BY <1>7, <2>2, <2>6, <3>1
    <3>3. mover = i /\ own # {}
      BY <1>5, <2>4, <3>2
    <3>4. new = FindOldIP(h, at)
      BY <1>1, <2>1, <2>6, <3>3
    <3>5. Known(new) /\ new[2] = at[2] /\ new[1] \notin {"above", "tramp", "lost"}
      BY <1>2, <1>7, <2>1, <2>2, <3>4, OldReady
    <3>6. Ready(new)
      BY <1>7, <2>3, <2>6, <3>5 DEF Ready
    <3>7. QED
      BY <3>5, <3>6
  <2>7. CASE ~call.enable[i] /\ call.fn = "set" /\ action = "enable"
    <3>1. hooks[i].isEnabled = Wanted(action, i)
      <4>1. hooks[i].isEnabled
        BY <1>3, <2>2, <2>7
      <4>2. Wanted(action, i) = TRUE
        BY <2>7 DEF Wanted
      <4>3. QED
        BY <2>2, <4>1, <4>2
    <3>2. own = {}
      BY <2>4, <3>1
    <3>3. new = at
      BY <1>1, <3>2
    <3>4. Ready(new)
      BY <1>7, <2>3, <2>7, <3>3 DEF Ready
    <3>5. QED
      BY <3>3, <3>4
  <2>8. QED
    BY <1>3, <2>2, <2>5, <2>6, <2>7
<1>8. QED
  BY <1>6, <1>7

\* Where a stopped thread is told what comes of it.
LEMMA ReadyStays ==
  ASSUME UNCHANGED <<code, hooks, patched>>, call'.todo = call.todo, call'.enable = call.enable,
         call'.fn = call.fn, NEW at
  PROVE  (Known(at) => Known(at)') /\ (Ready(at) => Ready(at)') /\ (Clear(at) => Clear(at)')
<1>1. (Known(at) => Known(at)') /\ (Clear(at) => Clear(at)')
  BY DEF Known, Reached, Shape, Clear, InCopy
<1>2. Clear(at) <=> Clear(at)'
  BY DEF Clear, InCopy
<1>3. QED
  BY <1>1, <1>2 DEF Ready

\* A thread is stopped and moved, or stopped only, or missed.
LEMMA FreezeRuns ==
  ASSUME RunIInv, NEW t \in Threads, FreezeThread(t)
  PROVE  Watched' /\ Pointed' /\ Furnished' /\ Threaded'
<1>1. /\ ~Free /\ t \in call.scan /\ call \in CallRec /\ Located /\ Furnished /\ Watched /\ Pointed
      /\ UNCHANGED <<code, hooks, orig, patched, retracted>>
  BY DEF RunIInv, FreezeIInv, TablesIInv, Pending, FreezeThread, lib
<1>3. /\ call'.todo = call.todo /\ call'.fn = call.fn /\ call'.action = call.action
      /\ call'.span = call.span /\ call'.enable = call.enable /\ call'.scan = call.scan \ {t}
  BY <1>1, FreezeThreadCall
<1>4. Pointed'
  <2>1. \A i : Wanted(call.action, i)' = Wanted(call.action, i)
    BY <1>1, <1>3 DEF Wanted
  <2>2. QED
    BY <1>1, <1>3 DEF Pointed, Wanted
<1>5. \A j \in DOMAIN hooks : SameEntry(hooks[j], hooks'[j])
  BY <1>1 DEF SameEntry
<1>6. Furnished'
  BY <1>1, <1>5, FurnishedKept
<1>7. ASSUME NEW s \in Threads \ missed, ip'[s] = ip[s], s \in suspended' <=> s \in suspended
      PROVE  Placed(s)'
  <2>1. PICK at : at = ip[s]
    OBVIOUS
  <2>2. \/ at = <<"out">> \/ Excused(at)
        \/ Known(at) /\ IF s \in suspended THEN Ready(at) ELSE Clear(at)
    BY <1>7, <2>1 DEF RunIInv, Threaded, Placed
  <2>3. Excused(at) => Excused(at)'
    BY <1>1, ExcusedStays
  <2>4. (Known(at) => Known(at)') /\ (Ready(at) => Ready(at)') /\ (Clear(at) => Clear(at)')
    BY <1>1, <1>3, ReadyStays
  <2>5. ip'[s] = at
    BY <1>7, <2>1
  <2>6. QED
    BY <1>7, <2>2, <2>3, <2>4, <2>5 DEF Placed
<1>8. CASE /\ missed' = missed \cup {t} /\ UNCHANGED ip
           /\ UNCHANGED suspended \/ suspended' = suspended \cup {t}
  <2>1. Watched'
    BY <1>1, <1>3, <1>8 DEF Watched
  <2>2. Threaded'
    BY <1>7, <1>8 DEF Threaded
  <2>3. QED
    BY <1>4, <1>6, <2>1, <2>2
<1>9. CASE /\ suspended' = suspended \cup {t} /\ UNCHANGED missed
           /\ ip' = [ip EXCEPT ![t] = ProcessThreadIPs(ip[t], call.span, call.action)]
  <2>1. Watched'
    BY <1>1, <1>3, <1>9 DEF Watched
  <2>2. PICK at, span, action, new :
           /\ at = ip[t] /\ span = call.span /\ action = call.action
           /\ new = ProcessThreadIPs(at, span, action)
    OBVIOUS
  <2>3. ip'[t] = new /\ \A s \in Threads : s # t => ip'[s] = ip[s]
    BY <1>1, <1>9, <2>2 DEF Located
  <2>4. t \notin suspended /\ t \in suspended'
    BY <1>1, <1>9 DEF Watched
  <2>5. ASSUME NEW s \in Threads \ missed, s # t PROVE Placed(s)'
    BY <1>7, <1>9, <2>3, <2>5
  <2>6. ASSUME t \notin missed PROVE Placed(t)'
    <3>1. at = <<"out">> \/ Excused(at) \/ (Known(at) /\ Clear(at))
      BY <2>2, <2>4, <2>6 DEF RunIInv, Threaded, Placed
    <3>2. CASE at = <<"out">>
      <4>1. new = at
        BY <2>2, <3>2 DEF ProcessThreadIPs
      <4>2. QED
        BY <2>3, <3>2, <4>1 DEF Placed
    <3>3. CASE Excused(at)
      <4>1. new[2] = at[2]
        BY <2>2, Moves
      <4>2. Excused(new)'
        BY <1>1, <3>3, <4>1 DEF Excused
      <4>3. QED
        BY <2>3, <4>2 DEF Placed
    <3>4. CASE Known(at) /\ Clear(at) /\ at # <<"out">>
      <4>1. Spot(at)
        BY <1>1, <2>2 DEF Located
      <4>2. call.scan # {}
        BY <1>1
      <4>3. Known(new) /\ Ready(new)
        BY <1>1, <2>2, <3>4, <4>1, <4>2, FreezeReady
      <4>4. Known(new)' /\ Ready(new)'
        BY <1>1, <1>3, <4>3, ReadyStays
      <4>5. QED
        BY <2>3, <2>4, <4>4 DEF Placed
    <3>5. QED
      BY <3>1, <3>2, <3>3, <3>4
  <2>7. Threaded'
    BY <1>9, <2>5, <2>6 DEF Threaded
  <2>8. QED
    BY <1>4, <1>6, <2>1, <2>7
<1>10. QED
  BY <1>8, <1>9 DEF FreezeThread

-----------------------------------------------------------------------------
(* The patch. *)
\* EnableHookLL: everybody who could be stopped is ready for it.
LEMMA PatchRuns ==
  ASSUME RunIInv, Patch
  PROVE  Watched' /\ Pointed' /\ Furnished' /\ Threaded'
<1>1. /\ ~Free /\ call.scan = {} /\ call.todo # {} /\ call \in CallRec
      /\ call.todo \subseteq DOMAIN hooks /\ call.todo \subseteq DOMAIN call.enable
      /\ TableTypes /\ Once /\ Jumps /\ Furnished /\ Watched /\ Pointed
      /\ UNCHANGED <<code, orig, ip, suspended, missed>>
  BY DEF Patch, RunIInv, FreezeIInv, TablesIInv, Books, Pending
<1>2. PICK i : i = NextEntry
  OBVIOUS
<1>3. i \in call.todo /\ i \in DOMAIN hooks
  BY <1>1, <1>2, NextIs
<1>4. PICK h \in EntryRec : h = hooks[i]
  BY <1>1, <1>3, HooksAre
<1>5. PICK enable : enable = call.enable[i]
  OBVIOUS
<1>6. PICK g : g = [h EXCEPT !.isEnabled = enable, !.queueEnable = enable]
  OBVIOUS
<1>7. SameEntry(h, g)
  BY <1>4, <1>6 DEF EntryRec, SameEntry
<1>8. DOMAIN hooks' = DOMAIN hooks /\ hooks'[i] = g /\ \A j \in DOMAIN hooks : j # i => hooks'[j] = hooks[j]
  <2>1. hooks' = [hooks EXCEPT ![i] = g]
    <3>1. hooks' = [hooks EXCEPT ![i].isEnabled = enable, ![i].queueEnable = enable]
      BY <1>2, <1>5 DEF Patch
    <3>2. QED
      BY <1>3, <1>4, <1>6, <3>1
  <2>2. QED
    BY <1>3, <2>1
<1>9. \A j \in DOMAIN hooks : SameEntry(hooks[j], hooks'[j])
  BY <1>4, <1>7, <1>8 DEF SameEntry
<1>10. Furnished'
  BY <1>1, <1>8, <1>9, FurnishedKept
<1>11. PICK c \in CallRec : c = call
  BY <1>1
<1>12. /\ call'.todo = call.todo \ {i} /\ call'.fn = call.fn /\ call'.action = call.action
       /\ call'.span = call.span /\ call'.enable = call.enable /\ call'.scan = {}
  <2>1. call' = [c EXCEPT !.todo = c.todo \ {i}]
    BY <1>2, <1>11 DEF Patch
  <2>2. QED
    BY <1>1, <1>11, <2>1 DEF CallRec
<1>13. Watched'
  BY <1>1, <1>12 DEF Watched
<1>14. Pointed'
  <2>1. call'.span \subseteq DOMAIN hooks'
    BY <1>1, <1>8, <1>12 DEF Pointed
  <2>2. ASSUME NEW j \in call'.todo
        PROVE  /\ j \in call'.span /\ hooks'[j].isEnabled # call'.enable[j]
               /\ \/ call'.enable[j] = Wanted(call.action, j)'
                  \/ call'.fn = "set" /\ call'.action = "enable" /\ ~call'.enable[j]
    <3>1. j \in call.todo /\ j \in DOMAIN hooks /\ hooks'[j] = hooks[j]
      BY <1>1, <1>8, <1>12
    <3>2. Wanted(call.action, j)' = Wanted(call.action, j)
      BY <1>12, <3>1 DEF Wanted
    <3>3. QED
      BY <1>1, <1>12, <3>1, <3>2 DEF Pointed
  <2>3. QED
    BY <1>12, <2>1, <2>2 DEF Pointed, Wanted
<1>15. PICK jump : /\ patched' = [patched EXCEPT ![h.target] = jump]
                   /\ jump \in IF enable THEN {"long", "short"} ELSE {"none"}
  <2>1. PICK jump : jump = IF ~enable THEN "none" ELSE IF h.patchAbove THEN "short" ELSE "long"
    OBVIOUS
  <2>2. patched' = [patched EXCEPT ![h.target] = jump]
    BY <1>2, <1>4, <1>5, <2>1 DEF Patch
  <2>3. QED
    BY <2>1, <2>2
<1>16. /\ h.target \in Targets /\ patched'[h.target] = jump
       /\ \A tg \in Targets : tg # h.target => patched'[tg] = patched[tg]
  BY <1>1, <1>4, <1>15 DEF EntryRec, TableTypes
<1>17. retracted \subseteq retracted' /\ (call.fn = "set" /\ ~enable => h.target \in retracted')
  BY <1>2, <1>4, <1>5 DEF Patch
<1>18. \A j \in DOMAIN hooks : Stays(j)
  BY <1>8, <1>9 DEF Stays
<1>19. patched[h.target] # "none" <=> h.isEnabled
  <2>1. \A j \in DOMAIN hooks : hooks[j].target = h.target => j = i
    BY <1>1, <1>3, <1>4 DEF Once
  <2>2. QED
    BY <1>1, <1>3, <1>4, <1>16, <2>1 DEF Jumps
<1>20. h.isEnabled # enable /\ h.isEnabled \in BOOLEAN /\ enable \in BOOLEAN
  <2>1. call.enable \in Switches /\ i \in DOMAIN call.enable
    BY <1>1, <1>3 DEF CallRec
  <2>2. PICK S \in SUBSET Nat : call.enable \in [S -> BOOLEAN]
    BY <2>1 DEF Switches
  <2>3. QED
    BY <1>1, <1>3, <1>4, <1>5, <2>1, <2>2 DEF Pointed, EntryRec
<1>21. ASSUME NEW t \in Threads \ missed, NEW at, at = ip[t], at # <<"out">>, at[2] \notin retracted',
              Known(at), Ready(at)
       PROVE  Known(at)' /\ Ready(at)'
  <2>1. Known(at)'
    BY <1>1, <1>18, <1>21, KnownStays
  <2>2. at[2] \in Targets
    BY <1>21 DEF RunIInv, FreezeIInv, Located, Spot
  <2>3. CASE at[2] # h.target
    <3>1. patched'[at[2]] = patched[at[2]]
      BY <1>16, <2>2, <2>3
    <3>2. Clear(at) => Clear(at)'
      BY <1>18, <1>21, <3>1, ClearStays
    <3>3. ASSUME NEW j \in call'.todo PROVE j \in call.todo /\ hooks'[j] = hooks[j]
      BY <1>1, <1>8, <1>12
    <3>4. ASSUME \A j \in call'.todo : hooks'[j].target # at[2] PROVE Clear(at)'
      <4>1. \A j \in call.todo : hooks[j].target # at[2]
        BY <1>4, <1>12, <2>3, <3>3, <3>4
      <4>2. QED
        BY <1>21, <3>2, <4>1 DEF Ready
    <3>5. ASSUME NEW j \in call'.todo, hooks'[j].target = at[2]
          PROVE  /\ call'.enable[j] => Clear(at)' /\ (at[1] = "target" => at[3] >= JMP_REL)
                 /\ ~call'.enable[j] /\ call'.fn # "set" => at[1] \notin {"above", "tramp", "lost"}
      BY <1>12, <1>21, <3>2, <3>3, <3>5 DEF Ready
    <3>6. Ready(at)'
      BY <3>4, <3>5 DEF Ready
    <3>7. QED
      BY <2>1, <3>6
  <2>4. CASE at[2] = h.target
    <3>1. \A j \in call'.todo : hooks'[j].target # at[2]
      BY <1>1, <1>3, <1>4, <1>8, <1>12, <2>4 DEF Once
    <3>2. /\ enable => Clear(at) /\ (at[1] = "target" => at[3] >= JMP_REL)
          /\ ~enable /\ call.fn # "set" => at[1] \notin {"above", "tramp", "lost"}
      BY <1>3, <1>4, <1>5, <1>21, <2>4 DEF Ready
    <3>3. CASE enable
      <4>1. patched[at[2]] = "none"
        BY <1>19, <1>20, <2>4, <3>3
      <4>2. at[1] \notin {"above", "lost"}
        BY <3>2, <3>3, <4>1 DEF Clear
      <4>3. at[1] = "tramp" => InCopy(at)'
        BY <1>18, <1>21, <3>2, <3>3, InCopyStays DEF Clear
      <4>4. Clear(at)'
        BY <3>2, <3>3, <4>2, <4>3 DEF Clear
      <4>5. QED
        BY <2>1, <3>1, <4>4 DEF Ready
    <3>4. CASE ~enable
      <4>1. call.fn # "set"
        BY <1>17, <1>21, <2>4, <3>4
      <4>2. patched'[at[2]] = "none"
        BY <1>15, <1>16, <2>4, <3>4
      <4>3. Clear(at)'
        BY <3>2, <3>4, <4>1, <4>2 DEF Clear
      <4>4. QED
        BY <2>1, <3>1, <4>3 DEF Ready
    <3>5. QED
      BY <3>3, <3>4
  <2>5. QED
    BY <2>3, <2>4
<1>22. Threaded'
  <2>1. SUFFICES ASSUME NEW t \in Threads \ missed PROVE Placed(t)'
    BY <1>1 DEF Threaded
  <2>2. PICK at : at = ip[t]
    OBVIOUS
  <2>3. t \in suspended /\ t \in suspended' /\ ip'[t] = at
    BY <1>1, <2>2 DEF Watched
  <2>4. at = <<"out">> \/ Excused(at) \/ (Known(at) /\ Ready(at))
    BY <2>2, <2>3 DEF RunIInv, Threaded, Placed
  <2>5. CASE at = <<"out">>
    BY <2>3, <2>5 DEF Placed
  <2>6. CASE Excused(at) \/ at[2] \in retracted'
    <3>1. Excused(at)'
      BY <1>1, <1>17, <2>6, ExcusedStays DEF Excused
    <3>2. QED
      BY <2>3, <3>1 DEF Placed
  <2>7. CASE at # <<"out">> /\ at[2] \notin retracted' /\ Known(at) /\ Ready(at)
    BY <1>21, <2>2, <2>3, <2>7 DEF Placed
  <2>8. QED
    BY <2>4, <2>5, <2>6, <2>7
<1>23. QED
  BY <1>10, <1>13, <1>14, <1>22

-----------------------------------------------------------------------------
(* The steps of the threads. *)

\* Where a thread may go.
Goes(at) == at = <<"out">> \/ (Known(at) /\ Clear(at))

\* To an offset of the function itself.
LEMMA TargetGoes ==
  ASSUME NEW tg, NEW o,
         o \in Boundaries(code[tg]) => /\ Shape(tg).ok => Reached(tg, o)
                                       /\ patched[tg] = "none" \/ o = 0 \/ o >= JMP_REL
  PROVE  Goes(InTarget(tg, o))
<1>1. CASE o \in Boundaries(code[tg])
  <2>1. InTarget(tg, o) = <<"target", tg, o>>
    BY <1>1 DEF InTarget
  <2>2. QED
    BY <1>1, <2>1 DEF Goes, Known, Clear
<1>2. CASE o \notin Boundaries(code[tg])
  BY <1>2 DEF InTarget, Goes
<1>3. QED
  BY <1>1, <1>2

\* A function that holds a jump has an entry, and its trampoline.
LEMMA JumpHasEntry ==
  ASSUME Jumps, Furnished, NEW tg \in Targets, patched[tg] # "none"
  PROVE  (\E i \in DOMAIN hooks : hooks[i].target = tg) /\ Shape(tg).ok
BY DEF Jumps, Furnished

\* From an instruction of the function: to the jump, to what follows, or out.
LEMMA RunTargetGoes ==
  ASSUME TableTypes, Jumps, Furnished, NEW t \in Threads, NEW at, at = ip[t], Spot(at), Known(at), Clear(at),
         ~Unforeseen(code[at[2]]), RunTarget(t)
  PROVE  \E new : Goes(new) /\ Arrive(t, new)
<1>1. PICK tg, o, p : tg = at[2] /\ o = at[3] /\ p = code[tg]
  OBVIOUS
<1>2. at = <<"target", tg, o>> /\ tg \in Targets
  BY <1>1 DEF RunTarget, Spot
<1>3. patched[tg] = "none" \/ o = 0 \/ o >= JMP_REL
  BY <1>2 DEF Clear
<1>4. Shape(tg).ok => Reached(tg, o)
  BY <1>1, <1>2 DEF Known
<1>5. CASE patched[tg] = "long" /\ o = 0 /\ Arrive(t, <<"detour", tg>>)
  <2>1. Goes(<<"detour", tg>>)
    BY <1>2, <1>5, JumpHasEntry DEF Goes, Known, Clear
  <2>2. QED
    BY <1>1, <1>5, <2>1
<1>6. CASE patched[tg] = "short" /\ o = 0 /\ Arrive(t, <<"above", tg>>)
  <2>1. Goes(<<"above", tg>>)
    BY <1>6 DEF Goes, Known, Clear
  <2>2. QED
    BY <1>1, <1>6, <2>1
<1>7. CASE Overwritten(tg, o) /\ o > 0
  <2>1. patched[tg] # "none"
    BY <1>7 DEF Overwritten
  <2>2. Reached(tg, o)
    BY <1>2, <1>4, <2>1, JumpHasEntry
  <2>3. WellFormed(p) /\ o \in Boundaries(p)
    BY <1>1, <1>2, <2>2, CodeWellFormed DEF Reached
  <2>4. o \in Nat
    BY <2>3, BoundariesAre
  <2>5. QED
    BY <1>3, <1>7, <2>1, <2>4 DEF Overwritten, JMP_REL, JMP_REL_SHORT
<1>8. ASSUME ~Overwritten(tg, o), NEW next \in Successors(p, o), Arrive(t, InTarget(tg, next))
      PROVE  \E new : Goes(new) /\ Arrive(t, new)
  <2>1. patched[tg] \in {"none", "long", "short"}
    BY <1>2 DEF TableTypes
  <2>2. patched[tg] = "none" \/ o >= JMP_REL
    BY <1>3, <1>8, <2>1 DEF Overwritten, JMP_REL, JMP_REL_SHORT
  <2>3. ASSUME next \in Boundaries(p), Shape(tg).ok
        PROVE  Reached(tg, next) /\ (o >= JMP_REL => next = 0 \/ next >= JMP_REL)
    <3>1. PICK ips, m : ips = Shape(tg).ips /\ m = Len(ips)
      OBVIOUS
    <3>2. WellFormed(p) /\ Copy(p).state = "finished" /\ ips = Copy(p).ips /\ DOMAIN ips = 1 .. m
      <4>1. TableTypes /\ tg \in Targets /\ Shape(tg).ok /\ p = code[tg]
        BY <1>1, <1>2, <2>3
      <4>2. QED
        BY ONLY <3>1, <4>1, ShapeCopies
    <3>3. o \in Boundaries(p) /\ (o >= JMP_REL \/ \E k \in 1 .. m : ips[k].old = o)
      BY <1>1, <1>4, <2>3, <3>1, <3>2 DEF Reached
    <3>4. ~Unforeseen(p)
      BY <1>1
    <3>5. /\ next >= JMP_REL \/ \E k \in 1 .. m : ips[k].old = next
          /\ o >= JMP_REL => next = 0 \/ next >= JMP_REL
      BY <1>8, <2>3, <3>1, <3>2, <3>3, <3>4, OwnOnwards
    <3>6. QED
      BY <1>1, <2>3, <3>1, <3>2, <3>5 DEF Reached
  <2>4. next \in Boundaries(p) => patched[tg] = "none" \/ next = 0 \/ next >= JMP_REL
    BY <1>2, <2>2, <2>3, JumpHasEntry
  <2>5. Goes(InTarget(tg, next))
    BY <1>1, <2>3, <2>4, TargetGoes
  <2>6. QED
    BY <1>8, <2>5
<1>9. QED
  BY <1>1, <1>5, <1>6, <1>7, <1>8 DEF RunTarget

\* The long jump above is run only while the short one leads there.
LEMMA RunAboveGoes ==
  ASSUME TableTypes, Jumps, Furnished, NEW t \in Threads, NEW at, at = ip[t], Spot(at), Clear(at), RunAbove(t)
  PROVE  \E new : Goes(new) /\ Arrive(t, new)
<1>1. PICK tg : tg = at[2]
  OBVIOUS
<1>2. at[1] = "above" /\ tg \in Targets /\ patched[tg] = "short"
  BY <1>1 DEF RunAbove, Spot, Clear
<1>3. Arrive(t, <<"detour", tg>>)
  BY <1>1, <1>2 DEF RunAbove
<1>4. Goes(<<"detour", tg>>)
  BY <1>2, JumpHasEntry DEF Goes, Known, Clear
<1>5. QED
  BY <1>3, <1>4

\* The detour calls the trampoline of its own entry (*ppOriginal).
LEMMA RunDetourGoes ==
  ASSUME TableTypes, Furnished, NEW t \in Threads, NEW at, at = ip[t], Known(at), RunDetour(t)
  PROVE  \E new : Goes(new) /\ Arrive(t, new)
<1>1. PICK tg, s : tg = at[2] /\ s = orig[tg]
  OBVIOUS
<1>2. PICK i \in DOMAIN hooks : hooks[i].target = tg
  BY <1>1 DEF RunDetour, Known
<1>3. hooks[i].slot = s /\ hooks[i].ips = Shape(tg).ips /\ Shape(tg).ok /\ tg \in Targets
  BY <1>1, <1>2, HooksAre DEF Furnished
<1>4. PICK ips, m : ips = Shape(tg).ips /\ m = Len(ips)
  OBVIOUS
<1>5. 1 \in DOMAIN ips /\ ips[1].new = 0
  BY <1>3, <1>4, ShapeCopies
<1>6. PICK new : new = <<"tramp", tg, s, 0>>
  OBVIOUS
<1>7. new[1] = "tramp" /\ new[4] = 0
  BY <1>6
<1>8. InCopy(new)
  BY <1>2, <1>3, <1>4, <1>5, <1>6, <1>7 DEF InCopy
<1>9. Goes(new) /\ Goes(<<"out">>)
  BY <1>7, <1>8 DEF Goes, Known, Clear
<1>10. Arrive(t, <<"out">>) \/ Arrive(t, new)
  BY <1>1, <1>6 DEF RunDetour
<1>11. QED
  BY <1>9, <1>10

\* From a copy: to a copy, or to the function behind what the jump overwrites.
LEMMA RunTrampolineGoes ==
  ASSUME TableTypes, Own, Copied, Furnished, NEW t \in Threads, NEW at, at = ip[t], Clear(at),
         ~Unforeseen(code[at[2]]), RunTrampoline(t)
  PROVE  \E new : Goes(new) /\ Arrive(t, new)
<1>1. PICK i \in DOMAIN hooks : /\ at = <<"tramp", hooks[i].target, hooks[i].slot, at[4]>>
                                /\ \E k \in DOMAIN hooks[i].ips : hooks[i].ips[k].new = at[4]
  BY DEF RunTrampoline, Clear, InCopy
<1>2. PICK tg, s, n, p, ips, m : /\ tg = hooks[i].target /\ s = hooks[i].slot /\ n = at[4]
                                 /\ p = code[tg] /\ ips = hooks[i].ips /\ m = Len(ips)
  OBVIOUS
<1>3. at = <<"tramp", tg, s, n>> /\ at[2] = tg /\ at[3] = s /\ \E k \in DOMAIN ips : ips[k].new = n
  BY <1>1, <1>2
<1>4. text[s].target = tg /\ text[s].ips = ips /\ ips = Shape(tg).ips /\ Shape(tg).ok /\ tg \in Targets
  BY <1>2, HooksAre DEF Own, Copied, Furnished
<1>5. InTrampoline(at)
  BY <1>3, <1>4 DEF InTrampoline
<1>6. PICK k : k = CHOOSE q \in DOMAIN ips : ips[q].new = n
  OBVIOUS
<1>7. k \in DOMAIN ips /\ ips[k].new = n
  BY <1>3, <1>6
<1>8. PICK next \in CopiedNext(p, ips, k) :
         Arrive(t, IF next[1] = "copy" THEN <<"tramp", tg, s, next[2]>> ELSE InTarget(tg, next[2]))
  BY <1>2, <1>3, <1>4, <1>5, <1>6 DEF RunTrampoline
<1>9. /\ WellFormed(p) /\ Copy(p).state = "finished" /\ ips = Copy(p).ips /\ DOMAIN ips = 1 .. m
      /\ ~Unforeseen(p)
  BY <1>2, <1>3, <1>4, ShapeCopies
<1>10. \/ \E j \in 1 .. m : next = <<"copy", ips[j].new>>
       \/ \E d : next = <<"own", d>> /\ (d \in Boundaries(p) => d >= JMP_REL)
  <2>1. m = Len(ips) /\ k \in 1 .. m
    BY <1>2, <1>7, <1>9
  <2>2. QED
    BY ONLY <1>8, <1>9, <2>1, CopyOnwards
<1>11. ASSUME NEW j \in 1 .. m, next = <<"copy", ips[j].new>> PROVE \E new : Goes(new) /\ Arrive(t, new)
  <2>1. PICK new : new = <<"tramp", tg, s, ips[j].new>>
    OBVIOUS
  <2>2. Arrive(t, new)
    BY <1>8, <1>11, <2>1
  <2>3. InCopy(new)
    BY <1>2, <1>9, <2>1 DEF InCopy
  <2>4. Goes(new)
    BY <2>1, <2>3 DEF Goes, Known, Clear
  <2>5. QED
    BY <2>2, <2>4
<1>12. ASSUME NEW d, next = <<"own", d>>, d \in Boundaries(p) => d >= JMP_REL
       PROVE  \E new : Goes(new) /\ Arrive(t, new)
  <2>1. Arrive(t, InTarget(tg, d))
    BY <1>8, <1>12
  <2>2. Goes(InTarget(tg, d))
    BY <1>2, <1>12, TargetGoes DEF Reached
  <2>3. QED
    BY <2>1, <2>2
<1>13. QED
  BY <1>10, <1>11, <1>12

\* A call of the function.
LEMMA EnterGoes ==
  ASSUME TableTypes, NEW t \in Threads, NEW tg \in Targets, Enter(t, tg)
  PROVE  \E new : Goes(new) /\ Arrive(t, new)
<1>1. Shape(tg).ok => Reached(tg, 0)
  <2>1. SUFFICES ASSUME Shape(tg).ok PROVE Reached(tg, 0)
    OBVIOUS
  <2>2. PICK ips, m, p : ips = Shape(tg).ips /\ m = Len(ips) /\ p = code[tg]
    OBVIOUS
  <2>3. 1 \in DOMAIN ips /\ ips[1].old = 0 /\ ips[1].old \in Boundaries(p)
    BY <2>1, <2>2, ShapeCopies
  <2>4. QED
    BY <2>2, <2>3 DEF Reached
<1>2. Goes(<<"target", tg, 0>>)
  BY <1>1 DEF Goes, Known, Clear
<1>3. QED
  BY <1>2 DEF Enter

\* An excused thread stays in its function, or leaves.
LEMMA ExcusedRuns ==
  ASSUME NEW t \in Threads, NEW at, at = ip[t], at # <<"out">>, Spot(at), Excused(at), Run(t)
  PROVE  \E new : (new = <<"out">> \/ Excused(new)) /\ Arrive(t, new)
<1>1. PICK tg : tg = at[2]
  OBVIOUS
<1>2. \A new : new[2] = tg => Excused(new)
  BY <1>1 DEF Excused
<1>3. \A o : InTarget(tg, o) = <<"out">> \/ InTarget(tg, o)[2] = tg
  BY DEF InTarget
<1>4. PICK new : Arrive(t, new) /\ (new = <<"out">> \/ new[2] = tg)
  <2>1. CASE RunTarget(t)
    BY <1>1, <1>3, <2>1 DEF RunTarget
  <2>2. CASE RunAbove(t)
    BY <1>1, <2>2 DEF RunAbove
  <2>3. CASE RunDetour(t)
    BY <1>1, <2>3 DEF RunDetour
  <2>4. CASE RunTrampoline(t)
    <3>1. PICK new : /\ Arrive(t, new)
                     /\ \/ new = <<"lost", tg>>
                        \/ \E n, o : new = <<"tramp", tg, n, o>>
                        \/ \E o : new = InTarget(tg, o)
      BY <1>1, <2>4 DEF RunTrampoline
    <3>2. QED
      BY <1>3, <3>1
  <2>5. QED
    BY <2>1, <2>2, <2>3, <2>4 DEF Run, Enter
<1>5. QED
  BY <1>2, <1>4

\* A thread that runs.
LEMMA ThreadRuns ==
  ASSUME RunIInv, NEW t \in Threads, Run(t)
  PROVE  Watched' /\ Pointed' /\ Furnished' /\ Threaded'
<1>1. /\ TableTypes /\ Jumps /\ Own /\ Copied /\ Located /\ Furnished /\ Watched /\ Pointed
  BY DEF RunIInv, FreezeIInv, TablesIInv, Books
<1>2. t \notin suspended /\ \E new : Arrive(t, new)
  BY <1>1, RunArrives
<1>3. UNCHANGED <<code, hooks, orig, patched, call, suspended, missed, retracted>>
  BY <1>2 DEF Arrive, lib
<1>4. Watched' /\ Pointed' /\ Furnished'
  BY <1>1, <1>3 DEF Watched, Pointed, Furnished, Free, Wanted, Shape
<1>5. PICK at : at = ip[t]
  OBVIOUS
<1>6. ASSUME t \notin missed
      PROVE  \E new : (Excused(new) \/ Goes(new)) /\ Arrive(t, new)
  <2>1. Spot(at)
    BY <1>1, <1>5 DEF Located
  <2>2. at = <<"out">> \/ Excused(at) \/ (Known(at) /\ Clear(at))
    BY <1>2, <1>5, <1>6 DEF RunIInv, Threaded, Placed
  <2>3. CASE at = <<"out">>
    <3>1. PICK tg \in Targets : Enter(t, tg)
      BY <1>5, <2>3 DEF Run, RunTarget, RunAbove, RunDetour, RunTrampoline
    <3>2. QED
      BY <1>1, <3>1, EnterGoes
  <2>4. CASE at # <<"out">> /\ Excused(at)
    BY <1>5, <2>1, <2>4, ExcusedRuns DEF Goes
  <2>5. CASE at # <<"out">> /\ ~Excused(at) /\ Known(at) /\ Clear(at)
    <3>1. ~Unforeseen(code[at[2]])
      BY <2>5 DEF Excused
    <3>2. CASE RunTarget(t)
      BY <1>1, <1>5, <2>1, <2>5, <3>1, <3>2, RunTargetGoes
    <3>3. CASE RunAbove(t)
      BY <1>1, <1>5, <2>1, <2>5, <3>3, RunAboveGoes
    <3>4. CASE RunDetour(t)
      BY <1>1, <1>5, <2>5, <3>4, RunDetourGoes
    <3>5. CASE RunTrampoline(t)
      BY <1>1, <1>5, <2>5, <3>1, <3>5, RunTrampolineGoes
    <3>6. QED
      BY <1>5, <2>5, <3>2, <3>3, <3>4, <3>5 DEF Run, Enter
  <2>6. QED
    BY <2>2, <2>3, <2>4, <2>5
<1>7. \A new : /\ Excused(new) => Excused(new)'
               /\ Known(new) => Known(new)' /\ (Clear(new) => Clear(new)')
  BY <1>3, ExcusedStays, ReadyStays
<1>8. \A new : Ready(new) => Ready(new)'
  BY <1>3, ReadyStays
<1>9. ASSUME NEW s \in Threads \ missed PROVE Placed(s)'
  <2>1. CASE s = t
    <3>1. PICK new : (Excused(new) \/ Goes(new)) /\ Arrive(t, new)
      BY <1>6, <1>9, <2>1
    <3>2. ip'[t] = new
      BY <1>1, <3>1 DEF Arrive, Located
    <3>3. QED
      BY <1>2, <1>3, <1>7, <2>1, <3>1, <3>2 DEF Placed, Goes
  <2>2. CASE s # t
    <3>1. PICK here : here = ip[s]
      OBVIOUS
    <3>2. ip'[s] = here
      BY <1>1, <1>2, <2>2, <3>1 DEF Arrive, Located
    <3>3. \/ here = <<"out">> \/ Excused(here)
          \/ Known(here) /\ IF s \in suspended THEN Ready(here) ELSE Clear(here)
      BY <1>9, <3>1 DEF RunIInv, Threaded, Placed
    <3>4. QED
      BY <1>3, <1>7, <1>8, <3>2, <3>3 DEF Placed
  <2>3. QED
    BY <2>1, <2>2
<1>10. Threaded'
  BY <1>3, <1>9 DEF Threaded
<1>11. QED
  BY <1>4, <1>10

-----------------------------------------------------------------------------
\* Everybody is outside, and no call under way.
LEMMA RunInit == Init => RunIInv
<1> SUFFICES ASSUME Init PROVE RunIInv
  OBVIOUS
<1>1. FreezeIInv
  BY FreezeInit
<1>2. Free /\ hooks = <<>> /\ DOMAIN hooks = {} /\ DOMAIN orig = Targets
  BY DEF Init, Free
<1>3. Watched /\ Pointed /\ Furnished
  BY <1>2 DEF Watched, Pointed, Furnished
<1>4. Threaded
  BY DEF Init, Threaded, Placed
<1>5. QED
  BY <1>1, <1>3, <1>4 DEF RunIInv

\* Every call, every step of Freeze and of the patch, and every thread.
LEMMA RunStep == RunIInv /\ [Next]_vars => RunIInv'
<1> SUFFICES ASSUME RunIInv, [Next]_vars PROVE RunIInv'
  OBVIOUS
<1> DEFINE Kept == Watched' /\ Pointed' /\ Furnished' /\ Threaded'
<1>0. FreezeIInv'
  BY FreezeStep DEF RunIInv
<1> SUFFICES Kept
  BY <1>0 DEF RunIInv
<1>1. ASSUME NEW tg \in Targets, NEW b \in Blocks, MH_CreateHook(tg, b) PROVE Kept
  <2>1. Free'
    BY <1>1 DEF MH_CreateHook, Free
  <2>2. QED
    BY <1>1, <2>1, CreateRuns, FreeWatches
<1>2. ASSUME NEW tgs, NEW enable \in BOOLEAN, QueueHook(tgs, enable) PROVE Kept
  <2>1. Free'
    BY <1>2 DEF QueueHook, Free
  <2>2. QED
    BY <1>2, <2>1, QueueRuns, FreeWatches
<1>3. CASE UNCHANGED vars
  <2>1. /\ Watched /\ Pointed /\ Furnished
        /\ UNCHANGED <<code, hooks, orig, patched, call, ip, suspended, missed, retracted>>
    BY <1>3 DEF vars, RunIInv
  <2>2. Watched' /\ Pointed' /\ Furnished'
    BY <2>1 DEF Watched, Pointed, Furnished, Free, Wanted, Shape
  <2>3. ASSUME NEW t \in Threads \ missed PROVE Placed(t)'
    <3>1. PICK at : at = ip[t] /\ ip'[t] = at
      BY <2>1
    <3>2. Placed(t)
      BY <2>3 DEF RunIInv, Threaded
    <3>3. /\ (Excused(at) => Excused(at)') /\ (Known(at) => Known(at)')
          /\ (Ready(at) => Ready(at)') /\ (Clear(at) => Clear(at)')
      BY <2>1, ExcusedStays, ReadyStays
    <3>4. QED
      BY <2>1, <3>1, <3>2, <3>3 DEF Placed
  <2>4. QED
    BY <2>1, <2>2, <2>3 DEF Threaded
<1>4. CASE MH_Initialize
  BY <1>4, InitializeRuns
<1>5. ASSUME NEW tg \in Targets, NEW enable \in BOOLEAN, EnableHook(tg, enable) PROVE Kept
  BY <1>5, SetRuns
<1>6. ASSUME NEW enable \in BOOLEAN, EnableAllHooks("all", enable) PROVE Kept
  BY <1>6, AllRuns
<1>7. CASE MH_ApplyQueued
  BY <1>7, ApplyRuns
<1>8. ASSUME NEW tg \in Targets, MH_RemoveHook(tg) PROVE Kept
  BY <1>8, RemoveRuns
<1>9. CASE MH_Uninitialize
  BY <1>9, UninitializeRuns
<1>10. ASSUME NEW t \in Threads, FreezeThread(t) PROVE Kept
  BY <1>10, FreezeRuns
<1>11. CASE Patch
  BY <1>11, PatchRuns
<1>12. CASE PatchFails
  BY <1>12, FailRuns
<1>13. CASE Finish
  BY <1>13, FinishRuns
<1>14. ASSUME NEW t \in Threads, Run(t) PROVE Kept
  BY <1>14, ThreadRuns
<1> HIDE DEF Kept
<1>15. CASE Library
  BY <1>1, <1>2, <1>4, <1>5, <1>6, <1>7, <1>8, <1>9, <1>10, <1>11, <1>12, <1>13, <1>15 DEF Library
<1>16. QED
  BY <1>3, <1>14, <1>15 DEF Next

\* What RunsOwnCode asks of a thread that runs.
LEMMA RunTells == RunIInv => RunsOwnCode
<1> SUFFICES ASSUME RunIInv, NEW t \in Threads \ (missed \cup suspended), NEW at, at = ip[t],
                    at[1] \notin {"out", "detour"}, at[2] \notin retracted, ~Unforeseen(code[at[2]])
             PROVE  CASE at[1] = "target" -> at[3] = 0 \/ ~Overwritten(at[2], at[3])
                      [] at[1] = "above" -> patched[at[2]] = "short"
                      [] at[1] = "tramp" -> InTrampoline(at)
                      [] at[1] = "lost" -> FALSE
  BY DEF RunsOwnCode
<1>1. /\ TableTypes /\ Jumps /\ Own /\ Copied /\ Located /\ Furnished
  BY DEF RunIInv, FreezeIInv, TablesIInv, Books
<1>2. Spot(at)
  BY <1>1 DEF Located
<1>3. Known(at) /\ Clear(at)
  BY DEF RunIInv, Threaded, Placed, Excused
<1>4. CASE at[1] = "target"
  <2>1. PICK tg, o : tg = at[2] /\ o = at[3]
    OBVIOUS
  <2>2. tg \in Targets /\ (patched[tg] = "none" \/ o = 0 \/ o >= JMP_REL) /\ (Shape(tg).ok => Reached(tg, o))
    BY <1>2, <1>3, <1>4, <2>1 DEF Spot, Clear, Known
  <2>3. ASSUME patched[tg] # "none" PROVE o \in Nat
    <3>1. Reached(tg, o) /\ WellFormed(code[tg])
      BY <1>1, <2>2, <2>3, JumpHasEntry, CodeWellFormed
    <3>2. QED
      BY <3>1, BoundariesAre DEF Reached
  <2>4. o = 0 \/ ~Overwritten(tg, o)
    BY <2>2, <2>3 DEF Overwritten, JMP_REL, JMP_REL_SHORT
  <2>5. QED
    BY <1>4, <2>1, <2>4
<1>5. CASE at[1] = "above"
  BY <1>3, <1>5 DEF Clear
<1>6. CASE at[1] = "tramp"
  <2>1. PICK i \in DOMAIN hooks : /\ at = <<"tramp", hooks[i].target, hooks[i].slot, at[4]>>
                                  /\ \E k \in DOMAIN hooks[i].ips : hooks[i].ips[k].new = at[4]
    BY <1>3, <1>6 DEF Clear, InCopy
  <2>2. InTrampoline(at)
    BY <1>1, <2>1 DEF InTrampoline, Own, Copied
  <2>3. QED
    BY <1>6, <2>2
<1>7. at[1] \in {"target", "above", "tramp"}
  BY <1>2, <1>3 DEF Spot, Clear
<1>8. QED
  BY <1>4, <1>5, <1>6, <1>7

(***************************************************************************)
(* The theorems.                                                           *)
(***************************************************************************)
\* Where every thread is fits what the functions hold and what the call in progress will change.
THEOREM RunInvariant == Spec => []RunIInv
<1>1. QED
  BY RunInit, RunStep, PTL DEF Spec

\* A thread that Freeze could stop never runs bytes of a patch as code, nor a trampoline that is
\* not its function's (ProcessThreadIPs, hook.c:199-260).
THEOREM RunsOwnCodeHolds == Spec => []RunsOwnCode
<1>1. QED
  BY RunInvariant, RunTells, PTL

\* Every entry has a function of well-formed code.
LEMMA HooksCopy ==
  ASSUME TablesIInv', UNCHANGED code, NEW i \in DOMAIN hooks'
  PROVE  LET p == code[hooks'[i].target] IN BackOverLonger(p) \/ Faithful(p)
<1>1. /\ code \in [Targets -> Program] /\ hooks' \in Seq(EntryRec)
  BY DEF TablesIInv, Books, TableTypes
<1>2. PICK new : new = hooks'
  OBVIOUS
<1>3. new[i] \in EntryRec
  BY <1>1, <1>2, LenProperties, ElementOfSeq
<1>4. PICK tg \in Targets : tg = new[i].target
  BY <1>3 DEF EntryRec
<1>5. WellFormed(code[tg])
  BY <1>1, ProgramsAssumption DEF Program
<1>6. QED
  BY <1>2, <1>4, <1>5, CopyFaithful

\* Nothing else writes code.
LEMMA CodeStays == [Next]_vars => UNCHANGED code
BY DEF Next, vars, Library, MH_Initialize, MH_CreateHook, QueueHook, EnableHook, EnableAllHooks,
       MH_ApplyQueued, MH_RemoveHook, MH_Uninitialize, FreezeFor, FreezeThread, Patch, PatchFails,
       Finish, Unlocked, Run, Enter, RunTarget, RunAbove, RunDetour, RunTrampoline, Arrive

\* The trampoline of every new entry does what the copied instructions of its function do
\* (trampoline.c:77-330), but for a branch back over a longer copy.
THEOREM FaithfulCopyHolds == Spec => FaithfulCopy
<1>1. TablesIInv /\ [Next]_vars =>
        [\A i \in DOMAIN hooks' \ DOMAIN hooks :
            LET p == code[hooks'[i].target] IN BackOverLonger(p) \/ Faithful(p)]_vars
  <2>1. ASSUME TablesIInv, [Next]_vars, NEW i \in DOMAIN hooks' \ DOMAIN hooks
        PROVE  LET p == code[hooks'[i].target] IN BackOverLonger(p) \/ Faithful(p)
    BY <2>1, TablesStep, CodeStays, HooksCopy
  <2>2. QED
    BY <2>1
<1>2. QED
  BY <1>1, TablesInvariant, PTL DEF Spec, FaithfulCopy
=============================================================================
