---------------------------- MODULE LiveWidget ----------------------------
(***************************************************************************)
(* One value widget (checkbox or slider) across the two threads: the mod's *)
(* own variable, the input slot, the snapshot, and the UI thread's live    *)
(* value cache g_live that decides what the user sees (ui.cpp:112-120,     *)
(* 262-296, 328-333, 408-431).                                             *)
(*                                                                         *)
(* A build takes the slot in the draw callback and publishes after all     *)
(* callbacks; the UI thread fetches a snapshot and then replays it.  The   *)
(* other thread may act between the two steps of either.  Within a step    *)
(* only one access is to shared data (the slot or the published snapshot). *)
(* The snapshot hand-over is the latest-wins register that TripleBuffer    *)
(* implements.  The surface stays registered, shown and open.              *)
(***************************************************************************)
EXTENDS Naturals

CONSTANTS Vals,      \* values of the widget; must hold the initial value 0
          MaxEdits,  \* bound on the value changes the user makes
          MaxSets,   \* bound on the changes the mod makes on its own
          Manners,   \* the kinds of mod considered, see `manner`
          Places     \* the kinds of widget considered, see `place`

ASSUME LiveAssumption == /\ 0 \in Vals /\ Vals \subseteq Nat
                         /\ MaxEdits \in Nat /\ MaxSets \in Nat
                         /\ Manners \subseteq {"adopts", "decides"}
                         /\ Places \subseteq {"own", "shared", "excess"}

VARIABLES manner,  \* what the mod does with its variable besides the widget: it
                   \* "adopts" every value the widget returns and nothing
                   \* else, or "decides" which to keep and sets it on its own
          place,   \* its g_live and g_input entries are its "own"; it is the
                   \* widget of slot 0 while there are widgets beyond
                   \* MAX_WIDGETS, which have "shared" g_live[0] with it
                   \* (ui.cpp:409); or it is one of those in "excess"
          modval,  \* the variable the mod passes to the widget each build
          slot,    \* g_input entry: [changed, val]
          building,\* between the draw callback and the publish of a build
          rec,     \* value recorded by the newest build
          snap,    \* value in the newest published snapshot
          drawing, \* between the UI thread's fetch and its replay
          seen,    \* value in the snapshot the UI thread holds
          live,    \* g_live entry: [init, active, val, seed]
          edits,   \* user changes so far
          sets,    \* changes by the mod so far
          \* History of the newest change by the user, for NoJumpBack.
          chosen,  \* the value it chose
          older    \* values recorded before it that the user had not seen then

modSide == <<modval, sets>>
buildSide == <<building, rec, snap>>
uiSide == <<drawing, seen, live>>
userSide == <<edits, chosen, older>>
liveVars == <<manner, place, modSide, slot, buildSide, uiSide, userSide>>

NoInput == [changed |-> FALSE, val |-> 0]

(***************************************************************************)
(* Engine thread.                                                          *)
(***************************************************************************)
\* The mod changes its variable outside the draw callback (a hook, on_frame).
ModSets(v) ==
    /\ manner = "decides" /\ sets < MaxSets
    /\ v # modval
    /\ modval' = v
    /\ sets' = sets + 1
    /\ UNCHANGED <<manner, place, slot, buildSide, uiSide, userSide>>

\* The draw callback: the widget takes the slot (a widget in excess has none),
\* records the value it returns, and the mod stores it or keeps its own.
RecordedOldValue == modval
Recorded == IF slot.changed THEN slot.val ELSE modval

Take ==
    /\ ~building /\ building' = TRUE
    /\ slot' = NoInput
    /\ rec' = Recorded
    /\ \/ modval' = Recorded
       \/ manner = "decides" /\ UNCHANGED modval
    /\ UNCHANGED <<manner, place, snap, sets, uiSide, userSide>>

\* The end of the build; a snapshot that is the same as the last one is not
\* published, which leaves the same value in the newest one.
Publish ==
    /\ building /\ building' = FALSE
    /\ snap' = rec
    /\ UNCHANGED <<manner, place, modSide, slot, rec, uiSide, userSide>>

(***************************************************************************)
(* UI thread.                                                              *)
(***************************************************************************)
Fetch ==
    /\ ~drawing /\ drawing' = TRUE
    /\ seen' = snap
    /\ UNCHANGED <<manner, place, modSide, slot, buildSide, live, userSide>>

\* A frame is due, whatever the user does, because a snapshot is fresh.
DueFetch == Fetch /\ (seen # snap \/ ~live.init)

ReseedAlways(c) == IF ~live.active THEN c ELSE live.val

\* What the widget starts the frame with when the snapshot holds c.
Reseed(c) == IF ~live.init \/ (c # live.seed /\ ~live.active) THEN c ELSE live.val

\* The widget is replayed and ImGui moves its value to x (x = Reseed(seen) is
\* no change); `held` is whether the mouse holds it at the end of the frame.
Frame(held, x) ==
    LET changed == x # Reseed(seen)
    IN /\ drawing /\ drawing' = FALSE
       /\ live' = [init |-> TRUE, active |-> held, val |-> x, seed |-> seen]
       /\ slot' = IF changed /\ place # "excess"
                  THEN [changed |-> TRUE, val |-> x] ELSE slot
       /\ IF changed
          THEN /\ edits < MaxEdits /\ edits' = edits + 1
               /\ chosen' = x
               /\ older' = IF snap = seen THEN {rec} \ {seen} ELSE {rec, snap}
          ELSE UNCHANGED userSide
       /\ UNCHANGED <<manner, place, modSide, buildSide, seen>>

\* Press, drag, release, click, a key, or no touch at all.
Replay == \E held \in BOOLEAN, x \in Vals : Frame(held, x)

\* Another widget that uses g_live[0] too is replayed, with its own values.
Alias ==
    /\ place # "own"
    /\ \E act \in BOOLEAN, v, c \in Vals :
          live' = [init |-> TRUE, active |-> act, val |-> v, seed |-> c]
    /\ UNCHANGED <<manner, place, modSide, slot, buildSide, drawing, seen>>
    /\ UNCHANGED userSide

LiveInit ==
    /\ manner \in Manners /\ place \in Places
    /\ modval = 0 /\ rec = 0 /\ snap = 0 /\ seen = 0
    /\ slot = NoInput
    /\ building = FALSE /\ drawing = FALSE
    /\ live = [init |-> FALSE, active |-> FALSE, val |-> 0, seed |-> 0]
    /\ edits = 0 /\ sets = 0
    /\ chosen = 0 /\ older = {}

LiveNext == Take \/ Publish \/ Fetch \/ Replay \/ Alias
            \/ \E v \in Vals : ModSets(v)

LiveSpec == LiveInit /\ [][LiveNext]_liveVars

\* Builds run from the safepoint, a fresh snapshot is rendered at the latest
\* on the heartbeat of the UI loop, and neither thread stops half-way; the user
\* and the mod owe nothing.
LiveFairSpec == /\ LiveSpec
                /\ WF_liveVars(Take) /\ WF_liveVars(Publish)
                /\ WF_liveVars(DueFetch) /\ WF_liveVars(Replay)
-----------------------------------------------------------------------------
LiveTypeOK ==
    /\ manner \in Manners /\ place \in Places
    /\ modval \in Vals /\ rec \in Vals /\ snap \in Vals /\ seen \in Vals
    /\ slot \in [changed : BOOLEAN, val : Vals]
    /\ building \in BOOLEAN /\ drawing \in BOOLEAN
    /\ live \in [init : BOOLEAN, active : BOOLEAN, val : Vals, seed : Vals]
    /\ edits \in 0..MaxEdits /\ sets \in 0..MaxSets
    /\ chosen \in Vals /\ older \subseteq Vals

\* While the newest value the user chose waits in the slot, or always with a mod
\* that adopts whatever the widget returns, a widget with a cache entry of its
\* own shows, when the user does not change it, what it showed, that value, or
\* a value a build had recorded before and the user had not seen.  So a snapshot
\* that only lags does not undo a change; one that was already under way when
\* the user clicked does, and that is the only jump back (ui.cpp:328-333).
NoJumpBack ==
    [][/\ place = "own" /\ live.init /\ edits' = edits
       /\ manner = "adopts" \/ (slot.changed /\ slot' = slot)
       => live'.val \in {live.val, chosen} \cup older]_liveVars

(***************************************************************************)
(* The inductive invariant behind NoJumpBack.  The slot holds the value    *)
(* chosen last; with a mod that adopts, so does the newest build once the  *)
(* slot is empty.  What the newest build, the published snapshot and the   *)
(* fetched one hold can differ from the stage after them only by the value *)
(* chosen last or by one that was under way when it was chosen.            *)
(***************************************************************************)
SlotHoldsChoice == slot.changed => slot.val = chosen /\ place # "excess"
Adopting ==
    manner = "adopts" /\ place # "excess" =>
        modval = rec /\ (~slot.changed => rec = chosen)
UnderWay ==
    place = "own" /\ (manner = "adopts" \/ slot.changed) =>
        /\ seen \in older \cup {live.seed, chosen}
        /\ snap \in older \cup {seen, chosen}
        /\ rec \in older \cup {snap, chosen}

LiveIInv == LiveTypeOK /\ SlotHoldsChoice /\ Adopting /\ UnderWay

\* A mod that adopts ends up with the value the user chose last, also where the
\* widget shares its cache entry.  Once nobody touches a widget that does not
\* share it, the display converges to the mod's variable ("re-seed from the
\* snapshot when the mod changed it AND the widget isn't being actively
\* edited", ui.cpp:329-331), unless the user took hold of it while it had jumped
\* back: the snapshot with the chosen value is then passed by.
AdoptedConverges ==
    manner = "adopts" =>
        /\ place # "excess" => <>[](modval = chosen)
        /\ place = "own" /\ [](live.active => live.val = chosen)
           => (<>[](~live.active) => <>[](live.val = modval))
=============================================================================
