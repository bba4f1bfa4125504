---------------------------- MODULE UiSurfaces ----------------------------
(***************************************************************************)
(* The mod.ui pipeline of core/ui.cpp above its triple buffer: the surface *)
(* registry (g_reg), the engine thread's ui_build pass over it, the        *)
(* positional atomic input slots (g_input) and the UI thread that replays  *)
(* a snapshot and writes interactions into the slots.                      *)
(*                                                                         *)
(* The triple buffer appears through what TripleBuffer proves of it: `snap`*)
(* is the newest published snapshot, `seen` the one the UI thread holds.   *)
(* One surface's draw callback is one step: within a build every slot is   *)
(* taken at most once, so an interaction that lands between two widgets of *)
(* a surface is equivalent to one that lands before or after the surface.  *)
(*                                                                         *)
(* Interactions are numbered, and `fate` and `hits` record what became of  *)
(* each; the code keeps only the bits of the slot.                         *)
(***************************************************************************)
EXTENDS Naturals, Sequences, FiniteSetsExt

CONSTANTS Mods,          \* mods that register surfaces
          MaxSurfaces,   \* MAX_SURFACES
          MaxWidgets,    \* MAX_WIDGETS
          Buttons,       \* widgets that are buttons; the others carry a value
          Worlds         \* ways the mods and the user may behave, see `world`

ASSUME BoundsAssumption == MaxSurfaces \in Nat \ {0} /\ MaxWidgets \in Nat \ {0}
ASSUME WorldsAssumption ==
    \A w \in Worlds :
        /\ w.acts \in Nat /\ w.regs \in Nat /\ w.faults \in BOOLEAN
        /\ \A draw \in w.draws : draw \in Seq({draw[j] : j \in DOMAIN draw})

VARIABLES world,     \* [draws, faults, acts, regs]: the widget sequences a callback
                     \* may emit, whether it may raise a Lua error, and the bounds
                     \* on interactions and on entries of g_reg; chosen at the start
          reg,       \* g_reg: sequence of [mod, used]
          pc,        \* "idle" or "building"
          at,        \* index of the next g_reg entry of the running build
          rec,       \* surfaces recorded so far by the running build
          snap,      \* newest published snapshot
          seen,      \* snapshot the UI thread replays
          slots,     \* g_input: [clicks, value] per <<surface, widget>>
          acts,      \* interactions so far: target widget of each
          fate,      \* what became of each interaction
          hits       \* callbacks that observed each interaction

vars == <<world, reg, pc, at, rec, snap, seen, slots, acts, fate, hits>>
buildVars == <<pc, at, rec>>
actVars == <<slots, acts, fate, hits>>

Slot == (0..MaxSurfaces-1) \X (0..MaxWidgets-1)
Act == UNION {1..w.acts : w \in Worlds}
EmptySlot == [clicks |-> {}, value |-> 0]

\* slot_id: the slot of widget wix of surface surf, none beyond the limits.
SlotId(surf, wix) == {<<surf, wix>>} \cap Slot

(***************************************************************************)
(* Registration: mod.ui.panel / mod.ui.window, from a mod's init on the    *)
(* engine thread (reg_common).  The first unused entry is reused.          *)
(***************************************************************************)
RegisterInsertFirst(m) ==
    /\ pc = "idle" /\ Len(reg) < world.regs
    /\ reg' = <<[mod |-> m, used |-> TRUE]>> \o reg
    /\ UNCHANGED <<world, buildVars, snap, seen, actVars>>

Register(m) ==
    LET free == {i \in DOMAIN reg : ~reg[i].used}
        entry == [mod |-> m, used |-> TRUE]
    IN /\ pc = "idle"
       /\ \/ /\ free # {}
             /\ reg' = [reg EXCEPT ![Min(free)] = entry]
          \/ /\ free = {} /\ Len(reg) < world.regs
             /\ reg' = Append(reg, entry)
       /\ UNCHANGED <<world, buildVars, snap, seen, actVars>>

(***************************************************************************)
(* The build (ui_build), on the engine thread.                             *)
(***************************************************************************)
BuildBegin ==
    /\ pc = "idle"
    /\ pc' = "building"
    /\ UNCHANGED <<world, reg, at, rec, snap, seen, actVars>>

\* The interactions stored in slot s that a callback emitting widget w sees;
\* input_take hands over the whole slot, the widget looks at its own bit.
Observed(s, w) == IF w \in Buttons THEN slots[s].clicks ELSE {slots[s].value} \ {0}
Stored(s) == slots[s].clicks \cup ({slots[s].value} \ {0})

DrainNothing(taken) == slots

\* The exchange leaves 0 in every slot it reads.
Drain(taken) == [s \in Slot |-> IF s \in taken THEN EmptySlot ELSE slots[s]]

\* input_take (an atomic exchange with 0) for every widget of a draw, recorded
\* as surface number surf of mod m.
Take(surf, m, draw) ==
    LET widgetAt == [s \in UNION {SlotId(surf, j-1) : j \in DOMAIN draw} |-> draw[s[2]+1]]
        taken == UNION {Stored(s) : s \in DOMAIN widgetAt}
        observed == UNION {Observed(s, widgetAt[s]) : s \in DOMAIN widgetAt}
        right == {n \in observed : \E s \in DOMAIN widgetAt :
                     n \in Observed(s, widgetAt[s]) /\ acts[n] = <<m, widgetAt[s]>>}
    IN /\ slots' = Drain(DOMAIN widgetAt)
       /\ fate' = [n \in Act |-> CASE n \in right -> "hit"
                                   [] n \in observed \ right -> "wrong"
                                   [] n \in taken \ observed -> "lost"
                                   [] OTHER -> fate[n]]
       /\ hits' = [n \in Act |-> IF n \in observed THEN hits[n] + 1 ELSE hits[n]]
       /\ UNCHANGED acts

BuildingAtNoLimit == pc = "building" /\ at <= Len(reg)

\* The loop over g_reg has an entry left and room for its surface.
BuildingAt == pc = "building" /\ at <= Len(reg) /\ Len(rec) < MaxSurfaces

SkipUnused ==
    /\ BuildingAt /\ ~reg[at].used
    /\ at' = at + 1
    /\ UNCHANGED <<world, reg, pc, rec, snap, seen, actVars>>

DrawInert(draw) ==
    /\ BuildingAt /\ reg[at].used
    /\ rec' = Append(rec, [mod |-> reg[at].mod, widgets |-> draw])
    /\ at' = at + 1
    /\ UNCHANGED <<world, reg, pc, snap, seen, actVars>>

\* The draw callback returns: its surface is part of the snapshot.
Draw(draw) ==
    /\ BuildingAt /\ reg[at].used
    /\ Take(Len(rec), reg[at].mod, draw)
    /\ rec' = Append(rec, [mod |-> reg[at].mod, widgets |-> draw])
    /\ at' = at + 1
    /\ UNCHANGED <<world, reg, pc, snap, seen>>

DrawFaultKeepsSurface(draw) ==
    /\ BuildingAt /\ reg[at].used /\ world.faults
    /\ Take(Len(rec), reg[at].mod, draw)
    /\ rec' = Append(rec, [mod |-> reg[at].mod, widgets |-> draw])
    /\ reg' = [reg EXCEPT ![at].used = FALSE]
    /\ at' = at + 1
    /\ UNCHANGED <<world, pc, snap, seen>>

\* The draw callback faults after emitting `draw`: the surface is disabled and
\* popped, and the next one is recorded under the same surface number.
DrawFault(draw) ==
    /\ BuildingAt /\ reg[at].used /\ world.faults
    /\ Take(Len(rec), reg[at].mod, draw)
    /\ reg' = [reg EXCEPT ![at].used = FALSE]
    /\ at' = at + 1
    /\ UNCHANGED <<world, pc, rec, snap, seen>>

\* snap_hash: a snapshot is published only if its content changed.
Changed(s) == s # snap

BuildEnd ==
    /\ pc = "building" /\ (at > Len(reg) \/ Len(rec) = MaxSurfaces)
    /\ snap' = IF Changed(rec) THEN rec ELSE snap
    /\ pc' = "idle" /\ at' = 1 /\ rec' = <<>>
    /\ UNCHANGED <<world, reg, seen, actVars>>

(***************************************************************************)
(* The UI thread.                                                          *)
(***************************************************************************)
Fetch ==
    /\ seen # snap
    /\ seen' = snap
    /\ UNCHANGED <<world, reg, buildVars, snap, actVars>>

\* The replay reports an interaction with widget j of surface i: input_click
\* ORs the clicked bit in, input_value replaces the whole slot.
Interact(i, j) ==
    LET n == Len(acts) + 1
        w == seen[i].widgets[j]
        target == <<seen[i].mod, w>>
        s == SlotId(i-1, j-1)
        click == w \in Buttons
        over == IF click THEN {} ELSE UNION {Stored(x) : x \in s}
        older == {k \in over : acts[k] = target}
    IN /\ n <= world.acts
       /\ acts' = Append(acts, target)
       /\ slots' = [x \in Slot |->
             IF x \notin s THEN slots[x]
             ELSE IF click THEN [slots[x] EXCEPT !.clicks = @ \cup {n}]
             ELSE [clicks |-> {}, value |-> n]]
       /\ fate' = [k \in Act |-> CASE k = n -> IF s = {} THEN "lost" ELSE "pending"
                                   [] k \in older -> "superseded"
                                   [] k \in over \ older -> "lost"
                                   [] OTHER -> fate[k]]
       /\ UNCHANGED <<world, reg, buildVars, snap, seen, hits>>

Init ==
    /\ world \in Worlds
    /\ reg = <<>>
    /\ pc = "idle" /\ at = 1 /\ rec = <<>>
    /\ snap = <<>> /\ seen = <<>>
    /\ slots = [s \in Slot |-> EmptySlot]
    /\ acts = <<>>
    /\ fate = [n \in Act |-> "none"]
    /\ hits = [n \in Act |-> 0]

Build == \/ BuildBegin \/ SkipUnused \/ BuildEnd
         \/ \E draw \in world.draws : Draw(draw) \/ DrawFault(draw)

Next == \/ \E m \in Mods : Register(m)
        \/ Build
        \/ Fetch
        \/ \E i \in DOMAIN seen : \E j \in DOMAIN seen[i].widgets : Interact(i, j)

Spec == Init /\ [][Next]_vars

\* ui_build runs from every safepoint, the UI loop at least every 250 ms.
\* Mods and the user are not fair.
FairSpec == Spec /\ WF_vars(Build) /\ WF_vars(Fetch)
-----------------------------------------------------------------------------
(***************************************************************************)
(* Properties.                                                             *)
(***************************************************************************)
Surface == [mod : Mods, widgets : world.draws]
IsSnapshot(s) == /\ Len(s) <= MaxSurfaces
                 /\ \A i \in DOMAIN s : s[i] \in Surface

TypeOK ==
    /\ \A i \in DOMAIN reg : reg[i] \in [mod : Mods, used : BOOLEAN]
    /\ pc \in {"idle", "building"} /\ at \in 1..world.regs+1
    /\ IsSnapshot(rec) /\ IsSnapshot(snap) /\ IsSnapshot(seen)
    /\ slots \in [Slot -> [clicks : SUBSET Act, value : Act \cup {0}]]
    /\ Len(acts) <= world.acts
    /\ fate \in [Act -> {"none", "pending", "hit", "wrong", "lost", "superseded"}]
    /\ hits \in [Act -> Nat]

\* `s` shows the entries in use, each with its mod, in registration order, and
\* leaves out only those that come after MAX_SURFACES others; from[i] is the
\* entry surface i was drawn from.
ShowsUsed(s) ==
    \E from \in [DOMAIN s -> DOMAIN reg] :
        /\ \A i \in DOMAIN s : reg[from[i]].used /\ reg[from[i]].mod = s[i].mod
        /\ \A i, j \in DOMAIN s : i < j => from[i] < from[j]
        /\ \A k \in DOMAIN reg : reg[k].used =>
              \/ \E i \in DOMAIN s : from[i] = k
              \/ Len(s) = MaxSurfaces /\ \A i \in DOMAIN s : from[i] < k

\* When a build ends, the newest snapshot shows exactly the surfaces that have
\* not faulted, this build included, in registration order and with what they
\* drew this time: the unchanged-hash shortcut (ui.cpp:190-195) never leaves
\* the UI with an outdated or a dead panel.
SnapshotFaithful ==
    [][pc = "building" /\ pc' = "idle" => snap' = rec /\ ShowsUsed(snap')]_vars

\* The slots hold exactly the interactions that are still pending, one slot
\* each, so none is delivered twice and none disappears without a recorded
\* reason ("clicks sticky until the engine drains", docs/DESIGN.md).
\* And the callbacks have observed each that was delivered, once.
PendingIsStored ==
    \A n \in Act :
        /\ fate[n] = "pending" <=> \E s \in Slot : n \in Stored(s)
        /\ hits[n] <= 1
        /\ hits[n] = 1 <=> fate[n] \in {"hit", "wrong"}

\* Every callback always draws the same widgets, no more than have a slot, and
\* none faults.
Steady == /\ ~world.faults
          /\ \A draw, other \in world.draws : draw = other
          /\ \A draw \in world.draws : Len(draw) <= MaxWidgets

\* "Interactions (a click, a new slider value) reach your callback on the next
\* build" (docs/MOD-FORMAT.md:163): an interaction is never handed to another
\* widget or dropped; a newer value for the same widget may replace it.  That is so in a
\* steady world; slots are positions, so a callback that faults or changes its
\* layout leaves its interactions to whatever is drawn there next.
ReachesItsCallback == Steady => \A n \in Act : fate[n] \notin {"wrong", "lost"}

\* And it does get there, although nothing makes mods and users wait for it.
EventuallyDelivered ==
    \A n \in Act : (Steady /\ fate[n] = "pending") ~> fate[n] # "pending"
=============================================================================
