----------------------- MODULE TripleBuffer_proofs -----------------------
(***************************************************************************)
(* Theorems about the triple buffer of core/ui.cpp, for every number of    *)
(* published snapshots.  IInv is the inductive invariant: the ownership of *)
(* the three buffers, plus what the two CAS loops know about the version   *)
(* in the middle.                                                          *)
(*                                                                         *)
(* Then, about the other end of the same hand-over, the widget that both   *)
(* threads hold a copy of (LiveWidget): it leaves the value the user chose *)
(* only for one that was under way then, for every set of values and any   *)
(* number of changes.                                                      *)
(***************************************************************************)
EXTENDS TripleBuffer, LiveWidget, TLAPS

(***************************************************************************)
(* The inductive invariant holds initially and is kept by every step.      *)
(***************************************************************************)
\* g_ctl = {fresh=0, mid=2}, write 0, read 1 (ui.cpp:81-83) satisfy IInv.
LEMMA InitIInv == Init => IInv
  BY VersionAssumption, TornAssumption
     DEF Init, IInv, TypeOK, Ownership, OnlyTorn, Handover, EngineOwns, UiOwns,
         Newest, Ix, Ctl, Version

\* Every step of either thread preserves IInv.
LEMMA StepIInv == IInv /\ [Next]_vars => IInv'
<1> SUFFICES ASSUME IInv, [Next]_vars PROVE IInv'
  OBVIOUS
<1> USE VersionAssumption, TornAssumption
    DEF IInv, TypeOK, Ownership, OnlyTorn, Handover, EngineOwns, UiOwns, Newest,
        Ix, Ctl, Version, engineVars, uiVars
<1>1. CASE BuildBegin
  BY <1>1 DEF BuildBegin
<1>2. CASE BuildUnchanged
  BY <1>2 DEF BuildUnchanged
<1>3. CASE BuildChanged
  BY <1>3 DEF BuildChanged
<1>4. CASE PublishLoad
  BY <1>4 DEF PublishLoad
<1>5. CASE PublishCas
  BY <1>5 DEF PublishCas
<1>6. CASE PublishRetry
  BY <1>6 DEF PublishRetry
<1>7. CASE PublishSwap
  BY <1>7 DEF PublishSwap
<1>8. CASE FetchStale
  BY <1>8 DEF FetchStale
<1>9. CASE FetchFresh
  BY <1>9 DEF FetchFresh
<1>10. CASE FetchLoad
  BY <1>10 DEF FetchLoad
<1>11. CASE FetchCas
  BY <1>11 DEF FetchCas
<1>12. CASE FetchRetry
  BY <1>12 DEF FetchRetry
<1>13. CASE FetchSwap
  BY <1>13 DEF FetchSwap
<1>14. CASE ReplayEnd
  BY <1>14 DEF ReplayEnd
<1>15. CASE UNCHANGED vars
  BY <1>15 DEF vars
<1>16. QED
  BY <1>1, <1>2, <1>3, <1>4, <1>5, <1>6, <1>7, <1>8, <1>9, <1>10, <1>11,
     <1>12, <1>13, <1>14, <1>15 DEF Next, Engine, Ui

\* IInv holds in every state the two threads reach.
LEMMA Inductive == Spec => []IInv
  BY InitIInv, StepIInv, PTL DEF Spec

(***************************************************************************)
(* Safety.                                                                 *)
(***************************************************************************)
\* The types of the state of ui.cpp:76-98 are kept.
THEOREM TypeCorrect == Spec => []TypeOK
<1>1. IInv => TypeOK
  BY DEF IInv
<1>2. QED
  BY <1>1, Inductive, PTL

\* The write, middle and read buffers are three different buffers in every
\* state, including those between a won CAS and the assignment of the index.
THEOREM BuffersOwned == Spec => []Ownership
<1>1. IInv => Ownership
  BY DEF IInv
<1>2. QED
  BY <1>1, Inductive, PTL

\* The UI thread never replays a buffer ui_build is recording into.
THEOREM NoTear == Spec => []NoTornReplay
<1>1. IInv => NoTornReplay
  BY DEF IInv, TypeOK, Ownership, OnlyTorn, NoTornReplay, EngineOwns, UiOwns
<1>2. QED
  BY <1>1, Inductive, PTL

(***************************************************************************)
(* Refinement: the CAS protocol implements the latest-wins register.       *)
(***************************************************************************)
\* The initial buffers are the empty register.
LEMMA RegisterInit == Init => Register!Init
  BY DEF Init, Register!Init, Newest, UiOwns, Ix

\* Every step of snap_publish and snap_fetch (ui.cpp:85-98) is a publish, a
\* take or a stutter of the register.
LEMMA RegisterStep == IInv /\ [Next]_vars => [Register!Next]_(Register!rvars)
<1> SUFFICES ASSUME IInv, [Next]_vars
             PROVE  Register!Next \/ UNCHANGED <<Newest, buf[UiOwns]>>
  BY DEF Register!rvars
<1> USE VersionAssumption, TornAssumption
    DEF IInv, TypeOK, Ownership, OnlyTorn, Handover, EngineOwns, UiOwns, Newest,
        Ix, Ctl, Version, engineVars, uiVars
\* Winning the CAS of snap_publish is the abstract publish.
<1>1. CASE PublishCas
  <2>1. Newest < MaxVersion /\ Newest' = Newest + 1
    BY <1>1 DEF PublishCas
  <2>2. UNCHANGED buf[UiOwns]
    BY <1>1 DEF PublishCas
  <2>3. QED
    BY <2>1, <2>2 DEF Register!Next, Register!Publish
\* Winning the CAS of snap_fetch is the abstract take.
<1>2. CASE FetchCas
  <2>1. buf[UiOwns] # Newest /\ (buf[UiOwns])' = Newest /\ UNCHANGED Newest
    BY <1>2 DEF FetchCas
  <2>2. QED
    BY <2>1 DEF Register!Next, Register!Take
\* Every other step leaves both abstract variables unchanged.
<1>3. CASE BuildBegin
  BY <1>3 DEF BuildBegin
<1>4. CASE BuildUnchanged
  BY <1>4 DEF BuildUnchanged
<1>5. CASE BuildChanged
  BY <1>5 DEF BuildChanged
<1>6. CASE PublishLoad \/ PublishRetry \/ PublishSwap
  BY <1>6 DEF PublishLoad, PublishRetry, PublishSwap
<1>7. CASE FetchStale \/ FetchFresh \/ FetchLoad \/ FetchRetry \/ ReplayEnd
  BY <1>7 DEF FetchStale, FetchFresh, FetchLoad, FetchRetry, ReplayEnd
<1>8. CASE FetchSwap
  BY <1>8 DEF FetchSwap
<1>9. CASE UNCHANGED vars
  BY <1>9 DEF vars
<1>10. QED
  BY <1>1, <1>2, <1>3, <1>4, <1>5, <1>6, <1>7, <1>8, <1>9 DEF Next, Engine, Ui

\* snap_publish / snap_fetch are a latest-wins register: a published snapshot
\* replaces the unconsumed one, a fetch always takes the newest, none is seen
\* twice or out of order.
THEOREM ImplementsRegister == Spec => RefinesRegister
<1>1. Spec => []IInv
  BY Inductive
<1>2. QED
  BY <1>1, RegisterInit, RegisterStep, PTL DEF Spec, RefinesRegister, Register!Spec
-----------------------------------------------------------------------------
(* The live widget.                                                        *)

\* A fresh g_live, an empty slot and a first snapshot satisfy the invariant.
LEMMA LiveInitIInv == LiveInit => LiveIInv
<1> SUFFICES ASSUME LiveInit PROVE LiveIInv
  OBVIOUS
<1>1. 0 \in 0..MaxEdits /\ 0 \in 0..MaxSets
  BY LiveAssumption
<1>2. LiveTypeOK
  BY <1>1, LiveAssumption DEF LiveInit, LiveTypeOK, NoInput
<1>3. SlotHoldsChoice /\ Adopting /\ UnderWay
  BY DEF LiveInit, SlotHoldsChoice, Adopting, UnderWay, NoInput
<1> QED
  BY <1>2, <1>3 DEF LiveIInv

\* A frame keeps the invariant, whatever ImGui does with the value.
LEMMA FrameKeeps ==
  ASSUME LiveIInv, NEW held \in BOOLEAN, NEW x \in Vals, Frame(held, x)
  PROVE  LiveIInv'
<1> USE DEF LiveIInv, LiveTypeOK
<1>1. /\ live' = [init |-> TRUE, active |-> held, val |-> x, seed |-> seen]
      /\ UNCHANGED <<manner, place, modSide, buildSide, seen>>
      /\ drawing' = FALSE
  BY DEF Frame
<1>2. CASE x # Reseed(seen)
  <2>1. /\ slot' = IF place # "excess"
                    THEN [changed |-> TRUE, val |-> x] ELSE slot
        /\ edits < MaxEdits /\ edits' = edits + 1
        /\ chosen' = x
        /\ older' = IF snap = seen THEN {rec} \ {seen} ELSE {rec, snap}
    BY <1>2 DEF Frame
  <2>2. edits' \in 0..MaxEdits
    BY <2>1, LiveAssumption
  <2>3. LiveTypeOK'
    BY <1>1, <2>1, <2>2 DEF modSide, buildSide
  <2>4. SlotHoldsChoice' /\ Adopting'
    BY <1>1, <2>1 DEF SlotHoldsChoice, Adopting, modSide, buildSide
  <2>5. UnderWay'
    \* What the user had not seen when x was chosen is recorded in `older`.
    BY <1>1, <2>1 DEF UnderWay, buildSide
  <2> QED
    BY <2>3, <2>4, <2>5
<1>3. CASE x = Reseed(seen)
  <2>1. slot' = slot /\ UNCHANGED userSide
    BY <1>3 DEF Frame
  <2>2. LiveTypeOK'
    BY <1>1, <2>1 DEF modSide, buildSide, userSide
  <2>3. SlotHoldsChoice' /\ Adopting'
    BY <1>1, <2>1 DEF SlotHoldsChoice, Adopting, modSide, buildSide, userSide
  <2>4. UnderWay'
    BY <1>1, <2>1 DEF UnderWay, buildSide, userSide
  <2> QED
    BY <2>2, <2>3, <2>4
<1> QED
  BY <1>2, <1>3

\* The draw callback keeps the invariant: what it takes from the slot is the
\* value chosen last.
LEMMA TakeKeeps ==
  ASSUME LiveIInv, Take
  PROVE  LiveIInv'
<1> USE DEF LiveIInv
<1>1. Recorded \in Vals
  BY DEF Recorded, LiveTypeOK
<1>2. LiveTypeOK'
  BY <1>1, LiveAssumption DEF Take, NoInput, LiveTypeOK, uiSide, userSide
<1>3. ~slot'.changed
  BY DEF Take, NoInput
<1>4. SlotHoldsChoice'
  BY <1>3 DEF SlotHoldsChoice
<1>5. manner = "adopts" /\ place # "excess" => Recorded = chosen
  BY DEF Recorded, SlotHoldsChoice, Adopting
<1>6. Adopting'
  BY <1>5 DEF Take, Adopting, userSide
<1>7. UnderWay'
  BY <1>3, <1>5 DEF Take, UnderWay, uiSide, userSide
<1> QED
  BY <1>2, <1>4, <1>6, <1>7

\* Every step of the mod, the build and the UI thread keeps the invariant.
LEMMA LiveStepIInv == LiveIInv /\ [LiveNext]_liveVars => LiveIInv'
<1> SUFFICES ASSUME LiveIInv, [LiveNext]_liveVars PROVE LiveIInv'
  OBVIOUS
<1> USE DEF LiveIInv, LiveTypeOK, SlotHoldsChoice, Adopting, UnderWay
<1>1. CASE Take
  BY <1>1, TakeKeeps
<1>2. CASE Publish
  BY <1>2 DEF Publish, modSide, uiSide, userSide
<1>3. CASE Fetch
  BY <1>3 DEF Fetch, modSide, buildSide, userSide
<1>4. CASE Replay
  BY <1>4, FrameKeeps DEF Replay
<1>5. CASE Alias
  BY <1>5 DEF Alias, modSide, buildSide, userSide
<1>6. ASSUME NEW v \in Vals, ModSets(v) PROVE LiveIInv'
  BY <1>6, LiveAssumption DEF ModSets, buildSide, uiSide, userSide
<1>7. CASE UNCHANGED liveVars
  BY <1>7 DEF liveVars, modSide, buildSide, uiSide, userSide
<1> QED
  BY <1>1, <1>2, <1>3, <1>4, <1>5, <1>6, <1>7 DEF LiveNext

\* Types of a live widget, and where the value chosen last and those recorded
\* before it can be between the slot and the screen.
THEOREM LiveInvariant == LiveSpec => []LiveIInv
  BY LiveInitIInv, LiveStepIInv, PTL DEF LiveSpec

\* A frame in which the user changes nothing shows what the widget showed, or
\* the snapshot's value, which is the one chosen last or was under way then.
LEMMA FrameShows ==
  ASSUME LiveIInv, NEW held, NEW x, Frame(held, x), live.init, edits' = edits,
         place = "own", manner = "adopts" \/ slot.changed
  PROVE  live'.val \in {live.val, chosen} \cup older
<1>1. x = Reseed(seen)
  BY LiveAssumption DEF Frame, LiveIInv, LiveTypeOK
<1>2. live'.val = Reseed(seen)
  BY <1>1 DEF Frame
<1>3. Reseed(seen) = live.val \/ (Reseed(seen) = seen /\ seen # live.seed)
  BY DEF Reseed
<1>4. seen \in older \cup {live.seed, chosen}
  BY DEF LiveIInv, UnderWay
<1> QED
  BY <1>2, <1>3, <1>4

\* ui.cpp:328-333: the re-seed condition takes a value of the user away only for
\* one that was already under way when the user chose it.
THEOREM ShownStays == LiveSpec => NoJumpBack
<1> DEFINE Quiet == /\ place = "own" /\ live.init /\ edits' = edits
                    /\ manner = "adopts" \/ (slot.changed /\ slot' = slot)
           Stays == live'.val \in {live.val, chosen} \cup older
<1>1. ASSUME LiveIInv, [LiveNext]_liveVars, Quiet PROVE Stays
  <2>1. CASE Replay
    BY <1>1, <2>1, FrameShows DEF Replay
  <2>2. CASE Take \/ Publish \/ Fetch \/ (\E v \in Vals : ModSets(v))
             \/ UNCHANGED liveVars
    BY <2>2 DEF Take, Publish, Fetch, ModSets, liveVars, uiSide
  <2>3. CASE Alias
    BY <1>1, <2>3 DEF Alias
  <2> QED
    BY <1>1, <2>1, <2>2, <2>3 DEF LiveNext
<1>2. LiveIInv /\ [LiveNext]_liveVars => [Quiet => Stays]_liveVars
  BY <1>1
<1> QED
  BY <1>2, LiveInvariant, PTL DEF LiveSpec, NoJumpBack
=============================================================================
