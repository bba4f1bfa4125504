-------------------------- MODULE Present_proofs --------------------------
(***************************************************************************)
(* Theorems about the captured frames of ddraw_present.cpp, for every      *)
(* number of frames and snapshots and every combination of settings: the   *)
(* three frame buffers stay apart, they implement the latest-wins          *)
(* register, and no frame is missing from the game's window.               *)
(***************************************************************************)
EXTENDS Present, TLAPS

Frame == 0..MaxFrames

\* The part of the state the frames depend on.
Types ==
    /\ world \in Worlds
    /\ fr \in [Ix -> Frame \union {Torn}]
    /\ latest \in [ix : Ix, fresh : BOOLEAN]
    /\ write_ix \in Ix /\ read_ix \in Ix
    /\ frames \in Frame
    /\ lastframe \in Ix \union {NoBuffer}
    /\ ready \in BOOLEAN /\ rtv \in BOOLEAN /\ shown \in BOOLEAN
    /\ epc \in {"game", "lock", "copy", "take", "publish", "count", "after"}

\* The three indices name three buffers, and a torn one is the one that is being copied into.
Apart ==
    /\ write_ix # read_ix /\ write_ix # latest.ix /\ read_ix # latest.ix
    /\ \A i \in Ix : fr[i] = Torn => i = write_ix /\ epc = "copy"

\* Whoever decided to exchange for a fresh frame finds one: only he clears the bit.
Claimed == upc = "swap" => latest.fresh

\* Between a copy and its publication the newest published frame is the one before it
\* (or, once frames are not counted any further, of the same number).
Numbered ==
    IF epc \in {"take", "publish"}
    THEN fr[write_ix] = frames /\ (Newest = frames - 1 \/ (Newest = frames /\ frames = MaxFrames))
    ELSE Newest = frames

\* With graphics that work: the device has its target, its last frame is the newest, and
\* the frame whose present is to be skipped has been shown.
Faithful ==
    ~world.faults =>
        /\ ready => rtv
        /\ Takeover /\ ready /\ epc \in {"publish", "count", "after", "game", "lock"}
             => lastframe # NoBuffer /\ fr[lastframe] = frames
        /\ epc \in {"publish", "count", "after"} => shown \/ ~Active
        /\ epc = "game" => shown

IInv == Types /\ Apart /\ Claimed /\ Numbered /\ Faithful

(***************************************************************************)
(* The inductive invariant.                                                *)
(***************************************************************************)
\* g_latest = 2, g_write_ix = 0, g_read_ix = 1 and empty buffers (ddraw_present.cpp:35-40).
LEMMA InitIInv == Init => IInv
<1> SUFFICES ASSUME Init PROVE IInv
  OBVIOUS
<1> USE BoundsAssumption DEF Init, Ix, Frame, NoBuffer
<1>1. Types
  <2>1. fr \in [Ix -> Frame \union {Torn}]
    OBVIOUS
  <2>2. latest \in [ix : Ix, fresh : BOOLEAN]
    OBVIOUS
  <2>3. world \in Worlds /\ write_ix \in Ix /\ read_ix \in Ix /\ frames \in Frame /\ lastframe \in Ix \union {NoBuffer}
    OBVIOUS
  <2>4. ready \in BOOLEAN /\ rtv \in BOOLEAN /\ shown \in BOOLEAN
    OBVIOUS
  <2>5. QED
    BY <2>1, <2>2, <2>3, <2>4 DEF Types
<1>2. Apart
  BY DEF Apart
<1>3. Claimed /\ Numbered
  BY DEF Claimed, Numbered, Newest
<1>4. Faithful
  BY DEF Faithful
<1>5. QED
  BY <1>1, <1>2, <1>3, <1>4 DEF IInv

\* The steps that touch neither the frames nor where the engine thread is in its hook.
Elsewhere == UNCHANGED <<world, fr, latest, write_ix, read_ix, frames, epc, ready, rtv, lastframe, shown>>

LEMMA ElsewhereIInv ==
  ASSUME IInv, Elsewhere, upc' = "swap" => upc = "swap" \/ latest.fresh
  PROVE  IInv'
<1>1. Takeover' = Takeover
  BY DEF Elsewhere, Takeover, Hooked
<1>2. QED
  BY <1>1 DEF Elsewhere, IInv, Types, Apart, Claimed, Numbered, Faithful, Newest, Active

LEMMA StepIInv == IInv /\ [Next]_vars => IInv'
<1> SUFFICES ASSUME IInv, [Next]_vars PROVE IInv'
  OBVIOUS
<1> USE BoundsAssumption, WorldsAssumption
<1> USE DEF frameVars, gameVars, loopVars, userVars
<1>0. UNCHANGED world => Takeover' = Takeover
  BY DEF Takeover, Hooked
<1>1. CASE UiStart \/ Build \/ OverlayToggle \/ UiInit \/ Wake \/ Pump \/ LookSnapshot \/ LookFrame
           \/ Draw \/ Convert \/ Key \/ Message \/ UNCHANGED vars
  <2>1. Elsewhere
    BY <1>1 DEF Elsewhere, UiStart, Build, OverlayToggle, UiInit, Wake, Pump, LookSnapshot, LookFrame,
       Draw, Convert, Key, Message, vars
  <2>2. upc' = "swap" => upc = "swap" \/ latest.fresh
    BY <1>1 DEF UiStart, Build, OverlayToggle, UiInit, Wake, Pump, LookSnapshot, LookFrame,
       Draw, Convert, Key, Message, vars
  <2>3. QED
    BY <2>1, <2>2, ElsewhereIInv
<1> USE DEF IInv, Types, Apart, Claimed, Numbered, Faithful, Newest, Ix, Frame, NoBuffer, Active
<1>2. CASE Rendered
  <2>1. /\ UNCHANGED <<world, fr, latest, write_ix, read_ix, frames, lastframe, ready, rtv, upc>>
        /\ epc = "game" /\ epc' \in {"game", "lock"} /\ shown' \in BOOLEAN
        /\ epc' = "game" => shown' = TRUE
    <3>1. CASE Hooked
      BY <1>2, <3>1 DEF Rendered
    <3>2. CASE ~Hooked
      BY <1>2, <3>2 DEF Rendered
    <3>3. QED
      BY <3>1, <3>2
  <2>2. Types'
    BY <2>1
  <2>3. Apart' /\ Claimed' /\ Numbered'
    BY <2>1
  <2>4. Faithful'
    BY <1>0, <2>1
  <2>5. QED
    BY <2>2, <2>3, <2>4
<1>3. CASE CaptureFails
  BY <1>0, <1>3 DEF CaptureFails
<1>4. CASE CopyBegin
  BY <1>0, <1>4 DEF CopyBegin
<1>5. CASE CopyEnd
  BY <1>0, <1>5 DEF CopyEnd
<1>6. CASE CreateFails
  BY <1>0, <1>6 DEF CreateFails
<1>7. CASE EnginePresent
  <2>1. /\ epc = "take" /\ epc' = "publish" /\ ready' = TRUE /\ rtv' = (rtv \/ ~ready)
        /\ lastframe' = write_ix
        /\ UNCHANGED <<world, fr, latest, write_ix, read_ix, frames, upc>>
    BY <1>7 DEF EnginePresent
  <2>2. shown' \in BOOLEAN /\ (~world.faults => shown' = TRUE)
    BY <1>7, <2>1 DEF EnginePresent, PresentFrame
  <2>3. Types'
    BY <2>1, <2>2
  <2>4. Apart' /\ Claimed' /\ Numbered'
    BY <2>1
  <2>5. Faithful'
    BY <1>0, <2>1, <2>2
  <2>6. QED
    BY <2>3, <2>4, <2>5
<1>8. CASE Publish
  BY <1>0, <1>8 DEF Publish
<1>9. CASE Count
  BY <1>0, <1>9 DEF Count
<1>10. CASE After
  <2>1. /\ UNCHANGED <<world, fr, latest, write_ix, read_ix, frames, lastframe, ready, rtv, upc>>
        /\ epc = "after" /\ epc' = "game" /\ shown' = (shown \/ ~Active)
    BY <1>10 DEF After
  <2>2. shown' \in BOOLEAN
    BY <2>1
  <2>3. ~world.faults => shown' = TRUE
    BY <2>1
  <2>4. Types'
    BY <2>1, <2>2
  <2>5. Apart' /\ Claimed' /\ Numbered'
    BY <2>1
  <2>6. Faithful'
    BY <1>0, <2>1, <2>3
  <2>7. QED
    BY <2>4, <2>5, <2>6
<1>11. CASE Resize
  BY <1>0, <1>11 DEF Resize, PresentFrame
<1>12. CASE FetchSwap
  BY <1>0, <1>12 DEF FetchSwap
<1>13. QED
  BY <1>1, <1>2, <1>3, <1>4, <1>5, <1>6, <1>7, <1>8, <1>9, <1>10, <1>11, <1>12 DEF Next

LEMMA Inductive == Spec => []IInv
  BY InitIInv, StepIInv, PTL DEF Spec

(***************************************************************************)
(* Safety.                                                                 *)
(***************************************************************************)
\* The buffer being copied into, the published one and the one being converted
\* are three, and a resize presents a whole frame again (ddraw_present.cpp:26-27).
THEOREM FramesWhole == Spec => []FrameWhole
<1>1. IInv => FrameWhole
  BY DEF IInv, Types, Apart, FrameWhole, Ix, NoBuffer
<1>2. QED
  BY <1>1, Inductive, PTL

\* While graphics work, no frame the game rendered is skipped without being
\* shown by the loader (executor.c:81-85, ddraw_present.cpp:91).
THEOREM FramesShown == Spec => []EveryFrameShown
<1>1. IInv => EveryFrameShown
  BY DEF IInv, Faithful, EveryFrameShown
<1>2. QED
  BY <1>1, Inductive, PTL

(***************************************************************************)
(* Refinement: the exchanges on g_latest implement the latest-wins         *)
(* register.                                                               *)
(***************************************************************************)
LEMMA RegisterInit == Init => Frames!Init
  BY DEF Init, Frames!Init, Newest, Ix

LEMMA RegisterStep == IInv /\ [Next]_vars => [Frames!Next]_(Frames!rvars)
<1> SUFFICES ASSUME IInv, [Next]_vars
             PROVE  Frames!Next \/ UNCHANGED <<Newest, fr[read_ix]>>
  BY DEF Frames!rvars
<1> USE BoundsAssumption DEF IInv, Types, Apart, Claimed, Numbered, Newest, Ix, Frame,
        frameVars, gameVars, loopVars, userVars
\* The exchange of the publisher is the abstract publish, or a stutter once frames are not counted further.
<1>1. CASE Publish
  <2>1. UNCHANGED fr[read_ix]
    BY <1>1 DEF Publish
  <2>2. Newest' = frames
    BY <1>1 DEF Publish
  <2>3. CASE Newest = frames
    BY <2>1, <2>2, <2>3
  <2>4. CASE Newest = frames - 1
    <3>1. Newest < MaxFrames /\ Newest' = Newest + 1
      BY <2>2, <2>4
    <3>2. QED
      BY <2>1, <3>1 DEF Frames!Next, Frames!Publish
  <2>5. QED
    BY <1>1, <2>3, <2>4 DEF Publish
\* The exchange of the reader is the abstract take.
<1>2. CASE FetchSwap
  <2>1. UNCHANGED Newest /\ (fr[read_ix])' = Newest
    BY <1>2 DEF FetchSwap
  <2>2. CASE fr[read_ix] = Newest
    BY <2>1, <2>2
  <2>3. CASE fr[read_ix] # Newest
    BY <2>1, <2>3 DEF Frames!Next, Frames!Take
  <2>4. QED
    BY <2>2, <2>3
\* A copy goes to the third buffer.
<1>3. CASE CopyBegin \/ CopyEnd
  BY <1>3 DEF CopyBegin, CopyEnd
<1>4. CASE UiStart \/ Build \/ OverlayToggle \/ UiInit \/ Wake \/ Pump \/ LookSnapshot \/ LookFrame
           \/ Draw \/ Convert \/ Key \/ Message \/ UNCHANGED vars
  BY <1>4 DEF UiStart, Build, OverlayToggle, UiInit, Wake, Pump, LookSnapshot, LookFrame,
     Draw, Convert, Key, Message, vars
<1>5. CASE Rendered \/ CaptureFails \/ CreateFails \/ EnginePresent \/ Count \/ After \/ Resize
  BY <1>5 DEF Rendered, CaptureFails, CreateFails, EnginePresent, Count, After, Resize
<1>6. QED
  BY <1>1, <1>2, <1>3, <1>4, <1>5 DEF Next

\* What the companion window converts is always the newest published frame at the time of its
\* exchange: none is seen out of order, and none after a newer one (ddraw_present.cpp:154, 186).
THEOREM ImplementsRegister == Spec => FramesInOrder
<1>1. Spec => []IInv
  BY Inductive
<1>2. QED
  BY <1>1, RegisterInit, RegisterStep, PTL DEF Spec, FramesInOrder, Frames!Spec
=============================================================================
