-------------------------- MODULE Executor_proofs --------------------------
(***************************************************************************)
(* Theorems about core/executor.c, for any number of mods, workers, jobs   *)
(* and callbacks and any ring of at least two slots.                       *)
(*                                                                         *)
(* 1. The ring buffer g_job is a queue that drops its oldest job when full *)
(*    (JobRing).  The refinement rests on the indices staying inside the   *)
(*    array and on what `%` does to an index past it by less than its      *)
(*    length.                                                              *)
(* 2. Who runs what, and when (Executor): no function handed to the        *)
(*    executor runs off the safepoint unless the loader has fallen back,   *)
(*    no job or callback runs before every deferred mod was initialised,   *)
(*    jobs start in order, callbacks run once a frame, and the Lua         *)
(*    references that both hold are neither shared nor released under      *)
(*    their holder.                                                        *)
(* 3. The composition (ExecutorOnRing): a step of the executor that        *)
(*    changes its queue is a push or a pop of the ring.                    *)
(***************************************************************************)
EXTENDS ExecutorOnRing, SequenceTheorems, TLAPS

-----------------------------------------------------------------------------
(***************************************************************************)
(* 1. The ring.                                                            *)
(***************************************************************************)
\* An index inside the array is its own remainder, one past the end wraps
\* around once (the `% MAX_JOBS` of executor.c:152-160).
LEMMA Wrap ==
    ASSUME NEW i \in Nat, i < 2 * MAX_JOBS
    PROVE  i % MAX_JOBS = IF i < MAX_JOBS THEN i ELSE i - MAX_JOBS
  BY SizeAssumption, SMTT(30)

\* The successor of an index is the next slot, or slot 0.
LEMMA SuccIs ==
    ASSUME NEW i \in Ix
    PROVE  Succ(i) = IF i + 1 = MAX_JOBS THEN 0 ELSE i + 1
  <1>1. i + 1 \in Nat /\ i + 1 < 2 * MAX_JOBS
    BY SizeAssumption DEF Ix
  <1> QED
    BY <1>1, Wrap, SizeAssumption DEF Succ, Ix

\* The zeroed ring of executor.c:137 has its indices inside the array.
LEMMA RingInitTypeOK == RingInit => RingTypeOK
  BY SizeAssumption DEF RingInit, RingTypeOK, Ix

\* job_push and drain_jobs keep the indices inside the array.
LEMMA RingStepTypeOK == RingTypeOK /\ [RingNext]_ringVars => RingTypeOK'
  <1> SUFFICES ASSUME RingTypeOK, [RingNext]_ringVars PROVE RingTypeOK'
    OBVIOUS
  <1> USE DEF RingTypeOK
  <1>1. ASSUME NEW j \in Job, Push(j) PROVE RingTypeOK'
    <2>1. Succ(tail) \in Ix /\ Succ(head) \in Ix
      BY SuccIs, SizeAssumption DEF Ix
    <2> QED BY <1>1, <2>1 DEF Push
  <1>2. ASSUME Pop PROVE RingTypeOK'
    <2>1. Succ(head) \in Ix
      BY SuccIs, SizeAssumption DEF Ix
    <2> QED BY <1>2, <2>1 DEF Pop
  <1>3. CASE UNCHANGED ringVars
    BY <1>3 DEF ringVars
  <1> QED
    BY <1>1, <1>2, <1>3 DEF RingNext

\* The head and the tail never leave the array.
THEOREM IndicesInside == RingSpec => []RingTypeOK
  BY RingInitTypeOK, RingStepTypeOK, PTL DEF RingSpec
-----------------------------------------------------------------------------
\* One slot of the ring always stays free, so full and empty differ.
LEMMA SizeBound == RingTypeOK => Size \in 0..MAX_JOBS-1
  BY SizeAssumption DEF RingTypeOK, Ix, Size

\* A function on 1..n is a sequence of length n.
LEMMA FunIsSeq ==
    ASSUME NEW S, NEW n \in Nat, NEW f \in [1..n -> S]
    PROVE  f \in Seq(S) /\ Len(f) = n
  OBVIOUS

\* How to recognise an appended sequence, and one that also lost its head.
LEMMA IsAppend ==
    ASSUME NEW S, NEW s \in Seq(S), NEW t \in Seq(S), NEW e \in S,
           Len(t) = Len(s) + 1,
           \A i \in 1..Len(s) : t[i] = s[i],
           t[Len(s) + 1] = e
    PROVE  t = Append(s, e)
  OBVIOUS

\* How to recognise the tail of a sequence (what drain_jobs leaves).
LEMMA IsTail ==
    ASSUME NEW S, NEW s \in Seq(S), NEW t \in Seq(S), s # <<>>,
           Len(t) = Len(s) - 1,
           \A i \in 1..Len(t) : t[i] = s[i + 1]
    PROVE  t = Tail(s)
  OBVIOUS

\* How to recognise a sequence that lost its head and was appended to (what
\* job_push leaves of a full ring).
LEMMA IsShifted ==
    ASSUME NEW S, NEW s \in Seq(S), NEW t \in Seq(S), NEW e \in S, s # <<>>,
           Len(t) = Len(s),
           \A i \in 1..Len(s)-1 : t[i] = s[i + 1],
           t[Len(s)] = e
    PROVE  t = Append(Tail(s), e)
  OBVIOUS
-----------------------------------------------------------------------------
Slots == Job \cup {Unwritten}

\* Where the i-th waiting job is.
LEMMA AtIs ==
    ASSUME RingTypeOK, NEW i \in 1..MAX_JOBS
    PROVE  /\ At(i) = IF head + i - 1 < MAX_JOBS THEN head + i - 1
                                                 ELSE head + i - 1 - MAX_JOBS
           /\ At(i) \in Ix
  <1> DEFINE k == head + i - 1
  <1>1. k \in Nat /\ k < 2 * MAX_JOBS
    BY SizeAssumption DEF RingTypeOK, Ix
  <1>2. k % MAX_JOBS = IF k < MAX_JOBS THEN k ELSE k - MAX_JOBS
    BY <1>1, Wrap
  <1>3. At(i) = k % MAX_JOBS
    BY DEF At
  <1>4. At(i) = IF k < MAX_JOBS THEN k ELSE k - MAX_JOBS
    BY <1>2, <1>3
  <1>5. At(i) \in Ix
    <2> HIDE DEF k
    <2> QED BY <1>1, <1>4, SizeAssumption DEF Ix
  <1> QED
    BY <1>4, <1>5, SizeAssumption DEF RingTypeOK, Ix

\* When the head moves on, the i-th job is the one that was the next.
LEMMA AtMoves ==
    ASSUME RingTypeOK, head' = Succ(head), NEW i \in 1..MAX_JOBS-1
    PROVE  (At(i))' = At(i + 1)
  <1> DEFINE k == head' + i - 1
  <1>1. head' = IF head + 1 = MAX_JOBS THEN 0 ELSE head + 1
    BY SuccIs DEF RingTypeOK
  <1>2. k \in Nat /\ k < 2 * MAX_JOBS
    BY <1>1, SizeAssumption DEF RingTypeOK, Ix
  <1>3. k % MAX_JOBS = IF k < MAX_JOBS THEN k ELSE k - MAX_JOBS
    BY <1>2, Wrap
  <1>4. (At(i))' = k % MAX_JOBS
    BY DEF At
  <1>5. At(i + 1) = IF head + (i + 1) - 1 < MAX_JOBS THEN head + (i + 1) - 1
                    ELSE head + (i + 1) - 1 - MAX_JOBS
    <2>1. i + 1 \in 1..MAX_JOBS
      BY SizeAssumption
    <2> QED BY <2>1, AtIs
  <1>6. k = IF head + 1 = MAX_JOBS THEN i - 1 ELSE head + i
    BY <1>1, SizeAssumption DEF RingTypeOK, Ix
  <1> HIDE DEF k
  <1>7. (IF k < MAX_JOBS THEN k ELSE k - MAX_JOBS) =
        IF head + (i + 1) - 1 < MAX_JOBS THEN head + (i + 1) - 1
                    ELSE head + (i + 1) - 1 - MAX_JOBS
    BY <1>2, <1>6, SizeAssumption DEF RingTypeOK, Ix
  <1> QED
    BY <1>3, <1>4, <1>5, <1>7

\* The jobs between head and tail, in ring order, form a sequence of jobs.
LEMMA ContentsSeq ==
    RingTypeOK => /\ Contents \in Seq(Slots) /\ Len(Contents) = Size
              /\ Size \in 0..MAX_JOBS-1
  <1> SUFFICES ASSUME RingTypeOK
               PROVE  /\ Contents \in Seq(Slots) /\ Len(Contents) = Size
                      /\ Size \in 0..MAX_JOBS-1
    OBVIOUS
  <1>1. Size \in 0..MAX_JOBS-1
    BY SizeBound
  <1>2. \A i \in 1..Size : At(i) \in Ix
    BY <1>1, AtIs, SizeAssumption
  <1>3. Contents \in [1..Size -> Slots]
    BY <1>2 DEF Contents, RingTypeOK, Slots
  <1> QED
    BY <1>1, <1>3, FunIsSeq

\* What a push writes, and what it leaves alone.
LEMMA PushWrites ==
    ASSUME RingTypeOK, NEW j \in Job, Push(j)
    PROVE  /\ ring'[tail] = j
           /\ \A i \in 1..Size : At(i) # tail /\ ring'[At(i)] = ring[At(i)]
           /\ At(Size + 1) = tail
  <1>1. Size \in 0..MAX_JOBS-1
    BY SizeBound
  <1>2. ASSUME NEW i \in 1..Size PROVE At(i) # tail /\ At(i) \in Ix
    BY <1>1, AtIs, SizeAssumption DEF RingTypeOK, Ix, Size
  <1>3. At(Size + 1) = tail
    BY <1>1, AtIs, SizeAssumption DEF RingTypeOK, Ix, Size
  <1> QED
    BY <1>2, <1>3 DEF Push, RingTypeOK

\* A push into a ring with room appends.
LEMMA PushAppends ==
    ASSUME RingTypeOK, NEW j \in Job, Push(j), Size < MAX_JOBS - 1
    PROVE  Contents' = Append(Contents, j)
  <1>0. RingTypeOK'
    BY RingStepTypeOK DEF RingNext
  <1>1. Succ(tail) = (IF tail + 1 = MAX_JOBS THEN 0 ELSE tail + 1)
    BY SuccIs DEF RingTypeOK
  <1>2. head' = head /\ Size' = Size + 1 /\ Size \in Nat
    BY <1>1, SizeAssumption DEF Push, Size, RingTypeOK, Ix
  <1>3. Contents' = [i \in 1..Size+1 |-> ring'[At(i)]]
    BY <1>2 DEF Contents, At
  <1>4. /\ Contents \in Seq(Slots) /\ Len(Contents) = Size
        /\ Contents' \in Seq(Slots) /\ Len(Contents') = Size + 1
    <2>1. (Contents \in Seq(Slots) /\ Len(Contents) = Size /\ Size \in 0..MAX_JOBS-1)'
      BY <1>0, ContentsSeq, PTL
    <2> QED BY <1>2, <2>1, ContentsSeq
  <1>5. \A i \in 1..Size : Contents'[i] = Contents[i]
    BY <1>2, <1>3, PushWrites DEF Contents
  <1>6. Contents'[Size + 1] = j
    BY <1>2, <1>3, PushWrites
  <1> QED
    BY <1>4, <1>5, <1>6, IsAppend DEF Slots

\* A push into a full ring drops the oldest job and appends.
LEMMA PushDropsOldest ==
    ASSUME RingTypeOK, NEW j \in Job, Push(j), Size = MAX_JOBS - 1
    PROVE  Contents # <<>> /\ Contents' = Append(Tail(Contents), j)
  <1>0. RingTypeOK'
    BY RingStepTypeOK DEF RingNext
  <1>1. /\ Succ(tail) = (IF tail + 1 = MAX_JOBS THEN 0 ELSE tail + 1)
        /\ Succ(head) = (IF head + 1 = MAX_JOBS THEN 0 ELSE head + 1)
    BY SuccIs DEF RingTypeOK
  <1>2. Succ(tail) = head
    BY <1>1, SizeAssumption DEF Size, RingTypeOK, Ix
  <1>3. head' = Succ(head) /\ Size' = Size /\ Size \in Nat \ {0}
    BY <1>1, <1>2, SizeAssumption DEF Push, Size, RingTypeOK, Ix
  <1>4. \A i \in 1..Size : (At(i))' = At(i + 1)
    BY <1>3, AtMoves
  <1>5. Contents' = [i \in 1..Size |-> ring'[At(i + 1)]]
    BY <1>3, <1>4 DEF Contents
  <1>6. /\ Contents \in Seq(Slots) /\ Len(Contents) = Size
        /\ Contents' \in Seq(Slots) /\ Len(Contents') = Size
    <2>1. (Contents \in Seq(Slots) /\ Len(Contents) = Size /\ Size \in 0..MAX_JOBS-1)'
      BY <1>0, ContentsSeq, PTL
    <2> QED BY <1>3, <2>1, ContentsSeq
  <1>7. \A i \in 1..Size-1 : Contents'[i] = Contents[i + 1]
    BY <1>3, <1>5, PushWrites DEF Contents
  <1>8. Contents'[Size] = j
    <2>1. At(Size + 1) = tail /\ ring'[tail] = j
      BY PushWrites
    <2>2. Size \in 1..Size
      BY SizeAssumption
    <2> QED BY <1>5, <2>1, <2>2
  <1>9. Contents # <<>> /\ j \in Slots
    BY <1>3, <1>6 DEF Slots
  <1> QED
    BY <1>6, <1>7, <1>8, <1>9, IsShifted

\* A pop removes the oldest job.
LEMMA PopRemoves ==
    ASSUME RingTypeOK, Pop
    PROVE  Contents # <<>> /\ Contents' = Tail(Contents)
  <1>0. RingTypeOK'
    BY RingStepTypeOK DEF RingNext
  <1>1. Succ(head) = (IF head + 1 = MAX_JOBS THEN 0 ELSE head + 1)
    BY SuccIs DEF RingTypeOK
  <1>2. head' = Succ(head) /\ ring' = ring /\ Size \in 1..MAX_JOBS-1 /\ Size' = Size - 1
    BY <1>1, SizeAssumption DEF Pop, Size, RingTypeOK, Ix
  <1>3. \A i \in 1..Size-1 : (At(i))' = At(i + 1)
    BY <1>2, AtMoves, SizeAssumption
  <1>4. Contents' = [i \in 1..Size-1 |-> ring[At(i + 1)]]
    BY <1>2, <1>3 DEF Contents
  <1>5. /\ Contents \in Seq(Slots) /\ Len(Contents) = Size
        /\ Contents' \in Seq(Slots) /\ Len(Contents') = Size - 1
    <2>1. (Contents \in Seq(Slots) /\ Len(Contents) = Size /\ Size \in 0..MAX_JOBS-1)'
      BY <1>0, ContentsSeq, PTL
    <2> QED BY <1>2, <2>1, ContentsSeq
  <1>6. \A i \in 1..Size-1 : Contents'[i] = Contents[i + 1]
    BY <1>2, <1>4 DEF Contents
  <1> QED
    BY <1>2, <1>5, <1>6, IsTail

\* The zeroed ring is the empty queue.
LEMMA QueueInit == RingInit => Queue!Init
  BY SizeAssumption DEF RingInit, Queue!Init, Contents, Size

\* Every step of the ring is a step of the queue (executor.c:149-165).
LEMMA QueueStep == RingTypeOK /\ [RingNext]_ringVars => [Queue!Next]_Contents
  <1> SUFFICES ASSUME RingTypeOK, [RingNext]_ringVars PROVE [Queue!Next]_Contents
    OBVIOUS
  <1>1. ASSUME NEW j \in Job, Push(j) PROVE Queue!Push
    <2>1. Len(Contents) = Size /\ Size \in 0..MAX_JOBS-1
      BY SizeBound DEF Contents
    <2>2. CASE Size < MAX_JOBS - 1
      BY <1>1, <2>1, <2>2, PushAppends DEF Queue!Push, Queue!Pushed
    <2>3. CASE Size = MAX_JOBS - 1
      BY <1>1, <2>1, <2>3, PushDropsOldest DEF Queue!Push, Queue!Pushed
    <2> QED BY <2>1, <2>2, <2>3, SizeAssumption
  <1>2. ASSUME Pop PROVE Queue!Pop
    BY <1>2, PopRemoves DEF Queue!Pop
  <1>3. CASE UNCHANGED ringVars
    BY <1>3 DEF ringVars, Contents, Size, At
  <1> QED
    BY <1>1, <1>2, <1>3 DEF RingNext, Queue!Next

\* The ring of executor.c is a first-in first-out queue that drops its oldest
\* job when it is full.
THEOREM RingIsQueue == RingSpec => ImplementsQueue
  BY QueueInit, QueueStep, IndicesInside, PTL DEF RingSpec, ImplementsQueue, Queue!Spec
-----------------------------------------------------------------------------
(***************************************************************************)
(* 2. The executor.                                                        *)
(***************************************************************************)
Thread == {"engine", "loader"} \cup Workers

\* What is armed and initialised in terms of the bootstrap.  Neither OneThread
\* nor InitsFirst is inductive: both depend on what may have been running when
\* the step began, which these parts add.
Control ==
    /\ boot # "none" => lpc = "reported"
    /\ armed => boot # "none"
    /\ ~armed => sp = 0 /\ ~inited
    /\ epc # "game" => inited

\* The kind of mod code that runs on a thread is the one its phase allows.
Running ==
    /\ \A t \in {"engine", "loader"} : cur[t].kind = "none" => cur[t] = Idle
    /\ cur["engine"].kind = "init" => epc = "init"
    /\ cur["engine"].kind = "job" => epc = "drain"
    /\ cur["engine"].kind = "cb" => epc = "frame" /\ fi <= Len(frames)
    /\ cur["loader"].kind \in {"none", "init"}
    /\ cur["loader"].kind = "init" => lpc = "fallback"

\* The deferred mods are initialised in order, on one thread or the other.
Initialising ==
    /\ nxt > 1 => inited \/ lpc = "fallback"
    /\ inited /\ epc # "init" => nxt > Len(Deferred)
    /\ \A i \in DOMAIN Deferred : inits[i] = IF i < nxt THEN 1 ELSE 0

\* A function runs on its caller's thread only in the fallback.
Inline == \A j \in JobId : job[j].fate = "inline" => lpc = "fallback"

\* The inductive invariant.
IInv == TypeOK /\ Control /\ Running /\ Initialising /\ Inline

-----------------------------------------------------------------------------
\* The deferred mods are numbered from 1.
LEMMA DeferredDomain == Len(Deferred) \in Nat /\ DOMAIN Deferred = 1..Len(Deferred)
BY DeferredAssumption, LenProperties DEF DeferredAssumption

\* Reading one entry of a list.
LEMMA Entry ==
    ASSUME NEW S, NEW s \in Seq(S), NEW i \in 1..Len(s) PROVE s[i] \in S
BY ElementOfSeq

\* Taking the first entry of a list off.
LEMMA HeadAndTail ==
    ASSUME NEW S, NEW s \in Seq(S), s # <<>>
    PROVE  Head(s) \in S /\ Tail(s) \in Seq(S) /\ Len(Tail(s)) = Len(s) - 1
BY HeadTailProperties

\* run_onframe's removal: the last entry takes the place of entry i.
LEMMA SwapOut ==
    ASSUME NEW S, NEW s \in Seq(S), NEW i \in 1..Len(s)
    PROVE  LET r == SubSeq([s EXCEPT ![i] = s[Len(s)]], 1, Len(s) - 1)
           IN r \in Seq(S) /\ Len(r) = Len(s) - 1
<1> DEFINE e == [s EXCEPT ![i] = s[Len(s)]]
<1>1. Len(s) \in Nat /\ s[Len(s)] \in S
  BY LenProperties, Entry
<1>2. e \in Seq(S) /\ Len(e) = Len(s)
  BY <1>1, ExceptSeq
<1>3. \A k \in 1..Len(s) - 1 : e[k] \in S
  BY <1>1, <1>2, Entry
<1> HIDE DEF e
<1>4. SubSeq(e, 1, Len(s) - 1) \in Seq(S)
      /\ Len(SubSeq(e, 1, Len(s) - 1)) = Len(s) - 1
  BY <1>1, <1>2, <1>3, SubSeqProperties
<1>5. QED
  BY <1>4 DEF e

\* job_push never lets the ring grow past its capacity.
LEMMA PushNewType ==
    ASSUME queue \in Seq(JobId), Len(queue) <= QueueLimit, NEW id \in JobId
    PROVE  PushNew(id) \in Seq(JobId) /\ Len(PushNew(id)) <= QueueLimit
<1>1. QueueLimit \in Nat \ {0} /\ Len(queue) \in Nat
  BY BoundsAssumption, LenProperties DEF BoundsAssumption
<1>2. CASE Len(queue) < QueueLimit
  <2>1. Append(queue, id) \in Seq(JobId) /\ Len(Append(queue, id)) = Len(queue) + 1
    BY AppendProperties
  <2>2. QED
    BY <1>1, <1>2, <2>1 DEF PushNew
<1>3. CASE ~(Len(queue) < QueueLimit)
  <2>1. queue # <<>>
    BY <1>1, <1>3, EmptySeq
  <2>2. Tail(queue) \in Seq(JobId) /\ Len(Tail(queue)) = Len(queue) - 1
    BY <2>1, HeadAndTail
  <2>3. Append(Tail(queue), id) \in Seq(JobId)
        /\ Len(Append(Tail(queue), id)) = Len(Tail(queue)) + 1
    BY <2>2, AppendProperties
  <2>4. QED
    BY <1>1, <1>3, <2>2, <2>3 DEF PushNew
<1>4. QED
  BY <1>2, <1>3

\* luaL_ref hands out a reference of the registry.
LEMMA NewRefType == ASSUME NEW lua \in BOOLEAN, HasRef(lua) PROVE NewRef(lua) \in Ref \cup {0}
BY DEF NewRef, HasRef

\* Every step keeps the types.
LEMMA TypeStep == TypeOK /\ Running /\ [Next]_vars => TypeOK'
<1> SUFFICES ASSUME TypeOK /\ Running, [Next]_vars PROVE TypeOK'
  OBVIOUS
<1> USE BoundsAssumption
    DEF BoundsAssumption, vars,
         bootVars, spVars, jobVars, cbVars, initVars,
         TypeOK, Running, Idle
<1>1. CASE BootstrapFails
  BY <1>1 DEF BootstrapFails
<1>2. CASE Bootstrap
  BY <1>2 DEF Bootstrap
<1>3. CASE InstallHook
  BY <1>3 DEF InstallHook
<1>4. CASE InstallFails
  BY <1>4 DEF InstallFails
<1>5. CASE SafepointBegin
  BY <1>5 DEF SafepointBegin
<1>6. ASSUME NEW t \in {"engine", "loader"}, InitStart(t) PROVE TypeOK'
  <2>1. nxt \in 1..Len(Deferred) /\ nxt + 1 \in 1..Len(Deferred)+1 /\ nxt \in Nat
    BY <1>6, DeferredDomain DEF InitStart
  <2>2. inits[nxt] + 1 \in Nat
    BY SMTT(30), <2>1, DeferredDomain
  <2>3. inits' \in [DOMAIN Deferred -> Nat]
    BY <1>6, <2>2 DEF InitStart
  <2>4. cur' \in [{"engine", "loader"} -> [kind : {"none", "init", "job", "cb"}, id : Nat]]
    BY <1>6, <2>1 DEF InitStart
  <2>5. QED
    BY <1>6, <2>1, <2>3, <2>4 DEF InitStart
<1>7. ASSUME NEW t \in {"engine", "loader"}, InitReturn(t) PROVE TypeOK'
  BY <1>7 DEF InitReturn
<1>8. CASE InitsEnd
  BY <1>8 DEF InitsEnd
<1>9. CASE JobStart
  <2>1. queue \in Seq(JobId) /\ queue # <<>>
    BY <1>9 DEF JobStart
  <2>2. Head(queue) \in JobId /\ Tail(queue) \in Seq(JobId)
        /\ Len(Tail(queue)) = Len(queue) - 1
    BY <2>1, HeadAndTail
  <2>3. queue' \in Seq(JobId) /\ Len(queue') <= QueueLimit
    <3>1. Len(queue) \in Nat /\ Len(queue) <= QueueLimit /\ QueueLimit \in Nat
      BY <2>1, LenProperties
    <3>2. queue' = Tail(queue)
      BY <1>9 DEF JobStart
    <3>3. queue' \in Seq(JobId) /\ Len(queue') = Len(queue) - 1
      BY <2>2, <3>2
    <3>4. Len(queue') <= QueueLimit
      BY <3>1, <3>3
    <3>5. QED
      BY <3>3, <3>4
  <2>4. job' \in [JobId -> [fate : {"none", "waiting", "running", "ran", "dropped", "inline"},
                            ref : Ref \cup {0}]]
    BY ZenonT(60), <1>9, <2>2 DEF JobStart
  <2>5. cur' \in [{"engine", "loader"} -> [kind : {"none", "init", "job", "cb"}, id : Nat]]
    <3>1. Head(queue) \in Nat
      BY <2>2 DEF JobId
    <3>2. QED
      BY <1>9, <3>1 DEF JobStart
  <2>6. QED
    BY <1>9, <2>3, <2>4, <2>5 DEF JobStart
<1>10. CASE JobReturn
  BY ZenonT(60), <1>10 DEF JobReturn
<1>11. CASE DrainEnd
  <2>1. cb' \in [CbId -> [ref : Ref \cup {0}, calls : Nat]]
    BY <1>11 DEF DrainEnd
  <2>2. fi' \in 1..MAX_ONFRAME+1
    BY <1>11 DEF DrainEnd
  <2>3. QED
    BY <1>11, <2>1, <2>2 DEF DrainEnd
<1>12. CASE CbStart
  <2>1. fi \in 1..Len(frames) /\ frames \in Seq(CbId)
    BY <1>12, LenProperties DEF CbStart
  <2>2. frames[fi] \in CbId
    BY <2>1, Entry
  <2>3. cb[frames[fi]].calls + 1 \in Nat
    BY <2>2
  <2>4. cb' \in [CbId -> [ref : Ref \cup {0}, calls : Nat]]
    BY <1>12, <2>2, <2>3 DEF CbStart
  <2>5. cur' \in [{"engine", "loader"} -> [kind : {"none", "init", "job", "cb"}, id : Nat]]
    <3>1. frames[fi] \in Nat
      BY <2>2 DEF CbId
    <3>2. QED
      BY <1>12, <3>1 DEF CbStart
  <2>6. QED
    BY <1>12, <2>4, <2>5 DEF CbStart
<1>13. CASE CbReturn
  <2>1. fi <= Len(frames) /\ Len(frames) \in Nat
    BY <1>13, LenProperties DEF CbReturn
  <2>2. fi' \in 1..MAX_ONFRAME+1
    BY <1>13, <2>1 DEF CbReturn
  <2>3. cur' \in [{"engine", "loader"} -> [kind : {"none", "init", "job", "cb"}, id : Nat]]
    BY <1>13 DEF CbReturn
  <2>4. QED
    BY <1>13, <2>2, <2>3 DEF CbReturn
<1>14. CASE CbFault
  <2>1. fi \in 1..Len(frames) /\ frames \in Seq(CbId)
    BY <1>14, LenProperties DEF CbFault
  <2>2. frames' \in Seq(CbId) /\ Len(frames') = Len(frames) - 1
    BY <1>14, <2>1, SwapOut DEF CbFault
  <2>3. Len(frames') <= MAX_ONFRAME
    <3>1. Len(frames) \in Nat /\ Len(frames) <= MAX_ONFRAME
      BY <2>1, LenProperties
    <3>2. QED
      BY <2>2, <3>1
  <2>4. cur' \in [{"engine", "loader"} -> [kind : {"none", "init", "job", "cb"}, id : Nat]]
    BY <1>14 DEF CbFault
  <2>5. QED
    BY <1>14, <2>2, <2>3, <2>4 DEF CbFault
<1>15. CASE SafepointEnd
  BY <1>15 DEF SafepointEnd
<1>16. ASSUME NEW t \in Thread, NEW lua \in BOOLEAN, Enqueue(t, lua) PROVE TypeOK'
  <2>1. njobs + 1 \in JobId /\ njobs + 1 \in 0..MaxJobs
    BY <1>16 DEF Enqueue, JobId
  <2>2. queue' \in Seq(JobId) /\ Len(queue') <= QueueLimit
    BY <1>16, <2>1, PushNewType DEF Enqueue
  <2>3. NewRef(lua) \in Ref \cup {0}
    BY <1>16, NewRefType DEF Enqueue
  <2>4. job' \in [JobId -> [fate : {"none", "waiting", "running", "ran", "dropped", "inline"},
                            ref : Ref \cup {0}]]
    <3> DEFINE JobState == [fate : {"none", "waiting", "running", "ran", "dropped", "inline"},
                            ref : Ref \cup {0}]
               dropped == IF Len(queue) < QueueLimit THEN {} ELSE {Head(queue)}
               next(j) == CASE j = njobs + 1 -> [fate |-> "waiting", ref |-> NewRef(lua)]
                            [] j \in dropped -> [job[j] EXCEPT !.fate = "dropped"]
                            [] OTHER -> job[j]
    <3>1. job' = [j \in JobId |-> next(j)]
      BY <1>16 DEF Enqueue
    <3>2. [fate |-> "waiting", ref |-> NewRef(lua)] \in JobState
      BY <2>3
    <3>3. \A j \in JobId : job[j] \in JobState /\ [job[j] EXCEPT !.fate = "dropped"] \in JobState
      BY ZenonT(60)
    <3>4. \A j \in JobId : next(j) \in {[fate |-> "waiting", ref |-> NewRef(lua)], job[j],
                                        [job[j] EXCEPT !.fate = "dropped"]}
      <4> HIDE DEF dropped
      <4>1. QED
        OBVIOUS
    <3> HIDE DEF next
    <3>5. QED
      BY <3>1, <3>2, <3>3, <3>4
  <2>5. refs' \subseteq Ref
    BY <1>16, <2>3 DEF Enqueue
  <2>6. QED
    BY <1>16, <2>1, <2>2, <2>4, <2>5 DEF Enqueue
<1>17. ASSUME NEW t \in Thread, NEW lua \in BOOLEAN, EnqueueInline(t, lua) PROVE TypeOK'
  <2>1. njobs + 1 \in JobId /\ njobs + 1 \in 0..MaxJobs
    BY <1>17 DEF EnqueueInline, JobId
  <2>2. [NoJob EXCEPT !.fate = "inline"] = [fate |-> "inline", ref |-> 0]
    BY DEF NoJob
  <2>3. job' \in [JobId -> [fate : {"none", "waiting", "running", "ran", "dropped", "inline"},
                            ref : Ref \cup {0}]]
    BY <1>17, <2>2 DEF EnqueueInline
  <2>4. QED
    BY <1>17, <2>1, <2>3 DEF EnqueueInline
<1>18. ASSUME NEW t \in Thread, NEW lua \in BOOLEAN, OnFrame(t, lua) PROVE TypeOK'
  <2>1. NewRef(lua) \in Ref \cup {0}
    BY <1>18, NewRefType DEF OnFrame
  <2>2. ncbs + 1 \in CbId /\ ncbs + 1 \in 0..MaxCbs
    BY <1>18 DEF OnFrame, CbId
  <2>3. frames' \in Seq(CbId) /\ Len(frames') = Len(frames) + 1
    BY <1>18, <2>2, AppendProperties DEF OnFrame
  <2>4. Len(frames') <= MAX_ONFRAME
    BY <1>18, <2>3, LenProperties DEF OnFrame
  <2>5. cb' \in [CbId -> [ref : Ref \cup {0}, calls : Nat]]
    BY <1>18, <2>1 DEF OnFrame
  <2>6. refs' \subseteq Ref
    BY <1>18, <2>1 DEF OnFrame
  <2>7. QED
    BY <1>18, <2>2, <2>3, <2>4, <2>5, <2>6 DEF OnFrame
<1>19. CASE UNCHANGED vars
  BY <1>19
<1>20. QED
  BY <1>1, <1>2, <1>3, <1>4, <1>5, <1>6, <1>7, <1>8, <1>9,
     <1>10, <1>11, <1>12, <1>13, <1>14, <1>15, <1>16, <1>17, <1>18, <1>19
  DEF Next, Loader, Safepoint, ModCall, Thread

\* Only the engine thread arms the executor, after the loader has reported it.
LEMMA ControlStep == TypeOK /\ Control /\ [Next]_vars => Control'
<1> SUFFICES ASSUME TypeOK /\ Control, [Next]_vars PROVE Control'
  OBVIOUS
<1> USE DEF vars, bootVars, spVars, jobVars, cbVars, initVars,
         TypeOK, Control
<1>1. CASE BootstrapFails
  BY <1>1 DEF BootstrapFails
<1>2. CASE Bootstrap
  BY <1>2 DEF Bootstrap
<1>3. CASE InstallHook
  BY <1>3 DEF InstallHook
<1>4. CASE InstallFails
  BY <1>4 DEF InstallFails
<1>5. CASE SafepointBegin
  BY <1>5 DEF SafepointBegin
<1>6. ASSUME NEW t \in {"engine", "loader"}, InitStart(t) PROVE Control'
  BY <1>6 DEF InitStart, RunsDeferred
<1>7. ASSUME NEW t \in {"engine", "loader"}, InitReturn(t) PROVE Control'
  BY <1>7 DEF InitReturn
<1>8. CASE InitsEnd
  BY <1>8 DEF InitsEnd
<1>9. CASE JobStart
  BY <1>9 DEF JobStart
<1>10. CASE JobReturn
  BY <1>10 DEF JobReturn
<1>11. CASE DrainEnd
  BY <1>11 DEF DrainEnd
<1>12. CASE CbStart
  BY <1>12 DEF CbStart
<1>13. CASE CbReturn
  BY <1>13 DEF CbReturn
<1>14. CASE CbFault
  BY <1>14 DEF CbFault
<1>15. CASE SafepointEnd
  BY <1>15 DEF SafepointEnd
<1>16. ASSUME NEW t \in Thread, NEW lua \in BOOLEAN, Enqueue(t, lua) PROVE Control'
  BY <1>16 DEF Enqueue
<1>17. ASSUME NEW t \in Thread, NEW lua \in BOOLEAN, EnqueueInline(t, lua) PROVE Control'
  BY <1>17 DEF EnqueueInline
<1>18. ASSUME NEW t \in Thread, NEW lua \in BOOLEAN, OnFrame(t, lua) PROVE Control'
  BY <1>18 DEF OnFrame
<1>19. CASE UNCHANGED vars
  BY <1>19
<1>20. QED
  BY <1>1, <1>2, <1>3, <1>4, <1>5, <1>6, <1>7, <1>8, <1>9,
     <1>10, <1>11, <1>12, <1>13, <1>14, <1>15, <1>16, <1>17, <1>18, <1>19
  DEF Next, Loader, Safepoint, ModCall, Thread

\* Mod code starts in the phase of the safepoint it belongs to, which does not
\* end before the mod code returns.
LEMMA RunningStep == TypeOK /\ Control /\ Running /\ [Next]_vars => Running'
<1> SUFFICES ASSUME TypeOK /\ Control /\ Running, [Next]_vars PROVE Running'
  OBVIOUS
<1> USE DEF vars, bootVars, spVars, jobVars, cbVars, initVars,
         TypeOK, Control, Running, Idle
<1>1. CASE BootstrapFails
  BY <1>1 DEF BootstrapFails
<1>2. CASE Bootstrap
  BY <1>2 DEF Bootstrap
<1>3. CASE InstallHook
  BY <1>3 DEF InstallHook
<1>4. CASE InstallFails
  BY <1>4 DEF InstallFails
<1>5. CASE SafepointBegin
  BY <1>5 DEF SafepointBegin
<1>6. ASSUME NEW t \in {"engine", "loader"}, InitStart(t) PROVE Running'
  BY <1>6 DEF InitStart, RunsDeferred
<1>7. ASSUME NEW t \in {"engine", "loader"}, InitReturn(t) PROVE Running'
  BY <1>7 DEF InitReturn
<1>8. CASE InitsEnd
  BY <1>8 DEF InitsEnd
<1>9. CASE JobStart
  BY <1>9 DEF JobStart
<1>10. CASE JobReturn
  BY <1>10 DEF JobReturn
<1>11. CASE DrainEnd
  BY <1>11 DEF DrainEnd
<1>12. CASE CbStart
  BY <1>12 DEF CbStart
<1>13. CASE CbReturn
  BY <1>13 DEF CbReturn
<1>14. CASE CbFault
  BY <1>14 DEF CbFault
<1>15. CASE SafepointEnd
  BY <1>15 DEF SafepointEnd
<1>16. ASSUME NEW t \in Thread, NEW lua \in BOOLEAN, Enqueue(t, lua) PROVE Running'
  BY <1>16 DEF Enqueue
<1>17. ASSUME NEW t \in Thread, NEW lua \in BOOLEAN, EnqueueInline(t, lua) PROVE Running'
  BY <1>17 DEF EnqueueInline
<1>18. ASSUME NEW t \in Thread, NEW lua \in BOOLEAN, OnFrame(t, lua) PROVE Running'
  BY <1>18 DEF OnFrame
<1>19. CASE UNCHANGED vars
  BY <1>19
<1>20. QED
  BY <1>1, <1>2, <1>3, <1>4, <1>5, <1>6, <1>7, <1>8, <1>9,
     <1>10, <1>11, <1>12, <1>13, <1>14, <1>15, <1>16, <1>17, <1>18, <1>19
  DEF Next, Loader, Safepoint, ModCall, Thread

\* The first safepoint does not go on before every deferred mod was initialised.
LEMMA InitialisingStep ==
    TypeOK /\ Control /\ Running /\ Initialising /\ [Next]_vars => Initialising'
<1> SUFFICES ASSUME TypeOK /\ Control /\ Running /\ Initialising, [Next]_vars
             PROVE  Initialising'
  OBVIOUS
<1> USE DEF vars, bootVars, spVars, jobVars, cbVars, initVars,
         TypeOK, Control, Running, Initialising
<1>1. CASE BootstrapFails
  BY <1>1 DEF BootstrapFails
<1>2. CASE Bootstrap
  BY <1>2 DEF Bootstrap
<1>3. CASE InstallHook
  BY <1>3 DEF InstallHook
<1>4. CASE InstallFails
  BY <1>4 DEF InstallFails
<1>5. CASE SafepointBegin
  BY <1>5 DEF SafepointBegin
<1>6. ASSUME NEW t \in {"engine", "loader"}, InitStart(t) PROVE Initialising'
  <2>1. nxt' = nxt + 1 /\ nxt <= Len(Deferred) /\ nxt \in Nat
    BY <1>6 DEF InitStart
  <2>2. inits' = [inits EXCEPT ![nxt] = @ + 1] /\ inits \in [DOMAIN Deferred -> Nat]
    BY <1>6 DEF InitStart
  <2>3. inited \/ lpc = "fallback"
    BY <1>6 DEF InitStart, RunsDeferred
  <2>4. inited => epc = "init"
    BY <1>6 DEF InitStart, RunsDeferred
  <2>5. UNCHANGED <<lpc, epc, inited>>
    BY <1>6 DEF InitStart
  <2>6. DOMAIN Deferred \subseteq Nat
    BY DeferredAssumption DEF DeferredAssumption
  <2>7. \A i \in DOMAIN Deferred : inits'[i] = IF i < nxt' THEN 1 ELSE 0
    <3> SUFFICES ASSUME NEW i \in DOMAIN Deferred
                 PROVE  inits'[i] = IF i < nxt' THEN 1 ELSE 0
      OBVIOUS
    <3>1. CASE i = nxt
      BY <2>1, <2>2, <2>6, <3>1
    <3>2. CASE i # nxt
      BY <2>1, <2>2, <2>6, <3>2
    <3>3. QED
      BY <3>1, <3>2
  <2>8. QED
    BY <2>3, <2>4, <2>5, <2>7
<1>7. ASSUME NEW t \in {"engine", "loader"}, InitReturn(t) PROVE Initialising'
  BY <1>7 DEF InitReturn
<1>8. CASE InitsEnd
  BY <1>8 DEF InitsEnd
<1>9. CASE JobStart
  BY <1>9 DEF JobStart
<1>10. CASE JobReturn
  BY <1>10 DEF JobReturn
<1>11. CASE DrainEnd
  BY <1>11 DEF DrainEnd
<1>12. CASE CbStart
  BY <1>12 DEF CbStart
<1>13. CASE CbReturn
  BY <1>13 DEF CbReturn
<1>14. CASE CbFault
  BY <1>14 DEF CbFault
<1>15. CASE SafepointEnd
  BY <1>15 DEF SafepointEnd
<1>16. ASSUME NEW t \in Thread, NEW lua \in BOOLEAN, Enqueue(t, lua) PROVE Initialising'
  BY <1>16 DEF Enqueue
<1>17. ASSUME NEW t \in Thread, NEW lua \in BOOLEAN, EnqueueInline(t, lua) PROVE Initialising'
  BY <1>17 DEF EnqueueInline
<1>18. ASSUME NEW t \in Thread, NEW lua \in BOOLEAN, OnFrame(t, lua) PROVE Initialising'
  BY <1>18 DEF OnFrame
<1>19. CASE UNCHANGED vars
  BY <1>19
<1>20. QED
  BY <1>1, <1>2, <1>3, <1>4, <1>5, <1>6, <1>7, <1>8, <1>9,
     <1>10, <1>11, <1>12, <1>13, <1>14, <1>15, <1>16, <1>17, <1>18, <1>19
  DEF Next, Loader, Safepoint, ModCall, Thread

\* Mod code that finds the executor unarmed runs in the fallback.
LEMMA InlineStep == IInv /\ [Next]_vars => Inline'
<1> SUFFICES ASSUME IInv, [Next]_vars PROVE Inline'
  OBVIOUS
<1> USE DEF vars, bootVars, spVars, jobVars, cbVars, initVars,
         IInv, TypeOK, Control, Running, Initialising, Inline, Idle
<1>1. CASE BootstrapFails
  BY <1>1 DEF BootstrapFails
<1>2. CASE Bootstrap
  BY <1>2 DEF Bootstrap
<1>3. CASE InstallHook
  BY <1>3 DEF InstallHook
<1>4. CASE InstallFails
  BY <1>4 DEF InstallFails
<1>5. CASE SafepointBegin
  BY <1>5 DEF SafepointBegin
<1>6. ASSUME NEW t \in {"engine", "loader"}, InitStart(t) PROVE Inline'
  BY <1>6 DEF InitStart, RunsDeferred
<1>7. ASSUME NEW t \in {"engine", "loader"}, InitReturn(t) PROVE Inline'
  BY <1>7 DEF InitReturn
<1>8. CASE InitsEnd
  BY <1>8 DEF InitsEnd
<1>9. CASE JobStart
  BY <1>9 DEF JobStart
<1>10. CASE JobReturn
  BY <1>10 DEF JobReturn
<1>11. CASE DrainEnd
  BY <1>11 DEF DrainEnd
<1>12. CASE CbStart
  BY <1>12 DEF CbStart
<1>13. CASE CbReturn
  BY <1>13 DEF CbReturn
<1>14. CASE CbFault
  BY <1>14 DEF CbFault
<1>15. CASE SafepointEnd
  BY <1>15 DEF SafepointEnd
<1>16. ASSUME NEW t \in Thread, NEW lua \in BOOLEAN, Enqueue(t, lua) PROVE Inline'
  BY <1>16 DEF Enqueue, Calls
<1>17. ASSUME NEW t \in Thread, NEW lua \in BOOLEAN, EnqueueInline(t, lua) PROVE Inline'
  BY <1>17 DEF EnqueueInline, Calls
<1>18. ASSUME NEW t \in Thread, NEW lua \in BOOLEAN, OnFrame(t, lua) PROVE Inline'
  BY <1>18 DEF OnFrame, Calls
<1>19. CASE UNCHANGED vars
  BY <1>19
<1>20. QED
  BY <1>1, <1>2, <1>3, <1>4, <1>5, <1>6, <1>7, <1>8, <1>9,
     <1>10, <1>11, <1>12, <1>13, <1>14, <1>15, <1>16, <1>17, <1>18, <1>19
  DEF Next, Loader, Safepoint, ModCall, Thread

\* Nothing has run yet.
LEMMA InitIInv == Init => IInv
<1> SUFFICES ASSUME Init PROVE IInv
  OBVIOUS
<1>1. TypeOK
  <2>1. queue \in Seq(JobId) /\ Len(queue) = 0 /\ frames \in Seq(CbId) /\ Len(frames) = 0
    BY EmptySeq DEF Init
  <2>2. Len(queue) <= QueueLimit /\ Len(frames) <= MAX_ONFRAME
    BY <2>1, BoundsAssumption DEF BoundsAssumption
  <2>3. nxt \in 1..Len(Deferred)+1 /\ fi \in 1..MAX_ONFRAME+1 /\ sp \in 0..MaxFrames
        /\ njobs \in 0..MaxJobs /\ ncbs \in 0..MaxCbs
    BY BoundsAssumption, DeferredDomain DEF BoundsAssumption, Init
  <2>4. inits \in [DOMAIN Deferred -> Nat]
    BY DEF Init
  <2>5. cur \in [{"engine", "loader"} -> [kind : {"none", "init", "job", "cb"}, id : Nat]]
    BY DEF Init, Idle
  <2>6. job \in [JobId -> [fate : {"none", "waiting", "running", "ran", "dropped", "inline"},
                           ref : Ref \cup {0}]]
    BY DEF Init, NoJob
  <2>7. cb \in [CbId -> [ref : Ref \cup {0}, calls : Nat]]
    BY DEF Init
  <2>8. QED
    BY <2>1, <2>2, <2>3, <2>4, <2>5, <2>6, <2>7 DEF Init, TypeOK
<1>2. Control /\ Running /\ Initialising /\ Inline
  BY DeferredDomain DEF Init, Control, Running, Initialising, Inline, Idle, NoJob
<1>3. QED
  BY <1>1, <1>2 DEF IInv

\* IInv holds in every state.
THEOREM Inductive == Spec => []IInv
<1>1. IInv /\ [Next]_vars => IInv'
  BY TypeStep, ControlStep, RunningStep, InitialisingStep, InlineStep DEF IInv
<1>2. QED
  BY InitIInv, <1>1, PTL DEF Spec

\* Every variable of the executor keeps its type: the ring and the on_frame list
\* never outgrow their capacity.
THEOREM TypeCorrect == Spec => []TypeOK
BY Inductive, PTL DEF IInv

\* A function handed to the executor runs off the safepoint only in the loader's
\* fallback, in which no safepoint ever runs, and no mod is initialised twice.
THEOREM OneThreadHolds == Spec => []OneThread
<1>1. IInv => OneThread
  <2> SUFFICES ASSUME IInv PROVE OneThread
    OBVIOUS
  <2>1. (\E j \in JobId : job[j].fate = "inline") => lpc = "fallback"
    BY DEF IInv, Inline
  <2>2. lpc = "fallback" => ~armed /\ sp = 0
    BY DEF IInv, Control, TypeOK
  <2>3. \A i \in DOMAIN inits : inits[i] = IF i < nxt THEN 1 ELSE 0
    BY DEF IInv, Initialising, TypeOK
  <2>4. QED
    BY <2>1, <2>2, <2>3 DEF OneThread
<1>2. QED
  BY Inductive, <1>1, PTL

\* No job and no on_frame callback starts before every deferred mod was
\* initialised (executor.c:209-211).
THEOREM InitsFirstHolds == Spec => []InitsFirst
<1>1. IInv => InitsFirst
  BY DEF IInv, Control, Running, Initialising, InitsFirst
<1>2. QED
  BY Inductive, <1>1, PTL

-----------------------------------------------------------------------------
(***************************************************************************)
(* What becomes of jobs, callbacks and their references.                   *)
(***************************************************************************)
\* The ring holds the newest jobs, numbered without a gap: only then did the
\* job that a full ring drops have QueueLimit newer ones behind it.
Fates ==
    /\ Len(queue) <= njobs
    /\ \A i \in 1..Len(queue) : queue[i] = njobs - Len(queue) + i
    /\ \A j \in JobId : job[j].fate = "waiting" <=> njobs - Len(queue) < j /\ j <= njobs
    /\ \A j \in JobId : job[j].fate # "none" => j <= njobs
    /\ \A j \in JobId : job[j].fate = "dropped" => j + QueueLimit <= njobs
    /\ ~armed => queue = <<>>
    /\ cur["engine"].kind = "job" => /\ cur["engine"].id \in JobId
                                     /\ job[cur["engine"].id].fate = "running"

\* No callback is on the list twice, and the one that runs is entry fi.
Listed ==
    /\ \A i \in 1..Len(frames) : frames[i] <= ncbs
    /\ \A i, k \in 1..Len(frames) : frames[i] = frames[k] => i = k
    /\ cur["engine"].kind = "cb" => cur["engine"].id = frames[fi]

\* Entries before fi were called in this pass, entry fi is if a callback runs.
Called(i) == i < fi \/ (i = fi /\ cur["engine"].kind = "cb")
Pass == epc = "frame" =>
    /\ \A i \in 1..Len(frames) : cb[frames[i]].calls = IF Called(i) THEN 1 ELSE 0
    /\ \A c \in CbId : cb[c].calls <= 1

\* Each live reference has a holder, and no two holders share one.
Holding(j) == job[j].fate \in {"waiting", "running", "dropped"}
Owned ==
    /\ \A r \in refs : \/ \E j \in JobId : Holding(j) /\ job[j].ref = r
                       \/ \E i \in 1..Len(frames) : cb[frames[i]].ref = r
    /\ \A j \in JobId : Holding(j) /\ job[j].ref # 0 => job[j].ref \in refs
    /\ \A i \in 1..Len(frames) : cb[frames[i]].ref # 0 => cb[frames[i]].ref \in refs
    /\ \A j, k \in JobId : Holding(j) /\ Holding(k) /\ job[j].ref = job[k].ref /\ job[j].ref # 0 => j = k
    /\ \A i, k \in 1..Len(frames) : cb[frames[i]].ref = cb[frames[k]].ref /\ cb[frames[i]].ref # 0 => i = k
    /\ \A j \in JobId, i \in 1..Len(frames) :
          Holding(j) /\ job[j].ref # 0 => job[j].ref # cb[frames[i]].ref

\* The inductive invariant of what was handed over.
FullInv == IInv /\ Fates /\ Listed /\ Pass /\ Owned

\* Steps that touch neither jobs nor callbacks.
Quiet == \/ BootstrapFails \/ Bootstrap \/ InstallHook \/ InstallFails
         \/ SafepointBegin \/ InitsEnd \/ SafepointEnd
         \/ \E t \in {"engine", "loader"} : InitStart(t) \/ InitReturn(t)

\* Of the engine thread's mod code they end or start an init at most.
LEMMA QuietStep ==
    ASSUME TypeOK, Running, Quiet
    PROVE  /\ UNCHANGED <<jobVars, cbVars, refs, fi>>
           /\ armed => armed'
           /\ cur'["engine"].kind \in {"job", "cb"} => cur'["engine"] = cur["engine"]
           /\ epc' = "frame" => epc = "frame" /\ (cur'["engine"].kind = "cb" <=> cur["engine"].kind = "cb")
<1> USE DEF TypeOK, Running, Idle, bootVars, spVars, initVars
<1>1. CASE BootstrapFails \/ Bootstrap \/ InstallHook \/ InstallFails
  BY <1>1 DEF BootstrapFails, Bootstrap, InstallHook, InstallFails
<1>2. CASE SafepointBegin \/ InitsEnd \/ SafepointEnd
  BY <1>2 DEF SafepointBegin, InitsEnd, SafepointEnd
<1>3. ASSUME NEW t \in {"engine", "loader"}, InitStart(t) \/ InitReturn(t)
      PROVE  /\ UNCHANGED <<jobVars, cbVars, refs, fi, armed, epc>>
             /\ cur'["engine"].kind \in {"job", "cb"} => cur'["engine"] = cur["engine"]
             /\ epc' = "frame" => (cur'["engine"].kind = "cb" <=> cur["engine"].kind = "cb")
  <2>1. CASE InitStart(t)
    BY <2>1 DEF InitStart, RunsDeferred
  <2>2. CASE InitReturn(t)
    BY <2>2 DEF InitReturn
  <2>3. QED
    BY <1>3, <2>1, <2>2
<1>4. QED
  BY <1>1, <1>2, <1>3 DEF Quiet

\* The steps, the quiet ones taken together.
LEMMA OtherSteps ==
    ASSUME [Next]_vars
    PROVE  \/ UNCHANGED vars \/ Quiet \/ JobStart \/ JobReturn \/ DrainEnd
           \/ CbStart \/ CbReturn \/ CbFault
           \/ \E t \in Thread, lua \in BOOLEAN : Enqueue(t, lua) \/ EnqueueInline(t, lua) \/ OnFrame(t, lua)
BY DEF Next, Loader, Safepoint, ModCall, Thread, Quiet

\* Reading a list whose first entry was taken off.
LEMMA TailEntries ==
    ASSUME NEW S, NEW s \in Seq(S), s # <<>>
    PROVE  /\ Len(s) \in Nat /\ Len(s) > 0 /\ Len(Tail(s)) = Len(s) - 1 /\ Tail(s) \in Seq(S) /\ Head(s) = s[1]
           /\ \A i \in 1..Len(s) - 1 : Tail(s)[i] = s[i + 1]
BY HeadTailProperties, EmptySeq, LenProperties

\* Reading a list that got a new last entry.
LEMMA AppendEntries ==
    ASSUME NEW S, NEW s \in Seq(S), NEW x \in S
    PROVE  /\ Len(s) \in Nat /\ Len(Append(s, x)) = Len(s) + 1 /\ Append(s, x)[Len(s) + 1] = x
           /\ \A i \in 1..Len(s) : Append(s, x)[i] = s[i]
BY AppendProperties, LenProperties

\* What is left of the list after a removal.
LEMMA SwapEntries ==
    ASSUME NEW S, NEW s \in Seq(S), NEW i \in 1..Len(s)
    PROVE  LET r == SubSeq([s EXCEPT ![i] = s[Len(s)]], 1, Len(s) - 1)
           IN /\ Len(r) = Len(s) - 1
              /\ \A k \in 1..Len(s) - 1 : r[k] = IF k = i THEN s[Len(s)] ELSE s[k]
<1> DEFINE e == [s EXCEPT ![i] = s[Len(s)]]
<1>1. Len(s) \in Nat /\ s[Len(s)] \in S
  BY LenProperties, Entry
<1>2. e \in Seq(S) /\ Len(e) = Len(s) /\ \A k \in 1..Len(s) : e[k] = IF k = i THEN s[Len(s)] ELSE s[k]
  BY <1>1, ExceptSeq, LenProperties
<1>3. \A k \in 1..Len(s) - 1 : e[k] \in S
  BY <1>1, <1>2, Entry
<1> HIDE DEF e
<1>4. Len(SubSeq(e, 1, Len(s) - 1)) = Len(s) - 1
      /\ \A k \in 1..Len(s) - 1 : SubSeq(e, 1, Len(s) - 1)[k] = e[k]
  BY <1>1, <1>2, <1>3, SubSeqProperties
<1>5. QED
  BY <1>1, <1>2, <1>4 DEF e

\* How many jobs job_push drops.
Displaced == IF Len(queue) < QueueLimit THEN 0 ELSE 1

\* job_push on a ring with room, and on a full one, which loses its first entry.
LEMMA PushEntries ==
    ASSUME queue \in Seq(JobId), Len(queue) <= QueueLimit, NEW id \in JobId
    PROVE  /\ Displaced \in 0..1 /\ Displaced <= Len(queue)
           /\ Displaced = 1 => Len(queue) = QueueLimit /\ queue # <<>>
           /\ Len(PushNew(id)) = Len(queue) + 1 - Displaced
           /\ PushNew(id)[Len(queue) + 1 - Displaced] = id
           /\ \A i \in 1..Len(queue) - Displaced : PushNew(id)[i] = queue[i + Displaced]
<1>1. QueueLimit \in Nat \ {0} /\ Len(queue) \in Nat
  BY BoundsAssumption, LenProperties DEF BoundsAssumption
<1>2. CASE Len(queue) < QueueLimit
  <2>1. PushNew(id) = Append(queue, id) /\ Displaced = 0
    BY <1>2 DEF PushNew, Displaced
  <2>2. /\ Len(Append(queue, id)) = Len(queue) + 1 /\ Append(queue, id)[Len(queue) + 1] = id
        /\ \A i \in 1..Len(queue) : Append(queue, id)[i] = queue[i]
    BY AppendEntries
  <2>3. QED
    BY <1>1, <2>1, <2>2
<1>3. CASE ~(Len(queue) < QueueLimit)
  <2> DEFINE t == Tail(queue)
  <2>1. PushNew(id) = Append(t, id) /\ Displaced = 1 /\ queue # <<>>
    BY <1>1, <1>3, EmptySeq DEF PushNew, Displaced
  <2>2. /\ t \in Seq(JobId) /\ Len(t) = Len(queue) - 1
        /\ \A i \in 1..Len(queue) - 1 : t[i] = queue[i + 1]
    BY <2>1, TailEntries
  <2> HIDE DEF t
  <2>3. /\ Len(Append(t, id)) = Len(t) + 1 /\ Append(t, id)[Len(t) + 1] = id
        /\ \A i \in 1..Len(t) : Append(t, id)[i] = t[i]
    BY <2>2, AppendEntries
  <2>4. Len(Append(t, id)) = Len(queue) /\ Append(t, id)[Len(queue)] = id
    BY <1>1, <2>2, <2>3
  <2>5. \A i \in 1..Len(queue) - 1 : Append(t, id)[i] = queue[i + 1]
    BY <1>1, <2>2, <2>3
  <2>6. 1 <= Len(queue)
    BY <1>1, <1>3
  <2>7. QED
    BY <1>1, <1>3, <2>1, <2>4, <2>5, <2>6
<1>4. QED
  BY <1>2, <1>3

\* The reference that luaL_ref returns is nobody's.
LEMMA NewRefFresh ==
    ASSUME NEW lua \in BOOLEAN, HasRef(lua)
    PROVE  /\ NewRef(lua) \in Ref \cup {0} /\ NewRef(lua) \notin refs \ {0}
BY NewRefType DEF NewRef, HasRef

\* The ring loses its oldest job, or gets the newest one.
LEMMA FatesStep == FullInv /\ [Next]_vars => Fates'
<1> SUFFICES ASSUME FullInv, [Next]_vars PROVE Fates'
  OBVIOUS
<1>0. /\ njobs \in 0..MaxJobs /\ queue \in Seq(JobId) /\ Len(queue) <= QueueLimit
      /\ Len(queue) \in Nat /\ QueueLimit \in Nat \ {0} /\ MaxJobs \in Nat /\ Fates /\ armed \in BOOLEAN
      /\ cur \in [{"engine", "loader"} -> [kind : {"none", "init", "job", "cb"}, id : Nat]]
      /\ job \in [JobId -> [fate : {"none", "waiting", "running", "ran", "dropped", "inline"},
                            ref : Ref \cup {0}]]
  <2>1. /\ njobs \in 0..MaxJobs /\ queue \in Seq(JobId) /\ Len(queue) <= QueueLimit
        /\ Fates /\ armed \in BOOLEAN
        /\ cur \in [{"engine", "loader"} -> [kind : {"none", "init", "job", "cb"}, id : Nat]]
        /\ job \in [JobId -> [fate : {"none", "waiting", "running", "ran", "dropped", "inline"},
                              ref : Ref \cup {0}]]
    BY DEF FullInv, IInv, TypeOK
  <2>2. Len(queue) \in Nat /\ QueueLimit \in Nat \ {0} /\ MaxJobs \in Nat
    BY <2>1, LenProperties, BoundsAssumption DEF BoundsAssumption
  <2>3. QED
    BY <2>1, <2>2
<1>1. CASE Quiet
  <2>1. /\ UNCHANGED <<queue, njobs, job>> /\ (armed => armed')
        /\ cur'["engine"].kind \in {"job", "cb"} => cur'["engine"] = cur["engine"]
    BY <1>1, QuietStep DEF jobVars, FullInv, IInv
  <2>2. QED
    BY <1>0, <2>1 DEF Fates
<1>2. CASE JobStart
  <2>1. /\ queue # <<>> /\ queue' = Tail(queue) /\ njobs' = njobs /\ armed' = armed
        /\ job' = [job EXCEPT ![Head(queue)].fate = "running"]
        /\ cur' = [cur EXCEPT !["engine"] = [kind |-> "job", id |-> Head(queue)]]
    BY <1>2 DEF JobStart, bootVars
  <2>2. /\ Len(queue) > 0 /\ Len(queue') = Len(queue) - 1 /\ Head(queue) = queue[1]
        /\ \A i \in 1..Len(queue) - 1 : queue'[i] = queue[i + 1]
    BY <1>0, <2>1, TailEntries
  <2>3. Head(queue) = njobs - Len(queue) + 1 /\ Head(queue) \in JobId
    <3>1. Head(queue) \in JobId
      BY <1>0, <2>1, HeadAndTail
    <3>2. 1 \in 1..Len(queue)
      BY <1>0, <2>2
    <3>3. queue[1] = njobs - Len(queue) + 1
      BY <1>0, <3>2 DEF Fates
    <3>4. QED
      BY <2>2, <3>1, <3>3
  <2>4. /\ \A j \in JobId : job'[j].fate = IF j = Head(queue) THEN "running" ELSE job[j].fate
        /\ cur'["engine"].id = Head(queue)
    BY <1>0, <2>1, <2>3
  <2>5. \A i \in 1..Len(queue') : queue'[i] = njobs' - Len(queue') + i
    <3> SUFFICES ASSUME NEW i \in 1..Len(queue') PROVE queue'[i] = njobs' - Len(queue') + i
      OBVIOUS
    <3>1. i \in 1..Len(queue) - 1 /\ i + 1 \in 1..Len(queue)
      BY <1>0, <2>2
    <3>2. queue'[i] = queue[i + 1]
      BY <2>2, <3>1
    <3>3. queue[i + 1] = njobs - Len(queue) + (i + 1)
      BY <1>0, <3>1 DEF Fates
    <3>4. njobs' = njobs /\ Len(queue') = Len(queue) - 1 /\ njobs \in Nat /\ Len(queue) \in Nat /\ i \in Nat
      BY <1>0, <2>1, <2>2, <3>1
    <3>5. QED
      BY <3>2, <3>3, <3>4
  <2>6. \A j \in JobId : job'[j].fate = "waiting" <=> njobs' - Len(queue') < j /\ j <= njobs'
    BY <1>0, <2>1, <2>2, <2>3, <2>4 DEF Fates, JobId
  <2>7. QED
    BY <1>0, <2>1, <2>2, <2>3, <2>4, <2>5, <2>6 DEF Fates, JobId
<1>3. CASE JobReturn
  <2>1. /\ UNCHANGED <<queue, njobs, armed>> /\ cur'["engine"].kind = "none"
        /\ job' = [job EXCEPT ![cur["engine"].id].fate = "ran"]
        /\ cur["engine"].kind = "job"
    BY <1>0, <1>3 DEF JobReturn, bootVars, Idle
  <2>2. cur["engine"].id \in JobId /\ job[cur["engine"].id].fate = "running"
    BY <1>0, <2>1 DEF Fates
  <2>3. \A j \in JobId : job'[j].fate = IF j = cur["engine"].id THEN "ran" ELSE job[j].fate
    BY <1>0, <2>1, <2>2
  <2>4. QED
    BY <1>0, <2>1, <2>2, <2>3 DEF Fates
<1>4. CASE DrainEnd
  <2>1. UNCHANGED <<queue, njobs, job, armed, cur>>
    BY <1>4 DEF DrainEnd, bootVars, jobVars
  <2>2. QED
    BY <1>0, <2>1 DEF Fates
<1>5. CASE CbStart \/ CbReturn \/ CbFault
  <2>1. UNCHANGED <<queue, njobs, job, armed>> /\ cur'["engine"].kind # "job"
    BY <1>0, <1>5 DEF CbStart, CbReturn, CbFault, bootVars, jobVars, Idle
  <2>2. QED
    BY <1>0, <2>1 DEF Fates
<1>6. ASSUME NEW t \in Thread, NEW lua \in BOOLEAN, Enqueue(t, lua) PROVE Fates'
  <2> DEFINE id == njobs + 1
             n == Displaced
  <2>1. /\ id \in JobId /\ njobs' = id /\ queue' = PushNew(id) /\ UNCHANGED <<armed, cur>> /\ armed
        /\ job' = [j \in JobId |->
             CASE j = id -> [fate |-> "waiting", ref |-> NewRef(lua)]
               [] j \in (IF Len(queue) < QueueLimit THEN {} ELSE {Head(queue)})
                    -> [job[j] EXCEPT !.fate = "dropped"]
               [] OTHER -> job[j]]
    BY <1>6 DEF Enqueue, bootVars
  <2>2. /\ n <= Len(queue) /\ Len(queue') = Len(queue) + 1 - n
        /\ queue'[Len(queue) + 1 - n] = id
        /\ \A i \in 1..Len(queue) - n : queue'[i] = queue[i + n]
        /\ n \in 0..1 /\ (n = 1 => Len(queue) = QueueLimit /\ queue # <<>>)
    <3> HIDE DEF id
    <3>1. QED
      BY <1>0, <2>1, PushEntries
  <2>3. n \in 0..1 /\ (n = 1 => Len(queue) = QueueLimit)
    BY <2>2
  <2>4. n = 1 => Head(queue) = njobs - Len(queue) + 1 /\ Head(queue) \in JobId
    <3>1. n = 1 => queue # <<>>
      BY <2>2
    <3>2. queue # <<>> => Head(queue) = queue[1] /\ Head(queue) \in JobId /\ Len(queue) > 0
      BY <1>0, TailEntries, HeadAndTail
    <3>3. QED
      BY <1>0, <3>1, <3>2 DEF Fates
  <2>5. \A j \in JobId : job'[j].fate = IF j = id THEN "waiting"
             ELSE IF n = 1 /\ j = Head(queue) THEN "dropped" ELSE job[j].fate
    <3>1. CASE Len(queue) < QueueLimit
      BY <1>0, <2>1, <3>1 DEF Displaced
    <3>2. CASE ~(Len(queue) < QueueLimit)
      <4>1. n = 1
        BY <3>2 DEF Displaced
      <4>2. \A j \in JobId : job'[j] = CASE j = id -> [fate |-> "waiting", ref |-> NewRef(lua)]
               [] j \in {Head(queue)} -> [job[j] EXCEPT !.fate = "dropped"]
               [] OTHER -> job[j]
        BY <2>1, <3>2
      <4>3. id # Head(queue)
        <5>1. 1 \in 1..Len(queue) /\ queue # <<>> /\ Len(queue) \in Nat /\ njobs \in Nat
          BY <1>0, <2>2, <3>2, <4>1
        <5>2. Head(queue) = queue[1] /\ queue[1] = njobs - Len(queue) + 1
          BY <1>0, <5>1, TailEntries DEF Fates
        <5>3. QED
          BY <5>1, <5>2
      <4>4. ASSUME NEW j \in JobId
            PROVE  job'[j].fate = IF j = id THEN "waiting"
                       ELSE IF n = 1 /\ j = Head(queue) THEN "dropped" ELSE job[j].fate
        <5>1. CASE j = id
          <6>1. j \notin {Head(queue)}
            BY <4>3, <5>1
          <6>2. job'[j] = [fate |-> "waiting", ref |-> NewRef(lua)]
            BY <4>2, <5>1, <6>1
          <6>3. QED
            BY <5>1, <6>2
        <5>2. CASE j # id /\ j = Head(queue)
          <6>1. j \in {Head(queue)} /\ job'[j] = [job[j] EXCEPT !.fate = "dropped"]
            BY <4>2, <5>2
          <6>2. job[j] \in [fate : {"none", "waiting", "running", "ran", "dropped", "inline"},
                            ref : Ref \cup {0}]
            BY <1>0
          <6>3. job'[j].fate = "dropped"
            BY <6>1, <6>2
          <6>4. QED
            BY <4>1, <5>2, <6>3
        <5>3. CASE j # id /\ j # Head(queue)
          BY <4>2, <5>3
        <5>4. QED
          BY <5>1, <5>2, <5>3
      <4>5. QED
        BY <4>4
    <3>3. QED
      BY <3>1, <3>2
  <2> HIDE DEF n
  <2>6. \A i \in 1..Len(queue') : queue'[i] = njobs' - Len(queue') + i
    <3> SUFFICES ASSUME NEW i \in 1..Len(queue') PROVE queue'[i] = njobs' - Len(queue') + i
      OBVIOUS
    <3>1. CASE i = Len(queue) + 1 - n
      BY <1>0, <2>1, <2>2, <2>3, <3>1
    <3>2. CASE i # Len(queue) + 1 - n
      <4>1. i \in 1..Len(queue) - n /\ i + n \in 1..Len(queue)
        BY <1>0, <2>2, <2>3, <3>2
      <4>2. queue'[i] = njobs - Len(queue) + (i + n)
        BY <1>0, <2>2, <4>1 DEF Fates
      <4>3. QED
        <5>1. njobs' = njobs + 1 /\ Len(queue') = Len(queue) + 1 - n /\ i \in Nat
              /\ njobs \in Nat /\ Len(queue) \in Nat /\ n \in Nat
          BY <1>0, <2>1, <2>2, <2>3, <4>1
        <5>2. QED
          BY <4>2, <5>1
    <3>3. QED
      BY <3>1, <3>2
  <2>7. \A j \in JobId : job'[j].fate = "waiting" <=> njobs' - Len(queue') < j /\ j <= njobs'
    <3> SUFFICES ASSUME NEW j \in JobId
                 PROVE  job'[j].fate = "waiting" <=> njobs' - Len(queue') < j /\ j <= njobs'
      OBVIOUS
    <3>1. njobs' = njobs + 1 /\ njobs' - Len(queue') = njobs - Len(queue) + n /\ j \in Nat
          /\ njobs \in Nat /\ Len(queue) \in Nat /\ n \in 0..1 /\ Len(queue) <= njobs
      <4>1. njobs' = njobs + 1 /\ Len(queue') = Len(queue) + 1 - n /\ n \in 0..1
        BY <2>1, <2>2
      <4>2. njobs \in Nat /\ Len(queue) \in Nat /\ Len(queue) <= njobs /\ j \in Nat
        BY <1>0 DEF Fates, JobId
      <4>3. QED
        BY <4>1, <4>2
    <3>2. job[j].fate = "waiting" <=> njobs - Len(queue) < j /\ j <= njobs
      BY <1>0 DEF Fates
    <3>3. CASE j = njobs + 1
      <4>1. n <= Len(queue) /\ job'[j].fate = "waiting"
        BY <2>2, <2>5, <3>3
      <4>2. QED
        <5>1. njobs - Len(queue) + n < j /\ j <= njobs + 1
          <6>1. n <= Len(queue)
            BY <2>2
          <6>2. QED
            BY <3>1, <3>3, <6>1
        <5>2. QED
          BY <3>1, <4>1, <5>1
    <3>4. CASE j # njobs + 1 /\ n = 1 /\ j = Head(queue)
      <4>1. job'[j].fate = "dropped"
        BY <2>5, <3>4
      <4>2. j = njobs - Len(queue) + 1
        BY <2>4, <3>4
      <4>3. QED
        BY <3>1, <3>4, <4>1, <4>2
    <3>5. CASE j # njobs + 1 /\ ~(n = 1 /\ j = Head(queue))
      <4>1. job'[j].fate = job[j].fate
        BY <2>5, <3>5
      <4>2. n = 1 => j # njobs - Len(queue) + 1
        BY <2>4, <3>5
      <4>3. QED
        BY <3>1, <3>2, <3>5, <4>1, <4>2
    <3>6. QED
      BY <3>3, <3>4, <3>5
  <2>8. \A j \in JobId : job'[j].fate # "none" => j <= njobs'
    BY <1>0, <2>1, <2>3, <2>4, <2>5 DEF Fates, JobId
  <2>9. \A j \in JobId : job'[j].fate = "dropped" => j + QueueLimit <= njobs'
    BY <1>0, <2>1, <2>3, <2>4, <2>5 DEF Fates, JobId
  <2>10. cur'["engine"].kind = "job" =>
             cur'["engine"].id \in JobId /\ job'[cur'["engine"].id].fate = "running"
    <3> SUFFICES ASSUME cur["engine"].kind = "job"
                 PROVE  cur["engine"].id \in JobId /\ job'[cur["engine"].id].fate = "running"
      BY <2>1
    <3>1. cur["engine"].id \in JobId /\ job[cur["engine"].id].fate = "running"
      BY <1>0 DEF Fates
    <3>2. cur["engine"].id <= njobs /\ ~(njobs - Len(queue) < cur["engine"].id)
      BY <1>0, <3>1 DEF Fates
    <3>3. cur["engine"].id # id /\ (n = 1 => cur["engine"].id # Head(queue))
      BY <1>0, <2>3, <2>4, <3>1, <3>2 DEF JobId
    <3>4. QED
      BY <2>5, <3>1, <3>3
  <2>11. Len(queue') <= njobs'
    BY <1>0, <2>1, <2>2, <2>3 DEF Fates
  <2>12. QED
    BY <2>1, <2>6, <2>7, <2>8, <2>9, <2>10, <2>11 DEF Fates
<1>7. ASSUME NEW t \in Thread, NEW lua \in BOOLEAN, EnqueueInline(t, lua) PROVE Fates'
  <2> DEFINE id == njobs + 1
  <2>1. /\ id \in JobId /\ njobs' = id /\ UNCHANGED <<armed, cur, queue>> /\ ~armed
        /\ job' = [job EXCEPT ![id] = [NoJob EXCEPT !.fate = "inline"]]
    BY <1>7 DEF EnqueueInline, bootVars
  <2>2. queue = <<>> /\ Len(queue) = 0
    BY <1>0, <2>1, EmptySeq DEF Fates
  <2>3. \A j \in JobId : job'[j].fate = IF j = id THEN "inline" ELSE job[j].fate
    BY <1>0, <2>1 DEF NoJob
  <2>4. cur["engine"].kind = "job" => cur["engine"].id \in JobId /\ cur["engine"].id # id
                                      /\ job[cur["engine"].id].fate = "running"
    BY <1>0 DEF Fates, JobId
  <2>5. QED
    BY <1>0, <2>1, <2>2, <2>3, <2>4 DEF Fates, JobId
<1>8. ASSUME NEW t \in Thread, NEW lua \in BOOLEAN, OnFrame(t, lua) PROVE Fates'
  <2>1. UNCHANGED <<queue, njobs, job, armed, cur>>
    BY <1>8 DEF OnFrame, bootVars, jobVars
  <2>2. QED
    BY <1>0, <2>1 DEF Fates
<1>9. CASE UNCHANGED vars
  BY <1>0, <1>9 DEF Fates, vars, bootVars, jobVars
<1>10. QED
  BY OtherSteps, <1>1, <1>2, <1>3, <1>4, <1>5, <1>6, <1>7, <1>8, <1>9

\* Numbers are never reused, so a callback is on the list once; a removal never
\* happens while another callback runs.
LEMMA ListedStep == FullInv /\ [Next]_vars => Listed'
<1> SUFFICES ASSUME FullInv, [Next]_vars PROVE Listed'
  OBVIOUS
<1>0. /\ ncbs \in 0..MaxCbs /\ frames \in Seq(CbId) /\ Len(frames) \in Nat /\ fi \in Nat \ {0}
      /\ Listed /\ Running /\ MaxCbs \in Nat /\ \A i \in 1..Len(frames) : frames[i] \in CbId
      /\ cur \in [{"engine", "loader"} -> [kind : {"none", "init", "job", "cb"}, id : Nat]]
  <2>1. /\ ncbs \in 0..MaxCbs /\ frames \in Seq(CbId) /\ fi \in 1..MAX_ONFRAME+1
        /\ Listed /\ Running
        /\ cur \in [{"engine", "loader"} -> [kind : {"none", "init", "job", "cb"}, id : Nat]]
    BY DEF FullInv, IInv, TypeOK
  <2>2. Len(frames) \in Nat /\ MaxCbs \in Nat /\ fi \in Nat \ {0}
    BY <2>1, LenProperties, BoundsAssumption DEF BoundsAssumption
  <2>3. \A i \in 1..Len(frames) : frames[i] \in CbId
    BY <2>1, Entry
  <2>4. QED
    BY <2>1, <2>2, <2>3
<1>1. CASE Quiet
  <2>1. UNCHANGED <<frames, ncbs, fi>>
        /\ (cur'["engine"].kind \in {"job", "cb"} => cur'["engine"] = cur["engine"])
    BY <1>1, QuietStep DEF cbVars, FullInv, IInv
  <2>2. QED
    BY <1>0, <2>1 DEF Listed
<1>2. CASE JobStart \/ JobReturn \/ DrainEnd
  <2>1. UNCHANGED <<frames, ncbs>> /\ cur'["engine"].kind # "cb"
    BY <1>0, <1>2 DEF JobStart, JobReturn, DrainEnd, cbVars, Idle
  <2>2. QED
    BY <1>0, <2>1 DEF Listed
<1>3. CASE CbStart
  <2>1. UNCHANGED <<frames, ncbs, fi>>
        /\ cur' = [cur EXCEPT !["engine"] = [kind |-> "cb", id |-> frames[fi]]]
    BY <1>3 DEF CbStart, spVars
  <2>2. cur'["engine"].id = frames[fi]
    BY <1>0, <2>1
  <2>3. QED
    BY <1>0, <2>1, <2>2 DEF Listed
<1>4. CASE CbReturn
  <2>1. UNCHANGED <<frames, ncbs>> /\ cur'["engine"].kind # "cb"
    BY <1>0, <1>4 DEF CbReturn, cbVars, Idle
  <2>2. QED
    BY <1>0, <2>1 DEF Listed
<1>5. CASE CbFault
  <2>1. /\ frames' = SubSeq([frames EXCEPT ![fi] = frames[Len(frames)]], 1, Len(frames) - 1)
        /\ ncbs' = ncbs /\ cur'["engine"].kind # "cb" /\ fi \in 1..Len(frames)
    BY <1>0, <1>5 DEF CbFault, Idle, Running
  <2>2. /\ Len(frames') = Len(frames) - 1
        /\ \A k \in 1..Len(frames) - 1 : frames'[k] = IF k = fi THEN frames[Len(frames)] ELSE frames[k]
    BY <1>0, <2>1, SwapEntries
  <2>3. \A i \in 1..Len(frames') : frames'[i] <= ncbs'
    BY <1>0, <2>1, <2>2 DEF Listed
  <2>4. \A i, k \in 1..Len(frames') : frames'[i] = frames'[k] => i = k
    BY SMTT(30), <1>0, <2>1, <2>2 DEF Listed
  <2>5. QED
    BY <2>1, <2>3, <2>4 DEF Listed
<1>6. ASSUME NEW t \in Thread, NEW lua \in BOOLEAN, Enqueue(t, lua) \/ EnqueueInline(t, lua) PROVE Listed'
  <2>1. UNCHANGED <<frames, ncbs, fi, cur>>
    BY <1>6 DEF Enqueue, EnqueueInline, cbVars, spVars
  <2>2. QED
    BY <1>0, <2>1 DEF Listed
<1>7. ASSUME NEW t \in Thread, NEW lua \in BOOLEAN, OnFrame(t, lua) PROVE Listed'
  <2>1. /\ ncbs' = ncbs + 1 /\ frames' = Append(frames, ncbs + 1) /\ ncbs + 1 \in CbId
        /\ UNCHANGED <<cur, fi>>
    BY <1>7 DEF OnFrame, spVars
  <2>2. /\ Len(frames') = Len(frames) + 1 /\ frames'[Len(frames) + 1] = ncbs + 1
        /\ \A i \in 1..Len(frames) : frames'[i] = frames[i]
    BY <1>0, <2>1, AppendEntries
  <2>3. \A i \in 1..Len(frames') : frames'[i] <= ncbs'
    BY <1>0, <2>1, <2>2 DEF Listed, CbId
  <2>4. \A i, k \in 1..Len(frames') : frames'[i] = frames'[k] => i = k
    <3>1. \A i \in 1..Len(frames) : frames'[i] # ncbs + 1
      BY <1>0, <2>1, <2>2 DEF Listed, CbId
    <3>2. QED
      BY <1>0, <2>2, <3>1 DEF Listed
  <2>5. cur'["engine"].kind = "cb" => cur'["engine"].id = frames'[fi']
    <3>1. cur["engine"].kind = "cb" => fi \in 1..Len(frames) /\ cur["engine"].id = frames[fi]
      BY <1>0 DEF Listed, Running
    <3>2. QED
      BY <2>1, <2>2, <3>1
  <2>6. QED
    BY <2>3, <2>4, <2>5 DEF Listed
<1>8. CASE UNCHANGED vars
  BY <1>0, <1>8 DEF Listed, vars, cbVars, spVars
<1>9. QED
  BY OtherSteps, <1>1, <1>2, <1>3, <1>4, <1>5, <1>6, <1>7, <1>8

\* run_onframe calls the entry at i and goes on to the next one, or, when the
\* callback is removed, to the entry that took its place.
LEMMA PassStep == FullInv /\ [Next]_vars => Pass'
<1> SUFFICES ASSUME FullInv, [Next]_vars, epc' = "frame"
             PROVE  /\ \A i \in 1..Len(frames') : cb'[frames'[i]].calls = IF Called(i)' THEN 1 ELSE 0
                    /\ \A c \in CbId : cb'[c].calls <= 1
  BY DEF Pass
<1>0. /\ frames \in Seq(CbId) /\ Len(frames) \in Nat /\ fi \in Nat \ {0}
      /\ Listed /\ Running /\ Pass /\ \A i \in 1..Len(frames) : frames[i] \in CbId
      /\ cb \in [CbId -> [ref : Ref \cup {0}, calls : Nat]]
      /\ cur \in [{"engine", "loader"} -> [kind : {"none", "init", "job", "cb"}, id : Nat]]
  <2>1. /\ frames \in Seq(CbId) /\ fi \in 1..MAX_ONFRAME+1
        /\ Listed /\ Running /\ Pass
        /\ cb \in [CbId -> [ref : Ref \cup {0}, calls : Nat]]
        /\ cur \in [{"engine", "loader"} -> [kind : {"none", "init", "job", "cb"}, id : Nat]]
    BY DEF FullInv, IInv, TypeOK
  <2>2. Len(frames) \in Nat /\ fi \in Nat \ {0}
    BY <2>1, LenProperties, BoundsAssumption DEF BoundsAssumption
  <2>3. \A i \in 1..Len(frames) : frames[i] \in CbId
    BY <2>1, Entry
  <2>4. QED
    BY <2>1, <2>2, <2>3
<1>1. CASE Quiet
  <2>1. /\ UNCHANGED <<frames, cb, fi>> /\ epc = "frame"
        /\ cur'["engine"].kind = "cb" <=> cur["engine"].kind = "cb"
    BY <1>1, QuietStep DEF cbVars, FullInv, IInv
  <2>2. QED
    BY <1>0, <2>1 DEF Pass, Called
<1>2. CASE JobStart \/ JobReturn
  <2>1. epc' = epc /\ epc = "drain"
    BY <1>0, <1>2 DEF JobStart, JobReturn, spVars, Running
  <2>2. QED
    BY <2>1
<1>3. CASE DrainEnd
  <2>1. /\ cb' = [c \in CbId |-> [cb[c] EXCEPT !.calls = 0]] /\ frames' = frames
        /\ fi' = 1 /\ cur'["engine"].kind = "none"
    BY <1>3 DEF DrainEnd, Idle
  <2>2. \A c \in CbId : cb'[c].calls = 0
    BY <1>0, <2>1
  <2>3. \A i \in 1..Len(frames') : ~Called(i)'
    BY <1>0, <2>1 DEF Called
  <2>4. QED
    BY <1>0, <2>1, <2>2, <2>3
<1>4. CASE CbStart
  <2>1. /\ cb' = [cb EXCEPT ![frames[fi]].calls = @ + 1] /\ frames' = frames
        /\ fi' = fi /\ epc = "frame" /\ fi \in 1..Len(frames)
        /\ cur'["engine"].kind = "cb" /\ cur["engine"].kind = "none"
    BY <1>0, <1>4 DEF CbStart, spVars, Idle
  <2>2. frames[fi] \in CbId /\ cb[frames[fi]].calls = 0
    BY <1>0, <2>1 DEF Pass, Called
  <2>3. \A c \in CbId : cb'[c].calls = IF c = frames[fi] THEN 1 ELSE cb[c].calls
    BY <1>0, <2>1, <2>2
  <2>4. \A i \in 1..Len(frames) : frames[i] = frames[fi] <=> i = fi
    BY <1>0, <2>1 DEF Listed
  <2>5. \A i \in 1..Len(frames) : Called(i)' <=> Called(i) \/ i = fi
    BY <1>0, <2>1 DEF Called
  <2>6. \A i \in 1..Len(frames) : cb'[frames[i]].calls = IF Called(i)' THEN 1 ELSE 0
    BY <1>0, <2>1, <2>3, <2>4, <2>5 DEF Pass
  <2>7. \A c \in CbId : cb'[c].calls <= 1
    BY <1>0, <2>1, <2>3 DEF Pass
  <2>8. QED
    BY <2>1, <2>6, <2>7
<1>5. CASE CbReturn
  <2>1. /\ UNCHANGED <<frames, cb>> /\ fi' = fi + 1 /\ epc = "frame"
        /\ cur'["engine"].kind = "none" /\ cur["engine"].kind = "cb"
    BY <1>0, <1>5 DEF CbReturn, cbVars, Idle, Running
  <2>2. \A i \in 1..Len(frames) : Called(i)' <=> Called(i)
    BY <1>0, <2>1 DEF Called
  <2>3. QED
    BY <1>0, <2>1, <2>2 DEF Pass
<1>6. CASE CbFault
  <2>1. /\ frames' = SubSeq([frames EXCEPT ![fi] = frames[Len(frames)]], 1, Len(frames) - 1)
        /\ cb' = cb /\ fi' = fi /\ fi \in 1..Len(frames) /\ epc = "frame"
        /\ cur'["engine"].kind = "none" /\ cur["engine"].kind = "cb"
    BY <1>0, <1>6 DEF CbFault, spVars, Idle, Running
  <2>2. /\ Len(frames') = Len(frames) - 1
        /\ \A k \in 1..Len(frames) - 1 : frames'[k] = IF k = fi THEN frames[Len(frames)] ELSE frames[k]
    BY <1>0, <2>1, SwapEntries
  <2>3. ASSUME NEW i \in 1..Len(frames') PROVE cb'[frames'[i]].calls = IF Called(i)' THEN 1 ELSE 0
    <3>1. i \in 1..Len(frames) /\ Len(frames) \in 1..Len(frames) /\ i # Len(frames)
      BY <1>0, <2>2
    <3>2. CASE i = fi
      <4>1. frames'[i] = frames[Len(frames)] /\ ~Called(Len(frames)) /\ ~Called(i)'
        BY <1>0, <2>1, <2>2, <3>1, <3>2 DEF Called
      <4>2. QED
        BY <1>0, <2>1, <3>1, <4>1 DEF Pass
    <3>3. CASE i # fi
      <4>1. frames'[i] = frames[i] /\ (Called(i)' <=> Called(i))
        BY <1>0, <2>1, <2>2, <3>1, <3>3 DEF Called
      <4>2. QED
        BY <1>0, <2>1, <3>1, <4>1 DEF Pass
    <3>4. QED
      BY <3>2, <3>3
  <2>4. QED
    BY <1>0, <2>1, <2>3 DEF Pass
<1>7. ASSUME NEW t \in Thread, NEW lua \in BOOLEAN, Enqueue(t, lua) \/ EnqueueInline(t, lua)
      PROVE  /\ \A i \in 1..Len(frames') : cb'[frames'[i]].calls = IF Called(i)' THEN 1 ELSE 0
             /\ \A c \in CbId : cb'[c].calls <= 1
  <2>1. UNCHANGED <<frames, cb, fi, cur, epc>>
    BY <1>7 DEF Enqueue, EnqueueInline, cbVars, spVars
  <2>2. QED
    BY <1>0, <2>1 DEF Pass, Called
<1>8. ASSUME NEW t \in Thread, NEW lua \in BOOLEAN, OnFrame(t, lua)
      PROVE  /\ \A i \in 1..Len(frames') : cb'[frames'[i]].calls = IF Called(i)' THEN 1 ELSE 0
             /\ \A c \in CbId : cb'[c].calls <= 1
  <2>1. /\ frames' = Append(frames, ncbs + 1) /\ ncbs + 1 \in CbId
        /\ cb' = [cb EXCEPT ![ncbs + 1] = [ref |-> NewRef(lua), calls |-> 0]]
        /\ UNCHANGED <<cur, fi, epc>>
    BY <1>8 DEF OnFrame, spVars
  <2>2. /\ Len(frames') = Len(frames) + 1 /\ frames'[Len(frames) + 1] = ncbs + 1
        /\ \A i \in 1..Len(frames) : frames'[i] = frames[i]
    BY <1>0, <2>1, AppendEntries
  <2>3. \A c \in CbId : cb'[c].calls = IF c = ncbs + 1 THEN 0 ELSE cb[c].calls
    BY <1>0, <2>1
  <2>4. \A i \in 1..Len(frames) : frames[i] # ncbs + 1
    <3>1. ncbs \in Nat /\ \A i \in 1..Len(frames) : frames[i] <= ncbs
      BY <1>0, BoundsAssumption DEF Listed, FullInv, IInv, TypeOK, BoundsAssumption
    <3>2. QED
      BY <1>0, <3>1 DEF CbId
  <2>5. cur["engine"].kind = "cb" /\ fi <= Len(frames)
    <3>1. t \in {"engine", "loader"} /\ Calls(t)
      BY <1>8 DEF OnFrame, Thread
    <3>2. inited /\ lpc = "reported"
      BY <2>1 DEF FullInv, IInv, Control, TypeOK
    <3>3. cur["loader"] = Idle
      BY <1>0, <3>2 DEF Running
    <3>4. cur["engine"] # Idle
      BY <2>1, <3>1, <3>3 DEF Calls
    <3>5. QED
      BY <1>0, <2>1, <3>4 DEF Running
  <2>6. \A i \in 1..Len(frames) : Called(i)' <=> Called(i)
    BY <2>1 DEF Called
  <2>7. \A i \in Nat : i = Len(frames) + 1 => ~Called(i)'
    BY <1>0, <2>1, <2>5 DEF Called
  <2>8. \A i \in 1..Len(frames') : cb'[frames'[i]].calls = IF Called(i)' THEN 1 ELSE 0
    <3> SUFFICES ASSUME NEW i \in 1..Len(frames')
                 PROVE  cb'[frames'[i]].calls = IF Called(i)' THEN 1 ELSE 0
      OBVIOUS
    <3>1. CASE i \in 1..Len(frames)
      <4>1. frames[i] \in CbId /\ frames[i] # ncbs + 1 /\ frames'[i] = frames[i]
        BY <1>0, <2>2, <2>4, <3>1
      <4>2. cb'[frames'[i]].calls = cb[frames[i]].calls
        BY <2>3, <4>1
      <4>3. cb[frames[i]].calls = IF Called(i) THEN 1 ELSE 0
        BY <1>0, <2>1, <3>1 DEF Pass
      <4>4. QED
        BY <2>6, <3>1, <4>2, <4>3
    <3>2. CASE i = Len(frames) + 1
      BY <1>0, <2>1, <2>2, <2>3, <2>7, <3>2
    <3>3. QED
      BY <1>0, <2>2, <3>1, <3>2
  <2>9. \A c \in CbId : cb'[c].calls <= 1
    BY <1>0, <2>1, <2>3 DEF Pass
  <2>10. QED
    BY <2>8, <2>9
<1>9. CASE UNCHANGED vars
  BY <1>0, <1>9 DEF Pass, Called, vars, cbVars, spVars
<1>10. QED
  BY OtherSteps, <1>1, <1>2, <1>3, <1>4, <1>5, <1>6, <1>7, <1>8, <1>9

\* The parts of a state that the ownership of references depends on.
LEMMA OwnedTypes ==
    ASSUME FullInv
    PROVE  /\ frames \in Seq(CbId) /\ Len(frames) \in Nat /\ fi \in Nat \ {0}
           /\ \A i \in 1..Len(frames) : frames[i] \in CbId
           /\ cb \in [CbId -> [ref : Ref \cup {0}, calls : Nat]]
           /\ job \in [JobId -> [fate : {"none", "waiting", "running", "ran", "dropped", "inline"},
                                 ref : Ref \cup {0}]]
           /\ njobs \in Nat /\ ncbs \in Nat /\ refs \subseteq Ref /\ Ref \subseteq Nat \ {0}
           /\ Fates /\ Listed /\ Running /\ Owned
<1>1. /\ frames \in Seq(CbId) /\ fi \in 1..MAX_ONFRAME+1
      /\ cb \in [CbId -> [ref : Ref \cup {0}, calls : Nat]]
      /\ job \in [JobId -> [fate : {"none", "waiting", "running", "ran", "dropped", "inline"},
                            ref : Ref \cup {0}]]
      /\ njobs \in 0..MaxJobs /\ ncbs \in 0..MaxCbs /\ refs \subseteq Ref
      /\ Fates /\ Listed /\ Running /\ Owned
  BY DEF FullInv, IInv, TypeOK
<1>2. Len(frames) \in Nat /\ fi \in Nat \ {0} /\ njobs \in Nat /\ ncbs \in Nat /\ Ref \subseteq Nat \ {0}
  BY <1>1, LenProperties, BoundsAssumption DEF BoundsAssumption, Ref
<1>3. \A i \in 1..Len(frames) : frames[i] \in CbId
  BY <1>1, Entry
<1>4. QED
  BY <1>1, <1>2, <1>3

\* A step after which the same jobs and callbacks hold the same references.
LEMMA SameHolders ==
    ASSUME Owned, frames' = frames, refs' = refs,
           \A j \in JobId : (Holding(j)' <=> Holding(j)) /\ (Holding(j) => job'[j].ref = job[j].ref),
           \A i \in 1..Len(frames) : cb'[frames[i]].ref = cb[frames[i]].ref
    PROVE  Owned'
BY DEF Owned

\* A job's reference goes when it has run, a callback's when it is removed; a
\* dropped job's stays.
LEMMA OwnedStep == FullInv /\ [Next]_vars => Owned'
<1> SUFFICES ASSUME FullInv, [Next]_vars PROVE Owned'
  OBVIOUS
<1>0. /\ frames \in Seq(CbId) /\ Len(frames) \in Nat /\ fi \in Nat \ {0}
      /\ \A i \in 1..Len(frames) : frames[i] \in CbId
      /\ cb \in [CbId -> [ref : Ref \cup {0}, calls : Nat]]
      /\ job \in [JobId -> [fate : {"none", "waiting", "running", "ran", "dropped", "inline"},
                            ref : Ref \cup {0}]]
      /\ njobs \in Nat /\ ncbs \in Nat /\ refs \subseteq Ref /\ Ref \subseteq Nat \ {0}
      /\ Fates /\ Listed /\ Running /\ Owned
  BY OwnedTypes
<1>1. CASE Quiet
  <2>1. UNCHANGED <<frames, cb, job, refs>>
    BY <1>1, QuietStep DEF cbVars, jobVars, FullInv, IInv
  <2>2. QED
    BY <1>0, <2>1 DEF Owned, Holding
<1>2. CASE CbStart \/ CbReturn \/ DrainEnd
  <2>1. UNCHANGED <<frames, job, refs>>
    BY <1>2 DEF CbStart, CbReturn, DrainEnd, cbVars, jobVars
  <2>2. \A c \in CbId : cb'[c].ref = cb[c].ref
    <3>1. CASE CbStart
      <4>1. cb' = [cb EXCEPT ![frames[fi]].calls = @ + 1]
        BY <3>1 DEF CbStart
      <4>2. QED
        BY <1>0, <4>1
    <3>2. CASE CbReturn
      BY <3>2 DEF CbReturn, cbVars
    <3>3. CASE DrainEnd
      <4>1. cb' = [c \in CbId |-> [cb[c] EXCEPT !.calls = 0]]
        BY <3>3 DEF DrainEnd
      <4>2. QED
        BY <1>0, <4>1
    <3>4. QED
      BY <1>2, <3>1, <3>2, <3>3
  <2>3. \A j \in JobId : Holding(j)' <=> Holding(j)
    BY <2>1 DEF Holding
  <2>4. QED
    BY <1>0, <2>1, <2>2, <2>3, SameHolders
<1>3. CASE JobStart
  <2>1. /\ UNCHANGED <<frames, cb, refs>> /\ queue # <<>> /\ queue \in Seq(JobId)
        /\ job' = [job EXCEPT ![Head(queue)].fate = "running"]
    BY <1>3 DEF JobStart, cbVars, FullInv, IInv, TypeOK
  <2>2. Head(queue) \in JobId /\ Len(queue) \in Nat /\ Len(queue) > 0 /\ Head(queue) = queue[1]
    BY <2>1, HeadAndTail, TailEntries
  <2>3. Head(queue) = njobs - Len(queue) + 1
    BY <1>0, <2>2 DEF Fates
  <2>4. job[Head(queue)].fate = "waiting"
    <3>1. njobs - Len(queue) < Head(queue) /\ Head(queue) <= njobs
      BY <1>0, <2>2, <2>3 DEF Fates
    <3>2. QED
      BY <1>0, <2>2, <3>1 DEF Fates
  <2>5. \A j \in JobId : job'[j].ref = job[j].ref
                         /\ job'[j].fate = IF j = Head(queue) THEN "running" ELSE job[j].fate
    BY <1>0, <2>1, <2>2
  <2>6. \A j \in JobId : Holding(j)' <=> Holding(j)
    BY <2>4, <2>5 DEF Holding
  <2>7. QED
    BY <1>0, <2>1, <2>5, <2>6, SameHolders
<1>4. CASE JobReturn
  <2> DEFINE id == cur["engine"].id
  <2>1. /\ UNCHANGED <<frames, cb>> /\ cur["engine"].kind = "job"
        /\ job' = [job EXCEPT ![id].fate = "ran"] /\ refs' = refs \ {job[id].ref}
    BY <1>4 DEF JobReturn, cbVars
  <2>2. id \in JobId /\ Holding(id)
    BY <1>0, <2>1 DEF Fates, Holding
  <2>3. \A j \in JobId : /\ job'[j].ref = job[j].ref
                         /\ Holding(j)' <=> Holding(j) /\ j # id
    <3>1. \A j \in JobId : /\ job'[j].ref = job[j].ref
                           /\ job'[j].fate = IF j = id THEN "ran" ELSE job[j].fate
      BY <1>0, <2>1, <2>2
    <3>2. QED
      BY <3>1 DEF Holding
  <2> HIDE DEF id
  <2>4. QED
    BY <1>0, <2>1, <2>2, <2>3 DEF Owned
<1>5. CASE CbFault
  <2> DEFINE id == cur["engine"].id
  <2>1. /\ frames' = SubSeq([frames EXCEPT ![fi] = frames[Len(frames)]], 1, Len(frames) - 1)
        /\ UNCHANGED <<job, cb>> /\ refs' = refs \ {cb[id].ref}
        /\ fi \in 1..Len(frames) /\ id = frames[fi]
    BY <1>0, <1>5 DEF CbFault, jobVars, Running, Listed
  <2>2. /\ Len(frames') = Len(frames) - 1
        /\ \A k \in 1..Len(frames) - 1 : frames'[k] = IF k = fi THEN frames[Len(frames)] ELSE frames[k]
    BY <1>0, <2>1, SwapEntries
  <2>3. \A j \in JobId : Holding(j)' <=> Holding(j)
    BY <2>1 DEF Holding
  <2> HIDE DEF id
  <2> DEFINE old(k) == IF k = fi THEN Len(frames) ELSE k
  <2>4. \A k \in 1..Len(frames') : /\ old(k) \in 1..Len(frames) /\ old(k) # fi
                                   /\ frames'[k] = frames[old(k)]
    BY SMTT(30), <1>0, <2>1, <2>2
  <2>5. \A k, l \in 1..Len(frames') : old(k) = old(l) => k = l
    BY <1>0, <2>1, <2>2
  <2>6. \A i \in 1..Len(frames) : i # fi => \E k \in 1..Len(frames') : old(k) = i
    <3> SUFFICES ASSUME NEW i \in 1..Len(frames), i # fi PROVE \E k \in 1..Len(frames') : old(k) = i
      OBVIOUS
    <3>1. CASE i = Len(frames)
      <4>1. fi \in 1..Len(frames') /\ old(fi) = i
        BY <1>0, <2>1, <2>2, <3>1
      <4>2. QED
        BY <4>1
    <3>2. CASE i # Len(frames)
      <4>1. i \in 1..Len(frames') /\ old(i) = i
        BY <1>0, <2>1, <2>2, <3>2
      <4>2. QED
        BY <4>1
    <3>3. QED
      BY <3>1, <3>2
  <2> HIDE DEF old
  <2>7. \A k \in 1..Len(frames') : /\ old(k) \in 1..Len(frames) /\ old(k) # fi
                                   /\ cb'[frames'[k]].ref = cb[frames[old(k)]].ref
    BY <2>1, <2>4
  <2>8. \A i \in 1..Len(frames) : i # fi /\ cb[frames[i]].ref # 0 => cb[frames[i]].ref \in refs'
    BY <1>0, <2>1 DEF Owned
  <2>9. \A r \in refs' : \/ \E j \in JobId : Holding(j)' /\ job'[j].ref = r
                         \/ \E i \in 1..Len(frames') : cb'[frames'[i]].ref = r
    <3> SUFFICES ASSUME NEW r \in refs', ~\E j \in JobId : Holding(j)' /\ job'[j].ref = r
                 PROVE  \E i \in 1..Len(frames') : cb'[frames'[i]].ref = r
      OBVIOUS
    <3>1. r \in refs /\ r # cb[frames[fi]].ref
      BY <2>1
    <3>2. ~\E j \in JobId : Holding(j) /\ job[j].ref = r
      BY <2>1, <2>3
    <3>3. PICK i \in 1..Len(frames) : cb[frames[i]].ref = r
      BY <1>0, <3>1, <3>2 DEF Owned
    <3>4. PICK k \in 1..Len(frames') : old(k) = i
      BY <2>6, <3>1, <3>3
    <3>5. QED
      BY <2>7, <3>3, <3>4
  <2>10. \A j \in JobId : Holding(j)' /\ job'[j].ref # 0 => job'[j].ref \in refs'
    BY <1>0, <2>1, <2>3 DEF Owned
  <2>11. \A i \in 1..Len(frames') : cb'[frames'[i]].ref # 0 => cb'[frames'[i]].ref \in refs'
    BY <2>7, <2>8
  <2>12. \A i, k \in 1..Len(frames') :
            cb'[frames'[i]].ref = cb'[frames'[k]].ref /\ cb'[frames'[i]].ref # 0 => i = k
    <3>1. \A i, k \in 1..Len(frames) : cb[frames[i]].ref = cb[frames[k]].ref /\ cb[frames[i]].ref # 0 => i = k
      BY <1>0 DEF Owned
    <3>2. QED
      BY <2>5, <2>7, <3>1
  <2>13. \A j \in JobId, i \in 1..Len(frames') :
            Holding(j)' /\ job'[j].ref # 0 => job'[j].ref # cb'[frames'[i]].ref
    <3>1. \A j \in JobId, i \in 1..Len(frames) :
             Holding(j) /\ job[j].ref # 0 => job[j].ref # cb[frames[i]].ref
      BY <1>0 DEF Owned
    <3>2. QED
      BY <2>1, <2>3, <2>7, <3>1
  <2>14. \A j, k \in JobId : Holding(j)' /\ Holding(k)' /\ job'[j].ref = job'[k].ref /\ job'[j].ref # 0 => j = k
    BY <1>0, <2>1, <2>3 DEF Owned
  <2>15. QED
    BY <2>9, <2>10, <2>11, <2>12, <2>13, <2>14 DEF Owned
<1>6. ASSUME NEW t \in Thread, NEW lua \in BOOLEAN, Enqueue(t, lua) PROVE Owned'
  <2> DEFINE id == njobs + 1
             dropped == IF Len(queue) < QueueLimit THEN {} ELSE {Head(queue)}
  <2>1. /\ id \in JobId /\ UNCHANGED <<frames, cb>> /\ refs' = refs \cup ({NewRef(lua)} \ {0}) /\ HasRef(lua)
        /\ job' = [j \in JobId |->
             CASE j = id -> [fate |-> "waiting", ref |-> NewRef(lua)]
               [] j \in dropped -> [job[j] EXCEPT !.fate = "dropped"]
               [] OTHER -> job[j]]
    BY <1>6 DEF Enqueue, cbVars
  <2>2. \A j \in dropped : job[j].fate = "waiting" /\ j # id
    <3> SUFFICES ASSUME ~(Len(queue) < QueueLimit)
                 PROVE  job[Head(queue)].fate = "waiting" /\ Head(queue) # id
      OBVIOUS
    <3>1. queue \in Seq(JobId) /\ Len(queue) <= QueueLimit /\ QueueLimit \in Nat \ {0}
      BY BoundsAssumption DEF FullInv, IInv, TypeOK, BoundsAssumption
    <3>2. queue # <<>>
      BY <3>1, EmptySeq
    <3>3. Head(queue) \in JobId /\ Len(queue) \in Nat /\ Len(queue) > 0 /\ Head(queue) = queue[1]
      BY <3>1, <3>2, HeadAndTail, TailEntries
    <3>4. Head(queue) = njobs - Len(queue) + 1
      BY <1>0, <3>3 DEF Fates
    <3>5. njobs - Len(queue) < Head(queue) /\ Head(queue) <= njobs
      BY <1>0, <3>3, <3>4 DEF Fates
    <3>6. job[Head(queue)].fate = "waiting"
      BY <1>0, <3>3, <3>5 DEF Fates
    <3>7. QED
      BY <1>0, <3>3, <3>5, <3>6
  <2>3. ~Holding(id)
    BY <1>0, <2>1 DEF Fates, Holding
  <2>4. \A j \in JobId : j = id => Holding(j)' /\ job'[j].ref = NewRef(lua)
    <3>1. id \notin dropped /\ job'[id] = [fate |-> "waiting", ref |-> NewRef(lua)]
      BY <2>1, <2>2
    <3>2. QED
      BY <3>1 DEF Holding
  <2>5. \A j \in JobId : j # id => job'[j].ref = job[j].ref /\ (Holding(j)' <=> Holding(j))
    <3> SUFFICES ASSUME NEW j \in JobId, j # id
                 PROVE  job'[j].ref = job[j].ref /\ (Holding(j)' <=> Holding(j))
      OBVIOUS
    <3>1. job[j] \in [fate : {"none", "waiting", "running", "ran", "dropped", "inline"}, ref : Ref \cup {0}]
      BY <1>0
    <3>2. CASE j \in dropped
      <4>1. job'[j] = [job[j] EXCEPT !.fate = "dropped"] /\ job[j].fate = "waiting"
        BY <2>1, <2>2, <3>2
      <4>2. job'[j].fate = "dropped" /\ job'[j].ref = job[j].ref
        BY <3>1, <4>1
      <4>3. QED
        BY <4>1, <4>2 DEF Holding
    <3>3. CASE j \notin dropped
      <4>1. job'[j] = job[j]
        BY <2>1, <3>3
      <4>2. QED
        BY <4>1 DEF Holding
    <3>4. QED
      BY <3>2, <3>3
  <2>6. NewRef(lua) \in Ref \cup {0} /\ NewRef(lua) \notin refs \ {0}
    BY <2>1, NewRefFresh
  <2> HIDE DEF id, dropped
  <2>7. \A r \in refs' : \/ \E j \in JobId : Holding(j)' /\ job'[j].ref = r
                         \/ \E i \in 1..Len(frames') : cb'[frames'[i]].ref = r
    <3> SUFFICES ASSUME NEW r \in refs'
                 PROVE  \/ \E j \in JobId : Holding(j)' /\ job'[j].ref = r
                        \/ \E i \in 1..Len(frames') : cb'[frames'[i]].ref = r
      OBVIOUS
    <3>1. CASE r = NewRef(lua)
      BY <2>1, <2>4, <3>1
    <3>2. CASE r \in refs
      <4>1. \/ \E j \in JobId : Holding(j) /\ job[j].ref = r
            \/ \E i \in 1..Len(frames) : cb[frames[i]].ref = r
        BY <1>0, <3>2 DEF Owned
      <4>2. QED
        BY <2>1, <2>3, <2>5, <4>1
    <3>3. QED
      BY <2>1, <3>1, <3>2
  <2>8. \A j \in JobId : Holding(j)' /\ job'[j].ref # 0 => job'[j].ref \in refs'
    BY <1>0, <2>1, <2>4, <2>5 DEF Owned
  <2>9. \A i \in 1..Len(frames') : cb'[frames'[i]].ref # 0 => cb'[frames'[i]].ref \in refs'
    BY <1>0, <2>1 DEF Owned
  <2>10. \A j, k \in JobId : Holding(j)' /\ Holding(k)' /\ job'[j].ref = job'[k].ref /\ job'[j].ref # 0 => j = k
    <3>1. \A j \in JobId : j # id /\ Holding(j)' /\ job'[j].ref # 0 => job'[j].ref \in refs /\ job'[j].ref # NewRef(lua)
      BY <1>0, <2>5, <2>6 DEF Owned
    <3>2. QED
      BY <1>0, <2>1, <2>4, <2>5, <3>1 DEF Owned
  <2>11. \A i, k \in 1..Len(frames') :
            cb'[frames'[i]].ref = cb'[frames'[k]].ref /\ cb'[frames'[i]].ref # 0 => i = k
    BY <1>0, <2>1 DEF Owned
  <2>12. \A j \in JobId, i \in 1..Len(frames') :
            Holding(j)' /\ job'[j].ref # 0 => job'[j].ref # cb'[frames'[i]].ref
    BY <1>0, <2>1, <2>4, <2>5, <2>6 DEF Owned
  <2>13. QED
    BY <2>7, <2>8, <2>9, <2>10, <2>11, <2>12 DEF Owned
<1>7. ASSUME NEW t \in Thread, NEW lua \in BOOLEAN, EnqueueInline(t, lua) PROVE Owned'
  <2> DEFINE id == njobs + 1
  <2>1. /\ id \in JobId /\ UNCHANGED <<frames, cb, refs>>
        /\ job' = [job EXCEPT ![id] = [NoJob EXCEPT !.fate = "inline"]]
    BY <1>7 DEF EnqueueInline, cbVars
  <2>2. ~Holding(id)
    BY <1>0, <2>1 DEF Fates, Holding
  <2>3. \A j \in JobId : /\ j # id => job'[j] = job[j]
                         /\ j = id => job'[j].fate = "inline"
    BY <1>0, <2>1 DEF NoJob
  <2>4. \A j \in JobId : (Holding(j)' <=> Holding(j)) /\ (Holding(j) => job'[j].ref = job[j].ref)
    BY <2>2, <2>3 DEF Holding
  <2>5. QED
    BY <1>0, <2>1, <2>4, SameHolders
<1>8. ASSUME NEW t \in Thread, NEW lua \in BOOLEAN, OnFrame(t, lua) PROVE Owned'
  <2> DEFINE id == ncbs + 1
  <2>1. /\ id \in CbId /\ job' = job /\ refs' = refs \cup ({NewRef(lua)} \ {0}) /\ HasRef(lua)
        /\ frames' = Append(frames, id)
        /\ cb' = [cb EXCEPT ![id] = [ref |-> NewRef(lua), calls |-> 0]]
    BY <1>8 DEF OnFrame, jobVars
  <2>2. /\ Len(frames') = Len(frames) + 1 /\ frames'[Len(frames) + 1] = id
        /\ \A i \in 1..Len(frames) : frames'[i] = frames[i]
    <3> HIDE DEF id
    <3>1. QED
      BY <1>0, <2>1, AppendEntries
  <2>3. \A j \in JobId : Holding(j)' <=> Holding(j)
    BY <2>1 DEF Holding
  <2>4. \A i \in 1..Len(frames) : frames[i] # id
    BY <1>0 DEF Listed, CbId
  <2>5. \A i \in 1..Len(frames) : cb'[frames'[i]].ref = cb[frames[i]].ref
    BY <1>0, <2>1, <2>2, <2>4
  <2>6. cb'[frames'[Len(frames) + 1]].ref = NewRef(lua)
    BY <1>0, <2>1, <2>2
  <2>7. NewRef(lua) \in Ref \cup {0} /\ NewRef(lua) \notin refs \ {0}
    BY <2>1, NewRefFresh
  <2> DEFINE n == Len(frames) + 1
  <2>8. 1..Len(frames') = 1..Len(frames) \cup {n} /\ n \notin 1..Len(frames)
    BY <1>0, <2>2
  <2>9. cb'[frames'[n]].ref = NewRef(lua)
    BY <2>6
  <2> HIDE DEF id, n
  <2>10. \A r \in refs' : \/ \E j \in JobId : Holding(j)' /\ job'[j].ref = r
                          \/ \E i \in 1..Len(frames') : cb'[frames'[i]].ref = r
    BY <1>0, <2>1, <2>3, <2>5, <2>8, <2>9 DEF Owned
  <2>11. \A j \in JobId : Holding(j)' /\ job'[j].ref # 0 => job'[j].ref \in refs'
    BY <1>0, <2>1, <2>3 DEF Owned
  <2>12. \A i \in 1..Len(frames') : cb'[frames'[i]].ref # 0 => cb'[frames'[i]].ref \in refs'
    BY <1>0, <2>1, <2>5, <2>8, <2>9 DEF Owned
  <2>13. \A j, k \in JobId : Holding(j)' /\ Holding(k)' /\ job'[j].ref = job'[k].ref /\ job'[j].ref # 0 => j = k
    BY <1>0, <2>1, <2>3 DEF Owned
  <2>14. \A i, k \in 1..Len(frames') :
            cb'[frames'[i]].ref = cb'[frames'[k]].ref /\ cb'[frames'[i]].ref # 0 => i = k
    <3>1. \A i \in 1..Len(frames) : cb'[frames'[i]].ref # 0 => cb'[frames'[i]].ref # NewRef(lua)
      <4>1. \A i \in 1..Len(frames) : cb[frames[i]].ref # 0 => cb[frames[i]].ref \in refs
        BY <1>0 DEF Owned
      <4>2. QED
        BY <2>5, <2>7, <4>1
    <3>2. QED
      BY <1>0, <2>5, <2>8, <2>9, <3>1 DEF Owned
  <2>15. \A j \in JobId, i \in 1..Len(frames') :
            Holding(j)' /\ job'[j].ref # 0 => job'[j].ref # cb'[frames'[i]].ref
    BY <1>0, <2>1, <2>3, <2>5, <2>7, <2>8, <2>9 DEF Owned
  <2>16. QED
    BY <2>10, <2>11, <2>12, <2>13, <2>14, <2>15 DEF Owned
<1>9. CASE UNCHANGED vars
  BY <1>0, <1>9 DEF Owned, Holding, vars, cbVars, jobVars
<1>10. QED
  BY OtherSteps, <1>1, <1>2, <1>3, <1>4, <1>5, <1>6, <1>7, <1>8, <1>9

\* Nothing has been handed over yet.
LEMMA InitFull == Init => FullInv
<1> SUFFICES ASSUME Init PROVE FullInv
  OBVIOUS
<1>1. IInv
  BY InitIInv
<1>2. Len(queue) = 0 /\ Len(frames) = 0 /\ queue = <<>>
  BY EmptySeq DEF Init
<1>3. Fates
  BY <1>2 DEF Init, Fates, NoJob, Idle, JobId
<1>4. Listed /\ Pass
  BY <1>2 DEF Init, Listed, Pass, Idle
<1>5. Owned
  BY <1>2 DEF Init, Owned, Holding, NoJob
<1>6. QED
  BY <1>1, <1>3, <1>4, <1>5 DEF FullInv

\* The job queue, the callback list and the references they hold stay in step.
THEOREM FullInductive == Spec => []FullInv
<1>1. FullInv /\ [Next]_vars => FullInv'
  BY TypeStep, ControlStep, RunningStep, InitialisingStep, InlineStep,
     FatesStep, ListedStep, PassStep, OwnedStep DEF FullInv, IInv
<1>2. QED
  BY InitFull, <1>1, PTL DEF Spec

\* Jobs start in the order they were handed over, and a job is dropped only when
\* QueueLimit newer ones are behind it.
THEOREM JobOrderHolds == Spec => []JobOrder
<1>1. FullInv => JobOrder
  <2> SUFFICES ASSUME FullInv PROVE JobOrder
    OBVIOUS
  <2>1. /\ queue \in Seq(JobId) /\ Len(queue) \in Nat /\ njobs \in Nat /\ MaxJobs \in Nat /\ Fates
    BY LenProperties, BoundsAssumption DEF FullInv, IInv, TypeOK, BoundsAssumption
  <2>2. DOMAIN queue = 1..Len(queue) /\ \A i \in 1..Len(queue) : queue[i] \in JobId
    BY <2>1, LenProperties, Entry
  <2>3. \A i \in 1..Len(queue) : queue[i] = njobs - Len(queue) + i
    BY <2>1 DEF Fates
  <2>4. \A i, k \in DOMAIN queue : i < k => queue[i] < queue[k]
    BY <2>1, <2>2, <2>3
  <2>5. \A j \in JobId : job[j].fate = "waiting" <=> njobs - Len(queue) < j /\ j <= njobs
    BY <2>1 DEF Fates
  <2>6. {queue[i] : i \in DOMAIN queue} = {j \in JobId : job[j].fate = "waiting"}
    <3>1. ASSUME NEW i \in DOMAIN queue PROVE queue[i] \in JobId /\ job[queue[i]].fate = "waiting"
      <4>1. i \in 1..Len(queue) /\ queue[i] = njobs - Len(queue) + i /\ queue[i] \in JobId
        BY <2>2, <2>3
      <4>2. njobs - Len(queue) < queue[i] /\ queue[i] <= njobs
        BY <2>1, <4>1
      <4>3. QED
        BY <2>5, <4>1, <4>2
    <3>2. ASSUME NEW j \in JobId, job[j].fate = "waiting" PROVE \E i \in DOMAIN queue : queue[i] = j
      <4>1. njobs - Len(queue) < j /\ j <= njobs /\ j \in Nat
        BY <2>1, <2>5, <3>2 DEF JobId
      <4>2. j - (njobs - Len(queue)) \in 1..Len(queue)
        BY <2>1, <4>1
      <4>3. queue[j - (njobs - Len(queue))] = j
        BY <2>1, <2>3, <4>1, <4>2
      <4>4. QED
        BY <2>2, <4>2, <4>3
    <3>3. QED
      BY <3>1, <3>2
  <2>7. ASSUME NEW j \in JobId, NEW k \in JobId,
               job[j].fate = "waiting", job[k].fate \in {"running", "ran"}
        PROVE  k < j
    <3>1. k <= njobs /\ ~(njobs - Len(queue) < k /\ k <= njobs)
      BY <2>1, <2>5, <2>7 DEF Fates
    <3>2. njobs - Len(queue) < j
      BY <2>5, <2>7
    <3>3. j \in Nat /\ k \in Nat
      BY <2>1 DEF JobId
    <3>4. QED
      BY <2>1, <3>1, <3>2, <3>3
  <2>8. \A j \in JobId : job[j].fate = "dropped" => j + QueueLimit <= njobs
    BY <2>1 DEF Fates
  <2>9. QED
    BY <2>4, <2>6, <2>7, <2>8 DEF JobOrder
<1>2. QED
  BY FullInductive, <1>1, PTL

\* No job or callback ever names a released reference, no two share one, and a
\* live one has a holder.
THEOREM RefsOwnedHolds == Spec => []RefsOwned
<1>1. FullInv => RefsOwned
  <2> SUFFICES ASSUME FullInv, NEW r \in Ref
               PROVE  IF r \in refs THEN \E h \in Holders(r) : Holders(r) = {h} ELSE Holders(r) = {}
    BY DEF RefsOwned
  <2>1. /\ frames \in Seq(CbId) /\ Owned /\ r # 0
    BY OwnedTypes
  <2>2. DOMAIN frames = 1..Len(frames)
    BY <2>1, LenProperties
  <2> DEFINE J == {j \in JobId : Holding(j) /\ job[j].ref = r}
             F == {i \in 1..Len(frames) : cb[frames[i]].ref = r}
  <2>3. Holders(r) = {<<"job", j>> : j \in J} \cup {<<"cb", frames[i]>> : i \in F}
    BY <2>2 DEF Holders, Holding
  <2>4. \A j, k \in J : j = k
    BY <2>1 DEF Owned
  <2>5. \A i, k \in F : i = k
    BY <2>1 DEF Owned
  <2>6. J = {} \/ F = {}
    BY <2>1 DEF Owned
  <2>7. r \in refs <=> J # {} \/ F # {}
    BY <2>1 DEF Owned
  <2> HIDE DEF J, F
  <2>8. CASE r \notin refs
    BY <2>3, <2>7, <2>8
  <2>9. CASE r \in refs /\ J # {}
    <3>1. PICK j \in J : TRUE
      BY <2>9
    <3>2. J = {j} /\ F = {}
      BY <2>4, <2>6, <2>9, <3>1
    <3>3. Holders(r) = {<<"job", j>>}
      BY <2>3, <3>2
    <3>4. QED
      BY <2>9, <3>3
  <2>10. CASE r \in refs /\ F # {}
    <3>1. PICK i \in F : TRUE
      BY <2>10
    <3>2. F = {i} /\ J = {}
      BY <2>5, <2>6, <2>10, <3>1
    <3>3. Holders(r) = {<<"cb", frames[i]>>}
      BY <2>3, <3>2
    <3>4. QED
      BY <2>10, <3>3
  <2>11. QED
    BY <2>7, <2>8, <2>9, <2>10
<1>2. QED
  BY FullInductive, <1>1, PTL

\* No callback runs twice in one pass over the list, and each one that is still
\* registered when the pass ends ran in it.
THEOREM OncePerFrameHolds == Spec => OncePerFrame
<1> DEFINE Step == epc = "frame" => /\ \A c \in CbId : cb'[c].calls <= 1
                                    /\ epc' = "game" =>
                                          \A i \in DOMAIN frames : cb[frames[i]].calls = 1
<1>1. FullInv /\ FullInv' /\ [Next]_vars => [Step]_vars
  <2> SUFFICES ASSUME FullInv, FullInv', [Next]_vars, epc = "frame" PROVE Step
    OBVIOUS
  <2>1. /\ Pass /\ Pass' /\ Running
        /\ frames \in Seq(CbId) /\ Len(frames) \in Nat /\ fi \in Nat
        /\ DOMAIN frames = 1..Len(frames)
    BY OwnedTypes, LenProperties DEF FullInv, IInv
  <2>2. epc' = "frame" \/ SafepointEnd
    BY DEF Next, Loader, Safepoint, ModCall, vars, spVars,
           BootstrapFails, Bootstrap, InstallHook, InstallFails, SafepointBegin,
           InitStart, InitReturn, InitsEnd, JobStart, JobReturn, DrainEnd,
           CbStart, CbReturn, CbFault, Enqueue, EnqueueInline, OnFrame
  <2>3. CASE epc' = "frame"
    BY <2>1, <2>3 DEF Pass
  <2>4. CASE SafepointEnd
    <3>1. cb' = cb /\ fi > Len(frames)
      BY <2>4 DEF SafepointEnd, cbVars
    <3>2. \A i \in 1..Len(frames) : Called(i)
      BY <2>1, <3>1 DEF Called
    <3>3. QED
      BY <2>1, <3>1, <3>2 DEF Pass
  <2>5. QED
    BY <2>2, <2>3, <2>4
<1>2. QED
  BY FullInductive, <1>1, PTL DEF Spec, OncePerFrame
-----------------------------------------------------------------------------
(***************************************************************************)
(* 3. The executor on the ring.                                            *)
(***************************************************************************)
\* The invariant of the composition: both parts keep theirs, and they agree.
Agree == IInv /\ RingTypeOK /\ RingHoldsQueue

\* Nothing but a call that hands a job over changes both the queue and the
\* number of jobs, and it appends to the queue (executor.c:149-155).
LEMMA PushedByEnqueue ==
    ASSUME IInv, Next, queue' # queue, njobs' # njobs
    PROVE  njobs' \in JobId /\ queue' = PushNew(njobs')
  <1>1. ASSUME NEW t \in {"engine", "loader"} \cup Workers, NEW lua \in BOOLEAN, Enqueue(t, lua)
        PROVE  njobs' \in JobId /\ queue' = PushNew(njobs')
    BY <1>1 DEF Enqueue, PushNew
  <1>2. ASSUME NEW t \in {"engine", "loader"} \cup Workers, NEW lua \in BOOLEAN,
               EnqueueInline(t, lua) \/ OnFrame(t, lua)
        PROVE  FALSE
    BY <1>2 DEF EnqueueInline, OnFrame, jobVars
  <1>3. ASSUME Loader PROVE FALSE
    BY <1>3 DEF Loader, BootstrapFails, Bootstrap, InitStart, InitReturn, jobVars
  <1>4. ASSUME InstallHook \/ InstallFails PROVE FALSE
    BY <1>4 DEF InstallHook, InstallFails, jobVars
  <1>5. ASSUME Safepoint PROVE FALSE
    BY <1>5 DEF Safepoint, SafepointBegin, InitStart, InitReturn, InitsEnd, JobStart, JobReturn,
                DrainEnd, CbStart, CbReturn, CbFault, SafepointEnd, jobVars
  <1> QED
    BY <1>1, <1>2, <1>3, <1>4, <1>5 DEF Next, ModCall

\* Nothing but drain_jobs changes the queue without a new job, and it takes the
\* oldest (executor.c:156-162).
LEMMA PoppedByDrain ==
    ASSUME IInv, Next, queue' # queue, njobs' = njobs
    PROVE  queue # <<>> /\ queue' = Tail(queue)
  <1>1. ASSUME JobStart PROVE queue # <<>> /\ queue' = Tail(queue)
    BY <1>1 DEF JobStart
  <1>2. ASSUME NEW t \in {"engine", "loader"} \cup Workers, NEW lua \in BOOLEAN,
               Enqueue(t, lua) \/ EnqueueInline(t, lua) \/ OnFrame(t, lua)
        PROVE  FALSE
    <2>1. njobs \in Nat
      BY BoundsAssumption DEF IInv, TypeOK
    <2> QED BY <1>2, <2>1 DEF Enqueue, EnqueueInline, OnFrame, jobVars
  <1>3. ASSUME Loader PROVE FALSE
    BY <1>3 DEF Loader, BootstrapFails, Bootstrap, InitStart, InitReturn, jobVars
  <1>4. ASSUME InstallHook \/ InstallFails PROVE FALSE
    BY <1>4 DEF InstallHook, InstallFails, jobVars
  <1>5. ASSUME Safepoint, ~JobStart PROVE FALSE
    BY <1>5 DEF Safepoint, SafepointBegin, InitStart, InitReturn, InitsEnd, JobReturn,
                DrainEnd, CbStart, CbReturn, CbFault, SafepointEnd, jobVars
  <1> QED
    BY <1>1, <1>2, <1>3, <1>4, <1>5 DEF Next, ModCall

\* A push keeps queue and ring in agreement, with room and without.
LEMMA PushAgrees ==
    ASSUME Agree, Next, JobPushed
    PROVE  RingTypeOK' /\ queue' = Contents'
  <1>1. njobs' \in Job /\ Push(njobs') /\ queue' = PushNew(njobs')
    BY PushedByEnqueue, RingAssumption DEF Agree, JobPushed
  <1>2. RingTypeOK'
    BY <1>1, RingStepTypeOK DEF Agree, RingNext
  <1>3. Len(queue) = Size /\ Size \in 0..MAX_JOBS-1 /\ queue = Contents
    BY ContentsSeq DEF Agree, RingHoldsQueue
  <1>4. CASE Size < MAX_JOBS - 1
    BY <1>1, <1>2, <1>3, <1>4, PushAppends, RingAssumption DEF Agree, PushNew
  <1>5. CASE Size = MAX_JOBS - 1
    BY <1>1, <1>2, <1>3, <1>5, PushDropsOldest, RingAssumption DEF Agree, PushNew
  <1> QED
    BY <1>3, <1>4, <1>5, SizeAssumption

\* A pop keeps them in agreement, and is possible whenever drain_jobs finds a
\* job in the queue.
LEMMA PopAgrees ==
    ASSUME Agree, Next, JobPopped
    PROVE  RingTypeOK' /\ queue' = Contents'
  <1>1. queue' = Tail(queue) /\ Pop
    BY PoppedByDrain DEF Agree, JobPopped
  <1>2. RingTypeOK'
    BY <1>1, RingStepTypeOK DEF Agree, RingNext
  <1>3. Contents' = Tail(Contents)
    BY <1>1, PopRemoves DEF Agree
  <1> QED
    BY <1>1, <1>2, <1>3 DEF Agree, RingHoldsQueue

\* A step that leaves the ring alone leaves its contents alone.
LEMMA IdleAgrees ==
    ASSUME Agree, queue' = queue, UNCHANGED ringVars
    PROVE  RingTypeOK' /\ queue' = Contents'
  BY DEF Agree, RingHoldsQueue, ringVars, RingTypeOK, Contents, Size, At

\* Executor's invariant is inductive under its own next-state relation.
LEMMA ExecutorStep == IInv /\ [Next]_vars => IInv'
  BY TypeStep, ControlStep, RunningStep, InitialisingStep, InlineStep DEF IInv

\* Every step of the composition keeps the agreement.
LEMMA AgreeStep ==
    ASSUME Agree, [Next /\ RingStep]_<<vars, ringVars>>
    PROVE  Agree'
  <1>1. IInv'
    BY ExecutorStep DEF Agree
  <1>2. RingTypeOK' /\ queue' = Contents'
    <2>1. CASE Next /\ JobPushed
      BY <2>1, PushAgrees
    <2>2. CASE Next /\ JobPopped
      BY <2>2, PopAgrees
    <2>3. CASE RingIdle
      BY <2>3, IdleAgrees DEF RingIdle
    <2>4. CASE UNCHANGED <<vars, ringVars>>
      <3>1. queue' = queue /\ UNCHANGED ringVars
        BY <2>4 DEF vars, jobVars
      <3> QED BY <3>1, IdleAgrees
    <2> QED
      BY <2>1, <2>2, <2>3, <2>4 DEF RingStep
  <1> QED
    BY <1>1, <1>2 DEF Agree, RingHoldsQueue

\* The zeroed ring is the empty queue.
LEMMA AgreeInit == Init /\ RingInit => Agree
  <1> SUFFICES ASSUME Init, RingInit PROVE Agree
    OBVIOUS
  <1>1. IInv /\ RingTypeOK
    BY InitIInv, RingInitTypeOK
  <1>2. Contents = <<>>
    BY SizeAssumption DEF RingInit, Contents, Size
  <1> QED
    BY <1>1, <1>2 DEF Agree, RingHoldsQueue, Init

\* At every step of every thread, g_job between g_job_head and g_job_tail holds
\* exactly the waiting jobs, oldest first.
THEOREM RingHolds == OnRing => []RingHoldsQueue
  <1>1. Agree => RingHoldsQueue
    BY DEF Agree
  <1>2. Agree /\ [Next /\ RingStep]_<<vars, ringVars>> => Agree'
    BY AgreeStep
  <1> QED
    BY AgreeInit, <1>1, <1>2, PTL DEF OnRing, OnRingInit
=============================================================================
