---------------------------- MODULE Loader_proofs ----------------------------
(***************************************************************************)
(* Theorems about a start of the game (core/loader.c, native_bridge.c,     *)
(* voice.c, executor.c), for any DLLs, mods, places and table sizes: the   *)
(* deferred mods are initialised once, in order and by one thread, and the *)
(* voices never cost the monsters theirs.                                  *)
(***************************************************************************)
EXTENDS Loader, SequenceTheorems, TLAPS

-----------------------------------------------------------------------------
(* The tables and queues.                                                  *)

\* api_when_text_ready keeps the table within its size and what it holds, and
\* adds entries that have not fired.
LEMMA Accepted ==
  ASSUME NEW table \in Seq(Entry), Len(table) <= OSS_EARLY_MAX_WAIT, NEW d \in Dlls, NEW n \in Nat
  PROVE  /\ WhenTextReady(table, d, n) \in Seq(Entry)
         /\ Len(WhenTextReady(table, d, n)) <= OSS_EARLY_MAX_WAIT
         /\ \A i \in DOMAIN WhenTextReady(table, d, n) :
               \/ i \in DOMAIN table /\ WhenTextReady(table, d, n)[i] = table[i]
               \/ ~WhenTextReady(table, d, n)[i].done /\ WhenTextReady(table, d, n)[i].fires = 0
<1>1. CASE n \notin DOMAIN Probe[d] \/ Len(table) >= OSS_EARLY_MAX_WAIT
  BY <1>1 DEF WhenTextReady
<1>2. CASE ~(n \notin DOMAIN Probe[d] \/ Len(table) >= OSS_EARLY_MAX_WAIT)
  <2> DEFINE e == [mod |-> d, place |-> Probe[d][n], n |-> n, done |-> FALSE, fires |-> 0]
  <2>1. e \in Entry
    <3>1. Probe[d][n] \in Places
      BY <1>2, DllsAssumption, LenProperties, ElementOfSeq
    <3> QED
      BY <3>1 DEF Entry
  <2>2. WhenTextReady(table, d, n) = Append(table, e)
    BY <1>2 DEF WhenTextReady
  <2>3. ~e.done /\ e.fires = 0
    OBVIOUS
  <2>4. Len(table) \in Nat /\ Len(table) + 1 <= OSS_EARLY_MAX_WAIT /\ DOMAIN table = 1..Len(table)
    BY <1>2, LenProperties, BoundsAssumption
  <2> HIDE DEF e
  <2>5. /\ Append(table, e) \in Seq(Entry) /\ Len(Append(table, e)) = Len(table) + 1
        /\ DOMAIN Append(table, e) = 1..Len(table)+1
        /\ \A i \in 1..Len(table) : Append(table, e)[i] = table[i]
        /\ Append(table, e)[Len(table)+1] = e
    BY <2>1, AppendProperties, LenProperties
  <2> QED
    BY <2>2, <2>3, <2>4, <2>5
<1> QED
  BY <1>1, <1>2

\* A queue that takes one more of what it does not hold stays without repetition.
LEMMA OneMore ==
  ASSUME NEW S, NEW q \in Seq(S), NEW e \in S, NEW max \in Nat, Len(q) < max,
         \A i, j \in DOMAIN q : i # j => q[i] # q[j],
         \A i \in DOMAIN q : q[i] # e
  PROVE  /\ Append(q, e) \in Seq(S) /\ Len(Append(q, e)) <= max
         /\ \A i, j \in DOMAIN Append(q, e) : i # j => Append(q, e)[i] # Append(q, e)[j]
         /\ \A i \in DOMAIN Append(q, e) : Append(q, e)[i] = e \/ (i \in DOMAIN q /\ Append(q, e)[i] = q[i])
<1>1. /\ Append(q, e) \in Seq(S) /\ Len(Append(q, e)) = Len(q) + 1
      /\ DOMAIN Append(q, e) = 1..Len(q)+1 /\ DOMAIN q = 1..Len(q) /\ Len(q) \in Nat
      /\ \A i \in 1..Len(q) : Append(q, e)[i] = q[i]
      /\ Append(q, e)[Len(q)+1] = e
  BY AppendProperties, LenProperties
<1> QED
  BY <1>1

\* run_deferred: what it goes through is without repetition, natives first.
LEMMA DeferredOrder ==
  ASSUME ScanTypes, Queued
  PROVE  /\ Deferred \in Seq(Dlls \cup LuaMods)
         /\ \A i, j \in DOMAIN Deferred : i # j => Deferred[i] # Deferred[j]
         /\ \A i, j \in DOMAIN Deferred : i < j /\ Deferred[i] \in LuaMods => Deferred[j] \in LuaMods
<1>1. nativeq \in Seq(Dlls \cup LuaMods) /\ luaq \in Seq(Dlls \cup LuaMods)
  BY SeqMonotonic DEF ScanTypes
<1>2. /\ Deferred \in Seq(Dlls \cup LuaMods)
      /\ Len(Deferred) = Len(nativeq) + Len(luaq)
      /\ \A i \in 1 .. Len(nativeq) + Len(luaq) :
            Deferred[i] = IF i <= Len(nativeq) THEN nativeq[i] ELSE luaq[i - Len(nativeq)]
  BY <1>1, ConcatProperties DEF Deferred
<1>3. /\ DOMAIN Deferred = 1..Len(nativeq) + Len(luaq)
      /\ DOMAIN nativeq = 1..Len(nativeq) /\ DOMAIN luaq = 1..Len(luaq)
      /\ Len(nativeq) \in Nat /\ Len(luaq) \in Nat
  BY <1>1, <1>2, LenProperties
<1>4. /\ \A i \in 1..Len(nativeq) : nativeq[i] \in Dlls
      /\ \A i \in 1..Len(luaq) : luaq[i] \in LuaMods
  BY ElementOfSeq DEF ScanTypes
<1> DEFINE N == Len(nativeq)  L == Len(luaq)  Def == Deferred
<1>5. \A i \in 1..N + L : \/ i <= N /\ i \in 1..N /\ Def[i] = nativeq[i] /\ Def[i] \in Dlls
                          \/ i > N /\ i - N \in 1..L /\ Def[i] = luaq[i - N] /\ Def[i] \in LuaMods
  BY <1>2, <1>3, <1>4
<1> HIDE DEF N, L, Def
<1>6. DOMAIN Def = 1..N + L /\ N \in Nat /\ L \in Nat
      /\ (\A i, j \in 1..N : i # j => nativeq[i] # nativeq[j])
      /\ (\A i, j \in 1..L : i # j => luaq[i] # luaq[j])
  BY <1>3 DEF Queued, N, L, Def
<1>7. ASSUME NEW i \in 1..N + L, NEW j \in 1..N + L, i # j PROVE Def[i] # Def[j]
  <2>1. CASE i <= N /\ j <= N
    BY <1>5, <1>6, <1>7, <2>1
  <2>2. CASE i > N /\ j > N
    <3>1. i - N # j - N
      BY <1>6, <1>7
    <3> QED
      BY <1>5, <1>6, <2>2, <3>1
  <2>3. CASE (i <= N /\ j > N) \/ (i > N /\ j <= N)
    BY <1>5, <1>6, <2>3, NamesAssumption
  <2> QED
    BY <1>6, <2>1, <2>2, <2>3
<1>8. ASSUME NEW i \in 1..N + L, NEW j \in 1..N + L, i < j, Def[i] \in LuaMods PROVE Def[j] \in LuaMods
  BY <1>5, <1>6, <1>8, NamesAssumption
<1>9. \A i, j \in DOMAIN Def : (i # j => Def[i] # Def[j]) /\ (i < j /\ Def[i] \in LuaMods => Def[j] \in LuaMods)
  BY <1>6, <1>7, <1>8
<1> QED
  BY <1>2, <1>9 DEF Def

\* The voice waiter does its patches one after the other.
LEMMA Patched ==
  ASSUME ThreadTypes, voice.pc \in {"patching", "writing"}
  PROVE  \/ /\ voice.todo = <<"je", "seed">> /\ Head(voice.todo) = "je"
            /\ VoicePatched = [voice EXCEPT !.todo = <<"seed">>]
         \/ /\ voice.todo = <<"je">> /\ Head(voice.todo) = "je"
            /\ VoicePatched = [voice EXCEPT !.todo = <<>>, !.pc = "done"]
         \/ /\ voice.todo = <<"seed">> /\ Head(voice.todo) = "seed"
            /\ VoicePatched = [voice EXCEPT !.todo = <<>>, !.pc = "done"]
<1>0. voice.todo \in {<<"je", "seed">>, <<"je">>, <<"seed">>}
  BY DEF ThreadTypes
<1>1. Len(<<"je", "seed">>) = 2 /\ Len(<<"je">>) = 1 /\ Len(<<"seed">>) = 1
  OBVIOUS
<1>2. Tail(<<"je", "seed">>) = <<"seed">> /\ Tail(<<"je">>) = <<>> /\ Tail(<<"seed">>) = <<>>
  OBVIOUS
<1>3. Head(<<"je", "seed">>) = "je" /\ Head(<<"je">>) = "je" /\ Head(<<"seed">>) = "seed"
  OBVIOUS
<1>4. VoicePatched = [voice EXCEPT !.todo = Tail(voice.todo), !.pc = IF Len(voice.todo) = 1 THEN "done" ELSE voice.pc]
  BY DEF VoicePatched
<1>5. voice = [voice EXCEPT !.pc = voice.pc]
  BY DEF ThreadTypes
<1>6. CASE voice.todo = <<"je", "seed">>
  <2>1. VoicePatched = [voice EXCEPT !.todo = <<"seed">>, !.pc = voice.pc]
    BY <1>1, <1>2, <1>4, <1>6
  <2> QED
    BY <1>3, <1>6, <2>1 DEF ThreadTypes
<1>7. CASE voice.todo = <<"je">>
  BY <1>1, <1>2, <1>3, <1>4, <1>7
<1>8. CASE voice.todo = <<"seed">>
  BY <1>1, <1>2, <1>3, <1>4, <1>8
<1> QED
  BY <1>0, <1>6, <1>7, <1>8

\* run_deferred begins with nothing done and all the queues before it.
LEMMA Starts ==
  ASSUME ScanTypes, Queued, inits = <<>>, UNCHANGED <<nativeq, luaq, inits>>,
         NEW who, who # "nobody", run' = [by |-> who, todo |-> Deferred]
  PROVE  /\ run'.todo \in Seq(Dlls \cup LuaMods)
         /\ InTurn'
<1>1. Deferred \in Seq(Dlls \cup LuaMods) /\ Len(Deferred) \in Nat /\ DOMAIN Deferred = 1..Len(Deferred)
  BY DeferredOrder, LenProperties
<1>2. Deferred' = Deferred
  BY DEF Deferred
<1>3. run'.by # "nobody" /\ run'.todo = Deferred
  OBVIOUS
<1>4. inits' = <<>> /\ Len(<<>>) = 0 /\ DOMAIN <<>> = {}
  BY LenProperties, EmptySeq
<1> QED
  BY <1>1, <1>2, <1>3, <1>4 DEF InTurn

\* One init more: what is done and what is left still make up the queues.
LEMMA TakesTurn ==
  ASSUME TypeOK, InTurn, InitNext
  PROVE  /\ run'.by = run.by /\ run'.todo \in Seq(Dlls \cup LuaMods)
         /\ inits' \in Seq(Turn)
         /\ \A i \in DOMAIN inits' : inits'[i].by = run.by \/ (i \in DOMAIN inits /\ inits'[i] = inits[i])
         /\ InTurn'
<1> DEFINE All == Dlls \cup LuaMods
           m == Head(run.todo)
           r == [mod |-> m, by |-> run.by,
                 ran |-> m \in Dlls \/ (host = "up" /\ ApiCompatible(Wants[m]))]
<1>1. /\ run.by \in {"loader", "engine"} /\ run.todo \in Seq(All) /\ run.todo # <<>>
      /\ inits \in Seq(Turn)
  BY DEF InitNext, TypeOK, RunTypes
<1>2. inits' = Append(inits, r) /\ run' = [run EXCEPT !.todo = Tail(run.todo)]
  BY DEF InitNext
<1>3. /\ m \in All /\ Tail(run.todo) \in Seq(All)
      /\ Len(Tail(run.todo)) = Len(run.todo) - 1
      /\ \A i \in 1..Len(Tail(run.todo)) : Tail(run.todo)[i] = run.todo[i+1]
      /\ m = run.todo[1]
  BY <1>1, HeadTailProperties
<1>4. run'.by = run.by /\ run'.todo = Tail(run.todo)
  BY <1>2 DEF TypeOK, RunTypes
<1>5. r \in Turn
  <2>1. r.ran \in BOOLEAN
    BY Zenon
  <2> QED
    BY <1>1, <1>3, <2>1 DEF Turn
<1>6. r.by = run.by /\ r.mod = m
  OBVIOUS
<1> HIDE DEF r
<1>7. /\ Append(inits, r) \in Seq(Turn) /\ Len(Append(inits, r)) = Len(inits) + 1
      /\ DOMAIN Append(inits, r) = 1..Len(inits)+1 /\ DOMAIN inits = 1..Len(inits) /\ Len(inits) \in Nat
      /\ \A i \in 1..Len(inits) : Append(inits, r)[i] = inits[i]
      /\ Append(inits, r)[Len(inits)+1] = r
  BY <1>1, <1>5, AppendProperties, LenProperties
<1>8. /\ DOMAIN run.todo = 1..Len(run.todo) /\ Len(run.todo) \in Nat /\ Len(run.todo) > 0
      /\ DOMAIN Tail(run.todo) = 1..Len(run.todo)-1
  BY <1>1, <1>3, LenProperties, EmptySeq
<1>9. /\ Len(inits) + Len(run.todo) = Len(Deferred)
      /\ \A i \in 1..Len(inits) : inits[i].mod = Deferred[i]
      /\ \A i \in 1..Len(run.todo) : run.todo[i] = Deferred[Len(inits) + i]
  BY <1>1, <1>7, <1>8 DEF InTurn, Begun
<1>10. Deferred' = Deferred
  BY DEF InitNext, queues, Deferred
<1>11. InTurn'
  <2>1. Len(inits') + Len(run'.todo) = Len(Deferred')
    <3>1. Len(inits') = Len(inits) + 1 /\ Len(run'.todo) = Len(run.todo) - 1
      BY <1>2, <1>3, <1>4, <1>7
    <3>2. \A a, b \in Nat : (a + 1) + (b - 1) = a + b
      OBVIOUS
    <3>3. Len(inits) \in Nat /\ Len(run.todo) \in Nat
      BY <1>7, <1>8
    <3> QED
      BY <1>9, <1>10, <3>1, <3>2, <3>3
  <2>2. ASSUME NEW i \in DOMAIN inits' PROVE inits'[i].mod = Deferred'[i]
    <3>1. CASE i = Len(inits) + 1
      <4>1. m = Deferred[Len(inits) + 1]
        BY <1>3, <1>8, <1>9
      <4> QED
        BY <1>2, <1>6, <1>7, <1>10, <3>1, <4>1
    <3>2. CASE i \in 1..Len(inits)
      BY <1>2, <1>7, <1>9, <1>10, <3>2
    <3> QED
      BY <1>2, <1>7, <2>2, <3>1, <3>2
  <2>3. ASSUME NEW i \in DOMAIN run'.todo PROVE run'.todo[i] = Deferred'[Len(inits') + i]
    <3>1. i \in 1..Len(run.todo)-1 /\ i + 1 \in 1..Len(run.todo)
      BY <1>4, <1>8, <2>3
    <3>2. run'.todo[i] = run.todo[i + 1]
      BY <1>3, <1>4, <3>1
    <3>3. Len(inits) + (i + 1) = Len(inits') + i
      BY <1>2, <1>7, <3>1
    <3> QED
      BY <1>9, <1>10, <3>1, <3>2, <3>3
  <2>4. run'.by # "nobody"
    BY <1>1, <1>4
  <2> QED
    BY <2>1, <2>2, <2>3, <2>4 DEF InTurn
<1> QED
  BY <1>2, <1>3, <1>4, <1>6, <1>7, <1>11

\* What a step must leave alone for the Deluxe order of patches to stand.
LEMMA EnglishKept ==
  ASSUME English, UNCHANGED <<world, bank>>,
         voice'.pc \in {"patching", "writing"} => voice'.pc = voice.pc /\ voice'.todo = voice.todo,
         voice'.refused = voice.refused,
         \/ text'["seed"] = text["seed"]
         \/ text["seed"] # "cipher" /\ text'["seed"] \notin {"cipher", "torn", "voice"},
         text["seed"] # "cipher" /\ text["je"] # "plain" => text'["je"] # "plain",
         game'.sound = "silent" => game.sound = "silent"
  PROVE  English'
  BY DEF English, Registrar, Patches

-----------------------------------------------------------------------------
(* The inductive invariant.  First what leaves each of its parts alone.    *)

\* The scan's variables.
LEMMA KeepScanTypes == ScanTypes /\ UNCHANGED <<world, lpc, todo, nativeq, luaq, loaded, ew,
                                                host>> => ScanTypes'
  BY DEF ScanTypes, Entry
\* The waiters'.
LEMMA KeepThreadTypes == ThreadTypes /\ UNCHANGED <<waiter, voice, keeper>> => ThreadTypes'
  BY DEF ThreadTypes
\* The inits' and the boot's.
LEMMA KeepRunTypes == RunTypes /\ UNCHANGED <<hwnd, posted, armed, ui, inits, run, inited>> =>
                                              RunTypes'
  BY DEF RunTypes, Turn
\* The game's.
LEMMA KeepGameTypes == GameTypes /\ UNCHANGED <<text, bank, game, away>> => GameTypes'
  BY DEF GameTypes
\* The queues change only while they are filled.
LEMMA KeepQueued == Queued /\ UNCHANGED <<nativeq, luaq, lpc, todo>> => Queued'
  BY DEF Queued
\* The turns change only with the queues and the run.
LEMMA KeepInTurn == InTurn /\ UNCHANGED <<inits, run, nativeq, luaq>> => InTurn'
  BY DEF InTurn, Begun, Deferred
\* Who runs the inits.
LEMMA KeepOneRunner == OneRunner /\ UNCHANGED <<posted, armed, inited, lpc, run, inits>> =>
                                                OneRunner'
  BY DEF OneRunner, EngineMay, Begun
\* The early table.
LEMMA KeepFiresOnce == FiresOnce /\ UNCHANGED <<ew>> => FiresOnce'
  BY DEF FiresOnce
\* The voices.
LEMMA KeepEnglish == English /\ UNCHANGED <<world, voice, text, bank, game>> => English'
  BY DEF English, Registrar

\* The game's code as it was loaded, and nothing begun, satisfy the invariant.
LEMMA InitIInv == Init => IInv
<1> SUFFICES ASSUME Init PROVE IInv
  OBVIOUS
<1>0. <<>> \in Seq(Dlls) /\ <<>> \in Seq(LuaMods) /\ <<>> \in Seq(Entry) /\ <<>> \in Seq(Turn)
      /\ <<>> \in Seq(Dlls \cup LuaMods) /\ Len(<<>>) = 0 /\ DOMAIN <<>> = {}
  BY EmptySeq, LenProperties
<1>1. ScanTypes
  BY <1>0, BoundsAssumption DEF Init, ScanTypes
<1>2. ThreadTypes
  <2>1. waiter \in [pc : {"none", "polling", "done", "gave up"}, i : Nat \ {0}, pending : BOOLEAN]
    BY DEF Init
  <2>2. /\ voice.pc = "off" /\ keeper = FALSE
        /\ voice \in [pc : {"off", "polling", "patching", "writing", "done"},
                     todo : {<<"je", "seed">>, <<"je">>, <<"seed">>, <<>>},
                     stolen : Dlls \cup Code, refused : BOOLEAN]
    BY DEF Init, Code
  <2> QED
    BY <2>1, <2>2 DEF ThreadTypes
<1>3. RunTypes
  BY <1>0 DEF Init, RunTypes
<1>4. GameTypes
  <2>1. text \in [Places -> Dlls \cup Code]
    BY DEF Init, Code
  <2>2. bank = FALSE /\ away \in 0..MaxUnfocus
    BY BoundsAssumption DEF Init
  <2>3. game \in [launcher : {"none", "shown", "gone"}, window : BOOLEAN,
                 sound : {"none", "loaded", "registered", "silent"},
                 active : BOOLEAN, focus : BOOLEAN, up : BOOLEAN]
    BY DEF Init
  <2> QED
    BY <2>1, <2>2, <2>3 DEF GameTypes
<1>5. Queued /\ InTurn /\ OneRunner /\ FiresOnce
  BY <1>0 DEF Init, Queued, InTurn, OneRunner, Begun, EngineMay, FiresOnce
<1>6. English
  BY DEF Init, English, Registrar, Places
<1> QED
  BY <1>1, <1>2, <1>3, <1>4, <1>5, <1>6 DEF IInv, TypeOK

\* Every step of the threads, the game and the user keeps the invariant.
LEMMA StepIInv == IInv /\ [Next]_vars => IInv'
<1> SUFFICES ASSUME IInv, [Next]_vars PROVE IInv'
  OBVIOUS
<1>1. CASE VoiceEarlyInit
  <2>0. UNCHANGED <<world, nativeq, luaq, loaded, ew, waiter, keeper, host, hwnd, posted, armed,
                    ui, inits, run, inited, text, bank, game, away>>
    BY <1>1 DEF VoiceEarlyInit, threads, boot, queues, mods
  <2>1. ScanTypes'
    BY <1>1, <2>0, BoundsAssumption, NamesAssumption, DllsAssumption, WorldsAssumption DEF
       IInv, TypeOK, ScanTypes, Entry, VoiceEarlyInit, Playing, Ticking
  <2>2. ThreadTypes'
    BY <1>1, <2>0, BoundsAssumption, NamesAssumption, DllsAssumption, WorldsAssumption DEF
       IInv, TypeOK, ScanTypes, ThreadTypes, GameTypes, Code, VoiceEarlyInit, Playing, Ticking
  <2>3. Queued'
    BY <1>1, <2>0, BoundsAssumption, NamesAssumption, DllsAssumption, WorldsAssumption DEF
       IInv, TypeOK, ScanTypes, Queued, VoiceEarlyInit, Playing, Ticking
  <2>4. OneRunner'
    BY <1>1, <2>0, BoundsAssumption, NamesAssumption, DllsAssumption, WorldsAssumption DEF
       IInv, TypeOK, RunTypes, OneRunner, EngineMay, Begun, VoiceEarlyInit, Playing, Ticking
  <2>5. English'
    <3>1. voice'.pc \in {"polling", "off"} /\ voice'.refused = voice.refused
      BY <1>1 DEF VoiceEarlyInit, IInv, TypeOK, ThreadTypes
    <3> QED
      BY <2>0, <3>1, EnglishKept DEF IInv
  <2> QED
    BY <2>0, <2>1, <2>2, <2>3, <2>4, <2>5, KeepRunTypes, KeepGameTypes, KeepInTurn,
       KeepFiresOnce DEF IInv, TypeOK
\* A DLL leaves the scan when it joins the queue.
<1>2. ASSUME NEW d \in Dlls, LoadNative(d) PROVE IInv'
  <2>0. UNCHANGED <<world, lpc, luaq, waiter, voice, keeper, host, hwnd, posted, armed, ui,
                    inits, run, inited, text, bank, game, away>>
    BY <1>2 DEF LoadNative, threads, boot, queues, mods
  <2>1. ScanTypes'
    <3>1. CASE UNCHANGED <<queues, ew>>
      BY <1>2, <2>0, <3>1 DEF LoadNative, queues, IInv, TypeOK, ScanTypes
    <3>2. CASE /\ ew' = IF "early" \in Exports[d] THEN WhenTextReady(ew, d, 1) ELSE ew
               /\ loaded' = loaded \cup {d}
               /\ nativeq' = IF "init" \in Exports[d] /\ Len(nativeq) < MAX_NDEFER
                             THEN Append(nativeq, d) ELSE nativeq
      <4>1. ew' \in Seq(Entry) /\ Len(ew') <= OSS_EARLY_MAX_WAIT
        BY <3>2, Accepted DEF IInv, TypeOK, ScanTypes
      <4>2. nativeq' \in Seq(Dlls) /\ Len(nativeq') <= MAX_NDEFER
        <5>1. Len(nativeq) \in Nat /\ MAX_NDEFER \in Nat
          BY LenProperties, BoundsAssumption DEF IInv, TypeOK, ScanTypes
        <5>2. Append(nativeq, d) \in Seq(Dlls) /\ Len(Append(nativeq, d)) = Len(nativeq) + 1
          BY AppendProperties DEF IInv, TypeOK, ScanTypes
        <5> QED
          BY <3>2, <5>1, <5>2 DEF IInv, TypeOK, ScanTypes
      <4> QED
        BY <1>2, <2>0, <3>2, <4>1, <4>2 DEF LoadNative, IInv, TypeOK, ScanTypes
    <3> QED
      BY <1>2, <3>1, <3>2 DEF LoadNative
  <2>2. Queued'
    <3>1. /\ lpc = "natives" /\ lpc' = lpc /\ luaq' = luaq /\ d \in todo /\ todo' = todo \ {d}
          /\ nativeq' \in {nativeq, IF Len(nativeq) < MAX_NDEFER THEN Append(nativeq, d) ELSE nativeq}
      BY <1>2, <2>0 DEF LoadNative, queues
    <3>2. \A i \in DOMAIN nativeq : nativeq[i] # d
      BY <3>1 DEF IInv, Queued
    <3>3. CASE nativeq' = nativeq
      BY <3>1, <3>3 DEF IInv, Queued
    <3>4. CASE Len(nativeq) < MAX_NDEFER /\ nativeq' = Append(nativeq, d)
      <4>1. MAX_NDEFER \in Nat /\ nativeq \in Seq(Dlls)
            /\ (\A i, j \in DOMAIN nativeq : i # j => nativeq[i] # nativeq[j])
        BY BoundsAssumption DEF IInv, TypeOK, ScanTypes, Queued
      <4>2. /\ \A i, j \in DOMAIN nativeq' : i # j => nativeq'[i] # nativeq'[j]
            /\ \A i \in DOMAIN nativeq' : nativeq'[i] = d \/ (i \in DOMAIN nativeq /\ nativeq'[i] = nativeq[i])
        BY <3>2, <3>4, <4>1, OneMore
      <4> QED
        BY <3>1, <4>2 DEF IInv, Queued
    <3> QED
      BY <3>1, <3>3, <3>4
  <2>3. InTurn'
    <3>1. ~Begun
      BY <1>2 DEF LoadNative, IInv, OneRunner, Begun, EngineMay
    <3> QED
      BY <2>0, <3>1 DEF IInv, InTurn, Begun
  <2>4. FiresOnce'
    <3>1. ew' \in {ew, WhenTextReady(ew, d, 1)}
      BY <1>2 DEF LoadNative
    <3>2. \A i \in DOMAIN WhenTextReady(ew, d, 1) :
             \/ i \in DOMAIN ew /\ WhenTextReady(ew, d, 1)[i] = ew[i]
             \/ ~WhenTextReady(ew, d, 1)[i].done /\ WhenTextReady(ew, d, 1)[i].fires = 0
      BY Accepted DEF IInv, TypeOK, ScanTypes
    <3> QED
      BY <3>1, <3>2 DEF IInv, FiresOnce
  <2> QED
    BY <2>0, <2>1, <2>2, <2>3, <2>4, KeepThreadTypes, KeepRunTypes, KeepGameTypes,
       KeepOneRunner, KeepEnglish DEF IInv, TypeOK
<1>3. CASE NativesDone
  <2>0. UNCHANGED <<world, todo, nativeq, luaq, loaded, ew, voice, host, hwnd, posted, armed,
                    ui, inits, run, inited, text, bank, game, away>>
    BY <1>3 DEF NativesDone, threads, boot, queues, mods
  <2>1. ScanTypes'
    BY <1>3, <2>0, BoundsAssumption, NamesAssumption, DllsAssumption, WorldsAssumption DEF
       IInv, TypeOK, ScanTypes, Entry, NativesDone, Playing, Ticking
  <2>2. ThreadTypes'
    BY <1>3, <2>0, BoundsAssumption, NamesAssumption, DllsAssumption, WorldsAssumption DEF
       IInv, TypeOK, ScanTypes, ThreadTypes, GameTypes, Code, NativesDone, Playing, Ticking
  <2>3. Queued'
    BY <1>3, <2>0, BoundsAssumption, NamesAssumption, DllsAssumption, WorldsAssumption DEF
       IInv, TypeOK, ScanTypes, Queued, NativesDone, Playing, Ticking
  <2>4. OneRunner'
    BY <1>3, <2>0, BoundsAssumption, NamesAssumption, DllsAssumption, WorldsAssumption DEF
       IInv, TypeOK, RunTypes, OneRunner, EngineMay, Begun, NativesDone, Playing, Ticking
  <2> QED
    BY <2>0, <2>1, <2>2, <2>3, <2>4, KeepRunTypes, KeepGameTypes, KeepInTurn, KeepFiresOnce,
       KeepEnglish DEF IInv, TypeOK
<1>4. CASE LhInit
  <2>0. UNCHANGED <<world, nativeq, luaq, loaded, ew, waiter, voice, keeper, hwnd, posted,
                    armed, ui, inits, run, inited, text, bank, game, away>>
    BY <1>4 DEF LhInit, threads, boot, queues, mods
  <2>1. ScanTypes'
    BY <1>4, <2>0, BoundsAssumption, NamesAssumption, DllsAssumption, WorldsAssumption DEF
       IInv, TypeOK, ScanTypes, Entry, LhInit, Playing, Ticking
  <2>2. Queued'
    BY <1>4, <2>0, BoundsAssumption, NamesAssumption, DllsAssumption, WorldsAssumption DEF
       IInv, TypeOK, ScanTypes, Queued, LhInit, Playing, Ticking
  <2>3. OneRunner'
    BY <1>4, <2>0, BoundsAssumption, NamesAssumption, DllsAssumption, WorldsAssumption DEF
       IInv, TypeOK, RunTypes, OneRunner, EngineMay, Begun, LhInit, Playing, Ticking
  <2> QED
    BY <2>0, <2>1, <2>2, <2>3, KeepThreadTypes, KeepRunTypes, KeepGameTypes, KeepInTurn,
       KeepFiresOnce, KeepEnglish DEF IInv, TypeOK
\* A directory leaves the scan when it joins the queue.
<1>5. ASSUME NEW m \in LuaMods, LoadLuaDir(m) PROVE IInv'
  <2>0. UNCHANGED <<world, lpc, nativeq, loaded, ew, waiter, voice, keeper, host, hwnd, posted,
                    armed, ui, inits, run, inited, text, bank, game, away>>
    BY <1>5 DEF LoadLuaDir, threads, boot, queues, mods
  <2>1. ScanTypes'
    <3>1. luaq' \in Seq(LuaMods) /\ Len(luaq') <= MAX_DEFER
      <4>1. Len(luaq) \in Nat /\ MAX_DEFER \in Nat
        BY LenProperties, BoundsAssumption DEF IInv, TypeOK, ScanTypes
      <4>2. Append(luaq, m) \in Seq(LuaMods) /\ Len(Append(luaq, m)) = Len(luaq) + 1
        BY AppendProperties DEF IInv, TypeOK, ScanTypes
      <4> QED
        BY <1>5, <4>1, <4>2 DEF LoadLuaDir, IInv, TypeOK, ScanTypes
    <3> QED
      BY <1>5, <2>0, <3>1 DEF LoadLuaDir, IInv, TypeOK, ScanTypes
  <2>2. Queued'
    <3>1. /\ lpc = "dirs" /\ lpc' = lpc /\ nativeq' = nativeq /\ m \in todo /\ todo' = todo \ {m}
          /\ luaq' = IF Len(luaq) < MAX_DEFER THEN Append(luaq, m) ELSE luaq
      BY <1>5, <2>0 DEF LoadLuaDir
    <3>2. \A i \in DOMAIN luaq : luaq[i] # m
      BY <3>1 DEF IInv, Queued
    <3>3. CASE luaq' = luaq
      BY <3>1, <3>3 DEF IInv, Queued
    <3>4. CASE Len(luaq) < MAX_DEFER /\ luaq' = Append(luaq, m)
      <4>1. MAX_DEFER \in Nat /\ luaq \in Seq(LuaMods)
            /\ (\A i, j \in DOMAIN luaq : i # j => luaq[i] # luaq[j])
        BY BoundsAssumption DEF IInv, TypeOK, ScanTypes, Queued
      <4>2. /\ \A i, j \in DOMAIN luaq' : i # j => luaq'[i] # luaq'[j]
            /\ \A i \in DOMAIN luaq' : luaq'[i] = m \/ (i \in DOMAIN luaq /\ luaq'[i] = luaq[i])
        BY <3>2, <3>4, <4>1, OneMore
      <4> QED
        BY <3>1, <4>2 DEF IInv, Queued
    <3> QED
      BY <3>1, <3>3, <3>4
  <2>3. InTurn'
    <3>1. ~Begun
      BY <1>5 DEF LoadLuaDir, IInv, OneRunner, Begun, EngineMay
    <3> QED
      BY <2>0, <3>1 DEF IInv, InTurn, Begun
  <2> QED
    BY <2>0, <2>1, <2>2, <2>3, KeepThreadTypes, KeepRunTypes, KeepGameTypes, KeepOneRunner,
       KeepFiresOnce, KeepEnglish DEF IInv, TypeOK
<1>6. CASE ExecBootstrap
  <2>0. UNCHANGED <<world, todo, nativeq, luaq, loaded, ew, waiter, voice, keeper, host, hwnd,
                    posted, armed, ui, inits, run, inited, text, bank, game, away>>
    BY <1>6 DEF ExecBootstrap, threads, boot, queues, mods
  <2>1. ScanTypes'
    BY <1>6, <2>0, BoundsAssumption, NamesAssumption, DllsAssumption, WorldsAssumption DEF
       IInv, TypeOK, ScanTypes, Entry, ExecBootstrap, Playing, Ticking
  <2>2. Queued'
    BY <1>6, <2>0, BoundsAssumption, NamesAssumption, DllsAssumption, WorldsAssumption DEF
       IInv, TypeOK, ScanTypes, Queued, ExecBootstrap, Playing, Ticking
  <2>3. OneRunner'
    BY <1>6, <2>0, BoundsAssumption, NamesAssumption, DllsAssumption, WorldsAssumption DEF
       IInv, TypeOK, RunTypes, OneRunner, EngineMay, Begun, ExecBootstrap, Playing, Ticking
  <2> QED
    BY <2>0, <2>1, <2>2, <2>3, KeepThreadTypes, KeepRunTypes, KeepGameTypes, KeepInTurn,
       KeepFiresOnce, KeepEnglish DEF IInv, TypeOK
<1>7. CASE DismissLauncher
  <2>0. UNCHANGED <<world, lpc, todo, nativeq, luaq, loaded, ew, waiter, voice, keeper, host,
                    hwnd, posted, armed, ui, inits, run, inited, text, bank, away>>
    BY <1>7 DEF DismissLauncher, threads, boot, queues, mods
  <2>1. GameTypes'
    BY <1>7, <2>0 DEF DismissLauncher, Playing, IInv, TypeOK, GameTypes
  <2>2. game'.sound = game.sound
    BY <1>7 DEF DismissLauncher, IInv, TypeOK, GameTypes
  <2>3. English'
    BY <2>0, <2>2, EnglishKept DEF IInv
  <2> QED
    BY <2>0, <2>1, <2>2, <2>3, KeepScanTypes, KeepThreadTypes, KeepRunTypes, KeepQueued,
       KeepInTurn, KeepOneRunner, KeepFiresOnce DEF IInv, TypeOK
\* From here on the engine thread may run the inits, or the loader thread will, never both.
<1>8. CASE FindWindow
  <2>0. UNCHANGED <<world, todo, nativeq, luaq, loaded, ew, waiter, voice, keeper, host, armed,
                    inits, run, inited, text, bank, game, away>>
    BY <1>8 DEF FindWindow, threads, boot, queues, mods
  <2>1. ScanTypes'
    BY <1>8, <2>0, BoundsAssumption, NamesAssumption, DllsAssumption, WorldsAssumption DEF
       IInv, TypeOK, ScanTypes, Entry, FindWindow, Playing, Ticking
  <2>2. RunTypes'
    BY <1>8, <2>0, BoundsAssumption, NamesAssumption, DllsAssumption, WorldsAssumption DEF
       IInv, TypeOK, RunTypes, ScanTypes, Turn, FindWindow, Playing, Ticking
  <2>3. Queued'
    BY <1>8, <2>0, BoundsAssumption, NamesAssumption, DllsAssumption, WorldsAssumption DEF
       IInv, TypeOK, ScanTypes, Queued, FindWindow, Playing, Ticking
  <2>4. OneRunner'
    BY <1>8, <2>0, BoundsAssumption, NamesAssumption, DllsAssumption, WorldsAssumption DEF
       IInv, TypeOK, RunTypes, OneRunner, EngineMay, Begun, FindWindow, Playing, Ticking
  <2> QED
    BY <2>0, <2>1, <2>2, <2>3, <2>4, KeepThreadTypes, KeepGameTypes, KeepInTurn,
       KeepFiresOnce, KeepEnglish DEF IInv, TypeOK
\* The fallback: nothing was begun, and nothing was posted.
<1>9. CASE RunInline
  <2>0. UNCHANGED <<world, todo, nativeq, luaq, loaded, ew, waiter, voice, keeper, host, hwnd,
                    posted, armed, ui, inits, inited, text, bank, game, away>>
    BY <1>9 DEF RunInline, threads, boot, queues, mods
  <2>1. ScanTypes'
    BY <1>9, <2>0, BoundsAssumption, NamesAssumption, DllsAssumption, WorldsAssumption DEF
       IInv, TypeOK, ScanTypes, Entry, RunInline, Playing, Ticking
  <2>2. RunTypes'
    <3>1. inits = <<>> /\ run.by = "nobody"
      BY <1>9 DEF RunInline, IInv, OneRunner, Begun, EngineMay
    <3>2. run'.todo \in Seq(Dlls \cup LuaMods) /\ InTurn'
      BY <1>9, <2>0, <3>1, Starts DEF RunInline, IInv, TypeOK
    <3> QED
      BY <1>9, <2>0, <3>2 DEF RunInline, IInv, TypeOK, RunTypes
  <2>3. Queued'
    BY <1>9, <2>0, BoundsAssumption, NamesAssumption, DllsAssumption, WorldsAssumption DEF
       IInv, TypeOK, ScanTypes, Queued, RunInline, Playing, Ticking
  <2>4. InTurn'
    <3>1. inits = <<>> /\ run.by = "nobody"
      BY <1>9 DEF RunInline, IInv, OneRunner, Begun, EngineMay
    <3> QED
      BY <1>9, <2>0, <3>1, Starts DEF RunInline, IInv, TypeOK
  <2>5. OneRunner'
    BY <1>9, <2>0, BoundsAssumption, NamesAssumption, DllsAssumption, WorldsAssumption DEF
       IInv, TypeOK, RunTypes, OneRunner, EngineMay, Begun, RunInline, Playing, Ticking
  <2> QED
    BY <2>0, <2>1, <2>2, <2>3, <2>4, <2>5, KeepThreadTypes, KeepGameTypes, KeepFiresOnce,
       KeepEnglish DEF IInv, TypeOK
\* One turn more.
<1>10. CASE InitNext
  <2>0. UNCHANGED <<world, lpc, todo, nativeq, luaq, loaded, ew, waiter, voice, keeper, host,
                    hwnd, posted, armed, ui, inited, text, bank, game, away>>
    BY <1>10 DEF InitNext, threads, boot, queues, mods
  <2>1. /\ run'.by = run.by /\ run'.todo \in Seq(Dlls \cup LuaMods)
        /\ inits' \in Seq(Turn)
        /\ \A i \in DOMAIN inits' : inits'[i].by = run.by \/ (i \in DOMAIN inits /\ inits'[i] = inits[i])
        /\ InTurn'
    BY <1>10, TakesTurn DEF IInv
  <2>2. RunTypes'
    <3>1. run' = [run EXCEPT !.todo = Tail(run.todo)]
      BY <1>10 DEF InitNext
    <3>2. run' \in [by : {"nobody", "loader", "engine"}, todo : Seq(Dlls \cup LuaMods)]
      BY <2>1, <3>1 DEF IInv, TypeOK, RunTypes
    <3> QED
      BY <2>0, <2>1, <3>2 DEF IInv, TypeOK, RunTypes
  <2>3. OneRunner'
    BY <1>10, <2>0, <2>1 DEF InitNext, IInv, OneRunner, EngineMay, Begun, TypeOK, RunTypes
  <2> QED
    BY <2>0, <2>1, <2>2, <2>3, KeepScanTypes, KeepThreadTypes, KeepGameTypes, KeepQueued,
       KeepFiresOnce, KeepEnglish DEF IInv, TypeOK
<1>11. CASE InitsEnd
  <2>0. UNCHANGED <<world, todo, nativeq, luaq, loaded, ew, waiter, voice, keeper, host, hwnd,
                    posted, armed, ui, inits, inited, text, bank, game, away>>
    BY <1>11 DEF InitsEnd, threads, boot, queues, mods
  <2>1. ScanTypes'
    BY <1>11, <2>0, BoundsAssumption, NamesAssumption, DllsAssumption, WorldsAssumption DEF
       IInv, TypeOK, ScanTypes, Entry, InitsEnd, Playing, Ticking
  <2>2. RunTypes'
    BY <1>11, <2>0, BoundsAssumption, NamesAssumption, DllsAssumption, WorldsAssumption DEF
       IInv, TypeOK, RunTypes, ScanTypes, Turn, InitsEnd, Playing, Ticking
  <2>3. Queued'
    BY <1>11, <2>0, BoundsAssumption, NamesAssumption, DllsAssumption, WorldsAssumption DEF
       IInv, TypeOK, ScanTypes, Queued, InitsEnd, Playing, Ticking
  <2>4. InTurn'
    BY <1>11, <2>0, BoundsAssumption, NamesAssumption, DllsAssumption, WorldsAssumption DEF
       IInv, TypeOK, ScanTypes, RunTypes, InTurn, Begun, OneRunner, EngineMay, Deferred,
       InitsEnd, Playing, Ticking
  <2>5. OneRunner'
    BY <1>11, <2>0, BoundsAssumption, NamesAssumption, DllsAssumption, WorldsAssumption DEF
       IInv, TypeOK, RunTypes, OneRunner, EngineMay, Begun, InitsEnd, Playing, Ticking
  <2> QED
    BY <2>0, <2>1, <2>2, <2>3, <2>4, <2>5, KeepThreadTypes, KeepGameTypes, KeepFiresOnce,
       KeepEnglish DEF IInv, TypeOK
\* The early waiter never turns a place back, and marks what has fired.
<1>12. CASE PollEntry
  <2>0. UNCHANGED <<world, lpc, todo, nativeq, luaq, loaded, voice, keeper, host, hwnd, posted,
                    armed, ui, inits, run, inited, bank, game, away>>
    BY <1>12 DEF PollEntry, threads, boot, queues, mods
  <2> DEFINE e == ew[waiter.i]
             marked == [ew EXCEPT ![waiter.i].done = TRUE, ![waiter.i].fires = e.fires + 1]
  <2>1. /\ waiter.i \in 1..Len(ew) /\ e \in Entry /\ ew \in Seq(Entry) /\ DOMAIN ew = 1..Len(ew)
        /\ Len(ew) <= OSS_EARLY_MAX_WAIT
    <3>1. ew \in Seq(Entry) /\ Len(ew) \in Nat /\ waiter.i \in Nat \ {0} /\ Len(ew) <= OSS_EARLY_MAX_WAIT
      BY LenProperties DEF IInv, TypeOK, ScanTypes, ThreadTypes
    <3>2. waiter.i \in 1..Len(ew)
      BY <1>12, <3>1 DEF PollEntry
    <3> QED
      BY <3>1, <3>2, LenProperties, ElementOfSeq
  <2>2. e.mod \in Dlls /\ e.place \in Places /\ e.n + 1 \in Nat
    BY <2>1 DEF Entry
  <2>3. FiresOnce /\ e.fires = IF e.done THEN 1 ELSE 0
    BY <2>1 DEF IInv, FiresOnce
  \* An entry whose place shows its signature fires, or the thread goes on to the next.
  <2>4. \/ /\ ~e.done /\ text[e.place] = "plain"
           /\ text' = [text EXCEPT ![e.place] = e.mod]
           /\ ew' = WhenTextReady(marked, e.mod, e.n + 1)
           /\ waiter' = [waiter EXCEPT !.i = waiter.i + 1]
        \/ /\ \E p \in BOOLEAN : waiter' = [waiter EXCEPT !.i = waiter.i + 1, !.pending = p]
           /\ UNCHANGED <<text, ew>>
    <3>1. (IF e.done THEN waiter.pending ELSE NotReady) \in BOOLEAN
      BY DEF NotReady, IInv, TypeOK, ThreadTypes
    <3> QED
      BY <1>12, <3>1, Zenon DEF PollEntry
  <2>5. /\ marked \in Seq(Entry) /\ Len(marked) = Len(ew) /\ DOMAIN marked = 1..Len(ew)
        /\ \A i \in 1..Len(ew) : i # waiter.i => marked[i] = ew[i]
        /\ marked[waiter.i].done /\ marked[waiter.i].fires = e.fires + 1
    <3> DEFINE x == [e EXCEPT !.done = TRUE, !.fires = e.fires + 1]
    <3>1. x \in Entry /\ x.done /\ x.fires = e.fires + 1
      <4> HIDE DEF e
      <4>1. e.fires \in Nat /\ e.fires + 1 \in Nat
        BY <2>1 DEF Entry
      <4> QED
        BY <2>1, <4>1 DEF Entry
    <3>2. marked = [ew EXCEPT ![waiter.i] = x]
      BY <2>1 DEF Entry
    <3> HIDE DEF x, marked
    <3>3. /\ [ew EXCEPT ![waiter.i] = x] \in Seq(Entry)
          /\ Len([ew EXCEPT ![waiter.i] = x]) = Len(ew)
          /\ \A j \in 1..Len(ew) : [ew EXCEPT ![waiter.i] = x][j] = IF j = waiter.i THEN x ELSE ew[j]
      BY <2>1, <3>1, ExceptSeq
    <3> QED
      BY <2>1, <3>1, <3>2, <3>3, LenProperties
  <2> HIDE DEF marked, e
  <2>6. /\ WhenTextReady(marked, e.mod, e.n + 1) \in Seq(Entry)
        /\ Len(WhenTextReady(marked, e.mod, e.n + 1)) <= OSS_EARLY_MAX_WAIT
        /\ \A i \in DOMAIN WhenTextReady(marked, e.mod, e.n + 1) :
              \/ i \in DOMAIN marked /\ WhenTextReady(marked, e.mod, e.n + 1)[i] = marked[i]
              \/ /\ ~WhenTextReady(marked, e.mod, e.n + 1)[i].done
                 /\ WhenTextReady(marked, e.mod, e.n + 1)[i].fires = 0
    BY <2>1, <2>2, <2>5, Accepted
  <2>7. ScanTypes'
    <3>1. ew' \in Seq(Entry) /\ Len(ew') <= OSS_EARLY_MAX_WAIT
      BY <2>1, <2>4, <2>6
    <3> QED
      BY <2>0, <3>1 DEF IInv, TypeOK, ScanTypes
  <2>8. ThreadTypes'
    <3>0. waiter.i \in Nat \ {0}
      BY DEF IInv, TypeOK, ThreadTypes
    <3>1. waiter.i + 1 \in Nat \ {0}
      BY <3>0
    <3>2. waiter' \in [pc : {"none", "polling", "done", "gave up"}, i : Nat \ {0}, pending : BOOLEAN]
      BY <2>4, <3>1 DEF IInv, TypeOK, ThreadTypes
    <3> QED
      BY <2>0, <3>2 DEF IInv, TypeOK, ThreadTypes
  <2>9. GameTypes'
    BY <2>0, <2>2, <2>4 DEF IInv, TypeOK, GameTypes
  <2>10. FiresOnce'
    <3>1. CASE ew' = ew
      BY <2>3, <3>1 DEF FiresOnce
    <3>2. CASE ew' = WhenTextReady(marked, e.mod, e.n + 1) /\ ~e.done
      <4>1. \A i \in DOMAIN marked : marked[i].fires = IF marked[i].done THEN 1 ELSE 0
        <5>1. marked[waiter.i].fires = IF marked[waiter.i].done THEN 1 ELSE 0
          BY <2>3, <2>5, <3>2
        <5>2. \A i \in 1..Len(ew) : i # waiter.i => marked[i].fires = IF marked[i].done THEN 1 ELSE 0
          BY <2>1, <2>3, <2>5 DEF FiresOnce
        <5> QED
          BY <2>5, <5>1, <5>2
      <4> QED
        BY <2>6, <3>2, <4>1 DEF FiresOnce
    <3> QED
      BY <2>4, <3>1, <3>2
  <2>11. English'
    <3>1. CASE UNCHANGED text
      BY <2>0, <3>1, EnglishKept DEF IInv
    <3>2. CASE text[e.place] = "plain" /\ text' = [text EXCEPT ![e.place] = e.mod]
      <4>1. e.mod \notin Code /\ text \in [Places -> Dlls \cup Code]
        BY <2>2, NamesAssumption DEF IInv, TypeOK, GameTypes
      <4>2. \/ text'["seed"] = text["seed"]
            \/ text["seed"] # "cipher" /\ text'["seed"] \notin {"cipher", "torn", "voice"}
        BY <2>2, <3>2, <4>1 DEF Places, Code
      <4>3. text["je"] # "plain" => text'["je"] # "plain"
        BY <2>2, <3>2, <4>1 DEF Places, Code
      <4> QED
        BY <2>0, <4>2, <4>3, EnglishKept DEF IInv
    <3> QED
      BY <2>4, <3>1, <3>2
  <2> QED
    BY <2>0, <2>1, <2>2, <2>3, <2>4, <2>5, <2>6, <2>7, <2>8, <2>9, <2>10, <2>11,
       KeepRunTypes, KeepQueued, KeepInTurn, KeepOneRunner DEF IInv, TypeOK
<1>13. CASE PassEnds
  <2>0. UNCHANGED <<world, lpc, todo, nativeq, luaq, loaded, ew, voice, keeper, host, hwnd,
                    posted, armed, ui, inits, run, inited, text, bank, game, away>>
    BY <1>13 DEF PassEnds, threads, boot, queues, mods
  <2>1. ThreadTypes'
    <3> DEFINE W == [pc : {"none", "polling", "done", "gave up"}, i : Nat \ {0}, pending : BOOLEAN]
    <3>1. waiter \in W
      BY DEF IInv, TypeOK, ThreadTypes
    <3>2. [waiter EXCEPT !.pc = "done"] \in W
      BY <3>1
    <3>3. 1 \in Nat \ {0} /\ FALSE \in BOOLEAN
      OBVIOUS
    <3>4. [waiter EXCEPT !.i = 1, !.pending = FALSE] \in W
      BY <3>1, <3>3
    <3>5. waiter' \in W
      BY <1>13, <3>2, <3>4 DEF PassEnds
    <3> QED
      BY <2>0, <3>5 DEF IInv, TypeOK, ThreadTypes
  <2> QED
    BY <2>0, <2>1, KeepScanTypes, KeepRunTypes, KeepGameTypes, KeepQueued, KeepInTurn,
       KeepOneRunner, KeepFiresOnce, KeepEnglish DEF IInv, TypeOK
<1>14. CASE WaiterTimeout
  <2>0. UNCHANGED <<world, lpc, todo, nativeq, luaq, loaded, ew, voice, keeper, host, hwnd,
                    posted, armed, ui, inits, run, inited, text, bank, game, away>>
    BY <1>14 DEF WaiterTimeout, threads, boot, queues, mods
  <2>1. ThreadTypes'
    BY <1>14, <2>0, BoundsAssumption, NamesAssumption, DllsAssumption, WorldsAssumption DEF
       IInv, TypeOK, ScanTypes, ThreadTypes, GameTypes, Code, WaiterTimeout, Playing, Ticking
  <2> QED
    BY <2>0, <2>1, KeepScanTypes, KeepRunTypes, KeepGameTypes, KeepQueued, KeepInTurn,
       KeepOneRunner, KeepFiresOnce, KeepEnglish DEF IInv, TypeOK
\* The signature shows, so the code is decrypted.
<1>15. CASE DetectEdition
  <2>0. UNCHANGED <<world, lpc, todo, nativeq, luaq, loaded, ew, waiter, keeper, host, hwnd,
                    posted, armed, ui, inits, run, inited, text, bank, game, away>>
    BY <1>15 DEF DetectEdition, threads, boot, queues, mods
  <2>1. ThreadTypes'
    BY <1>15, <2>0, BoundsAssumption, NamesAssumption, DllsAssumption, WorldsAssumption DEF
       IInv, TypeOK, ScanTypes, ThreadTypes, GameTypes, Code, DetectEdition, Signature, Patches,
       Playing, Ticking
  <2>2. English'
    <3>1. text \in [Places -> Dlls \cup Code] /\ "je" \in Places /\ "seed" \in Places
      BY DEF IInv, TypeOK, GameTypes, Places
    <3>2. ThreadTypes /\ English /\ GameTypes
      BY DEF IInv, TypeOK
    <3>3. CASE world.edition = "EN"
      <4>1. text["seed"] = "plain" /\ voice' = [voice EXCEPT !.pc = "patching", !.todo = <<"je", "seed">>]
        BY <1>15, <3>3 DEF DetectEdition, Signature, Patches
      <4>2. voice'.pc = "patching" /\ voice'.todo = <<"je", "seed">> /\ voice'.refused = voice.refused
        BY <3>2, <4>1 DEF ThreadTypes
      <4>3. <<"je", "seed">> # <<"seed">>
        OBVIOUS
      <4> QED
        BY <2>0, <3>2, <3>3, <4>1, <4>2, <4>3 DEF English, Registrar, Patches
    <3> QED
      BY <2>0, <3>3 DEF English
  <2> QED
    BY <2>0, <2>1, <2>2, KeepScanTypes, KeepRunTypes, KeepGameTypes, KeepQueued, KeepInTurn,
       KeepOneRunner, KeepFiresOnce DEF IInv, TypeOK
<1>16. CASE VoiceTimeout
  <2>0. UNCHANGED <<world, lpc, todo, nativeq, luaq, loaded, ew, waiter, keeper, host, hwnd,
                    posted, armed, ui, inits, run, inited, text, bank, game, away>>
    BY <1>16 DEF VoiceTimeout, threads, boot, queues, mods
  <2>1. ThreadTypes'
    BY <1>16, <2>0, BoundsAssumption, NamesAssumption, DllsAssumption, WorldsAssumption DEF
       IInv, TypeOK, ScanTypes, ThreadTypes, GameTypes, Code, VoiceTimeout, Playing, Ticking
  <2>2. English'
    <3>1. voice'.pc = "done" /\ voice'.refused = voice.refused
      BY <1>16 DEF VoiceTimeout, IInv, TypeOK, ThreadTypes
    <3> QED
      BY <2>0, <3>1, EnglishKept DEF IInv
  <2> QED
    BY <2>0, <2>1, <2>2, KeepScanTypes, KeepRunTypes, KeepGameTypes, KeepQueued, KeepInTurn,
       KeepOneRunner, KeepFiresOnce DEF IInv, TypeOK
\* The order of the two patches is what counts.
<1>17. CASE PatchRefused
  <2>0. UNCHANGED <<world, lpc, todo, nativeq, luaq, loaded, ew, waiter, keeper, host, hwnd,
                    posted, armed, ui, inits, run, inited, text, bank, game, away>>
    BY <1>17 DEF PatchRefused, threads, boot, queues, mods
  <2>1. ThreadTypes'
    <3>1. ThreadTypes /\ voice.pc \in {"patching", "writing"}
      BY <1>17 DEF PatchRefused, IInv, TypeOK
    <3>2. \/ VoicePatched = [voice EXCEPT !.todo = <<"seed">>]
          \/ VoicePatched = [voice EXCEPT !.todo = <<>>, !.pc = "done"]
      BY <3>1, Patched
    <3>3. PICK b \in BOOLEAN : voice' = [VoicePatched EXCEPT !.refused = b]
      <4>1. (VoicePatched.refused \/ Head(voice.todo) = "je") \in BOOLEAN
        OBVIOUS
      <4> QED
        BY <1>17, <4>1, Zenon DEF PatchRefused
    <3> DEFINE V == [pc : {"off", "polling", "patching", "writing", "done"},
                     todo : {<<"je", "seed">>, <<"je">>, <<"seed">>, <<>>},
                     stolen : Dlls \cup Code, refused : BOOLEAN]
    <3>4. voice' \in V
      BY <3>1, <3>2, <3>3 DEF ThreadTypes
    <3>5. voice'.pc \in {"patching", "writing"} => voice'.todo # <<>>
      <4>1. <<"seed">> # <<>>
        OBVIOUS
      <4>2. CASE VoicePatched = [voice EXCEPT !.todo = <<"seed">>]
        BY <3>1, <3>3, <4>1, <4>2 DEF ThreadTypes
      <4>3. CASE VoicePatched = [voice EXCEPT !.todo = <<>>, !.pc = "done"]
        BY <3>1, <3>3, <4>3 DEF ThreadTypes
      <4> QED
        BY <3>2, <4>2, <4>3
    <3> QED
      BY <2>0, <3>1, <3>4, <3>5 DEF ThreadTypes
  <2>2. English'
    <3>1. text \in [Places -> Dlls \cup Code] /\ "je" \in Places /\ "seed" \in Places
      BY DEF IInv, TypeOK, GameTypes, Places
    <3>2. ThreadTypes /\ English /\ GameTypes
      BY DEF IInv, TypeOK
    <3>3. voice.pc = "patching" /\ voice' = [VoicePatched EXCEPT !.refused = VoicePatched.refused \/ Head(voice.todo) = "je"]
      BY <1>17 DEF PatchRefused
    <3>4. CASE world.edition = "EN" /\ voice.todo = <<"je", "seed">>
      \* The registrar is refused: from here on `refused` accounts for the monsters.
      <4>1. Head(voice.todo) = "je" /\ VoicePatched = [voice EXCEPT !.todo = <<"seed">>] /\ <<"je", "seed">> # <<"seed">>
        BY <3>2, <3>3, <3>4, Patched
      <4>2. voice' = [VoicePatched EXCEPT !.refused = TRUE]
        BY <3>3, <4>1
      <4>3. voice'.pc = "patching" /\ voice'.todo = <<"seed">> /\ voice'.refused
        BY <3>2, <3>3, <4>1, <4>2 DEF ThreadTypes
      <4> QED
        BY <2>0, <3>2, <3>3, <4>3 DEF English, Registrar, Patches
    <3>5. CASE world.edition = "EN" /\ voice.todo = <<"seed">>
      <4>1. Head(voice.todo) = "seed" /\ VoicePatched = [voice EXCEPT !.todo = <<>>, !.pc = "done"]
        <5>1. <<"seed">>[1] # <<"je", "seed">>[1] /\ <<"seed">>[1] # <<"je">>[1]
          OBVIOUS
        <5> QED
          BY <3>2, <3>3, <3>5, <5>1, Patched
      <4>2. VoicePatched.refused = voice.refused
        BY <3>2, <4>1 DEF ThreadTypes
      <4>3. voice' = [VoicePatched EXCEPT !.refused = voice.refused]
        <5>1. voice.refused \in BOOLEAN /\ ~(Head(voice.todo) = "je")
          BY <3>2, <4>1 DEF ThreadTypes
        <5>2. (voice.refused \/ Head(voice.todo) = "je") = voice.refused
          BY <5>1
        <5> QED
          BY <3>3, <4>2, <5>2
      <4>4. voice'.pc = "done" /\ voice'.refused = voice.refused
        BY <3>2, <4>1, <4>3 DEF ThreadTypes
      <4> QED
        BY <2>0, <4>4, EnglishKept DEF IInv
    <3> QED
      BY <2>0, <3>2, <3>3, <3>4, <3>5 DEF English, Patches
  <2> QED
    BY <2>0, <2>1, <2>2, KeepScanTypes, KeepRunTypes, KeepGameTypes, KeepQueued, KeepInTurn,
       KeepOneRunner, KeepFiresOnce DEF IInv, TypeOK
<1>18. CASE RegistrarPatch
  <2>0. UNCHANGED <<world, lpc, todo, nativeq, luaq, loaded, ew, waiter, keeper, host, hwnd,
                    posted, armed, ui, inits, run, inited, bank, game, away>>
    BY <1>18 DEF RegistrarPatch, threads, boot, queues, mods
  <2>1. ThreadTypes'
    <3>1. ThreadTypes /\ voice.pc \in {"patching", "writing"}
      BY <1>18 DEF RegistrarPatch, IInv, TypeOK
    <3>2. \/ VoicePatched = [voice EXCEPT !.todo = <<"seed">>]
          \/ VoicePatched = [voice EXCEPT !.todo = <<>>, !.pc = "done"]
      BY <3>1, Patched
    <3>3. voice' = VoicePatched
      BY <1>18 DEF RegistrarPatch
    <3> DEFINE V == [pc : {"off", "polling", "patching", "writing", "done"},
                     todo : {<<"je", "seed">>, <<"je">>, <<"seed">>, <<>>},
                     stolen : Dlls \cup Code, refused : BOOLEAN]
    <3>4. voice' \in V
      BY <3>1, <3>2, <3>3 DEF ThreadTypes
    <3>5. voice'.pc \in {"patching", "writing"} => voice'.todo # <<>>
      <4>1. <<"seed">> # <<>>
        OBVIOUS
      <4>2. CASE VoicePatched = [voice EXCEPT !.todo = <<"seed">>]
        BY <3>1, <3>3, <4>1, <4>2 DEF ThreadTypes
      <4>3. CASE VoicePatched = [voice EXCEPT !.todo = <<>>, !.pc = "done"]
        BY <3>1, <3>3, <4>3 DEF ThreadTypes
      <4> QED
        BY <3>2, <4>2, <4>3
    <3> QED
      BY <2>0, <3>1, <3>4, <3>5 DEF ThreadTypes
  <2>2. GameTypes'
    BY <1>18, <2>0, BoundsAssumption, NamesAssumption, DllsAssumption, WorldsAssumption DEF
       IInv, TypeOK, ScanTypes, GameTypes, Code, Places, RegistrarPatch, VoicePatched, Playing,
       Ticking
  <2>3. English'
    <3>1. text \in [Places -> Dlls \cup Code] /\ "je" \in Places /\ "seed" \in Places
      BY DEF IInv, TypeOK, GameTypes, Places
    <3>2. ThreadTypes /\ English /\ GameTypes
      BY DEF IInv, TypeOK
    <3>3. /\ voice.pc = "patching" /\ Head(voice.todo) = "je"
          /\ voice' = VoicePatched /\ text' = [text EXCEPT !["je"] = "voice"]
      BY <1>18 DEF RegistrarPatch
    <3>4. text'["je"] = "voice" /\ text'["seed"] = text["seed"]
      BY <3>1, <3>3
    <3>5. voice'.refused = voice.refused /\ (voice'.pc = "done" \/ (voice'.pc = "patching" /\ voice'.todo = <<"seed">>))
      BY <3>2, <3>3, Patched DEF ThreadTypes
    <3> QED
      BY <2>0, <3>2, <3>3, <3>4, <3>5 DEF English, Registrar, Patches
  <2> QED
    BY <2>0, <2>1, <2>2, <2>3, KeepScanTypes, KeepRunTypes, KeepQueued, KeepInTurn,
       KeepOneRunner, KeepFiresOnce DEF IInv, TypeOK
\* The seed hook is begun when the registrar is behind the waiter.
<1>19. CASE SeedHookBegin
  <2>0. UNCHANGED <<world, lpc, todo, nativeq, luaq, loaded, ew, waiter, keeper, host, hwnd,
                    posted, armed, ui, inits, run, inited, bank, game, away>>
    BY <1>19 DEF SeedHookBegin, threads, boot, queues, mods
  <2>1. ThreadTypes'
    <3>1. ThreadTypes /\ voice.pc = "patching" /\ text["seed"] \in Dlls \cup Code
      BY <1>19 DEF SeedHookBegin, IInv, TypeOK, GameTypes, Places
    <3>2. voice' = [voice EXCEPT !.pc = "writing", !.stolen = text["seed"]]
      BY <1>19 DEF SeedHookBegin
    <3> QED
      BY <2>0, <3>1, <3>2 DEF ThreadTypes
  <2>2. GameTypes'
    BY <1>19, <2>0, BoundsAssumption, NamesAssumption, DllsAssumption, WorldsAssumption DEF
       IInv, TypeOK, ScanTypes, GameTypes, Code, Places, SeedHookBegin, Playing, Ticking
  <2>3. English'
    <3>1. text \in [Places -> Dlls \cup Code] /\ "je" \in Places /\ "seed" \in Places
      BY DEF IInv, TypeOK, GameTypes, Places
    <3>2. ThreadTypes /\ English /\ GameTypes
      BY DEF IInv, TypeOK
    <3>3. /\ voice.pc = "patching" /\ Head(voice.todo) = "seed"
          /\ voice' = [voice EXCEPT !.pc = "writing", !.stolen = text["seed"]]
          /\ text' = [text EXCEPT !["seed"] = "torn"]
      BY <1>19 DEF SeedHookBegin
    <3>4. text'["je"] = text["je"] /\ text'["seed"] = "torn"
      BY <3>1, <3>3
    <3>5. /\ voice.todo = <<"seed">>
          /\ voice'.pc = "writing" /\ voice'.todo = voice.todo /\ voice'.refused = voice.refused
      BY <3>2, <3>3, Patched DEF ThreadTypes
    <3> QED
      BY <2>0, <3>2, <3>3, <3>4, <3>5 DEF English, Registrar
  <2> QED
    BY <2>0, <2>1, <2>2, <2>3, KeepScanTypes, KeepRunTypes, KeepQueued, KeepInTurn,
       KeepOneRunner, KeepFiresOnce DEF IInv, TypeOK
<1>20. CASE SeedHookEnd
  <2>0. UNCHANGED <<world, lpc, todo, nativeq, luaq, loaded, ew, waiter, keeper, host, hwnd,
                    posted, armed, ui, inits, run, inited, bank, game, away>>
    BY <1>20 DEF SeedHookEnd, threads, boot, queues, mods
  <2>1. ThreadTypes'
    <3>1. ThreadTypes /\ voice.pc \in {"patching", "writing"}
      BY <1>20 DEF SeedHookEnd, IInv, TypeOK
    <3>2. \/ VoicePatched = [voice EXCEPT !.todo = <<"seed">>]
          \/ VoicePatched = [voice EXCEPT !.todo = <<>>, !.pc = "done"]
      BY <3>1, Patched
    <3>3. PICK pc \in {"patching", "done"} :
             /\ voice' = [VoicePatched EXCEPT !.pc = pc]
             /\ VoicePatched.pc = "done" => pc = "done"
      <4>1. VoicePatched.pc \in {"writing", "done"}
        BY <1>20, <3>1, <3>2 DEF SeedHookEnd, ThreadTypes
      <4> QED
        BY <1>20, <4>1 DEF SeedHookEnd
    <3> DEFINE V == [pc : {"off", "polling", "patching", "writing", "done"},
                     todo : {<<"je", "seed">>, <<"je">>, <<"seed">>, <<>>},
                     stolen : Dlls \cup Code, refused : BOOLEAN]
    <3>4. voice' \in V
      BY <3>1, <3>2, <3>3 DEF ThreadTypes
    <3>5. voice'.pc \in {"patching", "writing"} => voice'.todo # <<>>
      <4>1. <<"seed">> # <<>>
        OBVIOUS
      <4>2. CASE VoicePatched = [voice EXCEPT !.todo = <<"seed">>]
        BY <3>1, <3>3, <4>1, <4>2 DEF ThreadTypes
      <4>3. CASE VoicePatched = [voice EXCEPT !.todo = <<>>, !.pc = "done"]
        BY <3>1, <3>3, <4>3 DEF ThreadTypes
      <4> QED
        BY <3>2, <4>2, <4>3
    <3> QED
      BY <2>0, <3>1, <3>4, <3>5 DEF ThreadTypes
  <2>2. GameTypes'
    BY <1>20, <2>0, BoundsAssumption, NamesAssumption, DllsAssumption, WorldsAssumption DEF
       IInv, TypeOK, ScanTypes, GameTypes, Code, Places, SeedHookEnd, VoicePatched, Playing,
       Ticking
  <2>3. English'
    <3>1. text \in [Places -> Dlls \cup Code] /\ "je" \in Places /\ "seed" \in Places
      BY DEF IInv, TypeOK, GameTypes, Places
    <3>2. ThreadTypes /\ English /\ GameTypes
      BY DEF IInv, TypeOK
    <3>3. /\ voice.pc = "writing" /\ text' = [text EXCEPT !["seed"] = "voice"]
          /\ voice' = [VoicePatched EXCEPT !.pc = IF VoicePatched.pc = "writing" THEN "patching" ELSE VoicePatched.pc]
      BY <1>20 DEF SeedHookEnd
    <3>4. text'["je"] = text["je"] /\ text'["seed"] = "voice"
      BY <3>1, <3>3
    <3>5. CASE world.edition = "EN"
      <4>1. voice.todo = <<"seed">> /\ <<"seed">>[1] # <<"je", "seed">>[1] /\ <<"seed">>[1] # <<"je">>[1]
        BY <3>2, <3>3, <3>5 DEF English
      <4>2. VoicePatched = [voice EXCEPT !.todo = <<>>, !.pc = "done"]
        BY <3>2, <3>3, <4>1, Patched
      <4>3. voice'.pc = "done" /\ voice'.refused = voice.refused
        BY <3>2, <3>3, <4>2 DEF ThreadTypes
      <4> QED
        BY <2>0, <3>2, <3>3, <3>4, <4>1, <4>3 DEF English, Registrar
    <3> QED
      BY <2>0, <3>5 DEF English
  <2> QED
    BY <2>0, <2>1, <2>2, <2>3, KeepScanTypes, KeepRunTypes, KeepQueued, KeepInTurn,
       KeepOneRunner, KeepFiresOnce DEF IInv, TypeOK
<1>21. CASE KeepActive
  <2>0. UNCHANGED <<world, lpc, todo, nativeq, luaq, loaded, ew, waiter, voice, keeper, host,
                    hwnd, armed, ui, inits, run, inited, text, bank, game, away>>
    BY <1>21 DEF KeepActive, threads, boot, queues, mods
  <2>1. RunTypes'
    BY <1>21, <2>0, BoundsAssumption, NamesAssumption, DllsAssumption, WorldsAssumption DEF
       IInv, TypeOK, RunTypes, ScanTypes, Turn, KeepActive, Playing, Ticking
  <2>2. OneRunner'
    BY <1>21, <2>0, BoundsAssumption, NamesAssumption, DllsAssumption, WorldsAssumption DEF
       IInv, TypeOK, RunTypes, OneRunner, EngineMay, Begun, KeepActive, Playing, Ticking
  <2> QED
    BY <2>0, <2>1, <2>2, KeepScanTypes, KeepThreadTypes, KeepGameTypes, KeepQueued,
       KeepInTurn, KeepFiresOnce, KeepEnglish DEF IInv, TypeOK
\* Nothing was patched yet.
<1>22. CASE Decrypt
  <2>0. UNCHANGED <<world, lpc, todo, nativeq, luaq, loaded, ew, waiter, voice, keeper, host,
                    hwnd, posted, armed, ui, inits, run, inited, bank, game, away>>
    BY <1>22 DEF Decrypt, threads, boot, queues, mods
  <2>1. GameTypes'
    BY <1>22, <2>0, BoundsAssumption, NamesAssumption, DllsAssumption, WorldsAssumption DEF
       IInv, TypeOK, ScanTypes, GameTypes, Code, Places, Decrypt, Playing, Ticking
  <2>2. English'
    <3>1. text \in [Places -> Dlls \cup Code] /\ "je" \in Places /\ "seed" \in Places
      BY DEF IInv, TypeOK, GameTypes, Places
    <3>2. ThreadTypes /\ English /\ GameTypes
      BY DEF IInv, TypeOK
    <3>3. text["seed"] = "cipher" /\ text'["seed"] = "plain"
      BY <1>22, <3>1 DEF Decrypt
    <3> QED
      BY <2>0, <3>2, <3>3 DEF English, Registrar
  <2> QED
    BY <2>0, <2>1, <2>2, KeepScanTypes, KeepThreadTypes, KeepRunTypes, KeepQueued,
       KeepInTurn, KeepOneRunner, KeepFiresOnce DEF IInv, TypeOK
<1>23. CASE ShowLauncher
  <2>0. UNCHANGED <<world, lpc, todo, nativeq, luaq, loaded, ew, waiter, voice, keeper, host,
                    hwnd, posted, armed, ui, inits, run, inited, text, bank, away>>
    BY <1>23 DEF ShowLauncher, threads, boot, queues, mods
  <2>1. GameTypes'
    BY <1>23, <2>0 DEF ShowLauncher, Playing, IInv, TypeOK, GameTypes
  <2>2. game'.sound = game.sound
    BY <1>23 DEF ShowLauncher, IInv, TypeOK, GameTypes
  <2>3. English'
    BY <2>0, <2>2, EnglishKept DEF IInv
  <2> QED
    BY <2>0, <2>1, <2>2, <2>3, KeepScanTypes, KeepThreadTypes, KeepRunTypes, KeepQueued,
       KeepInTurn, KeepOneRunner, KeepFiresOnce DEF IInv, TypeOK
\* The bank is there through the seed hook, or because it was.
<1>24. CASE LoadBank
  <2>0. UNCHANGED <<world, lpc, todo, nativeq, luaq, loaded, ew, waiter, voice, keeper, host,
                    hwnd, posted, armed, ui, inits, run, inited, text, away>>
    BY <1>24 DEF LoadBank, threads, boot, queues, mods
  <2>1. GameTypes'
    BY <1>24, <2>0, BoundsAssumption, NamesAssumption, DllsAssumption, WorldsAssumption DEF
       IInv, TypeOK, ScanTypes, GameTypes, Code, Places, LoadBank, Derailed, Playing, Ticking
  <2>2. English'
    <3>1. game'.sound # "silent" \/ game'.sound = game.sound
      BY <1>24 DEF LoadBank, IInv, TypeOK, GameTypes
    <3>2. world.edition = "EN" /\ bank' => bank \/ text["seed"] = "voice"
      BY <1>24 DEF LoadBank
    <3> QED
      BY <2>0, <3>1, <3>2 DEF IInv, English, Registrar
  <2> QED
    BY <2>0, <2>1, <2>2, KeepScanTypes, KeepThreadTypes, KeepRunTypes, KeepQueued,
       KeepInTurn, KeepOneRunner, KeepFiresOnce DEF IInv, TypeOK
\* With the retail jump in place the registrar must have been refused.
<1>25. CASE RegisterSounds
  <2>0. UNCHANGED <<world, lpc, todo, nativeq, luaq, loaded, ew, waiter, voice, keeper, host,
                    hwnd, posted, armed, ui, inits, run, inited, text, bank, away>>
    BY <1>25 DEF RegisterSounds, threads, boot, queues, mods
  <2>1. GameTypes'
    BY <1>25, <2>0, BoundsAssumption, NamesAssumption, DllsAssumption, WorldsAssumption DEF
       IInv, TypeOK, ScanTypes, GameTypes, Code, Places, RegisterSounds, Playing, Ticking
  <2>2. English'
    <3>1. game'.sound = "silent" => bank /\ text["je"] = "plain"
      BY <1>25 DEF RegisterSounds, IInv, TypeOK, GameTypes
    <3> QED
      BY <2>0, <3>1 DEF IInv, English, Registrar
  <2> QED
    BY <2>0, <2>1, <2>2, KeepScanTypes, KeepThreadTypes, KeepRunTypes, KeepQueued,
       KeepInTurn, KeepOneRunner, KeepFiresOnce DEF IInv, TypeOK
<1>26. CASE CreateWindow
  <2>0. UNCHANGED <<world, lpc, todo, nativeq, luaq, loaded, ew, waiter, voice, keeper, host,
                    hwnd, posted, armed, ui, inits, run, inited, text, bank, away>>
    BY <1>26 DEF CreateWindow, threads, boot, queues, mods
  <2>1. GameTypes'
    BY <1>26, <2>0 DEF CreateWindow, Playing, IInv, TypeOK, GameTypes
  <2>2. game'.sound = game.sound
    BY <1>26 DEF CreateWindow, IInv, TypeOK, GameTypes
  <2>3. English'
    BY <2>0, <2>2, EnglishKept DEF IInv
  <2> QED
    BY <2>0, <2>1, <2>2, <2>3, KeepScanTypes, KeepThreadTypes, KeepRunTypes, KeepQueued,
       KeepInTurn, KeepOneRunner, KeepFiresOnce DEF IInv, TypeOK
\* The safepoint hook, and with it the engine's turn.
<1>27. CASE BootMessage
  <2>0. UNCHANGED <<world, lpc, todo, nativeq, luaq, loaded, ew, waiter, voice, keeper, host,
                    hwnd, ui, inits, run, inited, bank, game, away>>
    BY <1>27 DEF BootMessage, threads, boot, queues, mods
  <2>1. RunTypes'
    BY <1>27, <2>0, BoundsAssumption, NamesAssumption, DllsAssumption, WorldsAssumption DEF
       IInv, TypeOK, RunTypes, ScanTypes, Turn, BootMessage, Playing, Ticking
  <2>2. GameTypes'
    BY <1>27, <2>0, BoundsAssumption, NamesAssumption, DllsAssumption, WorldsAssumption DEF
       IInv, TypeOK, ScanTypes, GameTypes, Code, Places, BootMessage, Playing, Ticking
  <2>3. OneRunner'
    BY <1>27, <2>0, BoundsAssumption, NamesAssumption, DllsAssumption, WorldsAssumption DEF
       IInv, TypeOK, RunTypes, OneRunner, EngineMay, Begun, BootMessage, Playing, Ticking
  <2>4. English'
    <3>1. text'["seed"] = text["seed"] /\ text'["je"] = text["je"]
      BY <1>27 DEF BootMessage, IInv, TypeOK, GameTypes, Places
    <3> QED
      BY <2>0, <3>1, EnglishKept DEF IInv
  <2> QED
    BY <2>0, <2>1, <2>2, <2>3, <2>4, KeepScanTypes, KeepThreadTypes, KeepQueued, KeepInTurn,
       KeepFiresOnce DEF IInv, TypeOK
<1>28. CASE ActivateMessage
  <2>0. UNCHANGED <<world, lpc, todo, nativeq, luaq, loaded, ew, waiter, voice, keeper, host,
                    hwnd, armed, ui, inits, run, inited, text, bank, away>>
    BY <1>28 DEF ActivateMessage, threads, boot, queues, mods
  <2>1. RunTypes'
    BY <1>28, <2>0, BoundsAssumption, NamesAssumption, DllsAssumption, WorldsAssumption DEF
       IInv, TypeOK, RunTypes, ScanTypes, Turn, ActivateMessage, Playing, Ticking
  <2>2. GameTypes'
    BY <1>28, <2>0, BoundsAssumption, NamesAssumption, DllsAssumption, WorldsAssumption DEF
       IInv, TypeOK, ScanTypes, GameTypes, Code, Places, ActivateMessage, Playing, Ticking
  <2>3. OneRunner'
    BY <1>28, <2>0, BoundsAssumption, NamesAssumption, DllsAssumption, WorldsAssumption DEF
       IInv, TypeOK, RunTypes, OneRunner, EngineMay, Begun, ActivateMessage, Playing, Ticking
  <2>4. English'
    <3>1. game'.sound = game.sound
      BY <1>28 DEF ActivateMessage, IInv, TypeOK, GameTypes
    <3> QED
      BY <2>0, <3>1, EnglishKept DEF IInv
  <2> QED
    BY <2>0, <2>1, <2>2, <2>3, <2>4, KeepScanTypes, KeepThreadTypes, KeepQueued, KeepInTurn,
       KeepFiresOnce DEF IInv, TypeOK
\* The one time the deferred mods are run by the engine.
<1>29. CASE FirstFrame
  <2>0. UNCHANGED <<world, lpc, todo, nativeq, luaq, loaded, ew, waiter, voice, keeper, host,
                    hwnd, armed, ui, inits, text, bank, game, away>>
    BY <1>29 DEF FirstFrame, threads, boot, queues, mods
  <2>1. RunTypes'
    <3>1. inits = <<>> /\ run.by = "nobody"
      BY <1>29 DEF FirstFrame, IInv, OneRunner, Begun, EngineMay
    <3>2. run'.todo \in Seq(Dlls \cup LuaMods) /\ InTurn'
      BY <1>29, <2>0, <3>1, Starts DEF FirstFrame, IInv, TypeOK
    <3> QED
      BY <1>29, <2>0, <3>2 DEF FirstFrame, IInv, TypeOK, RunTypes
  <2>2. InTurn'
    <3>1. inits = <<>> /\ run.by = "nobody"
      BY <1>29 DEF FirstFrame, IInv, OneRunner, Begun, EngineMay
    <3> QED
      BY <1>29, <2>0, <3>1, Starts DEF FirstFrame, IInv, TypeOK
  <2>3. OneRunner'
    BY <1>29, <2>0, BoundsAssumption, NamesAssumption, DllsAssumption, WorldsAssumption DEF
       IInv, TypeOK, RunTypes, OneRunner, EngineMay, Begun, FirstFrame, Playing, Ticking
  <2> QED
    BY <2>0, <2>1, <2>2, <2>3, KeepScanTypes, KeepThreadTypes, KeepGameTypes, KeepQueued,
       KeepFiresOnce, KeepEnglish DEF IInv, TypeOK
<1>30. CASE ClickLaunch
  <2>0. UNCHANGED <<world, lpc, todo, nativeq, luaq, loaded, ew, waiter, voice, keeper, host,
                    hwnd, posted, armed, ui, inits, run, inited, text, bank, away>>
    BY <1>30 DEF ClickLaunch, threads, boot, queues, mods
  <2>1. GameTypes'
    BY <1>30, <2>0 DEF ClickLaunch, Playing, IInv, TypeOK, GameTypes
  <2>2. game'.sound = game.sound
    BY <1>30 DEF ClickLaunch, IInv, TypeOK, GameTypes
  <2>3. English'
    BY <2>0, <2>2, EnglishKept DEF IInv
  <2> QED
    BY <2>0, <2>1, <2>2, <2>3, KeepScanTypes, KeepThreadTypes, KeepRunTypes, KeepQueued,
       KeepInTurn, KeepOneRunner, KeepFiresOnce DEF IInv, TypeOK
<1>31. CASE SwitchWindow
  <2>0. UNCHANGED <<world, lpc, todo, nativeq, luaq, loaded, ew, waiter, voice, keeper, host,
                    hwnd, posted, armed, ui, inits, run, inited, text, bank>>
    BY <1>31 DEF SwitchWindow, threads, boot, queues, mods
  <2>1. GameTypes'
    <3>1. PICK f \in BOOLEAN, a \in BOOLEAN : game' = [game EXCEPT !.focus = f, !.active = a]
      <4>1. (~game.focus) \in BOOLEAN /\ (game.window /\ ~game.focus) \in BOOLEAN
        OBVIOUS
      <4> QED
        BY <1>31, <4>1, Zenon DEF SwitchWindow
    <3>2. away' \in 0..MaxUnfocus
      BY <1>31, BoundsAssumption DEF SwitchWindow, IInv, TypeOK, GameTypes
    <3> QED
      BY <2>0, <3>1, <3>2 DEF IInv, TypeOK, GameTypes
  <2>2. game'.sound = game.sound
    <3>1. game.sound = [game EXCEPT !.focus = ~game.focus, !.active = game.window /\ ~game.focus].sound
      BY DEF IInv, TypeOK, GameTypes
    <3> QED
      BY <1>31, <3>1 DEF SwitchWindow
  <2>3. English'
    BY <2>0, <2>2, EnglishKept DEF IInv
  <2> QED
    BY <2>0, <2>1, <2>2, <2>3, KeepScanTypes, KeepThreadTypes, KeepRunTypes, KeepQueued,
       KeepInTurn, KeepOneRunner, KeepFiresOnce DEF IInv, TypeOK
<1>32. CASE UNCHANGED vars
  BY <1>32, KeepScanTypes, KeepThreadTypes, KeepRunTypes, KeepGameTypes, KeepQueued,
     KeepInTurn, KeepOneRunner, KeepFiresOnce, KeepEnglish DEF IInv, TypeOK, vars, threads,
     boot, queues, mods
<1> QED
  BY <1>1, <1>2, <1>3, <1>4, <1>5, <1>6, <1>7, <1>8, <1>9, <1>10, <1>11, <1>12, <1>13, <1>14,
     <1>15, <1>16, <1>17, <1>18, <1>19, <1>20, <1>21, <1>22, <1>23, <1>24, <1>25, <1>26, <1>27,
     <1>28, <1>29, <1>30, <1>31, <1>32 DEF Next, LoaderThread, VoiceWaiter, Engine, User

\* Types, queues, turns and the order of the patches, at every moment of a start.
THEOREM Invariant == Spec => []IInv
  BY InitIInv, StepIInv, PTL DEF Spec

\* The variables keep their types.
THEOREM TypeCorrect == Spec => []TypeOK
<1>1. IInv => TypeOK
  BY DEF IInv
<1> QED
  BY <1>1, Invariant, PTL

\* g_inited, run_deferred, and the fallback of loader.c:225.
THEOREM InitsInOrderHolds == Spec => []InitsInOrder
<1>1. ASSUME IInv PROVE InitsInOrder
  <2>1. /\ \A i, j \in DOMAIN Deferred : i # j => Deferred[i] # Deferred[j]
        /\ \A i, j \in DOMAIN Deferred : i < j /\ Deferred[i] \in LuaMods => Deferred[j] \in LuaMods
        /\ DOMAIN Deferred = 1..Len(Deferred) /\ Len(Deferred) \in Nat
    BY <1>1, DeferredOrder, LenProperties DEF IInv, TypeOK
  <2>2. DOMAIN inits = 1..Len(inits) /\ Len(inits) \in Nat /\ Len(run.todo) \in Nat
    BY <1>1, LenProperties DEF IInv, TypeOK, RunTypes
  <2>3. ASSUME NEW i \in DOMAIN inits
        PROVE  i \in DOMAIN Deferred /\ inits[i].mod = Deferred[i]
    <3>1. inits # <<>>
      BY <2>3, LenProperties, EmptySeq
    <3>2. Len(inits) + Len(run.todo) = Len(Deferred) /\ inits[i].mod = Deferred[i]
      BY <1>1, <2>3, <3>1 DEF IInv, InTurn, Begun
    <3>3. \A a, b, c \in Nat : a + b = c => 1..a \subseteq 1..c
      OBVIOUS
    <3>4. 1..Len(inits) \subseteq 1..Len(Deferred)
      BY <2>1, <2>2, <3>2, <3>3
    <3> QED
      BY <2>1, <2>2, <2>3, <3>2, <3>4
  <2>4. ASSUME NEW i \in DOMAIN inits, NEW j \in DOMAIN inits
        PROVE  /\ inits[i].by = inits[j].by
               /\ i < j => inits[i].mod # inits[j].mod
               /\ (i < j /\ inits[i].mod \in LuaMods) => inits[j].mod \in LuaMods
    <3>1. inits # <<>>
      BY <2>4, LenProperties, EmptySeq
    <3>2. inits[i].by = inits[j].by
      BY <1>1, <2>4, <3>1 DEF IInv, OneRunner, Begun, EngineMay
    <3>3. i < j => i # j
      BY <2>2, <2>4
    <3> QED
      BY <2>1, <2>3, <3>2, <3>3
  <2>5. inits # <<>> => lpc \in {"inline", "done"}
    BY <1>1 DEF IInv, OneRunner, Begun, EngineMay
  <2>6. (inits # <<>> /\ inits[1].by = "loader") => (~inited /\ armed = "no")
    <3>1. inits # <<>> => 1 \in DOMAIN inits
      BY <1>1, <2>2, EmptySeq DEF IInv, TypeOK, RunTypes
    <3> QED
      BY <1>1, <3>1 DEF IInv, OneRunner, EngineMay
  <2>7. \A i \in DOMAIN ew : ew[i].fires <= 1
    BY <1>1 DEF IInv, FiresOnce
  <2> QED
    BY <2>4, <2>5, <2>6, <2>7 DEF InitsInOrder
<1> QED
  BY <1>1, Invariant, PTL

\* install_registrar_patch before install_seed_hook (voice.c:158).
THEOREM MonstersHeardHolds == Spec => []MonstersHeard
<1>1. IInv => MonstersHeard
  BY DEF IInv, English, MonstersHeard
<1> QED
  BY <1>1, Invariant, PTL
=============================================================================
