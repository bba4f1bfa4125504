---------------------------- MODULE HookRegistry ----------------------------
(***************************************************************************)
(* The chained hook registry (core/hooks.c): the hook records, the chains  *)
(* of entry observers (Tier 1), the handles mods keep, the claim a typed   *)
(* hook (Tier 2) makes on an address, and the dispatcher that the game's   *)
(* calls reach through MinHook and a generated thunk, on the engine thread *)
(* and on any other thread of the game.                                    *)
(*                                                                         *)
(* An observer runs between a Run step and a Return or Fault step, and may *)
(* add and remove hooks and call hooked functions in between; mod code     *)
(* outside any dispatch (an init, a job, an on_frame callback) may too.    *)
(* Registrations are numbered; `reg` records what became of each.  MinHook *)
(* is external and appears through what hooks.c relies on.                 *)
(***************************************************************************)
EXTENDS Naturals, FiniteSets, SequencesExt

CONSTANTS VA,          \* addresses mods hook
          Mods,        \* mods
          Workers,     \* threads of the game other than the engine thread
          MAX_HOOKS,   \* hook records
          MAX_CB,      \* observers per record
          MAX_THUNKS,  \* thunks in the pool
          NoVA,        \* the address of a zeroed record
          Tidy,        \* the discipline of mods, see MayRemove and MayFault
          MaxRegs,     \* bound on the registrations of one behaviour
          MaxDepth     \* bound on the nesting of hooked calls

ASSUME BoundsAssumption == /\ MAX_HOOKS \in Nat \ {0} /\ MAX_CB \in Nat \ {0}
                           /\ MAX_THUNKS \in Nat /\ MaxRegs \in Nat /\ MaxDepth \in Nat
ASSUME NamesAssumption == NoVA \notin VA /\ Tidy \in BOOLEAN

VARIABLES hk,     \* g_hk: [used, tier, va, cb] per record
          busy,   \* the reentrancy flag of each record
          thunks, \* thunks taken from the pool, never given back
          mh,     \* MinHook: [state, rec] per address; rec is baked in the thunk
          flawed, \* addresses whose MH_EnableHook has failed
          nregs, reg,   \* registrations so far, and [mod, native, handle, state, by]
          refs,   \* live Lua registry references
          stack,  \* dispatches in progress on the engine thread, innermost last
          wpc     \* record whose flag each worker holds, 0 for none

recVars == <<hk, thunks, mh, flawed>>
regVars == <<nregs, reg, refs>>
vars == <<recVars, busy, regVars, stack, wpc>>

Rec == 1..MAX_HOOKS
Slot == 1..MAX_CB
RegId == 1..MaxRegs
Ref == 1..MaxRegs
Free == [used |-> FALSE, native |-> FALSE, ref |-> 0, id |-> 0]
ZeroRec == [used |-> FALSE, tier |-> 0, va |-> NoVA, cb |-> [s \in Slot |-> Free]]

Least(S) == CHOOSE x \in S : \A y \in S : x <= y
Top == Last(stack)

(***************************************************************************)
(* Records.                                                                *)
(***************************************************************************)
\* rec_for_va and alloc_rec; at most one element, none if there is no such record.
RecForVa(va) == {r \in Rec : hk[r].used /\ hk[r].va = va}
AllocRec == LET free == {r \in Rec : ~hk[r].used} IN IF free = {} THEN {} ELSE {Least(free)}

\* A record and a thunk for a new address.  MH_CreateHook keeps the thunk of an
\* earlier attempt ("already created"); the record of the new one is rec.
Created(va, rec) ==
    [mh EXCEPT ![va] = IF @.state = "none" THEN [state |-> "created", rec |-> rec] ELSE @]

\* alloc_thunk.
PoolLeft == thunks < MAX_THUNKS

Claim(va, rec, tier, cb) ==
    /\ PoolLeft
    /\ thunks' = thunks + 1
    /\ hk' = [hk EXCEPT ![rec] = [used |-> TRUE, tier |-> tier, va |-> va, cb |-> cb]]
    /\ mh' = [Created(va, rec) EXCEPT ![va].state = "enabled"]
    /\ busy' = [busy EXCEPT ![rec] = FALSE]
    /\ UNCHANGED flawed

\* MinHook refuses: on creation nothing but the thunk is lost; when it fails to
\* enable, the record is free again but the hook stays created.
ClaimFails(va, tier) ==
    /\ RecForVa(va) = {} /\ AllocRec # {} /\ PoolLeft
    /\ thunks' = thunks + 1
    /\ \/ mh[va].state = "none" /\ UNCHANGED <<hk, mh, busy, flawed>>
       \/ \E rec \in AllocRec :
             /\ hk' = [hk EXCEPT ![rec] = [ZeroRec EXCEPT !.tier = tier, !.va = va]]
             /\ mh' = Created(va, rec)
             /\ busy' = [busy EXCEPT ![rec] = FALSE]
             /\ flawed' = flawed \cup {va}
    /\ UNCHANGED <<regVars, stack, wpc>>

(***************************************************************************)
(* Calls of mods, all on the engine thread.                                *)
(***************************************************************************)
\* Mod m runs: outside every dispatch, or as the running observer.
Runs(m) == stack # <<>> => Top.running # 0 /\ reg[Top.running].mod = m

FreeSlotNext(rec) == {s \in Slot : s = 1 + Cardinality({x \in Slot : hk[rec].cb[x].used})}

\* chain_free_slot.
FreeSlot(rec) == IF \A s \in Slot : hk[rec].cb[s].used THEN {}
                 ELSE {Least({s \in Slot : ~hk[rec].cb[s].used})}

\* The new registration takes a reference (Lua only) and gets its handle.
NewRef == CHOOSE r \in Ref : r \notin refs

Registered(m, native, handle) ==
    /\ nregs' = nregs + 1
    /\ reg' = [reg EXCEPT ![nregs + 1] = [mod |-> m, native |-> native,
                                          handle |-> handle, state |-> "live", by |-> 0]]
    /\ refs' = IF native THEN refs ELSE refs \cup {NewRef}

\* What it leaves in a slot that held cb: a native one keeps the old reference.
Observer(native, cb) ==
    [used |-> TRUE, native |-> native, id |-> nregs + 1,
     ref |-> IF native THEN cb.ref ELSE NewRef]

\* Slot s of rec holds cb.
WithSlot(rec, s, cb) == [hk EXCEPT ![rec].cb[s] = cb]

\* mod.hook.entry / hook_entry on an address with a Tier-1 record.
EntryJoins(m, va, native) ==
    /\ Runs(m) /\ nregs < MaxRegs
    /\ \E rec \in RecForVa(va) : \E s \in FreeSlot(rec) :
          /\ hk[rec].tier = 1
          /\ hk' = WithSlot(rec, s, Observer(native, hk[rec].cb[s]))
          /\ Registered(m, native, <<rec, s>>)
    /\ UNCHANGED <<thunks, mh, flawed, busy, stack, wpc>>

\* On a new address.
EntryClaims(m, va, native) ==
    /\ Runs(m) /\ nregs < MaxRegs
    /\ RecForVa(va) = {}
    /\ \E rec \in AllocRec :
          /\ Claim(va, rec, 1, [ZeroRec.cb EXCEPT ![1] = Observer(native, Free)])
          /\ Registered(m, native, <<rec, 1>>)
    /\ UNCHANGED <<stack, wpc>>

\* mod.hook.typed on a new address (__mh_install).
Typed(m, va) ==
    /\ Runs(m)
    /\ RecForVa(va) = {}
    /\ \E rec \in AllocRec : Claim(va, rec, 2, ZeroRec.cb)
    /\ UNCHANGED <<regVars, stack, wpc>>

\* Registration k ends because of registration n.
Ended(k, state, n) == [reg EXCEPT ![k] = [@ EXCEPT !.state = state, !.by = n]]

\* A mod gives the handle of a hook back once.  It is not told that its hook was
\* disabled; a tidy one knows all the same.
MayRemove(n) == reg[n].state = "live" \/ (~Tidy /\ reg[n].state = "faulted")

ReleasedNever(cb) == refs
Released(cb) == IF cb.native THEN refs ELSE refs \ {cb.ref}

\* hook.remove with the handle of registration n: it removes whatever observer
\* is in that slot by now.
RemoveHandle(n) ==
    /\ MayRemove(n) /\ Runs(reg[n].mod)
    /\ LET rec == reg[n].handle[1]
           s == reg[n].handle[2]
           cb == hk[rec].cb[s]
       IN /\ hk[rec].used /\ hk[rec].tier = 1 /\ cb.used
          /\ hk' = WithSlot(rec, s, [cb EXCEPT !.used = FALSE])
          /\ refs' = Released(cb)
          /\ reg' = Ended(cb.id, "removed", n)
    /\ UNCHANGED <<thunks, mh, flawed, busy, nregs, stack, wpc>>

(***************************************************************************)
(* Dispatch (hook_dispatch).                                               *)
(***************************************************************************)
Enters(va) == mh[va].state = "enabled" /\ hk[mh[va].rec].tier = 1
NotBusyNever(rec) == TRUE
NotBusy(rec) == ~busy[rec]

\* The game calls va on the engine thread, or a running observer does.  A busy
\* record is skipped: no step.
Call(va) ==
    /\ stack # <<>> => Top.running # 0
    /\ Len(stack) < MaxDepth
    /\ Enters(va)
    /\ LET rec == mh[va].rec
       IN /\ NotBusy(rec)
          /\ busy' = [busy EXCEPT ![rec] = TRUE]
          /\ stack' = Append(stack,
                [rec |-> rec, va |-> va, i |-> 1, running |-> 0, called |-> {},
                 due |-> {n \in 1..nregs : reg[n].state = "live" /\ reg[n].handle[1] = rec}])
    /\ UNCHANGED <<recVars, regVars, wpc>>

\* The next used slot of the chain runs.
NextSlot == {s \in Slot : s >= Top.i /\ hk[Top.rec].cb[s].used}

Run ==
    /\ stack # <<>> /\ Top.running = 0 /\ NextSlot # {}
    /\ LET s == Least(NextSlot)
           n == hk[Top.rec].cb[s].id
       IN stack' = [stack EXCEPT ![Len(stack)] =
             [Top EXCEPT !.i = s, !.running = n, !.called = Top.called \cup {n}]]
    /\ UNCHANGED <<recVars, busy, regVars, wpc>>

Return ==
    /\ stack # <<>> /\ Top.running # 0
    /\ stack' = [stack EXCEPT ![Len(stack)] = [Top EXCEPT !.i = Top.i + 1, !.running = 0]]
    /\ UNCHANGED <<recVars, busy, regVars, wpc>>

\* A Lua observer raises an error: the slot it was called from is disabled, and
\* the reference in it released, whatever the slot holds by now.  The observers of a
\* tidy mod do not raise an error after they removed themselves.
MayFault(n) == ~reg[n].native /\ (Tidy => reg[n].state = "live")

FaultEndsPass ==
    /\ stack # <<>> /\ Top.running # 0
    /\ LET cb == hk[Top.rec].cb[Top.i]
       IN /\ MayFault(Top.running)
          /\ hk' = WithSlot(Top.rec, Top.i, [cb EXCEPT !.used = FALSE])
          /\ refs' = refs \ {cb.ref}
          /\ reg' = Ended(Top.running, "faulted", Top.running)
    /\ busy' = [busy EXCEPT ![Top.rec] = FALSE]
    /\ stack' = Front(stack)
    /\ UNCHANGED <<thunks, mh, flawed, nregs, wpc>>

Fault ==
    /\ stack # <<>> /\ Top.running # 0
    /\ LET cb == hk[Top.rec].cb[Top.i]
       IN /\ MayFault(Top.running)
          /\ hk' = WithSlot(Top.rec, Top.i, [cb EXCEPT !.used = FALSE])
          /\ refs' = refs \ {cb.ref}
          /\ reg' = IF ~cb.used THEN reg
                    ELSE Ended(cb.id, "faulted", Top.running)
    /\ stack' = [stack EXCEPT ![Len(stack)] = [Top EXCEPT !.i = Top.i + 1, !.running = 0]]
    /\ UNCHANGED <<thunks, mh, flawed, busy, nregs, wpc>>

\* The chain is through; the thunk jumps to the original.
DispatchEnd ==
    /\ stack # <<>> /\ Top.running = 0 /\ NextSlot = {}
    /\ busy' = [busy EXCEPT ![Top.rec] = FALSE]
    /\ stack' = Front(stack)
    /\ UNCHANGED <<recVars, regVars, wpc>>

\* A worker enters the thunk: it takes the flag before it looks at its thread id.
WorkerEnters(w, va) ==
    /\ wpc[w] = 0 /\ Enters(va)
    /\ ~busy[mh[va].rec]
    /\ busy' = [busy EXCEPT ![mh[va].rec] = TRUE]
    /\ wpc' = [wpc EXCEPT ![w] = mh[va].rec]
    /\ UNCHANGED <<recVars, regVars, stack>>

WorkerLeavesBusy(w) ==
    /\ wpc[w] # 0
    /\ wpc' = [wpc EXCEPT ![w] = 0]
    /\ UNCHANGED <<recVars, busy, regVars, stack>>

\* ... and leaves without running the chain.
WorkerLeaves(w) ==
    /\ wpc[w] # 0
    /\ busy' = [busy EXCEPT ![wpc[w]] = FALSE]
    /\ wpc' = [wpc EXCEPT ![w] = 0]
    /\ UNCHANGED <<recVars, regVars, stack>>

Init ==
    /\ hk = [r \in Rec |-> ZeroRec]
    /\ busy = [r \in Rec |-> FALSE]
    /\ thunks = 0
    /\ mh = [va \in VA |-> [state |-> "none", rec |-> 0]]
    /\ flawed = {}
    /\ nregs = 0
    /\ reg = [n \in RegId |-> [mod |-> "none", native |-> FALSE,
                             handle |-> <<0, 0>>, state |-> "none", by |-> 0]]
    /\ refs = {} /\ stack = <<>>
    /\ wpc = [w \in Workers |-> 0]

ModCall == \/ \E m \in Mods, va \in VA :
                 \/ \E native \in BOOLEAN : EntryJoins(m, va, native) \/ EntryClaims(m, va, native)
                 \/ Typed(m, va)
           \/ \E n \in RegId : RemoveHandle(n)

Dispatch == Run \/ Return \/ Fault \/ DispatchEnd
Worker(w) == WorkerLeaves(w) \/ \E va \in VA : WorkerEnters(w, va)

Next == \/ ModCall
        \/ \E m \in Mods, va \in VA, tier \in {1, 2} : Runs(m) /\ ClaimFails(va, tier)
        \/ \E va \in VA : Call(va)
        \/ Dispatch
        \/ \E w \in Workers : Worker(w)

Spec == Init /\ [][Next]_vars
-----------------------------------------------------------------------------
TypeOK ==
    /\ \A r \in Rec :
          /\ hk[r].used \in BOOLEAN /\ hk[r].tier \in 0..2 /\ hk[r].va \in VA \cup {NoVA}
          /\ hk[r].cb \in [Slot -> [used : BOOLEAN, native : BOOLEAN,
                                    ref : Ref \cup {0}, id : RegId \cup {0}]]
    /\ busy \in [Rec -> BOOLEAN]
    /\ thunks \in 0..MAX_THUNKS
    /\ mh \in [VA -> [state : {"none", "created", "enabled"}, rec : Rec \cup {0}]]
    /\ flawed \subseteq VA /\ nregs \in 0..MaxRegs /\ refs \subseteq Ref
    /\ \A n \in 1..nregs :
          /\ reg[n].mod \in Mods /\ reg[n].native \in BOOLEAN /\ reg[n].handle \in Rec \X Slot
          /\ reg[n].state \in {"live", "removed", "faulted"} /\ reg[n].by \in 0..nregs
    /\ \A k \in DOMAIN stack :
          /\ stack[k].rec \in Rec /\ stack[k].va \in VA /\ stack[k].i \in 1..MAX_CB + 1
          /\ stack[k].running \in 0..nregs
    /\ wpc \in [Workers -> Rec \cup {0}]

\* "ONE MinHook trampoline per target VA" (hooks.h:3) and "a VA is Tier-1 xor
\* Tier-2": no two records claim an address, and unless enabling a hook has
\* failed for it, MinHook leads its calls to the record that claims it.
OneRecordPerVa ==
    /\ \A r, q \in Rec : hk[r].used /\ hk[q].used /\ hk[r].va = hk[q].va => r = q
    /\ \A va \in VA \ flawed : mh[va].state = "enabled" => RecForVa(va) = {mh[va].rec}

\* Every live registration sits in the slot its handle names and every used slot
\* holds a live one; the live references are exactly those of the live Lua
\* observers, one each, so no observer calls a function that was released.  And
\* a call of a hooked address finds the record that holds its observers.
LiveInPlace ==
    LET at(n) == hk[reg[n].handle[1]].cb[reg[n].handle[2]]
        live == {n \in 1..nregs : reg[n].state = "live"}
        lua == {n \in live : ~at(n).native}
    IN /\ OneRecordPerVa
       /\ \A n \in live : at(n).used /\ at(n).id = n
       /\ \A r \in Rec, s \in Slot : hk[r].cb[s].used => hk[r].cb[s].id \in live
       /\ refs = {at(n).ref : n \in lua} /\ Cardinality(refs) = Cardinality(lua)

\* The flag of a record is set exactly while one dispatch or one worker holds it,
\* and nobody runs a chain that is already running: the early returns of lines
\* 97 and 98 neither strand the flag nor release somebody else's.
BusyHeld ==
    LET holders(r) == {<<"engine", k>> : k \in {j \in DOMAIN stack : stack[j].rec = r}}
                      \cup {<<w, 0>> : w \in {v \in Workers : wpc[v] = r}}
    IN \A r \in Rec : Cardinality(holders(r)) = (IF busy[r] THEN 1 ELSE 0)

\* A dispatch calls no observer twice, and when it ends it has called every
\* observer that was in the chain when it began and still is, whatever the
\* observers added, removed, called or raised meanwhile.
CalledOnce ==
    [][/\ Len(stack') < Len(stack) =>
             \A n \in Top.due : reg'[n].state = "live" => n \in Top.called
       /\ stack # <<>> /\ Len(stack') = Len(stack) /\ Last(stack').running # Top.running =>
             Last(stack').running \notin Top.called]_vars

\* A registration ends by its own handle or by its own fault.
OwnHookOnly == \A n \in 1..nregs : reg[n].by \in {0, n}

\* "Multiple mods hook the same function without clobbering each other"
\* (docs/MOD-FORMAT.md:91): no mod ends a registration of another one.
NoClobbering == \A n \in 1..nregs : reg[n].by # 0 => reg[reg[n].by].mod = reg[n].mod
=============================================================================
