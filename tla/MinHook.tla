------------------------------ MODULE MinHook -------------------------------
(***************************************************************************)
(* The bundled hooking library (hook.c, buffer.c) in its 32-bit build:     *)
(* the table of hooks, the slots their trampolines live in, the bytes of   *)
(* the hooked functions, and the threads that run all of them meanwhile.   *)
(* A call holds the spin lock from its first step to its last; it stops    *)
(* the other threads one by one, moves those that stand in bytes about to  *)
(* change, patches, and lets them go.  Windows may refuse to stop a        *)
(* thread, or to have it moved: the call takes no notice.                  *)
(*                                                                         *)
(* A thread is at <<"out">>, at an offset of a function ("target"), on the *)
(* long jump above it ("above"), in its detour ("detour"), at an offset of *)
(* a trampoline ("tramp"), or has run bytes that are no code of its        *)
(* function ("lost").                                                      *)
(***************************************************************************)
EXTENDS Trampoline

CONSTANTS Targets,    \* functions that are hooked
          Threads,    \* threads other than the one that calls the library
          Blocks,     \* pages VirtualAlloc can return
          SLOTS,      \* slots of a page
          Programs(_) \* code that a target may consist of

ASSUME SizesAssumption == SLOTS \in Nat \ {0}
ASSUME ProgramsAssumption == \A tg \in Targets : \A p \in Programs(tg) : WellFormed(p)

VARIABLES code,       \* the functions' code, chosen once
          heap,       \* g_hHeap is set: the library is initialized
          hooks,      \* g_hooks
          pages,      \* g_pMemoryBlocks
          text,       \* what each slot holds
          patched,    \* which jump the function's bytes hold
          orig,       \* *ppOriginal, kept by the caller of MH_CreateHook
          call,       \* the call that holds g_isLocked
          ip,         \* where each thread is
          suspended,  \* threads suspended by Freeze
          missed,     \* threads a Freeze could not suspend or not move, ever
          retracted   \* functions a hook was taken from again, ever

lib == <<heap, hooks, pages, text, orig>>
vars == <<code, heap, hooks, pages, text, patched, orig, call, ip, suspended, missed, retracted>>

Slots == Blocks \X (1 .. SLOTS)
NoSlot == <<>>
Nothing == [target |-> "none", ips |-> <<>>]     \* in a free slot
Idle == [fn |-> "none"]

Init ==
    /\ code \in [Targets -> UNION {Programs(tg) : tg \in Targets}]
    /\ \A tg \in Targets : code[tg] \in Programs(tg)
    /\ heap = FALSE
    /\ hooks = <<>>
    /\ pages = <<>>
    /\ text = [s \in Slots |-> Nothing]
    /\ patched = [tg \in Targets |-> "none"]
    /\ orig = [tg \in Targets |-> NoSlot]
    /\ call = Idle
    /\ ip = [t \in Threads |-> <<"out">>]
    /\ suspended = {}
    /\ missed = {}
    /\ retracted = {}

Free == call = Idle      \* the spin lock
Shape(tg) == CreateTrampoline(code[tg])
Entries(tg) == {i \in DOMAIN hooks : hooks[i].target = tg}     \* FindHookEntry

-----------------------------------------------------------------------------
(* buffer.c.  Pages are a list, the newest first; a page's free slots too. *)

\* GetMemoryBlock: the list with a page that has room, b being what VirtualAlloc returns.
WithRoom(b) ==
    IF \E i \in DOMAIN pages : pages[i].free # <<>> THEN pages
    ELSE <<[id |-> b, free |-> [i \in 1 .. SLOTS |-> SLOTS + 1 - i], used |-> 0]>> \o pages

FirstFree(ps) == CHOOSE i \in DOMAIN ps : /\ ps[i].free # <<>>
                                          /\ \A j \in 1 .. i - 1 : ps[j].free = <<>>

AllocateBuffer(ps) ==
    [ps EXCEPT ![FirstFree(ps)].free = Tail(@), ![FirstFree(ps)].used = @ + 1]

FreeBuffer(ps, slot) ==
    LET i == CHOOSE i \in DOMAIN ps : ps[i].id = slot[1]
        left == [ps EXCEPT ![i].free = <<slot[2]>> \o @, ![i].used = @ - 1]
    IN  IF left[i].used = 0 THEN RemoveAt(left, i) ELSE left

Unallocated == {b \in Blocks : \A i \in DOMAIN pages : pages[i].id # b}

-----------------------------------------------------------------------------
(* Calls that stop no thread.                                              *)

MH_Initialize ==
    /\ Free
    /\ ~heap
    /\ heap' = TRUE
    /\ UNCHANGED <<code, hooks, pages, text, patched, orig, call, ip, suspended, missed, retracted>>

AddEntry(tg, slot) ==
    hooks' = Append(hooks, [target |-> tg, slot |-> slot, isEnabled |-> FALSE, queueEnable |-> FALSE,
                            patchAbove |-> Shape(tg).patchAbove, ips |-> Shape(tg).ips])

(* A refused function gives its slot back at once; every failure leaves    *)
(* the tables as they were.                                                *)
MH_CreateHook(tg, b) ==
    /\ Free
    /\ heap
    /\ Entries(tg) = {}
    /\ Shape(tg).ok
    /\ pages = WithRoom(b) \/ b \in Unallocated
    /\ LET room == WithRoom(b)
           slot == <<room[FirstFree(room)].id, Head(room[FirstFree(room)].free)>>
       IN  /\ pages' = AllocateBuffer(room)
           /\ text' = [text EXCEPT ![slot] = [target |-> tg, ips |-> Shape(tg).ips]]
           /\ AddEntry(tg, slot)
           /\ orig' = [orig EXCEPT ![tg] = slot]
    /\ UNCHANGED <<code, heap, patched, call, ip, suspended, missed, retracted>>

(* MH_QueueEnableHook and MH_QueueDisableHook, of one target or of all.    *)
QueueHook(tgs, enable) ==
    /\ Free
    /\ heap
    /\ hooks' = [i \in DOMAIN hooks |->
                    IF hooks[i].target \in tgs THEN [hooks[i] EXCEPT !.queueEnable = enable]
                    ELSE hooks[i]]
    /\ UNCHANGED <<code, heap, pages, text, patched, orig, call, ip, suspended, missed, retracted>>

\* RemoveHook's and MH_Uninitialize's last part, when the hooks in question are disabled.
DeleteHookLast(pos) == RemoveAt(hooks, Len(hooks))

DeleteHookEntry(pos) == RemoveAt([hooks EXCEPT ![pos] = hooks[Len(hooks)]], Len(hooks))

Delete(pos) ==
    /\ pages' = FreeBuffer(pages, hooks[pos].slot)
    /\ text' = [text EXCEPT ![hooks[pos].slot] = Nothing]
    /\ hooks' = DeleteHookEntry(pos)
    /\ retracted' = retracted \cup {hooks[pos].target}
    /\ UNCHANGED <<heap, orig>>

DeleteAll ==
    /\ heap' = FALSE
    /\ hooks' = <<>>
    /\ pages' = <<>>
    /\ text' = [s \in Slots |-> Nothing]
    /\ retracted' = retracted \cup {hooks[i].target : i \in DOMAIN hooks}
    /\ UNCHANGED orig

-----------------------------------------------------------------------------
(* Calls that patch.  A call records which entries it will change (todo,   *)
(* the positions still to be patched), the action given to Freeze and the  *)
(* positions it names there, what it does when it is done, the threads     *)
(* Freeze has not come to (scan), and those it stopped but did not move.   *)

Wanted(action, i) ==
    CASE action = "disable" -> FALSE
      [] action = "enable" -> TRUE
      [] action = "apply queued" -> hooks[i].queueEnable

Differ(want(_)) == {i \in DOMAIN hooks : hooks[i].isEnabled # want(i)}

FreezeFor(fn, action, span, todo, enable, pos) ==
    /\ call' = [fn |-> fn, action |-> action, span |-> span, todo |-> todo, enable |-> enable,
                pos |-> pos, scan |-> Threads, unmoved |-> {}]
    /\ UNCHANGED <<code, lib, patched, ip, suspended, missed, retracted>>

\* MH_EnableHook and MH_DisableHook of one target: Freeze is told "enable" by both.
EnableHook(tg, enable) ==
    /\ Free
    /\ heap
    /\ \E pos \in Entries(tg) :
          /\ hooks[pos].isEnabled # enable
          /\ FreezeFor("set", "enable", {pos}, {pos}, [i \in {pos} |-> enable], pos)

\* EnableAllHooksLL, for MH_ALL_HOOKS and in MH_Uninitialize.
EnableAllHooks(fn, enable) ==
    /\ Free
    /\ heap
    /\ LET todo == Differ(LAMBDA i : enable) IN
       /\ todo # {}
       /\ FreezeFor(fn, IF enable THEN "enable" ELSE "disable", DOMAIN hooks, todo,
                 [i \in DOMAIN hooks |-> enable], 0)

MH_ApplyQueued ==
    /\ Free
    /\ heap
    /\ LET todo == Differ(LAMBDA i : hooks[i].queueEnable) IN
       /\ todo # {}
       /\ FreezeFor("apply", "apply queued", DOMAIN hooks, todo,
                 [i \in DOMAIN hooks |-> hooks[i].queueEnable], 0)

MH_RemoveHook(tg) ==
    /\ Free
    /\ heap
    /\ \E pos \in Entries(tg) :
          \/ /\ hooks[pos].isEnabled
             /\ FreezeFor("remove", "disable", {pos}, {pos}, [i \in {pos} |-> FALSE], pos)
          \/ /\ ~hooks[pos].isEnabled
             /\ Delete(pos)
             /\ UNCHANGED <<code, patched, call, ip, suspended, missed>>

MH_Uninitialize ==
    \/ EnableAllHooks("uninitialize", FALSE)
    \/ /\ Free
       /\ heap
       /\ \A i \in DOMAIN hooks : ~hooks[i].isEnabled
       /\ DeleteAll
       /\ UNCHANGED <<code, patched, call, ip, suspended, missed>>

-----------------------------------------------------------------------------
(* Freeze, Unfreeze and the patch.                                         *)

FindOldIPNoAbove(h, at) ==
    IF \E k \in DOMAIN h.ips : at = <<"tramp", h.target, h.slot, h.ips[k].new>>
    THEN <<"target", h.target, h.ips[CHOOSE k \in DOMAIN h.ips : h.ips[k].new = at[4]].old>>
    ELSE at

FindOldIP(h, at) ==
    LET ips == h.ips IN
    IF h.patchAbove /\ at = <<"above", h.target>> THEN <<"target", h.target, 0>>
    ELSE IF \E k \in DOMAIN ips : at = <<"tramp", h.target, h.slot, ips[k].new>>
    THEN <<"target", h.target, ips[CHOOSE k \in DOMAIN ips : ips[k].new = at[4]].old>>
    ELSE at

FindNewIPEntry(h, at) ==
    IF at = <<"target", h.target, 0>> THEN <<"tramp", h.target, h.slot, 0>> ELSE at

FindNewIP(h, at) ==
    LET ips == h.ips IN
    IF \E k \in DOMAIN ips : at = <<"target", h.target, ips[k].old>>
    THEN <<"tramp", h.target, h.slot, ips[CHOOSE k \in DOMAIN ips : ips[k].old = at[3]].new>>
    ELSE at

(* The entries Freeze names that change; an address is in one function, or *)
(* its trampoline, so that one of them at most can move it.                *)
ProcessThreadIPs(at, span, action) ==
    LET own == {i \in span : /\ hooks[i].isEnabled # Wanted(action, i)
                             /\ at # <<"out">> /\ at[2] = hooks[i].target}
        entry == CHOOSE i \in own : TRUE
    IN  IF own = {} THEN at
        ELSE IF Wanted(action, entry) THEN FindNewIP(hooks[entry], at)
        ELSE FindOldIP(hooks[entry], at)

FreezeThread(t) ==
    /\ ~Free
    /\ t \in call.scan
    /\ \/ /\ suspended' = suspended \cup {t}
          /\ ip' = [ip EXCEPT ![t] = ProcessThreadIPs(@, call.span, call.action)]
          /\ call' = [call EXCEPT !.scan = @ \ {t}]
          /\ UNCHANGED missed
       \/ /\ suspended' = suspended \cup {t}      \* GetThreadContext or SetThreadContext fails
          /\ missed' = missed \cup {t}
          /\ call' = [call EXCEPT !.scan = @ \ {t}, !.unmoved = @ \cup {t}]
          /\ UNCHANGED ip
       \/ /\ missed' = missed \cup {t}            \* OpenThread or SuspendThread fails
          /\ call' = [call EXCEPT !.scan = @ \ {t}]
          /\ UNCHANGED <<suspended, ip>>
    /\ UNCHANGED <<code, lib, patched, retracted>>

\* The loops over g_hooks go upwards.
NextEntry == CHOOSE i \in call.todo : \A j \in call.todo : i <= j

(* EnableHookLL of the next entry.                                         *)
Patch ==
    /\ ~Free
    /\ call.scan = {}
    /\ call.todo # {}
    /\ LET i == NextEntry
           h == hooks[i]
           enable == call.enable[i]
       IN  /\ hooks' = [hooks EXCEPT ![i].isEnabled = enable, ![i].queueEnable = enable]
           /\ patched' = [patched EXCEPT ![h.target] =
                             IF ~enable THEN "none" ELSE IF h.patchAbove THEN "short" ELSE "long"]
           /\ retracted' = IF call.fn = "set" /\ ~enable THEN retracted \cup {h.target}
                           ELSE retracted
    /\ call' = [call EXCEPT !.todo = @ \ {NextEntry}]
    /\ UNCHANGED <<code, heap, pages, text, orig, ip, suspended, missed>>

Unlocked == call' = Idle /\ suspended' = {} /\ UNCHANGED <<code, patched, ip, missed>>

\* VirtualProtect refuses: the loop ends, nothing is deleted.
PatchFails ==
    /\ ~Free
    /\ call.scan = {}
    /\ call.todo # {}
    /\ retracted' = retracted \cup {hooks[i].target : i \in {i \in call.todo : ~call.enable[i]}}
    /\ Unlocked
    /\ UNCHANGED lib

Finish ==
    /\ ~Free
    /\ call.scan = {}
    /\ call.todo = {}
    /\ Unlocked
    /\ CASE call.fn = "remove" -> Delete(call.pos)
         [] call.fn = "uninitialize" -> DeleteAll
         [] OTHER -> UNCHANGED <<lib, retracted>>

-----------------------------------------------------------------------------
(* The threads.                                                            *)

Overwritten(tg, o) ==
    \/ patched[tg] = "long" /\ o < JMP_REL
    \/ patched[tg] = "short" /\ o < JMP_REL_SHORT

Arrive(t, at) ==
    /\ ip' = [ip EXCEPT ![t] = at]
    /\ UNCHANGED <<code, lib, patched, call, suspended, missed, retracted>>

\* Where the processor is after leaving for offset o of the function itself.
InTarget(tg, o) == IF o \in Boundaries(code[tg]) THEN <<"target", tg, o>> ELSE <<"out">>

Enter(t, tg) == ip[t] = <<"out">> /\ Arrive(t, <<"target", tg, 0>>)

RunTarget(t) ==
    /\ ip[t][1] = "target"
    /\ LET tg == ip[t][2]
           o == ip[t][3]
       IN  \/ /\ patched[tg] = "long" /\ o = 0
              /\ Arrive(t, <<"detour", tg>>)
           \/ /\ patched[tg] = "short" /\ o = 0
              /\ Arrive(t, <<"above", tg>>)
           \/ /\ Overwritten(tg, o) /\ o > 0
              /\ Arrive(t, <<"lost", tg>>)
           \/ /\ ~Overwritten(tg, o)
              /\ \E next \in Successors(code[tg], o) : Arrive(t, InTarget(tg, next))

\* Without the jump there, the padding above is run: it may be INT3, or lead to the function.
RunAbove(t) ==
    /\ ip[t][1] = "above"
    /\ LET tg == ip[t][2] IN
       \/ patched[tg] = "short" /\ Arrive(t, <<"detour", tg>>)
       \/ patched[tg] # "short" /\ \E at \in {<<"lost", tg>>, <<"target", tg, 0>>} : Arrive(t, at)

RunDetour(t) ==
    /\ ip[t][1] = "detour"
    /\ \/ Arrive(t, <<"out">>)
       \/ Arrive(t, <<"tramp", ip[t][2], orig[ip[t][2]], 0>>)

InTrampoline(at) ==
    /\ text[at[3]].target = at[2]
    /\ \E k \in DOMAIN text[at[3]].ips : text[at[3]].ips[k].new = at[4]

RunTrampoline(t) ==
    /\ ip[t][1] = "tramp"
    /\ LET tg == ip[t][2]
           ips == text[ip[t][3]].ips
           k == CHOOSE k \in DOMAIN ips : ips[k].new = ip[t][4]
       IN  \/ /\ ~InTrampoline(ip[t])
              /\ Arrive(t, <<"lost", tg>>)
           \/ /\ InTrampoline(ip[t])
              /\ \E next \in CopiedNext(code[tg], ips, k) :
                    Arrive(t, IF next[1] = "copy" THEN <<"tramp", tg, ip[t][3], next[2]>>
                              ELSE InTarget(tg, next[2]))

Run(t) ==
    /\ t \notin suspended
    /\ \/ \E tg \in Targets : Enter(t, tg)
       \/ RunTarget(t)
       \/ RunAbove(t)
       \/ RunDetour(t)
       \/ RunTrampoline(t)

Library ==
    \/ MH_Initialize
    \/ \E tg \in Targets, b \in Blocks : MH_CreateHook(tg, b)
    \/ \E tgs \in {{tg} : tg \in Targets} \cup {Targets}, enable \in BOOLEAN : QueueHook(tgs, enable)
    \/ \E tg \in Targets, enable \in BOOLEAN : EnableHook(tg, enable)
    \/ \E enable \in BOOLEAN : EnableAllHooks("all", enable)
    \/ MH_ApplyQueued
    \/ \E tg \in Targets : MH_RemoveHook(tg)
    \/ MH_Uninitialize
    \/ \E t \in Threads : FreezeThread(t)
    \/ Patch
    \/ PatchFails
    \/ Finish

Next == Library \/ \E t \in Threads : Run(t)

Spec == Init /\ [][Next]_vars

-----------------------------------------------------------------------------
(* The trampoline a function gets with its hook does what the function's   *)
(* first instructions do, however the copy stretches them (the copying     *)
(* loop of trampoline.c); BackOverLonger is the case the loop misses.      *)
FaithfulCopy ==
    [][\A i \in DOMAIN hooks' \ DOMAIN hooks :
          LET p == code[hooks'[i].target] IN BackOverLonger(p) \/ Faithful(p)]_vars

(* The hook table, the pages, the slots and the patched bytes tell one     *)
(* story: one entry per function, its own slot, each slot of a page either *)
(* free or an entry's, no empty page, and the jump is in the function      *)
(* exactly while the entry is enabled.                                     *)
TablesAgree ==
    LET held(pg) == (1 .. SLOTS) \ Range(pg.free)
        enabled == {i \in DOMAIN hooks : hooks[i].isEnabled}
    IN  /\ \A i, j \in DOMAIN hooks : i # j => hooks[i].target # hooks[j].target
        /\ \A i \in DOMAIN hooks : text[hooks[i].slot].target = hooks[i].target
        /\ \A i, j \in DOMAIN pages : i # j => pages[i].id # pages[j].id
        /\ \A i \in DOMAIN pages : /\ IsInjective(pages[i].free)
                                   /\ pages[i].used = SLOTS - Len(pages[i].free)
                                   /\ pages[i].used > 0
        /\ {hooks[i].slot : i \in DOMAIN hooks}
              = UNION {{<<pages[i].id, s>> : s \in held(pages[i])} : i \in DOMAIN pages}
        /\ {tg \in Targets : patched[tg] # "none"} = {hooks[i].target : i \in enabled}

(* A thread that the library could always stop and move never runs bytes   *)
(* of a patch as code, nor a trampoline that is not its function's:        *)
(* wherever it stood when a hook was enabled, or all hooks or the queued   *)
(* ones were switched (ProcessThreadIPs).  Taking a hook away for good is  *)
(* the caller's risk: a thread in the detour still holds the trampoline's  *)
(* address.  And the copying loop does not see through all code            *)
(* (Unforeseen): a branch over a longer copy, a branch into the patch from *)
(* further on.                                                             *)
RunsOwnCode ==
    \A t \in Threads \ (missed \cup suspended) :
        LET at == ip[t] IN
        \/ at[1] \in {"out", "detour"}
        \/ at[2] \in retracted \/ Unforeseen(code[at[2]])
        \/ CASE at[1] = "target" -> at[3] = 0 \/ ~Overwritten(at[2], at[3])
             [] at[1] = "above" -> patched[at[2]] = "short"
             [] at[1] = "tramp" -> InTrampoline(at)
             [] at[1] = "lost" -> FALSE

(* When a hook's jump is taken out of a function, no thread that the call  *)
(* has stopped and could move is left on the long jump above it or in its  *)
(* trampoline, which may be freed next (Freeze with ACTION_DISABLE or      *)
(* ACTION_APPLY_QUEUED).  MH_DisableHook of one function does not keep     *)
(* this: it passes ACTION_ENABLE.                                          *)
LeavesNobody ==
    [][\A i \in DOMAIN hooks :
          (patched[hooks[i].target] # "none" /\ patched'[hooks[i].target] = "none" /\ call.fn # "set")
          => \A t \in suspended \ call.unmoved :
                /\ ip[t] # <<"above", hooks[i].target>>
                /\ ~(ip[t][1] = "tramp" /\ ip[t][3] = hooks[i].slot /\ InTrampoline(ip[t]))]_vars
=============================================================================
