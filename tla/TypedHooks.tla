---------------------------- MODULE TypedHooks ----------------------------
(***************************************************************************)
(* Tier-2 typed hooks: the Lua chunk TIER2_LUA of core/hooks.c (261-349).  *)
(* hook.typed appends a {pre, post} pair to the chain of an address, and   *)
(* the closure that make_dispatch returns runs the chain around the        *)
(* original: pre hooks, the original unless one blocked it, post hooks.    *)
(*                                                                         *)
(* Everything here is on the engine thread; the gate sends the calls of    *)
(* other threads straight to the original.  But mod code runs in the       *)
(* middle of it: a pre or a post hook, or what the original calls, may add *)
(* and remove hooks and call hooked functions, the one it hooks included.  *)
(* calls holds the calls in progress, innermost last.  The claim on the    *)
(* address and the closure that MinHook installs are HookRegistry's Typed; *)
(* a refused claim or signature changes nothing here.                      *)
(*                                                                         *)
(* Arguments and results are left out.  So is an original that raises a    *)
(* Lua error: ffi.cast's call raises only for an argument that does not    *)
(* convert, and then leaves rec.busy set for good.                         *)
(***************************************************************************)
EXTENDS Naturals, Sequences, SequencesExt, FiniteSetsExt

CONSTANTS TypedVA,    \* addresses mods hook
          MaxTyped,   \* bound on the registrations of one behaviour
          MaxCalls    \* bound on the calls in progress

ASSUME TypedAssumption == MaxTyped \in Nat /\ MaxCalls \in Nat

VARIABLES chain,   \* rec.chain of each address, its entries by number
          entry,   \* [pre, post, dead] of each registration
          inside,  \* rec.busy
          calls    \* calls of hooked functions in progress

typedVars == <<chain, entry, inside, calls>>

Regs == DOMAIN entry
Inmost == Last(calls)
Inner(f) == calls' = [calls EXCEPT ![Len(calls)] = f]

\* A call begins.  n is the length of the chain at the loop's start and i the
\* position it has reached; pres, posts, blocker and origs record what the
\* call has done, for the properties.
Frame(va, pass) ==
    [va |-> va, pass |-> pass, phase |-> IF pass THEN "orig" ELSE "pre",
     i |-> 1, n |-> Len(chain[va]), m |-> 0, running |-> FALSE, blocked |-> FALSE,
     pres |-> <<>>, posts |-> <<>>, blocker |-> 0, origs |-> 0]

\* Mod code runs: outside any hooked call, in a hook, or called by an original.
ModRuns == calls # <<>> => Inmost.running \/ Inmost.phase = "orig"

(***************************************************************************)
(* Calls of mods.                                                          *)
(***************************************************************************)
\* mod.hook.typed.
TypedHook(va, pre, post) ==
    /\ ModRuns /\ Len(entry) < MaxTyped
    /\ entry' = Append(entry, [pre |-> pre, post |-> post, dead |-> FALSE])
    /\ chain' = [chain EXCEPT ![va] = Append(@, Len(entry) + 1)]
    /\ UNCHANGED <<inside, calls>>

Dead(id) == entry' = [entry EXCEPT ![id] = [pre |-> FALSE, post |-> FALSE, dead |-> TRUE]]

\* mod.hook.remove of a typed handle, by whoever has it: the entry stays in the
\* chain, dead.
RemoveTyped(id) ==
    /\ ModRuns /\ ~entry[id].dead
    /\ Dead(id)
    /\ UNCHANGED <<chain, inside, calls>>

\* ctx.blocked = true, in a pre hook.
Block ==
    /\ calls # <<>> /\ Inmost.running /\ Inmost.phase = "pre" /\ ~Inmost.blocked
    /\ Inner([Inmost EXCEPT !.blocked = TRUE])
    /\ UNCHANGED <<chain, entry, inside>>

(***************************************************************************)
(* make_dispatch.                                                          *)
(***************************************************************************)
\* The hooked function is called: by the game, by a hook, by an original.  A
\* call of an address whose chain is running goes to the original.
CallTyped(va) ==
    /\ ModRuns /\ Len(calls) < MaxCalls
    /\ chain[va] # <<>>
    /\ calls' = Append(calls, Frame(va, inside[va]))
    /\ inside' = [inside EXCEPT ![va] = TRUE]
    /\ UNCHANGED <<chain, entry>>

\* Positions of the chain the pre loop, and the post loop, has still to call.
PreTodo == {k \in Inmost.i..Inmost.n : LET e == entry[chain[Inmost.va][k]] IN ~e.dead /\ e.pre}
PostTodo == {k \in 1..Inmost.i : LET e == entry[chain[Inmost.va][k]] IN ~e.dead /\ e.post}

InLoop(phase) == calls # <<>> /\ Inmost.phase = phase /\ ~Inmost.running

RunPre ==
    /\ InLoop("pre") /\ PreTodo # {}
    /\ Inner([Inmost EXCEPT !.running = TRUE, !.i = Min(PreTodo), !.pres = Append(@, Min(PreTodo))])
    /\ UNCHANGED <<chain, entry, inside>>

Running(phase) == calls # <<>> /\ Inmost.phase = phase /\ Inmost.running

\* A pre hook returns; if the call is blocked by then the loop breaks.
PreReturn ==
    /\ Running("pre")
    /\ Inner([Inmost EXCEPT !.running = FALSE,
                         !.i = IF Inmost.blocked THEN Inmost.n + 1 ELSE Inmost.i + 1,
                         !.blocker = IF Inmost.blocked THEN Inmost.i ELSE 0])
    /\ UNCHANGED <<chain, entry, inside>>

PreFaultEndsLoop ==
    /\ Running("pre")
    /\ entry' = [entry EXCEPT ![chain[Inmost.va][Inmost.i]].dead = TRUE]
    /\ Inner([Inmost EXCEPT !.running = FALSE, !.i = Inmost.n + 1])
    /\ UNCHANGED <<chain, inside>>

\* A pre hook raises an error: it is disabled and the loop goes on, also when
\* it had blocked the call.
PreFault ==
    /\ Running("pre")
    /\ entry' = [entry EXCEPT ![chain[Inmost.va][Inmost.i]].dead = TRUE]
    /\ Inner([Inmost EXCEPT !.running = FALSE, !.i = Inmost.i + 1])
    /\ UNCHANGED <<chain, inside>>

\* The pre loop is over: the original runs.
Original ==
    /\ InLoop("pre") /\ PreTodo = {} /\ ~Inmost.blocked
    /\ Inner([Inmost EXCEPT !.phase = "orig", !.origs = Inmost.origs + 1])
    /\ UNCHANGED <<chain, entry, inside>>

\* The post loop begins at what is the end of the chain by now.
Posting(f) == [f EXCEPT !.phase = "post", !.i = Len(chain[f.va]), !.m = Len(chain[f.va])]

\* The original is skipped.
SkipOriginal ==
    /\ InLoop("pre") /\ PreTodo = {} /\ Inmost.blocked
    /\ Inner(Posting(Inmost))
    /\ UNCHANGED <<chain, entry, inside>>

OriginalReturns ==
    /\ InLoop("orig")
    /\ IF Inmost.pass THEN calls' = Front(calls) ELSE Inner(Posting(Inmost))
    /\ UNCHANGED <<chain, entry, inside>>

RunPost ==
    /\ InLoop("post") /\ PostTodo # {}
    /\ Inner([Inmost EXCEPT !.running = TRUE, !.i = Max(PostTodo), !.posts = Append(@, Max(PostTodo))])
    /\ UNCHANGED <<chain, entry, inside>>

PostReturn ==
    /\ Running("post")
    /\ Inner([Inmost EXCEPT !.running = FALSE, !.i = Inmost.i - 1])
    /\ UNCHANGED <<chain, entry, inside>>

PostFault ==
    /\ Running("post")
    /\ entry' = [entry EXCEPT ![chain[Inmost.va][Inmost.i]].dead = TRUE]
    /\ Inner([Inmost EXCEPT !.running = FALSE, !.i = Inmost.i - 1])
    /\ UNCHANGED <<chain, inside>>

ChainEndsUnblocked ==
    /\ InLoop("post") /\ PostTodo = {}
    /\ inside' = [inside EXCEPT ![Inmost.va] = Inmost.blocked]
    /\ calls' = Front(calls)
    /\ UNCHANGED <<chain, entry>>

ChainEnds ==
    /\ InLoop("post") /\ PostTodo = {}
    /\ inside' = [inside EXCEPT ![Inmost.va] = FALSE]
    /\ calls' = Front(calls)
    /\ UNCHANGED <<chain, entry>>

TypedInit ==
    /\ chain = [va \in TypedVA |-> <<>>]
    /\ entry = <<>>
    /\ inside = [va \in TypedVA |-> FALSE]
    /\ calls = <<>>

TypedNext ==
    \/ \E va \in TypedVA, pre, post \in BOOLEAN : (pre \/ post) /\ TypedHook(va, pre, post)
    \/ \E id \in Regs : RemoveTyped(id)
    \/ \E va \in TypedVA : CallTyped(va)
    \/ RunPre \/ Block \/ PreReturn \/ PreFault
    \/ Original \/ SkipOriginal \/ OriginalReturns
    \/ RunPost \/ PostReturn \/ PostFault \/ ChainEnds

TypedSpec == TypedInit /\ [][TypedNext]_typedVars
-----------------------------------------------------------------------------
TypedEntry == [pre : BOOLEAN, post : BOOLEAN, dead : BOOLEAN]
CallRecord == [va : TypedVA, pass : BOOLEAN, phase : {"pre", "orig", "post"},
               i : Nat, n : Nat, m : Nat, running : BOOLEAN, blocked : BOOLEAN,
               pres : Seq(Nat), posts : Seq(Nat), blocker : Nat, origs : Nat]

TypedTypeOK ==
    /\ entry \in Seq(TypedEntry)
    /\ chain \in [TypedVA -> Seq(Regs)]
    /\ inside \in [TypedVA -> BOOLEAN]
    /\ calls \in Seq(CallRecord)

Dispatches == {calls[k] : k \in {j \in DOMAIN calls : ~calls[j].pass}}
Wants(f, k, hook) == LET e == entry[chain[f.va][k]]
                     IN ~e.dead /\ (IF hook = "pre" THEN e.pre ELSE e.post)
Had(k, hooks) == \E j \in DOMAIN hooks : hooks[j] = k

\* A call takes the chain up and then down, no hook twice.
UpThenDown(f) ==
    /\ \A j, k \in DOMAIN f.pres : j < k => f.pres[j] < f.pres[k]
    /\ \A j, k \in DOMAIN f.posts : j < k => f.posts[j] > f.posts[k]

\* It leaves out no hook that was there when the loop began and still is,
\* except behind a blocker.
NobodyLeftOut(f) ==
    /\ f.phase # "pre" /\ f.blocker = 0 => \A k \in 1..f.n : Wants(f, k, "pre") => Had(k, f.pres)
    /\ f.phase = "post" => \A k \in f.i+1..f.m : Wants(f, k, "post") => Had(k, f.posts)

\* After the pre hook that returned with the call blocked no other pre hook
\* runs; a blocked call never reaches the original, and one that nobody blocked
\* reaches it exactly once, before the first post hook.
BlockedOrCalled(f) ==
    /\ f.blocker # 0 => f.blocked /\ Last(f.pres) = f.blocker
    /\ f.phase = "post" => f.origs = (IF f.blocked THEN 0 ELSE 1)
    /\ f.phase # "post" => f.posts = <<>>

\* "pre in order, post in reverse, first-to-block wins" (docs/MOD-FORMAT.md:126),
\* whatever the hooks and the original add, remove, call or raise in between.
ChainServed == \A f \in Dispatches : UpThenDown(f) /\ NobodyLeftOut(f) /\ BlockedOrCalled(f)

\* The k-th call in progress runs the chain of va.
RunsChain(k, va) == calls[k].va = va /\ ~calls[k].pass

\* rec.busy is set exactly while one call runs the chain: a call from inside
\* goes to the original, and no way through the dispatcher, blocked, faulted or
\* nested, leaves the flag set, after which no hook of the address would ever
\* run again.
OneDispatch == \A va \in TypedVA :
    /\ inside[va] <=> \E k \in DOMAIN calls : RunsChain(k, va)
    /\ \A j, k \in DOMAIN calls : RunsChain(j, va) /\ RunsChain(k, va) => j = k
=============================================================================
