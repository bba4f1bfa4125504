----------------------------- MODULE Executor -----------------------------
(***************************************************************************)
(* The main-thread executor (core/executor.c): the bootstrap that arms it, *)
(* the per-frame safepoint on the engine thread (deferred mod inits, the   *)
(* mod.main job queue, the on_frame list) and the calls that other code    *)
(* makes into it from the engine thread, from the loader thread and from   *)
(* the worker threads of native mods.                                      *)
(*                                                                         *)
(* The job queue appears as the bounded FIFO that JobRing implements.  A   *)
(* piece of mod code (an init, a job, an on_frame callback) runs between a *)
(* Start step and a Return or Fault step, and calls the executor any       *)
(* number of times in between; a hook callback does so outside the         *)
(* safepoint.  Jobs and callbacks are numbered in the order they are       *)
(* handed over; `job` and `cb` record what became of each.                 *)
(***************************************************************************)
EXTENDS Naturals, Sequences

CONSTANTS Deferred,     \* mods in the order run_deferred initialises them
          Workers,      \* threads that native mods start
          QueueLimit,   \* MAX_JOBS - 1
          MAX_ONFRAME,  \* most on_frame callbacks
          HookMayFail,  \* whether installing the safepoint hook may fail
          MaxJobs,      \* bound on the jobs of one behaviour
          MaxCbs,       \* bound on the on_frame registrations
          MaxRefs,      \* bound on the Lua references live at once
          MaxFrames     \* bound on the safepoints

ASSUME BoundsAssumption == /\ QueueLimit \in Nat \ {0} /\ MAX_ONFRAME \in Nat
                           /\ MaxJobs \in Nat /\ MaxCbs \in Nat
                           /\ MaxRefs \in Nat /\ MaxFrames \in Nat
ASSUME DeferredAssumption == Deferred \in Seq(STRING) /\ HookMayFail \in BOOLEAN
ASSUME ThreadAssumption == Workers \cap {"engine", "loader"} = {}

VARIABLES lpc,      \* loader thread: "boot", then "reported" or "fallback"
          boot,     \* WM_OSS_BOOT: "none", "posted", "done" or "failed"
          armed,    \* g_armed
          epc,      \* engine thread: "game", or a phase of the safepoint
          sp,       \* safepoints begun
          inited,   \* g_inited
          nxt,      \* next entry of Deferred
          cur,      \* mod code running on the engine and on the loader thread
          queue,    \* waiting jobs, oldest first
          frames,   \* g_onframe
          fi,       \* run_onframe's i
          refs,     \* live Lua registry references
          njobs, job,   \* jobs so far, and [fate, ref] of each
          ncbs, cb,     \* registrations so far, and [ref, calls] of each
          inits         \* how often each entry of Deferred was initialised

bootVars == <<lpc, boot, armed>>
spVars == <<epc, sp, inited, fi>>
jobVars == <<queue, njobs, job>>
cbVars == <<frames, ncbs, cb>>
initVars == <<nxt, inits>>
vars == <<bootVars, spVars, initVars, cur, jobVars, cbVars, refs>>

Idle == [kind |-> "none", id |-> 0]
JobId == 1..MaxJobs
CbId == 1..MaxCbs
Ref == 1..MaxRefs
NoJob == [fate |-> "none", ref |-> 0]

(***************************************************************************)
(* Bootstrap.                                                              *)
(***************************************************************************)
BootstrapFailsPosted ==
    /\ lpc = "boot"
    /\ lpc' = "fallback" /\ boot' = "posted"
    /\ UNCHANGED <<armed, spVars, initVars, cur, jobVars, cbVars, refs>>

\* exec_bootstrap finds no profile, or cannot subclass the window.
BootstrapFails ==
    /\ lpc = "boot"
    /\ lpc' = "fallback"
    /\ UNCHANGED <<boot, armed, spVars, initVars, cur, jobVars, cbVars, refs>>

\* exec_bootstrap subclasses the game window, posts WM_OSS_BOOT and returns 1.
Bootstrap ==
    /\ lpc = "boot"
    /\ lpc' = "reported" /\ boot' = "posted"
    /\ UNCHANGED <<armed, spVars, initVars, cur, jobVars, cbVars, refs>>

\* install_safepoint_hook, from boot_wndproc on the engine thread.
InstallHook ==
    /\ boot = "posted"
    /\ boot' = "done" /\ armed' = TRUE
    /\ UNCHANGED <<lpc, spVars, initVars, cur, jobVars, cbVars, refs>>

InstallFails ==
    /\ boot = "posted" /\ HookMayFail
    /\ boot' = "failed"
    /\ UNCHANGED <<lpc, armed, spVars, initVars, cur, jobVars, cbVars, refs>>

(***************************************************************************)
(* The safepoint (exec_on_safepoint).  A nested safepoint finds in_sp set  *)
(* and returns, so it is no step.                                          *)
(***************************************************************************)
SafepointBeginDrains ==
    /\ armed /\ epc = "game" /\ sp < MaxFrames
    /\ sp' = sp + 1
    /\ epc' = "drain"
    /\ inited' = TRUE
    /\ UNCHANGED <<bootVars, fi, initVars, cur, jobVars, cbVars, refs>>

SafepointBegin ==
    /\ armed /\ epc = "game" /\ sp < MaxFrames
    /\ sp' = sp + 1
    /\ epc' = IF inited THEN "drain" ELSE "init"
    /\ inited' = TRUE
    /\ UNCHANGED <<bootVars, fi, initVars, cur, jobVars, cbVars, refs>>

\* run_deferred on thread t: at the first safepoint, or in the fallback.
RunsDeferred(t) == IF t = "engine" THEN epc = "init" ELSE lpc = "fallback"

InitStart(t) ==
    /\ RunsDeferred(t) /\ cur[t] = Idle
    /\ nxt <= Len(Deferred)
    /\ nxt' = nxt + 1
    /\ inits' = [inits EXCEPT ![nxt] = @ + 1]
    /\ cur' = [cur EXCEPT ![t] = [kind |-> "init", id |-> nxt]]
    /\ UNCHANGED <<bootVars, spVars, jobVars, cbVars, refs>>

InitsEnd ==
    /\ epc = "init" /\ cur["engine"] = Idle /\ nxt > Len(Deferred)
    /\ epc' = "drain"
    /\ UNCHANGED <<bootVars, sp, inited, fi, initVars, cur, jobVars, cbVars, refs>>

\* An init returns or raises an error; either way the next one follows.
InitReturn(t) ==
    /\ cur[t].kind = "init"
    /\ cur' = [cur EXCEPT ![t] = Idle]
    /\ UNCHANGED <<bootVars, spVars, initVars, jobVars, cbVars, refs>>

JobStartOneLeft ==
    /\ epc = "drain" /\ cur["engine"] = Idle /\ Len(queue) > 1
    /\ queue' = Tail(queue)
    /\ job' = [job EXCEPT ![Head(queue)].fate = "running"]
    /\ cur' = [cur EXCEPT !["engine"] = [kind |-> "job", id |-> Head(queue)]]
    /\ UNCHANGED <<bootVars, spVars, initVars, njobs, cbVars, refs>>

\* drain_jobs takes the oldest job.
JobStart ==
    /\ epc = "drain" /\ cur["engine"] = Idle /\ queue # <<>>
    /\ queue' = Tail(queue)
    /\ job' = [job EXCEPT ![Head(queue)].fate = "running"]
    /\ cur' = [cur EXCEPT !["engine"] = [kind |-> "job", id |-> Head(queue)]]
    /\ UNCHANGED <<bootVars, spVars, initVars, njobs, cbVars, refs>>

JobReturnKeepsRef ==
    /\ cur["engine"].kind = "job"
    /\ LET j == cur["engine"].id IN job' = [job EXCEPT ![j].fate = "ran"]
    /\ cur' = [cur EXCEPT !["engine"] = Idle]
    /\ UNCHANGED <<bootVars, spVars, initVars, queue, njobs, cbVars, refs>>

\* The job returns or faults; run_ref_once releases its Lua reference.
JobReturn ==
    /\ cur["engine"].kind = "job"
    /\ LET j == cur["engine"].id
       IN /\ job' = [job EXCEPT ![j].fate = "ran"]
          /\ refs' = refs \ {job[j].ref}
    /\ cur' = [cur EXCEPT !["engine"] = Idle]
    /\ UNCHANGED <<bootVars, spVars, initVars, queue, njobs, cbVars>>

\* The queue is empty: run_onframe begins.
DrainEnd ==
    /\ epc = "drain" /\ cur["engine"] = Idle /\ queue = <<>>
    /\ epc' = "frame" /\ fi' = 1
    /\ cb' = [c \in CbId |-> [cb[c] EXCEPT !.calls = 0]]
    /\ UNCHANGED <<bootVars, sp, inited, initVars, cur, jobVars, frames, ncbs, refs>>

CbStart ==
    /\ epc = "frame" /\ cur["engine"] = Idle /\ fi <= Len(frames)
    /\ cb' = [cb EXCEPT ![frames[fi]].calls = @ + 1]
    /\ cur' = [cur EXCEPT !["engine"] = [kind |-> "cb", id |-> frames[fi]]]
    /\ UNCHANGED <<bootVars, spVars, initVars, jobVars, frames, ncbs, refs>>

CbReturn ==
    /\ cur["engine"].kind = "cb"
    /\ fi' = fi + 1
    /\ cur' = [cur EXCEPT !["engine"] = Idle]
    /\ UNCHANGED <<bootVars, epc, sp, inited, initVars, jobVars, cbVars, refs>>

CbFaultSkips ==
    /\ cur["engine"].kind = "cb" /\ cb[cur["engine"].id].ref # 0
    /\ frames' = SubSeq([frames EXCEPT ![fi] = frames[Len(frames)]], 1, Len(frames) - 1)
    /\ refs' = refs \ {cb[cur["engine"].id].ref}
    /\ fi' = fi + 1
    /\ cur' = [cur EXCEPT !["engine"] = Idle]
    /\ UNCHANGED <<bootVars, epc, sp, inited, initVars, jobVars, ncbs, cb>>

\* A Lua callback raises an error: it is disabled, the last entry takes its
\* place and is called next.
CbFault ==
    /\ cur["engine"].kind = "cb" /\ cb[cur["engine"].id].ref # 0
    /\ frames' = SubSeq([frames EXCEPT ![fi] = frames[Len(frames)]], 1, Len(frames) - 1)
    /\ refs' = refs \ {cb[cur["engine"].id].ref}
    /\ cur' = [cur EXCEPT !["engine"] = Idle]
    /\ UNCHANGED <<bootVars, spVars, initVars, jobVars, ncbs, cb>>

SafepointEnd ==
    /\ epc = "frame" /\ cur["engine"] = Idle /\ fi > Len(frames)
    /\ epc' = "game"
    /\ UNCHANGED <<bootVars, sp, inited, fi, initVars, cur, jobVars, cbVars, refs>>

(***************************************************************************)
(* Calls into the executor.                                                *)
(***************************************************************************)
\* Mod code runs on thread t: an init, a job, a callback; on the engine thread
\* also a hook callback between safepoints; a worker once its mod is up.
Calls(t) == CASE t = "engine" -> cur[t] # Idle \/ (epc = "game" /\ inited)
              [] t = "loader" -> cur[t] # Idle
              [] OTHER -> nxt > 1

\* luaL_ref: a reference that is not live, a released one included; 0 stands
\* for a native function.
NewRef(lua) == IF lua THEN CHOOSE r \in Ref : r \notin refs ELSE 0
HasRef(lua) == lua => Ref \ refs # {}

PushNewFirst(id) == <<id>> \o (IF Len(queue) < QueueLimit THEN queue ELSE Tail(queue))

\* job_push: the oldest job makes room when the ring is full.
PushNew(id) == Append(IF Len(queue) < QueueLimit THEN queue ELSE Tail(queue), id)

\* mod.main (lua) or main_enqueue on an armed executor: job_push, which drops
\* the oldest job, and forgets its reference, when the ring is full.
Enqueue(t, lua) ==
    LET id == njobs + 1
        dropped == IF Len(queue) < QueueLimit THEN {} ELSE {Head(queue)}
    IN /\ Calls(t) /\ (lua => t \notin Workers) /\ HasRef(lua)
       /\ armed /\ id \in JobId
       /\ njobs' = id
       /\ queue' = PushNew(id)
       /\ refs' = refs \cup ({NewRef(lua)} \ {0})
       /\ job' = [j \in JobId |->
             CASE j = id -> [fate |-> "waiting", ref |-> NewRef(lua)]
               [] j \in dropped -> [job[j] EXCEPT !.fate = "dropped"]
               [] OTHER -> job[j]]
       /\ UNCHANGED <<bootVars, spVars, initVars, cur, cbVars>>

\* On an executor that is not armed, the function runs at once on the caller.
EnqueueInline(t, lua) ==
    LET id == njobs + 1
    IN /\ Calls(t) /\ (lua => t \notin Workers)
       /\ ~armed /\ id \in JobId
       /\ njobs' = id
       /\ job' = [job EXCEPT ![id] = [NoJob EXCEPT !.fate = "inline"]]
       /\ UNCHANGED <<bootVars, spVars, initVars, cur, queue, cbVars, refs>>

\* mod.on_frame / on_frame: appended, or refused when the list is full.
OnFrame(t, lua) ==
    LET id == ncbs + 1
    IN /\ Calls(t) /\ t \notin Workers /\ HasRef(lua)
       /\ id \in CbId
       /\ Len(frames) < MAX_ONFRAME
       /\ ncbs' = id
       /\ frames' = Append(frames, id)
       /\ cb' = [cb EXCEPT ![id] = [ref |-> NewRef(lua), calls |-> 0]]
       /\ refs' = refs \cup ({NewRef(lua)} \ {0})
       /\ UNCHANGED <<bootVars, spVars, initVars, cur, jobVars>>

Init ==
    /\ lpc = "boot" /\ boot = "none" /\ armed = FALSE
    /\ epc = "game" /\ sp = 0 /\ inited = FALSE /\ fi = 1
    /\ nxt = 1 /\ inits = [i \in DOMAIN Deferred |-> 0]
    /\ cur = [t \in {"engine", "loader"} |-> Idle]
    /\ queue = <<>> /\ njobs = 0
    /\ job = [j \in JobId |-> NoJob]
    /\ frames = <<>> /\ ncbs = 0
    /\ cb = [c \in CbId |-> [ref |-> 0, calls |-> 0]]
    /\ refs = {}

Safepoint ==
    \/ SafepointBegin \/ InitStart("engine") \/ InitReturn("engine") \/ InitsEnd
    \/ JobStart \/ JobReturn \/ DrainEnd
    \/ CbStart \/ CbReturn \/ CbFault \/ SafepointEnd

Loader == BootstrapFails \/ Bootstrap \/ InitStart("loader") \/ InitReturn("loader")

ModCall(t) == \E lua \in BOOLEAN : Enqueue(t, lua) \/ EnqueueInline(t, lua) \/ OnFrame(t, lua)

Next == \/ Loader \/ InstallHook \/ InstallFails
        \/ Safepoint
        \/ \E t \in {"engine", "loader"} \cup Workers : ModCall(t)

Spec == Init /\ [][Next]_vars

\* The game pumps its messages and polls its input every frame; a safepoint
\* that has begun goes on, and mod code returns.  What mods call is up to them.
FairSpec == Spec /\ WF_vars(InstallHook \/ InstallFails) /\ WF_vars(Safepoint)
-----------------------------------------------------------------------------
TypeOK ==
    /\ lpc \in {"boot", "reported", "fallback"}
    /\ boot \in {"none", "posted", "done", "failed"}
    /\ armed \in BOOLEAN /\ inited \in BOOLEAN
    /\ epc \in {"game", "init", "drain", "frame"}
    /\ sp \in 0..MaxFrames
    /\ nxt \in 1..Len(Deferred)+1
    /\ inits \in [DOMAIN Deferred -> Nat]
    /\ cur \in [{"engine", "loader"} -> [kind : {"none", "init", "job", "cb"}, id : Nat]]
    /\ queue \in Seq(JobId) /\ Len(queue) <= QueueLimit
    /\ frames \in Seq(CbId) /\ Len(frames) <= MAX_ONFRAME
    /\ fi \in 1..MAX_ONFRAME+1
    /\ refs \subseteq Ref
    /\ njobs \in 0..MaxJobs /\ ncbs \in 0..MaxCbs
    /\ job \in [JobId -> [fate : {"none", "waiting", "running", "ran", "dropped", "inline"},
                          ref : Ref \cup {0}]]
    /\ cb \in [CbId -> [ref : Ref \cup {0}, calls : Nat]]

\* The holders of a Lua reference: a job that waits, runs or was dropped
\* (job_push forgets its reference), a callback that is still registered.
Holders(r) ==
    {<<"job", j>> : j \in {k \in JobId : job[k].ref = r
                              /\ job[k].fate \in {"waiting", "running", "dropped"}}}
    \cup {<<"cb", frames[i]>> : i \in {k \in DOMAIN frames : cb[frames[k]].ref = r}}

\* Reference discipline of mod.main and mod.on_frame: no job or callback ever
\* names a released reference (luaL_ref hands it to somebody else's function),
\* no two share one, and the only references never released are those of
\* dropped jobs.
RefsOwned == \A r \in Ref :
    IF r \in refs THEN \E h \in Holders(r) : Holders(r) = {h} ELSE Holders(r) = {}

\* mod.main is first come first served and only a full ring drops: the job that
\* starts is older than every waiting one, and a dropped job had QueueLimit
\* newer ones pushed behind it.
JobOrder ==
    /\ \A i, k \in DOMAIN queue : i < k => queue[i] < queue[k]
    /\ {queue[i] : i \in DOMAIN queue} = {j \in JobId : job[j].fate = "waiting"}
    /\ \A j, k \in JobId : job[j].fate = "waiting" /\ job[k].fate \in {"running", "ran"} => k < j
    /\ \A j \in JobId : job[j].fate = "dropped" => j + QueueLimit <= njobs

\* "All Lua runs on this one thread" (executor.h:7): a function handed to the
\* executor runs off the safepoint only if the loader had fallen back, and then
\* nothing ever runs at a safepoint; nobody initialises a mod twice.
OneThread ==
    /\ (\E j \in JobId : job[j].fate = "inline") => lpc = "fallback"
    /\ (lpc = "fallback" => ~armed /\ sp = 0)
    /\ \A i \in DOMAIN inits : inits[i] = (IF i < nxt THEN 1 ELSE 0)

\* Mod init comes first: no job and no on_frame callback starts before every
\* deferred mod was initialised (executor.c:209-211).
InitsFirst == cur["engine"].kind \in {"job", "cb"} => nxt > Len(Deferred) /\ inited

\* "fn() every frame" (executor.h:10): when the on_frame pass ends, every
\* callback still registered was called exactly once in it, whatever faulted,
\* was swapped or was registered meanwhile; none was called twice.
OncePerFrame ==
    [][epc = "frame" => /\ \A c \in CbId : cb'[c].calls <= 1
                        /\ epc' = "game" =>
                              \A i \in DOMAIN frames : cb[frames[i]].calls = 1]_vars

\* exec_bootstrap's "1 = armed" (executor.h:41): once it has reported that, the
\* safepoint hook gets installed.
ReportedMeansArmed == (lpc = "reported") ~> armed

\* Every job is run or displaced while frames keep coming.
JobsServed == \A j \in JobId :
    (job[j].fate = "waiting" /\ sp < MaxFrames) ~> job[j].fate # "waiting"
=============================================================================
