# Formal model of the SotES mod loader

The repository is a mod loader for a Windows game: a proxy DLL injected into the game (C and C++
under `src/core`) that hosts Lua and native mods, and a launcher (Rust, `src/launcher`) that
installs mods into the game directory. This directory holds TLA+ modules translated from that
code, TLC configurations that check them on small instances, and TLAPS proofs of the results that
do not depend on an instance. `PROJECT.json` is the index: components, runs, the lines each
definition models, the hazards, the disagreements between code and documentation, the theorems.

    tlc -workers 2 -config MCExecutor.cfg MCExecutor.tla      # one run
    tlapm Hooking_proofs.tla                                  # one proof module

## 1. The system

| Component | State | Operations | Talks to |
|---|---|---|---|
| Executor (`core/executor.c`) | armed flag, job ring, on_frame list, deferred inits | bootstrap, install the safepoint hook, safepoint (inits, jobs, on_frame), `mod.main`, `mod.on_frame`, `main_enqueue` | loader thread, game window procedure, every mod |
| Hook registry (`core/hooks.c`) | 64 records of 16 observers, thunk pool, busy flags | `hook.entry`, `hook.typed`, `hook.remove`, dispatch | MinHook, game code on any thread |
| UI pipeline (`core/ui.cpp`) | surface registry, three snapshot buffers and a control word, input slots, live-value cache | `ui.panel`/`ui.window`, `ui_build`, publish, fetch, replay | engine thread, UI thread |
| UI hosts (`core/ui.cpp`) | companion window, visibility, overlay | window loop, toggle, shutdown | UI pipeline, takeover present |
| Takeover present (`core/ddraw_present.cpp`) | second triple buffer, device state | capture a frame, present it, resize | engine thread, UI thread |
| Config store (`core/config.c`) | key table per mod, dirty flag | read, set, debounced flush | safepoint, launcher (same file) |
| Native bridge, early boot (`core/native_bridge.c`, `core/voice.c`) | list of early mods, text-ready waiter | load DLLs, `OssModInit`, `when_text_ready` | loader, executor, hooks |
| Loader lifecycle (`core/loader.c`) | thread, mod list, profile | attach, scan, boot, fallback, detach | all of the above |
| Lua host, memory, bindings (`core/lua_host.c`, `mem.c`, `game_bindings.c`, `sotes_bindings.c`) | one `lua_State`; the save drive's phase | mod tables, guarded reads, roster, save/load drive | engine thread |
| Bundled MinHook (`core/minhook/src`, vendored) | hook table, trampoline pages, suspended threads | initialize, create, enable, disable, remove, uninitialize | hook registry, executor, voice patch |
| Launcher core (`launcher/core/src`) | game directory, `oss_installed.json`, settings | install, update, remove, enable the proxy, edit settings | the file system, the GUI |

**Threads.** The *engine thread* is the game's: its window procedure arms the executor, then one
hooked function per frame (the safepoint) runs everything mods do. The *loader thread* boots the
DLL. The *UI thread* owns the companion window. Other threads of the game, and those native mods
start, may enter hooked functions or call `main_enqueue`. Only two structures are shared without a
lock by design: the snapshot and frame buffers and the input slots (interlocked operations), and a
record's busy flag. Three more threads only wait: the poll thread of early native callbacks, the
voice patch's own, and the one that keeps the game active. The launcher is another process; it and
the game share `oss_mods.cfg` and the game directory.

**What is hard.** The swap of snapshot buffers between two threads; input slots addressed by
position while the layout changes; callbacks that call back into the structure that is walking
them, or raise an error in the middle of it; handles and references that outlive what they named;
a ring and tables at their limit; an arming step that fails after success was reported; a package
operation that fails or dies between two file operations; code patched while threads run it; two
processes that each rewrite a shared file from an old copy; a picture that nobody presents. Section 6
lists what is not covered; `hazards` in `PROJECT.json` has each hazard at its line.

## 2. The modules

| Module | Models | Kind |
|---|---|---|
| `SnapshotRegister` | what a snapshot hand-over promises: a register, the newest value wins, none is taken twice | abstract |
| `TripleBuffer` | `snap_publish`, `snap_fetch` and the recording and replay between them | refines `SnapshotRegister` |
| `UiSurfaces` | surface registry, `ui_build`, input slots, replay | uses the register |
| `LiveWidget` | one slider or checkbox across mod, slot, snapshot and `g_live` | uses the register |
| `Present` | the present hook, the frame triple buffer, the takeover device, the companion's loop, the overlay | its frames refine `SnapshotRegister` |
| `JobQueue` | FIFO of bounded length that drops its oldest | abstract |
| `JobRing` | `job_push`/`drain_jobs` on the array with wrapping indices | refines `JobQueue` |
| `Executor` | bootstrap, safepoint, jobs, on_frame, inits, all calls into them | uses the queue |
| `ExecutorOnRing` | `Executor` and `JobRing` stepping together | composition |
| `HookRegistry` | records, Tier-1 chains, handles, dispatch, workers in the thunk, Tier-2 claims | |
| `TypedHooks` | the Lua chunk of Tier 2: chains, `make_dispatch`, nesting, faults | on the claims of `HookRegistry` |
| `Trampoline` | `CreateTrampolineFunction`: copying, relocation, where it refuses | pure operators |
| `MinHook` | hook table, trampoline slots, freezing and moving threads, patching | uses `Trampoline` |
| `Loader` | one start of the game: five threads and the game's decrypting code | |
| `ModConfig` | `oss_mods.cfg` with the game and the launcher as its writers | |
| `SaveDrive` | `mod.game.save.load` and what shares its hooks and its ring slot | |
| `ModInstall` | install, update, remove, manifest, failures and crashes | |
| `*_proofs` | theorems, section 5 | |
| `MC*` | instances for TLC | |

**TripleBuffer.** `buf`, `ctl`, `write_ix`, `read_ix` are `g_buf`, `g_ctl`, `g_write_ix`,
`g_read_ix`. Each atomic operation is a step: the load, the CAS (won or lost) and the assignment of
the index after it, on either side. A buffer being recorded holds the value `Torn`, which a replay
must never see. The engine publishes only when the hash changed (`BuildChanged`).

**UiSurfaces.** `reg` is `g_reg`; a build is `BuildBegin`, one step per registry entry
(`SkipUnused`, `Draw`, `DrawFault`) and `BuildEnd`. A draw drains the slots of its widgets with
the exchange of `input_take`. The user acts on the snapshot the UI thread holds (`seen`), which may
lag. Interactions are numbered so that properties can follow each to its callback. Registration
happens between builds: the source calls for it from mod inits, and from a draw callback it would
invalidate the iterator of `ui_build` (undefined behaviour, listed as a hazard). `world` says what
the callbacks of a behaviour may draw and whether they fault.

**LiveWidget.** A build is two steps, since the draw callback takes the slot (`Take`) and the
publish comes after all callbacks (`Publish`); so is a frame, which fetches (`Fetch`) and then
replays (`Replay`: re-seed the cache if the snapshot changed and the widget is not held, let ImGui
move the value, store it in the slot). The other thread acts in between. `manner` says whether the
mod adopts every value it is given, or decides which to keep and sets its variable on its own.
`place` says whether the widget has an entry of `g_live` to itself, shares entry 0 with the widgets
beyond `MAX_WIDGETS`, or is one of those: they have no slot, and what is typed into them never
reaches the mod (`ui.cpp:409`, `Alias`). `chosen` and `older` are history: the user's newest choice,
and what a build had recorded before it that the user had not seen. The window is shown, and the
surface stays registered and open.

**Present.** The engine thread is `epc`: the present hook captures (`Capture*`: fill the buffer,
exchange it into `latest`, take the old one as the next), then skips the game's present and
makes the loader's own, or not. The companion is `upc`: it waits, exchanges its buffer for a fresh
one, renders. `world` holds the settings and whether Direct3D may fail; the device may come up at
any later attempt. `ddraw` is read twice, as a boolean by the hook (`Hooked`) and as a number by
`ui_start`; with `true` and a takeover both hosts run (`TwoHosts`). The snapshots of `mod.ui` are
only counted, since `TripleBuffer` has shown how they are handed over to one reader; what two
readers hold is nothing certain (`Fetched`). The key and the messages, which only `Pump` looks at,
come while the loop waits.

**Executor.** `queue` is the ring, `frames` is `g_onframe`. A piece of mod code runs between a
`...Start` step and a `...Return` or `...Fault` step, and in between calls `Enqueue`,
`EnqueueInline` or `OnFrame` as often as the bounds allow; workers call at any time. `CbFault`
swaps the last callback into the hole and calls it next, as `run_onframe` does. A dropped job's
reference is never released, as in `job_push`: `RefsOwned` says so. **ExecutorOnRing** lets every
change of `queue` be a `Push` or `Pop` of the ring, so that what `Executor` treats as a sequence is
the array with its two indices.

**HookRegistry.** `hk` is `g_hk`, `stack` the dispatches in progress (an observer may call another
hooked function), `wpc` the workers between the two tests at the top of `hook_dispatch`. MinHook is
external to this module: it creates once per address with the first thunk, and may refuse to create
or to enable. Handles are record and slot, without a generation, so `RemoveHandle` removes what is
there *now*.

**TypedHooks.** `chain` is `rec.chain`, `inside` is `rec.busy`, `calls` the hooked calls in progress.
A hook runs between `RunPre` or `RunPost` and its return or fault; in between mod code, and the
original too, may register, remove, block and call hooked functions. The pre loop's bound is read
once, the post loop starts at the end the chain has by then, as in the Lua `for` statements. The
two tiers share nothing but the claim on an address; `MCHookRegistry` runs them side by side.

**Trampoline, MinHook.** A function is a sequence of instructions with a kind, a length and a
destination; `Copy` is what the loop of `CreateTrampolineFunction` makes of it, one `Pass` per instruction,
with its refusals, its table of old and new offsets and the jump back. `MinHook` steps through a
call: each thread is suspended on its own (which may fail), moved if it stands in bytes that will
change (which may fail too: `GetThreadContext` at `hook.c:213` and `SetThreadContext` at 257, after
which the thread stays suspended where it was, `unmoved`), the page is unprotected (which may fail),
the bytes are written, the threads go on. The
program itself calls only initialize, create and enable; disable, remove and uninitialize are
modelled because the library offers them.

**Loader.** `lpc` is the loader thread from `config_load` to its end; `waiter` and `voice` are the two
threads that poll for decrypted code, `keeper` the one that keeps the game active. The game's code
is three places that are cipher, plain or patched by somebody. The engine thread gets the safepoint
hook by message and runs the deferred inits in its first frame.

**ModConfig.** `file` is a sequence of rows that a write empties first and then fills; a process
may die in between, and a write may be cut short by a full disk (`CutShort`). The launcher is told
of that and keeps its dirty mark, except in `remove_mod`; the game does not ask (`config.c:115-119`)
and clears its own. One launcher runs at a time, and a row is written whole or not at all.
The game's `table` and the launcher's `kv` are copies read at different times.
`GetTickCount` counts modulo `DWORD`. Numbers are in halves, so that an integer setting has
something to round. `cause` records the first event that can lose an edit, for the property.

**SaveDrive.** `al` is the drive's own state, `slot` the injected record in the game's input ring,
`menu`, `cursor` and `poll` what the game does with it. The controller address captured at one
callback is `"live"`, `"stale"` or `"none"` at a later one. What the source says of the game's title
and save list is modelled as it says it, and marked external.

**ModInstall.** `disk` maps each path to the release its content came from; `mem` and `saved` are
the manifest in memory and on disk. A call is cut wherever it may fail or a crash may separate it.
`Unlink` removes any subset, because `remove_file` errors are ignored.

## 3. The runs

Each asks one question of one component, or of components that act together. States are distinct
states found by TLC.

| Run | Shows | Bounds, and why they suffice | States |
|---|---|---|---|
| `triple_buffer` | no torn replay, latest-wins register, a published snapshot or a newer one is replayed | 5 versions: the three buffers are reused and every CAS race occurs; the safety part is proved for any number | 1 k |
| `ui_surfaces` | slots hold exactly the pending interactions; a build publishes exactly the live surfaces; with steady callbacks each interaction reaches its own | three worlds: *steady* (3 interactions, 2 surfaces of 2 widgets), *shifting* (draws change, overflow the slots, fault), *crowded* (more surfaces than `MAX_SURFACES`) | 254 k |
| `live_widget` | a chosen value is left only for one that was under way when it was chosen; mod and display converge | 3 values, 3 changes by the user, 1 by the mod, 2 kinds of mod, 3 places: a choice before, between and after the two steps of a build, and one while an older choice is still in the slot | 283 k |
| `executor` | job order, references, once per frame, inits first, one thread, jobs served, the ring is a FIFO | 2 mods, 1 worker, ring of 3 slots, list of 2, 3 jobs, 3 registrations, 2 frames: overflow, wrapping, nesting and a fault of every entry occur | 150 k |
| `hooks` | Tier 1: registrations in place, one holder of the busy flag, each observer called once, a registration ends by its own handle or fault. Tier 2: up and down the chain, first blocker wins, nobody left out, one dispatch per address | 2 addresses, 2 records of 2 observers, 3 registrations, nesting 2, 1 worker, 3 thunks; 3 typed hooks, 3 calls in progress: chains, records and pool fill, slots are reused, a chain changes under a nested call | 1.42 M |
| `minhook` | the copy behaves as the original code, the table and the functions' bytes agree, a thread always runs code of its own function, nobody is left in a trampoline that is gone | 2 functions, 12 kinds of code at the head of the first, 1 other thread, 2 pages of 1 slot | 1.20 M |
| `loader` | every mod initialised once, in order, by one thread; monsters have voices; accepted early callbacks are served; the game boots without the user | 2 DLLs that wait for two places, 1 Lua mod for a newer API, 3 kinds of host, tables of 1 deferral | 307 k |
| `mod_config` | an edit stands unless one of the named things happened; a change is saved in the end | 2 settings of 2 mods, table of 2 rows, debounce 2 ticks, tick counter modulo 3: the table fills, the counter wraps, writes are cut at every row | 1.00 M |
| `present` | frames whole and in order; no present of the game is skipped without the loader's own; the companion catches up | 9 settings and reliabilities, one of them with both hosts, 2 numbered frames (later ones count as the last), 1 snapshot | 1.14 M |
| `save_drive` | no confirm of the drive starts a new game; the drive ends | 2 presses or settings of others, with and without a save | 53 k |
| `mod_install` | the manifest is exact until the disk fails; Ok means whole | 4 calls on 2 mods, one with 2 releases that share a file | 160 k |
| `mod_install_rollback` | **violation**: a failed update deletes files of the installed version | 2 calls | |

Deadlock is not checked where behaviours are bounded (a bound on jobs, interactions or calls ends
them) or where the system may rest. The type invariants of the modules are proved where section 5
says so; they were checked with TLC while the modules were written, and are no part of a run.

Every property of a passing run is paired in `PROJECT.json` with a mutant, a plausible slip in the
modelled code that makes TLC violate it.

### Fairness

* `TripleBuffer`, `UiSurfaces`, `LiveWidget`: a build that has begun goes on (the engine runs it
  in every safepoint), and the UI thread fetches a fresh snapshot (`ui_wake` posts to it, and its
  loop wakes at the latest on the heartbeat while the window is visible; `Present` models that
  loop). In `LiveWidget` each half of a build and of a frame is fair on its own (`Take`, `Publish`,
  `DueFetch`, `Replay`), and a fetch is due only when the snapshot is fresh. Users and mods owe nothing. The buffer's loops are lock-free, not wait-free: one side
  repeats its CAS only when the other side moved.
* `Executor`, `ExecutorOnRing`: the game pumps its messages and calls the hooked function every
  frame, and mod code returns. Nothing makes mods call anything.
* `Loader`: each thread is scheduled, the game decrypts its code, opens its window, pumps messages,
  and calls the safepoint while it is active. The user owes nothing, and may leave the window.
* `ModConfig`: while the game is up its safepoint runs in every tick and time passes; a write that
  has begun ends unless the process dies. No player and no launcher has to do anything;
  `EventuallySaved` is for players who stop at some time.
* `Present`: an entered present hook, and the companion's loop, go on. The game need not present.
* `SaveDrive`: the game goes on booting, its demo ends, it keeps polling; a button that is offered
  again and again is seen at some time (strong fairness: the title misses many of them, and the
  drive repeats itself for that reason).
* `HookRegistry`, `TypedHooks`, `MinHook` and `ModInstall` have safety properties only.

## 4. Where code and documentation disagree, and what the properties leave out

One disagreement has a run of its own:

* **Rollback deletes overwritten files** (`install.rs:116`, run `mod_install_rollback`). The comment
  at line 118 says the old install is left untouched.

The others were met while modelling. Where a property would fail because of one, the property says
which case it leaves out.

*User interface.*

* Input slots are positional (`ui.cpp:108`). If a surface disappears between the snapshot the user
  clicked on and the next build, the click goes to the widget now in that position, of another mod;
  `MOD-FORMAT.md:163` promises that interactions reach *your* callback. `ReachesItsCallback` is for
  callbacks that keep drawing the same widgets.
* A widget can jump back, though "the engine's lagged sample can't fight an in-progress drag"
  (`ui.cpp:330-331`). The engine takes a first click and records it; the user clicks again and lets go;
  the engine publishes; the next frame re-seeds to the first value while the second is still in the
  slot. `NoJumpBack` says what is left: only a value that was already recorded when the user chose,
  and that the user had not seen, can take the place of the chosen one, and the mod ends up with the
  choice all the same (`AdoptedConverges`).
* If the user takes hold of a widget while it has jumped back, and lets go without moving it, the
  snapshot with the chosen value is passed by (the seed moves, the value does not) and the display
  stays at the older value, until the mod's variable or the user changes it. `AdoptedConverges`
  leaves out widgets that are held while they show something else than the choice.
* A mod that sets its variable back to the old value before the UI thread fetched the snapshot in
  between is not shown by the widget (`ui.cpp:410` compares with the last snapshot, not with the
  display); `AdoptedConverges` is for mods that adopt what the widget returns.
* Widgets beyond `MAX_WIDGETS` use `g_live[0]` and no slot (`ui.cpp:409`, 417, 425): the user's change
  never reaches the mod, and the first widget of the first surface shows whatever they left there.
  Its own changes still reach its mod, which `AdoptedConverges` says.
* With `ddraw = 0` a snapshot fetched while the companion is hidden is not drawn after it is shown
  until something changes; and the hidden window polls its toggle key only when woken (`ui.cpp:626`
  waits without limit), though `ui.cpp:369` says that the toggle re-shows it. `CompanionCurrent` is
  for the present hook being there.
* `ddraw = true` (as the launcher writes that boolean setting, `loader.toml:51`) counts as 0 in
  `ui.cpp:667` and as on in `executor.c:313`. With a takeover both hosts of ImGui then start, on two
  threads, which `HANDOFF.md:360-364` says must never be; they take snapshots from each other with one
  `g_read_ix`, and share ImGui's current context. The run has that world (`TwoHosts`): frames stay
  whole and every one is shown, but `CompanionCurrent` leaves it out, and what ImGui does there is not
  modelled. `ddraw = 0` with `takeover = 1` gives a companion that is
  hidden at first and no overlay.
* Once the takeover device is up, a failing `Lock`, `Map` or `ResizeBuffers` skips the loader's
  present while `g_present_skip` also skips the game's (`ddraw_present.cpp:91`). A device that never
  comes up is tried again at every present; the game presents itself, but without any `mod.ui`.

*Executor and boot.*

* Armed is reported too early (`executor.c:404`). `exec_bootstrap` returns 1 once it has posted its
  message; installing the hook may still fail, and then no fallback runs and no deferred mod is
  ever initialised. `executor.h:41` says "1 = armed". `ReportedMeansArmed` in `Executor` states it and
  fails for `HookMayFail = TRUE`.
* A job that enqueues itself runs again in the same safepoint (`executor.c:156-165`), so a frame
  need not end.
* Of two callbacks that wait for the same bytes, the second never fires once the first has patched
  them; a `when_text_ready` from `OssModInit` returns 1 although nobody polls any more. `EarlyServed`
  counts a callback as served when somebody else changed its bytes, and is for accepted callbacks
  only until the waiter has given up.
* If the registrar patch is refused, the seed hook is installed all the same and monsters stay
  silent (`voice.c:158`); on the Japanese edition it is a race with the game's own boot. The jump to
  the seed hook is written in three stores while the game may call the function.

*Hooks.*

* Hook handles have no generation (`hooks.c:201`). After a fault the slot is reused; the faulting
  mod, which is not told, later gives its handle back and removes the newcomer, of another mod;
  `MOD-FORMAT.md:91` says mods do not clobber each other. `Tidy` mods know when their observer was
  disabled and return a handle once; `NoClobbering` fails for others.
* A pre hook that sets `ctx.blocked` and then raises is disabled, yet the original is skipped, and
  later pre hooks run until one returns (`hooks.c:289-300`). A hook added during a pre phase, or
  behind a blocker, gets its post without its pre. A removed typed hook stays in its chain, dead.
  An original that raises a Lua error leaves `rec.busy` set for good; the model leaves it out.

*MinHook.* `EnableHook` freezes the threads with `ACTION_ENABLE` also when it disables (`hook.c:742`), so a
thread in the trampoline or on the long jump is not moved back. A `VirtualProtect` that refuses a
disable after `Freeze` has moved the threads leaves them in bytes that stay overwritten. A backward
internal branch over an instruction whose copy grew keeps its old displacement
(`trampoline.c:197`). A branch from behind the copied part back into the first five bytes is not
looked for at all: after the patch it lands in the middle of the jump. `RunsOwnCode`, `LeavesNobody`
and `FaithfulCopy` leave these cases out by name (`retracted`, `missed` for threads that could not be
suspended or not moved, of which `unmoved` are those stopped by the call in progress, `BackOverLonger`, `BackInto`); `MCMinHook` has a function of each kind, so that `RunsOwnCode`
fails without them. The loader never disables a hook.

*Configuration.* The events that can lose an edit are the values of `cause`: the file has more rows
than the table ("overflow"), a new setting finds the table full and is dropped ("full",
`config.c:102`), a process died in the middle of a write ("torn"), a write was cut short and nobody
asked ("cut": `write_mods_file` ignores what `fprintf` and `fclose` return, so that
`config_mod_flush` clears the dirty flag over a file that lacks rows, though its comment at line 124
promises "-1 = write failed (stays dirty, retried next tick)"; `remove_mod` ignores the result of
`write_oss_mods`, `main.rs:499`), the file could not be read ("unread"), the other process wrote from an
older copy ("stale"), a process ended before it saved ("unsaved"), `remove_mod` could not open the file
("unwritten"). A failing `save_mods_cfg` loses nothing by itself, although it has emptied the file: the
mark is cleared only after a write that went through (`main.rs:430`). `LastEditStands` says that of
what is modelled nothing else loses an edit. A mod that changes a value more often than every
400 ms is never saved while it does. Removing mod `a` also drops the settings of a mod called `a.b`.

*Save drive.* After `al_stop` the state stays 3, so that `save.load` never works again, though the
comment at `sotes_bindings.c:601` speaks only of "a second call while driving". Hooks that were
refused, or a full on_frame list, still report success, and the demo stays frozen. The demo trigger
is shared with `mod.game.attract.set`: the drive's end turns on what a mod had turned off. If the
player backs out of the save list, the drive goes on confirming whatever menu polls there, and a
fresh record can be taken by the rebuilt title on its Start row, a new game, which the comment at
lines 482-483 rules out. If the player confirms Continue before the drive does, the drive injects
moves into the list and never confirms. `NoNewGame` and `DriveEnds` name these cases in `meddled`.

## 5. What is proved

The proofs hold for every value of the constants that satisfies the named assumptions.

* `TripleBuffer_proofs`. `IInv` adds to `TypeOK` and `Ownership` the relation between the program
  counters and the buffers: after a won CAS and before the assignment, ownership follows the local
  variables (`EngineOwns`, `UiOwns`), not `write_ix` and `read_ix`. Without it `Ownership` is not
  inductive, since the indices overlap for one step. From `IInv` follow `TypeCorrect`,
  `BuffersOwned`, `NoTear`, and `ImplementsRegister`: a won CAS of `snap_publish` is the abstract
  publish, a won CAS of `snap_fetch` the abstract take, everything else stutters.
* `Present_proofs`. The same for the frame buffers, for any number of frames: `FramesWhole`,
  `FramesShown` (no present of the game is skipped without the loader's own) and
  `ImplementsRegister`. Exchanges make one step less than CAS loops, but an exchange on each side
  can come between the other side's fill and its exchange, and the invariant says who owns what then.
* `Executor_proofs`, for `JobRing`, `Executor` and `ExecutorOnRing`. `RingIsQueue` for every ring of
  at least two slots: the contents are the jobs from tail to head, modulo the size; lemmas say where
  the i-th job is, and what a push with room, a push into a full ring and a pop do to that sequence.
  `TypeCorrect`, `OneThreadHolds` and `InitsFirstHolds` of the executor: neither `OneThread` nor
  `InitsFirst` is inductive: both depend on what was already running when a step began. `IInv` adds
  what the bootstrap implies (`Control`), which mod code each phase allows (`Running`), how far the
  inits have come (`Initialising`) and where an inline call can come from (`Inline`). `FullInv` adds
  four parts for `JobOrderHolds`, `RefsOwnedHolds` and `OncePerFrameHolds`: the ring holds exactly the
  newest jobs, numbered without a gap (`Fates`); no callback is listed twice, and the one that runs is
  at `i` (`Listed`); entries before `i` were called in this pass, those after it were not (`Pass`,
  which a removal keeps because the last entry, not yet called, moves to the place of the running
  one); references have one holder each (`Owned`). `Agree` joins `IInv`, the ring's types and
  `queue = Contents`; from it the indices stay inside the array (`IndicesInside`) and the ring holds
  the queue after any interleaving (`RingHolds`).
* `HookRegistry_proofs`. The busy flag has one holder for mods of any manner (`FlagsHeld`: the parts
  `Basic`, `Records` and `Flags`); with tidy mods registrations are in place and end only by their own
  handle or fault (`InPlace`, `NoOthersHook`: the parts `Chains` and `Called` in addition), and a
  dispatch calls each observer of its chain once (`OnceEach`). The walk goes along an array that nested
  calls and observers change; `Orderly` says of every walk in progress that the observers it has called
  are those it has got past, and that whoever was in the chain when it began is called, gone or still
  ahead. A registration never changes its place or comes back to life (`Ages`), which keeps that true
  of the walks below the innermost.
* `HookRegistry_proofs`, typed hooks. `OneDispatch` and `ChainServed` for any number of addresses and hooks
  and any nesting. Neither is inductive. `TypedInv` says of every call in progress how far its loops
  are and what the lists of hooks it has run contain (`Sound`); the chain under a suspended call only
  grows, and a hook in it never comes back to life (`ChainGrows`), so suspended calls stay sound
  (`StaysSound`), and one lemma per action does the innermost.
* `Hooking_proofs`, MinHook's tables. `TablesHold`, for any functions, whatever they consist of, any
  threads, pages and slots. `TablesAgree` compares sets; the invariant counts: the free list of a page
  names no slot twice and is as long as the page's count says (`Sized`), no page is empty (`InUse`), the
  slots taken are those of the entries (`Held`), a slot's code is of its entry's function (`Own`, so that
  no two entries share one), and the jumps follow the entries (`Jumps`). `Pending` speaks of the call in
  progress: one that will delete hooks still has those to disable that are enabled, so what `Finish`
  deletes has lost its jump, whatever was queued before and wherever a patch was refused.
* `Hooking_proofs`, MinHook's threads. `LeavesNobodyHolds`, for any functions, threads and calls: when a
  jump is taken out, nobody who was stopped and whose context could be read and set is on the long jump above the function or in
  its trampoline. The property speaks of one write; the invariant follows the threads from `Freeze` to it.
  No such thread stands where a jump has still to be taken out (`Cleared`), because what a call has
  still to patch is among the entries it named to `Freeze`, with the same direction (`Aimed`; false of
  `MH_DisableHook`, hence its exception), a thread is only moved by the entry of the function it is in
  (`Once`, `SlotsApart`: another entry cannot move it back into this trampoline), and `FindOldIP` knows
  every place to look for (`Located`, `Copied`: an entry's offsets are those of the code in its slot,
  and a thread is on a jump above a function only where the function has one).
* `Hooking_proofs`, the trampoline. `FaithfulCopyHolds`, for all well-formed code of any length: from the
  copy of an instruction control goes where it goes from the instruction. The induction over the copying
  loop says of what it has copied so far (`Tracks`) that the copies follow one another as the
  instructions do (`Measures`, `Grows`), that `jmpDest` is behind every branch into the copied part and
  no instruction under such a branch has changed its length (`Guards`: what the refusal at
  `trampoline.c:265` is for), and where it may end (`Ends`: behind what a jump overwrites, or at an
  instruction that leaves with no branch of the copy going past it). So the displacement a
  copied branch keeps leads to the copy of what it led to (`BranchCopied`).
* `Hooking_proofs`, where threads run. `RunsOwnCodeHolds`, for any functions, threads, pages and calls,
  whichever suspensions, changes of context and patches fail, of threads that could always be stopped
  and moved. The property speaks of threads that run, and at the step in
  which one runs again it depends on what `Freeze` did to it long before. `RunIInv` says of a stopped
  thread that it is `Ready`: for a function still to be enabled it is off the first five bytes, for one
  still to be disabled in neither the trampoline nor the jump above, and else where it may run on
  (`Clear`). `Freeze` can only get it there if it stood at an instruction that has an entry in the
  table of offsets: hence `Reached`, which every step of the processor keeps, in the function
  (`OwnOnwards`) and in the trampoline (`CopyOnwards`), by the lemmas about the copying loop; without
  `BackInto` and `BackOverLonger` these two lemmas are false. `Watched` and `Pointed` say that nobody
  is stopped twice or forgotten, and that what `Freeze` was told is what will change (but for
  `MH_DisableHook` of one function, which excuses its threads); `Furnished` that a detour calls the
  trampoline of its own entry.
* `UiSurfaces_proofs`. `SlotsHoldPending`, `ReachesCallback` and `ShowsTheLiving`, for any mods,
  callbacks, draws, faults and interactions. An interaction lies in one slot at most (`OneSlot`), and
  one that was not made yet in none (`Fresh`), whatever the build in progress has drained. `Recorded`
  says of the walk over `g_reg` that the surfaces recorded so far are those of the entries in use
  passed so far, in order; at the end of the build that is `ShowsUsed`. `ReachesItsCallback` is not
  inductive: it needs that in a world without faults, whose callbacks always draw the same, surface
  i is that of entry i in every snapshot the user can still click on, so that a slot keeps holding
  interactions with one widget (`SteadyOK`). `Steady` asks in addition that no callback draws more
  widgets than have a slot, since the source records those beyond `MAX_WIDGETS` without one.
* `ModFiles_proofs`. `ManifestIsExact` and `InstallIsWhole`, for any mods, releases and files, any
  number of calls, and whatever fails or crashes. `ManifestExact` speaks of moments between calls;
  the invariant says of every moment of a call which files are written, which are of the old release,
  and which of them no manifest lists yet (`Whole`, `NoStray`, `Pruned`, `Intact`), and that no
  manifest ever lists a file of another mod (`Owned`).
* `ModFiles_proofs`, the settings. `LastEditStandsHolds`: for any keys, bounds and hand-written files,
  and any doings of the game and the launcher, nothing but the named causes loses an edit. The property speaks of
  moments when nothing waits to be written; the invariant follows the edits until then. Until a first
  cause, one editor at a time has the file open, and from then on the other is behind (`OneWriter`);
  the last edits are in the file, or in the copy of the one editor with something to write
  (`EditsAreKept`; when both have, one of the causes is bound to come first); an editor that changed
  nothing says what the file says (`InStep`). The lemmas say what a store says of every key after
  `config_mod_set` and after `remove_prefix`: duplicates stay hidden behind the first row of their key.
* `Loader_proofs`. `InitsInOrderHolds` and `MonstersHeardHolds`, for any DLLs, mods, places and table
  sizes. `Queued` and `InTurn`: what is done and what is left of `run_deferred` is at every step the
  two queues, which hold nothing twice. `OneRunner`: the boot message is posted only by a loader
  thread that will not run the inits itself, and only that message arms the engine. `English`: from
  the first byte of the seed hook on, the registrar is patched or refused, and nothing puts the
  retail jump back, since a place that was written is never plain again.

Some components share a proof module. `TripleBuffer_proofs` ends with the live widget. `ShownStays`
rests on the slot holding the newest choice (`SlotHoldsChoice`), on an adopting mod's variable being what the
newest build recorded (`Adopting`), and on `UnderWay`: going from the build to the screen, what is
recorded, published, fetched and shown differs from one stage to the next only by the choice or by a
value recorded before it. That the seed equals the snapshot while the slot is full is false, and would
be what a widget that never jumps back needs.
`Hooking_proofs` has the save drive as well: `NeverNewGame` rests on the drive having captured the
very title it commits as long as nobody rebuilds it (`SameTitle`), so that whenever the title polls
with a confirm of the drive in the ring, its cursor is on Continue (`AtContinue`).

Assumptions. Besides sizes being numbers, the proofs use: releases of different mods ship different
files (`ShipsAssumption`; without it two mods overwrite each other's files, and the manifest of one of
them is wrong), the values that stand for "no file" and "damaged" are not releases
(`SentinelsAssumption`), a DLL has another name than a Lua mod and than the values that stand for the
state of a patched place (`NamesAssumption`), the worlds are records of the expected shape
(`WorldsAssumption`), a page of MinHook has at least one slot (`SizesAssumption`), the functions it
hooks consist of instructions of at least one byte, whose branches into the first five bytes go to
instructions (`ProgramsAssumption`: code that jumps into the middle of an instruction there has no
boundary the library could move a thread to), and the text an editor writes for a number is not one that
reads as no number (`NumbersAssumption`).
TLC evaluates each of them on the instance of a run.

Every safety invariant and action property of the passing runs is proved. Only model-checked: the
liveness properties (`Delivered`, `EventuallyDelivered`, `AdoptedConverges`, `JobsServed`, `EarlyServed`,
`BootsByItself`, `EventuallySaved`, `CompanionCurrent`, `DriveEnds`), which the proof system cannot handle
under fairness. The induction over the instructions of a function is by hand (`UpTo`, from the
well-foundedness of `<`), since the library's induction theorems take an operator.

## 6. Not modelled, and the plan

Not modelled: Direct3D and ImGui themselves, text and layout, the crash log and profiler, the wiring
of the Lua state, archive hashing, the launcher's screens, `DLL_PROCESS_DETACH` and `ui_shutdown`,
the discovery and sorting of mods. Of MinHook: 64-bit code, the disassembler, `MH_CreateHookApi`,
return addresses inside a callee, and threads whose resuming fails. `Loader` lets `lh_init` succeed; where
it fails the native mods still load, with the executor's lock not set up (`loader.c:190`).
`SaveDrive` lets the demo-freeze patch succeed and counts every title row but Start and Continue as one.

Next, in this order:

1. `MemGuard`: the region walk of the guarded copy and the signature scan on 32-bit addresses.
2. `Proxy`: enabling and disabling the loader DLL, beside `ModInstall`.
3. Detach: `DLL_PROCESS_DETACH`, `ui_shutdown` and the flush, against threads that still run.
