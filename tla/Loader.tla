------------------------------- MODULE Loader -------------------------------
(***************************************************************************)
(* One start of the game with the loader in it: the loader thread from     *)
(* config_load to its last log line (loader.c), the two threads it leaves  *)
(* polling for the game's decrypted code (native_bridge.c, voice.c), the   *)
(* thread that keeps the game active (executor.c), and the engine thread,  *)
(* which gets the safepoint hook from a message and initialises the mods   *)
(* in its first frame.                                                     *)
(*                                                                         *)
(* The game's code is three places: the head of the safepoint function,    *)
(* the head of the bank loader ("seed") and a jump in the sound registrar  *)
(* ("je").  Each is cipher, plain, or named for who has patched it.        *)
(***************************************************************************)
EXTENDS Naturals, Sequences, FiniteSets

CONSTANTS Dlls,        \* DLLs under mods\
          Exports,     \* of each, a subset of {"early", "init"}
          Probe,       \* of each, the places its early init waits for and patches, in order
          LuaMods,     \* directories under mods\ with an init.lua
          Wants,       \* of each, the API version of its mod.toml
          API_MAJOR, API_MINOR,      \* of the loader
          OSS_EARLY_MAX_WAIT,        \* callbacks when_text_ready accepts
          MAX_NDEFER, MAX_DEFER,     \* native and Lua inits that can be deferred
          Worlds,      \* hosts and settings, see `world`
          MaxUnfocus   \* bound on how often the user leaves the game window

Places == {"safepoint", "seed", "je"}

ASSUME DllsAssumption == \A d \in Dlls : /\ Exports[d] \subseteq {"early", "init"}
                                         /\ Probe[d] \in Seq(Places)
ASSUME BoundsAssumption == {API_MAJOR, API_MINOR, OSS_EARLY_MAX_WAIT, MAX_NDEFER, MAX_DEFER, MaxUnfocus} \subseteq Nat
\* What `text` can say of a place besides the DLL that patched it.
Code == {"cipher", "plain", "torn", "voice", "loader"}
ASSUME NamesAssumption == Dlls \cap LuaMods = {} /\ Dlls \cap Code = {}
ASSUME WorldsAssumption ==
    Worlds \subseteq [edition : {"EN", "JP", "other"}, sotes : BOOLEAN, voice : BOOLEAN,
                      keepactive : BOOLEAN, skip : BOOLEAN]

VARIABLES world,    \* [edition, sotes, voice, keepactive, skip]: what the host is, and oss_loader.cfg
          lpc,      \* where the loader thread is
          todo,     \* files or directories its present scan has left
          loaded,   \* DLLs whose code has run
          nativeq,  \* g_ndef
          luaq,     \* g_defer
          ew,       \* g_ew
          waiter,   \* early_waiter: [pc, i, pending]
          voice,    \* voice_waiter: [pc, todo, stolen, refused]
          keeper,   \* keepactive_thread runs
          host,     \* g_L: "none", "up" or "down"
          hwnd,     \* g_hwnd is set
          posted,   \* messages posted to the game window
          armed,    \* g_armed: "no", "yes", or "failed" if the message was handled in vain
          inits,    \* what run_deferred has done: [mod, by, ran]
          run,      \* the run_deferred in progress: [by, todo]
          inited,   \* g_inited
          ui,       \* ui_start was called
          text,     \* the game's code
          bank,     \* the game's voice-bank pointer is set
          game,     \* [launcher, window, sound, active, focus, up]
          away      \* how often the user has left the window

threads == <<waiter, voice, keeper>>
boot == <<hwnd, posted, armed, ui>>
queues == <<nativeq, luaq, loaded>>
mods == <<inits, run, inited>>
vars == <<world, lpc, todo, queues, ew, threads, host, boot, mods, text, bank, game, away>>

Init ==
    /\ world \in Worlds
    /\ lpc = "start" /\ todo = {}
    /\ loaded = {} /\ nativeq = <<>> /\ luaq = <<>>
    /\ ew = <<>>
    /\ waiter = [pc |-> "none", i |-> 1, pending |-> FALSE]
    /\ voice = [pc |-> "off", todo |-> <<>>, stolen |-> "plain", refused |-> FALSE]
    /\ keeper = FALSE
    /\ host = "none"
    /\ hwnd = FALSE /\ posted = {} /\ armed = "no" /\ ui = FALSE
    /\ inits = <<>> /\ run = [by |-> "nobody", todo |-> <<>>] /\ inited = FALSE
    /\ text = [p \in Places |-> "cipher"]
    /\ bank = FALSE
    /\ game = [launcher |-> "none", window |-> FALSE, sound |-> "none",
               active |-> FALSE, focus |-> TRUE, up |-> TRUE]
    /\ away = 0

-----------------------------------------------------------------------------
(* The loader thread.                                                      *)

\* config_load, mem_init and voice_early_init.
VoiceEarlyInit ==
    /\ lpc = "start"
    /\ lpc' = "natives" /\ todo' = Dlls
    /\ voice' = [voice EXCEPT !.pc = IF world.voice /\ world.sotes THEN "polling" ELSE "off"]
    /\ UNCHANGED <<world, queues, ew, waiter, keeper, host, boot, mods, text, bank, game, away>>

\* api_when_text_ready; a full table refuses.
WhenTextReady(table, d, n) ==
    IF n \notin DOMAIN Probe[d] \/ Len(table) >= OSS_EARLY_MAX_WAIT THEN table
    ELSE Append(table, [mod |-> d, place |-> Probe[d][n], n |-> n, done |-> FALSE, fires |-> 0])

\* load_native: the exports are read from an image none of whose code runs.
LoadNative(d) ==
    /\ lpc = "natives" /\ d \in todo
    /\ todo' = todo \ {d}
    /\ \/ UNCHANGED <<queues, ew>>         \* LoadLibraryEx fails, or no export
       \/ /\ Exports[d] # {}
          /\ loaded' = loaded \cup {d}
          /\ ew' = IF "early" \in Exports[d] THEN WhenTextReady(ew, d, 1) ELSE ew
          /\ nativeq' = IF "init" \in Exports[d] /\ Len(nativeq) < MAX_NDEFER
                        THEN Append(nativeq, d) ELSE nativeq
          /\ UNCHANGED luaq
    /\ UNCHANGED <<world, lpc, threads, host, boot, mods, text, bank, game, away>>

\* oss_early_waiter_start, profile_select, exec_keepactive.
NativesDone ==
    /\ lpc = "natives" /\ todo = {}
    /\ lpc' = "host"
    /\ waiter' = IF ew = <<>> THEN waiter ELSE [waiter EXCEPT !.pc = "polling"]
    /\ keeper' = world.keepactive
    /\ UNCHANGED <<world, todo, queues, ew, voice, host, boot, mods, text, bank, game, away>>

LhInit ==
    /\ lpc = "host"
    /\ host' \in {"up", "down"}
    /\ lpc' = "dirs" /\ todo' = LuaMods
    /\ UNCHANGED <<world, queues, ew, threads, boot, mods, text, bank, game, away>>

LoadLuaDir(m) ==
    /\ lpc = "dirs" /\ m \in todo
    /\ todo' = todo \ {m}
    /\ luaq' = IF Len(luaq) < MAX_DEFER THEN Append(luaq, m) ELSE luaq
    /\ UNCHANGED <<world, lpc, loaded, nativeq, ew, threads, host, boot, mods, text, bank, game, away>>

ExecBootstrap ==
    /\ lpc = "dirs" /\ todo = {}
    /\ lpc' = IF world.sotes THEN "waiting" ELSE "fallback"
    /\ UNCHANGED <<world, todo, queues, ew, threads, host, boot, mods, text, bank, game, away>>

\* find_launcher clicks the button of a launcher that is there.
DismissLauncher ==
    /\ lpc = "waiting" /\ world.skip /\ game.launcher = "shown"
    /\ game' = [game EXCEPT !.launcher = "gone"]
    /\ UNCHANGED <<world, lpc, todo, queues, ew, threads, host, boot, mods, text, bank, away>>

\* find_wnd matches; the window is subclassed and the message posted, or not.
FindWindow ==
    /\ lpc = "waiting" /\ game.window
    /\ hwnd' = TRUE
    /\ \/ lpc' = "done" /\ posted' = posted \cup {"boot"} /\ ui' \in BOOLEAN
       \/ lpc' = "fallback" /\ UNCHANGED <<posted, ui>>
    /\ UNCHANGED <<world, todo, queues, ew, threads, host, armed, mods, text, bank, game, away>>

LuaFirst == luaq \o nativeq

\* run_deferred: native mods, then Lua mods.
Deferred == nativeq \o luaq

RunInline ==
    /\ lpc = "fallback"
    /\ lpc' = "inline"
    /\ run' = [by |-> "loader", todo |-> Deferred]
    /\ UNCHANGED <<world, todo, queues, ew, threads, host, boot, inits, inited, text, bank, game, away>>

\* api_compatible: the same major version, and no newer minor one.
ApiCompatible(want) ==
    \/ want = "absent"
    \/ want # "unparseable" /\ want[1] = API_MAJOR /\ want[2] <= API_MINOR

\* A native init, or lh_run_mod: without a Lua state, or with the wrong API, it does nothing.
InitNext ==
    /\ run.by # "nobody" /\ run.todo # <<>>
    /\ LET m == Head(run.todo) IN
       inits' = Append(inits, [mod |-> m, by |-> run.by,
                               ran |-> m \in Dlls \/ (host = "up" /\ ApiCompatible(Wants[m]))])
    /\ run' = [run EXCEPT !.todo = Tail(@)]
    /\ UNCHANGED <<world, lpc, todo, queues, ew, threads, host, boot, inited, text, bank, game, away>>

InitsEnd ==
    /\ run.by # "nobody" /\ run.todo = <<>>
    /\ run' = [run EXCEPT !.by = "nobody"]
    /\ lpc' = IF run.by = "loader" THEN "done" ELSE lpc
    /\ UNCHANGED <<world, todo, queues, ew, threads, host, boot, inits, inited, text, bank, game, away>>

LoaderThread ==
    \/ VoiceEarlyInit
    \/ \E d \in Dlls : LoadNative(d)
    \/ NativesDone
    \/ LhInit
    \/ \E m \in LuaMods : LoadLuaDir(m)
    \/ ExecBootstrap
    \/ DismissLauncher
    \/ FindWindow
    \/ RunInline
    \/ run.by = "loader" /\ (InitNext \/ InitsEnd)

-----------------------------------------------------------------------------
(* early_waiter.                                                           *)

NotReadyForgotten == FALSE

\* An entry whose place does not show its signature keeps the thread polling.
NotReady == TRUE

PollEntry ==
    /\ waiter.pc = "polling" /\ waiter.i <= Len(ew)
    /\ LET e == ew[waiter.i] IN
       \/ /\ ~e.done /\ text[e.place] = "plain"
          /\ text' = [text EXCEPT ![e.place] = e.mod]
          /\ ew' = WhenTextReady([ew EXCEPT ![waiter.i].done = TRUE, ![waiter.i].fires = @ + 1],
                                 e.mod, e.n + 1)
          /\ waiter' = [waiter EXCEPT !.i = @ + 1]
       \/ /\ e.done \/ text[e.place] # "plain"
          /\ waiter' = [waiter EXCEPT !.i = @ + 1, !.pending = IF e.done THEN @ ELSE NotReady]
          /\ UNCHANGED <<text, ew>>
    /\ UNCHANGED <<world, lpc, todo, queues, voice, keeper, host, boot, mods, bank, game, away>>

PassEnds ==
    /\ waiter.pc = "polling" /\ waiter.i > Len(ew)
    /\ \/ ~waiter.pending /\ waiter' = [waiter EXCEPT !.pc = "done"]
       \/ waiter.pending /\ waiter' = [waiter EXCEPT !.i = 1, !.pending = FALSE]
    /\ UNCHANGED <<world, lpc, todo, queues, ew, voice, keeper, host, boot, mods, text, bank, game, away>>

\* OSS_EARLY_TIMEOUT_MS are over at the end of a pass that left something pending.
WaiterTimeout ==
    /\ waiter.pc = "polling" /\ waiter.i > Len(ew) /\ waiter.pending
    /\ waiter' = [waiter EXCEPT !.pc = "gave up"]
    /\ UNCHANGED <<world, lpc, todo, queues, ew, voice, keeper, host, boot, mods, text, bank, game, away>>

-----------------------------------------------------------------------------
(* voice_waiter.                                                           *)

SeedFirst(ed) == IF ed = "EN" THEN <<"seed", "je">> ELSE <<"je">>

\* install_registrar_patch, then on the English edition install_seed_hook.
Patches(ed) == IF ed = "EN" THEN <<"je", "seed">> ELSE <<"je">>

\* The place by whose content an edition is told.
Signature(ed) == IF ed = "EN" THEN "seed" ELSE "je"

DetectEdition ==
    /\ voice.pc = "polling"
    /\ world.edition \in {"EN", "JP"} /\ text[Signature(world.edition)] = "plain"
    /\ voice' = [voice EXCEPT !.pc = "patching", !.todo = Patches(world.edition)]
    /\ UNCHANGED <<world, lpc, todo, queues, ew, waiter, keeper, host, boot, mods, text, bank, game, away>>

VoiceTimeout ==
    /\ voice.pc = "polling"
    /\ voice' = [voice EXCEPT !.pc = "done"]
    /\ UNCHANGED <<world, lpc, todo, queues, ew, waiter, keeper, host, boot, mods, text, bank, game, away>>

VoicePatched == [voice EXCEPT !.todo = Tail(@), !.pc = IF Len(voice.todo) = 1 THEN "done" ELSE @]

\* VirtualProtect or VirtualAlloc fails, or the jump is not the expected one.
PatchRefused ==
    /\ voice.pc = "patching"
    /\ voice' = [VoicePatched EXCEPT !.refused = @ \/ Head(voice.todo) = "je"]
    /\ UNCHANGED <<world, lpc, todo, queues, ew, waiter, keeper, host, boot, mods, text, bank, game, away>>

RegistrarPatch ==
    /\ voice.pc = "patching" /\ Head(voice.todo) = "je" /\ text["je"] = "plain"
    /\ text' = [text EXCEPT !["je"] = "voice"]
    /\ voice' = VoicePatched
    /\ UNCHANGED <<world, lpc, todo, queues, ew, waiter, keeper, host, boot, mods, bank, game, away>>

\* Six bytes are stolen as they are; then the jump is written in several stores.
SeedHookBegin ==
    /\ voice.pc = "patching" /\ Head(voice.todo) = "seed"
    /\ voice' = [voice EXCEPT !.pc = "writing", !.stolen = text["seed"]]
    /\ text' = [text EXCEPT !["seed"] = "torn"]
    /\ UNCHANGED <<world, lpc, todo, queues, ew, waiter, keeper, host, boot, mods, bank, game, away>>

SeedHookEnd ==
    /\ voice.pc = "writing"
    /\ text' = [text EXCEPT !["seed"] = "voice"]
    /\ voice' = [VoicePatched EXCEPT !.pc = IF @ = "writing" THEN "patching" ELSE @]
    /\ UNCHANGED <<world, lpc, todo, queues, ew, waiter, keeper, host, boot, mods, bank, game, away>>

VoiceWaiter == DetectEdition \/ RegistrarPatch \/ PatchRefused \/ SeedHookBegin \/ SeedHookEnd

KeepActiveInFront ==
    /\ keeper /\ hwnd /\ game.focus
    /\ "activate" \notin posted
    /\ posted' = posted \cup {"activate"}
    /\ UNCHANGED <<world, lpc, todo, queues, ew, threads, host, hwnd, armed, ui, mods, text, bank, game, away>>

\* keepactive_thread: posts only while another window is in the foreground.
KeepActive ==
    /\ keeper /\ hwnd /\ ~game.focus
    /\ "activate" \notin posted
    /\ posted' = posted \cup {"activate"}
    /\ UNCHANGED <<world, lpc, todo, queues, ew, threads, host, hwnd, armed, ui, mods, text, bank, game, away>>

-----------------------------------------------------------------------------
(* The game and the user.                                                  *)

Playing == world.sotes /\ game.up

Decrypt ==
    /\ game.up /\ text["seed"] = "cipher"
    /\ text' = [p \in Places |-> "plain"]
    /\ UNCHANGED <<world, lpc, todo, queues, ew, threads, host, boot, mods, bank, game, away>>

ShowLauncher ==
    /\ Playing /\ text["seed"] # "cipher" /\ game.launcher = "none"
    /\ game' = [game EXCEPT !.launcher = "shown"]
    /\ UNCHANGED <<world, lpc, todo, queues, ew, threads, host, boot, mods, text, bank, away>>

Derailed == text["seed"] = "torn" \/ (text["seed"] = "voice" /\ voice.stolen # "plain")

\* The game's bank loader, through the seed hook if it is there.  A half-written
\* jump, or stolen bytes that were somebody's jump, are the end of the game.
LoadBank ==
    /\ Playing /\ game.launcher = "gone" /\ game.sound = "none"
    /\ \/ /\ Derailed
          /\ game' = [game EXCEPT !.up = FALSE]
          /\ UNCHANGED bank
       \/ /\ ~Derailed
          /\ game' = [game EXCEPT !.sound = "loaded"]
          /\ bank' \in IF world.edition = "JP" THEN {TRUE}
                       ELSE IF text["seed"] = "voice" THEN BOOLEAN ELSE {FALSE}
    /\ UNCHANGED <<world, lpc, todo, queues, ew, threads, host, boot, mods, text, away>>

\* With the bank and the retail jump, rows without a deluxe sound get none.
RegisterSounds ==
    /\ Playing /\ game.sound = "loaded"
    /\ game' = [game EXCEPT !.sound = IF bank /\ text["je"] = "plain" THEN "silent" ELSE "registered"]
    /\ UNCHANGED <<world, lpc, todo, queues, ew, threads, host, boot, mods, text, bank, away>>

CreateWindow ==
    /\ Playing /\ game.launcher = "gone" /\ ~game.window
    /\ game' = [game EXCEPT !.window = TRUE, !.active = game.focus]
    /\ UNCHANGED <<world, lpc, todo, queues, ew, threads, host, boot, mods, text, bank, away>>

\* boot_wndproc, install_safepoint_hook: MinHook may refuse at each of its calls.
BootMessage ==
    /\ Playing /\ run.by # "engine" /\ "boot" \in posted
    /\ posted' = posted \ {"boot"}
    /\ \/ armed' = "yes" /\ text' = [text EXCEPT !["safepoint"] = "loader"]
       \/ armed' = "failed" /\ UNCHANGED text
    /\ UNCHANGED <<world, lpc, todo, queues, ew, threads, host, hwnd, ui, mods, bank, game, away>>

ActivateMessage ==
    /\ Playing /\ run.by # "engine" /\ "activate" \in posted
    /\ posted' = posted \ {"activate"}
    /\ game' = [game EXCEPT !.active = TRUE]
    /\ UNCHANGED <<world, lpc, todo, queues, ew, threads, host, hwnd, armed, ui, mods, text, bank, away>>

Ticking == Playing /\ game.active /\ game.sound \in {"registered", "silent"} /\ game.window

FirstFrameAgain ==
    /\ Ticking /\ armed = "yes" /\ run.by = "nobody" /\ Len(inits) < 2 * Len(Deferred)
    /\ run' = [by |-> "engine", todo |-> Deferred]
    /\ posted' = posted \cup {"activate"}
    /\ inited' = TRUE
    /\ UNCHANGED <<world, lpc, todo, queues, ew, threads, host, hwnd, armed, ui, inits, text, bank, game, away>>

\* exec_on_safepoint the first time: the activation kick, and the mods' inits.
FirstFrame ==
    /\ Ticking /\ armed = "yes" /\ ~inited
    /\ inited' = TRUE
    /\ run' = [by |-> "engine", todo |-> Deferred]
    /\ posted' = posted \cup {"activate"}
    /\ UNCHANGED <<world, lpc, todo, queues, ew, threads, host, hwnd, armed, ui, inits, text, bank, game, away>>

Engine ==
    \/ LoadBank \/ RegisterSounds \/ CreateWindow
    \/ BootMessage \/ ActivateMessage \/ FirstFrame
    \/ run.by = "engine" /\ game.up /\ (InitNext \/ InitsEnd)

ClickLaunch ==
    /\ Playing /\ game.launcher = "shown"
    /\ game' = [game EXCEPT !.launcher = "gone"]
    /\ UNCHANGED <<world, lpc, todo, queues, ew, threads, host, boot, mods, text, bank, away>>

SwitchWindow ==
    /\ Playing /\ away < MaxUnfocus
    /\ away' = away + 1
    /\ game' = [game EXCEPT !.focus = ~@, !.active = game.window /\ ~game.focus]
    /\ UNCHANGED <<world, lpc, todo, queues, ew, threads, host, boot, mods, text, bank>>

User == ClickLaunch \/ SwitchWindow

Next ==
    \/ LoaderThread
    \/ PollEntry \/ PassEnds \/ WaiterTimeout
    \/ VoiceWaiter \/ VoiceTimeout
    \/ KeepActive
    \/ Decrypt \/ ShowLauncher \/ Engine
    \/ User

Spec == Init /\ [][Next]_vars

\* Each thread runs; the packer, the launcher dialog and the game go on by themselves;
\* the user owes nothing, and no thread ever has to give up.
FairSpec ==
    /\ Spec
    /\ WF_vars(LoaderThread)
    /\ WF_vars(PollEntry \/ PassEnds)
    /\ WF_vars(VoiceWaiter)
    /\ WF_vars(KeepActive)
    /\ WF_vars(Decrypt \/ ShowLauncher)
    /\ WF_vars(LoadBank) /\ WF_vars(RegisterSounds) /\ WF_vars(CreateWindow)
    /\ WF_vars(BootMessage) /\ WF_vars(ActivateMessage) /\ WF_vars(FirstFrame)
    /\ WF_vars(run.by = "engine" /\ game.up /\ (InitNext \/ InitsEnd))

-----------------------------------------------------------------------------
(* Every mod is initialised at most once, by one thread, natives before    *)
(* Lua mods, none of them before all early inits are over, and by the      *)
(* loader thread only if the engine thread will never do it (g_inited,     *)
(* run_deferred, the fallback of loader.c:225).  A callback that waits for *)
(* the code fires at most once.                                            *)
InitsInOrder ==
    /\ \A i, j \in DOMAIN inits :
          /\ inits[i].by = inits[j].by
          /\ i < j => inits[i].mod # inits[j].mod
          /\ (i < j /\ inits[i].mod \in LuaMods) => inits[j].mod \in LuaMods
    /\ inits # <<>> => lpc \in {"inline", "done"}
    /\ (inits # <<>> /\ inits[1].by = "loader") => (~inited /\ armed = "no")
    /\ \A i \in DOMAIN ew : ew[i].fires <= 1

(* Restoring the voices never costs the monsters theirs: on the English    *)
(* edition the bank is there for the registrar only if the registrar was   *)
(* patched, or could not be (install_registrar_patch before                *)
(* install_seed_hook, voice.c:158).  On the Japanese one, which loads the  *)
(* bank by itself, it depends on the waiter being in time.                 *)
MonstersHeard ==
    (world.edition = "EN" /\ game.sound = "silent") => voice.refused

(* A callback that was accepted fires, or its code was changed by somebody *)
(* else first, or the waiter gave up (early_waiter).                       *)
TakenFromMod(e) == text[e.place] \notin {"cipher", "plain", e.mod}
Served(i) == i <= Len(ew) /\ (ew[i].done \/ TakenFromMod(ew[i]))

EarlyServed ==
    \A i \in 1 .. OSS_EARLY_MAX_WAIT :
        (i <= Len(ew)) ~> (Served(i) \/ waiter.pc = "gave up" \/ ~game.up)

(* With skip_launcher and keepactive, the defaults, the game comes up and  *)
(* every mod that was deferred gets its turn without the user, who may     *)
(* even leave the window; in a host without a profile the loader thread    *)
(* sees to it (exec_bootstrap, keepactive_thread, dismiss_launcher).       *)
BootsByItself ==
    ((world.skip /\ world.keepactive) \/ ~world.sotes) =>
        <>(\/ lpc = "done" /\ run.by = "nobody" /\ Len(inits) = Len(Deferred)
           \/ armed = "failed" \/ ~game.up)

-----------------------------------------------------------------------------
(* The inductive invariant behind InitsInOrder and MonstersHeard.          *)

Entry == [mod : Dlls, place : Places, n : Nat, done : BOOLEAN, fires : Nat]
Turn == [mod : Dlls \cup LuaMods, by : {"loader", "engine"}, ran : BOOLEAN]

ScanTypes ==
    /\ world \in Worlds
    /\ lpc \in {"start", "natives", "host", "dirs", "waiting", "fallback", "inline", "done"}
    /\ todo \subseteq Dlls \cup LuaMods /\ loaded \subseteq Dlls
    /\ nativeq \in Seq(Dlls) /\ Len(nativeq) <= MAX_NDEFER
    /\ luaq \in Seq(LuaMods) /\ Len(luaq) <= MAX_DEFER
    /\ ew \in Seq(Entry) /\ Len(ew) <= OSS_EARLY_MAX_WAIT
    /\ host \in {"none", "up", "down"}

ThreadTypes ==
    /\ waiter \in [pc : {"none", "polling", "done", "gave up"}, i : Nat \ {0}, pending : BOOLEAN]
    /\ voice \in [pc : {"off", "polling", "patching", "writing", "done"},
                  todo : {<<"je", "seed">>, <<"je">>, <<"seed">>, <<>>},
                  stolen : Dlls \cup Code, refused : BOOLEAN]
    /\ voice.pc \in {"patching", "writing"} => voice.todo # <<>>
    /\ keeper \in BOOLEAN

RunTypes ==
    /\ hwnd \in BOOLEAN /\ inited \in BOOLEAN /\ ui \in BOOLEAN
    /\ posted \subseteq {"boot", "activate"} /\ armed \in {"no", "yes", "failed"}
    /\ inits \in Seq(Turn)
    /\ run \in [by : {"nobody", "loader", "engine"}, todo : Seq(Dlls \cup LuaMods)]

GameTypes ==
    /\ text \in [Places -> Dlls \cup Code]
    /\ bank \in BOOLEAN /\ away \in 0..MaxUnfocus
    /\ game \in [launcher : {"none", "shown", "gone"}, window : BOOLEAN,
                 sound : {"none", "loaded", "registered", "silent"},
                 active : BOOLEAN, focus : BOOLEAN, up : BOOLEAN]

TypeOK == ScanTypes /\ ThreadTypes /\ RunTypes /\ GameTypes

\* Every file is queued once, and what the scan has yet to see is not queued.
Queued ==
    /\ \A i, j \in DOMAIN nativeq : i # j => nativeq[i] # nativeq[j]
    /\ \A i, j \in DOMAIN luaq : i # j => luaq[i] # luaq[j]
    /\ lpc = "natives" => \A i \in DOMAIN nativeq : nativeq[i] \notin todo
    /\ lpc = "dirs" => \A i \in DOMAIN luaq : luaq[i] \notin todo
    /\ lpc = "start" => nativeq = <<>>
    /\ lpc \in {"start", "natives", "host"} => luaq = <<>>

\* run_deferred works through the queues from the front.
Begun == inits # <<>> \/ run.by # "nobody"
InTurn ==
    /\ run.by = "nobody" => run.todo = <<>>
    /\ Begun => /\ Len(inits) + Len(run.todo) = Len(Deferred)
                /\ \A i \in DOMAIN inits : inits[i].mod = Deferred[i]
                /\ \A i \in DOMAIN run.todo : run.todo[i] = Deferred[Len(inits) + i]

\* The engine thread has the deferred mods, or can get them, only once the loader
\* thread is done and has left them alone.
EngineMay == "boot" \in posted \/ armed # "no" \/ inited
OneRunner ==
    /\ EngineMay => lpc = "done" /\ run.by # "loader" /\ \A i \in DOMAIN inits : inits[i].by = "engine"
    /\ Begun /\ ~inited => lpc \in {"inline", "done"} /\ ~EngineMay
                            /\ \A i \in DOMAIN inits : inits[i].by = "loader"
    /\ run.by = "loader" => lpc = "inline"
    /\ run.by = "engine" => inited

FiresOnce == \A i \in DOMAIN ew : ew[i].fires = IF ew[i].done THEN 1 ELSE 0

\* On the English edition the registrar is dealt with before the seed hook is
\* begun, and nothing puts the retail jump back.
Registrar == text["seed"] # "cipher" /\ (text["je"] # "plain" \/ voice.refused)
English ==
    world.edition = "EN" =>
        /\ voice.pc = "patching" => text["seed"] # "cipher" /\ voice.todo \in {Patches("EN"), <<"seed">>}
        /\ voice.pc = "writing" => voice.todo = <<"seed">>
        /\ \/ voice.pc \in {"patching", "writing"} /\ voice.todo = <<"seed">>
           \/ text["seed"] \in {"torn", "voice"}
           \/ bank
           => Registrar
        /\ game.sound = "silent" => voice.refused

IInv == TypeOK /\ Queued /\ InTurn /\ OneRunner /\ FiresOnce /\ English
=============================================================================
