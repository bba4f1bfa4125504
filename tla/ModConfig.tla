----------------------------- MODULE ModConfig -----------------------------
(***************************************************************************)
(* The values of the mods' settings, oss_mods.cfg, and its two writers:    *)
(* the game, where mod.config keeps a table in memory and the safepoint    *)
(* writes it once the player has stopped changing things (config.c,        *)
(* lua_host.c), and the launcher, which keeps its own copy from the moment *)
(* it opens the game directory (cfg.rs, modconfig.rs, main.rs).  Each      *)
(* rewrites the file whole, from its copy.                                 *)
(*                                                                         *)
(* A store is the sequence of the file's rows, [key, val]; of rows with    *)
(* one key the first counts.  Values are counted in halves, so that an     *)
(* integer setting has something to round; a text that is no number is     *)
(* Junk.  Booleans and strings, which no side changes, are left out.       *)
(***************************************************************************)
EXTENDS Integers, Sequences, FiniteSets

CONSTANTS Keys,      \* settings, "<modid>.<setting>"
          Mods,
          ModOf,     \* of a key, the mod
          Schema,    \* of a key, [int, min, max, default], from mod.toml
          Inputs,    \* of a key, values an editor may be given
          Junk,      \* the text of a hand-written value that is no number
          Files,     \* contents oss_mods.cfg may have at first
          MAX_MOD_KV,            \* rows of g_mod
          MOD_SAVE_DEBOUNCE_MS,  \* in ticks
          DWORD      \* GetTickCount counts modulo this

Row == [key : Keys, val : Int \union {Junk}]

ASSUME ModConfigAssumption ==
    /\ "none" \notin Keys
    /\ ModOf \in [Keys -> Mods]
    /\ Schema \in [Keys -> [int : BOOLEAN, min : Int, max : Int, default : Int]]
    /\ Inputs \in [Keys -> SUBSET Int]
    /\ Files \subseteq Seq(Row)
    /\ MAX_MOD_KV \in Nat /\ DWORD \in Nat
    /\ MOD_SAVE_DEBOUNCE_MS \in 1..DWORD-1

VARIABLES file,     \* the rows of oss_mods.cfg
          game,     \* "off", "up", or the flush it is in: "saving", "leaving"
          table,    \* g_mod
          dirty,    \* g_mod_dirty
          since,    \* g_mod_dirty_ms
          clock,    \* GetTickCount
          polled,   \* the safepoint ran in this tick
          launcher, \* "off", "up", or the write it is in: "saving", "removing"
          kv,       \* mods_cfg
          kvdirty,  \* mods_cfg_dirty
          quiet,    \* the player has stopped: no more edits, nothing holds the file any more
          last,     \* of a key, what its last edit made of it
          behind,   \* editors whose copy misses what the other has written
          cause     \* the first thing that could lose an edit, or "none"

copies == <<table, kv>>
clocks == <<since, clock, polled>>
Defaults == [k \in Keys |-> Schema[k].default]
history == <<last, behind, cause>>
configVars == <<file, game, table, dirty, clocks, launcher, kv, kvdirty, quiet, history>>

(***************************************************************************)
(* Stores and values.                                                      *)
(***************************************************************************)
Unset == [key |-> "none", val |-> "unset"]

\* config_mod_get, KvFile::get
Lookup(rows, k) ==
    LET found == {i \in DOMAIN rows : rows[i].key = k}
    IN IF found = {} THEN Unset ELSE rows[CHOOSE i \in found : \A j \in found : i <= j]

\* config_mod_set, KvFile::set: the first row of the key, else one more
Updated(rows, k, v) ==
    IF Lookup(rows, k) = Unset
    THEN Append(rows, [key |-> k, val |-> v])
    ELSE [rows EXCEPT ![CHOOSE i \in DOMAIN rows : /\ rows[i].key = k
                                                   /\ \A j \in 1..i-1 : rows[j].key # k].val = v]

\* KvFile::remove_prefix: the rows of the other mods, in their order
WithoutMod(rows, m) ==
    LET kept == {i \in DOMAIN rows : ModOf[rows[i].key] # m}
        Nth(n) == CHOOSE i \in kept : Cardinality({j \in kept : j <= i}) = n
    IN [n \in 1..Cardinality(kept) |-> rows[Nth(n)]]

Integral(spec, v) == IF spec.int THEN v - (v % 2) ELSE v

\* cfg.set of CONFIG_LUA and ConfigField::clamp: into the bounds, then down to an integer
Clamp(spec, v) ==
    Integral(spec, IF v < spec.min THEN spec.min ELSE IF v > spec.max THEN spec.max ELSE v)

\* What an editor writes reads as a number
ASSUME NumbersAssumption == \A k \in Keys : \A v \in Inputs[k] : Clamp(Schema[k], v) # Junk

\* coerce of CONFIG_LUA and ConfigValue::from_cfg_string: no number reads as 0
Coerce(spec, text) == Integral(spec, IF text = Junk THEN 0 ELSE text)

\* cfg.get, ConfigField::current
Value(rows, k) ==
    IF Lookup(rows, k) = Unset THEN Schema[k].default ELSE Coerce(Schema[k], Lookup(rows, k).val)

\* Bound: nobody starts or edits anything once an edit may be lost; what waits is still written
Editing == ~quiet /\ cause = "none"

\* What stays when rows are written over the start of what another writer left there
Overlay(rows) == rows \o SubSeq(file, Len(rows) + 1, Len(file))

\* A write that does not go through (the disk is full): the first rows are there
CutShort(rows) == \E n \in 0..Len(rows) - 1 : file' = Overlay(SubSeq(rows, 1, n))

\* Once an edit may be lost, there is nothing to compare the file with any more
Account(what, edited, misses) ==
    /\ cause' = IF cause = "none" THEN what ELSE cause
    /\ IF cause' = "none"
       THEN last' = edited /\ behind' = misses
       ELSE last' = Defaults /\ behind' = {}

\* An editor that is behind rewrites the file from a copy without the other's edits
Opens(me, other, edited) ==
    /\ file' = <<>>
    /\ Account(IF me \in behind THEN "stale" ELSE "none", edited, behind \union {other})

\* A file that is being rewritten, or cannot be read, makes an empty copy
Reading(writer) ==
    IF writer \in {"saving", "leaving", "removing"} THEN {[rows |-> file, what |-> "torn"]}
    ELSE {[rows |-> file, what |-> "none"], [rows |-> <<>>, what |-> "unread"]}

(***************************************************************************)
(* The game.                                                               *)
(***************************************************************************)
\* read_kv stops when its table is full
FirstRows(rows) == SubSeq(rows, 1, IF Len(rows) < MAX_MOD_KV THEN Len(rows) ELSE MAX_MOD_KV)

ConfigLoad ==
    /\ game = "off" /\ Editing
    /\ \E r \in Reading(launcher) :
         /\ table' = FirstRows(r.rows)
         /\ Account(IF Len(r.rows) > MAX_MOD_KV THEN "overflow" ELSE r.what, last, behind \ {"game"})
    /\ game' = "up"
    /\ UNCHANGED <<file, dirty, clocks, launcher, kv, kvdirty, quiet>>

Room == Len(table) < MAX_MOD_KV

\* cfg.set and config_mod_set: nothing to do for the value that is there, and a new setting
\* is dropped when the table is full
CfgSet(k, v) ==
    LET text == Clamp(Schema[k], v)
    IN /\ game = "up" /\ Editing
       /\ Lookup(table, k) # [key |-> k, val |-> text]
       /\ \/ /\ Lookup(table, k) # Unset \/ Room
             /\ table' = Updated(table, k, text)
             /\ dirty' = TRUE
             /\ since' = clock
             /\ Account("none", [last EXCEPT ![k] = text], behind)
          \/ /\ Lookup(table, k) = Unset /\ ~Room
             /\ Account("full", last, behind)
             /\ UNCHANGED <<table, dirty, since>>
       /\ UNCHANGED <<file, game, clock, polled, launcher, kv, kvdirty, quiet>>

\* mutant of Elapsed: the tick count taken for a number that only grows
ElapsedSigned == clock - since

Elapsed == (clock - since) % DWORD
Due == Elapsed >= MOD_SAVE_DEBOUNCE_MS

\* mutant of OpenFails: the flag goes whether or not the file was written
OpenFailsClean == dirty' = FALSE

\* The file cannot be opened: the values stay dirty, and the next safepoint tries again
OpenFails == UNCHANGED dirty

\* config_mod_flush(0), of every safepoint; it does nothing unless a change waits
Safepoint ==
    /\ game = "up" /\ dirty /\ ~polled
    /\ polled' = TRUE
    /\ \/ /\ Due
          /\ game' = "saving"
          /\ Opens("game", "launcher", last)
          /\ UNCHANGED dirty
       \/ /\ Due /\ ~quiet
          /\ OpenFails
          /\ UNCHANGED <<game, file, history>>
       \/ /\ ~Due
          /\ UNCHANGED <<game, file, dirty, history>>
    /\ UNCHANGED <<table, since, clock, launcher, kv, kvdirty, quiet>>

\* No change waits: what the two tick counts are is of no interest until the next one
Settled == dirty' = FALSE /\ since' = 0 /\ clock' = DWORD - 1 /\ polled' = FALSE

GameGone == game' = "off" /\ table' = <<>> /\ Settled

\* The rest of write_mods_file: whether the rows get to the disk is not asked, and the values
\* are no longer dirty
WriteRows ==
    /\ game \in {"saving", "leaving"}
    /\ \/ file' = Overlay(table) /\ UNCHANGED history
       \/ CutShort(table) /\ Account("cut", last, behind)
    /\ IF game = "saving" THEN game' = "up" /\ table' = table /\ Settled ELSE GameGone
    /\ UNCHANGED <<launcher, kv, kvdirty, quiet>>

\* lh_shutdown, when the loader is freed while the process lives: config_mod_flush(1)
Shutdown ==
    /\ game = "up"
    /\ \/ /\ dirty
          /\ game' = "leaving"
          /\ Opens("game", "launcher", last)
          /\ UNCHANGED <<table, dirty, clocks>>
       \/ /\ dirty /\ ~quiet
          /\ GameGone
          /\ Account("unsaved", last, behind)
          /\ UNCHANGED file
       \/ /\ ~dirty
          /\ GameGone
          /\ UNCHANGED <<file, history>>
    /\ UNCHANGED <<launcher, kv, kvdirty, quiet>>

\* The process ends, and with it its memory.  Of a write in progress, any first part may be in the file.
GameEnds ==
    /\ \/ /\ game = "up"
          /\ Account(IF dirty THEN "unsaved" ELSE "none", last, behind)
          /\ UNCHANGED file
       \/ /\ game \in {"saving", "leaving"}
          /\ Account("torn", last, behind)
          /\ \E n \in 0..Len(table) : file' = Overlay(SubSeq(table, 1, n))
    /\ GameGone
    /\ UNCHANGED <<launcher, kv, kvdirty, quiet>>

\* Time is of interest only while a change waits; frames are shorter than the clock's range
Tick ==
    /\ game = "up" /\ dirty /\ polled
    /\ clock' = (clock + 1) % DWORD
    /\ polled' = FALSE
    /\ UNCHANGED <<file, game, copies, dirty, since, launcher, kvdirty, quiet, history>>

(***************************************************************************)
(* The launcher.                                                           *)
(***************************************************************************)
\* use_game_dir: a copy, once; choosing the directory again drops what was not saved
UseGameDir ==
    /\ launcher \in {"off", "up"} /\ Editing
    /\ \E r \in Reading(game) :
         /\ kv' = r.rows
         /\ Account(IF kvdirty THEN "unsaved" ELSE r.what, last, behind \ {"launcher"})
    /\ launcher' = "up"
    /\ kvdirty' = FALSE
    /\ UNCHANGED <<file, game, table, dirty, clocks, quiet>>

\* render_field: a widget changed
Edit(k, v) ==
    LET text == Clamp(Schema[k], v)
    IN /\ launcher = "up" /\ Editing
       /\ text # Value(kv, k)
       /\ kv' = Updated(kv, k, text)
       /\ kvdirty' = TRUE
       /\ Account("none", [last EXCEPT ![k] = text], behind)
       /\ UNCHANGED <<file, game, table, dirty, clocks, launcher, quiet>>

\* save_mods_cfg up to the opened file: failing to open it changes nothing
SaveModsCfg ==
    /\ launcher = "up" /\ kvdirty /\ ~quiet
    /\ launcher' = "saving"
    /\ Opens("launcher", "game", last)
    /\ UNCHANGED <<game, copies, dirty, clocks, kvdirty, quiet>>

\* remove_mod: its values go, and the copy is written with whatever else was edited in it
RemoveModValues(m) ==
    LET without == [k \in Keys |-> IF ModOf[k] = m THEN Schema[k].default ELSE last[k]]
    IN /\ launcher = "up" /\ Editing
       /\ kv' = WithoutMod(kv, m)
       /\ \/ /\ launcher' = "removing"
             /\ Opens("launcher", "game", without)
          \/ /\ Account("unwritten", without, behind)
             /\ UNCHANGED <<launcher, file>>
       /\ UNCHANGED <<game, table, dirty, clocks, kvdirty, quiet>>

\* The end of std::fs::write.  save_mods_cfg shows a failure, and Save stays enabled; remove_mod
\* does not, and leaves the flag as it was either way
WriteKv ==
    /\ launcher \in {"saving", "removing"}
    /\ \/ /\ file' = Overlay(kv)
          /\ kvdirty' = (kvdirty /\ launcher # "saving")
          /\ UNCHANGED history
       \/ /\ CutShort(kv)
          /\ Account(IF launcher = "removing" THEN "cut" ELSE "none", last, behind)
          /\ UNCHANGED kvdirty
    /\ launcher' = "up"
    /\ UNCHANGED <<game, copies, dirty, clocks, quiet>>

LauncherEnds ==
    /\ \/ /\ launcher = "up"
          /\ Account(IF kvdirty THEN "unsaved" ELSE "none", last, behind)
          /\ UNCHANGED file
       \/ /\ launcher \in {"saving", "removing"}
          /\ Account("torn", last, behind)
          /\ \E n \in 0..Len(kv) : file' = Overlay(SubSeq(kv, 1, n))
    /\ launcher' = "off"
    /\ kv' = <<>>
    /\ kvdirty' = FALSE
    /\ UNCHANGED <<game, table, dirty, clocks, quiet>>

Quieten == /\ ~quiet
           /\ quiet' = TRUE
           /\ UNCHANGED <<file, game, copies, dirty, clocks, launcher, kvdirty, history>>

ConfigInit ==
    /\ file \in Files
    /\ game = "off" /\ table = <<>> /\ dirty = FALSE
    /\ since = 0 /\ clock = DWORD - 1 /\ polled = FALSE
    /\ launcher = "off" /\ kv = <<>> /\ kvdirty = FALSE
    /\ quiet = FALSE
    /\ last = [k \in Keys |-> Value(file, k)]
    /\ behind = {} /\ cause = "none"

ConfigNext ==
    \/ ConfigLoad \/ Safepoint \/ WriteRows \/ Shutdown \/ GameEnds \/ Tick
    \/ \E k \in Keys : \E v \in Inputs[k] : CfgSet(k, v)
    \/ UseGameDir \/ SaveModsCfg \/ WriteKv \/ LauncherEnds
    \/ \E k \in Keys : \E v \in Inputs[k] : Edit(k, v)
    \/ \E m \in Mods : RemoveModValues(m)
    \/ Quieten

ConfigSpec == ConfigInit /\ [][ConfigNext]_configVars

\* Frames come, time passes, and a write that has begun goes on
ConfigFairSpec == ConfigSpec /\ WF_configVars(Safepoint) /\ WF_configVars(Tick) /\ WF_configVars(WriteRows)

(***************************************************************************)
(* Properties.                                                             *)
(***************************************************************************)
ConfigTypeOK ==
    /\ {file, table, kv} \subseteq Seq(Row)
    /\ game \in {"off", "up", "saving", "leaving"} /\ launcher \in {"off", "up", "saving", "removing"}
    /\ {dirty, polled, kvdirty, quiet} \subseteq BOOLEAN
    /\ {since, clock} \subseteq 0..DWORD-1
    /\ last \in [Keys -> Int] /\ behind \subseteq {"game", "launcher"}
    /\ cause \in {"none", "overflow", "full", "torn", "cut", "unread", "stale", "unsaved", "unwritten"}

AtRest == /\ game = "off" \/ (game = "up" /\ ~dirty)
          /\ launcher \in {"off", "up"} /\ ~kvdirty

(***************************************************************************)
(* When neither editor has anything left to write, oss_mods.cfg says of    *)
(* every setting what its last edit said, across restarts of both and      *)
(* writes that failed and were reported, until one of these has happened:  *)
(* the file had more rows than the game's table (overflow), or a setting   *)
(* did not fit into it any more (full); the file was read or left half     *)
(* written (torn); a write did not go through and nobody was told, in the  *)
(* game or when the launcher took a removed mod's values out (cut); the    *)
(* file could not be read and counted as empty (unread); an editor wrote   *)
(* a copy older than the other's last write (stale), or went away with     *)
(* changes it had not saved (unsaved); the launcher could not open the     *)
(* file to take a removed mod's values out (unwritten).                    *)
(***************************************************************************)
LastEditStands == cause = "none" /\ AtRest => \A k \in Keys : Value(file, k) = last[k]

(***************************************************************************)
(* Once the player stops, a change made in the game does not wait for ever *)
(* to be written while the game runs, also when the tick count wraps round *)
(* in between and after attempts that could not open the file              *)
(* (MOD_SAVE_DEBOUNCE_MS delays a write, it does not lose it).             *)
(***************************************************************************)
EventuallySaved == quiet /\ game = "up" /\ dirty ~> game = "off" \/ ~dirty
=============================================================================
