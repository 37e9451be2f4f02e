# A verification project for CLEO 5

CLEO 5 is an ASI plugin for GTA San Andreas: it hooks the game's script
interpreter, runs *custom scripts* (`.cs` files) beside the game's own scripts,
and offers them several hundred extra opcodes, most of them implemented by
plugin DLLs. This directory holds TLA+ models of the parts of CLEO where state
is kept across scripts, frames, saves and sessions, the TLC configurations that
check them on small instances, and theorems about them that TLAPS proves for
every value of the constants.

Paths below are relative to the repository (`src/` in `PROJECT.json`).

## 1. The system

### 1.1 How it runs

Almost everything happens on the game's main thread. There is no lock and
hardly a second thread, and yet the code is highly concurrent in the sense that
matters: scripts are coroutines that run for a few opcodes per frame, share the
registry, the mission flag, the function store and the save file, and can stop
each other, or themselves, in the middle of an opcode. The environment (the
player, the game, the disk) ends sessions, saves, loads and fails at any frame.

A *session* begins when the game has initialised its script system
(`CCleoInstance::OnScmInit1..3`), and ends on shutdown or restart
(`OnGameShutdown`, `OnGameRestart1..3`). In a frame the game walks its queue
`pActiveScripts` and calls `HOOK_ProcessScript` for every script; that one
deletes what waits for deletion, starts the custom scripts on its first call of
a session, runs the `ScriptProcessBefore` callbacks of the plugins, interprets
opcodes until the script waits, and runs the `ScriptProcessAfter` callbacks.

### 1.2 Components

| component | source | state | operations |
|---|---|---|---|
| script engine | `source/CScriptEngine.*` | `CustomScripts`, `CustomMission`, `ScriptsWaitingForDelete`, `InactiveScriptHashes`, `LastScriptCreated`, `CleoVariables`, saved thread infos | `GameBegin`, `GameEnd`, `HOOK_ProcessScript`, `HOOK_SaveScmData`, `AddCustomScript`, `RemoveScript`, `RemoveCustomScript`, `RemoveAllCustomScripts`, `LoadState`, `SaveState`, `FindScriptNamed`, `FindScriptByFilename` |
| custom script | `source/CCustomScript.*` | owned code buffer, parent, children, checksum, save flag, directories | constructor (file or label), destructor, path resolution |
| CLEO functions | `source/ScmFunction.*` | `store[0x400]`, `allocationPlace`, one frame per pending call | `new`, `delete`, constructor, `Return`, `Clear` |
| opcode system | `source/CCustomOpcodeSystem.*` | handler table, last/previous opcode, `handledParamCount` | `customOpcodeHandler`, `OnOpcodeFinished`, core opcodes 004E..0AB4, 2000..2003 |
| instance | `source/CleoBase.*` | session flag, init stages, callbacks, save slot | `OnScmInit1..3`, `GameBegin`, `GameEnd`, `Start`, `Stop`, `AddCallback` |
| modules | `source/CModuleSystem.*` | loaded `.s` files, their exports | `GetExport`, `LoadCleoModules`, `LoadFile` |
| plugin loader | `source/CPluginSystem.*` | plugin handles, cached exports | `LoadPlugins`, `FindPluginExport`, `UnloadPlugins` |
| config | `source/CConfigManager.*` | cached and merged INI settings | `ReadInt`, `WriteString`, `Reset` |
| C API | `source/exports.cpp`, `cleo_sdk/*` | none of its own | wrappers, parameter readers, `TrySuspendScript` |
| opcode database, versions, injector, DMA fix, menu, log, CRC | `source/*` | constant tables, patched memory | lookups, code patches |
| Audio | `cleo_plugins/Audio` | streams, their state and volume ramps, pause stack | `CAudioStream`, `C3DAudioStream`, `CSoundSystem` |
| DebugUtils | `cleo_plugins/DebugUtils` | paused scripts, breakpoints, screen and script logs, limits | 00C3, 00C4, 2100..2103, opcode and frame limits |
| files | `cleo_plugins/FileSystemOperations` | open file handles, find handles, streams of two C runtimes | 0A9A..0A9E, 0AAB.., 2300.. |
| memory | `cleo_plugins/MemoryOperations` | allocations, their accounts, loaded libraries, arguments of native calls | 0A8C.., 0AA2..0AA8, 0AC8/9, 2400..2408 |
| Text | `cleo_plugins/Text` | FXT entries, rings of message texts, draw state per script | 0ACA..0AD5, 2600.., 03F0 group |
| entities | `cleo_plugins/GameEntities` | where the searches of each script go on | 0AE1..0AE3, 0AB5.. |
| input | `cleo_plugins/Input` | two states of the keys | 0AB0, 0ADC, 2080..2086 |
| INI files, math | `cleo_plugins/*` | none | queries and conversions |

The components meet at few places: the callbacks of `CleoBase` (plugins free
what a script owned when it is unregistered, finalised or deleted), the game's
queue and mission flag, the script structure itself (`ScmFunction`, `SP`,
`bIsProcessing`, `WakeTime` are fields of it), and the save file.

### 1.3 What is hard, and what makes each part correct

* **Script life** - a removal is a cascade over a tree, is started from inside
  the scripts it removes, and the objects must stay allocated until nobody
  executes them. *Correct:* no pointer to a deleted object, in a list, a family or
  the code of a script; registry, queue and tree agree; a terminated script
  executes no more; all are deleted in the end; nothing crosses a session. Two of
  these fail in the code when a script terminates its own ancestor (section 3).
* **The mission flag** - one Boolean of the game, raised and lowered in four
  places. *Correct:* missions, which share one block of locals, exclude each
  other, and the flag is never up without a mission.
* **Saves and the stop-list** - a script that was stopped stays stopped in the
  saves that descend from this one, and only such a script.
* **CLEO functions** - frames of all scripts share one store of 1023 slots,
  linked by indices. *Correct:* a chain belongs to one script; return restores
  exactly the caller's scope; no frame survives its script.
* **Opcode dispatch** - detects a handler that never came back, keeps counts of
  handled parameters, and lets callbacks override results.
* **Sessions and callbacks** - the three hooks of the game fire in different
  orders for new and loaded games, twice or not at all.
  *Correct:* between two ends a session begins once, with the slot that was chosen,
  and nothing of it is left in any component after it.
* **What is kept over sessions** - settings that are merged, cached, edited by the
  user and sometimes refused by the disk; opcodes several plugins register.
  *Correct:* what was reported as written is in the file (the code cannot tell when the
  disk is full, see section 5); new plugins keep their opcodes.
* **Parameters** - every handler moves the instruction pointer while it reads, and
  may give up in the middle. *Correct:* the next opcode is found, a text that a handler
  gets is whole or fills its buffer and ends inside it, arguments given arrive where they
  were sent. Where the code does less than that is said in section 5.
* **Plugins** - resources owned by scripts; pausing that nests; pointers the game
  keeps into rings of texts; walks and presses asked for in every frame; state
  that is global although scripts believe it theirs. *Correct:* what is held is
  listed until it is released; pointers stay good as long as they are used;
  polling misses nothing.

`PROJECT.json` lists every component with its status, and the hazards, each at
the line where it bites, with the properties that watch it.

## 2. The modules

### 2.1 Plan and order

The life of scripts comes first, because everything else hangs on it; then
functions, which keep the scope of scripts; then what happens around one script
in one frame; then the plugins with state; then the session, with a module for
each component that begins and ends with it. Each module that others could rely
on has an abstract specification of what it promises.

| module | models | composed with | state |
|---|---|---|---|
| `ScriptLifecycle` | abstract: free, live, doomed, free again; a doomed script is deleted only when nobody is being processed | - | done |
| `ScriptEngine` | `CScriptEngine`, `CCustomScript`, the opcodes that start and stop scripts, sessions, saves | refines `ScriptLifecycle` | done |
| `CallStack` | abstract: what a call of a function saves and a return brings back | - | done |
| `CleoCalls` | `ScmFunction`, 0AB1, 0AB2, 2002, 2003, 0050, 0051 | refines `CallStack` | done |
| `ScriptProcessing` | `HOOK_ProcessScript`, `customOpcodeHandler`, DebugUtils, ScriptDrawing | - | done |
| `AudioPlayer` | abstract: a player with play, pause, stop and silence | - | done |
| `AudioStreams` | `CAudioStream`, `C3DAudioStream`, `CSoundSystem`, `CInterpolatedValue` | refines `AudioPlayer` | done |
| `Settings` | `CConfigManager`: file, loaded texts, cache | instantiated by `GameSession` | done |
| `Plugins` | `CPluginSystem`, the table of opcode handlers | the same | done |
| `Modules` | `CModuleSystem`: cache of modules and their exports | the same | done |
| `Memory` | allocations, accounts, libraries | the same | done |
| `Files` | `FileUtils`, `FileSystemOperations` | the same | done |
| `Entities` | the searches of `GameEntities` | the same | done |
| `Texts` | `CTextManager`, the messages of `Text` | the same | done |
| `Params` | parameters and formats: `CCustomOpcodeSystem`, `CLEO_Utils.h`, `exports.cpp` | the same | done |
| `NativeCalls` | `CallFunctionGeneric` of the memory plugin | the same | done |
| `Keys` | `Input` | the same | done |
| `GameSession` | the hooks of `CCleoInstance`, and who is called when a session begins and ends | all ten modules above | done |
| `ScriptEngineProofs`, `ScriptFamilyProofs`, `ScriptMissionProofs`, `CleoCallsProofs`, `AudioProofs`, `ProcessingProofs`, `SessionProofs`, `PartsProofs` | theorems | - | done |

`MCScriptEngine`, `MCCleoCalls`, `MCAudioStreams`, `MCScriptProcessing` and
`MCComponents` hold the values of the instances.

Everything the runs check that is not liveness is proved as well (section 4). What
is left of the plan: lemmas that say more of the models' operators (what a
format prints, what a fold over files of texts gives), and statements about the components that are
modelled only in part.

### 2.2 How they correspond to the code

Names are those of the source where TLA+ allows: variables are members
(`CustomScripts`, `ScriptsWaitingForDelete`, `bAlreadyRunningAMissionScript`,
`store`, `allocationPlace`), actions are functions and opcodes (`RemoveScripts`,
`opcode_0390`, `SystemPause`). An action is a whole handler; the map in
`PROJECT.json` gives the lines for each definition. Definitions preceded by
"Variant" are not part of the model: each is a plausible bug, kept beside the
definition it distorts to show that a property notices.

* **ScriptEngine**: objects are addresses of the heap, so a deleted script's
  address comes back. `current` is the script in `HOOK_ProcessScript`, or
  `Native` for one of the game's; opcodes are taken only by `current`. Deletion
  happens at the beginning of `HOOK_ProcessScript` and at the end of a session,
  as in the code, and never in between. `opcode_2408` takes any pointer, as
  nothing on its way to `RemoveScript` looks at it: a script in the queue, the current
  one included, and with the fault `again` one that was terminated before or deleted.
  Taking what is not in the queue out of it breaks the game's doubly linked list
  (`listBroken`), and what can be reached through it then is any script.
* **CleoCalls**: `store` is the array of frames with slot 0 unused, a script
  has the number of its last frame in `ScmFunction`. The auxiliary `frames` lists
  the pending calls of a script for the properties; no guard reads it.
* **ScriptProcessing**: the callbacks before and after a script are one action
  each, an opcode is one action, from the check of `bIsProcessing` to
  `OnOpcodeFinished`. Terminating a script removes its children, the current script
  among them if it is one, which then goes on. `textFirst` is the order of the two
  callbacks of `ScriptProcessBefore`, chosen in `Init`, since the code keeps callbacks
  in a set of function pointers; a callback that refuses the script keeps the later ones
  from being called (`TextIsReached`), while those of `ScriptProcessAfter` all are.
  `native`, `executed`, `fresh`, `crashed` and `unmatched` are history, the last telling that
  `ScriptProcessingEnd` of ScriptDrawing was called without its beginning.
* **AudioStreams**: a stream is a record of the fields of `CAudioStream`; the
  BASS channel is the external part of it. `GetState` is what scripts see.
* **GameSession**: `hooks` holds the hooks of the game still to come after what the
  user chose, in the order the comment at `CleoBase.cpp:51` and the code give;
  `OnScmInit1..3`, `OnGameEnds` (shutdown and restart) and `Stop` are actions, each
  with all the callbacks it makes: `GameBegin` resets settings and loads texts, `GameEnd`
  ends modules, files and searches with the scripts, then memory and texts. `scriptsLoaded` tells that the
  first `HOOK_ProcessScript` of the session loaded the modules. An action of a
  component is taken while scripts run and leaves the other components alone.
* **Settings**: `iniFile` is the file, `ini` what is loaded of it, `cache` the values
  read; a text is a value with or without a remark behind it. Reading and writing load the file
  first when it is not loaded (`EnsureLoaded`), which merges the embedded settings into it and
  may fail to write them. `SaveIni` looks at the stream only when it opens it: `WriteFails` is
  the refused file, `WriteCutOff` the full disk, which is reported as success. `saved`, `differs`
  and `lost` are history: what was reported as written, where the user or a refused
  write made the texts differ, and what a full disk cut off.
* **Plugins**: `scan` tells which of the three places is being listed (1 to 3), that plugins
  are being loaded (4) or unloaded (5). A file is its place with the plugin's name.
* **Modules**: `disk` is what the files are, `modules` what was read of them, `refs` the
  pointers scripts were given; `data` names one read of one file.
* **Memory**: `heap` is the state of each block, `holds` the references to each library,
  both of the system; the rest are the tables of the plugin.
* **Files**: a stream is what the C runtime knows of it: direction of the last transfer,
  end, error, unwritten data. A handle carries the runtime in its lowest bit.
* **Entities**: `searchState` is the map of a pool from script to index, `walks` the
  history of a walk: what has fitted all along and was not yet found.
* **Texts**: `messageQueue` and `briefs` are the two rings, `BriefMessages` and `PreviousBriefs` the
  game's arrays of pointers into them, with the text that was meant as history.
* **Params**: `code` holds the parameters of one opcode, `ip` a position in it; reading,
  peeking, skipping, counting, writing and the steps of a format are actions, so
  that an opcode is any sequence of them that the SDK allows. `result` and `nul` are how a format
  ended and where it put a terminator, if it put one.
* **NativeCalls**: `arguments` and `textParams` are the static arrays, `call` what the
  last call was given and what lay on the stack, `stored` the places of the array that any call
  has stored an argument in.
* **Keys**: `keyStatesCurr` and `keyStatesPrev`; `keyboard`, `events`, `foreground` and
  `menu` are those of the system and the game, `down` counts in how many checks in a
  row a key was down.

### 2.3 Abstractions and what is external

* *ScriptEngine*. A file is its content, its checksum and its thread name at
  once, so two files never collide. There is one save slot. The game's scripts
  start a mission only while the flag is down; a mission of the game suspended by
  an error is left out. Saving and loading happen when no script is processed. A
  deleted object reads as its destructor left it, zeroed, until its address is used
  again; what is written to it through a dangling pointer is lost.
* *CleoCalls*. Code (`BaseIP`, size, directory) is `Main` or a module; a
  position is the code it lies in. A full store throws in the code and ends the
  game; in the model the call is not enabled. What a saved game of the game
  itself puts into `ScmFunction` is not known from the source and left out.
* *ScriptProcessing*. What is drawn is represented by who drew it; sprites
  follow the texture dictionary. A handler that throws is caught inside
  `ProcessScript_Orig`, so the callbacks after the script are called. If it
  unwound `HOOK_ProcessScript` as well, the game would keep the drawing state of
  the script; nothing in the repository says where the exceptions it mentions
  (`CCustomOpcodeSystem.cpp:45`, "e.g. in SAMP") are caught. `CTimer::m_CodePause`
  keeps the game from processing scripts and not from drawing.
* *AudioStreams*. BASS may refuse to play, a channel may end by itself or be
  restarted; an active channel may be played again. Volumes, panning and
  distances are sound and not state. Scripts act only outside menus.
* *GameSession and its parts*. Each module names its abstractions at its head. Files of
  settings, modules and texts may change or fail at any time; files of data have no
  content, only ends and faults. The pools, the arrays of messages and the keyboard are
  external and modelled from their use. A full disk leaves any of the lines of the settings, and
  possibly one with an empty value, where the real one leaves the first lines and breaks one off. The size of a block, of a text and of a
  buffer is a small number, and only what decides about fitting is kept of it.

## 3. The runs

| run | instance | question | result |
|---|---|---|---|
| `engine_tree` | 3 objects, 1 file, no faults | do families, registry, missions and native saves stay consistent under every order of starts, removals, deletions, saves, loads and sessions, and does no list, parent or code pointer lead to a deleted script? | yes; `NoPointerToDeleted` does not hold with `ancestor` or `again`, see Faults |
| `engine_faults` | 2 objects, `ancestor`, `again`, `suspend`, `read` | are sessions isolated, is memory reclaimed as `ScriptLifecycle` says, is every terminated script deleted, and does a terminated script go on only when it went with an ancestor? | yes; nothing is said of pointers here |
| `engine_saves` | 2 objects, 2 files, one streamed, `ancestor`, `suspend`, `read` | is a terminated script out of every list at once, and does a stopped script stay stopped in later saves? | yes |
| `terminated_runs` | 3 objects, `ancestor` | does a terminated script never execute? | **no**: a child that terminates its parent goes on (finding) |
| `mission_flag_stuck` | 2 objects, `read` | is the flag up only with a mission? | **no**: after a failed read it stays up (finding) |
| `calls_store` | a script of the game and a custom one, 3 slots, a module | do chains, gosubs, directories stay those of their script and code; is the store cleared? | yes |
| `calls_scope` | a mission, 2 slots, conditions, results | does each return bring back the caller's scope? | yes |
| `main_dir_lost` | 2 scripts of the game | does the main directory stay that of main.scm for scripts outside functions? | **no**: they share it (finding) |
| `audio_streams` | one 3D stream, an entity | do silence, places and transitions keep what they promise, and is what was started heard in the end, not only played, while it has a place? | yes |
| `frame_processing` | a custom script, one of the game, both orders of the callbacks | do draws, limits, flags and breakpoints stay those of their script; do frames and pauses end? | yes, draws until an end comes without its beginning |
| `textures_leak` | the same, 2 textures | are all textures unloaded when a script ends? | **no**: only the active one is (finding) |
| `components` | one component at a time with the session, see below | do sessions start fresh, set-up and pointers stay, resources stay listed, streams settled; do texts and arguments arrive, does polling miss nothing? | yes, with the exceptions the properties state (section 5) |

**The run `components`.** The ten modules under `GameSession` share no variable, and
meet only where a session begins and ends. `MCComponents` therefore has one behaviour
for each of fourteen parts (the ten modules, with `Entities` once per pool and `Texts`
once for labels and once for messages, and the instance by itself): the part is chosen in `Init`,
and only its actions and those of the session are taken. Parts that a session does
not end (`Lasting`) see one session, the others one after the other. Only the
instance by itself has saved games and exits, in every order. In the parts other than
the settings, the file of settings is the embedded one throughout. The product of all parts
would repeat these behaviours with the steps of others in between, which
change none of the part's variables; the theorems are about `GameSession`, where
all parts take steps. Its properties are about one hazard each, most of them in
several components: `PointersStayGood` says of modules and texts alike that what was handed
out is still what it was.

**Bounds.** Three objects are a parent, a child and a grandchild, or a parent
and two children, with addresses reused; a fourth could only repeat a relation.
Two files separate "this file" from "another file" in the stop-list. Three slots
of the store are enough for a chain of two, another script's frame, a slot freed
in the middle and `allocationPlace` going round. Two values tell a restored local
from a cleared one. A limit of two commands makes scripts that reach it, exceed
it, and stay below. One key and two
breakpoints make one breakpoint without a key. In `components`, two settings separate the one that is written from the one that
must not suffer; three installed files of two plugins make two copies of one, or
three places; two module files are one of CLEO's own and one of a script, read twice; three
blocks of two scripts make an account that is wrong by more than one; two files and two searches
make one that is released and one that is not; rings of two go round with three
messages; pools of three have a place before, at and behind the index; buffers of
one and three are smaller and larger than a text variable of two; formats consist
of two tokens (text, flag, precision, conversion) and outputs have room for two. Positions, speeds and times of sounds go to 1 and 2, so that steps are
rounded, overshoot, and end exactly. The theorems hold for all values of
these bounds.

**Faults.** The constant `Faults` of `ScriptEngine` names what scripts and the
system may do beyond their normal business. Each makes something fail that one
would expect:

* `ancestor`: a script terminates its parent or grandparent. `RemoveScripts` takes the
  script itself too, but the handler returns as if only the parent had been
  addressed, and the script goes on (finding `terminated_runs`). It may start a child then, from
  a label of its code: that child gets a parent and a code buffer which are freed at
  the next `HOOK_ProcessScript`, while it stays in the queue with both; when it ends,
  `CScriptEngine.cpp:828-830` writes through that parent. So `FamilySafe` and
  `NoPointerToDeleted` fail with this fault, as a consequence of that finding, and are
  checked and proved without it. What holds with it, of any number of scripts:
  the lists name no deleted script (`ListsStayValid`), and
  `RunsOnOnlyThroughAncestor`.
* `again`: `terminate_script` is given a pointer to a script that was terminated before, or
  deleted. No code validates it, and the queue is a list linked through its members: it is broken
  from then on, and nothing of the engine's memory can be promised but that
  deletion follows the life cycle and sessions stay apart. No document
  says what such a pointer does, so that this is no finding.
* `read` makes a documented expectation fail (finding `mission_flag_stuck`).
* `suspend` and `saveMission` lead to states the code visibly does not care for (a
  suspended mission stays in the queue while another one starts; the native save writes a
  mission of CLEO that is not in `CustomScripts`), and the properties concerned are checked
  and proved without them.

`IniFaults` and `DiskFaults` are the writes and reads that may fail: for settings a file that
cannot be opened and a disk that gets full. All properties of `components` hold with all of
them, as they are worded.

In `ScriptProcessing` the order of the callbacks of Text and DebugUtils is the order
of the addresses at which the plugins happen to be loaded. Both are checked. With Text second, a script that
DebugUtils keeps at a breakpoint is never announced to ScriptDrawing, which is nevertheless
told of its end (`unmatched`), and puts what stands in the game's place where the
script's draws belong: `DrawsStaySeparate` and `DrawsAreOwn` are claimed up to
the first such end, and with Text first that is for ever. `NewSession` is not taken in a pause by
a breakpoint (`~codePause`): `DebugUtils` has no such guard
(`DebugUtils.cpp:110-114`) and leaves `CTimer::m_CodePause` up, and what the game makes
of it when it loads is not in this repository.

**Fairness.** `ScriptEngine`: the game goes on processing its queue and every
script that is processed waits in the end (otherwise the game would stand still,
which DebugUtils prevents: `FrameEnds`). `ScriptProcessing`: the game processes the
scripts of a frame it has begun; for `PauseEnds` the player presses the first key
again and again and releases it in between. `AudioStreams`: menus are closed, and
frames in which BASS can play recur. `PlayIsHeard` is about streams that have a place: a 3D
stream that was never given one, or whose host is gone or stands at the origin, stays
muted for as long as that is so, though its channel plays (`Placeable`). Nothing else is assumed, in particular not
that scripts end.

## 4. What is proved

TLAPS checks the theorems for any set of scripts, files, streams and any
bounds, from the assumptions on constants in the modules only: `ConstantsAssumption` of
`ScriptEngine`, `CleoCalls`, `AudioStreams` and `ScriptProcessing`, and
`SessionAssumption` of `GameSession`, which is the conjunction of those its parts state
(`SettingsAssumption`, `TextsAssumption`, ...). Most say that a bound is a natural number. Those
that say more are facts of the code: rings and buffers have at least one place (`ReadStringParam`
of the SDK passes the size of its buffer less one, and `CScriptEngine.cpp:9` refuses
a negative one), labels of texts made for lines are not labels of files
(`TextsAssumption`: they have a character that cannot be printed), and keys are
numbered without gaps (`KeysAssumption`). TLC evaluates all of them in every run.
Every invariant and action property the runs check is stated by a theorem.

* `ScriptEngineProofs`: `TypeCorrect`, `ListsStayValid`, `TerminatedLeavesQueue`,
  `SessionsIsolated`, `StopListPersists`, and the refinement `EngineImplementsLifecycle`. All but
  `StopListPersists` rest on `MemoryInv` and assume that no script is terminated when it is not in the
  queue (`"again" \notin Faults`); scripts may terminate their ancestors. The property that
  no list leads to a deleted object is not inductive by itself: deletion is safe
  only if what waits for deletion is in no other list, which in turn needs that a
  removal takes the whole subtree, hence the two sides of the family links.
* `ScriptFamilyProofs`: `FamiliesAreSafe` and `PointersAreValid`, under the assumption
  that no script terminates its own ancestors - the finding `terminated_runs` shows
  that it cannot be dropped - and none when it is not in the queue. The second says of all that is
  allocated, scripts that wait for deletion and missions forgotten included, that
  parent and code exist. `TerminatedStops` assumes nothing of `Faults`: whatever happens, a
  script goes on past its end only if it was removed with an ancestor while it ran, and
  none is entered again afterwards.
* `ScriptMissionProofs`: `RegistryIsComplete` and `MissionsExclude` as long as no mission is
  suspended (`"suspend" \notin Faults`) and none is terminated again (`"again"`), `FlagIsJustified` as long as no mission file
  fails to be read (`"read"`; the finding `mission_flag_stuck` shows that this cannot be
  dropped), `NativeSavesAreClean` as long as the game is not saved during a mission of CLEO
  (`"saveMission"`) and none is terminated again. Each has these provisos only: scripts may
  terminate their own ancestors and go on, and all other faults may happen. `MissionInv` joins the registry and
  the flag, each of which needs the other. For saves another invariant, `SavingInv`, is
  enough, which lets missions be suspended: what is in the queue and not registered is a mission.
* `CleoCallsProofs`: `TypesAreCorrect` (with the stacks saved in frames),
  `ChainsStaySeparate`, `StoreIsClearedAtEnd` (no slot is in two chains, and a chain
  follows the calls in `frames`), `GosubsReturnInCode`, `DirectoryFollowsCode` (each
  frame has the directory of the code it returns to), and `FunctionsAreCallStacks`: the
  refinement of `CallStack`. The mapping reads the calls of a script from its chain, so
  that a step of one script must leave the frames and variables of all others that run
  alone (`OthersUntouched`): for frames because no slot is in two chains, for the
  variables of missions because no two missions run (`OneMission`).
* `AudioProofs`: `TypesAreCorrect`, `SilenceKept`, `SoundHasPlace`,
  `TransitionsAreMonotonic`, from an invariant per stream; the lemma
  `UpdateApproaches` shows that a step of the wrong sign ends at the target.
  `StreamsImplementPlayer` is the refinement of `AudioPlayer`: `Seen` is what a script
  sees of a stream, and there is a lemma for what each function of `CAudioStream` does
  to it. A sound that goes on is a step of the player only because a channel plays for
  none but a stream that plays, and never in silence.
* `SessionProofs`: `SessionStartsFreshHolds`, `SetupIsKeptHolds`, `StreamsAreSettledHolds`,
  `PollsMissNothingHolds`, and, by themselves, the parts of the properties that are about
  modules (`RefsStayValid`), memory (`TablesAreExact`), files (`HandlesAreOwned`) and settings
  (`WrittenStays`). They are about all
  components together: the lemma `StepChanges` says which step a step of `GameSession` is
  for each component, and every component has its own inductive invariant.
  `SessionInv` lists what the hooks still to come may be, and what holds before
  each: a session that is over must have been ended before the first hook that
  can begin the next. `SettingsInv` says that loaded texts and file agree, remarks
  aside, except where a write was refused or cut off by a full disk; merging defaults changes nothing that is said.
  `PluginsInv` says that files still to load come from no worse place than those
  loaded: with it the last registration of an opcode is the right one. `FilesInv`
  says in which state each opcode leaves a stream. `EntitiesInv` says that what is missing
  in a walk lies behind its index; `KeysInv` that the two states tell the
  first check a key is down in from later ones. `ModulesInv` and `TablesInv` are close to
  what they prove.
* `ProcessingProofs`: `TypesAreCorrect`, `LimitCounts`, `FlagIsReliable`,
  `GameDrawsAreKept` and `ScriptDrawsAreOwn`, for either order of the callbacks, and with scripts
  that go on after they were removed with their parent. The invariant `DrawInv`
  says what the properties cannot: while a custom script is interpreted, what
  stands in the game's place is the script's own, and what is put aside is
  the game's.

* `PartsProofs`: what the properties of `components` say of all parts together, each from
  the invariants of its parts.
  * `ResourcesAreListedHolds`. `ChargesInv` adds that the accounts come to at
    least as many blocks as are listed. A sum is no operator the provers know, so that the sum over a
    finite set is characterised first (`IsSum`), shown to exist and to be unique, and
    lemmas say what one account more, less or changed does to it. That a block is freed by one who
    did not allocate it lowers a wrong account, but never more than by one block: hence
    the sum holds where the single account does not.
  * `ParametersArriveHolds`. `ParamsInv` gives each parameter of the opcode its start (`Starts`)
    and says that the pointer of an opcode in progress is at the start of the parameter
    that comes next, that of a finished one behind the terminator, and
    where each outcome of a format leaves the terminator. `CallsInv` says that the arguments given are
    on the stack, and what was declared beyond them is zero in places never stored in; texts are copied into buffers in order, so that no two
    arguments share one because as many were copied before each as its number says.
  * `PointersStayGoodHolds`. `LabelsInv`: the lines of a frame have the labels 0, 1, ... in order,
    and the table has their texts until the frame ends. `MessagesInv`: a message that waits has its place
    in the ring behind the last one written by at least as many places as were put since,
    and a brief is taken from the list before its place is written again.
  * `ComponentsTypeOKHolds`: types of all ten parts, with the bounds on lists, rings and typed text.

  What runs through a sequence (a fold, a filter, the starts of parameters) is proved by lemmas of
  the module on natural induction (`NaturalInduction`, `FoldRuns`), which is proved from
  the least element of a set of numbers: the library's induction theorems take an
  operator as a parameter.

**Only model-checked.** Liveness (`TerminatedIsDeleted`, `PlayIsHeard`, `FrameEnds`,
`PauseEnds`) under the fairness stated in section 3: it needs `ENABLED`, which is out of the
prover's reach. The findings are counterexamples and stay with TLC.

## 5. What is not modelled

`PROJECT.json` lists every component with its status and, for those not modelled,
the reason: they are stateless (math, INI files), output (logs, checksums) or
patches and tables applied once (injector, DMA fix, opcode database). Of components
that are modelled in part, what is left out reads or writes one value of the game
or of a path, or is sound or layout.

Known limits of the models, besides the abstractions above: after 0A95 a child
terminated earlier enters its parent's checksum; the frames of scripts that end
inside functions stay in the store until the session ends (`StoreIsCleared` says that
they do not stay longer); releasing any breakpoint starts the game again although
another blocking one waits; scripts terminated at a breakpoint stay in the list of
paused ones. The models show these as the code does them; no statement in the
repository says otherwise.

The same holds for what was met in the components of `GameSession`:

* `ThreadSavingInfo` (`CScriptEngine.cpp:141`) saves the time a script still waits with the
  test the wrong way round, and neither the gosub stack nor the frame of a function. Which
  scripts are saved is modelled, what is saved of them is not: any property of it
  that one would want is contradicted by the code, and none is stated.
* `SaveIni` (`CConfigManager.cpp:250-300`) and the write of the embedded settings
  (`CConfigManager.cpp:205-207`) do not look at the stream after it was opened. When the disk gets full,
  `WriteString` reports a setting as written whose line, or that of another setting, is
  missing or broken off; writing the same value again does nothing, because the cache
  has it. `Settings!WrittenStays` says what is left: such a setting (`lost`) is still loaded, comes back to the
  file with the next write that gets through, and is gone when the file is loaded
  before that.
* `ReadFormattedString` puts its terminator one byte behind a buffer that is full when an
  argument is missing or a specifier unknown (`CCustomOpcodeSystem.cpp:499`, `:572`), and none
  when the last specifier is a lone `%` (`:377-384`) or the format is nullptr (`:353-358`). It returns
  nullptr in all these cases, and the macros of the SDK then suspend the script
  (`CLEO_Utils.h:1102-1115`), so that no handler reads the output; `Params!OutputIsEnded` states each
  case as it is.
* A native call that declares more arguments than it is given, where that is not validated strictly,
  pushes what earlier calls left in the static array. The comment at `MemoryOperations.cpp:284` says
  that CLEO 4 provided zeros for them; this code does so only in places no call has
  stored an argument in, and `NativeCalls!ArgumentsArrive` claims no more than that.
* A module file that could not be read once is not read again before the session
  ends (`Modules!LoadFile`); a setting whose write was refused is written by the
  next write of any other (`Settings!WriteString`).
* A precision given as an argument (`%.*f`) is read, but its star is not passed over
  (`CCustomOpcodeSystem.cpp:436`): such a format ends at an unknown specifier. `FormatPrecision`
  has it so.
* For files of the game's runtime the result of `ferror` is not stored (`File::isOk`), so
  no error is ever seen; and scanning such a file (`FileUtils.cpp:448`) does not end
  when the file ends first. The model stops there.
* `DeleteDir` (`FileSystemOperations.cpp:510`) leaves its searches open when it gives up. The
  model counts them (`MaxLeaks`).
* A message shown at once while others wait uses a place of the ring; when enough of
  them come, the text of a waiting message is replaced. `MessagesKeepText` has the
  exact condition.
* Labels of texts are stored in capitals and looked for as given, so that a label given
  otherwise is never found again (`CTextManager::AddFxt`).
* A text where a number is expected loses the script's position only when the script
  is not validated, or in the arguments of a format (`Params!PointerIsAtParam`).
