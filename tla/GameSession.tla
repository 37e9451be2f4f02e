----------------------------- MODULE GameSession -----------------------------
(***************************************************************************)
(* CCleoInstance: CLEO starts with the process, a session begins when the  *)
(* hooks of the game say so and ends when another is loaded or the game is *)
(* left; what the parts keep for scripts lives as long as the session.     *)
(*                                                                         *)
(* The parts share no state.  A step is one of the instance, with all the  *)
(* parts it calls, or one of a single part; only scripts that were loaded  *)
(* take the steps of opcodes.                                              *)
(*                                                                         *)
(* Abstractions.  The hooks the game goes through after a choice of the    *)
(* user are a sequence of their names, in the order the game calls them.   *)
(***************************************************************************)
EXTENDS Integers, Sequences, SequencesExt

CONSTANTS
  SaveSlot,   \* saved games
  Setting, Default, Summary, Value, NoValue, NoFile, IniFaults,         \* Settings
  Plugin, Opcode, Core, Null, Other, MaxPlugins,                        \* Plugins
  ModuleFile, Export, CleoModule, MaxLoads,                             \* Modules
  Script, Block, Size, Library, MaxCount, MaxHolds,                     \* Memory
  Stream, Search, DiskFaults, MaxLeaks,                                 \* Files
  Searcher, PoolSize,                                                   \* Entities
  Label, FxtText, Message, Subtitle, FxtFile, MessageQueueSize, BriefSize, MaxLines, \* Texts
  Kind, Length, BuffSize, LabelSize, StringSize, MaxParams,             \* Params
  Token, MaxTokens, OutSize, MaxPrinted,
  Zero, Words, Max_Args, Max_Text_Params,                               \* NativeCalls
  Key, Cheat, MaxEvents, CheatLength                                    \* Keys

VARIABLES
  m_isStarted, m_bGameInProgress, saveSlot, scriptsLoaded,
  m_bWantToLoad, m_nSelectedSaveGame,   \* of the game's menu: what the user chose last
  booted,                               \* the game was initialised before
  hooks                                 \* hooks the game has still to call for that choice

VARIABLES
  iniFile, ini, iniLoaded, cache, saved, differs, lost,
  files, blacklist, opcodesOf, scan, paths, names, skippedPaths, plugins, pluginsLoaded,
  customOpcodeProc, foreign, exportsCache,
  disk, headers, modules, loads, refs,
  heap, m_allocations, m_scriptAllocationsInfo, m_libraries, holds,
  streams, m_hFiles, searches, m_hFileSearches,
  pool, searchState, walks,
  fxts, genericLabelCounter, introTextLines, messageQueue, queueIdx, briefs, briefIdx,
  BriefMessages, PreviousBriefs, bAddNextMessageToPreviousBriefs, m_bPrefsShowSubtitles,
  code, strict, ip, handledParamCount, mode, text, fmt, written, result, nul,
  arguments, textParams, call, stored,
  keyStatesCurr, keyStatesPrev, keyboard, events, foreground, menu, m_CheatString, down, answer

Cfg == INSTANCE Settings
Plg == INSTANCE Plugins
Mod == INSTANCE Modules
Mem == INSTANCE Memory
Fil == INSTANCE Files
Ent == INSTANCE Entities
Txt == INSTANCE Texts
Par == INSTANCE Params
Cal == INSTANCE NativeCalls
Inp == INSTANCE Keys

ASSUME SessionAssumption ==
  /\ SaveSlot \subseteq Nat
  /\ Cfg!SettingsAssumption /\ Plg!PluginsAssumption /\ Mod!ModulesAssumption /\ Mem!MemoryAssumption
  /\ Ent!EntitiesAssumption /\ Inp!KeysAssumption
  /\ Txt!TextsAssumption /\ Par!ParamsAssumption /\ Cal!CallsAssumption

settingsVars == <<iniFile, ini, iniLoaded, cache, saved, differs, lost>>
pluginsVars == <<files, blacklist, opcodesOf, scan, paths, names, skippedPaths, plugins, pluginsLoaded,
                 customOpcodeProc, foreign, exportsCache>>
modulesVars == <<disk, headers, modules, loads, refs>>
memoryVars == <<heap, m_allocations, m_scriptAllocationsInfo, m_libraries, holds>>
filesVars == <<streams, m_hFiles, searches, m_hFileSearches>>
entitiesVars == <<pool, searchState, walks>>
textsVars == <<fxts, genericLabelCounter, introTextLines, messageQueue, queueIdx, briefs, briefIdx,
               BriefMessages, PreviousBriefs, bAddNextMessageToPreviousBriefs, m_bPrefsShowSubtitles>>
paramsVars == <<code, strict, ip, handledParamCount, mode, text, fmt, written, result, nul>>
callVars == <<arguments, textParams, call, stored>>
keysVars == <<keyStatesCurr, keyStatesPrev, keyboard, events, foreground, menu, m_CheatString, down, answer>>

choiceVars == <<m_bWantToLoad, m_nSelectedSaveGame, booted, hooks>>
sessionVars == <<m_isStarted, m_bGameInProgress, saveSlot, scriptsLoaded, choiceVars>>
setupVars == <<settingsVars, pluginsVars>>
tableVars == <<modulesVars, memoryVars, filesVars, entitiesVars>>
codeVars == <<paramsVars, callVars, keysVars>>
vars == <<sessionVars, setupVars, tableVars, textsVars, codeVars>>

----------------------------------------------------------------------------
(* The instance *)

\* The plugins are loaded, and the hooks are in place.
Start ==
  /\ ~m_isStarted /\ Plg!LoadEnd
  /\ m_isStarted' = TRUE
  /\ UNCHANGED <<m_bGameInProgress, saveSlot, scriptsLoaded, choiceVars, settingsVars, tableVars,
                 textsVars, codeVars>>

\* Nothing when a session is in progress. The callback of the Text plugin loads its files.
GameBegin(slot) ==
  IF m_bGameInProgress
  THEN UNCHANGED <<m_bGameInProgress, saveSlot, settingsVars, textsVars>>
  ELSE /\ m_bGameInProgress' = TRUE
       /\ saveSlot' = slot
       /\ \E load \in Cfg!FilesAfterFresh : Cfg!Reset(load)
       /\ \E file \in FxtFile : Txt!LoadFxts(file)

NoBegin == UNCHANGED <<m_bGameInProgress, saveSlot, settingsVars, textsVars>>

\* ScriptEngine.GameEnd, when it had loaded the scripts
ScriptsEnd ==
  /\ scriptsLoaded' = FALSE
  /\ IF scriptsLoaded THEN Mod!Clear ELSE UNCHANGED modulesVars

\* The callbacks of the plugins, then the script engine and the opcode system.
GameEnd ==
  IF ~m_bGameInProgress
  THEN UNCHANGED <<m_bGameInProgress, saveSlot, scriptsLoaded, textsVars, tableVars>>
  ELSE /\ m_bGameInProgress' = FALSE
       /\ Mem!OnGameEnd /\ Txt!Clear
       /\ ScriptsEnd
       /\ Fil!OnFinalizeScriptObjects /\ Ent!OnScriptsFinalize
       /\ saveSlot' = -1

----------------------------------------------------------------------------
(* Hooks of the game *)

Hook(name) == hooks # <<>> /\ Head(hooks) = name /\ hooks' = Tail(hooks)

OnScmInit1 ==
  /\ Hook("OnScmInit1")
  /\ IF m_bWantToLoad THEN NoBegin ELSE GameBegin(-1)
  /\ UNCHANGED <<m_isStarted, scriptsLoaded, m_bWantToLoad, m_nSelectedSaveGame, booted, pluginsVars,
                 tableVars, codeVars>>

\* Variant: a session begins whatever the user chose.
OnScmInit2Always ==
  /\ Hook("OnScmInit2") /\ booted' = TRUE
  /\ GameBegin(-1)
  /\ UNCHANGED <<m_isStarted, scriptsLoaded, m_bWantToLoad, m_nSelectedSaveGame, pluginsVars,
                 tableVars, codeVars>>

OnScmInit2 ==
  /\ Hook("OnScmInit2") /\ booted' = TRUE
  /\ IF m_bWantToLoad THEN NoBegin ELSE GameBegin(-1)
  /\ UNCHANGED <<m_isStarted, scriptsLoaded, m_bWantToLoad, m_nSelectedSaveGame, pluginsVars,
                 tableVars, codeVars>>

OnScmInit3 ==
  /\ Hook("OnScmInit3")
  /\ GameBegin(m_nSelectedSaveGame)
  /\ UNCHANGED <<m_isStarted, scriptsLoaded, m_bWantToLoad, m_nSelectedSaveGame, booted, pluginsVars,
                 tableVars, codeVars>>

\* OnGameShutdown and OnGameRestart1 to 3
OnGameEnds ==
  /\ Hook("OnGameEnds")
  /\ GameEnd
  /\ UNCHANGED <<m_isStarted, m_bWantToLoad, m_nSelectedSaveGame, booted, setupVars, codeVars>>

\* The process ends, with or without a shutdown of the game.
Stop ==
  /\ Hook("Stop") /\ m_isStarted' = FALSE
  /\ GameEnd
  /\ Plg!UnloadPlugins
  /\ UNCHANGED <<m_bWantToLoad, m_nSelectedSaveGame, booted, settingsVars, codeVars>>

\* HOOK_ProcessScript calls GameBegin of the script engine before each script; the first one of
\* a session finds that nothing is loaded. The list of scripts is never empty there, and the
\* callback at the start of the frame came before.
ProcessScript ==
  /\ hooks = <<>> /\ ~scriptsLoaded /\ m_bGameInProgress
  /\ scriptsLoaded' = TRUE
  /\ Mod!LoadCleoModules /\ Txt!OnGameProcessBefore
  /\ UNCHANGED <<m_isStarted, m_bGameInProgress, saveSlot, choiceVars, setupVars, memoryVars,
                 filesVars, entitiesVars, codeVars>>

----------------------------------------------------------------------------
(* The user, in the menu or anywhere *)

Chooses(calls) ==
  /\ m_isStarted /\ hooks = <<>> /\ hooks' = calls
  /\ UNCHANGED <<m_isStarted, m_bGameInProgress, saveSlot, scriptsLoaded, booted, setupVars, tableVars,
                 textsVars, codeVars>>

NewGame ==
  /\ Chooses(IF booted THEN <<"OnGameEnds", "OnScmInit1">> ELSE <<"OnScmInit2">>)
  /\ m_bWantToLoad' = FALSE /\ UNCHANGED m_nSelectedSaveGame

LoadGame(slot) ==
  /\ Chooses(<<IF booted THEN "OnGameEnds" ELSE "OnScmInit2", "OnScmInit1", "OnScmInit3">>)
  /\ m_bWantToLoad' = TRUE /\ m_nSelectedSaveGame' = slot

Exit(shutdown) ==
  /\ shutdown => booted
  /\ Chooses(IF shutdown THEN <<"OnGameEnds", "Stop">> ELSE <<"Stop">>)
  /\ UNCHANGED <<m_bWantToLoad, m_nSelectedSaveGame>>

----------------------------------------------------------------------------
(* Steps of the parts *)

SettingsStep == Cfg!SettingsNext /\ UNCHANGED <<sessionVars, pluginsVars, tableVars, textsVars, codeVars>>

OnlyPlugins == UNCHANGED <<sessionVars, settingsVars, tableVars, textsVars, codeVars>>
InstallPlugins == Plg!InstallNext /\ OnlyPlugins
LoadPlugins == Plg!LoadNext /\ OnlyPlugins
FindExports == Plg!ExportsNext /\ OnlyPlugins

ModulesStep ==
  /\ scriptsLoaded /\ Mod!ModulesNext
  /\ UNCHANGED <<sessionVars, setupVars, memoryVars, filesVars, entitiesVars, textsVars, codeVars>>
InstallModule ==
  /\ Mod!ModuleFilesNext
  /\ UNCHANGED <<sessionVars, setupVars, memoryVars, filesVars, entitiesVars, textsVars, codeVars>>
MemoryStep ==
  /\ scriptsLoaded /\ Mem!MemoryNext
  /\ UNCHANGED <<sessionVars, setupVars, modulesVars, filesVars, entitiesVars, textsVars, codeVars>>
FilesStep ==
  /\ scriptsLoaded /\ Fil!FilesNext
  /\ UNCHANGED <<sessionVars, setupVars, modulesVars, memoryVars, entitiesVars, textsVars, codeVars>>
EntitiesStep(p) ==
  /\ scriptsLoaded /\ Ent!EntitiesNext(p)
  /\ UNCHANGED <<sessionVars, setupVars, modulesVars, memoryVars, filesVars, textsVars, codeVars>>

OnlyTexts == UNCHANGED <<sessionVars, setupVars, tableVars, codeVars>>
LabelsStep == scriptsLoaded /\ Txt!LabelsNext /\ OnlyTexts
MessagesStep == scriptsLoaded /\ Txt!MessagesNext /\ OnlyTexts

OnlyCode == UNCHANGED <<sessionVars, setupVars, tableVars, textsVars>>
ParamsStep == scriptsLoaded /\ Par!ParamsNext /\ UNCHANGED <<callVars, keysVars>> /\ OnlyCode
CallsStep == scriptsLoaded /\ Cal!CallsNext /\ UNCHANGED <<paramsVars, keysVars>> /\ OnlyCode
KeysStep == scriptsLoaded /\ Inp!KeysNext /\ UNCHANGED <<paramsVars, callVars>> /\ OnlyCode

----------------------------------------------------------------------------
Init ==
  /\ m_isStarted = FALSE /\ m_bGameInProgress = FALSE /\ saveSlot = -1 /\ scriptsLoaded = FALSE
  /\ m_bWantToLoad = FALSE /\ m_nSelectedSaveGame \in SaveSlot /\ booted = FALSE /\ hooks = <<>>
  /\ Cfg!SettingsInit /\ Plg!PluginsInit /\ Mod!ModulesInit /\ Mem!MemoryInit /\ Fil!FilesInit
  /\ Ent!EntitiesInit /\ Txt!TextsInit /\ Par!ParamsInit /\ Cal!CallsInit
  /\ Inp!KeysInit

SessionNext ==
  \/ Start \/ OnScmInit1 \/ OnScmInit2 \/ OnScmInit3 \/ OnGameEnds \/ Stop \/ ProcessScript
  \/ NewGame
  \/ \E slot \in SaveSlot : LoadGame(slot)
  \/ \E shutdown \in BOOLEAN : Exit(shutdown)

PartsNext ==
  \/ SettingsStep \/ InstallPlugins \/ LoadPlugins \/ FindExports \/ InstallModule \/ ModulesStep
  \/ MemoryStep \/ FilesStep \/ LabelsStep \/ MessagesStep \/ ParamsStep \/ CallsStep
  \/ KeysStep
  \/ \E p \in Ent!Pool : EntitiesStep(p)

Next == SessionNext \/ PartsNext
Spec == Init /\ [][Next]_vars

----------------------------------------------------------------------------
Ready == m_isStarted /\ booted /\ hooks = <<>>

Types == m_isStarted \in BOOLEAN /\ m_bGameInProgress \in BOOLEAN /\ scriptsLoaded \in BOOLEAN
         /\ saveSlot \in SaveSlot \cup {-1} /\ m_bWantToLoad \in BOOLEAN /\ m_nSelectedSaveGame \in SaveSlot

\* Types of all parts, the settings, plugins, tables, handles and texts included.
ComponentsTypeOK ==
  /\ Types
  /\ Cfg!SettingsTypeOK /\ Plg!PluginsTypeOK /\ Mod!ModulesTypeOK /\ Mem!MemoryTypeOK /\ Fil!FilesTypeOK
  /\ Ent!EntitiesTypeOK /\ Txt!TextsTypeOK /\ Par!ParamsTypeOK /\ Cal!CallsTypeOK
  /\ Inp!KeysTypeOK

\* Out of a session nothing of it is left in any part, in whatever order the game ended it and
\* however often it said so; and once the game has called all hooks of a choice, exactly the
\* game that was chosen is in progress: GameBegin is called up to three times for it, with and
\* without the slot, and only the first call counts.
SessionStartsFresh ==
  /\ ~m_bGameInProgress =>
       /\ saveSlot = -1 /\ ~scriptsLoaded
       /\ DOMAIN m_allocations = {} /\ DOMAIN m_scriptAllocationsInfo = {} /\ DOMAIN m_libraries = {}
       /\ DOMAIN modules = {} /\ refs = {} /\ DOMAIN fxts = {}
       /\ m_hFiles = {} /\ m_hFileSearches = {} /\ searchState = Ent!NoSearch
  /\ Ready => m_bGameInProgress /\ saveSlot = IF m_bWantToLoad THEN m_nSelectedSaveGame ELSE -1

\* What the user and plugins set up stays: settings reported as written are loaded, and in the
\* file unless a full disk cut them off, and the plugins of this version keep their opcodes
\* (Settings!WrittenStays, Plugins!NewPluginsWin).
SetupIsKept == Cfg!WrittenStays /\ Plg!NewPluginsWin

\* Pointers into what CLEO keeps stay good as long as they are used: those of scripts into
\* modules and those of the game into texts (Modules!RefsStayValid, Texts!MessagesKeepText and
\* LinesKeepText).
PointersStayGood == Mod!RefsStayValid /\ Txt!MessagesKeepText /\ Txt!LinesKeepText

\* What scripts hold of the process is listed until it is released, in and out of sessions: blocks
\* and libraries, their accounts, streams (Memory!TablesAreExact and BlocksAreCharged,
\* Files!HandlesAreOwned).
ResourcesAreListed == Mem!TablesAreExact /\ Mem!BlocksAreCharged /\ Fil!HandlesAreOwned

\* Streams of files are left as the next opcode expects them (Files!StreamsAreSettled).
StreamsAreSettled == Fil!StreamsAreSettled

\* Scripts that ask in every frame miss nothing: neither an entity that stays in its pool nor
\* a key that was pressed (Entities!WalksFindEach, Keys!PressesAreSeen).
PollsMissNothing == Ent!WalksFindEach /\ Inp!PressesAreSeen

\* Parameters are read to their end; texts arrive in the buffers of handlers that get them, and
\* arguments at the functions that were given them (Params!PointerIsAtParam, OutputIsEnded and
\* TextIsCut, NativeCalls!ArgumentsArrive, where the exceptions are stated).
ParametersArrive ==
  Par!PointerIsAtParam /\ Par!OutputIsEnded /\ Par!TextIsCut /\ Cal!ArgumentsArrive
=============================================================================
