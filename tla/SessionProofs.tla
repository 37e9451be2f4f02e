---------------------------- MODULE SessionProofs ----------------------------
(***************************************************************************)
(* Theorems about GameSession: when a session begins and ends, and what    *)
(* settings, plugins, modules, memory, files, searches and keys keep       *)
(* through any number of sessions.                                         *)
(***************************************************************************)
EXTENDS GameSession, WellFoundedInduction, SequenceTheorems, TLAPS

----------------------------------------------------------------------------
(* Steps *)

\* What a step does to each part: a step of the part itself while scripts run, what the instance
\* does to it, or nothing.
ModulesChange ==
  \/ UNCHANGED <<modulesVars, scriptsLoaded>>
  \/ Mod!ModuleFilesNext /\ UNCHANGED scriptsLoaded
  \/ Mod!ModulesNext /\ scriptsLoaded /\ scriptsLoaded'
  \/ Mod!LoadCleoModules /\ ~scriptsLoaded /\ scriptsLoaded'
  \/ Mod!Clear /\ ~scriptsLoaded'
  \/ ~scriptsLoaded /\ ~scriptsLoaded' /\ UNCHANGED modulesVars

FilesChange == Fil!FilesNext \/ Fil!OnFinalizeScriptObjects \/ UNCHANGED filesVars
EntitiesChange ==
  (\E p \in Ent!Pool : Ent!EntitiesNext(p)) \/ Ent!OnScriptsFinalize \/ UNCHANGED entitiesVars
MemoryChange == Mem!MemoryNext \/ Mem!OnGameEnd \/ UNCHANGED memoryVars
SettingsChange == Cfg!SettingsNext \/ (\E load \in Cfg!FilesAfterFresh : Cfg!Reset(load)) \/ UNCHANGED settingsVars
PluginsChange ==
  \/ Plg!InstallNext \/ Plg!LoadNext \/ Plg!ExportsNext \/ Plg!LoadEnd \/ Plg!UnloadPlugins
  \/ UNCHANGED pluginsVars
KeysChange == Inp!KeysNext \/ UNCHANGED keysVars

LEMMA StepChanges ==
  ASSUME Next
  PROVE  /\ ModulesChange /\ MemoryChange /\ FilesChange /\ EntitiesChange
         /\ SettingsChange /\ PluginsChange /\ KeysChange
<1> USE DEF choiceVars, sessionVars, setupVars, tableVars, codeVars,
            ModulesChange, MemoryChange, FilesChange, EntitiesChange, SettingsChange, PluginsChange,
            KeysChange
<1>1. CASE SessionNext
  <2>1. CASE Start  BY <2>1 DEF Start
  <2>2. CASE OnScmInit1 \/ OnScmInit2 \/ OnScmInit3
    BY <2>2 DEF OnScmInit1, OnScmInit2, OnScmInit3, GameBegin, NoBegin
  <2>3. CASE OnGameEnds \/ Stop  BY <2>3 DEF OnGameEnds, Stop, GameEnd, ScriptsEnd
  <2>4. CASE ProcessScript  BY <2>4 DEF ProcessScript
  <2>5. CASE NewGame \/ (\E slot \in SaveSlot : LoadGame(slot)) \/ (\E shutdown \in BOOLEAN : Exit(shutdown))
    BY <2>5 DEF NewGame, LoadGame, Exit, Chooses
  <2> QED  BY <1>1, <2>1, <2>2, <2>3, <2>4, <2>5 DEF SessionNext
<1>2. CASE PartsNext
  <2>1. CASE ModulesStep \/ InstallModule  BY <2>1 DEF ModulesStep, InstallModule
  <2>2. CASE SettingsStep \/ InstallPlugins \/ LoadPlugins \/ FindExports
    BY <2>2 DEF SettingsStep, InstallPlugins, LoadPlugins, FindExports, OnlyPlugins
  <2>3. CASE MemoryStep \/ FilesStep \/ \E p \in Ent!Pool : EntitiesStep(p)
    BY <2>3 DEF MemoryStep, FilesStep, EntitiesStep
  <2>4. CASE LabelsStep \/ MessagesStep \/ ParamsStep \/ CallsStep \/ KeysStep
    BY <2>4 DEF LabelsStep, MessagesStep, ParamsStep, CallsStep, KeysStep, OnlyTexts, OnlyCode
  <2> QED  BY <1>2, <2>1, <2>2, <2>3, <2>4 DEF PartsNext
<1> QED  BY <1>1, <1>2 DEF Next

----------------------------------------------------------------------------
(* Modules *)

ModulesInv ==
  /\ modules \in [DOMAIN modules -> [exports : SUBSET Export, data : Nat]] /\ loads \in Nat
  /\ headers \in [ModuleFile -> SUBSET Export] /\ DOMAIN modules \subseteq ModuleFile
  /\ Mod!RefsStayValid
  /\ ~scriptsLoaded => refs = {}

LEMMA ModulesInvHolds == Spec => []ModulesInv
<1>1. Init => ModulesInv  BY DEF Init, ModulesInv, Mod!ModulesInit, Mod!RefsStayValid, Mod!Known
<1>2. ASSUME ModulesInv, [Next]_vars PROVE ModulesInv'
  <2> USE <1>2 DEF ModulesInv, Mod!RefsStayValid, Mod!Known
  <2>1. CASE UNCHANGED vars  BY <2>1 DEF vars, sessionVars, tableVars, modulesVars
  <2>2. CASE Next
    <3>1. ModulesChange  BY <2>2, StepChanges
    <3>2. ASSUME NEW F, F \subseteq ModuleFile, Mod!LoadFile(F), headers' = headers
          PROVE  /\ modules' \in [DOMAIN modules' -> [exports : SUBSET Export, data : Nat]] /\ loads' \in Nat
                 /\ headers' \in [ModuleFile -> SUBSET Export] /\ DOMAIN modules' \subseteq ModuleFile
                 /\ F \subseteq DOMAIN modules'
                 /\ \A f \in DOMAIN modules \ F : f \in DOMAIN modules' /\ modules'[f] = modules[f]
      <4>1. \A f \in F : Mod!LoadFromFile(f, loads + 1) \in [exports : SUBSET Export, data : Nat]
        BY <3>2 DEF Mod!LoadFromFile, Mod!ExportsIn
      <4>2. modules' = [f \in DOMAIN modules \cup F |->
                          IF f \in F THEN Mod!LoadFromFile(f, loads + 1) ELSE modules[f]]
        BY <3>2 DEF Mod!LoadFile, Mod!Loaded
      <4>3. loads' \in Nat  BY <3>2 DEF Mod!LoadFile
      <4> QED  BY <3>2, <4>1, <4>2, <4>3
    <3>3. CASE UNCHANGED <<modulesVars, scriptsLoaded>>  BY <3>3 DEF modulesVars
    <3>4. CASE Mod!ModuleFilesNext /\ UNCHANGED scriptsLoaded
      BY <3>4 DEF Mod!ModuleFilesNext, Mod!Install
    <3>5. CASE Mod!ModulesNext /\ scriptsLoaded /\ scriptsLoaded'
      <4>1. PICK f \in ModuleFile, e \in Export : Mod!GetExport(f, e)  BY <3>5 DEF Mod!ModulesNext
      <4>2. CASE f \in DOMAIN modules
        BY <3>5, <4>1, <4>2 DEF Mod!GetExport, Mod!RefOf, Mod!Known
      <4>3. CASE f \notin DOMAIN modules
        <5>1. Mod!LoadFile({f}) /\ headers' = headers
          BY <4>1, <4>3 DEF Mod!GetExport
        <5>2. refs' = refs \cup Mod!RefOf(modules', f, e)  BY <4>1 DEF Mod!GetExport
        <5>3. \A r \in Mod!RefOf(modules', f, e) : r.file = f /\ r.data = modules'[f].data
          BY DEF Mod!RefOf
        <5> QED  BY <3>2, <3>5, <4>3, <5>1, <5>2, <5>3
      <4> QED  BY <4>2, <4>3
    <3>6. CASE Mod!LoadCleoModules /\ ~scriptsLoaded /\ scriptsLoaded'
      <4> DEFINE F == {f \in CleoModule : disk[f] # "missing"}
      <4>1. F \subseteq ModuleFile  BY SessionAssumption DEF Mod!ModulesAssumption
      <4>2. Mod!LoadFile(F) /\ headers' = headers /\ refs' = refs  BY <3>6 DEF Mod!LoadCleoModules
      <4> HIDE DEF F
      <4> QED  BY <3>2, <3>6, <4>1, <4>2
    <3>7. CASE Mod!Clear /\ ~scriptsLoaded'  BY <3>7 DEF Mod!Clear, Mod!Known
    <3>8. CASE ~scriptsLoaded /\ ~scriptsLoaded' /\ UNCHANGED modulesVars  BY <3>8 DEF modulesVars
    <3> QED  BY <3>1, <3>3, <3>4, <3>5, <3>6, <3>7, <3>8 DEF ModulesChange
  <2> QED  BY <1>2, <2>1, <2>2
<1> QED  BY <1>1, <1>2, PTL DEF Spec

\* What GetExport of the module system returned to a script in this session leads to the data
\* of the module as long as the session lasts, for any files, replaced or broken at any time.
THEOREM RefsStayValid == Spec => []Mod!RefsStayValid
<1>1. ModulesInv => Mod!RefsStayValid  BY DEF ModulesInv
<1> QED  BY <1>1, ModulesInvHolds, PTL

----------------------------------------------------------------------------
(* Sessions *)

NothingKept ==
  /\ saveSlot = -1 /\ ~scriptsLoaded
  /\ DOMAIN m_allocations = {} /\ DOMAIN m_scriptAllocationsInfo = {} /\ DOMAIN m_libraries = {}
  /\ DOMAIN modules = {} /\ refs = {} /\ DOMAIN fxts = {}
  /\ m_hFiles = {} /\ m_hFileSearches = {} /\ searchState = Ent!NoSearch

keptVars == <<saveSlot, scriptsLoaded, m_allocations, m_scriptAllocationsInfo, m_libraries, modules, refs,
              fxts, m_hFiles, m_hFileSearches, searchState>>

\* The hooks still to come, and what went before them: a session is over when the first hook that
\* may begin the next one comes.
HooksInv ==
  \/ hooks = <<>> /\ (Ready => m_bGameInProgress)
  \/ /\ m_isStarted
     /\ \/ hooks = <<"OnScmInit2">> /\ ~booted /\ ~m_bWantToLoad
        \/ hooks = <<"OnGameEnds", "OnScmInit1">> /\ booted /\ ~m_bWantToLoad
        \/ hooks = <<"OnScmInit1">> /\ booted /\ ~m_bGameInProgress /\ ~m_bWantToLoad
        \/ hooks = <<"OnScmInit2", "OnScmInit1", "OnScmInit3">> /\ ~booted /\ m_bWantToLoad
        \/ hooks = <<"OnGameEnds", "OnScmInit1", "OnScmInit3">> /\ booted /\ m_bWantToLoad
        \/ hooks = <<"OnScmInit1", "OnScmInit3">> /\ booted /\ ~m_bGameInProgress /\ m_bWantToLoad
        \/ hooks = <<"OnScmInit3">> /\ booted /\ ~m_bGameInProgress /\ m_bWantToLoad
        \/ hooks = <<"OnGameEnds", "Stop">> /\ booted
        \/ hooks = <<"Stop">>

SessionInv ==
  /\ m_bGameInProgress \in BOOLEAN /\ m_isStarted \in BOOLEAN
  /\ ~m_bGameInProgress => NothingKept
  /\ ~scriptsLoaded => DOMAIN modules = {} /\ refs = {}
  /\ ~booted => ~m_bGameInProgress
  /\ ~m_isStarted /\ booted => scan = 5
  /\ HooksInv
  /\ Ready => saveSlot = IF m_bWantToLoad THEN m_nSelectedSaveGame ELSE -1

\* Steps of a part: in no part anything is kept unless scripts are loaded.
LEMMA PartsKeepNothing ==
  ASSUME PartsNext
  PROVE  /\ UNCHANGED <<m_isStarted, m_bGameInProgress, saveSlot, scriptsLoaded, choiceVars>>
         /\ scriptsLoaded \/ UNCHANGED keptVars
         /\ scan = 5 => scan' = 5
<1> USE DEF choiceVars, sessionVars, setupVars, tableVars, codeVars, keptVars
<1>1. CASE SettingsStep \/ InstallPlugins \/ LoadPlugins \/ FindExports
  <2>1. UNCHANGED <<sessionVars, tableVars, textsVars>>
    BY <1>1 DEF SettingsStep, InstallPlugins, LoadPlugins, FindExports, OnlyPlugins
  <2>2. ASSUME scan = 5 PROVE scan' = 5
    <3>1. CASE SettingsStep  BY <2>2, <3>1 DEF SettingsStep, pluginsVars
    <3>2. CASE InstallPlugins  BY <2>2, <3>2 DEF InstallPlugins, Plg!InstallNext, Plg!InstallPlugin
    <3>3. CASE LoadPlugins
      BY <2>2, <3>3 
      DEF LoadPlugins, Plg!LoadNext, Plg!ListStart, Plg!ScanEnd, Plg!ListFile, Plg!LoadPlugin, Plg!Place
    <3>4. CASE FindExports
      BY <2>2, <3>4 DEF FindExports, Plg!ExportsNext, Plg!LoadForeign, Plg!FindPluginExport, Plg!listVars
    <3> QED  BY <1>1, <3>1, <3>2, <3>3, <3>4
  <2> QED  BY <2>1, <2>2 DEF memoryVars, modulesVars, filesVars, entitiesVars, textsVars
<1>2. CASE InstallModule
  BY <1>2 
  DEF InstallModule, Mod!ModuleFilesNext, Mod!Install, memoryVars, filesVars, entitiesVars, textsVars,
      pluginsVars
<1>3. CASE ModulesStep \/ MemoryStep \/ FilesStep \/ \E p \in Ent!Pool : EntitiesStep(p)
  BY <1>3 DEF ModulesStep, MemoryStep, FilesStep, EntitiesStep, pluginsVars
<1>4. CASE LabelsStep \/ MessagesStep
  BY <1>4 DEF LabelsStep, MessagesStep, OnlyTexts, pluginsVars
<1>5. CASE ParamsStep \/ CallsStep \/ KeysStep
  BY <1>5 DEF ParamsStep, CallsStep, KeysStep, OnlyCode, pluginsVars
<1> QED  BY <1>1, <1>2, <1>3, <1>4, <1>5 DEF PartsNext

\* The end of a session leaves nothing.
LEMMA EndKeepsNothing ==
  ASSUME SessionInv, GameEnd
  PROVE  ~m_bGameInProgress' /\ m_bGameInProgress' \in BOOLEAN /\ NothingKept'
<1>1. CASE ~m_bGameInProgress
  BY <1>1 DEF GameEnd, SessionInv, NothingKept, tableVars, memoryVars, modulesVars, filesVars,
              entitiesVars, textsVars
<1>2. CASE m_bGameInProgress
  <2>1. /\ m_bGameInProgress' = FALSE /\ saveSlot' = -1 /\ ScriptsEnd
        /\ Mem!OnGameEnd /\ Txt!Clear /\ Fil!OnFinalizeScriptObjects /\ Ent!OnScriptsFinalize
    BY <1>2 DEF GameEnd
  <2>2. DOMAIN m_allocations' = {} /\ DOMAIN m_scriptAllocationsInfo' = {} /\ DOMAIN m_libraries' = {}
    BY <2>1 DEF Mem!OnGameEnd
  <2>3. DOMAIN fxts' = {} /\ m_hFiles' = {} /\ m_hFileSearches' = {} /\ searchState' = Ent!NoSearch
    BY <2>1 DEF Txt!Clear, Txt!NoFxts, Fil!OnFinalizeScriptObjects, Ent!OnScriptsFinalize
  <2>4. ~scriptsLoaded' /\ DOMAIN modules' = {} /\ refs' = {}
    BY <2>1 DEF ScriptsEnd, SessionInv, Mod!Clear, modulesVars
  <2> QED  BY <2>1, <2>2, <2>3, <2>4 DEF NothingKept
<1> QED  BY <1>1, <1>2

\* What is still to come after a hook.
LEMMA HooksToCome ==
  ASSUME HooksInv, NEW name, Hook(name)
  PROVE  /\ m_isStarted
         /\ \/ name = "OnScmInit2" /\ ~booted
                /\ hooks' = IF m_bWantToLoad THEN <<"OnScmInit1", "OnScmInit3">> ELSE <<>>
            \/ name = "OnScmInit1" /\ booted /\ ~m_bGameInProgress
                /\ hooks' = IF m_bWantToLoad THEN <<"OnScmInit3">> ELSE <<>>
            \/ name = "OnScmInit3" /\ booted /\ m_bWantToLoad /\ ~m_bGameInProgress /\ hooks' = <<>>
            \/ name = "OnGameEnds" /\ booted /\ m_bWantToLoad /\ hooks' = <<"OnScmInit1", "OnScmInit3">>
            \/ name = "OnGameEnds" /\ booted /\ ~m_bWantToLoad /\ hooks' = <<"OnScmInit1">>
            \/ name = "OnGameEnds" /\ booted /\ hooks' = <<"Stop">>
            \/ name = "Stop" /\ hooks' = <<>>
<1>1. hooks # <<>> /\ Head(hooks) = name /\ hooks' = Tail(hooks)  BY DEF Hook
<1>2. m_isStarted  BY <1>1 DEF HooksInv
<1>3. \A x : Head(<<x>>) = x /\ Tail(<<x>>) = <<>>  OBVIOUS
<1>4. \A x, y : Head(<<x, y>>) = x /\ Tail(<<x, y>>) = <<y>>  OBVIOUS
<1>5. \A x, y, z : Head(<<x, y, z>>) = x /\ Tail(<<x, y, z>>) = <<y, z>>  OBVIOUS
<1>6. CASE \E x : hooks = <<x>>  BY <1>1, <1>2, <1>3, <1>6 DEF HooksInv
<1>7. CASE \E x, y : hooks = <<x, y>>  BY <1>1, <1>2, <1>4, <1>7 DEF HooksInv
<1>8. CASE \E x, y, z : hooks = <<x, y, z>>  BY <1>1, <1>2, <1>5, <1>8 DEF HooksInv
<1> QED  BY <1>1, <1>6, <1>7, <1>8 DEF HooksInv

LEMMA SessionInvHolds == Spec => []SessionInv
<1>1. Init => SessionInv
  BY DEF Init, SessionInv, HooksInv, Ready, NothingKept, Mod!ModulesInit, Mem!MemoryInit, Fil!FilesInit,
         Ent!EntitiesInit, Txt!TextsInit, Txt!NoFxts
<1>2. ASSUME SessionInv, [Next]_vars PROVE SessionInv'
  <2> USE <1>2
  <2>1. CASE UNCHANGED vars
    BY <2>1 DEF vars, sessionVars, choiceVars, setupVars, tableVars, pluginsVars, modulesVars, memoryVars,
                filesVars, entitiesVars, textsVars, SessionInv, HooksInv, Ready, NothingKept
  <2>2. CASE PartsNext
    <3>1. /\ UNCHANGED <<m_isStarted, m_bGameInProgress, saveSlot, scriptsLoaded, choiceVars>>
          /\ scriptsLoaded \/ UNCHANGED keptVars
          /\ scan = 5 => scan' = 5
      BY <2>2, PartsKeepNothing
    <3>2. HooksInv' /\ (Ready => saveSlot = IF m_bWantToLoad THEN m_nSelectedSaveGame ELSE -1)'
      BY <3>1 DEF SessionInv, HooksInv, Ready, choiceVars
    <3>3. ~m_bGameInProgress => UNCHANGED keptVars  BY <3>1 DEF SessionInv, NothingKept
    <3> QED  BY <3>1, <3>2, <3>3 DEF SessionInv, NothingKept, choiceVars, keptVars
  <2>3. CASE Start
    <3>1. /\ UNCHANGED <<m_bGameInProgress, saveSlot, scriptsLoaded, choiceVars, tableVars, textsVars>>
          /\ ~m_isStarted /\ m_isStarted' /\ m_isStarted' \in BOOLEAN /\ scan = 4
      BY <2>3 DEF Start, Plg!LoadEnd
    <3>2. ~booted  BY <3>1 DEF SessionInv
    <3>3. hooks = <<>>  BY <3>1 DEF SessionInv, HooksInv
    <3> QED
      BY <3>1, <3>2, <3>3 DEF SessionInv, HooksInv, Ready, NothingKept, choiceVars, tableVars, memoryVars,
                              modulesVars, filesVars, entitiesVars, textsVars
  <2>4. CASE OnScmInit1
    <3>1. /\ m_isStarted /\ booted /\ ~m_bGameInProgress
          /\ hooks' = IF m_bWantToLoad THEN <<"OnScmInit3">> ELSE <<>>
      BY <2>4, HooksToCome DEF OnScmInit1, SessionInv
    <3>2. UNCHANGED <<m_isStarted, scriptsLoaded, m_bWantToLoad, m_nSelectedSaveGame, booted, scan, tableVars>>
      BY <2>4 DEF OnScmInit1, pluginsVars
    <3>3. CASE m_bWantToLoad
      <4>1. UNCHANGED <<m_bGameInProgress, saveSlot, textsVars>>  BY <2>4, <3>3 DEF OnScmInit1, NoBegin
      <4> QED
        BY <3>1, <3>2, <3>3, <4>1 DEF SessionInv, HooksInv, Ready, NothingKept, tableVars, memoryVars,
                                      modulesVars, filesVars, entitiesVars, textsVars
    <3>4. CASE ~m_bWantToLoad
      <4>1. GameBegin(-1)  BY <2>4, <3>4 DEF OnScmInit1
      <4>2. m_bGameInProgress' = TRUE /\ saveSlot' = -1  BY <3>1, <4>1 DEF GameBegin
      <4> QED
        BY <3>1, <3>2, <3>4, <4>2 DEF SessionInv, HooksInv, Ready, tableVars, modulesVars
    <3> QED  BY <3>3, <3>4
  <2>5. CASE OnScmInit2
    <3>1. /\ m_isStarted /\ ~booted /\ ~m_bGameInProgress
          /\ hooks' = IF m_bWantToLoad THEN <<"OnScmInit1", "OnScmInit3">> ELSE <<>>
      BY <2>5, HooksToCome DEF OnScmInit2, SessionInv
    <3>2. /\ UNCHANGED <<m_isStarted, scriptsLoaded, m_bWantToLoad, m_nSelectedSaveGame, scan, tableVars>>
          /\ booted' = TRUE
      BY <2>5 DEF OnScmInit2, pluginsVars
    <3>3. CASE m_bWantToLoad
      <4>1. UNCHANGED <<m_bGameInProgress, saveSlot, textsVars>>  BY <2>5, <3>3 DEF OnScmInit2, NoBegin
      <4> QED
        BY <3>1, <3>2, <3>3, <4>1 DEF SessionInv, HooksInv, Ready, NothingKept, tableVars, memoryVars,
                                      modulesVars, filesVars, entitiesVars, textsVars
    <3>4. CASE ~m_bWantToLoad
      <4>1. GameBegin(-1)  BY <2>5, <3>4 DEF OnScmInit2
      <4>2. m_bGameInProgress' = TRUE /\ saveSlot' = -1  BY <3>1, <4>1 DEF GameBegin
      <4> QED
        BY <3>1, <3>2, <3>4, <4>2 DEF SessionInv, HooksInv, Ready, tableVars, modulesVars
    <3> QED  BY <3>3, <3>4
  <2>6. CASE OnScmInit3
    <3>1. m_isStarted /\ booted /\ m_bWantToLoad /\ ~m_bGameInProgress /\ hooks' = <<>>
      BY <2>6, HooksToCome DEF OnScmInit3, SessionInv
    <3>2. /\ UNCHANGED <<m_isStarted, scriptsLoaded, m_bWantToLoad, m_nSelectedSaveGame, booted, scan, tableVars>>
          /\ GameBegin(m_nSelectedSaveGame)
      BY <2>6 DEF OnScmInit3, pluginsVars
    <3>3. m_bGameInProgress' = TRUE /\ saveSlot' = m_nSelectedSaveGame  BY <3>1, <3>2 DEF GameBegin
    <3> QED
      BY <3>1, <3>2, <3>3 DEF SessionInv, HooksInv, Ready, tableVars, modulesVars
  <2>7. CASE OnGameEnds
    <3>1. /\ m_isStarted /\ booted
          /\ \/ m_bWantToLoad /\ hooks' = <<"OnScmInit1", "OnScmInit3">>
             \/ ~m_bWantToLoad /\ hooks' = <<"OnScmInit1">>
             \/ hooks' = <<"Stop">>
      BY <2>7, HooksToCome DEF OnGameEnds, SessionInv
    <3>2. /\ UNCHANGED <<m_isStarted, m_bWantToLoad, m_nSelectedSaveGame, booted, scan>>
          /\ ~m_bGameInProgress' /\ m_bGameInProgress' \in BOOLEAN /\ NothingKept'
      BY <2>7, EndKeepsNothing DEF OnGameEnds, setupVars, pluginsVars
    <3>3. hooks' # <<>>  BY <3>1
    <3> QED  BY <3>1, <3>2, <3>3 DEF SessionInv, HooksInv, Ready, NothingKept
  <2>8. CASE Stop
    <3>1. hooks' = <<>>  BY <2>8, HooksToCome DEF Stop, SessionInv
    <3>2. /\ UNCHANGED booted /\ m_isStarted' = FALSE /\ scan' = 5
          /\ ~m_bGameInProgress' /\ m_bGameInProgress' \in BOOLEAN /\ NothingKept'
      BY <2>8, EndKeepsNothing DEF Stop, Plg!UnloadPlugins
    <3> QED  BY <3>1, <3>2 DEF SessionInv, HooksInv, Ready, NothingKept
  <2>9. CASE ProcessScript
    <3>1. /\ UNCHANGED <<m_isStarted, m_bGameInProgress, saveSlot, choiceVars, scan>>
          /\ scriptsLoaded' = TRUE /\ m_bGameInProgress
      BY <2>9 DEF ProcessScript, setupVars, pluginsVars
    <3> QED  BY <3>1 DEF SessionInv, HooksInv, Ready, choiceVars
  <2>10. ASSUME NEW calls, Chooses(calls)
         PROVE  /\ m_isStarted /\ hooks = <<>> /\ hooks' = calls
                /\ UNCHANGED <<m_isStarted, m_bGameInProgress, saveSlot, scriptsLoaded, booted, scan, tableVars,
                           textsVars>>
    BY <2>10 DEF Chooses, setupVars, pluginsVars
  <2>11. ASSUME NEW calls, calls # <<>>, hooks' = calls, HooksInv',
                UNCHANGED <<m_isStarted, m_bGameInProgress, saveSlot, scriptsLoaded, booted, scan, tableVars,
                           textsVars>>
         PROVE  SessionInv'
    BY <2>11 DEF SessionInv, Ready, NothingKept, tableVars, memoryVars, modulesVars, filesVars,
                 entitiesVars, textsVars
  <2>12. CASE NewGame
    <3> DEFINE calls == IF booted THEN <<"OnGameEnds", "OnScmInit1">> ELSE <<"OnScmInit2">>
    <3>1. Chooses(calls) /\ ~m_bWantToLoad'  BY <2>12 DEF NewGame
    <3>2. HooksInv' /\ calls # <<>>  BY <2>10, <3>1 DEF HooksInv
    <3> QED  BY <2>10, <2>11, <3>1, <3>2
  <2>13. ASSUME NEW slot \in SaveSlot, LoadGame(slot) PROVE SessionInv'
    <3> DEFINE calls == <<IF booted THEN "OnGameEnds" ELSE "OnScmInit2", "OnScmInit1", "OnScmInit3">>
    <3>1. Chooses(calls) /\ m_bWantToLoad'  BY <2>13 DEF LoadGame
    <3>2. HooksInv' /\ calls # <<>>  BY <2>10, <3>1 DEF HooksInv
    <3> QED  BY <2>10, <2>11, <3>1, <3>2
  <2>14. ASSUME NEW shutdown \in BOOLEAN, Exit(shutdown) PROVE SessionInv'
    <3> DEFINE calls == IF shutdown THEN <<"OnGameEnds", "Stop">> ELSE <<"Stop">>
    <3>1. Chooses(calls) /\ (shutdown => booted)  BY <2>14 DEF Exit
    <3>2. HooksInv' /\ calls # <<>>  BY <2>10, <3>1 DEF HooksInv
    <3> QED  BY <2>10, <2>11, <3>1, <3>2
  <2> QED
    BY <2>1, <2>2, <2>3, <2>4, <2>5, <2>6, <2>7, <2>8, <2>9, <2>12, <2>13, <2>14 DEF Next, SessionNext
<1> QED  BY <1>1, <1>2, PTL DEF Spec

\* A session begins and ends once for any order of choices of the user, with whatever slots: out of
\* it nothing is kept, and after the last hook the game that was chosen is in progress.
THEOREM SessionStartsFreshHolds == Spec => []SessionStartsFresh
<1>1. SessionInv => SessionStartsFresh
  BY DEF SessionInv, HooksInv, NothingKept, Ready, SessionStartsFresh
<1> QED  BY <1>1, SessionInvHolds, PTL

----------------------------------------------------------------------------
(* Memory *)

TablesInv ==
  /\ heap = [b \in Block |-> heap[b]] /\ DOMAIN m_allocations \subseteq Block
  /\ holds \in [Library -> Int]
  /\ DOMAIN m_libraries \subseteq Library /\ m_libraries = [l \in DOMAIN m_libraries |-> m_libraries[l]]
  /\ Mem!TablesAreExact

LEMMA TablesInvHolds == Spec => []TablesInv
<1>1. Init => TablesInv  BY DEF Init, TablesInv, Mem!MemoryInit, Mem!TablesAreExact, Mem!Known
<1>2. ASSUME TablesInv, [Next]_vars PROVE TablesInv'
  <2> USE <1>2 DEF TablesInv, Mem!TablesAreExact, Mem!Known
  <2>1. CASE UNCHANGED memoryVars  BY <2>1 DEF memoryVars
  <2>2. CASE Mem!MemoryNext
    <3>1. ASSUME NEW s \in Script, NEW b \in Block, NEW size \in Size, Mem!opcode_0AC8(s, b, size)
          PROVE  TablesInv'
      BY <3>1 DEF Mem!opcode_0AC8, Mem!RegisterMemoryAllocation, Mem!With
    <3>2. ASSUME NEW s \in Script, NEW b \in Block, Mem!opcode_0AC9(s, b) \/ Mem!opcode_2403(s, b)
          PROVE  TablesInv'
      BY <3>2 DEF Mem!opcode_0AC9, Mem!opcode_2403, Mem!UnregisterMemoryAllocation, Mem!Without
    <3>3. ASSUME NEW b \in Block, Mem!OwnerFrees(b) PROVE TablesInv'
      BY <3>3 DEF Mem!OwnerFrees
    <3>4. ASSUME NEW l \in Library, Mem!opcode_0AA2(l) PROVE TablesInv'
      BY <3>4 DEF Mem!opcode_0AA2, Mem!With
    <3>5. ASSUME NEW l \in Library, Mem!opcode_0AA3(l) PROVE TablesInv'
      <4>1. /\ l \in DOMAIN m_libraries /\ UNCHANGED <<heap, m_allocations>>
            /\ holds' = [holds EXCEPT ![l] = holds[l] - 1]
            /\ m_libraries' = [m_libraries EXCEPT ![l] = m_libraries[l] - 1]
        BY <3>5 DEF Mem!opcode_0AA3
      <4>2. holds[l] = m_libraries[l] /\ holds[l] \in Int  BY <4>1
      <4>3. \A x \in Library : holds'[x] = IF x \in DOMAIN m_libraries' THEN m_libraries'[x] ELSE 0
        BY <4>1, <4>2
      <4>4. holds' \in [Library -> Int]  BY <4>1, <4>2
      <4>5. /\ DOMAIN m_libraries' \subseteq Library
            /\ m_libraries' = [x \in DOMAIN m_libraries' |-> m_libraries'[x]]
        BY <4>1
      <4>6. \A b \in Block : heap'[b] = "live" <=> b \in DOMAIN m_allocations'  BY <4>1
      <4> QED  BY <4>1, <4>3, <4>4, <4>5, <4>6
    <3> QED  BY <2>2, <3>1, <3>2, <3>3, <3>4, <3>5 DEF Mem!MemoryNext
  <2>3. CASE Mem!OnGameEnd
    <3>1. \A b \in Block : heap'[b] # "live"  BY <2>3 DEF Mem!OnGameEnd
    <3>2. holds' = [l \in Library |-> 0]  BY <2>3 DEF Mem!OnGameEnd
    <3> QED  BY <2>3, <3>1, <3>2 DEF Mem!OnGameEnd
  <2>4. CASE UNCHANGED vars  BY <2>1, <2>4 DEF vars, tableVars
  <2> QED  BY <1>2, <2>1, <2>2, <2>3, <2>4, StepChanges DEF MemoryChange
<1> QED  BY <1>1, <1>2, PTL DEF Spec

\* Blocks and libraries scripts hold are those the tables list, whoever frees or gives away whose,
\* and for any number of scripts, blocks and libraries.
THEOREM TablesAreExact == Spec => []Mem!TablesAreExact
<1>1. TablesInv => Mem!TablesAreExact  BY DEF TablesInv
<1> QED  BY <1>1, TablesInvHolds, PTL

----------------------------------------------------------------------------
(* Settings *)

\* What a text says without the remark behind it.
Says(texts, k) == IF k \in DOMAIN texts THEN texts[k].value ELSE NoValue
FileTexts == Cfg!TextsOf(iniFile)

\* The cache and the reports say what the loaded texts say, except where the file was edited or a
\* write was refused, and these what the file says, except where a full disk cut it off.
SettingsInv ==
  /\ iniFile \in Cfg!Ini \cup {NoFile} /\ ini \in Cfg!Ini /\ cache \in Cfg!Ini /\ saved \in Cfg!Ini
  /\ iniLoaded \in BOOLEAN /\ lost \subseteq Setting
  /\ ~iniLoaded => DOMAIN saved = {} /\ DOMAIN cache = {} /\ differs = {} /\ lost = {}
  /\ \A k \in Setting \ differs :
       /\ iniLoaded /\ k \notin lost => Says(ini, k) = Says(FileTexts, k)
       /\ k \in DOMAIN saved => saved[k].value = Says(ini, k)
       /\ k \in DOMAIN cache => cache[k].value = Says(ini, k)

LEMMA IniIsFunctions == \A f : f \in Cfg!Ini <=> DOMAIN f \subseteq Setting /\ f \in [DOMAIN f -> Cfg!Text]
BY DEF Cfg!Ini

\* The defaults say nothing, and add nothing to what the file of the user says.
LEMMA DefaultsSay ==
  /\ Cfg!Empty \in Cfg!Ini /\ Cfg!Defaults \in Cfg!Ini
  /\ \A k \in Setting : Says(Cfg!Empty, k) = NoValue /\ Says(Cfg!Defaults, k) = NoValue
<1>1. Cfg!Empty \in Cfg!Ini /\ Cfg!Defaults \in Cfg!Ini
  BY IniIsFunctions, SessionAssumption DEF Cfg!Empty, Cfg!Defaults, Cfg!Text, Cfg!SettingsAssumption
<1>2. \A k \in Setting : Says(Cfg!Empty, k) = NoValue /\ Says(Cfg!Defaults, k) = NoValue
  BY DEF Says, Cfg!Empty, Cfg!Defaults
<1> QED  BY <1>1, <1>2

LEMMA UpdateSays ==
  ASSUME NEW f \in Cfg!Ini
  PROVE  /\ Cfg!UpdateUserConfig(f) \in Cfg!Ini
         /\ \A k \in Setting : Says(Cfg!UpdateUserConfig(f), k) = Says(f, k)
<1>1. \A g, h \in Cfg!Ini : Cfg!Over(g, h) \in Cfg!Ini  BY IniIsFunctions DEF Cfg!Over
<1> QED  BY <1>1, DefaultsSay DEF Cfg!UpdateUserConfig, Cfg!Over, Says, Cfg!Defaults

LEMMA SetSays ==
  ASSUME NEW f \in Cfg!Ini, NEW k \in Setting, NEW t \in Cfg!Text
  PROVE  /\ Cfg!Set(k, t, f) \in Cfg!Ini
         /\ k \in DOMAIN Cfg!Set(k, t, f) /\ Cfg!Set(k, t, f)[k] = t
         /\ \A j \in Setting \ {k} : /\ j \in DOMAIN Cfg!Set(k, t, f) <=> j \in DOMAIN f
                                     /\ j \in DOMAIN f => Cfg!Set(k, t, f)[j] = f[j]
                                     /\ Says(Cfg!Set(k, t, f), j) = Says(f, j)
         /\ Says(Cfg!Set(k, t, f), k) = t.value
BY IniIsFunctions DEF Cfg!Set, Cfg!Over, Says

LEMMA LookupSays ==
  ASSUME NEW f \in Cfg!Ini, NEW k \in Setting
  PROVE  Cfg!Lookup(f, k) \in Cfg!Text /\ Cfg!Lookup(f, k).value = Says(f, k)
BY IniIsFunctions DEF Cfg!Lookup, Says, Cfg!Text

LEMMA StripSays ==
  ASSUME NEW f \in Cfg!Ini, NEW k \in Setting
  PROVE  Cfg!StripInlineComment(Cfg!Lookup(f, k)) = [value |-> Says(f, k), remark |-> FALSE]
BY LookupSays DEF Cfg!StripInlineComment

\* Less of a configuration, with a line broken off or not, is one.
LEMMA CutIsIni ==
  ASSUME NEW f \in Cfg!Ini, NEW g \in Cfg!Cut(f)
  PROVE  g \in Cfg!Ini /\ DOMAIN g \subseteq DOMAIN f
<1>1. \A h \in Cfg!Lines(f) : h \in Cfg!Ini /\ DOMAIN h \subseteq DOMAIN f
  BY IniIsFunctions DEF Cfg!Lines
<1>2. CASE g \in Cfg!Lines(f)  BY <1>1, <1>2
<1>3. CASE \E h \in Cfg!Lines(f) : \E k \in DOMAIN h : g = [h EXCEPT ![k] = Cfg!Broken]
  <2>1. Cfg!Broken \in Cfg!Text  BY DEF Cfg!Broken, Cfg!Text
  <2> QED  BY <1>1, <1>3, <2>1, IniIsFunctions
<1> QED  BY <1>2, <1>3 DEF Cfg!Cut

\* What a cut takes: outside of it the file says what was to be written.
LEMMA CutOffSays ==
  ASSUME NEW f \in Cfg!Ini, NEW file \in Cfg!Ini \cup {NoFile}, DOMAIN Cfg!TextsOf(file) \subseteq DOMAIN f
  PROVE  /\ Cfg!TextsOf(file) \in Cfg!Ini /\ Cfg!CutOff(f, file) \subseteq Setting
         /\ \A k \in Setting \ Cfg!CutOff(f, file) : Says(Cfg!TextsOf(file), k) = Says(f, k)
<1>1. Cfg!TextsOf(file) \in Cfg!Ini  BY DefaultsSay DEF Cfg!TextsOf
<1>2. ASSUME NEW k \in Setting \ Cfg!CutOff(f, file) PROVE Says(Cfg!TextsOf(file), k) = Says(f, k)
  <2>1. CASE k \in DOMAIN f  BY <1>1, <1>2, <2>1, LookupSays, IniIsFunctions DEF Cfg!CutOff, Says
  <2>2. CASE k \notin DOMAIN f  BY <2>2 DEF Says
  <2> QED  BY <2>1, <2>2
<1> QED  BY <1>1, <1>2, IniIsFunctions DEF Cfg!CutOff

\* What EnsureLoaded finds: what is loaded says what the file said before, unless a line was broken
\* off, and what it says now, unless the line was cut off.
LEMMA FreshSays ==
  ASSUME SettingsInv, NEW load \in Cfg!FilesAfterFresh
  PROVE  /\ Cfg!Fresh(load) \in Cfg!Ini /\ load \in Cfg!Ini \cup {NoFile}
         /\ Cfg!CutOff(Cfg!Merged, load) \subseteq Setting
         /\ \A k \in Setting :
              /\ k \notin Cfg!CutOff(Cfg!Merged, load) => Says(Cfg!Fresh(load), k) = Says(Cfg!TextsOf(load), k)
              /\ k \notin Cfg!CutOff(Cfg!Merged, load) \cap DOMAIN Cfg!TextsOf(load)
                   => Says(Cfg!Fresh(load), k) = Says(FileTexts, k)
<1> DEFINE merged == Cfg!Merged
           texts == Cfg!TextsOf(load)
           under == IF iniFile = NoFile THEN Cfg!Empty ELSE merged
<1>1. NoFile \notin Cfg!Ini /\ FileTexts \in Cfg!Ini
  BY DefaultsSay, SessionAssumption DEF Cfg!SettingsAssumption, SettingsInv, FileTexts, Cfg!TextsOf
<1>2. merged \in Cfg!Ini /\ \A k \in Setting : Says(merged, k) = Says(FileTexts, k)
  <2>1. CASE iniFile = NoFile
    BY <2>1, DefaultsSay DEF Cfg!Merged, FileTexts, Cfg!TextsOf
  <2>2. CASE iniFile # NoFile
    <3>1. iniFile \in Cfg!Ini /\ FileTexts = iniFile  BY <2>2 DEF SettingsInv, FileTexts, Cfg!TextsOf
    <3> QED  BY <2>2, <3>1, UpdateSays DEF Cfg!Merged
  <2> QED  BY <2>1, <2>2
<1>3. load \in Cfg!Ini \cup {NoFile} /\ DOMAIN texts \subseteq DOMAIN merged
  <2>1. DOMAIN FileTexts \subseteq DOMAIN merged
    BY DEF FileTexts, Cfg!TextsOf, Cfg!Merged, Cfg!Empty, Cfg!UpdateUserConfig, Cfg!Over
  <2>2. load = iniFile \/ load = merged \/ load \in Cfg!Cut(merged)  BY DEF Cfg!FilesAfterFresh
  <2>3. CASE load = iniFile  BY <2>1, <2>3 DEF SettingsInv, FileTexts
  <2>4. CASE load \in Cfg!Ini /\ DOMAIN load \subseteq DOMAIN merged  BY <1>1, <2>4 DEF Cfg!TextsOf
  <2> QED  BY <1>2, <2>2, <2>3, <2>4, CutIsIni
<1>4. /\ texts \in Cfg!Ini /\ Cfg!CutOff(merged, load) \subseteq Setting
      /\ \A k \in Setting \ Cfg!CutOff(merged, load) : Says(texts, k) = Says(merged, k)
  BY <1>2, <1>3, CutOffSays
<1>5. Cfg!Fresh(load) = Cfg!Over(texts, under)  BY DEF Cfg!Fresh
<1>6. under \in Cfg!Ini /\ \A k \in Setting : Says(under, k) = Says(merged, k)
  BY <1>2, DefaultsSay DEF Cfg!Merged
<1> HIDE DEF merged, texts, under
<1>7. Cfg!Fresh(load) \in Cfg!Ini  BY <1>4, <1>5, <1>6, IniIsFunctions DEF Cfg!Over
<1>8. \A k \in Setting : Says(Cfg!Fresh(load), k) = IF k \in DOMAIN texts THEN Says(texts, k) ELSE Says(merged, k)
  BY <1>5, <1>6 DEF Cfg!Over, Says
<1> QED  BY <1>2, <1>3, <1>4, <1>7, <1>8 DEF merged, texts

LEMMA LoadedSays ==
  ASSUME SettingsInv, NEW load \in Cfg!FilesAfterLoad
  PROVE  /\ Cfg!EnsureLoaded(load) \in Cfg!Ini /\ load \in Cfg!Ini \cup {NoFile}
         /\ Cfg!LostAfterLoad(load) \subseteq Setting
         /\ \A k \in Setting \ differs :
              /\ k \notin Cfg!LostAfterLoad(load) => Says(Cfg!EnsureLoaded(load), k) = Says(Cfg!TextsOf(load), k)
              /\ iniLoaded => Says(Cfg!EnsureLoaded(load), k) = Says(ini, k)
BY FreshSays DEF SettingsInv, Cfg!EnsureLoaded, Cfg!FilesAfterLoad, Cfg!LostAfterLoad, FileTexts

\* WriteString that reports success, whatever became of the file.
LEMMA ReportedSays ==
  ASSUME SettingsInv, NEW k \in Setting, NEW t \in Cfg!Text, NEW load \in Cfg!FilesAfterLoad,
         Cfg!Writes(k, t, load), Cfg!Reports(k, t), iniFile' \in Cfg!Ini,
         lost' \subseteq Setting, \A j \in Setting \ lost' : Says(iniFile', j) = Says(ini', j)
  PROVE  SettingsInv'
<1> DEFINE stripped == Cfg!StripInlineComment(t)
<1>1. /\ ini' = Cfg!Set(k, t, Cfg!EnsureLoaded(load)) /\ iniLoaded' = TRUE
      /\ cache' = Cfg!Set(k, t, cache) /\ saved' = Cfg!Set(k, stripped, saved) /\ differs' = differs \ {k}
  BY DEF Cfg!Writes, Cfg!Reports
<1>2. stripped \in Cfg!Text /\ stripped.value = t.value  BY DEF Cfg!StripInlineComment, Cfg!Text
<1>3. Cfg!EnsureLoaded(load) \in Cfg!Ini /\ cache \in Cfg!Ini /\ saved \in Cfg!Ini
  BY LoadedSays DEF SettingsInv
<1>4. FileTexts' = iniFile'  BY SessionAssumption DEF FileTexts, Cfg!TextsOf, Cfg!SettingsAssumption
<1> HIDE DEF stripped
<1>5. /\ ini' \in Cfg!Ini /\ Says(ini', k) = t.value
      /\ \A j \in Setting \ {k} : Says(ini', j) = Says(Cfg!EnsureLoaded(load), j)
  BY <1>1, <1>3, SetSays
<1>6. /\ cache' \in Cfg!Ini /\ cache'[k] = t
      /\ \A j \in Setting \ {k} : j \in DOMAIN cache' => j \in DOMAIN cache /\ cache'[j] = cache[j]
  BY <1>1, <1>3, SetSays
<1>7. /\ saved' \in Cfg!Ini /\ saved'[k] = stripped
      /\ \A j \in Setting \ {k} : j \in DOMAIN saved' => j \in DOMAIN saved /\ saved'[j] = saved[j]
  BY <1>1, <1>2, <1>3, SetSays
<1>8. \A j \in Setting \ differs : j \in DOMAIN cache \cup DOMAIN saved =>
        Says(Cfg!EnsureLoaded(load), j) = Says(ini, j)
  BY LoadedSays DEF SettingsInv
<1> QED  BY <1>1, <1>2, <1>4, <1>5, <1>6, <1>7, <1>8 DEF SettingsInv

LEMMA SettingsInvHolds == Spec => []SettingsInv
<1>1. Init => SettingsInv
  BY DefaultsSay DEF Init, Cfg!SettingsInit, SettingsInv, FileTexts, Cfg!TextsOf, Cfg!Empty
<1>2. ASSUME SettingsInv, [Next]_vars PROVE SettingsInv'
  <2>0. NoFile \notin Cfg!Ini  BY SessionAssumption DEF Cfg!SettingsAssumption
  <2>1. CASE UNCHANGED settingsVars  BY <1>2, <2>1 DEF settingsVars, SettingsInv, FileTexts
  <2>2. ASSUME NEW k \in Setting, NEW load \in Cfg!FilesAfterLoad, Cfg!ReadString(k, load) PROVE SettingsInv'
    <3> DEFINE t == [value |-> Says(Cfg!EnsureLoaded(load), k), remark |-> FALSE]
    <3>1. /\ ini' = Cfg!EnsureLoaded(load) /\ iniFile' = load /\ iniLoaded' = TRUE
          /\ lost' = Cfg!LostAfterLoad(load)
          /\ cache' = Cfg!Set(k, t, cache) /\ saved' = saved /\ differs' = differs
      BY <1>2, <2>2, LoadedSays, StripSays DEF Cfg!ReadString, Cfg!Set
    <3>2. t \in Cfg!Text  BY <1>2, <2>2, LoadedSays, IniIsFunctions DEF Cfg!Text, Says
    <3>3. cache \in Cfg!Ini  BY <1>2 DEF SettingsInv
    <3> HIDE DEF t
    <3>4. /\ cache' \in Cfg!Ini /\ cache'[k] = t
          /\ \A j \in Setting \ {k} : j \in DOMAIN cache' => j \in DOMAIN cache /\ cache'[j] = cache[j]
      BY <3>1, <3>2, <3>3, SetSays
    <3>5. t.value = Says(ini', k)  BY <3>1 DEF t
    <3> QED  BY <1>2, <2>2, <3>1, <3>4, <3>5, LoadedSays DEF SettingsInv, FileTexts
  <2>3. ASSUME NEW k \in Setting, NEW t \in Cfg!Text, NEW load \in Cfg!FilesAfterLoad, Cfg!WriteString(k, t, load)
        PROVE  SettingsInv'
    <3>1. ini' \in Cfg!Ini  BY <1>2, <2>3, LoadedSays, SetSays DEF Cfg!WriteString, Cfg!Writes
    <3> QED  BY <1>2, <2>3, <3>1, ReportedSays DEF Cfg!WriteString
  <2>4. ASSUME NEW k \in Setting, NEW t \in Cfg!Text, NEW load \in Cfg!FilesAfterLoad, Cfg!WriteCutOff(k, t, load)
        PROVE  SettingsInv'
    <3>1. ini' \in Cfg!Ini  BY <1>2, <2>4, LoadedSays, SetSays DEF Cfg!WriteCutOff, Cfg!Writes
    <3>2. PICK file \in Cfg!Cut(ini') : iniFile' = file /\ lost' = Cfg!CutOff(ini', file)
      BY <2>4 DEF Cfg!WriteCutOff
    <3>3. file \in Cfg!Ini /\ Cfg!TextsOf(file) = file /\ DOMAIN file \subseteq DOMAIN ini'
      BY <2>0, <3>1, <3>2, CutIsIni DEF Cfg!TextsOf
    <3>4. lost' \subseteq Setting /\ \A j \in Setting \ lost' : Says(iniFile', j) = Says(ini', j)
      BY <3>1, <3>2, <3>3, CutOffSays
    <3> QED  BY <1>2, <2>4, <3>2, <3>3, <3>4, ReportedSays DEF Cfg!WriteCutOff
  <2>5. ASSUME NEW k \in Setting, NEW t \in Cfg!Text, NEW load \in Cfg!FilesAfterLoad, Cfg!WriteFails(k, t, load)
        PROVE  SettingsInv'
    <3>1. /\ ini' = Cfg!Set(k, t, Cfg!EnsureLoaded(load)) /\ iniFile' = load /\ iniLoaded' = TRUE
          /\ lost' = Cfg!LostAfterLoad(load) /\ differs' = differs \cup {k}
          /\ cache' = cache /\ saved' = [x \in DOMAIN saved \ {k} |-> saved[x]]
      BY <2>5 DEF Cfg!WriteFails, Cfg!Writes
    <3>2. /\ ini' \in Cfg!Ini /\ \A j \in Setting \ {k} : Says(ini', j) = Says(Cfg!EnsureLoaded(load), j)
      BY <1>2, <3>1, LoadedSays, SetSays
    <3>3. saved' \in Cfg!Ini  BY <1>2, <3>1, IniIsFunctions DEF SettingsInv
    <3> QED  BY <1>2, <3>1, <3>2, <3>3, LoadedSays DEF SettingsInv, FileTexts
  <2>6. ASSUME NEW k \in Setting, NEW t \in Cfg!Text, Cfg!WriteSame(k, t) PROVE SettingsInv'
    <3>1. /\ k \in DOMAIN cache /\ cache[k] = t /\ saved' = Cfg!Set(k, Cfg!StripInlineComment(t), saved)
          /\ UNCHANGED <<iniFile, ini, iniLoaded, cache, differs, lost>>
      BY <2>6 DEF Cfg!WriteSame
    <3>2. saved \in Cfg!Ini  BY <1>2 DEF SettingsInv
    <3>3. Cfg!StripInlineComment(t) \in Cfg!Text /\ Cfg!StripInlineComment(t).value = t.value
      BY DEF Cfg!StripInlineComment, Cfg!Text
    <3>4. /\ saved' \in Cfg!Ini /\ saved'[k].value = t.value
          /\ \A j \in Setting \ {k} : j \in DOMAIN saved' => j \in DOMAIN saved /\ saved'[j] = saved[j]
      BY <3>1, <3>2, <3>3, SetSays
    <3>5. iniLoaded  BY <1>2, <3>1 DEF SettingsInv
    <3> QED  BY <1>2, <3>1, <3>4, <3>5 DEF SettingsInv, FileTexts
  <2>7. ASSUME NEW k \in Setting, NEW t \in Cfg!Text, Cfg!Edit(k, t) PROVE SettingsInv'
    <3>1. /\ iniFile \in Cfg!Ini /\ iniFile # NoFile /\ iniFile' = Cfg!Set(k, t, iniFile)
          /\ saved' = [x \in DOMAIN saved \ {k} |-> saved[x]]
          /\ differs' = IF iniLoaded THEN differs \cup {k} ELSE differs
          /\ UNCHANGED <<ini, iniLoaded, cache, lost>>
      BY <1>2, <2>7 DEF Cfg!Edit, SettingsInv
    <3>2. /\ iniFile' \in Cfg!Ini /\ FileTexts' = iniFile' /\ FileTexts = iniFile
          /\ \A j \in Setting \ {k} : Says(iniFile', j) = Says(iniFile, j)
      BY <2>0, <3>1, SetSays DEF FileTexts, Cfg!TextsOf
    <3>3. saved' \in Cfg!Ini  BY <1>2, <3>1, IniIsFunctions DEF SettingsInv
    <3> QED  BY <1>2, <3>1, <3>2, <3>3 DEF SettingsInv
  <2>8. ASSUME NEW load \in Cfg!FilesAfterFresh, Cfg!Reset(load) PROVE SettingsInv'
    <3> DEFINE off == Cfg!CutOff(Cfg!Merged, load)
               broken == off \cap DOMAIN Cfg!TextsOf(load)
    <3>1. /\ ini' = Cfg!Fresh(load) /\ iniFile' = load /\ iniLoaded' = TRUE /\ differs' = {} /\ lost' = off
          /\ saved' = [x \in DOMAIN saved \ (differs \cup lost \cup broken) |-> saved[x]]
          /\ cache' = [k \in Summary |-> Cfg!StripInlineComment(Cfg!Lookup(ini', k))]
      BY <2>8 DEF Cfg!Reset, Cfg!Forget
    <3>2. Summary \subseteq Setting  BY SessionAssumption DEF Cfg!SettingsAssumption
    <3>3. /\ ini' \in Cfg!Ini /\ iniFile' \in Cfg!Ini \cup {NoFile} /\ off \subseteq Setting
          /\ \A j \in Setting :
               /\ j \notin off => Says(ini', j) = Says(FileTexts', j)
               /\ j \notin broken => Says(ini', j) = Says(FileTexts, j)
      BY <1>2, <2>8, <3>1, FreshSays DEF FileTexts
    <3> HIDE DEF off, broken
    <3>4. \A k \in Summary :
            Cfg!StripInlineComment(Cfg!Lookup(ini', k)) = [value |-> Says(ini', k), remark |-> FALSE]
      BY <3>2, <3>3, StripSays
    <3>5. \A k \in Setting : [value |-> Says(ini', k), remark |-> FALSE] \in Cfg!Text
      BY <3>3, IniIsFunctions DEF Cfg!Text, Says
    <3>6. cache' \in Cfg!Ini /\ \A k \in DOMAIN cache' : k \in Setting /\ cache'[k].value = Says(ini', k)
      BY <3>1, <3>2, <3>4, <3>5, IniIsFunctions
    <3>7. saved' \in Cfg!Ini  BY <1>2, <3>1, IniIsFunctions DEF SettingsInv
    <3>8. ASSUME NEW j \in DOMAIN saved' PROVE saved'[j].value = Says(ini', j)
      <4>1. j \in DOMAIN saved /\ saved'[j] = saved[j] /\ j \notin differs /\ j \notin lost /\ j \notin broken
        BY <3>1, <3>8
      <4>2. j \in Setting  BY <1>2, <4>1, IniIsFunctions DEF SettingsInv
      <4>3. iniLoaded  BY <1>2, <4>1 DEF SettingsInv
      <4>4. saved[j].value = Says(ini, j) /\ Says(ini, j) = Says(FileTexts, j)
        BY <1>2, <4>1, <4>2, <4>3 DEF SettingsInv
      <4>5. Says(ini', j) = Says(FileTexts, j)  BY <3>3, <4>1, <4>2
      <4> QED  BY <4>1, <4>4, <4>5
    <3> QED  BY <3>1, <3>3, <3>6, <3>7, <3>8 DEF SettingsInv
  <2>9. CASE UNCHANGED vars  BY <2>1, <2>9 DEF vars, setupVars
  <2> QED
    BY <1>2, <2>1, <2>2, <2>3, <2>4, <2>5, <2>6, <2>7, <2>8, <2>9, StepChanges
    DEF SettingsChange, Cfg!SettingsNext
<1> QED  BY <1>1, <1>2, PTL DEF Spec

\* A setting reported as written is loaded, and in the file unless a full disk cut it off, for any
\* settings, values, edits of the user and failures to write, over any number of sessions.
THEOREM WrittenStays == Spec => []Cfg!WrittenStays
<1>1. ASSUME SettingsInv, NEW k \in DOMAIN saved \ differs
      PROVE  /\ Cfg!StripInlineComment(Cfg!Lookup(ini, k)) = Cfg!StripInlineComment(saved[k])
             /\ k \notin lost =>
                  Cfg!StripInlineComment(Cfg!Lookup(FileTexts, k)) = Cfg!StripInlineComment(saved[k])
  <2>1. saved[k] \in Cfg!Text /\ k \in Setting /\ saved[k].value = Says(ini, k) /\ iniLoaded
    BY <1>1, IniIsFunctions DEF SettingsInv
  <2>2. ini \in Cfg!Ini /\ FileTexts \in Cfg!Ini
    BY <1>1, DefaultsSay DEF SettingsInv, FileTexts, Cfg!TextsOf
  <2>3. k \notin lost => Says(ini, k) = Says(FileTexts, k)  BY <1>1, <2>1 DEF SettingsInv
  <2>4. Cfg!StripInlineComment(saved[k]) = [value |-> Says(ini, k), remark |-> FALSE]
    BY <2>1 DEF Cfg!StripInlineComment
  <2> QED  BY <2>1, <2>2, <2>3, <2>4, StripSays
<1>2. SettingsInv => Cfg!WrittenStays  BY <1>1 DEF Cfg!WrittenStays, FileTexts
<1> QED  BY <1>2, SettingsInvHolds, PTL

----------------------------------------------------------------------------
(* Plugins *)

\* Files listed and not loaded yet are in the order of their places, with names of their own;
\* those loaded are from no better place, and the table has no handler from a worse one.
OnList == {paths[i] : i \in 1..Len(paths)}
LoadedFiles == {plugins[i] : i \in 1..Len(plugins)}

ListInv ==
  /\ files \subseteq Plg!File /\ blacklist \subseteq files
  /\ paths \in Seq(files) /\ plugins \in Seq(files) /\ opcodesOf \in [Plg!File -> SUBSET Opcode]
  /\ scan \in 0..5 /\ pluginsLoaded \in BOOLEAN
  /\ scan \in 1..4 => ~pluginsLoaded
  /\ scan = 0 /\ ~pluginsLoaded => paths = <<>>
  /\ scan \in 0..3 /\ ~pluginsLoaded => plugins = <<>>

OrderInv ==
  /\ \A i, j \in 1..Len(paths) : i < j => paths[i].place <= paths[j].place
  /\ \A f \in OnList, g \in LoadedFiles : f.place <= g.place
  /\ \A f \in OnList : scan \in 1..3 => f.place <= scan
  /\ scan \in 2..3 => \A f \in files : f.place = 1 => f \in OnList \cup skippedPaths

NamesInv ==
  /\ \A f \in OnList : scan \in 1..3 => <<f.name, FALSE>> \in names
  /\ \A f \in OnList \cup LoadedFiles :
       /\ f \notin blacklist
       /\ \A g \in OnList \cup LoadedFiles : f.name = g.name => f = g

HandlersInv ==
  \A op \in Opcode, f \in LoadedFiles :
    op \in opcodesOf[f] => customOpcodeProc[op] # Core /\ customOpcodeProc[op].place <= f.place

PluginsInv == ListInv /\ OrderInv /\ NamesInv /\ HandlersInv
            /\ customOpcodeProc = [op \in Opcode |-> customOpcodeProc[op]]

\* A scan lists a file behind the others, or skips it.
LEMMA ListingKeepsOrder ==
  ASSUME PluginsInv, NEW f \in Plg!File, Plg!ListFile(f)
  PROVE  PluginsInv'
<1>0. /\ scan \in 1..3 /\ f \in Plg!Found(scan) /\ f \notin Plg!ToSet(paths) /\ f \notin skippedPaths
      /\ UNCHANGED <<files, blacklist, opcodesOf, scan, plugins, pluginsLoaded, customOpcodeProc>>
  BY DEF Plg!ListFile, Plg!Candidate, Plg!Place, Plg!fileVars
<1>1. f \in files /\ (f.place = scan \/ (scan = 2 /\ f.place = 1)) /\ f \notin OnList
  <2>1. paths \in Seq(files)  BY DEF PluginsInv, ListInv
  <2>2. Plg!ToSet(paths) = OnList  BY <2>1 DEF Plg!ToSet, OnList
  <2>3. f \in files /\ (f.place = scan \/ (scan = 2 /\ f.place = 1))  BY <1>0 DEF Plg!Found
  <2> QED  BY <1>0, <2>2, <2>3
<1>2. f.place = scan  BY <1>0, <1>1 DEF PluginsInv, OrderInv
<1>3. plugins = <<>>  BY <1>0 DEF PluginsInv, ListInv
<1>4. CASE paths' = paths /\ names' = names /\ skippedPaths' = skippedPaths \cup {f}
  <2>1. OnList' = OnList /\ LoadedFiles' = LoadedFiles  BY <1>0, <1>4 DEF OnList, LoadedFiles
  <2>2. ListInv' /\ HandlersInv' /\ NamesInv'
    BY <1>0, <1>4, <2>1 DEF PluginsInv, ListInv, HandlersInv, NamesInv
  <2>3. OrderInv'  BY <1>0, <1>4, <2>1 DEF PluginsInv, OrderInv
  <2> QED  BY <1>0, <2>2, <2>3 DEF PluginsInv
<1>5. CASE /\ f \notin blacklist /\ <<f.name, FALSE>> \notin names /\ names' = names \cup {<<f.name, FALSE>>}
           /\ paths' = Append(paths, f) /\ skippedPaths' = skippedPaths
  <2>1. /\ paths' \in Seq(files) /\ Len(paths') = Len(paths) + 1 /\ paths'[Len(paths')] = f
        /\ \A i \in 1..Len(paths) : paths'[i] = paths[i]
    BY <1>0, <1>1, <1>5 DEF PluginsInv, ListInv
  <2>2. OnList' = OnList \cup {f} /\ LoadedFiles' = LoadedFiles
    <3>1. Len(paths) \in Nat  BY DEF PluginsInv, ListInv
    <3>2. OnList' = {paths'[i] : i \in 1..Len(paths')}  BY DEF OnList
    <3>3. OnList' \subseteq OnList \cup {f}  BY <2>1, <3>1, <3>2 DEF OnList
    <3>4. OnList \cup {f} \subseteq OnList'  BY <2>1, <3>1, <3>2 DEF OnList
    <3> QED  BY <1>0, <3>3, <3>4 DEF LoadedFiles
  <2>3. ListInv'  BY <1>0, <1>1, <2>1 DEF PluginsInv, ListInv
  <2>4. OrderInv'
    <3>1. \A i \in 1..Len(paths) : paths[i].place <= f.place
      BY <1>0, <1>1, <1>2 DEF PluginsInv, OrderInv, OnList
    <3>2. \A i, j \in 1..Len(paths') : i < j => paths'[i].place <= paths'[j].place
      BY <2>1, <3>1 DEF PluginsInv, OrderInv, ListInv
    <3>3. LoadedFiles = {}  BY <1>3 DEF LoadedFiles
    <3> QED  BY <1>0, <1>1, <1>2, <1>5, <2>2, <3>2, <3>3 DEF PluginsInv, OrderInv, Plg!File, Plg!Place
  <2>5. NamesInv'
    <3>1. LoadedFiles = {}  BY <1>3 DEF LoadedFiles
    <3>2. \A g \in OnList : g.name # f.name  BY <1>0, <1>5 DEF PluginsInv, NamesInv
    <3>3. \A g \in OnList' : <<g.name, FALSE>> \in names'  BY <1>0, <1>5, <2>2 DEF PluginsInv, NamesInv
    <3> QED  BY <1>0, <1>5, <2>2, <3>1, <3>2, <3>3 DEF PluginsInv, NamesInv
  <2> QED  BY <1>0, <1>1, <2>2, <2>3, <2>4, <2>5 DEF PluginsInv, HandlersInv
<1>6. Plg!NameIn(scan, f) = <<f.name, FALSE>>
  <2>1. (scan = 2 /\ f.place = 1) = FALSE  BY <1>2
  <2> QED  BY <2>1 DEF Plg!NameIn
<1> QED  BY <1>4, <1>5, <1>6 DEF Plg!ListFile, Plg!Listed

\* A sequence without its last element.
LEMMA WithoutLast ==
  ASSUME NEW S, NEW s \in Seq(S), s # <<>>
  PROVE  /\ SubSeq(s, 1, Len(s) - 1) \in Seq(S) /\ Len(SubSeq(s, 1, Len(s) - 1)) = Len(s) - 1
         /\ \A i \in 1..(Len(s) - 1) : SubSeq(s, 1, Len(s) - 1)[i] = s[i]
<1> DEFINE n == Len(s) - 1
<1>1. Len(s) \in Nat /\ Len(s) > 0 /\ \A i \in 1..Len(s) : s[i] \in S  OBVIOUS
<1>2. n \in Nat /\ 1 \in Int /\ n \in Int /\ \A i \in 1..n : s[i] \in S  BY <1>1
<1> HIDE DEF n
<1>3. /\ SubSeq(s, 1, n) \in Seq(S) /\ Len(SubSeq(s, 1, n)) = IF 1 <= n THEN n - 1 + 1 ELSE 0
      /\ \A i \in 1..(n - 1 + 1) : SubSeq(s, 1, n)[i] = s[1 + i - 1]
  BY <1>2, SubSeqProperties
<1>4. Len(SubSeq(s, 1, n)) = n  BY <1>2, <1>3
<1>5. ASSUME NEW i \in 1..n PROVE SubSeq(s, 1, n)[i] = s[i]
  <2>1. i \in 1..(n - 1 + 1) /\ 1 + i - 1 = i  BY <1>2
  <2> QED  BY <1>3, <2>1
<1> QED  BY <1>3, <1>4, <1>5 DEF n

\* A plugin that is loaded takes its opcodes over from those of the same or a worse place.
LEMMA LoadingKeepsOrder ==
  ASSUME PluginsInv, NEW ok \in BOOLEAN, Plg!LoadPlugin(ok)
  PROVE  PluginsInv'
<1> DEFINE f == paths[Len(paths)]
<1>1. /\ scan = 4 /\ paths # <<>> /\ paths' = Plg!Front(paths)
      /\ plugins' = IF ok THEN Append(plugins, f) ELSE plugins
      /\ customOpcodeProc' = IF ok THEN Plg!Registered(f) ELSE customOpcodeProc
      /\ UNCHANGED <<files, blacklist, opcodesOf, scan, pluginsLoaded, skippedPaths, names>>
  BY DEF Plg!LoadPlugin, Plg!Last, Plg!fileVars
<1>2. paths \in Seq(files) /\ plugins \in Seq(files) /\ Len(paths) \in Nat /\ Len(paths) > 0
      /\ f \in files /\ f \in Plg!File /\ f \in OnList
  BY <1>1 DEF PluginsInv, ListInv, OnList
<1>3. /\ paths' \in Seq(files) /\ Len(paths') = Len(paths) - 1
      /\ \A i \in 1..Len(paths') : paths'[i] = paths[i]
  <2>1. paths' = SubSeq(paths, 1, Len(paths) - 1)  BY <1>1 DEF Plg!Front
  <2>2. paths \in Seq(files) /\ paths # <<>>  BY <1>1, <1>2
  <2>3. /\ SubSeq(paths, 1, Len(paths) - 1) \in Seq(files)
        /\ Len(SubSeq(paths, 1, Len(paths) - 1)) = Len(paths) - 1
        /\ \A i \in 1..(Len(paths) - 1) : SubSeq(paths, 1, Len(paths) - 1)[i] = paths[i]
    BY <2>2, WithoutLast
  <2> HIDE DEF f
  <2> QED  BY <2>1, <2>3
<1>4. OnList' \subseteq OnList
  <2>1. OnList' = {paths'[i] : i \in 1..Len(paths')}  BY DEF OnList
  <2> QED  BY <1>2, <1>3, <2>1 DEF OnList
<1>5. \A g \in OnList : g.place <= f.place
  <2>1. \A i \in 1..Len(paths) : paths[i].place <= f.place
    <3>1. \A i \in 1..Len(paths) : paths[i] \in Plg!File  BY <1>2 DEF PluginsInv, ListInv
    <3>2. \A i \in 1..Len(paths) : paths[i].place \in Int  BY <3>1 DEF Plg!File, Plg!Place
    <3> QED  BY <1>2, <3>2 DEF PluginsInv, OrderInv
  <2> QED  BY <2>1 DEF OnList
<1>6. /\ plugins' \in Seq(files) /\ LoadedFiles' \subseteq LoadedFiles \cup {f}
      /\ LoadedFiles' = LoadedFiles \/ ok
  <2>1. LoadedFiles' = {plugins'[i] : i \in 1..Len(plugins')}  BY DEF LoadedFiles
  <2>2. CASE ok
    <3>1. /\ plugins' \in Seq(files) /\ Len(plugins') = Len(plugins) + 1 /\ plugins'[Len(plugins')] = f
          /\ \A i \in 1..Len(plugins) : plugins'[i] = plugins[i] /\ Len(plugins) \in Nat
      BY <1>1, <1>2, <2>2
    <3> QED  BY <1>2, <2>1, <2>2, <3>1 DEF LoadedFiles
  <2>3. CASE ~ok  BY <1>1, <1>2, <2>3 DEF LoadedFiles
  <2> QED  BY <2>2, <2>3
<1> HIDE DEF f
<1>7. ListInv'  BY <1>1, <1>3, <1>6 DEF PluginsInv, ListInv
<1>8. OrderInv'
  <2>1. \A i, j \in 1..Len(paths') : i < j => paths'[i].place <= paths'[j].place
    BY <1>2, <1>3 DEF PluginsInv, OrderInv
  <2>2. \A g \in OnList', h \in LoadedFiles' : g.place <= h.place
    BY <1>4, <1>5, <1>6 DEF PluginsInv, OrderInv
  <2> QED  BY <1>1, <2>1, <2>2 DEF OrderInv
<1>9. NamesInv'
  <2>1. OnList' \cup LoadedFiles' \subseteq OnList \cup LoadedFiles  BY <1>2, <1>4, <1>6
  <2> QED  BY <1>1, <2>1 DEF PluginsInv, NamesInv
<1>10. HandlersInv' /\ customOpcodeProc' = [op \in Opcode |-> customOpcodeProc'[op]]
  <2>1. CASE ok
    <3>1. customOpcodeProc' = [op \in Opcode |-> IF op \in opcodesOf[f] THEN f ELSE customOpcodeProc[op]]
      BY <1>1, <2>1 DEF Plg!Registered
    <3>2. f # Core  BY <1>2, SessionAssumption DEF Plg!PluginsAssumption
    <3>3. \A g \in LoadedFiles' : g = f \/ g \in LoadedFiles  BY <1>6
    <3>4. \A g \in LoadedFiles : f.place <= g.place  BY <1>2 DEF PluginsInv, OrderInv
    <3>5. f.place <= f.place  BY <1>2 DEF Plg!File, Plg!Place
    <3>6. ASSUME NEW op \in Opcode, NEW g \in LoadedFiles', op \in opcodesOf[g]
          PROVE  customOpcodeProc'[op] # Core /\ customOpcodeProc'[op].place <= g.place
      BY <3>1, <3>2, <3>3, <3>4, <3>5, <3>6 DEF PluginsInv, HandlersInv
    <3> QED  BY <1>1, <3>1, <3>6 DEF HandlersInv
  <2>2. CASE ~ok
    <3>1. LoadedFiles' = LoadedFiles  BY <1>6, <2>2
    <3> QED  BY <1>1, <2>2, <3>1 DEF PluginsInv, HandlersInv
  <2> QED  BY <2>1, <2>2
<1> QED  BY <1>7, <1>8, <1>9, <1>10 DEF PluginsInv

LEMMA PluginsInvHolds == Spec => []PluginsInv
<1>1. Init => PluginsInv
  <2> SUFFICES ASSUME Init PROVE PluginsInv  OBVIOUS
  <2>1. Plg!PluginsInit  BY DEF Init
  <2>2. OnList = {} /\ LoadedFiles = {}  BY <2>1 DEF Plg!PluginsInit, OnList, LoadedFiles
  <2>3. ListInv
    <3>1. /\ files = {} /\ blacklist = {} /\ opcodesOf = [f \in Plg!File |-> {}] /\ scan = 0
          /\ paths = <<>> /\ plugins = <<>> /\ pluginsLoaded = FALSE
      BY <2>1 DEF Plg!PluginsInit
    <3>2. paths \in Seq(files) /\ plugins \in Seq(files)  BY <3>1
    <3>3. opcodesOf \in [Plg!File -> SUBSET Opcode]  BY <3>1
    <3>4. scan \in 0..5 /\ ~(scan \in 1..4)  BY <3>1
    <3>5. pluginsLoaded \in BOOLEAN /\ ~pluginsLoaded  BY <3>1
    <3>6. files \subseteq Plg!File /\ blacklist \subseteq files  BY <3>1
    <3> QED  BY ONLY <3>1, <3>2, <3>3, <3>4, <3>5, <3>6, Zenon DEF ListInv
  <2> QED  BY <2>1, <2>2, <2>3 DEF Plg!PluginsInit, PluginsInv, OrderInv, NamesInv, HandlersInv
<1> USE DEF Plg!fileVars, Plg!listVars
<1>2. ASSUME PluginsInv, [Next]_vars PROVE PluginsInv'
  <2>0. ASSUME UNCHANGED <<files, blacklist, opcodesOf, scan, paths, names, skippedPaths, plugins,
                           pluginsLoaded, customOpcodeProc>>
        PROVE  PluginsInv'
    <3>1. OnList' = OnList /\ LoadedFiles' = LoadedFiles  BY <2>0 DEF OnList, LoadedFiles
    <3>2. ListInv'  BY <1>2, <2>0 DEF PluginsInv, ListInv
    <3>3. OrderInv'  BY <1>2, <2>0, <3>1 DEF PluginsInv, OrderInv
    <3>4. NamesInv' /\ HandlersInv'  BY <1>2, <2>0, <3>1 DEF PluginsInv, NamesInv, HandlersInv
    <3> QED  BY <1>2, <2>0, <3>2, <3>3, <3>4 DEF PluginsInv
  <2>1. CASE UNCHANGED pluginsVars  BY <2>0, <2>1 DEF pluginsVars
  <2>2. ASSUME NEW f \in Plg!File, NEW ops \in SUBSET Opcode, NEW listed \in BOOLEAN,
               Plg!InstallPlugin(f, ops, listed)
        PROVE  PluginsInv'
    <3>1. paths = <<>> /\ plugins = <<>> /\ scan = 0  BY <1>2, <2>2 DEF Plg!InstallPlugin, PluginsInv, ListInv
    <3>2. OnList' = {} /\ LoadedFiles' = {}  BY <2>2, <3>1 DEF Plg!InstallPlugin, OnList, LoadedFiles
    <3>3. /\ files' = files \cup {f} /\ opcodesOf' = [opcodesOf EXCEPT ![f] = ops]
          /\ blacklist' \subseteq blacklist \cup {f} /\ paths' = <<>> /\ plugins' = <<>> /\ scan' = 0
          /\ UNCHANGED <<pluginsLoaded, customOpcodeProc, skippedPaths, names>>
      BY <2>2, <3>1 DEF Plg!InstallPlugin
    <3>4. ListInv'  BY <1>2, <2>2, <3>3 DEF PluginsInv, ListInv
    <3> QED  BY <1>2, <3>2, <3>3, <3>4 DEF PluginsInv, OrderInv, NamesInv, HandlersInv
  <2>3. CASE Plg!ListStart
    <3>1. plugins = <<>>  BY <1>2, <2>3 DEF Plg!ListStart, PluginsInv, ListInv
    <3>2. OnList' = {} /\ LoadedFiles' = {}  BY <2>3, <3>1 DEF Plg!ListStart, OnList, LoadedFiles
    <3>3. ListInv'  BY <1>2, <2>3, <3>1 DEF Plg!ListStart, PluginsInv, ListInv
    <3>4. OrderInv'  BY <2>3, <3>2 DEF Plg!ListStart, OrderInv
    <3> QED  BY <1>2, <2>3, <3>2, <3>3, <3>4 DEF Plg!ListStart, PluginsInv, NamesInv, HandlersInv
  <2>4. CASE Plg!ScanEnd
    <3>1. /\ scan \in 1..3 /\ scan' = scan + 1 /\ Plg!Candidate(scan) = {}
          /\ UNCHANGED <<files, blacklist, opcodesOf, paths, names, skippedPaths, plugins, pluginsLoaded,
                         customOpcodeProc>>
      BY <2>4 DEF Plg!ScanEnd, Plg!Place
    <3>2. OnList' = OnList /\ LoadedFiles' = LoadedFiles  BY <3>1 DEF OnList, LoadedFiles
    <3>3. Plg!ToSet(paths) = OnList
      <4>1. paths \in Seq(files)  BY <1>2 DEF PluginsInv, ListInv
      <4> QED  BY <4>1 DEF Plg!ToSet, OnList
    <3>4. scan' \in 2..3 => \A f \in files : f.place = 1 => f \in OnList \cup skippedPaths
      BY <1>2, <3>1, <3>3 DEF Plg!Candidate, Plg!Found, PluginsInv, OrderInv
    <3>5. \A f \in OnList : scan' \in 1..3 => f.place <= scan'
      <4>1. \A f \in OnList : f.place \in Int
        BY <1>2 DEF OnList, Plg!File, Plg!Place, PluginsInv, ListInv
      <4> QED  BY <1>2, <3>1, <4>1 DEF PluginsInv, OrderInv
    <3>6. ListInv'  BY <1>2, <3>1 DEF PluginsInv, ListInv
    <3>7. OrderInv'  BY <1>2, <3>1, <3>2, <3>4, <3>5 DEF PluginsInv, OrderInv
    <3>8. NamesInv' /\ HandlersInv'  BY <1>2, <3>1, <3>2 DEF PluginsInv, NamesInv, HandlersInv
    <3> QED  BY <1>2, <3>1, <3>6, <3>7, <3>8 DEF PluginsInv
  <2>5. CASE Plg!LoadEnd
    <3>1. /\ paths' = paths /\ paths = <<>> /\ scan' = 0 /\ pluginsLoaded' = TRUE
          /\ UNCHANGED <<files, blacklist, opcodesOf, plugins, customOpcodeProc>>
      BY <2>5 DEF Plg!LoadEnd
    <3>2. OnList = {} /\ OnList' = {} /\ LoadedFiles' = LoadedFiles  BY <3>1 DEF OnList, LoadedFiles
    <3>3. ListInv'  BY <1>2, <3>1 DEF PluginsInv, ListInv
    <3>4. OrderInv'  BY <3>1, <3>2 DEF OrderInv
    <3>5. NamesInv' /\ HandlersInv'  BY <1>2, <3>1, <3>2 DEF PluginsInv, NamesInv, HandlersInv
    <3> QED  BY <1>2, <3>1, <3>3, <3>4, <3>5 DEF PluginsInv
  <2>6. CASE Plg!UnloadPlugins
    <3>1. /\ plugins' = <<>> /\ scan' = 5 /\ pluginsLoaded' = FALSE
          /\ UNCHANGED <<files, blacklist, opcodesOf, paths, customOpcodeProc>>
      BY <2>6 DEF Plg!UnloadPlugins
    <3>2. OnList' = OnList /\ LoadedFiles' = {}  BY <3>1 DEF OnList, LoadedFiles
    <3>3. ListInv'
      <4>1. plugins' \in Seq(files') /\ paths' \in Seq(files')  BY <1>2, <3>1 DEF PluginsInv, ListInv
      <4>2. files' \subseteq Plg!File /\ blacklist' \subseteq files' /\ opcodesOf' \in [Plg!File -> SUBSET Opcode]
        BY <1>2, <3>1 DEF PluginsInv, ListInv
      <4>3. scan' \in 0..5 /\ ~(scan' \in 1..4) /\ ~(scan' \in 0..3) /\ scan' # 0  BY <3>1
      <4>4. pluginsLoaded' \in BOOLEAN  BY <3>1
      <4> QED  BY ONLY <4>1, <4>2, <4>3, <4>4, Zenon DEF ListInv
    <3>4. OrderInv'  BY <1>2, <3>1, <3>2 DEF PluginsInv, OrderInv
    <3>5. NamesInv' /\ HandlersInv'  BY <1>2, <3>1, <3>2 DEF PluginsInv, NamesInv, HandlersInv
    <3> QED  BY <1>2, <3>1, <3>3, <3>4, <3>5 DEF PluginsInv
  <2>7. CASE Plg!ExportsNext
    <3>1. UNCHANGED <<files, blacklist, opcodesOf, scan, paths, names, skippedPaths, plugins, pluginsLoaded,
                      customOpcodeProc>>
      BY <2>7 DEF Plg!ExportsNext, Plg!LoadForeign, Plg!FindPluginExport
    <3> QED  BY <2>0, <3>1
  <2>8. CASE UNCHANGED vars  BY <2>1, <2>8 DEF vars, setupVars
  <2>9. PluginsChange \/ UNCHANGED vars  BY <1>2, StepChanges
  <2> QED
    BY <1>2, <2>1, <2>2, <2>3, <2>4, <2>5, <2>6, <2>7, <2>8, <2>9, ListingKeepsOrder, LoadingKeepsOrder
    DEF PluginsChange, Plg!InstallNext, Plg!LoadNext
<1> QED  BY <1>1, <1>2, PTL DEF Spec

\* What was set up stays, for any files of plugins with any opcodes in any of the three places, and
\* any settings: opcodes of plugins of this version are not those of legacy ones or of CLEO, and
\* what was reported as written is loaded, and in the file unless a full disk cut it off.
THEOREM SetupIsKeptHolds == Spec => []SetupIsKept
<1>1. ASSUME PluginsInv PROVE Plg!NewPluginsWin
  <2>1. plugins \in Seq(files)  BY <1>1 DEF PluginsInv, ListInv
  <2>2. Plg!ToSet(plugins) = LoadedFiles  BY <2>1 DEF Plg!ToSet, LoadedFiles
  <2> QED  BY <1>1, <2>2 DEF PluginsInv, NamesInv, HandlersInv, Plg!NewPluginsWin
<1>2. PluginsInv /\ Cfg!WrittenStays => SetupIsKept  BY <1>1 DEF SetupIsKept
<1> QED  BY <1>2, PluginsInvHolds, WrittenStays, PTL

----------------------------------------------------------------------------
(* Files *)

OpenStream ==
  [open : {TRUE}, legacy : BOOLEAN, mode : {"read", "write", "update"}, last : {"none", "read", "write"},
   eof : BOOLEAN, err : {"none", "fault", "mode", "order"}, buffered : BOOLEAN]

\* As opcodes leave a stream: only after an error it may still be in the middle of writing.
Settled(f) ==
  /\ f \in OpenStream
  /\ f.last # "none" => f.eof \/ f.err # "none"
  /\ f.last = "write" \/ f.buffered => f.err # "none"
  /\ f.err # "order"

\* As the runtimes leave it: the position may have to be settled.
Transferred(f) ==
  /\ f \in OpenStream /\ f.err # "order"
  /\ f.last = "write" \/ f.buffered => ~f.eof \/ f.err # "none"

LEMMA FlushedStream ==
  ASSUME NEW f, f \in OpenStream, f.err # "order", NEW failed \in BOOLEAN
  PROVE  /\ Fil!fflush(f, failed) \in OpenStream /\ Fil!fflush(f, failed).err # "order"
         /\ Fil!fflush(f, failed).last = (IF f.last = "write" THEN "none" ELSE f.last)
         /\ Fil!fflush(f, failed).buffered = FALSE /\ Fil!fflush(f, failed).eof = f.eof
         /\ f.err # "none" => Fil!fflush(f, failed).err # "none"
         /\ Fil!fflush(f, failed).legacy = f.legacy
BY DEF OpenStream, Fil!fflush, Fil!Err

LEMMA PositionedStream ==
  ASSUME NEW f, f \in OpenStream, f.err # "order", NEW failed \in BOOLEAN
  PROVE  Settled(Fil!seek(f, failed)) /\ Fil!seek(f, failed).legacy = f.legacy
<1> DEFINE g == Fil!fflush(f, failed)
<1>1. /\ g \in OpenStream /\ g.buffered = FALSE /\ g.err # "order" /\ g.legacy = f.legacy
  BY FlushedStream
<1>2. Fil!seek(f, failed) = [g EXCEPT !.eof = FALSE, !.last = "none"]  BY DEF Fil!seek, Fil!fseek
<1> HIDE DEF g
<1> QED  BY <1>1, <1>2 DEF Settled, OpenStream

LEMMA ReadStream ==
  ASSUME NEW f, Settled(f), NEW outcome \in {"full", "end", "fault"}
  PROVE  Transferred(Fil!fread(f, outcome)) /\ Fil!fread(f, outcome).legacy = f.legacy
BY DEF Settled, Transferred, OpenStream, Fil!fread, Fil!CanRead, Fil!WrongUse, Fil!Err

LEMMA WrittenStream ==
  ASSUME NEW f, Settled(f), NEW outcome \in {"full", "fault"}
  PROVE  Transferred(Fil!fwrite(f, outcome)) /\ Fil!fwrite(f, outcome).legacy = f.legacy
BY DEF Settled, Transferred, OpenStream, Fil!fwrite, Fil!CanWrite, Fil!WrongUse, Fil!Err

LEMMA UpdatedStream ==
  ASSUME NEW h, NEW f, Transferred(f), NEW failed \in BOOLEAN
  PROVE  Settled(Fil!updateState(h, f, failed)) /\ Fil!updateState(h, f, failed).legacy = f.legacy
<1>1. CASE Fil!isOk(h, f) /\ ~Fil!isEndOfFile(f)
  BY <1>1, PositionedStream DEF Transferred, Fil!updateState
<1>2. CASE ~(Fil!isOk(h, f) /\ ~Fil!isEndOfFile(f))
  BY <1>2 DEF Settled, Transferred, OpenStream, Fil!updateState, Fil!isOk, Fil!isEndOfFile
<1> QED  BY <1>1, <1>2

FilesInv ==
  /\ streams = [f \in Stream |-> streams[f]]
  /\ \A f \in Stream : streams[f] = Fil!Closed \/ Settled(streams[f])
  /\ m_hFiles \subseteq Fil!Handle
  /\ Fil!HandlesAreOwned

\* An accepted handle leads to a settled stream of its runtime.
LEMMA HandleOfStream ==
  ASSUME FilesInv, NEW h, Fil!Known(h)
  PROVE  /\ h.file \in Stream /\ Settled(Fil!Of(h)) /\ Fil!Of(h).legacy = h.legacy
         /\ Fil!Of(h) = streams[h.file]
BY DEF FilesInv, Fil!Known, Fil!Of, Fil!handleToFile, Fil!isLegacy, Fil!HandlesAreOwned, Fil!Handle,
       Fil!Closed

LEMMA StreamChanges ==
  ASSUME FilesInv, NEW h, Fil!Known(h), NEW g, Settled(g), g.legacy = Fil!Of(h).legacy, Fil!Become(h, g)
  PROVE  FilesInv'
<1>1. /\ h.file \in Stream /\ Fil!Of(h) = streams[h.file] /\ m_hFiles' = m_hFiles
      /\ streams' = [streams EXCEPT ![h.file] = g]
      /\ g.open
  BY HandleOfStream DEF Fil!Become, Fil!handleToFile, Settled, OpenStream
<1>2. Fil!Of(h).open  BY HandleOfStream DEF Settled, OpenStream
<1>3. \A f \in Stream : /\ streams'[f].open <=> streams[f].open
                        /\ streams'[f].legacy = streams[f].legacy \/ streams'[f] = streams[f]
  BY <1>1, <1>2 DEF FilesInv
<1>4. streams' = [f \in Stream |-> streams'[f]] /\ \A f \in Stream : streams'[f] = Fil!Closed \/ Settled(streams'[f])
  BY <1>1 DEF FilesInv
<1>5. Fil!HandlesAreOwned'
  BY <1>1, <1>3 DEF FilesInv, Fil!HandlesAreOwned, Fil!Of, Fil!handleToFile, Fil!isLegacy, Fil!Handle
<1> QED  BY <1>1, <1>4, <1>5 DEF FilesInv

\* What the functions of File leave behind, in every opcode that uses an open stream.
LEMMA FlushSettles ==
  ASSUME NEW f, Settled(f), NEW failed \in BOOLEAN
  PROVE  Settled(Fil!flush(f, failed)) /\ Fil!flush(f, failed).legacy = f.legacy
<1>1. f \in OpenStream /\ f.err # "order"  BY DEF Settled
<1> QED  BY <1>1, FlushedStream DEF Settled, Fil!flush

LEMMA ReadSettles ==
  ASSUME NEW h, NEW f, Settled(f), NEW outcome \in {"full", "end", "fault"}
  PROVE  /\ Settled(Fil!updateState(h, Fil!fread(f, outcome), FALSE))
         /\ Fil!updateState(h, Fil!fread(f, outcome), FALSE).legacy = f.legacy
<1>1. Transferred(Fil!fread(f, outcome)) /\ Fil!fread(f, outcome).legacy = f.legacy  BY ReadStream
<1>2. FALSE \in BOOLEAN  OBVIOUS
<1> QED  BY <1>1, <1>2, UpdatedStream

LEMMA WriteSettles ==
  ASSUME NEW h, NEW f, Settled(f), NEW outcome \in {"full", "fault"}, NEW failed \in BOOLEAN
  PROVE  /\ Settled(Fil!updateState(h, Fil!fwrite(f, outcome), failed))
         /\ Fil!updateState(h, Fil!fwrite(f, outcome), failed).legacy = f.legacy
<1>1. Transferred(Fil!fwrite(f, outcome)) /\ Fil!fwrite(f, outcome).legacy = f.legacy  BY WrittenStream
<1> QED  BY <1>1, UpdatedStream

LEMMA SettledIsTransferred == ASSUME NEW f, Settled(f) PROVE Transferred(f) /\ f \in OpenStream /\ f.err # "order"
BY DEF Settled, Transferred

LEMMA FilesInvHolds == Spec => []FilesInv
<1>1. Init => FilesInv  BY DEF Init, FilesInv, Fil!FilesInit, Fil!HandlesAreOwned, Fil!Closed
<1>2. ASSUME FilesInv, [Next]_vars PROVE FilesInv'
  <2>1. CASE UNCHANGED <<streams, m_hFiles>>
    BY <1>2, <2>1 DEF FilesInv, Fil!HandlesAreOwned, Fil!Of
  <2>2. CASE Fil!FilesNext
    <3>1. ASSUME NEW f \in Stream, NEW legacy \in BOOLEAN, NEW m \in {"read", "write", "update"},
                 Fil!opcode_0A9A(f, legacy, m)
          PROVE  FilesInv'
      <4>1. Settled(Fil!Opened(legacy, m)) /\ Fil!Opened(legacy, m).legacy = legacy
        BY DEF Settled, OpenStream, Fil!Opened
      <4>2. /\ streams[f] = Fil!Closed /\ streams' = [streams EXCEPT ![f] = Fil!Opened(legacy, m)]
            /\ m_hFiles' = m_hFiles \cup {[file |-> f, legacy |-> legacy]}
        BY <3>1 DEF Fil!opcode_0A9A, Fil!open, Fil!fileToHandle
      <4>3. /\ streams' = [x \in Stream |-> streams'[x]] /\ m_hFiles' \subseteq Fil!Handle
            /\ \A x \in Stream : streams'[x] = Fil!Closed \/ Settled(streams'[x])
        BY <1>2, <4>1, <4>2 DEF FilesInv, Fil!Handle
      <4>4. ASSUME NEW h \in m_hFiles PROVE h.file # f
        <5>1. streams[h.file].open  BY <1>2, <4>4 DEF FilesInv, Fil!HandlesAreOwned, Fil!Of, Fil!handleToFile
        <5>2. ~streams[f].open  BY <4>2 DEF Fil!Closed
        <5> QED  BY <5>1, <5>2
      <4>5. /\ streams'[f].open /\ streams'[f].legacy = legacy
            /\ \A x \in Stream \ {f} : streams'[x] = streams[x]
        BY <1>2, <4>1, <4>2 DEF FilesInv, Settled, OpenStream
      <4>6. \A h \in m_hFiles' : streams'[h.file].open /\ streams'[h.file].legacy = h.legacy
        BY <1>2, <4>2, <4>4, <4>5
        DEF FilesInv, Fil!HandlesAreOwned, Fil!Of, Fil!handleToFile, Fil!isLegacy, Fil!Handle
      <4>7. \A x \in Stream : streams'[x].open => \E h \in m_hFiles' : h.file = x
        <5>1. [file |-> f, legacy |-> legacy] \in m_hFiles'  BY <4>2
        <5> QED  BY <1>2, <4>2, <4>5, <5>1 DEF FilesInv, Fil!HandlesAreOwned, Fil!handleToFile
      <4>8. Fil!HandlesAreOwned'
        BY <4>6, <4>7 DEF Fil!HandlesAreOwned, Fil!Of, Fil!handleToFile, Fil!isLegacy
      <4> QED  BY <4>3, <4>8 DEF FilesInv
    <3>2. ASSUME NEW h \in Fil!Handle, Fil!opcode_0A9B(h) PROVE FilesInv'
      <4>1. /\ Fil!Known(h) /\ m_hFiles' = m_hFiles \ {h}
            /\ streams' = [streams EXCEPT ![h.file] = Fil!Closed]
        BY <3>2 DEF Fil!opcode_0A9B, Fil!close, Fil!handleToFile
      <4>2. \A g \in m_hFiles : g.file = h.file => g = h
        BY <1>2, <4>1, HandleOfStream DEF FilesInv, Fil!Known, Fil!Handle
      <4>3. Fil!HandlesAreOwned'
        BY <1>2, <4>1, <4>2 DEF FilesInv, Fil!HandlesAreOwned, Fil!Of, Fil!handleToFile, Fil!isLegacy,
                                Fil!Handle, Fil!Closed
      <4> QED  BY <1>2, <4>1, <4>3 DEF FilesInv
    <3>3. ASSUME NEW h \in Fil!Handle, NEW failed \in BOOLEAN,
                 Fil!opcode_0A9C(h, failed) \/ Fil!opcode_0AD5(h, failed)
          PROVE  FilesInv'
      <4>1. Fil!Known(h)  BY <3>3 DEF Fil!opcode_0A9C, Fil!opcode_0AD5
      <4>2. Fil!Of(h) \in OpenStream /\ Fil!Of(h).err # "order"
        BY <1>2, <4>1, HandleOfStream, SettledIsTransferred
      <4>3. Settled(Fil!seek(Fil!Of(h), failed)) /\ Fil!seek(Fil!Of(h), failed).legacy = Fil!Of(h).legacy
        BY <4>2, PositionedStream
      <4>4. Settled(Fil!getSize(Fil!Of(h), failed)) /\ Fil!getSize(Fil!Of(h), failed).legacy = Fil!Of(h).legacy
        BY <4>3, SettledIsTransferred, PositionedStream DEF Fil!getSize
      <4> QED  BY <1>2, <3>3, <4>1, <4>3, <4>4, StreamChanges DEF Fil!opcode_0A9C, Fil!opcode_0AD5
    <3>4. ASSUME NEW h \in Fil!Handle, Fil!opcode_0AD6(h) \/ Fil!opcode_2300(h) PROVE FilesInv'
      BY <1>2, <2>1, <3>4, StreamChanges, HandleOfStream
      DEF Fil!opcode_0AD6, Fil!opcode_2300, Fil!getPos, Fil!filesVars
    <3>5. ASSUME NEW h \in Fil!Handle, NEW outcome \in Fil!ReadOutcome,
                 Fil!opcode_0A9D(h, outcome) \/ Fil!opcode_2301(h, outcome) \/ Fil!opcode_0AD7(h, outcome)
          PROVE  FilesInv'
      <4>1. outcome \in {"full", "end", "fault"}  BY DEF Fil!ReadOutcome
      <4>2. /\ Fil!Known(h)
            /\ Fil!Become(h, Fil!updateState(h, Fil!fread(Fil!Of(h), outcome), FALSE))
        BY <3>5 DEF Fil!opcode_0A9D, Fil!opcode_2301, Fil!opcode_0AD7, Fil!read, Fil!readString
      <4> QED  BY <1>2, <4>1, <4>2, HandleOfStream, ReadSettles, StreamChanges
    <3>6. ASSUME NEW h \in Fil!Handle, NEW outcome \in Fil!ReadOutcome, NEW unused \in BOOLEAN,
                 Fil!opcode_0ADA(h, outcome, unused)
          PROVE  FilesInv'
      <4> DEFINE c == Fil!updateState(h, Fil!fread(Fil!Of(h), outcome), FALSE)
                 d == IF unused THEN Fil!seek(c, FALSE) ELSE c
                 e == Fil!updateState(h, d, FALSE)
      <4>1. outcome \in {"full", "end", "fault"}  BY DEF Fil!ReadOutcome
      <4>2. Fil!Known(h) /\ (Fil!Become(h, c) \/ Fil!Become(h, e))
        BY <3>6 DEF Fil!opcode_0ADA, Fil!scan, Fil!readChar
      <4>3. Settled(c) /\ c.legacy = Fil!Of(h).legacy
        BY <1>2, <4>1, <4>2, HandleOfStream, ReadSettles
      <4> HIDE DEF c
      <4>4. Settled(d) /\ d.legacy = c.legacy
        <5>1. c \in OpenStream /\ c.err # "order" /\ FALSE \in BOOLEAN  BY <4>3, SettledIsTransferred
        <5>2. Settled(Fil!seek(c, FALSE)) /\ Fil!seek(c, FALSE).legacy = c.legacy
          BY <5>1, PositionedStream
        <5> QED  BY <4>3, <5>2
      <4> HIDE DEF d
      <4>5. Settled(e) /\ e.legacy = d.legacy  BY <4>4, FALSE \in BOOLEAN, SettledIsTransferred, UpdatedStream
      <4> HIDE DEF e
      <4> QED  BY <1>2, <4>2, <4>3, <4>4, <4>5, StreamChanges
    <3>7. ASSUME NEW h \in Fil!Handle, NEW outcome \in Fil!WriteOutcome, NEW failed \in BOOLEAN,
                 \/ Fil!opcode_0A9E(h, outcome, failed) \/ Fil!opcode_2302(h, outcome, failed)
                 \/ Fil!opcode_0AD8(h, outcome, failed) \/ Fil!opcode_0AD9(h, outcome, failed)
          PROVE  FilesInv'
      <4> DEFINE g == Fil!updateState(h, Fil!fwrite(Fil!Of(h), outcome), failed)
                 e == Fil!flush(g, FALSE)
      <4>1. outcome \in {"full", "fault"}  BY DEF Fil!WriteOutcome
      <4>2. Fil!Known(h) /\ (Fil!Become(h, g) \/ Fil!Become(h, e))
        BY <3>7 DEF Fil!opcode_0A9E, Fil!opcode_2302, Fil!opcode_0AD8, Fil!opcode_0AD9, Fil!WriteText,
                    Fil!write, Fil!writeString
      <4>3. Settled(g) /\ g.legacy = Fil!Of(h).legacy
        BY <1>2, <4>1, <4>2, HandleOfStream, WriteSettles
      <4> HIDE DEF g
      <4>4. Settled(e) /\ e.legacy = g.legacy  BY <4>3, FALSE \in BOOLEAN, FlushSettles
      <4> HIDE DEF e
      <4> QED  BY <1>2, <4>2, <4>3, <4>4, StreamChanges
    <3>8. \A x \in Search, X \in SUBSET Search :
            \/ Fil!Script_FS_FindFirstFile(x) \/ Fil!Script_FS_FindNextFile(x) \/ Fil!Script_FS_FindClose(x)
            \/ Fil!Script_FS_DeleteDirectory(X)
            => UNCHANGED <<streams, m_hFiles>>
      BY DEF Fil!Script_FS_FindFirstFile, Fil!Script_FS_FindNextFile, Fil!Script_FS_FindClose,
             Fil!Script_FS_DeleteDirectory, Fil!filesVars
    <3>9. CASE \E x \in Search :
                 Fil!Script_FS_FindFirstFile(x) \/ Fil!Script_FS_FindNextFile(x) \/ Fil!Script_FS_FindClose(x)
      BY <2>1, <3>8, <3>9
    <3>10. CASE \E X \in SUBSET Search : Fil!Script_FS_DeleteDirectory(X)
      BY <2>1, <3>10 DEF Fil!Script_FS_DeleteDirectory
    <3> QED  BY <2>2, <3>1, <3>2, <3>3, <3>4, <3>5, <3>6, <3>7, <3>9, <3>10 DEF Fil!FilesNext
  <2>3. CASE Fil!OnFinalizeScriptObjects
    BY <1>2, <2>3 DEF FilesInv, Fil!OnFinalizeScriptObjects, Fil!HandlesAreOwned, Fil!Of, Fil!Closed
  <2>4. CASE UNCHANGED filesVars  BY <2>1, <2>4 DEF filesVars
  <2>5. CASE UNCHANGED vars  BY <2>4, <2>5 DEF vars, tableVars
  <2> QED  BY <1>2, <2>2, <2>3, <2>4, <2>5, StepChanges DEF FilesChange
<1> QED  BY <1>1, <1>2, PTL DEF Spec

\* Files may be read, written, positioned and closed in any order, by any number of scripts, in
\* either runtime and with any fault of the disk: the order of the calls is never an error, and
\* every open stream has one handle of its runtime.
THEOREM StreamsAreSettledHolds == Spec => []StreamsAreSettled
<1>1. ASSUME FilesInv, NEW f \in Stream, streams[f].open
      PROVE  /\ streams[f].last # "none" => streams[f].eof \/ streams[f].err # "none"
             /\ streams[f].buffered => streams[f].err # "none"
             /\ streams[f].err # "order"
  <2>1. Settled(streams[f])  BY <1>1 DEF FilesInv, Fil!Closed
  <2> QED  BY <2>1 DEF Settled
<1>2. FilesInv => StreamsAreSettled
  BY <1>1 DEF StreamsAreSettled, Fil!StreamsAreSettled
<1> QED  BY <1>2, FilesInvHolds, PTL

\* Each open file has one handle in the list of CLEO, and each handle in it an open file of the
\* runtime it was made for, for any number of files and any faults of the disk.
THEOREM HandlesAreOwned == Spec => []Fil!HandlesAreOwned
<1>1. FilesInv => Fil!HandlesAreOwned  BY DEF FilesInv
<1> QED  BY <1>1, FilesInvHolds, PTL

----------------------------------------------------------------------------
(* Searches of entities *)

LEMMA MinOfNaturals ==
  ASSUME NEW S, S \subseteq Nat, S # {}
  PROVE  Ent!Min(S) \in S /\ \A i \in S : Ent!Min(S) <= i
<1> DEFINE R == {ij \in Nat \X Nat : ij[1] < ij[2]}
<1>1. IsWellFoundedOn(R, Nat)  BY NatLessThanWellFounded DEF OpToRel
<1>2. \A i, j \in Nat : <<i, j>> \notin R => j <= i  OBVIOUS
<1> HIDE DEF R
<1>3. PICK x \in S : \A y \in S : ~(<<y, x>> \in R)  BY <1>1, WFMin
<1>4. \A y \in S : x <= y  BY <1>2, <1>3
<1> QED  BY <1>4 DEF Ent!Min

\* What is still missing in a walk lies behind the place its script goes on from.
WalkInv(p) ==
  /\ DOMAIN walks[p] = DOMAIN searchState[p]
  /\ \A s \in DOMAIN walks[p] :
       /\ walks[p][s] \in [missing : SUBSET (1..PoolSize), over : BOOLEAN]
       /\ searchState[p][s] \in 0..PoolSize
       /\ \A i \in walks[p][s].missing : i > searchState[p][s] /\ ~walks[p][s].over
       /\ walks[p][s].over => searchState[p][s] = 0

EntitiesInv ==
  /\ searchState = [p \in Ent!Pool |-> searchState[p]] /\ walks = [p \in Ent!Pool |-> walks[p]]
  /\ \A p \in Ent!Pool : WalkInv(p)

\* A search of any of the three opcodes, with any filter.
LEMMA SearchKeepsWalks ==
  ASSUME EntitiesInv, NEW p \in Ent!Pool, NEW s, NEW findNext \in BOOLEAN,
         NEW fits \in SUBSET (1..PoolSize), Ent!SearchPool(p, s, findNext, fits)
  PROVE  EntitiesInv'
<1> DEFINE idx == Ent!SearchIdx(p, s, findNext)
           candidates == {i \in fits : i > idx}
           walk == Ent!WalkOf(p, s, findNext, fits)
           first == Ent!Min(candidates)
<1>1. PoolSize \in Nat  BY SessionAssumption DEF Ent!EntitiesAssumption
<1>2. idx \in 0..PoolSize  BY <1>1 DEF Ent!SearchIdx, EntitiesInv, WalkInv
<1>3. /\ walk \in [missing : SUBSET (1..PoolSize), over : BOOLEAN]
      /\ walk.missing \subseteq candidates /\ walk.over = FALSE
  BY <1>1, <1>2 DEF Ent!SearchIdx, Ent!WalkOf, EntitiesInv, WalkInv
<1>4. ASSUME NEW i \in 0..PoolSize, NEW w \in [missing : SUBSET (1..PoolSize), over : BOOLEAN],
             searchState' = Ent!Put(searchState, p, s, i), walks' = Ent!Put(walks, p, s, w),
             \A j \in w.missing : j > i /\ ~w.over, w.over => i = 0
      PROVE  EntitiesInv'
  <2>1. searchState' = [q \in Ent!Pool |-> searchState'[q]] /\ walks' = [q \in Ent!Pool |-> walks'[q]]
    BY <1>4 DEF EntitiesInv, Ent!Put
  <2>2. /\ searchState'[p] = [x \in DOMAIN searchState[p] \cup {s} |-> IF x = s THEN i ELSE searchState[p][x]]
        /\ walks'[p] = [x \in DOMAIN walks[p] \cup {s} |-> IF x = s THEN w ELSE walks[p][x]]
    BY <1>4 DEF EntitiesInv, Ent!Put
  <2>3. \A q \in Ent!Pool \ {p} : searchState'[q] = searchState[q] /\ walks'[q] = walks[q]
    BY <1>4 DEF EntitiesInv, Ent!Put
  <2>4. WalkInv(p)'  BY <1>4, <2>2 DEF EntitiesInv, WalkInv
  <2>5. \A q \in Ent!Pool : WalkInv(q)'  BY <2>3, <2>4 DEF EntitiesInv, WalkInv
  <2> QED  BY <2>1, <2>5 DEF EntitiesInv
<1>5. CASE candidates # {}
  <2>1. first \in candidates /\ \A i \in candidates : first <= i
    <3>1. fits \subseteq Nat /\ candidates \subseteq fits  BY <1>1
    <3> QED  BY <1>5, <3>1, MinOfNaturals
  <2>2. /\ searchState' = Ent!Put(searchState, p, s, first)
        /\ walks' = Ent!Put(walks, p, s, [walk EXCEPT !.missing = @ \ {first}])
    BY <1>5 DEF Ent!SearchPool, Ent!NextStart
  <2> HIDE DEF first, walk
  <2>3. \A j \in walk.missing \ {first} : j > first  BY <1>1, <1>2, <1>3, <2>1
  <2> QED  BY <1>1, <1>2, <1>3, <1>4, <2>1, <2>2, <2>3
<1>6. CASE candidates = {}
  <2>1. /\ searchState' = Ent!Put(searchState, p, s, 0)
        /\ walks' = Ent!Put(walks, p, s, [walk EXCEPT !.over = TRUE])
    BY <1>6 DEF Ent!SearchPool
  <2> HIDE DEF walk, candidates
  <2> DEFINE w == [walk EXCEPT !.over = TRUE]
  <2>2. w \in [missing : SUBSET (1..PoolSize), over : BOOLEAN] /\ w.missing = {}
    BY <1>3, <1>6
  <2> HIDE DEF w
  <2>3. searchState' = Ent!Put(searchState, p, s, 0) /\ walks' = Ent!Put(walks, p, s, w)
    BY <2>1 DEF w
  <2> QED  BY <1>1, <1>4, <2>2, <2>3
<1> QED  BY <1>5, <1>6

LEMMA EntitiesInvHolds == Spec => []EntitiesInv
<1>1. Init => EntitiesInv
  BY DEF Init, EntitiesInv, WalkInv, Ent!EntitiesInit, Ent!NoSearch, Ent!Nothing
<1>2. ASSUME EntitiesInv, [Next]_vars PROVE EntitiesInv'
  <2>1. CASE UNCHANGED vars
    BY <1>2, <2>1 DEF EntitiesInv, WalkInv, vars, tableVars, entitiesVars
  <2>2. CASE Next
    <3>1. EntitiesChange  BY <2>2, StepChanges
    <3>2. ASSUME NEW p \in Ent!Pool, Ent!EntitiesNext(p) PROVE EntitiesInv'
      <4>1. CASE \E s \in Searcher, findNext \in BOOLEAN :
                   \/ p = "char" /\ \E filter \in -1..1 : Ent!opcode_0AE1(s, findNext, filter)
                   \/ p = "car" /\ \E skipWrecked \in BOOLEAN : Ent!opcode_0AE2(s, findNext, skipWrecked)
                   \/ p = "object" /\ Ent!opcode_0AE3(s, findNext)
        <5>1. PICK s \in Searcher, findNext \in BOOLEAN, fits \in SUBSET (1..PoolSize) :
                Ent!SearchPool(p, s, findNext, fits)
          BY <4>1 DEF Ent!opcode_0AE1, Ent!opcode_0AE2, Ent!opcode_0AE3, Ent!Place
        <5> QED  BY <1>2, <5>1, SearchKeepsWalks
      <4>2. CASE \E i \in Ent!Place, what \in Ent!EntityOf(p) : Ent!Change(p, i, what)
        <5>1. PICK i \in Ent!Place, what \in Ent!EntityOf(p) : Ent!Change(p, i, what)  BY <4>2
        <5>2. /\ searchState' = searchState
              /\ \A q \in Ent!Pool : DOMAIN walks'[q] = DOMAIN walks[q]
              /\ walks' = [q \in Ent!Pool |-> walks'[q]]
          BY <1>2, <5>1 DEF Ent!Change, EntitiesInv
        <5>3. \A w \in [missing : SUBSET (1..PoolSize), over : BOOLEAN] :
                /\ Ent!Excuse(w, i) \in [missing : SUBSET (1..PoolSize), over : BOOLEAN]
                /\ Ent!Excuse(w, i).missing \subseteq w.missing /\ Ent!Excuse(w, i).over = w.over
          BY DEF Ent!Excuse
        <5>4. walks' = [walks EXCEPT ![p] = [s \in DOMAIN walks[p] |-> Ent!Excuse(walks[p][s], i)]]
          BY <5>1 DEF Ent!Change
        <5>5. \A q \in Ent!Pool : \A s \in DOMAIN walks[q] :
                walks'[q][s] = walks[q][s] \/ walks'[q][s] = Ent!Excuse(walks[q][s], i)
          BY <1>2, <5>4 DEF EntitiesInv
        <5>6. \A q \in Ent!Pool : \A s \in DOMAIN walks[q] :
                /\ walks'[q][s] \in [missing : SUBSET (1..PoolSize), over : BOOLEAN]
                /\ walks'[q][s].missing \subseteq walks[q][s].missing
                /\ walks'[q][s].over = walks[q][s].over
          BY <1>2, <5>3, <5>5 DEF EntitiesInv, WalkInv
        <5> QED  BY <1>2, <5>2, <5>6 DEF EntitiesInv, WalkInv
      <4> QED  BY <3>2, <4>1, <4>2 DEF Ent!EntitiesNext
    <3>3. CASE Ent!OnScriptsFinalize
      BY <3>3 DEF Ent!OnScriptsFinalize, EntitiesInv, WalkInv, Ent!NoSearch, Ent!Nothing
    <3>4. CASE UNCHANGED entitiesVars  BY <1>2, <3>4 DEF EntitiesInv, WalkInv, entitiesVars
    <3> QED  BY <3>1, <3>2, <3>3, <3>4 DEF EntitiesChange
  <2> QED  BY <1>2, <2>1, <2>2
<1> QED  BY <1>1, <1>2, PTL DEF Spec

----------------------------------------------------------------------------
(* Keys *)

\* The two states of the keys say at how many checks in a row a key was down.
KeysInv ==
  /\ down \in [Key -> 0..2]
  /\ \A k \in Key : /\ k \in keyStatesCurr <=> down[k] # 0
                    /\ k \in keyStatesCurr \ keyStatesPrev <=> down[k] = 1
  /\ Inp!PressesAreSeen

LEMMA AnswerIsRight ==
  ASSUME KeysInv, NEW K \in SUBSET Key,
         \/ Inp!Answer("down", K, {k \in K : Inp!IsDown(k)})
         \/ Inp!Answer("pressed", K, {k \in K : Inp!IsJustPressed(k)})
  PROVE  KeysInv'
<1>1. UNCHANGED <<keyStatesCurr, keyStatesPrev, down>>  BY DEF Inp!Answer, Inp!checkVars
<1>2. \A k \in K : /\ Inp!IsDown(k) <=> down[k] > 0
                   /\ Inp!IsJustPressed(k) <=> down[k] = 1
  BY DEF KeysInv, Inp!IsDown, Inp!IsJustPressed
<1>3. CASE Inp!Answer("down", K, {k \in K : Inp!IsDown(k)})
  <2>1. answer' = [asked |-> "down", keys |-> K, found |-> Inp!Lowest({k \in K : Inp!IsDown(k)})]
    BY <1>3 DEF Inp!Answer
  <2>2. {k \in K : Inp!IsDown(k)} = {k \in K : down'[k] > 0}  BY <1>1, <1>2
  <2>3. {k \in answer'.keys : IF answer'.asked = "pressed" THEN down'[k] = 1 ELSE down'[k] > 0}
          = {k \in K : down'[k] > 0}
    BY <2>1
  <2> QED  BY <1>1, <2>1, <2>2, <2>3 DEF KeysInv, Inp!PressesAreSeen
<1>4. CASE Inp!Answer("pressed", K, {k \in K : Inp!IsJustPressed(k)})
  <2>1. answer' = [asked |-> "pressed", keys |-> K, found |-> Inp!Lowest({k \in K : Inp!IsJustPressed(k)})]
    BY <1>4 DEF Inp!Answer
  <2>2. {k \in K : Inp!IsJustPressed(k)} = {k \in K : down'[k] = 1}  BY <1>1, <1>2
  <2>3. {k \in answer'.keys : IF answer'.asked = "pressed" THEN down'[k] = 1 ELSE down'[k] > 0}
          = {k \in K : down'[k] = 1}
    BY <2>1
  <2> QED  BY <1>1, <2>1, <2>2, <2>3 DEF KeysInv, Inp!PressesAreSeen
<1> QED  BY <1>3, <1>4

LEMMA NoAnswerIsRight ==
  ASSUME answer = Inp!NoAnswer
  PROVE  Inp!PressesAreSeen
<1>1. answer.keys = {} /\ answer.found = Inp!NoKey  BY DEF Inp!NoAnswer
<1> QED  BY <1>1 DEF Inp!PressesAreSeen, Inp!Lowest

LEMMA KeysInvHolds == Spec => []KeysInv
<1>1. Init => KeysInv
  BY NoAnswerIsRight DEF Init, KeysInv, Inp!KeysInit
<1>2. ASSUME KeysInv, [Next]_vars PROVE KeysInv'
  <2>1. CASE UNCHANGED keysVars  BY <1>2, <2>1 DEF KeysInv, Inp!PressesAreSeen, keysVars
  <2>2. CASE Inp!KeysNext
    <3>1. CASE Inp!CheckKeyboard
      <4>1. answer' = Inp!NoAnswer  BY <3>1 DEF Inp!CheckKeyboard
      <4>2. Inp!PressesAreSeen'  BY <4>1 DEF Inp!PressesAreSeen, Inp!NoAnswer, Inp!Lowest
      <4>3. /\ keyStatesPrev' = keyStatesCurr
            /\ down' = [k \in Key |-> IF k \notin keyStatesCurr' THEN 0 ELSE IF down[k] = 0 THEN 1 ELSE 2]
        BY <3>1 DEF Inp!CheckKeyboard, Inp!Previous
      <4> QED  BY <1>2, <4>2, <4>3 DEF KeysInv
    <3>2. ASSUME NEW k \in Key, Inp!opcode_0AB0(k) \/ Inp!opcode_2080(k) PROVE KeysInv'
      <4>1. \/ Inp!Answer("down", {k}, {j \in {k} : Inp!IsDown(j)})
            \/ Inp!Answer("pressed", {k}, {j \in {k} : Inp!IsJustPressed(j)})
        BY <3>2 DEF Inp!opcode_0AB0, Inp!opcode_2080
      <4> QED  BY <1>2, <4>1, AnswerIsRight
    <3>3. ASSUME NEW k \in Key, NEW j \in Key, Inp!opcode_2081(k, j) \/ Inp!opcode_2082(k, j)
          PROVE  KeysInv'
      <4>1. k..j \subseteq Key  BY SessionAssumption DEF Inp!KeysAssumption
      <4>2. \/ Inp!Answer("down", k..j, {i \in k..j : Inp!IsDown(i)})
            \/ Inp!Answer("pressed", k..j, {i \in k..j : Inp!IsJustPressed(i)})
        BY <3>3 DEF Inp!opcode_2081, Inp!opcode_2082
      <4> QED  BY <1>2, <4>1, <4>2, AnswerIsRight
    <3>4. CASE UNCHANGED <<keyStatesCurr, keyStatesPrev, down, answer>>
      BY <1>2, <3>4 DEF KeysInv, Inp!PressesAreSeen
    <3>5. \A k \in Key, isDown \in BOOLEAN :
            Inp!SendKeyEvent(k, isDown) => UNCHANGED <<keyStatesCurr, keyStatesPrev, down, answer>>
      BY DEF Inp!SendKeyEvent, Inp!checkVars
    <3> QED
      BY <2>2, <3>1, <3>2, <3>3, <3>4, <3>5
      DEF Inp!KeysNext, Inp!OnGameProcessBefore, Inp!OnDrawingFinished, Inp!opcode_2083, Inp!opcode_2084,
          Inp!UserEvent, Inp!opcode_0ADC, Inp!TakeEvent, Inp!Window, Inp!Menu, Inp!checkVars
  <2>3. CASE UNCHANGED vars  BY <2>1, <2>3 DEF vars, codeVars
  <2> QED  BY <1>2, <2>1, <2>2, <2>3, StepChanges DEF KeysChange
<1> QED  BY <1>1, <1>2, PTL DEF Spec

\* Scripts that ask in every frame miss nothing, for pools of any size, any number of searchers,
\* keys, ranges and filters: a walk through a pool that came to its end has found all that fitted
\* all along, and a press is reported in the one frame in which the key is down for the first time.
THEOREM PollsMissNothingHolds == Spec => []PollsMissNothing
<1>1. EntitiesInv => Ent!WalksFindEach
  BY DEF EntitiesInv, WalkInv, Ent!WalksFindEach
<1>2. EntitiesInv /\ KeysInv => PollsMissNothing  BY <1>1 DEF KeysInv, PollsMissNothing
<1> QED  BY <1>2, EntitiesInvHolds, KeysInvHolds, PTL
=============================================================================
