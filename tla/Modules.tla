------------------------------- MODULE Modules -------------------------------
(***************************************************************************)
(* CModuleSystem: module files loaded at the start of a session and on the *)
(* first call of one of their exports.  What GetExport returns points into *)
(* the data of the module, and scripts execute it until the session ends.  *)
(*                                                                         *)
(* Abstractions.  A file is whole, or broken behind the headers of its     *)
(* exports, or not there; paths are normalized, names are lower case.      *)
(***************************************************************************)
EXTENDS Naturals, FiniteSets

CONSTANTS
  ModuleFile, Export,
  CleoModule,   \* files in cleo_modules
  MaxLoads      \* bound on loads that succeed

ModulesAssumption == CleoModule \subseteq ModuleFile /\ MaxLoads \in Nat

VARIABLES
  disk,       \* what the file of each module is: "missing", "broken" or "whole"
  headers,      \* the exports in the headers of a file
  modules,    \* the map of CModules: their exports and the data, 0 when there is none
  loads,      \* loads that succeeded; each puts the data to another place
  refs        \* auxiliary: what GetExport returned in this session

modulesVars == <<disk, headers, modules, loads, refs>>

----------------------------------------------------------------------------
CModule == [exports : SUBSET Export, data : 0..MaxLoads]
Known == DOMAIN modules

\* ModuleExport::LoadFromFile for each header, and the data behind them. Exports of a broken
\* file are kept, its data is not read.
ExportsIn(f) == IF disk[f] = "missing" THEN {} ELSE headers[f]
Readable(f) == disk[f] = "whole" /\ headers[f] # {}

\* The module after the attempt
LoadFromFile(f, place) == [exports |-> ExportsIn(f), data |-> IF Readable(f) THEN place ELSE 0]

\* The entry of the module is made before the file is read, and stays when that fails.
Loaded(F) ==
  [f \in Known \cup F |-> IF f \in F THEN LoadFromFile(f, loads + 1) ELSE modules[f]]

\* LoadFile of one file or, from LoadDirectory, of all in a directory that exist.
LoadFile(F) ==
  /\ (\E f \in F : Readable(f)) => loads < MaxLoads
  /\ modules' = Loaded(F)
  /\ loads' = IF \E f \in F : Readable(f) THEN loads + 1 ELSE loads

\* CModule::GetExport and ScriptDataRef::Valid: a ref to data of at least one opcode.
RefOf(mods, f, e) ==
  IF f \in DOMAIN mods /\ e \in mods[f].exports /\ mods[f].data # 0
  THEN {[file |-> f, data |-> mods[f].data]}
  ELSE {}

----------------------------------------------------------------------------
LoadCleoModules ==
  /\ LoadFile({f \in CleoModule : disk[f] # "missing"})
  /\ UNCHANGED <<disk, headers, refs>>

\* Variant: a module that lacks the export is read again.
GetExportAgain(f, e) ==
  /\ IF RefOf(modules, f, e) # {} THEN UNCHANGED <<modules, loads>> ELSE LoadFile({f})
  /\ refs' = refs \cup RefOf(modules', f, e)
  /\ UNCHANGED <<disk, headers>>

GetExport(f, e) ==
  /\ IF f \in Known THEN UNCHANGED <<modules, loads>> ELSE LoadFile({f})
  /\ refs' = refs \cup RefOf(modules', f, e)
  /\ UNCHANGED <<disk, headers>>

Clear ==
  /\ modules' = [f \in {} |-> {}]
  /\ refs' = {}
  /\ UNCHANGED <<disk, headers, loads>>

\* The user installs, replaces or removes the file.
Install(f, kind, exports) ==
  /\ disk' = [disk EXCEPT ![f] = kind]
  /\ headers' = [headers EXCEPT ![f] = exports]
  /\ UNCHANGED <<modules, loads, refs>>

----------------------------------------------------------------------------
ModulesInit ==
  /\ disk = [f \in ModuleFile |-> "missing"] /\ headers = [f \in ModuleFile |-> {}]
  /\ modules = [f \in {} |-> {}] /\ loads = 0 /\ refs = {}

ModulesNext == \E f \in ModuleFile, e \in Export : GetExport(f, e)

ModuleFilesNext ==
  \E f \in ModuleFile, kind \in {"missing", "broken", "whole"}, exports \in SUBSET Export :
    Install(f, kind, exports)

----------------------------------------------------------------------------
\* Types of the module system.
ModulesTypeOK ==
  /\ disk \in [ModuleFile -> {"missing", "broken", "whole"}]
  /\ headers \in [ModuleFile -> SUBSET Export]
  /\ Known \subseteq ModuleFile /\ modules \in [Known -> CModule]
  /\ loads \in 0..MaxLoads
  /\ refs \subseteq [file : ModuleFile, data : 1..MaxLoads]

\* A script executes code of a module in place: whatever GetExport returned in the session
\* still points at the data of that module, however often and for whichever exports the module
\* was asked since, and whatever became of its file.
RefsStayValid == \A r \in refs : r.file \in Known /\ modules[r.file].data = r.data
=============================================================================
