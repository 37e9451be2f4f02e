------------------------------- MODULE Plugins -------------------------------
(***************************************************************************)
(* CPluginSystem and the table of opcode handlers: plugins are listed from *)
(* three places, loaded in the opposite order, and register their opcodes  *)
(* over those of CLEO and of each other; scripts and plugins then ask for  *)
(* exports of plugins by name.                                             *)
(*                                                                         *)
(* Abstractions.  A file is its place with the name of the plugin: the     *)
(* prefix "SA." and the extension are the place.  Other modules of the     *)
(* process with the extension .cleo are plugins a mod loader has loaded.   *)
(***************************************************************************)
EXTENDS Naturals, Sequences, FiniteSets, SequencesExt

CONSTANTS
  Plugin,    \* names of plugins
  Opcode,    \* opcodes CLEO or a plugin has a handler for
  Core,      \* the handlers of CLEO itself, and exports not asked for yet
  Null,      \* no such export
  Other,     \* a plugin a mod loader has loaded
  MaxPlugins \* bound on the files installed

VARIABLES
  files, blacklist,   \* files of plugins, and those the configuration excludes
  opcodesOf,          \* the opcodes each file registers
  scan, paths, names, skippedPaths,      \* LoadPlugins while it lists
  plugins, pluginsLoaded, customOpcodeProc,
  foreign, exportsCache   \* what plugins of a mod loader export, and what was asked for

listVars == <<scan, paths, names, skippedPaths>>
fileVars == <<files, blacklist, opcodesOf>>
pluginsVars == <<fileVars, listVars, plugins, pluginsLoaded, customOpcodeProc, foreign, exportsCache>>

----------------------------------------------------------------------------
\* SA.*.cleo in cleo_plugins, other *.cleo there, *.cleo in the CLEO directory.
Place == 1..3
File == [place : Place, name : Plugin]

PluginsAssumption ==
  Cardinality({Core, Null, Other}) = 3 /\ {Core, Null, Other} \cap File = {} /\ MaxPlugins \in Nat

\* What the pattern of a scan finds: "*.cleo" finds the SA. files again.
Found(s) == {f \in files : f.place = s \/ (s = 2 /\ f.place = 1)}

\* The name a scan gives to a file: it cuts its own prefix off only.
NameIn(s, f) == <<f.name, s = 2 /\ f.place = 1>>

\* The next file a scan has to look at; files of a scan come in the order of their names, any
\* order here.
Candidate(s) == Found(s) \ (ToSet(paths) \cup skippedPaths)

ListStart ==
  /\ ~pluginsLoaded /\ scan = 0
  /\ scan' = 1 /\ paths' = <<>> /\ names' = {} /\ skippedPaths' = {}
  /\ UNCHANGED <<fileVars, plugins, pluginsLoaded, customOpcodeProc, foreign, exportsCache>>

\* Variant: each file is put before those listed already.
ListedBefore(f) == <<f>> \o paths

Listed(f) == Append(paths, f)

ListFile(f) ==
  /\ scan \in Place /\ f \in Candidate(scan)
  /\ IF f \in blacklist \/ NameIn(scan, f) \in names
     THEN /\ skippedPaths' = skippedPaths \cup {f}
          /\ UNCHANGED <<paths, names>>
     ELSE /\ names' = names \cup {NameIn(scan, f)}
          /\ paths' = Listed(f)
          /\ UNCHANGED skippedPaths
  /\ UNCHANGED <<fileVars, scan, plugins, pluginsLoaded, customOpcodeProc, foreign, exportsCache>>

ScanEnd ==
  /\ scan \in Place /\ Candidate(scan) = {}
  /\ scan' = scan + 1
  /\ UNCHANGED <<fileVars, paths, names, skippedPaths, plugins, pluginsLoaded,
                 customOpcodeProc, foreign, exportsCache>>

\* RegisterOpcode, as the plugin does it when it is loaded: the last one wins.
Registered(f) ==
  [op \in Opcode |-> IF op \in opcodesOf[f] THEN f ELSE customOpcodeProc[op]]

\* From the last one listed to the first
LoadPlugin(ok) ==
  /\ scan = 4 /\ paths # <<>>
  /\ LET f == Last(paths)
     IN  /\ IF ok
            THEN plugins' = Append(plugins, f) /\ customOpcodeProc' = Registered(f)
            ELSE UNCHANGED <<plugins, customOpcodeProc>>
         /\ paths' = Front(paths)
  /\ UNCHANGED <<fileVars, scan, names, skippedPaths, pluginsLoaded, foreign, exportsCache>>

LoadEnd ==
  /\ scan = 4 /\ paths = <<>>
  /\ pluginsLoaded' = TRUE /\ scan' = 0
  /\ UNCHANGED <<fileVars, paths, names, skippedPaths, plugins, customOpcodeProc, foreign, exportsCache>>

LoadForeign(ops) ==
  /\ pluginsLoaded /\ foreign = {} /\ ops # {}
  /\ foreign' = ops
  /\ UNCHANGED <<fileVars, listVars, plugins, pluginsLoaded, customOpcodeProc, exportsCache>>

\* Each opcode stands for an export of its name too. CLEO's own plugins are asked in the order
\* they were loaded, then all others; what is not found is remembered as such.
ExportOf(op) ==
  LET own == {i \in 1..Len(plugins) : op \in opcodesOf[plugins[i]]}
  IN  IF own # {} THEN plugins[Min(own)] ELSE IF op \in foreign THEN Other ELSE Null

FindPluginExport(op) ==
  /\ pluginsLoaded /\ exportsCache[op] = Core
  /\ exportsCache' = [exportsCache EXCEPT ![op] = ExportOf(op)]
  /\ UNCHANGED <<fileVars, listVars, plugins, pluginsLoaded, customOpcodeProc, foreign>>

\* When the process ends.
UnloadPlugins ==
  /\ pluginsLoaded
  /\ plugins' = <<>> /\ pluginsLoaded' = FALSE
  /\ exportsCache' = [op \in Opcode |-> Core] /\ scan' = 5
  /\ UNCHANGED <<fileVars, paths, names, skippedPaths, customOpcodeProc, foreign>>

----------------------------------------------------------------------------
\* The core has a handler for every opcode at this point, or none (Init of the opcode system).
PluginsInit ==
  /\ files = {} /\ blacklist = {} /\ opcodesOf = [f \in File |-> {}]
  /\ scan = 0 /\ paths = <<>> /\ names = {} /\ skippedPaths = {}
  /\ plugins = <<>> /\ pluginsLoaded = FALSE
  /\ customOpcodeProc = [op \in Opcode |-> Core]
  /\ foreign = {} /\ exportsCache = [op \in Opcode |-> Core]

\* The user installs plugins before the game is started.
InstallPlugin(f, ops, listed) ==
  /\ scan = 0 /\ ~pluginsLoaded /\ f \notin files /\ Cardinality(files) < MaxPlugins
  /\ files' = files \cup {f} /\ opcodesOf' = [opcodesOf EXCEPT ![f] = ops]
  /\ blacklist' = IF listed THEN blacklist \cup {f} ELSE blacklist
  /\ UNCHANGED <<listVars, plugins, pluginsLoaded, customOpcodeProc, foreign, exportsCache>>

InstallNext == \E f \in File, ops \in SUBSET Opcode, listed \in BOOLEAN : InstallPlugin(f, ops, listed)

LoadNext ==
  \/ ListStart \/ ScanEnd
  \/ \E f \in File : ListFile(f)
  \/ \E ok \in BOOLEAN : LoadPlugin(ok)

ExportsNext ==
  \/ \E ops \in SUBSET Opcode : LoadForeign(ops)
  \/ \E op \in Opcode : FindPluginExport(op)

----------------------------------------------------------------------------
\* Types of the plugin loader.
PluginsTypeOK ==
  /\ files \subseteq File /\ blacklist \subseteq files /\ opcodesOf \in [File -> SUBSET Opcode]
  /\ Cardinality(files) <= MaxPlugins /\ foreign \subseteq Opcode
  /\ scan \in 0..5 /\ ToSet(paths) \subseteq files /\ skippedPaths \subseteq files
  /\ pluginsLoaded \in BOOLEAN /\ ToSet(plugins) \subseteq files
  /\ customOpcodeProc \in [Opcode -> File \cup {Core}]
  /\ exportsCache \in [Opcode -> File \cup {Core, Null, Other}]

\* Two plugins with handlers of one opcode: that of CLEO 5 is in the table, not the legacy one,
\* also when another plugin failed to load; no plugin is loaded that is on the blacklist or has
\* the name of one loaded from a better place, although the scans see files more than once.
NewPluginsWin ==
  /\ \A op \in Opcode, f \in ToSet(plugins) :
       op \in opcodesOf[f] => customOpcodeProc[op] # Core /\ customOpcodeProc[op].place <= f.place
  /\ \A f \in ToSet(plugins) :
       f \notin blacklist /\ \A g \in ToSet(plugins) : f.name = g.name => f = g
=============================================================================
