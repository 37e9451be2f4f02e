---------------------------- MODULE ScriptEngine ----------------------------
(***************************************************************************)
(* The life of CLEO custom scripts: how CScriptEngine, CCustomScript and   *)
(* the opcodes that start and stop scripts keep the registry, the game's   *)
(* queue of active scripts, the parent/child tree, the mission flag, the   *)
(* stop-list and the save file consistent.                                 *)
(*                                                                         *)
(* Everything runs on the game's thread.  Between two scripts the game is  *)
(* idle (current = NoObj); inside HOOK_ProcessScript one script executes   *)
(* opcodes, each opcode handler being one action.                          *)
(*                                                                         *)
(* Abstractions.  A file is identified with its content, hence with its    *)
(* checksum and with the thread name taken from it: two files never        *)
(* collide.  Lists are sets.  Failing constructors that change nothing are *)
(* left out.  The number of script objects alive at once is bounded by     *)
(* Obj.  A freed object reads as its destructor left it, zeroed, and what  *)
(* is written to one through a dangling pointer is lost.                   *)
(***************************************************************************)
EXTENDS Naturals, FiniteSets

CONSTANTS
  Obj,       \* addresses the heap can give to a CCustomScript
  NoObj,     \* the null pointer
  Native,    \* stands for any script of the game itself
  File,      \* script files; a file stands for its checksum and name too
  AutoFile,  \* those found by LoadCustomScripts in the CLEO directory
  Faults     \* what scripts and the system may do wrong, a subset of:
             \*   "ancestor"  a script terminates its own parent or grandparent
             \*   "again"     a script that is not in the queue is terminated,
             \*               by a pointer kept after its end or by itself
             \*   "suspend"   an opcode error suspends a mission
             \*   "read"      reading a mission file fails half way
             \*   "saveMission" the game is saved with a mission in the queue

Fault == {"ancestor", "again", "suspend", "read", "saveMission"}

ASSUME ConstantsAssumption ==
  /\ NoObj \notin Obj
  /\ Native \notin Obj
  /\ Native # NoObj
  /\ AutoFile \subseteq File
  /\ Faults \subseteq Fault

VARIABLES
  \* --- CCustomScript objects
  allocated,        \* objects constructed and not yet deleted
  codeChecksum,     \* m_codeChecksum
  parentScript,     \* m_parentScript
  childScripts,     \* m_childScripts
  bufferOwner,      \* the object whose m_ownedBuffer BaseIP points into
  missions,         \* objects with bIsMission set
  saveEnabled,      \* objects with m_saveEnabled set
  suspended,        \* objects put to sleep forever by TrySuspendScript
  \* --- CScriptEngine
  CustomScripts, CustomMission, ScriptsWaitingForDelete, LastScriptCreated,
  InactiveScriptHashes, stopped_info, scriptsLoaded, saveSlot,
  \* --- the game
  pActiveScripts,   \* the custom scripts the game reaches through its queue
  listBroken,       \* the links of the queue no longer form one list
  bAlreadyRunningAMissionScript,
  nativeMission,    \* a mission of the game is running
  current,          \* the script being processed
  \* --- disk
  saveFile,         \* cleo_saves\cs<slot>.sav of the one modelled slot
  scmSaved          \* the custom scripts the last native save has written

objectVars == <<codeChecksum, parentScript, childScripts, bufferOwner,
                missions, saveEnabled, suspended>>
registryVars == <<CustomScripts, CustomMission, ScriptsWaitingForDelete,
                  pActiveScripts, listBroken>>
sessionVars == <<stopped_info, scriptsLoaded, saveSlot>>
diskVars == <<saveFile, scmSaved>>
vars == <<allocated, objectVars, registryVars, LastScriptCreated,
          InactiveScriptHashes, sessionVars, bAlreadyRunningAMissionScript,
          nativeMission, current, diskVars>>

----------------------------------------------------------------------------
(* Helpers *)

Slot == {"none", "new", "load"}   \* no session, saveSlot = -1, a saved game
NoSave  == [signed |-> FALSE, saved |-> {}, stopped |-> {}]

\* The custom scripts the engine keeps a reference to.
Registered == CustomScripts \cup ({CustomMission} \ {NoObj})

ClosedDown(S) == \A o \in S : childScripts[o] \subseteq S

\* Variants: only the script's own children are removed with it, or none are.
SubtreeNotRecursive(s) == {s} \cup childScripts[s]
SubtreeAlone(s) == {s}

\* RemoveCustomScript works through the children of the children: it reaches
\* the least set that holds s and is closed under m_childScripts.
Subtree(s) == {o \in Obj : \A S \in SUBSET Obj :
                             (s \in S /\ ClosedDown(S)) => o \in S}

\* What goes with the scripts of R when they are removed.
Forest(R) == UNION {Subtree(s) : s \in R}

\* Every member of D leaves its parent, on both sides of the link.
Detach(D) ==
  /\ parentScript' = [o \in Obj |-> IF o \in D THEN NoObj ELSE parentScript[o]]
  /\ childScripts' = [o \in Obj |->
       {c \in childScripts[o] : ~(c \in D /\ parentScript[c] = o)}]

\* The scripts the game may reach through the queue when it should be Q: the list
\* is linked through the scripts themselves, and once its links are broken there
\* is no saying where it leads.
Queue(Q) == IF listBroken' THEN Obj ELSE Q

\* RemoveScriptFromList for the scripts of D: the links of one that is not in the
\* list are those it had when it left, and joining its old neighbours breaks it.
Dequeue(D) == /\ listBroken' = (listBroken \/ ~(D \subseteq pActiveScripts))
              /\ pActiveScripts' = Queue(pActiveScripts \ D)

\* Variants: a removed script stays in the queue; it is not kept for deletion.
UnregisterNotDequeued(D) ==
  /\ Detach(D)
  /\ CustomMission' = IF CustomMission \in D THEN NoObj ELSE CustomMission
  /\ CustomScripts' = CustomScripts \ D
  /\ ScriptsWaitingForDelete' = ScriptsWaitingForDelete \cup D
  /\ UNCHANGED <<pActiveScripts, listBroken>>

UnregisterForgotten(D) ==
  /\ Detach(D)
  /\ CustomMission' = IF CustomMission \in D THEN NoObj ELSE CustomMission
  /\ Dequeue(D)
  /\ CustomScripts' = CustomScripts \ D
  /\ UNCHANGED ScriptsWaitingForDelete

\* RemoveCustomScript(cs), for the whole tree D below the removed scripts.
Unregister(D) ==
  /\ Detach(D)
  /\ CustomMission' = IF CustomMission \in D THEN NoObj ELSE CustomMission
  /\ Dequeue(D)
  /\ CustomScripts' = CustomScripts \ D
  /\ ScriptsWaitingForDelete' = ScriptsWaitingForDelete \cup D

\* The stop-list after the scripts of R are terminated: a script goes there if
\* it can be saved, and was terminated in its own right, not with its parent.
StopList(R) == InactiveScriptHashes \cup
                 {codeChecksum[s] : s \in (R \cap saveEnabled) \ missions}

\* Variants: ending any script, or no script, lowers the mission flag.
FlagAfterAlwaysLowered(R, D) == FALSE
FlagAfterNeverLowered(R, D) == bAlreadyRunningAMissionScript

\* The mission flag after the scripts of R, and with them D, were removed.
FlagAfter(R, D) == /\ bAlreadyRunningAMissionScript
                   /\ R \cap missions = {}
                   /\ CustomMission \notin D

\* RemoveScript(s) for every s of the set R.
RemoveScripts(R) ==
  LET D == Forest(R) IN
  /\ Unregister(D)
  /\ bAlreadyRunningAMissionScript' = FlagAfter(R, D)
  /\ InactiveScriptHashes' = StopList(R)

LastAfter(D) == IF LastScriptCreated \in D THEN NoObj ELSE LastScriptCreated

\* The destructor of every member of D.
Delete(D) ==
  /\ allocated' = allocated \ D
  /\ codeChecksum' = [o \in Obj |-> IF o \in D THEN NoObj ELSE codeChecksum[o]]
  /\ parentScript' = [o \in Obj |-> IF o \in D THEN NoObj ELSE parentScript[o]]
  /\ childScripts' = [o \in Obj |-> IF o \in D THEN {} ELSE childScripts[o]]
  /\ bufferOwner' = [o \in Obj |-> IF o \in D THEN NoObj ELSE bufferOwner[o]]
  /\ missions' = missions \ D
  /\ saveEnabled' = saveEnabled \ D
  /\ suspended' = suspended \ D
  /\ LastScriptCreated' = LastAfter(D)

----------------------------------------------------------------------------
(* Sessions *)

\* OnScmInit1/2/3 call CCleoInstance::GameBegin.  The game has just emptied
\* its queue and reset the mission flag (CTheScripts::Init).
SessionBegin(slot) ==
  /\ saveSlot = "none"
  /\ saveSlot' = slot
  /\ pActiveScripts' = {} /\ listBroken' = FALSE
  /\ bAlreadyRunningAMissionScript' = FALSE
  /\ nativeMission' = FALSE
  /\ UNCHANGED <<allocated, objectVars, CustomScripts, CustomMission,
       ScriptsWaitingForDelete, LastScriptCreated, InactiveScriptHashes,
       stopped_info, scriptsLoaded, current, diskVars>>

\* Variant: what the save file holds is not entered in the stop-list again.
StopListLoadedNot(save) == InactiveScriptHashes

\* LoadState: what it reads, nothing for a new game, or if the file is missing
\* or damaged; its stop-list is entered in that of the engine.
SaveLoaded == IF saveSlot = "load" /\ saveFile.signed THEN saveFile ELSE NoSave

StopListLoaded(save) == InactiveScriptHashes \cup save.stopped

\* LoadScript for every file found: those on the stop-list of the save are
\* constructed and deleted again, the others are added to the queue.
LoadCustomScripts(save) ==
  LET start == AutoFile \ save.stopped IN
  \E new \in [start -> Obj \ allocated] :
    LET made == {new[f] : f \in start} IN
    /\ \A f, g \in start : new[f] = new[g] => f = g
    /\ allocated' = allocated \cup made
    /\ codeChecksum' = [o \in Obj |->
         IF o \in made THEN CHOOSE f \in start : new[f] = o ELSE codeChecksum[o]]
    /\ bufferOwner' = [o \in Obj |-> IF o \in made THEN o ELSE bufferOwner[o]]
    /\ saveEnabled' = saveEnabled \cup {new[f] : f \in start \cap save.saved}
    /\ CustomScripts' = CustomScripts \cup made
    /\ pActiveScripts' = pActiveScripts \cup made
    /\ LastScriptCreated' \in
         IF AutoFile = {} THEN {LastScriptCreated}
         ELSE made \cup (IF start = AutoFile THEN {} ELSE {NoObj})

\* The first HOOK_ProcessScript of a session is always for a native script; it
\* runs GameBegin, then processes that script.  Nothing waits for deletion here.
GameBegin ==
  /\ current = NoObj
  /\ saveSlot # "none" /\ ~scriptsLoaded
  /\ scriptsLoaded' = TRUE
  /\ stopped_info' = SaveLoaded.stopped
  /\ InactiveScriptHashes' = StopListLoaded(SaveLoaded)
  /\ LoadCustomScripts(SaveLoaded)
  /\ current' \in {Native, NoObj}
  /\ UNCHANGED <<parentScript, childScripts, missions, suspended, CustomMission,
       ScriptsWaitingForDelete, listBroken, saveSlot, bAlreadyRunningAMissionScript,
       nativeMission, diskVars>>

\* RemoveAllCustomScripts: all that is registered is removed, and what waits
\* for deletion is deleted at once.  The stop-list becomes hashes.
RemoveAll(hashes) ==
  LET D == Forest(Registered)
      freed == D \cup ScriptsWaitingForDelete
  IN /\ InactiveScriptHashes' = hashes
     /\ CustomMission' = NoObj
     /\ bAlreadyRunningAMissionScript' =
          (bAlreadyRunningAMissionScript /\ CustomMission = NoObj)
     /\ CustomScripts' = CustomScripts \ D
     /\ Dequeue(D)
     /\ ScriptsWaitingForDelete' = {}
     /\ allocated' = allocated \ freed
     /\ codeChecksum' = [o \in Obj |-> IF o \in freed THEN NoObj ELSE codeChecksum[o]]
     /\ parentScript' = [o \in Obj |-> IF o \in freed THEN NoObj ELSE parentScript[o]]
     /\ childScripts' = [o \in Obj |->
          IF o \in freed THEN {}
          ELSE {c \in childScripts[o] : ~(c \in D /\ parentScript[c] = o)}]
     /\ bufferOwner' = [o \in Obj |-> IF o \in freed THEN NoObj ELSE bufferOwner[o]]
     /\ missions' = missions \ freed
     /\ saveEnabled' = saveEnabled \ freed
     /\ suspended' = suspended \ freed
     /\ LastScriptCreated' = LastAfter(freed)

\* Variant: the stop-list is carried over to the next game.
RemoveAllKeepsStopList == RemoveAll(InactiveScriptHashes)

RemoveAllCustomScripts == RemoveAll({})

\* CCleoInstance::GameEnd and CScriptEngine::GameEnd.
GameEnd ==
  /\ current = NoObj
  /\ saveSlot # "none"
  /\ saveSlot' = "none"
  /\ scriptsLoaded' = FALSE
  /\ IF scriptsLoaded
     THEN RemoveAllCustomScripts
     ELSE UNCHANGED <<allocated, objectVars, registryVars, LastScriptCreated,
            InactiveScriptHashes, bAlreadyRunningAMissionScript>>
  /\ UNCHANGED <<stopped_info, nativeMission, current, diskVars>>

----------------------------------------------------------------------------
(* Processing a script *)

\* Variants: the game reaches any script not yet deleted; the hook forgets to
\* delete.
ProcessableAllocated == allocated \cup {Native}
DeleteWaitingScriptsNot == /\ UNCHANGED <<allocated, objectVars, LastScriptCreated,
                                          ScriptsWaitingForDelete>>

\* The game only processes what is in its queue.  (A broken list may lead it into
\* the memory of a deleted script: what it executes there is left out.)
Processable == (pActiveScripts \cap (allocated \ ScriptsWaitingForDelete)) \cup {Native}

DeleteWaitingScripts == /\ Delete(ScriptsWaitingForDelete)
                        /\ ScriptsWaitingForDelete' = {}

\* HOOK_ProcessScript(p): DeleteWaitingScripts, the ScriptProcessBefore
\* callbacks, which may veto, then the game's own processing.
ProcessScript(p) ==
  /\ current = NoObj
  /\ scriptsLoaded
  /\ p \in Processable
  /\ DeleteWaitingScripts
  /\ current' \in IF p \in suspended THEN {NoObj} ELSE {p, NoObj}
  /\ UNCHANGED <<CustomScripts, CustomMission, pActiveScripts, listBroken,
       InactiveScriptHashes, sessionVars, bAlreadyRunningAMissionScript, nativeMission, diskVars>>

\* The script waits: ProcessScript_Orig returns, the ScriptProcessAfter
\* callbacks run.
EndProcess ==
  /\ current # NoObj
  /\ current' = NoObj
  /\ UNCHANGED <<allocated, objectVars, registryVars, LastScriptCreated,
       InactiveScriptHashes, sessionVars, bAlreadyRunningAMissionScript,
       nativeMission, diskVars>>

\* The constructor and AddCustomScript, for a new object o.
Construct(o, f, par, owner) ==
  /\ allocated' = allocated \cup {o}
  /\ codeChecksum' = [codeChecksum EXCEPT ![o] = f]
  /\ parentScript' = [parentScript EXCEPT ![o] = par]
  /\ bufferOwner' = [bufferOwner EXCEPT ![o] = owner]
  /\ LastScriptCreated' = o
  /\ UNCHANGED listBroken
  /\ pActiveScripts' = Queue(pActiveScripts \cup {o})
  /\ UNCHANGED <<saveEnabled, suspended, ScriptsWaitingForDelete,
       InactiveScriptHashes, sessionVars, nativeMission, current, diskVars>>

\* stream_custom_script: a new script from a file, with no parent.
opcode_0A92(o, f) ==
  /\ current # NoObj
  /\ o \notin allocated
  /\ Construct(o, f, NoObj, o)
  /\ CustomScripts' = CustomScripts \cup {o}
  /\ UNCHANGED <<childScripts, missions, CustomMission, bAlreadyRunningAMissionScript>>

\* CLEO_CreateCustomScript with a label: only a custom script can have
\* children; a child shares the parent's code, checksum and buffer.
CreateFromLabel(o) ==
  /\ current \in Obj
  /\ o \notin allocated
  /\ Construct(o, codeChecksum[current], current, bufferOwner[current])
  /\ childScripts' = [childScripts EXCEPT ![current] = @ \cup {o}]
  /\ CustomScripts' = CustomScripts \cup {o}
  /\ UNCHANGED <<missions, CustomMission, bAlreadyRunningAMissionScript>>

\* load_and_launch_custom_mission
opcode_0A94(o, f) ==
  /\ current # NoObj
  /\ o \notin allocated
  /\ ~bAlreadyRunningAMissionScript
  /\ bAlreadyRunningAMissionScript' = TRUE
  /\ Construct(o, f, NoObj, o)
  /\ missions' = missions \cup {o}
  /\ CustomMission' = o
  /\ UNCHANGED <<childScripts, CustomScripts>>

\* The same when the file cannot be read to the end: the object is deleted, but
\* the constructor has already raised the mission flag.
opcode_0A94_ReadError ==
  /\ "read" \in Faults
  /\ current # NoObj
  /\ ~bAlreadyRunningAMissionScript
  /\ bAlreadyRunningAMissionScript' = TRUE
  /\ UNCHANGED <<allocated, objectVars, registryVars, LastScriptCreated,
       InactiveScriptHashes, sessionVars, nativeMission, current, diskVars>>

\* Variant: the opcode does not check that the script is a custom one.
CanEnableSavingAny == current # NoObj

CanEnableSaving == current \in Obj

\* save_this_custom_script
opcode_0A95 ==
  /\ CanEnableSaving
  /\ saveEnabled' = saveEnabled \cup {current}
  /\ UNCHANGED <<allocated, codeChecksum, parentScript, childScripts, bufferOwner,
       missions, suspended, registryVars, LastScriptCreated, InactiveScriptHashes,
       sessionVars, bAlreadyRunningAMissionScript, nativeMission, current, diskVars>>

TerminateUnchanged ==
  UNCHANGED <<allocated, codeChecksum, bufferOwner, missions, saveEnabled, suspended,
    LastScriptCreated, sessionVars, nativeMission, diskVars>>

\* No opcode looks whether the script it is given is still in the queue.
Terminable(t) == t \in pActiveScripts \/ "again" \in Faults

\* Variant: the opcode does not interrupt the script.
opcode_004E_Continues ==
  /\ current \in Obj
  /\ Terminable(current)
  /\ RemoveScripts({current})
  /\ UNCHANGED current
  /\ TerminateUnchanged

\* terminate_this_script, and terminate_this_custom_script, which does nothing
\* for a mission: the script never executes another opcode.
opcode_004E ==
  /\ current \in Obj
  /\ Terminable(current)
  /\ RemoveScripts({current})
  /\ current' = NoObj
  /\ TerminateUnchanged

\* terminate_script, for any pointer: the script itself, which is interrupted, or
\* another, found by name or file or kept since it was created.
opcode_2408(t) ==
  /\ current # NoObj
  /\ t \in allocated
  /\ Terminable(t)
  /\ t # current /\ current \in Subtree(t) => "ancestor" \in Faults
  /\ RemoveScripts({t})
  /\ current' = IF t = current THEN NoObj ELSE current
  /\ TerminateUnchanged

\* The same for one that was deleted: zeroed memory is a script of the game that
\* is no mission, and it is moved from the queue to the idle scripts.
opcode_2408_Deleted(t) ==
  /\ current # NoObj
  /\ t \notin allocated
  /\ Terminable(t)
  /\ Dequeue({t})
  /\ UNCHANGED <<parentScript, childScripts, CustomScripts, CustomMission,
       ScriptsWaitingForDelete, InactiveScriptHashes, bAlreadyRunningAMissionScript, current>>
  /\ TerminateUnchanged

\* terminate_all_custom_scripts_with_this_name: each round finds the first
\* registered script of that name, and removes it with its children, so the
\* scripts found are those with no parent of that name.  Only if the running
\* script is itself found does the opcode interrupt it.
opcode_0ABA(name) ==
  LET named == {s \in Registered : codeChecksum[s] = name}
      found == {s \in named : \A t \in named \ {s} : s \notin Subtree(t)}
      gone  == Forest(found)
  IN
  /\ current # NoObj
  /\ found # {}
  /\ current \in gone \ found => "ancestor" \in Faults
  /\ RemoveScripts(found)
  /\ current' = IF current \in found THEN NoObj ELSE current
  /\ TerminateUnchanged

\* An opcode handler gives up: TrySuspendScript puts the script to sleep for
\* good and, for a mission, lowers the flag so another one can be started.
TrySuspendScript ==
  /\ current \in Obj
  /\ current \in missions => "suspend" \in Faults
  /\ suspended' = suspended \cup {current}
  /\ bAlreadyRunningAMissionScript' =
       (bAlreadyRunningAMissionScript /\ current \notin missions)
  /\ current' = NoObj
  /\ UNCHANGED <<allocated, codeChecksum, parentScript, childScripts, bufferOwner,
       missions, saveEnabled, registryVars, LastScriptCreated, InactiveScriptHashes,
       sessionVars, nativeMission, diskVars>>

\* A mission of the game starts (opcode 0417), or ends (RemoveScript of a
\* native script), by itself or terminated by another script.
NativeMissionStart ==
  /\ current # NoObj
  /\ ~bAlreadyRunningAMissionScript
  /\ bAlreadyRunningAMissionScript' = TRUE
  /\ nativeMission' = TRUE
  /\ UNCHANGED <<allocated, objectVars, registryVars, LastScriptCreated,
       InactiveScriptHashes, sessionVars, current, diskVars>>

NativeMissionEnd ==
  /\ current # NoObj
  /\ nativeMission
  /\ bAlreadyRunningAMissionScript' = FALSE
  /\ nativeMission' = FALSE
  /\ current' \in IF current = Native THEN {Native, NoObj} ELSE {current}
  /\ UNCHANGED <<allocated, objectVars, registryVars, LastScriptCreated,
       InactiveScriptHashes, sessionVars, diskVars>>

----------------------------------------------------------------------------
(* Saving *)

\* Variant: the custom scripts stay in the queue while the game is saved.
QueueWhileSavingFull == pActiveScripts

\* UnregisterAllCustomScripts takes all but a mission out of the queue.
QueueWhileSaving == pActiveScripts \ CustomScripts

\* HOOK_SaveScmData: SaveState writes the file (or cannot open it, or fails
\* half way), then the scripts leave the queue while the game saves it.
SaveScmData ==
  /\ current = NoObj
  /\ scriptsLoaded
  /\ pActiveScripts \cap missions # {} => "saveMission" \in Faults
  /\ saveFile' \in {saveFile, NoSave,
       [signed |-> TRUE,
        saved |-> {codeChecksum[s] : s \in CustomScripts \cap saveEnabled},
        stopped |-> InactiveScriptHashes]}
  /\ UNCHANGED listBroken
  /\ scmSaved' = Queue(QueueWhileSaving)
  /\ pActiveScripts' = Queue(QueueWhileSaving \cup CustomScripts)
  /\ UNCHANGED <<allocated, objectVars, CustomScripts, CustomMission,
       ScriptsWaitingForDelete, LastScriptCreated, InactiveScriptHashes, sessionVars,
       bAlreadyRunningAMissionScript, nativeMission, current>>

----------------------------------------------------------------------------
Init ==
  /\ allocated = {}
  /\ codeChecksum = [o \in Obj |-> NoObj]
  /\ parentScript = [o \in Obj |-> NoObj]
  /\ childScripts = [o \in Obj |-> {}]
  /\ bufferOwner = [o \in Obj |-> NoObj]
  /\ missions = {} /\ saveEnabled = {} /\ suspended = {}
  /\ CustomScripts = {} /\ CustomMission = NoObj
  /\ ScriptsWaitingForDelete = {} /\ LastScriptCreated = NoObj
  /\ InactiveScriptHashes = {} /\ stopped_info = {}
  /\ scriptsLoaded = FALSE /\ saveSlot = "none"
  /\ pActiveScripts = {} /\ listBroken = FALSE
  /\ bAlreadyRunningAMissionScript = FALSE
  /\ nativeMission = FALSE /\ current = NoObj
  /\ saveFile = NoSave /\ scmSaved = {}

Next ==
  \/ \E slot \in Slot \ {"none"} : SessionBegin(slot)
  \/ GameBegin
  \/ GameEnd
  \/ \E p \in Obj \cup {Native} : ProcessScript(p)
  \/ EndProcess
  \/ \E o \in Obj, f \in File : opcode_0A92(o, f)
  \/ \E o \in Obj : CreateFromLabel(o)
  \/ \E o \in Obj, f \in File : opcode_0A94(o, f)
  \/ opcode_0A94_ReadError
  \/ opcode_0A95
  \/ opcode_004E
  \/ \E t \in Obj : opcode_2408(t)
  \/ \E t \in Obj : opcode_2408_Deleted(t)
  \/ \E name \in File : opcode_0ABA(name)
  \/ TrySuspendScript
  \/ NativeMissionStart
  \/ NativeMissionEnd
  \/ SaveScmData

\* The game keeps processing its queue, frame after frame, and every script
\* it processes waits after finitely many opcodes.
Fairness == /\ WF_vars(\E p \in Obj \cup {Native} : ProcessScript(p))
            /\ WF_vars(EndProcess)

Spec == Init /\ [][Next]_vars
FairSpec == Spec /\ Fairness

----------------------------------------------------------------------------
(* Properties *)

TypeOK ==
  /\ allocated \subseteq Obj
  /\ codeChecksum \in [Obj -> File \cup {NoObj}]
  /\ parentScript \in [Obj -> Obj \cup {NoObj}]
  /\ childScripts \in [Obj -> SUBSET Obj]
  /\ bufferOwner \in [Obj -> Obj \cup {NoObj}]
  /\ missions \subseteq Obj /\ saveEnabled \subseteq Obj /\ suspended \subseteq Obj
  /\ CustomScripts \subseteq Obj /\ CustomMission \in Obj \cup {NoObj}
  /\ ScriptsWaitingForDelete \subseteq Obj
  /\ LastScriptCreated \in Obj \cup {NoObj}
  /\ InactiveScriptHashes \subseteq File /\ stopped_info \subseteq File
  /\ scriptsLoaded \in BOOLEAN /\ saveSlot \in Slot
  /\ pActiveScripts \subseteq Obj /\ listBroken \in BOOLEAN
  /\ bAlreadyRunningAMissionScript \in BOOLEAN /\ nativeMission \in BOOLEAN
  /\ current \in Obj \cup {NoObj, Native}
  /\ saveFile \in [signed : BOOLEAN, saved : SUBSET File, stopped : SUBSET File]
  /\ scmSaved \subseteq Obj

\* The registry, the queue, GetLastCreatedCustomScript, the script being
\* processed and the lists of children only name scripts that exist.
ListsAreValid ==
  /\ Registered \cup ScriptsWaitingForDelete \cup pActiveScripts \subseteq allocated
  /\ {LastScriptCreated, current} \ {NoObj, Native} \subseteq allocated
  /\ \A o \in Obj : childScripts[o] \subseteq CustomScripts

\* The parent a script knows, and the owner of the code it executes, exist.
FamilyPointersAreValid ==
  \A o \in allocated : /\ parentScript[o] \in allocated \cup {NoObj}
                       /\ bufferOwner[o] \in allocated

\* No pointer the engine, the game or a script object holds leads to a deleted
\* script, though a script may terminate itself, its children and others in the
\* middle of an opcode (the reason for ScriptsWaitingForDelete): not the lists,
\* not m_parentScript, through which RemoveCustomScript writes, and not BaseIP.
NoPointerToDeleted == ListsAreValid /\ FamilyPointersAreValid

\* A terminated script is in no list from which the game or an opcode could
\* run it or find it again; a registered one is always in the queue.
TerminatedIsUnreachable ==
  /\ ScriptsWaitingForDelete \cap pActiveScripts = {}
  /\ Registered \subseteq pActiveScripts

\* The tree of label scripts: both sides of a link agree, a running child has a
\* running parent, and the code it executes is owned by a running script.
FamilySafe ==
  \A o \in pActiveScripts :
    /\ bufferOwner[o] \in pActiveScripts
    /\ parentScript[o] # NoObj => /\ parentScript[o] \in pActiveScripts
                                  /\ o \in childScripts[parentScript[o]]
    /\ \A c \in childScripts[o] : parentScript[c] = o

\* Nothing executes after it has been terminated.
TerminatedDoesNotRun == current \notin ScriptsWaitingForDelete

\* Only one way leads past the end of a script: it was executing when an ancestor
\* of it, not itself, was terminated.  Whoever is terminated in its own right,
\* by whichever opcode, executes nothing more, and no terminated script is
\* entered again, not even one that went on before.
RunsOnOnlyThroughAncestor ==
  [][current' \in ScriptsWaitingForDelete' =>
       /\ current' = current
       /\ \/ current \in ScriptsWaitingForDelete
          \/ \E t \in ScriptsWaitingForDelete' \ {current} : current \in Subtree(t)]_vars

\* RemoveAllCustomScripts can find every script: what is allocated is either
\* registered or waiting, so a session leaves nothing behind.
NothingLeaks ==
  /\ allocated = Registered \cup ScriptsWaitingForDelete
  /\ pActiveScripts = Registered

\* Between two sessions no registration, no pending deletion and no stop-list
\* is carried over.
SessionsAreIsolated ==
  ~scriptsLoaded => /\ Registered = {} /\ ScriptsWaitingForDelete = {}
                    /\ InactiveScriptHashes = {}

\* Missions share one block of local variables: at most one that is not
\* suspended, the game's own included, and while one runs the flag is up.
OneMissionAtATime ==
  LET running == (missions \cap pActiveScripts) \ suspended IN
  /\ Cardinality(running) + (IF nativeMission THEN 1 ELSE 0) <= 1
  /\ running # {} \/ nativeMission => bAlreadyRunningAMissionScript

\* load_and_launch_custom_mission is refused only while a mission is loaded.
MissionFlagJustified ==
  bAlreadyRunningAMissionScript => nativeMission \/ CustomMission # NoObj

\* The game's own save holds no custom script: their structures are only valid
\* in this session.
NativeSaveHasNoCustomScript == scmSaved = {}

\* A file put on the stop-list stays there through any number of saves and
\* loads of the same game.
StopListIsKept ==
  [][saveFile' # saveFile /\ saveFile'.signed => stopped_info \subseteq saveFile'.stopped]_vars

\* Every terminated script is deleted after all.
TerminatedIsDeleted ==
  \A o \in Obj : o \in ScriptsWaitingForDelete ~> o \notin ScriptsWaitingForDelete

\* The engine implements the life cycle promised by ScriptLifecycle.
Life == [o \in Obj |-> IF o \notin allocated THEN "free"
                       ELSE IF o \in ScriptsWaitingForDelete THEN "doomed" ELSE "live"]
Lifecycle == INSTANCE ScriptLifecycle WITH life <- Life, busy <- current
ImplementsLifecycle == Lifecycle!LifeSpec
=============================================================================
