------------------------ MODULE ScriptMissionProofs ------------------------
(***************************************************************************)
(* Proofs about missions, about the completeness of the registry, and      *)
(* about the native save.  Each theorem names what must not go wrong for   *)
(* it: the registry and the exclusion of missions need that no opcode      *)
(* error suspends a mission, the mission flag that no file fails to be     *)
(* read, the native save that none is made with a mission in the queue;    *)
(* all but the flag need that no script is terminated when it is not in    *)
(* the queue.  Whatever else may go wrong is allowed to: scripts may       *)
(* terminate their own ancestors everywhere here.                          *)
(***************************************************************************)
EXTENDS ScriptEngineProofs, FiniteSetTheorems

\* Every script is registered or waits for its deletion, the queue holds the
\* registered ones, and the mission is the one CustomMission points to.
RegistryInv ==
  /\ NothingLeaks
  /\ missions \subseteq allocated
  /\ missions \cap CustomScripts = {}
  /\ CustomMission # NoObj => CustomMission \in missions

\* A script that was terminated with an ancestor and still executes opcodes is not
\* a mission: missions are nobody's children.
RunnerInv == current \in missions => current \in pActiveScripts

\* A running mission, of either kind, has raised the flag, and excludes the
\* other kind.
FlagInv ==
  /\ CustomMission # NoObj => bAlreadyRunningAMissionScript /\ ~nativeMission
  /\ nativeMission => bAlreadyRunningAMissionScript

MissionInv == MemoryInv /\ RegistryInv /\ RunnerInv /\ FlagInv

----------------------------------------------------------------------------
LEMMA MissionInit == Init => RegistryInv /\ RunnerInv /\ FlagInv
BY DEF Init, RegistryInv, RunnerInv, FlagInv, NothingLeaks, Registered

LEMMA NotRunning ==
  ASSUME MissionInv, current' \in {NoObj, Native}, missions' \subseteq missions
  PROVE  RunnerInv'
BY ConstantsAssumption DEF RunnerInv, MissionInv, MemoryInv, TypeOK

LEMMA MissionRemoveScripts ==
  ASSUME MissionInv, NEW R \in SUBSET pActiveScripts, RemoveScripts(R), TerminateUnchanged,
         current' \in {current, NoObj}, current \in R => current' = NoObj
  PROVE  RegistryInv' /\ RunnerInv' /\ FlagInv'
<1> DEFINE D == Forest(R)
<1>2. D \subseteq allocated /\ R \subseteq D /\ D \subseteq R \cup CustomScripts
  BY RemovedForest DEF MissionInv, MemoryInv, ListsAreValid
<1>3. /\ CustomMission' = IF CustomMission \in D THEN NoObj ELSE CustomMission
      /\ pActiveScripts' = pActiveScripts \ D
      /\ CustomScripts' = CustomScripts \ D
      /\ ScriptsWaitingForDelete' = ScriptsWaitingForDelete \cup D
      /\ UNCHANGED <<allocated, missions, nativeMission>>
      /\ bAlreadyRunningAMissionScript' = (/\ bAlreadyRunningAMissionScript
                                           /\ R \cap missions = {}
                                           /\ CustomMission \notin D)
  BY RemovedDequeue DEF RemoveScripts, Unregister, TerminateUnchanged, FlagAfter, MissionInv
<1> HIDE DEF D
<1>4. NoObj \notin D
  BY <1>2, ConstantsAssumption DEF MissionInv, MemoryInv, TypeOK
<1>5. RegistryInv'
  BY <1>2, <1>3, <1>4 DEF MissionInv, RegistryInv, NothingLeaks, Registered
<1>6. R \cap missions # {} => CustomMission \in D
  BY <1>2 DEF MissionInv, RegistryInv, NothingLeaks, Registered
<1>7. CustomMission \in D => ~nativeMission
  BY <1>4 DEF MissionInv, FlagInv
<1>8. FlagInv'
  BY <1>3, <1>6, <1>7 DEF MissionInv, FlagInv
<1>9. RunnerInv'
  <2>1. D \cap missions \subseteq R
    BY <1>2 DEF MissionInv, RegistryInv
  <2>2. QED BY <1>3, <2>1, ConstantsAssumption DEF MissionInv, RunnerInv, MemoryInv, TypeOK
<1>10. QED BY <1>5, <1>8, <1>9

LEMMA MissionTerminate ==
  ASSUME MissionInv,
         \/ opcode_004E
         \/ \E t \in Obj : opcode_2408(t)
         \/ \E name \in File : opcode_0ABA(name)
  PROVE  RegistryInv' /\ RunnerInv' /\ FlagInv'
<1>1. ASSUME opcode_004E PROVE RegistryInv' /\ RunnerInv' /\ FlagInv'
  <2>1. {current} \subseteq pActiveScripts
    BY <1>1, TerminableIsQueued DEF opcode_004E, MissionInv
  <2>2. QED BY <1>1, <2>1, MissionRemoveScripts DEF opcode_004E
<1>2. ASSUME NEW t \in Obj, opcode_2408(t) PROVE RegistryInv' /\ RunnerInv' /\ FlagInv'
  <2>1. {t} \subseteq pActiveScripts
    BY <1>2, TerminableIsQueued DEF opcode_2408, MissionInv
  <2>2. QED BY <1>2, <2>1, MissionRemoveScripts DEF opcode_2408
<1>3. ASSUME NEW name \in File, opcode_0ABA(name) PROVE RegistryInv' /\ RunnerInv' /\ FlagInv'
  <2> DEFINE named == {s \in Registered : codeChecksum[s] = name}
             found == {s \in named : \A t \in named \ {s} : s \notin Subtree(t)}
  <2>1. found \subseteq pActiveScripts
    BY DEF MissionInv, MemoryInv, TerminatedIsUnreachable
  <2>2. /\ RemoveScripts(found) /\ TerminateUnchanged
        /\ current' = IF current \in found THEN NoObj ELSE current
    BY <1>3 DEF opcode_0ABA
  <2> HIDE DEF found
  <2>3. QED BY <2>1, <2>2, MissionRemoveScripts
<1>4. QED BY <1>1, <1>2, <1>3

LEMMA MissionCreate ==
  ASSUME MissionInv, NEW o \in Obj,
         \/ \E f \in File : opcode_0A92(o, f) \/ opcode_0A94(o, f)
         \/ CreateFromLabel(o)
  PROVE  RegistryInv' /\ RunnerInv' /\ FlagInv'
<1>1. o \notin allocated
  BY DEF opcode_0A92, opcode_0A94, CreateFromLabel
<1>2. ASSUME NEW f \in File, opcode_0A94(o, f) PROVE RegistryInv' /\ RunnerInv' /\ FlagInv'
  <2>1. CustomMission = NoObj /\ ~nativeMission
    BY <1>2 DEF opcode_0A94, MissionInv, FlagInv
  <2>2. CustomScripts \subseteq allocated
    BY DEF MissionInv, MemoryInv, ListsAreValid, Registered
  <2>3. QED
    BY <1>1, <1>2, <2>1, <2>2, ConstantsAssumption
       DEF opcode_0A94, Construct, Queue, MissionInv, MemoryInv, RegistryInv, RunnerInv, FlagInv, NothingLeaks,
           Registered
<1>3. ASSUME (\E f \in File : opcode_0A92(o, f)) \/ CreateFromLabel(o)
      PROVE  RegistryInv' /\ RunnerInv' /\ FlagInv'
  BY <1>1, <1>3 DEF opcode_0A92, CreateFromLabel, Construct, Queue, MissionInv, MemoryInv, RegistryInv,
     RunnerInv, FlagInv, NothingLeaks, Registered
<1>4. QED BY <1>2, <1>3

LEMMA MissionGameBegin == MissionInv /\ GameBegin => RegistryInv' /\ RunnerInv' /\ FlagInv'
<1> SUFFICES ASSUME MissionInv, GameBegin PROVE RegistryInv' /\ RunnerInv' /\ FlagInv'
  OBVIOUS
<1>1. PICK new \in SUBSET (Obj \ allocated) :
        /\ allocated' = allocated \cup new
        /\ CustomScripts' = CustomScripts \cup new
        /\ pActiveScripts' = pActiveScripts \cup new
  <2> DEFINE start == AutoFile \ SaveLoaded.stopped
  <2>1. PICK n \in [start -> Obj \ allocated] :
          LET made == {n[f] : f \in start} IN
          /\ allocated' = allocated \cup made
          /\ CustomScripts' = CustomScripts \cup made
          /\ pActiveScripts' = pActiveScripts \cup made
    BY Zenon DEF GameBegin, LoadCustomScripts
  <2>2. {n[f] : f \in start} \in SUBSET (Obj \ allocated)
    BY <2>1
  <2>3. QED BY <2>1, <2>2
<1>2. UNCHANGED <<missions, CustomMission, ScriptsWaitingForDelete,
                  bAlreadyRunningAMissionScript, nativeMission>>
  BY DEF GameBegin
<1>3. RegistryInv' /\ FlagInv'
  BY <1>1, <1>2 DEF MissionInv, RegistryInv, FlagInv, NothingLeaks, Registered
<1>4. QED BY <1>3, NotRunning DEF GameBegin

LEMMA MissionGameEnd == MissionInv /\ GameEnd => RegistryInv' /\ RunnerInv' /\ FlagInv'
<1> SUFFICES ASSUME MissionInv, GameEnd PROVE RegistryInv' /\ RunnerInv' /\ FlagInv'
  OBVIOUS
<1>0. RunnerInv'
  BY NotRunning DEF GameEnd, RemoveAllCustomScripts, RemoveAll, objectVars
<1>1. CASE ~scriptsLoaded
  BY <1>0, <1>1 DEF GameEnd, objectVars, registryVars, MissionInv, RegistryInv, FlagInv,
     NothingLeaks, Registered
<1>2. CASE scriptsLoaded
  <2> DEFINE D == Forest(Registered)
  <2>1. Registered \subseteq allocated
    BY DEF MissionInv, MemoryInv, ListsAreValid
  <2>2. Registered \subseteq D
    BY <2>1, RemovedForest DEF MissionInv
  <2>3. /\ CustomMission' = NoObj /\ CustomScripts' = CustomScripts \ D
        /\ pActiveScripts' = pActiveScripts \ D /\ ScriptsWaitingForDelete' = {}
        /\ allocated' = allocated \ (D \cup ScriptsWaitingForDelete)
        /\ missions' = missions \ (D \cup ScriptsWaitingForDelete)
        /\ bAlreadyRunningAMissionScript' =
             (bAlreadyRunningAMissionScript /\ CustomMission = NoObj)
        /\ UNCHANGED nativeMission
    BY <1>2, RegisteredDequeue DEF GameEnd, RemoveAllCustomScripts, RemoveAll, MissionInv
  <2> HIDE DEF D
  <2>4. QED BY <1>0, <2>2, <2>3 DEF MissionInv, RegistryInv, FlagInv, NothingLeaks, Registered
<1>3. QED BY <1>1, <1>2

LEMMA MissionSessionBegin ==
  ASSUME MissionInv, NEW slot \in Slot \ {"none"}, SessionBegin(slot)
  PROVE  RegistryInv' /\ RunnerInv' /\ FlagInv'
<1>1. Registered = {}
  BY DEF SessionBegin, MissionInv, MemoryInv, SessionInv, SessionsAreIsolated
<1>2. CustomMission = NoObj
  BY <1>1 DEF Registered
<1>3. RegistryInv' /\ FlagInv'
  BY <1>1, <1>2 DEF SessionBegin, objectVars, MissionInv, RegistryInv, FlagInv,
     NothingLeaks, Registered
<1>4. current' = NoObj
  BY DEF SessionBegin, MissionInv, MemoryInv, SessionInv
<1>5. QED BY <1>3, <1>4, NotRunning DEF SessionBegin, objectVars

LEMMA MissionProcessScript ==
  ASSUME MissionInv, NEW p \in Obj \cup {Native}, ProcessScript(p)
  PROVE  RegistryInv' /\ RunnerInv' /\ FlagInv'
<1>1. ScriptsWaitingForDelete \cap Registered = {}
  BY DEF MissionInv, MemoryInv, TerminatedIsUnreachable
<1>2. CustomMission # NoObj => CustomMission \in Registered
  BY DEF Registered
<1>3. RegistryInv' /\ FlagInv'
  BY <1>1, <1>2 DEF ProcessScript, DeleteWaitingScripts, Delete,
     MissionInv, RegistryInv, FlagInv, NothingLeaks, Registered
<1>4. RunnerInv'
  BY ConstantsAssumption DEF ProcessScript, Processable, DeleteWaitingScripts, Delete, RunnerInv,
     MissionInv, MemoryInv, TypeOK
<1>5. QED BY <1>3, <1>4

LEMMA MissionOthers ==
  ASSUME MissionInv, "suspend" \notin Faults,
         EndProcess \/ opcode_0A94_ReadError \/ opcode_0A95 \/ TrySuspendScript
           \/ NativeMissionStart \/ NativeMissionEnd \/ SaveScmData \/ UNCHANGED vars
  PROVE  RegistryInv' /\ RunnerInv' /\ FlagInv'
<1>1. SaveScmData => pActiveScripts' = pActiveScripts
  BY DEF SaveScmData, QueueWhileSaving, Queue, MissionInv, MemoryInv,
     TerminatedIsUnreachable, Registered
<1>2. /\ UNCHANGED <<allocated, missions, CustomScripts, CustomMission,
                    ScriptsWaitingForDelete, pActiveScripts>>
      /\ bAlreadyRunningAMissionScript' # bAlreadyRunningAMissionScript
            \/ nativeMission' # nativeMission
           => opcode_0A94_ReadError \/ NativeMissionStart \/ NativeMissionEnd
  BY <1>1 DEF EndProcess, opcode_0A94_ReadError, opcode_0A95, TrySuspendScript,
     NativeMissionStart, NativeMissionEnd, SaveScmData, vars, objectVars, registryVars,
     MissionInv, MemoryInv, TypeOK
<1>3. RegistryInv'
  BY <1>2 DEF MissionInv, RegistryInv, NothingLeaks, Registered
<1>4. FlagInv'
  <2>1. CASE opcode_0A94_ReadError \/ NativeMissionStart \/ NativeMissionEnd
    BY <1>2, <2>1 DEF opcode_0A94_ReadError, NativeMissionStart, NativeMissionEnd,
       MissionInv, FlagInv
  <2>2. CASE ~(opcode_0A94_ReadError \/ NativeMissionStart \/ NativeMissionEnd)
    BY <1>2, <2>2 DEF MissionInv, FlagInv
  <2>3. QED BY <2>1, <2>2
<1>5. current' \in {current, NoObj}
  BY DEF EndProcess, opcode_0A94_ReadError, opcode_0A95, TrySuspendScript, NativeMissionStart,
     NativeMissionEnd, SaveScmData, vars
<1>6. RunnerInv'
  BY <1>2, <1>5, ConstantsAssumption DEF RunnerInv, MissionInv, MemoryInv, TypeOK
<1>7. QED BY <1>3, <1>4, <1>6

LEMMA MissionStep ==
  ASSUME "suspend" \notin Faults
  PROVE  MissionInv /\ [Next]_vars => MissionInv'
<1>1. MissionInv /\ [Next]_vars => MemoryInv'
  BY MemoryStep DEF MissionInv
<1>2. MissionInv /\ [Next]_vars => RegistryInv' /\ RunnerInv' /\ FlagInv'
  BY NothingDeletedIsTerminated, MissionSessionBegin, MissionGameBegin, MissionGameEnd,
     MissionProcessScript, MissionCreate, MissionTerminate, MissionOthers DEF Next, MissionInv
<1>3. QED BY <1>1, <1>2 DEF MissionInv

LEMMA MissionAlways ==
  ASSUME "suspend" \notin Faults, "again" \notin Faults
  PROVE  Spec => []MissionInv
<1>1. Init => MissionInv
  BY MemoryInit, MissionInit DEF MissionInv
<1>2. QED BY <1>1, MissionStep, PTL DEF Spec

----------------------------------------------------------------------------
\* The registry is complete, as long as no mission is suspended and no script terminated
\* when it is not in the queue: every script that is allocated can be found by RemoveAllCustomScripts, and exactly the registered ones are in
\* the queue.  (A suspended mission that another one replaces as CustomMission is lost.)
THEOREM RegistryIsComplete ==
  ASSUME "suspend" \notin Faults, "again" \notin Faults
  PROVE  Spec => []NothingLeaks
<1>1. MissionInv => NothingLeaks
  BY DEF MissionInv, RegistryInv
<1>2. QED BY <1>1, MissionAlways, PTL

\* At most one mission runs, the game's included, and it has raised the flag: the guard of
\* load_and_launch_custom_mission is enough, as long as TrySuspendScript lowers the flag
\* for no mission and no script is terminated when it is not in the queue.  One that goes on after it was terminated with its ancestor
\* changes nothing.
THEOREM MissionsExclude ==
  ASSUME "suspend" \notin Faults, "again" \notin Faults
  PROVE  Spec => []OneMissionAtATime
<1>1. MissionInv => OneMissionAtATime
  <2> SUFFICES ASSUME MissionInv PROVE OneMissionAtATime
    OBVIOUS
  <2> DEFINE running == (missions \cap pActiveScripts) \ suspended
  <2>1. running \subseteq {CustomMission} \ {NoObj}
    BY DEF MissionInv, RegistryInv, NothingLeaks, Registered
  <2>2. running = {} \/ (running = {CustomMission} /\ CustomMission # NoObj)
    BY <2>1
  <2>3. Cardinality({}) = 0 /\ Cardinality({CustomMission}) = 1
    BY FS_EmptySet, FS_Singleton
  <2> HIDE DEF running
  <2>4. /\ Cardinality(running) + (IF nativeMission THEN 1 ELSE 0) <= 1
        /\ running # {} \/ nativeMission => bAlreadyRunningAMissionScript
    BY <2>2, <2>3 DEF MissionInv, FlagInv
  <2>5. QED BY <2>4 DEF OneMissionAtATime, running
<1>2. QED BY <1>1, MissionAlways, PTL

----------------------------------------------------------------------------
(* The mission flag, whatever scripts do: no assumption but the one named. *)

\* Only the end of CustomMission clears it, and that lowers the flag in the same step.
LEMMA JustifiedStep ==
  ASSUME "read" \notin Faults, MissionFlagJustified, [Next]_vars
  PROVE  MissionFlagJustified'
<1> DEFINE Removal == opcode_004E \/ (\E t \in Obj : opcode_2408(t))
                        \/ (\E name \in File : opcode_0ABA(name))
           Launch == \E o \in Obj, f \in File : opcode_0A94(o, f)
           Game == (\E slot \in Slot \ {"none"} : SessionBegin(slot))
                     \/ NativeMissionStart \/ NativeMissionEnd
<1>1. CASE Removal
  <2>1. PICK R : RemoveScripts(R) /\ TerminateUnchanged
    BY <1>1 DEF opcode_004E, opcode_2408, opcode_0ABA
  <2>2. /\ bAlreadyRunningAMissionScript' =>
             bAlreadyRunningAMissionScript /\ CustomMission' = CustomMission
        /\ UNCHANGED nativeMission
    BY <2>1 DEF RemoveScripts, Unregister, FlagAfter, TerminateUnchanged
  <2>3. QED BY <2>2 DEF MissionFlagJustified
<1>2. CASE Launch
  BY <1>2, ConstantsAssumption DEF opcode_0A94, MissionFlagJustified
<1>3. CASE Game
  BY <1>3 DEF SessionBegin, NativeMissionStart, NativeMissionEnd, MissionFlagJustified
<1>4. CASE GameEnd
  BY <1>4 DEF GameEnd, RemoveAllCustomScripts, RemoveAll, registryVars, MissionFlagJustified
<1>5. CASE ~(Removal \/ Launch \/ Game \/ GameEnd)
  <2>1. /\ bAlreadyRunningAMissionScript' => bAlreadyRunningAMissionScript
        /\ UNCHANGED <<CustomMission, nativeMission>>
    <3>1. CASE TrySuspendScript
      BY <3>1 DEF TrySuspendScript, registryVars
    <3>2. CASE GameBegin \/ \E p \in Obj \cup {Native} : ProcessScript(p)
      BY <3>2 DEF GameBegin, ProcessScript
    <3>3. CASE \E o \in Obj : CreateFromLabel(o) \/ \E f \in File : opcode_0A92(o, f)
      BY <3>3 DEF CreateFromLabel, opcode_0A92, Construct
    <3>4. CASE EndProcess \/ opcode_0A95 \/ SaveScmData \/ UNCHANGED vars
      BY <3>4 DEF EndProcess, opcode_0A95, SaveScmData, registryVars, vars
    <3>5. CASE \E t \in Obj : opcode_2408_Deleted(t)
      BY <3>5 DEF opcode_2408_Deleted, TerminateUnchanged
    <3>6. QED
      BY <1>5, <3>1, <3>2, <3>3, <3>4, <3>5 DEF Next, opcode_0A94_ReadError
  <2>2. QED BY <2>1 DEF MissionFlagJustified
<1>6. QED BY <1>1, <1>2, <1>3, <1>4, <1>5

\* load_and_launch_custom_mission is refused only while a mission is loaded: as
\* long as no mission file fails to be read (the finding mission_flag_stuck), every
\* way a mission can end lowers the flag, the suspension of one that was replaced
\* and the removal with an ancestor included.
THEOREM FlagIsJustified ==
  ASSUME "read" \notin Faults
  PROVE  Spec => []MissionFlagJustified
<1>1. Init => MissionFlagJustified
  BY DEF Init, MissionFlagJustified
<1>2. MissionFlagJustified /\ [Next]_vars => MissionFlagJustified'
  BY JustifiedStep
<1>3. QED BY <1>1, <1>2, PTL DEF Spec

----------------------------------------------------------------------------
(* The native save *)

\* What UnregisterAllCustomScripts does not take out of the queue is a mission.
QueueInv == pActiveScripts \subseteq CustomScripts \cup missions

SavingInv == QueueInv /\ scmSaved = {}

\* The scripts an opcode terminates are in the queue.
LEMMA TerminatedScripts ==
  ASSUME MemoryInv,
         \/ opcode_004E
         \/ \E t \in Obj : opcode_2408(t)
         \/ \E name \in File : opcode_0ABA(name)
  PROVE  \E R \in SUBSET pActiveScripts : RemoveScripts(R) /\ TerminateUnchanged
<1>1. ASSUME opcode_004E
      PROVE  {current} \in SUBSET pActiveScripts /\ RemoveScripts({current}) /\ TerminateUnchanged
  BY <1>1, TerminableIsQueued DEF opcode_004E
<1>2. ASSUME NEW t \in Obj, opcode_2408(t)
      PROVE  {t} \in SUBSET pActiveScripts /\ RemoveScripts({t}) /\ TerminateUnchanged
  BY <1>2, TerminableIsQueued DEF opcode_2408
<1>3. ASSUME NEW name \in File, opcode_0ABA(name)
      PROVE  \E R \in SUBSET pActiveScripts : RemoveScripts(R) /\ TerminateUnchanged
  <2> DEFINE named == {s \in Registered : codeChecksum[s] = name}
             found == {s \in named : \A t \in named \ {s} : s \notin Subtree(t)}
  <2>1. found \in SUBSET pActiveScripts
    BY DEF MemoryInv, TerminatedIsUnreachable
  <2>2. RemoveScripts(found) /\ TerminateUnchanged
    BY <1>3 DEF opcode_0ABA
  <2> HIDE DEF found
  <2>3. QED BY <2>1, <2>2
<1>4. QED BY <1>1, <1>2, <1>3

LEMMA QueueStep ==
  ASSUME MemoryInv, QueueInv, [Next]_vars
  PROVE  QueueInv'
<1> DEFINE Removal == opcode_004E \/ (\E t \in Obj : opcode_2408(t))
                        \/ (\E name \in File : opcode_0ABA(name))
           Launch == \E o \in Obj, f \in File : opcode_0A92(o, f) \/ opcode_0A94(o, f)
<1>1. CASE Removal
  <2>1. PICK R \in SUBSET pActiveScripts : RemoveScripts(R) /\ TerminateUnchanged
    BY <1>1, TerminatedScripts
  <2>2. /\ pActiveScripts' = pActiveScripts \ Forest(R)
        /\ CustomScripts' = CustomScripts \ Forest(R)
        /\ UNCHANGED missions
    BY <2>1, RemovedDequeue DEF RemoveScripts, Unregister, TerminateUnchanged
  <2>3. QED BY <2>2 DEF QueueInv
<1>2. CASE Launch
  BY <1>2 DEF opcode_0A92, opcode_0A94, Construct, Queue, MemoryInv, QueueInv
<1>3. CASE \E o \in Obj : CreateFromLabel(o)
  BY <1>3 DEF CreateFromLabel, Construct, Queue, MemoryInv, QueueInv
<1>4. CASE GameBegin
  <2>1. PICK made : /\ CustomScripts' = CustomScripts \cup made
                    /\ pActiveScripts' = pActiveScripts \cup made
    BY <1>4, Zenon DEF GameBegin, LoadCustomScripts
  <2>2. QED BY <1>4, <2>1 DEF GameBegin, QueueInv
<1>5. CASE GameEnd
  <2>1. CASE scriptsLoaded
    <3>1. /\ pActiveScripts' = pActiveScripts \ Forest(Registered)
          /\ CustomScripts' = CustomScripts \ Forest(Registered)
          /\ missions' = missions \ (Forest(Registered) \cup ScriptsWaitingForDelete)
      BY <1>5, <2>1, RegisteredDequeue DEF GameEnd, RemoveAllCustomScripts, RemoveAll
    <3>2. QED BY <3>1 DEF QueueInv, MemoryInv, TerminatedIsUnreachable
  <2>2. CASE ~scriptsLoaded
    BY <1>5, <2>2 DEF GameEnd, objectVars, registryVars, QueueInv
  <2>3. QED BY <2>1, <2>2
<1>6. CASE \E p \in Obj \cup {Native} : ProcessScript(p)
  BY <1>6 DEF ProcessScript, DeleteWaitingScripts, Delete, QueueInv, MemoryInv,
     TerminatedIsUnreachable
<1>7. CASE \E slot \in Slot \ {"none"} : SessionBegin(slot)
  BY <1>7 DEF SessionBegin, QueueInv
<1>8. CASE SaveScmData
  BY <1>8 DEF SaveScmData, QueueWhileSaving, Queue, objectVars, MemoryInv, QueueInv
<1>9. CASE EndProcess \/ opcode_0A94_ReadError \/ opcode_0A95 \/ TrySuspendScript
             \/ NativeMissionStart \/ NativeMissionEnd \/ UNCHANGED vars
  BY <1>9 DEF EndProcess, opcode_0A94_ReadError, opcode_0A95, TrySuspendScript,
     NativeMissionStart, NativeMissionEnd, objectVars, registryVars, vars, QueueInv
<1>10. QED
  BY <1>1, <1>2, <1>3, <1>4, <1>5, <1>6, <1>7, <1>8, <1>9, NothingDeletedIsTerminated DEF Next

LEMMA SavingStep ==
  ASSUME "saveMission" \notin Faults, MemoryInv, SavingInv, [Next]_vars
  PROVE  SavingInv'
<1>1. QueueInv'
  BY QueueStep DEF SavingInv
<1>2. CASE SaveScmData
  BY <1>1, <1>2 DEF SaveScmData, QueueWhileSaving, Queue, MemoryInv, SavingInv, QueueInv
<1>3. CASE ~SaveScmData
  <2>1. UNCHANGED scmSaved
    BY <1>3 DEF Next, SessionBegin, GameBegin, GameEnd, ProcessScript, EndProcess, opcode_0A92,
       CreateFromLabel, opcode_0A94, Construct, opcode_0A94_ReadError, opcode_0A95, opcode_004E,
       opcode_2408, opcode_2408_Deleted, opcode_0ABA, TerminateUnchanged, TrySuspendScript, NativeMissionStart,
       NativeMissionEnd, diskVars, vars
  <2>2. QED BY <1>1, <2>1 DEF SavingInv
<1>4. QED BY <1>2, <1>3

\* A save of the game holds no structure of a custom script, as long as no mission is
\* in the queue when it is made, and the links of the queue are not broken: then all that UnregisterAllCustomScripts leaves there
\* is the game's own.  Suspended missions that another one replaced are covered.
THEOREM NativeSavesAreClean ==
  ASSUME "saveMission" \notin Faults, "again" \notin Faults
  PROVE  Spec => []NativeSaveHasNoCustomScript
<1>1. Init => SavingInv
  BY DEF Init, SavingInv, QueueInv
<1>2. MemoryInv /\ SavingInv /\ [Next]_vars => SavingInv'
  BY SavingStep
<1>3. SavingInv => NativeSaveHasNoCustomScript
  BY DEF SavingInv, NativeSaveHasNoCustomScript
<1>4. QED BY <1>1, <1>2, <1>3, MemoryAlways, PTL DEF Spec
=============================================================================
