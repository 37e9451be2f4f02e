------------------------- MODULE ScriptEngineProofs -------------------------
(***************************************************************************)
(* Proofs about ScriptEngine, for any number of script objects and files.  *)
(* The stop-list stays for every value of Faults.  What concerns memory    *)
(* holds as long as no script is terminated when it is not in the queue    *)
(* (the fault "again", which breaks the game's list), and for any of the   *)
(* other faults.                                                           *)
(***************************************************************************)
EXTENDS ScriptEngine, TLAPS

(* The inductive invariant. *)

\* Both ends of a parent/child link name each other, and only registered
\* scripts are in the list of a parent.
LinksInv ==
  \A o \in Obj : /\ childScripts[o] \subseteq CustomScripts
                 /\ \A c \in childScripts[o] : parentScript[c] = o

\* Every script object knows the file it came from.
ChecksumInv == /\ saveEnabled \subseteq allocated
               /\ \A o \in allocated : codeChecksum[o] \in File

\* Outside a session no script is loaded, and nothing runs.
SessionInv ==
  /\ saveSlot = "none" => ~scriptsLoaded
  /\ current # NoObj => scriptsLoaded

MemoryInv ==
  /\ TypeOK
  /\ LinksInv
  /\ ChecksumInv
  /\ SessionInv
  /\ SessionsAreIsolated
  /\ ListsAreValid
  /\ TerminatedIsUnreachable
  /\ "again" \notin Faults /\ ~listBroken

----------------------------------------------------------------------------
(* Facts about Subtree and Forest *)

LEMMA SubtreeHasRoot ==
  ASSUME NEW s \in Obj
  PROVE  s \in Subtree(s)
BY DEF Subtree

LEMMA SubtreeClosed ==
  ASSUME NEW s \in Obj, childScripts \in [Obj -> SUBSET Obj]
  PROVE  ClosedDown(Subtree(s))
<1> SUFFICES ASSUME NEW x \in Subtree(s), NEW c \in childScripts[x]
             PROVE  c \in Subtree(s)
  BY DEF ClosedDown
<1>1. x \in Obj /\ c \in Obj
  BY DEF Subtree
<1>2. ASSUME NEW S \in SUBSET Obj, s \in S, ClosedDown(S)
      PROVE  c \in S
  <2>1. x \in S
    BY <1>2 DEF Subtree
  <2>2. QED BY <1>2, <2>1 DEF ClosedDown
<1>3. QED BY <1>1, <1>2 DEF Subtree

\* The tree below a set of scripts is contained in every closed set that
\* contains them.
LEMMA ForestLeast ==
  ASSUME NEW R \in SUBSET Obj, NEW S \in SUBSET Obj, R \subseteq S, ClosedDown(S)
  PROVE  Forest(R) \subseteq S
BY DEF Subtree, Forest

LEMMA ForestClosed ==
  ASSUME NEW R \in SUBSET Obj, childScripts \in [Obj -> SUBSET Obj]
  PROVE  Forest(R) \subseteq Obj /\ R \subseteq Forest(R) /\ ClosedDown(Forest(R))
<1>1. Forest(R) \subseteq Obj
  BY DEF Subtree, Forest
<1>2. R \subseteq Forest(R)
  BY SubtreeHasRoot DEF Forest
<1>3. ClosedDown(Forest(R))
  <2> SUFFICES ASSUME NEW s \in R, NEW x \in Subtree(s)
               PROVE  childScripts[x] \subseteq Forest(R)
    BY DEF ClosedDown, Forest
  <2>1. ClosedDown(Subtree(s))
    BY SubtreeClosed
  <2>2. QED BY <2>1 DEF ClosedDown, Forest
<1>4. QED BY <1>1, <1>2, <1>3

\* A script outside the closed set D stays below the same root when the
\* lists of children lose at most members of D.
LEMMA SubtreeKept ==
  ASSUME NEW D \in SUBSET Obj, ClosedDown(D),
         \A x \in Obj : childScripts[x] \ D \subseteq childScripts'[x],
         NEW b \in Obj, NEW o \in Subtree(b), o \notin D
  PROVE  o \in Subtree(b)' /\ b \notin D
<1>1. ASSUME NEW S \in SUBSET Obj, b \in S, ClosedDown(S)'
      PROVE  o \in S
  <2>1. ClosedDown(S \cup D)
    BY <1>1 DEF ClosedDown
  <2>2. S \cup D \in SUBSET Obj /\ b \in S \cup D
    BY <1>1
  <2>3. o \in S \cup D
    BY <2>1, <2>2 DEF Subtree
  <2>4. QED BY <2>3
<1>2. o \in Obj
  BY DEF Subtree
<1>3. b \notin D
  BY DEF Subtree
<1>4. QED BY <1>1, <1>2, <1>3 DEF Subtree

\* What is removed with the scripts of R are registered scripts.
LEMMA RemovedForest ==
  ASSUME MemoryInv, NEW R \in SUBSET allocated
  PROVE  /\ Forest(R) \subseteq R \cup CustomScripts
         /\ Forest(R) \subseteq allocated
         /\ R \subseteq Forest(R)
         /\ ClosedDown(Forest(R))
<1>1. R \cup CustomScripts \in SUBSET Obj /\ R \in SUBSET Obj
  BY DEF MemoryInv, TypeOK
<1>2. ClosedDown(R \cup CustomScripts)
  BY <1>1 DEF MemoryInv, LinksInv, ClosedDown
<1>3. Forest(R) \subseteq R \cup CustomScripts
  BY <1>1, <1>2, ForestLeast
<1>4. R \subseteq Forest(R) /\ ClosedDown(Forest(R))
  BY <1>1, ForestClosed DEF MemoryInv, TypeOK
<1>5. CustomScripts \subseteq allocated
  BY DEF MemoryInv, ListsAreValid, Registered
<1>6. QED BY <1>3, <1>4, <1>5

----------------------------------------------------------------------------
(* MemoryInv is inductive: one lemma per operation. *)

LEMMA MemoryInit ==
  ASSUME "again" \notin Faults, Init
  PROVE  MemoryInv
<1> USE DEF Init
<1>1. saveFile \in [signed : BOOLEAN, saved : SUBSET File, stopped : SUBSET File]
  BY DEF NoSave
<1>2. TypeOK
  BY <1>1 DEF TypeOK, Slot
<1>3. LinksInv /\ ChecksumInv /\ SessionInv
  BY DEF LinksInv, ChecksumInv, SessionInv
<1>4. SessionsAreIsolated /\ ListsAreValid /\ TerminatedIsUnreachable
  BY DEF SessionsAreIsolated, ListsAreValid, TerminatedIsUnreachable, Registered
<1>5. QED BY <1>2, <1>3, <1>4 DEF MemoryInv

\* Scripts that are in the queue leave it in good order.
LEMMA DequeueIntact ==
  ASSUME MemoryInv, NEW D, D \subseteq pActiveScripts, Dequeue(D)
  PROVE  listBroken' = FALSE /\ pActiveScripts' = pActiveScripts \ D
BY DEF Dequeue, Queue, MemoryInv

\* What is removed with scripts of the queue is in the queue.
LEMMA RemovedQueued ==
  ASSUME MemoryInv, NEW R \in SUBSET pActiveScripts
  PROVE  Forest(R) \subseteq pActiveScripts
BY RemovedForest DEF MemoryInv, ListsAreValid, TerminatedIsUnreachable, Registered

LEMMA RemovedDequeue ==
  ASSUME MemoryInv, NEW R \in SUBSET pActiveScripts, Dequeue(Forest(R))
  PROVE  listBroken' = FALSE /\ pActiveScripts' = pActiveScripts \ Forest(R)
BY RemovedQueued, DequeueIntact

LEMMA RegisteredDequeue ==
  ASSUME MemoryInv, Dequeue(Forest(Registered))
  PROVE  listBroken' = FALSE /\ pActiveScripts' = pActiveScripts \ Forest(Registered)
BY RemovedDequeue DEF MemoryInv, TerminatedIsUnreachable

LEMMA MemoryUnchanged == MemoryInv /\ UNCHANGED vars => MemoryInv'
BY DEF vars, objectVars, registryVars, sessionVars, diskVars,
       MemoryInv, TypeOK, LinksInv, ChecksumInv, SessionInv, SessionsAreIsolated,
       ListsAreValid, TerminatedIsUnreachable, Registered

LEMMA MemorySessionBegin ==
  ASSUME MemoryInv, NEW slot \in Slot \ {"none"}, SessionBegin(slot)
  PROVE  MemoryInv'
<1> USE DEF SessionBegin, objectVars, diskVars, MemoryInv
<1>1. TypeOK'
  BY DEF TypeOK
<1>2. LinksInv' /\ ChecksumInv'
  BY DEF LinksInv, ChecksumInv
<1>3. SessionInv'
  BY DEF SessionInv
<1>4. Registered = {} /\ Registered' = {} /\ ScriptsWaitingForDelete' = {}
  BY DEF SessionInv, SessionsAreIsolated, Registered
<1>5. SessionsAreIsolated' /\ ListsAreValid' /\ TerminatedIsUnreachable'
  BY <1>4 DEF SessionsAreIsolated, ListsAreValid, TerminatedIsUnreachable
<1>6. QED BY <1>1, <1>2, <1>3, <1>5

\* The scripts of R are removed, with their families.
LEMMA MemoryRemoveScripts ==
  ASSUME MemoryInv, NEW R \in SUBSET pActiveScripts, RemoveScripts(R),
         TerminateUnchanged, current # NoObj, current' \in {current, NoObj}
  PROVE  MemoryInv'
<1> DEFINE D == Forest(R)
<1> USE DEF RemoveScripts, Unregister, TerminateUnchanged, sessionVars, diskVars, MemoryInv
<1>1. /\ D \subseteq R \cup CustomScripts
      /\ D \subseteq allocated
      /\ R \subseteq D
      /\ ClosedDown(D)
  BY RemovedForest DEF ListsAreValid
<1>9. listBroken' = FALSE /\ pActiveScripts' = pActiveScripts \ D
  BY RemovedDequeue
<1>2. LinksInv'
  BY <1>1 DEF Detach, LinksInv, TypeOK
<1>3. ChecksumInv'
  BY DEF ChecksumInv
<1>4. SessionInv' /\ SessionsAreIsolated'
  BY DEF SessionInv, SessionsAreIsolated
<1>5. ListsAreValid'
  BY <1>1, <1>2, <1>9 DEF ListsAreValid, Registered, LinksInv, TypeOK
<1>6. TerminatedIsUnreachable'
  BY <1>1, <1>9 DEF TerminatedIsUnreachable, Registered
<1>7. TypeOK'
  <2>1. InactiveScriptHashes' \subseteq File
    BY DEF StopList, ChecksumInv, TypeOK
  <2>2. bAlreadyRunningAMissionScript' \in BOOLEAN
    BY DEF FlagAfter, TypeOK
  <2>3. parentScript' \in [Obj -> Obj \cup {NoObj}] /\ childScripts' \in [Obj -> SUBSET Obj]
    BY DEF Detach, TypeOK
  <2>4. QED BY <1>1, <1>9, <2>1, <2>2, <2>3 DEF TypeOK
<1>8. QED BY <1>2, <1>3, <1>4, <1>5, <1>6, <1>7, <1>9

\* Nothing but the members of D is deleted, and nothing else refers to them.
LEMMA MemoryProcessScript ==
  ASSUME MemoryInv, NEW p \in Obj \cup {Native}, ProcessScript(p)
  PROVE  MemoryInv'
<1> DEFINE D == ScriptsWaitingForDelete
<1> USE DEF ProcessScript, DeleteWaitingScripts, Delete, sessionVars, diskVars, MemoryInv
<1>1. CustomScripts \cap D = {} /\ pActiveScripts \cap D = {} /\ D \subseteq Obj
  BY DEF TerminatedIsUnreachable, Registered, TypeOK
<1>2. LinksInv'
  BY <1>1 DEF LinksInv, TypeOK
<1>3. ChecksumInv'
  BY DEF ChecksumInv, ListsAreValid, TypeOK
<1>4. SessionInv' /\ SessionsAreIsolated'
  BY DEF SessionInv, SessionsAreIsolated
<1>5. current' \in (pActiveScripts \cap Obj) \cup {NoObj, Native}
  BY DEF Processable, TypeOK
<1>6. ListsAreValid'
  <2>1. Registered' \cup ScriptsWaitingForDelete' \cup pActiveScripts' \subseteq allocated'
    BY <1>1 DEF ListsAreValid, TerminatedIsUnreachable, Registered
  <2>2. {LastScriptCreated', current'} \ {NoObj, Native} \subseteq allocated'
    BY <1>1, <1>5, <2>1 DEF ListsAreValid, LastAfter
  <2>3. QED BY <1>2, <2>1, <2>2 DEF ListsAreValid, LinksInv
<1>7. TerminatedIsUnreachable'
  BY DEF TerminatedIsUnreachable, Registered
<1>8. TypeOK'
  BY <1>5 DEF TypeOK, LastAfter
<1>9. QED BY <1>2, <1>3, <1>4, <1>6, <1>7, <1>8

LEMMA MemoryGameEnd == MemoryInv /\ GameEnd => MemoryInv'
<1> SUFFICES ASSUME MemoryInv, GameEnd PROVE MemoryInv'
  OBVIOUS
<1> USE DEF GameEnd, diskVars, objectVars, registryVars, MemoryInv
<1>1. CASE ~scriptsLoaded
  <2>1. TypeOK' /\ LinksInv' /\ ChecksumInv' /\ SessionInv'
    BY <1>1 DEF TypeOK, LinksInv, ChecksumInv, SessionInv, Slot
  <2>2. SessionsAreIsolated' /\ ListsAreValid' /\ TerminatedIsUnreachable'
    BY <1>1 DEF SessionsAreIsolated, ListsAreValid, TerminatedIsUnreachable, Registered
  <2>3. QED BY <1>1, <2>1, <2>2
<1>2. CASE scriptsLoaded
  <2> DEFINE D == Forest(Registered)
             freed == D \cup ScriptsWaitingForDelete
  <2> USE <1>2 DEF RemoveAllCustomScripts, RemoveAll
  <2>1. Registered \subseteq allocated
    BY DEF ListsAreValid
  <2>2. /\ D \subseteq Registered
        /\ Registered \subseteq D
        /\ ClosedDown(D)
    BY <2>1, RemovedForest DEF Registered
  <2>12. listBroken' = FALSE /\ pActiveScripts' = pActiveScripts \ D
    BY RegisteredDequeue
  <2>3. pActiveScripts' \cap freed = {}
    BY <2>12 DEF TerminatedIsUnreachable
  <2>4. Registered' = {} /\ ScriptsWaitingForDelete' = {} /\ CustomScripts' = {}
    BY <2>2 DEF Registered
  <2>5. LinksInv'
    <3>1. \A o \in Obj : \A c \in childScripts[o] : c \in D /\ parentScript[c] = o
      BY <2>2 DEF LinksInv, Registered
    <3>2. childScripts' = [o \in Obj |->
            IF o \in D \cup ScriptsWaitingForDelete THEN {}
            ELSE {c \in childScripts[o] : ~(c \in D /\ parentScript[c] = o)}]
      BY DEF D
    <3> HIDE DEF D
    <3>3. \A o \in Obj : childScripts'[o] = {}
      BY <3>1, <3>2
    <3>4. QED BY <3>3 DEF LinksInv
  <2>6. ChecksumInv'
    BY DEF ChecksumInv, ListsAreValid, TypeOK
  <2>7. SessionInv' /\ SessionsAreIsolated'
    BY <2>4 DEF SessionInv, SessionsAreIsolated
  <2>8. ListsAreValid'
    BY <2>3, <2>4, <2>5, <2>12 DEF ListsAreValid, LinksInv, LastAfter
  <2>9. TerminatedIsUnreachable'
    BY <2>4 DEF TerminatedIsUnreachable
  <2>10. TypeOK'
    <3> HIDE DEF D
    <3>1. /\ codeChecksum' \in [Obj -> File \cup {NoObj}]
          /\ parentScript' \in [Obj -> Obj \cup {NoObj}]
          /\ childScripts' \in [Obj -> SUBSET Obj]
          /\ bufferOwner' \in [Obj -> Obj \cup {NoObj}]
      BY DEF TypeOK
    <3>2. LastScriptCreated' \in Obj \cup {NoObj} /\ InactiveScriptHashes' = {}
      BY DEF TypeOK, LastAfter
    <3>3. QED BY <2>12, <3>1, <3>2 DEF TypeOK, Slot
  <2>11. QED BY <2>5, <2>6, <2>7, <2>8, <2>9, <2>10, <2>12
<1>3. QED BY <1>1, <1>2

LEMMA MemoryGameBegin == MemoryInv /\ GameBegin => MemoryInv'
<1> SUFFICES ASSUME MemoryInv, GameBegin PROVE MemoryInv'
  OBVIOUS
<1> DEFINE start == AutoFile \ SaveLoaded.stopped
<1> USE DEF GameBegin, diskVars, MemoryInv
<1>1. SaveLoaded.stopped \subseteq File /\ SaveLoaded.saved \subseteq File
  BY DEF TypeOK, NoSave, SaveLoaded
<1>2. PICK new \in [start -> Obj \ allocated] :
        LET made == {new[f] : f \in start} IN
        /\ allocated' = allocated \cup made
        /\ codeChecksum' = [o \in Obj |->
             IF o \in made THEN CHOOSE f \in start : new[f] = o ELSE codeChecksum[o]]
        /\ bufferOwner' = [o \in Obj |-> IF o \in made THEN o ELSE bufferOwner[o]]
        /\ saveEnabled' = saveEnabled \cup {new[f] : f \in start \cap SaveLoaded.saved}
        /\ CustomScripts' = CustomScripts \cup made
        /\ pActiveScripts' = pActiveScripts \cup made
        /\ LastScriptCreated' \in
             IF AutoFile = {} THEN {LastScriptCreated}
             ELSE made \cup (IF start = AutoFile THEN {} ELSE {NoObj})
  BY Zenon DEF LoadCustomScripts
<1> DEFINE made == {new[f] : f \in start}
<1>3. made \subseteq Obj /\ made \cap allocated = {}
  OBVIOUS
<1>4. \A o \in made : codeChecksum'[o] \in File
  BY <1>1, <1>2, <1>3, ConstantsAssumption
<1>5. saveEnabled' \subseteq allocated'
  BY <1>2, <1>3 DEF ChecksumInv
<1>6. LinksInv'
  BY <1>2 DEF LinksInv
<1>7. ChecksumInv'
  BY <1>2, <1>3, <1>4, <1>5 DEF ChecksumInv, TypeOK
<1>8. SessionInv' /\ SessionsAreIsolated'
  BY DEF SessionInv, SessionsAreIsolated
<1>9. ListsAreValid'
  BY <1>2, <1>6 DEF ListsAreValid, LinksInv, Registered
<1>10. TerminatedIsUnreachable'
  BY <1>2, <1>3 DEF TerminatedIsUnreachable, Registered, SessionsAreIsolated
<1>11. TypeOK'
  <2>1. stopped_info' \subseteq File /\ InactiveScriptHashes' \subseteq File
    BY <1>1 DEF TypeOK, StopListLoaded
  <2>2. codeChecksum' \in [Obj -> File \cup {NoObj}]
    BY <1>2, <1>4 DEF TypeOK
  <2>3. saveEnabled' \subseteq Obj /\ bufferOwner' \in [Obj -> Obj \cup {NoObj}]
    BY <1>2, <1>3, <1>5 DEF TypeOK
  <2>4. QED BY <1>2, <1>3, <2>1, <2>2, <2>3 DEF TypeOK
<1>12. QED BY <1>6, <1>7, <1>8, <1>9, <1>10, <1>11

\* A script is created: o is a new object, and nothing refers to it yet.
LEMMA MemoryConstruct ==
  ASSUME MemoryInv, NEW o \in Obj \ allocated, NEW f \in File,
         NEW par \in Obj \cup {NoObj}, NEW owner \in Obj \cup {NoObj},
         Construct(o, f, par, owner), current # NoObj,
         \/ /\ CustomScripts' = CustomScripts \cup {o}
            /\ \/ UNCHANGED childScripts
               \/ /\ par \in Obj
                  /\ childScripts' = [childScripts EXCEPT ![par] = @ \cup {o}]
            /\ UNCHANGED <<missions, CustomMission, bAlreadyRunningAMissionScript>>
         \/ /\ UNCHANGED <<CustomScripts, childScripts>>
            /\ missions' = missions \cup {o}
            /\ CustomMission' = o
            /\ bAlreadyRunningAMissionScript' = TRUE
  PROVE  MemoryInv'
<1> USE DEF Construct, Queue, sessionVars, diskVars, MemoryInv
<1>1. \A x \in Obj : o \notin childScripts[x]
  BY DEF ListsAreValid, Registered
<1>2. LinksInv'
  BY <1>1 DEF LinksInv, TypeOK
<1>3. ChecksumInv'
  BY DEF ChecksumInv, TypeOK
<1>4. SessionInv' /\ SessionsAreIsolated'
  BY DEF SessionInv, SessionsAreIsolated
<1>5. ListsAreValid'
  BY <1>2 DEF ListsAreValid, LinksInv, Registered
<1>6. TerminatedIsUnreachable'
  BY DEF TerminatedIsUnreachable, ListsAreValid, Registered
<1>7. TypeOK'
  <2>1. childScripts' \in [Obj -> SUBSET Obj]
    BY DEF TypeOK
  <2>2. /\ missions' \subseteq Obj /\ CustomMission' \in Obj \cup {NoObj}
        /\ bAlreadyRunningAMissionScript' \in BOOLEAN
        /\ CustomScripts' \subseteq Obj
    BY DEF TypeOK
  <2>3. QED BY <2>1, <2>2 DEF TypeOK
<1>8. QED BY <1>2, <1>3, <1>4, <1>5, <1>6, <1>7

LEMMA MemoryCreate ==
  ASSUME MemoryInv, NEW o \in Obj,
         \/ \E f \in File : opcode_0A92(o, f) \/ opcode_0A94(o, f)
         \/ CreateFromLabel(o)
  PROVE  MemoryInv'
<1>1. ASSUME NEW f \in File, opcode_0A92(o, f) PROVE MemoryInv'
  BY <1>1, MemoryConstruct DEF opcode_0A92
<1>2. ASSUME NEW f \in File, opcode_0A94(o, f) PROVE MemoryInv'
  BY <1>2, MemoryConstruct DEF opcode_0A94
<1>3. ASSUME CreateFromLabel(o) PROVE MemoryInv'
  <2>1. /\ codeChecksum[current] \in File
        /\ current \in Obj /\ bufferOwner[current] \in Obj \cup {NoObj}
        /\ current # NoObj
    BY <1>3, ConstantsAssumption
       DEF CreateFromLabel, MemoryInv, ChecksumInv, ListsAreValid, TypeOK
  <2>2. QED BY <1>3, <2>1, MemoryConstruct DEF CreateFromLabel
<1>4. QED BY <1>1, <1>2, <1>3

\* What an opcode may terminate is in the queue, so it exists.
LEMMA TerminableIsQueued ==
  ASSUME MemoryInv, NEW t, Terminable(t)
  PROVE  t \in pActiveScripts /\ t \in allocated
BY DEF MemoryInv, Terminable, ListsAreValid

LEMMA NothingDeletedIsTerminated ==
  ASSUME MemoryInv, NEW t \in Obj
  PROVE  ~opcode_2408_Deleted(t)
BY TerminableIsQueued DEF opcode_2408_Deleted

LEMMA MemoryTerminate ==
  ASSUME MemoryInv,
         \/ opcode_004E
         \/ \E t \in Obj : opcode_2408(t)
         \/ \E name \in File : opcode_0ABA(name)
  PROVE  MemoryInv'
<1>1. ASSUME opcode_004E PROVE MemoryInv'
  <2>1. {current} \subseteq pActiveScripts /\ current # NoObj
    BY <1>1, TerminableIsQueued, ConstantsAssumption DEF opcode_004E
  <2>2. QED BY <1>1, <2>1, MemoryRemoveScripts DEF opcode_004E
<1>2. ASSUME NEW t \in Obj, opcode_2408(t) PROVE MemoryInv'
  <2>1. {t} \subseteq pActiveScripts
    BY <1>2, TerminableIsQueued DEF opcode_2408
  <2>2. QED BY <1>2, <2>1, MemoryRemoveScripts DEF opcode_2408
<1>3. ASSUME NEW name \in File, opcode_0ABA(name) PROVE MemoryInv'
  <2> DEFINE named == {s \in Registered : codeChecksum[s] = name}
             found == {s \in named : \A t \in named \ {s} : s \notin Subtree(t)}
  <2>1. found \subseteq pActiveScripts
    BY DEF MemoryInv, TerminatedIsUnreachable
  <2>2. /\ RemoveScripts(found) /\ TerminateUnchanged /\ current # NoObj
        /\ current' \in {current, NoObj}
    BY <1>3 DEF opcode_0ABA
  <2> HIDE DEF found
  <2>3. QED BY <2>1, <2>2, MemoryRemoveScripts
<1>4. QED BY <1>1, <1>2, <1>3

\* The remaining operations create and delete nothing.
LEMMA MemoryOthers ==
  ASSUME MemoryInv,
         EndProcess \/ opcode_0A94_ReadError \/ opcode_0A95 \/ TrySuspendScript
           \/ NativeMissionStart \/ NativeMissionEnd
  PROVE  MemoryInv'
<1> USE DEF EndProcess, opcode_0A94_ReadError, opcode_0A95, TrySuspendScript,
        NativeMissionStart, NativeMissionEnd, CanEnableSaving,
        objectVars, registryVars, sessionVars, diskVars, MemoryInv
<1>1. LinksInv' /\ SessionInv' /\ SessionsAreIsolated' /\ TerminatedIsUnreachable'
  BY DEF LinksInv, SessionInv, SessionsAreIsolated, TerminatedIsUnreachable, Registered
<1>2. ListsAreValid'
  BY DEF ListsAreValid, Registered
<1>3. ChecksumInv'
  BY ConstantsAssumption DEF ChecksumInv, ListsAreValid
<1>4. TypeOK'
  BY DEF TypeOK
<1>5. QED BY <1>1, <1>2, <1>3, <1>4

LEMMA MemorySave == MemoryInv /\ SaveScmData => MemoryInv'
<1> SUFFICES ASSUME MemoryInv, SaveScmData PROVE MemoryInv'
  OBVIOUS
<1> USE DEF SaveScmData, QueueWhileSaving, Queue, sessionVars, objectVars, MemoryInv
<1>1. pActiveScripts' = pActiveScripts
  BY DEF TerminatedIsUnreachable, Registered
<1>2. /\ LinksInv' /\ SessionInv' /\ SessionsAreIsolated' /\ TerminatedIsUnreachable'
      /\ ListsAreValid' /\ ChecksumInv'
  BY <1>1 DEF LinksInv, SessionInv, SessionsAreIsolated, TerminatedIsUnreachable,
         Registered, ListsAreValid, ChecksumInv
<1>3. saveFile' \in [signed : BOOLEAN, saved : SUBSET File, stopped : SUBSET File]
  <2>1. {codeChecksum[s] : s \in CustomScripts \cap saveEnabled} \subseteq File
    BY DEF ChecksumInv
  <2>2. CASE saveFile' = saveFile
    BY <2>2 DEF TypeOK
  <2>3. CASE saveFile' = NoSave
    BY <2>3 DEF NoSave
  <2>4. CASE saveFile' = [signed |-> TRUE,
                saved |-> {codeChecksum[s] : s \in CustomScripts \cap saveEnabled},
                stopped |-> InactiveScriptHashes]
    BY <2>1, <2>4 DEF TypeOK
  <2>5. QED BY <2>2, <2>3, <2>4
<1>4. TypeOK'
  BY <1>1, <1>3 DEF TypeOK
<1>5. QED BY <1>2, <1>4

LEMMA MemoryStep == MemoryInv /\ [Next]_vars => MemoryInv'
BY NothingDeletedIsTerminated, MemoryUnchanged, MemorySessionBegin, MemoryGameBegin, MemoryGameEnd,
   MemoryProcessScript, MemoryCreate, MemoryTerminate, MemoryOthers, MemorySave DEF Next

LEMMA MemoryAlways ==
  ASSUME "again" \notin Faults
  PROVE  Spec => []MemoryInv
BY MemoryInit, MemoryStep, PTL DEF Spec

----------------------------------------------------------------------------
(* The theorems about the memory of scripts. *)

\* Every variable keeps its type, in every reachable state.
THEOREM TypeCorrect ==
  ASSUME "again" \notin Faults
  PROVE  Spec => []TypeOK
<1>1. MemoryInv => TypeOK
  BY DEF MemoryInv
<1>2. QED BY <1>1, MemoryAlways, PTL

\* Whatever scripts terminate, themselves and their ancestors included, the
\* lists, LastScriptCreated and the running script never name a deleted one.
\* (Pointers within a family need more, see ScriptFamilyProofs.)
THEOREM ListsStayValid ==
  ASSUME "again" \notin Faults
  PROVE  Spec => []ListsAreValid
<1>1. MemoryInv => ListsAreValid
  BY DEF MemoryInv
<1>2. QED BY <1>1, MemoryAlways, PTL

\* A terminated script is out of the game's queue at once, and a registered
\* one is in it.
THEOREM TerminatedLeavesQueue ==
  ASSUME "again" \notin Faults
  PROVE  Spec => []TerminatedIsUnreachable
<1>1. MemoryInv => TerminatedIsUnreachable
  BY DEF MemoryInv
<1>2. QED BY <1>1, MemoryAlways, PTL

\* A session inherits no registration, pending deletion or stop-list.
THEOREM SessionsIsolated ==
  ASSUME "again" \notin Faults
  PROVE  Spec => []SessionsAreIsolated
<1>1. MemoryInv => SessionsAreIsolated
  BY DEF MemoryInv
<1>2. QED BY <1>1, MemoryAlways, PTL

----------------------------------------------------------------------------
(* The stop-list through saves and loads. *)

\* During a session the stop-list holds at least what was loaded with it.
LoadedIsStopped == scriptsLoaded => stopped_info \subseteq InactiveScriptHashes

LEMMA LoadedStep == LoadedIsStopped /\ [Next]_vars => LoadedIsStopped'
<1> SUFFICES ASSUME LoadedIsStopped, [Next]_vars PROVE LoadedIsStopped'
  OBVIOUS
<1> USE DEF LoadedIsStopped, sessionVars
<1>1. (\E slot \in Slot \ {"none"} : SessionBegin(slot)) => LoadedIsStopped'
  BY DEF SessionBegin
<1>2. GameBegin => LoadedIsStopped'
  BY DEF GameBegin, StopListLoaded
<1>3. GameEnd => LoadedIsStopped'
  BY DEF GameEnd
<1>4. (\E p \in Obj \cup {Native} : ProcessScript(p)) => LoadedIsStopped'
  BY DEF ProcessScript
<1>5. (\E o \in Obj, f \in File : opcode_0A92(o, f) \/ opcode_0A94(o, f))
        \/ (\E o \in Obj : CreateFromLabel(o)) => LoadedIsStopped'
  BY DEF opcode_0A92, opcode_0A94, CreateFromLabel, Construct
<1>6. opcode_004E \/ (\E t \in Obj : opcode_2408(t) \/ opcode_2408_Deleted(t)) => LoadedIsStopped'
  BY DEF opcode_004E, opcode_2408, opcode_2408_Deleted, RemoveScripts, StopList,
         TerminateUnchanged
<1>7. (\E name \in File : opcode_0ABA(name)) => LoadedIsStopped'
  BY DEF opcode_0ABA, RemoveScripts, StopList, TerminateUnchanged
<1>8. EndProcess \/ opcode_0A94_ReadError \/ opcode_0A95 \/ TrySuspendScript
        \/ NativeMissionStart \/ NativeMissionEnd \/ SaveScmData \/ UNCHANGED vars
        => LoadedIsStopped'
  BY DEF EndProcess, opcode_0A94_ReadError, opcode_0A95, TrySuspendScript,
     NativeMissionStart, NativeMissionEnd, SaveScmData, vars
<1>9. QED BY <1>1, <1>2, <1>3, <1>4, <1>5, <1>6, <1>7, <1>8 DEF Next

\* Only SaveScmData writes the file.
LEMMA SaveStep ==
  LoadedIsStopped /\ [Next]_vars =>
    (saveFile' # saveFile /\ saveFile'.signed => stopped_info \subseteq saveFile'.stopped)
<1> SUFFICES ASSUME LoadedIsStopped, [Next]_vars, saveFile' # saveFile, saveFile'.signed
             PROVE  stopped_info \subseteq saveFile'.stopped
  OBVIOUS
<1>1. SaveScmData
  BY DEF Next, vars, diskVars, SessionBegin, GameBegin, GameEnd, ProcessScript, EndProcess,
     opcode_0A92, opcode_0A94, CreateFromLabel, Construct, opcode_0A94_ReadError,
     opcode_0A95, opcode_004E, opcode_2408, opcode_2408_Deleted, opcode_0ABA,
     TerminateUnchanged, TrySuspendScript, NativeMissionStart, NativeMissionEnd
<1>2. saveFile'.stopped = InactiveScriptHashes
  BY <1>1 DEF SaveScmData, NoSave
<1>3. QED BY <1>1, <1>2 DEF SaveScmData, LoadedIsStopped

\* What was on the stop-list when a game was loaded is in every file saved
\* from it, through any number of saves and loads.
THEOREM StopListPersists == Spec => StopListIsKept
<1>1. Init => LoadedIsStopped
  BY DEF Init, LoadedIsStopped
<1>2. LoadedIsStopped /\ [Next]_vars
        => [saveFile' # saveFile /\ saveFile'.signed => stopped_info \subseteq saveFile'.stopped]_vars
  BY SaveStep
<1>3. QED BY <1>1, <1>2, LoadedStep, PTL DEF Spec, StopListIsKept
----------------------------------------------------------------------------
(* ScriptEngine implements ScriptLifecycle: the memory of a script is reclaimed only between *)
(* two scripts or at the end of a session, and only scripts that are live are entered.      *)

LEMMA LifeOf ==
  /\ Life \in [Obj -> {"free", "live", "doomed"}]
  /\ \A o \in Obj : /\ Life[o] = "free" <=> o \notin allocated
                    /\ Life[o] = "live" <=> o \in allocated \ ScriptsWaitingForDelete
                    /\ Life[o] = "doomed" <=> o \in allocated \cap ScriptsWaitingForDelete
BY DEF Life

LEMMA LifeStutters ==
  ASSUME UNCHANGED <<allocated, ScriptsWaitingForDelete, current>>
  PROVE  UNCHANGED Lifecycle!lifeVars
BY DEF Life, Lifecycle!lifeVars

\* Scripts of the set new are created, those of the set gone are terminated.
LEMMA LifeRuns ==
  ASSUME MemoryInv, NEW new \in SUBSET (Obj \ allocated), NEW gone \in SUBSET allocated,
         allocated' = allocated \cup new,
         ScriptsWaitingForDelete' = ScriptsWaitingForDelete \cup gone,
         current # NoObj, current' \in {current, NoObj}
  PROVE  Lifecycle!LifeRun
<1> DEFINE ended == gone \ ScriptsWaitingForDelete
<1>1. new \in SUBSET {o \in Obj : Life[o] = "free"}
  BY DEF Life
<1>2. ended \in SUBSET {o \in Obj : Life[o] = "live"}
  BY DEF Life, MemoryInv, TypeOK
<1>3. Life' = [o \in Obj |-> IF o \in new THEN "live"
                             ELSE IF o \in ended THEN "doomed" ELSE Life[o]]
  BY DEF Life, MemoryInv, ListsAreValid
<1>4. QED BY <1>1, <1>2, <1>3 DEF Lifecycle!LifeRun

LEMMA LifeGameBegin == MemoryInv /\ GameBegin => Lifecycle!LifeLoad
<1> SUFFICES ASSUME MemoryInv, GameBegin PROVE Lifecycle!LifeLoad
  OBVIOUS
<1>1. PICK new \in SUBSET (Obj \ allocated) : allocated' = allocated \cup new
  <2> DEFINE start == AutoFile \ SaveLoaded.stopped
  <2>1. PICK n \in [start -> Obj \ allocated] :
          allocated' = allocated \cup {n[f] : f \in start}
    BY Zenon DEF GameBegin, LoadCustomScripts
  <2>2. {n[f] : f \in start} \in SUBSET (Obj \ allocated)
    BY <2>1
  <2>3. QED BY <2>1, <2>2
<1>2. /\ UNCHANGED ScriptsWaitingForDelete /\ current = NoObj
      /\ current' \in {Native, NoObj}
  BY DEF GameBegin
<1>3. new \in SUBSET {o \in Obj : Life[o] = "free"}
  BY DEF Life
<1>4. Life' = [o \in Obj |-> IF o \in new THEN "live" ELSE Life[o]]
  BY <1>1, <1>2 DEF Life, MemoryInv, ListsAreValid
<1>5. QED BY <1>2, <1>3, <1>4 DEF Lifecycle!LifeLoad

LEMMA LifeGameEnd ==
  MemoryInv /\ GameEnd => Lifecycle!LifeEnd \/ UNCHANGED Lifecycle!lifeVars
<1> SUFFICES ASSUME MemoryInv, GameEnd
             PROVE  Lifecycle!LifeEnd \/ UNCHANGED Lifecycle!lifeVars
  OBVIOUS
<1>1. CASE ~scriptsLoaded
  BY <1>1, LifeStutters DEF GameEnd, registryVars
<1>2. CASE scriptsLoaded
  <2> DEFINE D == Forest(Registered)
             known == D \ ScriptsWaitingForDelete
  <2>1. Registered \subseteq allocated
    BY DEF MemoryInv, ListsAreValid
  <2>2. D \subseteq allocated
    BY <2>1, RemovedForest
  <2>3. /\ allocated' = allocated \ (D \cup ScriptsWaitingForDelete)
        /\ ScriptsWaitingForDelete' = {} /\ current = NoObj /\ current' = NoObj
    BY <1>2 DEF GameEnd, RemoveAllCustomScripts, RemoveAll
  <2> HIDE DEF D
  <2>4. known \in SUBSET {o \in Obj : Life[o] = "live"}
    BY <2>2 DEF Life, MemoryInv, TypeOK
  <2>5. Life' = [o \in Obj |-> IF o \in known \/ Life[o] = "doomed"
                               THEN "free" ELSE Life[o]]
    BY <2>2, <2>3 DEF Life
  <2>6. QED BY <2>3, <2>4, <2>5 DEF Lifecycle!LifeEnd
<1>3. QED BY <1>1, <1>2

LEMMA LifeProcessScript ==
  ASSUME MemoryInv, NEW p \in Obj \cup {Native}, ProcessScript(p)
  PROVE  Lifecycle!LifeEnter
<1>1. /\ current = NoObj /\ current' \in {p, NoObj}
      /\ p \in pActiveScripts \cup {Native}
      /\ allocated' = allocated \ ScriptsWaitingForDelete
      /\ ScriptsWaitingForDelete' = {}
  BY DEF ProcessScript, DeleteWaitingScripts, Delete, Processable
<1>2. Life' = [o \in Obj |-> IF Life[o] = "doomed" THEN "free" ELSE Life[o]]
  BY <1>1 DEF Life
<1>3. \A o \in pActiveScripts : o \in Obj /\ Life[o] = "live"
  BY DEF Life, MemoryInv, TypeOK, ListsAreValid, TerminatedIsUnreachable
<1>4. QED BY <1>1, <1>2, <1>3 DEF Lifecycle!LifeEnter

LEMMA LifeRemoveScripts ==
  ASSUME MemoryInv, NEW R \in SUBSET pActiveScripts, RemoveScripts(R), TerminateUnchanged,
         current # NoObj, current' \in {current, NoObj}
  PROVE  Lifecycle!LifeRun
<1>1. Forest(R) \in SUBSET allocated
  BY RemovedForest DEF MemoryInv, ListsAreValid
<1>2. /\ allocated' = allocated \cup {}
      /\ ScriptsWaitingForDelete' = ScriptsWaitingForDelete \cup Forest(R)
  BY DEF RemoveScripts, Unregister, TerminateUnchanged
<1>3. QED BY <1>1, <1>2, LifeRuns

LEMMA LifeTerminate ==
  ASSUME MemoryInv,
         \/ opcode_004E
         \/ \E t \in Obj : opcode_2408(t)
         \/ \E name \in File : opcode_0ABA(name)
  PROVE  Lifecycle!LifeRun
<1>1. ASSUME opcode_004E PROVE Lifecycle!LifeRun
  <2>1. {current} \subseteq pActiveScripts /\ current # NoObj
    BY <1>1, TerminableIsQueued, ConstantsAssumption DEF opcode_004E
  <2>2. QED BY <1>1, <2>1, LifeRemoveScripts DEF opcode_004E
<1>2. ASSUME NEW t \in Obj, opcode_2408(t) PROVE Lifecycle!LifeRun
  <2>1. {t} \subseteq pActiveScripts
    BY <1>2, TerminableIsQueued DEF opcode_2408
  <2>2. QED BY <1>2, <2>1, LifeRemoveScripts DEF opcode_2408
<1>3. ASSUME NEW name \in File, opcode_0ABA(name) PROVE Lifecycle!LifeRun
  <2> DEFINE named == {s \in Registered : codeChecksum[s] = name}
             found == {s \in named : \A t \in named \ {s} : s \notin Subtree(t)}
  <2>1. found \subseteq pActiveScripts
    BY DEF MemoryInv, TerminatedIsUnreachable
  <2>2. /\ RemoveScripts(found) /\ TerminateUnchanged /\ current # NoObj
        /\ current' \in {current, NoObj}
    BY <1>3 DEF opcode_0ABA
  <2> HIDE DEF found
  <2>3. QED BY <2>1, <2>2, LifeRemoveScripts
<1>4. QED BY <1>1, <1>2, <1>3

LEMMA LifeCreate ==
  ASSUME MemoryInv, NEW o \in Obj,
         \/ \E f \in File : opcode_0A92(o, f) \/ opcode_0A94(o, f)
         \/ CreateFromLabel(o)
  PROVE  Lifecycle!LifeRun
<1>1. /\ {o} \in SUBSET (Obj \ allocated) /\ allocated' = allocated \cup {o}
      /\ ScriptsWaitingForDelete' = ScriptsWaitingForDelete \cup {}
      /\ current # NoObj /\ current' = current
  BY ConstantsAssumption DEF opcode_0A92, opcode_0A94, CreateFromLabel, Construct
<1>2. {} \in SUBSET allocated
  OBVIOUS
<1>3. QED BY <1>1, <1>2, LifeRuns

LEMMA LifeOthers ==
  ASSUME MemoryInv,
         EndProcess \/ opcode_0A94_ReadError \/ opcode_0A95 \/ TrySuspendScript
           \/ NativeMissionStart \/ NativeMissionEnd
  PROVE  Lifecycle!LifeRun
<1>1. /\ allocated' = allocated \cup {}
      /\ ScriptsWaitingForDelete' = ScriptsWaitingForDelete \cup {}
      /\ current # NoObj /\ current' \in {current, NoObj}
  BY ConstantsAssumption
     DEF EndProcess, opcode_0A94_ReadError, opcode_0A95, TrySuspendScript,
         NativeMissionStart, NativeMissionEnd, CanEnableSaving, registryVars
<1>2. {} \in SUBSET (Obj \ allocated) /\ {} \in SUBSET allocated
  OBVIOUS
<1>3. QED BY <1>1, <1>2, LifeRuns

LEMMA LifeStep ==
  MemoryInv /\ [Next]_vars => [Lifecycle!LifeNext]_(Lifecycle!lifeVars)
<1> SUFFICES ASSUME MemoryInv, [Next]_vars
             PROVE  Lifecycle!LifeNext \/ UNCHANGED Lifecycle!lifeVars
  OBVIOUS
<1>1. (\E slot \in Slot \ {"none"} : SessionBegin(slot)) \/ SaveScmData \/ UNCHANGED vars
        => UNCHANGED Lifecycle!lifeVars
  BY LifeStutters DEF SessionBegin, SaveScmData, vars, registryVars
<1>2. QED
  BY <1>1, NothingDeletedIsTerminated, LifeGameBegin, LifeGameEnd, LifeProcessScript, LifeCreate, LifeTerminate,
     LifeOthers DEF Next, Lifecycle!LifeNext

LEMMA LifeStart == Init => Lifecycle!LifeInit
BY DEF Init, Life, Lifecycle!LifeInit

----------------------------------------------------------------------------
\* Every behaviour of the engine is, for the memory of scripts, one that
\* ScriptLifecycle allows, as long as no script is terminated again.
THEOREM EngineImplementsLifecycle ==
  ASSUME "again" \notin Faults
  PROVE  Spec => ImplementsLifecycle
BY LifeStart, LifeStep, MemoryAlways, PTL
   DEF Spec, ImplementsLifecycle, Lifecycle!LifeSpec
=============================================================================
