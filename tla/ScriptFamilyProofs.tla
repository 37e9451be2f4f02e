------------------------- MODULE ScriptFamilyProofs -------------------------
(***************************************************************************)
(* Proofs about families of scripts: parents, children, and the code they  *)
(* share.  They hold as long as no script terminates its own ancestor, and *)
(* none that is no longer in the queue.                                    *)
(***************************************************************************)
EXTENDS ScriptEngineProofs

\* The family of a script in the queue is in the queue, and its code is owned
\* by the script at the root of its tree; a terminated one has no family left.
FamilyInv ==
  /\ current \in Obj => current \in pActiveScripts
  /\ \A o \in ScriptsWaitingForDelete : childScripts[o] = {}
  /\ \A o \in Obj \ allocated : parentScript[o] = NoObj
  /\ \A o \in pActiveScripts :
       /\ parentScript[o] # NoObj => /\ parentScript[o] \in pActiveScripts
                                     /\ o \in childScripts[parentScript[o]]
       /\ bufferOwner[o] \in pActiveScripts
       /\ o \in Subtree(bufferOwner[o])

\* The last conjunct, which every operation must re-establish.
RootedIn(Q) ==
  \A o \in Q :
    /\ parentScript[o] # NoObj => /\ parentScript[o] \in Q
                                  /\ o \in childScripts[parentScript[o]]
    /\ bufferOwner[o] \in Q
    /\ o \in Subtree(bufferOwner[o])

----------------------------------------------------------------------------
LEMMA FamilyInit == Init => FamilyInv
BY ConstantsAssumption DEF Init, FamilyInv

LEMMA FamilyUnchanged ==
  ASSUME FamilyInv,
         UNCHANGED <<allocated, parentScript, childScripts, bufferOwner,
                     ScriptsWaitingForDelete, pActiveScripts>>,
         current' \in {current, NoObj, Native}
  PROVE  FamilyInv'
<1>1. \A b : Subtree(b)' = Subtree(b)
  BY DEF Subtree, ClosedDown
<1>2. QED BY <1>1, ConstantsAssumption DEF FamilyInv

\* The scripts of the closed set D leave the queue, and the lists of children
\* lose the members of D.
LEMMA RootedWithout ==
  ASSUME MemoryInv, FamilyInv, NEW D \in SUBSET Obj, ClosedDown(D),
         childScripts' \in [Obj -> SUBSET Obj],
         \A x \in Obj : childScripts[x] \ D \subseteq childScripts'[x],
         pActiveScripts' = pActiveScripts \ D,
         \A x \in pActiveScripts' : /\ bufferOwner'[x] = bufferOwner[x]
                                    /\ parentScript'[x] = parentScript[x]
  PROVE  RootedIn(pActiveScripts)'
<1>1. ASSUME NEW o \in pActiveScripts \ D, parentScript[o] # NoObj
      PROVE  /\ parentScript[o] \in pActiveScripts'
             /\ o \in childScripts'[parentScript[o]]
  <2>1. parentScript[o] \in pActiveScripts /\ o \in childScripts[parentScript[o]]
    BY <1>1 DEF FamilyInv
  <2>2. parentScript[o] \in Obj /\ parentScript[o] \notin D
    BY <1>1, <2>1 DEF ClosedDown, MemoryInv, TypeOK
  <2>3. QED BY <1>1, <2>1, <2>2
<1>2. ASSUME NEW o \in pActiveScripts \ D, NEW b, b = bufferOwner[o]
      PROVE  b \in pActiveScripts' /\ o \in Subtree(b)'
  <2>1. b \in pActiveScripts /\ o \in Subtree(b) /\ b \in Obj
    BY <1>2 DEF FamilyInv, MemoryInv, TypeOK
  <2>2. o \in Subtree(b)' /\ b \notin D
    BY <1>2, <2>1, SubtreeKept
  <2>3. QED BY <2>1, <2>2
<1>3. ASSUME NEW o \in pActiveScripts \ D
      PROVE  (bufferOwner[o] \in pActiveScripts /\ o \in Subtree(bufferOwner[o]))'
  BY <1>2, <1>3 DEF Subtree
<1>4. QED BY <1>1, <1>3 DEF RootedIn

LEMMA FamilyRemoveScripts ==
  ASSUME MemoryInv, FamilyInv, NEW R \in SUBSET pActiveScripts, RemoveScripts(R),
         TerminateUnchanged, current' \in {current, NoObj},
         current' \notin Forest(R)
  PROVE  FamilyInv'
<1> DEFINE D == Forest(R)
<1>1. D \subseteq allocated /\ ClosedDown(D) /\ D \subseteq Obj
  BY RemovedForest DEF MemoryInv, TypeOK, ListsAreValid
<1>2. /\ Detach(D) /\ pActiveScripts' = pActiveScripts \ D
      /\ ScriptsWaitingForDelete' = ScriptsWaitingForDelete \cup D
      /\ UNCHANGED <<allocated, bufferOwner>>
  BY RemovedDequeue DEF RemoveScripts, Unregister, TerminateUnchanged
<1> HIDE DEF D
<1>3. /\ childScripts' \in [Obj -> SUBSET Obj]
      /\ \A x \in Obj : childScripts'[x] = childScripts[x] \ D
      /\ \A x \in Obj \ D : parentScript'[x] = parentScript[x]
      /\ \A x \in D : parentScript'[x] = NoObj
  BY <1>1, <1>2 DEF Detach, MemoryInv, TypeOK, LinksInv
<1>4. RootedIn(pActiveScripts)'
  BY <1>1, <1>2, <1>3, RootedWithout DEF MemoryInv, TypeOK
<1>5. \A o \in ScriptsWaitingForDelete' : childScripts'[o] = {}
  BY <1>1, <1>2, <1>3 DEF FamilyInv, ClosedDown, MemoryInv, TypeOK
<1>6. \A o \in Obj \ allocated' : parentScript'[o] = NoObj
  BY <1>2, <1>3 DEF FamilyInv
<1>7. current' \in Obj => current' \in pActiveScripts'
  BY <1>2, ConstantsAssumption DEF FamilyInv, D
<1>8. QED BY <1>4, <1>5, <1>6, <1>7 DEF FamilyInv, RootedIn

LEMMA FamilyTerminate ==
  ASSUME MemoryInv, FamilyInv, "ancestor" \notin Faults,
         \/ opcode_004E
         \/ \E t \in Obj : opcode_2408(t)
         \/ \E name \in File : opcode_0ABA(name)
  PROVE  FamilyInv'
<1>0. \A R \in SUBSET pActiveScripts : Forest(R) \subseteq Obj
  BY DEF Forest, Subtree
<1>1. ASSUME opcode_004E PROVE FamilyInv'
  <2>1. {current} \subseteq pActiveScripts
    BY <1>1, TerminableIsQueued DEF opcode_004E
  <2>2. QED BY <1>0, <1>1, <2>1, FamilyRemoveScripts, ConstantsAssumption DEF opcode_004E
<1>2. ASSUME NEW t \in Obj, opcode_2408(t) PROVE FamilyInv'
  <2>1. {t} \subseteq pActiveScripts
    BY <1>2, TerminableIsQueued DEF opcode_2408
  <2>2. Forest({t}) = Subtree(t) /\ NoObj \notin Subtree(t)
    BY ConstantsAssumption DEF Forest, Subtree
  <2>3. QED BY <1>2, <2>1, <2>2, FamilyRemoveScripts DEF opcode_2408
<1>3. ASSUME NEW name \in File, opcode_0ABA(name) PROVE FamilyInv'
  <2> DEFINE named == {s \in Registered : codeChecksum[s] = name}
             found == {s \in named : \A t \in named \ {s} : s \notin Subtree(t)}
  <2>1. found \subseteq pActiveScripts
    BY DEF MemoryInv, TerminatedIsUnreachable
  <2>2. /\ RemoveScripts(found) /\ TerminateUnchanged
        /\ current \notin Forest(found) \ found
        /\ current' = IF current \in found THEN NoObj ELSE current
    BY <1>3 DEF opcode_0ABA
  <2> HIDE DEF found
  <2>3. current' \notin Forest(found)
    BY <1>0, <2>1, <2>2, ConstantsAssumption
  <2>4. QED BY <2>1, <2>2, <2>3, FamilyRemoveScripts
<1>4. QED BY <1>1, <1>2, <1>3

LEMMA FamilyProcessScript ==
  ASSUME MemoryInv, FamilyInv, NEW p \in Obj \cup {Native}, ProcessScript(p)
  PROVE  FamilyInv'
<1> DEFINE D == ScriptsWaitingForDelete
<1>1. D \subseteq Obj /\ pActiveScripts \cap D = {} /\ ClosedDown(D)
  BY DEF MemoryInv, TypeOK, TerminatedIsUnreachable, FamilyInv, ClosedDown
<1>2. /\ Delete(D) /\ ScriptsWaitingForDelete' = {} /\ UNCHANGED pActiveScripts
      /\ current' \in {p, NoObj} /\ p \in pActiveScripts \cup {Native}
  BY DEF ProcessScript, DeleteWaitingScripts, Processable
<1> HIDE DEF D
<1>3. /\ childScripts' = [o \in Obj |-> IF o \in D THEN {} ELSE childScripts[o]]
      /\ bufferOwner' = [o \in Obj |-> IF o \in D THEN NoObj ELSE bufferOwner[o]]
      /\ parentScript' = [o \in Obj |-> IF o \in D THEN NoObj ELSE parentScript[o]]
      /\ allocated' = allocated \ D
  BY <1>2 DEF Delete
<1>4. /\ childScripts' \in [Obj -> SUBSET Obj]
      /\ \A x \in Obj : childScripts[x] \ D \subseteq childScripts'[x]
  BY <1>1, <1>3 DEF MemoryInv, TypeOK, ClosedDown
<1>5. RootedIn(pActiveScripts)'
  BY <1>1, <1>2, <1>3, <1>4, RootedWithout DEF MemoryInv, TypeOK
<1>6. \A o \in Obj \ allocated' : parentScript'[o] = NoObj
  BY <1>3 DEF FamilyInv
<1>7. current' \in Obj => current' \in pActiveScripts'
  BY <1>2, ConstantsAssumption
<1>8. QED BY <1>2, <1>5, <1>6, <1>7 DEF FamilyInv, RootedIn

LEMMA FamilyGameEnd == MemoryInv /\ FamilyInv /\ GameEnd => FamilyInv'
<1> SUFFICES ASSUME MemoryInv, FamilyInv, GameEnd PROVE FamilyInv'
  OBVIOUS
<1>0. current' = NoObj /\ current = NoObj
  BY DEF GameEnd
<1>1. CASE ~scriptsLoaded
  BY <1>0, <1>1, FamilyUnchanged DEF GameEnd, objectVars, registryVars
<1>2. CASE scriptsLoaded
  <2> DEFINE R == Forest(Registered)
             D == R \cup ScriptsWaitingForDelete
  <2>1. Registered \subseteq allocated
    BY DEF MemoryInv, ListsAreValid
  <2>2. R \subseteq Obj /\ ClosedDown(R)
    BY <2>1, RemovedForest DEF MemoryInv, TypeOK
  <2>3. /\ childScripts' = [o \in Obj |->
             IF o \in D THEN {}
             ELSE {c \in childScripts[o] : ~(c \in R /\ parentScript[c] = o)}]
        /\ bufferOwner' = [o \in Obj |-> IF o \in D THEN NoObj ELSE bufferOwner[o]]
        /\ parentScript' = [o \in Obj |-> IF o \in D THEN NoObj ELSE parentScript[o]]
        /\ allocated' = allocated \ D
        /\ ScriptsWaitingForDelete' = {}
        /\ pActiveScripts' = pActiveScripts \ R
    BY <1>2, RegisteredDequeue DEF GameEnd, RemoveAllCustomScripts, RemoveAll
  <2> HIDE DEF R
  <2>4. D \subseteq Obj /\ ClosedDown(D) /\ pActiveScripts' = pActiveScripts \ D
    BY <2>2, <2>3
       DEF MemoryInv, TypeOK, FamilyInv, ClosedDown, TerminatedIsUnreachable
  <2>5. /\ childScripts' \in [Obj -> SUBSET Obj]
        /\ \A x \in Obj : childScripts[x] \ D \subseteq childScripts'[x]
    BY <2>3, <2>4 DEF MemoryInv, TypeOK, ClosedDown
  <2>6. RootedIn(pActiveScripts)'
    BY <2>3, <2>4, <2>5, RootedWithout DEF MemoryInv, TypeOK
  <2>7. \A o \in Obj \ allocated' : parentScript'[o] = NoObj
    BY <2>3 DEF FamilyInv
  <2>8. QED BY <1>0, <2>3, <2>6, <2>7, ConstantsAssumption DEF FamilyInv, RootedIn
<1>3. QED BY <1>1, <1>2

\* The scripts of the set new join the queue, without a parent and with a
\* buffer of their own.
LEMMA FamilyNewRoots ==
  ASSUME MemoryInv, FamilyInv, NEW new \in SUBSET (Obj \ allocated),
         allocated' = allocated \cup new,
         pActiveScripts' = pActiveScripts \cup new,
         UNCHANGED <<parentScript, childScripts, ScriptsWaitingForDelete>>,
         \A o \in new : bufferOwner'[o] = o,
         \A o \in allocated : bufferOwner'[o] = bufferOwner[o],
         current' \in {current, NoObj, Native}
  PROVE  FamilyInv'
<1>1. \A b : Subtree(b)' = Subtree(b)
  BY DEF Subtree, ClosedDown
<1>2. pActiveScripts \subseteq allocated
  BY DEF MemoryInv, ListsAreValid
<1>3. \A o \in new : parentScript[o] = NoObj /\ o \in Subtree(o)
  BY SubtreeHasRoot DEF FamilyInv
<1>4. \A o \in pActiveScripts : o \in Subtree(bufferOwner'[o])
  BY <1>2 DEF FamilyInv
<1>5. \A o \in new : o \in Subtree(bufferOwner'[o])
  BY <1>3
<1>6. \A o \in pActiveScripts' : (o \in Subtree(bufferOwner[o]))'
  BY <1>4, <1>5 DEF Subtree, ClosedDown
<1>7. \A o \in pActiveScripts' :
        /\ parentScript'[o] # NoObj => /\ parentScript'[o] \in pActiveScripts'
                                       /\ o \in childScripts'[parentScript'[o]]
        /\ bufferOwner'[o] \in pActiveScripts'
  BY <1>2, <1>3 DEF FamilyInv
<1>8. QED BY <1>6, <1>7, ConstantsAssumption DEF FamilyInv

LEMMA FamilyCreateFromLabel ==
  ASSUME MemoryInv, FamilyInv, NEW o \in Obj, CreateFromLabel(o)
  PROVE  FamilyInv'
<1> USE DEF CreateFromLabel, Construct, Queue
<1>1. /\ current \in pActiveScripts /\ current \in Obj /\ o \notin allocated
      /\ pActiveScripts' = pActiveScripts \cup {o}
      /\ pActiveScripts \subseteq allocated /\ pActiveScripts \subseteq Obj
  BY DEF FamilyInv, MemoryInv, TypeOK, ListsAreValid
<1>2. /\ \A x \in Obj : childScripts[x] \subseteq childScripts'[x]
      /\ o \in childScripts'[current]
      /\ \A x \in Obj \ {current} : childScripts'[x] = childScripts[x]
  BY <1>1 DEF MemoryInv, TypeOK
<1>3. ASSUME NEW b \in Obj, NEW x \in Subtree(b) PROVE x \in Subtree(b)'
  BY <1>2, <1>3 DEF Subtree, ClosedDown
<1>4. ASSUME NEW b \in Obj, NEW x \in Subtree(b), x = current PROVE o \in Subtree(b)'
  <2>1. x \in Subtree(b)'
    BY <1>3, <1>4
  <2>2. ASSUME NEW S \in SUBSET Obj, b \in S, ClosedDown(S)' PROVE o \in S
    BY <1>2, <1>4, <2>1, <2>2 DEF Subtree, ClosedDown
  <2>3. QED BY <2>2 DEF Subtree
<1>5. ASSUME NEW x \in pActiveScripts, NEW b, b = bufferOwner[x]
      PROVE  b \in pActiveScripts /\ x \in Subtree(b)' /\ (x = current => o \in Subtree(b)')
  BY <1>1, <1>3, <1>4, <1>5 DEF FamilyInv
<1>6. /\ bufferOwner'[o] = bufferOwner[current]
      /\ \A x \in pActiveScripts : bufferOwner'[x] = bufferOwner[x]
      /\ parentScript'[o] = current
      /\ \A x \in Obj \ {o} : parentScript'[x] = parentScript[x]
  BY <1>1 DEF MemoryInv, TypeOK
<1>7. ASSUME NEW x \in pActiveScripts'
      PROVE  bufferOwner'[x] \in pActiveScripts' /\ (x \in Subtree(bufferOwner[x]))'
  <2>1. CASE x = o
    BY <1>1, <1>5, <1>6, <2>1 DEF Subtree
  <2>2. CASE x \in pActiveScripts
    BY <1>5, <1>6, <2>2 DEF Subtree
  <2>3. QED BY <1>1, <1>7, <2>1, <2>2
<1>8. ASSUME NEW x \in pActiveScripts', parentScript'[x] # NoObj
      PROVE  parentScript'[x] \in pActiveScripts' /\ x \in childScripts'[parentScript'[x]]
  BY <1>1, <1>2, <1>6, <1>8 DEF FamilyInv
<1>9. \A x \in ScriptsWaitingForDelete' : childScripts'[x] = {}
  BY <1>1, <1>2 DEF FamilyInv, MemoryInv, TerminatedIsUnreachable, TypeOK
<1>10. \A x \in Obj \ allocated' : parentScript'[x] = NoObj
  BY <1>6 DEF FamilyInv
<1>11. QED BY <1>1, <1>7, <1>8, <1>9, <1>10 DEF FamilyInv

LEMMA FamilyCreateRoot ==
  ASSUME MemoryInv, FamilyInv, NEW o \in Obj, NEW f \in File,
         opcode_0A92(o, f) \/ opcode_0A94(o, f)
  PROVE  FamilyInv'
<1>1. {o} \in SUBSET (Obj \ allocated)
  BY DEF opcode_0A92, opcode_0A94
<1>2. /\ allocated' = allocated \cup {o} /\ pActiveScripts' = pActiveScripts \cup {o}
      /\ UNCHANGED <<parentScript, childScripts, ScriptsWaitingForDelete>>
      /\ current' = current
  BY <1>1 DEF opcode_0A92, opcode_0A94, Construct, Queue, FamilyInv, MemoryInv, TypeOK
<1>3. /\ bufferOwner'[o] = o
      /\ \A x \in allocated : bufferOwner'[x] = bufferOwner[x]
  BY <1>1 DEF opcode_0A92, opcode_0A94, Construct, MemoryInv, TypeOK
<1>4. QED BY <1>1, <1>2, <1>3, FamilyNewRoots

LEMMA FamilyGameBegin == MemoryInv /\ FamilyInv /\ GameBegin => FamilyInv'
<1> SUFFICES ASSUME MemoryInv, FamilyInv, GameBegin PROVE FamilyInv'
  OBVIOUS
<1>1. PICK new \in SUBSET (Obj \ allocated) :
        /\ allocated' = allocated \cup new
        /\ bufferOwner' = [o \in Obj |-> IF o \in new THEN o ELSE bufferOwner[o]]
        /\ pActiveScripts' = pActiveScripts \cup new
  <2> DEFINE start == AutoFile \ SaveLoaded.stopped
  <2>1. PICK n \in [start -> Obj \ allocated] :
          LET made == {n[f] : f \in start} IN
          /\ allocated' = allocated \cup made
          /\ bufferOwner' = [o \in Obj |-> IF o \in made THEN o ELSE bufferOwner[o]]
          /\ pActiveScripts' = pActiveScripts \cup made
    BY Zenon DEF GameBegin, LoadCustomScripts
  <2>2. {n[f] : f \in start} \in SUBSET (Obj \ allocated)
    BY <2>1
  <2>3. QED BY <2>1, <2>2
<1>2. /\ UNCHANGED <<parentScript, childScripts, ScriptsWaitingForDelete>>
      /\ current' \in {current, NoObj, Native}
  BY DEF GameBegin
<1>3. allocated \subseteq Obj
  BY DEF MemoryInv, TypeOK
<1>4. /\ \A o \in new : bufferOwner'[o] = o
      /\ \A o \in allocated : bufferOwner'[o] = bufferOwner[o]
  BY <1>1, <1>3
<1>5. QED BY <1>1, <1>2, <1>4, FamilyNewRoots

LEMMA FamilySessionBegin ==
  ASSUME MemoryInv, FamilyInv, NEW slot \in Slot \ {"none"}, SessionBegin(slot)
  PROVE  FamilyInv'
<1>1. current = NoObj
  BY DEF SessionBegin, MemoryInv, SessionInv
<1>2. QED BY <1>1, ConstantsAssumption DEF SessionBegin, objectVars, FamilyInv

LEMMA FamilyOthers ==
  ASSUME MemoryInv, FamilyInv,
         EndProcess \/ opcode_0A94_ReadError \/ opcode_0A95 \/ TrySuspendScript
           \/ NativeMissionStart \/ NativeMissionEnd \/ SaveScmData \/ UNCHANGED vars
  PROVE  FamilyInv'
<1>1. SaveScmData => pActiveScripts' = pActiveScripts
  BY DEF SaveScmData, QueueWhileSaving, Queue, MemoryInv, TerminatedIsUnreachable,
         Registered
<1>2. UNCHANGED <<allocated, parentScript, childScripts, bufferOwner,
                  ScriptsWaitingForDelete, pActiveScripts>>
  BY <1>1 DEF EndProcess, opcode_0A94_ReadError, opcode_0A95, TrySuspendScript,
     NativeMissionStart, NativeMissionEnd, SaveScmData, vars, objectVars, registryVars
<1>3. current' \in {current, NoObj, Native}
  BY DEF EndProcess, opcode_0A94_ReadError, opcode_0A95, TrySuspendScript,
     NativeMissionStart, NativeMissionEnd, SaveScmData, vars
<1>4. QED BY <1>2, <1>3, FamilyUnchanged

LEMMA FamilyStep ==
  "ancestor" \notin Faults /\ MemoryInv /\ FamilyInv /\ [Next]_vars => FamilyInv'
BY NothingDeletedIsTerminated, FamilySessionBegin, FamilyGameBegin, FamilyGameEnd,
   FamilyProcessScript, FamilyCreateRoot, FamilyCreateFromLabel, FamilyTerminate,
   FamilyOthers DEF Next

----------------------------------------------------------------------------
(* Scripts outside the queue: those that wait for deletion, and suspended missions that  *)
(* another one replaced as CustomMission, which are never deleted.                       *)

StrayInv ==
  /\ missions \subseteq allocated
  /\ \A o \in missions : parentScript[o] = NoObj /\ bufferOwner[o] = o
  /\ pActiveScripts \subseteq CustomScripts \cup missions
  /\ allocated \subseteq pActiveScripts \cup ScriptsWaitingForDelete \cup missions
  /\ \A o \in ScriptsWaitingForDelete :
       parentScript[o] = NoObj /\ bufferOwner[o] \in allocated

LEMMA StrayInit == Init => StrayInv
BY DEF Init, StrayInv

LEMMA StrayRemoveScripts ==
  ASSUME MemoryInv, FamilyInv, StrayInv, NEW R \in SUBSET pActiveScripts,
         RemoveScripts(R), TerminateUnchanged
  PROVE  StrayInv'
<1> DEFINE D == Forest(R)
<1>1. /\ Detach(D) /\ pActiveScripts' = pActiveScripts \ D
      /\ CustomScripts' = CustomScripts \ D
      /\ ScriptsWaitingForDelete' = ScriptsWaitingForDelete \cup D
      /\ UNCHANGED <<allocated, bufferOwner, missions>>
  BY RemovedDequeue DEF RemoveScripts, Unregister, TerminateUnchanged
<1>2. D \subseteq pActiveScripts /\ pActiveScripts \subseteq allocated /\ allocated \subseteq Obj
  BY RemovedQueued DEF MemoryInv, ListsAreValid, TypeOK
<1>3. \A o \in D : bufferOwner[o] \in allocated
  BY <1>2 DEF FamilyInv
<1> HIDE DEF D
<1>4. /\ \A o \in Obj \ D : parentScript'[o] = parentScript[o]
      /\ \A o \in D : parentScript'[o] = NoObj
  BY <1>1, <1>2 DEF Detach
<1>5. QED BY <1>1, <1>2, <1>3, <1>4 DEF StrayInv, MemoryInv, TypeOK

LEMMA StrayTerminate ==
  ASSUME MemoryInv, FamilyInv, StrayInv,
         \/ opcode_004E
         \/ \E t \in Obj : opcode_2408(t)
         \/ \E name \in File : opcode_0ABA(name)
  PROVE  StrayInv'
<1>1. PICK R \in SUBSET pActiveScripts : RemoveScripts(R) /\ TerminateUnchanged
  <2>1. ASSUME opcode_004E
        PROVE  {current} \in SUBSET pActiveScripts /\ RemoveScripts({current}) /\ TerminateUnchanged
    BY <2>1, TerminableIsQueued DEF opcode_004E
  <2>2. ASSUME NEW t \in Obj, opcode_2408(t)
        PROVE  {t} \in SUBSET pActiveScripts /\ RemoveScripts({t}) /\ TerminateUnchanged
    BY <2>2, TerminableIsQueued DEF opcode_2408
  <2>3. ASSUME NEW name \in File, opcode_0ABA(name)
        PROVE  \E R \in SUBSET pActiveScripts : RemoveScripts(R) /\ TerminateUnchanged
    <3> DEFINE named == {s \in Registered : codeChecksum[s] = name}
               found == {s \in named : \A t \in named \ {s} : s \notin Subtree(t)}
    <3>1. found \in SUBSET pActiveScripts
      BY DEF MemoryInv, TerminatedIsUnreachable
    <3>2. RemoveScripts(found) /\ TerminateUnchanged
      BY <2>3 DEF opcode_0ABA
    <3> HIDE DEF found
    <3>3. QED BY <3>1, <3>2
  <2>4. QED BY <2>1, <2>2, <2>3
<1>2. QED BY <1>1, StrayRemoveScripts

\* Between two sessions only replaced missions are left.
LEMMA StraySession ==
  ASSUME MemoryInv, StrayInv, \E slot \in Slot \ {"none"} : SessionBegin(slot)
  PROVE  StrayInv'
<1>1. CustomScripts = {} /\ ScriptsWaitingForDelete = {}
  BY DEF SessionBegin, MemoryInv, SessionInv, SessionsAreIsolated, Registered
<1>2. QED BY <1>1 DEF SessionBegin, objectVars, StrayInv

LEMMA StrayGameEnd ==
  ASSUME MemoryInv, StrayInv, GameEnd
  PROVE  StrayInv'
<1>1. CASE ~scriptsLoaded
  BY <1>1 DEF GameEnd, objectVars, registryVars, StrayInv
<1>2. CASE scriptsLoaded
  <2> DEFINE R == Forest(Registered)
             D == R \cup ScriptsWaitingForDelete
  <2>1. /\ bufferOwner' = [o \in Obj |-> IF o \in D THEN NoObj ELSE bufferOwner[o]]
        /\ parentScript' = [o \in Obj |-> IF o \in D THEN NoObj ELSE parentScript[o]]
        /\ allocated' = allocated \ D /\ missions' = missions \ D
        /\ ScriptsWaitingForDelete' = {}
        /\ CustomScripts' = CustomScripts \ R
        /\ pActiveScripts' = pActiveScripts \ R
    BY <1>2, RegisteredDequeue DEF GameEnd, RemoveAllCustomScripts, RemoveAll
  <2>2. CustomScripts \subseteq R
    <3>1. Registered \subseteq allocated
      BY DEF MemoryInv, ListsAreValid
    <3>2. QED BY <3>1, RemovedForest DEF Registered
  <2> HIDE DEF R
  <2>3. QED BY <2>1, <2>2 DEF StrayInv, MemoryInv, TypeOK, TerminatedIsUnreachable
<1>3. QED BY <1>1, <1>2

LEMMA StrayProcessScript ==
  ASSUME MemoryInv, StrayInv, NEW p \in Obj \cup {Native}, ProcessScript(p)
  PROVE  StrayInv'
BY DEF ProcessScript, DeleteWaitingScripts, Delete, StrayInv, MemoryInv, TypeOK,
       TerminatedIsUnreachable

LEMMA StrayGameBegin ==
  ASSUME MemoryInv, StrayInv, GameBegin
  PROVE  StrayInv'
<1>1. PICK new \in SUBSET (Obj \ allocated) :
        /\ allocated' = allocated \cup new
        /\ bufferOwner' = [o \in Obj |-> IF o \in new THEN o ELSE bufferOwner[o]]
        /\ CustomScripts' = CustomScripts \cup new
        /\ pActiveScripts' = pActiveScripts \cup new
  <2> DEFINE start == AutoFile \ SaveLoaded.stopped
  <2>1. PICK n \in [start -> Obj \ allocated] :
          LET made == {n[f] : f \in start} IN
          /\ allocated' = allocated \cup made
          /\ bufferOwner' = [o \in Obj |-> IF o \in made THEN o ELSE bufferOwner[o]]
          /\ CustomScripts' = CustomScripts \cup made
          /\ pActiveScripts' = pActiveScripts \cup made
    BY Zenon DEF GameBegin, LoadCustomScripts
  <2>2. {n[f] : f \in start} \in SUBSET (Obj \ allocated)
    BY <2>1
  <2>3. QED BY <2>1, <2>2
<1>2. UNCHANGED <<parentScript, missions, ScriptsWaitingForDelete>>
  BY DEF GameBegin
<1>3. QED BY <1>1, <1>2 DEF StrayInv, MemoryInv, TypeOK, ListsAreValid

LEMMA StrayCreate ==
  ASSUME MemoryInv, StrayInv, NEW o \in Obj,
         \/ \E f \in File : opcode_0A92(o, f) \/ opcode_0A94(o, f)
         \/ CreateFromLabel(o)
  PROVE  StrayInv'
<1>1. /\ o \notin allocated /\ o \notin missions /\ o \notin ScriptsWaitingForDelete
      /\ allocated \subseteq Obj
  BY DEF opcode_0A92, opcode_0A94, CreateFromLabel, StrayInv, MemoryInv, ListsAreValid, TypeOK
<1>2. ASSUME NEW f \in File, NEW par, NEW owner, Construct(o, f, par, owner)
      PROVE  /\ pActiveScripts' = pActiveScripts \cup {o}
             /\ allocated' = allocated \cup {o}
             /\ parentScript'[o] = par /\ bufferOwner'[o] = owner
             /\ \A x \in Obj \ {o} : /\ parentScript'[x] = parentScript[x]
                                      /\ bufferOwner'[x] = bufferOwner[x]
             /\ UNCHANGED ScriptsWaitingForDelete
  BY <1>2 DEF Construct, Queue, MemoryInv, TypeOK
<1>3. ASSUME NEW f \in File, opcode_0A94(o, f) PROVE StrayInv'
  BY <1>1, <1>2, <1>3 DEF opcode_0A94, StrayInv, MemoryInv, TypeOK
<1>4. ASSUME NEW f \in File, opcode_0A92(o, f) PROVE StrayInv'
  BY <1>1, <1>2, <1>4 DEF opcode_0A92, StrayInv, MemoryInv, TypeOK
<1>5. ASSUME CreateFromLabel(o) PROVE StrayInv'
  <2>1. codeChecksum[current] \in File
    BY <1>5, ConstantsAssumption DEF CreateFromLabel, MemoryInv, ChecksumInv, ListsAreValid
  <2>2. QED BY <1>1, <1>2, <1>5, <2>1 DEF CreateFromLabel, StrayInv, MemoryInv, TypeOK
<1>6. QED BY <1>3, <1>4, <1>5

LEMMA StrayOthers ==
  ASSUME MemoryInv, StrayInv,
         EndProcess \/ opcode_0A94_ReadError \/ opcode_0A95 \/ TrySuspendScript
           \/ NativeMissionStart \/ NativeMissionEnd \/ SaveScmData \/ UNCHANGED vars
  PROVE  StrayInv'
<1>1. SaveScmData => pActiveScripts' = pActiveScripts
  BY DEF SaveScmData, QueueWhileSaving, Queue, MemoryInv, TerminatedIsUnreachable,
         Registered
<1>2. UNCHANGED <<allocated, parentScript, bufferOwner, missions, CustomScripts,
                  ScriptsWaitingForDelete, pActiveScripts>>
  BY <1>1 DEF EndProcess, opcode_0A94_ReadError, opcode_0A95, TrySuspendScript,
     NativeMissionStart, NativeMissionEnd, SaveScmData, vars, objectVars, registryVars
<1>3. QED BY <1>2 DEF StrayInv

LEMMA StrayStep == MemoryInv /\ FamilyInv /\ StrayInv /\ [Next]_vars => StrayInv'
BY NothingDeletedIsTerminated, StraySession, StrayGameBegin, StrayGameEnd,
   StrayProcessScript, StrayCreate, StrayTerminate, StrayOthers DEF Next

LEMMA FamilyAlways ==
  ASSUME "ancestor" \notin Faults, "again" \notin Faults
  PROVE  Spec => [](MemoryInv /\ FamilyInv /\ StrayInv)
<1>1. Init => MemoryInv /\ FamilyInv /\ StrayInv
  BY MemoryInit, FamilyInit, StrayInit
<1>2. MemoryInv /\ FamilyInv /\ StrayInv /\ [Next]_vars => (MemoryInv /\ FamilyInv /\ StrayInv)'
  BY MemoryStep, FamilyStep, StrayStep
<1>3. QED BY <1>1, <1>2, PTL DEF Spec

----------------------------------------------------------------------------
\* A script in the queue has its whole line of ancestors in the queue, and
\* executes code owned by a script in the queue, as long as no script
\* terminates its own ancestor.
THEOREM FamiliesAreSafe ==
  ASSUME "ancestor" \notin Faults, "again" \notin Faults
  PROVE  Spec => []FamilySafe
<1>1. MemoryInv /\ FamilyInv => FamilySafe
  BY DEF MemoryInv, FamilyInv, FamilySafe, LinksInv, TypeOK
<1>2. QED BY <1>1, FamilyAlways, PTL

\* Under the same conditions no pointer leads to a deleted script: not the lists, not the
\* parent a script detaches itself from, not the code it executes, and that for the
\* scripts that wait for deletion and for missions nobody knows any more as well.
THEOREM PointersAreValid ==
  ASSUME "ancestor" \notin Faults, "again" \notin Faults
  PROVE  Spec => []NoPointerToDeleted
<1>1. MemoryInv /\ FamilyInv /\ StrayInv => NoPointerToDeleted
  BY DEF MemoryInv, ListsAreValid, FamilyInv, StrayInv, NoPointerToDeleted,
         FamilyPointersAreValid
<1>2. QED BY <1>1, FamilyAlways, PTL

----------------------------------------------------------------------------
(* Who executes after its end, whatever goes wrong: no assumption on Faults. *)

KnownInv == /\ ScriptsWaitingForDelete \cup CustomScripts \subseteq Obj
            /\ CustomMission \in Obj \cup {NoObj}

\* What RunsOnOnlyThroughAncestor says of one step.
RunsOnStep ==
  current' \in ScriptsWaitingForDelete' =>
    /\ current' = current
    /\ \/ current \in ScriptsWaitingForDelete
       \/ \E t \in ScriptsWaitingForDelete' \ {current} : current \in Subtree(t)

\* What is removed with the scripts of R was below one of them, and if that was
\* the running script itself, the opcode interrupts it.
LEMMA KnownRemoveScripts ==
  ASSUME KnownInv, NEW R \in SUBSET Obj, RemoveScripts(R),
         current' \in {current, NoObj}, current \in R => current' = NoObj
  PROVE  KnownInv' /\ RunsOnStep
<1>1. /\ ScriptsWaitingForDelete' = ScriptsWaitingForDelete \cup Forest(R)
      /\ CustomScripts' = CustomScripts \ Forest(R)
      /\ CustomMission' \in {CustomMission, NoObj}
  BY DEF RemoveScripts, Unregister
<1>2. Forest(R) \subseteq Obj /\ R \subseteq Forest(R)
  BY SubtreeHasRoot DEF Forest, Subtree
<1>3. KnownInv'
  BY <1>1, <1>2 DEF KnownInv
<1>4. ASSUME current' \in ScriptsWaitingForDelete', current \notin ScriptsWaitingForDelete
      PROVE  \E t \in ScriptsWaitingForDelete' \ {current} : current \in Subtree(t)
  <2>1. current' = current /\ current \notin R
    BY <1>3, <1>4, ConstantsAssumption DEF KnownInv
  <2>2. PICK s \in R : current \in Subtree(s)
    BY <1>1, <1>4, <2>1 DEF Forest
  <2>3. QED BY <1>1, <1>2, <2>1, <2>2
<1>5. QED BY <1>3, <1>4, ConstantsAssumption DEF KnownInv, RunsOnStep

LEMMA KnownTerminate ==
  ASSUME KnownInv,
         \/ opcode_004E
         \/ \E t \in Obj : opcode_2408(t)
         \/ \E name \in File : opcode_0ABA(name)
  PROVE  KnownInv' /\ RunsOnStep
<1>1. ASSUME opcode_004E PROVE KnownInv' /\ RunsOnStep
  BY <1>1, KnownRemoveScripts DEF opcode_004E
<1>2. ASSUME NEW t \in Obj, opcode_2408(t) PROVE KnownInv' /\ RunsOnStep
  <2>1. /\ RemoveScripts({t}) /\ current' \in {current, NoObj}
        /\ current \in {t} => current' = NoObj
    BY <1>2 DEF opcode_2408
  <2>2. QED BY <2>1, KnownRemoveScripts
<1>3. ASSUME NEW name \in File, opcode_0ABA(name) PROVE KnownInv' /\ RunsOnStep
  <2> DEFINE named == {s \in Registered : codeChecksum[s] = name}
             found == {s \in named : \A t \in named \ {s} : s \notin Subtree(t)}
  <2>1. /\ RemoveScripts(found) /\ current' \in {current, NoObj}
        /\ current \in found => current' = NoObj
    BY <1>3 DEF opcode_0ABA
  <2>2. found \in SUBSET Obj
    BY DEF KnownInv, Registered
  <2> HIDE DEF found
  <2>3. QED BY <2>1, <2>2, KnownRemoveScripts
<1>4. QED BY <1>1, <1>2, <1>3

\* No other operation terminates a script, and the deletion is done when the hook
\* enters the next one.
LEMMA KnownOthers ==
  ASSUME KnownInv, [Next]_vars,
         ~ \/ opcode_004E
           \/ \E t \in Obj : opcode_2408(t)
           \/ \E name \in File : opcode_0ABA(name)
  PROVE  KnownInv' /\ RunsOnStep
<1> USE ConstantsAssumption DEF KnownInv, RunsOnStep
<1>1. CASE \E p \in Obj \cup {Native} : ProcessScript(p)
  BY <1>1 DEF ProcessScript, DeleteWaitingScripts
<1>2. CASE GameEnd
  BY <1>2 DEF GameEnd, RemoveAllCustomScripts, RemoveAll, registryVars
<1>3. CASE GameBegin
  <2>1. PICK made \in SUBSET Obj : CustomScripts' = CustomScripts \cup made
    <3> DEFINE start == AutoFile \ SaveLoaded.stopped
    <3>1. PICK n \in [start -> Obj \ allocated] :
            CustomScripts' = CustomScripts \cup {n[f] : f \in start}
      BY <1>3, Zenon DEF GameBegin, LoadCustomScripts
    <3>2. {n[f] : f \in start} \in SUBSET Obj
      BY <3>1
    <3>3. QED BY <3>1, <3>2
  <2>2. QED BY <1>3, <2>1 DEF GameBegin
<1>4. CASE \E o \in Obj, f \in File : opcode_0A92(o, f) \/ opcode_0A94(o, f)
  BY <1>4 DEF opcode_0A92, opcode_0A94, Construct
<1>5. CASE \E o \in Obj : CreateFromLabel(o)
  BY <1>5 DEF CreateFromLabel, Construct
<1>6. CASE \E t \in Obj : opcode_2408_Deleted(t)
  BY <1>6 DEF opcode_2408_Deleted
<1>7. CASE \E slot \in Slot \ {"none"} : SessionBegin(slot)
  BY <1>7 DEF SessionBegin
<1>8. CASE EndProcess \/ opcode_0A94_ReadError \/ opcode_0A95 \/ TrySuspendScript
             \/ NativeMissionStart \/ NativeMissionEnd \/ SaveScmData \/ UNCHANGED vars
  BY <1>8 DEF EndProcess, opcode_0A94_ReadError, opcode_0A95, TrySuspendScript,
     NativeMissionStart, NativeMissionEnd, SaveScmData, registryVars, vars
<1>9. QED
  BY <1>1, <1>2, <1>3, <1>4, <1>5, <1>6, <1>7, <1>8 DEF Next

----------------------------------------------------------------------------
\* A script goes on executing after its end only when it was removed through an ancestor
\* while it ran: whatever is terminated in its own right, by whichever opcode, stops, and
\* what was terminated is never entered again.  Nothing is assumed of what may go wrong.
THEOREM TerminatedStops == Spec => RunsOnOnlyThroughAncestor
<1>1. Init => KnownInv
  BY DEF Init, KnownInv
<1>2. KnownInv /\ [Next]_vars => KnownInv' /\ RunsOnStep
  BY KnownTerminate, KnownOthers
<1>3. KnownInv /\ [Next]_vars =>
        [current' \in ScriptsWaitingForDelete' =>
           /\ current' = current
           /\ \/ current \in ScriptsWaitingForDelete
              \/ \E t \in ScriptsWaitingForDelete' \ {current} : current \in Subtree(t)]_vars
  BY <1>2 DEF RunsOnStep
<1>4. QED BY <1>1, <1>2, <1>3, PTL DEF Spec, RunsOnOnlyThroughAncestor
=============================================================================
