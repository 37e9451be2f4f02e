--------------------------- MODULE CleoCallsProofs ---------------------------
(***************************************************************************)
(* Proofs about CleoCalls, for any number of scripts, modules and slots,   *)
(* and that it implements CallStack.                                       *)
(***************************************************************************)
EXTENDS CleoCalls, SequenceTheorems, WellFoundedInduction, TLAPS

----------------------------------------------------------------------------
(* Sequences and the store *)

\* Pushing on a stack keeps what is below.
LEMMA PushProperties ==
  ASSUME NEW T, NEW q \in Seq(T), NEW x \in T
  PROVE  /\ Append(q, x) \in Seq(T)
         /\ Len(Append(q, x)) = Len(q) + 1
         /\ \A i \in 1..Len(q) : Append(q, x)[i] = q[i]
         /\ Append(q, x)[Len(q) + 1] = x
OBVIOUS

\* Popping from a stack keeps what is below.
LEMMA PopProperties ==
  ASSUME NEW T, NEW q \in Seq(T)
  PROVE  /\ SubSeq(q, 1, Len(q) - 1) \in Seq(T)
         /\ q # <<>> => Len(SubSeq(q, 1, Len(q) - 1)) = Len(q) - 1
         /\ q = <<>> => SubSeq(q, 1, Len(q) - 1) = <<>>
         /\ \A i \in 1..(Len(q) - 1) : SubSeq(q, 1, Len(q) - 1)[i] = q[i]
<1> DEFINE p == SubSeq(q, 1, Len(q) - 1)
<1>1. Len(q) \in Nat /\ \A i \in 1..(Len(q) - 1) : q[i] \in T
  BY LenProperties, ElementOfSeq
<1>2. q # <<>> => Len(q) >= 1
  BY EmptySeq
<1>3. /\ p \in Seq(T)
      /\ Len(p) = IF 1 <= Len(q) - 1 THEN Len(q) - 1 - 1 + 1 ELSE 0
      /\ \A i \in 1..(Len(q) - 1 - 1 + 1) : p[i] = q[1 + i - 1]
  <2>1. 1 \in Int /\ Len(q) - 1 \in Int
    BY <1>1
  <2> QED
    BY <1>1, <2>1, SubSeqProperties
<1>4. q = <<>> => p = <<>>
  <2>1. SUFFICES ASSUME q = <<>> PROVE SubSeq(q, 1, Len(q) - 1) = <<>>
    OBVIOUS
  <2>2. Len(q) = 0
    BY <2>1
  <2>3. 1 \in Int /\ Len(q) - 1 \in Int /\ Len(q) - 1 < 1
    BY <2>2
  <2> QED
    BY <2>3, SubSeqEmpty
<1>5. /\ p \in Seq(T)
      /\ q # <<>> => Len(p) = Len(q) - 1
      /\ q = <<>> => p = <<>>
      /\ \A i \in 1..(Len(q) - 1) : p[i] = q[i]
  <2> HIDE DEF p
  <2>1. q # <<>> => Len(p) = Len(q) - 1
    <3> SUFFICES ASSUME q # <<>> PROVE Len(p) = Len(q) - 1
      OBVIOUS
    <3>0. Len(q) >= 1
      BY <1>2
    <3>1. CASE Len(q) >= 2
      BY <1>1, <1>3, <3>1
    <3>2. CASE Len(q) = 1
      BY <1>1, <1>3, <3>2
    <3>3. Len(q) >= 2 \/ Len(q) = 1
      <4>1. \A n \in Nat : n >= 1 => n >= 2 \/ n = 1
        OBVIOUS
      <4> QED
        BY <1>1, <3>0, <4>1, Zenon
    <3> QED
      BY <3>1, <3>2, <3>3, Zenon
  <2>2. \A i \in 1..(Len(q) - 1) : p[i] = q[i]
    BY <1>1, <1>3
  <2> QED
    BY <1>3, <1>4, <2>1, <2>2
<1> QED
  BY <1>5, Zenon

\* A nonempty set of naturals has a least element.
LEMMA LeastNatural ==
  ASSUME NEW S \in SUBSET Nat, S # {}
  PROVE  \E x \in S : \A y \in S : x <= y
<1> DEFINE R == {ab \in Nat \X Nat : ab[1] < ab[2]}
<1>1. IsWellFoundedOn(R, Nat)
  BY NatLessThanWellFounded DEF OpToRel
<1>2. \A a, b \in Nat : <<a, b>> \notin R => b <= a
  OBVIOUS
<1> HIDE DEF R
<1>3. \E x \in S : \A y \in S : ~(<<y, x>> \in R)
  BY <1>1, WFMin
<1>4. PICK x \in S : \A y \in S : <<y, x>> \notin R
  BY <1>3
<1>5. \A y \in S : x <= y
  BY <1>2, <1>4
<1> QED
  BY <1>5

\* The search for a slot finds an unused one if there is one.
LEMMA SearchFinds ==
  ASSUME allocationPlace \in Slot, Unused # {}
  PROVE  FirstUnused \in Unused
<1> DEFINE D == {Distance(id) : id \in Unused}
<1>1. \A id \in Unused : Distance(id) \in Nat
  BY ConstantsAssumption DEF Unused, Slot, Distance
<1>2. D \in SUBSET Nat /\ D # {}
  BY <1>1
<1>3. PICK d \in D : \A e \in D : d <= e
  BY <1>2, LeastNatural
<1>4. PICK id \in Unused : Distance(id) = d
  BY <1>3
<1>5. \A other \in Unused : Distance(id) <= Distance(other)
  BY <1>3, <1>4
<1> QED
  BY <1>5 DEF FirstUnused

----------------------------------------------------------------------------
(* Types *)

SavedStacksFit == \A id \in Slot : store[id] # NoFrame => Len(store[id].savedStack) <= StackSize

TypeInv == TypeOK /\ SavedStacksFit

LEMMA SlotsAreNotZero ==
  /\ 0 \notin Slot
  /\ 1 \in Slot
  /\ NoFrame \notin Frame
  /\ \A id \in Slot : id \in Nat
BY ConstantsAssumption DEF Slot, NoFrame, Frame

LEMMA StoredFrame ==
  ASSUME TypeOK, NEW id \in Slot, store[id] # NoFrame
  PROVE  store[id] \in Frame
BY DEF TypeOK

LEMMA LocalsType ==
  ASSUME TypeOK, NEW s \in Script
  PROVE  /\ Locals(s) \in [1..NumLocals -> Val]
         /\ GetScriptFileDir(s) \in Code
         /\ Cleared \in [1..NumLocals -> Val]
         /\ \A args \in Arguments : FunctionLocals(s, args) \in [1..NumLocals -> Val]
<1>1. /\ Locals(s) \in [1..NumLocals -> Val]
      /\ GetScriptFileDir(s) \in Code
      /\ Cleared \in [1..NumLocals -> Val]
  BY ConstantsAssumption DEF TypeOK, Locals, GetScriptFileDir, Cleared
<1>2. ASSUME NEW args \in Arguments PROVE FunctionLocals(s, args) \in [1..NumLocals -> Val]
  <2>1. PICK n \in 0..NumLocals : args \in [1..n -> Val]
    BY <1>2 DEF Arguments
  <2>2. args \in Seq(Val) /\ Len(args) = n
    <3>1. n \in Nat
      BY ConstantsAssumption
    <3>2. args \in Seq(Val)
      BY <2>1, <3>1, SeqDef
    <3> QED
      BY <2>1, <3>1, <3>2, LenProperties
  <2>3. \A i \in 1..NumLocals : i <= Len(args) => args[i] \in Val
    BY <2>1, <2>2, ConstantsAssumption
  <2>4. \A i \in 1..NumLocals :
          (IF i <= Len(args) THEN args[i] ELSE IF Version[s] < 4 THEN Locals(s)[i] ELSE Zero) \in Val
    BY <1>1, <2>3, ConstantsAssumption
  <2> QED
    BY <2>4, Zenon DEF FunctionLocals
<1> QED
  BY <1>1, <1>2

LEMMA SettersType ==
  ASSUME TypeOK, NEW s \in Script
  PROVE  /\ \A l \in [1..NumLocals -> Val] : SetLocals(s, l) =>
              /\ LocalVar' \in [Script -> [1..NumLocals -> Val]]
              /\ missionLocals' \in [1..NumLocals -> Val]
         /\ \A dir \in Code : SetScriptFileDir(s, dir) =>
              /\ m_scriptFileDir' \in [Script -> Code]
              /\ MainScriptFileDir' \in Code
BY DEF TypeOK, SetLocals, SetScriptFileDir

\* The fields a call touches.
CallType == /\ store \in [Slot -> {NoFrame} \cup Frame]
            /\ allocationPlace \in Slot
            /\ ScmFunction \in [Script -> {0} \cup Slot]
            /\ frames \in [Script -> Seq(Slot)]
            /\ Stack \in [Script -> Seq(Code)]
            /\ \A s \in Script : Len(Stack[s]) <= StackSize
            /\ bCondResult \in [Script -> BOOLEAN]
            /\ LogicalOp \in [Script -> {0} \cup Ands \cup Ors]
            /\ SavedStacksFit

LEMMA NewScmFunctionType ==
  ASSUME TypeInv, NEW s \in Script, NEW not \in BOOLEAN, NewScmFunction(s, not)
  PROVE  CallType'
<1> DEFINE id == FirstUnused
           frame == [thisScmFunctionId |-> id, prevScmFunctionId |-> ScmFunction[s],
                     savedBaseIP |-> BaseIP[s], savedScriptFileDir |-> GetScriptFileDir(s),
                     savedStack |-> Stack[s], savedTls |-> Locals(s),
                     savedCondResult |-> bCondResult[s], savedLogicalOp |-> LogicalOp[s],
                     savedNotFlag |-> not]
<1>1. id \in Slot
  BY SearchFinds DEF NewScmFunction, TypeInv, TypeOK, Unused
<1>2. frame \in Frame /\ Len(frame.savedStack) <= StackSize
  BY <1>1, LocalsType DEF TypeInv, TypeOK, Frame
<1>3. store' = [store EXCEPT ![id] = frame]
  BY DEF NewScmFunction
<1> HIDE DEF id, frame
<1>4. store' \in [Slot -> {NoFrame} \cup Frame] /\ SavedStacksFit'
  BY <1>1, <1>2, <1>3 DEF TypeInv, TypeOK, SavedStacksFit
<1>5. frames' \in [Script -> Seq(Slot)]
  BY <1>1, PushProperties DEF TypeInv, TypeOK, NewScmFunction, id
<1>6. /\ Stack' \in [Script -> Seq(Code)]
      /\ \A t \in Script : Len(Stack'[t]) <= StackSize
  BY ConstantsAssumption, EmptySeq DEF TypeInv, TypeOK, NewScmFunction
<1>7. /\ allocationPlace' \in Slot
      /\ ScmFunction' \in [Script -> {0} \cup Slot]
      /\ bCondResult' \in [Script -> BOOLEAN]
      /\ LogicalOp' \in [Script -> {0} \cup Ands \cup Ors]
  BY <1>1 DEF TypeInv, TypeOK, NewScmFunction, id
<1> QED
  BY <1>4, <1>5, <1>6, <1>7 DEF CallType

LEMMA ReturnType ==
  ASSUME TypeInv, NEW s \in Script, NEW r \in BOOLEAN, NEW src \in 0..NumLocals,
         NEW dst \in Nat, NEW ok \in BOOLEAN,
         CleoReturnGeneric(s, r, src, dst, ok)
  PROVE  TypeInv'
<1> DEFINE f == Get(ScmFunction[s])
           stored == [f.savedTls EXCEPT ![dst] = Locals(s)[src]]
<1>1. /\ f \in Frame
      /\ Len(f.savedStack) <= StackSize
  BY SlotsAreNotZero, StoredFrame DEF CleoReturnGeneric, Get, TypeInv, TypeOK, SavedStacksFit
<1>2. /\ BaseIP' \in [Script -> Code]
      /\ m_scriptFileDir' \in [Script -> Code]
      /\ MainScriptFileDir' \in Code
  BY <1>1, SettersType DEF CleoReturnGeneric, TypeInv, TypeOK, Frame
<1>3. /\ Stack' \in [Script -> Seq(Code)]
      /\ \A t \in Script : Len(Stack'[t]) <= StackSize
  BY <1>1 DEF CleoReturnGeneric, TypeInv, TypeOK, Frame, ReturnedStack
<1>4. /\ LocalVar' \in [Script -> [1..NumLocals -> Val]]
      /\ missionLocals' \in [1..NumLocals -> Val]
  <2>1. Locals(s) \in [1..NumLocals -> Val]
    BY LocalsType DEF TypeInv
  <2>2. f.savedTls \in [1..NumLocals -> Val]
    BY <1>1 DEF Frame
  <2>3. src # 0 => stored \in [1..NumLocals -> Val]
    <3>1. src # 0 => Locals(s)[src] \in Val
      BY <2>1, ConstantsAssumption
    <3>2. \A v \in Val : [f.savedTls EXCEPT ![dst] = v] \in [1..NumLocals -> Val]
      <4> DEFINE tls == f.savedTls
      <4>1. tls \in [1..NumLocals -> Val]
        BY <2>2
      <4> HIDE DEF tls
      <4>2. \A v \in Val : [tls EXCEPT ![dst] = v] \in [1..NumLocals -> Val]
        BY <4>1
      <4> QED
        BY <4>2 DEF tls
    <3> QED
      BY <3>1, <3>2
  <2>4. (IF ok /\ src # 0 THEN stored ELSE f.savedTls) \in [1..NumLocals -> Val]
    BY <2>2, <2>3
  <2> QED
    BY <2>4, SettersType DEF CleoReturnGeneric, TypeInv
<1>5. bCondResult' \in [Script -> BOOLEAN]
  <2>1. ReturnedCond(f, r) \in BOOLEAN
    BY <1>1 DEF ReturnedCond, Frame
  <2> QED
    BY <2>1 DEF CleoReturnGeneric, TypeInv, TypeOK
<1>6. LogicalOp' \in [Script -> {0} \cup Ands \cup Ors]
  <2>1. ReturnedOp(f) \in {0} \cup Ands \cup Ors
    BY <1>1 DEF ReturnedOp, Frame, Ands, Ors, Decrement
  <2> QED
    BY <2>1 DEF CleoReturnGeneric, TypeInv, TypeOK
<1>7. /\ ScmFunction' \in [Script -> {0} \cup Slot]
      /\ store' \in [Slot -> {NoFrame} \cup Frame]
      /\ SavedStacksFit'
  BY <1>1 DEF CleoReturnGeneric, TypeInv, TypeOK, Frame, SavedStacksFit
<1>8. frames' \in [Script -> Seq(Slot)]
  BY PopProperties DEF CleoReturnGeneric, TypeInv, TypeOK
<1>9. /\ status' \in [Script -> {"idle", "running", "suspended"}]
      /\ allocationPlace' \in Slot
      /\ scriptsLoaded' \in BOOLEAN
  BY DEF CleoReturnGeneric, TypeInv, TypeOK
<1> QED
  BY <1>2, <1>3, <1>4, <1>5, <1>6, <1>7, <1>8, <1>9 DEF TypeInv, TypeOK

LEMMA TermType ==
  ASSUME NEW op \in {0} \cup Ands \cup Ors, NEW c \in BOOLEAN, NEW r \in BOOLEAN
  PROVE  Decrement(op) \in {0} \cup Ands \cup Ors /\ UpdateCompareFlag(c, op, r) \in BOOLEAN
BY DEF Decrement, UpdateCompareFlag, Ands, Ors

\* Flags are Booleans.
LEMMA FlagType == \A x \in Flag : x \in BOOLEAN
BY ConstantsAssumption

LEMMA TypeInit == Init => TypeInv
<1> SUFFICES ASSUME Init PROVE TypeInv
  OBVIOUS
<1>1. /\ \A s \in Script : Stack[s] = <<>> /\ Len(Stack[s]) <= StackSize
      /\ <<>> \in Seq(Code) /\ <<>> \in Seq(Slot)
  BY ConstantsAssumption, EmptySeq DEF Init
<1>2. /\ SavedStacksFit
      /\ store \in [Slot -> {NoFrame} \cup Frame] /\ allocationPlace \in Slot
  BY SlotsAreNotZero DEF Init, SavedStacksFit
<1> QED
  BY <1>1, <1>2, ConstantsAssumption DEF Init, TypeInv, TypeOK, Cleared, Code

LEMMA TypeStep == TypeInv /\ [Next]_vars => TypeInv'
<1> SUFFICES ASSUME TypeInv, [Next]_vars PROVE TypeInv'
  OBVIOUS
<1> USE DEF TypeInv
<1>1. CASE UNCHANGED vars
  BY <1>1 DEF TypeOK, SavedStacksFit, vars, fieldVars, storeVars
<1>2. CASE GameBegin
  BY <1>2 DEF GameBegin, TypeOK, SavedStacksFit, Code, storeVars
<1>3. CASE GameEnd
  <2>1. store' \in [Slot -> {NoFrame} \cup Frame] /\ allocationPlace' \in Slot /\ SavedStacksFit'
    BY <1>3, SlotsAreNotZero DEF GameEnd, Clear, TypeOK, SavedStacksFit
  <2>2. frames' \in [Script -> Seq(Slot)]
    BY <1>3, EmptySeq DEF GameEnd
  <2> QED
    BY <1>3, <2>1, <2>2 DEF GameEnd, TypeOK, fieldVars
<1>4. ASSUME NEW s \in Script, ScriptNext(s) PROVE TypeInv'
  <2>1. CASE StartScript(s)
    <3>1. LocalVar' \in [Script -> [1..NumLocals -> Val]] /\ missionLocals' \in [1..NumLocals -> Val]
      BY <2>1, SettersType, LocalsType DEF StartScript
    <3>2. /\ Stack' \in [Script -> Seq(Code)]
          /\ \A t \in Script : Len(Stack'[t]) <= StackSize
      BY <2>1, ConstantsAssumption, EmptySeq DEF StartScript, TypeOK
    <3> QED
      BY <2>1, <3>1, <3>2 DEF StartScript, InitialFunction, TypeOK, SavedStacksFit, Code, storeVars
  <2>2. CASE RemoveScript(s)
    BY <2>2, EmptySeq DEF RemoveScript, TypeOK, SavedStacksFit, fieldVars
  <2>3. CASE TrySuspendScript(s)
    BY <2>3 DEF TrySuspendScript, TypeOK, SavedStacksFit, fieldVars, storeVars
  <2>4. ASSUME NEW args \in Arguments, NEW not \in Flag, opcode_0AB1_Label(s, args, not)
        PROVE  TypeInv'
    <3>1. CallType'
      BY <2>4, FlagType, NewScmFunctionType DEF opcode_0AB1_Label
    <3>2. LocalVar' \in [Script -> [1..NumLocals -> Val]] /\ missionLocals' \in [1..NumLocals -> Val]
      BY <2>4, SettersType, LocalsType DEF opcode_0AB1_Label
    <3> QED
      BY <2>4, <3>1, <3>2 DEF opcode_0AB1_Label, CallType, TypeOK
  <2>5. ASSUME NEW m \in Module, NEW args \in Arguments, NEW not \in Flag,
               opcode_0AB1_Export(s, m, args, not)
        PROVE  TypeInv'
    <3>1. CallType'
      BY <2>5, FlagType, NewScmFunctionType DEF opcode_0AB1_Export
    <3>2. LocalVar' \in [Script -> [1..NumLocals -> Val]] /\ missionLocals' \in [1..NumLocals -> Val]
      BY <2>5, SettersType, LocalsType DEF opcode_0AB1_Export
    <3>3. m \in Code
      BY DEF Code
    <3>4. m_scriptFileDir' \in [Script -> Code] /\ MainScriptFileDir' \in Code
      BY <2>5, <3>3, SettersType DEF opcode_0AB1_Export
    <3> QED
      BY <2>5, <3>1, <3>2, <3>3, <3>4 DEF opcode_0AB1_Export, CallType, TypeOK
  <2>6. ASSUME NEW m \in Module, NEW not \in Flag, opcode_0AB1_Error(s, m, not)
        PROVE  TypeInv'
    <3>1. CallType'
      BY <2>6, FlagType, NewScmFunctionType DEF opcode_0AB1_Error
    <3>2. m \in Code
      BY DEF Code
    <3>3. m_scriptFileDir' \in [Script -> Code] /\ MainScriptFileDir' \in Code
      BY <2>6, <3>2, SettersType DEF opcode_0AB1_Error, TypeOK
    <3> QED
      BY <2>6, <3>1, <3>2, <3>3 DEF opcode_0AB1_Error, CallType, TypeOK
  <2>7. ASSUME NEW src \in 0..NumLocals, NEW dst \in 1..NumLocals, NEW ok \in BOOLEAN,
               \/ opcode_0AB2(s, src, dst, ok)
               \/ \E result \in Flag : opcode_2002(s, result, src, dst, ok)
        PROVE  TypeInv'
    <3>1. CASE opcode_0AB2(s, src, dst, ok)
      <4>1. bCondResult[s] \in BOOLEAN
        BY DEF TypeOK
      <4> QED
        BY <3>1, <4>1, ReturnType DEF opcode_0AB2
    <3>2. ASSUME NEW result \in Flag, opcode_2002(s, result, src, dst, ok) PROVE TypeInv'
      <4>1. UpdateCompareFlag(bCondResult[s], LogicalOp[s], result) \in BOOLEAN
        BY FlagType, TermType DEF TypeOK
      <4> QED
        BY <3>2, <4>1, ReturnType DEF opcode_2002
    <3> QED
      BY <2>7, <3>1, <3>2
  <2>8. CASE opcode_0051_Return(s)
    <3>1. UpdateCompareFlag(bCondResult[s], LogicalOp[s], FALSE) \in BOOLEAN
      BY TermType DEF TypeOK
    <3>2. 0 \in 0..NumLocals /\ 1 \in Nat
      BY ConstantsAssumption
    <3> QED
      BY <2>8, <3>1, <3>2, ReturnType DEF opcode_0051_Return
  <2>9. CASE opcode_0050(s)
    <3>1. /\ Stack' \in [Script -> Seq(Code)]
          /\ \A t \in Script : Len(Stack'[t]) <= StackSize
      BY <2>9, PushProperties, ConstantsAssumption DEF opcode_0050, StackFull, TypeOK
    <3> QED
      BY <2>9, <3>1 DEF opcode_0050, ScopeUnchanged, storeVars, TypeOK, SavedStacksFit
  <2>10. CASE opcode_0051_Gosub(s)
    <3>1. /\ Stack[s] \in Seq(Code) /\ Stack[s] # <<>>
          /\ Len(Stack[s]) \in Nat /\ Len(Stack[s]) <= StackSize
      BY <2>10, LenProperties DEF opcode_0051_Gosub, TypeOK
    <3>2. /\ SubSeq(Stack[s], 1, Len(Stack[s]) - 1) \in Seq(Code)
          /\ Len(SubSeq(Stack[s], 1, Len(Stack[s]) - 1)) = Len(Stack[s]) - 1
      BY <3>1, PopProperties
    <3>3. /\ Stack' \in [Script -> Seq(Code)]
          /\ \A t \in Script : Len(Stack'[t]) <= StackSize
      BY <2>10, <3>1, <3>2, ConstantsAssumption DEF opcode_0051_Gosub, TypeOK
    <3> QED
      BY <2>10, <3>3 DEF opcode_0051_Gosub, ScopeUnchanged, storeVars, TypeOK, SavedStacksFit
  <2>11. ASSUME NEW op \in Operation, opcode_00D6(s, op) PROVE TypeInv'
    BY <2>11 DEF opcode_00D6, Operation, ScopeUnchanged, storeVars, TypeOK, SavedStacksFit
  <2>12. ASSUME NEW r \in Flag, ConditionOpcode(s, r) PROVE TypeInv'
    <3>1. /\ UpdateCompareFlag(bCondResult[s], LogicalOp[s], r) \in BOOLEAN
          /\ Decrement(LogicalOp[s]) \in {0} \cup Ands \cup Ors
      BY FlagType, TermType DEF TypeOK
    <3> QED
      BY <2>12, <3>1 DEF ConditionOpcode, ScopeUnchanged, storeVars, TypeOK, SavedStacksFit
  <2>13. ASSUME NEW i \in 1..NumLocals, NEW v \in Val, WriteVariable(s, i, v) PROVE TypeInv'
    <3>1. [Locals(s) EXCEPT ![i] = v] \in [1..NumLocals -> Val]
      BY LocalsType
    <3>2. LocalVar' \in [Script -> [1..NumLocals -> Val]] /\ missionLocals' \in [1..NumLocals -> Val]
      BY <2>13, <3>1, SettersType DEF WriteVariable
    <3> QED
      BY <2>13, <3>2 DEF WriteVariable, storeVars, TypeOK, SavedStacksFit
  <2> QED
    BY <1>4, <2>1, <2>2, <2>3, <2>4, <2>5, <2>6, <2>7, <2>8, <2>9, <2>10, <2>11, <2>12, <2>13
    DEF ScriptNext
<1> QED
  BY <1>1, <1>2, <1>3, <1>4 DEF Next

\* Types: in particular a gosub never writes past the end of the gosub stack,
\* in no function and not after any return.
THEOREM TypesAreCorrect == Spec => []TypeOK
<1>1. TypeInv => TypeOK
  BY DEF TypeInv
<1> QED
  BY <1>1, TypeInit, TypeStep, PTL DEF Spec

----------------------------------------------------------------------------
(* Chains *)

\* What ChainsAreSeparate rests on: a structure not in use has no frames, a frame
\* is in the slot it is said to be in, and nothing is left when no session runs.
ChainInv ==
  /\ ChainsAreSeparate
  /\ \A s \in Script : status[s] = "idle" => frames[s] = <<>>
  /\ \A id \in Slot : store[id] # NoFrame => store[id].thisScmFunctionId = id
  /\ ~scriptsLoaded => /\ \A id \in Slot : store[id] = NoFrame
                       /\ \A s \in Script : frames[s] = <<>>

\* The same scripts are in use before and after a step within the session.
SameInUse ==
  /\ scriptsLoaded' = scriptsLoaded
  /\ \A t \in Script : status'[t] = "idle" <=> status[t] = "idle"

\* A frame in a chain is in the store.
LEMMA FramesAreStored ==
  ASSUME TypeInv, ChainInv, NEW t \in Script, NEW i \in 1..Len(frames[t])
  PROVE  frames[t][i] \in Slot /\ store[frames[t][i]] # NoFrame
<1>1. /\ frames[t] \in Seq(Slot) /\ Len(frames[t]) \in Nat
      /\ frames[t][i] \in Slot
  BY LenProperties, ElementOfSeq DEF TypeInv, TypeOK
<1>2. status[t] # "idle"
  BY <1>1, EmptySeq DEF ChainInv
<1> QED
  BY <1>1, <1>2 DEF ChainInv, ChainsAreSeparate, Chained

LEMMA NewScmFunctionChain ==
  ASSUME TypeInv, ChainInv, NEW s \in Script, NEW not \in BOOLEAN,
         Executing(s), NewScmFunction(s, not), SameInUse
  PROVE  ChainInv'
<1> DEFINE id == FirstUnused
           n == Len(frames[s])
<1>1. id \in Slot /\ store[id] = NoFrame
  BY SearchFinds DEF NewScmFunction, TypeInv, TypeOK, Unused
<1>2. \A t \in Script : /\ frames[t] \in Seq(Slot) /\ Len(frames[t]) \in Nat
                        /\ \A i \in 1..Len(frames[t]) : frames[t][i] \in Slot
  BY LenProperties, ElementOfSeq DEF TypeInv, TypeOK
<1>3. \A t \in Script : \A i \in 1..Len(frames[t]) :
        store[frames[t][i]] # NoFrame /\ frames[t][i] # id
  BY <1>1, FramesAreStored
<1>4. /\ store'[id] # NoFrame
      /\ store'[id].thisScmFunctionId = id
      /\ store'[id].prevScmFunctionId = ScmFunction[s]
      /\ \A other \in Slot : other # id => store'[other] = store[other]
      /\ ScmFunction' = [ScmFunction EXCEPT ![s] = id]
      /\ frames' = [frames EXCEPT ![s] = Append(frames[s], id)]
  BY <1>1, SlotsAreNotZero DEF NewScmFunction, TypeInv, TypeOK, NoFrame
<1> HIDE DEF id
<1>5. /\ frames'[s] \in Seq(Slot)
      /\ frames'[s] # <<>>
      /\ Len(frames'[s]) = n + 1
      /\ \A i \in 1..n : frames'[s][i] = frames[s][i]
      /\ frames'[s][n + 1] = id
  <2>1. frames'[s] = Append(frames[s], id)
    BY <1>4 DEF TypeInv, TypeOK
  <2>2. /\ frames'[s] \in Seq(Slot) /\ Len(frames'[s]) = n + 1
        /\ \A i \in 1..n : frames'[s][i] = frames[s][i]
        /\ frames'[s][n + 1] = id
    BY <1>1, <1>2, <2>1, PushProperties
  <2> QED
    BY <1>2, <2>2, EmptySeq
<1>6. \A t \in Script : t # s => frames'[t] = frames[t] /\ ScmFunction'[t] = ScmFunction[t]
  BY <1>4 DEF TypeInv, TypeOK
<1>7. ASSUME NEW t \in Script, status'[t] # "idle" PROVE Chained(t)'
  <2>1. Chained(t)
    BY <1>7 DEF SameInUse, ChainInv, ChainsAreSeparate
  <2>2. CASE t = s
    <3>1. ScmFunction'[s] = frames'[s][Len(frames'[s])]
      BY <1>4, <1>5 DEF TypeInv, TypeOK
    <3>2. ASSUME NEW i \in 1..n
          PROVE  /\ store'[frames'[s][i]] # NoFrame
                 /\ store'[frames'[s][i]].prevScmFunctionId = IF i = 1 THEN 0 ELSE frames'[s][i - 1]
      BY <1>2, <1>3, <1>4, <1>5, <2>1, <2>2 DEF Chained
    <3>3. ScmFunction[s] = IF n = 0 THEN 0 ELSE frames[s][n]
      BY <1>2, <2>1, <2>2, EmptySeq DEF Chained
    <3>4. store'[id].prevScmFunctionId = IF n + 1 = 1 THEN 0 ELSE frames'[s][n]
      BY <1>2, <1>4, <1>5, <3>3
    <3>5. \A i \in 1..(n + 1) : i \in 1..n \/ i = n + 1
      BY <1>2
    <3>6. \A i \in 1..Len(frames'[s]) :
            /\ store'[frames'[s][i]] # NoFrame
            /\ store'[frames'[s][i]].prevScmFunctionId = IF i = 1 THEN 0 ELSE frames'[s][i - 1]
      BY <1>2, <1>4, <1>5, <3>2, <3>4, <3>5
    <3> QED
      BY <1>5, <2>2, <3>1, <3>6 DEF Chained
  <2>3. CASE t # s
    BY <1>2, <1>3, <1>4, <1>6, <2>1, <2>3 DEF Chained
  <2> QED
    BY <2>2, <2>3
<1>8. ASSUME NEW t \in Script, NEW u \in Script,
             NEW i \in 1..Len(frames'[t]), NEW j \in 1..Len(frames'[u]),
             frames'[t][i] = frames'[u][j]
      PROVE  t = u /\ i = j
  <2>1. \A v \in Script : \A k \in 1..Len(frames'[v]) :
          \/ k \in 1..Len(frames[v]) /\ frames'[v][k] = frames[v][k] /\ frames'[v][k] # id
          \/ v = s /\ k = n + 1 /\ frames'[v][k] = id
    BY <1>2, <1>3, <1>5, <1>6
  <2> QED
    BY <1>8, <2>1 DEF ChainInv, ChainsAreSeparate
<1>9. ChainsAreSeparate'
  BY <1>7, <1>8 DEF ChainsAreSeparate
<1>10. \A t \in Script : status'[t] = "idle" => frames'[t] = <<>>
  BY <1>6 DEF Executing, SameInUse, ChainInv
<1>11. \A other \in Slot : store'[other] # NoFrame => store'[other].thisScmFunctionId = other
  BY <1>4 DEF ChainInv
<1> QED
  BY <1>9, <1>10, <1>11 DEF ChainInv, Executing, SameInUse

\* The frame a script returns through is the youngest of its own.
LEMMA ReturnThroughOwnFrame ==
  ASSUME TypeInv, ChainInv, NEW s \in Script, Executing(s), Get(ScmFunction[s]) # NoFrame
  PROVE  /\ frames[s] # <<>> /\ Len(frames[s]) \in Nat /\ Len(frames[s]) >= 1
         /\ ScmFunction[s] = frames[s][Len(frames[s])]
         /\ ScmFunction[s] \in Slot
         /\ Get(ScmFunction[s]) = store[ScmFunction[s]]
         /\ store[ScmFunction[s]].thisScmFunctionId = ScmFunction[s]
         /\ store[ScmFunction[s]] \in Frame
<1>1. /\ ScmFunction[s] \in Slot
      /\ Get(ScmFunction[s]) = store[ScmFunction[s]]
  BY DEF Get
<1>2. Chained(s)
  BY DEF Executing, ChainInv, ChainsAreSeparate
<1>3. frames[s] # <<>> /\ ScmFunction[s] = frames[s][Len(frames[s])]
  BY <1>1, <1>2, SlotsAreNotZero DEF Chained
<1>4. Len(frames[s]) \in Nat /\ Len(frames[s]) >= 1
  BY <1>3, LenProperties, EmptySeq DEF TypeInv, TypeOK
<1>5. /\ store[ScmFunction[s]].thisScmFunctionId = ScmFunction[s]
      /\ store[ScmFunction[s]] \in Frame
  BY <1>1, StoredFrame DEF ChainInv, TypeInv
<1> QED
  BY <1>1, <1>3, <1>4, <1>5

LEMMA ReturnChain ==
  ASSUME TypeInv, ChainInv, NEW s \in Script, NEW r, NEW src, NEW dst, NEW ok \in BOOLEAN,
         Executing(s), CleoReturnGeneric(s, r, src, dst, ok)
  PROVE  ChainInv'
<1> DEFINE id == ScmFunction[s]
           n == Len(frames[s])
<1>1. /\ frames[s] # <<>> /\ n \in Nat /\ n >= 1
      /\ id = frames[s][n] /\ id \in Slot
      /\ Get(id) = store[id] /\ store[id].thisScmFunctionId = id
  BY ReturnThroughOwnFrame DEF CleoReturnGeneric
<1>2. \A t \in Script : /\ frames[t] \in Seq(Slot) /\ Len(frames[t]) \in Nat
                        /\ \A i \in 1..Len(frames[t]) : frames[t][i] \in Slot
  BY LenProperties, ElementOfSeq DEF TypeInv, TypeOK
<1>3. \A t \in Script : \A i \in 1..Len(frames[t]) :
        frames[t][i] = id => t = s /\ i = n
  BY <1>1 DEF ChainInv, ChainsAreSeparate
<1>4. /\ store'[id] = NoFrame
      /\ \A other \in Slot : other # id => store'[other] = store[other]
      /\ ScmFunction' = [ScmFunction EXCEPT ![s] = store[id].prevScmFunctionId]
      /\ frames' = [frames EXCEPT ![s] = SubSeq(frames[s], 1, n - 1)]
      /\ SameInUse
      /\ scriptsLoaded
  BY <1>1 DEF CleoReturnGeneric, TypeInv, TypeOK, SameInUse, Executing
<1>5. /\ ScmFunction'[s] = store[id].prevScmFunctionId
      /\ \A t \in Script : t # s => frames'[t] = frames[t] /\ ScmFunction'[t] = ScmFunction[t]
  BY <1>4 DEF TypeInv, TypeOK
<1>6. /\ frames'[s] \in Seq(Slot)
      /\ Len(frames'[s]) = n - 1
      /\ \A i \in 1..(n - 1) : frames'[s][i] = frames[s][i]
      /\ frames'[s] = <<>> <=> n = 1
  <2>1. frames'[s] = SubSeq(frames[s], 1, n - 1)
    BY <1>4 DEF TypeInv, TypeOK
  <2>2. /\ frames'[s] \in Seq(Slot) /\ Len(frames'[s]) = n - 1
        /\ \A i \in 1..(n - 1) : frames'[s][i] = frames[s][i]
    BY <1>1, <1>2, <2>1, PopProperties
  <2>3. frames'[s] = <<>> <=> Len(frames'[s]) = 0
    BY <2>2, EmptySeq
  <2> QED
    BY <1>1, <2>2, <2>3
<1> HIDE DEF id
<1>7. ASSUME NEW t \in Script, status'[t] # "idle" PROVE Chained(t)'
  <2>1. Chained(t)
    BY <1>4, <1>7 DEF SameInUse, ChainInv, ChainsAreSeparate
  <2>2. CASE t = s
    <3>1. store[id].prevScmFunctionId = IF n = 1 THEN 0 ELSE frames[s][n - 1]
      <4>1. n \in 1..Len(frames[s])
        BY <1>1
      <4>2. store[frames[s][n]].prevScmFunctionId = IF n = 1 THEN 0 ELSE frames[s][n - 1]
        BY <2>1, <2>2, <4>1, Zenon DEF Chained
      <4> QED
        BY <1>1, <4>2
    <3>2. ScmFunction'[s] = IF frames'[s] = <<>> THEN 0 ELSE frames'[s][Len(frames'[s])]
      <4>1. CASE n = 1
        BY <1>5, <1>6, <3>1, <4>1
      <4>2. CASE n # 1
        BY <1>1, <1>5, <1>6, <3>1, <4>2
      <4> QED
        BY <4>1, <4>2
    <3>3. ASSUME NEW i \in 1..(n - 1)
          PROVE  /\ store'[frames'[s][i]] # NoFrame
                 /\ store'[frames'[s][i]].prevScmFunctionId = IF i = 1 THEN 0 ELSE frames'[s][i - 1]
      <4>1. i \in 1..n /\ i # n /\ frames[s][i] \in Slot /\ frames[s][i] # id
        BY <1>1, <1>2, <1>3, <3>3
      <4>2. store'[frames[s][i]] = store[frames[s][i]]
        BY <1>4, <4>1
      <4>3. i = 1 \/ i - 1 \in 1..(n - 1)
        BY <1>1, <3>3
      <4> QED
        BY <1>6, <2>1, <2>2, <4>1, <4>2, <4>3 DEF Chained
    <3> QED
      BY <1>6, <2>2, <3>2, <3>3 DEF Chained
  <2>3. CASE t # s
    BY <1>2, <1>3, <1>4, <1>5, <2>1, <2>3 DEF Chained
  <2> QED
    BY <2>2, <2>3
<1>8. \A v \in Script : \A k \in 1..Len(frames'[v]) :
        k \in 1..Len(frames[v]) /\ frames'[v][k] = frames[v][k]
  BY <1>1, <1>2, <1>5, <1>6
<1>9. ChainsAreSeparate'
  BY <1>7, <1>8 DEF ChainInv, ChainsAreSeparate
<1>10. \A t \in Script : status'[t] = "idle" => frames'[t] = <<>>
  BY <1>4, <1>5 DEF Executing, SameInUse, ChainInv
<1>11. \A other \in Slot : store'[other] # NoFrame => store'[other].thisScmFunctionId = other
  BY <1>4 DEF ChainInv
<1> QED
  BY <1>4, <1>9, <1>10, <1>11 DEF ChainInv, SameInUse

\* Steps that make and free no frames.
LEMMA SameChains ==
  ASSUME ChainInv, UNCHANGED <<ScmFunction, frames, store>>, SameInUse
  PROVE  ChainInv'
BY DEF ChainInv, ChainsAreSeparate, Chained, SameInUse

LEMMA ChainInit == Init => ChainInv
<1> SUFFICES ASSUME Init PROVE ChainInv
  OBVIOUS
<1>1. \A s \in Script : frames[s] = <<>> /\ status[s] = "idle" /\ Len(frames[s]) = 0
  BY EmptySeq DEF Init
<1>2. \A id \in Slot : store[id] = NoFrame
  BY DEF Init
<1> QED
  BY <1>1, <1>2 DEF ChainInv, ChainsAreSeparate

LEMMA ChainStep == TypeInv /\ ChainInv /\ [Next]_vars => ChainInv'
<1> SUFFICES ASSUME TypeInv, ChainInv, [Next]_vars PROVE ChainInv'
  OBVIOUS
<1>1. CASE UNCHANGED vars
  BY <1>1, SameChains DEF vars, fieldVars, storeVars, SameInUse
<1>2. CASE GameBegin
  BY <1>2 DEF GameBegin, storeVars, ChainInv, ChainsAreSeparate, Chained
<1>3. CASE GameEnd
  <2>1. \A s \in Script : /\ frames'[s] = <<>> /\ status'[s] = "idle"
                          /\ Len(frames'[s]) = 0
    BY <1>3, EmptySeq DEF GameEnd
  <2>2. \A id \in Slot : store[id] # NoFrame => store[id].thisScmFunctionId = id
    BY DEF ChainInv
  <2>3. \A id \in Slot : store'[id] = NoFrame
    BY <1>3, <2>2 DEF GameEnd, Clear, Unused
  <2> QED
    BY <2>1, <2>3 DEF ChainInv, ChainsAreSeparate
<1>4. ASSUME NEW s \in Script, ScriptNext(s) PROVE ChainInv'
  <2>1. CASE StartScript(s)
    <3>1. status[s] = "idle" /\ frames[s] = <<>> /\ Len(frames[s]) = 0
      BY <2>1, EmptySeq DEF StartScript, ChainInv
    <3>2. /\ UNCHANGED <<store, frames, scriptsLoaded>>
          /\ ScmFunction'[s] = 0 /\ status'[s] = "running"
          /\ \A t \in Script : t # s => ScmFunction'[t] = ScmFunction[t] /\ status'[t] = status[t]
      BY <2>1 DEF StartScript, InitialFunction, storeVars, TypeInv, TypeOK
    <3>3. Chained(s)'
      BY <3>1, <3>2 DEF Chained
    <3>4. \A t \in Script : t # s /\ status'[t] # "idle" => Chained(t)'
      BY <3>2 DEF Chained, ChainInv, ChainsAreSeparate
    <3> QED
      BY <3>1, <3>2, <3>3, <3>4 DEF ChainInv, ChainsAreSeparate
  <2>2. CASE RemoveScript(s)
    <3>1. /\ UNCHANGED <<store, ScmFunction, scriptsLoaded>> /\ scriptsLoaded
          /\ frames'[s] = <<>> /\ status'[s] = "idle" /\ Len(frames'[s]) = 0
          /\ \A t \in Script : t # s => frames'[t] = frames[t] /\ status'[t] = status[t]
      BY <2>2, EmptySeq DEF RemoveScript, fieldVars, TypeInv, TypeOK
    <3>2. \A t \in Script : status'[t] # "idle" => Chained(t)'
      BY <3>1 DEF Chained, ChainInv, ChainsAreSeparate
    <3>3. \A v \in Script : \A k \in 1..Len(frames'[v]) : v # s
      BY <3>1
    <3>4. ChainsAreSeparate'
      BY <3>1, <3>2, <3>3 DEF ChainInv, ChainsAreSeparate
    <3> QED
      BY <3>1, <3>4 DEF ChainInv
  <2>3. CASE TrySuspendScript(s)
    <3>1. SameInUse
      BY <2>3 DEF TrySuspendScript, Executing, SameInUse, TypeInv, TypeOK
    <3> QED
      BY <2>3, <3>1, SameChains DEF TrySuspendScript, fieldVars, storeVars
  <2>4. ASSUME NEW args \in Arguments, NEW not \in Flag, opcode_0AB1_Label(s, args, not)
        PROVE  ChainInv'
    BY <2>4, FlagType, NewScmFunctionChain DEF opcode_0AB1_Label, SameInUse
  <2>5. ASSUME NEW m \in Module, NEW args \in Arguments, NEW not \in Flag,
               opcode_0AB1_Export(s, m, args, not)
        PROVE  ChainInv'
    BY <2>5, FlagType, NewScmFunctionChain DEF opcode_0AB1_Export, SameInUse
  <2>6. ASSUME NEW m \in Module, NEW not \in Flag, opcode_0AB1_Error(s, m, not)
        PROVE  ChainInv'
    <3>1. SameInUse
      BY <2>6 DEF opcode_0AB1_Error, Executing, SameInUse, TypeInv, TypeOK
    <3> QED
      BY <2>6, <3>1, FlagType, NewScmFunctionChain DEF opcode_0AB1_Error
  <2>7. ASSUME NEW src \in 0..NumLocals, NEW dst \in 1..NumLocals, NEW ok \in BOOLEAN,
               \/ opcode_0AB2(s, src, dst, ok)
               \/ \E result \in Flag : opcode_2002(s, result, src, dst, ok)
        PROVE  ChainInv'
    BY <2>7, ReturnChain DEF opcode_0AB2, opcode_2002
  <2>8. CASE opcode_0051_Return(s)
    BY <2>8, ReturnChain DEF opcode_0051_Return
  <2>9. CASE \/ opcode_0050(s) \/ opcode_0051_Gosub(s)
             \/ \E op \in Operation : opcode_00D6(s, op)
             \/ \E r \in Flag : ConditionOpcode(s, r)
    BY <2>9, SameChains DEF opcode_0050, opcode_0051_Gosub, opcode_00D6, ConditionOpcode,
       ScopeUnchanged, storeVars, SameInUse
  <2>10. ASSUME NEW i \in 1..NumLocals, NEW v \in Val, WriteVariable(s, i, v) PROVE ChainInv'
    BY <2>10, SameChains DEF WriteVariable, storeVars, SameInUse
  <2> QED
    BY <1>4, <2>1, <2>2, <2>3, <2>4, <2>5, <2>6, <2>7, <2>8, <2>9, <2>10 DEF ScriptNext
<1> QED
  BY <1>1, <1>2, <1>3, <1>4 DEF Next

\* However frames are made and freed in the store, whichever scripts end within
\* functions and whenever structures are used again, a script returns through
\* its own pending calls only.
THEOREM ChainsStaySeparate == Spec => []ChainsAreSeparate
<1>1. ChainInv => ChainsAreSeparate
  BY DEF ChainInv
<1> QED
  BY <1>1, TypeInit, TypeStep, ChainInit, ChainStep, PTL DEF Spec

\* The end of a session empties the store.
THEOREM StoreIsClearedAtEnd == Spec => []StoreIsCleared
<1>1. ChainInv => StoreIsCleared
  BY DEF ChainInv, StoreIsCleared, Unused
<1> QED
  BY <1>1, TypeInit, TypeStep, ChainInit, ChainStep, PTL DEF Spec

----------------------------------------------------------------------------
(* Gosubs and directories *)

GosubInv ==
  /\ \A s \in Script : \A i \in 1..Len(Stack[s]) : Stack[s][i] = BaseIP[s]
  /\ \A id \in Slot : store[id] # NoFrame =>
       \A i \in 1..Len(store[id].savedStack) : store[id].savedStack[i] = store[id].savedBaseIP

\* A custom script that runs is in the directory of its code, and so it will be
\* after each of its pending returns.
DirInv ==
  \A s \in Custom : status[s] = "running" =>
    /\ m_scriptFileDir[s] = BaseIP[s]
    /\ \A i \in 1..Len(frames[s]) :
         store[frames[s][i]].savedScriptFileDir = store[frames[s][i]].savedBaseIP

\* What a call does to the store, to the script's chain and to its gosubs.
LEMMA NewFrame ==
  ASSUME TypeInv, ChainInv, NEW s \in Script, NEW not, NewScmFunction(s, not)
  PROVE  /\ store[FirstUnused] = NoFrame /\ FirstUnused \in Slot
         /\ store'[FirstUnused].savedBaseIP = BaseIP[s]
         /\ store'[FirstUnused].savedScriptFileDir = GetScriptFileDir(s)
         /\ store'[FirstUnused].savedStack = Stack[s]
         /\ \A id \in Slot : id # FirstUnused => store'[id] = store[id]
         /\ Len(Stack'[s]) = 0
         /\ \A t \in Script : t # s => Stack'[t] = Stack[t] /\ frames'[t] = frames[t]
         /\ Len(frames'[s]) = Len(frames[s]) + 1
         /\ \A i \in 1..Len(frames[s]) : frames'[s][i] = frames[s][i]
         /\ frames'[s][Len(frames[s]) + 1] = FirstUnused
<1> DEFINE id == FirstUnused
<1>1. id \in Slot /\ store[id] = NoFrame
  BY SearchFinds DEF NewScmFunction, TypeInv, TypeOK, Unused
<1>2. store' = [store EXCEPT ![id] =
       [thisScmFunctionId |-> id, prevScmFunctionId |-> ScmFunction[s],
        savedBaseIP |-> BaseIP[s], savedScriptFileDir |-> GetScriptFileDir(s),
        savedStack |-> Stack[s], savedTls |-> Locals(s),
        savedCondResult |-> bCondResult[s], savedLogicalOp |-> LogicalOp[s],
        savedNotFlag |-> not]]
  BY DEF NewScmFunction
<1>3. /\ frames' = [frames EXCEPT ![s] = Append(frames[s], id)]
      /\ Stack' = [Stack EXCEPT ![s] = <<>>]
  BY DEF NewScmFunction
<1> HIDE DEF id
<1>4. /\ store'[id].savedBaseIP = BaseIP[s]
      /\ store'[id].savedScriptFileDir = GetScriptFileDir(s)
      /\ store'[id].savedStack = Stack[s]
      /\ \A other \in Slot : other # id => store'[other] = store[other]
  BY <1>1, <1>2 DEF TypeInv, TypeOK
<1>5. /\ Len(Stack'[s]) = 0
      /\ \A t \in Script : t # s => Stack'[t] = Stack[t] /\ frames'[t] = frames[t]
  BY <1>3, EmptySeq DEF TypeInv, TypeOK
<1>6. /\ Len(frames'[s]) = Len(frames[s]) + 1
      /\ \A i \in 1..Len(frames[s]) : frames'[s][i] = frames[s][i]
      /\ frames'[s][Len(frames[s]) + 1] = id
  <2>1. frames'[s] = Append(frames[s], id) /\ frames[s] \in Seq(Slot)
    BY <1>3 DEF TypeInv, TypeOK
  <2> QED
    BY <1>1, <2>1, PushProperties
<1> QED
  BY <1>1, <1>4, <1>5, <1>6 DEF id

LEMMA CallGosubs ==
  ASSUME TypeInv, ChainInv, GosubInv, NEW s \in Script, NEW not, NewScmFunction(s, not),
         \A t \in Script : t # s => BaseIP'[t] = BaseIP[t]
  PROVE  GosubInv'
<1>1. \A t \in Script : \A i \in 1..Len(Stack'[t]) : Stack'[t][i] = BaseIP'[t]
  BY NewFrame DEF GosubInv
<1>2. \A id \in Slot : store'[id] # NoFrame =>
        \A i \in 1..Len(store'[id].savedStack) : store'[id].savedStack[i] = store'[id].savedBaseIP
  <2>1. TAKE id \in Slot
  <2>2. CASE id = FirstUnused
    BY <2>2, NewFrame DEF GosubInv
  <2>3. CASE id # FirstUnused
    BY <2>3, NewFrame DEF GosubInv
  <2> QED
    BY <2>2, <2>3
<1> QED
  BY <1>1, <1>2 DEF GosubInv

LEMMA ReturnGosubs ==
  ASSUME TypeInv, ChainInv, GosubInv, NEW s \in Script, NEW r, NEW src, NEW dst, NEW ok,
         Executing(s), CleoReturnGeneric(s, r, src, dst, ok)
  PROVE  GosubInv'
<1> DEFINE f == store[ScmFunction[s]]
<1>1. /\ ScmFunction[s] \in Slot /\ f # NoFrame /\ Get(ScmFunction[s]) = f
      /\ f.thisScmFunctionId = ScmFunction[s]
  BY ReturnThroughOwnFrame DEF CleoReturnGeneric
<1>2. /\ Stack' = [Stack EXCEPT ![s] = f.savedStack]
      /\ BaseIP' = [BaseIP EXCEPT ![s] = f.savedBaseIP]
      /\ store' = [store EXCEPT ![ScmFunction[s]] = NoFrame]
  BY <1>1 DEF CleoReturnGeneric, ReturnedStack
<1>3. \A i \in 1..Len(f.savedStack) : f.savedStack[i] = f.savedBaseIP
  BY <1>1 DEF GosubInv
<1> HIDE DEF f
<1>4. \A t \in Script : \A i \in 1..Len(Stack'[t]) : Stack'[t][i] = BaseIP'[t]
  BY <1>2, <1>3 DEF GosubInv, TypeInv, TypeOK
<1>5. \A id \in Slot : store'[id] # NoFrame => store'[id] = store[id]
  BY <1>1, <1>2 DEF TypeInv, TypeOK
<1> QED
  BY <1>4, <1>5 DEF GosubInv

LEMMA GosubInit == Init => GosubInv
<1> SUFFICES ASSUME Init PROVE GosubInv
  OBVIOUS
<1>1. \A s \in Script : Len(Stack[s]) = 0
  BY EmptySeq DEF Init
<1> QED
  BY <1>1 DEF Init, GosubInv

LEMMA GosubStep == TypeInv /\ ChainInv /\ GosubInv /\ [Next]_vars => GosubInv'
<1> SUFFICES ASSUME TypeInv, ChainInv, GosubInv, [Next]_vars PROVE GosubInv'
  OBVIOUS
<1>1. ASSUME UNCHANGED <<Stack, BaseIP, store>> PROVE GosubInv'
  BY <1>1 DEF GosubInv
<1>2. CASE UNCHANGED vars
  BY <1>1, <1>2 DEF vars, fieldVars, storeVars
<1>3. CASE GameBegin
  BY <1>1, <1>3 DEF GameBegin, storeVars
<1>4. CASE GameEnd
  BY <1>4 DEF GameEnd, Clear, fieldVars, GosubInv
<1>5. ASSUME NEW s \in Script, ScriptNext(s) PROVE GosubInv'
  <2>1. CASE StartScript(s)
    <3>1. Len(Stack'[s]) = 0
      BY <2>1, EmptySeq DEF StartScript, TypeInv, TypeOK
    <3> QED
      BY <2>1, <3>1 DEF StartScript, storeVars, GosubInv, TypeInv, TypeOK
  <2>2. CASE RemoveScript(s) \/ TrySuspendScript(s)
    BY <1>1, <2>2 DEF RemoveScript, TrySuspendScript, fieldVars, storeVars
  <2>3. ASSUME NEW args \in Arguments, NEW not \in Flag, opcode_0AB1_Label(s, args, not)
        PROVE  GosubInv'
    BY <2>3, CallGosubs DEF opcode_0AB1_Label
  <2>4. ASSUME NEW m \in Module, NEW args \in Arguments, NEW not \in Flag,
               opcode_0AB1_Export(s, m, args, not)
        PROVE  GosubInv'
    BY <2>4, CallGosubs DEF opcode_0AB1_Export, TypeInv, TypeOK
  <2>5. ASSUME NEW m \in Module, NEW not \in Flag, opcode_0AB1_Error(s, m, not)
        PROVE  GosubInv'
    BY <2>5, CallGosubs DEF opcode_0AB1_Error, TypeInv, TypeOK
  <2>6. ASSUME NEW src \in 0..NumLocals, NEW dst \in 1..NumLocals, NEW ok \in BOOLEAN,
               \/ opcode_0AB2(s, src, dst, ok)
               \/ \E result \in Flag : opcode_2002(s, result, src, dst, ok)
        PROVE  GosubInv'
    BY <2>6, ReturnGosubs DEF opcode_0AB2, opcode_2002
  <2>7. CASE opcode_0051_Return(s)
    BY <2>7, ReturnGosubs DEF opcode_0051_Return
  <2>8. CASE opcode_0050(s)
    <3>1. /\ Stack[s] \in Seq(Code) /\ BaseIP[s] \in Code /\ Len(Stack[s]) \in Nat
          /\ Stack'[s] = Append(Stack[s], BaseIP[s])
      BY <2>8, LenProperties DEF opcode_0050, TypeInv, TypeOK
    <3>2. \A i \in 1..Len(Stack'[s]) : Stack'[s][i] = BaseIP[s]
      <4>1. /\ Len(Stack'[s]) = Len(Stack[s]) + 1
            /\ \A i \in 1..Len(Stack[s]) : Stack'[s][i] = Stack[s][i]
            /\ Stack'[s][Len(Stack[s]) + 1] = BaseIP[s]
        BY <3>1, PushProperties
      <4>2. \A i \in 1..(Len(Stack[s]) + 1) : i \in 1..Len(Stack[s]) \/ i = Len(Stack[s]) + 1
        BY <3>1
      <4> QED
        BY <4>1, <4>2 DEF GosubInv
    <3>3. \A t \in Script : t # s => Stack'[t] = Stack[t]
      BY <2>8 DEF opcode_0050, TypeInv, TypeOK
    <3> QED
      BY <2>8, <3>2, <3>3 DEF opcode_0050, ScopeUnchanged, storeVars, GosubInv
  <2>9. CASE opcode_0051_Gosub(s)
    <3>1. /\ Stack[s] \in Seq(Code) /\ Len(Stack[s]) \in Nat
          /\ Stack'[s] = SubSeq(Stack[s], 1, Len(Stack[s]) - 1) /\ Stack[s] # <<>>
      BY <2>9, LenProperties DEF opcode_0051_Gosub, TypeInv, TypeOK
    <3>2. \A i \in 1..Len(Stack'[s]) : Stack'[s][i] = BaseIP[s]
      BY <3>1, PopProperties DEF GosubInv
    <3>3. \A t \in Script : t # s => Stack'[t] = Stack[t]
      BY <2>9 DEF opcode_0051_Gosub, TypeInv, TypeOK
    <3> QED
      BY <2>9, <3>2, <3>3 DEF opcode_0051_Gosub, ScopeUnchanged, storeVars, GosubInv
  <2>10. CASE \/ \E op \in Operation : opcode_00D6(s, op)
              \/ \E r \in Flag : ConditionOpcode(s, r)
              \/ \E i \in 1..NumLocals, v \in Val : WriteVariable(s, i, v)
    BY <1>1, <2>10 DEF opcode_00D6, ConditionOpcode, WriteVariable, ScopeUnchanged, storeVars
  <2> QED
    BY <1>5, <2>1, <2>2, <2>3, <2>4, <2>5, <2>6, <2>7, <2>8, <2>9, <2>10 DEF ScriptNext
<1> QED
  BY <1>2, <1>3, <1>4, <1>5 DEF Next

\* Every pending gosub returns into the code it was made in, whatever calls of
\* labels and modules were made and left in between.
THEOREM GosubsReturnInCode == Spec => []GosubsStayInCode
<1>1. GosubInv => GosubsStayInCode
  BY DEF GosubInv, GosubsStayInCode, Unused
<1> QED
  BY <1>1, TypeInit, TypeStep, ChainInit, ChainStep, GosubInit, GosubStep, PTL DEF Spec

\* No other script's running state, code or directory changes.
OthersStay(s) ==
  \A t \in Script : t # s =>
    /\ status'[t] = status[t] /\ BaseIP'[t] = BaseIP[t]
    /\ m_scriptFileDir'[t] = m_scriptFileDir[t]

LEMMA CallDirs ==
  ASSUME TypeInv, ChainInv, DirInv, NEW s \in Script, NEW not, NewScmFunction(s, not),
         Executing(s), OthersStay(s),
         s \in Custom /\ status'[s] = "running" => m_scriptFileDir'[s] = BaseIP'[s]
  PROVE  DirInv'
<1>1. ASSUME NEW t \in Custom, status'[t] = "running", NEW i \in 1..Len(frames'[t])
      PROVE  store'[frames'[t][i]].savedScriptFileDir = store'[frames'[t][i]].savedBaseIP
  <2>1. t \in Script
    BY ConstantsAssumption
  <2>2. status[t] = "running"
    BY <1>1, <2>1 DEF OthersStay, Executing
  <2>3. Len(frames[t]) \in Nat
    BY <2>1, LenProperties DEF TypeInv, TypeOK
  <2>4. \/ i \in 1..Len(frames[t]) /\ frames'[t][i] = frames[t][i]
        \/ t = s /\ i = Len(frames[s]) + 1 /\ frames'[t][i] = FirstUnused
    BY <1>1, <2>1, <2>3, NewFrame
  <2>5. CASE i \in 1..Len(frames[t]) /\ frames'[t][i] = frames[t][i]
    <3>1. frames[t][i] \in Slot /\ store[frames[t][i]] # NoFrame
      BY <2>1, <2>5, FramesAreStored
    <3>2. store'[frames[t][i]] = store[frames[t][i]]
      BY <3>1, NewFrame
    <3> QED
      BY <2>2, <2>5, <3>2 DEF DirInv
  <2>6. CASE t = s /\ frames'[t][i] = FirstUnused
    BY <1>1, <2>2, <2>6, NewFrame DEF DirInv, GetScriptFileDir
  <2> QED
    BY <2>4, <2>5, <2>6
<1>2. ASSUME NEW t \in Custom, status'[t] = "running" PROVE m_scriptFileDir'[t] = BaseIP'[t]
  BY <1>2, ConstantsAssumption DEF OthersStay, DirInv
<1> QED
  BY <1>1, <1>2 DEF DirInv

LEMMA ReturnDirs ==
  ASSUME TypeInv, ChainInv, DirInv, NEW s \in Script, NEW r, NEW src, NEW dst,
         NEW ok \in BOOLEAN, Executing(s), CleoReturnGeneric(s, r, src, dst, ok)
  PROVE  DirInv'
<1> DEFINE f == store[ScmFunction[s]]
           n == Len(frames[s])
<1>1. /\ ScmFunction[s] \in Slot /\ f # NoFrame /\ Get(ScmFunction[s]) = f
      /\ f.thisScmFunctionId = ScmFunction[s]
      /\ n \in Nat /\ n >= 1 /\ ScmFunction[s] = frames[s][n]
  BY ReturnThroughOwnFrame DEF CleoReturnGeneric
<1>2. /\ store' = [store EXCEPT ![ScmFunction[s]] = NoFrame]
      /\ BaseIP' = [BaseIP EXCEPT ![s] = f.savedBaseIP]
      /\ frames' = [frames EXCEPT ![s] = SubSeq(frames[s], 1, n - 1)]
      /\ SetScriptFileDir(s, f.savedScriptFileDir)
      /\ status' = IF ok THEN status ELSE [status EXCEPT ![s] = "suspended"]
  BY <1>1 DEF CleoReturnGeneric
<1>3. ASSUME NEW t \in Custom, status'[t] = "running" PROVE m_scriptFileDir'[t] = BaseIP'[t]
  <2>1. status[t] = "running" /\ t \in Script /\ m_scriptFileDir[t] = BaseIP[t]
    BY <1>2, <1>3, ConstantsAssumption DEF TypeInv, TypeOK, DirInv
  <2>2. CASE t = s
    <3>1. n \in 1..Len(frames[s])
      BY <1>1
    <3>2. f.savedScriptFileDir = f.savedBaseIP
      BY <1>1, <2>1, <2>2, <3>1 DEF DirInv
    <3> QED
      BY <1>2, <2>2, <3>2 DEF SetScriptFileDir, TypeInv, TypeOK
  <2>3. CASE t # s
    BY <1>2, <2>1, <2>3 DEF SetScriptFileDir, TypeInv, TypeOK
  <2> QED
    BY <2>2, <2>3
<1>4. ASSUME NEW t \in Custom, status'[t] = "running", NEW i \in 1..Len(frames'[t])
      PROVE  store'[frames'[t][i]].savedScriptFileDir = store'[frames'[t][i]].savedBaseIP
  <2>1. status[t] = "running" /\ t \in Script
    BY <1>2, <1>4, ConstantsAssumption DEF TypeInv, TypeOK
  <2>2. /\ i \in 1..Len(frames[t]) /\ frames'[t][i] = frames[t][i]
        /\ t = s => i # n
    <3>1. CASE t = s
      <4>1. frames'[s] = SubSeq(frames[s], 1, n - 1) /\ frames[s] \in Seq(Slot)
        BY <1>2 DEF TypeInv, TypeOK
      <4>2. /\ Len(frames'[s]) = n - 1
            /\ \A k \in 1..(n - 1) : frames'[s][k] = frames[s][k]
        BY <1>1, <4>1, PopProperties, EmptySeq
      <4> QED
        BY <1>1, <1>4, <3>1, <4>2
    <3>2. CASE t # s
      BY <1>2, <1>4, <3>2 DEF TypeInv, TypeOK
    <3> QED
      BY <3>1, <3>2
  <2>3. frames[t][i] \in Slot
    BY <2>1, <2>2, FramesAreStored
  <2>4. frames[t][i] # ScmFunction[s]
    <3>1. n \in 1..Len(frames[s])
      BY <1>1
    <3>2. frames[t][i] = frames[s][n] => t = s /\ i = n
      <4>1. \A u, v \in Script : \A k \in 1..Len(frames[u]), j \in 1..Len(frames[v]) :
              frames[u][k] = frames[v][j] => u = v /\ k = j
        BY DEF ChainInv, ChainsAreSeparate
      <4> QED
        BY <2>1, <2>2, <3>1, <4>1
    <3> QED
      BY <1>1, <2>2, <3>2
  <2>5. store'[frames[t][i]] = store[frames[t][i]]
    BY <1>2, <2>3, <2>4 DEF TypeInv, TypeOK
  <2> QED
    BY <2>1, <2>2, <2>5 DEF DirInv
<1> QED
  BY <1>3, <1>4 DEF DirInv

LEMMA DirInit == Init => DirInv
<1>1. Init => \A s \in Custom : status[s] # "running"
  BY ConstantsAssumption DEF Init
<1> QED
  BY <1>1 DEF DirInv

LEMMA DirStep == TypeInv /\ ChainInv /\ DirInv /\ [Next]_vars => DirInv'
<1> SUFFICES ASSUME TypeInv, ChainInv, DirInv, [Next]_vars PROVE DirInv'
  OBVIOUS
<1>0. \A s \in Custom : s \in Script
  BY ConstantsAssumption
<1>1. ASSUME UNCHANGED <<status, BaseIP, m_scriptFileDir, frames, store>> PROVE DirInv'
  BY <1>1 DEF DirInv
<1>2. CASE UNCHANGED vars
  BY <1>1, <1>2 DEF vars, fieldVars, storeVars
<1>3. CASE GameBegin
  BY <1>1, <1>3 DEF GameBegin, storeVars
<1>4. CASE GameEnd
  BY <1>0, <1>4 DEF GameEnd, DirInv
<1>5. ASSUME NEW s \in Script, ScriptNext(s) PROVE DirInv'
  <2>1. CASE StartScript(s)
    <3>1. frames[s] = <<>> /\ Len(frames[s]) = 0
      BY <2>1, EmptySeq DEF StartScript, ChainInv
    <3>2. /\ status'[s] = "running" /\ BaseIP'[s] = Main /\ m_scriptFileDir'[s] = Main
          /\ OthersStay(s) /\ UNCHANGED <<frames, store>>
      BY <2>1 DEF StartScript, OthersStay, storeVars, TypeInv, TypeOK
    <3> QED
      BY <1>0, <3>1, <3>2 DEF DirInv, OthersStay
  <2>2. CASE RemoveScript(s)
    <3>1. /\ status'[s] = "idle" /\ UNCHANGED <<BaseIP, m_scriptFileDir, store>>
          /\ \A t \in Script : t # s => status'[t] = status[t] /\ frames'[t] = frames[t]
      BY <2>2 DEF RemoveScript, fieldVars, TypeInv, TypeOK
    <3> QED
      BY <1>0, <3>1 DEF DirInv
  <2>3. CASE TrySuspendScript(s)
    <3>1. /\ status'[s] = "suspended" /\ UNCHANGED <<BaseIP, m_scriptFileDir, store, frames>>
          /\ \A t \in Script : t # s => status'[t] = status[t]
      BY <2>3 DEF TrySuspendScript, fieldVars, storeVars, TypeInv, TypeOK
    <3> QED
      BY <1>0, <3>1 DEF DirInv
  <2>4. ASSUME NEW args \in Arguments, NEW not \in Flag, opcode_0AB1_Label(s, args, not)
        PROVE  DirInv'
    BY <2>4, CallDirs DEF opcode_0AB1_Label, OthersStay, Executing, DirInv
  <2>5. ASSUME NEW m \in Module, NEW args \in Arguments, NEW not \in Flag,
               opcode_0AB1_Export(s, m, args, not)
        PROVE  DirInv'
    <3>1. /\ OthersStay(s)
          /\ s \in Custom => m_scriptFileDir'[s] = BaseIP'[s]
      BY <2>5 DEF opcode_0AB1_Export, SetScriptFileDir, OthersStay, TypeInv, TypeOK
    <3> QED
      BY <2>5, <3>1, CallDirs DEF opcode_0AB1_Export
  <2>6. ASSUME NEW m \in Module, NEW not \in Flag, opcode_0AB1_Error(s, m, not)
        PROVE  DirInv'
    <3>1. OthersStay(s) /\ status'[s] = "suspended"
      BY <2>6 DEF opcode_0AB1_Error, SetScriptFileDir, OthersStay, TypeInv, TypeOK
    <3> QED
      BY <2>6, <3>1, CallDirs DEF opcode_0AB1_Error
  <2>7. ASSUME NEW src \in 0..NumLocals, NEW dst \in 1..NumLocals, NEW ok \in BOOLEAN,
               \/ opcode_0AB2(s, src, dst, ok)
               \/ \E result \in Flag : opcode_2002(s, result, src, dst, ok)
        PROVE  DirInv'
    BY <2>7, ReturnDirs DEF opcode_0AB2, opcode_2002
  <2>8. CASE opcode_0051_Return(s)
    BY <2>8, ReturnDirs DEF opcode_0051_Return
  <2>9. CASE \/ opcode_0050(s) \/ opcode_0051_Gosub(s)
             \/ \E op \in Operation : opcode_00D6(s, op)
             \/ \E r \in Flag : ConditionOpcode(s, r)
             \/ \E i \in 1..NumLocals, v \in Val : WriteVariable(s, i, v)
    BY <1>1, <2>9 DEF opcode_0050, opcode_0051_Gosub, opcode_00D6, ConditionOpcode,
       WriteVariable, ScopeUnchanged, storeVars
  <2> QED
    BY <1>5, <2>1, <2>2, <2>3, <2>4, <2>5, <2>6, <2>7, <2>8, <2>9 DEF ScriptNext
<1> QED
  BY <1>2, <1>3, <1>4, <1>5 DEF Next

\* A custom script always resolves relative paths from the directory of the code
\* it executes, after any calls of modules and returns from them.
THEOREM DirectoryFollowsCode == Spec => []DirIsThatOfCode
<1>1. DirInv => DirIsThatOfCode
  BY DEF DirInv, DirIsThatOfCode, Executing, GetScriptFileDir
<1> QED
  BY <1>1, TypeInit, TypeStep, ChainInit, ChainStep, DirInit, DirStep, PTL DEF Spec

----------------------------------------------------------------------------
(* CleoCalls implements CallStack *)

\* The variables of missions are those of one script: no two missions run.
OneMission == \A s, t \in Mission : status[s] = "running" /\ status[t] = "running" => s = t

ScopeMap == [s \in Script |-> ScopeOf(s)]
CallerMap == [s \in Script |-> CallersOf(s)]

\* A step of the script s leaves the fields, the frames and the variables of all
\* the others alone.
OthersUntouched(s) ==
  \A t \in Script \ {s} :
    /\ status'[t] = status[t] /\ BaseIP'[t] = BaseIP[t] /\ Stack'[t] = Stack[t]
    /\ bCondResult'[t] = bCondResult[t] /\ LogicalOp'[t] = LogicalOp[t]
    /\ LocalVar'[t] = LocalVar[t] /\ frames'[t] = frames[t]
    /\ \A i \in 1..Len(frames[t]) : store'[frames[t][i]] = store[frames[t][i]]
    /\ t \in Mission /\ status[t] = "running" => missionLocals' = missionLocals

LEMMA OthersSeen ==
  ASSUME NEW s \in Script, OthersUntouched(s)
  PROVE  \A t \in Script \ {s} : ScopeOf(t)' = ScopeOf(t) /\ CallersOf(t)' = CallersOf(t)
<1> TAKE t \in Script \ {s}
<1>1. ScopeOf(t)' = ScopeOf(t)
  <2>1. status[t] = "running" => Locals(t)' = Locals(t)
    BY DEF OthersUntouched, Locals
  <2> QED
    BY <2>1 DEF OthersUntouched, ScopeOf
<1>2. CallersOf(t)' = CallersOf(t)
  <2>1. \A i \in 1..Len(frames[t]) : store'[frames'[t][i]] = store[frames[t][i]]
    BY DEF OthersUntouched
  <2>2. [i \in 1..Len(frames[t]) |-> Caller(store'[frames'[t][i]])]
          = [i \in 1..Len(frames[t]) |-> Caller(store[frames[t][i]])]
    BY <2>1
  <2> QED
    BY <2>2, Zenon DEF OthersUntouched, CallersOf, Caller
<1> QED
  BY <1>1, <1>2

LEMMA NoTerms == Pending(0) = Scopes!NothingPending /\ Cleared = Scopes!Cleared
BY DEF Pending, Scopes!NothingPending, Cleared, Scopes!Cleared

\* A script starts, ends, or is suspended.
LEMMA ResetSeen ==
  ASSUME NEW s \in Script, OthersUntouched(s),
         ScopeOf(s)' = Scopes!Initial, CallersOf(s)' = <<>>
  PROVE  Scopes!Reset({s})
<1>1. \A t \in Script \ {s} : ScopeOf(t)' = ScopeOf(t) /\ CallersOf(t)' = CallersOf(t)
  BY OthersSeen
<1> QED
  BY <1>1 DEF Scopes!Reset

LEMMA StoppedSeen ==
  ASSUME NEW s \in Script, status[s] # "running"
  PROVE  ScopeOf(s) = Scopes!Initial /\ CallersOf(s) = <<>>
BY NoTerms DEF ScopeOf, CallersOf, Scopes!Initial

\* Within a function.
LEMMA StepSeen ==
  ASSUME TypeInv, NEW s \in Script, OthersUntouched(s), status[s] = "running", status'[s] = "running",
         BaseIP'[s] = BaseIP[s],
         Stack'[s] \in {Stack[s], Append(Stack[s], BaseIP[s]), SubSeq(Stack[s], 1, Len(Stack[s]) - 1)},
         frames'[s] = frames[s], \A i \in 1..Len(frames[s]) : store'[frames[s][i]] = store[frames[s][i]]
  PROVE  Scopes!Step(s)
<1>1. \A t \in Script \ {s} : ScopeOf(t)' = ScopeOf(t) /\ CallersOf(t)' = CallersOf(t)
  BY OthersSeen
<1>2. /\ ScopeOf(s)'.code = ScopeOf(s).code
      /\ ScopeOf(s).gosubs = Stack[s] /\ ScopeOf(s).code = BaseIP[s]
      /\ ScopeOf(s)'.gosubs = Stack'[s]
  BY DEF ScopeOf
<1>3. CallersOf(s)' = CallersOf(s)
  <2>1. \A i \in 1..Len(frames[s]) : store'[frames'[s][i]] = store[frames[s][i]]
    OBVIOUS
  <2>2. [i \in 1..Len(frames[s]) |-> Caller(store'[frames'[s][i]])]
          = [i \in 1..Len(frames[s]) |-> Caller(store[frames[s][i]])]
    BY <2>1
  <2> QED
    BY <2>2, Zenon DEF CallersOf, Caller
<1>4. CallerMap' = CallerMap
  BY <1>1, <1>3 DEF CallerMap
<1>5. ScopeMap' = [ScopeMap EXCEPT ![s] = ScopeMap'[s]]
  BY <1>1 DEF ScopeMap
<1>6. /\ ScopeMap[s] = ScopeOf(s) /\ ScopeMap'[s] = ScopeOf(s)'
  BY DEF ScopeMap
<1>7. ScopeMap'[s].code = ScopeMap[s].code
  BY <1>2, <1>6
<1>8. ScopeMap'[s].gosubs \in {ScopeMap[s].gosubs, Append(ScopeMap[s].gosubs, ScopeMap[s].code),
                               SubSeq(ScopeMap[s].gosubs, 1, Len(ScopeMap[s].gosubs) - 1)}
  BY <1>2, <1>6
<1> QED
  BY <1>4, <1>5, <1>7, <1>8, Zenon DEF Scopes!Step, ScopeMap, CallerMap

\* The variables of a script are set, and those of no other one that runs.
LEMMA LocalsSeen ==
  ASSUME TypeInv, NEW s \in Script, NEW l, SetLocals(s, l)
  PROVE  /\ Locals(s)' = l
         /\ \A t \in Script \ {s} : LocalVar'[t] = LocalVar[t]
         /\ s \notin Mission => missionLocals' = missionLocals
BY DEF SetLocals, Locals, TypeInv, TypeOK

LEMMA OthersVariables ==
  ASSUME TypeInv, OneMission, NEW s \in Script, status[s] = "running", NEW l, SetLocals(s, l)
  PROVE  \A t \in Script \ {s} : /\ LocalVar'[t] = LocalVar[t]
                                 /\ t \in Mission /\ status[t] = "running" => missionLocals' = missionLocals
BY LocalsSeen DEF OneMission

\* The callers of a script as a sequence.
CallerType == {Caller(f) : f \in Frame}

LEMMA CallersAreSequence ==
  ASSUME TypeInv, ChainInv, NEW s \in Script, status[s] = "running"
  PROVE  /\ CallersOf(s) \in Seq(CallerType)
         /\ Len(CallersOf(s)) = Len(frames[s]) /\ Len(frames[s]) \in Nat
         /\ \A i \in 1..Len(frames[s]) : CallersOf(s)[i] = Caller(store[frames[s][i]])
         /\ CallersOf(s) = <<>> <=> frames[s] = <<>>
<1>1. Len(frames[s]) \in Nat /\ frames[s] \in Seq(Slot)
  BY LenProperties DEF TypeInv, TypeOK
<1>2. \A i \in 1..Len(frames[s]) : Caller(store[frames[s][i]]) \in CallerType
  BY FramesAreStored, StoredFrame DEF TypeInv, CallerType
<1>3. CallersOf(s) = [i \in 1..Len(frames[s]) |-> Caller(store[frames[s][i]])]
  BY DEF CallersOf
<1>4. CallersOf(s) \in [1..Len(frames[s]) -> CallerType]
  BY <1>2, <1>3, Zenon
<1>5. CallersOf(s) \in Seq(CallerType)
  BY <1>1, <1>4, SeqDef
<1>6. Len(CallersOf(s)) = Len(frames[s])
  BY <1>1, <1>4, <1>5, LenProperties
<1>7. CallersOf(s) = <<>> <=> frames[s] = <<>>
  BY <1>1, <1>5, <1>6, EmptySeq
<1> QED
  BY <1>1, <1>3, <1>5, <1>6, <1>7

CallersSound ==
  \A s \in Script : status[s] = "running" =>
    /\ CallersOf(s) \in Seq(CallerType)
    /\ Len(CallersOf(s)) = Len(frames[s]) /\ Len(frames[s]) \in Nat
    /\ \A i \in 1..Len(frames[s]) : CallersOf(s)[i] = Caller(store[frames[s][i]])

LEMMA CallersAreSound == TypeInv /\ ChainInv => CallersSound
BY CallersAreSequence DEF CallersSound

\* A frame is made for a call: what it will bring back is the caller's scope.
LEMMA FrameSeen ==
  ASSUME TypeInv, ChainInv, NEW s \in Script, NEW not \in BOOLEAN, Executing(s), NewScmFunction(s, not)
  PROVE  /\ frames'[s] = Append(frames[s], FirstUnused) /\ FirstUnused \in Slot
         /\ Caller(store'[FirstUnused]) = [scope |-> ScopeOf(s), not |-> not]
         /\ \A t \in Script : \A i \in 1..Len(frames[t]) :
              store'[frames[t][i]] = store[frames[t][i]]
         /\ Stack'[s] = <<>> /\ bCondResult'[s] = FALSE /\ LogicalOp'[s] = 0
         /\ \A t \in Script \ {s} : /\ Stack'[t] = Stack[t] /\ bCondResult'[t] = bCondResult[t]
                                    /\ LogicalOp'[t] = LogicalOp[t] /\ frames'[t] = frames[t]
<1> DEFINE id == FirstUnused
           frame == [thisScmFunctionId |-> id, prevScmFunctionId |-> ScmFunction[s],
                     savedBaseIP |-> BaseIP[s], savedScriptFileDir |-> GetScriptFileDir(s),
                     savedStack |-> Stack[s], savedTls |-> Locals(s),
                     savedCondResult |-> bCondResult[s], savedLogicalOp |-> LogicalOp[s],
                     savedNotFlag |-> not]
<1>1. id \in Slot /\ store[id] = NoFrame
  BY SearchFinds DEF NewScmFunction, TypeInv, TypeOK, Unused
<1>2. store' = [store EXCEPT ![id] = frame]
  BY DEF NewScmFunction
<1>3. /\ frame.savedBaseIP = BaseIP[s] /\ frame.savedStack = Stack[s] /\ frame.savedTls = Locals(s)
      /\ frame.savedCondResult = bCondResult[s] /\ frame.savedLogicalOp = LogicalOp[s]
      /\ frame.savedNotFlag = not
  OBVIOUS
<1>4. /\ frames'[s] = Append(frames[s], id)
      /\ Stack'[s] = <<>> /\ bCondResult'[s] = FALSE /\ LogicalOp'[s] = 0
      /\ \A t \in Script \ {s} : /\ Stack'[t] = Stack[t] /\ bCondResult'[t] = bCondResult[t]
                                 /\ LogicalOp'[t] = LogicalOp[t] /\ frames'[t] = frames[t]
  BY DEF NewScmFunction, TypeInv, TypeOK
<1> HIDE DEF id, frame
<1>5. store'[id] = frame
  BY <1>1, <1>2 DEF TypeInv, TypeOK
<1>6. Caller(frame) = [scope |-> ScopeOf(s), not |-> not]
  <2>1. ScopeOf(s) = [code |-> BaseIP[s], gosubs |-> Stack[s], cond |-> bCondResult[s],
                      pending |-> Pending(LogicalOp[s]), locals |-> Locals(s)]
    BY DEF Executing, ScopeOf
  <2> QED
    BY <1>3, <2>1 DEF Caller
<1>7. \A t \in Script : \A i \in 1..Len(frames[t]) :
        frames[t][i] # id /\ store'[frames[t][i]] = store[frames[t][i]]
  BY <1>1, <1>2, FramesAreStored DEF TypeInv, TypeOK
<1> QED
  BY <1>1, <1>4, <1>5, <1>6, <1>7 DEF id

\* cleo_call of a function whose code is known.
LEMMA CallSeen ==
  ASSUME TypeInv, ChainInv, OneMission, NEW s \in Script, NEW not \in BOOLEAN,
         NEW args \in Arguments, NEW code \in Code,
         Executing(s), NewScmFunction(s, not), SetLocals(s, FunctionLocals(s, args)),
         status' = status, BaseIP' = [BaseIP EXCEPT ![s] = code], TypeInv', ChainInv'
  PROVE  Scopes!Call(s, code, args, not)
<1>1. status[s] = "running" /\ status'[s] = "running"
  BY DEF Executing
<1>2. OthersUntouched(s)
  <2>1. \A t \in Script \ {s} : BaseIP'[t] = BaseIP[t]
    BY DEF TypeInv, TypeOK
  <2> QED
    BY <1>1, <2>1, FrameSeen, OthersVariables DEF OthersUntouched
<1>3. ScopeOf(s)' = [code |-> code, gosubs |-> <<>>, cond |-> FALSE, pending |-> Pending(0),
                     locals |-> FunctionLocals(s, args)]
  <2>1. BaseIP'[s] = code
    BY DEF TypeInv, TypeOK
  <2>2. Locals(s)' = FunctionLocals(s, args)
    BY LocalsSeen
  <2> QED
    BY <1>1, <2>1, <2>2, FrameSeen DEF ScopeOf
<1>4. ScopeOf(s)' = Scopes!Entered(s, ScopeMap[s], code, args)
  <2>1. ScopeMap[s].locals = Locals(s)
    BY <1>1 DEF ScopeMap, ScopeOf
  <2>2. FunctionLocals(s, args) =
          [i \in 1..NumLocals |-> IF i <= Len(args) THEN args[i]
             ELSE IF s \in {t \in Script : Version[t] < 4} THEN ScopeMap[s].locals[i] ELSE Zero]
    BY <2>1 DEF FunctionLocals
  <2> QED
    BY <1>3, <2>2, NoTerms, Zenon DEF Scopes!Entered
<1>5. CallersOf(s)' = Append(CallersOf(s), [scope |-> ScopeOf(s), not |-> not])
  <2> DEFINE n == Len(frames[s])
             x == [scope |-> ScopeOf(s), not |-> not]
             old == CallersOf(s)
             new == CallersOf(s)'
  <2>1. /\ old \in Seq(CallerType) /\ Len(old) = n /\ n \in Nat
        /\ \A i \in 1..n : old[i] = Caller(store[frames[s][i]])
    BY <1>1, CallersAreSequence
  <2>2. /\ new \in Seq(CallerType) /\ Len(new) = Len(frames'[s])
        /\ \A i \in 1..Len(frames'[s]) : new[i] = Caller(store'[frames'[s][i]])
    <3>1. CallersSound'
      BY CallersAreSound, PTL
    <3> QED
      BY <1>1, <3>1 DEF CallersSound, Caller
  <2>3. /\ Len(frames'[s]) = n + 1 /\ frames'[s][n + 1] = FirstUnused
        /\ \A i \in 1..n : frames'[s][i] = frames[s][i]
    <3>1. frames'[s] = Append(frames[s], FirstUnused) /\ FirstUnused \in Slot
      BY FrameSeen
    <3>2. frames[s] \in Seq(Slot)
      BY DEF TypeInv, TypeOK
    <3> QED
      BY <3>1, <3>2, PushProperties
  <2>4. x = new[n + 1] /\ x \in CallerType
    <3>1. new[n + 1] = Caller(store'[FirstUnused])
      BY <2>1, <2>2, <2>3
    <3>2. n + 1 \in 1..Len(new)
      BY <2>1, <2>2, <2>3
    <3>3. new[n + 1] \in CallerType
      BY <2>2, <3>2, ElementOfSeq
    <3> QED
      BY <3>1, <3>3, FrameSeen
  <2>5. \A i \in 1..n : new[i] = old[i]
    <3>1. \A i \in 1..n : store'[frames[s][i]] = store[frames[s][i]]
      BY FrameSeen
    <3>2. \A i \in 1..n : i \in 1..Len(frames'[s])
      BY <2>1, <2>3
    <3> QED
      BY <2>1, <2>2, <2>3, <3>1, <3>2
  <2> HIDE DEF n, x, old, new
  <2>6. Append(old, x) \in Seq(CallerType) /\ Len(Append(old, x)) = n + 1
        /\ (\A i \in 1..n : Append(old, x)[i] = old[i]) /\ Append(old, x)[n + 1] = x
    BY <2>1, <2>4, PushProperties
  <2>7. \A i \in 1..(n + 1) : new[i] = Append(old, x)[i]
    BY <2>1, <2>4, <2>5, <2>6
  <2>8. new = Append(old, x)
    BY <2>1, <2>2, <2>3, <2>6, <2>7, SeqEqual
  <2> QED
    BY <2>8 DEF old, new, x
<1>6. \A t \in Script \ {s} : ScopeOf(t)' = ScopeOf(t) /\ CallersOf(t)' = CallersOf(t)
  BY <1>2, OthersSeen
<1>7. CallerMap' = [CallerMap EXCEPT ![s] = Append(CallerMap[s], [scope |-> ScopeMap[s], not |-> not])]
  BY <1>5, <1>6 DEF CallerMap, ScopeMap
<1>8. ScopeMap' = [ScopeMap EXCEPT ![s] = Scopes!Entered(s, ScopeMap[s], code, args)]
  <2> DEFINE e == Scopes!Entered(s, ScopeMap[s], code, args)
  <2>1. ScopeOf(s)' = e
    BY <1>4
  <2> HIDE DEF e
  <2>2. ScopeMap' = [ScopeMap EXCEPT ![s] = e]
    BY <1>6, <2>1 DEF ScopeMap
  <2> QED
    BY <2>2 DEF e
<1> QED
  BY <1>7, <1>8, Zenon DEF Scopes!Call, ScopeMap, CallerMap

\* A term of a condition is counted by the code as it is in CallStack.
LEMMA TermsSeen ==
  ASSUME NEW op \in {0} \cup Ands \cup Ors
  PROVE  /\ Pending(op).kind = IF op = 0 THEN "none" ELSE IF op \in Ands THEN "and" ELSE "or"
         /\ (IF Pending(op).left <= 1 THEN Scopes!NothingPending
             ELSE [Pending(op) EXCEPT !.left = Pending(op).left - 1])
              = Pending(IF op \in Ands \cup Ors THEN Decrement(op) ELSE op)
<1>1. Pending(op) = [kind |-> IF op = 0 THEN "none" ELSE IF op \in Ands THEN "and" ELSE "or",
                     left |-> IF op \in Ors THEN op - 20 ELSE op]
  BY DEF Pending, Ands, Ors
<1>2. Pending(0) = [kind |-> "none", left |-> 0] /\ Scopes!NothingPending = [kind |-> "none", left |-> 0]
  BY DEF Pending, Scopes!NothingPending
<1>3. CASE op = 0
  BY <1>1, <1>2, <1>3 DEF Ands, Ors
<1>4. CASE op \in {1, 21}
  BY <1>1, <1>2, <1>4 DEF Ands, Ors, Decrement
<1>5. CASE op \in Ands \ {1}
  <2>1. op \in 2..8
    BY <1>5 DEF Ands
  <2>2. Decrement(op) = op - 1 /\ Pending(op - 1) = [kind |-> "and", left |-> op - 1]
    BY <2>1 DEF Decrement, Pending, Ands
  <2>3. Pending(op) = [kind |-> "and", left |-> op]
    BY <1>1, <2>1 DEF Ands, Ors
  <2> QED
    BY <2>1, <2>2, <2>3 DEF Ands
<1>6. CASE op \in Ors \ {21}
  <2>1. op \in 22..28
    BY <1>6 DEF Ors
  <2>2. Decrement(op) = op - 1 /\ Pending(op - 1) = [kind |-> "or", left |-> op - 21]
    BY <2>1 DEF Decrement, Pending, Ands
  <2>3. Pending(op) = [kind |-> "or", left |-> op - 20]
    BY <1>1, <2>1 DEF Ands, Ors
  <2> QED
    BY <2>1, <2>2, <2>3 DEF Ors, Ands
<1> QED
  BY <1>3, <1>4, <1>5, <1>6

\* ScmFunction::Return makes of the caller's scope what one term of a condition
\* would.
LEMMA ReturnedTerm ==
  ASSUME NEW f \in Frame, NEW r \in BOOLEAN
  PROVE  Scopes!Term(Caller(f).scope, r # Caller(f).not) =
           [code |-> f.savedBaseIP, gosubs |-> f.savedStack, cond |-> ReturnedCond(f, r),
            pending |-> Pending(ReturnedOp(f)), locals |-> f.savedTls]
<1> DEFINE op == f.savedLogicalOp
           sc == [code |-> f.savedBaseIP, gosubs |-> f.savedStack, cond |-> f.savedCondResult,
                  pending |-> Pending(op), locals |-> f.savedTls]
           res == r # Caller(f).not
           value == CASE sc.pending.kind = "none" -> res
                      [] sc.pending.kind = "and"  -> sc.cond /\ res
                      [] sc.pending.kind = "or"   -> sc.cond \/ res
           rest == IF sc.pending.left <= 1 THEN Scopes!NothingPending
                   ELSE [sc.pending EXCEPT !.left = sc.pending.left - 1]
<1>1. /\ op \in {0} \cup Ands \cup Ors /\ f.savedCondResult \in BOOLEAN /\ f.savedNotFlag \in BOOLEAN
  BY DEF Frame
<1>2. Caller(f).scope = sc /\ Caller(f).not = f.savedNotFlag
  BY DEF Caller
<1>3. sc.pending = Pending(op) /\ sc.cond = f.savedCondResult
  OBVIOUS
<1>4. rest = Pending(ReturnedOp(f))
  BY <1>1, <1>3, TermsSeen DEF ReturnedOp
<1>5. res = (IF f.savedNotFlag THEN ~r ELSE r)
  BY <1>1, <1>2
<1>6. sc.pending.kind = IF op = 0 THEN "none" ELSE IF op \in Ands THEN "and" ELSE "or"
  BY <1>1, <1>3, TermsSeen
<1>7. value = ReturnedCond(f, r)
  <2>1. 0 \notin Ands /\ 0 \notin Ors /\ \A x \in Ors : x \notin Ands /\ x # 0
    BY DEF Ands, Ors
  <2> HIDE DEF sc, res, op
  <2>2. CASE op = 0
    BY <1>3, <1>5, <1>6, <2>1, <2>2 DEF ReturnedCond, op
  <2>3. CASE op \in Ands
    BY <1>3, <1>5, <1>6, <2>1, <2>3 DEF ReturnedCond, op
  <2>4. CASE op \in Ors
    BY <1>3, <1>5, <1>6, <2>1, <2>4 DEF ReturnedCond, op
  <2> QED
    BY <1>1, <2>2, <2>3, <2>4
<1>8. Scopes!Term(sc, res) = [sc EXCEPT !.cond = value, !.pending = rest]
  BY DEF Scopes!Term
<1> HIDE DEF value, rest, res, op
<1>9. [sc EXCEPT !.cond = value, !.pending = rest] =
        [code |-> f.savedBaseIP, gosubs |-> f.savedStack, cond |-> value, pending |-> rest,
         locals |-> f.savedTls]
  <2> DEFINE code == f.savedBaseIP
             gosubs == f.savedStack
             cond == f.savedCondResult
             pending == Pending(op)
             locals == f.savedTls
             mid == [code |-> code, gosubs |-> gosubs, cond |-> value, pending |-> pending,
                     locals |-> locals]
  <2> HIDE DEF code, gosubs, cond, pending, locals
  <2>1. sc = [code |-> code, gosubs |-> gosubs, cond |-> cond, pending |-> pending, locals |-> locals]
    BY DEF code, gosubs, cond, pending, locals
  <2> HIDE DEF sc
  <2>2. [sc EXCEPT !.cond = value] = mid
    BY <2>1
  <2>3. [mid EXCEPT !.pending = rest] =
          [code |-> code, gosubs |-> gosubs, cond |-> value, pending |-> rest, locals |-> locals]
    OBVIOUS
  <2>4. [sc EXCEPT !.cond = value, !.pending = rest] = [[sc EXCEPT !.cond = value] EXCEPT !.pending = rest]
    OBVIOUS
  <2> QED
    BY <2>2, <2>3, <2>4 DEF code, gosubs, locals
<1> HIDE DEF sc
<1> QED
  BY <1>2, <1>4, <1>7, <1>8, <1>9 DEF res

\* A return without an error, with the result stored in a variable or not.
LEMMA ReturnSeen ==
  ASSUME TypeInv, ChainInv, OneMission, NEW s \in Script, NEW r \in BOOLEAN,
         NEW src \in 0..NumLocals, NEW dst \in Nat, src # 0 => dst \in 1..NumLocals,
         Executing(s), CleoReturnGeneric(s, r, src, dst, TRUE), TypeInv', ChainInv'
  PROVE  Scopes!Return(s, r)
<1> DEFINE id == ScmFunction[s]
           f == Get(id)
           n == Len(frames[s])
           back == [code |-> f.savedBaseIP, gosubs |-> f.savedStack, cond |-> ReturnedCond(f, r),
                    pending |-> Pending(ReturnedOp(f)), locals |-> f.savedTls]
<1>1. /\ frames[s] # <<>> /\ n \in Nat /\ n >= 1 /\ id = frames[s][n] /\ id \in Slot
      /\ f = store[id] /\ f \in Frame /\ f.thisScmFunctionId = id
  BY ReturnThroughOwnFrame DEF CleoReturnGeneric
<1>2. status[s] = "running" /\ status' = status
  BY DEF Executing, CleoReturnGeneric
<1>3. \A t \in Script \ {s} :
        /\ BaseIP'[t] = BaseIP[t] /\ Stack'[t] = Stack[t] /\ bCondResult'[t] = bCondResult[t]
        /\ LogicalOp'[t] = LogicalOp[t] /\ frames'[t] = frames[t]
  BY DEF CleoReturnGeneric, TypeInv, TypeOK
<1>4. store' = [store EXCEPT ![id] = NoFrame] /\ frames'[s] = SubSeq(frames[s], 1, n - 1)
  BY <1>1 DEF CleoReturnGeneric, TypeInv, TypeOK
<1>5. /\ BaseIP'[s] = f.savedBaseIP /\ Stack'[s] = f.savedStack
      /\ bCondResult'[s] = ReturnedCond(f, r) /\ LogicalOp'[s] = ReturnedOp(f)
      /\ SetLocals(s, IF src # 0 THEN [f.savedTls EXCEPT ![dst] = Locals(s)[src]] ELSE f.savedTls)
  BY DEF CleoReturnGeneric, ReturnedStack, TypeInv, TypeOK
<1>6. OthersUntouched(s)
  <2>1. \A t \in Script \ {s} : \A i \in 1..Len(frames[t]) : frames[t][i] # id
    BY <1>1 DEF ChainInv, ChainsAreSeparate
  <2>2. \A t \in Script \ {s} : \A i \in 1..Len(frames[t]) : store'[frames[t][i]] = store[frames[t][i]]
    BY <1>4, <2>1, FramesAreStored DEF TypeInv, TypeOK
  <2> QED
    BY <1>2, <1>3, <1>5, <2>2, OthersVariables DEF OthersUntouched
<1> HIDE DEF id, f
<1>7. /\ CallersOf(s) \in Seq(CallerType) /\ Len(CallersOf(s)) = n /\ CallersOf(s) # <<>>
      /\ \A i \in 1..n : CallersOf(s)[i] = Caller(store[frames[s][i]])
  BY <1>1, <1>2, CallersAreSequence
<1>8. CallersOf(s)[Len(CallersOf(s))] = Caller(f)
  BY <1>1, <1>7
<1>9. Scopes!Term(Caller(f).scope, r # Caller(f).not) = back
  BY <1>1, ReturnedTerm
<1>10. \/ ScopeOf(s)' = back
       \/ \E i, j \in 1..NumLocals : ScopeOf(s)' = [back EXCEPT !.locals[j] = ScopeOf(s).locals[i]]
  <2>1. ScopeOf(s)' = [code |-> f.savedBaseIP, gosubs |-> f.savedStack, cond |-> ReturnedCond(f, r),
                       pending |-> Pending(ReturnedOp(f)), locals |-> Locals(s)']
    BY <1>2, <1>5 DEF ScopeOf
  <2>2. CASE src = 0
    <3>1. Locals(s)' = f.savedTls
      BY <1>5, <2>2, LocalsSeen
    <3> QED
      BY <2>1, <3>1
  <2>3. CASE src # 0
    <3>1. Locals(s)' = [f.savedTls EXCEPT ![dst] = Locals(s)[src]]
      BY <1>5, <2>3, LocalsSeen
    <3>2. ScopeOf(s).locals = Locals(s)
      BY <1>2 DEF ScopeOf
    <3>3. back.locals = f.savedTls
      OBVIOUS
    <3>4. ScopeOf(s)' = [back EXCEPT !.locals = [back.locals EXCEPT ![dst] = ScopeOf(s).locals[src]]]
      BY <2>1, <3>1, <3>2
    <3> HIDE DEF back
    <3>5. src \in 1..NumLocals /\ dst \in 1..NumLocals
      BY <2>3, ConstantsAssumption
    <3> QED
      BY <3>4, <3>5
  <2> QED
    BY <2>2, <2>3
<1>11. CallersOf(s)' = SubSeq(CallersOf(s), 1, Len(CallersOf(s)) - 1)
  <2> DEFINE old == CallersOf(s)
             new == CallersOf(s)'
             rest == SubSeq(old, 1, Len(old) - 1)
  <2>1. /\ new \in Seq(CallerType) /\ Len(new) = Len(frames'[s])
        /\ \A i \in 1..Len(frames'[s]) : new[i] = Caller(store'[frames'[s][i]])
    <3>1. CallersSound'
      BY CallersAreSound, PTL
    <3> QED
      BY <1>2, <3>1 DEF CallersSound, Caller
  <2>2. /\ Len(frames'[s]) = n - 1
        /\ \A i \in 1..(n - 1) : frames'[s][i] = frames[s][i]
    <3>1. frames[s] \in Seq(Slot)
      BY DEF TypeInv, TypeOK
    <3> QED
      BY <1>1, <1>4, <3>1, PopProperties
  <2>3. /\ rest \in Seq(CallerType) /\ Len(rest) = n - 1
        /\ \A i \in 1..(n - 1) : rest[i] = old[i]
    BY <1>7, PopProperties
  <2>4. \A i \in 1..(n - 1) : store'[frames[s][i]] = store[frames[s][i]]
    <3>1. \A i \in 1..(n - 1) : i \in 1..n /\ i # n
      BY <1>1
    <3>2. n \in 1..n
      BY <1>1
    <3>3. \A i \in 1..(n - 1) : frames[s][i] # id
      BY <1>1, <3>1, <3>2 DEF ChainInv, ChainsAreSeparate
    <3>4. \A i \in 1..(n - 1) : frames[s][i] \in Slot
      BY <3>1, FramesAreStored
    <3> QED
      BY <1>4, <3>3, <3>4 DEF TypeInv, TypeOK
  <2>5. \A i \in 1..n : old[i] = Caller(store[frames[s][i]])
    BY <1>7
  <2> HIDE DEF old, new, rest
  <2>6. \A i \in 1..(n - 1) : new[i] = rest[i]
    <3> TAKE i \in 1..(n - 1)
    <3>1. i \in 1..n /\ i \in 1..Len(frames'[s])
      BY <1>1, <2>2
    <3>2. new[i] = Caller(store'[frames[s][i]])
      BY <2>1, <2>2, <3>1
    <3>3. rest[i] = Caller(store[frames[s][i]])
      BY <2>3, <2>5, <3>1
    <3> QED
      BY <2>4, <3>2, <3>3
  <2>7. new = rest
    BY <2>1, <2>2, <2>3, <2>6, SeqEqual
  <2> QED
    BY <2>7 DEF old, new, rest
<1>12. \A t \in Script \ {s} : ScopeOf(t)' = ScopeOf(t) /\ CallersOf(t)' = CallersOf(t)
  BY <1>6, OthersSeen
<1>13. CallerMap' = [CallerMap EXCEPT ![s] = SubSeq(CallerMap[s], 1, Len(CallerMap[s]) - 1)]
  BY <1>11, <1>12 DEF CallerMap
<1>14. /\ CallerMap[s] = CallersOf(s) /\ ScopeMap[s] = ScopeOf(s) /\ ScopeMap'[s] = ScopeOf(s)'
       /\ ScopeMap' = [ScopeMap EXCEPT ![s] = ScopeOf(s)']
  BY <1>12 DEF CallerMap, ScopeMap
<1>15. Scopes!Top(s) = Caller(f)
  BY <1>8, <1>14 DEF Scopes!Top, CallerMap
<1> DEFINE term == Scopes!Term(Scopes!Top(s).scope, r # Scopes!Top(s).not)
<1>16. term = back
  BY <1>9, <1>15
<1> HIDE DEF back, term
<1>17. \/ ScopeMap' = [ScopeMap EXCEPT ![s] = term]
       \/ \E i, j \in 1..NumLocals :
            ScopeMap' = [ScopeMap EXCEPT ![s] = [term EXCEPT !.locals[j] = ScopeMap[s].locals[i]]]
  BY <1>10, <1>14, <1>16
<1>18. CallerMap[s] # <<>>
  BY <1>7, <1>14
<1> QED
  BY <1>13, <1>17, <1>18, Zenon DEF Scopes!Return, ScopeMap, CallerMap, term

LEMMA MissionInit == Init => OneMission
BY ConstantsAssumption DEF Init, OneMission

\* StartScript waits until no mission runs; nothing else makes a script run.
LEMMA MissionStep == TypeInv /\ OneMission /\ [Next]_vars => OneMission'
<1> SUFFICES ASSUME TypeInv, OneMission, [Next]_vars PROVE OneMission'
  OBVIOUS
<1>1. ASSUME \A s \in Script : status'[s] = "running" => status[s] = "running" PROVE OneMission'
  BY <1>1, ConstantsAssumption DEF OneMission
<1>2. CASE GameBegin \/ GameEnd \/ UNCHANGED vars
  BY <1>1, <1>2 DEF GameBegin, GameEnd, vars
<1>3. ASSUME NEW s \in Script, ScriptNext(s) PROVE OneMission'
  <2>1. CASE StartScript(s)
    <3>1. /\ status' = [status EXCEPT ![s] = "running"]
          /\ s \in Mission => \A t \in Mission : status[t] # "running"
      BY <2>1 DEF StartScript
    <3> QED
      BY <3>1, ConstantsAssumption DEF OneMission, TypeInv, TypeOK
  <2>2. ASSUME status' \in {status, [status EXCEPT ![s] = "idle"], [status EXCEPT ![s] = "suspended"]}
        PROVE  OneMission'
    BY <1>1, <2>2 DEF TypeInv, TypeOK
  <2>3. CASE RemoveScript(s) \/ TrySuspendScript(s) \/ \E m \in Module, not \in Flag : opcode_0AB1_Error(s, m, not)
    BY <2>2, <2>3 DEF RemoveScript, TrySuspendScript, opcode_0AB1_Error
  <2>4. CASE \/ \E args \in Arguments, not \in Flag : opcode_0AB1_Label(s, args, not)
             \/ \E m \in Module, args \in Arguments, not \in Flag : opcode_0AB1_Export(s, m, args, not)
    BY <2>2, <2>4 DEF opcode_0AB1_Label, opcode_0AB1_Export
  <2>5. CASE \/ opcode_0051_Return(s)
             \/ \E src \in 0..NumLocals, dst \in 1..NumLocals, ok \in BOOLEAN :
                  opcode_0AB2(s, src, dst, ok) \/ \E result \in Flag : opcode_2002(s, result, src, dst, ok)
    BY <2>2, <2>5 DEF opcode_0051_Return, opcode_0AB2, opcode_2002, CleoReturnGeneric
  <2>6. CASE \/ opcode_0050(s) \/ opcode_0051_Gosub(s)
             \/ \E op \in Operation : opcode_00D6(s, op)
             \/ \E r \in Flag : ConditionOpcode(s, r)
             \/ \E i \in 1..NumLocals, v \in Val : WriteVariable(s, i, v)
    BY <2>2, <2>6 DEF opcode_0050, opcode_0051_Gosub, opcode_00D6, ConditionOpcode,
       WriteVariable, ScopeUnchanged
  <2> QED
    BY <1>3, <2>1, <2>3, <2>4, <2>5, <2>6 DEF ScriptNext
<1> QED
  BY <1>2, <1>3 DEF Next

StoppedScopes == \A s \in Script : status[s] # "running" =>
                   ScopeOf(s) = Scopes!Initial /\ CallersOf(s) = <<>>

LEMMA StoppedAreInitial == StoppedScopes
BY StoppedSeen DEF StoppedScopes

\* Suspended or removed, a script is as before it starts.
LEMMA StopSeen ==
  ASSUME NEW s \in Script, OthersUntouched(s), status'[s] # "running"
  PROVE  Scopes!StackNext
<1>1. StoppedScopes'
  BY StoppedAreInitial, PTL
<1>2. ScopeOf(s)' = Scopes!Initial /\ CallersOf(s)' = <<>>
  BY <1>1, NoTerms DEF StoppedScopes, Scopes!Initial
<1>3. Scopes!Reset({s})
  BY <1>2, ResetSeen
<1> QED
  BY <1>3 DEF Scopes!StackNext

LEMMA StartSeen ==
  ASSUME TypeInv, ChainInv, OneMission, NEW s \in Script, StartScript(s), TypeInv', ChainInv'
  PROVE  Scopes!StackNext
<1>1. status[s] = "idle" /\ status'[s] = "running" /\ UNCHANGED <<store, frames>>
  BY DEF StartScript, storeVars, TypeInv, TypeOK
<1>2. SetLocals(s, Cleared) /\ \A t \in Script : t # s => status'[t] = status[t]
  BY DEF StartScript, TypeInv, TypeOK
<1>3. s \in Mission => \A t \in Mission : status[t] # "running"
  BY DEF StartScript
<1>4. OthersUntouched(s)
  <2>1. \A t \in Script \ {s} :
          /\ BaseIP'[t] = BaseIP[t] /\ Stack'[t] = Stack[t] /\ bCondResult'[t] = bCondResult[t]
          /\ LogicalOp'[t] = LogicalOp[t]
    BY DEF StartScript, TypeInv, TypeOK
  <2>2. \A t \in Script \ {s} : LocalVar'[t] = LocalVar[t]
    BY <1>2, LocalsSeen
  <2>3. \A t \in Script \ {s} : t \in Mission /\ status[t] = "running" => missionLocals' = missionLocals
    BY <1>2, <1>3, LocalsSeen
  <2> QED
    BY <1>1, <1>2, <2>1, <2>2, <2>3 DEF OthersUntouched
<1>5. ScopeOf(s)' = Scopes!Initial
  <2>1. BaseIP'[s] = Main /\ Stack'[s] = <<>> /\ bCondResult'[s] = FALSE /\ LogicalOp'[s] = 0
    BY DEF StartScript, TypeInv, TypeOK
  <2>2. Locals(s)' = Cleared
    BY <1>2, LocalsSeen
  <2> QED
    BY <1>1, <2>1, <2>2, NoTerms DEF ScopeOf, Scopes!Initial
<1>6. CallersOf(s)' = <<>>
  <2>1. CallersSound'
    BY CallersAreSound, PTL
  <2>2. frames'[s] = <<>> /\ Len(frames'[s]) = 0
    BY <1>1, EmptySeq DEF ChainInv
  <2>3. CallersOf(s)' \in Seq(CallerType) /\ Len(CallersOf(s)') = 0
    BY <1>1, <2>1, <2>2 DEF CallersSound
  <2> QED
    BY <2>3, EmptySeq
<1>7. Scopes!Reset({s})
  BY <1>4, <1>5, <1>6, ResetSeen
<1> QED
  BY <1>7 DEF Scopes!StackNext

LEMMA EndSeen == ASSUME GameEnd PROVE Scopes!StackNext
<1>1. \A s \in Script : status'[s] # "running"
  BY DEF GameEnd
<1>2. StoppedScopes'
  BY StoppedAreInitial, PTL
<1>3. \A s \in Script : ScopeOf(s)' = Scopes!Initial /\ CallersOf(s)' = <<>>
  BY <1>1, <1>2, NoTerms DEF StoppedScopes, Scopes!Initial
<1>4. Scopes!Reset(Script)
  BY <1>3 DEF Scopes!Reset
<1> QED
  BY <1>4 DEF Scopes!StackNext

LEMMA ErrorSeen ==
  ASSUME TypeInv, ChainInv, NEW s \in Script, NEW m \in Module, NEW not \in BOOLEAN,
         opcode_0AB1_Error(s, m, not)
  PROVE  Scopes!StackNext
<1>1. /\ Executing(s) /\ NewScmFunction(s, not) /\ UNCHANGED <<LocalVar, missionLocals>>
      /\ status' = [status EXCEPT ![s] = "suspended"]
      /\ BaseIP' = BaseIP \/ BaseIP' = [BaseIP EXCEPT ![s] = m]
  BY DEF opcode_0AB1_Error
<1>2. \A t \in Script \ {s} : status'[t] = status[t] /\ BaseIP'[t] = BaseIP[t]
  BY <1>1 DEF TypeInv, TypeOK
<1>3. OthersUntouched(s)
  BY <1>1, <1>2, FrameSeen DEF OthersUntouched
<1>4. status'[s] # "running"
  BY <1>1 DEF TypeInv, TypeOK
<1> QED
  BY <1>3, <1>4, StopSeen

\* A return, and the error that may follow it.
LEMMA ReturnStepSeen ==
  ASSUME TypeInv, ChainInv, OneMission, NEW s \in Script, NEW r \in BOOLEAN,
         NEW src \in 0..NumLocals, NEW dst \in Nat, src # 0 => dst \in 1..NumLocals, NEW ok \in BOOLEAN,
         Executing(s), CleoReturnGeneric(s, r, src, dst, ok), TypeInv', ChainInv'
  PROVE  Scopes!StackNext
<1>1. CASE ok
  <2>1. ok = TRUE
    BY <1>1
  <2>2. CleoReturnGeneric(s, r, src, dst, TRUE)
    BY <2>1
  <2>3. Scopes!Return(s, r)
    BY <2>2, ReturnSeen
  <2> QED
    BY <2>3 DEF Scopes!StackNext
<1>2. CASE ~ok
  <2> DEFINE id == ScmFunction[s]
  <2>1. /\ id \in Slot /\ Get(id).thisScmFunctionId = id /\ Len(frames[s]) \in 1..Len(frames[s])
        /\ id = frames[s][Len(frames[s])]
    BY ReturnThroughOwnFrame DEF CleoReturnGeneric
  <2>2. /\ store' = [store EXCEPT ![id] = NoFrame] /\ status' = [status EXCEPT ![s] = "suspended"]
        /\ SetLocals(s, Get(id).savedTls)
    BY <1>2, <2>1 DEF CleoReturnGeneric
  <2>3. \A t \in Script \ {s} :
          /\ status'[t] = status[t]
          /\ BaseIP'[t] = BaseIP[t] /\ Stack'[t] = Stack[t] /\ bCondResult'[t] = bCondResult[t]
          /\ LogicalOp'[t] = LogicalOp[t] /\ frames'[t] = frames[t]
    BY <2>2 DEF CleoReturnGeneric, TypeInv, TypeOK
  <2>4. \A t \in Script \ {s} : \A i \in 1..Len(frames[t]) : frames[t][i] # id
    BY <2>1 DEF ChainInv, ChainsAreSeparate
  <2>5. \A t \in Script \ {s} : \A i \in 1..Len(frames[t]) : store'[frames[t][i]] = store[frames[t][i]]
    BY <2>2, <2>4, FramesAreStored DEF TypeInv, TypeOK
  <2>6. OthersUntouched(s)
    BY <2>2, <2>3, <2>5, OthersVariables DEF OthersUntouched, Executing
  <2>7. status'[s] # "running"
    BY <2>2 DEF TypeInv, TypeOK
  <2> QED
    BY <2>6, <2>7, StopSeen
<1> QED
  BY <1>1, <1>2

LEMMA CallStepSeen ==
  ASSUME TypeInv, ChainInv, OneMission, NEW s \in Script, NEW args \in Arguments, NEW not \in BOOLEAN,
         \/ opcode_0AB1_Label(s, args, not)
         \/ \E m \in Module : opcode_0AB1_Export(s, m, args, not),
         TypeInv', ChainInv'
  PROVE  Scopes!StackNext
<1>1. PICK code \in Code : /\ Executing(s) /\ NewScmFunction(s, not) /\ status' = status
                           /\ SetLocals(s, FunctionLocals(s, args))
                           /\ BaseIP' = [BaseIP EXCEPT ![s] = code]
  <2>1. CASE opcode_0AB1_Label(s, args, not)
    <3>1. BaseIP[s] \in Code /\ BaseIP' = [BaseIP EXCEPT ![s] = BaseIP[s]]
      BY <2>1 DEF opcode_0AB1_Label, TypeInv, TypeOK
    <3> QED
      BY <2>1, <3>1 DEF opcode_0AB1_Label
  <2>2. CASE \E m \in Module : opcode_0AB1_Export(s, m, args, not)
    BY <2>2 DEF opcode_0AB1_Export, Code
  <2> QED
    BY <2>1, <2>2
<1>2. Scopes!Call(s, code, args, not)
  BY <1>1, CallSeen
<1>3. PICK n \in 0..NumLocals : args \in [1..n -> Val]
  BY DEF Arguments
<1> QED
  BY <1>2, <1>3 DEF Scopes!StackNext, Code

\* Gosubs, conditions and variables.
LEMMA WithinSeen ==
  ASSUME TypeInv, OneMission, NEW s \in Script,
         \/ opcode_0050(s) \/ opcode_0051_Gosub(s)
         \/ \E op \in Operation : opcode_00D6(s, op)
         \/ \E r \in Flag : ConditionOpcode(s, r)
         \/ \E i \in 1..NumLocals, v \in Val : WriteVariable(s, i, v)
  PROVE  Scopes!StackNext
<1>1. status[s] = "running" /\ UNCHANGED <<status, BaseIP, frames, store>>
  BY DEF opcode_0050, opcode_0051_Gosub, opcode_00D6, ConditionOpcode, WriteVariable,
     ScopeUnchanged, storeVars, Executing
<1>2. \A t \in Script \ {s} : /\ Stack'[t] = Stack[t] /\ bCondResult'[t] = bCondResult[t]
                              /\ LogicalOp'[t] = LogicalOp[t]
  BY DEF opcode_0050, opcode_0051_Gosub, opcode_00D6, ConditionOpcode, WriteVariable,
     ScopeUnchanged, TypeInv, TypeOK
<1>3. \A t \in Script \ {s} : /\ LocalVar'[t] = LocalVar[t]
                              /\ t \in Mission /\ status[t] = "running" => missionLocals' = missionLocals
  <2>1. CASE \E i \in 1..NumLocals, v \in Val : WriteVariable(s, i, v)
    BY <1>1, <2>1, OthersVariables DEF WriteVariable
  <2>2. CASE UNCHANGED <<LocalVar, missionLocals>>
    BY <2>2
  <2> QED
    BY <2>1, <2>2 DEF opcode_0050, opcode_0051_Gosub, opcode_00D6, ConditionOpcode, ScopeUnchanged
<1>4. Stack'[s] \in {Stack[s], Append(Stack[s], BaseIP[s]), SubSeq(Stack[s], 1, Len(Stack[s]) - 1)}
  BY DEF opcode_0050, opcode_0051_Gosub, opcode_00D6, ConditionOpcode, WriteVariable,
     ScopeUnchanged, TypeInv, TypeOK
<1>5. OthersUntouched(s)
  BY <1>1, <1>2, <1>3 DEF OthersUntouched
<1>6. Scopes!Step(s)
  BY <1>1, <1>4, <1>5, StepSeen
<1> QED
  BY <1>6 DEF Scopes!StackNext

LEMMA ScopesStep ==
  TypeInv /\ ChainInv /\ OneMission /\ TypeInv' /\ ChainInv' /\ [Next]_vars
    => [Scopes!StackNext]_<<ScopeMap, CallerMap>>
<1> SUFFICES ASSUME TypeInv, ChainInv, OneMission, TypeInv', ChainInv', [Next]_vars
             PROVE  Scopes!StackNext \/ UNCHANGED <<ScopeMap, CallerMap>>
  OBVIOUS
<1>1. CASE UNCHANGED vars \/ GameBegin
  <2>1. UNCHANGED <<status, BaseIP, Stack, LocalVar, missionLocals, bCondResult, LogicalOp, frames, store>>
    BY <1>1 DEF GameBegin, vars, fieldVars, storeVars
  <2> QED
    BY <2>1 DEF ScopeMap, CallerMap, ScopeOf, CallersOf, Caller, Locals
<1>2. CASE GameEnd
  BY <1>2, EndSeen
<1>3. ASSUME NEW s \in Script, ScriptNext(s) PROVE Scopes!StackNext
  <2>1. CASE StartScript(s)
    BY <2>1, StartSeen
  <2>2. CASE RemoveScript(s) \/ TrySuspendScript(s)
    <3>1. OthersUntouched(s)
      BY <2>2 DEF RemoveScript, TrySuspendScript, fieldVars, storeVars, OthersUntouched, TypeInv, TypeOK
    <3>2. status'[s] # "running"
      BY <2>2 DEF RemoveScript, TrySuspendScript, TypeInv, TypeOK
    <3> QED
      BY <3>1, <3>2, StopSeen
  <2>3. ASSUME NEW args \in Arguments, NEW not \in Flag,
               \/ opcode_0AB1_Label(s, args, not)
               \/ \E m \in Module : opcode_0AB1_Export(s, m, args, not)
        PROVE  Scopes!StackNext
    BY <2>3, FlagType, CallStepSeen
  <2>4. ASSUME NEW m \in Module, NEW not \in Flag, opcode_0AB1_Error(s, m, not)
        PROVE  Scopes!StackNext
    BY <2>4, FlagType, ErrorSeen
  <2>5. ASSUME NEW src \in 0..NumLocals, NEW dst \in 1..NumLocals, NEW ok \in BOOLEAN,
               opcode_0AB2(s, src, dst, ok)
        PROVE  Scopes!StackNext
    <3>1. bCondResult[s] \in BOOLEAN
      BY DEF TypeInv, TypeOK
    <3>2. dst \in Nat
      BY ConstantsAssumption
    <3> QED
      BY <2>5, <3>1, <3>2, ReturnStepSeen DEF opcode_0AB2
  <2>6. ASSUME NEW src \in 0..NumLocals, NEW dst \in 1..NumLocals, NEW ok \in BOOLEAN,
               NEW result \in Flag, opcode_2002(s, result, src, dst, ok)
        PROVE  Scopes!StackNext
    <3>1. UpdateCompareFlag(bCondResult[s], LogicalOp[s], result) \in BOOLEAN
      BY FlagType, TermType DEF TypeInv, TypeOK
    <3>2. dst \in Nat
      BY ConstantsAssumption
    <3> QED
      BY <2>6, <3>1, <3>2, ReturnStepSeen DEF opcode_2002
  <2>7. CASE opcode_0051_Return(s)
    <3>1. UpdateCompareFlag(bCondResult[s], LogicalOp[s], FALSE) \in BOOLEAN
      BY TermType DEF TypeInv, TypeOK
    <3>2. Executing(s) /\ CleoReturnGeneric(s, UpdateCompareFlag(bCondResult[s], LogicalOp[s], FALSE), 0, 1, TRUE)
      BY <2>7 DEF opcode_0051_Return
    <3>3. 0 \in 0..NumLocals /\ 1 \in Nat
      BY ConstantsAssumption
    <3> QED
      BY <3>1, <3>2, <3>3, ReturnStepSeen
  <2>8. CASE \/ opcode_0050(s) \/ opcode_0051_Gosub(s)
             \/ \E op \in Operation : opcode_00D6(s, op)
             \/ \E r \in Flag : ConditionOpcode(s, r)
             \/ \E i \in 1..NumLocals, v \in Val : WriteVariable(s, i, v)
    BY <2>8, WithinSeen
  <2> QED
    BY <1>3, <2>1, <2>2, <2>3, <2>4, <2>5, <2>6, <2>7, <2>8 DEF ScriptNext
<1> QED
  BY <1>1, <1>2, <1>3 DEF Next

LEMMA ScopesStart == Init => Scopes!StackInit
<1> SUFFICES ASSUME Init PROVE Scopes!StackInit
  OBVIOUS
<1>1. \A s \in Script : ScopeOf(s) = Scopes!Initial /\ CallersOf(s) = <<>>
  BY StoppedAreInitial DEF Init, StoppedScopes
<1> QED
  BY <1>1 DEF Scopes!StackInit

\* For every script cleo_call and the return opcodes are a call stack of its own,
\* whatever slots of the store its frames take, whoever else calls and returns in
\* between, and however often scripts are suspended, removed and started again
\* with calls pending (ScmFunction, CleoReturnGeneric).
THEOREM FunctionsAreCallStacks == Spec => ImplementsCallStack
<1>1. TypeInv /\ ChainInv /\ OneMission /\ TypeInv' /\ ChainInv' /\ [Next]_vars
        => [Scopes!StackNext]_<<[s \in Script |-> ScopeOf(s)], [s \in Script |-> CallersOf(s)]>>
  BY ScopesStep DEF ScopeMap, CallerMap
<1> QED
  BY <1>1, ScopesStart, TypeInit, TypeStep, ChainInit, ChainStep, MissionInit, MissionStep, PTL
     DEF Spec, ImplementsCallStack, Scopes!StackSpec
=============================================================================
