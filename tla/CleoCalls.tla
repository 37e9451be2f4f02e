------------------------------ MODULE CleoCalls ------------------------------
(***************************************************************************)
(* CLEO functions: cleo_call (0AB1), the return opcodes and gosub, over    *)
(* the one store of ScmFunction frames all scripts share.  A frame keeps   *)
(* the scope of the caller; frames are linked by their index in the store. *)
(*                                                                         *)
(* Abstractions.  Code (BaseIP, code size, file) is the script's own, Main,*)
(* or that of a module; a position in the code is the code it lies in.  A  *)
(* call has at most NumLocals arguments and returns at most one value.     *)
(***************************************************************************)
EXTENDS Naturals, Sequences, FiniteSets

CONSTANTS
  Script,     \* script structures, of the game and of CLEO
  Custom,     \* those that are custom scripts
  Mission,    \* those with bIsMission
  Version,    \* the CLEO version each is compatible with: 3, 4 or 5
  Main,       \* a script's own code, and its directory
  Module,     \* modules, with their code and directory
  StoreSize,  \* Store_Size; slot 0 is not used
  StackSize,  \* gosubs that can be pending in one function
  NumLocals, Val, Zero,  \* local variables, their values, the cleared one
  Flag,       \* condition results and negations tried, BOOLEAN or less
  MaxTerms    \* bound on the terms of a compound condition, at most 8

ASSUME ConstantsAssumption ==
  /\ Custom \subseteq Script /\ Mission \subseteq Script
  /\ Version \in [Script -> 3..5]
  /\ Main \notin Module
  /\ StoreSize \in Nat /\ StoreSize >= 2
  /\ StackSize \in Nat /\ NumLocals \in Nat
  /\ Zero \in Val
  /\ Flag \subseteq BOOLEAN
  /\ MaxTerms \in 0..8

VARIABLES
  status,         \* "idle", "running", or "suspended" by an opcode error
  \* --- fields of a script
  ScmFunction, BaseIP, m_scriptFileDir, Stack, LocalVar, bCondResult, LogicalOp,
  \* --- shared by scripts
  missionLocals, MainScriptFileDir, scriptsLoaded, store, allocationPlace,
  frames          \* auxiliary: the slots of a script's pending calls, oldest first

fieldVars == <<ScmFunction, BaseIP, m_scriptFileDir, Stack, LocalVar, bCondResult,
               LogicalOp, missionLocals, MainScriptFileDir>>
storeVars == <<store, allocationPlace, frames>>
vars == <<status, fieldVars, scriptsLoaded, storeVars>>

----------------------------------------------------------------------------
Slot == 1..(StoreSize - 1)
Code == {Main} \cup Module
Cleared == [i \in 1..NumLocals |-> Zero]

NoFrame == [thisScmFunctionId |-> 0]
Get(id) == IF id \in Slot THEN store[id] ELSE NoFrame

\* Missions keep their variables in one block of the game.
Locals(s) == IF s \in Mission THEN missionLocals ELSE LocalVar[s]

SetLocals(s, l) ==
  IF s \in Mission THEN missionLocals' = l /\ UNCHANGED LocalVar
  ELSE LocalVar' = [LocalVar EXCEPT ![s] = l] /\ UNCHANGED missionLocals

\* Variant: the directory is not that of the code.
SetScriptFileDirNot(s, dir) == UNCHANGED <<m_scriptFileDir, MainScriptFileDir>>

\* All scripts of the game share one directory.
GetScriptFileDir(s) == IF s \in Custom THEN m_scriptFileDir[s] ELSE MainScriptFileDir
SetScriptFileDir(s, dir) ==
  IF s \in Custom
  THEN m_scriptFileDir' = [m_scriptFileDir EXCEPT ![s] = dir] /\ UNCHANGED MainScriptFileDir
  ELSE MainScriptFileDir' = dir /\ UNCHANGED m_scriptFileDir

Ands == 1..8
Ors == 21..28
Operation == {op \in {0} \cup Ands \cup Ors : op % 20 <= MaxTerms}

\* operator-- of eLogicalOperation
Decrement(op) == IF op \in {0, 21} THEN 0 ELSE op - 1

\* The game's UpdateCompareFlag: the condition after a term with result r.
UpdateCompareFlag(cond, op, r) == IF op \in Ands THEN cond /\ r
                                  ELSE IF op \in Ors THEN cond \/ r ELSE r

----------------------------------------------------------------------------
(* The store *)

Unused == {id \in Slot : store[id] = NoFrame}

\* Steps of the search from allocationPlace, which wraps at the end.
Distance(id) == IF id >= allocationPlace THEN id - allocationPlace
                ELSE id + (StoreSize - 1) - allocationPlace

FirstUnused == CHOOSE id \in Unused :
                 \A other \in Unused : Distance(id) <= Distance(other)

\* new ScmFunction(thread): operator new takes the first unused slot, the
\* constructor saves the scope and starts a new one.
NewScmFunction(s, not) ==
  LET id == FirstUnused IN
  /\ Unused # {}
  /\ store' = [store EXCEPT ![id] =
       [thisScmFunctionId |-> id, prevScmFunctionId |-> ScmFunction[s],
        savedBaseIP |-> BaseIP[s], savedScriptFileDir |-> GetScriptFileDir(s),
        savedStack |-> Stack[s], savedTls |-> Locals(s),
        savedCondResult |-> bCondResult[s], savedLogicalOp |-> LogicalOp[s],
        savedNotFlag |-> not]]
  /\ allocationPlace' = id
  /\ ScmFunction' = [ScmFunction EXCEPT ![s] = id]
  /\ frames' = [frames EXCEPT ![s] = Append(@, id)]
  /\ Stack' = [Stack EXCEPT ![s] = <<>>]
  /\ bCondResult' = [bCondResult EXCEPT ![s] = FALSE]
  /\ LogicalOp' = [LogicalOp EXCEPT ![s] = 0]

----------------------------------------------------------------------------
(* Scripts *)

Executing(s) == scriptsLoaded /\ status[s] = "running"

\* Variant: Init leaves the fields CLEO has added alone.
InitialFunctionKept(s) == ScmFunction[s]

\* HOOK_CRunningScriptInit clears a structure of the game before it is used
\* again, the constructor one of CLEO.
InitialFunction(s) == 0

\* A script starts.  A mission only while no other runs; its variables are wiped.
StartScript(s) ==
  /\ status[s] = "idle"
  /\ s \in Custom => scriptsLoaded
  /\ s \in Mission => \A t \in Mission : status[t] # "running"
  /\ status' = [status EXCEPT ![s] = "running"]
  /\ ScmFunction' = [ScmFunction EXCEPT ![s] = InitialFunction(s)]
  /\ BaseIP' = [BaseIP EXCEPT ![s] = Main]
  /\ m_scriptFileDir' = [m_scriptFileDir EXCEPT ![s] = Main]
  /\ Stack' = [Stack EXCEPT ![s] = <<>>]
  /\ SetLocals(s, Cleared)
  /\ bCondResult' = [bCondResult EXCEPT ![s] = FALSE]
  /\ LogicalOp' = [LogicalOp EXCEPT ![s] = 0]
  /\ UNCHANGED <<MainScriptFileDir, scriptsLoaded, storeVars>>

\* RemoveScript, from any state of the script: its frames stay in the store.
RemoveScript(s) ==
  /\ scriptsLoaded /\ status[s] # "idle"
  /\ status' = [status EXCEPT ![s] = "idle"]
  /\ frames' = [frames EXCEPT ![s] = <<>>]
  /\ UNCHANGED <<fieldVars, scriptsLoaded, store, allocationPlace>>

\* An opcode handler finds an error: the script sleeps for ever.
TrySuspendScript(s) ==
  /\ Executing(s)
  /\ status' = [status EXCEPT ![s] = "suspended"]
  /\ UNCHANGED <<fieldVars, scriptsLoaded, storeVars>>

\* CScriptEngine::GameBegin
GameBegin ==
  /\ ~scriptsLoaded
  /\ scriptsLoaded' = TRUE
  /\ MainScriptFileDir' = Main
  /\ UNCHANGED <<status, ScmFunction, BaseIP, m_scriptFileDir, Stack, LocalVar,
       bCondResult, LogicalOp, missionLocals, storeVars>>

\* Variant: the frames are not freed.
ClearNot == UNCHANGED <<store, allocationPlace>>

\* ScmFunction::Clear deletes every frame; operator delete frees the slot the
\* frame says it is in.
Clear ==
  LET freed == {store[id].thisScmFunctionId : id \in Slot \ Unused} IN
  /\ store' = [id \in Slot |-> IF id \in freed THEN NoFrame ELSE store[id]]
  /\ allocationPlace' = 1

\* The session ends: custom scripts are removed, the store is cleared, and the
\* game drops its own scripts.
GameEnd ==
  /\ scriptsLoaded
  /\ scriptsLoaded' = FALSE
  /\ status' = [s \in Script |-> "idle"]
  /\ Clear
  /\ frames' = [s \in Script |-> <<>>]
  /\ UNCHANGED fieldVars

----------------------------------------------------------------------------
(* Opcodes *)

\* Variables of a function, after the arguments were passed.
FunctionLocals(s, args) ==
  [i \in 1..NumLocals |-> IF i <= Len(args) THEN args[i]
                          ELSE IF Version[s] < 4 THEN Locals(s)[i] ELSE Zero]

\* cleo_call of a label, in the current code.
opcode_0AB1_Label(s, args, not) ==
  /\ Executing(s)
  /\ NewScmFunction(s, not)
  /\ SetLocals(s, FunctionLocals(s, args))
  /\ UNCHANGED <<status, BaseIP, m_scriptFileDir, MainScriptFileDir, scriptsLoaded>>

\* cleo_call of an export of a module.
opcode_0AB1_Export(s, module, args, not) ==
  /\ Executing(s)
  /\ NewScmFunction(s, not)
  /\ BaseIP' = [BaseIP EXCEPT ![s] = module]
  /\ SetScriptFileDir(s, module)
  /\ SetLocals(s, FunctionLocals(s, args))
  /\ UNCHANGED <<status, scriptsLoaded>>

\* cleo_call with an unknown module or wrong arguments: the frame is made, then
\* the script is suspended, before or after it was sent to the module.
opcode_0AB1_Error(s, module, not) ==
  /\ Executing(s)
  /\ NewScmFunction(s, not)
  /\ \/ UNCHANGED <<BaseIP, m_scriptFileDir, MainScriptFileDir>>
     \/ BaseIP' = [BaseIP EXCEPT ![s] = module] /\ SetScriptFileDir(s, module)
  /\ status' = [status EXCEPT ![s] = "suspended"]
  /\ UNCHANGED <<LocalVar, missionLocals, scriptsLoaded>>

\* Variant: a return leaves the gosub stack as it is in the function.
ReturnedStackNot(s, f) == Stack[s]

\* What ScmFunction::Return makes of the caller's pending condition.
ReturnedCond(f, r) ==
  LET condResult == IF f.savedNotFlag THEN ~r ELSE r IN
  IF f.savedLogicalOp \in Ands THEN f.savedCondResult /\ condResult
  ELSE IF f.savedLogicalOp \in Ors THEN f.savedCondResult \/ condResult
  ELSE condResult

\* Variant: the term of the condition is not counted.
ReturnedOpKept(f) == f.savedLogicalOp

ReturnedOp(f) == IF f.savedLogicalOp \in Ands \cup Ors
                 THEN Decrement(f.savedLogicalOp) ELSE f.savedLogicalOp

ReturnedStack(s, f) == f.savedStack

\* CleoReturnGeneric with the result r: the value of variable src (none if 0)
\* is read in the function's scope and stored in dst in the caller's.  An error
\* in the storing suspends the script after the return.
CleoReturnGeneric(s, r, src, dst, ok) ==
  LET f == Get(ScmFunction[s])
      stored == [f.savedTls EXCEPT ![dst] = Locals(s)[src]]
  IN
  /\ f # NoFrame
  /\ BaseIP' = [BaseIP EXCEPT ![s] = f.savedBaseIP]
  /\ SetScriptFileDir(s, f.savedScriptFileDir)
  /\ Stack' = [Stack EXCEPT ![s] = ReturnedStack(s, f)]
  /\ SetLocals(s, IF ok /\ src # 0 THEN stored ELSE f.savedTls)
  /\ bCondResult' = [bCondResult EXCEPT ![s] = ReturnedCond(f, r)]
  /\ LogicalOp' = [LogicalOp EXCEPT ![s] = ReturnedOp(f)]
  /\ ScmFunction' = [ScmFunction EXCEPT ![s] = f.prevScmFunctionId]
  /\ store' = [store EXCEPT ![f.thisScmFunctionId] = NoFrame]
  /\ frames' = [frames EXCEPT ![s] = SubSeq(@, 1, Len(@) - 1)]
  /\ status' = IF ok THEN status ELSE [status EXCEPT ![s] = "suspended"]
  /\ UNCHANGED <<allocationPlace, scriptsLoaded>>

\* cleo_return: the result is the condition flag of the function.
opcode_0AB2(s, src, dst, ok) ==
  /\ Executing(s)
  /\ CleoReturnGeneric(s, bCondResult[s], src, dst, ok)

\* cleo_return_with, and cleo_return_fail, which returns FALSE and no value.
opcode_2002(s, result, src, dst, ok) ==
  /\ Executing(s)
  /\ CleoReturnGeneric(s, UpdateCompareFlag(bCondResult[s], LogicalOp[s], result), src, dst, ok)

\* return without a pending gosub leaves the function, from CLEO 5 on.
opcode_0051_Return(s) ==
  /\ Executing(s)
  /\ Stack[s] = <<>> /\ Version[s] = 5
  /\ CleoReturnGeneric(s, UpdateCompareFlag(bCondResult[s], LogicalOp[s], FALSE), 0, 1, TRUE)

\* Variant: one gosub too many is let through.
StackFullOffByOne(s) == Len(Stack[s]) > StackSize

StackFull(s) == Len(Stack[s]) >= StackSize

ScopeUnchanged ==
  UNCHANGED <<ScmFunction, BaseIP, m_scriptFileDir, MainScriptFileDir, LocalVar,
    missionLocals, status, scriptsLoaded, storeVars>>

\* gosub, and gosub_if_false, which does not suspend if the flag is set.
opcode_0050(s) ==
  /\ Executing(s)
  /\ ~StackFull(s)
  /\ Stack' = [Stack EXCEPT ![s] = Append(@, BaseIP[s])]
  /\ ScopeUnchanged /\ UNCHANGED <<bCondResult, LogicalOp>>

\* return and return_if_false, from a gosub.
opcode_0051_Gosub(s) ==
  /\ Executing(s)
  /\ Stack[s] # <<>>
  /\ Stack' = [Stack EXCEPT ![s] = SubSeq(@, 1, Len(@) - 1)]
  /\ ScopeUnchanged /\ UNCHANGED <<bCondResult, LogicalOp>>

\* Opcodes of the game: an `if` starts a compound condition, a condition opcode
\* is one term of it, others write variables.
opcode_00D6(s, op) ==
  /\ Executing(s)
  /\ LogicalOp' = [LogicalOp EXCEPT ![s] = op]
  /\ bCondResult' = [bCondResult EXCEPT ![s] = op \in Ands]
  /\ ScopeUnchanged /\ UNCHANGED Stack

ConditionOpcode(s, r) ==
  /\ Executing(s)
  /\ bCondResult' = [bCondResult EXCEPT ![s] = UpdateCompareFlag(@, LogicalOp[s], r)]
  /\ LogicalOp' = [LogicalOp EXCEPT ![s] = Decrement(@)]
  /\ ScopeUnchanged /\ UNCHANGED Stack

WriteVariable(s, i, v) ==
  /\ Executing(s)
  /\ SetLocals(s, [Locals(s) EXCEPT ![i] = v])
  /\ UNCHANGED <<ScmFunction, BaseIP, m_scriptFileDir, MainScriptFileDir, Stack,
       bCondResult, LogicalOp, status, scriptsLoaded, storeVars>>

----------------------------------------------------------------------------
Arguments == UNION {[1..n -> Val] : n \in 0..NumLocals}

Init ==
  /\ status = [s \in Script |-> "idle"]
  /\ ScmFunction = [s \in Script |-> 0]
  /\ BaseIP = [s \in Script |-> Main]
  /\ m_scriptFileDir = [s \in Script |-> Main]
  /\ Stack = [s \in Script |-> <<>>]
  /\ LocalVar = [s \in Script |-> Cleared]
  /\ bCondResult = [s \in Script |-> FALSE]
  /\ LogicalOp = [s \in Script |-> 0]
  /\ missionLocals = Cleared
  /\ MainScriptFileDir = Main
  /\ scriptsLoaded = FALSE
  /\ store = [id \in Slot |-> NoFrame]
  /\ allocationPlace = 1
  /\ frames = [s \in Script |-> <<>>]

ScriptNext(s) ==
  \/ StartScript(s)
  \/ RemoveScript(s)
  \/ TrySuspendScript(s)
  \/ \E args \in Arguments, not \in Flag : opcode_0AB1_Label(s, args, not)
  \/ \E m \in Module, args \in Arguments, not \in Flag : opcode_0AB1_Export(s, m, args, not)
  \/ \E m \in Module, not \in Flag : opcode_0AB1_Error(s, m, not)
  \/ \E src \in 0..NumLocals, dst \in 1..NumLocals, ok \in BOOLEAN :
       \/ opcode_0AB2(s, src, dst, ok)
       \/ \E result \in Flag : opcode_2002(s, result, src, dst, ok)
  \/ opcode_0051_Return(s)
  \/ opcode_0050(s)
  \/ opcode_0051_Gosub(s)
  \/ \E op \in Operation : opcode_00D6(s, op)
  \/ \E r \in Flag : ConditionOpcode(s, r)
  \/ \E i \in 1..NumLocals, v \in Val : WriteVariable(s, i, v)

Next == GameBegin \/ GameEnd \/ \E s \in Script : ScriptNext(s)

Spec == Init /\ [][Next]_vars

----------------------------------------------------------------------------
(* Properties *)

Frame == [thisScmFunctionId : Slot, prevScmFunctionId : {0} \cup Slot,
          savedBaseIP : Code, savedScriptFileDir : Code, savedStack : Seq(Code),
          savedTls : [1..NumLocals -> Val], savedCondResult : BOOLEAN,
          savedLogicalOp : {0} \cup Ands \cup Ors, savedNotFlag : BOOLEAN]

TypeOK ==
  /\ status \in [Script -> {"idle", "running", "suspended"}]
  /\ ScmFunction \in [Script -> {0} \cup Slot]
  /\ BaseIP \in [Script -> Code] /\ m_scriptFileDir \in [Script -> Code]
  /\ Stack \in [Script -> Seq(Code)] /\ \A s \in Script : Len(Stack[s]) <= StackSize
  /\ LocalVar \in [Script -> [1..NumLocals -> Val]]
  /\ missionLocals \in [1..NumLocals -> Val]
  /\ bCondResult \in [Script -> BOOLEAN]
  /\ LogicalOp \in [Script -> {0} \cup Ands \cup Ors]
  /\ MainScriptFileDir \in Code /\ scriptsLoaded \in BOOLEAN
  /\ store \in [Slot -> {NoFrame} \cup Frame] /\ allocationPlace \in Slot
  /\ frames \in [Script -> Seq(Slot)]

\* The chain the code follows from ScmFunction through prevScmFunctionId is that
\* of the pending calls: every link of it is in the store, and ends at 0.
Chained(s) ==
  /\ ScmFunction[s] = IF frames[s] = <<>> THEN 0 ELSE frames[s][Len(frames[s])]
  /\ \A i \in 1..Len(frames[s]) :
       /\ store[frames[s][i]] # NoFrame
       /\ store[frames[s][i]].prevScmFunctionId = IF i = 1 THEN 0 ELSE frames[s][i - 1]

\* A script returns through its own calls only: no slot is in two chains, or
\* twice in one, though slots and structures are used again and again.
ChainsAreSeparate ==
  /\ \A s \in Script : status[s] # "idle" => Chained(s)
  /\ \A s, t \in Script : \A i \in 1..Len(frames[s]), j \in 1..Len(frames[t]) :
       frames[s][i] = frames[t][j] => s = t /\ i = j

\* The gosubs pending in a function will all return into its own code, those of
\* the waiting callers into theirs: a jump is relative to BaseIP.
GosubsStayInCode ==
  /\ \A s \in Script : \A i \in 1..Len(Stack[s]) : Stack[s][i] = BaseIP[s]
  /\ \A id \in Slot \ Unused : \A i \in 1..Len(store[id].savedStack) :
       store[id].savedStack[i] = store[id].savedBaseIP

\* Relative paths, those of modules included, are resolved from the directory of
\* the code a custom script executes.
DirIsThatOfCode == \A s \in Custom : Executing(s) => GetScriptFileDir(s) = BaseIP[s]

\* The same for a script of the game that is in no call of a module: its
\* directory is that of main.scm.
MainDirIsKept == \A s \in Script \ Custom :
                   Executing(s) /\ BaseIP[s] = Main => GetScriptFileDir(s) = Main

\* No frame outlives the session, however its scripts ended.
StoreIsCleared == ~scriptsLoaded => Unused = Slot

\* A compound condition with terms left.
Pending(op) == [kind |-> IF op = 0 THEN "none" ELSE IF op \in Ands THEN "and" ELSE "or",
                left |-> op % 20]

\* The scope a running script executes in; others have none, as before they start.
ScopeOf(s) ==
  IF status[s] # "running"
  THEN [code |-> Main, gosubs |-> <<>>, cond |-> FALSE, pending |-> Pending(0), locals |-> Cleared]
  ELSE [code |-> BaseIP[s], gosubs |-> Stack[s], cond |-> bCondResult[s],
        pending |-> Pending(LogicalOp[s]), locals |-> Locals(s)]

\* What the frame f will bring back.
Caller(f) == [not |-> f.savedNotFlag,
              scope |-> [code |-> f.savedBaseIP, gosubs |-> f.savedStack,
                         cond |-> f.savedCondResult, pending |-> Pending(f.savedLogicalOp),
                         locals |-> f.savedTls]]

CallersOf(s) == IF status[s] # "running" THEN <<>>
                ELSE [i \in 1..Len(frames[s]) |-> Caller(store[frames[s][i]])]

Scopes == INSTANCE CallStack WITH
  OldScript <- {s \in Script : Version[s] < 4},
  scope <- [s \in Script |-> ScopeOf(s)],
  callers <- [s \in Script |-> CallersOf(s)]

\* Functions implement the call stack promised by CallStack.
ImplementsCallStack == Scopes!StackSpec
=============================================================================
