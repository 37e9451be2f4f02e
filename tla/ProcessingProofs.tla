-------------------------- MODULE ProcessingProofs --------------------------
(***************************************************************************)
(* Proofs about ScriptProcessing, for any number of scripts, textures,     *)
(* keys and breakpoints and any limit of commands.                         *)
(***************************************************************************)
EXTENDS ScriptProcessing, TLAPS

(* Opcodes that are executed share what Execute and OpcodeBefore change.   *)
Handled ==
  /\ phase = "run" /\ ~Unexpected /\ ~OverLimit
  /\ OpcodeBefore(CountSince(current) + 1)

----------------------------------------------------------------------------
(* Types *)

LEMMA RemoveAtType ==
  ASSUME NEW S, NEW seq \in Seq(S), NEW i \in 1..Len(seq)
  PROVE  RemoveAt(seq, i) \in Seq(S)
<1>1. SubSeq(seq, 1, i - 1) \in Seq(S)
  OBVIOUS
<1>2. SubSeq(seq, i + 1, Len(seq)) \in Seq(S)
  OBVIOUS
<1> QED BY <1>1, <1>2 DEF RemoveAt

LEMMA CountSinceType ==
  ASSUME TypeOK, NEW s PROVE CountSince(s) \in 0..Limit
BY ConstantsAssumption DEF TypeOK, CountSince

LEMMA TypeInit == Init => TypeOK
<1> SUFFICES ASSUME Init PROVE TypeOK
  OBVIOUS
<1>1. Blank \in DrawState /\ NoState \in [draws : DrawState, loaded : SUBSET Txd]
  BY DEF Blank, NoState, DrawState
<1>2. active \subseteq Script /\ flag \in [Script -> BOOLEAN]
  BY DEF Init
<1>3. paused \in Seq(Script) /\ 0 \in 0..Limit /\ 0 \in 0..(Limit + 1)
  BY ConstantsAssumption DEF Init
<1>4. states \in [Custom -> [draws : DrawState, loaded : SUBSET Txd]]
  BY <1>1 DEF Init
<1> QED
  BY <1>1, <1>2, <1>3, <1>4 DEF Init, TypeOK

LEMMA TypeStartFrame == TypeOK /\ StartFrame => TypeOK'
BY ConstantsAssumption DEF TypeOK, StartFrame, DrawState, dispatch, limits, breakpoints, callbacks, scripts

LEMMA TypeBeginProcess ==
  ASSUME TypeOK, NEW s \in Script, BeginProcess(s) PROVE TypeOK'
<1>1. CountSince(s) \in 0..Limit
  BY CountSinceType
<1>2. game' \in DrawState /\ global' \in DrawState /\ states' = states
  BY DEF TypeOK, BeginProcess, SetDrawing, DrawingBefore, ScriptProcessingBegin, Reset, Drawing, DrawState
<1> QED
  BY <1>1, <1>2, ConstantsAssumption
  DEF TypeOK, BeginProcess, SetCurrScript, dispatch, breakpoints

LEMMA TypeEndProcess == TypeOK /\ EndProcess => TypeOK'
<1> SUFFICES ASSUME TypeOK, EndProcess PROVE TypeOK'
  OBVIOUS
<1>1. CountSince(NoScript) \in 0..Limit
  BY CountSinceType
<1>2. game' \in DrawState /\ global' \in DrawState
      /\ states' \in [Custom -> [draws : DrawState, loaded : SUBSET Txd]]
  BY DEF TypeOK, EndProcess, SetDrawing, ScriptProcessingEnd, Drawing
<1> QED
  BY <1>1, <1>2, ConstantsAssumption
  DEF TypeOK, EndProcess, SetCurrScript, dispatch, breakpoints, callbacks, scripts

LEMMA TypeDrawingFinished ==
  ASSUME TypeOK, NEW down \in SUBSET (1..KeyCount), DrawingFinished(down) PROVE TypeOK'
<1>1. CountSince(NoScript) \in 0..Limit
  BY CountSinceType
<1>2. paused' \in Seq(Script) /\ codePause' \in BOOLEAN /\ keysReleased' \in BOOLEAN
  <2>1. CASE UNCHANGED breakpoints
    BY <2>1 DEF breakpoints, TypeOK
  <2>2. CASE keysReleased' = (down = {}) /\ UNCHANGED <<paused, codePause>>
    BY <2>2 DEF TypeOK
  <2>3. ASSUME NEW i \in 1..KeyCount, i <= Len(paused), Release(i)
        PROVE  paused' \in Seq(Script) /\ codePause' \in BOOLEAN /\ keysReleased' \in BOOLEAN
    <3>1. i \in 1..Len(paused)
      BY <2>3, ConstantsAssumption DEF TypeOK
    <3> QED BY <2>3, <3>1, RemoveAtType DEF Release, Unpaused, TypeOK
  <2> QED BY <2>1, <2>2, <2>3 DEF DrawingFinished
<1> QED
  BY <1>1, <1>2, ConstantsAssumption
  DEF TypeOK, DrawingFinished, SetCurrScript, dispatch, drawing, callbacks, scripts, frame

(* Every opcode: what it may do to scripts, drawing state and breakpoints. *)
OpcodeTypes ==
  /\ active' \subseteq Script /\ waiting' \subseteq Custom \ active'
  /\ todo' \subseteq active' \ {current} /\ fresh' \subseteq Script
  /\ asleep' \subseteq Script /\ crashed' \subseteq Script /\ flag' \in [Script -> BOOLEAN]
  /\ game' \in DrawState /\ global' \in DrawState /\ native' \in DrawState
  /\ states' \in [Custom -> [draws : DrawState, loaded : SUBSET Txd]]
  /\ allocated' \subseteq Txd
  /\ paused' \in Seq(Script) /\ codePause' \in BOOLEAN /\ keysReleased' \in BOOLEAN

CountTypes == currScript' \in Script \cup {NoScript} /\ count' \in 0..Limit

\* The count of the current script is that of the opcodes it executed.
Counting ==
  /\ phase = "run" => currScript = current /\ count = executed /\ executed <= Limit
  /\ phase = "none" => currScript = NoScript

LEMMA Current == ASSUME TypeOK, phase = "run" PROVE current \in Script
BY DEF TypeOK

LEMMA HandledCounts ==
  ASSUME TypeOK, Handled, Counting
  PROVE  /\ CountTypes
         /\ currScript' = current /\ count' = executed' /\ executed' <= Limit /\ executed' \in Nat
<1>1. CountSince(current) = executed /\ executed \in Nat
  BY Current, ConstantsAssumption DEF Handled, Counting, CountSince, TypeOK
<1> QED
  BY <1>1, Current, ConstantsAssumption DEF Handled, OpcodeBefore, OverLimit, CountTypes, TypeOK

\* Opcodes leave the current script where it is; it goes on or it does not.
LEMMA OpcodeKeepsTypes ==
  ASSUME TypeOK, phase = "run", OpcodeTypes, CountTypes, executed' \in 0..(Limit + 1),
         current' = current, phase' \in {"run", "after"}, UNCHANGED callbacks
  PROVE  TypeOK'
<1>1. phase' = "none" <=> current' = NoScript
  BY DEF TypeOK
<1>2. current' \in Script \cup {NoScript} /\ phase' \in {"none", "run", "after"}
  BY DEF TypeOK
<1>3. todo' \subseteq active' \ {current'}
  BY DEF OpcodeTypes
<1>4. /\ active' \subseteq Script /\ waiting' \subseteq Custom \ active' /\ fresh' \subseteq Script
      /\ asleep' \subseteq Script /\ crashed' \subseteq Script /\ flag' \in [Script -> BOOLEAN]
  BY DEF OpcodeTypes
<1>5. /\ game' \in DrawState /\ global' \in DrawState /\ native' \in DrawState
      /\ states' \in [Custom -> [draws : DrawState, loaded : SUBSET Txd]]
      /\ allocated' \subseteq Txd
  BY DEF OpcodeTypes
<1>6. /\ currScript' \in Script \cup {NoScript} /\ count' \in 0..Limit
      /\ executed' \in 0..(Limit + 1)
      /\ paused' \in Seq(Script) /\ codePause' \in BOOLEAN /\ keysReleased' \in BOOLEAN
  BY DEF OpcodeTypes, CountTypes
<1> QED
  BY <1>1, <1>2, <1>3, <1>4, <1>5, <1>6 DEF TypeOK, callbacks

\* What OnOpcodeFinished changes keeps its types.
LEMMA FinishedTypes ==
  ASSUME TypeOK, phase = "run", NEW result \in {"OR_CONTINUE", "OR_INTERRUPT"},
         OnOpcodeFinished(result)
  PROVE  /\ flag' \in [Script -> BOOLEAN] /\ crashed' \subseteq Script /\ fresh' \subseteq Script
         /\ phase' \in {"run", "after"}
BY DEF TypeOK, OnOpcodeFinished

LEMMA SuspendTypes ==
  ASSUME TypeOK, phase = "run", TrySuspendScript
  PROVE  OpcodeTypes /\ current' = current /\ phase' = "after"
<1>1. OnOpcodeFinished("OR_INTERRUPT")
  BY DEF TrySuspendScript
<1>2. /\ flag' \in [Script -> BOOLEAN] /\ crashed' \subseteq Script /\ fresh' \subseteq Script
  BY <1>1, FinishedTypes
<1>3. phase' = "after" /\ current' = current
  BY <1>1 DEF OnOpcodeFinished, TrySuspendScript
<1> QED
  BY <1>2, <1>3 DEF TypeOK, OpcodeTypes, TrySuspendScript, drawing, breakpoints

LEMMA DrawsTypes ==
  ASSUME TypeOK, NEW d \in DrawState, Draws(d)
  PROVE  game' \in DrawState /\ global' \in DrawState /\ native' \in DrawState
BY DEF TypeOK, Draws

LEMMA UnregisterTypes ==
  ASSUME TypeOK, NEW gone, ScriptUnregister(gone)
  PROVE  /\ states' \in [Custom -> [draws : DrawState, loaded : SUBSET Txd]]
         /\ allocated' \subseteq Txd
<1>1. NoState \in [draws : DrawState, loaded : SUBSET Txd]
  BY DEF NoState, Blank, DrawState
<1> QED BY <1>1 DEF TypeOK, ScriptUnregister

\* Opcodes that end by Execute change at most what is said besides.
LEMMA ExecuteTypes ==
  ASSUME TypeOK, NEW result \in {"OR_CONTINUE", "OR_INTERRUPT"}, Execute(result)
  PROVE  /\ Handled /\ phase = "run" /\ current \in Script
         /\ current' = current /\ todo' = todo /\ phase' \in {"run", "after"}
         /\ flag' \in [Script -> BOOLEAN] /\ crashed' \subseteq Script /\ fresh' \subseteq Script
<1>1. Handled /\ phase = "run" /\ current' = current /\ todo' = todo
  BY DEF Execute, Handled
<1>2. OnOpcodeFinished(result)
  BY DEF Execute
<1> QED BY <1>1, <1>2, FinishedTypes, Current

\* Every opcode keeps types and counts.
LEMMA OpcodeStep ==
  ASSUME TypeOK, Counting, Opcode, UNCHANGED callbacks PROVE TypeOK' /\ Counting'
<1> USE DEF Counting
<1>1. ASSUME TrySuspendScript, phase = "run", CountTypes, executed' \in 0..(Limit + 1)
      PROVE  TypeOK' /\ Counting'
  BY <1>1, SuspendTypes, OpcodeKeepsTypes
<1>2. ASSUME Handled, OpcodeTypes, current' = current, phase' \in {"run", "after"}
      PROVE  TypeOK' /\ Counting'
  <2>1. CountTypes /\ executed' \in 0..(Limit + 1) /\ phase = "run"
    BY <1>2, HandledCounts, ConstantsAssumption DEF Handled
  <2> QED BY <1>2, <2>1, HandledCounts, OpcodeKeepsTypes
<1>3. CASE OpcodeUnexpected \/ OpcodePastEnd
  <2>1. CountTypes /\ executed' \in 0..(Limit + 1)
    BY <1>3 DEF OpcodeUnexpected, OpcodePastEnd, limits, CountTypes, TypeOK
  <2> QED BY <1>1, <1>3, <2>1 DEF OpcodeUnexpected, OpcodePastEnd
<1>4. CASE OpcodeOverLimit
  <2>1. CountTypes /\ executed' \in 0..(Limit + 1)
    BY <1>4, Current, ConstantsAssumption DEF OpcodeOverLimit, OpcodeBefore, CountTypes, TypeOK
  <2> QED BY <1>1, <1>4, <2>1 DEF OpcodeOverLimit
<1>5. CASE OpcodeFails
  <2>1. Handled
    BY <1>5 DEF OpcodeFails, Handled
  <2>2. CountTypes /\ executed' \in 0..(Limit + 1)
    BY <2>1, HandledCounts, ConstantsAssumption
  <2> QED BY <1>1, <1>5, <2>2 DEF OpcodeFails
<1>6. CASE OpcodeCrashes
  <2>1. Handled /\ current' = current /\ phase' = "after"
    BY <1>6 DEF OpcodeCrashes, Handled
  <2>2. OpcodeTypes
    BY <1>6, Current DEF OpcodeCrashes, OpcodeTypes, TypeOK, drawing, breakpoints
  <2> QED BY <1>2, <2>1, <2>2
<1>7. ASSUME NEW result \in {"OR_CONTINUE", "OR_INTERRUPT"}, OpcodeOther(result)
      PROVE  TypeOK' /\ Counting'
  <2>1. Execute(result)
    BY <1>7 DEF OpcodeOther
  <2>2. OpcodeTypes
    BY <1>7, <2>1, ExecuteTypes DEF OpcodeOther, OpcodeTypes, TypeOK, drawing, breakpoints
  <2> QED BY <1>2, <2>1, <2>2, ExecuteTypes
<1>8. CASE DisplayText
  <2>1. Execute("OR_CONTINUE")
    BY <1>8 DEF DisplayText
  <2>2. game' \in DrawState /\ global' \in DrawState /\ native' \in DrawState
    <3>1. [game EXCEPT !.lines = @ \cup {current}] \in DrawState
      BY <2>1, ExecuteTypes DEF TypeOK, DrawState
    <3> QED BY <1>8, <3>1, DrawsTypes DEF DisplayText
  <2>3. OpcodeTypes
    BY <1>8, <2>1, <2>2, ExecuteTypes DEF DisplayText, OpcodeTypes, TypeOK, breakpoints
  <2> QED BY <1>2, <2>1, <2>3, ExecuteTypes
<1>9. ASSUME NEW name \in TxdName, opcode_0390(name) PROVE TypeOK' /\ Counting'
  <2>1. Execute("OR_CONTINUE") /\ current \in Script
    BY <1>9, ExecuteTypes DEF opcode_0390
  <2>2. <<current, name>> \in Txd
    BY <2>1 DEF Txd
  <2>3. game' \in DrawState /\ global' \in DrawState /\ native' \in DrawState
    <3>1. [game EXCEPT !.txd = <<current, name>>] \in DrawState
      BY <2>2 DEF TypeOK, DrawState
    <3> QED BY <1>9, <3>1, DrawsTypes DEF opcode_0390
  <2>4. /\ states' \in [Custom -> [draws : DrawState, loaded : SUBSET Txd]]
        /\ allocated' \subseteq Txd
    BY <1>9, <2>2 DEF opcode_0390, TypeOK
  <2>5. OpcodeTypes
    BY <1>9, <2>1, <2>3, <2>4, ExecuteTypes DEF opcode_0390, OpcodeTypes, TypeOK, breakpoints
  <2> QED BY <1>2, <2>1, <2>5, ExecuteTypes
<1>10. CASE opcode_0391
  <2>1. Execute("OR_CONTINUE")
    BY <1>10 DEF opcode_0391
  <2>2. game' \in DrawState /\ global' \in DrawState /\ native' \in DrawState
    <3>1. [game EXCEPT !.txd = NoTxd] \in DrawState
      BY DEF TypeOK, DrawState
    <3> QED BY <1>10, <3>1, DrawsTypes DEF opcode_0391
  <2>3. OpcodeTypes
    BY <1>10, <2>1, <2>2, ExecuteTypes DEF opcode_0391, OpcodeTypes, TypeOK, breakpoints
  <2> QED BY <1>2, <2>1, <2>3, ExecuteTypes
<1>11. ASSUME NEW blocking \in BOOLEAN, Opcode_Breakpoint(blocking) PROVE TypeOK' /\ Counting'
  <2>1. Execute("OR_INTERRUPT")
    BY <1>11 DEF Opcode_Breakpoint
  <2>2. paused' \in Seq(Script) /\ codePause' \in BOOLEAN /\ keysReleased' \in BOOLEAN
    BY <1>11, <2>1, ExecuteTypes DEF Opcode_Breakpoint, TypeOK
  <2>3. OpcodeTypes
    BY <1>11, <2>1, <2>2, ExecuteTypes DEF Opcode_Breakpoint, OpcodeTypes, TypeOK, drawing
  <2> QED BY <1>2, <2>1, <2>3, ExecuteTypes
<1>12. ASSUME NEW gone \in SUBSET Script, NEW itself \in BOOLEAN, Terminate(gone, itself)
       PROVE  TypeOK' /\ Counting'
  <2>1. Handled /\ phase = "run"
    BY <1>12 DEF Terminate, Handled
  <2>2. /\ flag' \in [Script -> BOOLEAN] /\ crashed' \subseteq Script /\ fresh' \subseteq Script
        /\ phase' \in {"run", "after"}
    BY <1>12, <2>1, FinishedTypes DEF Terminate
  <2>3. /\ states' \in [Custom -> [draws : DrawState, loaded : SUBSET Txd]]
        /\ allocated' \subseteq Txd
    BY <1>12, UnregisterTypes DEF Terminate
  <2>4. OpcodeTypes
    BY <1>12, <2>2, <2>3 DEF Terminate, OpcodeTypes, TypeOK, breakpoints
  <2> QED BY <1>2, <1>12, <2>1, <2>2, <2>4 DEF Terminate
<1>13. ASSUME NEW s \in Script, NEW garbage \in BOOLEAN, StartScript(s, garbage)
       PROVE  TypeOK' /\ Counting'
  <2>1. Handled /\ phase' = "run" /\ current' = current
    BY <1>13 DEF StartScript, Handled
  <2>2. flag' \in [Script -> BOOLEAN]
    BY <1>13 DEF StartScript, TypeOK
  <2>3. OpcodeTypes
    BY <1>13, <2>2 DEF StartScript, OpcodeTypes, TypeOK, breakpoints, drawing
  <2> QED BY <1>2, <2>1, <2>3
<1> QED
  BY <1>3, <1>4, <1>5, <1>6, <1>7, <1>8, <1>9, <1>10, <1>11, <1>12, <1>13 DEF Opcode

LEMMA TypeNewSession ==
  ASSUME TypeOK, NEW a \in SUBSET Script, NEW f \in [Script -> BOOLEAN], NewSession(a, f)
  PROVE  TypeOK'
<1>1. /\ states' \in [Custom -> [draws : DrawState, loaded : SUBSET Txd]]
      /\ allocated' \subseteq Txd
  BY UnregisterTypes DEF NewSession
<1>2. paused' \in Seq(Script)
  BY DEF NewSession
<1> QED
  BY <1>1, <1>2 DEF NewSession, TypeOK, frame, limits, callbacks

LEMMA TypeDraw == TypeOK /\ Draw => TypeOK'
BY DEF TypeOK, Draw, frame, dispatch, limits, breakpoints, callbacks, scripts

TypeInv == TypeOK /\ Counting

LEMMA TypeInvStep == TypeInv /\ [Next]_vars => TypeInv'
<1> SUFFICES ASSUME TypeOK, Counting, [Next]_vars PROVE TypeOK' /\ Counting'
  BY DEF TypeInv
<1>1. CASE StartFrame
  BY <1>1, TypeStartFrame DEF StartFrame, Counting, limits
<1>2. ASSUME NEW s \in Script, BeginProcess(s) PROVE TypeOK' /\ Counting'
  <2>1. phase = "none" /\ phase' # "none" /\ currScript' = s /\ current' = s /\ executed' = 0 /\ TypeOK'
    BY <1>2, TypeBeginProcess DEF BeginProcess, SetCurrScript
  <2>2. count' = 0
    BY <1>2, <2>1, ConstantsAssumption DEF BeginProcess, SetCurrScript, CountSince, Counting
  <2> QED BY <2>1, <2>2, ConstantsAssumption DEF Counting
<1>3. CASE Opcode /\ UNCHANGED callbacks
  BY <1>3, OpcodeStep
<1>4. CASE EndProcess
  BY <1>4, TypeEndProcess DEF EndProcess, Counting, SetCurrScript
<1>5. CASE Draw
  BY <1>5, TypeDraw DEF Draw, Counting, frame, limits
<1>6. ASSUME NEW down \in SUBSET (1..KeyCount), DrawingFinished(down) PROVE TypeOK' /\ Counting'
  BY <1>6, TypeDrawingFinished DEF DrawingFinished, Counting, frame, SetCurrScript
<1>7. ASSUME NEW a \in SUBSET Script, NEW f \in [Script -> BOOLEAN], NewSession(a, f)
      PROVE  TypeOK' /\ Counting'
  BY <1>7, TypeNewSession DEF NewSession, Counting, frame, limits
<1>8. CASE UNCHANGED vars
  BY <1>8 DEF vars, scripts, frame, dispatch, drawing, limits, breakpoints, callbacks, TypeOK, DrawState, Counting
<1> QED
  BY <1>1, <1>2, <1>3, <1>4, <1>5, <1>6, <1>7, <1>8 DEF Next, Process

----------------------------------------------------------------------------
(* Drawing state *)

\* What a script drew, with the textures it loaded.
OwnedBy(s, d) == d.lines \subseteq {s} /\ (d.txd # NoTxd => d.txd[1] = s)

\* While a custom script is interpreted, the state of the game is put aside,
\* and what stands in its place is the script's own.
DrawInv ==
  /\ current \notin Custom => game = native
  /\ current \in Custom => global = native /\ OwnedBy(current, game)
  /\ \A s \in Custom : OwnedBy(s, states[s].draws) /\ (s \notin active => states[s].draws = Blank)

LEMMA BlankIsOwned == ASSUME NEW s PROVE OwnedBy(s, Blank)
BY DEF OwnedBy, Blank

LEMMA DrawInit == Init => DrawInv
BY BlankIsOwned, ConstantsAssumption DEF Init, DrawInv, NoState, Script

LEMMA DrawBeginProcess ==
  ASSUME TypeOK, DrawInv, NEW s \in Script, BeginProcess(s), s \in Custom => TextIsReached(s)
  PROVE  DrawInv'
<1>1. /\ current \notin Custom /\ current' = s /\ active' = active /\ native' = native
      /\ s \in active
  BY ConstantsAssumption DEF BeginProcess, TypeOK, Script
<1>2. CASE s \in Custom
  <2>1. global' = game /\ game' = Reset(states[s].draws) /\ states' = states
    BY <1>2 DEF BeginProcess, SetDrawing, DrawingBefore, ScriptProcessingBegin, Drawing
  <2>2. states[s].draws \in DrawState
    BY <1>2 DEF TypeOK
  <2>3. OwnedBy(s, Reset(states[s].draws))
    BY <1>2, <2>2 DEF OwnedBy, Reset, DrawInv, DrawState
  <2> QED BY <1>1, <1>2, <2>1, <2>3 DEF DrawInv
<1>3. CASE s \notin Custom
  <2>1. game' = game /\ states' = states
    BY <1>3 DEF BeginProcess, SetDrawing, DrawingBefore, ScriptProcessingBegin, Drawing
  <2> QED BY <1>1, <1>3, <2>1 DEF DrawInv
<1> QED BY <1>2, <1>3

LEMMA DrawEndProcess ==
  ASSUME TypeOK, DrawInv, EndProcess PROVE DrawInv'
<1>1. current' \notin Custom /\ active' = active /\ native' = native /\ phase' = "none"
  BY ConstantsAssumption DEF EndProcess, scripts, Script
<1>2. CASE current \in Custom
  <2>1. game' = global
    BY <1>2 DEF EndProcess, SetDrawing, ScriptProcessingEnd, Drawing
  <2>2. states' = [states EXCEPT ![current].draws = IF current \in active THEN game ELSE @]
    BY <1>2 DEF EndProcess, SetDrawing, ScriptProcessingEnd, Drawing
  <2>3. ASSUME NEW s \in Custom
        PROVE  OwnedBy(s, states'[s].draws) /\ (s \notin active => states'[s].draws = Blank)
    <3>1. CASE s = current /\ current \in active
      BY <1>2, <2>2, <3>1 DEF DrawInv, TypeOK
    <3>2. CASE s = current /\ current \notin active
      <4>1. states[s].draws = Blank
        BY <1>2, <3>2 DEF DrawInv
      <4>2. states'[s].draws = states[s].draws
        BY <1>2, <2>2, <3>2, <4>1 DEF TypeOK
      <4> QED BY <4>1, <4>2, BlankIsOwned
    <3>3. CASE s # current
      BY <1>2, <2>2, <3>3 DEF DrawInv, TypeOK
    <3> QED BY <3>1, <3>2, <3>3
  <2> QED BY <1>1, <1>2, <2>1, <2>3 DEF DrawInv
<1>3. CASE current \notin Custom
  <2>1. game' = game /\ states' = states
    BY <1>3 DEF EndProcess, SetDrawing, ScriptProcessingEnd, Drawing
  <2> QED BY <1>1, <1>3, <2>1 DEF DrawInv
<1> QED BY <1>2, <1>3

\* Opcodes that draw do so for the current script.
LEMMA DrawDraws ==
  ASSUME TypeOK, DrawInv, phase = "run", NEW d, Draws(d), current' = current, active' = active,
         current \in Custom => OwnedBy(current, d),
         \A s \in Custom : states'[s].draws = states[s].draws
  PROVE  DrawInv'
<1>1. current \in Script
  BY Current
<1> QED BY <1>1, ConstantsAssumption DEF Draws, DrawInv, Script

\* Scripts that end leave nothing behind.
LEMMA DrawUnregister ==
  ASSUME DrawInv, NEW gone, ScriptUnregister(gone), active \ gone \subseteq active',
         current' = current, UNCHANGED <<game, global, native>>
  PROVE  DrawInv'
<1>1. ASSUME NEW s \in Custom
      PROVE  OwnedBy(s, states'[s].draws) /\ (s \notin active' => states'[s].draws = Blank)
  <2>1. CASE s \in gone
    BY <2>1, BlankIsOwned DEF ScriptUnregister, NoState
  <2>2. CASE s \notin gone
    BY <2>2 DEF ScriptUnregister, DrawInv
  <2> QED BY <2>1, <2>2
<1> QED BY <1>1 DEF DrawInv

LEMMA DrawKept ==
  ASSUME DrawInv, current' = current, active \subseteq active', UNCHANGED drawing
  PROVE  DrawInv'
BY DEF DrawInv, drawing

LEMMA DrawOpcode ==
  ASSUME TypeOK, DrawInv, Opcode PROVE DrawInv'
<1> current \in Custom => current \in Script
  BY DEF Script
<1>1. CASE OpcodeUnexpected \/ OpcodePastEnd \/ OpcodeOverLimit \/ OpcodeFails
  BY <1>1, DrawKept DEF OpcodeUnexpected, OpcodePastEnd, OpcodeOverLimit, OpcodeFails, TrySuspendScript
<1>2. CASE OpcodeCrashes
  BY <1>2, DrawKept DEF OpcodeCrashes
<1>3. ASSUME NEW result, OpcodeOther(result) PROVE DrawInv'
  BY <1>3, DrawKept DEF OpcodeOther, Execute
<1>4. CASE DisplayText
  <2> DEFINE d == [game EXCEPT !.lines = @ \cup {current}]
  <2>1. phase = "run" /\ Draws(d) /\ current' = current /\ active' = active /\ states' = states
    BY <1>4 DEF DisplayText, Execute
  <2>2. current \in Custom => OwnedBy(current, d)
    BY DEF TypeOK, DrawState, DrawInv, OwnedBy
  <2> HIDE DEF d
  <2> QED BY <2>1, <2>2, DrawDraws
<1>5. ASSUME NEW name \in TxdName, opcode_0390(name) PROVE DrawInv'
  <2> DEFINE d == [game EXCEPT !.txd = <<current, name>>]
  <2>1. phase = "run" /\ Draws(d) /\ current' = current /\ active' = active
    BY <1>5 DEF opcode_0390, Execute
  <2>2. current \in Custom => OwnedBy(current, d)
    BY DEF TypeOK, DrawState, DrawInv, OwnedBy
  <2>3. ASSUME NEW s \in Custom
        PROVE  states'[s].draws = states[s].draws
    BY <1>5, <2>1 DEF opcode_0390, TypeOK
  <2> HIDE DEF d
  <2> QED BY <2>1, <2>2, <2>3, DrawDraws
<1>6. CASE opcode_0391
  <2> DEFINE d == [game EXCEPT !.txd = NoTxd]
  <2>1. phase = "run" /\ Draws(d) /\ current' = current /\ active' = active /\ states' = states
    BY <1>6 DEF opcode_0391, Execute
  <2>2. current \notin Custom
    BY <1>6, ConstantsAssumption DEF opcode_0391
  <2> HIDE DEF d
  <2> QED BY <2>1, <2>2, DrawDraws
<1>7. ASSUME NEW blocking, Opcode_Breakpoint(blocking) PROVE DrawInv'
  BY <1>7, DrawKept DEF Opcode_Breakpoint, Execute
<1>8. ASSUME NEW gone, NEW itself, Terminate(gone, itself) PROVE DrawInv'
  BY <1>8, DrawUnregister DEF Terminate
<1>9. ASSUME NEW s, NEW garbage, StartScript(s, garbage) PROVE DrawInv'
  BY <1>9, DrawKept DEF StartScript
<1> QED
  BY <1>1, <1>2, <1>3, <1>4, <1>5, <1>6, <1>7, <1>8, <1>9 DEF Opcode

(* As long as every ScriptProcessingEnd has had its Begin.                  *)
KeptInv == ~unmatched => DrawInv

LEMMA DrawStep == TypeOK /\ KeptInv /\ [Next]_vars => KeptInv'
<1> SUFFICES ASSUME TypeOK, KeptInv, [Next]_vars, ~unmatched' PROVE DrawInv'
  BY DEF KeptInv
<1>0. ~unmatched
  BY DEF Next, Process, StartFrame, BeginProcess, EndProcess, Draw, NewSession, DrawingFinished,
         callbacks, vars
<1> DrawInv
  BY <1>0 DEF KeptInv
<1>1. CASE StartFrame
  BY <1>1, ConstantsAssumption DEF StartFrame, DrawInv, TypeOK, Script, scripts
<1>2. ASSUME NEW s \in Script, BeginProcess(s) PROVE DrawInv'
  <2>1. s \in Custom => TextIsReached(s)
    BY <1>2 DEF BeginProcess
  <2> QED BY <1>2, <2>1, DrawBeginProcess
<1>3. CASE Opcode
  BY <1>3, DrawOpcode
<1>4. CASE EndProcess
  BY <1>4, DrawEndProcess
<1>5. CASE Draw
  BY <1>5, ConstantsAssumption DEF Draw, DrawInv, TypeOK, Script, scripts, frame
<1>6. ASSUME NEW down, DrawingFinished(down) PROVE DrawInv'
  BY <1>6, DrawKept DEF DrawingFinished, scripts, frame
<1>7. ASSUME NEW a, NEW f, NewSession(a, f) PROVE DrawInv'
  BY <1>7, DrawUnregister DEF NewSession, frame
<1>8. CASE UNCHANGED vars
  BY <1>8, DrawKept DEF vars, scripts, frame
<1> QED
  BY <1>1, <1>2, <1>3, <1>4, <1>5, <1>6, <1>7, <1>8 DEF Next, Process

----------------------------------------------------------------------------
(* The flag of a handler that did not come back *)

\* Only the current script executes an opcode, and the flag of the others stays.
LEMMA FlagFinished ==
  ASSUME TypeOK, FlagTellsCrash, phase = "run", NEW result, OnOpcodeFinished(result),
         active' \subseteq active
  PROVE  FlagTellsCrash'
BY DEF TypeOK, FlagTellsCrash, OnOpcodeFinished

LEMMA FlagOpcode ==
  ASSUME TypeOK, FlagTellsCrash, Opcode PROVE FlagTellsCrash'
<1>1. CASE OpcodeUnexpected \/ OpcodePastEnd \/ OpcodeOverLimit \/ OpcodeFails
  BY <1>1, FlagFinished DEF OpcodeUnexpected, OpcodePastEnd, OpcodeOverLimit, OpcodeFails, TrySuspendScript
<1>2. CASE OpcodeCrashes
  BY <1>2, Current DEF OpcodeCrashes, FlagTellsCrash, TypeOK
<1>3. ASSUME NEW result, Execute(result), active' = active PROVE FlagTellsCrash'
  BY <1>3, FlagFinished DEF Execute
<1>4. ASSUME NEW gone, NEW itself, Terminate(gone, itself) PROVE FlagTellsCrash'
  BY <1>4, FlagFinished DEF Terminate
<1>5. ASSUME NEW s \in Script, NEW garbage \in BOOLEAN, StartScript(s, garbage)
      PROVE  FlagTellsCrash'
  <2>1. active' = active \cup {s} /\ fresh' = (fresh \ {current}) \cup {s}
        /\ crashed' = crashed \ {s, current}
        /\ flag' = [flag EXCEPT ![s] = garbage, ![current] = FALSE]
    BY <1>5 DEF StartScript
  <2>2. ASSUME NEW t \in active' \ fresh' PROVE flag'[t] <=> t \in crashed'
    BY <2>1, <2>2 DEF FlagTellsCrash, TypeOK
  <2> QED BY <2>2 DEF FlagTellsCrash
<1> QED
  BY <1>1, <1>2, <1>3, <1>4, <1>5
  DEF Opcode, OpcodeOther, DisplayText, opcode_0390, opcode_0391, Opcode_Breakpoint

LEMMA FlagStep == TypeOK /\ FlagTellsCrash /\ [Next]_vars => FlagTellsCrash'
<1> SUFFICES ASSUME TypeOK, FlagTellsCrash, [Next]_vars PROVE FlagTellsCrash'
  OBVIOUS
<1>1. ASSUME UNCHANGED <<active, fresh, flag, crashed>> PROVE FlagTellsCrash'
  BY <1>1 DEF FlagTellsCrash
<1>2. ASSUME NEW a, NEW f, NewSession(a, f) PROVE FlagTellsCrash'
  BY <1>2 DEF NewSession, FlagTellsCrash
<1>3. CASE Opcode
  BY <1>3, FlagOpcode
<1>4. CASE StartFrame \/ Draw \/ EndProcess
  BY <1>1, <1>4 DEF StartFrame, Draw, EndProcess, scripts, dispatch
<1>5. ASSUME NEW s, BeginProcess(s) PROVE FlagTellsCrash'
  BY <1>1, <1>5 DEF BeginProcess, dispatch
<1>6. ASSUME NEW down, DrawingFinished(down) PROVE FlagTellsCrash'
  BY <1>1, <1>6 DEF DrawingFinished, scripts, dispatch
<1>7. CASE UNCHANGED vars
  BY <1>1, <1>7 DEF vars, scripts, dispatch
<1> QED
  BY <1>2, <1>3, <1>4, <1>5, <1>6, <1>7 DEF Next, Process

----------------------------------------------------------------------------
(* Theorems *)

LEMMA TypeInvAlways == Spec => []TypeInv
<1>1. Init => TypeInv
  BY TypeInit, ConstantsAssumption DEF TypeInv, Counting, Init
<1> QED BY <1>1, TypeInvStep, PTL DEF Spec

\* Type correctness of frames, dispatch, drawing state and breakpoints.
THEOREM TypesAreCorrect == Spec => []TypeOK
<1>1. TypeInv => TypeOK
  BY DEF TypeInv
<1> QED BY <1>1, TypeInvAlways, PTL

\* DebugUtils counts the opcodes of one script in one frame: the limit is
\* neither reached by the opcodes of others nor evaded.
THEOREM LimitCounts == Spec => []LimitIsPerFrame
<1>1. TypeInv => LimitIsPerFrame
  BY DEF TypeInv, Counting, LimitIsPerFrame
<1> QED BY <1>1, TypeInvAlways, PTL

\* Every way out of customOpcodeHandler lowers the flag that a handler which
\* did not come back leaves up.
THEOREM FlagIsReliable == Spec => []FlagTellsCrash
<1>1. Init => FlagTellsCrash
  BY DEF Init, FlagTellsCrash
<1>2. TypeInv => TypeOK
  BY DEF TypeInv
<1> QED BY <1>1, <1>2, FlagStep, TypeInvAlways, PTL DEF Spec

LEMMA KeptInvAlways == Spec => []KeptInv
<1>1. Init => KeptInv
  BY DrawInit DEF KeptInv
<1>2. TypeOK /\ KeptInv /\ [Next]_vars => KeptInv'
  BY DrawStep
<1> QED BY <1>1, <1>2, TypesAreCorrect, PTL DEF Spec

\* Custom scripts leave no trace in the drawing state of the game, in whichever
\* order the callbacks of Text and DebugUtils are called, until DebugUtils keeps
\* a custom script at a breakpoint from its ScriptProcessingBegin.
THEOREM GameDrawsAreKept == Spec => []DrawsStaySeparate
<1>1. KeptInv => DrawsStaySeparate
  BY DEF KeptInv, DrawInv, DrawsStaySeparate
<1> QED BY <1>1, KeptInvAlways, PTL

\* And no custom script is given the draws or textures of another one, nor is
\* anything drawn for one that was removed, itself or with its parent.
THEOREM ScriptDrawsAreOwn == Spec => []DrawsAreOwn
<1>1. KeptInv => DrawsAreOwn
  BY DEF KeptInv, DrawInv, OwnedBy, DrawsAreOwn
<1> QED BY <1>1, KeptInvAlways, PTL
=============================================================================
