-------------------------- MODULE ScriptProcessing --------------------------
(***************************************************************************)
(* The scripts of one frame, interpreted one after the other:              *)
(* HOOK_ProcessScript with the callbacks of the plugins around a script,   *)
(* customOpcodeHandler with those around an opcode, and the two plugins    *)
(* that live in them: DebugUtils (breakpoints and the limit of commands)   *)
(* and ScriptDrawing of Text, which swaps the drawing state of the game    *)
(* for that of a custom script while it is interpreted.                    *)
(*                                                                         *)
(* Abstractions.  Script objects are addresses; families, missions and     *)
(* saves are in ScriptEngine.  Texts and rectangles are represented by the *)
(* scripts that drew them, script.txd by its contents, and sprites follow  *)
(* it.  A handler is what it does to this state; its own work is elsewhere *)
(***************************************************************************)
EXTENDS Naturals, Sequences, FiniteSets

CONSTANTS
  Custom,     \* addresses of custom scripts; there may be others, not followed
  Native,     \* scripts of the game
  NoScript,   \* the null pointer
  Legacy,     \* scripts in the mode of CLEO 4: IsLegacyScript
  TxdName, NoTxd,
  Limit,      \* DebugUtils.Limits.Command, when it is not 0
  KeyCount,   \* keys that release a breakpoint
  MaxPaused   \* bound: breakpoints that wait

Script == Custom \cup Native
Txd == Script \X TxdName

ASSUME ConstantsAssumption ==
  /\ Custom \cap Native = {} /\ NoScript \notin Script /\ NoTxd \notin Txd
  /\ Legacy \subseteq Script
  /\ Limit \in Nat \ {0} /\ KeyCount \in Nat \ {0}
  /\ MaxPaused \in Nat \ {0}

VARIABLES
  active,      \* scripts in the queue of the game
  waiting,     \* ScriptsWaitingForDelete
  todo,        \* those the game has still to process in this frame
  current,     \* the script in HOOK_ProcessScript
  phase,       \* of it: "none", "run" or "after" it was interpreted
  asleep,      \* scripts suspended: WakeTime is 0xFFFFFFFF
  flag,        \* bIsProcessing
  game,        \* drawing state of the game: CTheScripts and script.txd
  global,      \* ScriptDrawing::m_globalDrawingState
  states,      \* ScriptDrawing::m_scriptDrawingStates
  allocated,   \* texture dictionaries in memory
  currScript, count,          \* DebugUtils
  paused, codePause, keysReleased,
  textFirst,   \* the callback of Text is called before that of DebugUtils
  native,      \* history: drawing state as the scripts of the game left it
  executed,    \* history: opcodes of the current script in this frame
  fresh,       \* history: scripts that have not executed an opcode
  crashed,     \* history: scripts whose last handler did not come back
  unmatched    \* history: ScriptProcessingEnd was called without its Begin

scripts == <<active, waiting, fresh>>
frame == <<todo, current, phase>>
dispatch == <<flag, asleep, crashed>>
drawing == <<game, global, states, allocated, native>>
limits == <<currScript, count, executed>>
breakpoints == <<paused, codePause, keysReleased>>
callbacks == <<textFirst, unmatched>>
vars == <<scripts, frame, dispatch, drawing, limits, breakpoints, callbacks>>

Blank == [lines |-> {}, txd |-> NoTxd]

\* A script without an entry in the map has the state operator[] would make.
NoState == [draws |-> Blank, loaded |-> {}]

----------------------------------------------------------------------------
(* ScriptDrawing: the drawing state of the game, that put aside, and those  *)
(* of scripts, as d.game, d.global and d.states                             *)

Drawing == [game |-> game, global |-> global, states |-> states]

\* A script draws anew in each frame, with the textures it had.
Reset(draws) == [draws EXCEPT !.lines = {}]

ScriptProcessingBegin(d, s) ==
  IF s \notin Custom THEN d
  ELSE [d EXCEPT !.global = d.game,
                 !.game = Reset(d.states[s].draws)]

\* Variant: whatever script it was, its draws are stored.
ScriptProcessingEndAll(d, s, isActive) ==
  IF s \notin Custom THEN d
  ELSE [d EXCEPT !.states[s].draws = d.game, !.game = d.global]

\* Variant: nothing is brought back for a script that is gone.
ScriptProcessingEndActive(d, s, isActive) ==
  IF s \notin Custom \/ ~isActive THEN d
  ELSE [d EXCEPT !.states[s].draws = d.game, !.game = d.global]

ScriptProcessingEnd(d, s, isActive) ==
  IF s \notin Custom THEN d
  ELSE [d EXCEPT !.states[s].draws = IF isActive THEN d.game ELSE @,
                 !.game = d.global]

\* Textures released with a script: once for each that it loaded, and each
\* time the one that was active when it was processed last.
Released(s) == IF states[s].loaded = {} THEN {} ELSE {states[s].draws.txd}

\* HOOK_DrawScriptText: the draws of each script are applied and drawn.
Draw ==
  /\ phase = "none" /\ todo = {}
  /\ \E s \in Custom : states[s].draws.lines # {}
  /\ global' = game
  /\ UNCHANGED <<scripts, frame, dispatch, game, states, allocated, native, limits, breakpoints,
       callbacks>>

----------------------------------------------------------------------------
(* DebugUtils *)

\* Variant: the count goes on whatever script it is.
CountKept(script) == count

\* SetCurrScript: the count goes on for the same script only.
CountSince(script) == IF currScript # script \/ script = NoScript THEN 0 ELSE count

SetCurrScript(script) == currScript' = script /\ count' = CountSince(script)

IsPaused(s) == \E i \in DOMAIN paused : paused[i] = s

RemoveAt(seq, i) == SubSeq(seq, 1, i - 1) \o SubSeq(seq, i + 1, Len(seq))

\* Variant: the game stays as it is.
UnpausedNot(i) == codePause

Unpaused(i) == FALSE

Release(i) ==
  /\ paused' = RemoveAt(paused, i)
  /\ codePause' = Unpaused(i)
  /\ keysReleased' = FALSE

\* OnDrawingFinished: keys that are down release one breakpoint, once until no
\* key is down again.
DrawingFinished(down) ==
  LET pressed == {i \in 1..KeyCount : i \in down /\ i <= Len(paused)} IN
  /\ phase = "none" /\ todo = {}
  /\ SetCurrScript(NoScript)
  /\ IF ~keysReleased
     THEN keysReleased' = (down = {}) /\ UNCHANGED <<paused, codePause>>
     ELSE IF pressed = {} THEN UNCHANGED breakpoints
     ELSE \E i \in pressed : (\A j \in pressed : i <= j) /\ Release(i)
  /\ UNCHANGED <<scripts, frame, dispatch, drawing, executed, callbacks>>

----------------------------------------------------------------------------
(* HOOK_ProcessScript *)

\* CTheScripts::Process of the game, which forgets the draws of its scripts.
StartFrame ==
  /\ phase = "none" /\ todo = {} /\ ~codePause
  /\ todo' = active
  /\ game' = [game EXCEPT !.lines = {}]
  /\ native' = [native EXCEPT !.lines = {}]
  /\ UNCHANGED <<scripts, current, phase, dispatch, global, states, allocated, limits, breakpoints,
       callbacks>>

\* Callbacks are called until one refuses the script, in the order of a set of
\* addresses: that of Text may not be reached for a script at a breakpoint.
TextIsReached(s) == textFirst \/ ~IsPaused(s)

DrawingBefore(s) ==
  IF TextIsReached(s) THEN ScriptProcessingBegin(Drawing, s) ELSE Drawing

SetDrawing(d) == game' = d.game /\ global' = d.global /\ states' = d.states

BeginProcess(s) ==
  /\ phase = "none" /\ s \in todo
  /\ todo' = todo \ {s}
  /\ waiting' = {}
  /\ current' = s
  /\ phase' = IF IsPaused(s) \/ s \in asleep THEN "after" ELSE "run"
  /\ SetDrawing(DrawingBefore(s))
  /\ SetCurrScript(s)
  /\ executed' = 0
  /\ unmatched' = (unmatched \/ (s \in Custom /\ ~TextIsReached(s)))
  /\ UNCHANGED <<active, fresh, dispatch, allocated, native, breakpoints, textFirst>>

EndProcess ==
  /\ phase = "after"
  /\ phase' = "none" /\ current' = NoScript
  /\ SetDrawing(ScriptProcessingEnd(Drawing, current, current \in active))
  /\ SetCurrScript(NoScript)
  /\ UNCHANGED <<scripts, todo, dispatch, allocated, native, executed, breakpoints, callbacks>>

----------------------------------------------------------------------------
(* customOpcodeHandler: one opcode of the current script *)

\* Variant: the flag is lowered by those who call it.
FinishedNot(result) ==
  /\ UNCHANGED flag
  /\ crashed' = crashed \ {current}
  /\ fresh' = fresh \ {current}
  /\ phase' = IF result = "OR_INTERRUPT" THEN "after" ELSE "run"

\* OnOpcodeFinished, after the handler has come back with a result.
OnOpcodeFinished(result) ==
  /\ flag' = [flag EXCEPT ![current] = FALSE]
  /\ crashed' = crashed \ {current}
  /\ fresh' = fresh \ {current}
  /\ phase' = IF result = "OR_INTERRUPT" THEN "after" ELSE "run"

TrySuspendScript ==
  /\ asleep' = asleep \cup {current}
  /\ OnOpcodeFinished("OR_INTERRUPT")
  /\ UNCHANGED <<active, waiting, todo, current, drawing, breakpoints>>

Unexpected == flag[current] /\ current \notin Legacy

\* Variant: a warning is enough.
UnexpectedIgnored ==
  /\ phase = "run" /\ Unexpected
  /\ asleep' = asleep \cup {current}
  /\ UNCHANGED <<scripts, frame, flag, crashed, drawing, breakpoints, limits>>

\* The last handler of this script did not come back.
OpcodeUnexpected ==
  /\ phase = "run" /\ Unexpected
  /\ TrySuspendScript
  /\ UNCHANGED limits

\* The code ended without terminate_this_script.
OpcodePastEnd ==
  /\ phase = "run" /\ ~Unexpected
  /\ current \in Custom \ Legacy
  /\ TrySuspendScript
  /\ UNCHANGED limits

\* Variant: too many are allowed.
OverLimitLater == CountSince(current) + 1 > Limit + 1

OverLimit == CountSince(current) + 1 > Limit

OpcodeBefore(n) == currScript' = current /\ count' = n /\ executed' = executed + 1

OpcodeOverLimit ==
  /\ phase = "run" /\ ~Unexpected /\ OverLimit
  /\ OpcodeBefore(0)
  /\ TrySuspendScript

\* Too much time went by, the opcode is not known, or it finds an error.
OpcodeFails ==
  /\ phase = "run" /\ ~Unexpected /\ ~OverLimit
  /\ OpcodeBefore(CountSince(current) + 1)
  /\ TrySuspendScript

Execute(result) ==
  /\ phase = "run" /\ ~Unexpected /\ ~OverLimit
  /\ OpcodeBefore(CountSince(current) + 1)
  /\ OnOpcodeFinished(result)
  /\ UNCHANGED <<todo, current>>

\* A handler that does not touch this state, or wait, where result says so.
OpcodeOther(result) ==
  /\ Execute(result)
  /\ UNCHANGED <<active, waiting, asleep, drawing, breakpoints>>

\* What a script of the game does to the drawing state is there to stay.
Draws(d) ==
  /\ game' = d
  /\ native' = IF current \in Native THEN d ELSE native
  /\ UNCHANGED global

DisplayText ==
  /\ Execute("OR_CONTINUE")
  /\ Draws([game EXCEPT !.lines = @ \cup {current}])
  /\ UNCHANGED <<active, waiting, asleep, states, allocated, breakpoints>>

\* 0390: a custom script finds its dictionaries again, one of the game loads.
opcode_0390(name) ==
  LET txd == <<current, name>> IN
  /\ Execute("OR_CONTINUE")
  /\ Draws([game EXCEPT !.txd = txd])
  /\ allocated' = allocated \cup {txd}
  /\ states' = IF current \in Custom
               THEN [states EXCEPT ![current].loaded = @ \cup {txd}] ELSE states
  /\ UNCHANGED <<active, waiting, asleep, breakpoints>>

\* 0391: for custom scripts nothing.
opcode_0391 ==
  /\ current \in Native /\ game.txd # NoTxd
  /\ Execute("OR_CONTINUE")
  /\ Draws([game EXCEPT !.txd = NoTxd])
  /\ allocated' = allocated \ {game.txd}
  /\ UNCHANGED <<active, waiting, asleep, states, breakpoints>>

\* 2100 in a script in debug mode; blocking stops the game after this frame.
Opcode_Breakpoint(blocking) ==
  /\ Len(paused) < MaxPaused
  /\ Execute("OR_INTERRUPT")
  /\ paused' = Append(paused, current)
  /\ codePause' = (codePause \/ blocking)
  /\ UNCHANGED <<active, waiting, asleep, drawing, keysReleased>>

\* A handler that throws: the flag stays up, the rest of the script is skipped.
OpcodeCrashes ==
  /\ phase = "run" /\ ~Unexpected /\ ~OverLimit
  /\ OpcodeBefore(CountSince(current) + 1)
  /\ flag' = [flag EXCEPT ![current] = TRUE]
  /\ crashed' = crashed \cup {current}
  /\ fresh' = fresh \ {current}
  /\ phase' = "after"
  /\ UNCHANGED <<active, waiting, todo, current, asleep, drawing, breakpoints>>

----------------------------------------------------------------------------
(* Scripts that come and go *)

ScriptUnregister(gone) ==
  /\ states' = [s \in Custom |-> IF s \in gone THEN NoState ELSE states[s]]
  /\ allocated' = allocated \ UNION {Released(s) : s \in gone \cap Custom}

\* A script is removed, gone being the followed scripts that are removed: one of
\* the game, or a custom script (which need not be followed) with its children.
\* Only if the script that executes the opcode is the one addressed (itself) is
\* it interrupted: one that goes with its parent goes on.  None is deleted
\* before the next script is processed.
Terminate(gone, itself) ==
  /\ gone # {} /\ gone \subseteq active
  /\ gone \subseteq Custom \/ \E s \in Native : gone = {s}
  /\ itself => current \in gone
  /\ current \in gone \cap Native => itself
  /\ phase = "run" /\ ~Unexpected /\ ~OverLimit
  /\ OpcodeBefore(CountSince(current) + 1)
  /\ OnOpcodeFinished(IF itself THEN "OR_INTERRUPT" ELSE "OR_CONTINUE")
  /\ active' = active \ gone
  /\ waiting' = waiting \cup (gone \cap Custom)
  /\ todo' = todo \ gone
  /\ ScriptUnregister(gone)
  /\ UNCHANGED <<current, asleep, game, global, native, breakpoints>>

\* The constructors do not set bIsProcessing, Init of the game clears it.
StartScript(s, garbage) ==
  /\ s \notin active \cup waiting
  /\ s \in Native => ~garbage
  /\ phase = "run" /\ ~Unexpected /\ ~OverLimit
  /\ OpcodeBefore(CountSince(current) + 1)
  /\ active' = active \cup {s}
  /\ flag' = [flag EXCEPT ![s] = garbage, ![current] = FALSE]
  /\ crashed' = crashed \ {s, current}
  /\ fresh' = (fresh \ {current}) \cup {s}
  /\ asleep' = asleep \ {s}
  /\ phase' = "run"
  /\ UNCHANGED <<waiting, todo, current, drawing, breakpoints>>

\* The scripts a session starts with; see StartScript for the flag.
Started(a, f) ==
  /\ a \in {Native \cup c : c \in SUBSET Custom}
  /\ f \in [Script -> BOOLEAN] /\ \A s \in Script : f[s] => s \in a \ Native

\* GameEnd between two frames: the next session starts its scripts anew.  None is
\* modelled during a blocking pause: DebugUtils leaves m_CodePause as it is, and
\* what the game makes of it when it loads is not in this code.
NewSession(a, f) ==
  /\ phase = "none" /\ todo = {} /\ ~codePause
  /\ Started(a, f)
  /\ active' = a /\ waiting' = {} /\ fresh' = a
  /\ ScriptUnregister(active)
  /\ asleep' = {} /\ crashed' = {} /\ flag' = f
  /\ paused' = <<>>
  /\ UNCHANGED <<frame, game, global, native, limits, codePause, keysReleased, callbacks>>

----------------------------------------------------------------------------
Init ==
  /\ active \in SUBSET Script /\ flag \in [Script -> BOOLEAN] /\ Started(active, flag)
  /\ waiting = {} /\ fresh = active
  /\ todo = {} /\ current = NoScript /\ phase = "none"
  /\ asleep = {} /\ crashed = {}
  /\ game = Blank /\ global = Blank /\ native = Blank
  /\ states = [s \in Custom |-> NoState]
  /\ allocated = {}
  /\ currScript = NoScript /\ count = 0 /\ executed = 0
  /\ paused = <<>> /\ codePause = FALSE /\ keysReleased = TRUE
  /\ textFirst \in BOOLEAN /\ unmatched = FALSE

Opcode ==
  \/ OpcodeUnexpected \/ OpcodePastEnd \/ OpcodeOverLimit \/ OpcodeFails \/ OpcodeCrashes
  \/ \E result \in {"OR_CONTINUE", "OR_INTERRUPT"} : OpcodeOther(result)
  \/ DisplayText \/ opcode_0391
  \/ \E name \in TxdName : opcode_0390(name)
  \/ \E blocking \in BOOLEAN : Opcode_Breakpoint(blocking)
  \/ \E gone \in SUBSET Script, itself \in BOOLEAN : Terminate(gone, itself)
  \/ \E s \in Script, garbage \in BOOLEAN : StartScript(s, garbage)

Process == (\E s \in Script : BeginProcess(s)) \/ (Opcode /\ UNCHANGED callbacks) \/ EndProcess

Next ==
  \/ StartFrame \/ Process \/ Draw
  \/ \E a \in SUBSET Script, f \in [Script -> BOOLEAN] : NewSession(a, f)
  \/ \E down \in SUBSET (1..KeyCount) : DrawingFinished(down)

\* The game processes its queue, and the player tries the first key.
Fairness ==
  /\ WF_vars(Process)
  /\ WF_vars(DrawingFinished({})) /\ SF_vars(DrawingFinished({1}))

Spec == Init /\ [][Next]_vars /\ Fairness

----------------------------------------------------------------------------
(* Properties *)

DrawState == [lines : SUBSET Script, txd : Txd \cup {NoTxd}]

\* The values of the variables: among others, a script that runs is one that
\* the game has taken from its queue and not one that still waits.
TypeOK ==
  /\ active \subseteq Script /\ waiting \subseteq Custom \ active
  /\ fresh \subseteq Script /\ todo \subseteq active \ {current}
  /\ current \in Script \cup {NoScript} /\ phase \in {"none", "run", "after"}
  /\ phase = "none" <=> current = NoScript
  /\ asleep \subseteq Script /\ crashed \subseteq Script /\ flag \in [Script -> BOOLEAN]
  /\ game \in DrawState /\ global \in DrawState /\ native \in DrawState
  /\ states \in [Custom -> [draws : DrawState, loaded : SUBSET Txd]]
  /\ allocated \subseteq Txd
  /\ currScript \in Script \cup {NoScript} /\ count \in 0..Limit /\ executed \in 0..(Limit + 1)
  /\ paused \in Seq(Script) /\ codePause \in BOOLEAN /\ keysReleased \in BOOLEAN
  /\ textFirst \in BOOLEAN /\ unmatched \in BOOLEAN

\* Whatever custom scripts drew and loaded, and however they ended, scripts of
\* the game find what they left: ScriptDrawing puts it aside and brings it back,
\* as long as DebugUtils has kept no script at a breakpoint from its Begin.
DrawsStaySeparate == ~unmatched /\ current \notin Custom => game = native

\* What is drawn for a custom script was drawn by it, with its own textures,
\* and nothing is drawn for one that is gone, though it may have gone on after it
\* was removed with its parent; with the same proviso.
DrawsAreOwn ==
  ~unmatched =>
    \A s \in Custom :
      /\ states[s].draws.lines \subseteq {s}
      /\ states[s].draws.txd # NoTxd => states[s].draws.txd[1] = s
      /\ s \notin active => states[s].draws = Blank

\* The command limit of DebugUtils counts the opcodes of one script in one
\* frame, all of them and no others.
LimitIsPerFrame ==
  phase = "run" => currScript = current /\ count = executed /\ executed <= Limit

\* Among scripts that executed an opcode the flag is that of those whose last
\* handler did not come back: no other is reported for an ignored error.
FlagTellsCrash ==
  \A s \in active \ fresh : flag[s] <=> s \in crashed

\* A frame ends, whatever loops are in its scripts: the limit of commands.
FrameEnds == todo # {} ~> todo = {} /\ phase = "none"

\* A player who keeps trying the first key leaves every blocking breakpoint.
PauseEnds == codePause ~> ~codePause

\* A dictionary in memory belongs to the game or to a script that lives: "CLEO
\* unloads all textures when the custom script ends" (opcode_0391 of Text).
TexturesAreUnloaded ==
  \A txd \in allocated : txd[1] \in Native \cup active
=============================================================================
