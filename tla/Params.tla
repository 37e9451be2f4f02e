------------------------------- MODULE Params -------------------------------
(***************************************************************************)
(* Parameters of an opcode with var-args, as the handlers and the C API    *)
(* read, peek, skip, count, write and format them in the code of a script. *)
(* All of it moves the instruction pointer, and whatever goes wrong the    *)
(* next opcode has to be found behind the terminator.                      *)
(*                                                                         *)
(* Abstractions.  A parameter is its type with what matters of its value:  *)
(* the length of a literal text, or of the text a number points to.  What  *)
(* the game itself does with a parameter is modelled from its use.         *)
(***************************************************************************)
EXTENDS Naturals, Sequences, SequencesExt

CONSTANTS
  Kind,        \* types tried, of those below
  Length,      \* lengths of texts
  Null,        \* zero: as a number, and as a pointer to no text
  BuffSize,    \* sizes of buffers for a text
  LabelSize, StringSize,  \* 8 and 16: sizes of text variables
  MaxParams,   \* bound on the parameters of an opcode
  Token, MaxTokens, \* what formats consist of, bound on its tokens
  OutSize, MaxPrinted  \* sizes of the output of a format, bound on what one argument prints

\* Buffers have room for a terminator at least.
ParamsAssumption ==
  /\ Kind \subseteq {"BYTE", "WORD", "DWORD", "FLOAT", "VAR", "INT_ARRAY", "FLOAT_ARRAY", "VARLEN_STRING",
                     "TEXTLABEL", "STRING", "VAR_TEXTLABEL", "VAR_STRING", "TEXTLABEL_ARRAY"}
  /\ Length \subseteq Nat /\ BuffSize \subseteq Nat \ {0}
  /\ LabelSize \in Nat \ {0} /\ StringSize \in Nat \ {0} /\ OutSize \in Nat \ {0}
  /\ MaxParams \in Nat /\ "?" \in Token /\ MaxTokens \in Nat /\ MaxPrinted \in Nat

VARIABLES
  code, strict,   \* the parameters of the opcode; is it validated strictly
  ip, handledParamCount,
  mode,           \* "open", "format", "done", "suspended", or "lost" in the code
  text,           \* the last text read or written: what there was, the buffer, what arrived
  fmt, written, result,  \* the format left, its output, and how it came to its end
  nul           \* where that put a terminator behind the output, if it did

formatVars == <<fmt, written, result, nul>>
paramsVars == <<code, strict, ip, handledParamCount, mode, text, formatVars>>

----------------------------------------------------------------------------
(* Types of parameters *)

IsImmInteger(k) == k \in {"BYTE", "WORD", "DWORD"}
IsImmFloat(k) == k = "FLOAT"
IsVariable(k) == k \in {"VAR", "INT_ARRAY", "FLOAT_ARRAY"}
IsImmString(k) == k \in {"VARLEN_STRING", "TEXTLABEL", "STRING"}
IsVarString(k) == k \in {"VAR_TEXTLABEL", "VAR_STRING", "TEXTLABEL_ARRAY"}
IsArray(k) == k \in {"INT_ARRAY", "FLOAT_ARRAY", "TEXTLABEL_ARRAY"}

\* Of arrays what their elements are.  A plain variable can be a number, a float or a pointer.
WasInt(k) == IsImmInteger(k) \/ k \in {"VAR", "INT_ARRAY"}
WasFloat(k) == IsImmFloat(k) \/ k \in {"VAR", "FLOAT_ARRAY"}
WasString(k, output) ==
  \/ IsVarString(k) \/ k \in {"VAR", "INT_ARRAY"}
  \/ IF output THEN IsImmInteger(k) ELSE IsImmString(k)

Param ==
  [kind : {k \in Kind : WasInt(k)}, is : Length \cup {Null}]
    \cup [kind : {k \in Kind : IsImmFloat(k) \/ k = "FLOAT_ARRAY"}, is : {Null}]
    \cup [kind : {k \in Kind : IsImmString(k) \/ IsVarString(k)}, is : Length]

\* Bytes behind that of the type.
Payload(p) ==
  CASE p.kind = "BYTE" -> 1
    [] p.kind \in {"WORD", "VAR", "VAR_TEXTLABEL", "VAR_STRING"} -> 2
    [] p.kind \in {"DWORD", "FLOAT"} -> 4
    [] p.kind \in {"INT_ARRAY", "FLOAT_ARRAY", "TEXTLABEL_ARRAY"} -> 6
    [] p.kind = "TEXTLABEL" -> LabelSize
    [] p.kind = "STRING" -> StringSize
    [] p.kind = "VARLEN_STRING" -> 1 + p.is

Start(i) == FoldLeft(LAMBDA n, p : n + 1 + Payload(p), 0, SubSeq(code, 1, i - 1))
Terminator == Start(Len(code) + 1)

At == CHOOSE i \in 1..Len(code) : Start(i) = ip
AtEnd == ip = Terminator
Here == code[At]
Behind(p) == ip + 1 + Payload(p)
Left == Len(code) - At + 1

Smaller(a, b) == IF a < b THEN a ELSE b

----------------------------------------------------------------------------
(* Single parameters.  A handler that has not failed asks for the next one. *)

Reading == mode = "open" /\ ~AtEnd

Consume(p) == ip' = Behind(p) /\ handledParamCount' = handledParamCount + 1

\* The game knows numbers and variables only; of a text it reads the type.
GameReads == {k \in Kind : IsImmInteger(k) \/ IsImmFloat(k) \/ IsVariable(k)}

Matches(want, k) ==
  CASE want = "int" -> WasInt(k)
    [] want = "float" -> WasFloat(k)
    [] want = "any" -> WasInt(k) \/ WasFloat(k)

\* Zero passes as a float.
Accepts(want, p) == Matches(want, p.kind) \/ (want = "float" /\ WasInt(p.kind) /\ p.is = Null)
IsOutput(want, k) == IsVariable(k) /\ Matches(want, k)

\* A mismatch is an error only where it is validated strictly.
Compat(ok) == mode' = IF ok \/ ~strict THEN mode ELSE "suspended"

\* What the game does not know stays in the code, but its type.
NotHandled ==
  /\ ip' = ip + 1 /\ handledParamCount' = handledParamCount + 1
  /\ mode' = IF strict THEN "suspended" ELSE "lost"

\* OPCODE_READ_PARAM_INT, FLOAT, ANY32 and their like
ReadParam(want) ==
  /\ Reading
  /\ IF Here.kind \in GameReads
     THEN Consume(Here) /\ Compat(Accepts(want, Here))
     ELSE NotHandled
  /\ UNCHANGED <<code, strict, text, formatVars>>

\* OPCODE_READ_PARAM_PTR and those of handles: a bad one is an error in any script.
ReadPointer ==
  /\ Reading /\ Here.kind \in GameReads
  /\ Consume(Here)
  /\ IF WasInt(Here.kind) /\ Here.is = Null THEN mode' = "suspended" ELSE Compat(WasInt(Here.kind))
  /\ UNCHANGED <<code, strict, text, formatVars>>

\* OPCODE_READ_PARAM_OUTPUT_VAR_INT and its like
ReadOutputVariable(want) ==
  /\ Reading
  /\ IF IsVariable(Here.kind) \/ IsVarString(Here.kind)
     THEN Consume(Here) /\ Compat(IsOutput(want, Here.kind))
     ELSE NotHandled
  /\ UNCHANGED <<code, strict, text, formatVars>>

\* OPCODE_WRITE_PARAM_INT and its like
WriteParam(want) ==
  /\ Reading
  /\ IF IsVariable(Here.kind)
     THEN Consume(Here) /\ Compat(IsOutput(want, Here.kind))
     ELSE NotHandled
  /\ UNCHANGED <<code, strict, text, formatVars>>

\* Variant: of an array only as much as of a variable is skipped.
SkippedAsVariable(p) == IF p.kind \in {"INT_ARRAY", "FLOAT_ARRAY", "TEXTLABEL_ARRAY"} THEN 2 ELSE Payload(p)

Skipped(p) == Payload(p)

CLEO_SkipOpcodeParams(count) ==
  /\ mode = "open" /\ ~AtEnd /\ count <= Left
  /\ ip' = FoldLeft(LAMBDA n, p : n + 1 + Skipped(p), ip, SubSeq(code, At, At + count - 1))
  /\ handledParamCount' = handledParamCount + count
  /\ UNCHANGED <<code, strict, mode, text, formatVars>>

\* Room in a short or a long text, and what of a text can be in one.
RoomOf(k) == IF k \in {"VAR_STRING", "STRING"} THEN StringSize ELSE LabelSize
TextOf(p) ==
  IF p.kind = "VARLEN_STRING" \/ WasInt(p.kind) THEN p.is ELSE Smaller(p.is, RoomOf(p.kind))

IsTextPointer(p) == WasInt(p.kind) /\ p.is # Null
Holds(p) == IsImmString(p.kind) \/ IsVarString(p.kind) \/ IsTextPointer(p)

\* What is copied to a buffer of a size with room for it, and whether a terminator is put behind.
Arrives(length, room, size, ended) ==
  text' = [length |-> length, size |-> size, got |-> Smaller(length, room), ended |-> ended]

\* Variant: the terminator is not kept out of the room for the text.
RoomForText(size) == size

RoomIn(size) == size - 1

\* All but a literal of fixed size that is full get a terminator of their own; the last byte of
\* the buffer always is one.
IsEnded(p, size) ==
  p.kind \in {"TEXTLABEL", "STRING"} => TextOf(p) < RoomOf(p.kind) \/ size <= RoomOf(p.kind) + 1

CopyText(size) == Consume(Here) /\ Arrives(TextOf(Here), RoomIn(size), size, IsEnded(Here, size))

\* GetScriptStringParam skips what is no text.
ReadStringParam(size) ==
  /\ Reading
  /\ IF Holds(Here) THEN CopyText(size) ELSE Consume(Here) /\ UNCHANGED text
  /\ UNCHANGED <<code, strict, mode, formatVars>>

\* The opcodes read no text through a literal address. What failed is told to the handler by its
\* type alone: a bad pointer in an array of numbers is not noticed, and the handler goes on.
readParamText(size) ==
  /\ Reading
  /\ CASE ~WasString(Here.kind, FALSE) ->
            mode' = "suspended" /\ UNCHANGED <<ip, handledParamCount, text>>
       [] WasString(Here.kind, FALSE) /\ Holds(Here) -> CopyText(size) /\ UNCHANGED mode
       [] OTHER ->
            /\ Consume(Here) /\ UNCHANGED text
            /\ mode' = IF IsArray(Here.kind) THEN mode ELSE "suspended"
  /\ UNCHANGED <<code, strict, formatVars>>

\* Into a text variable, or where a number points to.
WriteTo(p, length) ==
  IF IsVarString(p.kind)
  THEN Arrives(length, RoomOf(p.kind), RoomOf(p.kind), RoomOf(p.kind) > length)
  ELSE Arrives(length, length, length + 1, TRUE)

HasRoom(p) == IsVarString(p.kind) \/ IsTextPointer(p)

\* GetStringParamWriteBuffer and WriteStringParam, of the API, skip what is none of these.
WriteStringParam(length) ==
  /\ Reading
  /\ Consume(Here)
  /\ IF HasRoom(Here) THEN WriteTo(Here, length) ELSE UNCHANGED text
  /\ UNCHANGED <<code, strict, mode, formatVars>>

\* OPCODE_WRITE_PARAM_STRING; OPCODE_READ_PARAM_OUTPUT_VAR_STRING finds the buffer first.
writeParamText(length, found) ==
  /\ Reading
  /\ IF HasRoom(Here)
     THEN Consume(Here) /\ WriteTo(Here, length) /\ UNCHANGED mode
     ELSE /\ IF found THEN Consume(Here) ELSE UNCHANGED <<ip, handledParamCount>>
          /\ mode' = "suspended" /\ UNCHANGED text
  /\ UNCHANGED <<code, strict, formatVars>>

\* Reads one parameter ahead and restores what that changed, or all of them to count.
CLEO_PeekIntOpcodeParam == Reading /\ UNCHANGED paramsVars
GetVarArgCount == mode = "open" /\ UNCHANGED paramsVars

\* With the terminator, from wherever in the parameters.
SkipUnusedVarArgs ==
  /\ ip' = Terminator + 1
  /\ handledParamCount' = handledParamCount + (IF AtEnd THEN 0 ELSE Left)

EndOpcode ==
  /\ mode = "open" /\ SkipUnusedVarArgs /\ mode' = "done"
  /\ UNCHANGED <<code, strict, text, formatVars>>

----------------------------------------------------------------------------
(* ReadFormattedString, into OutSize bytes.  A format has characters (c), conversions of a    *)
(* number (d), of a text (s) or none that is known (?), before any of them widths ( * ) and a  *)
(* precision (.) from arguments, and last may be a lone %.                                     *)

Format ==
  {f \in BoundedSeq(Token, MaxTokens) : \A i \in 1..Len(f) :
     /\ f[i] = "%" => i = Len(f)
     /\ f[i] = "*" => i < Len(f) /\ f[i + 1] \in {"*", ".", "d", "s", "?"}
     /\ f[i] = "." => i < Len(f) /\ f[i + 1] \in {"d", "s", "?"}}

Stop(outcome, end) == mode' = "done" /\ result' = outcome /\ nul' = end

StartFormat(f) ==
  /\ mode = "open"
  /\ mode' = "format" /\ fmt' = f /\ written' = 0
  /\ UNCHANGED <<code, strict, ip, handledParamCount, text, nul, result>>

Formatting(tokens) ==
  /\ mode = "format" /\ fmt # <<>> /\ Head(fmt) \in tokens
  /\ UNCHANGED <<code, strict, text>>

\* There is no format: a bad pointer that was not noticed.
FormatNull ==
  /\ mode = "open"
  /\ SkipUnusedVarArgs /\ Stop("null", {})
  /\ UNCHANGED <<code, strict, text, fmt, written>>

\* Characters are added up to the size of the output.
OutOfMemory == SkipUnusedVarArgs /\ Stop("memory", {OutSize - 1}) /\ UNCHANGED <<fmt, written>>
Put(n) == written' = written + n /\ fmt' = Tail(fmt) /\ UNCHANGED <<mode, nul, result>>

FormatCharacter ==
  /\ Formatting({"c"})
  /\ IF written >= OutSize THEN OutOfMemory ELSE Put(1) /\ UNCHANGED <<ip, handledParamCount>>

\* A width from an argument.
FormatStar ==
  /\ Formatting({"*"}) /\ ~AtEnd /\ Here.kind \in GameReads
  /\ Consume(Here) /\ Put(0)

\* A precision from an argument: its * is read but not passed, and then is no known specifier.
FormatPrecision ==
  /\ Formatting({"."}) /\ ~AtEnd /\ Here.kind \in GameReads
  /\ Consume(Here) /\ fmt' = <<"?">> /\ UNCHANGED <<mode, written, nul, result>>

\* A text where the game has to read a number.
FormatLost ==
  /\ Formatting({"*", ".", "d"}) /\ ~AtEnd /\ Here.kind \notin GameReads
  /\ ip' = ip + 1 /\ handledParamCount' = handledParamCount + 1 /\ mode' = "lost"
  /\ UNCHANGED formatVars

FormatArgument(n) ==
  /\ Formatting({"d", "s"}) /\ ~AtEnd
  /\ Head(fmt) = "d" => Here.kind \in GameReads
  /\ IF written + n > OutSize
     THEN OutOfMemory
     ELSE Consume(Here) /\ Put(n)

\* The arguments are used up: the terminator is put behind what was written, the buffer full or
\* not.
FormatMissing ==
  /\ Formatting({"*", ".", "d", "s"}) /\ AtEnd
  /\ ip' = ip + 1 /\ Stop("missing", {written})
  /\ UNCHANGED <<handledParamCount, fmt, written>>

\* An unknown specifier, in the same way; or none behind the last %, without a terminator.
FormatUnknown ==
  /\ Formatting({"?"})
  /\ SkipUnusedVarArgs /\ Stop("unknown", {written}) /\ UNCHANGED <<fmt, written>>
FormatIncomplete ==
  /\ Formatting({"%"})
  /\ SkipUnusedVarArgs /\ Stop("incomplete", {}) /\ UNCHANGED <<fmt, written>>

\* Variant: room for the terminator is not counted.
IsOverfull(n) == n > OutSize

IsFull(n) == n >= OutSize

FormatEnd ==
  /\ mode = "format" /\ fmt = <<>>
  /\ IF IsFull(written) THEN OutOfMemory
     ELSE SkipUnusedVarArgs /\ Stop("ok", {written}) /\ UNCHANGED <<fmt, written>>
  /\ UNCHANGED <<code, strict, text>>

----------------------------------------------------------------------------
NoText == [length |-> 0, size |-> 1, got |-> 0, ended |-> TRUE]

ParamsInit ==
  /\ code \in BoundedSeq(Param, MaxParams) /\ strict \in BOOLEAN /\ ip = 0 /\ handledParamCount = 0
  /\ mode = "done" /\ text = NoText
  /\ fmt = <<>> /\ written = 0 /\ nul = {} /\ result = "none"

\* customOpcodeHandler counts the parameters of each opcode anew. The script is a loop with this
\* opcode in it.
StartOpcode ==
  /\ mode = "done"
  /\ UNCHANGED <<code, strict>>
  /\ ip' = 0 /\ handledParamCount' = 0 /\ mode' = "open" /\ text' = NoText
  /\ fmt' = <<>> /\ written' = 0 /\ nul' = {} /\ result' = "none"

ParamsNext ==
  \/ StartOpcode
  \/ \E want \in {"int", "float", "any"} : ReadParam(want) \/ ReadOutputVariable(want) \/ WriteParam(want)
  \/ ReadPointer \/ CLEO_PeekIntOpcodeParam \/ GetVarArgCount
  \/ \E count \in 1..MaxParams : CLEO_SkipOpcodeParams(count)
  \/ \E size \in BuffSize : ReadStringParam(size) \/ readParamText(size)
  \/ \E length \in Length :
       WriteStringParam(length) \/ \E found \in BOOLEAN : writeParamText(length, found)
  \/ EndOpcode \/ FormatNull
  \/ \E f \in Format : StartFormat(f)
  \/ FormatCharacter \/ FormatStar \/ FormatPrecision \/ FormatLost \/ FormatMissing \/ FormatUnknown \/ FormatIncomplete \/ FormatEnd
  \/ \E n \in 0..MaxPrinted : FormatArgument(n)

----------------------------------------------------------------------------
\* Types of the parameters.
ParamsTypeOK ==
  /\ code \in Seq(Param) /\ strict \in BOOLEAN
  /\ ip \in Nat /\ handledParamCount \in Nat
  /\ mode \in {"open", "format", "done", "suspended", "lost"}
  /\ fmt \in Seq(Token) /\ written \in 0..OutSize
  /\ nul \subseteq 0..OutSize
  /\ result \in {"none", "ok", "memory", "missing", "unknown", "incomplete", "null"}

\* However parameters were read, skipped, written and formatted, the instruction pointer is at
\* a parameter, and as many are counted as are behind it (the message of an error names that
\* one); an opcode that comes to its end leaves it behind the terminator, in every way a format
\* can fail. A script gets lost by a text in place of a number only where it is not validated, or
\* in the arguments of a format, which never are.
PointerIsAtParam ==
  /\ mode \in {"open", "format"} =>
       \E i \in 1..(Len(code) + 1) : ip = Start(i) /\ handledParamCount = i - 1
  /\ mode = "done" /\ ip # 0 => ip = Terminator + 1 /\ handledParamCount = Len(code)
  /\ mode = "lost" /\ fmt = <<>> => ~strict

\* A handler gets the text of a format only when the whole format was printed, and then it is
\* ended inside its buffer. In all other ways the handler gets nullptr, and its buffer holds a text
\* cut at its last byte, when it was too small; one that is ended behind what was written, and so
\* one byte behind a buffer that is full, when an argument is missing or a specifier unknown; and
\* one without an end, when the format is nullptr or its last specifier incomplete.
OutputIsEnded ==
  /\ result = "ok" => fmt = <<>> /\ nul = {written} /\ written < OutSize
  /\ result = "memory" => nul = {OutSize - 1}
  /\ result \in {"missing", "unknown"} => nul = {written} /\ written <= OutSize
  /\ result \in {"none", "null", "incomplete"} => nul = {}

\* A text arrives whole or fills its buffer, terminator included, and no byte is written behind
\* the buffer; it lacks a terminator only in a variable it fills, and as a literal of fixed size
\* that was full.
TextIsCut ==
  /\ text.got + (IF text.ended THEN 1 ELSE 0) <= text.size
  /\ text.got < text.length => text.got + 1 >= text.size
  /\ text.ended \/ text.got \in {LabelSize, StringSize}
=============================================================================
