----------------------------- MODULE NativeCalls -----------------------------
(***************************************************************************)
(* call_function and its kin (0AA5 to 0AA8): a script calls a function of  *)
(* the process.  Arguments and the texts among them are collected in       *)
(* static arrays all calls share, and pushed from there.                   *)
(*                                                                         *)
(* Abstractions.  Values and texts are members of small sets; the function *)
(* itself is outside, but may leave the stack at another position.         *)
(***************************************************************************)
EXTENDS Naturals, Sequences, SequencesExt, FiniteSets

CONSTANTS
  Value, Zero,  \* values of arguments, and that of static storage
  Words,        \* texts
  Max_Args, Max_Text_Params

CallsAssumption == Max_Args \in Nat /\ Max_Text_Params \in Nat

VARIABLES
  arguments, textParams,
  call,         \* auxiliary: what the last call was given and what was on the stack
  stored        \* auxiliary: places of the array an argument was stored to, by any call

callVars == <<arguments, textParams, call, stored>>

----------------------------------------------------------------------------
\* A literal text, a string variable, a value, and a type that is none of these.
Given == [kind : {"text", "label"}, is : Words] \cup [kind : {"value"}, is : Value]
           \cup {[kind |-> "none", is |-> Zero]}

\* What is pushed: a value, or a pointer to one of the text buffers or to a variable.
Pushed == [to : {"value"}, is : Value \cup {Zero}] \cup [to : {"buffer"}, is : 1..Max_Text_Params]
            \cup [to : {"variable"}, is : Words] \cup {[to |-> "beyond", is |-> Zero]}

Min2(a, b) == IF a < b THEN a ELSE b

\* Without strict validation a string variable is passed as a pointer to it.
IsCopied(g, strict) == g.kind = "text" \/ (g.kind = "label" /\ strict)

CopiedBefore(given, i, strict) == Cardinality({j \in 1..(i - 1) : IsCopied(given[j], strict)})

Buffer(given, i, strict) == CopiedBefore(given, i, strict) + 1

Argument(given, i, strict) ==
  IF given[i].kind = "value" THEN [to |-> "value", is |-> given[i].is]
  ELSE IF IsCopied(given[i], strict) THEN [to |-> "buffer", is |-> Buffer(given, i, strict)]
  ELSE [to |-> "variable", is |-> given[i].is]

\* The argument at which reading is given up.
Refused(given, i, strict) ==
  \/ given[i].kind = "none"
  \/ IsCopied(given[i], strict) /\ CopiedBefore(given, i, strict) >= Max_Text_Params

\* Variant: the last argument read is not stored.
IsReadBefore(i, n) == i < n

IsRead(i, n) == i <= n

\* Arguments are read one after the other; those read stay in the arrays.
Collect(given, n, strict) ==
  /\ arguments' = [i \in 1..Max_Args |-> IF IsRead(i, n) THEN Argument(given, i, strict) ELSE arguments[i]]
  /\ stored' = stored \cup {i \in 1..Max_Args : IsRead(i, n)}
  /\ textParams' = [b \in 1..Max_Text_Params |->
       LET written == {i \in 1..n : IsCopied(given[i], strict) /\ Buffer(given, i, strict) = b}
       IN  IF written = {} THEN textParams[b]
           ELSE given[CHOOSE i \in written : \A j \in written : j <= i].is]

NoCall == [given |-> <<>>, passed |-> <<>>, stack |-> "same"]

\* More arguments than there is room for, or not as many as declared where that matters.
CallRefused(numGiven, numArg, strict) ==
  /\ numGiven > Max_Args \/ (strict /\ numArg # numGiven)
  /\ call' = NoCall
  /\ UNCHANGED <<arguments, textParams, stored>>

CallStops(given, numArg, strict, i) ==
  /\ strict => numArg = Len(given)
  /\ i <= Min2(numArg, Len(given)) /\ Refused(given, i, strict)
  /\ \A j \in 1..(i - 1) : ~Refused(given, j, strict)
  /\ Collect(given, i - 1, strict)
  /\ call' = NoCall

\* The arguments declared are pushed: those not given are what calls before left in their places,
\* those beyond the array are whatever lies there. A wrong stack position is put right, and the
\* script suspended.
CallFunctionGeneric(given, numArg, strict, stack) ==
  LET n == Min2(numArg, Len(given)) IN
  /\ strict => numArg = Len(given)
  /\ \A i \in 1..n : ~Refused(given, i, strict)
  /\ Collect(given, n, strict)
  /\ call' = [given |-> given, stack |-> stack,
              passed |-> [i \in 1..numArg |-> IF i <= Max_Args THEN arguments'[i]
                                              ELSE [to |-> "beyond", is |-> Zero]]]

----------------------------------------------------------------------------
CallsInit ==
  /\ arguments = [i \in 1..Max_Args |-> [to |-> "value", is |-> Zero]]
  /\ textParams \in [1..Max_Text_Params -> Words]
  /\ call = NoCall /\ stored = {}

CallsNext ==
  \E numArg \in 0..(Max_Args + 1), strict \in BOOLEAN :
    \/ \E numGiven \in 0..(Max_Args + 1) : CallRefused(numGiven, numArg, strict)
    \/ \E given \in BoundedSeq(Given, Max_Args) :
         \/ \E i \in 1..Max_Args : CallStops(given, numArg, strict, i)
         \/ \E stack \in {"same", "moved"} : CallFunctionGeneric(given, numArg, strict, stack)

----------------------------------------------------------------------------
\* Types of the arrays.
CallsTypeOK ==
  /\ arguments \in [1..Max_Args -> Pushed] /\ textParams \in [1..Max_Text_Params -> Words]
  /\ call.given \in Seq(Given) /\ call.passed \in Seq(Pushed) /\ call.stack \in {"same", "moved"}
  /\ stored \subseteq 1..Max_Args

\* The text or value a pushed argument leads to.
Received(p) == IF p.to = "buffer" THEN textParams[p.is] ELSE p.is

\* A function gets each argument it was given, texts included, whatever calls before it left in
\* the arrays and wherever they stopped. One that was declared and not given, where that is not
\* validated strictly, is zero, as the comment at MemoryOperations.cpp:284 has it, only as long as
\* no call before stored an argument in its place: after that it is the one stored last.
ArgumentsArrive ==
  \A i \in 1..Len(call.passed) :
    /\ i <= Len(call.given) => Received(call.passed[i]) = call.given[i].is
    /\ i > Len(call.given) /\ i \in (1..Max_Args) \ stored => call.passed[i] = [to |-> "value", is |-> Zero]
=============================================================================
