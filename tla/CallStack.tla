------------------------------ MODULE CallStack ------------------------------
(***************************************************************************)
(* What cleo_call and cleo_return promise to a script: every script has a  *)
(* call stack of its own.  A call starts a fresh scope; a return brings    *)
(* back the caller's scope as it was, acts in it like one condition opcode *)
(* with the function's result, and may store one result in a variable of   *)
(* the caller.  Nothing a script does touches the scope of another one.    *)
(***************************************************************************)
EXTENDS Naturals, Sequences

CONSTANTS
  Script, Main, Module,  \* scripts, a script's own code, and code it may call
  NumLocals, Val, Zero,  \* the variables of a scope
  OldScript              \* scripts whose functions do not clear their variables

VARIABLES scope,    \* of each script, the scope it is executing in
          callers   \* of each script, the scopes of the pending calls

Variables == [1..NumLocals -> Val]

\* No condition pending, or a number of terms of an `if and` or an `if or`.
NothingPending == [kind |-> "none", left |-> 0]

Cleared == [i \in 1..NumLocals |-> Zero]

\* A condition opcode with result r in a scope.
Term(sc, r) ==
  LET value == CASE sc.pending.kind = "none" -> r
                 [] sc.pending.kind = "and"  -> sc.cond /\ r
                 [] sc.pending.kind = "or"   -> sc.cond \/ r
      rest  == IF sc.pending.left <= 1 THEN NothingPending
               ELSE [sc.pending EXCEPT !.left = @ - 1]
  IN [sc EXCEPT !.cond = value, !.pending = rest]

\* The scope of a function called with the arguments args.
Entered(s, sc, code, args) ==
  [code |-> code, gosubs |-> <<>>, cond |-> FALSE, pending |-> NothingPending,
   locals |-> [i \in 1..NumLocals |->
                 IF i <= Len(args) THEN args[i]
                 ELSE IF s \in OldScript THEN sc.locals[i] ELSE Zero]]

Top(s) == callers[s][Len(callers[s])]

\* The scope of a script that starts.
Initial == [code |-> Main, gosubs |-> <<>>, cond |-> FALSE,
            pending |-> NothingPending, locals |-> Cleared]

\* The scripts of S start, or will never execute again.
Reset(S) ==
  /\ scope' = [s \in Script |-> IF s \in S THEN Initial ELSE scope[s]]
  /\ callers' = [s \in Script |-> IF s \in S THEN <<>> ELSE callers[s]]

\* The script executes within the function it is in, where a gosub may begin or
\* end.
Step(s) ==
  /\ scope'[s].code = scope[s].code
  /\ LET old == scope[s].gosubs IN
       scope'[s].gosubs \in {old, Append(old, scope[s].code), SubSeq(old, 1, Len(old) - 1)}
  /\ scope' = [scope EXCEPT ![s] = scope'[s]]
  /\ UNCHANGED callers

\* cleo_call; `not` tells whether the result is to be negated.
Call(s, code, args, not) ==
  /\ callers' = [callers EXCEPT ![s] = Append(@, [scope |-> scope[s], not |-> not])]
  /\ scope' = [scope EXCEPT ![s] = Entered(s, scope[s], code, args)]

\* Any of the return opcodes, with the result r.
Return(s, r) ==
  /\ callers[s] # <<>>
  /\ LET back == Term(Top(s).scope, r # Top(s).not) IN
     \/ scope' = [scope EXCEPT ![s] = back]
     \/ \E i, j \in 1..NumLocals :
          scope' = [scope EXCEPT ![s] = [back EXCEPT !.locals[j] = scope[s].locals[i]]]
  /\ callers' = [callers EXCEPT ![s] = SubSeq(@, 1, Len(@) - 1)]

StackInit == /\ scope = [s \in Script |-> Initial]
             /\ callers = [s \in Script |-> <<>>]

StackNext ==
  \/ \E S \in SUBSET Script : Reset(S)
  \/ \E s \in Script : Step(s)
  \/ \E s \in Script, code \in {Main} \cup Module, not \in BOOLEAN, n \in 0..NumLocals :
       \E args \in [1..n -> Val] : Call(s, code, args, not)
  \/ \E s \in Script, r \in BOOLEAN : Return(s, r)

StackSpec == StackInit /\ [][StackNext]_<<scope, callers>>
=============================================================================
