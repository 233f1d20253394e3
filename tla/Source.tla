---- MODULE Source ----
(***************************************************************************)
(* What an assembly program of MS2Proto3 says, with no instruction words,  *)
(* offsets or function indices: its functions, their instructions and      *)
(* labels, whether it is well formed, and what it does.  This is the       *)
(* abstract specification that the assembler and the VM together           *)
(* implement for well-formed programs.  Each instruction line of a         *)
(* function is a position of its own; operands have the values that are    *)
(* written, labels are positions.                                          *)
(***************************************************************************)
EXTENDS Program

CONSTANTS StackSize,     \* stack slots
          MaxCalls       \* call stack entries

VARIABLES
  source,    \* the lines of the program
  at,        \* <<function, position>> of the next instruction
  base,      \* the first stack slot of the running function
  stack,
  calls,     \* where to go on, and with which base, after each return
  status,    \* "running", "stopped", "error", "fault"
  result     \* what @main returned

vars == <<source, at, base, stack, calls, status, result>>

(***************************************************************************)
(* Functions, instructions and labels.                                     *)
(***************************************************************************)
FunctionOf(i) ==
  LET labels == {j \in 1 .. i : IsFunctionLabel(source[j])}
  IN  IF labels = {} THEN "@main" ELSE source[Max(labels)].func

FunctionLabels == {i \in DOMAIN source : IsFunctionLabel(source[i])}
DefinedFunctions == {source[i].func : i \in FunctionLabels}
ImplicitMain == \E i \in DOMAIN source : ~IsEmpty(source[i]) /\ \A j \in 1 .. i : j \notin FunctionLabels

IsInstruction(line) == ~IsFunctionLabel(line) /\ line.verb \notin {"", ".param"}
InstructionLines(f) ==
  InOrder({i \in DOMAIN source : FunctionOf(i) = f /\ IsInstruction(source[i])})
Instructions(f) == LET lines == InstructionLines(f) IN [k \in DOMAIN lines |-> source[lines[k]]]

\* The lines of a function that bear a label, and the position it stands for.
LabelLines(f, label) ==
  {i \in DOMAIN source : source[i].label = label /\ FunctionOf(i) = f /\ i \notin FunctionLabels}
Position(f, label) ==
  1 + Cardinality({i \in 1 .. Min(LabelLines(f, label)) - 1 :
                     FunctionOf(i) = f /\ IsInstruction(source[i])})

(***************************************************************************)
(* Well-formed programs: the operands of every instruction are of a kind   *)
(* it takes and within what its instruction word holds.                    *)
(***************************************************************************)
Register(t) == IsReg(t) /\ t.n \in 0 .. ByteSize - 1
Number(t, range) == t.t = "num" /\ t.n \in range
Negative(t) == t.s = "-"
Either(t, range) == Register(t) \/ Number(t, range)
NonNegative(range) == {n \in range : n >= 0}

\* Of the fractions with a sign those below 1 alone.
Fraction(t) ==
  t.t = "dec" /\ {t.n, t.frac} \subseteq SignedRange(2) /\ (Negative(t) => t.n = 0)

\* No line bears an empty label.
IsWord(t) == t.t = "word" /\ t.s # ""
Destination(f, k, t, range) ==
  \/ Number(t, range)
  \/ IsWord(t) /\ LabelLines(f, t.s) # {} /\ Position(f, t.s) - (k + 1) \in range

GoodOperands(f, k, verb, x) ==
  CASE verb \in {"NOOP", "RETURN"} -> TRUE
    [] verb = "LOAD" ->
         /\ Len(x) = 2 /\ Register(x[1])
         /\ Either(x[2], SignedRange(4)) \/ x[2].t = "text" \/ Fraction(x[2])
    [] verb \in Arithmetic \union {"INDEX", "IDXSET"} ->
         Len(x) = 3 /\ \A i \in 1 .. 3 : Register(x[i])
    [] verb \in Comparing ->
         /\ Len(x) = 3 /\ Register(x[1])
         /\ \A i \in 2 .. 3 : Either(x[i], NonNegative(SignedRange(1)))
         /\ \E i \in 2 .. 3 : Register(x[i])
         /\ verb \in {"EQ", "NE"} => Register(x[2])
    [] verb \in Skipping ->
         /\ Len(x) = 2 /\ \A i \in 1 .. 2 : Either(x[i], SignedRange(2))
         /\ \E i \in 1 .. 2 : Register(x[i])
         /\ verb \in {"IFEQ", "IFNE"} => Register(x[1])
    [] verb \in Branching ->
         /\ Len(x) = 3 /\ \A i \in 1 .. 2 : Either(x[i], SignedRange(1))
         /\ \E i \in 1 .. 2 : Register(x[i])
         /\ verb \in {"BREQ", "BRNE"} => Register(x[1])
         /\ Destination(f, k, x[3], SignedRange(1))
    [] verb \in {"BRTRUE", "BRFALSE"} ->
         Len(x) = 2 /\ Register(x[1]) /\ Destination(f, k, x[2], SignedRange(2))
    [] verb = "JUMP" -> Len(x) = 1 /\ Destination(f, k, x[1], SignedRange(3))
    [] verb = "CALLF" ->
         /\ Len(x) = 2 /\ Number(x[1], 0 .. ByteSize - 1)
         /\ x[2].t = "word" /\ x[2].s \in DefinedFunctions \union {"@main"}
    [] verb = "CALLFN" -> Len(x) = 2 /\ Number(x[1], 0 .. ByteSize - 1) /\ x[2].t = "text"
    [] verb = "ARG" -> Len(x) = 1 /\ Either(x[1], SignedRange(3))
    [] verb \in {"LOADV", "LOADC", "ASSIGN"} ->
         Len(x) = 3 /\ Register(x[1]) /\ Register(x[2]) /\ x[3].t = "text"
    [] verb = "NAME" -> Len(x) = 2 /\ Register(x[1]) /\ x[2].t = "text"
    [] verb = "FUNCREF" ->
         /\ Len(x) = 2 /\ Register(x[1])
         /\ x[2].t = "word" /\ x[2].s \in DefinedFunctions \union {"@main"}
    [] verb \in {"LIST", "MAP"} -> Len(x) = 2 /\ Register(x[1]) /\ Number(x[2], SignedRange(2))
    [] verb = "PUSH" -> Len(x) = 2 /\ Register(x[1]) /\ Register(x[2])
    [] verb \in {"LOCALS", "OUTER", "GLOBALS"} -> Len(x) = 1 /\ Register(x[1])
    [] verb = "CALL" -> Len(x) = 3 /\ \A i \in 1 .. 3 : Register(x[i])
    [] verb = "ARGBLK" -> Len(x) = 1 /\ Number(x[1], NonNegative(SignedRange(3)))
    [] OTHER -> FALSE

\* No function has a second body, and none is without lines of its own.
BodiesApart ==
  /\ ~(ImplicitMain /\ "@main" \in DefinedFunctions)
  /\ \A i \in FunctionLabels : i + 1 \notin FunctionLabels

WellFormed ==
  /\ \A f \in DefinedFunctions \union {"@main"} : LET code == Instructions(f) IN
       \A k \in DOMAIN code : GoodOperands(f, k, code[k].verb, code[k].args)
  /\ \A i, j \in FunctionLabels : source[i].func = source[j].func => i = j
  /\ BodiesApart
  /\ \A i \in DOMAIN source : source[i].verb # ".param"
  /\ Instructions("@main") # <<>>

(***************************************************************************)
(* Execution.                                                              *)
(***************************************************************************)
Code == Instructions(at[1])
Here == Code[at[2]]
Operands == Here.args

Written(t) ==
  LET v == t.scale * t.n + t.frac
  IN  make_double(IF Negative(t) THEN -v ELSE v, t.scale)
Value(t) ==
  CASE t.t = "reg" -> stack[base + t.n]
    [] t.t = "num" -> make_int(t.n)
    [] t.t = "dec" -> Written(t)
    [] t.t = "text" -> StringOf(t)

Go(k) == at' = <<at[1], k>>
Onwards == Go(at[2] + 1)
SetRegister(n, v) == stack' = [stack EXCEPT ![base + n] = v]

Nowhere == <<"", 0>>
Init ==
  /\ at = <<"@main", 1>> /\ base = 0 /\ calls = <<>> /\ result = Null
  /\ stack = [i \in 0 .. StackSize - 1 |-> Null]
  /\ status = "running"

\* The stack slots an instruction touches; one that is missing is a fault, as
\* are a function whose slots begin beyond the stack, division by the integer zero, a position before the first, and a return
\* from the deepest of calls.
Touched ==
  CASE Here.verb = "RETURN" -> {0}
    [] Here.verb = "CALLFN" -> {Operands[1].n}
    [] Here.verb \in {"NOOP", "ARG"} -> {}
    [] OTHER -> {Operands[i].n : i \in {j \in DOMAIN Operands : IsReg(Operands[j])}}
Faulty ==
  \/ at[2] < 1
  \/ at[2] \in DOMAIN Code /\
       (\/ base > StackSize
        \/ \E n \in Touched : base + n >= StackSize
        \/ Here.verb = "RETURN" /\ Len(calls) = MaxCalls
        \/ /\ Here.verb \in {"DIV", "MOD"}
           /\ is_int(Value(Operands[2])) /\ Value(Operands[3]) = make_int(0))

At(verbs) == status = "running" /\ ~Faulty /\ at[2] \in DOMAIN Code /\ Here.verb \in verbs

\* The program is over, one way or another.
Stop(how) == status' = how /\ at' = Nowhere /\ UNCHANGED <<base, calls>>

Fault == status = "running" /\ Faulty /\ Stop("fault") /\ UNCHANGED <<stack, result>>
FallOff ==
  status = "running" /\ at[2] > Len(Code) /\ Stop("stopped") /\ UNCHANGED <<stack, result>>

NoOperation ==
  At({"NOOP"}) /\ Onwards /\ UNCHANGED <<base, stack, calls, status, result>>

Assign ==
  /\ At({"LOAD"} \union Arithmetic \union Comparing)
  /\ SetRegister(Operands[1].n,
       CASE Here.verb = "LOAD" -> Value(Operands[2])
         [] Here.verb \in Arithmetic ->
              Calculate(Here.verb, Value(Operands[2]), Value(Operands[3]))
         [] OTHER ->
              make_int(IF Holds(Here.verb, Value(Operands[2]), Value(Operands[3])) THEN 1 ELSE 0))
  /\ Onwards
  /\ UNCHANGED <<base, calls, status, result>>

\* Where control goes from here: a label, a number of instructions, or on.
Taken ==
  CASE Here.verb = "JUMP" -> TRUE
    [] Here.verb = "BRTRUE" -> is_truthy(Value(Operands[1]))
    [] Here.verb = "BRFALSE" -> ~is_truthy(Value(Operands[1]))
    [] OTHER -> Holds(Here.verb, Value(Operands[1]), Value(Operands[2]))
Target(t) == IF t.t = "num" THEN at[2] + 1 + t.n ELSE Position(at[1], t.s)
Branch ==
  /\ At({"JUMP", "BRTRUE", "BRFALSE"} \union Branching \union Skipping)
  /\ Go(CASE Here.verb \in Skipping /\ ~Taken -> at[2] + 2
          [] Here.verb \notin Skipping /\ Taken -> Target(Last(Operands))
          [] OTHER -> at[2] + 1)
  /\ UNCHANGED <<base, stack, calls, status, result>>

Call ==
  /\ At({"CALLF"}) /\ Len(calls) < MaxCalls
  /\ calls' = Append(calls, [at |-> <<at[1], at[2] + 1>>, base |-> base])
  /\ base' = base + Operands[1].n
  /\ at' = <<Operands[2].s, 1>>
  /\ UNCHANGED <<stack, status, result>>

Library ==
  /\ At({"CALLFN"})
  /\ SetRegister(Operands[1].n, Intrinsic(Operands[2].s, stack[base + Operands[1].n]))
  /\ Onwards
  /\ UNCHANGED <<base, calls, status, result>>

Return ==
  /\ At({"RETURN"})
  /\ IF calls = <<>>
     THEN Stop("stopped") /\ result' = stack[base]
     ELSE /\ at' = Last(calls).at /\ base' = Last(calls).base /\ calls' = Front(calls)
          /\ UNCHANGED <<status, result>>
  /\ UNCHANGED stack

\* There are no containers here: indexing is an error, and so is an argument
\* outside of an argument block.
Fail ==
  /\ At({"INDEX", "IDXSET", "ARG"})
  /\ Stop("error")
  /\ IF Here.verb = "INDEX" THEN SetRegister(Operands[1].n, Null) ELSE UNCHANGED stack
  /\ UNCHANGED result

Next == /\ \/ Fault \/ FallOff \/ NoOperation \/ Assign \/ Branch \/ Call
           \/ Library \/ Return \/ Fail
        /\ UNCHANGED source

Spec == Init /\ [][Next]_vars
====
