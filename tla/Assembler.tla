---- MODULE Assembler ----
(***************************************************************************)
(* The assembler of MS2Proto3 (cs/Assembler.cs): source lines into the     *)
(* code, constants and register count of each function.  Where the code    *)
(* parses a token into a number the model has the set of that number,      *)
(* empty for a token it rejects.                                           *)
(***************************************************************************)
EXTENDS Program

ASSUME WordAssumption == 2 * (MaxInt + 1) = Span(4)

VARIABLES
  source,      \* the lines
  stage,       \* "source", "assembling", "assembled"; and the host's stages
  functions,   \* Functions
  lineNum,     \* the next line Assemble looks at
  hasError     \* HasError

assemblerVars == <<source, stage, functions, lineNum, hasError>>

Function(name) ==
  [name |-> name, code |-> <<>>, constants |-> <<>>, params |-> <<>>, maxRegs |-> 0]

(***************************************************************************)
(* Parsing operands.                                                       *)
(***************************************************************************)
NumberIn(t, range) == IF t.t = "num" /\ t.n \in range THEN {t.n} ELSE {}

ParseByte(t) == NumberIn(t, 0 .. ByteSize - 1)
ParseInt16(t) == NumberIn(t, SignedRange(2))
ParseInt24(t) == NumberIn(t, -(Span(3) - 1) .. Span(3) - 1)
ParseInt32(t) == NumberIn(t, SignedRange(4))

\* (Byte)ParseInt16
LowByte(t) == {Unsigned(n, 1) : n \in ParseInt16(t)}
ParseRegister(t) == IF IsReg(t) THEN LowByte([t EXCEPT !.t = "num"]) ELSE {}

\* ParseDouble: both parts as ParseInt16 takes them, the sign with the whole part
\* and again at the end.
ParseDouble(t) ==
  LET whole == IF t.s = "-" THEN -t.n ELSE t.n
      value == t.scale * whole + t.frac
  IN  IF {whole, t.frac} \subseteq SignedRange(2)
      THEN {make_double(IF t.s = "-" THEN -value ELSE value, t.scale)} ELSE {}

ParseAsConstant(t) ==
  CASE t.t = "text" -> {StringOf(t)}
    [] t.t = "dec" -> ParseDouble(t)
    [] OTHER -> {make_int(n) : n \in ParseInt32(t)}

NeedsConstant(t) ==
  \/ t.t \in {"text", "dec"}
  \/ t.t = "num" /\ t.n \notin SignedRange(2)

\* AddConstant: the index of a constant, new ones at the end.
IndexOf(constants, c) ==
  IF Contains(constants, c)
  THEN SelectInSeq(constants, LAMBDA k : k = c) - 1
  ELSE Len(constants)

ConstantIndex(f, t) == {IndexOf(f.constants, c) : c \in ParseAsConstant(t)}
NameIndex(f, t, range) ==
  IF t.t = "text" THEN ConstantIndex(f, t) \intersect range ELSE {}

FindFunctionIndex(name) ==
  SelectInSeq(functions, LAMBDA f : f.name = name) - 1

\* FindLabelAddress: the first of the labels of that name.
FindLabelAddress(labels, t) ==
  LET found == {l \in labels : l[1] = t.s /\ t.t = "word"}
  IN  IF found = {} THEN {} ELSE {Min({l[2] : l \in found})}

\* Mutant: relative to the jump itself, not to the instruction behind it.
Offset_FromJump(f, labels, t, number) ==
  LET address == FindLabelAddress(labels, t)
  IN  IF address # {} THEN {a - Len(f.code) : a \in address} ELSE number

\* The operand of a jump: to a label, or a number of instructions.
Offset(f, labels, t, number) ==
  LET address == FindLabelAddress(labels, t)
  IN  IF address # {} THEN {a - (Len(f.code) + 1) : a \in address} ELSE number

(***************************************************************************)
(* The formats of AddLine: the opcode a verb and its operands stand for.   *)
(***************************************************************************)
Pick(t, reg, immediate) == IF IsReg(t) THEN reg ELSE immediate

DataForm(verb, x) ==
  CASE verb = "LOAD" ->
         <<verb, "rA", IF IsReg(x[2]) THEN "rB"
                       ELSE IF x[2].t = "const" \/ NeedsConstant(x[2]) THEN "kBC" ELSE "iBC">>
    [] verb \in {"LOADV", "LOADC", "ASSIGN"} -> <<verb, "rA", "rB", "kC">>
    [] verb = "FUNCREF" -> <<verb, "iA", "iBC">>
    [] verb = "NAME" -> <<verb, "rA", "kBC">>

ArithmeticForm(verb) == <<verb, "rA", "rB", "rC">>

ContainerForm(verb) ==
  CASE verb \in {"LIST", "MAP"} -> <<verb, "rA", "iBC">>
    [] verb = "PUSH" -> <<verb, "rA", "rB">>
    [] verb \in {"INDEX", "IDXSET"} -> <<verb, "rA", "rB", "rC">>
    [] verb \in {"LOCALS", "OUTER", "GLOBALS"} -> <<verb, "rA">>

CompareForm(verb, x) ==
  LET second == IF verb \in {"LT", "LE"} /\ IsReg(x[3]) THEN Pick(x[2], "rB", "iB") ELSE "rB"
  IN  <<verb, "rA", second, Pick(x[3], "rC", "iC")>>

BranchForm(verb, x) ==
  CASE verb \in {"BRTRUE", "BRFALSE"} -> <<verb, "rA", "iBC">>
    [] verb \in {"BRLT", "BRLE"} ->
         IF IsReg(x[2]) THEN <<verb, Pick(x[1], "rA", "iA"), "rB", "iC">>
                        ELSE <<verb, "rA", "iB", "iC">>
    [] verb \in {"BREQ", "BRNE"} -> <<verb, "rA", Pick(x[2], "rB", "iB"), "iC">>

IfForm(verb, x) ==
  IF verb \in {"IFLT", "IFLE"} /\ IsReg(x[2]) /\ ~IsReg(x[1])
  THEN <<verb, "iAB", "rC">>
  ELSE <<verb, "rA", Pick(x[2], "rB", "iBC")>>

CallForm(verb, x) ==
  CASE verb = "ARGBLK" -> <<verb, "iABC">>
    [] verb = "ARG" -> <<verb, Pick(x[1], "rA", "iABC")>>
    [] verb = "CALLF" -> <<verb, "iA", "iBC">>
    [] verb = "CALLFN" -> <<verb, "iA", "kBC">>
    [] verb = "CALL" -> <<verb, "rA", "rB", "rC">>

Form(verb, x) ==
  CASE verb \in {"NOOP", "RETURN"} -> <<verb>>
    [] verb = "JUMP" -> <<verb, "iABC">>
    [] verb \in {"LOAD", "LOADV", "LOADC", "ASSIGN", "FUNCREF", "NAME"} -> DataForm(verb, x)
    [] verb \in Arithmetic -> ArithmeticForm(verb)
    [] verb \in {"LIST", "MAP", "PUSH", "INDEX", "IDXSET", "LOCALS", "OUTER", "GLOBALS"} ->
         ContainerForm(verb)
    [] verb \in Comparing -> CompareForm(verb, x)
    [] verb \in Branching \union {"BRTRUE", "BRFALSE"} -> BranchForm(verb, x)
    [] verb \in Skipping -> IfForm(verb, x)
    [] OTHER -> CallForm(verb, x)

\* How many operands a verb takes; NOOP and RETURN ignore any they are given.
Verbs == {Verb(op) : op \in Opcodes}
Arity(verb) == Len(CHOOSE op \in Opcodes : Verb(op) = verb) - 1

\* The number that goes into the i-th field of the opcode.
ParseOperand(f, labels, op, i, t) ==
  LET verb  == Verb(op)
      field == Fields(op)[i]
  IN  IF field \in {"rA", "rB", "rC"} \/ (verb = "FUNCREF" /\ i = 1) THEN ParseRegister(t)
      ELSE CASE field = "kC" -> NameIndex(f, t, 0 .. ByteSize - 1)
             [] verb = "NAME" -> NameIndex(f, t, 0 .. Span(2) - 1)
             [] verb = "CALLFN" /\ i = 2 -> NameIndex(f, t, Nat)
             [] verb = "LOAD" /\ t.t = "const" -> ParseInt16([t EXCEPT !.t = "num"])
             [] verb = "LOAD" /\ t.t # "const" /\ field = "kBC" -> ConstantIndex(f, t)
             [] verb = "JUMP" -> Offset(f, labels, t, ParseInt24(t))
             [] verb \in {"BRTRUE", "BRFALSE"} ->
                  Offset(f, labels, t, ParseInt32(t)) \intersect SignedRange(2)
             [] verb \in Branching /\ i = 3 ->
                  Offset(f, labels, t, ParseInt32(t)) \intersect SignedRange(1)
             [] \/ verb \in Branching /\ i < 3
                \/ verb \in {"CALLF", "CALLFN"} /\ i = 1 -> LowByte(t)
             [] verb \in Comparing -> ParseByte(t)
             [] verb = "ARGBLK" -> ParseInt32(t) \intersect 0 .. Span(3) - 1
             [] verb = "ARG" -> ParseInt32(t) \intersect -(Span(3) - 1) .. Span(3) - 1
             [] verb = "CALLF" /\ i = 2 -> {FindFunctionIndex(t.s)} \intersect Nat
             [] verb = "FUNCREF" -> {FindFunctionIndex(t.s)}
             [] OTHER -> ParseInt16(t)

\* Mutant: LOCALS reserves nothing.
Reserving_NotLocals ==
  Arithmetic \union Comparing \union
  {"LOAD", "LOADV", "LOADC", "FUNCREF", "ASSIGN", "NAME", "LIST", "MAP", "INDEX",
   "OUTER", "GLOBALS", "CALL"}

\* The verbs whose first operand is reserved (ReserveRegister).
Reserving ==
  Arithmetic \union Comparing \union
  {"LOAD", "LOADV", "LOADC", "FUNCREF", "ASSIGN", "NAME", "LIST", "MAP", "INDEX",
   "LOCALS", "OUTER", "GLOBALS", "CALL"}

ReserveRegister(maxRegs, n) == IF maxRegs < n + 1 THEN n + 1 ELSE maxRegs

NewConstants(f, op, x) ==
  {c \in UNION {ParseAsConstant(x[i]) :
                  i \in {j \in DOMAIN x : Fields(op)[j] \in {"kC", "kBC"} /\ x[j].t # "const"}} :
     ~Contains(f.constants, c)}

Emit(f, op, x, operands) ==
  [f EXCEPT !.code = Append(@, INS(op, operands)),
            !.constants = @ \o SetToSeq(NewConstants(f, op, x)),
            !.maxRegs = IF Verb(op) \in Reserving THEN ReserveRegister(@, operands[1]) ELSE @]

\* A .param directive: a name, and a default value or none.
AddParam(f, x) ==
  CASE x = <<>> -> {}
    [] Len(x) = 1 -> {[f EXCEPT !.params = Append(@, Null)]}
    [] Len(x) > 1 -> {[f EXCEPT !.params = Append(@, c)] : c \in ParseAsConstant(x[2])}

\* The operands of an instruction, parsed, and the word they make.
Parsed(f, labels, op, x) == [i \in DOMAIN x |-> ParseOperand(f, labels, op, i, x[i])]
Chosen(parsed) == [i \in DOMAIN parsed |-> CHOOSE n \in parsed[i] : TRUE]

AddInstruction(f, labels, verb, x) ==
  IF Len(x) # Arity(verb) THEN {}
  ELSE LET op     == Form(verb, x)
           parsed == Parsed(f, labels, op, x)
       IN  IF \E i \in DOMAIN x : parsed[i] = {} THEN {}
           ELSE {Emit(f, op, x, Chosen(parsed))}

\* AddLine: what the line makes of the function, nothing if it is in error.
AddLine(f, labels, line) ==
  LET verb == line.verb
      x    == IF verb \in {"NOOP", "RETURN"} THEN <<>> ELSE line.args
  IN  CASE verb = "" -> {f}
        [] verb = ".param" -> AddParam(f, x)
        [] verb \in Verbs -> AddInstruction(f, labels, verb, x)
        [] OTHER -> {}

(***************************************************************************)
(* AssembleFunction: the lines of a function, its labels, and its code.    *)
(***************************************************************************)
\* Where the body of the function that starts at a line begins and ends.
StartLine(start) ==
  Min({i \in start .. Len(source) + 1 : i <= Len(source) => ~IsFunctionLabel(source[i])})
EndLine(start) ==
  Min({i \in StartLine(start) .. Len(source) + 1 :
         i <= Len(source) => IsFunctionLabel(source[i])})

\* First pass: each label with the number of instructions above it.
Labels(first, end) ==
  {<<source[i].label, Cardinality({j \in first .. i - 1 : source[j].verb # ""})>> :
     i \in {k \in first .. end - 1 : source[k].label # ""}}

\* Second pass.
Body(name, labels, first, end) ==
  LET built[n \in first - 1 .. end - 1] ==
        IF n < first THEN {Function(name)}
        ELSE UNION {AddLine(f, labels, source[n]) : f \in built[n - 1]}
  IN  built[end - 1]

(***************************************************************************)
(* Assemble, one action per function.                                      *)
(***************************************************************************)
\* The function names in the order of their labels, and @main if it has none.
FunctionNames ==
  LET labels == InOrder({i \in DOMAIN source : IsFunctionLabel(source[i])})
      found  == [k \in DOMAIN labels |-> source[labels[k]].func]
  IN  IF Contains(found, "@main") THEN found ELSE Append(found, "@main")

\* Assemble gives up on a function defined twice, with no error.
CollectFunctions ==
  /\ stage = "source"
  /\ LET names == FunctionNames
         twice == {i \in DOMAIN names : \E j \in 1 .. i - 1 : names[j] = names[i]}
         kept  == IF twice = {} THEN names ELSE SubSeq(names, 1, Min(twice) - 1)
     IN  /\ functions' = [i \in DOMAIN kept |-> Function(kept[i])]
         /\ stage' = IF twice = {} THEN "assembling" ELSE "assembled"
  /\ UNCHANGED <<source, lineNum, hasError>>

SkipEmptyLine ==
  /\ stage = "assembling" /\ ~hasError
  /\ lineNum <= Len(source) /\ IsEmpty(source[lineNum])
  /\ lineNum' = lineNum + 1
  /\ UNCHANGED <<source, stage, functions, hasError>>

AssembleFunction ==
  /\ stage = "assembling" /\ ~hasError
  /\ lineNum <= Len(source) /\ ~IsEmpty(source[lineNum])
  /\ LET first  == StartLine(lineNum)
         end    == EndLine(lineNum)
         name   == IF IsFunctionLabel(source[lineNum]) THEN source[lineNum].func ELSE "@main"
         built  == Body(name, Labels(first, end), first, end)
     IN  /\ hasError' = (built = {})
         /\ functions' = IF built = {} THEN functions
                         ELSE [functions EXCEPT ![FindFunctionIndex(name) + 1] =
                                 CHOOSE f \in built : TRUE]
         /\ lineNum' = end
  /\ UNCHANGED <<source, stage>>

FinishAssembly ==
  /\ stage = "assembling" /\ (hasError \/ lineNum > Len(source))
  /\ stage' = "assembled"
  /\ UNCHANGED <<source, functions, lineNum, hasError>>

Assemble == CollectFunctions \/ SkipEmptyLine \/ AssembleFunction \/ FinishAssembly

AssemblerInit(sources) ==
  /\ source \in sources
  /\ stage = "source"
  /\ functions = <<>>
  /\ lineNum = 1
  /\ hasError = FALSE
====
