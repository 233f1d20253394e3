---- MODULE Proto2Assembler ----
(***************************************************************************)
(* The assembler of MS2Proto2 (src/assembler/assembler.c, main.c): one     *)
(* pass that emits the words of each function and notes where labels are   *)
(* used, and a second that turns the notes into jump offsets.              *)
(*                                                                         *)
(* A line is what process_line tells apart in it: the name a function      *)
(* definition gives, the name a label definition gives, and the tokens of  *)
(* the instruction.  Comments, spaces and the spelling of tokens are left  *)
(* out.                                                                    *)
(***************************************************************************)
EXTENDS Integers, SequencesExt
CONSTANTS MaxInt,         \* INT32_MAX
          ByteSize,       \* values of one byte of an instruction: 256 in the code
          MaxLabels,      \* MAX_LABELS, 256 in the code
          MaxRefs,        \* MAX_REFS, 256 in the code
          MaxFunctions    \* MAX_FUNCTIONS, 16 in the code
ASSUME Proto2Assumption == /\ ByteSize \in Nat \ {0} /\ ByteSize % 2 = 0
                           /\ {MaxLabels, MaxRefs, MaxFunctions} \subseteq Nat \ {0}
                           /\ MaxInt \in Nat

(***************************************************************************)
(* Values (src/types/nanbox.c, include/types/nanbox.h): null, 32-bit       *)
(* integers, doubles and strings in one word.  They are the records of     *)
(* Values, with the arithmetic of this prototype, which knows numbers      *)
(* alone.                                                                  *)
(***************************************************************************)
NoOrder(c) == 0   \* strings are compared for equality alone
V == INSTANCE Values WITH CharOrder <- NoOrder

Null == V!Null
make_int(i) == V!make_int(i)
is_int(v) == v.type = "int"
is_double(v) == v.type = "double"
is_number(v) == is_int(v) \/ is_double(v)
Ints(a, b) == is_int(a) /\ is_int(b)
Numbers(a, b) == is_number(a) /\ is_number(b)

\* Integers as long as 32 bits hold the result, then doubles; null for others.
value_add(a, b) == CASE Ints(a, b) -> V!Fit(a.n + b.n)
                     [] Numbers(a, b) /\ ~Ints(a, b) -> V!Plus(a, b)
                     [] ~Numbers(a, b) -> Null
value_sub(a, b) == CASE Ints(a, b) -> V!Fit(a.n - b.n)
                     [] Numbers(a, b) /\ ~Ints(a, b) -> V!Minus(a, b)
                     [] ~Numbers(a, b) -> Null
value_mult(a, b) == CASE Ints(a, b) -> V!Fit(a.n * b.n)
                      [] Numbers(a, b) /\ ~Ints(a, b) -> V!Times(a, b)
                      [] ~Numbers(a, b) -> Null
\* The quotient of integers is an integer; the divisor is not 0.
value_div(a, b) == CASE Ints(a, b) -> V!Fit(V!Quotient(a.n, b.n))
                     [] Numbers(a, b) /\ ~Ints(a, b) -> V!Over(a, b)
                     [] ~Numbers(a, b) -> Null

value_lt(a, b) == Numbers(a, b) /\ V!NumberLess(a, b)
value_equal(a, b) == \/ Numbers(a, b) /\ V!SameNumber(a, b)
                     \/ ~Numbers(a, b) /\ a = b

(***************************************************************************)
(* Instruction words.                                                      *)
(***************************************************************************)
Half == ByteSize * ByteSize   \* values of two bytes
Byte == 0 .. ByteSize - 1
Int8 == -(ByteSize \div 2) .. ByteSize \div 2 - 1
Int16 == -(Half \div 2) .. Half \div 2 - 1

INS_ABC(op, a, b, c) == [op |-> op, a |-> a, b |-> b, c |-> c]
INS_AB(op, a, bc) == INS_ABC(op, a, (bc % Half) \div ByteSize, bc % ByteSize)
INS(op) == INS_ABC(op, 0, 0, 0)
\* The two signed readings of the low bytes, and the unsigned one of BC.
C8(word) == IF word.c < ByteSize \div 2 THEN word.c ELSE word.c - ByteSize
Wide(word) == word.b * ByteSize + word.c
BC(word) == IF Wide(word) < Half \div 2 THEN Wide(word) ELSE Wide(word) - Half

(***************************************************************************)
(* Tokens: registers, integers, constants of other types, and words.  The  *)
(* n of a register or an integer is the number its text writes, of any     *)
(* size: strtol stops at the limits of 64 bits, and what is kept of its    *)
(* result is 32 bits (atoi, of registers, is such a strtol too).           *)
(***************************************************************************)
LongMax == V!IntCount * (MaxInt + 1) - 1
strtol(n) == CASE n > LongMax -> LongMax
               [] n < -LongMax - 1 -> -LongMax - 1
               [] OTHER -> n
number(t) == ((strtol(t.n) + MaxInt + 1) % V!IntCount) - MaxInt - 1

is_register(t) == t.kind = "reg" /\ number(t) \in Byte
is_immediate(t) == t.kind = "imm"
parse_constant(t) == IF is_immediate(t) THEN make_int(number(t)) ELSE t.value
IsConstant(t) == t.kind \in {"imm", "constant"}
parse_tokens(tokens) == SubSeq(tokens, 1, IF Len(tokens) < 4 THEN Len(tokens) ELSE 4)

(***************************************************************************)
(* The function being assembled.                                           *)
(***************************************************************************)
init_function(name) ==
  [name |-> name, is_main |-> name = "main", code |-> <<>>, labels |-> <<>>, refs |-> <<>>,
   constants |-> <<>>]

emit_instruction(f, word) == [f EXCEPT !.code = Append(@, word)]

\* The address of a label, -1 for none.
asm_find_label(f, name) ==
  LET i == SelectInSeq(f.labels, LAMBDA l : l.name = name)
  IN  IF i = 0 THEN -1 ELSE f.labels[i].address

\* A label that is there already moves to the new address.
asm_add_label(f, name, address) ==
  LET i == SelectInSeq(f.labels, LAMBDA l : l.name = name)
  IN  IF i # 0 THEN [f EXCEPT !.labels[i].address = address]
      ELSE [f EXCEPT !.labels = Append(@, [name |-> name, address |-> address])]

\* A full table drops the reference; no caller looks at the result.
asm_add_reference(f, name, isJump) ==
  IF Len(f.refs) >= MaxRefs THEN f
  ELSE [f EXCEPT !.refs =
          Append(@, [label |-> name, addr |-> Len(f.code), isJump |-> isJump])]

asm_find_constant_OfType(f, v) == SelectInSeq(f.constants, LAMBDA c : c.type = v.type)
asm_find_constant(f, v) == SelectInSeq(f.constants, LAMBDA c : value_equal(c, v))

\* LOADN of a constant, entered into the table unless an equal one is there.
EmitConstant(f, a, v) ==
  LET i == asm_find_constant(f, v)
  IN  IF i # 0 THEN emit_instruction(f, INS_AB("LOADN", a, i - 1))
      ELSE emit_instruction([f EXCEPT !.constants = Append(@, v)],
                            INS_AB("LOADN", a, Len(f.constants)))

Arithmetic == {"ADD", "SUB", "MULT", "DIV"}
Size(op) == CASE op \in {"MOVE", "LOADK", "LOAD", "LOADN"} -> 3
              [] op \in Arithmetic \union {"IFLT", "CALLF"} -> 4
              [] op = "JMP" -> 2
              [] OTHER -> 0
SmallInteger(t) == is_immediate(t) /\ number(t) \in Int16

\* Which lines asm_instruction takes, by the types and ranges of their operands.
Valid(t) ==
  LET op == t[1].text
  IN  \/ op = "RETURN"
      \/ /\ op \in Arithmetic \union {"MOVE", "LOADK", "LOAD", "LOADN", "IFLT", "JMP", "CALLF"}
         /\ Len(t) = Size(op)
         /\ op # "JMP" => is_register(t[2])
         /\ op \in {"MOVE", "IFLT"} \union Arithmetic => is_register(t[3])
         /\ op \in Arithmetic => is_register(t[4])
         /\ op = "LOADK" => SmallInteger(t[3])
         /\ op \in {"LOAD", "LOADN"} => IsConstant(t[3])
         /\ op = "IFLT" => (is_immediate(t[4]) => number(t[4]) \in Int8)
         /\ op = "JMP" => (is_immediate(t[2]) => number(t[2]) \in Int16)
         /\ op = "CALLF" => \A i \in 3 .. 4 : is_immediate(t[i]) /\ number(t[i]) \in Byte

\* The function f after a valid instruction.
Emitted(f, t) ==
  LET op == t[1].text
  IN  CASE op = "RETURN" -> emit_instruction(f, INS("RETURN"))
        [] op = "MOVE" -> emit_instruction(f, INS_ABC(op, number(t[2]), number(t[3]), 0))
        [] op \in Arithmetic -> emit_instruction(f, INS_ABC(op, number(t[2]), number(t[3]), number(t[4])))
        [] op = "LOADK" \/ (op = "LOAD" /\ SmallInteger(t[3])) ->
             emit_instruction(f, INS_AB("LOADK", number(t[2]), number(t[3])))
        [] op = "LOADN" \/ (op = "LOAD" /\ ~SmallInteger(t[3])) ->
             EmitConstant(f, number(t[2]), parse_constant(t[3]))
        [] op = "IFLT" ->
             LET to == t[4]
             IN  IF is_immediate(to)
                 THEN emit_instruction(f, INS_ABC(op, number(t[2]), number(t[3]), number(to) % ByteSize))
                 ELSE emit_instruction(asm_add_reference(f, to.text, FALSE),
                                       INS_ABC(op, number(t[2]), number(t[3]), 0))
        [] op = "JMP" ->
             IF is_immediate(t[2]) THEN emit_instruction(f, INS_AB(op, 0, number(t[2])))
             ELSE emit_instruction(asm_add_reference(f, t[2].text, TRUE), INS_AB(op, 0, 0))
        [] op = "CALLF" -> emit_instruction(f, INS_ABC(op, number(t[2]), number(t[3]), number(t[4])))

(***************************************************************************)
(* The assembler: the functions so far and the number of the open one, 0   *)
(* before the first.                                                       *)
(***************************************************************************)
asm_init == [functions |-> <<>>, current |-> 0]
Current(asm) == asm.functions[asm.current]
NeedsFunction == {"LOAD", "LOADN", "IFLT", "JMP"}

\* A constant whose index in the table would not fit the word.
ConstantRefused(f, t) ==
  /\ t[1].text = "LOADN" \/ (t[1].text = "LOAD" /\ ~SmallInteger(t[3]))
  /\ asm_find_constant(f, parse_constant(t[3])) = 0
  /\ Len(f.constants) >= Half

\* What stops the assembly at a line.
InstructionRefused(asm, t) ==
  /\ t # <<>>
  /\ \/ ~Valid(t)
     \/ asm.current = 0 /\ t[1].text \in NeedsFunction
     \/ asm.current # 0 /\ ConstantRefused(Current(asm), t)
LabelRefused(asm) == asm.current = 0 \/ Len(Current(asm).labels) >= MaxLabels
Refused(asm, line) ==
  IF line.function # "" THEN Len(asm.functions) >= MaxFunctions
  ELSE \/ line.label # "" /\ LabelRefused(asm)
       \/ InstructionRefused(asm, parse_tokens(line.tokens))

\* Outside any function the other instructions are reported, and dropped.
asm_instruction(asm, t) ==
  IF t = <<>> \/ asm.current = 0 THEN asm
  ELSE [asm EXCEPT !.functions[asm.current] = Emitted(@, t)]

asm_label(asm, name) ==
  IF name = "" THEN asm
  ELSE [asm EXCEPT !.functions[asm.current] = asm_add_label(@, name, Len(@.code))]

process_line(asm, line) ==
  IF line.function # ""
  THEN [functions |-> Append(asm.functions, init_function(line.function)),
        current |-> Len(asm.functions) + 1]
  ELSE asm_instruction(asm_label(asm, line.label), parse_tokens(line.tokens))

(***************************************************************************)
(* The second pass.                                                        *)
(***************************************************************************)
Offset_FromJump(f, ref) == asm_find_label(f, ref.label) - ref.addr
Offset(f, ref) == asm_find_label(f, ref.label) - (ref.addr + 1)
Resolvable(f, ref) ==
  /\ asm_find_label(f, ref.label) >= 0
  /\ Offset(f, ref) \in IF ref.isJump THEN Int16 ELSE Int8

Patched(f, ref) ==
  LET word == f.code[ref.addr + 1]
  IN  IF ref.isJump THEN INS_AB("JMP", 0, Offset(f, ref))
      ELSE INS_ABC("IFLT", word.a, word.b, Offset(f, ref) % ByteSize)

resolve_function_labels(f) ==
  [f EXCEPT !.code =
     [i \in DOMAIN f.code |->
        LET here == SelectInSeq(f.refs, LAMBDA r : r.addr = i - 1)
        IN  IF here = 0 THEN f.code[i] ELSE Patched(f, f.refs[here])]]

AllResolvable(asm) ==
  \A k \in DOMAIN asm.functions :
    \A i \in DOMAIN asm.functions[k].refs : Resolvable(asm.functions[k], asm.functions[k].refs[i])
asm_resolve_labels(asm) ==
  [asm EXCEPT !.functions = [k \in DOMAIN @ |-> resolve_function_labels(@[k])]]

asm_get_main_function(asm) == SelectInSeq(asm.functions, LAMBDA f : f.is_main)
\* The functions CALLF numbers: all but those named main, in their order.
Called(asm) == {k \in DOMAIN asm.functions : ~asm.functions[k].is_main}
CalledFunctions(asm) ==
  [i \in 1 .. Cardinality(Called(asm)) |->
     asm.functions[CHOOSE k \in Called(asm) : Cardinality({j \in Called(asm) : j <= k}) = i]]
====
