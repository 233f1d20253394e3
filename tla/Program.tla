---- MODULE Program ----
(***************************************************************************)
(* Assembly programs of MS2Proto3, as the tokens of their lines.           *)
(*                                                                         *)
(* A line is a function label, or a label, an instruction or directive and *)
(* its operands, each of them possibly absent ("").  An operand is a token *)
(* of one kind: "reg" r5, "num" 42, "const" k3, "dec" -1.5, "text" "abc"   *)
(* and "word" for any other.  A "dec" has the digits in front of its point *)
(* (n), those behind it (frac), and ten to the number of the latter.       *)
(***************************************************************************)
EXTENDS Bytecode, SequencesExt, Values

Token == [t |-> "num", n |-> 0, frac |-> 0, scale |-> 1, s |-> ""]
Reg(n) == [Token EXCEPT !.t = "reg", !.n = n]
Num(n) == [Token EXCEPT !.n = n]
Ident(s) == [Token EXCEPT !.t = "word", !.s = s]
Text(s) == [Token EXCEPT !.t = "text", !.s = s]
ConstRef(n) == [Token EXCEPT !.t = "const", !.n = n]
Decimal(sign, n, frac, scale) ==
  [t |-> "dec", n |-> n, frac |-> frac, scale |-> scale, s |-> sign]

Line == [func |-> "", label |-> "", verb |-> "", args |-> <<>>]
FunctionLine(name) == [Line EXCEPT !.func = name]
Instr(verb, args) == [Line EXCEPT !.verb = verb, !.args = args]
Labelled(label, line) == [line EXCEPT !.label = label]

\* What the source is made of.  What stands behind a function label in its line
\* is ignored.
Tokens ==
  [t : {"reg", "num", "const", "dec", "text", "word"}, n : Int, frac : Int,
   scale : Nat \ {0}, s : STRING]
ProgramLines == [func : STRING, label : STRING, verb : STRING, args : Seq(Tokens)]

\* The numbers in a set, from the least on.
Nth(S, k) == CHOOSE i \in S : Cardinality({j \in S : j <= i}) = k
InOrder(S) == [k \in 1 .. Cardinality(S) |-> Nth(S, k)]

IsReg(t) == t.t = "reg"
StringOf(t) == make_string(IF t.s = "" THEN <<>> ELSE <<t.s>>)
IsFunctionLabel(line) == line.func # ""
IsEmpty(line) == line.func = "" /\ line.label = "" /\ line.verb = ""

Comparing == {"LT", "LE", "EQ", "NE"}
Branching == {"BRLT", "BRLE", "BREQ", "BRNE"}
Skipping == {"IFLT", "IFLE", "IFEQ", "IFNE"}

\* The relation a comparison, branch or skip tests, and arithmetic by name.
Holds(verb, a, b) ==
  CASE verb \in {"LT", "BRLT", "IFLT"} -> value_lt(a, b)
    [] verb \in {"LE", "BRLE", "IFLE"} -> value_le(a, b)
    [] verb \in {"EQ", "BREQ", "IFEQ"} -> value_equal(a, b)
    [] verb \in {"NE", "BRNE", "IFNE"} -> ~value_equal(a, b)

Calculate(verb, a, b) ==
  CASE verb = "ADD" -> value_add(a, b)
    [] verb = "SUB" -> value_sub(a, b)
    [] verb = "MULT" -> value_mult(a, b)
    [] verb = "DIV" -> value_div(a, b)
    [] verb = "MOD" -> value_mod(a, b)

\* DoIntrinsic: what a library function leaves in the slot of its argument,
\* which is no list or map here.  Input is not modelled.
Intrinsic(name, v) ==
  CASE name = "val" -> to_number(v)
    [] name = "remove" -> make_int(0)
    [] OTHER -> Null
====
