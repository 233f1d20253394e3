---- MODULE Bytecode ----
(***************************************************************************)
(* The instruction words of MS2Proto3 (cs/Bytecode.cs).  An opcode is the  *)
(* sequence of the parts of its name: its verb, then the fields it uses.   *)
(* A word is an opcode and 24 bits of operands, here one number of three   *)
(* bytes of ByteSize values each (256 in the code).                        *)
(***************************************************************************)
EXTENDS Integers, Sequences, FiniteSetsExt

CONSTANT ByteSize
ASSUME ByteSizeAssumption == ByteSize \in Nat /\ ByteSize >= 4 /\ ByteSize % 2 = 0

Arithmetic == {"ADD", "SUB", "MULT", "DIV", "MOD"}

Opcodes ==
  {<<"NOOP">>, <<"RETURN">>, <<"LOAD", "rA", "rB">>, <<"LOAD", "rA", "iBC">>,
   <<"LOAD", "rA", "kBC">>, <<"FUNCREF", "iA", "iBC">>, <<"NAME", "rA", "kBC">>,
   <<"PUSH", "rA", "rB">>, <<"JUMP", "iABC">>, <<"ARGBLK", "iABC">>, <<"ARG", "rA">>,
   <<"ARG", "iABC">>, <<"CALLF", "iA", "iBC">>, <<"CALLFN", "iA", "kBC">>}
  \union {<<m, "rA", "rB", "kC">> : m \in {"LOADV", "LOADC", "ASSIGN"}}
  \union {<<m, "rA", "rB", "rC">> :
            m \in Arithmetic \union {"INDEX", "IDXSET", "CALL", "LT", "LE", "EQ", "NE"}}
  \union {<<m, "rA", "iBC">> : m \in {"LIST", "MAP", "BRTRUE", "BRFALSE"}}
  \union {<<m, "rA">> : m \in {"LOCALS", "OUTER", "GLOBALS"}}
  \union {<<m, "rA", "rB", "iC">> :
            m \in {"LT", "LE", "EQ", "NE", "BRLT", "BRLE", "BREQ", "BRNE"}}
  \union {<<m, "rA", "iB", "rC">> : m \in {"LT", "LE"}}
  \union {<<m, "rA", "iB", "iC">> : m \in {"BRLT", "BRLE", "BREQ", "BRNE"}}
  \union {<<m, "iA", "rB", "iC">> : m \in {"BRLT", "BRLE"}}
  \union {<<m, "rA", "rB">> : m \in {"IFLT", "IFLE", "IFEQ", "IFNE"}}
  \union {<<m, "rA", "iBC">> : m \in {"IFLT", "IFLE", "IFEQ", "IFNE"}}
  \union {<<m, "iAB", "rC">> : m \in {"IFLT", "IFLE"}}

Verb(op) == op[1]
Fields(op) == Tail(op)

\* Where a field lies: how many bytes from the right, and how many it takes.
Place(field) ==
  CASE field \in {"rA", "iA"} -> <<2, 1>>
    [] field \in {"rB", "iB"} -> <<1, 1>>
    [] field \in {"rC", "iC", "kC"} -> <<0, 1>>
    [] field = "iAB" -> <<1, 2>>
    [] field \in {"iBC", "kBC"} -> <<0, 2>>
    [] field = "iABC" -> <<0, 3>>

\* The number of values of so many bytes.
Span(bytes) ==
  CASE bytes = 0 -> 1
    [] bytes = 1 -> ByteSize
    [] bytes = 2 -> ByteSize * ByteSize
    [] bytes = 3 -> ByteSize * ByteSize * ByteSize
    [] bytes = 4 -> ByteSize * ByteSize * ByteSize * ByteSize

\* Casts to unsigned and to signed integers of so many bytes.
Unsigned(n, bytes) == n % Span(bytes)
Signed(n, bytes) ==
  LET u == Unsigned(n, bytes) IN IF 2 * u < Span(bytes) THEN u ELSE u - Span(bytes)
SignedRange(bytes) == -(Span(bytes) \div 2) .. (Span(bytes) \div 2) - 1

\* INS, INS_A, INS_AB, INS_BC and INS_ABC: each operand shifted to its place.
INS(op, operands) ==
  [op |-> op,
   abc |-> MapThenSumSet(LAMBDA i : Unsigned(operands[i], Place(Fields(op)[i])[2])
                                      * Span(Place(Fields(op)[i])[1]),
                         DOMAIN operands)]

\* Au, Bu, Cu, ABu, BCu and ABCu; As, Bs, Cs, ABs, BCs and ABCs.
FieldU(word, field) ==
  Unsigned(word.abc \div Span(Place(field)[1]), Place(field)[2])
FieldS(word, field) == Signed(FieldU(word, field), Place(field)[2])

(***************************************************************************)
(* How the VM (cs/VM.cs) and the disassembler (cs/Disassembler.cs) read    *)
(* the i-th operand of a word.                                             *)
(***************************************************************************)
Immediate(field) == field \in {"iA", "iB", "iC", "iAB", "iBC", "iABC"}

VMReads(word, i) ==
  LET field    == Fields(word.op)[i]
      verb     == Verb(word.op)
      unsigned == {"CALLF"} \union (IF field = "iA" THEN {"CALLFN", "FUNCREF"} ELSE {})
  IN  IF Immediate(field) /\ verb \notin unsigned
      THEN FieldS(word, field)
      ELSE FieldU(word, field)

\* Mutant: the disassembler shows every operand with its sign.
Listed_Signed(word, i) == FieldS(word, Fields(word.op)[i])

Listed(word, i) ==
  LET field == Fields(word.op)[i]
      verb  == Verb(word.op)
      shownUnsigned == \/ Len(word.op) = 4
                       \/ verb = "FUNCREF" /\ field = "iA"
                       \/ ~Immediate(field) /\ verb # "CALLFN"
  IN  IF shownUnsigned
      THEN FieldU(word, field)
      ELSE FieldS(word, field)
====
