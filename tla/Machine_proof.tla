---- MODULE Machine_proof ----
(***************************************************************************)
(* What the assembler promises to the VM: an instruction word keeps every  *)
(* operand that is packed into it, and no function writes a register       *)
(* beyond those it reserves; and what it promises to a reader: a program   *)
(* is listed as it was written, and fails where it is said to.             *)
(*                                                                         *)
(* The argument follows the assembler from the bytes of a word up to a     *)
(* whole program: bytes, words, opcodes, operands that are parsed, what a  *)
(* line adds to a function, the body of a function, the program.  The      *)
(* second half goes the same way again with what each of them means, and   *)
(* then follows the machine to the report of an error.                     *)
(***************************************************************************)
EXTENDS Machine, TLAPS, FiniteSetTheorems, WellFoundedInduction, SequenceTheorems

-----------------------------------------------------------------------------
(* Bytes.                                                                  *)

LEMMA ByteFacts ==
  /\ ByteSize \in Nat /\ ByteSize >= 4
  /\ \E h \in Nat : h >= 2 /\ ByteSize = 2 * h
BY ByteSizeAssumption

\* The number of values of k bytes is positive and even, but for no bytes.
LEMMA SpanFacts ==
  /\ Span(0) = 1 /\ Span(1) = ByteSize
  /\ Span(2) = ByteSize * ByteSize /\ Span(3) = ByteSize * ByteSize * ByteSize
  /\ \A k \in 0 .. 3 : Span(k) \in Nat /\ Span(k) > 0
BY ByteFacts DEF Span

LEMMA SpanEven ==
  ASSUME NEW k \in 1 .. 3
  PROVE  \E h \in Nat : h > 0 /\ Span(k) = 2 * h /\ Span(k) \div 2 = h
<1>1. PICK h \in Nat : h >= 2 /\ ByteSize = 2 * h
  BY ByteFacts
<1>2. ASSUME NEW g \in Nat, g > 0, Span(k) = 2 * g
      PROVE  \E e \in Nat : e > 0 /\ Span(k) = 2 * e /\ Span(k) \div 2 = e
  BY <1>2
<1>3. CASE k = 1
  BY <1>1, <1>2, <1>3 DEF Span
<1>4. CASE k = 2
  <2>1. Span(k) = 2 * (h * (2 * h)) /\ h * (2 * h) \in Nat /\ h * (2 * h) > 0
    BY <1>1, <1>4 DEF Span
  <2> QED BY <1>2, <2>1
<1>5. CASE k = 3
  <2>1. Span(k) = 2 * (h * (2 * h) * (2 * h)) /\ h * (2 * h) * (2 * h) \in Nat
    BY <1>1, <1>5 DEF Span
  <2>2. h * (2 * h) * (2 * h) > 0
    <3>1. h * (2 * h) > 0 /\ h * (2 * h) \in Nat
      BY <1>1
    <3>2. 2 * h > 0 /\ 2 * h \in Nat
      BY <1>1
    <3> QED BY <3>1, <3>2
  <2> QED BY <1>2, <2>1, <2>2
<1> QED BY <1>3, <1>4, <1>5

Joined(a, d, r) == a * d + r

\* Of a number put together from two, each is got back.
LEMMA JoinedParts ==
  ASSUME NEW a \in Nat, NEW d \in Nat, d > 0, NEW r \in 0 .. d - 1
  PROVE  Joined(a, d, r) \in Nat /\ Joined(a, d, r) \div d = a /\ Joined(a, d, r) % d = r
<1>1. a * d \in Nat
  OBVIOUS
<1> QED BY <1>1 DEF Joined

LEMMA OverOne == ASSUME NEW n \in Nat PROVE n \div 1 = n
OBVIOUS

LEMMA ProductType == ASSUME NEW a \in Nat, NEW b \in Nat PROVE a * b \in Nat
OBVIOUS

LEMMA UnsignedType ==
  ASSUME NEW n \in Int, NEW k \in 0 .. 3
  PROVE  Unsigned(n, k) \in 0 .. Span(k) - 1
BY SpanFacts DEF Unsigned

LEMMA UnsignedKeeps ==
  ASSUME NEW k \in 0 .. 3, NEW n \in 0 .. Span(k) - 1
  PROVE  Unsigned(n, k) = n
BY SpanFacts DEF Unsigned

\* A number that fits into so many bytes with its sign is read as it was packed.
LEMMA SignedKeeps ==
  ASSUME NEW k \in 1 .. 3, NEW n \in SignedRange(k)
  PROVE  Signed(Unsigned(n, k), k) = n
<1>1. PICK h \in Nat : h > 0 /\ Span(k) = 2 * h /\ Span(k) \div 2 = h
  BY SpanEven
<1>2. n \in -h .. h - 1
  BY <1>1 DEF SignedRange
<1>3. CASE n >= 0
  <2>1. Unsigned(n, k) = n
    BY <1>1, <1>2, <1>3, UnsignedKeeps
  <2> QED BY <1>1, <1>2, <1>3, <2>1 DEF Signed
<1>4. CASE n < 0
  <2>1. Unsigned(n, k) = n + 2 * h
    BY <1>1, <1>2, <1>4 DEF Unsigned
  <2>2. Unsigned(n + 2 * h, k) = n + 2 * h
    BY <1>1, <1>2, <1>4, UnsignedKeeps
  <2> QED BY <1>1, <1>2, <1>4, <2>1, <2>2 DEF Signed
<1> QED BY <1>2, <1>3, <1>4

-----------------------------------------------------------------------------
(* Instruction words.                                                      *)

\* What an operand adds to a word.
Part(op, operands, i) ==
  Unsigned(operands[i], Place(Fields(op)[i])[2]) * Span(Place(Fields(op)[i])[1])

\* The sum over at most three operands, in whatever order it is taken.
LEMMA WordSum ==
  ASSUME NEW op, NEW operands, NEW n \in 0 .. 3, DOMAIN operands = 1 .. n,
         \A i \in 1 .. n : Part(op, operands, i) \in Int
  PROVE  INS(op, operands).abc =
           (IF n >= 1 THEN Part(op, operands, 1) ELSE 0)
             + (IF n >= 2 THEN Part(op, operands, 2) ELSE 0)
             + (IF n >= 3 THEN Part(op, operands, 3) ELSE 0)
<1> DEFINE D == 1 .. n
           c(s) == CHOOSE x \in s : TRUE
           Sums(h) == h = [s \in SUBSET D |-> IF s = {} THEN 0
                             ELSE Part(op, operands, c(s)) + h[s \ {c(s)}]]
           iter == CHOOSE h : Sums(h)
           p(i) == IF i \in D THEN Part(op, operands, i) ELSE 0
           whole == [s \in SUBSET D |-> (IF 1 \in s THEN p(1) ELSE 0)
                        + (IF 2 \in s THEN p(2) ELSE 0) + (IF 3 \in s THEN p(3) ELSE 0)]
<1>1. INS(op, operands).abc = iter[D]
  BY DEF INS, MapThenSumSet, MapThenFoldSet, Part
<1>2. D \subseteq {1, 2, 3} /\ \A i \in {1, 2, 3} : p(i) \in Int
  OBVIOUS
<1>3. ASSUME NEW s \in SUBSET D, s # {}
      PROVE  c(s) \in s /\ s \ {c(s)} \in SUBSET D
  BY <1>3
<1>4. Sums(whole)
  <2>1. ASSUME NEW s \in SUBSET D, s # {}
        PROVE  whole[s] = Part(op, operands, c(s)) + whole[s \ {c(s)}]
    <3>1. PICK x : x = c(s)
      OBVIOUS
    <3>2. x \in s /\ x \in {1, 2, 3} /\ x \in D /\ s \ {x} \in SUBSET D
      BY <1>2, <1>3, <2>1, <3>1
    <3>3. p(x) = Part(op, operands, x)
      BY <3>2
    <3> HIDE DEF D, c, p
    <3>4. whole[s] = p(x) + whole[s \ {x}]
      BY <1>2, <3>2
    <3> QED BY <3>1, <3>3, <3>4
  <2>2. whole[{}] = 0
    OBVIOUS
  <2>3. ASSUME NEW s \in SUBSET D
        PROVE  whole[s] = IF s = {} THEN 0 ELSE Part(op, operands, c(s)) + whole[s \ {c(s)}]
    <3> HIDE DEF whole, c, D
    <3> QED BY <2>1, <2>2
  <2>4. whole = [s \in SUBSET D |-> whole[s]]
    OBVIOUS
  <2> HIDE DEF whole, c, D
  <2> QED BY <2>3, <2>4
<1>5. Sums(iter)
  <2> HIDE DEF Sums, whole
  <2> QED BY <1>4
<1>6. iter[{}] = 0
  BY <1>5
<1>7. ASSUME NEW s \in SUBSET D, s # {}, \A x \in s : iter[s \ {x}] = whole[s \ {x}]
      PROVE  iter[s] = whole[s]
  <2>1. iter[s] = Part(op, operands, c(s)) + iter[s \ {c(s)}]
    <3> HIDE DEF iter, c, D
    <3> QED BY <1>5, <1>7
  <2>2. whole[s] = Part(op, operands, c(s)) + whole[s \ {c(s)}]
    <3> HIDE DEF whole, c, D
    <3> QED BY <1>4, <1>7
  <2> HIDE DEF iter, c, D, whole
  <2> QED BY <1>3, <1>7, <2>1, <2>2
<1>8. whole[{}] = 0
  OBVIOUS
<1>9. \A x \in D : iter[{x}] = whole[{x}]
  <2> TAKE x \in D
  <2>1. {x} \ {x} = {} /\ {x} \in SUBSET D /\ {x} # {}
    OBVIOUS
  <2>2. \A y \in {x} : iter[{x} \ {y}] = whole[{x} \ {y}]
    <3> HIDE DEF iter, whole, D
    <3> QED BY <2>1, <1>6, <1>8
  <2> HIDE DEF iter, whole, D
  <2> QED BY <1>7, <2>1, <2>2
<1>10. \A x, y \in D : iter[{x, y}] = whole[{x, y}]
  <2> TAKE x, y \in D
  <2>1. CASE x = y
    <3>1. {x, y} = {x}
      BY <2>1
    <3> HIDE DEF iter, whole, D
    <3> QED BY <1>9, <3>1
  <2>2. CASE x # y
    <3>1. {x, y} \ {x} = {y} /\ {x, y} \ {y} = {x} /\ {x, y} \in SUBSET D /\ {x, y} # {}
      BY <2>2
    <3> HIDE DEF iter, whole, D
    <3>2. \A z \in {x, y} : iter[{x, y} \ {z}] = whole[{x, y} \ {z}]
      BY <3>1, <1>9
    <3> QED BY <1>7, <3>1, <3>2
  <2> QED BY <2>1, <2>2
<1>11. iter[D] = whole[D]
  <2>1. CASE n = 0
    <3>1. D = {}
      BY <2>1
    <3> HIDE DEF iter, whole, D
    <3> QED BY <3>1, <1>6, <1>8
  <2>2. CASE n = 1
    <3>1. D = {1} /\ 1 \in D
      BY <2>2
    <3> HIDE DEF iter, whole, D
    <3> QED BY <3>1, <1>9
  <2>3. CASE n = 2
    <3>1. D = {1, 2} /\ 1 \in D /\ 2 \in D
      BY <2>3
    <3> HIDE DEF iter, whole, D
    <3> QED BY <3>1, <1>10
  <2>4. CASE n = 3
    <3>1. D = {1, 2, 3} /\ {1, 2, 3} \ {1} = {2, 3} /\ {1, 2, 3} \ {2} = {1, 3}
          /\ {1, 2, 3} \ {3} = {1, 2} /\ {1, 2, 3} \in SUBSET D /\ {1, 2, 3} # {}
          /\ 1 \in D /\ 2 \in D /\ 3 \in D
      BY <2>4
    <3> HIDE DEF iter, whole, D
    <3>2. \A x \in {1, 2, 3} : iter[{1, 2, 3} \ {x}] = whole[{1, 2, 3} \ {x}]
      <4>1. /\ iter[{2, 3}] = whole[{2, 3}] /\ iter[{1, 3}] = whole[{1, 3}]
            /\ iter[{1, 2}] = whole[{1, 2}]
        BY <3>1, <1>10
      <4> QED BY <3>1, <4>1
    <3> QED BY <1>7, <3>1, <3>2
  <2> QED BY <2>1, <2>2, <2>3, <2>4
<1>12. whole[D] = (IF n >= 1 THEN p(1) ELSE 0) + (IF n >= 2 THEN p(2) ELSE 0)
                    + (IF n >= 3 THEN p(3) ELSE 0)
  OBVIOUS
<1>13. /\ n >= 1 => p(1) = Part(op, operands, 1)
       /\ n >= 2 => p(2) = Part(op, operands, 2)
       /\ n >= 3 => p(3) = Part(op, operands, 3)
  OBVIOUS
<1> HIDE DEF iter, whole, p
<1> QED BY <1>1, <1>11, <1>12, <1>13

\* Where the operands of an opcode lie.
Laid(op, places) ==
  Len(op) = Len(places) + 1 /\ \A i \in 2 .. Len(op) : Place(op[i]) = places[i - 1]

Layouts == {<<>>, << <<2, 1>> >>, << <<0, 3>> >>, << <<2, 1>>, <<1, 1>> >>, << <<2, 1>>, <<0, 2>> >>,
            << <<1, 2>>, <<0, 1>> >>, << <<2, 1>>, <<1, 1>>, <<0, 1>> >>}

LEMMA Laid0 == ASSUME NEW v PROVE Laid(<<v>>, <<>>)
BY DEF Laid
LEMMA Laid1 ==
  ASSUME NEW v, NEW a
  PROVE  /\ a \in {"rA", "iA"} => Laid(<<v, a>>, << <<2, 1>> >>)
         /\ a = "iABC" => Laid(<<v, a>>, << <<0, 3>> >>)
BY DEF Laid, Place
LEMMA Laid2 ==
  ASSUME NEW v, NEW a, NEW b
  PROVE  /\ a \in {"rA", "iA"} /\ b \in {"rB", "iB"} => Laid(<<v, a, b>>, << <<2, 1>>, <<1, 1>> >>)
         /\ a \in {"rA", "iA"} /\ b \in {"iBC", "kBC"} => Laid(<<v, a, b>>, << <<2, 1>>, <<0, 2>> >>)
         /\ a = "iAB" /\ b = "rC" => Laid(<<v, a, b>>, << <<1, 2>>, <<0, 1>> >>)
BY DEF Laid, Place
LEMMA Laid3 ==
  ASSUME NEW v, NEW a, NEW b, NEW c
  PROVE  a \in {"rA", "iA"} /\ b \in {"rB", "iB"} /\ c \in {"rC", "iC", "kC"}
           => Laid(<<v, a, b, c>>, << <<2, 1>>, <<1, 1>>, <<0, 1>> >>)
BY DEF Laid, Place

\* Every opcode has one of six layouts.
LEMMA OpcodesLaid == \A op \in Opcodes : \E places \in Layouts : Laid(op, places)
BY Laid0, Laid1, Laid2, Laid3 DEF Opcodes, Layouts, Arithmetic

Shaped(op) ==
  /\ Len(op) \in 1 .. 4 /\ DOMAIN op = 1 .. Len(op)
  /\ DOMAIN Fields(op) = 1 .. Len(op) - 1
  /\ \A i \in 1 .. Len(op) - 1 : Fields(op)[i] = op[i + 1]

LEMMA TailShape == ASSUME NEW S, NEW op \in Seq(S), Len(op) \in 1 .. 4 PROVE Shaped(op)
BY DEF Shaped, Fields

LEMMA Shaped1 == ASSUME NEW v PROVE Shaped(<<v>>)
<1>1. PICK S, op : S = {v} /\ op = <<v>>
  OBVIOUS
<1>2. op \in Seq(S) /\ Len(op) \in 1 .. 4
  BY <1>1
<1>3. Shaped(op)
  BY <1>2, TailShape
<1> QED BY <1>1, <1>3
LEMMA Shaped2 == ASSUME NEW v, NEW a PROVE Shaped(<<v, a>>)
<1>1. PICK S, op : S = {v, a} /\ op = <<v, a>>
  OBVIOUS
<1>2. op \in Seq(S) /\ Len(op) \in 1 .. 4
  BY <1>1
<1>3. Shaped(op)
  BY <1>2, TailShape
<1> QED BY <1>1, <1>3
LEMMA Shaped3 == ASSUME NEW v, NEW a, NEW b PROVE Shaped(<<v, a, b>>)
<1>1. PICK S, op : S = {v, a, b} /\ op = <<v, a, b>>
  OBVIOUS
<1>2. op \in Seq(S) /\ Len(op) \in 1 .. 4
  BY <1>1
<1>3. Shaped(op)
  BY <1>2, TailShape
<1> QED BY <1>1, <1>3
LEMMA Shaped4 == ASSUME NEW v, NEW a, NEW b, NEW c PROVE Shaped(<<v, a, b, c>>)
<1>1. PICK S, op : S = {v, a, b, c} /\ op = <<v, a, b, c>>
  OBVIOUS
<1>2. op \in Seq(S) /\ Len(op) \in 1 .. 4
  BY <1>1
<1>3. Shaped(op)
  BY <1>2, TailShape
<1> QED BY <1>1, <1>3

LEMMA OpcodeShape == \A op \in Opcodes : Shaped(op)
BY Shaped1, Shaped2, Shaped3, Shaped4 DEF Opcodes, Arithmetic

\* The parts of two and of three operands that do not overlap are got back from
\* their sum.
LEMMA TwoParts ==
  ASSUME NEW d \in Nat, d > 0, NEW e \in Nat, e > 0, NEW a \in 0 .. e - 1, NEW r \in 0 .. d - 1
  PROVE  /\ (Joined(a, d, r) \div d) % e = a
         /\ (Joined(a, d, r) \div 1) % d = r
<1>1. a \in Nat /\ a % e = a
  OBVIOUS
<1> PICK w : w = Joined(a, d, r)
  OBVIOUS
<1>3. w \in Nat /\ w \div d = a /\ w % d = r
  BY <1>1, JoinedParts
<1>4. w \div 1 = w
  BY <1>3, OverOne
<1> QED BY <1>1, <1>3, <1>4

Joined3(d, a, b, c) == a * (d * d) + b * d + c

LEMMA ThreeParts ==
  ASSUME NEW d \in Nat, d > 0, NEW a \in 0 .. d - 1, NEW b \in 0 .. d - 1, NEW c \in 0 .. d - 1
  PROVE  /\ (Joined3(d, a, b, c) \div (d * d)) % d = a
         /\ (Joined3(d, a, b, c) \div d) % d = b
         /\ (Joined3(d, a, b, c) \div 1) % d = c
<1> PICK w : w = Joined3(d, a, b, c)
  OBVIOUS
<1> PICK q : q = d * d
  OBVIOUS
<1> PICK r : r = b * d + c
  OBVIOUS
<1>0. a \in Nat /\ b \in Nat /\ c \in Nat
  OBVIOUS
<1>1. q \in Nat /\ q > 0
  OBVIOUS
<1>2. r \in 0 .. q - 1
  <2>1. b * d <= (d - 1) * d
    OBVIOUS
  <2>2. (d - 1) * d = q - d
    OBVIOUS
  <2>3. b * d \in Nat
    BY <1>0, ProductType
  <2> QED BY <1>1, <2>1, <2>2, <2>3
<1>3. w = Joined(a, q, r)
  <2>1. a * q \in Nat /\ b * d \in Nat
    BY <1>0, <1>1, ProductType
  <2> QED BY <2>1 DEF Joined, Joined3
<1>4. w \in Nat /\ w \div q = a
  BY <1>0, <1>1, <1>2, <1>3, JoinedParts
<1>9. a % d = a
  OBVIOUS
<1> PICK h : h = Joined(a, d, b)
  OBVIOUS
<1>5. h \in Nat /\ h % d = b
  BY <1>0, JoinedParts
<1>6. w = Joined(h, d, c)
  <2>1. h * d = (a * d) * d + b * d
    <3>1. a * d \in Nat /\ b \in Nat
      BY <1>0, ProductType
    <3> QED BY <3>1 DEF Joined
  <2>2. (a * d) * d = a * (d * d)
    OBVIOUS
  <2>3. a * (d * d) \in Nat /\ b * d \in Nat
    BY <1>0, <1>1, ProductType
  <2> QED BY <2>1, <2>2, <2>3 DEF Joined, Joined3
<1>7. w \div d = h /\ w % d = c
  BY <1>5, <1>6, JoinedParts
<1>8. w \div 1 = w
  BY <1>4, OverOne
<1> QED BY <1>4, <1>5, <1>7, <1>8, <1>9

\* A word keeps its operands, each cut to the bytes of its field.
Operands(op, operands) ==
  DOMAIN operands = 1 .. Len(op) - 1 /\ \A i \in 1 .. Len(op) - 1 : operands[i] \in Int

LEMMA PartType ==
  ASSUME NEW op \in Opcodes, NEW operands, Operands(op, operands), NEW i \in 1 .. Len(op) - 1,
         NEW p \in 0 .. 2, NEW k \in 1 .. 3, Place(op[i + 1]) = <<p, k>>
  PROVE  /\ Part(op, operands, i) = Unsigned(operands[i], k) * Span(p)
         /\ Unsigned(operands[i], k) \in 0 .. Span(k) - 1
         /\ Part(op, operands, i) \in Int
<1>1. Fields(op)[i] = op[i + 1]
  BY OpcodeShape DEF Shaped
<1>2. Part(op, operands, i) = Unsigned(operands[i], k) * Span(p)
  BY <1>1 DEF Part
<1>3. Unsigned(operands[i], k) \in 0 .. Span(k) - 1
  <2> PICK n : n = operands[i]
    OBVIOUS
  <2>1. n \in Int
    BY DEF Operands
  <2>2. k \in 0 .. 3
    OBVIOUS
  <2>3. Unsigned(n, k) \in 0 .. Span(k) - 1
    BY ONLY <2>1, <2>2, UnsignedType
  <2> QED BY <2>3
<1>4. Span(p) \in Nat /\ Span(k) \in Nat
  BY SpanFacts
<1> QED BY <1>2, <1>3, <1>4


Kept(op, operands, i) ==
  FieldU(INS(op, operands), Fields(op)[i]) = Unsigned(operands[i], Place(Fields(op)[i])[2])

LEMMA KeptIf ==
  ASSUME NEW op \in Opcodes, NEW operands, NEW i \in 1 .. Len(op) - 1,
         NEW p \in 0 .. 2, NEW k \in 1 .. 3, Place(op[i + 1]) = <<p, k>>,
         (INS(op, operands).abc \div Span(p)) % Span(k) = Unsigned(operands[i], k)
  PROVE  Kept(op, operands, i)
<1>1. Fields(op)[i] = op[i + 1]
  BY OpcodeShape DEF Shaped
<1>2. Place(op[i + 1])[1] = p /\ Place(op[i + 1])[2] = k
  OBVIOUS
<1> QED BY <1>1, <1>2 DEF Kept, FieldU, Unsigned

\* What a word is made of, by the number of its operands.
LEMMA WordOfParts ==
  ASSUME NEW op \in Opcodes, NEW operands, Operands(op, operands),
         \A j \in 1 .. Len(op) - 1 : Part(op, operands, j) \in Int
  PROVE  /\ Len(op) = 2 => INS(op, operands).abc = Part(op, operands, 1)
         /\ Len(op) = 3 => INS(op, operands).abc = Part(op, operands, 1) + Part(op, operands, 2)
         /\ Len(op) = 4 => INS(op, operands).abc = Part(op, operands, 1) + Part(op, operands, 2)
                                                     + Part(op, operands, 3)
<1> PICK n : n = Len(op) - 1
  OBVIOUS
<1>1. n \in 0 .. 3 /\ DOMAIN operands = 1 .. n /\ Len(op) = n + 1
  <2>1. Shaped(op)
    BY OpcodeShape
  <2>2. Len(op) \in 1 .. 4 /\ DOMAIN operands = 1 .. Len(op) - 1
    BY <2>1 DEF Shaped, Operands
  <2>3. n = Len(op) - 1
    OBVIOUS
  <2> QED BY ONLY <2>2, <2>3
<1>2. \A j \in 1 .. n : Part(op, operands, j) \in Int
  BY <1>1
<1>3. INS(op, operands).abc = (IF n >= 1 THEN Part(op, operands, 1) ELSE 0)
                                + (IF n >= 2 THEN Part(op, operands, 2) ELSE 0)
                                + (IF n >= 3 THEN Part(op, operands, 3) ELSE 0)
  BY <1>1, <1>2, WordSum
<1>4. /\ n >= 1 => Part(op, operands, 1) \in Int
      /\ n >= 2 => Part(op, operands, 2) \in Int
      /\ n >= 3 => Part(op, operands, 3) \in Int
  BY <1>1, <1>2
<1>5. CASE n = 0
  BY ONLY <1>1, <1>5
<1>6. CASE n = 1
  BY ONLY <1>1, <1>3, <1>4, <1>6
<1>7. CASE n = 2
  BY ONLY <1>1, <1>3, <1>4, <1>7
<1>8. CASE n = 3
  BY ONLY <1>1, <1>3, <1>4, <1>8
<1> QED BY <1>1, <1>5, <1>6, <1>7, <1>8

\* Each layout in turn.
LEMMA KeptA ==
  ASSUME NEW op \in Opcodes, NEW operands, Operands(op, operands), Laid(op, << <<2, 1>> >>)
  PROVE  \A i \in 1 .. Len(op) - 1 : Kept(op, operands, i)
<1>1. Len(op) = 2
  BY DEF Laid
<1>2. Place(op[2]) = <<2, 1>>
  BY <1>1 DEF Laid
<1> PICK u1 : u1 = Unsigned(operands[1], 1)
  OBVIOUS
<1>3. Part(op, operands, 1) = u1 * Span(2) /\ u1 \in 0 .. Span(1) - 1
      /\ Part(op, operands, 1) \in Int
  <2>1. 1 \in 1 .. Len(op) - 1 /\ 2 \in 0 .. 2 /\ 1 \in 1 .. 3 /\ Place(op[1 + 1]) = <<2, 1>>
    BY <1>1, <1>2
  <2> QED BY <2>1, PartType
<1> PICK w : w = INS(op, operands).abc
  OBVIOUS
<1>6. w = u1 * Span(2)
  <2>1. \A j \in 1 .. Len(op) - 1 : Part(op, operands, j) \in Int
    BY <1>1, <1>3
  <2>2. w = Part(op, operands, 1)
    BY <1>1, <2>1, WordOfParts
  <2> QED BY <1>3, <2>2
<1>7. (w \div Span(2)) % Span(1) = u1
  <2>1. w = Joined(u1, Span(2), 0)
    <3>1. u1 * Span(2) \in Nat
      BY <1>3, SpanFacts
    <3> QED BY <3>1, <1>6 DEF Joined
  <2>2. Span(2) \in Nat /\ Span(2) > 0 /\ Span(1) \in Nat /\ Span(1) > 0 /\ 0 \in 0 .. Span(2) - 1
    BY SpanFacts
  <2> QED BY <1>3, <2>1, <2>2, TwoParts
<1>8. \A i \in 1 .. Len(op) - 1 : i = 1
  BY <1>1
<1>9. Kept(op, operands, 1)
  <2>1. 1 \in 1 .. Len(op) - 1 /\ 2 \in 0 .. 2 /\ 1 \in 1 .. 3 /\ Place(op[1 + 1]) = <<2, 1>>
        /\ (INS(op, operands).abc \div Span(2)) % Span(1) = Unsigned(operands[1], 1)
    BY <1>1, <1>2, <1>7
  <2> QED BY <2>1, KeptIf
<1> QED BY <1>8, <1>9

LEMMA KeptABC ==
  ASSUME NEW op \in Opcodes, NEW operands, Operands(op, operands), Laid(op, << <<0, 3>> >>)
  PROVE  \A i \in 1 .. Len(op) - 1 : Kept(op, operands, i)
<1>1. Len(op) = 2
  BY DEF Laid
<1>2. Place(op[2]) = <<0, 3>>
  BY <1>1 DEF Laid
<1> PICK u1 : u1 = Unsigned(operands[1], 3)
  OBVIOUS
<1>3. Part(op, operands, 1) = u1 * Span(0) /\ u1 \in 0 .. Span(3) - 1
      /\ Part(op, operands, 1) \in Int
  <2>1. 1 \in 1 .. Len(op) - 1 /\ 0 \in 0 .. 2 /\ 3 \in 1 .. 3 /\ Place(op[1 + 1]) = <<0, 3>>
    BY <1>1, <1>2
  <2> QED BY <2>1, PartType
<1> PICK w : w = INS(op, operands).abc
  OBVIOUS
<1>6. w = u1 * Span(0)
  <2>1. \A j \in 1 .. Len(op) - 1 : Part(op, operands, j) \in Int
    BY <1>1, <1>3
  <2>2. w = Part(op, operands, 1)
    BY <1>1, <2>1, WordOfParts
  <2> QED BY <1>3, <2>2
<1>7. (w \div Span(0)) % Span(3) = u1
  <2>1. w = u1
    BY <1>3, <1>6, SpanFacts
  <2> PICK e : e = Span(3)
    OBVIOUS
  <2>2. e \in Nat /\ e > 0 /\ w \in 0 .. e - 1 /\ Span(0) = 1
    BY <1>3, <2>1, SpanFacts
  <2>3. w \div 1 = w
    BY <2>2, OverOne
  <2>4. w % e = w
    BY ONLY <2>2
  <2> QED BY <2>1, <2>2, <2>3, <2>4
<1>8. \A i \in 1 .. Len(op) - 1 : i = 1
  BY <1>1
<1>9. Kept(op, operands, 1)
  <2>1. 1 \in 1 .. Len(op) - 1 /\ 0 \in 0 .. 2 /\ 3 \in 1 .. 3 /\ Place(op[1 + 1]) = <<0, 3>>
        /\ (INS(op, operands).abc \div Span(0)) % Span(3) = Unsigned(operands[1], 3)
    BY <1>1, <1>2, <1>7
  <2> QED BY <2>1, KeptIf
<1> QED BY <1>8, <1>9

LEMMA KeptA_B ==
  ASSUME NEW op \in Opcodes, NEW operands, Operands(op, operands), Laid(op, << <<2, 1>>, <<1, 1>> >>)
  PROVE  \A i \in 1 .. Len(op) - 1 : Kept(op, operands, i)
<1>1. Len(op) = 3
  BY DEF Laid
<1>2. Place(op[2]) = <<2, 1>> /\ Place(op[3]) = <<1, 1>>
  BY <1>1 DEF Laid
<1> PICK u1 : u1 = Unsigned(operands[1], 1)
  OBVIOUS
<1> PICK u2 : u2 = Unsigned(operands[2], 1)
  OBVIOUS
<1>3. Part(op, operands, 1) = u1 * Span(2) /\ u1 \in 0 .. Span(1) - 1
      /\ Part(op, operands, 1) \in Int
  <2>1. 1 \in 1 .. Len(op) - 1 /\ 2 \in 0 .. 2 /\ 1 \in 1 .. 3 /\ Place(op[1 + 1]) = <<2, 1>>
    BY <1>1, <1>2
  <2> QED BY <2>1, PartType
<1>4. Part(op, operands, 2) = u2 * Span(1) /\ u2 \in 0 .. Span(1) - 1
      /\ Part(op, operands, 2) \in Int
  <2>1. 2 \in 1 .. Len(op) - 1 /\ 1 \in 0 .. 2 /\ 1 \in 1 .. 3 /\ Place(op[2 + 1]) = <<1, 1>>
    BY <1>1, <1>2
  <2> QED BY <2>1, PartType
<1> PICK w : w = INS(op, operands).abc
  OBVIOUS
<1>6. w = u1 * Span(2) + u2 * Span(1)
  <2>1. \A j \in 1 .. Len(op) - 1 : Part(op, operands, j) \in Int
    BY <1>1, <1>3, <1>4
  <2>2. w = Part(op, operands, 1) + Part(op, operands, 2)
    BY <1>1, <2>1, WordOfParts
  <2> QED BY <1>3, <1>4, <2>2
<1>7. (w \div Span(2)) % Span(1) = u1 /\ (w \div Span(1)) % Span(1) = u2
  <2> PICK d : d = ByteSize
    OBVIOUS
  <2>1. d \in Nat /\ d > 0 /\ 0 \in 0 .. d - 1 /\ Span(2) = d * d /\ Span(1) = d
    BY ByteFacts, SpanFacts
  <2>2. w = Joined3(d, u1, u2, 0)
    <3>1. u1 * (d * d) \in Nat /\ u2 * d \in Nat
      BY <1>3, <1>4, <2>1
    <3> QED BY <3>1, <1>6, <2>1 DEF Joined3
  <2>3. u1 \in 0 .. d - 1 /\ u2 \in 0 .. d - 1
    BY <1>3, <1>4, <2>1
  <2>4. (w \div (d * d)) % d = u1 /\ (w \div d) % d = u2
    BY <2>1, <2>2, <2>3, ThreeParts
  <2> QED BY <2>1, <2>4
<1>8. \A i \in 1 .. Len(op) - 1 : i = 1 \/ i = 2
  BY <1>1
<1>9. Kept(op, operands, 1)
  <2>1. 1 \in 1 .. Len(op) - 1 /\ 2 \in 0 .. 2 /\ 1 \in 1 .. 3 /\ Place(op[1 + 1]) = <<2, 1>>
        /\ (INS(op, operands).abc \div Span(2)) % Span(1) = Unsigned(operands[1], 1)
    BY <1>1, <1>2, <1>7
  <2> QED BY <2>1, KeptIf
<1>10. Kept(op, operands, 2)
  <2>1. 2 \in 1 .. Len(op) - 1 /\ 1 \in 0 .. 2 /\ 1 \in 1 .. 3 /\ Place(op[2 + 1]) = <<1, 1>>
        /\ (INS(op, operands).abc \div Span(1)) % Span(1) = Unsigned(operands[2], 1)
    BY <1>1, <1>2, <1>7
  <2> QED BY <2>1, KeptIf
<1> QED BY <1>8, <1>9, <1>10

LEMMA KeptA_BC ==
  ASSUME NEW op \in Opcodes, NEW operands, Operands(op, operands), Laid(op, << <<2, 1>>, <<0, 2>> >>)
  PROVE  \A i \in 1 .. Len(op) - 1 : Kept(op, operands, i)
<1>1. Len(op) = 3
  BY DEF Laid
<1>2. Place(op[2]) = <<2, 1>> /\ Place(op[3]) = <<0, 2>>
  BY <1>1 DEF Laid
<1> PICK u1 : u1 = Unsigned(operands[1], 1)
  OBVIOUS
<1> PICK u2 : u2 = Unsigned(operands[2], 2)
  OBVIOUS
<1>3. Part(op, operands, 1) = u1 * Span(2) /\ u1 \in 0 .. Span(1) - 1
      /\ Part(op, operands, 1) \in Int
  <2>1. 1 \in 1 .. Len(op) - 1 /\ 2 \in 0 .. 2 /\ 1 \in 1 .. 3 /\ Place(op[1 + 1]) = <<2, 1>>
    BY <1>1, <1>2
  <2> QED BY <2>1, PartType
<1>4. Part(op, operands, 2) = u2 * Span(0) /\ u2 \in 0 .. Span(2) - 1
      /\ Part(op, operands, 2) \in Int
  <2>1. 2 \in 1 .. Len(op) - 1 /\ 0 \in 0 .. 2 /\ 2 \in 1 .. 3 /\ Place(op[2 + 1]) = <<0, 2>>
    BY <1>1, <1>2
  <2> QED BY <2>1, PartType
<1> PICK w : w = INS(op, operands).abc
  OBVIOUS
<1>6. w = u1 * Span(2) + u2 * Span(0)
  <2>1. \A j \in 1 .. Len(op) - 1 : Part(op, operands, j) \in Int
    BY <1>1, <1>3, <1>4
  <2>2. w = Part(op, operands, 1) + Part(op, operands, 2)
    BY <1>1, <2>1, WordOfParts
  <2> QED BY <1>3, <1>4, <2>2
<1>7. (w \div Span(2)) % Span(1) = u1 /\ (w \div Span(0)) % Span(2) = u2
  <2> PICK d, e : d = Span(2) /\ e = Span(1)
    OBVIOUS
  <2>1. d \in Nat /\ d > 0 /\ e \in Nat /\ e > 0 /\ Span(0) = 1
    BY SpanFacts
  <2>2. u1 \in 0 .. e - 1 /\ u2 \in 0 .. d - 1
    BY <1>3, <1>4
  <2>3. w = Joined(u1, d, u2)
    <3>1. u1 * d \in Nat /\ u2 * 1 = u2
      BY <2>1, <2>2
    <3> QED BY <3>1, <1>6, <2>1 DEF Joined
  <2>4. (w \div d) % e = u1 /\ (w \div 1) % d = u2
    BY <2>1, <2>2, <2>3, TwoParts
  <2> QED BY <2>1, <2>4
<1>8. \A i \in 1 .. Len(op) - 1 : i = 1 \/ i = 2
  BY <1>1
<1>9. Kept(op, operands, 1)
  <2>1. 1 \in 1 .. Len(op) - 1 /\ 2 \in 0 .. 2 /\ 1 \in 1 .. 3 /\ Place(op[1 + 1]) = <<2, 1>>
        /\ (INS(op, operands).abc \div Span(2)) % Span(1) = Unsigned(operands[1], 1)
    BY <1>1, <1>2, <1>7
  <2> QED BY <2>1, KeptIf
<1>10. Kept(op, operands, 2)
  <2>1. 2 \in 1 .. Len(op) - 1 /\ 0 \in 0 .. 2 /\ 2 \in 1 .. 3 /\ Place(op[2 + 1]) = <<0, 2>>
        /\ (INS(op, operands).abc \div Span(0)) % Span(2) = Unsigned(operands[2], 2)
    BY <1>1, <1>2, <1>7
  <2> QED BY <2>1, KeptIf
<1> QED BY <1>8, <1>9, <1>10

LEMMA KeptAB_C ==
  ASSUME NEW op \in Opcodes, NEW operands, Operands(op, operands), Laid(op, << <<1, 2>>, <<0, 1>> >>)
  PROVE  \A i \in 1 .. Len(op) - 1 : Kept(op, operands, i)
<1>1. Len(op) = 3
  BY DEF Laid
<1>2. Place(op[2]) = <<1, 2>> /\ Place(op[3]) = <<0, 1>>
  BY <1>1 DEF Laid
<1> PICK u1 : u1 = Unsigned(operands[1], 2)
  OBVIOUS
<1> PICK u2 : u2 = Unsigned(operands[2], 1)
  OBVIOUS
<1>3. Part(op, operands, 1) = u1 * Span(1) /\ u1 \in 0 .. Span(2) - 1
      /\ Part(op, operands, 1) \in Int
  <2>1. 1 \in 1 .. Len(op) - 1 /\ 1 \in 0 .. 2 /\ 2 \in 1 .. 3 /\ Place(op[1 + 1]) = <<1, 2>>
    BY <1>1, <1>2
  <2> QED BY <2>1, PartType
<1>4. Part(op, operands, 2) = u2 * Span(0) /\ u2 \in 0 .. Span(1) - 1
      /\ Part(op, operands, 2) \in Int
  <2>1. 2 \in 1 .. Len(op) - 1 /\ 0 \in 0 .. 2 /\ 1 \in 1 .. 3 /\ Place(op[2 + 1]) = <<0, 1>>
    BY <1>1, <1>2
  <2> QED BY <2>1, PartType
<1> PICK w : w = INS(op, operands).abc
  OBVIOUS
<1>6. w = u1 * Span(1) + u2 * Span(0)
  <2>1. \A j \in 1 .. Len(op) - 1 : Part(op, operands, j) \in Int
    BY <1>1, <1>3, <1>4
  <2>2. w = Part(op, operands, 1) + Part(op, operands, 2)
    BY <1>1, <2>1, WordOfParts
  <2> QED BY <1>3, <1>4, <2>2
<1>7. (w \div Span(1)) % Span(2) = u1 /\ (w \div Span(0)) % Span(1) = u2
  <2> PICK d, e : d = Span(1) /\ e = Span(2)
    OBVIOUS
  <2>1. d \in Nat /\ d > 0 /\ e \in Nat /\ e > 0 /\ Span(0) = 1
    BY SpanFacts
  <2>2. u1 \in 0 .. e - 1 /\ u2 \in 0 .. d - 1
    BY <1>3, <1>4
  <2>3. w = Joined(u1, d, u2)
    <3>1. u1 * d \in Nat /\ u2 * 1 = u2
      BY <2>1, <2>2
    <3> QED BY <3>1, <1>6, <2>1 DEF Joined
  <2>4. (w \div d) % e = u1 /\ (w \div 1) % d = u2
    BY <2>1, <2>2, <2>3, TwoParts
  <2> QED BY <2>1, <2>4
<1>8. \A i \in 1 .. Len(op) - 1 : i = 1 \/ i = 2
  BY <1>1
<1>9. Kept(op, operands, 1)
  <2>1. 1 \in 1 .. Len(op) - 1 /\ 1 \in 0 .. 2 /\ 2 \in 1 .. 3 /\ Place(op[1 + 1]) = <<1, 2>>
        /\ (INS(op, operands).abc \div Span(1)) % Span(2) = Unsigned(operands[1], 2)
    BY <1>1, <1>2, <1>7
  <2> QED BY <2>1, KeptIf
<1>10. Kept(op, operands, 2)
  <2>1. 2 \in 1 .. Len(op) - 1 /\ 0 \in 0 .. 2 /\ 1 \in 1 .. 3 /\ Place(op[2 + 1]) = <<0, 1>>
        /\ (INS(op, operands).abc \div Span(0)) % Span(1) = Unsigned(operands[2], 1)
    BY <1>1, <1>2, <1>7
  <2> QED BY <2>1, KeptIf
<1> QED BY <1>8, <1>9, <1>10

LEMMA KeptA_B_C ==
  ASSUME NEW op \in Opcodes, NEW operands, Operands(op, operands), Laid(op, << <<2, 1>>, <<1, 1>>, <<0, 1>> >>)
  PROVE  \A i \in 1 .. Len(op) - 1 : Kept(op, operands, i)
<1>1. Len(op) = 4
  BY DEF Laid
<1>2. Place(op[2]) = <<2, 1>> /\ Place(op[3]) = <<1, 1>> /\ Place(op[4]) = <<0, 1>>
  BY <1>1 DEF Laid
<1> PICK u1 : u1 = Unsigned(operands[1], 1)
  OBVIOUS
<1> PICK u2 : u2 = Unsigned(operands[2], 1)
  OBVIOUS
<1> PICK u3 : u3 = Unsigned(operands[3], 1)
  OBVIOUS
<1>3. Part(op, operands, 1) = u1 * Span(2) /\ u1 \in 0 .. Span(1) - 1
      /\ Part(op, operands, 1) \in Int
  <2>1. 1 \in 1 .. Len(op) - 1 /\ 2 \in 0 .. 2 /\ 1 \in 1 .. 3 /\ Place(op[1 + 1]) = <<2, 1>>
    BY <1>1, <1>2
  <2> QED BY <2>1, PartType
<1>4. Part(op, operands, 2) = u2 * Span(1) /\ u2 \in 0 .. Span(1) - 1
      /\ Part(op, operands, 2) \in Int
  <2>1. 2 \in 1 .. Len(op) - 1 /\ 1 \in 0 .. 2 /\ 1 \in 1 .. 3 /\ Place(op[2 + 1]) = <<1, 1>>
    BY <1>1, <1>2
  <2> QED BY <2>1, PartType
<1>5. Part(op, operands, 3) = u3 * Span(0) /\ u3 \in 0 .. Span(1) - 1
      /\ Part(op, operands, 3) \in Int
  <2>1. 3 \in 1 .. Len(op) - 1 /\ 0 \in 0 .. 2 /\ 1 \in 1 .. 3 /\ Place(op[3 + 1]) = <<0, 1>>
    BY <1>1, <1>2
  <2> QED BY <2>1, PartType
<1> PICK w : w = INS(op, operands).abc
  OBVIOUS
<1>6. w = u1 * Span(2) + u2 * Span(1) + u3 * Span(0)
  <2>1. \A j \in 1 .. Len(op) - 1 : Part(op, operands, j) \in Int
    BY <1>1, <1>3, <1>4, <1>5
  <2>2. w = Part(op, operands, 1) + Part(op, operands, 2) + Part(op, operands, 3)
    BY <1>1, <2>1, WordOfParts
  <2> QED BY <1>3, <1>4, <1>5, <2>2
<1>7. (w \div Span(2)) % Span(1) = u1 /\ (w \div Span(1)) % Span(1) = u2 /\ (w \div Span(0)) % Span(1) = u3
  <2> PICK d : d = ByteSize
    OBVIOUS
  <2>1. d \in Nat /\ d > 0 /\ Span(2) = d * d /\ Span(1) = d /\ Span(0) = 1
    BY ByteFacts, SpanFacts
  <2>3. u1 \in 0 .. d - 1 /\ u2 \in 0 .. d - 1 /\ u3 \in 0 .. d - 1
    BY <1>3, <1>4, <1>5, <2>1
  <2>2. w = Joined3(d, u1, u2, u3)
    <3>1. u3 * 1 = u3
      BY <2>3
    <3> QED BY <3>1, <1>6, <2>1 DEF Joined3
  <2>4. (w \div (d * d)) % d = u1 /\ (w \div d) % d = u2 /\ (w \div 1) % d = u3
    BY <2>1, <2>2, <2>3, ThreeParts
  <2> QED BY <2>1, <2>4
<1>8. \A i \in 1 .. Len(op) - 1 : i = 1 \/ i = 2 \/ i = 3
  BY <1>1
<1>9. Kept(op, operands, 1)
  <2>1. 1 \in 1 .. Len(op) - 1 /\ 2 \in 0 .. 2 /\ 1 \in 1 .. 3 /\ Place(op[1 + 1]) = <<2, 1>>
        /\ (INS(op, operands).abc \div Span(2)) % Span(1) = Unsigned(operands[1], 1)
    BY <1>1, <1>2, <1>7
  <2> QED BY <2>1, KeptIf
<1>10. Kept(op, operands, 2)
  <2>1. 2 \in 1 .. Len(op) - 1 /\ 1 \in 0 .. 2 /\ 1 \in 1 .. 3 /\ Place(op[2 + 1]) = <<1, 1>>
        /\ (INS(op, operands).abc \div Span(1)) % Span(1) = Unsigned(operands[2], 1)
    BY <1>1, <1>2, <1>7
  <2> QED BY <2>1, KeptIf
<1>11. Kept(op, operands, 3)
  <2>1. 3 \in 1 .. Len(op) - 1 /\ 0 \in 0 .. 2 /\ 1 \in 1 .. 3 /\ Place(op[3 + 1]) = <<0, 1>>
        /\ (INS(op, operands).abc \div Span(0)) % Span(1) = Unsigned(operands[3], 1)
    BY <1>1, <1>2, <1>7
  <2> QED BY <2>1, KeptIf
<1> QED BY <1>8, <1>9, <1>10, <1>11

\* Whatever the assembler packs into an instruction word (BytecodeUtil.INS_ABC and
\* its likes), the field of each operand holds that operand, cut to the field's bytes.
THEOREM WordsKeepOperands ==
  ASSUME NEW op \in Opcodes, NEW operands, Operands(op, operands), NEW i \in 1 .. Len(op) - 1
  PROVE  FieldU(INS(op, operands), Fields(op)[i])
           = Unsigned(operands[i], Place(Fields(op)[i])[2])
<1>1. PICK places \in Layouts : Laid(op, places)
  BY OpcodesLaid
<1>2. CASE places = <<>>
  <2>1. Len(op) = 1
    BY <1>1, <1>2 DEF Laid
  <2> QED BY <2>1
<1>3. places # <<>> => Kept(op, operands, i)
  BY <1>1, KeptA, KeptABC, KeptA_B, KeptA_BC, KeptAB_C, KeptA_B_C DEF Layouts
<1> QED BY <1>2, <1>3 DEF Kept

\* An operand that fits into its field, without or with a sign, is what the VM and
\* the disassembler take out of the word again (BytecodeUtil.Au to BytecodeUtil.BCs):
\* no neighbour's bytes and no neighbour's sign get into it.
THEOREM OperandsReadBack ==
  ASSUME NEW op \in Opcodes, NEW operands, Operands(op, operands), NEW i \in 1 .. Len(op) - 1,
         NEW bytes, bytes = Place(Fields(op)[i])[2]
  PROVE  /\ operands[i] \in 0 .. Span(bytes) - 1
              => FieldU(INS(op, operands), Fields(op)[i]) = operands[i]
         /\ operands[i] \in SignedRange(bytes)
              => FieldS(INS(op, operands), Fields(op)[i]) = operands[i]
<1>1. bytes \in 1 .. 3
  <2>1. PICK places \in Layouts : Laid(op, places)
    BY OpcodesLaid
  <2>2. Fields(op)[i] = op[i + 1] /\ i + 1 \in 2 .. Len(op)
    BY OpcodeShape DEF Shaped
  <2>3. Place(Fields(op)[i]) = places[i] /\ i \in 1 .. Len(places)
    BY <2>1, <2>2 DEF Laid
  <2>4. \A p \in Layouts : \A j \in 1 .. Len(p) : p[j][2] \in 1 .. 3
    BY DEF Layouts
  <2> QED BY <2>1, <2>3, <2>4
<1>2. FieldU(INS(op, operands), Fields(op)[i]) = Unsigned(operands[i], bytes)
  BY WordsKeepOperands
<1>3. operands[i] \in 0 .. Span(bytes) - 1 => Unsigned(operands[i], bytes) = operands[i]
  BY <1>1, UnsignedKeeps
<1>4. operands[i] \in SignedRange(bytes) => Signed(Unsigned(operands[i], bytes), bytes) = operands[i]
  BY <1>1, SignedKeeps
<1> QED BY <1>2, <1>3, <1>4 DEF FieldS

-----------------------------------------------------------------------------
(* Opcodes and verbs.                                                      *)

NoOperand == {"NOOP", "RETURN"}
OneOperand == {"JUMP", "ARGBLK", "ARG", "LOCALS", "OUTER", "GLOBALS"}
TwoOperands ==
  {"LOAD", "FUNCREF", "NAME", "PUSH", "CALLF", "CALLFN", "LIST", "MAP", "BRTRUE", "BRFALSE",
   "IFLT", "IFLE", "IFEQ", "IFNE"}
Count(verb) == IF verb \in NoOperand THEN 0 ELSE IF verb \in OneOperand THEN 1
               ELSE IF verb \in TwoOperands THEN 2 ELSE 3

Counted(op) == Len(op) = Count(op[1]) + 1

LEMMA Count1 == ASSUME NEW v \in NoOperand PROVE Counted(<<v>>)
BY DEF Counted, Count
LEMMA Count2 == ASSUME NEW v \in OneOperand, NEW a PROVE Counted(<<v, a>>)
BY DEF Counted, Count, NoOperand, OneOperand
LEMMA Count3 == ASSUME NEW v \in TwoOperands, NEW a, NEW b PROVE Counted(<<v, a, b>>)
BY DEF Counted, Count, NoOperand, OneOperand, TwoOperands
LEMMA Count4 ==
  ASSUME NEW v, v \notin NoOperand \union OneOperand \union TwoOperands, NEW a, NEW b, NEW c
  PROVE  Counted(<<v, a, b, c>>)
BY DEF Counted, Count

\* The number of operands of a verb is that of any of its opcodes.
LEMMA OpcodesCounted == \A op \in Opcodes : Counted(op)
BY Count1, Count2, Count3, Count4
   DEF Opcodes, Arithmetic, NoOperand, OneOperand, TwoOperands

LEMMA ArityCounts == ASSUME NEW verb \in Verbs PROVE Arity(verb) = Count(verb)
<1>1. PICK op : op = CHOOSE o \in Opcodes : Verb(o) = verb
  OBVIOUS
<1>2. op \in Opcodes /\ op[1] = verb
  BY <1>1 DEF Verbs, Verb
<1>3. Len(op) = Count(verb) + 1
  BY <1>2, OpcodesCounted DEF Counted
<1>4. Count(verb) \in Int
  BY DEF Count
<1> QED BY <1>1, <1>3, <1>4 DEF Arity

\* What a line of a verb is assembled to is an opcode of that verb.
FormOf(verb, op) == op \in Opcodes /\ op[1] = verb

LEMMA DataForms ==
  ASSUME NEW verb \in {"LOAD", "LOADV", "LOADC", "ASSIGN", "FUNCREF", "NAME"}, NEW x
  PROVE  FormOf(verb, DataForm(verb, x))
BY DEF FormOf, DataForm, Opcodes

LEMMA ArithmeticForms ==
  ASSUME NEW verb \in Arithmetic
  PROVE  FormOf(verb, ArithmeticForm(verb))
BY DEF FormOf, ArithmeticForm, Opcodes

LEMMA ContainerForms ==
  ASSUME NEW verb \in {"LIST", "MAP", "PUSH", "INDEX", "IDXSET", "LOCALS", "OUTER", "GLOBALS"}
  PROVE  FormOf(verb, ContainerForm(verb))
BY DEF FormOf, ContainerForm, Opcodes

LEMMA CompareForms ==
  ASSUME NEW verb \in Comparing, NEW x
  PROVE  FormOf(verb, CompareForm(verb, x))
BY DEF FormOf, CompareForm, Opcodes, Comparing, Pick

LEMMA BranchForms ==
  ASSUME NEW verb \in Branching \union {"BRTRUE", "BRFALSE"}, NEW x
  PROVE  FormOf(verb, BranchForm(verb, x))
BY DEF FormOf, BranchForm, Opcodes, Branching, Pick

LEMMA IfForms ==
  ASSUME NEW verb \in Skipping, NEW x
  PROVE  FormOf(verb, IfForm(verb, x))
BY DEF FormOf, IfForm, Opcodes, Skipping, Pick

LEMMA CallForms ==
  ASSUME NEW verb \in {"ARGBLK", "ARG", "CALLF", "CALLFN", "CALL"}, NEW x
  PROVE  FormOf(verb, CallForm(verb, x))
BY DEF FormOf, CallForm, Opcodes, Pick

LEMMA OtherForms ==
  ASSUME NEW verb \in {"NOOP", "RETURN", "JUMP"}, NEW x
  PROVE  FormOf(verb, Form(verb, x))
BY DEF FormOf, Form, Opcodes, Arithmetic, Comparing, Branching, Skipping

KnownVerbs ==
  {"NOOP", "RETURN", "JUMP"} \union {"LOAD", "LOADV", "LOADC", "ASSIGN", "FUNCREF", "NAME"}
  \union Arithmetic
  \union {"LIST", "MAP", "PUSH", "INDEX", "IDXSET", "LOCALS", "OUTER", "GLOBALS"}
  \union Comparing \union (Branching \union {"BRTRUE", "BRFALSE"}) \union Skipping
  \union {"ARGBLK", "ARG", "CALLF", "CALLFN", "CALL"}

LEMMA VerbsKnown == \A op \in Opcodes : op[1] \in KnownVerbs
BY DEF Opcodes, KnownVerbs, Arithmetic, Comparing, Branching, Skipping

LEMMA FormIsOpcode ==
  ASSUME NEW verb \in Verbs, NEW x
  PROVE  FormOf(verb, Form(verb, x))
<1>1. verb \in KnownVerbs
  BY VerbsKnown DEF Verbs, Verb
<1>2. CASE verb \in {"NOOP", "RETURN", "JUMP"}
  BY <1>2, OtherForms
<1>3. CASE verb \in {"LOAD", "LOADV", "LOADC", "ASSIGN", "FUNCREF", "NAME"}
  <2>1. Form(verb, x) = DataForm(verb, x)
    BY <1>3 DEF Form, Arithmetic, Comparing, Branching, Skipping
  <2> QED BY <1>3, <2>1, DataForms
<1>4. CASE verb \in Arithmetic
  <2>1. Form(verb, x) = ArithmeticForm(verb)
    BY <1>4 DEF Form, Arithmetic, Comparing, Branching, Skipping
  <2> QED BY <1>4, <2>1, ArithmeticForms
<1>5. CASE verb \in {"LIST", "MAP", "PUSH", "INDEX", "IDXSET", "LOCALS", "OUTER", "GLOBALS"}
  <2>1. Form(verb, x) = ContainerForm(verb)
    BY <1>5 DEF Form, Arithmetic, Comparing, Branching, Skipping
  <2> QED BY <1>5, <2>1, ContainerForms
<1>6. CASE verb \in Comparing
  <2>1. Form(verb, x) = CompareForm(verb, x)
    BY <1>6 DEF Form, Arithmetic, Comparing, Branching, Skipping
  <2> QED BY <1>6, <2>1, CompareForms
<1>7. CASE verb \in Branching \union {"BRTRUE", "BRFALSE"}
  <2>1. Form(verb, x) = BranchForm(verb, x)
    BY <1>7 DEF Form, Arithmetic, Comparing, Branching, Skipping
  <2> QED BY <1>7, <2>1, BranchForms
<1>8. CASE verb \in Skipping
  <2>1. Form(verb, x) = IfForm(verb, x)
    BY <1>8 DEF Form, Arithmetic, Comparing, Branching, Skipping
  <2> QED BY <1>8, <2>1, IfForms
<1>9. CASE verb \in {"ARGBLK", "ARG", "CALLF", "CALLFN", "CALL"}
  <2>1. Form(verb, x) = CallForm(verb, x)
    BY <1>9 DEF Form, Arithmetic, Comparing, Branching, Skipping
  <2> QED BY <1>9, <2>1, CallForms
<1> QED BY <1>1, <1>2, <1>3, <1>4, <1>5, <1>6, <1>7, <1>8, <1>9 DEF KnownVerbs

\* The first operand of an instruction that reserves it is a register.
FirstIsRegister(op) ==
  op[1] \in Reserving =>
    Len(op) >= 2 /\ (op[2] = "rA" \/ (op[1] = "FUNCREF" /\ op[2] = "iA"))

LEMMA ReservingFirst == \A op \in Opcodes : FirstIsRegister(op)
<1>1. \A v : v \in {"NOOP", "RETURN", "JUMP", "ARGBLK", "ARG", "PUSH", "CALLF", "CALLFN", "IDXSET"}
               \union {"BRTRUE", "BRFALSE"} \union Branching \union Skipping => v \notin Reserving
  BY DEF Reserving, Arithmetic, Comparing, Branching, Skipping
<1>2. ASSUME NEW op, op[1] \notin Reserving PROVE FirstIsRegister(op)
  BY <1>2 DEF FirstIsRegister
<1>3. ASSUME NEW v, NEW a, NEW b
      PROVE  /\ FirstIsRegister(<<v, "rA", a>>) /\ FirstIsRegister(<<v, "rA", a, b>>)
             /\ FirstIsRegister(<<v, "rA">>) /\ FirstIsRegister(<<"FUNCREF", "iA", a>>)
  BY DEF FirstIsRegister
<1>4. \A v \in Branching \union Skipping \union {"BRTRUE", "BRFALSE", "NOOP", "RETURN", "JUMP", "ARGBLK",
                    "ARG", "PUSH", "CALLF", "CALLFN", "IDXSET"} : v \notin Reserving
  BY <1>1
<1>5. \A op \in Opcodes : op[1] \in Reserving =>
        \/ \E v, a, b : op \in {<<v, "rA">>, <<v, "rA", a>>, <<v, "rA", a, b>>}
        \/ \E a : op = <<"FUNCREF", "iA", a>>
  BY <1>4 DEF Opcodes, Arithmetic, Branching, Skipping
<1>6. ASSUME NEW op \in Opcodes, op[1] \in Reserving PROVE FirstIsRegister(op)
  <2>1. CASE \E v, a, b : op \in {<<v, "rA">>, <<v, "rA", a>>, <<v, "rA", a, b>>}
    <3>1. PICK v, a, b : op \in {<<v, "rA">>, <<v, "rA", a>>, <<v, "rA", a, b>>}
      BY <2>1
    <3> QED BY <3>1, <1>3
  <2>2. CASE \E a : op = <<"FUNCREF", "iA", a>>
    BY <2>2, <1>3
  <2> QED BY <1>5, <1>6, <2>1, <2>2
<1> QED BY <1>2, <1>6

-----------------------------------------------------------------------------
(* Numbers that are found.                                                 *)

\* Every set of numbers that is not empty has a least one.
LEMMA LeastNumber ==
  ASSUME NEW S \in SUBSET Nat, S # {}
  PROVE  Min(S) \in S /\ \A m \in S : Min(S) <= m
<1>1. PICK n \in S : \A m \in S : ~(<<m, n>> \in OpToRel(<, Nat))
  BY NatLessThanWellFounded, WFMin
<1>2. \A m \in S : ~(m < n)
  BY <1>1 DEF OpToRel
<1>3. \A m \in S : n <= m
  BY <1>2
<1> QED BY <1>3 DEF Min

-----------------------------------------------------------------------------
(* Functions under assembly.                                               *)

Words == [op : Opcodes, abc : Int]
Constants == UNION {ParseAsConstant(t) : t \in Tokens}
\* Texts, of which @main is one.
Names == STRING \union {"@main"}
FunctionType ==
  [name : Names, code : Seq(Words), constants : Seq(Constants),
   params : Seq(Constants \union {Null}), maxRegs : Nat]

\* What FindFunctionIndex and AddConstant return is an index, or the one after.
LEMMA IndexIsNumber ==
  ASSUME NEW S, NEW constants \in Seq(S), NEW c
  PROVE  IndexOf(constants, c) \in Nat
<1> DEFINE I == {i \in 1 .. Len(constants) : constants[i] = c}
<1>1. CASE I = {}
  <2>1. ~Contains(constants, c)
    BY <1>1 DEF Contains
  <2> QED BY <2>1 DEF IndexOf
<1>2. CASE I # {}
  <2>1. I \in SUBSET Nat
    OBVIOUS
  <2>2. Min(I) \in I
    <3> HIDE DEF I
    <3> QED BY <1>2, <2>1, LeastNumber
  <2>3. SelectInSeq(constants, LAMBDA k : k = c) = Min(I)
    BY <1>2 DEF SelectInSeq
  <2>4. Contains(constants, c)
    BY <1>2 DEF Contains
  <2>5. IndexOf(constants, c) = Min(I) - 1
    BY <2>3, <2>4 DEF IndexOf
  <2>6. \A i \in I : i \in Nat /\ i >= 1
    OBVIOUS
  <2> HIDE DEF I
  <2> QED BY <2>2, <2>5, <2>6
<1> QED BY <1>1, <1>2

LEMMA FunctionIndexIsNumber ==
  ASSUME NEW S, functions \in Seq(S), NEW name
  PROVE  FindFunctionIndex(name) \in -1 .. Len(functions) - 1
<1> DEFINE I == {i \in 1 .. Len(functions) : functions[i].name = name}
<1>1. SelectInSeq(functions, LAMBDA f : f.name = name) = IF I # {} THEN Min(I) ELSE 0
  BY DEF SelectInSeq
<1>2. CASE I = {}
  BY <1>1, <1>2 DEF FindFunctionIndex
<1>3. CASE I # {}
  <2>1. I \in SUBSET Nat /\ \A i \in I : i \in 1 .. Len(functions)
    OBVIOUS
  <2>2. FindFunctionIndex(name) = Min(I) - 1
    BY <1>1, <1>3 DEF FindFunctionIndex
  <2> HIDE DEF I
  <2>3. Min(I) \in 1 .. Len(functions)
    BY <1>3, <2>1, LeastNumber
  <2> QED BY <2>2, <2>3
<1> QED BY <1>2, <1>3

\* Labels stand for instructions that are counted.
AreLabels(labels) == \A l \in labels : l[2] \in Nat

LEMMA NumbersParsed ==
  ASSUME NEW t
  PROVE  /\ ParseByte(t) \subseteq Int /\ ParseInt16(t) \subseteq Int
         /\ ParseInt24(t) \subseteq Int /\ ParseInt32(t) \subseteq Int
<1>1. \A range : NumberIn(t, range) \subseteq range
  BY DEF NumberIn
<1>2. \A k \in {2, 4} : SignedRange(k) \subseteq Int
  BY DEF SignedRange
<1>3. -(Span(3) - 1) .. Span(3) - 1 \subseteq Int /\ 0 .. ByteSize - 1 \subseteq Int
  OBVIOUS
<1> QED BY <1>1, <1>2, <1>3 DEF ParseByte, ParseInt16, ParseInt24, ParseInt32

LEMMA BytesParsed ==
  ASSUME NEW t
  PROVE  LowByte(t) \subseteq 0 .. ByteSize - 1 /\ ParseRegister(t) \subseteq 0 .. ByteSize - 1
<1>1. ASSUME NEW u PROVE LowByte(u) \subseteq 0 .. ByteSize - 1
  <2> SUFFICES ASSUME NEW n \in LowByte(u) PROVE n \in 0 .. ByteSize - 1
    OBVIOUS
  <2>1. PICK k \in ParseInt16(u) : n = Unsigned(k, 1)
    BY DEF LowByte
  <2>2. k \in Int
    BY NumbersParsed
  <2> QED BY <2>1, <2>2, UnsignedType, SpanFacts
<1> QED BY <1>1 DEF ParseRegister

LEMMA OffsetIsNumber ==
  ASSUME NEW f \in FunctionType, NEW labels, AreLabels(labels), NEW t, NEW number,
         number \subseteq Int
  PROVE  Offset(f, labels, t, number) \subseteq Int
<1>1. FindLabelAddress(labels, t) \subseteq Nat
  <2> DEFINE found == {l \in labels : l[1] = t.s /\ t.t = "word"}
             addresses == {l[2] : l \in found}
  <2>1. addresses \in SUBSET Nat
    BY DEF AreLabels
  <2>2. found # {} => addresses # {}
    OBVIOUS
  <2>3. found # {} => Min(addresses) \in Nat
    <3> HIDE DEF addresses, found
    <3> QED BY <2>1, <2>2, LeastNumber
  <2> QED BY <2>3 DEF FindLabelAddress
<1>2. Len(f.code) \in Nat
  BY DEF FunctionType
<1> PICK k : k = Len(f.code) + 1
  OBVIOUS
<1> PICK A : A = FindLabelAddress(labels, t)
  OBVIOUS
<1>3. Offset(f, labels, t, number) = IF A # {} THEN {a - k : a \in A} ELSE number
  BY DEF Offset
<1>4. k \in Int /\ A \subseteq Nat
  BY <1>1, <1>2
<1>5. \A a \in A : a - k \in Int
  BY <1>4
<1>6. ASSUME NEW S, S = {a - k : a \in A}
      PROVE  S \subseteq Int
  BY <1>5, <1>6
<1>7. {a - k : a \in A} \subseteq Int
  BY <1>6
<1> QED BY <1>3, <1>7

\* What is accepted as an operand is a number, whatever the token.
LEMMA OperandsAreNumbers ==
  ASSUME NEW f \in FunctionType, NEW labels, AreLabels(labels), functions \in Seq(FunctionType),
         NEW op, NEW i, NEW t
  PROVE  ParseOperand(f, labels, op, i, t) \subseteq Int
<1>1. f.constants \in Seq(Constants)
  BY DEF FunctionType
<1>2. ConstantIndex(f, t) \subseteq Int
  BY <1>1, IndexIsNumber DEF ConstantIndex
<1>3. \A range : NameIndex(f, t, range) \subseteq Int
  BY <1>2 DEF NameIndex
<1>4. \A u : LowByte(u) \subseteq Int /\ ParseRegister(u) \subseteq Int
  BY BytesParsed
<1>5. Offset(f, labels, t, ParseInt24(t)) \subseteq Int
      /\ Offset(f, labels, t, ParseInt32(t)) \subseteq Int
  BY OffsetIsNumber, NumbersParsed
<1>6. {FindFunctionIndex(t.s)} \subseteq Int
  BY FunctionIndexIsNumber
<1>7. \A S, T : S \subseteq Int => S \intersect T \subseteq Int
  OBVIOUS
<1> QED BY <1>2, <1>3, <1>4, <1>5, <1>6, <1>7, NumbersParsed DEF ParseOperand

-----------------------------------------------------------------------------
(* What a line adds to a function.                                         *)

Reserves(word) == Verb(word.op) \in Reserving
Attained(f) ==
  f.maxRegs = 0 \/ \E k \in DOMAIN f.code : Reserves(f.code[k]) /\ FieldU(f.code[k], "rA") + 1 = f.maxRegs
Reserved(f) ==
  /\ \A k \in DOMAIN f.code : Reserves(f.code[k]) => FieldU(f.code[k], "rA") < f.maxRegs
  /\ Attained(f)

LEMMA WordType ==
  ASSUME NEW op \in Opcodes, NEW operands, Operands(op, operands)
  PROVE  INS(op, operands) \in Words
<1>1. ASSUME NEW i \in 1 .. Len(op) - 1 PROVE Part(op, operands, i) \in Int
  <2>1. PICK places \in Layouts : Laid(op, places)
    BY OpcodesLaid
  <2>2. Len(op) = Len(places) + 1 /\ Place(op[i + 1]) = places[i]
    <3>1. Len(op) \in Nat /\ Len(places) \in Nat
      BY OpcodeShape DEF Shaped, Layouts
    <3>2. i + 1 \in 2 .. Len(op) /\ (i + 1) - 1 = i
      BY <3>1
    <3> QED BY <2>1, <3>2 DEF Laid
  <2>3. places[i] \in {<<2, 1>>, <<0, 3>>, <<1, 1>>, <<0, 2>>, <<1, 2>>, <<0, 1>>}
    <3>1. i \in 1 .. Len(places)
      BY <2>2, OpcodeShape DEF Shaped, Layouts
    <3> QED BY <3>1 DEF Layouts
  <2>4. PICK p \in 0 .. 2, k \in 1 .. 3 : places[i] = <<p, k>>
    BY <2>3
  <2> QED BY <2>2, <2>4, PartType
<1>2. Len(op) \in 1 .. 4
  BY OpcodeShape DEF Shaped
<1>3. INS(op, operands).abc \in Int
  <2>1. CASE Len(op) = 1
    <3>1. DOMAIN operands = 1 .. 0
      BY <2>1 DEF Operands
    <3>2. \A i \in 1 .. 0 : Part(op, operands, i) \in Int
      OBVIOUS
    <3>3. INS(op, operands).abc = 0
      BY <3>1, <3>2, WordSum
    <3> QED BY <3>3
  <2>2. CASE Len(op) = 2
    <3>1. INS(op, operands).abc = Part(op, operands, 1)
      BY <1>1, <2>2, WordOfParts
    <3>2. Part(op, operands, 1) \in Int
      BY <1>1, <2>2
    <3> QED BY <3>1, <3>2
  <2>3. CASE Len(op) = 3
    <3>1. INS(op, operands).abc = Part(op, operands, 1) + Part(op, operands, 2)
      BY <1>1, <2>3, WordOfParts
    <3>2. Part(op, operands, 1) \in Int /\ Part(op, operands, 2) \in Int
      BY <1>1, <2>3
    <3> QED BY <3>1, <3>2
  <2>4. CASE Len(op) = 4
    <3>1. INS(op, operands).abc = Part(op, operands, 1) + Part(op, operands, 2)
                                    + Part(op, operands, 3)
      BY <1>1, <2>4, WordOfParts
    <3>2. Part(op, operands, 1) \in Int /\ Part(op, operands, 2) \in Int /\ Part(op, operands, 3) \in Int
      BY <1>1, <2>4
    <3> QED BY <3>1, <3>2
  <2> QED BY <1>2, <2>1, <2>2, <2>3, <2>4
<1> QED BY <1>3 DEF INS, Words

\* The register a line reserves is the one the word names.
LEMMA FirstRegister ==
  ASSUME NEW op \in Opcodes, NEW operands, Operands(op, operands), op[1] \in Reserving,
         operands[1] \in 0 .. ByteSize - 1
  PROVE  FieldU(INS(op, operands), "rA") = operands[1]
<1>1. Len(op) >= 2 /\ op[2] \in {"rA", "iA"}
  BY ReservingFirst DEF FirstIsRegister
<1>2. 1 \in 1 .. Len(op) - 1 /\ Fields(op)[1] = op[2]
  BY <1>1, OpcodeShape DEF Shaped
<1>3. Place("rA") = <<2, 1>> /\ Place("iA") = <<2, 1>>
  BY DEF Place
<1>4. FieldU(INS(op, operands), Fields(op)[1]) = Unsigned(operands[1], Place(Fields(op)[1])[2])
  BY <1>2, WordsKeepOperands
<1>5. FieldU(INS(op, operands), op[2]) = FieldU(INS(op, operands), "rA")
  BY <1>1, <1>3 DEF FieldU
<1>6. Unsigned(operands[1], 1) = operands[1]
  BY UnsignedKeeps, SpanFacts
<1> QED BY <1>1, <1>2, <1>3, <1>4, <1>5, <1>6

\* A decimal number is one constant or none.
DecimalOf(t) == CHOOSE c \in ParseDouble(t) : TRUE
LEMMA DecimalParsed == \A t : ParseDouble(t) \in {{}, {DecimalOf(t)}}
BY DEF ParseDouble, DecimalOf

\* A token is one constant or none.
LEMMA ConstantFinite ==
  ASSUME NEW t
  PROVE  IsFiniteSet(ParseAsConstant(t))
<1>1. ParseInt32(t) \in {{}, {t.n}}
  BY DEF ParseInt32, NumberIn
<1>2. ParseAsConstant(t) \in {{}, {StringOf(t)}, {DecimalOf(t)}, {make_int(t.n)}}
  BY <1>1, DecimalParsed DEF ParseAsConstant
<1> QED BY <1>2, FS_EmptySet, FS_Singleton

LEMMA NewConstantsFinite ==
  ASSUME NEW f, NEW op, NEW x \in Seq(Tokens), Len(x) <= 3
  PROVE  /\ IsFiniteSet(NewConstants(f, op, x))
         /\ NewConstants(f, op, x) \subseteq Constants
<1> DEFINE P(i) == IF i \in DOMAIN x THEN ParseAsConstant(x[i]) ELSE {}
           all == P(1) \union P(2) \union P(3)
<1>1. \A i : IsFiniteSet(P(i))
  BY ConstantFinite, FS_EmptySet
<1>2. IsFiniteSet(all)
  <2> HIDE DEF P
  <2> QED BY <1>1, FS_Union
<1>3. ASSUME NEW c \in NewConstants(f, op, x)
      PROVE  c \in all /\ c \in Constants
  <2>1. PICK i \in DOMAIN x : c \in ParseAsConstant(x[i])
    BY DEF NewConstants
  <2>2. x[i] \in Tokens /\ i \in {1, 2, 3}
    BY <2>1
  <2> QED BY <2>1, <2>2 DEF Constants
<1> HIDE DEF all
<1>4. NewConstants(f, op, x) \subseteq all
  BY <1>3
<1> QED BY <1>2, <1>3, <1>4, FS_Subset

LEMMA SetToSeqIs ==
  ASSUME NEW S, IsFiniteSet(S)
  PROVE  SetToSeq(S) \in [1 .. Cardinality(S) -> S]
<1>1. Cardinality(S) \in Nat /\ ExistsBijection(1 .. Cardinality(S), S)
  BY FS_CardinalityType
<1>2. PICK g \in Bijection(1 .. Cardinality(S), S) : TRUE
  BY <1>1 DEF ExistsBijection
<1>3. g \in [1 .. Cardinality(S) -> S] /\ IsInjective(g)
  BY <1>2 DEF Bijection, Injection, IsInjective
<1> QED BY <1>3 DEF SetToSeq

LEMMA SetToSeqType ==
  ASSUME NEW T, NEW S \in SUBSET T, IsFiniteSet(S)
  PROVE  SetToSeq(S) \in Seq(T)
<1> QED BY SetToSeqIs, FS_CardinalityType

\* A word that is emitted keeps a function sound: its register was reserved before.
LEMMA EmitSound ==
  ASSUME NEW f \in FunctionType, Reserved(f), NEW op \in Opcodes, NEW x \in Seq(Tokens),
         Len(x) <= 3, NEW operands, Operands(op, operands),
         op[1] \in Reserving => operands[1] \in 0 .. ByteSize - 1
  PROVE  Emit(f, op, x, operands) \in FunctionType /\ Reserved(Emit(f, op, x, operands))
<1> PICK w : w = INS(op, operands)
  OBVIOUS
<1> PICK new : new = SetToSeq(NewConstants(f, op, x))
  OBVIOUS
<1> PICK regs : regs = IF Verb(op) \in Reserving THEN ReserveRegister(f.maxRegs, operands[1]) ELSE f.maxRegs
  OBVIOUS
<1> PICK g : g = Emit(f, op, x, operands)
  OBVIOUS
<1>1. w \in Words /\ w.op = op
  BY WordType DEF INS
<1>2. new \in Seq(Constants)
  BY NewConstantsFinite, SetToSeqType
<1>3. f.maxRegs \in Nat /\ f.code \in Seq(Words) /\ f.constants \in Seq(Constants)
  BY DEF FunctionType
<1>4. /\ regs \in Nat /\ regs >= f.maxRegs
      /\ op[1] \in Reserving => operands[1] < regs
  BY <1>3, ByteFacts DEF ReserveRegister, Verb
<1>5. g = [f EXCEPT !.code = Append(f.code, w), !.constants = f.constants \o new, !.maxRegs = regs]
  BY DEF Emit
<1>6. g \in FunctionType
  <2>1. Append(f.code, w) \in Seq(Words) /\ f.constants \o new \in Seq(Constants)
    BY <1>1, <1>2, <1>3
  <2> QED BY <1>4, <1>5, <2>1 DEF FunctionType
<1>7. g.code = Append(f.code, w) /\ g.maxRegs = regs
  BY <1>5 DEF FunctionType
<1>8. ASSUME NEW k \in DOMAIN g.code, Reserves(g.code[k])
      PROVE  FieldU(g.code[k], "rA") < g.maxRegs
  <2>1. CASE k \in DOMAIN f.code
    <3>1. g.code[k] = f.code[k]
      BY <1>1, <1>3, <1>7, <2>1
    <3>2. FieldU(f.code[k], "rA") < f.maxRegs
      BY <1>8, <2>1, <3>1 DEF Reserved
    <3>3. FieldU(f.code[k], "rA") \in Int
      <4>1. f.code[k] \in Words
        BY <1>3, <2>1
      <4>2. Place("rA") = <<2, 1>> /\ f.code[k].abc \in Int
        BY <4>1 DEF Place, Words
      <4>3. f.code[k].abc \div Span(2) \in Int
        BY <4>2, SpanFacts
      <4> QED BY <4>2, <4>3, UnsignedType DEF FieldU
    <3> QED BY <1>3, <1>4, <1>7, <3>1, <3>2, <3>3
  <2>2. CASE k \notin DOMAIN f.code
    <3>1. g.code[k] = w
      BY <1>1, <1>3, <1>7, <2>2
    <3>2. op[1] \in Reserving
      BY <1>1, <1>8, <3>1 DEF Reserves, Verb
    <3>3. FieldU(w, "rA") = operands[1]
      BY <3>2, FirstRegister
    <3> QED BY <1>4, <1>7, <3>1, <3>2, <3>3
  <2> QED BY <2>1, <2>2
<1>9. Attained(g)
  <2>1. DOMAIN g.code = 1 .. Len(f.code) + 1 /\ Len(f.code) \in Nat /\ DOMAIN f.code = 1 .. Len(f.code)
        /\ g.code[Len(f.code) + 1] = w /\ \A k \in DOMAIN f.code : g.code[k] = f.code[k]
    BY <1>1, <1>3, <1>7
  <2>2. CASE regs = f.maxRegs
    <3>1. f.maxRegs = 0 \/ \E k \in DOMAIN f.code : Reserves(f.code[k]) /\ FieldU(f.code[k], "rA") + 1 = f.maxRegs
      BY DEF Reserved, Attained
    <3>2. DOMAIN f.code \subseteq DOMAIN g.code
      BY <2>1
    <3> QED BY <1>7, <2>1, <2>2, <3>1, <3>2 DEF Attained
  <2>3. CASE regs # f.maxRegs
    <3>1. op[1] \in Reserving /\ regs = operands[1] + 1
      BY <2>3 DEF ReserveRegister, Verb
    <3>2. FieldU(w, "rA") = operands[1] /\ Reserves(w)
      BY <1>1, <3>1, FirstRegister DEF Reserves, Verb
    <3>3. Len(f.code) + 1 \in DOMAIN g.code
      BY <2>1
    <3> QED BY <1>7, <2>1, <3>1, <3>2, <3>3 DEF Attained
  <2> QED BY <2>2, <2>3
<1> QED BY <1>6, <1>8, <1>9 DEF Reserved

LEMMA ParamSound ==
  ASSUME NEW f \in FunctionType, Reserved(f), NEW x \in Seq(Tokens), NEW g \in AddParam(f, x)
  PROVE  g \in FunctionType /\ Reserved(g)
<1>1. PICK c \in Constants \union {Null} : g = [f EXCEPT !.params = Append(f.params, c)]
  <2>1. CASE x = <<>>
    <3>1. AddParam(f, x) = {}
      BY <2>1 DEF AddParam
    <3> QED BY <3>1
  <2>2. CASE Len(x) = 1
    <3>1. AddParam(f, x) = {[f EXCEPT !.params = Append(f.params, Null)]}
      BY <2>2 DEF AddParam
    <3> QED BY <3>1
  <2>3. CASE Len(x) > 1
    <3>1. AddParam(f, x) = {[f EXCEPT !.params = Append(f.params, c)] : c \in ParseAsConstant(x[2])}
      BY <2>3 DEF AddParam
    <3>2. x[2] \in Tokens
      BY <2>3
    <3>3. ParseAsConstant(x[2]) \subseteq Constants
      BY <3>2 DEF Constants
    <3> QED BY <3>1, <3>3
  <2>4. x = <<>> \/ Len(x) = 1 \/ Len(x) > 1
    <3>1. Len(x) \in Nat /\ (x = <<>> <=> Len(x) = 0)
      BY EmptySeq
    <3> PICK n, e : n = Len(x) /\ e = (x = <<>>)
      OBVIOUS
    <3>2. n \in Nat /\ (x = <<>> <=> n = 0) /\ (n = 0 \/ n = 1 \/ n > 1)
      BY <3>1
    <3> QED BY <3>2
  <2> QED BY <2>1, <2>2, <2>3, <2>4
<1>2. f.params \in Seq(Constants \union {Null})
  BY DEF FunctionType
<1>3. Append(f.params, c) \in Seq(Constants \union {Null})
  BY <1>1, <1>2
<1>4. g \in FunctionType /\ g.code = f.code /\ g.maxRegs = f.maxRegs
  BY <1>1, <1>3 DEF FunctionType
<1> QED BY <1>4 DEF Reserved, Attained

LEMMA InstructionSound ==
  ASSUME NEW f \in FunctionType, Reserved(f), NEW labels, AreLabels(labels),
         functions \in Seq(FunctionType), NEW verb \in Verbs, NEW x \in Seq(Tokens),
         NEW g \in AddInstruction(f, labels, verb, x)
  PROVE  g \in FunctionType /\ Reserved(g)
<1> PICK op : op = Form(verb, x)
  OBVIOUS
<1> PICK parsed : parsed = Parsed(f, labels, op, x)
  OBVIOUS
<1> PICK operands : operands = Chosen(parsed)
  OBVIOUS
<1>0. /\ Len(x) = Arity(verb) /\ \A i \in DOMAIN x : parsed[i] # {}
      /\ g = Emit(f, op, x, operands)
  BY DEF AddInstruction
<1>1. op \in Opcodes /\ op[1] = verb
  BY FormIsOpcode DEF FormOf
<1>2. Len(x) = Len(op) - 1 /\ Len(op) \in 1 .. 4 /\ DOMAIN x = 1 .. Len(op) - 1
  <2>1. Len(op) = Count(verb) + 1 /\ Len(x) = Count(verb)
    BY <1>0, <1>1, OpcodesCounted, ArityCounts DEF Counted
  <2>2. Len(op) \in 1 .. 4 /\ DOMAIN x = 1 .. Len(x)
    BY <1>1, OpcodeShape DEF Shaped
  <2>3. Count(verb) \in Nat
    BY DEF Count
  <2> QED BY <2>1, <2>2, <2>3
<1>3. /\ DOMAIN operands = DOMAIN x
      /\ \A i \in DOMAIN x : operands[i] \in ParseOperand(f, labels, op, i, x[i])
  <2>1. DOMAIN parsed = DOMAIN x /\ \A i \in DOMAIN x : parsed[i] = ParseOperand(f, labels, op, i, x[i])
    BY DEF Parsed
  <2>2. DOMAIN operands = DOMAIN parsed /\ \A i \in DOMAIN parsed : parsed[i] # {} => operands[i] \in parsed[i]
    BY DEF Chosen
  <2> QED BY <1>0, <2>1, <2>2
<1>4. Operands(op, operands)
  <2>1. DOMAIN operands = 1 .. Len(op) - 1
    BY <1>2, <1>3
  <2>2. \A i \in DOMAIN x : operands[i] \in Int
    BY <1>3, OperandsAreNumbers
  <2> QED BY <1>2, <2>1, <2>2 DEF Operands
<1>5. ASSUME op[1] \in Reserving PROVE operands[1] \in 0 .. ByteSize - 1
  <2>1. Len(op) >= 2 /\ (op[2] = "rA" \/ (op[1] = "FUNCREF" /\ op[2] = "iA"))
    BY <1>1, <1>5, ReservingFirst DEF FirstIsRegister
  <2>2. 1 \in DOMAIN x /\ Fields(op)[1] = op[2]
    BY <1>1, <1>2, <2>1, OpcodeShape DEF Shaped
  <2>3. ParseOperand(f, labels, op, 1, x[1]) = ParseRegister(x[1])
    BY <1>5, <2>1, <2>2 DEF ParseOperand, Verb, Reserving, Arithmetic, Comparing, Branching
  <2> QED BY <1>3, <2>2, <2>3, BytesParsed
<1>6. Len(x) <= 3
  <2> PICK n : n = Len(op)
    OBVIOUS
  <2>1. n \in 1 .. 4 /\ Len(x) = n - 1
    BY <1>2
  <2> QED BY ONLY <2>1
<1> QED BY <1>0, <1>1, <1>4, <1>5, <1>6, EmitSound

\* A line makes of a function that is sound one that is sound.
LEMMA LineSound ==
  ASSUME NEW f \in FunctionType, Reserved(f), NEW labels, AreLabels(labels),
         functions \in Seq(FunctionType), NEW line \in ProgramLines, NEW g \in AddLine(f, labels, line)
  PROVE  g \in FunctionType /\ Reserved(g)
<1> PICK verb : verb = line.verb
  OBVIOUS
<1> PICK x : x = IF verb \in {"NOOP", "RETURN"} THEN <<>> ELSE line.args
  OBVIOUS
<1>1. x \in Seq(Tokens)
  <2>1. <<>> \in Seq(Tokens)
    BY EmptySeq
  <2>2. line.args \in Seq(Tokens)
    BY DEF ProgramLines
  <2> QED BY <2>1, <2>2
<1>2. \A op \in Opcodes : op[1] # "" /\ op[1] # ".param"
  BY VerbsKnown DEF KnownVerbs, Arithmetic, Comparing, Branching, Skipping
<1>3. "" \notin Verbs /\ ".param" \notin Verbs
  BY <1>2 DEF Verbs, Verb
<1>4. CASE verb = ""
  <2>1. AddLine(f, labels, line) = {f}
    BY <1>3, <1>4 DEF AddLine
  <2> QED BY <2>1
<1>5. CASE verb = ".param"
  <2>1. AddLine(f, labels, line) = AddParam(f, x)
    BY <1>3, <1>5 DEF AddLine
  <2> QED BY <1>1, <2>1, ParamSound
<1>6. CASE verb \notin Verbs /\ verb # "" /\ verb # ".param"
  <2>1. AddLine(f, labels, line) = {}
    BY <1>6 DEF AddLine
  <2> QED BY <2>1
<1>7. CASE verb \in Verbs
  <2>1. AddLine(f, labels, line) = AddInstruction(f, labels, verb, x)
    BY <1>3, <1>7 DEF AddLine
  <2> QED BY <1>1, <1>7, <2>1, InstructionSound
<1> QED BY <1>4, <1>5, <1>6, <1>7

-----------------------------------------------------------------------------
(* Functions.                                                              *)

\* The body of a function lies within the program.
LEMMA LinesFound ==
  ASSUME source \in Seq(ProgramLines), NEW start \in 1 .. Len(source)
  PROVE  /\ StartLine(start) \in start .. Len(source) + 1
         /\ EndLine(start) \in StartLine(start) .. Len(source) + 1
<1> PICK last : last = Len(source) + 1
  OBVIOUS
<1>1. last \in Nat /\ start \in Nat /\ start <= last
  OBVIOUS
<1> DEFINE starts == {i \in start .. last : i <= Len(source) => ~IsFunctionLabel(source[i])}
<1>2. starts \in SUBSET Nat /\ last \in starts /\ \A i \in starts : i \in start .. last
  BY <1>1
<1>3. StartLine(start) = Min(starts)
  BY DEF StartLine
<1>4. Min(starts) \in start .. last
  <2> HIDE DEF starts
  <2> QED BY <1>2, LeastNumber
<1> PICK first : first = StartLine(start)
  OBVIOUS
<1>5. first \in start .. last
  BY <1>3, <1>4
<1> DEFINE ends == {i \in first .. last : i <= Len(source) => IsFunctionLabel(source[i])}
<1>6. ends \in SUBSET Nat /\ last \in ends /\ \A i \in ends : i \in first .. last
  BY <1>1, <1>5
<1>7. EndLine(start) = Min(ends)
  BY DEF EndLine
<1>8. Min(ends) \in first .. last
  <2> HIDE DEF ends
  <2> QED BY <1>6, LeastNumber
<1> QED BY <1>5, <1>7, <1>8

LEMMA LabelsCounted ==
  ASSUME NEW first \in Int, NEW end \in Int
  PROVE  AreLabels(Labels(first, end))
<1>1. ASSUME NEW i \in first .. end - 1
      PROVE  Cardinality({j \in first .. i - 1 : source[j].verb # ""}) \in Nat
  <2>1. IsFiniteSet(first .. i - 1)
    BY FS_Interval
  <2>2. {j \in first .. i - 1 : source[j].verb # ""} \in SUBSET (first .. i - 1)
    OBVIOUS
  <2> QED BY <2>1, <2>2, FS_Subset, FS_CardinalityType
<1>2. ASSUME NEW l \in Labels(first, end) PROVE l[2] \in Nat
  <2>1. PICK i \in first .. end - 1 :
          l = <<source[i].label, Cardinality({j \in first .. i - 1 : source[j].verb # ""})>>
    BY DEF Labels
  <2> QED BY <1>1, <2>1
<1> QED BY <1>2 DEF AreLabels

WithLine(built, labels, line) == UNION {AddLine(f, labels, line) : f \in built}

BuiltUpTo(name, labels, first, b, end) ==
  b = [n \in first - 1 .. end |-> IF n < first THEN {Function(name)}
                                  ELSE WithLine(b[n - 1], labels, source[n])]

\* The recursive function in Body exists: it is built up line by line.
LEMMA BuiltExists ==
  ASSUME NEW name, NEW labels, NEW first \in Nat \ {0}, NEW end \in Nat, end >= first - 1
  PROVE  \E b : BuiltUpTo(name, labels, first, b, end)
<1> DEFINE Missing == {m \in Nat : m >= first - 1 /\ ~ \E b : BuiltUpTo(name, labels, first, b, m)}
<1> SUFFICES ASSUME Missing # {} PROVE FALSE
  OBVIOUS
<1>0. PICK m : m = Min(Missing)
  OBVIOUS
<1>1. m \in Nat /\ m \in Missing /\ \A k \in Missing : m <= k
  BY <1>0, LeastNumber
<1>2. CASE m = first - 1
  <2> DEFINE z == [k \in first - 1 .. m |-> {Function(name)}]
  <2>1. z = [k \in first - 1 .. m |-> IF k < first THEN {Function(name)}
                                      ELSE WithLine(z[k - 1], labels, source[k])]
    BY <1>2
  <2> HIDE DEF z
  <2>2. BuiltUpTo(name, labels, first, z, m)
    BY <2>1 DEF BuiltUpTo
  <2> QED BY <1>1, <2>2
<1>3. CASE m # first - 1
  <2>1. m \in Nat /\ m - 1 \in Nat /\ m - 1 >= first - 1 /\ m - 1 \notin Missing
    BY <1>1, <1>3
  <2>2. PICK b : BuiltUpTo(name, labels, first, b, m - 1)
    BY <2>1
  <2> DEFINE g == [k \in first - 1 .. m |-> IF k < first THEN {Function(name)}
                                            ELSE WithLine(b[k - 1], labels, source[k])]
  <2>3. \A k \in first - 1 .. m - 1 : g[k] = b[k]
    <3> SUFFICES ASSUME NEW k \in first - 1 .. m - 1 PROVE g[k] = b[k]
      OBVIOUS
    <3>1. b[k] = IF k < first THEN {Function(name)} ELSE WithLine(b[k - 1], labels, source[k])
      BY <2>2 DEF BuiltUpTo
    <3>2. k \in first - 1 .. m
      BY <2>1
    <3> QED BY <3>1, <3>2
  <2>4. \A k \in first - 1 .. m : ~(k < first) => g[k - 1] = b[k - 1]
    <3> HIDE DEF g
    <3> QED BY <2>1, <2>3
  <2>5. g = [k \in first - 1 .. m |-> IF k < first THEN {Function(name)}
                                      ELSE WithLine(g[k - 1], labels, source[k])]
    BY <2>4
  <2> HIDE DEF g
  <2>6. BuiltUpTo(name, labels, first, g, m)
    BY <2>5 DEF BuiltUpTo
  <2> QED BY <1>1, <2>6
<1> QED BY <1>2, <1>3

\* The functions after each line of a body, from the empty one on.
BuiltBy(b, name, labels, first, end) ==
  /\ b[first - 1] = {Function(name)}
  /\ \A n \in first .. end - 1 : b[n] = WithLine(b[n - 1], labels, source[n])

LEMMA BodyBuilt ==
  ASSUME NEW name, NEW labels, NEW first \in Nat \ {0}, NEW end \in Nat, end >= first
  PROVE  \E b : /\ BuiltBy(b, name, labels, first, end)
                /\ Body(name, labels, first, end) = b[end - 1]
<1> DEFINE built[n \in first - 1 .. end - 1] ==
             IF n < first THEN {Function(name)}
             ELSE UNION {AddLine(f, labels, source[n]) : f \in built[n - 1]}
<1>0. end - 1 \in Nat /\ end - 1 >= first - 1
  OBVIOUS
<1>1. PICK b : BuiltUpTo(name, labels, first, b, end - 1)
  BY <1>0, BuiltExists
<1>2. b = [n \in first - 1 .. end - 1 |->
             IF n < first THEN {Function(name)}
             ELSE UNION {AddLine(f, labels, source[n]) : f \in b[n - 1]}]
  BY <1>1 DEF BuiltUpTo, WithLine
<1>3. built = [n \in first - 1 .. end - 1 |->
             IF n < first THEN {Function(name)}
             ELSE UNION {AddLine(f, labels, source[n]) : f \in built[n - 1]}]
  BY <1>2
<1>4. Body(name, labels, first, end) = built[end - 1]
  BY DEF Body
<1> HIDE DEF built
<1>5. built = [n \in first - 1 .. end - 1 |->
             IF n < first THEN {Function(name)} ELSE WithLine(built[n - 1], labels, source[n])]
  BY <1>3 DEF WithLine
<1>6. BuiltBy(built, name, labels, first, end)
  <2>1. \A n \in first - 1 .. end - 1 :
          built[n] = IF n < first THEN {Function(name)}
                     ELSE WithLine(built[n - 1], labels, source[n])
    BY <1>5
  <2>2. first \in Nat \ {0} /\ end \in Nat /\ end >= first
    OBVIOUS
  <2> QED BY ONLY <2>1, <2>2 DEF BuiltBy
<1> QED BY <1>4, <1>6

Sound(f) == f \in FunctionType /\ Reserved(f)

LEMMA EmptySound == ASSUME NEW name \in Names PROVE Sound(Function(name))
<1>1. <<>> \in Seq(Words) /\ <<>> \in Seq(Constants) /\ <<>> \in Seq(Constants \union {Null})
  BY EmptySeq
<1>2. DOMAIN Function(name).code = {} /\ Function(name).maxRegs = 0
  BY DEF Function
<1>3. Function(name) \in FunctionType
  BY <1>1 DEF Function, FunctionType
<1> QED BY <1>2, <1>3 DEF Sound, Reserved, Attained

\* The body of a function is sound, whatever its lines.
LEMMA BodySound ==
  ASSUME source \in Seq(ProgramLines), functions \in Seq(FunctionType),
         NEW name \in Names, NEW labels, AreLabels(labels),
         NEW first \in 1 .. Len(source) + 1, NEW end \in first .. Len(source) + 1,
         NEW g \in Body(name, labels, first, end)
  PROVE  Sound(g)
<1>0. first \in Nat \ {0} /\ end \in Nat /\ end >= first
  OBVIOUS
<1>1. PICK b : /\ BuiltBy(b, name, labels, first, end)
               /\ Body(name, labels, first, end) = b[end - 1]
  BY <1>0, BodyBuilt
<1> DEFINE Bad == {n \in Nat : n \in first - 1 .. end - 1 /\ \E f \in b[n] : ~Sound(f)}
<1>12. end - 1 \in Nat /\ end - 1 \in first - 1 .. end - 1
  BY <1>0
<1> SUFFICES ASSUME Bad # {} PROVE FALSE
  <2>1. g \in b[end - 1]
    BY <1>1
  <2> QED BY <1>12, <2>1
<1>2. PICK m : m = Min(Bad)
  OBVIOUS
<1>3. m \in Bad /\ \A k \in Bad : m <= k
  BY <1>2, LeastNumber
<1>4. PICK f \in b[m] : ~Sound(f)
  BY <1>3
<1>5. m # first - 1
  <2>1. b[first - 1] = {Function(name)}
    BY <1>1 DEF BuiltBy
  <2>2. Sound(Function(name))
    BY EmptySound
  <2> QED BY <1>4, <2>1, <2>2
<1>6. m \in first .. end - 1 /\ m - 1 \in Nat /\ m - 1 \in first - 1 .. end - 1 /\ m - 1 \notin Bad
  BY <1>0, <1>3, <1>5
<1>7. \A h \in b[m - 1] : Sound(h)
  BY <1>6
<1> PICK line : line = source[m]
  OBVIOUS
<1>8. line \in ProgramLines
  BY <1>0, <1>6
<1>9. b[m] = WithLine(b[m - 1], labels, line)
  BY <1>1, <1>6 DEF BuiltBy
<1>10. PICK h \in b[m - 1] : f \in AddLine(h, labels, line)
  BY <1>4, <1>9 DEF WithLine
<1>11. Sound(h)
  BY <1>7
<1> QED BY <1>4, <1>8, <1>10, <1>11, LineSound DEF Sound

-----------------------------------------------------------------------------
(* Numbers in order.                                                       *)

Below(S, i) == {j \in S : j <= i}

LEMMA Counted1 ==
  ASSUME NEW n \in Nat, NEW S \in SUBSET (1 .. n)
  PROVE  IsFiniteSet(S) /\ Cardinality(S) \in Nat
<1>1. 1 \in Int /\ n \in Int
  OBVIOUS
<1>2. IsFiniteSet(1 .. n)
  BY <1>1, FS_Interval
<1>3. IsFiniteSet(S)
  BY <1>2, FS_Subset
<1> QED BY <1>3, FS_CardinalityType

LEMMA BelowIs ==
  ASSUME NEW n \in Nat, NEW S \in SUBSET (1 .. n)
  PROVE  /\ Below(S, n) = S /\ Below(S, 0) = {}
         /\ \A i \in Nat \ {0} :
              Below(S, i) = IF i \in S THEN Below(S, i - 1) \union {i} ELSE Below(S, i - 1)
<1>1. \A j \in S : j \in Nat /\ j <= n /\ ~(j <= 0)
  OBVIOUS
<1>2. Below(S, n) = S /\ Below(S, 0) = {}
  BY <1>1 DEF Below
<1>3. ASSUME NEW i \in Nat \ {0}, NEW j
      PROVE  j \in Below(S, i) <=> j \in Below(S, i - 1) \/ (j \in S /\ j = i)
  <2>1. CASE j \in S
    <3>1. j \in Nat /\ (j <= i <=> (j <= i - 1 \/ j = i))
      BY <1>1, <2>1
    <3> QED BY <2>1, <3>1 DEF Below
  <2>2. CASE j \notin S
    BY <2>2 DEF Below
  <2> QED BY <2>1, <2>2
<1>4. ASSUME NEW i \in Nat \ {0}
      PROVE  Below(S, i) = IF i \in S THEN Below(S, i - 1) \union {i} ELSE Below(S, i - 1)
  BY <1>3
<1> QED BY <1>2, <1>4

\* The elements of a set, in order, are its elements.
LEMMA NthIn ==
  ASSUME NEW n \in Nat, NEW S \in SUBSET (1 .. n), NEW k \in 1 .. Cardinality(S)
  PROVE  Nth(S, k) \in S /\ Cardinality(Below(S, Nth(S, k))) = k
<1>1. IsFiniteSet(S) /\ Cardinality(S) \in Nat
  BY Counted1
<1>2. \A i : IsFiniteSet(Below(S, i)) /\ Cardinality(Below(S, i)) \in Nat
  <2> TAKE i
  <2>1. Below(S, i) \in SUBSET S
    BY DEF Below
  <2> QED BY <1>1, <2>1, FS_Subset, FS_CardinalityType
<1> DEFINE Enough == {i \in Nat : Cardinality(Below(S, i)) >= k}
<1>3. n \in Enough
  <2>1. Below(S, n) = S
    BY BelowIs
  <2> QED BY <1>1, <2>1
<1> PICK m : m = Min(Enough)
  OBVIOUS
<1>4. m \in Nat /\ Cardinality(Below(S, m)) >= k /\ \A i \in Enough : m <= i
  BY <1>3, LeastNumber
<1>5. m # 0
  <2>1. Below(S, 0) = {}
    BY BelowIs
  <2>2. Cardinality(Below(S, 0)) = 0
    BY <2>1, FS_EmptySet
  <2> QED BY <1>4, <2>2
<1>6. m - 1 \in Nat /\ Cardinality(Below(S, m - 1)) < k
  <2>1. m - 1 \in Nat /\ m - 1 \notin Enough
    BY <1>4, <1>5
  <2> QED BY <1>2, <2>1
<1>7. m \in S
  <2> SUFFICES ASSUME m \notin S PROVE FALSE
    OBVIOUS
  <2>1. Below(S, m) = Below(S, m - 1)
    BY <1>4, <1>5, BelowIs
  <2> QED BY <1>2, <1>4, <1>6, <2>1
<1>8. Cardinality(Below(S, m)) = k
  <2>1. Below(S, m) = Below(S, m - 1) \union {m}
    BY <1>4, <1>5, <1>7, BelowIs
  <2>3. m \notin Below(S, m - 1)
    BY <1>4 DEF Below
  <2>2. Cardinality(Below(S, m)) = Cardinality(Below(S, m - 1)) + 1
    BY <1>2, <2>1, <2>3, FS_AddElement
  <2> QED BY <1>2, <1>4, <1>6, <2>2
<1>9. \E i \in S : Cardinality({j \in S : j <= i}) = k
  BY <1>7, <1>8 DEF Below
<1> QED BY <1>9 DEF Nth, Below

-----------------------------------------------------------------------------
(* The assembler.                                                          *)

TypeInv ==
  /\ source \in Seq(ProgramLines)
  /\ lineNum \in Nat \ {0}
  /\ functions \in Seq(FunctionType)

AllReserved == \A i \in DOMAIN functions : Reserved(functions[i])

AssemblerInv == TypeInv /\ AllReserved

LEMMA ExceptKeeps ==
  ASSUME NEW S, NEW q \in Seq(S), NEW at, NEW c \in S
  PROVE  [q EXCEPT ![at] = c] \in Seq(S)
<1>1. CASE at \in 1 .. Len(q)
  BY <1>1, ExceptSeq
<1>2. CASE at \notin 1 .. Len(q)
  <2>1. [q EXCEPT ![at] = c] = q
    BY <1>2
  <2> QED BY <2>1
<1> QED BY <1>1, <1>2

\* What each step of the assembly keeps.
LEMMA NamesTyped == ASSUME source \in Seq(ProgramLines) PROVE FunctionNames \in Seq(Names)
<1> DEFINE S == {i \in DOMAIN source : IsFunctionLabel(source[i])}
<1> PICK labels : labels = InOrder(S)
  OBVIOUS
<1> PICK found : found = [k \in DOMAIN labels |-> source[labels[k]].func]
  OBVIOUS
<1>1. Len(source) \in Nat /\ S \in SUBSET (1 .. Len(source))
  OBVIOUS
<1>2. Cardinality(S) \in Nat
  <2> HIDE DEF S
  <2> QED BY <1>1, Counted1
<1>3. DOMAIN labels = 1 .. Cardinality(S) /\ \A k \in 1 .. Cardinality(S) : labels[k] = Nth(S, k)
  <2> HIDE DEF S
  <2> QED BY DEF InOrder
<1>4. \A k \in DOMAIN labels : labels[k] \in DOMAIN source
  <2>1. S \subseteq DOMAIN source
    OBVIOUS
  <2> HIDE DEF S
  <2> QED BY <1>1, <1>3, <2>1, NthIn
<1>5. \A i \in DOMAIN source : source[i].func \in Names
  <2>1. \A i \in DOMAIN source : source[i] \in ProgramLines
    OBVIOUS
  <2> QED BY <2>1 DEF ProgramLines, Names
<1>6. found \in Seq(Names)
  <2> PICK c : c = Cardinality(S)
    OBVIOUS
  <2> PICK T : T = Names
    OBVIOUS
  <2>1. found \in [1 .. c -> T]
    BY <1>3, <1>4, <1>5
  <2>2. c \in Nat
    BY <1>2
  <2>3. found \in Seq(T)
    BY ONLY <2>1, <2>2
  <2> QED BY <2>3
<1>7. FunctionNames \in {found, Append(found, "@main")}
  BY DEF FunctionNames
<1>8. Append(found, "@main") \in Seq(Names)
  <2> PICK T, v : T = Names /\ v = "@main"
    OBVIOUS
  <2>1. found \in Seq(T) /\ v \in T
    BY <1>6 DEF Names
  <2>2. Append(found, v) \in Seq(T)
    BY <2>1
  <2> QED BY <2>2
<1> QED BY <1>6, <1>7, <1>8

LEMMA CollectKeeps == ASSUME AssemblerInv, CollectFunctions PROVE AssemblerInv'
<1> PICK names : names = FunctionNames
  OBVIOUS
<1> PICK twice : twice = {i \in DOMAIN names : \E j \in 1 .. i - 1 : names[j] = names[i]}
  OBVIOUS
<1> PICK kept : kept = IF twice = {} THEN names ELSE SubSeq(names, 1, Min(twice) - 1)
  OBVIOUS
<1>1. functions' = [i \in DOMAIN kept |-> Function(kept[i])]
  BY DEF CollectFunctions
<1>2. names \in Seq(Names)
  BY NamesTyped DEF AssemblerInv, TypeInv
<1>3. kept \in Seq(Names)
  <2>1. twice \in SUBSET Nat /\ twice \subseteq 1 .. Len(names)
    BY <1>2
  <2>2. twice # {} => Min(twice) \in 1 .. Len(names)
    BY <2>1, LeastNumber
  <2>3. twice # {} => SubSeq(names, 1, Min(twice) - 1) \in Seq(Names)
    <3> PICK T : T = Names
      OBVIOUS
    <3>1. names \in Seq(T)
      BY <1>2
    <3>2. ASSUME NEW k \in 1 .. Len(names) PROVE SubSeq(names, 1, k - 1) \in Seq(T)
      BY <3>1
    <3> QED BY <2>2, <3>2
  <2> QED BY <1>2, <2>3
<1>4. \A i \in DOMAIN kept : Sound(Function(kept[i]))
  <2> PICK T : T = Names
    OBVIOUS
  <2>1. \A i \in DOMAIN kept : kept[i] \in T
    BY <1>3, SMTT(30)
  <2> QED BY <2>1, EmptySound
<1>5. functions' \in Seq(FunctionType) /\ \A i \in DOMAIN functions' : Reserved(functions'[i])
  <2>1. DOMAIN functions' = 1 .. Len(kept) /\ Len(kept) \in Nat
    <3> PICK T : T = Names
      OBVIOUS
    <3>1. kept \in Seq(T)
      BY <1>3
    <3>2. DOMAIN functions' = DOMAIN kept
      BY <1>1
    <3>3. DOMAIN kept = 1 .. Len(kept) /\ Len(kept) \in Nat
      BY ONLY <3>1
    <3> QED BY <3>2, <3>3
  <2>2. \A i \in DOMAIN functions' : functions'[i] \in FunctionType /\ Reserved(functions'[i])
    BY <1>1, <1>4 DEF Sound
  <2>3. functions' = [i \in 1 .. Len(kept) |-> functions'[i]]
    BY <1>1, <2>1
  <2>4. \A i \in 1 .. Len(kept) : functions'[i] \in FunctionType
    BY <2>1, <2>2
  <2> PICK c, fs : c = Len(kept) /\ fs = functions'
    OBVIOUS
  <2>5. c \in Nat /\ fs = [i \in 1 .. c |-> fs[i]] /\ \A i \in 1 .. c : fs[i] \in FunctionType
    BY <2>1, <2>3, <2>4
  <2>6. fs \in Seq(FunctionType)
    BY ONLY <2>5
  <2> QED BY <2>2, <2>6
<1>6. UNCHANGED <<source, lineNum>>
  BY DEF CollectFunctions
<1> QED BY <1>5, <1>6 DEF AssemblerInv, TypeInv, AllReserved, Reserved, Attained

LEMMA AssembleFunctionKeeps == ASSUME AssemblerInv, AssembleFunction PROVE AssemblerInv'
<1>0. /\ source \in Seq(ProgramLines) /\ functions \in Seq(FunctionType)
      /\ lineNum \in 1 .. Len(source)
  BY DEF AssemblerInv, TypeInv, AssembleFunction
<1> PICK first : first = StartLine(lineNum)
  OBVIOUS
<1> PICK end : end = EndLine(lineNum)
  OBVIOUS
<1> PICK name : name = IF IsFunctionLabel(source[lineNum]) THEN source[lineNum].func ELSE "@main"
  OBVIOUS
<1> PICK built : built = Body(name, Labels(first, end), first, end)
  OBVIOUS
<1> PICK chosen : chosen = CHOOSE f \in built : TRUE
  OBVIOUS
<1> PICK at : at = FindFunctionIndex(name) + 1
  OBVIOUS
<1>1. /\ functions' = IF built = {} THEN functions ELSE [functions EXCEPT ![at] = chosen]
      /\ lineNum' = end /\ source' = source
  BY DEF AssembleFunction
<1>2. first \in 1 .. Len(source) + 1 /\ end \in first .. Len(source) + 1
  BY <1>0, LinesFound
<1>3. name \in Names
  <2>1. source[lineNum] \in ProgramLines
    BY <1>0
  <2>2. source[lineNum].func \in STRING
    BY <2>1 DEF ProgramLines
  <2> QED BY <2>2 DEF Names
<1>4. AreLabels(Labels(first, end))
  <2>1. first \in Int /\ end \in Int
    BY <1>2
  <2> QED BY <2>1, LabelsCounted
<1>5. built # {} => Sound(chosen)
  <2>1. built # {} => chosen \in built
    OBVIOUS
  <2> QED BY <1>0, <1>2, <1>3, <1>4, <2>1, BodySound
<1>6. functions' \in Seq(FunctionType) /\ \A i \in DOMAIN functions' : Reserved(functions'[i])
  <2>1. CASE built = {}
    BY <1>0, <1>1, <2>1 DEF AssemblerInv, AllReserved
  <2>2. CASE built # {}
    <3>1. functions' = [functions EXCEPT ![at] = chosen] /\ chosen \in FunctionType /\ Reserved(chosen)
      BY <1>1, <1>5, <2>2 DEF Sound
    <3>2. functions' \in Seq(FunctionType) /\ DOMAIN functions' = DOMAIN functions
      <4> PICK fs, S : fs = functions /\ S = FunctionType
        OBVIOUS
      <4>1. fs \in Seq(S) /\ chosen \in S
        BY <1>0, <3>1
      <4>2. [fs EXCEPT ![at] = chosen] \in Seq(S)
        BY <4>1, ExceptKeeps
      <4> QED BY <3>1, <4>2
    <3>3. \A i \in DOMAIN functions : functions'[i] = IF i = at THEN chosen ELSE functions[i]
      BY <3>1
    <3> QED BY <3>1, <3>2, <3>3 DEF AssemblerInv, AllReserved
  <2> QED BY <2>1, <2>2
<1>7. lineNum' \in Nat \ {0}
  BY <1>1, <1>2
<1> QED BY <1>0, <1>1, <1>6, <1>7 DEF AssemblerInv, TypeInv, AllReserved, Reserved, Attained

\* After the assembly the program is not changed.
LEMMA ProgramFixed ==
  ASSUME AssemblerInv, UNCHANGED <<source, functions, lineNum>>
  PROVE  AssemblerInv'
BY DEF AssemblerInv, TypeInv, AllReserved, Reserved, Attained

LEMMA NextKeeps == ASSUME AssemblerInv, [Next]_vars PROVE AssemblerInv'
<1>1. CASE CollectFunctions
  BY <1>1, CollectKeeps
<1>2. CASE SkipEmptyLine
  BY <1>2 DEF SkipEmptyLine, AssemblerInv, TypeInv, AllReserved, Reserved, Attained
<1>3. CASE AssembleFunction
  BY <1>3, AssembleFunctionKeeps
<1>4. CASE FinishAssembly
  BY <1>4, ProgramFixed DEF FinishAssembly
<1>5. CASE Host
  <2>1. UNCHANGED <<source, functions, lineNum>>
    BY <1>5 DEF Host, HostStep, AssemblyFailed, Reset, EnterRun, Report, Quit
  <2> QED BY <2>1, ProgramFixed
<1>6. CASE Run
  <2>1. UNCHANGED <<source, functions, lineNum>>
    BY <1>6 DEF Run, RunVars, Stay, OutOfCycles, LoopEnds, OutOfCode, Throw, NoOp, Load,
       Calculation, Compare, Jump, BranchIf, Branch, Skip, CannotIndex, StrayArgument,
       CallRefused, CallFunction, CallNamed, ReturnToCaller, ReturnFromMain
  <2> QED BY <2>1, ProgramFixed
<1>7. CASE UNCHANGED vars
  BY <1>7, ProgramFixed DEF vars, assemblerVars
<1> QED BY <1>1, <1>2, <1>3, <1>4, <1>5, <1>6, <1>7 DEF Next, AssembleStep, Assemble

LEMMA InitHolds == Init => AssemblerInv
<1> SUFFICES ASSUME Init PROVE AssemblerInv
  OBVIOUS
<1>1. source \in Sources /\ functions = <<>> /\ lineNum = 1
  BY DEF Init, AssemblerInit
<1>2. source \in Seq(ProgramLines)
  BY <1>1, MachineAssumption
<1>3. functions \in Seq(FunctionType) /\ DOMAIN functions = {}
  BY <1>1, EmptySeq
<1> QED BY <1>1, <1>2, <1>3 DEF AssemblerInv, TypeInv, AllReserved

LEMMA ReservedWritten == AssemblerInv => RegistersReserved
<1>1. (Writing \ {"CALLFN"}) \union {"NAME"} = Reserving
  BY DEF Writing, Reserving, Arithmetic, Comparing
<1>2. \A word : WritesReserved(word) <=> Reserves(word)
  BY <1>1 DEF WritesReserved, Reserves
<1> QED BY <1>2 DEF AssemblerInv, AllReserved, Reserved, Attained, RegistersReserved

\* What the assembler has built at any moment is typed: every word is that of an
\* opcode, and every reservation, every constant and every name is one.
THEOREM ProgramsTyped == Spec => []TypeInv
<1>1. Init => AssemblerInv
  BY InitHolds
<1>2. AssemblerInv /\ [Next]_vars => AssemblerInv'
  BY NextKeeps
<1>3. AssemblerInv => TypeInv
  BY DEF AssemblerInv
<1> QED BY <1>1, <1>2, <1>3, PTL DEF Spec

\* Every register an instruction of a function writes or names, CALLFN's left out, is
\* below the count the function reserves (FuncDef.ReserveRegister), and that count is 0 or
\* one above such a register: so CALLFN's is reserved only where another instruction
\* has it or a higher one.  Of every program, whether its assembly succeeds or not.
THEOREM RegistersAreReserved == Spec => []RegistersReserved
<1>1. Init => AssemblerInv
  BY InitHolds
<1>2. AssemblerInv /\ [Next]_vars => AssemblerInv'
  BY NextKeeps
<1> QED BY <1>1, <1>2, ReservedWritten, PTL DEF Spec
-----------------------------------------------------------------------------
(* What the operands of a word mean.                                       *)

\* Which opcodes have constants, and which operands are cut to one byte.
FieldFacts(op) ==
  \A i \in 1 .. Len(op) - 1 :
    /\ op[i + 1] = "kC" => op[1] \in {"LOADV", "LOADC", "ASSIGN"}
    /\ op[i + 1] = "kBC" => op[1] \in {"LOAD", "NAME", "CALLFN"} /\ i = 2
    /\ op[1] \in Branching /\ i < 3 => op[i + 1] \in {"rA", "iA", "rB", "iB"}
    /\ op[1] \in {"CALLF", "CALLFN"} /\ i = 1 => op[i + 1] = "iA"
    /\ op[1] \in {"CALLF", "FUNCREF"} /\ i = 2 => op[i + 1] = "iBC"
    /\ op[1] = "NAME" => i < 3
    /\ op[1] = "FUNCREF" => i < 3 /\ (i = 1 => op[i + 1] = "iA")
    /\ op[1] \in {"BRTRUE", "BRFALSE"} /\ i # 2 => op[i + 1] = "rA"
    /\ op[1] \in {"NAME", "CALLFN"} => op[i + 1] \in {"rA", "iA", "kBC"}
    /\ op[1] \in {"NAME", "CALLFN"} /\ i = 2 => op[i + 1] = "kBC"
    /\ op[1] = "NAME" /\ i = 1 => op[i + 1] = "rA"

LEMMA Facts1 == ASSUME NEW v PROVE FieldFacts(<<v>>)
BY DEF FieldFacts
LEMMA Facts2 ==
  ASSUME NEW v, NEW a, a \notin {"kC", "kBC"}, v \notin {"CALLF", "CALLFN", "FUNCREF", "NAME", "BRTRUE", "BRFALSE"} \union Branching
  PROVE  FieldFacts(<<v, a>>)
BY DEF FieldFacts
LEMMA Facts3 ==
  ASSUME NEW v, NEW a, NEW b, a \notin {"kC", "kBC"}, b # "kC",
         b = "kBC" => v \in {"LOAD", "NAME", "CALLFN"},
         v \in {"CALLF", "CALLFN", "FUNCREF"} => a = "iA",
         v \in {"NAME", "CALLFN"} => b = "kBC", v = "NAME" => a = "rA",
         v \in {"CALLF", "FUNCREF"} => b = "iBC", v \notin Branching, v \in {"BRTRUE", "BRFALSE"} => a = "rA"
  PROVE  FieldFacts(<<v, a, b>>)
BY DEF FieldFacts
LEMMA Facts4 ==
  ASSUME NEW v, NEW a, NEW b, NEW c, a \in {"rA", "iA"}, b \in {"rB", "iB"}, c # "kBC",
         c = "kC" => v \in {"LOADV", "LOADC", "ASSIGN"},
         v \notin {"CALLF", "CALLFN", "FUNCREF", "NAME", "BRTRUE", "BRFALSE"}
  PROVE  FieldFacts(<<v, a, b, c>>)
BY DEF FieldFacts

LEMMA OpcodeFields == \A op \in Opcodes : FieldFacts(op)
BY Facts1, Facts2, Facts3, Facts4 DEF Opcodes, Arithmetic, Branching

Bytes(op, i) == Place(Fields(op)[i])[2]
RegisterField(op, i) == Fields(op)[i] \in {"rA", "rB", "rC"} \/ (Verb(op) = "FUNCREF" /\ i = 1)
ConstantField(op, i) == Fields(op)[i] \in {"kC", "kBC"}
JumpField(op, i) ==
  \/ Verb(op) = "JUMP" \/ (Verb(op) \in {"BRTRUE", "BRFALSE"} /\ i = 2)
  \/ (Verb(op) \in Branching /\ i = 3)

\* What is read from the field of an operand, if the operand is a number, a label, a
\* constant or a function: the k-th word of a function with these labels and constants
\* in a program with functions of these names.
Means(u, op, i, t, k, labels, constants, names) ==
  /\ Numeric(op, i, t) => u = Unsigned(t.n, Bytes(op, i))
  /\ RegisterField(op, i) => IsReg(t)
  /\ Numeric(op, i, t) /\ IsReg(t) => RegisterField(op, i)
  /\ JumpField(op, i) /\ t.t = "word" =>
       \E a \in FindLabelAddress(labels, t) : u = Unsigned(a - k, Bytes(op, i))
  /\ ConstantField(op, i) /\ t.t # "const" =>
       \E n \in DOMAIN constants : /\ constants[n] \in ParseAsConstant(t)
                                  /\ u = Unsigned(n - 1, Bytes(op, i))
  /\ Verb(op) = "CALLF" /\ i = 2 =>
       \E n \in DOMAIN names : names[n] = t.s /\ u = Unsigned(n - 1, Bytes(op, i))

NamesOf(fs) == [i \in DOMAIN fs |-> fs[i].name]

LEMMA ByteOnce == ASSUME NEW n \in Int PROVE Unsigned(Unsigned(n, 1), 1) = Unsigned(n, 1)
<1>1. Unsigned(n, 1) \in 0 .. Span(1) - 1
  BY UnsignedType
<1> QED BY <1>1, UnsignedKeeps

\* The number of a token that is parsed.
LEMMA ParsedIs ==
  ASSUME NEW t \in Tokens, NEW n
  PROVE  /\ n \in ParseByte(t) \union ParseInt16(t) \union ParseInt24(t) \union ParseInt32(t)
              => t.t = "num" /\ n = t.n
         /\ n \in LowByte(t) => t.t = "num" /\ n = Unsigned(t.n, 1)
         /\ n \in ParseRegister(t) => IsReg(t) /\ n = Unsigned(t.n, 1)
<1>1. ASSUME NEW u, NEW range, NEW m \in NumberIn(u, range) PROVE u.t = "num" /\ m = u.n
  BY DEF NumberIn
<1>2. ASSUME NEW u, NEW m \in ParseByte(u) \union ParseInt16(u) \union ParseInt24(u) \union ParseInt32(u)
      PROVE  u.t = "num" /\ m = u.n
  BY <1>1 DEF ParseByte, ParseInt16, ParseInt24, ParseInt32
<1>3. ASSUME NEW u, NEW m \in LowByte(u) PROVE u.t = "num" /\ m = Unsigned(u.n, 1)
  BY <1>2 DEF LowByte
<1>4. ASSUME n \in ParseRegister(t) PROVE IsReg(t) /\ n = Unsigned(t.n, 1)
  <2>1. IsReg(t) /\ n \in LowByte([t EXCEPT !.t = "num"])
    BY <1>4 DEF ParseRegister
  <2>2. n = Unsigned([t EXCEPT !.t = "num"].n, 1)
    BY <1>3, <2>1
  <2>3. [t EXCEPT !.t = "num"].n = t.n
    BY DEF Tokens
  <2> QED BY <2>1, <2>2, <2>3
<1> QED BY <1>2, <1>3, <1>4

\* The ways to parse an operand.
OffsetParsed(f, labels, op, i, t, n) ==
  JumpField(op, i) /\ n \in Offset(f, labels, t, ParseInt24(t) \union ParseInt32(t))
FunctionParsed(op, i, t, n) ==
  Verb(op) \in {"CALLF", "FUNCREF"} /\ i = 2 /\ n = FindFunctionIndex(t.s)
    /\ (Verb(op) = "CALLF" => n \in Nat)
NumberParsed(op, i, t, n) ==
  /\ ~RegisterField(op, i) /\ ~(Verb(op) = "CALLF" /\ i = 2)
  /\ ~ConstantField(op, i)
  /\ t.t # "const" => t.t = "num" /\ (n = t.n \/ (Bytes(op, i) = 1 /\ n = Unsigned(t.n, 1)))
ConstantParsed(f, op, i, t, n) ==
  /\ ~RegisterField(op, i) /\ ConstantField(op, i)
  /\ t.t # "const" => n \in ConstantIndex(f, t)

LEMMA OperandParsed ==
  ASSUME NEW f, NEW labels, NEW op \in Opcodes, NEW i \in 1 .. Len(op) - 1, NEW t \in Tokens,
         NEW n \in ParseOperand(f, labels, op, i, t)
  PROVE  \/ RegisterField(op, i) /\ n \in ParseRegister(t)
         \/ ~RegisterField(op, i) /\ OffsetParsed(f, labels, op, i, t, n)
         \/ ~RegisterField(op, i) /\ FunctionParsed(op, i, t, n)
         \/ NumberParsed(op, i, t, n)
         \/ ConstantParsed(f, op, i, t, n)
<1> PICK field, verb : field = Fields(op)[i] /\ verb = Verb(op)
  OBVIOUS
<1>0. /\ field = "kC" => verb \in {"LOADV", "LOADC", "ASSIGN"}
      /\ field = "kBC" => verb \in {"LOAD", "NAME", "CALLFN"} /\ i = 2
      /\ verb \in Branching /\ i < 3 => field \in {"rA", "iA", "rB", "iB"}
      /\ verb \in {"CALLF", "CALLFN"} /\ i = 1 => field = "iA"
      /\ verb \in {"CALLF", "FUNCREF"} /\ i = 2 => field = "iBC"
      /\ verb \in {"BRTRUE", "BRFALSE"} /\ i # 2 => field = "rA"
      /\ verb \in {"NAME", "CALLFN"} => field \in {"rA", "iA", "kBC"}
      /\ verb \in {"NAME", "CALLFN"} /\ i = 2 => field = "kBC"
      /\ verb = "NAME" /\ i = 1 => field = "rA"
      /\ verb \in {"NAME", "FUNCREF"} => i < 3
      /\ i \in {1, 2, 3}
  <2>1. FieldFacts(op) /\ Shaped(op)
    BY OpcodeFields, OpcodeShape
  <2>2. field = op[i + 1] /\ verb = op[1] /\ i \in 1 .. 3
    BY <2>1 DEF Shaped, Verb
  <2> QED BY <2>1, <2>2 DEF FieldFacts
<1>1. CASE RegisterField(op, i)
  BY <1>1 DEF ParseOperand, RegisterField
<1> SUFFICES ASSUME ~RegisterField(op, i) PROVE OffsetParsed(f, labels, op, i, t, n)
             \/ FunctionParsed(op, i, t, n) \/ NumberParsed(op, i, t, n) \/ ConstantParsed(f, op, i, t, n)
  BY <1>1
<1>2. /\ field \in {"iA", "iB"} => Bytes(op, i) = 1
  BY DEF Bytes, Place
<1>3. field \notin {"rA", "rB", "rC"} /\ ~(verb = "FUNCREF" /\ i = 1)
  BY DEF RegisterField
<1>4. CASE ConstantField(op, i)
  <2>1. field \in {"kC", "kBC"}
    BY <1>4 DEF ConstantField
  <2>2. CASE field = "kC"
    <3>1. ParseOperand(f, labels, op, i, t) = NameIndex(f, t, 0 .. ByteSize - 1)
      BY <1>0, <1>3, <2>2 DEF ParseOperand, Branching, Comparing
    <3> QED BY <1>4, <3>1 DEF ConstantParsed, NameIndex
  <2>3. CASE field = "kBC" /\ verb = "LOAD" /\ t.t # "const"
    <3>1. ParseOperand(f, labels, op, i, t) = ConstantIndex(f, t)
      BY <1>0, <1>3, <2>3 DEF ParseOperand, Branching, Comparing
    <3> QED BY <1>4, <3>1 DEF ConstantParsed
  <2>4. CASE field = "kBC" /\ verb = "NAME"
    <3>1. ParseOperand(f, labels, op, i, t) = NameIndex(f, t, 0 .. Span(2) - 1)
      BY <1>0, <1>3, <2>4 DEF ParseOperand, Branching, Comparing
    <3> QED BY <1>4, <3>1 DEF ConstantParsed, NameIndex
  <2>5. CASE field = "kBC" /\ verb = "CALLFN"
    <3>1. ParseOperand(f, labels, op, i, t) = NameIndex(f, t, Nat)
      BY <1>0, <1>3, <2>5 DEF ParseOperand, Branching, Comparing
    <3> QED BY <1>4, <3>1 DEF ConstantParsed, NameIndex
  <2>6. CASE t.t = "const" /\ verb = "LOAD"
    BY <1>4, <2>6 DEF ConstantParsed
  <2> QED BY <1>0, <2>1, <2>2, <2>3, <2>4, <2>5, <2>6
<1>5. CASE ~ConstantField(op, i) /\ JumpField(op, i)
  <2>1. field \notin {"kC", "kBC"}
    BY <1>5 DEF ConstantField
  <2>2. \A number, more : Offset(f, labels, t, number) \subseteq Offset(f, labels, t, number \union more)
                      /\ Offset(f, labels, t, number) \subseteq Offset(f, labels, t, more \union number)
    BY DEF Offset
  <2>3. ParseOperand(f, labels, op, i, t) \subseteq Offset(f, labels, t, ParseInt24(t))
                                                     \union Offset(f, labels, t, ParseInt32(t))
    BY <1>0, <1>3, <1>5, <2>1 DEF ParseOperand, JumpField, Branching, Comparing
  <2> QED BY <1>5, <2>2, <2>3 DEF OffsetParsed
<1>6. CASE verb \in {"CALLF", "FUNCREF"} /\ i = 2
  <2>1. field = "iBC"
    BY <1>0, <1>6
  <2>2. verb = "CALLF" => ParseOperand(f, labels, op, i, t) = {FindFunctionIndex(t.s)} \intersect Nat
    BY <1>6, <2>1 DEF ParseOperand, Branching, Comparing
  <2>3. verb = "FUNCREF" => ParseOperand(f, labels, op, i, t) = {FindFunctionIndex(t.s)}
    BY <1>6, <2>1 DEF ParseOperand, Branching, Comparing
  <2> QED BY <1>6, <2>2, <2>3 DEF FunctionParsed
<1>7. CASE ~ConstantField(op, i) /\ ~JumpField(op, i) /\ ~(verb \in {"CALLF", "FUNCREF"} /\ i = 2)
  <2>1. field \notin {"kC", "kBC"}
    BY <1>7 DEF ConstantField
  <2>2. CASE (verb \in Branching /\ i < 3) \/ (verb \in {"CALLF", "CALLFN"} /\ i = 1)
    <3>1. Bytes(op, i) = 1
      BY <1>0, <1>2, <1>3, <2>2
    <3>2. ParseOperand(f, labels, op, i, t) = LowByte(t)
      BY <1>0, <1>3, <2>1, <2>2 DEF ParseOperand, Branching, Comparing
    <3> QED BY <1>7, <2>1, <2>2, <3>1, <3>2, ParsedIs DEF NumberParsed
  <2>3. CASE ~((verb \in Branching /\ i < 3) \/ (verb \in {"CALLF", "CALLFN"} /\ i = 1))
    <3>1. \A S : n \in ParseInt32(t) \intersect S => n \in ParseInt32(t)
      OBVIOUS
    <3>2. verb \notin Branching /\ ~(verb \in {"BRTRUE", "BRFALSE"}) /\ verb # "JUMP"
      BY <1>0, <1>3, <1>7, <2>3 DEF JumpField
    <3>3. CASE verb \in Comparing
      <4>1. ParseOperand(f, labels, op, i, t) = ParseByte(t)
        BY <1>0, <1>3, <2>1, <3>2, <3>3 DEF ParseOperand, Comparing
      <4> QED BY <1>7, <4>1, ParsedIs DEF NumberParsed
    <3>4. CASE verb \in {"ARGBLK", "ARG"}
      <4>1. ParseOperand(f, labels, op, i, t) \subseteq ParseInt32(t)
        BY <1>0, <1>3, <2>1, <3>2, <3>4 DEF ParseOperand, Branching, Comparing
      <4> QED BY <1>7, <4>1, ParsedIs DEF NumberParsed
    <3>5. CASE verb \notin Comparing \union {"ARGBLK", "ARG"} /\ t.t # "const"
      <4>1. ParseOperand(f, labels, op, i, t) = ParseInt16(t)
        BY <1>0, <1>3, <1>7, <2>1, <2>3, <3>2, <3>5 DEF ParseOperand
      <4> QED BY <1>7, <4>1, ParsedIs DEF NumberParsed
    <3>6. CASE t.t = "const"
      BY <1>7, <3>6 DEF NumberParsed
    <3> QED BY <3>3, <3>4, <3>5, <3>6
  <2> QED BY <2>2, <2>3
<1> QED BY <1>4, <1>5, <1>6, <1>7

LEMMA BytesType == ASSUME NEW op \in Opcodes, NEW i \in 1 .. Len(op) - 1 PROVE Bytes(op, i) \in 1 .. 3
<1>1. PICK places \in Layouts : Laid(op, places)
  BY OpcodesLaid
<1>2. Fields(op)[i] = op[i + 1] /\ i + 1 \in 2 .. Len(op)
  BY OpcodeShape DEF Shaped
<1>3. Place(Fields(op)[i]) = places[i] /\ i \in 1 .. Len(places)
  BY <1>1, <1>2 DEF Laid
<1>4. \A p \in Layouts : \A j \in 1 .. Len(p) : p[j][2] \in 1 .. 3
  BY DEF Layouts
<1> QED BY <1>1, <1>3, <1>4 DEF Bytes

\* A token that makes a constant, and the offset of one that names a label.
LEMMA ConstantToken ==
  ASSUME NEW t \in Tokens, NEW c \in ParseAsConstant(t)
  PROVE  t.t \in {"text", "dec", "num"}
<1>1. CASE t.t \notin {"text", "dec"}
  <2>1. ParseAsConstant(t) = {make_int(n) : n \in ParseInt32(t)}
    BY <1>1 DEF ParseAsConstant
  <2>2. PICK n \in ParseInt32(t) : c = make_int(n)
    BY <2>1
  <2> QED BY <2>2, ParsedIs
<1> QED BY <1>1

LEMMA OffsetIs ==
  ASSUME NEW f, NEW labels, NEW t, NEW number, NEW n \in Offset(f, labels, t, number)
  PROVE  \/ t.t = "word" /\ \E a \in FindLabelAddress(labels, t) : n = a - (Len(f.code) + 1)
         \/ n \in number
<1>1. CASE FindLabelAddress(labels, t) = {}
  BY <1>1 DEF Offset
<1>2. CASE FindLabelAddress(labels, t) # {}
  <2>1. t.t = "word"
    BY <1>2 DEF FindLabelAddress
  <2> QED BY <1>2, <2>1 DEF Offset
<1> QED BY <1>1, <1>2

LEMMA FunctionFound ==
  ASSUME NEW S, functions \in Seq(S), NEW name, FindFunctionIndex(name) \in Nat
  PROVE  /\ FindFunctionIndex(name) + 1 \in DOMAIN functions
         /\ functions[FindFunctionIndex(name) + 1].name = name
<1> DEFINE I == {i \in 1 .. Len(functions) : functions[i].name = name}
<1>1. SelectInSeq(functions, LAMBDA f : f.name = name) = IF I # {} THEN Min(I) ELSE 0
  BY DEF SelectInSeq
<1>2. CASE I = {}
  <2>1. FindFunctionIndex(name) = -1
    BY <1>1, <1>2 DEF FindFunctionIndex
  <2> QED BY <2>1
<1>3. CASE I # {}
  <2>1. I \in SUBSET Nat
    OBVIOUS
  <2>2. \A i \in I : i \in DOMAIN functions /\ functions[i].name = name
    OBVIOUS
  <2>3. FindFunctionIndex(name) = Min(I) - 1
    BY <1>1, <1>3 DEF FindFunctionIndex
  <2> HIDE DEF I
  <2>4. Min(I) \in I
    BY <1>3, <2>1, LeastNumber
  <2> PICK m : m = Min(I)
    OBVIOUS
  <2>5. m \in Nat /\ m \in DOMAIN functions /\ functions[m].name = name
    BY <2>1, <2>2, <2>4
  <2>6. FindFunctionIndex(name) + 1 = m
    BY <2>3, <2>5
  <2> QED BY <2>5, <2>6
<1> QED BY <1>2, <1>3

\* Whatever is accepted as an operand, its field is read as what the token says.
LEMMA OperandMeans ==
  ASSUME NEW f \in FunctionType, NEW labels, functions \in Seq(FunctionType), NEW op \in Opcodes,
         NEW i \in 1 .. Len(op) - 1, NEW t \in Tokens, NEW n \in ParseOperand(f, labels, op, i, t),
         NEW k, k = Len(f.code) + 1, NEW constants,
         \A c \in ParseAsConstant(t) : ConstantField(op, i) =>
           \E j \in DOMAIN constants : IndexOf(f.constants, c) = j - 1 /\ constants[j] = c
  PROVE  Means(Unsigned(n, Bytes(op, i)), op, i, t, k, labels, constants, NamesOf(functions))
<1> PICK verb : verb = Verb(op)
  OBVIOUS
<1>0. /\ ConstantField(op, i) => verb \in {"LOADV", "LOADC", "ASSIGN", "LOAD", "NAME", "CALLFN"}
      /\ RegisterField(op, i) => Bytes(op, i) = 1
      /\ RegisterField(op, i) => ~ConstantField(op, i)
      /\ RegisterField(op, i) => ~(verb = "CALLF" /\ i = 2)
  <2>1. FieldFacts(op) /\ Shaped(op)
    BY OpcodeFields, OpcodeShape
  <2>2. Fields(op)[i] = op[i + 1] /\ verb = op[1]
    BY <2>1 DEF Shaped, Verb
  <2> QED BY <2>1, <2>2 DEF FieldFacts, ConstantField, RegisterField, Bytes, Place
<1>1. ConstantField(op, i) => ~JumpField(op, i) /\ ~(verb \in {"CALLF", "FUNCREF"})
  BY <1>0 DEF JumpField, Branching
<1>2. CASE RegisterField(op, i) /\ n \in ParseRegister(t)
  <2>1. IsReg(t) /\ n = Unsigned(t.n, 1) /\ t.n \in Int
    BY <1>2, ParsedIs DEF Tokens
  <2>2. Unsigned(n, Bytes(op, i)) = Unsigned(t.n, Bytes(op, i))
    BY <1>0, <1>2, <2>1, ByteOnce
  <2>3. t.t # "word"
    BY <2>1 DEF IsReg
  <2> QED BY <1>0, <1>2, <2>1, <2>2, <2>3 DEF Means
<1>3. CASE ~RegisterField(op, i) /\ OffsetParsed(f, labels, op, i, t, n)
  <2>1. JumpField(op, i) /\ ~ConstantField(op, i) /\ verb \notin {"CALLF", "FUNCREF"}
    BY <1>1, <1>3 DEF OffsetParsed, JumpField, Branching
  <2>2. \/ t.t = "word" /\ \E a \in FindLabelAddress(labels, t) : n = a - k
        \/ n \in ParseInt24(t) \union ParseInt32(t)
    BY <1>3, OffsetIs DEF OffsetParsed
  <2>3. CASE t.t = "word" /\ \E a \in FindLabelAddress(labels, t) : n = a - k
    <3>1. ~Numeric(op, i, t)
      BY <2>3 DEF Numeric, IsReg
    <3> QED BY <1>3, <2>1, <2>3, <3>1 DEF Means
  <2>4. CASE n \in ParseInt24(t) \union ParseInt32(t)
    <3>1. t.t = "num" /\ n = t.n /\ ~IsReg(t)
      BY <2>4, ParsedIs DEF IsReg
    <3> QED BY <1>3, <2>1, <3>1 DEF Means
  <2> QED BY <2>2, <2>3, <2>4
<1>4. CASE ~RegisterField(op, i) /\ FunctionParsed(op, i, t, n)
  <2>1. verb \in {"CALLF", "FUNCREF"} /\ i = 2 /\ n = FindFunctionIndex(t.s)
    BY <1>4 DEF FunctionParsed
  <2>2. ~Numeric(op, i, t) /\ ~ConstantField(op, i) /\ ~JumpField(op, i)
    BY <1>1, <2>1 DEF Numeric, JumpField, Branching
  <2>3. verb = "CALLF" =>
          \E j \in DOMAIN NamesOf(functions) : NamesOf(functions)[j] = t.s /\ n = j - 1
    <3> SUFFICES ASSUME verb = "CALLF"
                 PROVE  \E j \in DOMAIN NamesOf(functions) : NamesOf(functions)[j] = t.s /\ n = j - 1
      OBVIOUS
    <3>1. n \in Nat
      BY <1>4 DEF FunctionParsed
    <3>2. n + 1 \in DOMAIN functions /\ functions[n + 1].name = t.s
      BY <2>1, <3>1, FunctionFound
    <3>3. n = (n + 1) - 1
      BY <3>1
    <3> QED BY <3>2, <3>3 DEF NamesOf
  <2> QED BY <1>4, <2>2, <2>3 DEF Means
<1>5. CASE NumberParsed(op, i, t, n)
  <2>1. ~RegisterField(op, i) /\ ~(verb = "CALLF" /\ i = 2) /\ ~ConstantField(op, i)
    BY <1>5 DEF NumberParsed
  <2>2. CASE t.t = "const"
    <3>1. ~Numeric(op, i, t)
      BY <2>2 DEF Numeric, IsReg
    <3> QED BY <2>1, <2>2, <3>1 DEF Means
  <2>3. CASE t.t # "const"
    <3>1. t.t = "num" /\ (n = t.n \/ (Bytes(op, i) = 1 /\ n = Unsigned(t.n, 1))) /\ t.n \in Int
      BY <1>5, <2>3 DEF NumberParsed, Tokens
    <3>2. Unsigned(n, Bytes(op, i)) = Unsigned(t.n, Bytes(op, i))
      BY <3>1, ByteOnce
    <3>3. ~IsReg(t)
      BY <3>1 DEF IsReg
    <3> QED BY <2>1, <3>1, <3>2, <3>3 DEF Means
  <2> QED BY <2>2, <2>3
<1>6. CASE ConstantParsed(f, op, i, t, n)
  <2>1. ~RegisterField(op, i) /\ ConstantField(op, i)
    BY <1>6 DEF ConstantParsed
  <2>2. ~Immediate(Fields(op)[i])
    BY <2>1 DEF ConstantField, Immediate
  <2>3. CASE t.t = "const"
    <3>1. ~Numeric(op, i, t)
      BY <2>3 DEF Numeric, IsReg
    <3> QED BY <1>1, <2>1, <2>3, <3>1 DEF Means
  <2>4. CASE t.t # "const"
    <3>1. PICK c \in ParseAsConstant(t) : n = IndexOf(f.constants, c)
      BY <1>6, <2>4 DEF ConstantParsed, ConstantIndex
    <3>2. t.t \in {"text", "dec", "num"}
      BY <3>1, ConstantToken
    <3>3. ~Numeric(op, i, t)
      BY <2>2, <3>2 DEF Numeric, IsReg
    <3>4. PICK j \in DOMAIN constants : n = j - 1 /\ constants[j] = c
      BY <2>1, <3>1
    <3> QED BY <1>1, <2>1, <3>1, <3>3, <3>4 DEF Means
  <2> QED BY <2>3, <2>4
<1> QED BY <1>2, <1>3, <1>4, <1>5, <1>6, OperandParsed

-----------------------------------------------------------------------------
(* What an instruction adds to a function.                                 *)

\* The constants of a function stay where they are.
Extends(constants, old) ==
  \A n \in DOMAIN old : n \in DOMAIN constants /\ constants[n] = old[n]

LEMMA MeansStays ==
  ASSUME NEW u, NEW op, NEW i, NEW t, NEW k, NEW labels, NEW constants, NEW more, NEW names,
         Means(u, op, i, t, k, labels, constants, names), Extends(more, constants)
  PROVE  Means(u, op, i, t, k, labels, more, names)
BY DEF Means, Extends

\* At most one operand of an opcode is a constant.
OneConstant(op) ==
  \A i, j \in 1 .. Len(op) - 1 :
    op[i + 1] \in {"kC", "kBC"} /\ op[j + 1] \in {"kC", "kBC"} => i = j

LEMMA One1 == ASSUME NEW v PROVE OneConstant(<<v>>)
BY DEF OneConstant
LEMMA One2 == ASSUME NEW v, NEW a PROVE OneConstant(<<v, a>>)
BY DEF OneConstant
LEMMA One3 == ASSUME NEW v, NEW a, a \notin {"kC", "kBC"}, NEW b PROVE OneConstant(<<v, a, b>>)
BY DEF OneConstant
LEMMA One4 ==
  ASSUME NEW v, NEW a, NEW b, NEW c, a \notin {"kC", "kBC"}, b \notin {"kC", "kBC"}
  PROVE  OneConstant(<<v, a, b, c>>)
BY DEF OneConstant
LEMMA ConstantsOnce == \A op \in Opcodes : OneConstant(op)
BY One1, One2, One3, One4 DEF Opcodes

LEMMA SingleConstant ==
  ASSUME NEW t, NEW c \in ParseAsConstant(t)
  PROVE  ParseAsConstant(t) = {c}
<1>1. ParseInt32(t) \in {{}, {t.n}}
  BY DEF ParseInt32, NumberIn
<1>2. ParseAsConstant(t) \in {{}, {StringOf(t)}, {DecimalOf(t)}, {make_int(t.n)}}
  BY <1>1, DecimalParsed DEF ParseAsConstant
<1> QED BY <1>2

\* What an instruction with a constant operand adds to the constants.
LEMMA ConstantsAdded ==
  ASSUME NEW f \in FunctionType, NEW op \in Opcodes, NEW x \in Seq(Tokens), DOMAIN x = 1 .. Len(op) - 1,
         NEW i \in DOMAIN x, ConstantField(op, i), NEW c \in ParseAsConstant(x[i])
  PROVE  NewConstants(f, op, x) = IF Contains(f.constants, c) THEN {} ELSE {c}
<1>1. Shaped(op) /\ OneConstant(op)
  BY OpcodeShape, ConstantsOnce
<1>2. ASSUME NEW j \in DOMAIN x, Fields(op)[j] \in {"kC", "kBC"} PROVE j = i
  <2>1. Fields(op)[j] = op[j + 1] /\ Fields(op)[i] = op[i + 1]
    BY <1>1 DEF Shaped
  <2> QED BY <1>1, <1>2, <2>1 DEF OneConstant, ConstantField
<1>3. x[i].t # "const"
  <2>1. x[i] \in Tokens
    OBVIOUS
  <2> QED BY <2>1, ConstantToken
<1>4. {j \in DOMAIN x : Fields(op)[j] \in {"kC", "kBC"} /\ x[j].t # "const"} = {i}
  BY <1>2, <1>3 DEF ConstantField
<1>5. UNION {ParseAsConstant(x[j]) :
               j \in {j \in DOMAIN x : Fields(op)[j] \in {"kC", "kBC"} /\ x[j].t # "const"}} = {c}
  BY <1>4, SingleConstant
<1> QED BY <1>5 DEF NewConstants

LEMMA NewConstantsOnce ==
  ASSUME NEW f, NEW op \in Opcodes, NEW x \in Seq(Tokens), DOMAIN x = 1 .. Len(op) - 1,
         NEW c \in NewConstants(f, op, x), NEW d \in NewConstants(f, op, x)
  PROVE  c = d
<1>1. Shaped(op) /\ OneConstant(op)
  BY OpcodeShape, ConstantsOnce
<1>2. ASSUME NEW i \in DOMAIN x, Fields(op)[i] \in {"kC", "kBC"},
             NEW j \in DOMAIN x, Fields(op)[j] \in {"kC", "kBC"}
      PROVE  j = i
  <2>1. Fields(op)[j] = op[j + 1] /\ Fields(op)[i] = op[i + 1]
    BY <1>1 DEF Shaped
  <2> QED BY <1>1, <1>2, <2>1 DEF OneConstant
<1>3. PICK i \in DOMAIN x : Fields(op)[i] \in {"kC", "kBC"} /\ c \in ParseAsConstant(x[i])
  BY DEF NewConstants
<1>4. PICK j \in DOMAIN x : Fields(op)[j] \in {"kC", "kBC"} /\ d \in ParseAsConstant(x[j])
  BY DEF NewConstants
<1>5. i = j
  BY <1>2, <1>3, <1>4
<1> QED BY <1>3, <1>4, <1>5, SingleConstant

LEMMA ConstantIndexed ==
  ASSUME NEW S, NEW constants \in Seq(S), NEW c, Contains(constants, c)
  PROVE  \E j \in DOMAIN constants : IndexOf(constants, c) = j - 1 /\ constants[j] = c
<1> DEFINE I == {i \in 1 .. Len(constants) : constants[i] = c}
<1>1. I # {} /\ I \in SUBSET Nat /\ I \subseteq DOMAIN constants /\ \A i \in I : constants[i] = c
  BY DEF Contains
<1>2. SelectInSeq(constants, LAMBDA k : k = c) = Min(I)
  BY <1>1 DEF SelectInSeq
<1>3. IndexOf(constants, c) = Min(I) - 1
  BY <1>2 DEF IndexOf
<1> HIDE DEF I
<1>4. Min(I) \in I
  BY <1>1, LeastNumber
<1> QED BY <1>1, <1>3, <1>4

\* The k-th word of a function is what a verb with these operands makes.
Says(word, k, verb, x, labels, constants, names) ==
  /\ word.op \in Opcodes /\ word.op = Form(verb, x) /\ Verb(word.op) = verb
  /\ DOMAIN x = 1 .. Len(word.op) - 1
  /\ \A i \in 1 .. Len(word.op) - 1 :
       Means(FieldU(word, Fields(word.op)[i]), word.op, i, x[i], k, labels, constants, names)

LEMMA SaysStays ==
  ASSUME NEW word, NEW k, NEW verb, NEW x, NEW labels, NEW constants, NEW more, NEW names,
         Says(word, k, verb, x, labels, constants, names), Extends(more, constants)
  PROVE  Says(word, k, verb, x, labels, more, names)
BY MeansStays DEF Says

LEMMA OneMore ==
  ASSUME NEW S, NEW old \in Seq(S), NEW new \in Seq(S), Len(new) = 1
  PROVE  LET n == Len(old) IN
         n + 1 \in DOMAIN (old \o new) /\ (old \o new)[n + 1] = new[1] /\ n = (n + 1) - 1
<1> PICK n, all : n = Len(old) /\ all = old \o new
  OBVIOUS
<1>1. n \in Nat /\ Len(all) = n + 1 /\ all \in Seq(S)
  BY ConcatProperties, LenProperties
<1>2. all[n + 1] = IF n + 1 <= n THEN old[n + 1] ELSE new[n + 1 - n]
  BY <1>1, ConcatProperties
<1>3. n + 1 \in DOMAIN all /\ n + 1 - n = 1 /\ ~(n + 1 <= n) /\ n = (n + 1) - 1
  BY <1>1
<1> QED BY <1>2, <1>3

\* What a step of the second pass does to a function.
Continues(g, f) == g.name = f.name /\ Extends(g.constants, f.constants)

LEMMA InstructionSays ==
  ASSUME NEW f \in FunctionType, NEW labels, AreLabels(labels), functions \in Seq(FunctionType),
         NEW verb \in Verbs, NEW x \in Seq(Tokens), NEW g \in AddInstruction(f, labels, verb, x)
  PROVE  /\ Continues(g, f) /\ g.constants \in Seq(Constants) /\ Len(g.constants) <= Len(f.constants) + 1
         /\ \E w : /\ g.code = Append(f.code, w)
                  /\ Says(w, Len(f.code) + 1, verb, x, labels, g.constants, NamesOf(functions))
<1> PICK op : op = Form(verb, x)
  OBVIOUS
<1> PICK parsed : parsed = Parsed(f, labels, op, x)
  OBVIOUS
<1> PICK operands : operands = Chosen(parsed)
  OBVIOUS
<1>0. /\ Len(x) = Arity(verb) /\ \A i \in DOMAIN x : parsed[i] # {}
      /\ g = Emit(f, op, x, operands)
  BY DEF AddInstruction
<1>1. op \in Opcodes /\ op[1] = verb
  BY FormIsOpcode DEF FormOf
<1>2. DOMAIN x = 1 .. Len(op) - 1 /\ Len(op) - 1 \in 0 .. 3 /\ Len(x) = Len(op) - 1
  <2>1. Len(op) = Count(verb) + 1 /\ Len(x) = Count(verb)
    BY <1>0, <1>1, OpcodesCounted, ArityCounts DEF Counted
  <2>2. Len(op) \in 1 .. 4 /\ DOMAIN x = 1 .. Len(x)
    BY <1>1, OpcodeShape DEF Shaped
  <2>3. Count(verb) \in Nat
    BY DEF Count
  <2> QED BY <2>1, <2>2, <2>3
<1>3. /\ DOMAIN operands = DOMAIN x
      /\ \A i \in DOMAIN x : operands[i] \in ParseOperand(f, labels, op, i, x[i])
  <2>1. DOMAIN parsed = DOMAIN x /\ \A i \in DOMAIN x : parsed[i] = ParseOperand(f, labels, op, i, x[i])
    BY DEF Parsed
  <2>2. DOMAIN operands = DOMAIN parsed /\ \A i \in DOMAIN parsed : parsed[i] # {} => operands[i] \in parsed[i]
    BY DEF Chosen
  <2> QED BY <1>0, <2>1, <2>2
<1>4. Operands(op, operands)
  <2>2. \A i \in DOMAIN x : operands[i] \in Int
    BY <1>3, OperandsAreNumbers
  <2> QED BY <1>2, <1>3, <2>2 DEF Operands
<1> PICK w : w = INS(op, operands)
  OBVIOUS
<1> PICK new : new = SetToSeq(NewConstants(f, op, x))
  OBVIOUS
<1>5. /\ g.code = Append(f.code, w) /\ g.constants = f.constants \o new /\ g.name = f.name
  <2> PICK regs : regs = IF Verb(op) \in Reserving THEN ReserveRegister(f.maxRegs, operands[1]) ELSE f.maxRegs
    OBVIOUS
  <2>1. g = [f EXCEPT !.code = Append(f.code, w), !.constants = f.constants \o new, !.maxRegs = regs]
    BY <1>0 DEF Emit
  <2> QED BY <2>1 DEF FunctionType
<1>6. new \in Seq(Constants) /\ f.constants \in Seq(Constants)
  <2>1. Len(x) <= 3
    BY <1>2
  <2> QED BY <2>1, NewConstantsFinite, SetToSeqType DEF FunctionType
<1>7. Extends(g.constants, f.constants)
  <2>1. /\ \A n \in DOMAIN f.constants : n \in DOMAIN (f.constants \o new) /\ (f.constants \o new)[n] = f.constants[n]
    BY <1>6
  <2> QED BY <1>5, <2>1 DEF Extends
<1>8. ASSUME NEW i \in DOMAIN x, ConstantField(op, i), NEW c \in ParseAsConstant(x[i])
      PROVE  \E j \in DOMAIN g.constants : IndexOf(f.constants, c) = j - 1 /\ g.constants[j] = c
  <2>1. CASE Contains(f.constants, c)
    BY <1>6, <1>7, <2>1, ConstantIndexed DEF Extends
  <2>2. CASE ~Contains(f.constants, c)
    <3>1. NewConstants(f, op, x) = {c}
      BY <1>1, <1>2, <1>8, <2>2, ConstantsAdded
    <3>2. IsFiniteSet({c}) /\ Cardinality({c}) = 1
      BY FS_Singleton
    <3>3. new \in [1 .. 1 -> {c}]
      BY <3>1, <3>2, SetToSeqIs
    <3>4. Len(new) = 1 /\ new[1] = c
      BY <1>6, <3>3
    <3> PICK n : n = Len(f.constants)
      OBVIOUS
    <3>5. IndexOf(f.constants, c) = n
      BY <2>2 DEF IndexOf
    <3>6. n + 1 \in DOMAIN g.constants /\ g.constants[n + 1] = c /\ n = (n + 1) - 1
      <4> PICK old, all, S : old = f.constants /\ all = g.constants /\ S = Constants
        OBVIOUS
      <4>1. old \in Seq(S) /\ new \in Seq(S) /\ all = old \o new /\ Len(new) = 1 /\ new[1] = c /\ n = Len(old)
        BY <1>5, <1>6, <3>4
      <4> QED BY <4>1, OneMore
    <3> QED BY <3>5, <3>6
  <2> QED BY <2>1, <2>2
<1>9. ASSUME NEW i \in 1 .. Len(op) - 1
      PROVE  Means(FieldU(w, Fields(op)[i]), op, i, x[i], Len(f.code) + 1, labels, g.constants, NamesOf(functions))
  <2>1. x[i] \in Tokens /\ operands[i] \in ParseOperand(f, labels, op, i, x[i])
    BY <1>2, <1>3
  <2>2. FieldU(w, Fields(op)[i]) = Unsigned(operands[i], Bytes(op, i))
    BY <1>1, <1>4, WordsKeepOperands DEF Bytes
  <2>3. \A c \in ParseAsConstant(x[i]) : ConstantField(op, i) =>
          \E j \in DOMAIN g.constants : IndexOf(f.constants, c) = j - 1 /\ g.constants[j] = c
    BY <1>2, <1>8
  <2> PICK k, n, t : k = Len(f.code) + 1 /\ n = operands[i] /\ t = x[i]
    OBVIOUS
  <2>4. Means(Unsigned(n, Bytes(op, i)), op, i, t, k, labels, g.constants, NamesOf(functions))
    BY <1>1, <2>1, <2>3, OperandMeans
  <2> QED BY <2>2, <2>4
<1>10. Says(w, Len(f.code) + 1, verb, x, labels, g.constants, NamesOf(functions))
  <2>1. w.op = op
    BY DEF INS
  <2> QED BY <1>1, <1>2, <1>9, <2>1 DEF Says, Verb
<1>11. Len(g.constants) <= Len(f.constants) + 1
  <2> PICK added : added = NewConstants(f, op, x)
    OBVIOUS
  <2>1. \A c, d \in added : c = d
    BY <1>1, <1>2, NewConstantsOnce
  <2>2. IsFiniteSet(added) /\ Cardinality(added) \in {0, 1}
    <3>1. CASE added = {}
      BY <3>1, FS_EmptySet
    <3>2. CASE added # {}
      <4>1. PICK c : c \in added
        BY <3>2
      <4>2. added = {c}
        BY <2>1, <4>1
      <4> QED BY <4>2, FS_Singleton
    <3> QED BY <3>1, <3>2
  <2>3. new \in [1 .. Cardinality(added) -> added]
    BY <2>2, SetToSeqIs
  <2>4. Len(new) = Cardinality(added)
    BY <1>6, <2>2, <2>3
  <2> PICK old, all : old = f.constants /\ all = g.constants
    OBVIOUS
  <2>5. Len(all) = Len(old) + Len(new) /\ Len(old) \in Nat
    BY <1>5, <1>6, ConcatProperties, LenProperties
  <2> QED BY <2>2, <2>4, <2>5
<1>12. g.constants \in Seq(Constants)
  BY <1>5, <1>6, ConcatProperties
<1> QED BY <1>5, <1>7, <1>10, <1>11, <1>12 DEF Continues

-----------------------------------------------------------------------------
(* What the lines of a function make of it.                                *)

Coded(line) == ~IsFunctionLabel(line) /\ line.verb \notin {"", ".param"}
OperandsOf(line) == IF line.verb \in {"NOOP", "RETURN"} THEN <<>> ELSE line.args
Rank(S, i) == Cardinality(Below(S, i))

\* The code of a function is what the lines in a set make, one word for each, in order.
SaysAt(f, S, i, labels, names) ==
  Says(f.code[Rank(S, i)], Rank(S, i), source[i].verb, OperandsOf(source[i]), labels, f.constants, names)
WrittenTo(f, S, labels, names) ==
  /\ Len(f.code) = Cardinality(S) /\ Len(f.constants) <= Len(f.code)
  /\ \A i \in S : SaysAt(f, S, i, labels, names)

LEMMA RankType ==
  ASSUME NEW n \in Nat, NEW S \in SUBSET (1 .. n), NEW i \in S
  PROVE  Rank(S, i) \in 1 .. Cardinality(S)
<1> PICK B : B = Below(S, i)
  OBVIOUS
<1>1. B \in SUBSET S /\ i \in B
  BY DEF Below
<1>2. IsFiniteSet(S) /\ Cardinality(S) \in Nat
  BY Counted1
<1>3. IsFiniteSet(B) /\ Cardinality(B) \in Nat /\ Cardinality(B) <= Cardinality(S)
  BY <1>1, <1>2, FS_Subset, FS_CardinalityType
<1>4. Cardinality(B) # 0
  BY <1>1, <1>3, FS_EmptySet
<1>5. Cardinality(B) \in 1 .. Cardinality(S)
  BY <1>2, <1>3, <1>4
<1> QED BY <1>5 DEF Rank

\* One line more.
LEMMA RankGrows ==
  ASSUME NEW m \in Nat \ {0}, NEW S \in SUBSET (1 .. m - 1)
  PROVE  /\ Cardinality(S \union {m}) = Cardinality(S) + 1 /\ Cardinality(S) \in Nat
         /\ Rank(S \union {m}, m) = Cardinality(S) + 1
         /\ \A i \in S : Rank(S \union {m}, i) = Rank(S, i)
<1>1. m - 1 \in Nat /\ m \notin S /\ \A i \in S : i \in Nat /\ i < m
  OBVIOUS
<1>2. IsFiniteSet(S) /\ Cardinality(S) \in Nat
  BY <1>1, Counted1
<1>3. Cardinality(S \union {m}) = Cardinality(S) + 1
  BY <1>1, <1>2, FS_AddElement
<1>4. Below(S \union {m}, m) = S \union {m}
  <2>1. \A i \in S \union {m} : i <= m
    BY <1>1
  <2> QED BY <2>1 DEF Below
<1>5. \A i \in S : Below(S \union {m}, i) = Below(S, i)
  <2>1. \A i \in S : ~(m <= i)
    BY <1>1
  <2> QED BY <2>1 DEF Below
<1> QED BY <1>2, <1>3, <1>4, <1>5 DEF Rank

LEMMA ParamSays ==
  ASSUME NEW f \in FunctionType, NEW x \in Seq(Tokens), NEW g \in AddParam(f, x)
  PROVE  g.name = f.name /\ g.code = f.code /\ g.constants = f.constants
<1>1. PICK c : g = [f EXCEPT !.params = Append(f.params, c)]
  <2>1. CASE x = <<>>
    <3>1. AddParam(f, x) = {}
      BY <2>1 DEF AddParam
    <3> QED BY <3>1
  <2>2. CASE Len(x) = 1
    <3>1. AddParam(f, x) = {[f EXCEPT !.params = Append(f.params, Null)]}
      BY <2>2 DEF AddParam
    <3> QED BY <3>1
  <2>3. CASE Len(x) > 1
    <3>1. AddParam(f, x) = {[f EXCEPT !.params = Append(f.params, c)] : c \in ParseAsConstant(x[2])}
      BY <2>3 DEF AddParam
    <3> QED BY <3>1
  <2>4. x = <<>> \/ Len(x) = 1 \/ Len(x) > 1
    <3>1. Len(x) \in Nat /\ (x = <<>> <=> Len(x) = 0)
      BY EmptySeq
    <3> PICK n, e : n = Len(x) /\ e = (x = <<>>)
      OBVIOUS
    <3>2. n \in Nat /\ (x = <<>> <=> n = 0) /\ (n = 0 \/ n = 1 \/ n > 1)
      BY <3>1
    <3> QED BY <3>2
  <2> QED BY <2>1, <2>2, <2>3, <2>4
<1> QED BY <1>1 DEF FunctionType

\* The lines with code, with one line more.
WithNext(S, m) == IF Coded(source[m]) THEN S \union {m} ELSE S

LEMMA LineSays ==
  ASSUME source \in Seq(ProgramLines), functions \in Seq(FunctionType),
         NEW labels, AreLabels(labels), NEW f \in FunctionType,
         NEW m \in 1 .. Len(source), ~IsFunctionLabel(source[m]), NEW S \in SUBSET (1 .. m - 1),
         WrittenTo(f, S, labels, NamesOf(functions)), NEW g \in AddLine(f, labels, source[m])
  PROVE  /\ g.name = f.name
         /\ WrittenTo(g, WithNext(S, m), labels, NamesOf(functions))
<1> PICK line, verb, x : line = source[m] /\ verb = line.verb /\ x = OperandsOf(line)
  OBVIOUS
<1> PICK names : names = NamesOf(functions)
  OBVIOUS
<1>1. x \in Seq(Tokens)
  <2>1. line.args \in Seq(Tokens)
    <3>1. line \in ProgramLines
      OBVIOUS
    <3> QED BY <3>1 DEF ProgramLines
  <2>2. <<>> \in Seq(Tokens)
    BY EmptySeq
  <2> QED BY <2>1, <2>2 DEF OperandsOf
<1>2. "" \notin Verbs /\ ".param" \notin Verbs
  <2>1. \A op \in Opcodes : op[1] # "" /\ op[1] # ".param"
    BY VerbsKnown DEF KnownVerbs, Arithmetic, Comparing, Branching, Skipping
  <2> QED BY <2>1 DEF Verbs, Verb
<1>3. g \in AddLine(f, labels, line)
  OBVIOUS
<1>4. CASE verb = ""
  <2>1. AddLine(f, labels, line) = {f}
    BY <1>2, <1>4 DEF AddLine
  <2>2. g = f /\ ~Coded(source[m])
    BY <1>3, <1>4, <2>1 DEF Coded
  <2> QED BY <2>2 DEF WithNext
<1>5. CASE verb = ".param"
  <2>1. AddLine(f, labels, line) = AddParam(f, x)
    BY <1>2, <1>5 DEF AddLine, OperandsOf
  <2>2. g.name = f.name /\ g.code = f.code /\ g.constants = f.constants
    BY <1>1, <1>3, <2>1, ParamSays
  <2>3. ~Coded(source[m])
    BY <1>5 DEF Coded
  <2> QED BY <2>2, <2>3 DEF WrittenTo, SaysAt, WithNext
<1>6. CASE verb \notin Verbs /\ verb # "" /\ verb # ".param"
  <2>1. AddLine(f, labels, line) = {}
    BY <1>6 DEF AddLine
  <2> QED BY <1>3, <2>1
<1>7. CASE verb \in Verbs
  <2>1. AddLine(f, labels, line) = AddInstruction(f, labels, verb, x)
    BY <1>2, <1>7 DEF AddLine, OperandsOf
  <2>2. Coded(source[m])
    BY <1>2, <1>7 DEF Coded
  <2>3. Continues(g, f)
    BY <1>1, <1>3, <1>7, <2>1, InstructionSays
  <2>4. PICK w : /\ g.code = Append(f.code, w)
                 /\ Says(w, Len(f.code) + 1, verb, x, labels, g.constants, names)
    BY <1>1, <1>3, <1>7, <2>1, InstructionSays
  <2> PICK n, more : n = Cardinality(S) /\ more = S \union {m}
    OBVIOUS
  <2>5. /\ n \in Nat /\ Cardinality(more) = n + 1 /\ Rank(more, m) = n + 1
        /\ \A i \in S : Rank(more, i) = Rank(S, i)
    <3>1. m \in Nat \ {0}
      OBVIOUS
    <3> QED BY <3>1, RankGrows
  <2>6. n = Len(f.code)
    BY DEF WrittenTo
  <2>7. /\ Len(g.code) = n + 1 /\ g.code[n + 1] = w
        /\ \A k \in 1 .. n : g.code[k] = f.code[k]
    <3> PICK code, more2, T : code = f.code /\ more2 = g.code /\ T = Words \union {w}
      OBVIOUS
    <3>1. code \in Seq(Words)
      BY DEF FunctionType
    <3>2. code \in Seq(T) /\ w \in T
      BY <3>1
    <3>3. more2 = Append(code, w) /\ n = Len(code)
      BY <2>4, <2>6
    <3>4. Len(more2) = n + 1 /\ more2[n + 1] = w /\ \A k \in 1 .. n : more2[k] = code[k]
      BY <3>2, <3>3, AppendProperties
    <3> QED BY <3>4
  <2>8. SaysAt(g, more, m, labels, names)
    BY <2>4, <2>5, <2>6, <2>7 DEF SaysAt
  <2>9. ASSUME NEW i \in S PROVE SaysAt(g, more, i, labels, names)
    <3>1. SaysAt(f, S, i, labels, names)
      BY DEF WrittenTo
    <3>2. Rank(S, i) \in 1 .. n
      <4>1. m - 1 \in Nat
        OBVIOUS
      <4> QED BY <4>1, RankType
    <3>3. g.code[Rank(more, i)] = f.code[Rank(S, i)]
      BY <2>5, <2>7, <3>2
    <3> QED BY <2>3, <2>5, <3>1, <3>3, SaysStays DEF SaysAt, Continues
  <2>10. Len(g.constants) <= Len(g.code)
    <3> PICK a, b, c, d : a = Len(f.constants) /\ b = Len(f.code) /\ c = Len(g.constants) /\ d = Len(g.code)
      OBVIOUS
    <3>1. a <= b /\ c <= a + 1 /\ d = b + 1 /\ b = n
      BY <1>1, <1>3, <1>7, <2>1, <2>6, <2>7, InstructionSays DEF WrittenTo
    <3>2. a \in Nat /\ c \in Nat
      <4>1. f.constants \in Seq(Constants) /\ g.constants \in Seq(Constants)
        <5>1. f.constants \in Seq(Constants)
          BY DEF FunctionType
        <5>2. g.constants \in Seq(Constants)
          BY <1>1, <1>3, <1>7, <2>1, InstructionSays
        <5> QED BY <5>1, <5>2
      <4> QED BY <4>1, LenProperties
    <3> QED BY <2>5, <3>1, <3>2
  <2>11. WrittenTo(g, more, labels, names)
    BY <2>5, <2>7, <2>8, <2>9, <2>10 DEF WrittenTo
  <2> QED BY <2>2, <2>3, <2>11 DEF Continues, WithNext
<1> QED BY <1>4, <1>5, <1>6, <1>7

Block(first, last) == {j \in first .. last : Coded(source[j])}

\* A function after the lines from its first to the n-th.
Assembling(f, name, labels, first, n) ==
  /\ f \in FunctionType /\ Reserved(f) /\ f.name = name
  /\ WrittenTo(f, Block(first, n), labels, NamesOf(functions))

LEMMA NothingWritten ==
  ASSUME NEW name \in Names, NEW labels, NEW first \in Nat
  PROVE  Assembling(Function(name), name, labels, first, first - 1)
<1>1. Block(first, first - 1) = {}
  BY DEF Block
<1>2. /\ Sound(Function(name)) /\ Function(name).name = name
      /\ Len(Function(name).code) = 0 /\ Len(Function(name).constants) = 0
  BY EmptySound DEF Function
<1> PICK f : f = Function(name)
  OBVIOUS
<1>3. Cardinality({}) = 0 /\ 0 <= 0
  BY FS_EmptySet
<1>4. WrittenTo(f, {}, labels, NamesOf(functions))
  BY <1>2, <1>3 DEF WrittenTo
<1> QED BY <1>1, <1>2, <1>4 DEF Assembling, Sound

\* Each line makes of what those above it built what it says.
LEMMA BuiltWritten ==
  ASSUME source \in Seq(ProgramLines), functions \in Seq(FunctionType),
         NEW name \in Names, NEW labels, AreLabels(labels),
         NEW first \in 1 .. Len(source) + 1, NEW end \in first .. Len(source) + 1,
         \A j \in first .. end - 1 : ~IsFunctionLabel(source[j]),
         NEW b, BuiltBy(b, name, labels, first, end), NEW at \in first - 1 .. end - 1, NEW g \in b[at]
  PROVE  Assembling(g, name, labels, first, at)
<1>0. first \in Nat \ {0} /\ end \in Nat /\ end >= first
  OBVIOUS
<1> DEFINE Bad == {n \in Nat : /\ n \in first - 1 .. end - 1
                               /\ \E f \in b[n] : ~Assembling(f, name, labels, first, n)}
<1>1. BuiltBy(b, name, labels, first, end)
  OBVIOUS
<1>12. at \in Nat
  BY <1>0
<1> SUFFICES ASSUME Bad # {} PROVE FALSE
  BY <1>12
<1>2. PICK m : m = Min(Bad)
  OBVIOUS
<1>3. m \in Bad /\ \A k \in Bad : m <= k
  BY <1>2, LeastNumber
<1>4. PICK f \in b[m] : ~Assembling(f, name, labels, first, m)
  BY <1>3
<1>5. m # first - 1
  <2>1. b[first - 1] = {Function(name)}
    BY <1>1 DEF BuiltBy
  <2> QED BY <1>0, <1>4, <2>1, NothingWritten
<1>6. m \in first .. end - 1 /\ m - 1 \in Nat /\ m - 1 \in first - 1 .. end - 1 /\ m - 1 \notin Bad
  BY <1>0, <1>3, <1>5
<1>7. \A h \in b[m - 1] : Assembling(h, name, labels, first, m - 1)
  BY <1>6
<1> PICK line : line = source[m]
  OBVIOUS
<1>8. line \in ProgramLines /\ m \in 1 .. Len(source) /\ ~IsFunctionLabel(line)
  BY <1>0, <1>6
<1>9. b[m] = WithLine(b[m - 1], labels, line)
  BY <1>1, <1>6 DEF BuiltBy
<1>10. PICK h \in b[m - 1] : f \in AddLine(h, labels, line)
  BY <1>4, <1>9 DEF WithLine
<1>11. /\ h \in FunctionType /\ Reserved(h) /\ h.name = name
       /\ WrittenTo(h, Block(first, m - 1), labels, NamesOf(functions))
  BY <1>7 DEF Assembling
<1>13. Block(first, m - 1) \in SUBSET (1 .. m - 1)
  BY <1>0 DEF Block
<1>14. Block(first, m) = IF Coded(line) THEN Block(first, m - 1) \union {m} ELSE Block(first, m - 1)
  BY <1>0, <1>6 DEF Block
<1>15. f \in FunctionType /\ Reserved(f)
  BY <1>8, <1>10, <1>11, LineSound
<1>16. /\ f.name = h.name
       /\ WrittenTo(f, Block(first, m), labels, NamesOf(functions))
  <2> PICK S, T : S = Block(first, m - 1) /\ T = Block(first, m)
    OBVIOUS
  <2>1. /\ S \in SUBSET (1 .. m - 1) /\ WrittenTo(h, S, labels, NamesOf(functions))
        /\ T = WithNext(S, m)
    BY <1>11, <1>13, <1>14 DEF WithNext
  <2>2. ~IsFunctionLabel(source[m]) /\ f \in AddLine(h, labels, source[m]) /\ m \in 1 .. Len(source)
    BY <1>8, <1>10
  <2>3. /\ f.name = h.name
        /\ WrittenTo(f, WithNext(S, m), labels, NamesOf(functions))
    BY <1>11, <2>1, <2>2, LineSays
  <2> QED BY <2>1, <2>3
<1> QED BY <1>4, <1>11, <1>15, <1>16 DEF Assembling

LEMMA BodyWritten ==
  ASSUME source \in Seq(ProgramLines), functions \in Seq(FunctionType),
         NEW name \in Names, NEW labels, AreLabels(labels),
         NEW first \in 1 .. Len(source) + 1, NEW end \in first .. Len(source) + 1,
         \A j \in first .. end - 1 : ~IsFunctionLabel(source[j]),
         NEW g \in Body(name, labels, first, end)
  PROVE  Assembling(g, name, labels, first, end - 1)
<1>1. first \in Nat \ {0} /\ end \in Nat /\ end >= first /\ end - 1 \in first - 1 .. end - 1
  OBVIOUS
<1>2. PICK b : /\ BuiltBy(b, name, labels, first, end)
               /\ Body(name, labels, first, end) = b[end - 1]
  BY <1>1, BodyBuilt
<1> PICK at : at = end - 1
  OBVIOUS
<1>3. Assembling(g, name, labels, first, at)
  BY <1>1, <1>2, BuiltWritten
<1> QED BY <1>3

-----------------------------------------------------------------------------
(* Whose a line is.                                                        *)

Headings == {i \in DOMAIN source : IsFunctionLabel(source[i])}
HeadingsTo(i) == {j \in 1 .. i : IsFunctionLabel(source[j])}
OwnerOf(i) == IF HeadingsTo(i) = {} THEN "@main" ELSE source[Max(HeadingsTo(i))].func

\* A set of numbers that is bounded has a greatest one.
LEMMA GreatestNumber ==
  ASSUME NEW n \in Nat, NEW S \in SUBSET (1 .. n), S # {}
  PROVE  Max(S) \in S /\ \A m \in S : Max(S) >= m
<1> DEFINE T == {d \in Nat : n - d \in S}
<1>1. \A i \in S : i \in Nat /\ n - i \in T /\ n - (n - i) = i
  <2>1. \A i \in S : i \in Nat /\ n - i \in Nat /\ n - (n - i) = i
    OBVIOUS
  <2> QED BY <2>1
<1>2. T # {} /\ T \in SUBSET Nat
  BY <1>1
<1> PICK d : d = Min(T)
  OBVIOUS
<1>3. d \in T /\ \A e \in T : d <= e
  <2> HIDE DEF T
  <2> QED BY <1>2, LeastNumber
<1>4. n - d \in S /\ \A i \in S : n - d >= i
  <2>1. \A i \in S : d <= n - i /\ i \in Nat /\ d \in Nat
    BY <1>1, <1>3
  <2> QED BY <1>3, <2>1
<1> QED BY <1>4 DEF Max

LEMMA OwnerUnder ==
  ASSUME source \in Seq(ProgramLines), NEW i \in 1 .. Len(source), NEW h \in Headings, h <= i,
         \A j \in h + 1 .. i : j \notin Headings
  PROVE  OwnerOf(i) = source[h].func
<1> PICK S : S = HeadingsTo(i)
  OBVIOUS
<1>1. h \in S /\ \A j \in S : j <= h /\ j \in Nat
  BY DEF HeadingsTo, Headings
<1>2. Max(S) = h
  <2>1. \A x \in S : (\A y \in S : x >= y) => x = h
    BY <1>1
  <2>2. \A y \in S : h >= y
    BY <1>1
  <2> QED BY <1>1, <2>1, <2>2 DEF Max
<1> QED BY <1>1, <1>2 DEF OwnerOf

LEMMA OwnerAlone ==
  ASSUME NEW i, HeadingsTo(i) = {}
  PROVE  OwnerOf(i) = "@main"
BY DEF OwnerOf

LEMMA OwnerAbove ==
  ASSUME source \in Seq(ProgramLines), NEW i \in 1 .. Len(source), HeadingsTo(i) # {}
  PROVE  \E h \in Headings : h <= i /\ OwnerOf(i) = source[h].func
<1> PICK S : S = HeadingsTo(i)
  OBVIOUS
<1>1. S \in SUBSET (1 .. i) /\ i \in Nat
  BY DEF HeadingsTo
<1> PICK h : h = Max(S)
  OBVIOUS
<1>2. h \in S
  BY <1>1, GreatestNumber
<1>3. h \in Headings /\ h <= i
  BY <1>2 DEF HeadingsTo, Headings
<1> QED BY <1>3 DEF OwnerOf

\* Of the numbers in order, each is at its rank.
LEMMA NthOfRank ==
  ASSUME NEW n \in Nat, NEW S \in SUBSET (1 .. n), NEW h \in S
  PROVE  Nth(S, Rank(S, h)) = h
<1> PICK k : k = Rank(S, h)
  OBVIOUS
<1>1. k \in 1 .. Cardinality(S)
  BY RankType
<1> PICK m : m = Nth(S, k)
  OBVIOUS
<1>2. m \in S /\ Cardinality(Below(S, m)) = k /\ Cardinality(Below(S, h)) = k
  BY <1>1, NthIn DEF Rank
<1>3. IsFiniteSet(S)
  BY Counted1
<1>4. ASSUME NEW a \in S, NEW b \in S, a < b
      PROVE  Cardinality(Below(S, a)) # Cardinality(Below(S, b))
  <2> PICK A, B : A = Below(S, a) /\ B = Below(S, b)
    OBVIOUS
  <2>1. A \in SUBSET B /\ b \in B /\ b \notin A /\ B \in SUBSET S
    <3>1. a \in Nat /\ b \in Nat /\ \A j \in S : j \in Nat
      OBVIOUS
    <3>2. \A j \in S : j <= a => j <= b
      BY <1>4, <3>1
    <3>3. b <= b /\ ~(b <= a)
      BY <1>4, <3>1
    <3> QED BY <3>2, <3>3 DEF Below
  <2>2. IsFiniteSet(B)
    BY <1>3, <2>1, FS_Subset
  <2>3. Cardinality(B) # Cardinality(A)
    BY <2>1, <2>2, FS_Subset
  <2> QED BY <2>3
<1>5. m \in Nat /\ h \in Nat /\ ~(m < h) /\ ~(h < m)
  BY <1>2, <1>4
<1> QED BY <1>5

-----------------------------------------------------------------------------
(* The names of the functions.                                             *)

Distinct(names) == \A i, j \in DOMAIN names : names[i] = names[j] => i = j
Named(names, name) == \E i \in DOMAIN names : names[i] = name

LEMMA HeadingNamed ==
  ASSUME source \in Seq(ProgramLines), NEW h \in Headings
  PROVE  /\ Rank(Headings, h) \in DOMAIN FunctionNames
         /\ FunctionNames[Rank(Headings, h)] = source[h].func
<1> PICK S, n, k : S = Headings /\ n = Len(source) /\ k = Rank(S, h)
  OBVIOUS
<1>1. n \in Nat /\ S \in SUBSET (1 .. n) /\ h \in S
  BY DEF Headings
<1>2. k \in 1 .. Cardinality(S) /\ Nth(S, k) = h /\ Cardinality(S) \in Nat
  BY <1>1, RankType, NthOfRank, Counted1
<1> PICK labels : labels = InOrder(S)
  OBVIOUS
<1> PICK found : found = [i \in DOMAIN labels |-> source[labels[i]].func]
  OBVIOUS
<1>3. DOMAIN labels = 1 .. Cardinality(S) /\ labels[k] = h
  BY <1>2 DEF InOrder
<1>4. k \in DOMAIN found /\ found[k] = source[h].func /\ DOMAIN found = 1 .. Cardinality(S)
  BY <1>2, <1>3
<1>5. FunctionNames = IF Contains(found, "@main") THEN found ELSE Append(found, "@main")
  BY DEF FunctionNames, Headings
<1>6. \A v : k \in DOMAIN Append(found, v) /\ Append(found, v)[k] = found[k]
  <2> PICK c, T : c = Cardinality(S) /\ T = {found[i] : i \in 1 .. c}
    OBVIOUS
  <2> SUFFICES ASSUME NEW v PROVE k \in DOMAIN Append(found, v) /\ Append(found, v)[k] = found[k]
    OBVIOUS
  <2>1. found \in [1 .. c -> T] /\ c \in Nat
    BY <1>2, <1>4
  <2>2. found \in Seq(T \union {v}) /\ Len(found) = c
    BY <2>1
  <2>3. k \in 1 .. c
    BY <1>2
  <2> QED BY <2>2, <2>3, AppendProperties
<1> QED BY <1>4, <1>5, <1>6

LEMMA LastNamed == ASSUME NEW T, NEW q \in Seq(T), NEW v \in T PROVE Named(Append(q, v), v)
<1>1. /\ Append(q, v) \in Seq(T) /\ Len(Append(q, v)) = Len(q) + 1 /\ Len(q) \in Nat
      /\ Append(q, v)[Len(q) + 1] = v
  BY AppendProperties, LenProperties
<1>2. Len(q) + 1 \in DOMAIN Append(q, v)
  BY <1>1
<1> QED BY <1>1, <1>2 DEF Named

LEMMA MainNamed == ASSUME source \in Seq(ProgramLines) PROVE Named(FunctionNames, "@main")
<1> PICK S, n : S = Headings /\ n = Len(source)
  OBVIOUS
<1>1. n \in Nat /\ S \in SUBSET (1 .. n)
  BY DEF Headings
<1> PICK c : c = Cardinality(S)
  OBVIOUS
<1>2. c \in Nat
  BY <1>1, Counted1
<1> PICK found : found = [i \in 1 .. c |-> source[InOrder(S)[i]].func]
  OBVIOUS
<1>3. FunctionNames = IF Contains(found, "@main") THEN found ELSE Append(found, "@main")
  <2>1. DOMAIN InOrder(S) = 1 .. c
    BY DEF InOrder
  <2> QED BY <2>1 DEF FunctionNames, Headings
<1>4. ASSUME NEW v PROVE Named(Append(found, v), v)
  <2> PICK T : T = {found[i] : i \in 1 .. c} \union {v}
    OBVIOUS
  <2>1. found \in [1 .. c -> T]
    OBVIOUS
  <2>2. found \in Seq(T) /\ Len(found) = c
    BY <1>2, <2>1
  <2>3. v \in T
    OBVIOUS
  <2> QED BY <2>2, <2>3, LastNamed
<1>5. ASSUME NEW v, Contains(found, v) PROVE Named(found, v)
  <2>1. Len(found) = c
    BY <1>2
  <2>2. PICK i \in 1 .. Len(found) : found[i] = v
    BY <1>5 DEF Contains
  <2> QED BY <2>1, <2>2 DEF Named
<1> QED BY <1>3, <1>4, <1>5

LEMMA HeadingsDistinct ==
  ASSUME source \in Seq(ProgramLines), Distinct(FunctionNames),
         NEW a \in Headings, NEW b \in Headings, source[a].func = source[b].func
  PROVE  a = b
<1>1. Rank(Headings, a) = Rank(Headings, b)
  <2>1. ASSUME NEW h \in Headings
        PROVE  /\ Rank(Headings, h) \in DOMAIN FunctionNames
               /\ FunctionNames[Rank(Headings, h)] = source[h].func
    BY HeadingNamed
  <2> QED BY <2>1 DEF Distinct
<1> PICK S, n : S = Headings /\ n = Len(source)
  OBVIOUS
<1>2. n \in Nat /\ S \in SUBSET (1 .. n)
  BY DEF Headings
<1>3. Nth(S, Rank(S, a)) = a /\ Nth(S, Rank(S, b)) = b
  BY <1>2, NthOfRank
<1> QED BY <1>1, <1>3

-----------------------------------------------------------------------------
(* Every function is what its lines make of it.                            *)

ImplicitMain == \E i \in DOMAIN source : ~IsEmpty(source[i]) /\ HeadingsTo(i) = {}
Apart ==
  /\ ImplicitMain => \A h \in Headings : source[h].func # "@main"
  /\ \A h \in Headings : h + 1 \notin Headings

\* Of the lines up to one, those between first and end are the function's own.
Owns(name, first, end, last) ==
  \A j \in 1 .. last : ~IsFunctionLabel(source[j]) /\ ~IsEmpty(source[j]) =>
    (OwnerOf(j) = name <=> j \in first .. end - 1)
BodyOf(f, first, end, last, names) ==
  /\ end - 1 <= last
  /\ \A j \in first .. end - 1 : ~IsFunctionLabel(source[j])
  /\ Owns(f.name, first, end, last)
  /\ WrittenTo(f, Block(first, end - 1), Labels(first, end), names)
FunctionWritten(f, last, names) ==
  \E first \in 1 .. Len(source) + 1 : \E end \in first .. Len(source) + 1 : BodyOf(f, first, end, last, names)

AllWritten == ~hasError /\ Apart => \A i \in DOMAIN functions : FunctionWritten(functions[i], lineNum - 1, NamesOf(functions))

\* Where the assembler stands between two functions.
AtBody(n) == n > Len(source) \/ n \in Headings \/ \A j \in 1 .. n - 1 : IsEmpty(source[j])
Between ==
  /\ stage = "source" => lineNum = 1 /\ functions = <<>>
  /\ stage = "assembling" /\ ~hasError => AtBody(lineNum)

NamesDistinct == Distinct(NamesOf(functions))
NamesCollected == stage = "assembling" => NamesOf(functions) = FunctionNames

LEMMA FirstNamed ==
  ASSUME functions \in Seq(FunctionType), NEW name, Named(NamesOf(functions), name)
  PROVE  FindFunctionIndex(name) \in Nat
<1> DEFINE I == {i \in 1 .. Len(functions) : functions[i].name = name}
<1>1. SelectInSeq(functions, LAMBDA f : f.name = name) = IF I # {} THEN Min(I) ELSE 0
  BY DEF SelectInSeq
<1>2. I # {} /\ I \in SUBSET Nat /\ \A i \in I : i >= 1
  BY DEF Named, NamesOf
<1>3. FindFunctionIndex(name) = Min(I) - 1
  BY <1>1, <1>2 DEF FindFunctionIndex
<1> HIDE DEF I
<1>4. Min(I) \in I
  BY <1>2, LeastNumber
<1> PICK m : m = Min(I)
  OBVIOUS
<1>5. m \in Nat /\ m >= 1
  BY <1>2, <1>4
<1> QED BY <1>3, <1>5

\* The lines of the function that is assembled next.
LEMMA NextBody ==
  ASSUME source \in Seq(ProgramLines), NEW s \in 1 .. Len(source), AtBody(s), ~IsEmpty(source[s]),
         Distinct(FunctionNames), NEW first, first = StartLine(s), NEW end, end = EndLine(s),
         NEW name, name = IF IsFunctionLabel(source[s]) THEN source[s].func ELSE "@main"
  PROVE  /\ first \in 1 .. Len(source) + 1 /\ end \in first .. Len(source) + 1 /\ s <= first
         /\ \A j \in s .. first - 1 : IsFunctionLabel(source[j])
         /\ \A j \in first .. end - 1 : ~IsFunctionLabel(source[j])
         /\ Apart => Owns(name, first, end, end - 1)
         /\ AtBody(end)
         /\ Named(FunctionNames, name)
<1>1. first \in s .. Len(source) + 1 /\ end \in first .. Len(source) + 1
  BY LinesFound
<1> PICK last : last = Len(source) + 1
  OBVIOUS
<1>2. last \in Nat /\ s \in Nat /\ s < last /\ first \in s .. last /\ end \in first .. last
  BY <1>1
<1>3. \A j \in 1 .. last - 1 : j \in Headings <=> IsFunctionLabel(source[j])
  BY DEF Headings
<1> DEFINE starts == {i \in s .. last : i <= Len(source) => ~IsFunctionLabel(source[i])}
           ends == {i \in first .. last : i <= Len(source) => IsFunctionLabel(source[i])}
<1>4. starts \in SUBSET Nat /\ last \in starts /\ first = Min(starts)
  BY <1>2 DEF StartLine
<1>5. ends \in SUBSET Nat /\ last \in ends /\ end = Min(ends)
  BY <1>2 DEF EndLine
<1>6. first \in starts /\ \A i \in starts : first <= i
  <2> HIDE DEF starts
  <2> QED BY <1>4, LeastNumber
<1>7. end \in ends /\ \A i \in ends : end <= i
  <2> HIDE DEF ends
  <2> QED BY <1>5, LeastNumber
<1>8. \A j \in s .. first - 1 : j \in Headings
  BY <1>2, <1>3, <1>6
<1>9. \A j \in first .. end - 1 : ~IsFunctionLabel(source[j]) /\ j \notin Headings
  BY <1>2, <1>3, <1>7
<1>10. Apart => (first = s + 1 <=> s \in Headings)
  <2>1. s \in Headings => first # s
    BY <1>2, <1>3, <1>6
  <2>2. first = s + 1 => s \in Headings
    BY <1>2, <1>8
  <2>3. Apart /\ s \in Headings => s + 1 \in starts
    BY <1>2, <1>3 DEF Apart
  <2> QED BY <1>2, <1>6, <2>1, <2>2, <2>3
<1>11. Apart => first \in {s, s + 1}
  <2>1. s \notin Headings => s \in starts
    BY <1>2, <1>3
  <2> QED BY <1>2, <1>6, <1>10, <2>1
<1>12. AtBody(end)
  BY <1>2, <1>3, <1>7 DEF AtBody
<1>13. Named(FunctionNames, name)
  <2>1. CASE s \in Headings
    <3>1. name = source[s].func
      BY <1>2, <1>3, <2>1
    <3> QED BY <2>1, <3>1, HeadingNamed DEF Named
  <2>2. CASE s \notin Headings
    <3>1. name = "@main"
      BY <1>2, <1>3, <2>2
    <3> QED BY <3>1, MainNamed
  <2> QED BY <2>1, <2>2
<1>14. ASSUME Apart, NEW j \in 1 .. end - 1, ~IsFunctionLabel(source[j]), ~IsEmpty(source[j])
       PROVE  OwnerOf(j) = name <=> j \in first .. end - 1
  <2>0. j \in 1 .. Len(source)
    BY <1>2
  <2>1. CASE s \in Headings
    <3>1. name = source[s].func /\ first = s + 1
      BY <1>2, <1>3, <1>10, <1>14, <2>1
    <3>2. CASE j \in first .. end - 1
      <4>1. s <= j /\ \A i \in s + 1 .. j : i \notin Headings
        BY <1>2, <1>9, <3>1, <3>2
      <4> QED BY <2>0, <2>1, <3>1, <3>2, <4>1, OwnerUnder
    <3>3. CASE j \notin first .. end - 1
      <4>1. j < s /\ j # s
        <5>1. j # s
          BY <1>3, <1>14, <2>0, <2>1
        <5> QED BY <1>2, <3>1, <3>3, <5>1
      <4>2. CASE HeadingsTo(j) = {}
        <5>1. ImplicitMain
          BY <1>14, <2>0, <4>2 DEF ImplicitMain
        <5>2. source[s].func # "@main"
          BY <1>14, <2>1, <5>1 DEF Apart
        <5> QED BY <3>1, <3>3, <4>2, <5>2, OwnerAlone
      <4>3. CASE HeadingsTo(j) # {}
        <5>1. PICK h \in Headings : h <= j /\ OwnerOf(j) = source[h].func
          BY <2>0, <4>3, OwnerAbove
        <5>2. h # s
          BY <1>2, <2>0, <4>1, <5>1
        <5>3. source[h].func # source[s].func
          BY <2>1, <5>2, HeadingsDistinct
        <5> QED BY <3>1, <3>3, <5>1, <5>3
      <4> QED BY <4>2, <4>3
    <3> QED BY <3>2, <3>3
  <2>2. CASE s \notin Headings
    <3>1. name = "@main" /\ first = s
      BY <1>2, <1>3, <1>10, <1>11, <1>14, <2>2
    <3>2. \A i \in 1 .. s - 1 : IsEmpty(source[i])
      BY <1>2, <2>2 DEF AtBody
    <3>3. j \in first .. end - 1
      BY <1>2, <1>14, <2>0, <3>1, <3>2
    <3>4. HeadingsTo(j) = {}
      <4>1. \A i \in 1 .. s - 1 : ~IsFunctionLabel(source[i])
        BY <3>2 DEF IsEmpty, IsFunctionLabel
      <4>2. \A i \in s .. end - 1 : ~IsFunctionLabel(source[i])
        BY <1>9, <3>1
      <4>3. \A i \in 1 .. j : i \in 1 .. s - 1 \/ i \in s .. end - 1
        BY <1>2, <2>0
      <4> QED BY <4>1, <4>2, <4>3 DEF HeadingsTo
    <3> QED BY <3>1, <3>3, <3>4, OwnerAlone
  <2> QED BY <2>1, <2>2
<1>15. Apart => Owns(name, first, end, end - 1)
  BY <1>14 DEF Owns
<1>16. first \in 1 .. Len(source) + 1 /\ end \in first .. Len(source) + 1 /\ s <= first
  BY <1>1
<1>17. \A j \in s .. first - 1 : IsFunctionLabel(source[j])
  BY <1>2, <1>3, <1>8
<1> QED BY <1>9, <1>12, <1>13, <1>15, <1>16, <1>17

\* What a body keeps of what it says, when lines are added that are not its own.
LEMMA BodyStays ==
  ASSUME source \in Seq(ProgramLines), NEW f, NEW names, NEW last \in Nat, NEW more \in Nat, last <= more,
         FunctionWritten(f, last, names),
         \A j \in last + 1 .. more : ~IsFunctionLabel(source[j]) /\ ~IsEmpty(source[j]) => OwnerOf(j) # f.name
  PROVE  FunctionWritten(f, more, names)
<1>0. PICK first \in 1 .. Len(source) + 1 : \E end \in first .. Len(source) + 1 : BodyOf(f, first, end, last, names)
  BY DEF FunctionWritten
<1>1. PICK end \in first .. Len(source) + 1 : BodyOf(f, first, end, last, names)
  BY <1>0
<1>2. first \in Nat /\ end \in Nat /\ end - 1 <= last /\ Owns(f.name, first, end, last)
  BY <1>1 DEF BodyOf
<1>3. ASSUME NEW j \in 1 .. more, ~IsFunctionLabel(source[j]), ~IsEmpty(source[j])
      PROVE  OwnerOf(j) = f.name <=> j \in first .. end - 1
  <2>1. CASE j <= last
    <3>1. j \in 1 .. last
      BY <2>1
    <3> QED BY <1>2, <1>3, <3>1 DEF Owns
  <2>2. CASE ~(j <= last)
    <3>1. j \in last + 1 .. more /\ j \notin first .. end - 1
      BY <1>2, <2>2
    <3> QED BY <1>3, <3>1
  <2> QED BY <2>1, <2>2
<1>4. Owns(f.name, first, end, more) /\ end - 1 <= more
  BY <1>2, <1>3 DEF Owns
<1> QED BY <1>1, <1>4 DEF BodyOf, FunctionWritten

\* What is written of a function is a matter of the source and of the functions' names.
LEMMA WrittenFixed ==
  ASSUME source' = source, NEW f, NEW last, NEW names
  PROVE  FunctionWritten(f, last, names)' <=> FunctionWritten(f, last, names)
BY DEF FunctionWritten, BodyOf, Owns, OwnerOf, HeadingsTo, WrittenTo, SaysAt, Block, Labels

LEMMA HeadingsFixed ==
  ASSUME source' = source
  PROVE  /\ Headings' = Headings /\ (Apart' <=> Apart) /\ FunctionNames' = FunctionNames
         /\ \A n : AtBody(n)' <=> AtBody(n)
<1>1. Headings' = Headings
  BY DEF Headings
<1>2. Apart' <=> Apart
  BY <1>1 DEF Apart, ImplicitMain, HeadingsTo
<1>3. FunctionNames' = FunctionNames
  BY DEF FunctionNames
<1>4. ASSUME NEW n PROVE AtBody(n)' <=> AtBody(n)
  BY <1>1 DEF AtBody
<1> QED BY <1>1, <1>2, <1>3, <1>4

Written == Between /\ NamesDistinct /\ NamesCollected /\ AllWritten

LEMMA SkipWrites == ASSUME AssemblerInv, Written, SkipEmptyLine PROVE Written'
<1>1. /\ source \in Seq(ProgramLines) /\ lineNum \in 1 .. Len(source) /\ IsEmpty(source[lineNum])
      /\ lineNum' = lineNum + 1 /\ source' = source /\ functions' = functions /\ stage' = stage
      /\ hasError' = hasError /\ stage = "assembling" /\ ~hasError
  BY DEF SkipEmptyLine, AssemblerInv, TypeInv
<1>2. NamesDistinct' /\ NamesCollected'
  BY <1>1, HeadingsFixed DEF Written, NamesDistinct, NamesCollected, NamesOf
<1>3. AtBody(lineNum + 1)
  <2>1. lineNum \notin Headings
    BY <1>1 DEF Headings, IsEmpty, IsFunctionLabel
  <2>2. AtBody(lineNum)
    BY <1>1 DEF Written, Between
  <2>3. \A j \in 1 .. (lineNum + 1) - 1 : j \in 1 .. lineNum - 1 \/ j = lineNum
    BY <1>1
  <2>4. ~(lineNum > Len(source))
    BY <1>1
  <2> QED BY <1>1, <2>1, <2>2, <2>3, <2>4 DEF AtBody
<1>4. Between'
  BY <1>1, <1>3, HeadingsFixed DEF Between
<1>5. ASSUME Apart, NEW i \in DOMAIN functions PROVE FunctionWritten(functions[i], (lineNum + 1) - 1, NamesOf(functions))
  <2>1. FunctionWritten(functions[i], lineNum - 1, NamesOf(functions))
    BY <1>1, <1>5 DEF Written, AllWritten
  <2> PICK last, more : last = lineNum - 1 /\ more = (lineNum + 1) - 1
    OBVIOUS
  <2>2. last \in Nat /\ more \in Nat /\ last <= more /\ \A j \in last + 1 .. more : j = lineNum
    BY <1>1
  <2>3. \A j \in last + 1 .. more : ~IsFunctionLabel(source[j]) /\ ~IsEmpty(source[j]) => OwnerOf(j) # functions[i].name
    BY <1>1, <2>2
  <2> QED BY <1>1, <2>1, <2>2, <2>3, BodyStays
<1>6. AllWritten'
  <2>1. \A f, last, names : FunctionWritten(f, last, names)' <=> FunctionWritten(f, last, names)
    BY <1>1, WrittenFixed
  <2>2. Apart' <=> Apart
    BY <1>1, HeadingsFixed
  <2>3. NamesOf(functions)' = NamesOf(functions)
    BY <1>1 DEF NamesOf
  <2> QED BY <1>1, <1>5, <2>1, <2>2, <2>3 DEF AllWritten
<1> QED BY <1>2, <1>4, <1>6 DEF Written

LEMMA NothingOwned ==
  ASSUME source \in Seq(ProgramLines), NEW f, Len(f.code) = 0, Len(f.constants) = 0, NEW names
  PROVE  FunctionWritten(f, 1 - 1, names)
<1>1. Len(source) \in Nat
  OBVIOUS
<1>2. 1 \in 1 .. Len(source) + 1
  BY <1>1
<1>3. Block(1, 1 - 1) = {}
  BY DEF Block
<1>4. WrittenTo(f, Block(1, 1 - 1), Labels(1, 1), names)
  BY <1>3, FS_EmptySet DEF WrittenTo
<1>5. BodyOf(f, 1, 1, 1 - 1, names)
  BY <1>4 DEF BodyOf, Owns
<1> QED BY <1>2, <1>5 DEF FunctionWritten

\* Up to the first name that is there twice, no name is.
Twice(names) == {i \in DOMAIN names : \E j \in 1 .. i - 1 : names[j] = names[i]}
KeptNames(names) == IF Twice(names) = {} THEN names ELSE SubSeq(names, 1, Min(Twice(names)) - 1)

LEMMA KeptDistinct ==
  ASSUME NEW T, NEW names \in Seq(T)
  PROVE  Distinct(KeptNames(names)) /\ KeptNames(names) = [i \in DOMAIN KeptNames(names) |-> KeptNames(names)[i]]
<1>t. PICK twice : twice = Twice(names)
  OBVIOUS
<1>s. PICK kept : kept = KeptNames(names)
  OBVIOUS
<1> PICK n : n = Len(names)
  OBVIOUS
<1>1. n \in Nat /\ DOMAIN names = 1 .. n
  BY LenProperties
<1>2. \A i \in twice : i \in 1 .. n /\ i \in Nat
  BY <1>1, <1>t DEF Twice
<1>c. PICK c : c = IF twice = {} THEN n ELSE Min(twice) - 1
  OBVIOUS
<1>k. kept = IF twice = {} THEN names ELSE SubSeq(names, 1, Min(twice) - 1)
  BY <1>t, <1>s DEF KeptNames
<1>q. names \in Seq(T) /\ n = Len(names)
  OBVIOUS
<1>3. c \in 0 .. n /\ \A i \in 1 .. c : i \notin twice
  <2>1. CASE twice = {}
    BY ONLY <1>1, <1>c, <2>1
  <2>2. CASE twice # {}
    <3>1. twice \in SUBSET Nat
      BY <1>2
    <3>m. PICK m : m = Min(twice)
      OBVIOUS
    <3>2. m \in twice /\ \A i \in twice : m <= i
      BY <2>2, <3>1, <3>m, LeastNumber
    <3>3. m \in 1 .. n /\ c = m - 1
      BY ONLY <1>2, <1>c, <2>2, <3>2, <3>m
    <3> QED BY ONLY <1>1, <1>2, <3>2, <3>3
  <2> QED BY <2>1, <2>2
<1>4. DOMAIN kept = 1 .. c /\ (\A i \in 1 .. c : kept[i] = names[i]) /\ kept = [i \in DOMAIN kept |-> kept[i]]
  <2>1. CASE twice = {}
    BY ONLY <1>1, <1>c, <1>k, <1>q, <2>1
  <2>2. CASE twice # {}
    <3>1. kept = SubSeq(names, 1, c)
      BY <1>c, <1>k, <2>2
    <3> QED BY ONLY <1>1, <1>3, <1>q, <3>1
  <2> QED BY <2>1, <2>2
<1>5. ASSUME NEW i \in 1 .. c, NEW j \in 1 .. c, i < j PROVE kept[i] # kept[j]
  <2>1. j \notin twice /\ j \in DOMAIN names /\ i \in 1 .. j - 1
    BY <1>1, <1>3, <1>5
  <2>2. names[i] # names[j]
    BY <2>1, <1>t DEF Twice
  <2> QED BY <1>4, <2>2
<1>6. \A i, j \in 1 .. c : i < j \/ j < i \/ i = j
  BY <1>3
<1>7. \A i, j \in 1 .. c : kept[i] = kept[j] => i = j
  BY ONLY <1>5, <1>6
<1> QED BY <1>s, <1>4, <1>7 DEF Distinct

LEMMA CollectWrites == ASSUME AssemblerInv, Written, CollectFunctions PROVE Written'
<1>n. PICK names : names = FunctionNames
  OBVIOUS
<1>t. PICK twice : twice = Twice(names)
  OBVIOUS
<1>k. PICK kept : kept = KeptNames(names)
  OBVIOUS
<1>1. /\ functions' = [i \in DOMAIN kept |-> Function(kept[i])]
      /\ stage' = IF twice = {} THEN "assembling" ELSE "assembled"
      /\ source' = source /\ lineNum' = lineNum /\ hasError' = hasError
      /\ lineNum = 1
  BY <1>n, <1>t, <1>k DEF CollectFunctions, Written, Between, Twice, KeptNames
<1>2. names \in Seq(Names) /\ source \in Seq(ProgramLines)
  BY <1>n, NamesTyped DEF AssemblerInv, TypeInv
<1>3. Distinct(kept) /\ kept = [i \in DOMAIN kept |-> kept[i]]
  <2> PICK T : T = Names
    OBVIOUS
  <2>1. names \in Seq(T)
    BY <1>2
  <2> QED BY <1>k, <2>1, KeptDistinct
<1>8. \A v : Function(v).name = v /\ Len(Function(v).code) = 0 /\ Len(Function(v).constants) = 0
  BY DEF Function
<1>9. NamesOf(functions') = kept
  <2>1. NamesOf(functions') = [i \in DOMAIN kept |-> kept[i]]
    BY <1>1, <1>8 DEF NamesOf
  <2> QED BY <1>3, <2>1
<1>10. NamesDistinct'
  BY <1>3, <1>9 DEF NamesDistinct
<1>11. NamesCollected'
  <2>1. FunctionNames' = FunctionNames
    BY <1>1, HeadingsFixed
  <2> QED BY <1>1, <1>9, <1>n, <1>t, <1>k, <2>1 DEF NamesCollected, KeptNames
<1>12. Between'
  <2>1. AtBody(1)
    BY DEF AtBody
  <2>2. AtBody(1)'
    BY <1>1, <2>1, HeadingsFixed
  <2> QED BY <1>1, <2>2 DEF Between
<1>13. AllWritten'
  <2>1. \A f, last, more : FunctionWritten(f, last, more)' <=> FunctionWritten(f, last, more)
    BY <1>1, WrittenFixed
  <2>2. \A i \in DOMAIN functions' : FunctionWritten(functions'[i], lineNum' - 1, NamesOf(functions'))
    BY <1>1, <1>2, <1>8, NothingOwned
  <2> QED BY <2>1, <2>2 DEF AllWritten
<1> QED BY <1>10, <1>11, <1>12, <1>13 DEF Written

LEMMA FunctionWrites == ASSUME AssemblerInv, Written, AssembleFunction PROVE Written'
<1>0. /\ source \in Seq(ProgramLines) /\ functions \in Seq(FunctionType)
      /\ lineNum \in 1 .. Len(source) /\ ~IsEmpty(source[lineNum])
      /\ stage = "assembling" /\ ~hasError
  BY DEF AssemblerInv, TypeInv, AssembleFunction
<1>f. PICK first : first = StartLine(lineNum)
  OBVIOUS
<1>e. PICK end : end = EndLine(lineNum)
  OBVIOUS
<1>n. PICK name : name = IF IsFunctionLabel(source[lineNum]) THEN source[lineNum].func ELSE "@main"
  OBVIOUS
<1>l. PICK labels : labels = Labels(first, end)
  OBVIOUS
<1>b. PICK built : built = Body(name, labels, first, end)
  OBVIOUS
<1>c. PICK chosen : chosen = CHOOSE f \in built : TRUE
  OBVIOUS
<1>a. PICK at : at = FindFunctionIndex(name) + 1
  OBVIOUS
<1>1. /\ functions' = IF built = {} THEN functions ELSE [functions EXCEPT ![at] = chosen]
      /\ lineNum' = end /\ source' = source /\ stage' = stage /\ hasError' = (built = {})
  BY <1>f, <1>e, <1>n, <1>l, <1>b, <1>c, <1>a DEF AssembleFunction
<1>p. PICK names : names = NamesOf(functions)
  OBVIOUS
<1>2. Distinct(names) /\ names = FunctionNames /\ AtBody(lineNum)
  BY <1>0, <1>p DEF Written, NamesDistinct, NamesCollected, Between
<1>3. name \in Names
  <2>1. source[lineNum] \in ProgramLines
    BY <1>0
  <2>2. source[lineNum].func \in STRING
    BY <2>1 DEF ProgramLines
  <2> QED BY <1>n, <2>2 DEF Names
<1>4. CASE built = {}
  <2>1. functions' = functions /\ hasError'
    BY <1>1, <1>4
  <2>2. NamesDistinct' /\ NamesCollected'
    BY <1>0, <1>1, <2>1, HeadingsFixed DEF Written, NamesDistinct, NamesCollected, NamesOf
  <2> QED BY <1>0, <1>1, <2>1, <2>2 DEF Written, Between, AllWritten
<1>5. CASE built # {}
  <2>1. /\ first \in 1 .. Len(source) + 1 /\ end \in first .. Len(source) + 1 /\ lineNum <= first
        /\ \A j \in lineNum .. first - 1 : IsFunctionLabel(source[j])
        /\ \A j \in first .. end - 1 : ~IsFunctionLabel(source[j])
        /\ Apart => Owns(name, first, end, end - 1)
        /\ AtBody(end)
        /\ Named(FunctionNames, name)
    BY <1>0, <1>2, <1>f, <1>e, <1>n, NextBody
  <2>2. first \in Int /\ end \in Int /\ end - 1 \in Nat /\ lineNum - 1 \in Nat /\ lineNum - 1 <= end - 1
    BY <1>0, <2>1
  <2>3. AreLabels(labels)
    BY <1>l, <2>2, LabelsCounted
  <2>4. Assembling(chosen, name, labels, first, end - 1)
    <3>1. chosen \in Body(name, labels, first, end)
      BY <1>b, <1>c, <1>5
    <3> QED BY <1>0, <1>3, <2>1, <2>3, <3>1, BodyWritten
  <2>5. at \in DOMAIN functions /\ functions[at].name = name
    <3>1. FindFunctionIndex(name) \in Nat
      BY <1>0, <1>2, <1>p, <2>1, FirstNamed
    <3> QED BY <1>0, <1>a, <3>1, FunctionFound
  <2>6. /\ functions' = [functions EXCEPT ![at] = chosen] /\ DOMAIN functions' = DOMAIN functions
        /\ \A i \in DOMAIN functions : functions'[i] = IF i = at THEN chosen ELSE functions[i]
    BY <1>1, <1>5
  <2>7. chosen.name = name /\ WrittenTo(chosen, Block(first, end - 1), labels, names)
    BY <1>p, <2>4 DEF Assembling
  <2>8. NamesOf(functions') = names
    BY <1>p, <2>5, <2>6, <2>7 DEF NamesOf
  <2>9. NamesDistinct' /\ NamesCollected'
    <3>1. FunctionNames' = FunctionNames
      BY <1>1, HeadingsFixed
    <3> QED BY <1>2, <2>8, <3>1 DEF NamesDistinct, NamesCollected
  <2>10. Between'
    <3>1. AtBody(end)'
      BY <1>1, <2>1, HeadingsFixed
    <3> QED BY <1>0, <1>1, <3>1 DEF Between
  <2>11. ASSUME Apart, NEW i \in DOMAIN functions PROVE FunctionWritten(functions'[i], end - 1, names)
    <3>1. CASE i = at
      <4>1. functions'[i] = chosen
        BY <2>6, <3>1
      <4>2. BodyOf(chosen, first, end, end - 1, names)
        BY <1>l, <2>1, <2>2, <2>7, <2>11 DEF BodyOf
      <4> QED BY <2>1, <4>1, <4>2 DEF FunctionWritten
    <3>2. CASE i # at
      <4> PICK f : f = functions[i]
        OBVIOUS
      <4>1. functions'[i] = f
        BY <2>6, <3>2
      <4>2. FunctionWritten(f, lineNum - 1, names)
        BY <1>0, <1>p, <2>11 DEF Written, AllWritten
      <4>3. f.name # name
        BY <1>2, <1>p, <2>5, <3>2 DEF Distinct, NamesOf
      <4>4. \A j \in (lineNum - 1) + 1 .. end - 1 :
              ~IsFunctionLabel(source[j]) /\ ~IsEmpty(source[j]) => OwnerOf(j) = name
        <5>1. \A j \in (lineNum - 1) + 1 .. end - 1 :
                j \in 1 .. end - 1 /\ (j \in lineNum .. first - 1 \/ j \in first .. end - 1)
          BY <1>0, <2>1
        <5>2. \A j \in 1 .. end - 1 : ~IsFunctionLabel(source[j]) /\ ~IsEmpty(source[j]) =>
                (OwnerOf(j) = name <=> j \in first .. end - 1)
          BY <2>1, <2>11 DEF Owns
        <5> QED BY <2>1, <5>1, <5>2
      <4>5. FunctionWritten(f, end - 1, names)
        BY <1>0, <2>2, <4>2, <4>3, <4>4, BodyStays
      <4> QED BY <4>1, <4>5
    <3> QED BY <3>1, <3>2
  <2>12. AllWritten'
    <3>1. \A f, last, more : FunctionWritten(f, last, more)' <=> FunctionWritten(f, last, more)
      BY <1>1, WrittenFixed
    <3>2. Apart' <=> Apart
      BY <1>1, HeadingsFixed
    <3> QED BY <1>1, <2>6, <2>8, <2>11, <3>1, <3>2 DEF AllWritten
  <2> QED BY <2>9, <2>10, <2>12 DEF Written
<1> QED BY <1>4, <1>5

\* Nothing of it changes when the functions and the lines do not.
LEMMA WrittenStays ==
  ASSUME Written, UNCHANGED <<source, functions, lineNum, hasError>>,
         stage' # "source", stage' = stage \/ stage' # "assembling"
  PROVE  Written'
<1>1. source' = source /\ functions' = functions /\ lineNum' = lineNum /\ hasError' = hasError
  OBVIOUS
<1>2. NamesOf(functions') = NamesOf(functions)
  BY <1>1 DEF NamesOf
<1>3. FunctionNames' = FunctionNames /\ (Apart' <=> Apart) /\ \A n : AtBody(n)' <=> AtBody(n)
  BY <1>1, HeadingsFixed
<1>4. \A f, last, names : FunctionWritten(f, last, names)' <=> FunctionWritten(f, last, names)
  BY <1>1, WrittenFixed
<1>5. NamesDistinct' /\ NamesCollected'
  BY <1>2, <1>3 DEF Written, NamesDistinct, NamesCollected
<1>6. Between'
  BY <1>1, <1>3 DEF Written, Between
<1>7. AllWritten'
  BY <1>1, <1>2, <1>3, <1>4 DEF Written, AllWritten
<1> QED BY <1>5, <1>6, <1>7 DEF Written

\* Where a step takes the program.
LEMMA StagesGoOn ==
  ASSUME [Next]_vars, ~Assemble
  PROVE  /\ UNCHANGED <<source, functions, lineNum, hasError>>
         /\ stage' = stage \/ stage' \in {"host", "run", "finish", "done", "crashed"}
<1>1. CASE Host
  BY <1>1 DEF Host, HostStep, AssemblyFailed, Reset, EnterRun, Report, Quit
<1>2. CASE Run
  <2>1. AfterRun \in {"host", "finish"}
    BY DEF AfterRun
  <2> QED BY <1>2, <2>1 DEF Run, RunVars, Stay, Leave, LeaveSaving, OutOfCycles, LoopEnds, OutOfCode, Throw, NoOp, Load,
       Calculation, Compare, Jump, BranchIf, Branch, Skip, CannotIndex, StrayArgument,
       CallRefused, CallFunction, CallNamed, ReturnToCaller, ReturnFromMain
<1>3. CASE UNCHANGED vars
  BY <1>3 DEF vars, assemblerVars
<1> QED BY <1>1, <1>2, <1>3 DEF Next, AssembleStep

LEMMA NextWrites == ASSUME AssemblerInv, Written, [Next]_vars PROVE Written'
<1>1. CASE CollectFunctions
  BY <1>1, CollectWrites
<1>2. CASE SkipEmptyLine
  BY <1>2, SkipWrites
<1>3. CASE AssembleFunction
  BY <1>3, FunctionWrites
<1>4. CASE FinishAssembly
  BY <1>4, WrittenStays DEF FinishAssembly
<1>5. CASE ~Assemble
  <2>1. CASE stage' = "source"
    <3>1. UNCHANGED <<source, functions, lineNum, hasError, stage>>
      BY <1>5, <2>1, StagesGoOn
    <3>2. FunctionNames' = FunctionNames /\ (Apart' <=> Apart) /\ \A n : AtBody(n)' <=> AtBody(n)
      BY <3>1, HeadingsFixed
    <3>3. \A f, last, names : FunctionWritten(f, last, names)' <=> FunctionWritten(f, last, names)
      BY <3>1, WrittenFixed
    <3> QED BY <3>1, <3>2, <3>3 DEF Written, Between, NamesDistinct, NamesCollected, AllWritten, NamesOf
  <2>2. CASE stage' # "source"
    BY <1>5, <2>2, StagesGoOn, WrittenStays
  <2> QED BY <2>1, <2>2
<1> QED BY <1>1, <1>2, <1>3, <1>4, <1>5 DEF Assemble

LEMMA InitWritten == ASSUME Init PROVE Written
<1>1. stage = "source" /\ functions = <<>> /\ lineNum = 1
  BY DEF Init, AssemblerInit
<1>2. DOMAIN functions = {}
  BY <1>1
<1>3. Between
  BY <1>1 DEF Between
<1> QED BY <1>1, <1>2, <1>3 DEF Written, NamesDistinct, Distinct, NamesOf, NamesCollected, AllWritten

-----------------------------------------------------------------------------
(* The text of the program, as the properties have it.                     *)

LEMMA LinesSame ==
  \A line : /\ Promise!IsFunctionLabel(line) <=> IsFunctionLabel(line)
            /\ Promise!IsEmpty(line) <=> IsEmpty(line)
            /\ Promise!IsInstruction(line) <=> Coded(line)
BY DEF Promise!IsFunctionLabel, IsFunctionLabel, Promise!IsEmpty, IsEmpty, Promise!IsInstruction, Coded

LEMMA OwnersSame == \A i : Promise!FunctionOf(i) = OwnerOf(i)
<1>1. \A S : Promise!Max(S) = Max(S)
  BY DEF Promise!Max, Max
<1> QED BY <1>1, LinesSame DEF Promise!FunctionOf, OwnerOf, HeadingsTo

LEMMA HeadingsSame == Promise!FunctionLabels = Headings
BY LinesSame DEF Promise!FunctionLabels, Headings

LEMMA ApartSame ==
  ASSUME source \in Seq(ProgramLines)
  PROVE  Promise!BodiesApart <=> Apart
<1>1. Promise!ImplicitMain <=> ImplicitMain
  <2>1. \A i \in DOMAIN source : (\A j \in 1 .. i : j \notin Headings) <=> HeadingsTo(i) = {}
    BY DEF Headings, HeadingsTo
  <2> QED BY <2>1, LinesSame, HeadingsSame DEF Promise!ImplicitMain, ImplicitMain
<1>2. "@main" \in Promise!DefinedFunctions <=> \E h \in Headings : source[h].func = "@main"
  BY HeadingsSame DEF Promise!DefinedFunctions
<1> QED BY <1>1, <1>2, HeadingsSame DEF Promise!BodiesApart, Apart

\* The lines of a function that have instructions.
CodeOf(name) == {i \in DOMAIN source : OwnerOf(i) = name /\ Coded(source[i])}

LEMMA InstructionsSame ==
  ASSUME NEW name
  PROVE  Promise!Instructions(name) = [k \in 1 .. Cardinality(CodeOf(name)) |-> source[Nth(CodeOf(name), k)]]
<1>0. \A S : Promise!Cardinality(S) = Cardinality(S)
  BY DEF Promise!Cardinality, Cardinality
<1>1. \A S, k : Promise!Nth(S, k) = Nth(S, k)
  BY <1>0 DEF Promise!Nth, Nth
<1>2. \A S : Promise!InOrder(S) = InOrder(S)
  BY <1>0, <1>1 DEF Promise!InOrder, InOrder
<1>3. {i \in DOMAIN source : Promise!FunctionOf(i) = name /\ Promise!IsInstruction(source[i])} = CodeOf(name)
  BY LinesSame, OwnersSame DEF CodeOf
<1>4. Promise!InstructionLines(name) = [k \in 1 .. Cardinality(CodeOf(name)) |-> Nth(CodeOf(name), k)]
  BY <1>2, <1>3 DEF Promise!InstructionLines, InOrder
<1> QED BY <1>4 DEF Promise!Instructions

-----------------------------------------------------------------------------
(* The listing.                                                            *)

\* What is read is the number itself if and only if its field holds it.
LEMMA UnsignedIff ==
  ASSUME NEW n \in Int, NEW bytes \in 1 .. 3
  PROVE  Unsigned(n, bytes) = n <=> n \in 0 .. Span(bytes) - 1
BY UnsignedType, UnsignedKeeps

LEMMA SignedIff ==
  ASSUME NEW n \in Int, NEW bytes \in 1 .. 3
  PROVE  Signed(Unsigned(n, bytes), bytes) = n <=> n \in SignedRange(bytes)
<1> PICK u : u = Unsigned(n, bytes)
  OBVIOUS
<1> PICK span : span = Span(bytes)
  OBVIOUS
<1>1. u \in 0 .. span - 1 /\ span \in Nat
  BY UnsignedType, SpanFacts
<1>2. Unsigned(u, bytes) = u
  BY <1>1, UnsignedKeeps
<1>3. PICK h \in Nat : h > 0 /\ span = 2 * h /\ span \div 2 = h
  BY SpanEven
<1>4. Signed(u, bytes) = IF 2 * u < span THEN u ELSE u - span
  BY <1>2 DEF Signed
<1>5. Signed(u, bytes) \in -h .. h - 1
  BY <1>1, <1>3, <1>4
<1>6. SignedRange(bytes) = -h .. h - 1
  BY <1>3 DEF SignedRange
<1>7. n \in SignedRange(bytes) => Signed(u, bytes) = n
  BY SignedKeeps
<1> QED BY <1>5, <1>6, <1>7

ShownRange(op, i, t) ==
  IF IsReg(t) \/ Len(op) = 4 THEN 0 .. Span(Bytes(op, i)) - 1 ELSE SignedRange(Bytes(op, i))

LEMMA OperandShown ==
  ASSUME NEW word, word.op \in Opcodes, NEW i \in 1 .. Len(word.op) - 1, NEW t \in Tokens,
         Numeric(word.op, i, t), NEW k, NEW labels, NEW constants, NEW names,
         Means(FieldU(word, Fields(word.op)[i]), word.op, i, t, k, labels, constants, names)
  PROVE  Listed(word, i) = t.n <=> t.n \in ShownRange(word.op, i, t)
<1> PICK op : op = word.op
  OBVIOUS
<1> PICK field, verb : field = Fields(op)[i] /\ verb = Verb(op)
  OBVIOUS
<1>1. t.n \in Int /\ Bytes(op, i) \in 1 .. 3
  BY BytesType DEF Tokens
<1>2. FieldU(word, field) = Unsigned(t.n, Bytes(op, i))
  BY DEF Means
<1>3. FieldS(word, field) = Signed(Unsigned(t.n, Bytes(op, i)), Bytes(op, i))
  BY <1>2 DEF FieldS, Bytes
<1>4. /\ RegisterField(op, i) => IsReg(t)
      /\ IsReg(t) => RegisterField(op, i)
      /\ ~IsReg(t) => Immediate(field)
  BY DEF Means, Numeric
<1>5. /\ verb = "FUNCREF" /\ field = "iA" => RegisterField(op, i)
      /\ RegisterField(op, i) => verb # "CALLFN" /\ (~Immediate(field) \/ (verb = "FUNCREF" /\ field = "iA"))
  <2>1. FieldFacts(op) /\ Shaped(op) /\ Counted(op)
    BY OpcodeFields, OpcodeShape, OpcodesCounted
  <2>2. field = op[i + 1] /\ verb = op[1] /\ Len(op) \in 1 .. 4
    BY <2>1 DEF Shaped, Verb
  <2>3. verb \in {"FUNCREF", "CALLFN"} => i \in {1, 2}
    <3>1. verb \in {"FUNCREF", "CALLFN"} => Len(op) = 3
      BY <2>1, <2>2 DEF Counted, Count, NoOperand, OneOperand, TwoOperands
    <3> PICK n : n = Len(op)
      OBVIOUS
    <3>2. i \in 1 .. n - 1 /\ (verb \in {"FUNCREF", "CALLFN"} => n = 3)
      BY <3>1
    <3>3. n = 3 => i \in {1, 2}
      BY <3>2
    <3> QED BY <3>2, <3>3
  <2>4. /\ verb = "FUNCREF" /\ i = 1 => field = "iA"
        /\ verb = "FUNCREF" /\ i = 2 => field = "iBC"
        /\ verb = "CALLFN" /\ i = 1 => field = "iA"
        /\ verb = "CALLFN" /\ i = 2 => field = "kBC"
    BY <2>1, <2>2 DEF FieldFacts
  <2> QED BY <2>3, <2>4 DEF RegisterField, Immediate
<1>6. Listed(word, i) = IF IsReg(t) \/ Len(op) = 4 THEN FieldU(word, field) ELSE FieldS(word, field)
  BY <1>4, <1>5 DEF Listed
<1> QED BY <1>1, <1>2, <1>3, <1>6, UnsignedIff, SignedIff DEF ShownRange

\* The lines between first and end are those of a function, and only those.
Whole(name, first, end, last) ==
  (\A j \in first .. end - 1 : ~IsFunctionLabel(source[j])) /\ Owns(name, first, end, last)

LEMMA CodeIs ==
  ASSUME source \in Seq(ProgramLines), NEW name, NEW last \in Nat, last >= Len(source),
         NEW first \in 1 .. Len(source) + 1, NEW end \in first .. Len(source) + 1,
         Whole(name, first, end, last)
  PROVE  CodeOf(name) = Block(first, end - 1)
<1>1. /\ \A j \in first .. end - 1 : ~IsFunctionLabel(source[j])
      /\ Owns(name, first, end, last)
  BY DEF Whole
<1>2. \A line : Coded(line) => ~IsFunctionLabel(line) /\ ~IsEmpty(line)
  BY DEF Coded, IsEmpty
<1>3. \A j \in DOMAIN source : Coded(source[j]) => (OwnerOf(j) = name <=> j \in first .. end - 1)
  <2>1. \A j \in DOMAIN source : j \in 1 .. last
    OBVIOUS
  <2> QED BY <1>1, <1>2, <2>1 DEF Owns
<1>4. \A j \in first .. end - 1 : j \in DOMAIN source
  OBVIOUS
<1> QED BY <1>3, <1>4 DEF CodeOf, Block

SaysSource(f, k, line, names) ==
  \E labels : Says(f.code[k], k, line.verb, OperandsOf(line), labels, f.constants, names)

LEMMA InstructionAt ==
  ASSUME AssemblerInv, Written, ~hasError, lineNum > Len(source), Apart, NEW i \in DOMAIN functions
  PROVE  LET f == functions[i]
             S == CodeOf(f.name)
         IN  /\ Len(f.code) = Cardinality(S)
             /\ \A k \in 1 .. Cardinality(S) :
                  Nth(S, k) \in DOMAIN source /\ SaysSource(f, k, source[Nth(S, k)], NamesOf(functions))
<1>0. source \in Seq(ProgramLines) /\ lineNum - 1 \in Nat /\ lineNum - 1 >= Len(source) /\ Len(source) \in Nat
  BY DEF AssemblerInv, TypeInv
<1> PICK f, names : f = functions[i] /\ names = NamesOf(functions)
  OBVIOUS
<1>1. FunctionWritten(f, lineNum - 1, names)
  BY DEF Written, AllWritten
<1>2. PICK first \in 1 .. Len(source) + 1 : \E end \in first .. Len(source) + 1 : BodyOf(f, first, end, lineNum - 1, names)
  BY <1>1 DEF FunctionWritten
<1>3. PICK end \in first .. Len(source) + 1 : BodyOf(f, first, end, lineNum - 1, names)
  BY <1>2
<1> PICK last : last = lineNum - 1
  OBVIOUS
<1>4. CodeOf(f.name) = Block(first, end - 1)
  BY <1>0, <1>3, CodeIs DEF BodyOf, Whole
<1> PICK S, n, labels : S = CodeOf(f.name) /\ n = Len(source) /\ labels = Labels(first, end)
  OBVIOUS
<1>5. n \in Nat /\ S \in SUBSET (1 .. n)
  BY <1>0 DEF CodeOf
<1>6. WrittenTo(f, S, labels, names)
  BY <1>3, <1>4 DEF BodyOf
<1>7. Len(f.code) = Cardinality(S)
  BY <1>6 DEF WrittenTo
<1>8. ASSUME NEW k \in 1 .. Cardinality(S)
      PROVE  Nth(S, k) \in DOMAIN source /\ SaysSource(f, k, source[Nth(S, k)], names)
  <2> PICK h : h = Nth(S, k)
    OBVIOUS
  <2>1. h \in S /\ Rank(S, h) = k
    BY <1>5, NthIn DEF Rank
  <2>2. h \in DOMAIN source
    BY <1>0, <1>5, <2>1
  <2>3. SaysAt(f, S, h, labels, names)
    BY <1>6, <2>1 DEF WrittenTo
  <2>4. Says(f.code[k], k, source[h].verb, OperandsOf(source[h]), labels, f.constants, names)
    BY <2>1, <2>3 DEF SaysAt
  <2> QED BY <2>2, <2>4 DEF SaysSource
<1> QED BY <1>7, <1>8

LEMMA Listing == ASSUME AssemblerInv, Written PROVE ListingAsWritten
<1> SUFFICES ASSUME stage = "assembled", Assembled, Promise!BodiesApart, NEW fi \in DOMAIN functions
             PROVE  LET lines == Promise!Instructions(functions[fi].name)
                        code  == functions[fi].code
                    IN  /\ Len(lines) = Len(code)
                        /\ \A k \in DOMAIN lines : \A i \in DOMAIN Fields(code[k].op) :
                             LET t     == lines[k].args[i]
                                 bytes == Place(Fields(code[k].op)[i])[2]
                                 shown == IF IsReg(t) \/ Len(code[k].op) = 4 THEN 0 .. Span(bytes) - 1
                                          ELSE SignedRange(bytes)
                             IN  Numeric(code[k].op, i, t) => (Listed(code[k], i) = t.n <=> t.n \in shown)
  BY DEF ListingAsWritten
<1>0. source \in Seq(ProgramLines) /\ functions \in Seq(FunctionType) /\ ~hasError /\ lineNum > Len(source)
  BY DEF AssemblerInv, TypeInv, Assembled
<1>1. Apart
  BY <1>0, ApartSame
<1> PICK f, names, lines : f = functions[fi] /\ names = NamesOf(functions) /\ lines = Promise!Instructions(f.name)
  OBVIOUS
<1> PICK S : S = CodeOf(f.name)
  OBVIOUS
<1>2. S \in SUBSET (1 .. Len(source)) /\ Len(source) \in Nat
  BY <1>0 DEF CodeOf
<1>3. Cardinality(S) \in Nat
  BY <1>2, Counted1
<1>4. lines = [k \in 1 .. Cardinality(S) |-> source[Nth(S, k)]]
  BY InstructionsSame
<1>5. /\ Len(f.code) = Cardinality(S)
      /\ \A k \in 1 .. Cardinality(S) : Nth(S, k) \in DOMAIN source /\ SaysSource(f, k, source[Nth(S, k)], names)
  BY <1>0, <1>1, InstructionAt
<1>6. Len(lines) = Len(f.code)
  <2> PICK c : c = Cardinality(S)
    OBVIOUS
  <2>1. c \in Nat /\ DOMAIN lines = 1 .. c
    BY <1>3, <1>4
  <2>2. Len(lines) = c
    BY <1>4, <2>1
  <2> QED BY <1>5, <2>2
<1>7. ASSUME NEW k \in DOMAIN lines, NEW i \in DOMAIN Fields(f.code[k].op),
             NEW t, t = lines[k].args[i], Numeric(f.code[k].op, i, t)
      PROVE  Listed(f.code[k], i) = t.n <=> t.n \in ShownRange(f.code[k].op, i, t)
  <2> PICK line, word, op, x : line = lines[k] /\ word = f.code[k] /\ op = word.op /\ x = OperandsOf(line)
    OBVIOUS
  <2>1. k \in 1 .. Cardinality(S) /\ line = source[Nth(S, k)]
    BY <1>4
  <2>2. line \in ProgramLines /\ SaysSource(f, k, line, names)
    BY <1>0, <1>5, <2>1
  <2>3. PICK labels : Says(word, k, line.verb, x, labels, f.constants, names)
    BY <2>2 DEF SaysSource
  <2>4. /\ op \in Opcodes /\ DOMAIN x = 1 .. Len(op) - 1
        /\ \A j \in 1 .. Len(op) - 1 : Means(FieldU(word, Fields(op)[j]), op, j, x[j], k, labels, f.constants, names)
    BY <2>3 DEF Says
  <2>5. i \in 1 .. Len(op) - 1
    BY <2>4, OpcodeShape DEF Shaped
  <2>6. x = line.args
    <3>1. x # <<>>
      BY <2>4, <2>5
    <3> QED BY <3>1 DEF OperandsOf
  <2>7. t = x[i] /\ t \in Tokens
    <3>1. line.args \in Seq(Tokens)
      BY <2>2 DEF ProgramLines
    <3>2. i \in DOMAIN x
      BY <2>4, <2>5
    <3>3. x \in Seq(Tokens)
      BY <2>6, <3>1
    <3>4. x[i] \in Tokens
      <4> PICK T : T = Tokens
        OBVIOUS
      <4>1. x \in Seq(T)
        BY <3>3
      <4>2. x[i] \in T
        BY ONLY <3>2, <4>1
      <4> QED BY <4>2
    <3>5. t = line.args[i]
      BY <1>7
    <3> QED BY <2>6, <3>4, <3>5
  <2>8. Means(FieldU(word, Fields(op)[i]), op, i, t, k, labels, f.constants, names)
    BY <2>4, <2>5, <2>7
  <2>9. Numeric(word.op, i, t)
    BY <1>7
  <2> QED BY <2>4, <2>5, <2>7, <2>8, <2>9, OperandShown
<1> QED BY <1>6, <1>7 DEF ShownRange, Bytes

-----------------------------------------------------------------------------
(* Where an error is.                                                      *)

Places == [pc : Int, base : Int, func : Nat]
Placed(p) == p \in Places /\ p.func + 1 \in DOMAIN functions
Failed == runtimeError = "Can't index"
Reported == report.what = "Can't index"
Early == stage \in {"source", "assembling", "assembled"}

\* The instruction before a place is one that indexes.
Indexes(p) ==
  LET code == functions[p.func + 1].code
  IN  p.pc \in DOMAIN code /\ Verb(code[p.pc].op) \in {"INDEX", "IDXSET"}

Running ==
  isRunning \/ Failed =>
    /\ Placed(saved) /\ (stage = "run" => Placed(here))
    /\ \A i \in DOMAIN callStack : Placed(callStack[i])
Failing ==
  Failed => /\ ~isRunning
            /\ stage = "run" => Indexes(here)
            /\ stage \in {"host", "finish"} => Indexes(saved)
Starting ==
  /\ Early => isRunning = FALSE /\ ~Failed /\ callStack = <<>>
  /\ stage # "done" => ~Reported
Executing == callStack \in Seq(Places) /\ Starting /\ Running /\ Failing /\ ErrorLine

\* The first function of a name is the only one.
LEMMA FoundAgain ==
  ASSUME functions \in Seq(FunctionType), NamesDistinct, NEW i \in DOMAIN functions
  PROVE  FindFunctionIndex(functions[i].name) + 1 = i
<1> PICK name : name = functions[i].name
  OBVIOUS
<1>1. Named(NamesOf(functions), name)
  BY DEF Named, NamesOf
<1>2. FindFunctionIndex(name) \in Nat
  BY <1>1, FirstNamed
<1>3. /\ FindFunctionIndex(name) + 1 \in DOMAIN functions
      /\ functions[FindFunctionIndex(name) + 1].name = name
  BY <1>2, FunctionFound
<1> QED BY <1>3 DEF NamesDistinct, Distinct, NamesOf

LEMMA FieldType ==
  ASSUME NEW word \in Words, NEW i \in 1 .. Len(word.op) - 1
  PROVE  /\ FieldU(word, Fields(word.op)[i]) \in Nat
         /\ VMReads(word, i) \in Int
         /\ Verb(word.op) = "CALLF" => VMReads(word, i) \in Nat
<1> PICK op, field : op = word.op /\ field = Fields(op)[i]
  OBVIOUS
<1>1. op \in Opcodes /\ word.abc \in Int
  BY DEF Words
<1>2. Place(field)[1] \in 0 .. 3 /\ Place(field)[2] \in 1 .. 3
  <2>1. PICK places \in Layouts : Laid(op, places)
    BY <1>1, OpcodesLaid
  <2>2. field = op[i + 1] /\ i + 1 \in 2 .. Len(op)
    BY <1>1, OpcodeShape DEF Shaped
  <2>3. Place(field) = places[i] /\ i \in 1 .. Len(places)
    BY <2>1, <2>2 DEF Laid
  <2>4. \A p \in Layouts : \A j \in 1 .. Len(p) : p[j][1] \in 0 .. 3 /\ p[j][2] \in 1 .. 3
    BY DEF Layouts
  <2> QED BY <2>1, <2>3, <2>4
<1> PICK u, k, bytes : u = FieldU(word, field) /\ k = Place(field)[1] /\ bytes = Place(field)[2]
  OBVIOUS
<1>3. Span(k) \in Nat /\ Span(k) > 0 /\ Span(bytes) \in Nat /\ Span(bytes) > 0
  BY <1>2, SpanFacts
<1>4. word.abc \div Span(k) \in Int
  BY <1>1, <1>3
<1> PICK m : m = word.abc \div Span(k)
  OBVIOUS
<1>5. u \in 0 .. Span(bytes) - 1
  <2>1. bytes \in 0 .. 3 /\ m \in Int
    BY <1>2, <1>4
  <2>2. Unsigned(m, bytes) \in 0 .. Span(bytes) - 1
    BY <2>1, UnsignedType
  <2> QED BY <2>2 DEF FieldU
<1>6. Signed(u, bytes) \in Int
  <2>1. Unsigned(u, bytes) \in 0 .. Span(bytes) - 1
    <3>1. bytes \in 0 .. 3 /\ u \in Int
      BY <1>2, <1>3, <1>5
    <3> QED BY <3>1, UnsignedType
  <2> QED BY <1>3, <2>1 DEF Signed
<1>7. VMReads(word, i) \in {u, Signed(u, bytes)} /\ (Verb(op) = "CALLF" => VMReads(word, i) = u)
  BY DEF VMReads, FieldS
<1>8. u \in Nat /\ Signed(u, bytes) \in Int
  BY <1>3, <1>5, <1>6
<1> QED BY <1>7, <1>8

\* The words of a program.
LEMMA WordHere ==
  ASSUME TypeInv, Placed(here), InCode
  PROVE  /\ Func \in FunctionType /\ Word \in Words /\ Op \in Opcodes /\ VerbHere = Op[1]
         /\ here.pc + 1 \in DOMAIN Func.code /\ Len(Op) = Count(VerbHere) + 1
         /\ here.pc \in Int
<1>1. functions \in Seq(FunctionType) /\ here.func + 1 \in DOMAIN functions /\ here.pc \in Int
  BY DEF TypeInv, Placed, Places
<1>2. Func \in FunctionType
  BY <1>1 DEF Func
<1>3. Func.code \in Seq(Words)
  BY <1>2 DEF FunctionType
<1>4. here.pc + 1 \in DOMAIN Func.code
  BY <1>1, <1>3 DEF InCode
<1>5. Word \in Words
  BY <1>3, <1>4 DEF Word
<1>6. Op \in Opcodes /\ VerbHere = Op[1]
  BY <1>5 DEF Words, Op, VerbHere, Verb
<1>7. Len(Op) = Count(VerbHere) + 1
  BY <1>6, OpcodesCounted DEF Counted
<1> QED BY <1>1, <1>2, <1>4, <1>5, <1>6, <1>7

\* A place from which the program goes on in the same function.
LEMMA PlaceMoves ==
  ASSUME NEW p, Placed(p), NEW offset \in Int
  PROVE  /\ Placed([p EXCEPT !.pc = @ + 1 + offset])
         /\ [p EXCEPT !.pc = @ + 1 + offset] \in Places
BY DEF Placed, Places

\* Steps of an instruction that leaves no error behind.
Steps == NoOp \/ Load \/ Calculation \/ Compare \/ Jump \/ BranchIf \/ Branch \/ Skip \/ CallNamed

LEMMA StepsAdvance ==
  ASSUME TypeInv, Placed(here), Steps
  PROVE  /\ \E offset \in Int : here' = [here EXCEPT !.pc = @ + 1 + offset]
         /\ UNCHANGED <<functions, stage, saved, isRunning, runtimeError, report, callStack>>
         /\ isRunning /\ stage = "run"
<1>1. InCode /\ isRunning /\ stage = "run"
  BY DEF Steps, Execute, Cycle, NoOp, Load, Calculation, Compare, Jump, BranchIf, Branch, Skip, CallNamed
<1>2. UNCHANGED <<functions, stage, saved, isRunning, runtimeError, report, callStack>>
  BY DEF Steps, Stay, RunVars, hostVars, NoOp, Load, Calculation, Compare, Jump, BranchIf, Branch, Skip, CallNamed
<1>3. ASSUME NEW i \in 1 .. Len(Op) - 1 PROVE Field(i) \in Int
  BY <1>1, <1>3, WordHere, FieldType DEF Field, Op
<1>4. 0 \in Int /\ 1 \in Int
  OBVIOUS
<1>5. Len(Op) = Count(VerbHere) + 1
  BY <1>1, WordHere
<1>6. CASE NoOp \/ Load \/ Calculation \/ Compare \/ Skip \/ CallNamed
  <2>1. here' \in {[here EXCEPT !.pc = @ + 1 + 0], [here EXCEPT !.pc = @ + 1 + 1]}
    BY <1>6 DEF NoOp, Load, Calculation, Compare, Skip, CallNamed, Advance
  <2> QED BY <1>1, <1>2, <1>4, <2>1
<1>7. CASE Jump
  <2>1. VerbHere = "JUMP" /\ here' = [here EXCEPT !.pc = @ + 1 + Field(1)]
    BY <1>7 DEF Jump, Execute, Advance
  <2>2. Field(1) \in Int
    BY <1>3, <1>5, <2>1 DEF Count, NoOperand, OneOperand
  <2> QED BY <1>1, <1>2, <2>1, <2>2
<1>8. CASE BranchIf
  <2>1. VerbHere \in {"BRTRUE", "BRFALSE"} /\ here' \in {[here EXCEPT !.pc = @ + 1 + Field(2)], [here EXCEPT !.pc = @ + 1 + 0]}
    BY <1>8 DEF BranchIf, Execute, Advance
  <2>2. Field(2) \in Int
    BY <1>3, <1>5, <2>1 DEF Count, NoOperand, OneOperand, TwoOperands
  <2> QED BY <1>1, <1>2, <1>4, <2>1, <2>2
<1>9. CASE Branch
  <2>1. VerbHere \in Branching /\ here' \in {[here EXCEPT !.pc = @ + 1 + Field(3)], [here EXCEPT !.pc = @ + 1 + 0]}
    BY <1>9 DEF Branch, Execute, Advance
  <2>2. Field(3) \in Int
    <3>1. Count(VerbHere) = 3
      BY <2>1 DEF Branching, Count, NoOperand, OneOperand, TwoOperands
    <3> QED BY <1>3, <1>5, <3>1
  <2> QED BY <1>1, <1>2, <1>4, <2>1, <2>2
<1> QED BY <1>6, <1>7, <1>8, <1>9 DEF Steps
\* Before the program runs.
LEMMA AssemblyExecutes == ASSUME Executing, AssembleStep PROVE Executing'
<1>1. Early /\ stage' \in {"assembling", "assembled", stage}
  BY DEF AssembleStep, Assemble, CollectFunctions, SkipEmptyLine, AssembleFunction, FinishAssembly, Early
<1>2. Early' /\ stage' # "done" /\ stage # "done" /\ stage' \notin {"run", "host", "finish"}
  BY <1>1 DEF Early
<1>3. UNCHANGED <<isRunning, runtimeError, report, callStack, saved, here>>
  BY DEF AssembleStep, hostVars
<1>4. isRunning = FALSE /\ ~Failed /\ callStack = <<>> /\ ~Reported
  BY <1>1, <1>2 DEF Executing, Starting
<1>5. isRunning' = FALSE /\ ~Failed' /\ callStack' = <<>> /\ ~Reported'
  BY <1>3, <1>4 DEF Failed, Reported
<1>6. callStack' \in Seq(Places)
  BY <1>5, EmptySeq
<1> QED BY <1>2, <1>5, <1>6 DEF Executing, Starting, Running, Failing, ErrorLine, Reported

\* A step without an error, in the program as it is.
Goes ==
  /\ isRunning /\ ~Early /\ stage # "done" /\ ~Early' /\ stage' # "done"
  /\ UNCHANGED <<functions, runtimeError, report>>
  /\ here' \in Places /\ here'.func + 1 \in DOMAIN functions
  /\ saved' \in Places /\ saved'.func + 1 \in DOMAIN functions
  /\ callStack' \in Seq(Places)
  /\ \A i \in DOMAIN callStack' : callStack'[i].func + 1 \in DOMAIN functions

LEMMA GoesOn == ASSUME Executing, Goes PROVE Executing'
<1>1. ~Failed /\ ~Reported
  BY DEF Executing, Failing, Starting, Goes
<1>2. ~Failed' /\ ~Reported'
  BY <1>1 DEF Goes, Failed, Reported
<1>3. Starting'
  BY <1>2 DEF Goes, Starting
<1>4. Failing'
  BY <1>2 DEF Failing
<1>5. ErrorLine'
  BY <1>2 DEF ErrorLine, Reported
<1>6. Placed(here)' /\ Placed(saved)'
  BY DEF Goes, Placed
<1>7. ASSUME NEW i \in DOMAIN callStack' PROVE callStack'[i] \in Places
  BY <1>7, ElementOfSeq DEF Goes
<1>8. ASSUME NEW i \in DOMAIN callStack' PROVE Placed(callStack[i])'
  BY <1>7, <1>8 DEF Goes, Placed
<1>9. Running'
  BY <1>6, <1>8 DEF Running
<1> QED BY <1>3, <1>4, <1>5, <1>9 DEF Executing, Goes

\* Where a running machine is.
LEMMA Places1 ==
  ASSUME Executing, isRunning \/ Failed
  PROVE  /\ Placed(saved) /\ (stage = "run" => Placed(here))
         /\ saved \in Places /\ saved.func + 1 \in DOMAIN functions
         /\ stage = "run" => here \in Places /\ here.func + 1 \in DOMAIN functions
         /\ callStack \in Seq(Places)
         /\ \A i \in DOMAIN callStack : callStack[i].func + 1 \in DOMAIN functions
BY DEF Executing, Running, Placed

\* Run, where an instruction or the end of a budget leaves no error.
LEMMA StepGoes == ASSUME TypeInv, Executing, Steps PROVE Executing'
<1>1. isRunning /\ stage = "run"
  BY DEF Steps, Execute, Cycle, NoOp, Load, Calculation, Compare, Jump, BranchIf, Branch, Skip, CallNamed
<1>2. Placed(here)
  BY <1>1, Places1
<1>3. /\ \E offset \in Int : here' = [here EXCEPT !.pc = @ + 1 + offset]
      /\ UNCHANGED <<functions, stage, saved, isRunning, runtimeError, report, callStack>>
  BY <1>2, StepsAdvance
<1>4. here' \in Places /\ here'.func + 1 \in DOMAIN functions
  BY <1>2, <1>3 DEF Placed, Places
<1>5. ~Early /\ stage # "done" /\ ~Early' /\ stage' # "done"
  BY <1>1, <1>3 DEF Early
<1>6. /\ saved' \in Places /\ saved'.func + 1 \in DOMAIN functions
      /\ callStack' \in Seq(Places)
      /\ \A i \in DOMAIN callStack' : callStack'[i].func + 1 \in DOMAIN functions
  BY <1>1, <1>3, Places1
<1> QED BY <1>1, <1>3, <1>4, <1>5, <1>6, GoesOn DEF Goes

LEMMA LeavingGoes ==
  ASSUME Executing, OutOfCycles \/ OutOfCode \/ Throw \/ CallRefused \/ EnterRun
  PROVE  Executing'
<1>1. isRunning /\ stage \in {"run", "host"} /\ (EnterRun \/ stage = "run")
  BY DEF OutOfCycles, OutOfCode, Throw, CallRefused, EnterRun, Cycle, Execute
<1>2. UNCHANGED <<functions, runtimeError, report, callStack>>
  BY DEF OutOfCycles, OutOfCode, Throw, CallRefused, EnterRun, RunVars, hostVars, HostStep
<1>3. stage' \in {"run", "host", "finish", "crashed"}
  BY DEF OutOfCycles, OutOfCode, Throw, CallRefused, EnterRun, Leave, LeaveSaving, AfterRun
<1>4. here' \in {here, saved} /\ saved' \in {here, saved} /\ (here' = saved \/ stage = "run") /\ (saved' = saved \/ stage = "run")
  BY DEF OutOfCycles, OutOfCode, Throw, CallRefused, EnterRun, Leave, LeaveSaving, Cycle, Execute
<1>5. /\ here' \in Places /\ here'.func + 1 \in DOMAIN functions
      /\ saved' \in Places /\ saved'.func + 1 \in DOMAIN functions
  BY <1>1, <1>4, Places1
<1>6. /\ callStack' \in Seq(Places)
      /\ \A i \in DOMAIN callStack' : callStack'[i].func + 1 \in DOMAIN functions
  BY <1>1, <1>2, Places1
<1>7. ~Early /\ stage # "done" /\ ~Early' /\ stage' # "done"
  BY <1>1, <1>3 DEF Early
<1> QED BY <1>1, <1>2, <1>5, <1>6, <1>7, GoesOn DEF Goes

\* Calls and returns.
LEMMA CallGoes == ASSUME TypeInv, Executing, CallFunction PROVE Executing'
<1>1. isRunning /\ stage = "run" /\ InCode /\ VerbHere = "CALLF" /\ Field(2) < Len(functions)
  BY DEF CallFunction, Execute, Cycle
<1>2. UNCHANGED <<functions, stage, saved, runtimeError, report>>
  BY DEF CallFunction, Stay, RunVars, hostVars
<1>3. Placed(here)
  BY <1>1, Places1
<1>4. /\ Word \in Words /\ Op = Word.op /\ Verb(Word.op) = "CALLF" /\ Len(Op) = Count(VerbHere) + 1
  BY <1>1, <1>3, WordHere DEF Op, VerbHere
<1>5. Len(Word.op) = 3
  BY <1>1, <1>4 DEF Count, NoOperand, OneOperand, TwoOperands
<1>6. Field(1) \in Int /\ Field(2) \in Nat
  <2>1. 1 \in 1 .. Len(Word.op) - 1 /\ 2 \in 1 .. Len(Word.op) - 1
    BY <1>5
  <2>2. VMReads(Word, 1) \in Int
    BY <1>4, <2>1, FieldType
  <2>3. Verb(Word.op) = "CALLF" => VMReads(Word, 2) \in Nat
    BY <1>4, <2>1, FieldType
  <2> QED BY <1>4, <2>2, <2>3 DEF Field
<1>7. here' = [pc |-> 0, base |-> here.base + Field(1), func |-> Field(2)]
  BY DEF CallFunction
<1>8. here.base \in Int /\ functions \in Seq(FunctionType)
  BY <1>3 DEF Placed, Places, TypeInv
<1>9. here' \in Places /\ here'.func + 1 \in DOMAIN functions
  BY <1>1, <1>6, <1>7, <1>8 DEF Places
<1> PICK back : back = [here EXCEPT !.pc = @ + 1]
  OBVIOUS
<1>10. callStack' = Append(callStack, back)
  BY DEF CallFunction
<1>11. back \in Places /\ back.func + 1 \in DOMAIN functions
  BY <1>3 DEF Placed, Places
<1>12. callStack \in Seq(Places) /\ \A i \in DOMAIN callStack : callStack[i].func + 1 \in DOMAIN functions
  BY <1>1, Places1
<1>13. callStack' \in Seq(Places)
  BY <1>10, <1>11, <1>12, AppendProperties
<1>14. \A i \in DOMAIN callStack' : callStack'[i].func + 1 \in DOMAIN functions
  BY <1>10, <1>11, <1>12, AppendProperties
<1>15. saved' \in Places /\ saved'.func + 1 \in DOMAIN functions
  BY <1>1, <1>2, Places1
<1>16. ~Early /\ stage # "done" /\ ~Early' /\ stage' # "done"
  BY <1>1, <1>2 DEF Early
<1> QED BY <1>1, <1>2, <1>9, <1>13, <1>14, <1>15, <1>16, GoesOn DEF Goes

LEMMA ReturnGoes == ASSUME TypeInv, Executing, ReturnToCaller PROVE Executing'
<1>1. isRunning /\ stage = "run" /\ callStack # <<>>
  BY DEF ReturnToCaller, Execute, Cycle
<1>2. UNCHANGED <<functions, stage, saved, runtimeError, report>>
  BY DEF ReturnToCaller, Stay, RunVars, hostVars
<1>3. callStack \in Seq(Places) /\ \A i \in DOMAIN callStack : callStack[i].func + 1 \in DOMAIN functions
  BY <1>1, Places1
<1>4. Len(callStack) \in Nat \ {0} /\ DOMAIN callStack = 1 .. Len(callStack)
  BY <1>1, <1>3, LenProperties, EmptySeq
<1>5. here' = callStack[Len(callStack)] /\ callStack' = SubSeq(callStack, 1, Len(callStack) - 1)
  BY DEF ReturnToCaller, Last, Front
<1>6. here' \in Places /\ here'.func + 1 \in DOMAIN functions
  BY <1>3, <1>4, <1>5
<1>7. /\ callStack' \in Seq(Places)
      /\ DOMAIN callStack' = 1 .. Len(callStack) - 1
      /\ \A i \in 1 .. Len(callStack) - 1 : callStack'[i] = callStack[i]
  BY <1>3, <1>4, <1>5
<1>8. \A i \in DOMAIN callStack' : callStack'[i].func + 1 \in DOMAIN functions
  BY <1>3, <1>4, <1>7
<1>9. saved' \in Places /\ saved'.func + 1 \in DOMAIN functions
  BY <1>1, <1>2, Places1
<1>10. ~Early /\ stage # "done" /\ ~Early' /\ stage' # "done"
  BY <1>1, <1>2 DEF Early
<1> QED BY <1>1, <1>2, <1>6, <1>7, <1>8, <1>9, <1>10, GoesOn DEF Goes

LEMMA EndGoes == ASSUME TypeInv, Executing, ReturnFromMain PROVE Executing'
<1>1. isRunning /\ stage = "run"
  BY DEF ReturnFromMain, Execute, Cycle
<1>2. UNCHANGED <<functions, runtimeError, report, callStack>> /\ stage' \in {"host", "finish"}
  BY DEF ReturnFromMain, RunVars, hostVars, Leave, AfterRun
<1>3. Placed(here)
  BY <1>1, Places1
<1>4. here' = [here EXCEPT !.pc = @ + 1] /\ saved' = here'
  BY DEF ReturnFromMain
<1>5. here' \in Places /\ here'.func + 1 \in DOMAIN functions
  BY <1>3, <1>4 DEF Placed, Places
<1>6. /\ callStack' \in Seq(Places)
      /\ \A i \in DOMAIN callStack' : callStack'[i].func + 1 \in DOMAIN functions
  BY <1>1, <1>2, Places1
<1>7. ~Early /\ stage # "done" /\ ~Early' /\ stage' # "done"
  BY <1>1, <1>2 DEF Early
<1> QED BY <1>1, <1>2, <1>4, <1>5, <1>6, <1>7, GoesOn DEF Goes

\* The machine is set up.
LEMMA ResetGoes == ASSUME TypeInv, Executing, Reset PROVE Executing'
<1>1. stage = "assembled" /\ stage' = "host"
  BY DEF Reset
<1>2. UNCHANGED <<functions, callStack, here, runtimeError, report>>
  BY DEF Reset, HostStep, hostVars
<1>3. Early /\ stage # "done"
  BY <1>1 DEF Early
<1>4. isRunning = FALSE /\ ~Failed /\ callStack = <<>> /\ ~Reported
  BY <1>3 DEF Executing, Starting
<1>5. ~Failed' /\ callStack' = <<>> /\ ~Reported'
  BY <1>2, <1>4 DEF Failed, Reported
<1>6. callStack' \in Seq(Places) /\ DOMAIN callStack' = {}
  BY <1>5, EmptySeq
<1>7. Starting' /\ Failing' /\ ErrorLine'
  <2>1. Starting'
    BY <1>1, <1>5 DEF Starting, Early
  <2>2. Failing' /\ ErrorLine'
    BY <1>5 DEF Failing, ErrorLine, Reported
  <2> QED BY <2>1, <2>2
<1>8. CASE UNCHANGED isRunning
  BY <1>4, <1>5, <1>6, <1>7, <1>8 DEF Executing, Running
<1>9. CASE ~UNCHANGED isRunning
  <2> PICK main : main = FindFunctionIndex("@main")
    OBVIOUS
  <2>1. main >= 0 /\ saved' = [Place0 EXCEPT !.func = main]
    BY <1>9 DEF Reset
  <2>2. functions \in Seq(FunctionType) /\ functions' = functions
    BY <1>2 DEF TypeInv
  <2>3. main \in -1 .. Len(functions) - 1 /\ Len(functions) \in Nat /\ DOMAIN functions = 1 .. Len(functions)
    BY <2>2, FunctionIndexIsNumber
  <2>4. saved' \in Places /\ saved'.func + 1 \in DOMAIN functions
    BY <2>1, <2>3 DEF Place0, Places
  <2>5. Placed(saved)'
    BY <2>2, <2>4 DEF Placed
  <2>6. stage' # "run"
    BY <1>1
  <2> QED BY <1>6, <1>7, <2>5, <2>6 DEF Executing, Running
<1> QED BY <1>8, <1>9

\* A step on which the machine stands still.
LEMMA FindsTheSame ==
  ASSUME UNCHANGED functions
  PROVE  FindFunctionIndex(report.func)' = FindFunctionIndex(report'.func)
<1> DEFINE I  == {i \in 1 .. Len(functions) : functions[i].name = report'.func}
<1> DEFINE I1 == {i \in 1 .. Len(functions') : functions'[i].name = report'.func}
<1>1. FindFunctionIndex(report.func)' = (IF I1 # {} THEN Min(I1) ELSE 0) - 1
  BY Zenon DEF FindFunctionIndex, SelectInSeq
<1>2. FindFunctionIndex(report'.func) = (IF I # {} THEN Min(I) ELSE 0) - 1
  BY Zenon DEF FindFunctionIndex, SelectInSeq
<1>3. I1 = I
  OBVIOUS
<1> HIDE DEF I, I1
<1> QED BY <1>1, <1>2, <1>3

LEMMA ErrorLineStays == ASSUME UNCHANGED <<functions, report>>, ErrorLine PROVE ErrorLine'
<1>1. FindFunctionIndex(report.func)' = FindFunctionIndex(report.func)
  BY FindsTheSame
<1>2. functions' = functions /\ report' = report
  OBVIOUS
<1> QED BY <1>1, <1>2 DEF ErrorLine

LEMMA StillExecutes ==
  ASSUME Executing, UNCHANGED <<functions, runtimeError, callStack, saved, here, isRunning>>,
         stage' = stage \/ (stage' = "done" /\ ~Early),
         report' = report \/ (stage' = "done" /\ ~Reported')
  PROVE  Executing'
<1>1. ErrorLine'
  <2>1. CASE report' = report
    BY <2>1, ErrorLineStays DEF Executing
  <2>2. CASE ~Reported'
    BY <2>2 DEF ErrorLine, Reported
  <2> QED BY <2>1, <2>2
<1>2. CASE stage' = stage /\ report' = report
  <2>1. Starting'
    BY <1>2 DEF Executing, Starting, Early, Failed, Reported
  <2>2. Running' /\ Failing'
    BY <1>2 DEF Executing, Running, Failing, Placed, Failed, Indexes
  <2> QED BY <1>1, <2>1, <2>2 DEF Executing
<1>3. CASE stage' = "done"
  <2>1. ~Early' /\ stage' # "run" /\ stage' \notin {"host", "finish"}
    BY <1>3 DEF Early
  <2>2. Starting'
    BY <1>3, <2>1 DEF Starting
  <2>3. Running' /\ Failing'
    BY <2>1 DEF Executing, Running, Failing, Placed, Failed
  <2> QED BY <1>1, <2>2, <2>3 DEF Executing
<1> QED BY <1>2, <1>3

\* The loop has stopped: what it worked on is written back.
LEMMA LoopEndExecutes == ASSUME Executing, LoopEnds PROVE Executing'
<1>1. stage = "run" /\ ~isRunning /\ stage' \in {"host", "finish"} /\ saved' = here
  BY DEF LoopEnds, LeaveSaving, Leave, AfterRun
<1>2. UNCHANGED <<functions, runtimeError, report, callStack, here, isRunning>>
  BY DEF LoopEnds, RunVars, hostVars
<1>3. ~Early' /\ stage' # "done" /\ stage' # "run" /\ ~Reported'
  BY <1>1, <1>2 DEF Early, Executing, Starting, Reported
<1>4. Starting' /\ ErrorLine'
  BY <1>3 DEF Starting, ErrorLine, Reported
<1>5. Failing'
  BY <1>1, <1>2 DEF Executing, Failing, Failed, Indexes
<1>6. Running'
  BY <1>1, <1>2, <1>3 DEF Executing, Running, Failed, Placed
<1> QED BY <1>2, <1>4, <1>5, <1>6 DEF Executing

\* What is no container is indexed.
LEMMA CannotIndexExecutes == ASSUME TypeInv, Executing, CannotIndex PROVE Executing'
<1>1. isRunning /\ stage = "run" /\ InCode /\ VerbHere \in {"INDEX", "IDXSET"}
  BY DEF CannotIndex, Execute, Cycle
<1>2. UNCHANGED <<functions, stage, saved, report, callStack>> /\ isRunning' = FALSE
  BY DEF CannotIndex, RunVars, hostVars
<1>3. here' = [here EXCEPT !.pc = @ + 1 + 0]
  BY DEF CannotIndex, Advance
<1>4. Placed(here) /\ Placed(saved) /\ \A i \in DOMAIN callStack : Placed(callStack[i])
  BY <1>1 DEF Executing, Running
<1>5. /\ Func = functions[here.func + 1] /\ Word = Func.code[here.pc + 1]
      /\ here.pc + 1 \in DOMAIN Func.code /\ VerbHere = Verb(Word.op) /\ here.pc \in Int
  BY <1>1, <1>4, WordHere DEF Func, Word, Op, VerbHere
<1>6. here'.pc = here.pc + 1 /\ here'.func = here.func
  BY <1>3, <1>4 DEF Placed, Places
<1>7. Indexes(here)'
  BY <1>1, <1>2, <1>5, <1>6 DEF Indexes
<1>8. Placed(here)'
  <2>1. here' \in Places
    BY <1>3, <1>4 DEF Placed, Places
  <2> QED BY <1>2, <1>4, <1>6, <2>1 DEF Placed
<1>9. Running'
  BY <1>2, <1>4, <1>8 DEF Running, Placed
<1>10. ~Reported' /\ ~Early' /\ stage' = "run"
  BY <1>1, <1>2 DEF Executing, Starting, Reported, Early
<1>11. Failing'
  BY <1>2, <1>7, <1>10 DEF Failing
<1>12. Starting' /\ ErrorLine'
  BY <1>10 DEF Starting, ErrorLine, Reported
<1> QED BY <1>2, <1>9, <1>11, <1>12 DEF Executing

\* The other error is not that of an index.
LEMMA StrayExecutes == ASSUME Executing, StrayArgument PROVE Executing'
<1>1. stage = "run" /\ stage' \in {"host", "finish"}
  BY DEF StrayArgument, Execute, Cycle, Leave, AfterRun
<1>2. ~Failed' /\ isRunning' = FALSE /\ UNCHANGED <<report, callStack>>
  BY DEF StrayArgument, Failed, RunVars, hostVars
<1>3. ~Reported' /\ ~Early'
  BY <1>1, <1>2 DEF Executing, Starting, Reported, Early
<1> QED BY <1>2, <1>3 DEF Executing, Starting, Running, Failing, ErrorLine, Reported

\* The report names the function and the line before the saved place.
LEMMA ReportExecutes == ASSUME AssemblerInv, Written, Executing, Report PROVE Executing'
<1>1. stage' = "done" /\ stage \in {"finish", "host"} /\ ~Early
  BY DEF Report, Early
<1>2. UNCHANGED <<functions, runtimeError, callStack, saved, here, isRunning>>
  BY DEF Report, HostStep
<1>3. CASE ~Reported'
  BY <1>1, <1>2, <1>3, StillExecutes
<1>4. CASE Reported'
  <2>1. CASE runtimeError = ""
    <3>1. report'.what = "complete"
      BY <2>1, Zenon DEF Report, NoReport
    <3> QED BY <1>4, <3>1, Zenon DEF Reported
  <2>2. CASE runtimeError # ""
    <3>1. report' = [what |-> runtimeError, func |-> functions[saved.func + 1].name, line |-> saved.pc - 1]
      BY <2>2, Zenon DEF Report
    <3>2. Failed
      BY <1>4, <3>1 DEF Reported, Failed
    <3>3. Placed(saved) /\ Indexes(saved)
      BY <1>1, <3>2 DEF Executing, Running, Failing
    <3>4. functions \in Seq(FunctionType) /\ NamesDistinct
      BY DEF AssemblerInv, TypeInv, Written
    <3> PICK i, f : i = saved.func + 1 /\ f = functions[i]
      OBVIOUS
    <3>5. FindFunctionIndex(f.name) + 1 = i
      BY <3>3, <3>4, FoundAgain DEF Placed
    <3>6. report'.func = f.name /\ report'.line + 1 = saved.pc
      BY <3>1, <3>3 DEF Placed, Places
    <3>7. functions[FindFunctionIndex(report'.func) + 1] = f
      BY <3>5, <3>6
    <3>8. functions'[FindFunctionIndex(report.func)' + 1] = f
      BY <1>2, <3>7, FindsTheSame
    <3>9. saved.pc \in DOMAIN f.code /\ Verb(f.code[saved.pc].op) \in {"INDEX", "IDXSET"}
      BY <3>3 DEF Indexes
    <3>10. ErrorLine'
      BY <3>6, <3>8, <3>9 DEF ErrorLine
    <3>11. ~Early' /\ stage' # "run" /\ stage' \notin {"host", "finish"}
      BY <1>1 DEF Early
    <3> QED BY <1>1, <1>2, <3>10, <3>11 DEF Executing, Starting, Running, Failing, Placed, Failed
  <2> QED BY <2>1, <2>2
<1> QED BY <1>3, <1>4

LEMMA NextExecutes == ASSUME AssemblerInv, Written, Executing, [Next]_vars PROVE Executing'
<1>1. TypeInv
  BY DEF AssemblerInv
<1>2. CASE AssembleStep
  BY <1>2, AssemblyExecutes
<1>3. CASE Host
  <2>1. CASE AssemblyFailed
    <3>1. stage = "assembled" /\ stage' = "done" /\ report'.what = "assembly failed"
      BY <2>1 DEF AssemblyFailed, NoReport
    <3>2. UNCHANGED <<functions, runtimeError, callStack, saved, here, isRunning>>
      BY <2>1 DEF AssemblyFailed, HostStep
    <3>3. isRunning = FALSE /\ ~Failed /\ callStack = <<>> /\ callStack \in Seq(Places)
      BY <3>1 DEF Executing, Starting, Early
    <3>4. ~Reported' /\ ~Failed' /\ ~Early' /\ isRunning' = FALSE /\ callStack' \in Seq(Places)
      BY <3>1, <3>2, <3>3 DEF Reported, Failed, Early
    <3> QED BY <3>1, <3>4 DEF Executing, Starting, Running, Failing, ErrorLine, Reported
  <2>2. CASE Reset
    BY <1>1, <2>2, ResetGoes
  <2>3. CASE EnterRun
    BY <2>3, LeavingGoes
  <2>4. CASE Report
    BY <2>4, ReportExecutes
  <2>5. CASE Quit
    <3>1. UNCHANGED <<functions, runtimeError, callStack, saved, here, isRunning, report>>
      BY <2>5 DEF Quit, HostStep, hostVars
    <3>2. stage' = "done" /\ ~Early
      BY <2>5 DEF Quit, Early
    <3> QED BY <3>1, <3>2, StillExecutes
  <2> QED BY <1>3, <2>1, <2>2, <2>3, <2>4, <2>5 DEF Host
<1>4. CASE Run
  <2>1. CASE Steps
    BY <1>1, <2>1, StepGoes
  <2>2. CASE OutOfCycles \/ OutOfCode \/ Throw \/ CallRefused
    BY <2>2, LeavingGoes
  <2>3. CASE LoopEnds
    BY <2>3, LoopEndExecutes
  <2>4. CASE CannotIndex
    BY <1>1, <2>4, CannotIndexExecutes
  <2>5. CASE StrayArgument
    BY <2>5, StrayExecutes
  <2>6. CASE CallFunction
    BY <1>1, <2>6, CallGoes
  <2>7. CASE ReturnToCaller
    BY <1>1, <2>7, ReturnGoes
  <2>8. CASE ReturnFromMain
    BY <1>1, <2>8, EndGoes
  <2> QED BY <1>4, <2>1, <2>2, <2>3, <2>4, <2>5, <2>6, <2>7, <2>8 DEF Run, Steps
<1>5. CASE UNCHANGED vars
  <2>1. UNCHANGED <<stage, functions, runtimeError, callStack, saved, here, isRunning, report>>
    BY <1>5 DEF vars, assemblerVars, hostVars
  <2> QED BY <2>1, StillExecutes
<1> QED BY <1>2, <1>3, <1>4, <1>5 DEF Next

LEMMA InitExecutes == ASSUME Init PROVE Executing
<1>1. stage = "source" /\ isRunning = FALSE /\ callStack = <<>>
  BY DEF Init, AssemblerInit
<1>2. runtimeError # "Can't index" /\ report.what # "Can't index"
  BY Zenon DEF Init, NoReport
<1>3. callStack \in Seq(Places)
  BY <1>1, EmptySeq
<1>4. ~Failed /\ ~Reported
  BY <1>2 DEF Failed, Reported
<1> QED BY <1>1, <1>3, <1>4 DEF Executing, Starting, Running, Failing, ErrorLine, Early, Reported

\* What is shown of a program is what was written, for every program that assembles and
\* has nothing behind a function's label: the disassembler lists of each function as
\* many instructions as stand in its body, and of each a register or an immediate
\* exactly as written if the field can hold it; and an error of indexing is reported
\* with the name of the function and the line where the instruction is that failed,
\* through calls, returns and both modes of the host (Disassembler.ToString,
\* App.ReportRuntimeError, VM.Run).
THEOREM ShownIsWritten == Spec => []ShownAsWritten
<1>1. Init => AssemblerInv /\ Written /\ Executing
  BY InitHolds, InitWritten, InitExecutes
<1>2. AssemblerInv /\ Written /\ Executing /\ [Next]_vars => AssemblerInv' /\ Written' /\ Executing'
  BY NextKeeps, NextWrites, NextExecutes
<1>3. AssemblerInv /\ Written /\ Executing => ShownAsWritten
  BY Listing DEF ShownAsWritten, Executing
<1> QED BY <1>1, <1>2, <1>3, PTL DEF Spec
====
