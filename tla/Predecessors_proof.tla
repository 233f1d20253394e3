---- MODULE Predecessors_proof ----
(***************************************************************************)
(* Proofs about MS2Proto2, for every file, every byte size and every size  *)
(* of its tables: the jumps of an assembled file land behind the labels    *)
(* they name (Spec => []JumpsLand), and when it runs, its loads load what  *)
(* their lines say (Spec => LoadsAsWritten).                               *)
(*                                                                         *)
(* The invariant speaks of the lines that are already assembled: a word    *)
(* for each instruction line among them, at the place that line has in its *)
(* function, a label entry at the last of a label's definitions so far, a  *)
(* reference for each jump to a label, as long as there is room, and for   *)
(* each line that loads a word that reads back as its constant, or as the  *)
(* index of one in the function's table.  While the file runs, every frame *)
(* is of a function of the file.                                           *)
(***************************************************************************)
EXTENDS Predecessors, TLAPS, FiniteSetTheorems, WellFoundedInduction, SequenceTheorems

-----------------------------------------------------------------------------
(* The inductive invariant.                                                *)

Before(S, at) == {n \in S : n < at}

\* The functions begun before line at, by the definitions they begin with.
HeadsKnown(file, at, c) ==
  /\ c = Cardinality(Before(Heads(file), at))
  /\ \A k \in 1 .. c :
       \E n \in Before(Heads(file), at) : HeadsUpto(file, n) = k

Ops == {"RETURN", "ADD", "SUB", "MULT", "DIV", "MOVE", "LOADK", "LOAD", "LOADN", "IFLT", "JMP", "CALLF"}
Words == [op : Ops, a : Byte, b : Byte, c : Byte]
\* Names are texts; a line without a label has the empty one.
Texts == STRING
NoName == ""
LabelEntries == [name : Texts, address : Nat]
References == [label : Texts, addr : Nat, isJump : BOOLEAN]
Constants == SourceValues \union {make_int(i) : i \in Int}
FunctionType ==
  [name : Texts, is_main : BOOLEAN, code : Seq(Words), labels : Seq(LabelEntries),
   refs : Seq(References), constants : Seq(Constants)]

CodeWritten(file, k, at, f) ==
  /\ Len(f.code) = AddressOf(file, k, at)
  /\ \A n \in Before(JumpLines(file, k), at) :
       f.code[AddressOf(file, k, n) + 1].op = Tokens(file, n)[1].text

LabelsNoted(file, k, at, f) ==
  /\ \A i \in DOMAIN f.labels :
       /\ f.labels[i].name # NoName
       /\ Before(Labelled(file, k, f.labels[i].name), at) # {}
       /\ f.labels[i].address =
            AddressOf(file, k, Max(Before(Labelled(file, k, f.labels[i].name), at)))
  /\ \A i, j \in DOMAIN f.labels : f.labels[i].name = f.labels[j].name => i = j

Reference(file, k, n) ==
  [label |-> Target(Tokens(file, n)).text, addr |-> AddressOf(file, k, n),
   isJump |-> Tokens(file, n)[1].text = "JMP"]

ReferencesNoted(file, k, at, f) ==
  /\ \A i \in DOMAIN f.refs :
       \E n \in Before(JumpLines(file, k), at) : f.refs[i] = Reference(file, k, n)
  /\ Len(f.refs) <= Cardinality(Before(JumpLines(file, k), at))
  /\ Cardinality(Before(JumpLines(file, k), at)) <= MaxRefs =>
       \A n \in Before(JumpLines(file, k), at) :
         \E i \in DOMAIN f.refs : f.refs[i] = Reference(file, k, n)

LoadLines(file, k) == {n \in Instructions(file, k) : Loads(Tokens(file, n))}

\* The operands of a load: a register, and a constant.
LoadOperands(t) == /\ t[2].kind = "reg" /\ t[3].kind \in {"imm", "constant"}
                   /\ t[2].n \in Int /\ t[3].n \in Int
\* A word that puts the constant of the tokens t into their register.
LoadedBy(word, t, table) ==
  /\ LoadOperands(t)
  /\ word.a = number(t[2])
  /\ \/ word.op = "LOADK" /\ make_int(BC(word)) = parse_constant(t[3])
     \/ /\ word.op = "LOADN"
        /\ \E i \in DOMAIN table :
             /\ Wide(word) = i - 1
             /\ table[i] = parse_constant(t[3]) \/ value_equal(table[i], parse_constant(t[3]))

LoadsWritten(file, k, at, f) ==
  /\ Len(f.constants) <= Half
  /\ \A n \in Before(LoadLines(file, k), at) :
       LoadedBy(f.code[AddressOf(file, k, n) + 1], Tokens(file, n), f.constants)

FunctionSound(file, k, at, f) ==
  /\ CodeWritten(file, k, at, f)
  /\ LabelsNoted(file, k, at, f)
  /\ ReferencesNoted(file, k, at, f)
  /\ LoadsWritten(file, k, at, f)

Assembled(file, at, a) ==
  /\ a \in [functions : Seq(FunctionType), current : Nat]
  /\ a.current = Len(a.functions)
  /\ HeadsKnown(file, at, a.current)
  /\ \A k \in 1 .. a.current : FunctionSound(file, k, at, a.functions[k])

-----------------------------------------------------------------------------
(* Numbers that are found, and sets of numbers.                            *)

\* Every set of numbers that is not empty has a least one.
LEMMA LeastNumber ==
  ASSUME NEW S \in SUBSET Nat, S # {}
  PROVE  Min(S) \in S /\ \A m \in S : Min(S) <= m
<1>1. PICK n \in S : \A m \in S : ~(<<m, n>> \in OpToRel(<, Nat))
  BY NatLessThanWellFounded, WFMin
<1>2. \A m \in S : ~(m < n)
  BY <1>1 DEF OpToRel
<1>3. \A m \in S : n <= m
  BY <1>2
<1> QED BY <1>3 DEF Min

\* A number of a set that none of it exceeds is its greatest.
LEMMA GreatestNumber ==
  ASSUME NEW S \in SUBSET Nat, NEW n \in S, \A m \in S : m <= n
  PROVE  Max(S) = n
<1>1. \A x \in S : (\A y \in S : x >= y) => x = n
  OBVIOUS
<1>2. \A y \in S : n >= y
  OBVIOUS
<1> QED BY <1>1, <1>2 DEF Max

LEMMA Counted ==
  ASSUME NEW l \in Nat, NEW S \in SUBSET (1 .. l)
  PROVE  IsFiniteSet(S) /\ Cardinality(S) \in Nat
<1>1. IsFiniteSet(1 .. l)
  BY FS_Interval
<1>2. IsFiniteSet(S)
  BY <1>1, FS_Subset
<1> QED BY <1>2, FS_CardinalityType

\* What lies before the next number.
LEMMA BeforeNext ==
  ASSUME NEW S \in SUBSET Nat, NEW at \in Nat
  PROVE  /\ at \in S => Before(S, at + 1) = Before(S, at) \union {at}
         /\ at \notin S => Before(S, at + 1) = Before(S, at)
         /\ at \notin Before(S, at)
<1>1. \A n \in S : n < at + 1 <=> n < at \/ n = at
  OBVIOUS
<1>2. at \notin Before(S, at)
  BY DEF Before
<1> QED BY <1>1, <1>2 DEF Before

LEMMA CountNext ==
  ASSUME NEW l \in Nat, NEW S \in SUBSET (1 .. l), NEW at \in Nat
  PROVE  /\ Cardinality(Before(S, at)) \in Nat
         /\ at \in S => Cardinality(Before(S, at + 1)) = Cardinality(Before(S, at)) + 1
         /\ at \notin S => Cardinality(Before(S, at + 1)) = Cardinality(Before(S, at))
<1>1. S \in SUBSET Nat
  OBVIOUS
<1>2. Before(S, at) \in SUBSET (1 .. l)
  BY DEF Before
<1>3. IsFiniteSet(Before(S, at)) /\ Cardinality(Before(S, at)) \in Nat
  BY <1>2, Counted
<1>4. CASE at \in S
  <2>1. Before(S, at + 1) = Before(S, at) \union {at} /\ at \notin Before(S, at)
    BY <1>1, <1>4, BeforeNext
  <2> QED BY <1>3, <1>4, <2>1, FS_AddElement
<1>5. CASE at \notin S
  BY <1>1, <1>3, <1>5, BeforeNext
<1> QED BY <1>3, <1>4, <1>5

\* Places in a set grow with its numbers.
LEMMA CountGrows ==
  ASSUME NEW l \in Nat, NEW S \in SUBSET (1 .. l), NEW m \in S, NEW n \in Nat, m < n
  PROVE  Cardinality(Before(S, m)) < Cardinality(Before(S, n))
<1>1. Before(S, n) \in SUBSET (1 .. l) /\ Before(S, m) \in SUBSET Before(S, n)
  <2>1. \A i \in S : i \in 1 .. l /\ i \in Nat
    OBVIOUS
  <2>2. \A i \in S : i < m => i < n
    BY <2>1
  <2> QED BY <2>1, <2>2 DEF Before
<1>2. m \in Before(S, n) /\ m \notin Before(S, m)
  BY DEF Before
<1>3. IsFiniteSet(Before(S, n))
  BY <1>1, Counted
<1>4. Before(S, m) \in SUBSET (1 .. l)
  BY <1>1
<1>5. Cardinality(Before(S, m)) \in Nat /\ Cardinality(Before(S, n)) \in Nat
  BY <1>1, <1>4, Counted
<1>6. Cardinality(Before(S, m)) <= Cardinality(Before(S, n))
  BY <1>1, <1>3, FS_Subset
<1>7. Cardinality(Before(S, m)) # Cardinality(Before(S, n))
  <2> SUFFICES ASSUME Cardinality(Before(S, m)) = Cardinality(Before(S, n)) PROVE FALSE
    OBVIOUS
  <2>1. Before(S, m) = Before(S, n)
    BY <1>1, <1>3, FS_Subset
  <2> QED BY <1>2, <2>1
<1> QED BY <1>5, <1>6, <1>7

LEMMA BeforeAll ==
  ASSUME NEW l \in Nat, NEW S \in SUBSET (1 .. l)
  PROVE  Before(S, l + 1) = S
<1>1. \A n \in S : n < l + 1
  OBVIOUS
<1> QED BY <1>1 DEF Before

\* Every place in a set of numbers is taken by one of them.
LEMMA PlaceTaken ==
  ASSUME NEW l \in Nat, NEW S \in SUBSET (1 .. l), NEW p \in Nat, p < Cardinality(S)
  PROVE  \E n \in S : Cardinality(Before(S, n)) = p
<1> DEFINE T == {m \in 0 .. l : p < Cardinality(Before(S, m + 1))}
<1>1. l \in T /\ T \in SUBSET Nat
  BY BeforeAll
<1>2. \A m \in T : m \in 0 .. l /\ p < Cardinality(Before(S, m + 1))
  OBVIOUS
<1>3. \A m \in 0 .. l : m \notin T => ~(p < Cardinality(Before(S, m + 1)))
  OBVIOUS
<1> HIDE DEF T
<1> PICK m : m = Min(T)
  OBVIOUS
<1>4. m \in T /\ \A i \in T : m <= i
  BY <1>1, LeastNumber
<1>5. m \in 0 .. l /\ p < Cardinality(Before(S, m + 1)) /\ m \in Nat
  BY <1>2, <1>4
<1>6. /\ Cardinality(Before(S, m)) \in Nat
      /\ m \in S => Cardinality(Before(S, m + 1)) = Cardinality(Before(S, m)) + 1
      /\ m \notin S => Cardinality(Before(S, m + 1)) = Cardinality(Before(S, m))
  BY <1>5, CountNext
<1>7. Cardinality(Before(S, m)) <= p
  <2>1. CASE m = 0
    <3>1. Before(S, m) = {}
      <4>1. \A n \in S : ~(n < 0)
        OBVIOUS
      <4> QED BY <2>1, <4>1 DEF Before
    <3> QED BY <3>1, FS_EmptySet
  <2>2. CASE m # 0
    <3>1. m - 1 \in 0 .. l /\ m - 1 \notin T /\ (m - 1) + 1 = m
      BY <1>4, <1>5, <2>2
    <3>2. ~(p < Cardinality(Before(S, m)))
      BY <1>3, <3>1
    <3> QED BY <1>6, <3>2
  <2> QED BY <2>1, <2>2
<1>8. m \in S
  BY <1>5, <1>6, <1>7
<1> QED BY <1>5, <1>6, <1>7, <1>8

-----------------------------------------------------------------------------
(* Instruction words.                                                      *)

\* Quotient and rest.
LEMMA Split ==
  ASSUME NEW r \in Nat, NEW d \in Nat, d > 0
  PROVE  \E q \in Nat : \E u \in 0 .. d - 1 : r = q * d + u /\ r \div d = q
<1>1. r \div d \in Nat /\ r % d \in 0 .. d - 1
  OBVIOUS
<1>2. r = (r \div d) * d + (r % d)
  OBVIOUS
<1> QED BY <1>1, <1>2

LEMMA Rest ==
  ASSUME NEW q \in Int, NEW d \in Nat, d > 0, NEW u \in 0 .. d - 1
  PROVE  (q * d + u) % d = u
<1>1. q * d \in Int
  OBVIOUS
<1> QED BY <1>1

LEMMA BytesOf ==
  /\ ByteSize \in Nat /\ ByteSize > 0 /\ Half \in Nat /\ Half > 0 /\ Half = ByteSize * ByteSize
  /\ Byte = 0 .. ByteSize - 1 /\ 0 \in Byte
<1>1. ByteSize \in Nat /\ ByteSize > 0
  BY Proto2Assumption
<1>2. Half \in Nat /\ Half > 0
  BY <1>1 DEF Half
<1> QED BY <1>1, <1>2 DEF Byte, Half

\* What INS_AB makes of its wide operand: two bytes, which together are it.
LEMMA WideOperand ==
  ASSUME NEW bc \in Int
  PROVE  /\ (bc % Half) \div ByteSize \in Byte /\ bc % ByteSize \in Byte
         /\ ((bc % Half) \div ByteSize) * ByteSize + (bc % ByteSize) = bc % Half
<1> PICK b, w, r : b = ByteSize /\ w = Half /\ r = bc % w
  OBVIOUS
<1>1. b \in Nat /\ b > 0 /\ w \in Nat /\ w > 0 /\ w = b * b /\ Byte = 0 .. b - 1
  BY BytesOf
<1>2. r \in 0 .. w - 1
  BY <1>1
<1>3. PICK m \in Int : bc = m * w + r
  <2>1. bc = (bc \div w) * w + r /\ bc \div w \in Int
    BY <1>1
  <2> QED BY <2>1
<1>4. PICK q \in Nat : \E u \in 0 .. b - 1 : r = q * b + u /\ r \div b = q
  BY <1>1, <1>2, Split
<1>5. PICK u \in 0 .. b - 1 : r = q * b + u /\ r \div b = q
  BY <1>4
<1>6. q < b
  <2> SUFFICES ASSUME q >= b PROVE FALSE
    BY <1>1
  <2>1. q * b >= b * b
    <3>1. (q - b) * b >= 0
      BY <1>1
    <3> QED BY <1>1, <3>1
  <2> QED BY <1>1, <1>2, <1>5, <2>1
<1>7. bc % b = u
  <2>1. bc = m * (b * b) + (q * b + u)
    BY <1>1, <1>3, <1>5
  <2>2. m * (b * b) = (m * b) * b
    BY <1>1
  <2> PICK x \in Int : x = m * b
    BY <1>1
  <2>3. bc = x * b + (q * b + u)
    BY <2>1, <2>2
  <2>4. x + q \in Int /\ bc = (x + q) * b + u
    BY <1>1, <2>3
  <2> QED BY <1>1, <2>4, Rest
<1> QED BY <1>1, <1>5, <1>6, <1>7

LEMMA WordsTyped ==
  /\ \A op \in Ops, a \in Byte, b \in Byte, c \in Byte : INS_ABC(op, a, b, c) \in Words
  /\ \A op \in Ops, a \in Byte, b \in Int : INS_AB(op, a, b) \in Words
  /\ \A op, a, b, c : INS_ABC(op, a, b, c).op = op /\ INS_AB(op, a, b).op = op
<1>1. \A op \in Ops, a \in Byte, b \in Byte, c \in Byte : INS_ABC(op, a, b, c) \in Words
  BY DEF INS_ABC, Words
<1>2. \A op \in Ops, a \in Byte, b \in Int : INS_AB(op, a, b) \in Words
  <2> TAKE op \in Ops, a \in Byte, b \in Int
  <2>1. (b % Half) \div ByteSize \in Byte /\ b % ByteSize \in Byte
    BY WideOperand
  <2> QED BY <1>1, <2>1 DEF INS_AB
<1> QED BY <1>1, <1>2 DEF INS_ABC, INS_AB

\* The two halves of a wide offset, and the sign that is read into it.
LEMMA WideReads ==
  ASSUME NEW off \in Int16, NEW op, NEW a
  PROVE  BC(INS_AB(op, a, off)) = off
<1> PICK b, w : b = ByteSize /\ w = Half
  OBVIOUS
<1>1. b \in Nat /\ b > 0 /\ w \in Nat /\ w > 0 /\ w = b * b
  BY BytesOf DEF Half
<1>2. PICK h \in Nat : h > 0 /\ w = 2 * h
  <2>1. PICK g \in Nat : b = 2 * g
    BY <1>1, Proto2Assumption
  <2>2. w = 2 * (g * b) /\ g * b \in Nat
    BY <1>1, <2>1
  <2> QED BY <1>1, <2>2
<1>3. off \in -h .. h - 1 /\ w \div 2 = h
  BY <1>1, <1>2 DEF Int16
<1>4. PICK r \in 0 .. w - 1 : r = off % w /\ off = IF r < h THEN r ELSE r - w
  <2>1. CASE off >= 0
    <3>1. off % w = off
      BY <1>2, <1>3, <2>1
    <3> QED BY <1>2, <1>3, <2>1, <3>1
  <2>2. CASE off < 0
    <3>1. off % w = off + w
      BY <1>2, <1>3, <2>2
    <3> QED BY <1>2, <1>3, <2>2, <3>1
  <2> QED BY <1>3, <2>1, <2>2
<1> PICK word : word = INS_AB(op, a, off)
  OBVIOUS
<1>5. Wide(word) = r
  <2>1. Wide(word) = ((off % Half) \div ByteSize) * ByteSize + (off % ByteSize)
    BY DEF Wide, INS_AB, INS_ABC
  <2> QED BY <1>3, <1>4, <2>1, WideOperand
<1>6. BC(word) = off
  BY <1>3, <1>4, <1>5 DEF BC
<1> QED BY <1>6

\* Without a sign, for the index of a constant.
LEMMA IndexReads ==
  ASSUME NEW i \in Nat, i < Half, NEW op, NEW a
  PROVE  Wide(INS_AB(op, a, i)) = i
<1>1. Half \in Nat /\ i % Half = i
  BY BytesOf
<1>2. Wide(INS_AB(op, a, i)) = ((i % Half) \div ByteSize) * ByteSize + (i % ByteSize)
  BY DEF Wide, INS_AB, INS_ABC
<1> QED BY <1>1, <1>2, WideOperand

LEMMA BranchReads ==
  ASSUME NEW off \in Int8, NEW a, NEW b
  PROVE  C8(INS_ABC("IFLT", a, b, off % ByteSize)) = off
<1> PICK w : w = ByteSize
  OBVIOUS
<1>1. PICK h \in Nat : h > 0 /\ w = 2 * h
  BY BytesOf, Proto2Assumption
<1>2. off \in -h .. h - 1 /\ w \div 2 = h
  BY <1>1 DEF Int8
<1> PICK word : word = INS_ABC("IFLT", a, b, off % ByteSize)
  OBVIOUS
<1>3. word.c = off % w
  BY DEF INS_ABC
<1>4. C8(word) = off
  <2>1. CASE off >= 0
    <3>1. off % w = off
      BY <1>1, <1>2, <2>1
    <3> QED BY <1>1, <1>2, <1>3, <2>1, <3>1 DEF C8
  <2>2. CASE off < 0
    <3>1. off % w = off + w
      BY <1>1, <1>2, <2>2
    <3> QED BY <1>1, <1>2, <1>3, <2>2, <3>1 DEF C8
  <2> QED BY <1>2, <2>1, <2>2
<1> QED BY <1>4

-----------------------------------------------------------------------------
(* The lines of a function.                                                *)

LEMMA FileSets ==
  ASSUME NEW file \in Seq(SourceLines), NEW k
  PROVE  /\ Heads(file) \in SUBSET (1 .. Len(file))
         /\ BodyLines(file, k) \in SUBSET (1 .. Len(file))
         /\ Instructions(file, k) \in SUBSET (1 .. Len(file))
         /\ JumpLines(file, k) \in SUBSET (1 .. Len(file))
         /\ \A name : Labelled(file, k, name) \in SUBSET Nat
         /\ Len(file) \in Nat
         /\ \A n : AddressOf(file, k, n) = Cardinality(Before(Instructions(file, k), n))
<1>1. DOMAIN file = 1 .. Len(file) /\ Len(file) \in Nat
  OBVIOUS
<1>2. BodyLines(file, k) \in SUBSET (1 .. Len(file))
  BY <1>1 DEF BodyLines
<1>3. Instructions(file, k) \in SUBSET BodyLines(file, k)
  BY DEF Instructions
<1>4. JumpLines(file, k) \in SUBSET Instructions(file, k)
  BY DEF JumpLines
<1>5. \A name : Labelled(file, k, name) \in SUBSET BodyLines(file, k)
  BY DEF Labelled
<1>6. Heads(file) \in SUBSET (1 .. Len(file))
  BY <1>1 DEF Heads
<1>7. \A n : AddressOf(file, k, n) = Cardinality(Before(Instructions(file, k), n))
  BY DEF AddressOf, Before
<1>8. \A name : Labelled(file, k, name) \in SUBSET Nat
  <2>1. \A S : S \in SUBSET (1 .. Len(file)) => S \in SUBSET Nat
    BY <1>1
  <2>2. \A name : Labelled(file, k, name) \in SUBSET (1 .. Len(file))
    BY <1>2, <1>5
  <2> QED BY <2>1, <2>2
<1> QED BY <1>1, <1>2, <1>3, <1>4, <1>6, <1>7, <1>8

\* The definitions up to n are those before the next line.
LEMMA CountUpto ==
  ASSUME NEW file \in Seq(SourceLines), NEW n \in Nat
  PROVE  HeadsUpto(file, n) = Cardinality(Before(Heads(file), n + 1))
<1>1. \A m \in Heads(file) : m <= n <=> m < n + 1
  BY FileSets
<1>2. {m \in Heads(file) : m <= n} = Before(Heads(file), n + 1)
  BY <1>1 DEF Before
<1> QED BY <1>2 DEF HeadsUpto

\* The k-th definition is one, and the k-th.
LEMMA HeadFound ==
  ASSUME NEW file \in Seq(SourceLines), NEW at \in Nat, NEW c, HeadsKnown(file, at, c),
         NEW k \in 1 .. c
  PROVE  /\ HeadOf(file, k) \in Heads(file) /\ HeadOf(file, k) < at
         /\ HeadsUpto(file, HeadOf(file, k)) = k
<1>0. Heads(file) \in SUBSET (1 .. Len(file)) /\ Len(file) \in Nat
  BY FileSets
<1>1. PICK n \in Before(Heads(file), at) : HeadsUpto(file, n) = k
  BY DEF HeadsKnown
<1>2. n \in Heads(file) /\ n < at /\ n \in Nat
  BY <1>1, FileSets DEF Before
<1>3. HeadOf(file, k) \in Heads(file) /\ HeadsUpto(file, HeadOf(file, k)) = k
  BY <1>1, <1>2 DEF HeadOf
<1> PICK h : h = HeadOf(file, k)
  OBVIOUS
<1>4. h \in Heads(file) /\ h \in Nat /\ HeadsUpto(file, h) = k
  BY <1>3, FileSets
<1>5. h <= n
  <2> SUFFICES ASSUME n < h PROVE FALSE
    BY <1>2, <1>4
  <2>1. HeadsUpto(file, n) = Cardinality(Before(Heads(file), n + 1)) /\ HeadsUpto(file, h) = Cardinality(Before(Heads(file), h + 1))
    BY <1>2, <1>4, CountUpto
  <2>2. Cardinality(Before(Heads(file), h)) < Cardinality(Before(Heads(file), h + 1))
    <3>1. h + 1 \in Nat /\ h < h + 1
      BY <1>4
    <3> QED BY <1>0, <1>4, <3>1, CountGrows
  <2>3. Cardinality(Before(Heads(file), n + 1)) <= Cardinality(Before(Heads(file), h))
    <3>1. CASE n + 1 = h
      <4>1. Cardinality(Before(Heads(file), h)) \in Nat
        BY <1>0, <1>4, CountNext
      <4> QED BY <3>1, <4>1
    <3>2. CASE n + 1 # h
      <4>1. Before(Heads(file), n + 1) \in SUBSET Before(Heads(file), h)
        <5>1. \A m \in Heads(file) : m \in Nat
          BY FileSets
        <5>2. \A m \in Heads(file) : m < n + 1 => m < h
          BY <5>1, <1>2, <1>4, <3>2
        <5> QED BY <5>2 DEF Before
      <4>2. IsFiniteSet(Before(Heads(file), h))
        <5>1. Before(Heads(file), h) \in SUBSET (1 .. Len(file)) /\ Len(file) \in Nat
          BY FileSets DEF Before
        <5> QED BY <5>1, Counted
      <4> QED BY <4>1, <4>2, FS_Subset
    <3> QED BY <3>1, <3>2
  <2>4. /\ Cardinality(Before(Heads(file), h)) \in Nat
        /\ Cardinality(Before(Heads(file), n + 1)) \in Nat
        /\ Cardinality(Before(Heads(file), h + 1)) \in Nat
    <3>1. n + 1 \in Nat /\ h + 1 \in Nat
      BY <1>2, <1>4
    <3> QED BY <1>0, <1>4, <3>1, CountNext
  <2> QED BY <1>1, <1>4, <2>1, <2>2, <2>3, <2>4
<1> QED BY <1>2, <1>3, <1>4, <1>5

\* Of two definitions the later one has more before it.
LEMMA HeadsInOrder ==
  ASSUME NEW file \in Seq(SourceLines), NEW m \in Heads(file), NEW n \in Heads(file), m < n
  PROVE  HeadsUpto(file, m) < HeadsUpto(file, n)
<1>1. Heads(file) \in SUBSET (1 .. Len(file)) /\ Len(file) \in Nat
  BY FileSets
<1>2. m \in Nat /\ n \in Nat /\ m + 1 \in Nat /\ n + 1 \in Nat /\ n < n + 1
  BY <1>1
<1> PICK H : H = Heads(file)
  OBVIOUS
<1>3. Cardinality(Before(H, n)) < Cardinality(Before(H, n + 1))
  BY <1>1, <1>2, CountGrows
<1>4. Before(H, m + 1) \in SUBSET Before(H, n)
  <2>1. \A h \in H : h < m + 1 => h < n
    BY <1>1, <1>2
  <2> QED BY <2>1 DEF Before
<1>5. Before(H, n) \in SUBSET (1 .. Len(file))
  BY <1>1 DEF Before
<1>6. Cardinality(Before(H, m + 1)) <= Cardinality(Before(H, n))
  BY <1>1, <1>4, <1>5, Counted, FS_Subset
<1>7. /\ Cardinality(Before(H, m + 1)) \in Nat /\ Cardinality(Before(H, n)) \in Nat
      /\ Cardinality(Before(H, n + 1)) \in Nat
  BY <1>1, <1>2, CountNext
<1>8. /\ HeadsUpto(file, m) = Cardinality(Before(H, m + 1))
      /\ HeadsUpto(file, n) = Cardinality(Before(H, n + 1))
  BY <1>2, CountUpto
<1> QED BY <1>3, <1>6, <1>7, <1>8

\* A line that begins a function.
LEMMA HeadLine ==
  ASSUME NEW file \in Seq(SourceLines), NEW at \in 1 .. Len(file), NEW c \in Nat,
         HeadsKnown(file, at, c), at \in Heads(file)
  PROVE  /\ HeadsKnown(file, at + 1, c + 1)
         /\ HeadOf(file, c + 1) = at
         /\ \A k \in 1 .. c : at \notin BodyLines(file, k)
         /\ Before(BodyLines(file, c + 1), at + 1) = {}
<1> PICK H : H = Heads(file)
  OBVIOUS
<1>1. H \in SUBSET (1 .. Len(file)) /\ Len(file) \in Nat /\ at \in Nat /\ at \in H
  BY FileSets
<1>2. Cardinality(Before(H, at + 1)) = c + 1
  BY <1>1, CountNext DEF HeadsKnown
<1>3. HeadsUpto(file, at) = Cardinality(Before(H, at + 1))
  BY <1>1, CountUpto
<1>4. HeadsKnown(file, at + 1, c + 1)
  <2> SUFFICES ASSUME NEW k \in 1 .. c + 1
               PROVE  \E n \in Before(Heads(file), at + 1) : HeadsUpto(file, n) = k
    BY <1>2 DEF HeadsKnown
  <2>1. CASE k = c + 1
    <3>1. at \in Before(Heads(file), at + 1)
      BY <1>1 DEF Before
    <3> QED BY <1>2, <1>3, <2>1, <3>1
  <2>2. CASE k # c + 1
    <3>1. k \in 1 .. c
      BY <2>2
    <3>2. PICK n \in Before(Heads(file), at) : HeadsUpto(file, n) = k
      BY <3>1 DEF HeadsKnown
    <3>3. n \in Before(Heads(file), at + 1)
      BY <1>1 DEF Before
    <3> QED BY <3>2, <3>3
  <2> QED BY <2>1, <2>2
<1>5. HeadOf(file, c + 1) = at
  <2>1. ASSUME NEW n \in Heads(file), HeadsUpto(file, n) = c + 1
        PROVE  n = at
    <3>1. n \in Nat
      BY <1>1
    <3>2. ~(n < at)
      <4> SUFFICES ASSUME n < at PROVE FALSE
        OBVIOUS
      <4> QED BY <1>2, <1>3, <2>1, HeadsInOrder
    <3>3. ~(at < n)
      <4> SUFFICES ASSUME at < n PROVE FALSE
        OBVIOUS
      <4> QED BY <1>2, <1>3, <2>1, HeadsInOrder
    <3> QED BY <1>1, <3>1, <3>2, <3>3
  <2>2. at \in Heads(file) /\ HeadsUpto(file, at) = c + 1
    BY <1>2, <1>3
  <2> QED BY <2>1, <2>2 DEF HeadOf
<1>6. ASSUME NEW k \in 1 .. c PROVE at \notin BodyLines(file, k)
  <2> SUFFICES ASSUME at \in BodyLines(file, k) PROVE FALSE
    OBVIOUS
  <2>1. HeadOf(file, k) \in Nat
    BY <1>1, HeadFound
  <2>2. at > HeadOf(file, k) /\ (at <= HeadOf(file, k) \/ at > at)
    BY DEF BodyLines
  <2> QED BY <1>1, <2>1, <2>2
<1>7. Before(BodyLines(file, c + 1), at + 1) = {}
  <2> SUFFICES ASSUME NEW n \in Before(BodyLines(file, c + 1), at + 1) PROVE FALSE
    OBVIOUS
  <2>1. n \in Nat /\ n < at + 1 /\ n > at
    BY <1>5, FileSets DEF Before, BodyLines
  <2> QED BY <1>1, <2>1
<1> QED BY <1>4, <1>5, <1>6, <1>7

\* A line that begins none is one of the function begun last.
LEMMA OrdinaryLine ==
  ASSUME NEW file \in Seq(SourceLines), NEW at \in 1 .. Len(file), NEW c \in Nat,
         HeadsKnown(file, at, c), at \notin Heads(file)
  PROVE  /\ HeadsKnown(file, at + 1, c)
         /\ \A k \in 1 .. c : at \in BodyLines(file, k) <=> k = c
<1> PICK H : H = Heads(file)
  OBVIOUS
<1>1. H \in SUBSET (1 .. Len(file)) /\ Len(file) \in Nat /\ at \in Nat /\ at \notin H
  BY FileSets
<1>2. Before(H, at + 1) = Before(H, at)
  <2>1. H \in SUBSET Nat
    BY <1>1
  <2> QED BY <1>1, <2>1, BeforeNext
<1>3. HeadsKnown(file, at + 1, c)
  BY <1>2 DEF HeadsKnown
<1>4. ASSUME NEW k \in 1 .. c
      PROVE  /\ HeadOf(file, k) \in H /\ HeadOf(file, k) < at /\ HeadOf(file, k) \in Nat
             /\ HeadsUpto(file, HeadOf(file, k)) = k
  BY <1>1, HeadFound
<1>5. ASSUME NEW k \in 1 .. c, at \in BodyLines(file, k) PROVE k = c
  <2> SUFFICES ASSUME k < c PROVE FALSE
    OBVIOUS
  <2>1. c \in 1 .. c
    OBVIOUS
  <2>2. HeadOf(file, c) <= HeadOf(file, k) \/ HeadOf(file, c) > at
    BY <1>4, <2>1, <1>5 DEF BodyLines
  <2>3. HeadOf(file, c) <= HeadOf(file, k)
    BY <1>1, <1>4, <2>1, <2>2
  <2>4. HeadOf(file, c) # HeadOf(file, k)
    BY <1>4, <2>1
  <2>5. HeadOf(file, c) < HeadOf(file, k)
    BY <1>4, <2>1, <2>3, <2>4
  <2>6. c < k
    BY <1>4, <2>1, <2>5, HeadsInOrder
  <2> QED BY <2>6
<1>6. ASSUME NEW k \in 1 .. c, k = c PROVE at \in BodyLines(file, k)
  <2> PICK last : last = HeadOf(file, c)
    OBVIOUS
  <2>1. last \in H /\ last < at /\ last \in Nat /\ HeadsUpto(file, last) = c
    BY <1>4, <1>6
  <2>2. ASSUME NEW h \in Heads(file), ~(h <= last) PROVE h > at
    <3>1. h \in Nat /\ last < h
      BY <1>1, <2>1, <2>2
    <3>2. c < HeadsUpto(file, h)
      BY <2>1, <3>1, HeadsInOrder
    <3>3. HeadsUpto(file, h) = Cardinality(Before(H, h + 1))
      BY <3>1, CountUpto
    <3>4. ~(h < at)
      <4> SUFFICES ASSUME h < at PROVE FALSE
        OBVIOUS
      <4>1. Before(H, h + 1) \in SUBSET Before(H, at)
        <5>1. \A m \in H : m < h + 1 => m < at
          BY <1>1, <3>1
        <5> QED BY <5>1 DEF Before
      <4>2. Before(H, at) \in SUBSET (1 .. Len(file))
        BY <1>1 DEF Before
      <4>3. Cardinality(Before(H, h + 1)) <= Cardinality(Before(H, at))
        BY <1>1, <4>1, <4>2, Counted, FS_Subset
      <4>4. c = Cardinality(Before(H, at))
        BY DEF HeadsKnown
      <4>5. Cardinality(Before(H, h + 1)) \in Nat
        <5>1. h + 1 \in Nat
          BY <3>1
        <5> QED BY <1>1, <5>1, CountNext
      <4> QED BY <3>2, <3>3, <4>3, <4>4, <4>5
    <3> QED BY <1>1, <3>1, <3>4
  <2>3. at \in DOMAIN file
    OBVIOUS
  <2> QED BY <1>6, <2>1, <2>2, <2>3 DEF BodyLines
<1> QED BY <1>3, <1>5, <1>6

-----------------------------------------------------------------------------
(* One line more, seen from a function.                                    *)

\* Nothing is before the next line of a function that has just begun.
LEMMA BeginsEmpty ==
  ASSUME NEW file \in Seq(SourceLines), NEW k, NEW at \in Nat,
         Before(BodyLines(file, k), at) = {}
  PROVE  /\ Before(Instructions(file, k), at) = {} /\ Before(JumpLines(file, k), at) = {}
         /\ Before(LoadLines(file, k), at) = {}
         /\ AddressOf(file, k, at) = 0
<1>1. Before(Instructions(file, k), at) = {}
  BY DEF Before, Instructions
<1>2. Before(JumpLines(file, k), at) = {}
  BY <1>1 DEF Before, JumpLines
<1>3. Before(LoadLines(file, k), at) = {}
  BY <1>1 DEF Before, LoadLines
<1>4. AddressOf(file, k, at) = Cardinality(Before(Instructions(file, k), at))
  BY FileSets
<1> QED BY <1>1, <1>2, <1>3, <1>4, FS_EmptySet

LEMMA NewFunctionSound ==
  ASSUME NEW file \in Seq(SourceLines), NEW k, NEW at \in Nat, NEW name \in Texts,
         Before(BodyLines(file, k), at) = {}
  PROVE  /\ init_function(name) \in FunctionType
         /\ FunctionSound(file, k, at, init_function(name))
<1> PICK f : f = init_function(name)
  OBVIOUS
<1>1. /\ f.code = <<>> /\ f.labels = <<>> /\ f.refs = <<>> /\ f.constants = <<>>
  BY DEF init_function
<1>2. f \in FunctionType
  <2>1. \A S : <<>> \in Seq(S)
    BY EmptySeq
  <2>2. <<>> \in Seq(Words) /\ <<>> \in Seq(LabelEntries) /\ <<>> \in Seq(References) /\ <<>> \in Seq(Constants)
    BY <2>1
  <2>3. (name = "main") \in BOOLEAN
    OBVIOUS
  <2> QED BY <2>2, <2>3 DEF init_function, FunctionType
<1>3. CodeWritten(file, k, at, f)
  BY <1>1, BeginsEmpty DEF CodeWritten
<1>4. LabelsNoted(file, k, at, f)
  BY <1>1 DEF LabelsNoted
<1>5. ReferencesNoted(file, k, at, f)
  <2>1. Cardinality({}) = 0
    BY FS_EmptySet
  <2>2. Before(JumpLines(file, k), at) = {}
    BY BeginsEmpty
  <2>3. Len(f.refs) = 0 /\ DOMAIN f.refs = {}
    BY <1>1
  <2>4. Cardinality(Before(JumpLines(file, k), at)) = 0
    BY <2>1, <2>2
  <2> QED BY <2>2, <2>3, <2>4 DEF ReferencesNoted
<1>6. LoadsWritten(file, k, at, f)
  <2>1. Len(f.constants) = 0 /\ Half \in Nat
    BY <1>1, BytesOf
  <2>2. Len(f.constants) <= Half
    BY <2>1
  <2> QED BY <2>2, BeginsEmpty DEF LoadsWritten
<1> QED BY <1>2, <1>3, <1>4, <1>5, <1>6 DEF FunctionSound

\* A line that is none of the function's instructions.
LEMMA NoInstruction ==
  ASSUME NEW file \in Seq(SourceLines), NEW k, NEW at \in Nat, NEW f,
         at \notin Instructions(file, k)
  PROVE  /\ CodeWritten(file, k, at, f) => CodeWritten(file, k, at + 1, f)
         /\ ReferencesNoted(file, k, at, f) => ReferencesNoted(file, k, at + 1, f)
         /\ LoadsWritten(file, k, at, f) => LoadsWritten(file, k, at + 1, f)
<1>1. JumpLines(file, k) \in SUBSET Instructions(file, k) /\ LoadLines(file, k) \in SUBSET Instructions(file, k)
  BY DEF JumpLines, LoadLines
<1>2. Instructions(file, k) \in SUBSET Nat /\ JumpLines(file, k) \in SUBSET Nat /\ LoadLines(file, k) \in SUBSET Nat
  <2>1. Instructions(file, k) \in SUBSET Nat
    BY FileSets
  <2> QED BY <1>1, <2>1
<1>3. Before(Instructions(file, k), at + 1) = Before(Instructions(file, k), at)
  BY <1>2, BeforeNext
<1>4. Before(JumpLines(file, k), at + 1) = Before(JumpLines(file, k), at)
  BY <1>1, <1>2, BeforeNext
<1>5. AddressOf(file, k, at + 1) = AddressOf(file, k, at)
  BY <1>3, FileSets
<1>6. CodeWritten(file, k, at, f) => CodeWritten(file, k, at + 1, f)
  BY <1>4, <1>5 DEF CodeWritten
<1>7. ReferencesNoted(file, k, at, f) => ReferencesNoted(file, k, at + 1, f)
  BY <1>4 DEF ReferencesNoted
<1>8. Before(LoadLines(file, k), at + 1) = Before(LoadLines(file, k), at)
  BY <1>1, <1>2, BeforeNext
<1>9. LoadsWritten(file, k, at, f) => LoadsWritten(file, k, at + 1, f)
  BY <1>8 DEF LoadsWritten
<1> QED BY <1>6, <1>7, <1>9

\* A line that gives the function no label.
LEMMA NoLabel ==
  ASSUME NEW file \in Seq(SourceLines), NEW k, NEW at \in Nat, NEW f,
         at \notin BodyLines(file, k) \/ file[at].label = NoName,
         LabelsNoted(file, k, at, f)
  PROVE  LabelsNoted(file, k, at + 1, f)
<1>1. ASSUME NEW name, name # NoName
      PROVE  Before(Labelled(file, k, name), at + 1) = Before(Labelled(file, k, name), at)
  <2>1. at \notin Labelled(file, k, name)
    BY <1>1 DEF Labelled
  <2>2. Labelled(file, k, name) \in SUBSET Nat
    BY FileSets
  <2> QED BY <2>1, <2>2, BeforeNext
<1>2. ASSUME NEW i \in DOMAIN f.labels
      PROVE  /\ f.labels[i].name # NoName
             /\ Before(Labelled(file, k, f.labels[i].name), at + 1) # {}
             /\ f.labels[i].address =
                  AddressOf(file, k, Max(Before(Labelled(file, k, f.labels[i].name), at + 1)))
  <2>1. f.labels[i].name # NoName
    BY DEF LabelsNoted
  <2>2. Before(Labelled(file, k, f.labels[i].name), at + 1) = Before(Labelled(file, k, f.labels[i].name), at)
    BY <1>1, <2>1
  <2> QED BY <2>1, <2>2 DEF LabelsNoted
<1>3. \A i, j \in DOMAIN f.labels : f.labels[i].name = f.labels[j].name => i = j
  BY DEF LabelsNoted
<1> QED BY <1>2, <1>3 DEF LabelsNoted

LEMMA OtherFunctionSound ==
  ASSUME NEW file \in Seq(SourceLines), NEW k, NEW at \in Nat, NEW f,
         at \notin BodyLines(file, k), FunctionSound(file, k, at, f)
  PROVE  FunctionSound(file, k, at + 1, f)
<1>1. at \notin Instructions(file, k)
  BY DEF Instructions
<1> QED BY <1>1, NoInstruction, NoLabel DEF FunctionSound

-----------------------------------------------------------------------------
(* Labels.                                                                 *)

LabelIndex(f, name) == SelectInSeq(f.labels, LAMBDA l : l.name = name)

LEMMA LabelFound ==
  ASSUME NEW f \in FunctionType, NEW name
  PROVE  \/ LabelIndex(f, name) = 0 /\ \A i \in DOMAIN f.labels : f.labels[i].name # name
         \/ LabelIndex(f, name) \in DOMAIN f.labels /\ f.labels[LabelIndex(f, name)].name = name
<1> DEFINE I == {i \in 1 .. Len(f.labels) : f.labels[i].name = name}
<1>1. LabelIndex(f, name) = IF I # {} THEN Min(I) ELSE 0
  BY DEF LabelIndex, SelectInSeq
<1>2. f.labels \in Seq(LabelEntries)
  BY DEF FunctionType
<1>3. DOMAIN f.labels = 1 .. Len(f.labels)
  BY <1>2
<1>4. CASE I = {}
  BY <1>1, <1>3, <1>4
<1>5. CASE I # {}
  <2>1. I \in SUBSET Nat
    OBVIOUS
  <2>2. Min(I) \in I
    <3> HIDE DEF I
    <3> QED BY <1>5, <2>1, LeastNumber
  <2>3. LabelIndex(f, name) = Min(I)
    <3> HIDE DEF I
    <3> QED BY <1>1, <1>5
  <2>4. LabelIndex(f, name) \in I
    <3> HIDE DEF I
    <3> QED BY <2>2, <2>3
  <2> QED BY <1>3, <2>4
<1> QED BY <1>4, <1>5

\* g is f with a new entry for the label, or with its old one moved.
WithLabel(f, g, name, address) ==
  /\ g \in FunctionType
  /\ g.code = f.code /\ g.refs = f.refs /\ g.constants = f.constants
  /\ \/ /\ DOMAIN g.labels = DOMAIN f.labels
        /\ \E i \in DOMAIN f.labels :
             /\ f.labels[i].name = name
             /\ g.labels[i] = [name |-> name, address |-> address]
             /\ \A j \in DOMAIN f.labels : j # i => g.labels[j] = f.labels[j]
     \/ /\ DOMAIN g.labels = DOMAIN f.labels \union {Len(f.labels) + 1}
        /\ Len(f.labels) + 1 \notin DOMAIN f.labels
        /\ \A j \in DOMAIN f.labels : g.labels[j] = f.labels[j] /\ f.labels[j].name # name
        /\ g.labels[Len(f.labels) + 1] = [name |-> name, address |-> address]

LEMMA LabelAdded ==
  ASSUME NEW f \in FunctionType, NEW name \in Texts, NEW address \in Nat
  PROVE  WithLabel(f, asm_add_label(f, name, address), name, address)
<1> PICK g : g = asm_add_label(f, name, address)
  OBVIOUS
<1> PICK at : at = LabelIndex(f, name)
  OBVIOUS
<1>1. g = IF at # 0 THEN [f EXCEPT !.labels[at].address = address]
          ELSE [f EXCEPT !.labels = Append(@, [name |-> name, address |-> address])]
  BY DEF asm_add_label, LabelIndex
<1>2. f.labels \in Seq(LabelEntries) /\ DOMAIN f.labels = 1 .. Len(f.labels) /\ Len(f.labels) \in Nat
  BY DEF FunctionType
<1>3. \/ at = 0 /\ \A i \in DOMAIN f.labels : f.labels[i].name # name
      \/ at \in DOMAIN f.labels /\ f.labels[at].name = name
  BY LabelFound
<1> PICK entry : entry = [name |-> name, address |-> address]
  OBVIOUS
<1>4. entry \in LabelEntries
  BY DEF LabelEntries
<1>5. CASE at = 0
  <2>1. g = [f EXCEPT !.labels = Append(f.labels, entry)]
    BY <1>1, <1>5
  <2>2. Append(f.labels, entry) \in Seq(LabelEntries)
    BY <1>2, <1>4, AppendProperties
  <2>3. g \in FunctionType /\ g.code = f.code /\ g.refs = f.refs /\ g.constants = f.constants /\ g.labels = Append(f.labels, entry)
    BY <2>1, <2>2 DEF FunctionType
  <2>4. /\ Len(g.labels) = Len(f.labels) + 1 /\ g.labels[Len(f.labels) + 1] = entry
        /\ \A j \in 1 .. Len(f.labels) : g.labels[j] = f.labels[j]
        /\ DOMAIN g.labels = 1 .. Len(f.labels) + 1
    BY <1>2, <1>4, <2>3, AppendProperties
  <2>5. /\ DOMAIN g.labels = DOMAIN f.labels \union {Len(f.labels) + 1}
        /\ Len(f.labels) + 1 \notin DOMAIN f.labels
    BY <1>2, <2>4
  <2>6. \A i \in DOMAIN f.labels : f.labels[i].name # name
    BY <1>2, <1>3, <1>5
  <2> QED BY <1>2, <2>3, <2>4, <2>5, <2>6 DEF WithLabel
<1>6. CASE at # 0
  <2>1. at \in DOMAIN f.labels /\ f.labels[at].name = name
    BY <1>3, <1>6
  <2>2. f.labels[at] \in LabelEntries
    BY <1>2, <2>1
  <2>3. [f.labels[at] EXCEPT !.address = address] = entry
    BY <2>1, <2>2 DEF LabelEntries
  <2>4. g = [f EXCEPT !.labels = [f.labels EXCEPT ![at] = entry]]
    BY <1>1, <1>6, <2>3
  <2> PICK ls : ls = [f.labels EXCEPT ![at] = entry]
    OBVIOUS
  <2>5. ls \in Seq(LabelEntries)
    BY <1>2, <1>4, <2>1, ExceptSeq
  <2>6. g \in FunctionType /\ g.code = f.code /\ g.refs = f.refs /\ g.constants = f.constants /\ g.labels = ls
    BY <2>4, <2>5 DEF FunctionType
  <2>7. DOMAIN ls = DOMAIN f.labels /\ ls[at] = entry /\ \A j \in DOMAIN f.labels : j # at => ls[j] = f.labels[j]
    BY <2>1
  <2> QED BY <2>1, <2>6, <2>7 DEF WithLabel
<1> QED BY <1>5, <1>6

\* A line with a label, in the function it belongs to.
LEMMA LabelKeeps ==
  ASSUME NEW file \in Seq(SourceLines), NEW k, NEW at \in Nat, at \in BodyLines(file, k),
         NEW f \in FunctionType, NEW name \in Texts, name # NoName, file[at].label = name,
         LabelsNoted(file, k, at, f), Len(f.code) = AddressOf(file, k, at)
  PROVE  LabelsNoted(file, k, at + 1, asm_add_label(f, name, Len(f.code)))
<1> PICK g : g = asm_add_label(f, name, Len(f.code))
  OBVIOUS
<1> DEFINE So(there) == Before(Labelled(file, k, there), at)
           Now(there) == Before(Labelled(file, k, there), at + 1)
<1>0. /\ \A there : Labelled(file, k, there) \in SUBSET Nat
      /\ \A there : at \in Labelled(file, k, there) <=> there = name
  BY FileSets DEF Labelled
<1>a. at \in Nat
  OBVIOUS
<1>2. \A there : there # name => Now(there) = So(there)
  <2> TAKE there
  <2> HAVE there # name
  <2> PICK S : S = Labelled(file, k, there)
    OBVIOUS
  <2>1. at \notin S /\ S \in SUBSET Nat
    BY <1>0
  <2>2. Before(S, at + 1) = Before(S, at)
    BY <2>1, BeforeNext
  <2> QED BY <2>2
<1>3. at \in Now(name) /\ Max(Now(name)) = at
  <2>1. at \in Now(name)
    <3>1. at \in Labelled(file, k, name) /\ at < at + 1
      BY ONLY <1>0, <1>a
    <3> QED BY <3>1 DEF Before
  <2>2. Now(name) \in SUBSET Nat /\ \A n \in Now(name) : n <= at
    <3>1. \A n \in Labelled(file, k, name) : n \in Nat /\ (n < at + 1 => n <= at)
      BY ONLY <1>0, <1>a
    <3> QED BY <3>1 DEF Before
  <2> QED BY <2>1, <2>2, GreatestNumber
<1> DEFINE Right(l) == /\ l.name # NoName /\ Now(l.name) # {}
                       /\ l.address = AddressOf(file, k, Max(Now(l.name)))
<1>4. Right([name |-> name, address |-> Len(f.code)])
  BY <1>3
<1>5. \A i \in DOMAIN f.labels : f.labels[i].name # name => Right(f.labels[i])
  BY <1>2 DEF LabelsNoted
<1>6. \A i, j \in DOMAIN f.labels : f.labels[i].name = f.labels[j].name => i = j
  BY DEF LabelsNoted
<1>7. Len(f.code) \in Nat /\ name \in Texts
  <2>1. f.code \in Seq(Words) /\ name \in Texts
    BY DEF FunctionType
  <2> QED BY ONLY <2>1
<1> PICK entry : entry = [name |-> name, address |-> Len(f.code)]
  OBVIOUS
<1>8. entry.name = name /\ Right(entry)
  BY <1>4
<1> HIDE DEF Right
<1>9. (\A i \in DOMAIN g.labels : Right(g.labels[i])) /\ \A i, j \in DOMAIN g.labels : g.labels[i].name = g.labels[j].name => i = j
  <2>1. ASSUME DOMAIN g.labels = DOMAIN f.labels,
               NEW i \in DOMAIN f.labels, f.labels[i].name = name, g.labels[i] = entry,
               \A j \in DOMAIN f.labels : j # i => g.labels[j] = f.labels[j]
        PROVE  (\A j \in DOMAIN g.labels : Right(g.labels[j])) /\ \A j, l \in DOMAIN g.labels : g.labels[j].name = g.labels[l].name => j = l
    <3>1. \A j \in DOMAIN f.labels : j # i => f.labels[j].name # name
      BY ONLY <1>6, <2>1
    <3>2. \A j \in DOMAIN f.labels : g.labels[j].name = f.labels[j].name
      BY ONLY <2>1, <1>8
    <3>3. \A j \in DOMAIN g.labels : Right(g.labels[j])
      BY ONLY <1>5, <1>8, <2>1, <3>1
    <3> QED BY ONLY <1>6, <2>1, <3>2, <3>3
  <2>2. ASSUME DOMAIN g.labels = DOMAIN f.labels \union {Len(f.labels) + 1},
               \A j \in DOMAIN f.labels : g.labels[j] = f.labels[j] /\ f.labels[j].name # name,
               g.labels[Len(f.labels) + 1] = entry
        PROVE  (\A j \in DOMAIN g.labels : Right(g.labels[j])) /\ \A j, l \in DOMAIN g.labels : g.labels[j].name = g.labels[l].name => j = l
    BY ONLY <2>2, <1>5, <1>6, <1>8
  <2>3. \/ /\ DOMAIN g.labels = DOMAIN f.labels
           /\ \E i \in DOMAIN f.labels :
                /\ f.labels[i].name = name /\ g.labels[i] = entry
                /\ \A j \in DOMAIN f.labels : j # i => g.labels[j] = f.labels[j]
        \/ /\ DOMAIN g.labels = DOMAIN f.labels \union {Len(f.labels) + 1}
           /\ \A j \in DOMAIN f.labels : g.labels[j] = f.labels[j] /\ f.labels[j].name # name
           /\ g.labels[Len(f.labels) + 1] = entry
    BY <1>7, LabelAdded DEF WithLabel
  <2> QED BY <2>1, <2>2, <2>3
<1>10. \A i \in DOMAIN g.labels : Right(g.labels[i])
  BY <1>9
<1> QED BY <1>9, <1>10 DEF LabelsNoted, Right

-----------------------------------------------------------------------------
(* Instructions.                                                           *)

\* f with one word more, and perhaps a reference to it.
Longer(f, g, t) ==
  /\ g \in FunctionType
  /\ g.labels = f.labels
  /\ Len(g.code) = Len(f.code) + 1
  /\ \A i \in 1 .. Len(f.code) : g.code[i] = f.code[i]
  /\ ByLabel(t) => g.code[Len(f.code) + 1].op = t[1].text
  /\ g.refs = IF ByLabel(t) /\ Len(f.refs) < MaxRefs
              THEN Append(f.refs, [label |-> Target(t).text, addr |-> Len(f.code),
                                   isJump |-> t[1].text = "JMP"])
              ELSE f.refs

LEMMA EmitOne ==
  ASSUME NEW f \in FunctionType, NEW word \in Words
  PROVE  LET g == emit_instruction(f, word)
         IN  /\ g \in FunctionType /\ g.labels = f.labels /\ g.refs = f.refs
             /\ Len(g.code) = Len(f.code) + 1 /\ g.code[Len(f.code) + 1] = word
             /\ \A i \in 1 .. Len(f.code) : g.code[i] = f.code[i]
<1>1. f.code \in Seq(Words)
  BY DEF FunctionType
<1> PICK code : code = Append(f.code, word)
  OBVIOUS
<1>2. /\ code \in Seq(Words) /\ Len(code) = Len(f.code) + 1 /\ code[Len(f.code) + 1] = word
      /\ \A i \in 1 .. Len(f.code) : code[i] = f.code[i]
  BY <1>1, AppendProperties
<1> PICK g : g = emit_instruction(f, word)
  OBVIOUS
<1>3. g = [f EXCEPT !.code = code]
  BY DEF emit_instruction
<1>4. g \in FunctionType /\ g.code = code /\ g.labels = f.labels /\ g.refs = f.refs
  BY <1>2, <1>3 DEF FunctionType
<1> QED BY <1>2, <1>4

\* An instruction that names no label.
LEMMA EmitPlain ==
  ASSUME NEW f \in FunctionType, NEW t, ~ByLabel(t), NEW word \in Words
  PROVE  Longer(f, emit_instruction(f, word), t)
BY EmitOne DEF Longer

LEMMA EmitJump ==
  ASSUME NEW f \in FunctionType, NEW t, ByLabel(t), NEW word \in Words, word.op = t[1].text,
         Target(t).text \in Texts
  PROVE  Longer(f, emit_instruction(asm_add_reference(f, Target(t).text, t[1].text = "JMP"), word), t)
<1> PICK ref : ref = [label |-> Target(t).text, addr |-> Len(f.code), isJump |-> t[1].text = "JMP"]
  OBVIOUS
<1>1. f.code \in Seq(Words) /\ f.refs \in Seq(References) /\ Len(f.code) \in Nat /\ Len(f.refs) \in Nat /\ MaxRefs \in Nat
  BY Proto2Assumption DEF FunctionType
<1>2. ref \in References
  <2>1. (t[1].text = "JMP") \in BOOLEAN
    OBVIOUS
  <2> QED BY <1>1, <2>1 DEF References
<1> PICK g : g = asm_add_reference(f, Target(t).text, t[1].text = "JMP")
  OBVIOUS
<1>3. g = IF Len(f.refs) >= MaxRefs THEN f ELSE [f EXCEPT !.refs = Append(f.refs, ref)]
  BY DEF asm_add_reference
<1>4. /\ g \in FunctionType /\ g.code = f.code /\ g.labels = f.labels
      /\ g.refs = IF Len(f.refs) < MaxRefs THEN Append(f.refs, ref) ELSE f.refs
  <2>1. CASE Len(f.refs) >= MaxRefs
    BY <1>1, <1>3, <2>1
  <2>2. CASE ~(Len(f.refs) >= MaxRefs)
    <3> PICK refs : refs = Append(f.refs, ref)
      OBVIOUS
    <3>1. refs \in Seq(References)
      BY <1>1, <1>2, AppendProperties
    <3>2. g = [f EXCEPT !.refs = refs]
      BY <1>3, <2>2
    <3>3. g \in FunctionType /\ g.code = f.code /\ g.labels = f.labels /\ g.refs = refs
      BY <3>1, <3>2 DEF FunctionType
    <3>4. Len(f.refs) < MaxRefs
      BY <1>1, <2>2
    <3> QED BY <3>3, <3>4
  <2> QED BY <2>1, <2>2
<1> PICK e : e = emit_instruction(g, word)
  OBVIOUS
<1>5. /\ e \in FunctionType /\ e.labels = g.labels /\ e.refs = g.refs
      /\ Len(e.code) = Len(g.code) + 1 /\ e.code[Len(g.code) + 1] = word
      /\ \A i \in 1 .. Len(g.code) : e.code[i] = g.code[i]
  BY <1>4, EmitOne
<1>6. Longer(f, e, t)
  BY <1>4, <1>5 DEF Longer
<1> QED BY <1>6

\* A constant that is loaded is in the function's table, or goes there.
LEMMA EmitLoad ==
  ASSUME NEW f \in FunctionType, NEW t, ~ByLabel(t), NEW a \in Byte, NEW v \in Constants
  PROVE  Longer(f, EmitConstant(f, a, v), t)
<1> PICK i : i = asm_find_constant(f, v)
  OBVIOUS
<1>1. f.constants \in Seq(Constants) /\ Len(f.constants) \in Nat
  BY DEF FunctionType
<1> PICK g : g = IF i # 0 THEN f ELSE [f EXCEPT !.constants = Append(@, v)]
  OBVIOUS
<1> PICK b : b = IF i # 0 THEN i - 1 ELSE Len(f.constants)
  OBVIOUS
<1>2. EmitConstant(f, a, v) = emit_instruction(g, INS_AB("LOADN", a, b))
  BY DEF EmitConstant
<1>3. i \in Nat
  <2> DEFINE I == {j \in 1 .. Len(f.constants) : value_equal(f.constants[j], v)}
  <2>1. i = IF I # {} THEN Min(I) ELSE 0
    BY DEF asm_find_constant, SelectInSeq
  <2>2. I \in SUBSET Nat
    BY <1>1
  <2> HIDE DEF I
  <2> QED BY <2>1, <2>2, LeastNumber
<1>4. b \in Int
  BY <1>1, <1>3
<1>5. g \in FunctionType /\ g.code = f.code /\ g.labels = f.labels /\ g.refs = f.refs
  <2>1. Append(f.constants, v) \in Seq(Constants)
    BY <1>1, AppendProperties
  <2> QED BY <2>1 DEF FunctionType
<1> PICK word : word = INS_AB("LOADN", a, b)
  OBVIOUS
<1>6. word \in Words
  <2>1. "LOADN" \in Ops
    BY DEF Ops
  <2> QED BY <1>4, <2>1, WordsTyped
<1>7. Longer(g, emit_instruction(g, word), t)
  BY <1>5, <1>6, EmitPlain
<1>8. Longer(f, emit_instruction(g, word), t)
  BY <1>5, <1>7 DEF Longer
<1> QED BY <1>2, <1>8

\* What the parser makes of a line.
TokenType == [kind : {"reg", "imm", "constant", "word"}, n : Int, text : Texts, value : SourceValues]
SomeTokens == Seq(TokenType)

\* The number a token is read as is the one its text writes if 32 bits hold it.
LEMMA NumberRead ==
  ASSUME NEW t, t.n \in Int
  PROVE  /\ number(t) \in Int
         /\ number(t) = t.n <=> t.n \in V!MinInt .. MaxInt
<1> PICK m : m = MaxInt + 1
  OBVIOUS
<1> PICK long : long = LongMax
  OBVIOUS
<1> PICK n : n = t.n
  OBVIOUS
<1> PICK s : s = strtol(n)
  OBVIOUS
<1>1. m \in Nat /\ m > 0 /\ MaxInt = m - 1 /\ V!IntCount = 2 * m /\ V!MinInt = -m
  BY Proto2Assumption DEF V!IntCount, V!MinInt
<1>2. long = 2 * m * m - 1
  BY <1>1 DEF LongMax
<1>3. long \in Int /\ long >= m - 1
  <2>1. m * m \in Nat /\ m * m >= m
    BY ONLY <1>1
  <2> QED BY ONLY <1>1, <1>2, <2>1
<1>4. s \in Int /\ (n \in -m .. m - 1 => s = n)
  BY <1>1, <1>3 DEF strtol
<1> PICK c, x : c = 2 * m /\ x = s + m
  OBVIOUS
<1> PICK r, q : r = x % c /\ q = x \div c
  OBVIOUS
<1>5. c \in Nat /\ c > 0 /\ x \in Int
  BY ONLY <1>1, <1>4, c = 2 * m, x = s + m
<1>6. r \in 0 .. c - 1 /\ q \in Int /\ x = q * c + r
  BY <1>5
<1>7. x \in 0 .. c - 1 => r = x
  <2> HAVE x \in 0 .. c - 1
  <2>1. q > 0 => q * c >= c
    BY ONLY <1>5, <1>6
  <2>2. q < 0 => q * c <= -c
    BY ONLY <1>5, <1>6
  <2>3. q = 0 => q * c = 0
    BY ONLY <1>5, <1>6
  <2> PICK p : p = q * c
    OBVIOUS
  <2>4. p \in Int
    BY ONLY <1>5, <1>6, p = q * c
  <2> QED BY ONLY <1>5, <1>6, <2>1, <2>2, <2>3, <2>4, p = q * c, x \in 0 .. c - 1
<1>8. number(t) = r - m
  BY <1>1, <1>4 DEF number
<1>9. V!MinInt .. MaxInt = -m .. m - 1
  BY <1>1
<1>10. number(t) \in -m .. m - 1
  BY ONLY <1>1, <1>6, <1>8, c = 2 * m
<1>11. n \in -m .. m - 1 => number(t) = n
  <2> HAVE n \in -m .. m - 1
  <2>1. x = n + m /\ x \in 0 .. c - 1
    BY <1>1, <1>4
  <2> QED BY <1>1, <1>7, <1>8, <2>1
<1>12. n \in -m .. m - 1 <=> n \in V!MinInt .. MaxInt
  BY <1>1, <1>9
<1> QED BY ONLY <1>1, <1>10, <1>11, <1>12, n = t.n

\* The operands of a line that is not refused.
LEMMA OperandsThere ==
  ASSUME NEW t \in SomeTokens, t # <<>>, Valid(t)
  PROVE  /\ t[1].text \in Ops
         /\ t[1].text # "RETURN" => Len(t) = Size(t[1].text)
         /\ \A i \in 1 .. Len(t) : number(t[i]) \in Int /\ t[i].text \in Texts
         /\ \A i \in 1 .. Len(t) : parse_constant(t[i]) \in Constants
         /\ t[1].text \notin {"RETURN", "JMP"} => number(t[2]) \in Byte
         /\ t[1].text \in Arithmetic \union {"MOVE", "IFLT", "CALLF"} => number(t[3]) \in Byte
         /\ t[1].text \in Arithmetic \union {"CALLF"} => number(t[4]) \in Byte
<1>1. \A i \in 1 .. Len(t) : number(t[i]) \in Int /\ t[i].text \in Texts /\ t[i].value \in SourceValues
  <2>1. \A i \in 1 .. Len(t) : t[i] \in TokenType
    BY DEF SomeTokens
  <2>2. ASSUME NEW x \in TokenType PROVE number(x) \in Int /\ x.text \in Texts /\ x.value \in SourceValues
    <3>1. x.n \in Int /\ x.text \in Texts /\ x.value \in SourceValues
      BY DEF TokenType
    <3> QED BY <3>1, NumberRead
  <2> QED BY <2>1, <2>2
<1>2. \A i \in 1 .. Len(t) : parse_constant(t[i]) \in Constants
  BY <1>1 DEF parse_constant, Constants
<1>3. t[1].text \in Ops /\ (t[1].text # "RETURN" => Len(t) = Size(t[1].text))
  BY DEF Valid, Ops, Arithmetic
<1>4. t[1].text \notin {"RETURN", "JMP"} => number(t[2]) \in Byte
  BY DEF Valid, is_register
<1>5. t[1].text \in Arithmetic \union {"MOVE", "IFLT"} => number(t[3]) \in Byte
  BY DEF Valid, is_register, Arithmetic
<1>6. t[1].text \in Arithmetic => number(t[4]) \in Byte
  BY DEF Valid, is_register, Arithmetic
<1>7. t[1].text = "CALLF" => number(t[3]) \in Byte /\ number(t[4]) \in Byte
  <2>1. 3 \in 3 .. 4 /\ 4 \in 3 .. 4
    OBVIOUS
  <2> QED BY <2>1 DEF Valid, Arithmetic
<1> QED BY <1>1, <1>2, <1>3, <1>4, <1>5, <1>6, <1>7

LEMMA EmittedLonger ==
  ASSUME NEW f \in FunctionType, NEW t \in SomeTokens, t # <<>>, Valid(t)
  PROVE  Longer(f, Emitted(f, t), t)
<1> PICK op : op = t[1].text
  OBVIOUS
<1> PICK g : g = Emitted(f, t)
  OBVIOUS
<1>1. /\ op \in Ops /\ Len(t) \in Nat
      /\ op # "RETURN" => Len(t) = Size(op)
      /\ \A i \in 1 .. Len(t) : number(t[i]) \in Int /\ t[i].text \in Texts
      /\ \A i \in 1 .. Len(t) : parse_constant(t[i]) \in Constants
      /\ op \notin {"RETURN", "JMP"} => number(t[2]) \in Byte
      /\ op \in Arithmetic \union {"MOVE", "IFLT", "CALLF"} => number(t[3]) \in Byte
      /\ op \in Arithmetic \union {"CALLF"} => number(t[4]) \in Byte
      /\ 0 \in Byte
  <2>1. Len(t) \in Nat
    BY DEF SomeTokens
  <2> QED BY <2>1, BytesOf, OperandsThere
<1>2. op \notin {"JMP", "IFLT"} => ~ByLabel(t)
  BY DEF ByLabel
<1>3. CASE op = "RETURN"
  <2>1. INS(op) \in Words
    BY <1>1, WordsTyped DEF INS
  <2>2. g = emit_instruction(f, INS(op))
    BY <1>3 DEF Emitted, Arithmetic
  <2> QED BY <1>2, <1>3, <2>1, <2>2, EmitPlain
<1>4. CASE op = "MOVE"
  <2>1. number(t[2]) \in Byte /\ number(t[3]) \in Byte
    BY <1>1, <1>4
  <2>2. INS_ABC(op, number(t[2]), number(t[3]), 0) \in Words
    BY <1>1, <2>1, WordsTyped
  <2>3. g = emit_instruction(f, INS_ABC(op, number(t[2]), number(t[3]), 0))
    BY <1>4 DEF Emitted, Arithmetic
  <2> QED BY <1>2, <1>4, <2>2, <2>3, EmitPlain
<1>5. CASE op \in Arithmetic \union {"CALLF"}
  <2>1. number(t[2]) \in Byte /\ number(t[3]) \in Byte /\ number(t[4]) \in Byte
    <3>1. op \notin {"RETURN", "JMP"}
      BY <1>5 DEF Arithmetic
    <3> QED BY <1>1, <1>5, <3>1
  <2>2. INS_ABC(op, number(t[2]), number(t[3]), number(t[4])) \in Words
    BY <1>1, <2>1, WordsTyped
  <2>3. g = emit_instruction(f, INS_ABC(op, number(t[2]), number(t[3]), number(t[4])))
    BY <1>5 DEF Emitted, Arithmetic
  <2>4. op \notin {"JMP", "IFLT"}
    BY <1>5 DEF Arithmetic
  <2> QED BY <1>2, <2>2, <2>3, <2>4, EmitPlain
<1>6. CASE op \in {"LOADK", "LOAD", "LOADN"}
  <2>1. number(t[2]) \in Byte /\ number(t[3]) \in Int /\ parse_constant(t[3]) \in Constants
    BY <1>1, <1>6 DEF Size
  <2>2. \/ g = emit_instruction(f, INS_AB("LOADK", number(t[2]), number(t[3])))
        \/ g = EmitConstant(f, number(t[2]), parse_constant(t[3]))
    BY <1>6 DEF Emitted, Arithmetic
  <2>3. INS_AB("LOADK", number(t[2]), number(t[3])) \in Words
    <3>1. "LOADK" \in Ops
      BY DEF Ops
    <3> QED BY <2>1, <3>1, WordsTyped
  <2> QED BY <1>2, <1>6, <2>1, <2>2, <2>3, EmitPlain, EmitLoad
<1>7. CASE op = "IFLT"
  <2>1. Len(t) = 4 /\ number(t[2]) \in Byte /\ number(t[3]) \in Byte /\ number(t[4]) \in Int /\ t[4].text \in Texts
    <3>1. Len(t) = 4
      BY <1>1, <1>7 DEF Size, Arithmetic
    <3> QED BY <1>1, <1>7, <3>1
  <2>2. Target(t) = t[4] /\ (ByLabel(t) <=> ~is_immediate(t[4]))
    BY <1>7, <2>1 DEF Target, ByLabel
  <2>3. CASE is_immediate(t[4])
    <3>1. g = emit_instruction(f, INS_ABC(op, number(t[2]), number(t[3]), number(t[4]) % ByteSize))
      BY <1>7, <2>3 DEF Emitted, Arithmetic
    <3>2. number(t[4]) % ByteSize \in Byte
      BY <2>1, WideOperand
    <3>3. INS_ABC(op, number(t[2]), number(t[3]), number(t[4]) % ByteSize) \in Words
      BY <1>1, <2>1, <3>2, WordsTyped
    <3> QED BY <2>2, <2>3, <3>1, <3>3, EmitPlain
  <2>4. CASE ~is_immediate(t[4])
    <3> PICK word : word = INS_ABC(op, number(t[2]), number(t[3]), 0)
      OBVIOUS
    <3>1. word \in Words /\ word.op = op
      BY <1>1, <2>1, WordsTyped
    <3>2. (op = "JMP") = FALSE
      BY <1>7
    <3>3. g = emit_instruction(asm_add_reference(f, t[4].text, FALSE), word)
      BY <1>7, <2>4 DEF Emitted, Arithmetic
    <3>4. g = emit_instruction(asm_add_reference(f, Target(t).text, t[1].text = "JMP"), word)
      BY <2>2, <3>2, <3>3
    <3>5. ByLabel(t) /\ Target(t).text \in Texts
      BY <2>1, <2>2, <2>4
    <3> QED BY <3>1, <3>4, <3>5, EmitJump
  <2> QED BY <2>3, <2>4
<1>8. CASE op = "JMP"
  <2>1. Len(t) = 2 /\ number(t[2]) \in Int /\ t[2].text \in Texts
    <3>1. Len(t) = 2
      BY <1>1, <1>8 DEF Size, Arithmetic
    <3> QED BY <1>1, <3>1
  <2>2. Target(t) = t[2] /\ (ByLabel(t) <=> ~is_immediate(t[2]))
    BY <1>8, <2>1 DEF Target, ByLabel
  <2>3. CASE is_immediate(t[2])
    <3>1. g = emit_instruction(f, INS_AB(op, 0, number(t[2])))
      BY <1>8, <2>3 DEF Emitted, Arithmetic
    <3>2. INS_AB(op, 0, number(t[2])) \in Words
      BY <1>1, <2>1, WordsTyped
    <3> QED BY <2>2, <2>3, <3>1, <3>2, EmitPlain
  <2>4. CASE ~is_immediate(t[2])
    <3> PICK word : word = INS_AB(op, 0, 0)
      OBVIOUS
    <3>1. word \in Words /\ word.op = op
      BY <1>1, WordsTyped
    <3>2. (op = "JMP") = TRUE
      BY <1>8
    <3>3. g = emit_instruction(asm_add_reference(f, t[2].text, TRUE), word)
      BY <1>8, <2>4 DEF Emitted, Arithmetic
    <3>4. g = emit_instruction(asm_add_reference(f, Target(t).text, t[1].text = "JMP"), word)
      BY <2>2, <3>2, <3>3
    <3>5. ByLabel(t) /\ Target(t).text \in Texts
      BY <2>1, <2>2, <2>4
    <3> QED BY <3>1, <3>4, <3>5, EmitJump
  <2> QED BY <2>3, <2>4
<1> QED BY <1>1, <1>3, <1>4, <1>5, <1>6, <1>7, <1>8 DEF Ops, Arithmetic

\* What an instruction does to the table of constants.
LoadLonger(f, g, t) ==
  /\ Len(g.constants) <= Half
  /\ \A i \in DOMAIN f.constants : i \in DOMAIN g.constants /\ g.constants[i] = f.constants[i]
  /\ Loads(t) => LoadedBy(g.code[Len(f.code) + 1], t, g.constants)

LEMMA ConstantsStay ==
  ASSUME NEW f \in FunctionType
  PROVE  /\ \A word : emit_instruction(f, word).constants = f.constants
         /\ \A word, name, isJump :
              emit_instruction(asm_add_reference(f, name, isJump), word).constants = f.constants
<1>1. \A refs, code : /\ [f EXCEPT !.code = code].constants = f.constants
                      /\ [[f EXCEPT !.refs = refs] EXCEPT !.code = code].constants = f.constants
  BY DEF FunctionType
<1> QED BY <1>1 DEF emit_instruction, asm_add_reference

\* The word of LOADN, with the constant in the table it counts into.
LEMMA ConstantLoaded ==
  ASSUME NEW f \in FunctionType, NEW t, NEW v \in Constants, v = parse_constant(t[3]), number(t[2]) \in Byte, LoadOperands(t),
         Len(f.constants) <= Half, asm_find_constant(f, v) = 0 => Len(f.constants) < Half
  PROVE  LoadLonger(f, EmitConstant(f, number(t[2]), v), t)
<1> PICK i, a, table : i = asm_find_constant(f, v) /\ a = number(t[2]) /\ table = f.constants
  OBVIOUS
<1> PICK new : new = IF i # 0 THEN table ELSE Append(table, v)
  OBVIOUS
<1> PICK at : at = IF i # 0 THEN i ELSE Len(table) + 1
  OBVIOUS
<1> PICK g, h : g = EmitConstant(f, a, v) /\ h = IF i # 0 THEN f ELSE [f EXCEPT !.constants = Append(@, v)]
  OBVIOUS
<1>0. Half \in Nat
  BY BytesOf
<1>1. table \in Seq(Constants) /\ Len(table) \in Nat /\ DOMAIN table = 1 .. Len(table) /\ f.code \in Seq(Words)
  BY DEF FunctionType
<1>2. i # 0 => i \in 1 .. Len(table) /\ value_equal(table[i], v)
  <2> DEFINE I == {j \in 1 .. Len(table) : value_equal(table[j], v)}
  <2>1. i = IF I # {} THEN Min(I) ELSE 0
    BY DEF asm_find_constant, SelectInSeq
  <2>2. I \in SUBSET Nat /\ \A j \in I : j \in 1 .. Len(table) /\ value_equal(table[j], v)
    BY <1>1
  <2> HIDE DEF I
  <2> QED BY <2>1, <2>2, LeastNumber
<1>3. /\ new \in Seq(Constants) /\ Len(new) \in Nat /\ DOMAIN new = 1 .. Len(new) /\ Len(new) <= Half
      /\ Len(table) <= Len(new) /\ \A j \in 1 .. Len(table) : new[j] = table[j]
      /\ at \in 1 .. Len(new) /\ (new[at] = v \/ value_equal(new[at], v))
  <2>1. CASE i # 0
    BY <1>1, <1>2, <2>1
  <2>2. CASE i = 0
    <3>1. new = Append(table, v) /\ at = Len(table) + 1 /\ Len(table) < Half
      BY <2>2
    <3>2. /\ new \in Seq(Constants) /\ Len(new) = Len(table) + 1 /\ new[Len(table) + 1] = v
          /\ \A j \in 1 .. Len(table) : new[j] = table[j]
      BY <1>1, <3>1, AppendProperties
    <3>3. DOMAIN new = 1 .. Len(new)
      BY <3>2
    <3> QED BY <1>0, <1>1, <3>1, <3>2, <3>3
  <2> QED BY <2>1, <2>2
<1> PICK word : word = INS_AB("LOADN", a, at - 1)
  OBVIOUS
<1>4. g = emit_instruction(h, word) /\ h \in FunctionType /\ h.constants = new /\ h.code = f.code
  <2>1. CASE i # 0
    BY <2>1 DEF EmitConstant
  <2>2. CASE i = 0
    <3>1. h = [f EXCEPT !.constants = new]
      BY <2>2
    <3>2. h \in FunctionType /\ h.constants = new /\ h.code = f.code
      BY <1>3, <3>1 DEF FunctionType
    <3>3. at - 1 = Len(f.constants)
      BY <1>1, <2>2
    <3> QED BY <2>2, <3>2, <3>3 DEF EmitConstant
  <2> QED BY <2>1, <2>2
<1>5. word.a = a /\ word.op = "LOADN" /\ Wide(word) = at - 1
  <2>1. at - 1 \in Nat /\ at - 1 < Half
    BY <1>0, <1>3
  <2>2. Wide(word) = at - 1
    BY <2>1, IndexReads
  <2> QED BY <2>2 DEF INS_AB, INS_ABC
<1>6. g.constants = new
  <2>1. emit_instruction(h, word).constants = h.constants
    BY <1>4, ConstantsStay, ZenonT(60)
  <2> QED BY <1>4, <2>1
<1>7. g.code[Len(f.code) + 1] = word
  BY <1>1, <1>4, AppendProperties DEF emit_instruction, FunctionType
<1>8. LoadedBy(word, t, new)
  BY <1>3, <1>5 DEF LoadedBy
<1>9. \A j \in DOMAIN table : j \in DOMAIN new /\ new[j] = table[j]
  BY <1>1, <1>3
<1>10. LoadLonger(f, g, t)
  BY <1>3, <1>6, <1>7, <1>8, <1>9 DEF LoadLonger
<1> QED BY <1>10

LEMMA EmittedLoads ==
  ASSUME NEW f \in FunctionType, NEW t \in SomeTokens, t # <<>>, Valid(t),
         Len(f.constants) <= Half, ~ConstantRefused(f, t)
  PROVE  LoadLonger(f, Emitted(f, t), t)
<1> PICK op, g : op = t[1].text /\ g = Emitted(f, t)
  OBVIOUS
<1>0. /\ op \in Ops /\ Len(t) \in Nat
      /\ op # "RETURN" => Len(t) = Size(op)
      /\ \A i \in 1 .. Len(t) : number(t[i]) \in Int
      /\ \A i \in 1 .. Len(t) : parse_constant(t[i]) \in Constants
      /\ op \notin {"RETURN", "JMP"} => number(t[2]) \in Byte
  <2>1. Len(t) \in Nat
    BY DEF SomeTokens
  <2> QED BY <2>1, OperandsThere
<1>1. CASE op \notin {"LOADK", "LOAD", "LOADN"}
  <2>1. ~Loads(t)
    BY <1>1 DEF Loads
  <2>2. \/ \E word : g = emit_instruction(f, word)
        \/ \E word, name, isJump : g = emit_instruction(asm_add_reference(f, name, isJump), word)
    <3>1. CASE op \in {"RETURN", "MOVE", "CALLF"}
      BY <3>1 DEF Emitted, Arithmetic
    <3>2. CASE op \in Arithmetic
      BY <3>2 DEF Emitted, Arithmetic
    <3>3. CASE op = "IFLT"
      BY <3>3 DEF Emitted, Arithmetic
    <3>4. CASE op = "JMP"
      BY <3>4 DEF Emitted, Arithmetic
    <3> QED BY <1>0, <1>1, <3>1, <3>2, <3>3, <3>4 DEF Ops, Arithmetic
  <2>3. g.constants = f.constants
    BY <2>2, ConstantsStay
  <2> QED BY <2>1, <2>3 DEF LoadLonger
<1>2. CASE op \in {"LOADK", "LOAD", "LOADN"}
  <2>1. Len(t) = 3 /\ number(t[2]) \in Byte /\ number(t[3]) \in Int /\ parse_constant(t[3]) \in Constants
    <3>1. op \notin {"RETURN", "JMP"}
      BY <1>2
    <3>2. op \in {"MOVE", "LOADK", "LOAD", "LOADN"}
      BY <1>2
    <3>3. Size(op) = 3
      BY <3>2 DEF Size, Arithmetic
    <3> QED BY <1>0, <3>1, <3>3
  <2>4. LoadOperands(t)
    <3>1. Len(t) = 3 /\ t[2] \in TokenType /\ t[3] \in TokenType
      BY <2>1, SMTT(30) DEF SomeTokens
    <3>2. is_register(t[2]) /\ (is_immediate(t[3]) \/ IsConstant(t[3]))
      BY <1>2 DEF Valid, SmallInteger, Arithmetic
    <3> QED BY <3>1, <3>2 DEF LoadOperands, TokenType, is_register, is_immediate, IsConstant
  <2>2. CASE op = "LOADK" \/ (op = "LOAD" /\ SmallInteger(t[3]))
    <3>1. is_immediate(t[3]) /\ number(t[3]) \in Int16
      BY <2>2 DEF Valid, SmallInteger, Arithmetic
    <3> PICK word : word = INS_AB("LOADK", number(t[2]), number(t[3]))
      OBVIOUS
    <3>2. g = emit_instruction(f, word)
      BY <2>2 DEF Emitted, Arithmetic
    <3>3. g.constants = f.constants
      BY <3>2, ConstantsStay
    <3>4. word.op = "LOADK" /\ word.a = number(t[2])
      BY DEF INS_AB, INS_ABC
    <3>5. BC(word) = number(t[3])
      BY <3>1, WideReads
    <3>6. LoadedBy(word, t, g.constants)
      BY <2>4, <3>1, <3>4, <3>5 DEF LoadedBy, parse_constant
    <3>7. g.code[Len(f.code) + 1] = word
      <4>1. f.code \in Seq(Words)
        BY DEF FunctionType
      <4>2. "LOADK" \in Ops
        BY DEF Ops
      <4>3. word \in Words
        BY <2>1, <4>2, WordsTyped
      <4> QED BY <3>2, <4>3, EmitOne
    <3> QED BY <3>3, <3>6, <3>7 DEF LoadLonger
  <2>3. CASE ~(op = "LOADK" \/ (op = "LOAD" /\ SmallInteger(t[3])))
    <3> PICK v : v = parse_constant(t[3])
      OBVIOUS
    <3>1. op = "LOADN" \/ (op = "LOAD" /\ ~SmallInteger(t[3]))
      BY <1>2, <2>3
    <3>2. g = EmitConstant(f, number(t[2]), v)
      BY <2>3, <3>1 DEF Emitted, Arithmetic
    <3>3. asm_find_constant(f, v) = 0 => Len(f.constants) < Half
      <4>1. Len(f.constants) \in Nat /\ Half \in Nat
        <5>1. f.constants \in Seq(Constants)
          BY DEF FunctionType
        <5> QED BY <5>1, BytesOf
      <4> QED BY <3>1, <4>1 DEF ConstantRefused
    <3> QED BY <2>1, <2>4, <3>2, <3>3, ConstantLoaded
  <2> QED BY <2>2, <2>3
<1> QED BY <1>1, <1>2

\* A line with an instruction, in the function it belongs to.
LEMMA InstructionKeeps ==
  ASSUME NEW file \in Seq(SourceLines), NEW k, NEW at \in Nat, at \in Instructions(file, k),
         NEW f \in FunctionType, NEW g, Longer(f, g, Tokens(file, at)),
         CodeWritten(file, k, at, f), ReferencesNoted(file, k, at, f)
  PROVE  CodeWritten(file, k, at + 1, g) /\ ReferencesNoted(file, k, at + 1, g)
<1> PICK t : t = Tokens(file, at)
  OBVIOUS
<1> PICK I, J : I = Instructions(file, k) /\ J = JumpLines(file, k)
  OBVIOUS
<1>1. /\ I \in SUBSET (1 .. Len(file)) /\ J \in SUBSET (1 .. Len(file)) /\ Len(file) \in Nat
      /\ \A n : AddressOf(file, k, n) = Cardinality(Before(I, n))
  BY FileSets
<1>2. J \in SUBSET I /\ (at \in J <=> ByLabel(t))
  BY DEF JumpLines
<1>3. /\ f.code \in Seq(Words) /\ Len(f.code) \in Nat /\ f.refs \in Seq(References) /\ Len(f.refs) \in Nat
      /\ DOMAIN f.refs = 1 .. Len(f.refs)
  BY DEF FunctionType
<1>4. Len(f.code) = AddressOf(file, k, at)
  BY DEF CodeWritten
<1>5. AddressOf(file, k, at + 1) = AddressOf(file, k, at) + 1
  <2>1. at \in I
    OBVIOUS
  <2>2. Cardinality(Before(I, at + 1)) = Cardinality(Before(I, at)) + 1
    BY <1>1, <2>1, CountNext
  <2> QED BY <1>1, <2>2
<1>6. CodeWritten(file, k, at + 1, g)
  <2>1. Len(g.code) = AddressOf(file, k, at + 1)
    BY <1>4, <1>5 DEF Longer
  <2>2. ASSUME NEW n \in Before(J, at + 1)
        PROVE  g.code[AddressOf(file, k, n) + 1].op = Tokens(file, n)[1].text
    <3>1. n \in J /\ n \in I /\ n \in Nat /\ n < at + 1
      BY <1>1, <1>2 DEF Before
    <3>2. CASE n = at
      <4>1. ByLabel(t)
        BY <1>2, <3>1, <3>2
      <4>2. g.code[Len(f.code) + 1].op = t[1].text
        BY <4>1 DEF Longer
      <4> QED BY <1>4, <3>2, <4>2
    <3>3. CASE n # at
      <4>1. n < at
        BY <3>1, <3>3
      <4>2. AddressOf(file, k, n) < AddressOf(file, k, at) /\ AddressOf(file, k, n) \in Nat
        <5>1. Cardinality(Before(I, n)) < Cardinality(Before(I, at))
          BY <1>1, <3>1, <4>1, CountGrows
        <5>2. Cardinality(Before(I, n)) \in Nat
          BY <1>1, <3>1, CountNext
        <5> QED BY <1>1, <5>1, <5>2
      <4>3. AddressOf(file, k, n) + 1 \in 1 .. Len(f.code)
        BY <1>3, <1>4, <4>2
      <4>4. g.code[AddressOf(file, k, n) + 1] = f.code[AddressOf(file, k, n) + 1]
        BY <4>3 DEF Longer
      <4>5. n \in Before(JumpLines(file, k), at)
        BY <3>1, <4>1 DEF Before
      <4> QED BY <4>4, <4>5 DEF CodeWritten
    <3> QED BY <3>2, <3>3
  <2> QED BY <2>1, <2>2 DEF CodeWritten
<1> PICK B, C : B = Before(J, at) /\ C = Before(J, at + 1)
  OBVIOUS
<1>7. /\ Cardinality(B) \in Nat
      /\ at \in J => C = B \union {at} /\ Cardinality(C) = Cardinality(B) + 1
      /\ at \notin J => C = B
  <2>1. J \in SUBSET Nat
    BY <1>1
  <2>2. /\ Cardinality(Before(J, at)) \in Nat
        /\ at \in J => Cardinality(Before(J, at + 1)) = Cardinality(Before(J, at)) + 1
    BY <1>1, CountNext
  <2>3. /\ at \in J => Before(J, at + 1) = Before(J, at) \union {at}
        /\ at \notin J => Before(J, at + 1) = Before(J, at)
    BY <2>1, BeforeNext
  <2> QED BY <2>2, <2>3
<1>8. /\ \A i \in DOMAIN f.refs : \E n \in B : f.refs[i] = Reference(file, k, n)
      /\ Len(f.refs) <= Cardinality(B)
      /\ Cardinality(B) <= MaxRefs =>
           \A n \in B : \E i \in DOMAIN f.refs : f.refs[i] = Reference(file, k, n)
  BY DEF ReferencesNoted
<1>9. MaxRefs \in Nat
  BY Proto2Assumption
<1>10. /\ \A i \in DOMAIN g.refs : \E n \in C : g.refs[i] = Reference(file, k, n)
       /\ Len(g.refs) <= Cardinality(C)
       /\ Cardinality(C) <= MaxRefs =>
            \A n \in C : \E i \in DOMAIN g.refs : g.refs[i] = Reference(file, k, n)
  <2>1. CASE ~ByLabel(t)
    <3>1. g.refs = f.refs /\ C = B
      BY <1>2, <1>7, <2>1 DEF Longer
    <3> QED BY <1>8, <3>1
  <2>2. CASE ByLabel(t) /\ ~(Len(f.refs) < MaxRefs)
    <3>1. g.refs = f.refs /\ C = B \union {at} /\ Cardinality(C) = Cardinality(B) + 1
      BY <1>2, <1>7, <2>2 DEF Longer
    <3>2. ~(Cardinality(C) <= MaxRefs) /\ Len(g.refs) <= Cardinality(C)
      BY <1>3, <1>7, <1>8, <1>9, <2>2, <3>1
    <3> QED BY <1>8, <3>1, <3>2
  <2>3. CASE ByLabel(t) /\ Len(f.refs) < MaxRefs
    <3> PICK ref : ref = Reference(file, k, at)
      OBVIOUS
    <3>1. C = B \union {at} /\ Cardinality(C) = Cardinality(B) + 1
      BY <1>2, <1>7, <2>3
    <3>2. g.refs = Append(f.refs, ref)
      <4>1. g.refs = Append(f.refs, [label |-> Target(t).text, addr |-> Len(f.code), isJump |-> t[1].text = "JMP"])
        BY <2>3 DEF Longer
      <4>2. ref = [label |-> Target(t).text, addr |-> Len(f.code), isJump |-> t[1].text = "JMP"]
        BY <1>4 DEF Reference
      <4> QED BY <4>1, <4>2
    <3> PICK r : r = g.refs
      OBVIOUS
    <3>3. /\ DOMAIN r = 1 .. Len(f.refs) + 1 /\ Len(r) = Len(f.refs) + 1
          /\ r[Len(f.refs) + 1] = ref /\ \A i \in 1 .. Len(f.refs) : r[i] = f.refs[i]
      <4> PICK S : S = References \union {ref}
        OBVIOUS
      <4>1. f.refs \in Seq(S) /\ ref \in S
        BY <1>3
      <4>2. r = Append(f.refs, ref)
        BY <3>2
      <4> QED BY <1>3, <4>1, <4>2, AppendProperties
    <3>4. ASSUME NEW i \in DOMAIN r PROVE \E n \in C : r[i] = Reference(file, k, n)
      <4>1. CASE i = Len(f.refs) + 1
        BY <3>1, <3>3, <4>1
      <4>2. CASE i # Len(f.refs) + 1
        <5>1. i \in DOMAIN f.refs /\ r[i] = f.refs[i]
          BY <1>3, <3>3, <4>2
        <5> QED BY <1>8, <3>1, <5>1
      <4> QED BY <4>1, <4>2
    <3>5. Len(r) <= Cardinality(C)
      BY <1>3, <1>7, <1>8, <3>1, <3>3
    <3>6. ASSUME Cardinality(C) <= MaxRefs, NEW n \in C PROVE \E i \in DOMAIN r : r[i] = Reference(file, k, n)
      <4>1. CASE n = at
        <5>1. Len(f.refs) + 1 \in DOMAIN r
          BY <1>3, <3>3
        <5> QED BY <3>3, <4>1, <5>1
      <4>2. CASE n # at
        <5>1. n \in B /\ Cardinality(B) <= MaxRefs
          BY <1>7, <1>9, <3>1, <3>6, <4>2
        <5>2. PICK i \in DOMAIN f.refs : f.refs[i] = Reference(file, k, n)
          BY <1>8, <5>1
        <5>3. i \in DOMAIN r /\ r[i] = f.refs[i]
          BY <1>3, <3>3
        <5> QED BY <5>2, <5>3
      <4> QED BY <4>1, <4>2
    <3> QED BY <3>4, <3>5, <3>6
  <2> QED BY <2>1, <2>2, <2>3
<1>11. ReferencesNoted(file, k, at + 1, g)
  BY <1>10 DEF ReferencesNoted
<1> QED BY <1>6, <1>11

\* A line with an instruction, and the loads of the function it belongs to.
LEMMA LoadsKeep ==
  ASSUME NEW file \in Seq(SourceLines), NEW k, NEW at \in Nat, at \in Instructions(file, k),
         NEW f \in FunctionType, NEW g, Longer(f, g, Tokens(file, at)), LoadLonger(f, g, Tokens(file, at)),
         CodeWritten(file, k, at, f), LoadsWritten(file, k, at, f)
  PROVE  LoadsWritten(file, k, at + 1, g)
<1> PICK I, L : I = Instructions(file, k) /\ L = LoadLines(file, k)
  OBVIOUS
<1>1. /\ I \in SUBSET (1 .. Len(file)) /\ Len(file) \in Nat /\ at \in I /\ L \in SUBSET I
      /\ \A n : AddressOf(file, k, n) = Cardinality(Before(I, n))
  BY FileSets DEF LoadLines
<1>2. /\ f.code \in Seq(Words) /\ Len(f.code) \in Nat /\ f.constants \in Seq(Constants)
      /\ DOMAIN f.constants = 1 .. Len(f.constants)
  BY DEF FunctionType
<1>3. Len(f.code) = AddressOf(file, k, at)
  BY DEF CodeWritten
<1>4. ASSUME NEW n \in Before(L, at + 1)
      PROVE  LoadedBy(g.code[AddressOf(file, k, n) + 1], Tokens(file, n), g.constants)
  <2>1. n \in L /\ n \in I /\ n \in Nat /\ n < at + 1
    BY <1>1 DEF Before
  <2>2. CASE n = at
    <3>1. Loads(Tokens(file, at))
      BY <2>1, <2>2 DEF LoadLines
    <3> QED BY <1>3, <2>2, <3>1 DEF LoadLonger
  <2>3. CASE n # at
    <3>1. n < at
      BY <2>1, <2>3
    <3>2. AddressOf(file, k, n) < AddressOf(file, k, at) /\ AddressOf(file, k, n) \in Nat
      <4>1. Cardinality(Before(I, n)) < Cardinality(Before(I, at))
        BY <1>1, <2>1, <3>1, CountGrows
      <4>2. Cardinality(Before(I, n)) \in Nat
        BY <1>1, <2>1, CountNext
      <4> QED BY <1>1, <4>1, <4>2
    <3> PICK p : p = AddressOf(file, k, n) + 1
      OBVIOUS
    <3>3. p \in 1 .. Len(f.code)
      BY <1>2, <1>3, <3>2
    <3>4. g.code[p] = f.code[p]
      BY <3>3 DEF Longer
    <3>5. n \in Before(LoadLines(file, k), at)
      BY <2>1, <3>1 DEF Before
    <3>6. LoadedBy(f.code[p], Tokens(file, n), f.constants)
      BY <3>5 DEF LoadsWritten
    <3>7. \A i \in DOMAIN f.constants : i \in DOMAIN g.constants /\ g.constants[i] = f.constants[i]
      BY DEF LoadLonger
    <3>8. LoadedBy(f.code[p], Tokens(file, n), g.constants)
      BY <3>6, <3>7 DEF LoadedBy
    <3> QED BY <3>4, <3>8
  <2> QED BY <2>2, <2>3
<1>5. Len(g.constants) <= Half
  BY DEF LoadLonger
<1> QED BY <1>4, <1>5 DEF LoadsWritten

-----------------------------------------------------------------------------
(* The assembler takes a line.                                             *)

LEMMA LineTyped ==
  ASSUME NEW file \in Seq(SourceLines), NEW at \in 1 .. Len(file)
  PROVE  /\ file[at].function \in Texts /\ file[at].label \in Texts
         /\ Tokens(file, at) \in SomeTokens
<1>1. file[at] \in SourceLines
  OBVIOUS
<1> PICK l : l = file[at]
  OBVIOUS
<1>2. SourceTokens = TokenType
  BY DEF SourceTokens, TokenType, Texts
<1>3. l.function \in Texts /\ l.label \in Texts /\ l.tokens \in SomeTokens
  BY <1>1, <1>2 DEF SourceLines, Texts, SomeTokens
<1> PICK s : s = l.tokens
  OBVIOUS
<1>4. parse_tokens(s) \in SomeTokens
  <2>1. s \in Seq(TokenType) /\ Len(s) \in Nat
    BY <1>3 DEF SomeTokens
  <2>2. \A n \in 0 .. Len(s) : SubSeq(s, 1, n) \in Seq(TokenType)
    BY <2>1, SubSeqProperties
  <2>3. (IF Len(s) < 4 THEN Len(s) ELSE 4) \in 0 .. Len(s)
    BY <2>1
  <2> QED BY <2>2, <2>3 DEF parse_tokens, SomeTokens
<1> QED BY <1>3, <1>4 DEF Tokens

LEMMA HeadsNamed ==
  ASSUME NEW file \in Seq(SourceLines), NEW at \in 1 .. Len(file)
  PROVE  at \in Heads(file) <=> file[at].function # NoName
<1>1. at \in DOMAIN file
  OBVIOUS
<1> QED BY ONLY <1>1 DEF Heads, NoName

LEMMA BeginKeeps ==
  ASSUME NEW file \in Seq(SourceLines), NEW at \in 1 .. Len(file), NEW a, Assembled(file, at, a),
         file[at].function # NoName
  PROVE  Assembled(file, at + 1, process_line(a, file[at]))
<1> PICK c : c = a.current
  OBVIOUS
<1>1. a.functions \in Seq(FunctionType) /\ c \in Nat /\ c = Len(a.functions) /\ HeadsKnown(file, at, c)
  BY DEF Assembled
<1>2. at \in Heads(file)
  BY HeadsNamed
<1>3. /\ HeadsKnown(file, at + 1, c + 1)
      /\ \A k \in 1 .. c : at \notin BodyLines(file, k)
      /\ Before(BodyLines(file, c + 1), at + 1) = {}
  BY <1>1, <1>2, HeadLine
<1> PICK f : f = init_function(file[at].function)
  OBVIOUS
<1>4. at \in Nat /\ at + 1 \in Nat
  OBVIOUS
<1>5. f \in FunctionType /\ FunctionSound(file, c + 1, at + 1, f)
  BY <1>3, <1>4, LineTyped, NewFunctionSound
<1> PICK b : b = process_line(a, file[at])
  OBVIOUS
<1>6. b = [functions |-> Append(a.functions, f), current |-> c + 1]
  BY <1>1 DEF process_line, NoName
<1>7. /\ b.functions \in Seq(FunctionType) /\ Len(b.functions) = c + 1
      /\ b.functions[c + 1] = f /\ \A k \in 1 .. c : b.functions[k] = a.functions[k]
  BY <1>1, <1>5, <1>6, AppendProperties
<1>8. b \in [functions : Seq(FunctionType), current : Nat] /\ b.current = c + 1
  BY <1>1, <1>6, <1>7
<1>9. ASSUME NEW k \in 1 .. c + 1 PROVE FunctionSound(file, k, at + 1, b.functions[k])
  <2>1. CASE k = c + 1
    BY <1>5, <1>7, <2>1
  <2>2. CASE k # c + 1
    <3>1. k \in 1 .. c
      BY <1>1, <2>2
    <3>2. FunctionSound(file, k, at, a.functions[k])
      BY <3>1 DEF Assembled
    <3> QED BY <1>3, <1>4, <1>7, <3>1, <3>2, OtherFunctionSound
  <2> QED BY <2>1, <2>2
<1> QED BY <1>3, <1>7, <1>8, <1>9 DEF Assembled

\* The open function after a line that begins none.
LabelTaken(f, l) == IF l.label = "" THEN f ELSE asm_add_label(f, l.label, Len(f.code))
LineTaken(f, l) ==
  IF parse_tokens(l.tokens) = <<>> THEN LabelTaken(f, l)
  ELSE Emitted(LabelTaken(f, l), parse_tokens(l.tokens))

LEMMA OpenFunctionSound ==
  ASSUME NEW file \in Seq(SourceLines), NEW k, NEW at \in 1 .. Len(file), at \in BodyLines(file, k),
         NEW f \in FunctionType, FunctionSound(file, k, at, f),
         Tokens(file, at) # <<>> => Valid(Tokens(file, at)) /\ ~ConstantRefused(f, Tokens(file, at))
  PROVE  LineTaken(f, file[at]) \in FunctionType /\ FunctionSound(file, k, at + 1, LineTaken(f, file[at]))
<1> PICK e, g, t, name : /\ e = LabelTaken(f, file[at]) /\ g = LineTaken(f, file[at])
                         /\ t = Tokens(file, at) /\ name = file[at].label
  OBVIOUS
<1>1. /\ CodeWritten(file, k, at, f) /\ LabelsNoted(file, k, at, f) /\ ReferencesNoted(file, k, at, f)
      /\ LoadsWritten(file, k, at, f)
  BY DEF FunctionSound
<1>2. at \in Nat /\ name \in Texts /\ t \in SomeTokens
  BY LineTyped
<1>3. /\ e \in FunctionType /\ e.code = f.code /\ e.refs = f.refs /\ e.constants = f.constants
      /\ LabelsNoted(file, k, at + 1, e)
  <2>1. CASE name = NoName
    <3>1. e = f
      BY <2>1 DEF LabelTaken, NoName
    <3> QED BY <1>1, <1>2, <2>1, <3>1, NoLabel
  <2>2. CASE name # NoName
    <3>1. e = asm_add_label(f, name, Len(f.code))
      BY <2>2 DEF LabelTaken, NoName
    <3>2. Len(f.code) = AddressOf(file, k, at)
      BY <1>1 DEF CodeWritten
    <3>3. LabelsNoted(file, k, at + 1, e)
      BY <1>1, <1>2, <2>2, <3>1, <3>2, LabelKeeps
    <3>4. Len(f.code) \in Nat
      <4>1. f.code \in Seq(Words)
        BY DEF FunctionType
      <4> QED BY <4>1
    <3>5. e \in FunctionType /\ e.code = f.code /\ e.refs = f.refs /\ e.constants = f.constants
      <4>1. WithLabel(f, e, name, Len(f.code))
        BY <1>2, <3>1, <3>4, LabelAdded
      <4> QED BY <4>1 DEF WithLabel
    <3> QED BY <3>3, <3>5
  <2> QED BY <2>1, <2>2
<1>4. CodeWritten(file, k, at, e) /\ ReferencesNoted(file, k, at, e) /\ LoadsWritten(file, k, at, e)
  BY <1>1, <1>3 DEF CodeWritten, ReferencesNoted, LoadsWritten
<1>5. CASE t = <<>>
  <2>1. g = e
    BY <1>5 DEF LineTaken, Tokens
  <2>2. at \notin Instructions(file, k)
    BY <1>5 DEF Instructions
  <2> QED BY <1>2, <1>3, <1>4, <2>1, <2>2, NoInstruction DEF FunctionSound
<1>6. CASE t # <<>>
  <2>1. g = Emitted(e, t)
    BY <1>6 DEF LineTaken, Tokens
  <2>2. at \in Instructions(file, k)
    BY <1>6 DEF Instructions
  <2>3. Longer(e, g, t)
    BY <1>2, <1>3, <1>6, <2>1, EmittedLonger
  <2>4. CodeWritten(file, k, at + 1, g) /\ ReferencesNoted(file, k, at + 1, g)
    BY <1>2, <1>3, <1>4, <2>2, <2>3, InstructionKeeps
  <2>5. g \in FunctionType /\ g.labels = e.labels
    BY <2>3 DEF Longer
  <2>6. LabelsNoted(file, k, at + 1, g)
    BY <1>3, <2>5 DEF LabelsNoted
  <2>7. ~ConstantRefused(e, t)
    BY <1>3, <1>6 DEF ConstantRefused, asm_find_constant
  <2>8. LoadLonger(e, g, t)
    BY <1>2, <1>3, <1>4, <1>6, <2>1, <2>7, EmittedLoads DEF LoadsWritten
  <2>9. LoadsWritten(file, k, at + 1, g)
    BY <1>2, <1>3, <1>4, <2>2, <2>3, <2>8, LoadsKeep
  <2> QED BY <2>4, <2>5, <2>6, <2>9 DEF FunctionSound
<1> QED BY <1>5, <1>6

\* b is a with g for its function c.
WithFunction(a, b, c, g) ==
  /\ b \in [functions : Seq(FunctionType), current : Nat]
  /\ b.current = a.current
  /\ Len(b.functions) = Len(a.functions)
  /\ b.functions[c] = g
  /\ \A k \in 1 .. Len(a.functions) : k # c => b.functions[k] = a.functions[k]

LEMMA FunctionSet ==
  ASSUME NEW a \in [functions : Seq(FunctionType), current : Nat],
         NEW c \in 1 .. Len(a.functions), NEW g \in FunctionType
  PROVE  WithFunction(a, [a EXCEPT !.functions = [a.functions EXCEPT ![c] = g]], c, g)
<1> PICK fs : fs = [a.functions EXCEPT ![c] = g]
  OBVIOUS
<1>1. a.functions \in Seq(FunctionType)
  OBVIOUS
<1>2. /\ fs \in Seq(FunctionType) /\ Len(fs) = Len(a.functions)
      /\ \A k \in 1 .. Len(a.functions) : fs[k] = IF k = c THEN g ELSE a.functions[k]
  BY <1>1, ExceptSeq
<1> PICK b : b = [a EXCEPT !.functions = fs]
  OBVIOUS
<1>3. b.functions = fs /\ b.current = a.current /\ b \in [functions : Seq(FunctionType), current : Nat]
  BY <1>2
<1>4. WithFunction(a, b, c, g)
  BY <1>2, <1>3 DEF WithFunction
<1> QED BY <1>4

LEMMA OrdinaryKeeps ==
  ASSUME NEW file \in Seq(SourceLines), NEW at \in 1 .. Len(file), NEW a, Assembled(file, at, a),
         file[at].function = NoName, ~Refused(a, file[at])
  PROVE  Assembled(file, at + 1, process_line(a, file[at]))
<1> PICK c, l, t, name : c = a.current /\ l = file[at] /\ t = Tokens(file, at) /\ name = l.label
  OBVIOUS
<1>1. /\ a \in [functions : Seq(FunctionType), current : Nat] /\ a.functions \in Seq(FunctionType)
      /\ c \in Nat /\ c = Len(a.functions) /\ HeadsKnown(file, at, c)
  BY DEF Assembled
<1>2. at \notin Heads(file) /\ at \in Nat /\ at + 1 \in Nat /\ t \in SomeTokens /\ name \in Texts
  BY HeadsNamed, LineTyped
<1>3. HeadsKnown(file, at + 1, c) /\ \A k \in 1 .. c : at \in BodyLines(file, k) <=> k = c
  BY <1>1, <1>2, OrdinaryLine
<1>4. /\ name # NoName => ~LabelRefused(a)
      /\ t # <<>> => Valid(t)
      /\ t # <<>> /\ c # 0 => ~ConstantRefused(a.functions[c], t)
  BY DEF Refused, InstructionRefused, NoName, Tokens, Current
<1> PICK a1, b : a1 = asm_label(a, name) /\ b = process_line(a, l)
  OBVIOUS
<1>5. b = asm_instruction(a1, t)
  BY DEF process_line, NoName, Tokens
<1>6. CASE c = 0
  <2>1. name = NoName
    BY <1>4, <1>6 DEF LabelRefused
  <2>2. a1 = a
    BY <2>1 DEF asm_label, NoName
  <2>3. b = a
    BY <1>5, <1>6, <2>2 DEF asm_instruction
  <2>4. 1 .. c = {}
    BY <1>6
  <2> QED BY <1>1, <1>3, <2>3, <2>4 DEF Assembled
<1>7. CASE c # 0
  <2>1. c \in 1 .. Len(a.functions)
    BY <1>1, <1>7
  <2> PICK f, e, g : f = a.functions[c] /\ e = LabelTaken(f, l) /\ g = LineTaken(f, l)
    OBVIOUS
  <2>2. f \in FunctionType /\ FunctionSound(file, c, at, f)
    BY <1>1, <2>1 DEF Assembled
  <2>3. g \in FunctionType /\ FunctionSound(file, c, at + 1, g)
    <3>1. at \in BodyLines(file, c)
      BY <1>1, <1>3, <2>1
    <3>2. t # <<>> => Valid(t) /\ ~ConstantRefused(f, t)
      BY <1>4, <1>7
    <3> QED BY <2>2, <3>1, <3>2, OpenFunctionSound
  <2>4. WithFunction(a, a1, c, e) /\ e \in FunctionType
    <3>1. CASE name = NoName
      <4>1. a1 = a /\ e = f
        BY <3>1 DEF asm_label, LabelTaken, NoName
      <4> QED BY <1>1, <2>2, <4>1 DEF WithFunction
    <3>2. CASE name # NoName
      <4>1. e = asm_add_label(f, name, Len(f.code))
        BY <3>2 DEF LabelTaken, NoName
      <4>2. Len(f.code) \in Nat
        <5>1. f.code \in Seq(Words)
          BY <2>2 DEF FunctionType
        <5> QED BY <5>1
      <4>3. e \in FunctionType
        <5>1. WithLabel(f, e, name, Len(f.code))
          BY <1>2, <2>2, <4>1, <4>2, LabelAdded
        <5> QED BY <5>1 DEF WithLabel
      <4>4. a1 = [a EXCEPT !.functions = [a.functions EXCEPT ![c] = e]]
        BY <3>2, <4>1 DEF asm_label, NoName
      <4> QED BY <1>1, <2>1, <4>3, <4>4, FunctionSet
    <3> QED BY <3>1, <3>2
  <2>5. WithFunction(a, b, c, g)
    <3>1. /\ a1 \in [functions : Seq(FunctionType), current : Nat] /\ a1.current = c
          /\ a1.functions[c] = e /\ Len(a1.functions) = Len(a.functions)
      BY <1>1, <2>4 DEF WithFunction
    <3>2. CASE t = <<>>
      <4>1. b = a1 /\ g = e
        BY <1>5, <3>2 DEF asm_instruction, LineTaken, Tokens
      <4> QED BY <2>4, <4>1
    <3>3. CASE t # <<>>
      <4>1. g = Emitted(e, t)
        BY <3>3 DEF LineTaken, Tokens
      <4>2. b = [a1 EXCEPT !.functions = [a1.functions EXCEPT ![c] = g]]
        BY <1>5, <1>7, <3>1, <3>3, <4>1 DEF asm_instruction
      <4>3. WithFunction(a1, b, c, g)
        BY <2>1, <2>3, <3>1, <4>2, FunctionSet
      <4> QED BY <2>4, <3>1, <4>3 DEF WithFunction
    <3> QED BY <3>2, <3>3
  <2>6. b \in [functions : Seq(FunctionType), current : Nat] /\ b.current = c /\ c = Len(b.functions)
    BY <1>1, <2>5 DEF WithFunction
  <2>7. ASSUME NEW k \in 1 .. c PROVE FunctionSound(file, k, at + 1, b.functions[k])
    <3>1. CASE k = c
      BY <2>3, <2>5, <3>1 DEF WithFunction
    <3>2. CASE k # c
      <4>1. FunctionSound(file, k, at, a.functions[k]) /\ at \notin BodyLines(file, k)
        BY <1>3, <3>2 DEF Assembled
      <4>2. b.functions[k] = a.functions[k]
        BY <1>1, <2>5, <3>2 DEF WithFunction
      <4> QED BY <1>2, <4>1, <4>2, OtherFunctionSound
    <3> QED BY <3>1, <3>2
  <2> QED BY <1>3, <2>6, <2>7 DEF Assembled
<1> QED BY <1>6, <1>7

\* Whatever the line is.
LEMMA LineKeeps ==
  ASSUME NEW file \in Seq(SourceLines), NEW at \in 1 .. Len(file), NEW a, Assembled(file, at, a),
         ~Refused(a, file[at])
  PROVE  Assembled(file, at + 1, process_line(a, file[at]))
BY BeginKeeps, OrdinaryKeeps

-----------------------------------------------------------------------------
(* The second pass.                                                        *)

RefIndex(f, i) == SelectInSeq(f.refs, LAMBDA r : r.addr = i - 1)

LEMMA RefFound ==
  ASSUME NEW f \in FunctionType, NEW i, NEW j \in DOMAIN f.refs, f.refs[j].addr = i - 1
  PROVE  RefIndex(f, i) \in DOMAIN f.refs /\ f.refs[RefIndex(f, i)].addr = i - 1 /\ RefIndex(f, i) # 0
<1> DEFINE I == {l \in 1 .. Len(f.refs) : f.refs[l].addr = i - 1}
<1>1. RefIndex(f, i) = IF I # {} THEN Min(I) ELSE 0
  BY DEF RefIndex, SelectInSeq
<1>2. DOMAIN f.refs = 1 .. Len(f.refs)
  <2>1. f.refs \in Seq(References)
    BY DEF FunctionType
  <2> QED BY <2>1
<1>3. I \in SUBSET Nat /\ j \in I /\ \A l \in I : l \in DOMAIN f.refs /\ f.refs[l].addr = i - 1 /\ l # 0
  BY <1>2
<1> HIDE DEF I
<1>4. Min(I) \in I
  BY <1>3, LeastNumber
<1> QED BY <1>1, <1>3, <1>4

LEMMA RefThere ==
  ASSUME NEW f \in FunctionType, NEW i \in Int, RefIndex(f, i) # 0
  PROVE  RefIndex(f, i) \in DOMAIN f.refs /\ f.refs[RefIndex(f, i)].addr + 1 = i
<1> DEFINE I == {l \in 1 .. Len(f.refs) : f.refs[l].addr = i - 1}
<1>1. RefIndex(f, i) = IF I # {} THEN Min(I) ELSE 0
  BY DEF RefIndex, SelectInSeq
<1>2. f.refs \in Seq(References) /\ DOMAIN f.refs = 1 .. Len(f.refs)
  BY DEF FunctionType
<1>3. I \in SUBSET Nat /\ \A l \in I : l \in DOMAIN f.refs /\ f.refs[l].addr = i - 1
  BY <1>2
<1> HIDE DEF I
<1> PICK at : at = RefIndex(f, i)
  OBVIOUS
<1>4. at \in I
  BY <1>1, <1>3, LeastNumber
<1>5. at \in DOMAIN f.refs /\ f.refs[at].addr = i - 1
  BY <1>3, <1>4
<1>6. f.refs[at].addr + 1 = i
  BY <1>5
<1> QED BY <1>5, <1>6

\* Of two lines of instructions, each has its own address.
LEMMA AddressesDiffer ==
  ASSUME NEW file \in Seq(SourceLines), NEW k, NEW m \in Instructions(file, k),
         NEW n \in Instructions(file, k), AddressOf(file, k, m) = AddressOf(file, k, n)
  PROVE  m = n
<1> PICK I : I = Instructions(file, k)
  OBVIOUS
<1>1. /\ I \in SUBSET (1 .. Len(file)) /\ Len(file) \in Nat /\ m \in I /\ n \in I
      /\ Cardinality(Before(I, m)) = Cardinality(Before(I, n))
  BY FileSets
<1>2. m \in Nat /\ n \in Nat
  BY <1>1
<1>3. Cardinality(Before(I, m)) \in Nat /\ Cardinality(Before(I, n)) \in Nat
  BY <1>1, <1>2, CountNext
<1>4. ~(m < n)
  <2> SUFFICES ASSUME m < n PROVE FALSE
    OBVIOUS
  <2>1. Cardinality(Before(I, m)) < Cardinality(Before(I, n))
    BY <1>1, <1>2, CountGrows
  <2> QED BY <1>1, <1>3, <2>1
<1>5. ~(n < m)
  <2> SUFFICES ASSUME n < m PROVE FALSE
    OBVIOUS
  <2>1. Cardinality(Before(I, n)) < Cardinality(Before(I, m))
    BY <1>1, <1>2, CountGrows
  <2> QED BY <1>1, <1>3, <2>1
<1> QED BY <1>2, <1>4, <1>5

\* The label a reference names is where the table has it.
LEMMA LabelResolved ==
  ASSUME NEW file \in Seq(SourceLines), NEW k, NEW f \in FunctionType,
         LabelsNoted(file, k, Len(file) + 1, f), NEW name, asm_find_label(f, name) >= 0
  PROVE  asm_find_label(f, name) = AddressOf(file, k, Max(Labelled(file, k, name)))
<1> PICK i : i = LabelIndex(f, name)
  OBVIOUS
<1>1. asm_find_label(f, name) = IF i = 0 THEN -1 ELSE f.labels[i].address
  BY DEF asm_find_label, LabelIndex
<1>2. i # 0
  BY <1>1
<1>3. i \in DOMAIN f.labels /\ f.labels[i].name = name
  BY <1>2, LabelFound
<1>4. f.labels[i].address =
        AddressOf(file, k, Max(Before(Labelled(file, k, f.labels[i].name), Len(file) + 1)))
  BY <1>3 DEF LabelsNoted
<1> PICK S : S = Labelled(file, k, name)
  OBVIOUS
<1>5. Before(S, Len(file) + 1) = S
  <2>1. S \in SUBSET (1 .. Len(file)) /\ Len(file) \in Nat
    BY FileSets DEF Labelled
  <2> QED BY <2>1, BeforeAll
<1> QED BY <1>1, <1>2, <1>3, <1>4, <1>5

\* A reference is where a jump is, and no two of them are together.
LEMMA ReferenceAt ==
  ASSUME NEW file \in Seq(SourceLines), NEW k, NEW f \in FunctionType,
         ReferencesNoted(file, k, Len(file) + 1, f), NEW n \in Instructions(file, k),
         NEW i \in DOMAIN f.refs, f.refs[i].addr = AddressOf(file, k, n)
  PROVE  n \in JumpLines(file, k) /\ f.refs[i] = Reference(file, k, n)
<1>1. JumpLines(file, k) \in SUBSET (1 .. Len(file)) /\ Len(file) \in Nat /\ JumpLines(file, k) \in SUBSET Instructions(file, k)
  BY FileSets DEF JumpLines
<1>2. Before(JumpLines(file, k), Len(file) + 1) = JumpLines(file, k)
  BY <1>1, BeforeAll
<1>3. PICK m \in JumpLines(file, k) : f.refs[i] = Reference(file, k, m)
  BY <1>2 DEF ReferencesNoted
<1>4. AddressOf(file, k, m) = AddressOf(file, k, n)
  BY <1>3 DEF Reference
<1>5. m = n
  BY <1>1, <1>4, AddressesDiffer
<1> QED BY <1>3, <1>5

\* The function with its jumps patched: as many words, and those of other lines as they were.
LEMMA PatchedFunction ==
  ASSUME NEW f \in FunctionType
  PROVE  LET g == resolve_function_labels(f)
         IN  /\ g \in FunctionType /\ Len(g.code) = Len(f.code) /\ g.constants = f.constants
             /\ g.is_main = f.is_main
             /\ \A p \in 1 .. Len(f.code) :
                  g.code[p] = IF RefIndex(f, p) = 0 THEN f.code[p] ELSE Patched(f, f.refs[RefIndex(f, p)])
<1> PICK g : g = resolve_function_labels(f)
  OBVIOUS
<1>1. /\ f.code \in Seq(Words) /\ Len(f.code) \in Nat /\ DOMAIN f.code = 1 .. Len(f.code)
      /\ f.refs \in Seq(References) /\ DOMAIN f.refs = 1 .. Len(f.refs)
  BY DEF FunctionType
<1> DEFINE Word(i) == IF RefIndex(f, i) = 0 THEN f.code[i] ELSE Patched(f, f.refs[RefIndex(f, i)])
<1>2. g = [f EXCEPT !.code = [i \in DOMAIN f.code |-> Word(i)]]
  BY DEF resolve_function_labels, RefIndex
<1>3. ASSUME NEW i \in 1 .. Len(f.code) PROVE Word(i) \in Words
  <2>1. CASE RefIndex(f, i) = 0
    BY <1>1, <2>1
  <2>2. CASE RefIndex(f, i) # 0
    <3> PICK ref : ref = f.refs[RefIndex(f, i)]
      OBVIOUS
    <3>1. ref \in References /\ ref.addr + 1 = i
      BY <1>1, <2>2, RefThere
    <3>2. Offset(f, ref) \in Int
      <4>1. asm_find_label(f, ref.label) \in Int
        <5> PICK l : l = LabelIndex(f, ref.label)
          OBVIOUS
        <5>1. asm_find_label(f, ref.label) = IF l = 0 THEN -1 ELSE f.labels[l].address
          BY DEF asm_find_label, LabelIndex
        <5>2. l # 0 => f.labels[l] \in LabelEntries
          <6>1. f.labels \in Seq(LabelEntries)
            BY DEF FunctionType
          <6>2. l # 0 => l \in DOMAIN f.labels
            BY LabelFound
          <6> QED BY <6>1, <6>2
        <5>3. \A e \in LabelEntries : e.address \in Int
          BY DEF LabelEntries
        <5> QED BY <5>1, <5>2, <5>3
      <4> QED BY <3>1, <4>1 DEF Offset, References
    <3>3. f.code[i] \in Words
      BY <1>1
    <3>4. Patched(f, ref) \in Words
      <4>1. "JMP" \in Ops /\ "IFLT" \in Ops /\ 0 \in Byte
        BY BytesOf DEF Ops
      <4>2. INS_AB("JMP", 0, Offset(f, ref)) \in Words
        BY <3>2, <4>1, WordsTyped
      <4>3. INS_ABC("IFLT", f.code[i].a, f.code[i].b, Offset(f, ref) % ByteSize) \in Words
        <5>1. Offset(f, ref) % ByteSize \in Byte
          BY <3>2, WideOperand
        <5>2. f.code[i].a \in Byte /\ f.code[i].b \in Byte
          BY <3>3 DEF Words
        <5> QED BY <4>1, <5>1, <5>2, WordsTyped
      <4> QED BY <3>1, <4>2, <4>3 DEF Patched
    <3> QED BY <2>2, <3>4
  <2> QED BY <2>1, <2>2
<1> HIDE DEF Word
<1> PICK code : code = [i \in DOMAIN f.code |-> Word(i)]
  OBVIOUS
<1>4. code \in Seq(Words) /\ Len(code) = Len(f.code) /\ \A i \in 1 .. Len(f.code) : code[i] = Word(i)
  BY <1>1, <1>3
<1>5. g \in FunctionType /\ g.code = code /\ g.constants = f.constants /\ g.is_main = f.is_main
  <2>1. g = [f EXCEPT !.code = code]
    BY <1>2
  <2> QED BY <1>4, <2>1 DEF FunctionType
<1> QED BY <1>4, <1>5 DEF Word

\* A line's word is one of its function's.
LEMMA PlaceOfLine ==
  ASSUME NEW file \in Seq(SourceLines), NEW k, NEW n \in Instructions(file, k)
  PROVE  AddressOf(file, k, n) \in Nat /\ AddressOf(file, k, n) + 1 \in 1 .. Cardinality(Instructions(file, k))
<1> PICK I : I = Instructions(file, k)
  OBVIOUS
<1>1. /\ I \in SUBSET (1 .. Len(file)) /\ Len(file) \in Nat /\ n \in I /\ n \in Nat
      /\ AddressOf(file, k, n) = Cardinality(Before(I, n))
  BY FileSets
<1>2. Cardinality(Before(I, n)) < Cardinality(Before(I, Len(file) + 1))
  <2>1. n < Len(file) + 1 /\ Len(file) + 1 \in Nat
    BY <1>1
  <2> QED BY <1>1, <2>1, CountGrows
<1>3. Before(I, Len(file) + 1) = I
  BY <1>1, BeforeAll
<1>4. Cardinality(Before(I, n)) \in Nat /\ Cardinality(I) \in Nat
  BY <1>1, CountNext, Counted
<1> QED BY <1>1, <1>2, <1>3, <1>4

LEMMA FunctionResolved ==
  ASSUME NEW file \in Seq(SourceLines), NEW k, NEW f \in FunctionType,
         FunctionSound(file, k, Len(file) + 1, f),
         \A i \in DOMAIN f.refs : Resolvable(f, f.refs[i])
  PROVE  FunctionLands(file, k, resolve_function_labels(f))
<1> PICK g : g = resolve_function_labels(f)
  OBVIOUS
<1> PICK I, J : I = Instructions(file, k) /\ J = JumpLines(file, k)
  OBVIOUS
<1>1. /\ I \in SUBSET (1 .. Len(file)) /\ J \in SUBSET (1 .. Len(file)) /\ Len(file) \in Nat
      /\ \A n : AddressOf(file, k, n) = Cardinality(Before(I, n))
  BY FileSets
<1>2. Before(I, Len(file) + 1) = I /\ Before(J, Len(file) + 1) = J
  BY <1>1, BeforeAll
<1>3. /\ f.code \in Seq(Words) /\ Len(f.code) \in Nat /\ DOMAIN f.code = 1 .. Len(f.code)
  BY DEF FunctionType
<1>4. Len(f.code) = Cardinality(I)
  BY <1>1, <1>2 DEF FunctionSound, CodeWritten
<1>5. /\ Len(g.code) = Len(f.code)
      /\ \A p \in 1 .. Len(f.code) :
           g.code[p] = IF RefIndex(f, p) = 0 THEN f.code[p] ELSE Patched(f, f.refs[RefIndex(f, p)])
  BY PatchedFunction
<1>6. ASSUME Cardinality(J) <= MaxRefs, NEW n \in J
      PROVE  Destination(AddressOf(file, k, n), g.code[AddressOf(file, k, n) + 1])
               = AddressOf(file, k, Max(Labelled(file, k, Target(Tokens(file, n)).text)))
  <2> PICK p, name, op : /\ p = AddressOf(file, k, n) /\ name = Target(Tokens(file, n)).text
                         /\ op = Tokens(file, n)[1].text
    OBVIOUS
  <2>1. n \in I /\ n \in Nat /\ op \in {"JMP", "IFLT"}
    BY <1>1 DEF JumpLines, ByLabel
  <2>2. p \in Nat /\ p < Len(f.code)
    BY <1>3, <1>4, <2>1, PlaceOfLine
  <2>3. PICK j \in DOMAIN f.refs : f.refs[j] = Reference(file, k, n)
    BY <1>2, <1>6 DEF FunctionSound, ReferencesNoted
  <2>4. f.refs[j].addr = (p + 1) - 1
    BY <2>2, <2>3 DEF Reference
  <2> PICK i : i = RefIndex(f, p + 1)
    OBVIOUS
  <2>5. i \in DOMAIN f.refs /\ f.refs[i].addr = (p + 1) - 1 /\ i # 0
    BY <2>4, RefFound
  <2>6. f.refs[i] = Reference(file, k, n)
    <3>1. f.refs[i].addr = AddressOf(file, k, n)
      BY <2>2, <2>5
    <3> QED BY <2>1, <2>5, <3>1, ReferenceAt DEF FunctionSound
  <2> PICK ref : ref = f.refs[i]
    OBVIOUS
  <2>7. ref.label = name /\ ref.addr = p /\ ref.isJump = (op = "JMP")
    BY <2>6 DEF Reference
  <2>8. Resolvable(f, ref)
    BY <2>5
  <2> PICK off : off = Offset(f, ref)
    OBVIOUS
  <2>9. asm_find_label(f, name) = AddressOf(file, k, Max(Labelled(file, k, name)))
    BY <2>7, <2>8, LabelResolved DEF Resolvable, FunctionSound
  <2>10. off = AddressOf(file, k, Max(Labelled(file, k, name))) - (p + 1)
    BY <2>7, <2>9 DEF Offset
  <2>11. AddressOf(file, k, Max(Labelled(file, k, name))) \in Nat
    <3>1. Before(I, Max(Labelled(file, k, name))) \in SUBSET (1 .. Len(file))
      BY <1>1 DEF Before
    <3> QED BY <1>1, <3>1, Counted
  <2> PICK word : word = g.code[p + 1]
    OBVIOUS
  <2>12. word = Patched(f, ref)
    <3>1. p + 1 \in 1 .. Len(f.code)
      BY <1>3, <2>2
    <3> QED BY <1>5, <2>5, <3>1
  <2>13. Destination(p, word) = p + 1 + off
    <3>1. CASE op = "JMP"
      <4>1. off \in Int16
        BY <2>7, <2>8, <3>1 DEF Resolvable
      <4>2. word = INS_AB("JMP", 0, off)
        BY <2>7, <2>12, <3>1 DEF Patched
      <4>3. word.op = "JMP"
        BY <4>2, WordsTyped
      <4>4. BC(word) = off
        BY <4>1, <4>2, WideReads
      <4> QED BY <4>3, <4>4 DEF Destination
    <3>2. CASE op = "IFLT"
      <4>1. off \in Int8
        BY <2>7, <2>8, <3>2 DEF Resolvable
      <4> PICK a, b : word = INS_ABC("IFLT", a, b, off % ByteSize)
        BY <2>7, <2>12, <3>2 DEF Patched
      <4>2. word.op = "IFLT"
        BY WordsTyped
      <4>3. C8(word) = off
        BY <4>1, BranchReads
      <4> QED BY <4>2, <4>3 DEF Destination
    <3> QED BY <2>1, <3>1, <3>2
  <2>14. Destination(p, word) = AddressOf(file, k, Max(Labelled(file, k, name)))
    BY <2>2, <2>10, <2>11, <2>13
  <2> QED BY <2>14
<1> QED BY <1>4, <1>5, <1>6 DEF FunctionLands

\* The words of the lines that load are not patched.
LEMMA LoadsResolved ==
  ASSUME NEW file \in Seq(SourceLines), NEW k, NEW f \in FunctionType,
         FunctionSound(file, k, Len(file) + 1, f)
  PROVE  LoadsWritten(file, k, Len(file) + 1, resolve_function_labels(f))
<1> PICK g, I, L : g = resolve_function_labels(f) /\ I = Instructions(file, k) /\ L = LoadLines(file, k)
  OBVIOUS
<1>1. /\ I \in SUBSET (1 .. Len(file)) /\ Len(file) \in Nat /\ L \in SUBSET I
      /\ \A n : AddressOf(file, k, n) = Cardinality(Before(I, n))
  BY FileSets DEF LoadLines
<1>2. /\ g.constants = f.constants /\ Len(f.code) \in Nat
      /\ \A p \in 1 .. Len(f.code) :
           g.code[p] = IF RefIndex(f, p) = 0 THEN f.code[p] ELSE Patched(f, f.refs[RefIndex(f, p)])
  <2>1. f.code \in Seq(Words)
    BY DEF FunctionType
  <2> QED BY <2>1, PatchedFunction
<1>3. Len(f.code) = Cardinality(I)
  <2>1. Before(I, Len(file) + 1) = I
    BY <1>1, BeforeAll
  <2> QED BY <1>1, <2>1 DEF FunctionSound, CodeWritten
<1>4. ASSUME NEW n \in Before(L, Len(file) + 1)
      PROVE  LoadedBy(g.code[AddressOf(file, k, n) + 1], Tokens(file, n), g.constants)
  <2>1. n \in L /\ n \in I /\ n \in Nat /\ n < Len(file) + 1
    BY <1>1 DEF Before
  <2> PICK p : p = AddressOf(file, k, n) + 1
    OBVIOUS
  <2>2. p \in 1 .. Len(f.code) /\ AddressOf(file, k, n) \in Nat
    BY <1>1, <1>3, <2>1, PlaceOfLine
  <2>3. RefIndex(f, p) = 0
    <3> SUFFICES ASSUME RefIndex(f, p) # 0 PROVE FALSE
      OBVIOUS
    <3> PICK i : i = RefIndex(f, p)
      OBVIOUS
    <3>1. i \in DOMAIN f.refs /\ f.refs[i].addr + 1 = p
      BY <2>2, RefThere
    <3>2. f.refs[i].addr \in Nat
      <4>1. f.refs \in Seq(References)
        BY DEF FunctionType
      <4>2. f.refs[i] \in References
        BY <3>1, <4>1
      <4> QED BY <4>2 DEF References
    <3>3. f.refs[i].addr = AddressOf(file, k, n)
      BY <2>2, <3>1, <3>2
    <3>4. n \in JumpLines(file, k)
      BY <2>1, <3>1, <3>3, ReferenceAt DEF FunctionSound
    <3>5. ByLabel(Tokens(file, n)) /\ Loads(Tokens(file, n))
      BY <2>1, <3>4 DEF JumpLines, LoadLines
    <3> QED BY <3>5 DEF ByLabel, Loads
  <2>4. g.code[p] = f.code[p]
    BY <1>2, <2>2, <2>3
  <2>5. LoadedBy(f.code[p], Tokens(file, n), f.constants)
    BY <1>4 DEF FunctionSound, LoadsWritten
  <2> QED BY <1>2, <2>4, <2>5
<1>5. Len(g.constants) <= Half
  BY <1>2 DEF FunctionSound, LoadsWritten
<1> QED BY <1>4, <1>5 DEF LoadsWritten

-----------------------------------------------------------------------------
(* The assembled file runs.                                                *)

AssemblerType == [functions : Seq(FunctionType), current : Nat]

Compiled(file, a) ==
  /\ a \in AssemblerType
  /\ \A k \in DOMAIN a.functions :
       FunctionLands(file, k, a.functions[k]) /\ LoadsWritten(file, k, Len(file) + 1, a.functions[k])

RegisterNumbers == 0 .. StackSize - 1
Frames == [func : 0 .. Len(program.funcs), pc : Int, base : Nat]
Fresh == here = Start /\ calls = <<>> /\ DOMAIN stack = RegisterNumbers
Running ==
  /\ asm_get_main_function(asm) # 0
  /\ program = [entry |-> asm.functions[asm_get_main_function(asm)], funcs |-> CalledFunctions(asm)]
  /\ DOMAIN stack = RegisterNumbers
  /\ here \in Frames
  /\ calls \in Seq(Frames)

LEMMA MainFound ==
  ASSUME NEW a \in AssemblerType, asm_get_main_function(a) # 0
  PROVE  /\ asm_get_main_function(a) \in DOMAIN a.functions
         /\ asm_get_main_function(a) = Min({k \in DOMAIN a.functions : a.functions[k].is_main})
<1> DEFINE I == {k \in DOMAIN a.functions : a.functions[k].is_main}
<1>1. DOMAIN a.functions = 1 .. Len(a.functions)
  BY DEF AssemblerType
<1>2. asm_get_main_function(a) = IF I # {} THEN Min(I) ELSE 0
  BY <1>1 DEF asm_get_main_function, SelectInSeq
<1>3. I \in SUBSET Nat /\ I \in SUBSET DOMAIN a.functions
  BY <1>1
<1> HIDE DEF I
<1>4. asm_get_main_function(a) = Min(I) /\ Min(I) \in I
  BY <1>2, <1>3, LeastNumber
<1> QED BY <1>3, <1>4 DEF I

\* The i-th function that CALLF numbers.
NthCalled(a, i) == CHOOSE k \in Called(a) : Cardinality({j \in Called(a) : j <= k}) = i

LEMMA CalledFound ==
  ASSUME NEW a \in AssemblerType
  PROVE  /\ Len(CalledFunctions(a)) \in Nat
         /\ \A i \in 1 .. Len(CalledFunctions(a)) :
              /\ NthCalled(a, i) \in DOMAIN a.functions
              /\ CalledFunctions(a)[i] = a.functions[NthCalled(a, i)]
<1> PICK S, l : S = Called(a) /\ l = Len(a.functions)
  OBVIOUS
<1>1. l \in Nat /\ DOMAIN a.functions = 1 .. l
  BY DEF AssemblerType
<1>2. S \in SUBSET (1 .. l) /\ S \in SUBSET Nat
  BY <1>1 DEF Called
<1>3. Cardinality(S) \in Nat
  BY <1>1, <1>2, Counted
<1>4. CalledFunctions(a) = [i \in 1 .. Cardinality(S) |-> a.functions[NthCalled(a, i)]]
  BY DEF CalledFunctions, NthCalled
<1> HIDE DEF NthCalled
<1>5. Len(CalledFunctions(a)) = Cardinality(S)
  BY <1>3, <1>4
<1>6. ASSUME NEW i \in 1 .. Cardinality(S) PROVE NthCalled(a, i) \in S
  <2>1. i - 1 \in Nat /\ i - 1 < Cardinality(S)
    BY <1>3
  <2>2. PICK n \in S : Cardinality(Before(S, n)) = i - 1
    BY <1>1, <1>2, <2>1, PlaceTaken
  <2>3. Cardinality(Before(S, n + 1)) = i
    <3>1. n \in Nat
      BY <1>2
    <3>2. Cardinality(Before(S, n + 1)) = Cardinality(Before(S, n)) + 1
      BY <1>1, <1>2, <3>1, CountNext
    <3> QED BY <2>2, <3>2
  <2>4. {j \in S : j <= n} = Before(S, n + 1)
    <3>1. \A j \in S : j <= n <=> j < n + 1
      BY <1>2
    <3> QED BY <3>1 DEF Before
  <2>5. \E k \in S : Cardinality({j \in S : j <= k}) = i
    BY <2>3, <2>4
  <2> QED BY <2>5 DEF NthCalled
<1>7. \A i \in 1 .. Cardinality(S) : CalledFunctions(a)[i] = a.functions[NthCalled(a, i)]
  BY <1>4
<1> QED BY <1>1, <1>2, <1>3, <1>5, <1>6, <1>7

\* What runs is the function of the source that the frame stands for.
LEMMA RunsSource ==
  ASSUME asm \in AssemblerType, Running
  PROVE  /\ SourceFunction \in DOMAIN asm.functions
         /\ Proto(here.func) = asm.functions[SourceFunction]
         /\ Len(program.funcs) \in Nat
<1> PICK main, mains, f : /\ main = asm_get_main_function(asm) /\ f = here.func
                          /\ mains = {k \in DOMAIN asm.functions : asm.functions[k].is_main}
  OBVIOUS
<1>1. /\ program.entry = asm.functions[main] /\ program.funcs = CalledFunctions(asm)
      /\ f \in 0 .. Len(program.funcs) /\ main # 0
  BY DEF Running, Frames
<1>2. Len(program.funcs) \in Nat
  BY <1>1, CalledFound
<1>3. CASE f = 0
  <2>1. main \in DOMAIN asm.functions /\ main = Min(mains)
    BY <1>1, MainFound
  <2>2. SourceFunction = main
    BY <1>3, <2>1 DEF SourceFunction
  <2> QED BY <1>1, <1>2, <1>3, <2>1, <2>2 DEF Proto
<1>4. CASE f # 0
  <2>1. f \in 1 .. Len(CalledFunctions(asm))
    BY <1>1, <1>2, <1>4
  <2>2. NthCalled(asm, f) \in DOMAIN asm.functions /\ CalledFunctions(asm)[f] = asm.functions[NthCalled(asm, f)]
    BY <2>1, CalledFound
  <2>3. DOMAIN asm.functions \ mains = Called(asm)
    BY DEF Called
  <2>4. SourceFunction = NthCalled(asm, f)
    BY <1>4, <2>3 DEF SourceFunction, NthCalled
  <2> QED BY <1>1, <1>2, <1>4, <2>2, <2>4 DEF Proto
<1> QED BY <1>3, <1>4

LEMMA WordRuns ==
  ASSUME asm \in AssemblerType, Running, InCode
  PROVE  ins \in Words /\ here.pc + 1 \in DOMAIN Code /\ Code \in Seq(Words)
<1>1. asm.functions[SourceFunction] \in FunctionType
  BY RunsSource DEF AssemblerType
<1>2. Code \in Seq(Words)
  BY <1>1, RunsSource DEF Code, FunctionType
<1>3. here.pc + 1 \in 1 .. Len(Code)
  BY <1>2 DEF InCode
<1> QED BY <1>2, <1>3 DEF ins

LEMMA LastAndFront ==
  ASSUME NEW S, NEW s \in Seq(S), s # <<>>
  PROVE  Last(s) \in S /\ Front(s) \in Seq(S)
<1>1. Len(s) \in Nat /\ Len(s) > 0
  BY EmptySeq
<1>2. Len(s) \in 1 .. Len(s) /\ Len(s) - 1 \in 0 .. Len(s)
  BY <1>1
<1>3. SubSeq(s, 1, Len(s) - 1) \in Seq(S)
  BY <1>2, SubSeqProperties
<1> QED BY <1>2, <1>3 DEF Last, Front

\* Whatever a step does, frames and registers stay what they are.
LEMMA StepRuns ==
  ASSUME asm \in AssemblerType, Running, Step
  PROVE  program' = program /\ DOMAIN stack' = RegisterNumbers /\ here' \in Frames /\ calls' \in Seq(Frames)
<1> PICK F, l : F = Frames /\ l = Len(program.funcs)
  OBVIOUS
<1>1. /\ here \in F /\ calls \in Seq(F) /\ DOMAIN stack = RegisterNumbers
      /\ l \in Nat /\ F = [func : 0 .. l, pc : Int, base : Nat]
  BY RunsSource DEF Running, Frames
<1>2. ASSUME UNCHANGED <<here, stack, calls>> PROVE DOMAIN stack' = RegisterNumbers /\ here' \in F /\ calls' \in Seq(F)
  BY <1>1, <1>2
<1>3. ASSUME NEW ops, Execute(ops) PROVE program' = program /\ ins \in Words
  BY <1>3, WordRuns DEF Execute, Cycle, Defined
<1>4. ASSUME NEW offset \in Int, Goto(offset) PROVE here' \in F /\ calls' \in Seq(F)
  BY <1>1, <1>4 DEF Goto
<1>5. ASSUME NEW register, NEW v, Set(register, v)
      PROVE  DOMAIN stack' = RegisterNumbers /\ here' \in F /\ calls' \in Seq(F)
  <2>1. Goto(0) /\ DOMAIN stack' = DOMAIN stack
    BY <1>5 DEF Set
  <2>2. 0 \in Int
    OBVIOUS
  <2> QED BY <1>1, <1>4, <2>1, <2>2
<1>6. CASE OutOfCycles \/ Undefined
  BY <1>2, <1>6 DEF OutOfCycles, Undefined, Cycle, Stop
<1>7. CASE MOVE \/ LOADK \/ LOADN \/ Calculate
  BY <1>2, <1>3, <1>5, <1>7 DEF MOVE, LOADK, LOADN, Calculate, Stop
<1>8. CASE Branch \/ JMP
  <2>1. ins \in Words /\ program' = program
    BY <1>3, <1>8 DEF Branch, JMP
  <2>2. C8(ins) \in Int /\ BC(ins) \in Int
    <3>1. ins.b \in Int /\ ins.c \in Int
      BY <2>1 DEF Words, Byte
    <3> QED BY <3>1, BytesOf DEF C8, BC, Wide
  <2>3. PICK offset \in Int : Goto(offset)
    BY <1>8, <2>2 DEF Branch, JMP
  <2>4. stack' = stack
    BY <1>8 DEF Branch, JMP
  <2> QED BY <1>1, <1>4, <2>1, <2>3, <2>4
<1>9. CASE CALLF
  <2>1. ins \in Words /\ program' = program
    BY <1>3, <1>9 DEF CALLF
  <2>2. CASE CallRefused
    BY <1>2, <1>9, <2>1, <2>2 DEF CALLF, Stop
  <2>3. CASE ~CallRefused
    <3> PICK frame : frame = [here EXCEPT !.pc = @ + 1, !.base = ReturnBase]
      OBVIOUS
    <3>1. calls' = Append(calls, frame) /\ here' = [func |-> ins.c + 1, pc |-> 0, base |-> here.base + ins.a] /\ stack' = stack
      BY <1>9, <2>3 DEF CALLF
    <3>2. frame \in F
      <4>1. frame = [func |-> here.func, pc |-> here.pc + 1, base |-> here.base]
        BY <1>1 DEF ReturnBase
      <4>2. here.func \in 0 .. l /\ here.pc + 1 \in Int /\ here.base \in Nat
        BY <1>1
      <4> QED BY <1>1, <4>1, <4>2
    <3>3. calls' \in Seq(F)
      BY <1>1, <3>1, <3>2, AppendProperties
    <3>4. ins.a \in Nat /\ ins.c \in Nat /\ ins.c < l
      <4>1. ins.a \in Byte /\ ins.c \in Byte
        BY <2>1 DEF Words
      <4>2. ins.a \in Nat /\ ins.c \in Nat
        BY <4>1, BytesOf
      <4> QED BY <1>1, <2>3, <4>2 DEF CallRefused
    <3>5. here' \in F
      <4>1. ins.c + 1 \in 0 .. l /\ here.base + ins.a \in Nat
        BY <1>1, <3>4
      <4> QED BY <1>1, <3>1, <4>1
    <3> QED BY <1>1, <2>1, <3>1, <3>3, <3>5
  <2> QED BY <2>2, <2>3
<1>10. CASE RETURN
  <2>1. program' = program
    BY <1>3, <1>10 DEF RETURN
  <2>2. CASE calls = <<>>
    BY <1>2, <1>10, <2>1, <2>2 DEF RETURN, Stop
  <2>3. CASE calls # <<>>
    <3>1. here' = Last(calls) /\ calls' = Front(calls) /\ stack' = stack
      BY <1>10, <2>3 DEF RETURN
    <3>2. Last(calls) \in F /\ Front(calls) \in Seq(F)
      BY <1>1, <2>3, LastAndFront
    <3> QED BY <1>1, <2>1, <3>1, <3>2
  <2> QED BY <2>2, <2>3
<1> QED BY <1>6, <1>7, <1>8, <1>9, <1>10 DEF Step

-----------------------------------------------------------------------------
(* Every step.                                                             *)

AssemblerInv ==
  /\ source \in Seq(SourceLines)
  /\ stage = "assemble" => line \in 1 .. Len(source) + 1 /\ Assembled(source, line, asm)
  /\ stage = "resolve" => Assembled(source, Len(source) + 1, asm)
  /\ stage \in {"execute", "run"} /\ source # <<>> => Compiled(source, asm)

MachineInv ==
  source # <<>> => /\ machine = "Proto2"
                   /\ stage # "run" => Fresh
                   /\ stage = "run" => Running

LEMMA StartAssembled ==
  ASSUME NEW file \in Seq(SourceLines)
  PROVE  Assembled(file, 1, asm_init)
<1>1. asm_init.functions = <<>> /\ asm_init.current = 0
  BY DEF asm_init
<1>2. asm_init \in [functions : Seq(FunctionType), current : Nat]
  <2>1. <<>> \in Seq(FunctionType)
    BY EmptySeq
  <2> QED BY <2>1 DEF asm_init
<1>3. HeadsKnown(file, 1, 0)
  <2>1. Before(Heads(file), 1) = {}
    <3>1. Heads(file) \in SUBSET (1 .. Len(file)) /\ Len(file) \in Nat
      BY FileSets
    <3>2. \A n \in Heads(file) : ~(n < 1)
      BY <3>1
    <3> QED BY <3>2 DEF Before
  <2>2. Cardinality(Before(Heads(file), 1)) = 0
    BY <2>1, FS_EmptySet
  <2>3. 1 .. 0 = {}
    OBVIOUS
  <2> QED BY <2>2, <2>3 DEF HeadsKnown
<1>4. 1 .. 0 = {}
  OBVIOUS
<1> QED BY <1>1, <1>2, <1>3, <1>4 DEF Assembled

LEMMA InitAssembled == Init => AssemblerInv /\ MachineInv
<1> SUFFICES ASSUME Init PROVE AssemblerInv /\ MachineInv
  OBVIOUS
<1>1. ASSUME NEW file \in Seq(SourceLines), Assembly(file) PROVE AssemblerInv /\ MachineInv
  <2>1. source = file /\ stage = "assemble" /\ line = 1 /\ asm = asm_init /\ machine = "Proto2" /\ vm_init
    BY <1>1 DEF Assembly
  <2>2. 1 \in 1 .. Len(file) + 1
    OBVIOUS
  <2>3. AssemblerInv
    BY <2>1, <2>2, StartAssembled DEF AssemblerInv
  <2>4. Fresh
    BY <2>1 DEF vm_init, Fresh, RegisterNumbers
  <2> QED BY <2>1, <2>3, <2>4 DEF MachineInv
<1>2. ASSUME NEW p, HandBuilt(p) \/ HandBuiltTiny(p) \/ Proto1Demo(p) PROVE AssemblerInv /\ MachineInv
  <2>1. source = <<>> /\ stage = "run"
    BY <1>2 DEF HandBuilt, HandBuiltTiny, Proto1Demo, ByHand
  <2>2. <<>> \in Seq(SourceLines)
    BY EmptySeq
  <2> QED BY <2>1, <2>2 DEF AssemblerInv, MachineInv
<1> QED BY <1>1, <1>2 DEF Init

LEMMA AssembleLineKeeps == ASSUME AssemblerInv, AssembleLine PROVE AssemblerInv'
<1>1. /\ source \in Seq(SourceLines) /\ stage = "assemble" /\ source' = source
      /\ line \in 1 .. Len(source) + 1 /\ line <= Len(source) /\ Assembled(source, line, asm)
  BY DEF AssemblerInv, AssembleLine
<1>2. line \in 1 .. Len(source) /\ line + 1 \in 1 .. Len(source) + 1
  BY <1>1
<1>3. CASE Refused(asm, source[line])
  <2>1. stage' = "rejected"
    BY <1>3 DEF AssembleLine
  <2> QED BY <1>1, <2>1 DEF AssemblerInv
<1>4. CASE ~Refused(asm, source[line])
  <2>1. stage' = stage /\ line' = line + 1 /\ asm' = process_line(asm, source[line])
    BY <1>4 DEF AssembleLine
  <2>2. Assembled(source, line + 1, process_line(asm, source[line]))
    BY <1>1, <1>2, <1>4, LineKeeps
  <2>3. Assembled(source', line', asm')
    BY <1>1, <2>1, <2>2
  <2> QED BY <1>1, <1>2, <2>1, <2>3 DEF AssemblerInv
<1> QED BY <1>3, <1>4

LEMMA EndOfFileKeeps == ASSUME AssemblerInv, EndOfFile PROVE AssemblerInv'
<1>1. /\ source \in Seq(SourceLines) /\ stage = "assemble" /\ source' = source /\ asm' = asm
      /\ line \in 1 .. Len(source) + 1 /\ line > Len(source) /\ Assembled(source, line, asm)
      /\ stage' = "resolve"
  BY DEF AssemblerInv, EndOfFile, assemblyVars
<1>2. line = Len(source) + 1
  BY <1>1
<1>3. Assembled(source', Len(source') + 1, asm')
  BY <1>1, <1>2
<1> QED BY <1>1, <1>3 DEF AssemblerInv

LEMMA ResolveKeeps == ASSUME AssemblerInv, Resolve PROVE AssemblerInv'
<1>1. /\ source \in Seq(SourceLines) /\ source' = source /\ Assembled(source, Len(source) + 1, asm)
  BY DEF AssemblerInv, Resolve
<1>2. CASE ~AllResolvable(asm)
  <2>1. stage' = "rejected"
    BY <1>2 DEF Resolve
  <2> QED BY <1>1, <2>1 DEF AssemblerInv
<1>3. CASE AllResolvable(asm)
  <2>1. stage' = "execute" /\ asm' = asm_resolve_labels(asm)
    BY <1>3 DEF Resolve
  <2> PICK fs, gs : fs = asm.functions /\ gs = [k \in DOMAIN fs |-> resolve_function_labels(fs[k])]
    OBVIOUS
  <2>2. /\ asm \in AssemblerType /\ fs \in Seq(FunctionType)
        /\ DOMAIN fs = 1 .. Len(fs) /\ Len(fs) \in Nat /\ Len(fs) = asm.current
    BY <1>1 DEF Assembled, AssemblerType
  <2>3. asm' = [asm EXCEPT !.functions = gs]
    BY <2>1 DEF asm_resolve_labels
  <2>4. gs \in Seq(FunctionType) /\ DOMAIN gs = DOMAIN fs
    <3>1. \A k \in 1 .. Len(fs) : resolve_function_labels(fs[k]) \in FunctionType
      BY <2>2, PatchedFunction
    <3> QED BY <2>2, <3>1
  <2>5. asm'.functions = gs /\ asm' \in AssemblerType
    BY <2>2, <2>3, <2>4 DEF AssemblerType
  <2>6. ASSUME NEW k \in DOMAIN gs
        PROVE  FunctionLands(source, k, gs[k]) /\ LoadsWritten(source, k, Len(source) + 1, gs[k])
    <3>1. k \in DOMAIN fs /\ gs[k] = resolve_function_labels(fs[k])
      BY <2>4
    <3>2. fs[k] \in FunctionType /\ FunctionSound(source, k, Len(source) + 1, fs[k])
      BY <1>1, <2>2, <3>1 DEF Assembled
    <3>3. \A i \in DOMAIN fs[k].refs : Resolvable(fs[k], fs[k].refs[i])
      BY <1>3, <3>1 DEF AllResolvable
    <3> QED BY <1>1, <3>1, <3>2, <3>3, FunctionResolved, LoadsResolved
  <2>7. Compiled(source', asm')
    BY <1>1, <2>5, <2>6 DEF Compiled
  <2> QED BY <1>1, <2>1, <2>7 DEF AssemblerInv
<1> QED BY <1>2, <1>3

\* Once it runs, nothing of the assembler changes.
LEMMA RunKeeps ==
  ASSUME AssemblerInv, stage \in {"execute", "run"}, stage' \notin {"assemble", "resolve"},
         source' = source, asm' = asm
  PROVE  AssemblerInv'
BY DEF AssemblerInv

LEMMA NextAssembled == ASSUME AssemblerInv, [Next]_allVars PROVE AssemblerInv'
<1>1. CASE AssembleLine
  BY <1>1, AssembleLineKeeps
<1>2. CASE EndOfFile
  BY <1>2, EndOfFileKeeps
<1>3. CASE Resolve
  BY <1>3, ResolveKeeps
<1>4. CASE execute_code
  <2>1. stage = "execute" /\ stage' \in {"rejected", "run"} /\ source' = source /\ asm' = asm
    BY <1>4 DEF execute_code, assemblyVars
  <2> QED BY <2>1, RunKeeps
<1>5. CASE On("Proto2") \/ On("TinyVM") \/ On("Proto1")
  <2>1. stage = "run" /\ stage' = "run" /\ source' = source /\ asm' = asm
    BY <1>5 DEF On, assemblyVars
  <2> QED BY <2>1, RunKeeps
<1>6. CASE UNCHANGED allVars
  <2>1. stage' = stage /\ source' = source /\ asm' = asm /\ line' = line
    BY <1>6 DEF allVars, assemblyVars
  <2> QED BY <2>1 DEF AssemblerInv
<1> QED BY <1>1, <1>2, <1>3, <1>4, <1>5, <1>6 DEF Next

\* A file that was assembled is run by one machine, in its own functions.
LEMMA NextRuns == ASSUME AssemblerInv, MachineInv, [Next]_allVars PROVE MachineInv'
<1> SUFFICES ASSUME source' # <<>> PROVE machine' = "Proto2" /\ (stage' # "run" => Fresh') /\ (stage' = "run" => Running')
  BY DEF MachineInv
<1>0. source' = source /\ machine' = machine
  BY DEF Next, AssembleLine, EndOfFile, Resolve, execute_code, On, allVars, assemblyVars
<1>1. machine' = "Proto2" /\ (stage # "run" => Fresh) /\ (stage = "run" => Running)
  BY <1>0 DEF MachineInv
<1>2. CASE AssembleLine \/ EndOfFile \/ Resolve
  <2>1. stage # "run" /\ stage' # "run" /\ UNCHANGED vars
    BY <1>2 DEF AssembleLine, EndOfFile, Resolve
  <2>2. Fresh'
    BY <1>1, <2>1 DEF Fresh, vars
  <2> QED BY <1>1, <2>1, <2>2
<1>3. CASE execute_code
  <2>1. /\ stage = "execute" /\ stage' \in {"rejected", "run"} /\ asm' = asm
        /\ here' = here /\ calls' = calls /\ stack' = stack
    BY <1>3 DEF execute_code, assemblyVars
  <2>2. Fresh
    BY <1>1, <2>1
  <2>3. ASSUME stage' = "run" PROVE Running'
    <3> PICK main, fs : main = asm_get_main_function(asm) /\ fs = CalledFunctions(asm)
      OBVIOUS
    <3>1. main # 0 /\ program' = [entry |-> asm.functions[main], funcs |-> fs]
      BY <1>3, <2>3 DEF execute_code
    <3>2. Len(fs) \in Nat
      <4>1. asm \in AssemblerType
        BY <1>0, <2>1 DEF AssemblerInv, Compiled
      <4> QED BY <4>1, CalledFound
    <3>3. here' \in Frames'
      <4>1. Len(program'.funcs) = Len(fs)
        BY <3>1
      <4>2. 0 \in 0 .. Len(fs)
        BY <3>2
      <4>3. here' = [func |-> 0, pc |-> 0, base |-> 0]
        BY <2>1, <2>2 DEF Fresh, Start
      <4> QED BY <4>1, <4>2, <4>3 DEF Frames
    <3>4. calls' \in Seq(Frames')
      <4>1. calls' = <<>>
        BY <2>1, <2>2 DEF Fresh
      <4> QED BY <4>1, EmptySeq
    <3>5. DOMAIN stack' = RegisterNumbers
      BY <2>1, <2>2 DEF Fresh
    <3> QED BY <2>1, <3>1, <3>3, <3>4, <3>5 DEF Running, RegisterNumbers
  <2>4. ASSUME stage' # "run" PROVE Fresh'
    BY <2>1, <2>2 DEF Fresh
  <2> QED BY <1>1, <2>3, <2>4
<1>4. CASE On("Proto2") /\ Step
  <2>1. stage = "run" /\ stage' = "run" /\ asm' = asm
    BY <1>4 DEF On, assemblyVars
  <2>2. Running /\ asm \in AssemblerType
    BY <1>0, <1>1, <2>1 DEF AssemblerInv, Compiled
  <2>3. program' = program /\ DOMAIN stack' = RegisterNumbers /\ here' \in Frames /\ calls' \in Seq(Frames)
    BY <1>4, <2>2, StepRuns
  <2>4. Frames' = Frames
    BY <2>3 DEF Frames
  <2>5. Running'
    BY <2>1, <2>2, <2>3, <2>4 DEF Running
  <2> QED BY <1>1, <2>1, <2>5
<1>5. CASE On("TinyVM") \/ On("Proto1")
  BY <1>0, <1>1, <1>5 DEF On
<1>6. CASE UNCHANGED allVars
  <2>1. stage' = stage /\ asm' = asm /\ UNCHANGED vars
    BY <1>6 DEF allVars, assemblyVars
  <2>2. Fresh => Fresh'
    BY <2>1 DEF Fresh, vars
  <2>3. Running => Running'
    BY <2>1 DEF Running, Frames, vars
  <2> QED BY <1>1, <2>1, <2>2, <2>3
<1> QED BY <1>2, <1>3, <1>4, <1>5, <1>6 DEF Next

LEMMA AssembledLands == AssemblerInv => JumpsLand
BY DEF AssemblerInv, JumpsLand, Compiled

\* The instruction that loads is the word of the line it is said to be on.
LEMMA LoadsFromLine ==
  ASSUME AssemblerInv, MachineInv, source # <<>>, stage = "run", LOADK \/ LOADN
  PROVE  LET t == Tokens(source, LineAt(source, SourceFunction, here.pc))
         IN  Loads(t) /\ Fits(t[2]) =>
               \/ stack'[here.base + t[2].n] = AsWritten(t[3]) <=> Fits(t[3])
               \/ ins.op = "LOADN" /\ (here.func # 0 \/ Merged(parse_constant(t[3])))
<1>1. Running /\ Compiled(source, asm) /\ asm \in AssemblerType /\ source \in Seq(SourceLines)
  BY DEF AssemblerInv, MachineInv, Compiled
<1> PICK k, f : k = SourceFunction /\ f = asm.functions[k]
  OBVIOUS
<1>2. k \in DOMAIN asm.functions /\ Proto(here.func) = f /\ Code = f.code /\ f \in FunctionType
  BY <1>1, RunsSource DEF Code, AssemblerType
<1>3. InCode /\ InStack(ins.a) /\ ins.op \in {"LOADK", "LOADN"} /\ (LOADK => ins.op = "LOADK") /\ (LOADN => ins.op = "LOADN")
  <2>1. Defined /\ ins.op \in {"LOADK", "LOADN"} /\ (LOADK => ins.op = "LOADK") /\ (LOADN => ins.op = "LOADN")
    BY DEF LOADK, LOADN, Execute
  <2>2. ins.a \in Touches
    BY <2>1 DEF Touches, Arithmetic
  <2> QED BY <2>1, <2>2 DEF Defined
<1>4. ins \in Words /\ ins = f.code[here.pc + 1]
  BY <1>1, <1>2, <1>3, WordRuns DEF ins
<1>5. FunctionLands(source, k, f) /\ LoadsWritten(source, k, Len(source) + 1, f)
  BY <1>1, <1>2 DEF Compiled
<1> PICK I, pc : I = Instructions(source, k) /\ pc = here.pc
  OBVIOUS
<1>6. /\ I \in SUBSET (1 .. Len(source)) /\ Len(source) \in Nat
      /\ \A n : AddressOf(source, k, n) = Cardinality(Before(I, n))
  BY <1>1, FileSets
<1>7. pc \in Nat /\ pc < Cardinality(I)
  <2>1. Len(f.code) = Cardinality(I)
    BY <1>5 DEF FunctionLands
  <2>2. Len(f.code) \in Nat
    <3>1. f.code \in Seq(Words)
      BY <1>2 DEF FunctionType
    <3> QED BY <3>1
  <2> QED BY <1>2, <1>3, <2>1, <2>2 DEF InCode
<1> PICK n : n = LineAt(source, k, pc)
  OBVIOUS
<1>8. n \in I /\ AddressOf(source, k, n) = pc
  <2>1. \E m \in I : Cardinality(Before(I, m)) = pc
    BY <1>6, <1>7, PlaceTaken
  <2>2. \E m \in I : AddressOf(source, k, m) = pc
    BY <1>6, <2>1
  <2> QED BY <2>2 DEF LineAt
<1> PICK t : t = Tokens(source, n)
  OBVIOUS
<1>9. Loads(t) => LoadedBy(ins, t, f.constants)
  <2> HAVE Loads(t)
  <2>1. n \in Before(LoadLines(source, k), Len(source) + 1)
    <3>1. n < Len(source) + 1
      BY <1>6, <1>8
    <3> QED BY <1>8, <3>1 DEF Before, LoadLines
  <2>2. LoadedBy(f.code[pc + 1], t, f.constants)
    BY <1>5, <1>8, <2>1 DEF LoadsWritten
  <2> QED BY <1>4, <2>2
<1>10. ASSUME Loads(t)
      PROVE  \/ stack'[here.base + number(t[2])] = parse_constant(t[3])
             \/ ins.op = "LOADN" /\ (here.func # 0 \/ Merged(parse_constant(t[3])))
  <2>1. LoadedBy(ins, t, f.constants)
    BY <1>10, <1>9
  <2>2. ins.a = number(t[2])
    BY <2>1 DEF LoadedBy
  <2> PICK at, v : at = here.base + ins.a /\ v = parse_constant(t[3])
    OBVIOUS
  <2>3. at \in DOMAIN stack
    <3>1. ins.a \in Nat
      <4>1. ins.a \in Byte
        BY <1>4 DEF Words
      <4> QED BY <4>1, BytesOf
    <3>2. here.base \in Nat /\ DOMAIN stack = 0 .. StackSize - 1
      BY <1>1 DEF Running, Frames, RegisterNumbers
    <3>3. at < StackSize /\ at \in Nat
      BY <1>3, <3>1, <3>2 DEF InStack
    <3>4. StackSize \in Nat
      BY VMAssumption
    <3> QED BY <3>2, <3>3, <3>4
  <2>4. CASE LOADK
    <3>1. make_int(BC(ins)) = v
      BY <1>3, <2>1, <2>4 DEF LoadedBy
    <3>2. stack' = [stack EXCEPT ![at] = v]
      BY <2>4, <3>1 DEF LOADK, Set
    <3> QED BY <2>2, <2>3, <3>2
  <2>5. CASE LOADN /\ here.func = 0
    <3>1. Table = f.constants
      BY <1>2, <2>5 DEF Table, Proto
    <3>2. PICK i \in DOMAIN Table : Wide(ins) = i - 1 /\ (Table[i] = v \/ value_equal(Table[i], v))
      BY <1>3, <2>1, <2>5, <3>1 DEF LoadedBy
    <3>3. i \in Nat /\ i <= Len(Table) /\ Len(Table) \in Nat
      <4>1. f.constants \in Seq(Constants)
        BY <1>2 DEF FunctionType
      <4> QED BY <3>1, <4>1
    <3>4. Wide(ins) < Len(Table) /\ Wide(ins) + 1 = i
      BY <3>2, <3>3
    <3>5. stack' = [stack EXCEPT ![at] = Table[i]]
      BY <2>5, <3>4 DEF LOADN, Set
    <3>6. stack'[at] = Table[i]
      BY <2>3, <3>5
    <3>7. CASE Table[i] = v
      BY <2>2, <3>6, <3>7
    <3>8. CASE Table[i] # v
      <4>1. Table[i] \in Range(Table) /\ value_equal(Table[i], v)
        BY <3>2, <3>8 DEF Range
      <4> QED BY <1>3, <2>5, <3>8, <4>1 DEF Merged
    <3> QED BY <3>7, <3>8
  <2>6. CASE LOADN /\ here.func # 0
    BY <1>3, <2>6
  <2> QED BY <2>4, <2>5, <2>6
<1>11. ASSUME Loads(t), Fits(t[2])
       PROVE  /\ number(t[2]) = t[2].n
              /\ parse_constant(t[3]) = AsWritten(t[3]) <=> Fits(t[3])
  <2>1. LoadOperands(t)
    BY <1>11, <1>9 DEF LoadedBy
  <2>3. number(t[2]) = t[2].n
    BY <1>11, <2>1, NumberRead DEF Fits, LoadOperands
  <2>4. CASE is_immediate(t[3])
    <3>1. Fits(t[3]) <=> number(t[3]) = t[3].n
      BY <2>1, <2>4, NumberRead DEF Fits, is_immediate, LoadOperands
    <3>2. \A i, j : make_int(i) = make_int(j) <=> i = j
      BY DEF make_int, V!make_int, V!Null
    <3> QED BY <2>3, <2>4, <3>1, <3>2 DEF parse_constant, AsWritten
  <2>5. CASE ~is_immediate(t[3])
    BY <2>1, <2>3, <2>5 DEF parse_constant, AsWritten, Fits, is_immediate, LoadOperands
  <2> QED BY <2>4, <2>5
<1> QED BY <1>10, <1>11

(***************************************************************************)
(* In every file that is assembled, every function has a word for each of  *)
(* its instruction lines, and every jump to a label goes to the            *)
(* instruction behind the label's last definition, if the function has no  *)
(* more such jumps than the table of references holds (assembler.c         *)
(* resolve_function_labels).                                               *)
(***************************************************************************)
THEOREM AssembledJumpsLand == Spec => []JumpsLand
<1>1. Init => AssemblerInv
  BY InitAssembled
<1>2. AssemblerInv /\ [Next]_allVars => AssemblerInv'
  BY NextAssembled
<1> QED BY <1>1, <1>2, AssembledLands, PTL DEF Spec

(***************************************************************************)
(* In every run of every file, LOADK and LOADN put into the register their *)
(* line names the constant it gives, exactly if 32 bits hold that          *)
(* constant, except that a called function's LOADN reads main's table, and *)
(* that equal numbers of two types share an entry (assembler.c             *)
(* is_immediate and asm_add_constant, vm.c vm_exec).                       *)
(***************************************************************************)
THEOREM LoadsAreAsWritten == Spec => LoadsAsWritten
<1>1. Init => AssemblerInv /\ MachineInv
  BY InitAssembled
<1>2. AssemblerInv /\ MachineInv /\ [Next]_allVars => AssemblerInv' /\ MachineInv'
  BY NextAssembled, NextRuns
<1>3. AssemblerInv /\ MachineInv =>
        [machine = "Proto2" /\ stage = "run" /\ source # <<>> /\ (LOADK \/ LOADN) =>
           LET t == Tokens(source, LineAt(source, SourceFunction, here.pc))
           IN  Loads(t) /\ Fits(t[2]) =>
                 \/ stack'[here.base + t[2].n] = AsWritten(t[3]) <=> Fits(t[3])
                 \/ ins.op = "LOADN" /\ (here.func # 0 \/ Merged(parse_constant(t[3])))]_allVars
  BY LoadsFromLine
<1> QED BY <1>1, <1>2, <1>3, PTL DEF Spec, LoadsAsWritten
====
