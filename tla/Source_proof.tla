---- MODULE Source_proof ----
(***************************************************************************)
(* The machine executes what the source says: for a well-formed program,   *)
(* every step of Machine is a step of Source, or none at all.              *)
(*                                                                         *)
(* What is computed is computed alike; the labels, operands and functions  *)
(* of a program are found where Source has them (that the code is what its *)
(* lines say is proved in Machine_proof); and then each action is taken    *)
(* for what it is to Source.                                               *)
(***************************************************************************)
EXTENDS Machine_proof
-----------------------------------------------------------------------------
(* What is computed is computed alike.                                     *)

LEMMA NumbersSame ==
  /\ \A i : Promise!Abs(i) = Abs(i)
  /\ \A i, j : Promise!Quotient(i, j) = Quotient(i, j) /\ Promise!Remainder(i, j) = Remainder(i, j)
  /\ \A i, j : Promise!GCD(i, j) = GCD(i, j)
<1>1. \A i : Promise!Abs(i) = Abs(i)
  BY DEF Promise!Abs, Abs
<1>2. \A i, j : Promise!Quotient(i, j) = Quotient(i, j)
  BY <1>1 DEF Promise!Quotient, Quotient
<1>3. \A i, j : Promise!Remainder(i, j) = Remainder(i, j)
  BY <1>2 DEF Promise!Remainder, Remainder
<1>4. \A k, i : Promise!Divides(k, i) <=> Divides(k, i)
  BY <1>1 DEF Promise!Divides, Divides
<1>5. \A i, j : Promise!GCD(i, j) = GCD(i, j)
  BY Zenon, <1>1, <1>4 DEF Promise!GCD, GCD, Promise!Divides, Divides, Promise!Abs, Abs
<1> QED BY <1>1, <1>2, <1>3, <1>5

LEMMA MakersSame ==
  /\ Promise!Null = Null
  /\ \A i : Promise!make_int(i) = make_int(i)
  /\ \A s : Promise!make_string(s) = make_string(s)
  /\ \A i, j : Promise!make_double(i, j) = make_double(i, j)
  /\ \A i : Promise!Fit(i) = Fit(i)
<1>1. Promise!Null = Null
  BY DEF Promise!Null, Null
<1>2. \A i : Promise!make_int(i) = make_int(i)
  BY DEF Promise!make_int, make_int, Promise!Null, Null
<1>3. \A s : Promise!make_string(s) = make_string(s)
  BY DEF Promise!make_string, make_string, Promise!Null, Null
<1>4. \A i, j : Promise!make_double(i, j) = make_double(i, j)
  BY <1>1, NumbersSame DEF Promise!make_double, make_double
<1>5. \A i : Promise!Fit(i) = Fit(i)
  BY <1>2, <1>4 DEF Promise!Fit, Fit, Promise!MinInt, MinInt
<1> QED BY <1>1, <1>2, <1>3, <1>4, <1>5

LEMMA KindsSame ==
  /\ \A v : Promise!is_null(v) <=> is_null(v)
  /\ \A v : Promise!is_int(v) <=> is_int(v)
  /\ \A v : Promise!is_double(v) <=> is_double(v)
  /\ \A v : Promise!is_string(v) <=> is_string(v)
  /\ \A v : Promise!is_number(v) <=> is_number(v)
  /\ \A v : Promise!is_truthy(v) <=> is_truthy(v)
BY DEF Promise!is_null, is_null, Promise!is_int, is_int, Promise!is_double, is_double, Promise!is_string, is_string,
       Promise!is_number, is_number, Promise!is_truthy, is_truthy

LEMMA TextsSame ==
  /\ \A i, j : Promise!NumberText(i, j) = NumberText(i, j)
  /\ \A v : Promise!to_string(v) = to_string(v)
  /\ \A v : Promise!to_number(v) = to_number(v)
  /\ \A a, b : Promise!string_concat(a, b) = string_concat(a, b)
<1>1. \A i, j : Promise!NumberText(i, j) = NumberText(i, j)
  BY DEF Promise!NumberText, NumberText, Promise!ToString, ToString
<1>2. \A v : Promise!to_string(v) = to_string(v)
  BY <1>1, MakersSame, KindsSame DEF Promise!to_string, to_string
<1>3. \A v : Promise!to_number(v) = to_number(v)
  <2> SUFFICES ASSUME NEW v PROVE Promise!to_number(v) = to_number(v)
    OBVIOUS
  <2>1. to_number(v)
          = IF is_number(v) THEN v
            ELSE make_int(IF {i \in MinInt .. MaxInt : v.s = <<NumberText(i, 1)>>} = {} THEN 0
                          ELSE CHOOSE i \in {i \in MinInt .. MaxInt : v.s = <<NumberText(i, 1)>>} : TRUE)
    BY DEF to_number
  <2>2. Promise!to_number(v)
          = IF Promise!is_number(v) THEN v
            ELSE Promise!make_int(IF {i \in MinInt .. MaxInt : v.s = <<NumberText(i, 1)>>} = {} THEN 0
                          ELSE CHOOSE i \in {i \in MinInt .. MaxInt : v.s = <<NumberText(i, 1)>>} : TRUE)
    BY DEF Promise!to_number, Promise!NumberText, NumberText, Promise!ToString, ToString, Promise!MinInt, MinInt
  <2> QED BY <2>1, <2>2, MakersSame, KindsSame
<1>4. \A a, b : Promise!string_concat(a, b) = string_concat(a, b)
  BY MakersSame DEF Promise!string_concat, string_concat
<1> QED BY <1>1, <1>2, <1>3, <1>4

LEMMA ArithmeticSame ==
  \A verb, a, b : Promise!Calculate(verb, a, b) = Calculate(verb, a, b)
<1>1. \A a, b : /\ Promise!Plus(a, b) = Plus(a, b) /\ Promise!Minus(a, b) = Minus(a, b)
                /\ Promise!Times(a, b) = Times(a, b) /\ Promise!Over(a, b) = Over(a, b)
                /\ Promise!Modulo(a, b) = Modulo(a, b)
  BY MakersSame, NumbersSame DEF Promise!Plus, Plus, Promise!Minus, Minus, Promise!Times, Times, Promise!Over, Over,
     Promise!Modulo, Modulo
<1>2. \A a, b : Promise!value_add(a, b) = value_add(a, b)
  BY <1>1, MakersSame, KindsSame, TextsSame DEF Promise!value_add, value_add
<1>3. \A a, b : Promise!value_sub(a, b) = value_sub(a, b)
  BY <1>1, MakersSame, KindsSame DEF Promise!value_sub, value_sub
<1>4. \A s, f : Promise!Repeat(s, f) = Repeat(s, f)
  BY MakersSame, NumbersSame DEF Promise!Repeat, Repeat
<1>5. \A a, b : Promise!value_mult_nonnumeric(a, b) = value_mult_nonnumeric(a, b)
  BY <1>4, MakersSame, KindsSame DEF Promise!value_mult_nonnumeric, value_mult_nonnumeric
<1>6. \A a, b : Promise!value_mult(a, b) = value_mult(a, b)
  BY <1>1, <1>5, MakersSame, KindsSame DEF Promise!value_mult, value_mult
<1>7. \A a, b : Promise!value_div(a, b) = value_div(a, b)
  BY <1>1, <1>5, MakersSame, KindsSame, NumbersSame DEF Promise!value_div, value_div
<1>8. \A a, b : Promise!value_mod(a, b) = value_mod(a, b)
  BY <1>1, MakersSame, KindsSame, NumbersSame DEF Promise!value_mod, value_mod
<1> QED BY <1>2, <1>3, <1>6, <1>7, <1>8 DEF Promise!Calculate, Calculate

LEMMA ComparisonsSame ==
  \A verb \in Comparing \union Branching \union Skipping : \A a, b : Promise!Holds(verb, a, b) <=> Holds(verb, a, b)
<1>1. \A s, t : Promise!StringLess(s, t) <=> StringLess(s, t)
  BY DEF Promise!StringLess, StringLess
<1>2. \A a, b : /\ Promise!NumberLess(a, b) <=> NumberLess(a, b)
                /\ Promise!SameNumber(a, b) <=> SameNumber(a, b)
  BY DEF Promise!NumberLess, NumberLess, Promise!SameNumber, SameNumber
<1>3. \A a, b : /\ Promise!value_lt(a, b) <=> value_lt(a, b)
                /\ Promise!value_le(a, b) <=> value_le(a, b)
                /\ Promise!value_equal(a, b) <=> value_equal(a, b)
  BY <1>1, <1>2, KindsSame DEF Promise!value_lt, value_lt, Promise!value_le, value_le, Promise!value_equal, value_equal
<1> SUFFICES ASSUME NEW verb \in Comparing \union Branching \union Skipping, NEW a, NEW b
             PROVE  Promise!Holds(verb, a, b) <=> Holds(verb, a, b)
  OBVIOUS
<1>4. \/ verb \in {"LT", "BRLT", "IFLT"} \/ verb \in {"LE", "BRLE", "IFLE"}
      \/ verb \in {"EQ", "BREQ", "IFEQ"} \/ verb \in {"NE", "BRNE", "IFNE"}
  BY DEF Comparing, Branching, Skipping
<1>5. /\ verb \in {"LT", "BRLT", "IFLT"} => (Holds(verb, a, b) <=> value_lt(a, b))
      /\ verb \in {"LE", "BRLE", "IFLE"} => (Holds(verb, a, b) <=> value_le(a, b))
      /\ verb \in {"EQ", "BREQ", "IFEQ"} => (Holds(verb, a, b) <=> value_equal(a, b))
      /\ verb \in {"NE", "BRNE", "IFNE"} => (Holds(verb, a, b) <=> ~value_equal(a, b))
  BY DEF Holds
<1>6. /\ verb \in {"LT", "BRLT", "IFLT"} => (Promise!Holds(verb, a, b) <=> Promise!value_lt(a, b))
      /\ verb \in {"LE", "BRLE", "IFLE"} => (Promise!Holds(verb, a, b) <=> Promise!value_le(a, b))
      /\ verb \in {"EQ", "BREQ", "IFEQ"} => (Promise!Holds(verb, a, b) <=> Promise!value_equal(a, b))
      /\ verb \in {"NE", "BRNE", "IFNE"} => (Promise!Holds(verb, a, b) <=> ~Promise!value_equal(a, b))
  BY DEF Promise!Holds
<1> QED BY <1>3, <1>4, <1>5, <1>6

LEMMA IntrinsicsSame == \A name, v : Promise!Intrinsic(name, v) = Intrinsic(name, v)
BY MakersSame, TextsSame DEF Promise!Intrinsic, Intrinsic

-----------------------------------------------------------------------------
(* The fields of the opcodes, further.                                     *)

Kinds == {"rA", "rB", "rC", "iA", "iB", "iC", "iAB", "iBC", "iABC", "kC", "kBC"}
FieldRanges(op) ==
  \A i \in 1 .. Len(op) - 1 :
    /\ op[i + 1] \in Kinds
    /\ op[1] \in Comparing \union Branching => op[i + 1] \in {"rA", "rB", "rC", "iA", "iB", "iC"}
    /\ op[1] \in Branching /\ i = 3 => op[i + 1] = "iC"
    /\ op[1] \in Skipping => op[i + 1] \in {"rA", "rB", "rC", "iAB", "iBC"}
    /\ op[1] \in {"BRTRUE", "BRFALSE"} /\ i = 2 => op[i + 1] = "iBC"
    /\ op[1] = "JUMP" => op[i + 1] = "iABC"
    /\ op[1] = "LOAD" => op[i + 1] \in {"rA", "rB", "iBC", "kBC"}

LEMMA Ranges1 == ASSUME NEW v PROVE FieldRanges(<<v>>)
BY DEF FieldRanges
LEMMA Ranges2 ==
  ASSUME NEW v, NEW a \in Kinds,
         v \notin Comparing \union Branching \union Skipping \union {"LOAD", "BRTRUE", "BRFALSE"},
         v = "JUMP" => a = "iABC"
  PROVE  FieldRanges(<<v, a>>)
BY DEF FieldRanges, Kinds
LEMMA Ranges3 ==
  ASSUME NEW v, NEW a \in Kinds, NEW b \in Kinds, v \notin Comparing \union Branching \union {"JUMP"},
         v \in Skipping => {a, b} \subseteq {"rA", "rB", "rC", "iAB", "iBC"},
         v \in {"BRTRUE", "BRFALSE"} => b = "iBC",
         v = "LOAD" => {a, b} \subseteq {"rA", "rB", "iBC", "kBC"}
  PROVE  FieldRanges(<<v, a, b>>)
BY DEF FieldRanges, Kinds
LEMMA Ranges4 ==
  ASSUME NEW v, NEW a \in {"rA", "iA"}, NEW b \in {"rB", "iB"}, NEW c \in Kinds,
         v \in Comparing \union Branching => c \in {"rC", "iC"}, v \in Branching => c = "iC",
         v \notin Skipping \union {"JUMP", "LOAD", "BRTRUE", "BRFALSE"}
  PROVE  FieldRanges(<<v, a, b, c>>)
BY DEF FieldRanges, Kinds

LEMMA OpcodeRanges == \A op \in Opcodes : FieldRanges(op)
<1> USE DEF Arithmetic, Comparing, Branching, Skipping, Kinds
<1>1. ASSUME NEW v \in {"NOOP", "RETURN"} PROVE FieldRanges(<<v>>)
  BY Ranges1
<1>2. ASSUME NEW v \in {"LOCALS", "OUTER", "GLOBALS", "ARG"} PROVE FieldRanges(<<v, "rA">>)
  BY Ranges2
<1>3. ASSUME NEW v \in {"JUMP", "ARGBLK", "ARG"} PROVE FieldRanges(<<v, "iABC">>)
  BY Ranges2
<1>4. ASSUME NEW v \in {"LOAD", "PUSH", "IFLT", "IFLE", "IFEQ", "IFNE"} PROVE FieldRanges(<<v, "rA", "rB">>)
  BY Ranges3
<1>5. ASSUME NEW v \in {"LOAD", "LIST", "MAP", "BRTRUE", "BRFALSE", "IFLT", "IFLE", "IFEQ", "IFNE"}
      PROVE  FieldRanges(<<v, "rA", "iBC">>)
  BY Ranges3
<1>6. ASSUME NEW v \in {"LOAD", "NAME"} PROVE FieldRanges(<<v, "rA", "kBC">>)
  BY Ranges3
<1>7. /\ FieldRanges(<<"FUNCREF", "iA", "iBC">>) /\ FieldRanges(<<"CALLF", "iA", "iBC">>)
      /\ FieldRanges(<<"CALLFN", "iA", "kBC">>)
  BY Ranges3
<1>8. ASSUME NEW v \in {"IFLT", "IFLE"} PROVE FieldRanges(<<v, "iAB", "rC">>)
  BY Ranges3
<1>9. ASSUME NEW v \in {"LOADV", "LOADC", "ASSIGN"} PROVE FieldRanges(<<v, "rA", "rB", "kC">>)
  BY Ranges4
<1>10. ASSUME NEW v \in Arithmetic \union {"INDEX", "IDXSET", "CALL", "LT", "LE", "EQ", "NE"}
       PROVE  FieldRanges(<<v, "rA", "rB", "rC">>)
  BY Ranges4
<1>11. ASSUME NEW v \in {"LT", "LE", "EQ", "NE", "BRLT", "BRLE", "BREQ", "BRNE"}
       PROVE  FieldRanges(<<v, "rA", "rB", "iC">>)
  BY Ranges4
<1>12. ASSUME NEW v \in {"LT", "LE"} PROVE FieldRanges(<<v, "rA", "iB", "rC">>)
  BY Ranges4
<1>13. ASSUME NEW v \in {"BRLT", "BRLE", "BREQ", "BRNE"}
       PROVE  FieldRanges(<<v, "rA", "iB", "iC">>) /\ FieldRanges(<<v, "iA", "rB", "iC">>)
  BY Ranges4
<1> QED
  BY ONLY <1>1, <1>2, <1>3, <1>4, <1>5, <1>6, <1>7, <1>8, <1>9, <1>10, <1>11, <1>12, <1>13 DEF Opcodes, Arithmetic

-----------------------------------------------------------------------------
(* Labels.                                                                 *)

Unlabelled(line) == line.label = ""
Verbless(line) == line.verb = ""
Param(line) == line.verb = ".param"
Plain == \A i \in DOMAIN source : ~Param(source[i])

\* The lines of a body that bear a label, and the instructions above a line of it.
Bearing(first, end, label) == {i \in first .. end - 1 : ~Unlabelled(source[i]) /\ source[i].label = label}
Above(first, i) == Cardinality(Block(first, i - 1))

LEMMA CodedIs == \A line : Coded(line) <=> ~IsFunctionLabel(line) /\ ~Verbless(line) /\ ~Param(line)
BY Zenon DEF Coded, Verbless, Param

LEMMA LabelledIsLine == \A line : ~Unlabelled(line) => ~IsEmpty(line)
BY Zenon DEF Unlabelled, IsEmpty

LEMMA LabelsAre ==
  ASSUME NEW first, NEW end
  PROVE  Labels(first, end)
           = {<<source[i].label, Cardinality({j \in first .. i - 1 : ~Verbless(source[j])})>> :
                i \in {k \in first .. end - 1 : ~Unlabelled(source[k])}}
BY Zenon DEF Labels, Verbless, Unlabelled

LEMMA AddressesAre ==
  ASSUME source \in Seq(ProgramLines), Plain,
         NEW first \in 1 .. Len(source) + 1, NEW end \in first .. Len(source) + 1,
         \A j \in first .. end - 1 : ~IsFunctionLabel(source[j]),
         NEW t, NEW a \in FindLabelAddress(Labels(first, end), t)
  PROVE  LET L == Bearing(first, end, t.s)
         IN  L # {} /\ a = Min({Above(first, i) : i \in L})
<1> PICK labels, L : labels = Labels(first, end) /\ L = Bearing(first, end, t.s)
  OBVIOUS
<1>1. ASSUME NEW i \in first .. end - 1
      PROVE  {j \in first .. i - 1 : ~Verbless(source[j])} = Block(first, i - 1)
  <2>1. \A j \in first .. i - 1 : j \in DOMAIN source /\ ~IsFunctionLabel(source[j])
    OBVIOUS
  <2>2. \A j \in first .. i - 1 : ~Verbless(source[j]) <=> Coded(source[j])
    BY <2>1, CodedIs DEF Plain
  <2> QED BY <2>2 DEF Block
<1>2. labels = {<<source[i].label, Above(first, i)>> : i \in {k \in first .. end - 1 : ~Unlabelled(source[k])}}
  BY <1>1, LabelsAre DEF Above
<1> PICK found : found = {l \in labels : l[1] = t.s /\ t.t = "word"}
  OBVIOUS
<1>3. found # {} /\ a = Min({l[2] : l \in found})
  BY DEF FindLabelAddress
<1>4. t.t = "word"
  BY <1>3
<1>5. {l[2] : l \in found} = {Above(first, i) : i \in L}
  <2>1. ASSUME NEW i \in L PROVE <<source[i].label, Above(first, i)>> \in found
    BY <1>2, <1>4 DEF Bearing
  <2>2. ASSUME NEW l \in found PROVE \E i \in L : l = <<source[i].label, Above(first, i)>>
    BY <1>2 DEF Bearing
  <2>3. ASSUME NEW l \in found PROVE \E i \in L : l[2] = Above(first, i)
    BY <2>2
  <2>4. ASSUME NEW i \in L PROVE \E l \in found : l[2] = Above(first, i)
    BY <2>1
  <2> QED BY <2>3, <2>4
<1>6. L # {}
  BY <1>2, <1>3 DEF Bearing
<1> QED BY <1>3, <1>5, <1>6

\* Of the counts above a number of lines, the least is that of the first.
LEMMA LeastAbove ==
  ASSUME NEW n \in Nat, NEW first \in 1 .. n + 1, NEW L \in SUBSET (first .. n), L # {}
  PROVE  Min({Above(first, i) : i \in L}) = Above(first, Min(L)) /\ Min(L) \in L
         /\ Above(first, Min(L)) \in Nat
<1> PICK m : m = Min(L)
  OBVIOUS
<1>1. m \in L /\ \A i \in L : m <= i
  <2>1. L \in SUBSET Nat
    OBVIOUS
  <2> QED BY <2>1, LeastNumber
<1>2. ASSUME NEW i \in L PROVE IsFiniteSet(Block(first, i - 1)) /\ Above(first, i) \in Nat
  <2>1. Block(first, i - 1) \in SUBSET (1 .. n)
    BY DEF Block
  <2> QED BY <2>1, Counted1 DEF Above
<1>3. ASSUME NEW i \in L PROVE Above(first, m) <= Above(first, i)
  <2>1. Block(first, m - 1) \subseteq Block(first, i - 1)
    BY <1>1 DEF Block
  <2> QED BY <1>2, <2>1, FS_Subset DEF Above
<1> PICK T : T = {Above(first, i) : i \in L}
  OBVIOUS
<1>4. T # {} /\ T \in SUBSET Nat /\ Above(first, m) \in T /\ \A c \in T : Above(first, m) <= c
  BY <1>1, <1>2, <1>3
<1>5. Min(T) \in T /\ \A c \in T : Min(T) <= c
  BY <1>4, LeastNumber
<1>6. Min(T) = Above(first, m)
  BY <1>4, <1>5
<1> QED BY <1>1, <1>2, <1>6

\* A label is where Source has it.
LEMMA LabelPosition ==
  ASSUME source \in Seq(ProgramLines), Plain, NEW name, NEW last \in Nat, last >= Len(source),
         NEW first \in 1 .. Len(source) + 1, NEW end \in first .. Len(source) + 1,
         Whole(name, first, end, last), NEW t, NEW a \in FindLabelAddress(Labels(first, end), t)
  PROVE  a \in Nat /\ Promise!Position(name, t.s) = a + 1
<1> PICK n, L, m : n = Len(source) /\ L = Bearing(first, end, t.s) /\ m = Min(L)
  OBVIOUS
<1>1. /\ \A j \in first .. end - 1 : ~IsFunctionLabel(source[j])
      /\ Owns(name, first, end, last)
  BY DEF Whole
<1>2. L # {} /\ a = Min({Above(first, i) : i \in L})
  BY <1>1, AddressesAre
<1>3. n \in Nat /\ first \in 1 .. n + 1 /\ L \in SUBSET (first .. n) /\ L \in SUBSET (first .. end - 1)
  BY DEF Bearing
<1>4. a = Above(first, m) /\ m \in L /\ a \in Nat
  <2>1. /\ Min({Above(first, i) : i \in L}) = Above(first, Min(L)) /\ Min(L) \in L
        /\ Above(first, Min(L)) \in Nat
    BY ONLY <1>2, <1>3, LeastAbove
  <2> QED BY <1>2, <2>1
<1>5. \A i \in DOMAIN source : ~IsFunctionLabel(source[i]) /\ ~IsEmpty(source[i]) =>
        (OwnerOf(i) = name <=> i \in first .. end - 1)
  BY <1>1 DEF Owns
<1>6. Promise!LabelLines(name, t.s) = L
  <2>1. Promise!LabelLines(name, t.s)
          = {i \in DOMAIN source : source[i].label = t.s /\ OwnerOf(i) = name /\ i \notin Headings}
    BY OwnersSame, HeadingsSame DEF Promise!LabelLines
  <2>2. \A i \in L : source[i].label = t.s /\ ~Unlabelled(source[i]) /\ i \in first .. end - 1 /\ i \in DOMAIN source
    BY <1>3 DEF Bearing
  <2>3. PICK h \in L : source[h].label = t.s /\ ~Unlabelled(source[h])
    BY <1>2, <2>2
  <2>4. \A line : line.label = t.s => ~Unlabelled(line)
    BY <2>3 DEF Unlabelled
  <2>5. \A i \in L : OwnerOf(i) = name /\ i \notin Headings
    <3>1. \A i \in L : ~IsFunctionLabel(source[i]) /\ ~IsEmpty(source[i])
      BY <1>1, <2>2, LabelledIsLine
    <3> QED BY <1>5, <2>2, <3>1 DEF Headings
  <2>6. ASSUME NEW i \in DOMAIN source, source[i].label = t.s, OwnerOf(i) = name, i \notin Headings
        PROVE  i \in L
    <3>1. ~IsFunctionLabel(source[i]) /\ ~Unlabelled(source[i])
      BY <2>4, <2>6 DEF Headings
    <3>2. ~IsEmpty(source[i])
      BY <3>1, LabelledIsLine
    <3>3. i \in first .. end - 1
      BY <1>5, <2>6, <3>1, <3>2
    <3> QED BY <2>6, <3>1, <3>3 DEF Bearing
  <2> QED BY <2>1, <2>2, <2>5, <2>6
<1>7. {i \in 1 .. m - 1 : Promise!FunctionOf(i) = name /\ Promise!IsInstruction(source[i])} = Block(first, m - 1)
  <2>1. m \in first .. end - 1 /\ m \in 1 .. n
    BY <1>3, <1>4
  <2>2. \A i \in 1 .. m - 1 : i \in DOMAIN source
    BY <2>1
  <2>3. \A line : Coded(line) => ~IsFunctionLabel(line) /\ ~IsEmpty(line)
    BY DEF Coded, IsEmpty
  <2>4. \A i \in 1 .. m - 1 : Coded(source[i]) => (OwnerOf(i) = name <=> i \in first .. m - 1)
    <3>1. \A i \in 1 .. m - 1 : i \in first .. end - 1 <=> i \in first .. m - 1
      BY <2>1
    <3> QED BY <1>5, <2>2, <2>3, <3>1
  <2>5. \A i \in first .. m - 1 : i \in 1 .. m - 1
    BY <1>3
  <2> QED BY <2>4, <2>5, LinesSame, OwnersSame DEF Block
<1>8. Promise!Position(name, t.s) = 1 + Cardinality(Block(first, m - 1))
  <2>1. \A S : Promise!Min(S) = Min(S)
    BY DEF Promise!Min, Min
  <2>2. \A S : Promise!Cardinality(S) = Cardinality(S)
    BY DEF Promise!Cardinality, Cardinality
  <2> QED BY <1>6, <1>7, <2>1, <2>2 DEF Promise!Position
<1> QED BY <1>4, <1>8 DEF Above

-----------------------------------------------------------------------------
(* Functions.                                                              *)

Unique == \A a, b \in Headings : source[a].func = source[b].func => a = b
Known(name) == name = "@main" \/ \E h \in Headings : source[h].func = name

LEMMA KnownSame == \A name : Known(name) <=> name \in Promise!DefinedFunctions \union {"@main"}
BY HeadingsSame DEF Known, Promise!DefinedFunctions

LEMMA CardinalityUpTo ==
  ASSUME NEW n \in Nat, NEW S \in SUBSET (1 .. n)
  PROVE  Cardinality(S) \in 0 .. n
<1>1. IsFiniteSet(1 .. n) /\ Cardinality(1 .. n) = n
  <2>1. 1 \in Int /\ n \in Int /\ n - 1 + 1 = n
    OBVIOUS
  <2>2. IsFiniteSet(1 .. n) /\ Cardinality(1 .. n) = IF 1 > n THEN 0 ELSE n - 1 + 1
    BY <2>1, FS_Interval
  <2> QED BY <2>2
<1>2. Cardinality(S) <= n
  BY <1>1, FS_Subset
<1>3. Cardinality(S) \in Nat
  BY Counted1
<1> PICK c : c = Cardinality(S)
  OBVIOUS
<1>4. c <= n /\ c \in Nat
  BY <1>2, <1>3
<1> QED BY <1>4

\* The functions are those with a heading, and @main.
LEMMA NamesAre ==
  ASSUME source \in Seq(ProgramLines), Unique
  PROVE  /\ Distinct(FunctionNames) /\ Len(FunctionNames) \in 0 .. Len(source) + 1
         /\ \A i \in DOMAIN FunctionNames : Known(FunctionNames[i])
<1> PICK S, n, c : S = Headings /\ n = Len(source) /\ c = Cardinality(S)
  OBVIOUS
<1>1. n \in Nat /\ S \in SUBSET (1 .. n) /\ c \in Nat
  <2>1. n \in Nat /\ S \in SUBSET (1 .. n)
    BY DEF Headings
  <2> QED BY <2>1, Counted1
<1>2. c <= n
  BY <1>1, CardinalityUpTo
<1> PICK found : found = [i \in 1 .. c |-> source[Nth(S, i)].func]
  OBVIOUS
<1>3. FunctionNames = IF Contains(found, "@main") THEN found ELSE Append(found, "@main")
  <2>1. DOMAIN InOrder(S) = 1 .. c /\ \A k \in 1 .. c : InOrder(S)[k] = Nth(S, k)
    BY DEF InOrder
  <2> QED BY <2>1 DEF FunctionNames, Headings
<1>4. \A i \in 1 .. c : Nth(S, i) \in S /\ Cardinality(Below(S, Nth(S, i))) = i
  BY <1>1, NthIn
<1>5. Distinct(found)
  <2>1. \A i, j \in 1 .. c : found[i] = found[j] => Nth(S, i) = Nth(S, j)
    BY <1>4 DEF Unique
  <2> QED BY <1>4, <2>1 DEF Distinct
<1>6. \A i \in 1 .. c : Known(found[i])
  BY <1>4 DEF Known
<1> PICK T, main : T = {found[i] : i \in 1 .. c} \union {main} /\ main = "@main"
  OBVIOUS
<1>7. found \in Seq(T) /\ Len(found) = c /\ main \in T
  <2>1. found \in [1 .. c -> T]
    OBVIOUS
  <2> QED BY <1>1, <2>1
<1>8. CASE Contains(found, main)
  <2>1. FunctionNames = found /\ DOMAIN found = 1 .. c
    BY <1>3, <1>8
  <2>2. c \in 0 .. n + 1
    BY <1>1, <1>2
  <2> QED BY <1>5, <1>6, <1>7, <2>1, <2>2
<1>9. CASE ~Contains(found, main)
  <2> PICK all : all = Append(found, main)
    OBVIOUS
  <2>1. FunctionNames = all
    BY <1>3, <1>9
  <2>2. /\ Len(all) = c + 1 /\ DOMAIN all = 1 .. c + 1 /\ all[c + 1] = main
        /\ \A i \in 1 .. c : all[i] = found[i]
    <3>1. /\ all \in Seq(T) /\ Len(all) = Len(found) + 1 /\ all[Len(found) + 1] = main
          /\ \A i \in 1 .. Len(found) : all[i] = found[i]
      BY ONLY <1>7, all = Append(found, main), AppendProperties
    <3>2. DOMAIN all = 1 .. Len(all)
      BY <3>1, LenProperties
    <3> QED BY <1>7, <3>1, <3>2
  <2>3. \A i \in 1 .. c : found[i] # main
    BY <1>7, <1>9 DEF Contains
  <2>4. \A i \in 1 .. c + 1 : i \in 1 .. c \/ i = c + 1
    BY <1>1
  <2>5. Distinct(all)
    <3>1. \A i, j \in 1 .. c : all[i] = all[j] => i = j
      <4>1. \A i, j \in 1 .. c : found[i] = found[j] => i = j
        BY <1>5 DEF Distinct
      <4> QED BY ONLY <2>2, <4>1
    <3>2. \A i \in 1 .. c : all[i] # main
      BY <2>2, <2>3
    <3> QED BY ONLY <2>2, <2>4, <3>1, <3>2 DEF Distinct
  <2>6. \A i \in 1 .. c + 1 : Known(all[i])
    <3>1. Known(main)
      BY DEF Known
    <3> QED BY ONLY <1>6, <2>2, <2>4, <3>1
  <2>7. c + 1 \in 0 .. n + 1
    BY <1>1, <1>2
  <2> QED BY <2>1, <2>2, <2>5, <2>6, <2>7
<1> QED BY <1>8, <1>9

-----------------------------------------------------------------------------
(* Well-formed programs.                                                   *)

GoodAt(name, k) ==
  LET line == Promise!Instructions(name)[k]
  IN  Promise!GoodOperands(name, k, line.verb, line.args)
AllGood == \A name : Known(name) => \A k \in DOMAIN Promise!Instructions(name) : GoodAt(name, k)

LEMMA WellFormedIs ==
  ASSUME source \in Seq(ProgramLines), Promise!WellFormed
  PROVE  /\ AllGood /\ Unique /\ Apart /\ Plain
         /\ Promise!Instructions("@main") # <<>>
<1>1. AllGood
  <2>1. \A name \in Promise!DefinedFunctions \union {"@main"} :
          \A k \in DOMAIN Promise!Instructions(name) : GoodAt(name, k)
    BY DEF Promise!WellFormed, GoodAt
  <2> QED BY <2>1, KnownSame DEF AllGood
<1>2. Unique
  BY HeadingsSame DEF Promise!WellFormed, Unique
<1>3. Apart
  BY ApartSame DEF Promise!WellFormed
<1>4. Plain
  BY DEF Promise!WellFormed, Plain, Param
<1>5. Promise!Instructions("@main") # <<>>
  BY DEF Promise!WellFormed
<1> QED BY <1>1, <1>2, <1>3, <1>4, <1>5

LEMMA SourceFixed ==
  ASSUME source' = source
  PROVE  Promise!WellFormed' <=> Promise!WellFormed
<1>1. Promise!FunctionLabels' = Promise!FunctionLabels
  BY DEF Promise!FunctionLabels
<1>2. Promise!DefinedFunctions' = Promise!DefinedFunctions
  BY <1>1 DEF Promise!DefinedFunctions
<1>3. Promise!ImplicitMain' <=> Promise!ImplicitMain
  BY <1>1 DEF Promise!ImplicitMain
<1>4. \A name, label : /\ Promise!Instructions(name)' = Promise!Instructions(name)
                       /\ Promise!LabelLines(name, label)' = Promise!LabelLines(name, label)
                       /\ Promise!Position(name, label)' = Promise!Position(name, label)
  BY <1>1 DEF Promise!Instructions, Promise!InstructionLines, Promise!FunctionOf, Promise!LabelLines, Promise!Position
<1>5. \A name, k, t, range : Promise!Destination(name, k, t, range)' <=> Promise!Destination(name, k, t, range)
  BY <1>4 DEF Promise!Destination
<1>6. \A name, k, verb, x : Promise!GoodOperands(name, k, verb, x)' <=> Promise!GoodOperands(name, k, verb, x)
  BY <1>2, <1>5 DEF Promise!GoodOperands
<1>7. Promise!BodiesApart' <=> Promise!BodiesApart
  BY <1>1, <1>2, <1>3 DEF Promise!BodiesApart
<1> QED BY <1>1, <1>2, <1>4, <1>6, <1>7 DEF Promise!WellFormed

-----------------------------------------------------------------------------
(* The code is what the source says.                                       *)

WellMade == Promise!WellFormed /\ Len(source) < Span(2)
Named1 == NamesOf(functions) = FunctionNames
Compiled == AssemblerInv /\ Written /\ Assembled /\ WellMade /\ Named1

Positioned(labels, name) ==
  \A t : \A a \in FindLabelAddress(labels, t) : a \in Nat /\ Promise!Position(name, t.s) = a + 1
LineAt(f, k) == Promise!Instructions(f.name)[k]
WordSays(f, k) ==
  /\ LineAt(f, k) \in ProgramLines
  /\ \E labels : /\ Positioned(labels, f.name)
                 /\ Says(f.code[k], k, LineAt(f, k).verb, OperandsOf(LineAt(f, k)), labels, f.constants,
                         NamesOf(functions))

LEMMA SourceAt ==
  ASSUME Compiled, NEW i \in DOMAIN functions
  PROVE  LET f == functions[i] IN
         /\ Known(f.name) /\ f \in FunctionType
         /\ Len(f.code) = Cardinality(CodeOf(f.name)) /\ Len(f.code) \in 0 .. Len(source)
         /\ Len(f.constants) \in 0 .. Len(source)
         /\ \A k \in 1 .. Len(f.code) : WordSays(f, k)
<1>0. /\ source \in Seq(ProgramLines) /\ functions \in Seq(FunctionType)
      /\ lineNum - 1 \in Nat /\ lineNum - 1 >= Len(source) /\ Len(source) \in Nat
      /\ ~hasError /\ Written /\ Promise!WellFormed
  BY DEF Compiled, Assembled, AssemblerInv, TypeInv, WellMade
<1>w. Unique /\ Apart /\ Plain
  BY <1>0, WellFormedIs
<1> PICK f, names, n : f = functions[i] /\ names = NamesOf(functions) /\ n = Len(source)
  OBVIOUS
<1>f. f \in FunctionType
  BY <1>0
<1>1. FunctionWritten(f, lineNum - 1, names)
  BY <1>0, <1>w DEF Written, AllWritten
<1>2. PICK first \in 1 .. Len(source) + 1 : \E end \in first .. Len(source) + 1 : BodyOf(f, first, end, lineNum - 1, names)
  BY <1>1 DEF FunctionWritten
<1>3. PICK end \in first .. Len(source) + 1 : BodyOf(f, first, end, lineNum - 1, names)
  BY <1>2
<1> PICK last : last = lineNum - 1
  OBVIOUS
<1>4. CodeOf(f.name) = Block(first, end - 1)
  BY <1>0, <1>3, CodeIs DEF BodyOf, Whole
<1> PICK S, labels : S = CodeOf(f.name) /\ labels = Labels(first, end)
  OBVIOUS
<1>5. n \in Nat /\ S \in SUBSET (1 .. n) /\ Cardinality(S) \in 0 .. n
  <2>1. n \in Nat /\ S \in SUBSET (1 .. n)
    BY <1>0 DEF CodeOf
  <2> QED BY <2>1, CardinalityUpTo
<1>6. WrittenTo(f, S, labels, names)
  BY <1>3, <1>4 DEF BodyOf
<1>7. Len(f.code) = Cardinality(S) /\ Len(f.constants) <= Len(f.code)
  BY <1>6 DEF WrittenTo
<1>8. Positioned(labels, f.name)
  BY <1>0, <1>3, <1>w, LabelPosition DEF Positioned, BodyOf, Whole
<1>9. ASSUME NEW k \in 1 .. Cardinality(S) PROVE WordSays(f, k)
  <2> PICK h : h = Nth(S, k)
    OBVIOUS
  <2>1. h \in S /\ Rank(S, h) = k
    BY <1>5, NthIn DEF Rank
  <2>2. h \in DOMAIN source
    BY <1>0, <1>5, <2>1
  <2>3. SaysAt(f, S, h, labels, names)
    BY <1>6, <2>1 DEF WrittenTo
  <2>4. Says(f.code[k], k, source[h].verb, OperandsOf(source[h]), labels, f.constants, names)
    BY <2>1, <2>3 DEF SaysAt
  <2>5. Promise!Instructions(f.name) = [q \in 1 .. Cardinality(S) |-> source[Nth(S, q)]]
    BY InstructionsSame
  <2>6. LineAt(f, k) = source[h]
    BY <2>5 DEF LineAt
  <2>7. source[h] \in ProgramLines
    BY <1>0, <2>2
  <2> QED BY <1>8, <2>4, <2>6, <2>7 DEF WordSays
<1>10. f.name \in {FunctionNames[j] : j \in DOMAIN FunctionNames}
  BY DEF Compiled, Named1, NamesOf
<1>11. Known(f.name)
  BY <1>0, <1>w, <1>10, NamesAre
<1>12. Len(f.constants) \in 0 .. n
  <2>1. f.constants \in Seq(Constants)
    BY <1>f DEF FunctionType
  <2>2. Len(f.constants) \in Nat
    BY <2>1, LenProperties
  <2> QED BY <1>5, <1>7, <2>2
<1> QED BY <1>5, <1>7, <1>9, <1>11, <1>12, <1>f

-----------------------------------------------------------------------------
(* Operands, as the VM reads them.                                         *)

LEMMA RangesSame ==
  /\ \A b : Promise!Span(b) = Span(b)
  /\ \A b : Promise!SignedRange(b) = SignedRange(b)
  /\ \A t : Promise!Register(t) <=> IsReg(t) /\ t.n \in 0 .. ByteSize - 1
  /\ \A t, range : Promise!Number(t, range) <=> t.t = "num" /\ t.n \in range
<1>1. \A b : Promise!Span(b) = Span(b)
  BY DEF Promise!Span, Span
<1>2. \A b : Promise!SignedRange(b) = SignedRange(b)
  BY <1>1 DEF Promise!SignedRange, SignedRange
<1> QED BY <1>1, <1>2 DEF Promise!Register, Promise!IsReg, IsReg, Promise!Number

LEMMA WordsAre == \A t : Promise!IsWord(t) => t.t = "word"
BY Zenon DEF Promise!IsWord

\* An operand of a word that says what stands in its line.
Operand(word, i, t, k, labels, constants, names) ==
  /\ word.op \in Opcodes /\ i \in 1 .. Len(word.op) - 1 /\ t \in Tokens
  /\ Means(FieldU(word, Fields(word.op)[i]), word.op, i, t, k, labels, constants, names)

\* What is known of its field.
FieldOf(op, i, verb, field) ==
  /\ verb = Verb(op) /\ verb = op[1] /\ field = Fields(op)[i] /\ field = op[i + 1] /\ field \in Kinds
  /\ Bytes(op, i) \in 1 .. 3 /\ FieldFacts(op) /\ FieldRanges(op)

LEMMA FieldIs ==
  ASSUME NEW op \in Opcodes, NEW i \in 1 .. Len(op) - 1
  PROVE  FieldOf(op, i, Verb(op), Fields(op)[i])
<1>1. FieldFacts(op) /\ FieldRanges(op) /\ Shaped(op)
  BY OpcodeFields, OpcodeRanges, OpcodeShape
<1>2. Fields(op)[i] = op[i + 1] /\ Verb(op) = op[1]
  BY <1>1 DEF Shaped, Verb
<1>3. op[i + 1] \in Kinds
  BY <1>1 DEF FieldRanges
<1> QED BY <1>1, <1>2, <1>3, BytesType DEF FieldOf

LEMMA RegisterRead ==
  ASSUME NEW word, NEW i, NEW t, NEW k, NEW labels, NEW constants, NEW names,
         Operand(word, i, t, k, labels, constants, names), Verb(word.op) # "FUNCREF",
         ~(Verb(word.op) = "CALLF" /\ i = 2), Promise!Register(t)
  PROVE  Fields(word.op)[i] \in {"rA", "rB", "rC"} /\ VMReads(word, i) = t.n
<1> PICK op, field : op = word.op /\ field = Fields(op)[i]
  OBVIOUS
<1>1. IsReg(t) /\ t.n \in 0 .. ByteSize - 1 /\ t.n \in Int
  BY RangesSame DEF Operand, Tokens
<1>2. Numeric(op, i, t)
  BY <1>1 DEF Numeric
<1>3. RegisterField(op, i) /\ FieldU(word, field) = Unsigned(t.n, Bytes(op, i))
  BY <1>1, <1>2 DEF Operand, Means
<1>4. field \in {"rA", "rB", "rC"}
  BY <1>3 DEF RegisterField
<1>5. Bytes(op, i) = 1
  BY <1>4 DEF Bytes, Place
<1>6. Unsigned(t.n, 1) = t.n
  BY <1>1, UnsignedKeeps, SpanFacts
<1>7. VMReads(word, i) = FieldU(word, field)
  BY <1>4 DEF VMReads, Immediate
<1> QED BY <1>3, <1>4, <1>5, <1>6, <1>7

LEMMA ImmediateRead ==
  ASSUME NEW word, NEW i, NEW t, NEW k, NEW labels, NEW constants, NEW names,
         Operand(word, i, t, k, labels, constants, names), ~ConstantField(word.op, i),
         Verb(word.op) \notin {"CALLF", "CALLFN", "FUNCREF"}, Promise!Number(t, SignedRange(Bytes(word.op, i)))
  PROVE  Fields(word.op)[i] \notin {"rA", "rB", "rC"} /\ VMReads(word, i) = t.n
<1> PICK op, field : op = word.op /\ field = Fields(op)[i]
  OBVIOUS
<1> PICK verb : verb = Verb(op)
  OBVIOUS
<1>1. t.t = "num" /\ t.n \in SignedRange(Bytes(op, i)) /\ t.n \in Int
  BY RangesSame DEF Operand, Tokens
<1>2. FieldOf(op, i, verb, field)
  BY FieldIs DEF Operand
<1>3. field \notin {"rA", "rB", "rC"}
  <2>1. ~IsReg(t)
    BY <1>1 DEF IsReg
  <2> QED BY <2>1 DEF Operand, Means, RegisterField
<1>4. Immediate(field)
  BY <1>2, <1>3 DEF FieldOf, Kinds, ConstantField, Immediate
<1>5. Numeric(op, i, t)
  BY <1>1, <1>4 DEF Numeric
<1>6. FieldU(word, field) = Unsigned(t.n, Bytes(op, i)) /\ Bytes(op, i) \in 1 .. 3
  BY <1>2, <1>5 DEF Operand, Means, FieldOf
<1>7. VMReads(word, i) = Signed(FieldU(word, field), Bytes(op, i))
  BY <1>4 DEF VMReads, FieldS, Bytes
<1> QED BY <1>1, <1>3, <1>6, <1>7, SignedIff

LEMMA CountRead ==
  ASSUME NEW word, NEW i, NEW t, NEW k, NEW labels, NEW constants, NEW names,
         Operand(word, i, t, k, labels, constants, names),
         Verb(word.op) \in {"CALLF", "CALLFN"}, i = 1, Promise!Number(t, 0 .. ByteSize - 1)
  PROVE  VMReads(word, i) = t.n /\ Fields(word.op)[i] = "iA"
<1> PICK op, field : op = word.op /\ field = Fields(op)[i]
  OBVIOUS
<1> PICK verb : verb = Verb(op)
  OBVIOUS
<1>1. t.t = "num" /\ t.n \in 0 .. ByteSize - 1 /\ t.n \in Int
  BY RangesSame DEF Operand, Tokens
<1>2. FieldOf(op, i, verb, field)
  BY FieldIs DEF Operand
<1>3. field = "iA"
  BY <1>2 DEF FieldOf, FieldFacts, Operand
<1>4. Numeric(op, i, t)
  BY <1>1, <1>3 DEF Numeric, Immediate
<1>5. FieldU(word, field) = Unsigned(t.n, Bytes(op, i)) /\ Bytes(op, i) = 1
  BY <1>3, <1>4 DEF Operand, Means, Bytes, Place
<1>6. Unsigned(t.n, 1) = t.n
  BY <1>1, UnsignedKeeps, SpanFacts
<1>7. VMReads(word, i) = FieldU(word, field)
  BY <1>3 DEF VMReads
<1> QED BY <1>3, <1>5, <1>6, <1>7

\* A number below the span of two bytes is kept in two bytes.
LEMMA KeptInTwo ==
  ASSUME NEW n \in Nat, n < Span(2)
  PROVE  Unsigned(n, 2) = n
<1>1. n \in 0 .. Span(2) - 1
  BY SpanFacts
<1> QED BY <1>1, UnsignedKeeps

LEMMA ConstantRead ==
  ASSUME NEW word, NEW i, NEW t, NEW k, NEW labels, NEW T, NEW constants \in Seq(T), NEW names,
         Operand(word, i, t, k, labels, constants, names), Len(constants) < Span(2),
         Fields(word.op)[i] = "kBC", t.t # "const"
  PROVE  \E n \in 1 .. Len(constants) : constants[n] \in ParseAsConstant(t) /\ VMReads(word, i) = n - 1
<1>1. ConstantField(word.op, i) /\ Bytes(word.op, i) = 2
  BY DEF ConstantField, Bytes, Place
<1>2. PICK n \in DOMAIN constants : /\ constants[n] \in ParseAsConstant(t)
                                   /\ FieldU(word, Fields(word.op)[i]) = Unsigned(n - 1, 2)
  BY <1>1 DEF Operand, Means
<1>3. n \in 1 .. Len(constants) /\ n - 1 \in Nat /\ n - 1 < Span(2)
  <2>1. n \in 1 .. Len(constants) /\ Len(constants) \in Nat
    BY LenProperties
  <2> QED BY <2>1, SpanFacts
<1>4. VMReads(word, i) = FieldU(word, Fields(word.op)[i])
  BY DEF VMReads, Immediate
<1> QED BY <1>2, <1>3, <1>4, KeptInTwo

LEMMA JumpRead ==
  ASSUME NEW word, NEW i, NEW t, NEW k \in Int, NEW labels, NEW constants, NEW names, NEW name,
         Operand(word, i, t, k, labels, constants, names), JumpField(word.op, i), Positioned(labels, name),
         Promise!Destination(name, k, t, SignedRange(Bytes(word.op, i)))
  PROVE  VMReads(word, i) = IF t.t = "num" THEN t.n ELSE Promise!Position(name, t.s) - (k + 1)
<1> PICK op, field : op = word.op /\ field = Fields(op)[i]
  OBVIOUS
<1> PICK verb : verb = Verb(op)
  OBVIOUS
<1>1. FieldOf(op, i, verb, field)
  BY FieldIs DEF Operand
<1>2. verb \notin {"CALLF", "CALLFN", "FUNCREF"} /\ field \in {"iABC", "iBC", "iC"}
  BY <1>1 DEF JumpField, FieldOf, FieldRanges, Operand, Branching
<1>3. CASE t.t = "num"
  <2>1. Promise!Number(t, SignedRange(Bytes(op, i)))
    BY <1>3, RangesSame, WordsAre DEF Promise!Destination
  <2>2. ~ConstantField(op, i)
    BY <1>2 DEF ConstantField
  <2> QED BY <1>2, <1>3, <2>1, <2>2, ImmediateRead
<1>4. CASE t.t # "num"
  <2>1. t.t = "word" /\ Promise!Position(name, t.s) - (k + 1) \in SignedRange(Bytes(op, i))
    BY <1>4, RangesSame, WordsAre DEF Promise!Destination
  <2>2. PICK a \in FindLabelAddress(labels, t) : FieldU(word, field) = Unsigned(a - k, Bytes(op, i))
    BY <2>1 DEF Operand, Means
  <2>3. a \in Nat /\ Promise!Position(name, t.s) = a + 1
    BY DEF Positioned
  <2> PICK bytes, n : bytes = Bytes(op, i) /\ n = Promise!Position(name, t.s) - (k + 1)
    OBVIOUS
  <2>4. n = a - k /\ n \in Int /\ bytes \in 1 .. 3 /\ n \in SignedRange(bytes)
    BY <1>1, <2>1, <2>3 DEF FieldOf
  <2>5. Signed(Unsigned(n, bytes), bytes) = n
    BY <2>4, SignedIff
  <2>6. VMReads(word, i) = Signed(FieldU(word, field), Bytes(op, i))
    BY <1>2 DEF VMReads, FieldS, Bytes, Immediate
  <2> QED BY <1>4, <2>2, <2>4, <2>5, <2>6
<1> QED BY <1>3, <1>4

LEMMA CalleeRead ==
  ASSUME NEW word, NEW t, NEW k, NEW labels, NEW constants, NEW T, NEW names \in Seq(T),
         Operand(word, 2, t, k, labels, constants, names), Verb(word.op) = "CALLF", Len(names) <= Span(2)
  PROVE  \E n \in 1 .. Len(names) : names[n] = t.s /\ VMReads(word, 2) = n - 1
<1> PICK op, field : op = word.op /\ field = Fields(op)[2]
  OBVIOUS
<1>1. FieldOf(op, 2, Verb(op), field)
  BY FieldIs DEF Operand
<1>2. field = "iBC" /\ Bytes(op, 2) = 2
  BY <1>1 DEF FieldOf, FieldFacts, Operand, Bytes, Place
<1>3. PICK n \in DOMAIN names : names[n] = t.s /\ FieldU(word, field) = Unsigned(n - 1, 2)
  BY <1>2 DEF Operand, Means
<1>4. n \in 1 .. Len(names) /\ n - 1 \in Nat /\ n - 1 < Span(2)
  <2>1. n \in 1 .. Len(names) /\ Len(names) \in Nat
    BY LenProperties
  <2> QED BY <2>1, SpanFacts
<1>5. VMReads(word, 2) = FieldU(word, field)
  BY DEF VMReads
<1> QED BY <1>3, <1>4, <1>5, KeptInTwo

-----------------------------------------------------------------------------
(* The instruction at hand.                                                *)

Args == LineAt(Func, here.pc + 1).args
OperandHere(i) ==
  \E labels : /\ Positioned(labels, Func.name)
              /\ Operand(Word, i, Args[i], here.pc + 1, labels, Func.constants, NamesOf(functions))
Idle == {"NOOP", "RETURN"}

InstructionHere ==
  /\ Op \in Opcodes /\ VerbHere = Verb(Op) /\ here.pc + 1 \in 1 .. Len(Func.code) /\ here.pc \in Int
  /\ Len(Promise!Instructions(Func.name)) = Len(Func.code)
  /\ DOMAIN Promise!Instructions(Func.name) = 1 .. Len(Func.code)
  /\ LineAt(Func, here.pc + 1).verb = VerbHere
  /\ Promise!GoodOperands(Func.name, here.pc + 1, VerbHere, Args)
  /\ Op = Form(VerbHere, OperandsOf(LineAt(Func, here.pc + 1)))
  /\ VerbHere \notin Idle => /\ Op = Form(VerbHere, Args) /\ DOMAIN Args = 1 .. Len(Op) - 1
                             /\ \A i \in 1 .. Len(Op) - 1 : OperandHere(i)
  /\ DOMAIN Fields(Op) = 1 .. Len(Op) - 1 /\ Len(Op) = Count(VerbHere) + 1
  /\ Args \in Seq(Tokens)

Sized ==
  /\ Func.constants \in Seq(Constants) /\ Len(Func.constants) < Span(2)
  /\ NamesOf(functions) \in Seq(Names) /\ Len(NamesOf(functions)) <= Span(2)

LEMMA SizedHere == ASSUME Compiled, Placed(here) PROVE Sized
<1>0. /\ functions \in Seq(FunctionType) /\ source \in Seq(ProgramLines) /\ Promise!WellFormed
      /\ Len(source) < Span(2) /\ Len(source) \in Nat
  BY DEF Compiled, AssemblerInv, TypeInv, WellMade
<1>1. here.func + 1 \in DOMAIN functions
  BY DEF Placed
<1>2. Func \in FunctionType /\ Len(Func.constants) \in 0 .. Len(source)
  BY <1>1, SourceAt DEF Func
<1>3. Func.constants \in Seq(Constants)
  BY <1>2 DEF FunctionType
<1>4. Unique
  BY <1>0, WellFormedIs
<1>5. FunctionNames \in Seq(Names) /\ Len(FunctionNames) \in 0 .. Len(source) + 1
  BY <1>0, <1>4, NamesTyped, NamesAre
<1>6. Len(Func.constants) < Span(2) /\ Len(FunctionNames) <= Span(2)
  <2>1. Span(2) \in Nat
    BY SpanFacts
  <2> QED BY <1>0, <1>2, <1>5, <2>1
<1> QED BY <1>3, <1>5, <1>6 DEF Compiled, Named1, Sized

LEMMA InstructionIsHere == ASSUME Compiled, Placed(here), InCode PROVE InstructionHere
<1>0. TypeInv /\ source \in Seq(ProgramLines) /\ Promise!WellFormed
  BY DEF Compiled, AssemblerInv, TypeInv, WellMade
<1>1. here.func + 1 \in DOMAIN functions
  BY DEF Placed
<1> PICK f, k : f = Func /\ k = here.pc + 1
  OBVIOUS
<1>2. /\ Known(f.name) /\ f \in FunctionType /\ Len(f.code) = Cardinality(CodeOf(f.name))
      /\ \A q \in 1 .. Len(f.code) : WordSays(f, q)
  BY <1>1, SourceAt DEF Func
<1>3. /\ Word \in Words /\ Op \in Opcodes /\ VerbHere = Verb(Op) /\ k \in 1 .. Len(f.code) /\ here.pc \in Int
      /\ Len(Op) = Count(VerbHere) + 1
  <2>1. /\ Word \in Words /\ Op \in Opcodes /\ here.pc + 1 \in DOMAIN Func.code /\ Len(Op) = Count(VerbHere) + 1
        /\ here.pc \in Int
    BY <1>0, WordHere
  <2>2. DOMAIN f.code = 1 .. Len(f.code)
    <3>1. f.code \in Seq(Words)
      BY <1>2 DEF FunctionType
    <3> QED BY <3>1, LenProperties
  <2> QED BY <2>1, <2>2 DEF VerbHere
<1>4. /\ Len(Promise!Instructions(f.name)) = Len(f.code)
      /\ DOMAIN Promise!Instructions(f.name) = 1 .. Len(f.code)
  <2> PICK c, F : c = Cardinality(CodeOf(f.name)) /\ F = [q \in 1 .. c |-> source[Nth(CodeOf(f.name), q)]]
    OBVIOUS
  <2>1. Promise!Instructions(f.name) = F
    BY InstructionsSame
  <2>2. c \in Nat
    <3>1. f.code \in Seq(Words)
      BY <1>2 DEF FunctionType
    <3> QED BY <1>2, <3>1, LenProperties
  <2>3. DOMAIN F = 1 .. c /\ Len(F) = c
    <3>1. F \in [1 .. c -> {F[q] : q \in 1 .. c}]
      OBVIOUS
    <3> QED BY <2>2, <3>1
  <2> QED BY <1>2, <2>1, <2>3
<1> PICK line, x : line = LineAt(f, k) /\ x = OperandsOf(line)
  OBVIOUS
<1>5. line \in ProgramLines
  BY <1>2, <1>3 DEF WordSays
<1>6. PICK labels : /\ Positioned(labels, f.name)
                    /\ Says(Word, k, line.verb, x, labels, f.constants, NamesOf(functions))
  BY <1>2, <1>3 DEF WordSays, Word
<1>7. line.verb = VerbHere /\ Op = Form(VerbHere, x)
  BY <1>3, <1>6 DEF Says, Op
<1>8. Promise!GoodOperands(f.name, k, VerbHere, Args)
  <2>1. AllGood
    BY <1>0, WellFormedIs
  <2>2. GoodAt(f.name, k)
    BY <1>2, <1>3, <1>4, <2>1 DEF AllGood
  <2> QED BY <1>7, <2>2 DEF GoodAt, LineAt, Args
<1>9. Args \in Seq(Tokens) /\ Args = line.args
  BY <1>5 DEF ProgramLines, Args
<1>10. DOMAIN Fields(Op) = 1 .. Len(Op) - 1
  BY <1>3, OpcodeShape DEF Shaped
<1>11. ASSUME VerbHere \notin Idle
       PROVE  /\ Op = Form(VerbHere, Args) /\ DOMAIN Args = 1 .. Len(Op) - 1
              /\ \A i \in 1 .. Len(Op) - 1 : OperandHere(i)
  <2>1. x = Args
    BY <1>7, <1>9, <1>11 DEF OperandsOf, Idle
  <2>2. DOMAIN Args = 1 .. Len(Op) - 1
    BY <1>6, <2>1 DEF Says, Op
  <2>3. ASSUME NEW i \in 1 .. Len(Op) - 1
        PROVE  Operand(Word, i, Args[i], k, labels, f.constants, NamesOf(functions))
    <3>1. Args[i] \in Tokens
      BY <1>9, <2>2, ElementOfSeq
    <3>2. Means(FieldU(Word, Fields(Word.op)[i]), Word.op, i, Args[i], k, labels, f.constants, NamesOf(functions))
      BY <1>6, <2>1 DEF Says, Op
    <3> QED BY <1>3, <3>1, <3>2 DEF Operand, Op
  <2> QED BY <1>6, <1>7, <2>1, <2>2, <2>3 DEF OperandHere
<1> QED BY <1>3, <1>4, <1>7, <1>8, <1>9, <1>10, <1>11 DEF InstructionHere

-----------------------------------------------------------------------------
(* What well-formed operands are.                                          *)

LEMMA VerbsSame ==
  /\ Promise!Arithmetic = Arithmetic /\ Promise!Comparing = Comparing
  /\ Promise!Branching = Branching /\ Promise!Skipping = Skipping
BY DEF Promise!Arithmetic, Arithmetic, Promise!Comparing, Comparing, Promise!Branching, Branching,
       Promise!Skipping, Skipping

Reg1(t) == Promise!Register(t)
EitherIn(t, range) == Promise!Either(t, range)
NumberIn1(t, range) == Promise!Number(t, range)
Fractional(t) == Promise!Fraction(t)
Literal(t) == t.t = "text" \/ Fractional(t)
Registers(x, n) == Len(x) = n /\ \A i \in 1 .. n : Reg1(x[i])

\* The verbs, by the kinds of their operands.
Named2 == {"LOADV", "LOADC", "ASSIGN"}
GoodForms(name, k, verb, x) ==
  \/ verb \in Idle
  \/ verb = "LOAD" /\ Len(x) = 2 /\ Reg1(x[1]) /\ (EitherIn(x[2], SignedRange(4)) \/ Literal(x[2]))
  \/ verb \in Arithmetic \union {"INDEX", "IDXSET", "CALL"} /\ Registers(x, 3)
  \/ verb \in Comparing /\ Len(x) = 3 /\ Reg1(x[1]) /\ \A i \in 2 .. 3 : EitherIn(x[i], Promise!NonNegative(SignedRange(1)))
  \/ verb \in Skipping /\ Len(x) = 2 /\ \A i \in 1 .. 2 : EitherIn(x[i], SignedRange(2))
  \/ /\ verb \in Branching /\ Len(x) = 3 /\ \A i \in 1 .. 2 : EitherIn(x[i], SignedRange(1))
     /\ Promise!Destination(name, k, x[3], SignedRange(1))
  \/ /\ verb \in {"BRTRUE", "BRFALSE"} /\ Len(x) = 2 /\ Reg1(x[1])
     /\ Promise!Destination(name, k, x[2], SignedRange(2))
  \/ verb = "JUMP" /\ Len(x) = 1 /\ Promise!Destination(name, k, x[1], SignedRange(3))
  \/ /\ verb = "CALLF" /\ Len(x) = 2 /\ NumberIn1(x[1], 0 .. ByteSize - 1)
     /\ x[2].t = "word" /\ Known(x[2].s)
  \/ verb = "CALLFN" /\ Len(x) = 2 /\ NumberIn1(x[1], 0 .. ByteSize - 1) /\ x[2].t = "text"
  \/ verb = "ARG" /\ Len(x) = 1 /\ EitherIn(x[1], SignedRange(3))
  \/ verb \in Named2 /\ Len(x) = 3 /\ Reg1(x[1]) /\ Reg1(x[2]) /\ x[3].t = "text"
  \/ verb = "NAME" /\ Len(x) = 2 /\ Reg1(x[1]) /\ x[2].t = "text"
  \/ verb = "FUNCREF" /\ Len(x) = 2 /\ Reg1(x[1]) /\ x[2].t = "word"
  \/ verb \in {"LIST", "MAP"} /\ Len(x) = 2 /\ Reg1(x[1]) /\ NumberIn1(x[2], SignedRange(2))
  \/ verb = "PUSH" /\ Registers(x, 2)
  \/ verb \in {"LOCALS", "OUTER", "GLOBALS"} /\ Registers(x, 1)
  \/ verb = "ARGBLK" /\ Len(x) = 1 /\ NumberIn1(x[1], Promise!NonNegative(SignedRange(3)))

LEMMA GoodOperandsAre ==
  ASSUME NEW name, NEW k, NEW verb, NEW x, Promise!GoodOperands(name, k, verb, x)
  PROVE  GoodForms(name, k, verb, x)
<1>1. Known(x[2].s) <=> x[2].s \in Promise!DefinedFunctions \union {"@main"}
  BY KnownSame
<1>2. /\ \A b : Promise!Span(b) = Span(b)
      /\ \A b : Promise!SignedRange(b) = SignedRange(b)
  BY RangesSame
<1> QED
  BY <1>1, <1>2, VerbsSame
  DEF Promise!GoodOperands, GoodForms, Reg1, EitherIn, NumberIn1, Literal, Fractional, Registers, Idle, Named2

\* An operand that is one of the kinds allowed here, and no register but of a byte's.
LEMMA KindsApart ==
  /\ \A t, range : EitherIn(t, range) => Reg1(t) \/ (NumberIn1(t, range) /\ ~IsReg(t))
  /\ \A t, range : NumberIn1(t, range) => ~IsReg(t) /\ t.t = "num" /\ t.n \in range
  /\ \A t : Reg1(t) => IsReg(t)
  /\ \A t : t.t \in {"text", "word", "dec"} => ~IsReg(t)
  /\ \A t : Fractional(t) => t.t = "dec"
  /\ \A name, k, t, range : Promise!Destination(name, k, t, range) => ~IsReg(t)
BY RangesSame, WordsAre DEF EitherIn, Reg1, NumberIn1, Promise!Either, Promise!Destination, IsReg, Fractional, Promise!Fraction

LEMMA RegistersGood ==
  ASSUME NEW name, NEW k, NEW verb, NEW x, GoodForms(name, k, verb, x), verb \notin Idle,
         NEW i \in 1 .. Len(x), IsReg(x[i])
  PROVE  Reg1(x[i])
<1>1. /\ Len(x) = 1 => i = 1
      /\ Len(x) = 2 => i \in {1, 2}
      /\ Len(x) = 3 => i \in {1, 2, 3}
  OBVIOUS
<1> QED BY <1>1, KindsApart DEF GoodForms, Registers, Literal

\* The registers of the instruction at hand are those of its line.
SlotOf(i) == IsRegister(i) /\ Field(i) = Args[i].n

LEMMA RegisterHere ==
  ASSUME NEW i, OperandHere(i), InstructionHere, VerbHere # "FUNCREF", ~(VerbHere = "CALLF" /\ i = 2),
         Reg1(Args[i])
  PROVE  SlotOf(i)
<1>1. PICK labels : Operand(Word, i, Args[i], here.pc + 1, labels, Func.constants, NamesOf(functions))
  BY DEF OperandHere
<1>2. Fields(Word.op)[i] \in {"rA", "rB", "rC"} /\ VMReads(Word, i) = Args[i].n
  BY <1>1, RegisterRead DEF Reg1, VerbHere, Op
<1> QED BY <1>2 DEF SlotOf, IsRegister, FieldAt, Field, Op

LEMMA RegisterThere ==
  ASSUME NEW i, OperandHere(i), InstructionHere, IsRegister(i)
  PROVE  IsReg(Args[i])
<1>1. PICK labels : Operand(Word, i, Args[i], here.pc + 1, labels, Func.constants, NamesOf(functions))
  BY DEF OperandHere
<1> QED BY <1>1 DEF Operand, Means, RegisterField, IsRegister, FieldAt, Op

LEMMA SlotsHere ==
  ASSUME InstructionHere, VerbHere \notin Idle, NEW i \in 1 .. Len(Op) - 1
  PROVE  /\ IsRegister(i) => SlotOf(i) /\ IsReg(Args[i])
         /\ IsReg(Args[i]) /\ VerbHere # "FUNCREF" => SlotOf(i)
<1>1. OperandHere(i) /\ i \in DOMAIN Args /\ i \in 1 .. Len(Args)
  BY LenProperties DEF InstructionHere
<1>2. GoodForms(Func.name, here.pc + 1, VerbHere, Args)
  BY GoodOperandsAre DEF InstructionHere
<1>3. VerbHere = "FUNCREF" => Fields(Op)[i] \in {"iA", "iBC"}
  <2>1. FieldOf(Op, i, Verb(Op), Fields(Op)[i])
    BY FieldIs DEF InstructionHere
  <2>2. VerbHere = "FUNCREF" => i \in {1, 2}
    <3> PICK c : c = Len(Op)
      OBVIOUS
    <3>1. c = Count(VerbHere) + 1 /\ i \in 1 .. c - 1
      BY DEF InstructionHere
    <3>2. VerbHere = "FUNCREF" => Count(VerbHere) = 2
      BY DEF Count, NoOperand, OneOperand, TwoOperands
    <3>3. c = 3 => i \in {1, 2}
      BY <3>1
    <3> QED BY <3>1, <3>2, <3>3
  <2> QED BY <2>1, <2>2 DEF FieldOf, FieldFacts, InstructionHere
<1>4. VerbHere = "CALLF" /\ i = 2 => ~IsReg(Args[i])
  BY <1>2, KindsApart DEF GoodForms, Registers, Idle, Arithmetic, Comparing, Branching, Skipping, Named2
<1>5. IsReg(Args[i]) => Reg1(Args[i])
  BY <1>1, <1>2, RegistersGood
<1>6. IsReg(Args[i]) /\ VerbHere # "FUNCREF" => SlotOf(i)
  BY <1>1, <1>4, <1>5, RegisterHere
<1>7. IsRegister(i) => IsReg(Args[i]) /\ VerbHere # "FUNCREF"
  BY <1>1, <1>3, RegisterThere DEF IsRegister, FieldAt
<1> QED BY <1>6, <1>7

-----------------------------------------------------------------------------
(* Where the running program is, in terms of Source.                       *)

Quiet == runtimeError = ""
Going == stage = "run" /\ isRunning /\ Quiet /\ Compiled /\ Placed(here)
AtHere == At = here /\ Status = "running" /\ Where = <<Func.name, here.pc + 1>>

LEMMA StatusIs ==
  /\ stage = "crashed" => Status = "fault"
  /\ stage # "crashed" /\ ~Quiet => Status = "error"
  /\ stage # "crashed" /\ Quiet /\ (~Loaded \/ isRunning) => Status = "running"
  /\ stage # "crashed" /\ Quiet /\ Loaded /\ ~isRunning => Status = "stopped"
BY Zenon DEF Status, Quiet

LEMMA WhereIs ==
  /\ ~Loaded => Where = <<"@main", 1>>
  /\ Loaded /\ Status = "running" => Where = PositionOf(At)
  /\ Loaded /\ Status # "running" => Where = Promise!Nowhere
BY Zenon DEF Where, Promise!Nowhere

LEMMA GoingIsHere == ASSUME Going PROVE AtHere /\ Loaded
<1>1. Loaded
  BY DEF Going, Compiled, Loaded
<1>2. Status = "running"
  BY StatusIs DEF Going
<1>3. At = here
  BY DEF At, Going
<1>4. Where = PositionOf(here)
  BY <1>1, <1>2, <1>3, WhereIs
<1> QED BY <1>1, <1>2, <1>3, <1>4 DEF AtHere, PositionOf, Func

\* What Source has there.
LEMMA HereIs ==
  ASSUME AtHere
  PROVE  /\ Promise!Code = Promise!Instructions(Func.name) /\ Promise!Here = LineAt(Func, here.pc + 1)
         /\ Promise!Operands = Args
BY DEF AtHere, Promise!Code, Promise!Here, Promise!Operands, LineAt, Args

-----------------------------------------------------------------------------
(* The values of the operands.                                             *)

ValueHere(i) == OperandValue(i) = Promise!Value(Args[i])

LEMMA RegisterValue ==
  ASSUME NEW i, AtHere, SlotOf(i), IsReg(Args[i])
  PROVE  ValueHere(i)
<1>1. OperandValue(i) = stack[here.base + Args[i].n]
  BY DEF SlotOf, OperandValue
<1>2. Promise!Value(Args[i]) = stack[here.base + Args[i].n]
  BY DEF Promise!Value, AtHere, IsReg
<1> QED BY <1>1, <1>2 DEF ValueHere

LEMMA NumberValue ==
  ASSUME NEW i, AtHere, ~IsRegister(i), FieldAt(i) # "kBC", Field(i) = Args[i].n, Args[i].t = "num"
  PROVE  ValueHere(i)
<1>1. OperandValue(i) = make_int(Args[i].n)
  BY DEF OperandValue
<1>2. Promise!Value(Args[i]) = make_int(Args[i].n)
  BY MakersSame DEF Promise!Value
<1> QED BY <1>1, <1>2 DEF ValueHere

LEMMA ImmediateValue ==
  ASSUME NEW i, AtHere, OperandHere(i), InstructionHere, VerbHere \notin {"CALLF", "CALLFN", "FUNCREF"},
         ~ConstantField(Op, i), NumberIn1(Args[i], SignedRange(Bytes(Op, i)))
  PROVE  ValueHere(i)
<1>1. PICK labels : Operand(Word, i, Args[i], here.pc + 1, labels, Func.constants, NamesOf(functions))
  BY DEF OperandHere
<1>2. Fields(Word.op)[i] \notin {"rA", "rB", "rC"} /\ VMReads(Word, i) = Args[i].n
  BY <1>1, ImmediateRead DEF NumberIn1, VerbHere, Op
<1>3. ~IsRegister(i) /\ FieldAt(i) # "kBC" /\ Field(i) = Args[i].n
  BY <1>2 DEF IsRegister, FieldAt, Field, Op, ConstantField
<1>4. Args[i].t = "num"
  BY KindsApart
<1> QED BY <1>3, <1>4, NumberValue

\* A register or a number that its field holds.
LEMMA EitherValue ==
  ASSUME NEW i \in 1 .. Len(Op) - 1, AtHere, InstructionHere, VerbHere \notin {"CALLF", "CALLFN", "FUNCREF"},
         VerbHere \notin Idle, NEW range, EitherIn(Args[i], range),
         NumberIn1(Args[i], range) /\ ~IsRegister(i) => ~ConstantField(Op, i) /\ Args[i].n \in SignedRange(Bytes(Op, i))
  PROVE  ValueHere(i)
<1>1. OperandHere(i)
  BY DEF InstructionHere
<1>2. CASE Reg1(Args[i])
  BY <1>2, KindsApart, SlotsHere, RegisterValue
<1>3. CASE NumberIn1(Args[i], range)
  <2>1. Args[i].t = "num" /\ ~IsReg(Args[i])
    BY <1>3, KindsApart
  <2>2. ~IsRegister(i)
    BY <2>1, SlotsHere
  <2>3. NumberIn1(Args[i], SignedRange(Bytes(Op, i)))
    BY <1>3, <2>1, <2>2, RangesSame DEF NumberIn1
  <2> QED BY <1>1, <1>3, <2>2, <2>3, ImmediateValue
<1> QED BY <1>2, <1>3, KindsApart

LEMMA FieldHere ==
  ASSUME InstructionHere, NEW i \in 1 .. Len(Op) - 1
  PROVE  /\ FieldOf(Op, i, VerbHere, FieldAt(i)) /\ FieldAt(i) = Fields(Op)[i]
         /\ VerbHere \in Comparing \union Branching => FieldAt(i) \in {"rA", "rB", "rC", "iA", "iB", "iC"}
         /\ VerbHere \in Skipping => FieldAt(i) \in {"rA", "rB", "rC", "iAB", "iBC"}
<1>1. FieldOf(Op, i, VerbHere, FieldAt(i)) /\ FieldAt(i) = Fields(Op)[i]
  BY FieldIs DEF InstructionHere, FieldAt
<1> QED BY <1>1 DEF FieldOf, FieldRanges

LEMMA TestedValue ==
  ASSUME NEW i \in 1 .. Len(Op) - 1, AtHere, InstructionHere,
         \/ VerbHere \in Comparing /\ EitherIn(Args[i], Promise!NonNegative(SignedRange(1)))
         \/ VerbHere \in Branching /\ EitherIn(Args[i], SignedRange(1))
         \/ VerbHere \in Skipping /\ EitherIn(Args[i], SignedRange(2))
  PROVE  ValueHere(i)
<1>1. VerbHere \notin {"CALLF", "CALLFN", "FUNCREF"} /\ VerbHere \notin Idle
  BY DEF Comparing, Branching, Skipping, Idle
<1>2. \A n : n \in Promise!NonNegative(SignedRange(1)) => n \in SignedRange(1)
  BY DEF Promise!NonNegative
<1>3. CASE VerbHere \in Comparing \union Branching
  <2>1. ~ConstantField(Op, i) /\ Bytes(Op, i) = 1
    BY <1>3, FieldHere DEF ConstantField, Bytes, Place
  <2>2. PICK range : EitherIn(Args[i], range) /\ \A n : n \in range => n \in SignedRange(1)
    BY <1>2, <1>3 DEF Comparing, Branching, Skipping
  <2>3. NumberIn1(Args[i], range) => Args[i].n \in SignedRange(Bytes(Op, i))
    BY <2>1, <2>2, KindsApart
  <2> QED BY <1>1, <2>1, <2>2, <2>3, EitherValue
<1>4. CASE VerbHere \in Skipping
  <2>1. ~ConstantField(Op, i) /\ (~IsRegister(i) => Bytes(Op, i) = 2)
    BY <1>4, FieldHere DEF ConstantField, Bytes, Place, IsRegister
  <2>2. EitherIn(Args[i], SignedRange(2))
    BY <1>4 DEF Comparing, Branching, Skipping
  <2>3. NumberIn1(Args[i], SignedRange(2)) /\ ~IsRegister(i) => Args[i].n \in SignedRange(Bytes(Op, i))
    BY <2>1, KindsApart
  <2> QED BY <1>1, <2>1, <2>2, <2>3, EitherValue
<1> QED BY <1>3, <1>4

-----------------------------------------------------------------------------
(* Constants.                                                              *)

LEMMA StringsSame == \A t : Promise!StringOf(t) = StringOf(t)
<1> TAKE t
<1>1. \A q : Promise!make_string(q) = make_string(q)
  BY MakersSame
<1> QED BY Zenon, <1>1 DEF Promise!StringOf, StringOf

\* A fraction is the constant that is written.
LEMMA DecimalIs ==
  ASSUME NEW t, Fractional(t)
  PROVE  t.t = "dec" /\ ParseDouble(t) = {Promise!Written(t)}
<1>1. \A n, d : Promise!make_double(n, d) = make_double(n, d)
  BY MakersSame
<1> PICK negative : negative = Promise!Negative(t)
  OBVIOUS
<1>2. negative <=> t.s = "-"
  BY Zenon DEF Promise!Negative
<1>3. t.t = "dec" /\ {t.n, t.frac} \subseteq SignedRange(2) /\ (negative => t.n = 0)
  BY RangesSame DEF Fractional, Promise!Fraction
<1> PICK whole : whole = IF negative THEN -t.n ELSE t.n
  OBVIOUS
<1>4. whole = t.n
  BY <1>3
<1> PICK value : value = t.scale * t.n + t.frac
  OBVIOUS
<1>5. Promise!Written(t) = make_double(IF negative THEN -value ELSE value, t.scale)
  BY Zenon, <1>1 DEF Promise!Written
<1>6. ParseDouble(t) = {make_double(IF negative THEN -value ELSE value, t.scale)}
  <2>1. ParseDouble(t) = IF {whole, t.frac} \subseteq SignedRange(2)
                         THEN {make_double(IF negative THEN -(t.scale * whole + t.frac) ELSE t.scale * whole + t.frac, t.scale)}
                         ELSE {}
    BY Zenon, <1>2 DEF ParseDouble
  <2> QED BY <1>3, <1>4, <2>1
<1> QED BY <1>3, <1>5, <1>6

LEMMA ConstantIs ==
  ASSUME NEW t, NEW c \in ParseAsConstant(t),
         t.t = "num" \/ Literal(t)
  PROVE  c = Promise!Value(t)
<1>1. CASE t.t = "num"
  <2>1. ParseAsConstant(t) = {make_int(n) : n \in ParseInt32(t)}
    BY <1>1 DEF ParseAsConstant
  <2>2. c = make_int(t.n)
    BY <2>1 DEF ParseInt32, NumberIn
  <2> QED BY <1>1, <2>2, MakersSame DEF Promise!Value
<1>2. CASE t.t = "text"
  <2>1. c = StringOf(t)
    BY <1>2 DEF ParseAsConstant
  <2> QED BY <1>2, <2>1, StringsSame DEF Promise!Value
<1>3. CASE Fractional(t)
  <2>1. t.t = "dec" /\ ParseDouble(t) = {Promise!Written(t)}
    BY <1>3, DecimalIs
  <2>2. c \in ParseDouble(t)
    BY <2>1 DEF ParseAsConstant
  <2>3. Promise!Value(t) = Promise!Written(t)
    BY <2>1 DEF Promise!Value
  <2> QED BY <2>1, <2>2, <2>3
<1> QED BY <1>1, <1>2, <1>3 DEF Literal

LEMMA ConstantHere ==
  ASSUME OperandHere(2), InstructionHere, Sized, FieldAt(2) = "kBC", Args[2].t # "const"
  PROVE  /\ Field(2) < Len(Func.constants)
         /\ Func.constants[Field(2) + 1] \in ParseAsConstant(Args[2])
<1>1. PICK labels : Operand(Word, 2, Args[2], here.pc + 1, labels, Func.constants, NamesOf(functions))
  BY DEF OperandHere
<1> PICK constants : constants = Func.constants
  OBVIOUS
<1>2. constants \in Seq(Constants) /\ Len(constants) < Span(2) /\ Len(constants) \in Nat
  BY LenProperties DEF Sized
<1>3. Fields(Word.op)[2] = "kBC"
  BY DEF FieldAt, Op
<1>4. PICK n \in 1 .. Len(constants) : constants[n] \in ParseAsConstant(Args[2]) /\ VMReads(Word, 2) = n - 1
  BY <1>1, <1>2, <1>3, ConstantRead
<1>5. Field(2) = n - 1
  BY <1>4 DEF Field
<1>6. n - 1 < Len(constants) /\ n - 1 + 1 = n
  BY <1>2
<1> QED BY <1>4, <1>5, <1>6

LEMMA LoadHere ==
  ASSUME AtHere, InstructionHere, Sized, VerbHere = "LOAD"
  PROVE  SlotOf(1) /\ ValueHere(2) /\ (FieldAt(2) = "kBC" => Field(2) < Len(Func.constants))
<1> PICK t : t = Args[2]
  OBVIOUS
<1>1. Len(Args) = 2 /\ Reg1(Args[1]) /\ (EitherIn(t, SignedRange(4)) \/ Literal(t))
  <2>1. GoodForms(Func.name, here.pc + 1, VerbHere, Args)
    BY GoodOperandsAre DEF InstructionHere
  <2> QED BY <2>1 DEF GoodForms, Registers, Idle, Arithmetic, Comparing, Branching, Skipping, Named2
<1>2. 1 \in 1 .. Len(Op) - 1 /\ 2 \in 1 .. Len(Op) - 1 /\ VerbHere \notin Idle
  <2>1. VerbHere \notin Idle
    BY DEF Idle
  <2>2. DOMAIN Args = 1 .. Len(Op) - 1 /\ DOMAIN Args = 1 .. Len(Args)
    BY <2>1, LenProperties DEF InstructionHere
  <2> QED BY <1>1, <2>1, <2>2
<1>3. OperandHere(2)
  BY <1>2 DEF InstructionHere
<1>4. SlotOf(1)
  BY <1>1, <1>2, SlotsHere, KindsApart
<1>5. FieldAt(2) = IF IsReg(t) THEN "rB" ELSE IF t.t = "const" \/ NeedsConstant(t) THEN "kBC" ELSE "iBC"
  <2>1. Op = DataForm(VerbHere, Args)
    <3>1. Op = Form(VerbHere, Args)
      BY <1>2 DEF InstructionHere
    <3>2. Form(VerbHere, Args) = DataForm(VerbHere, Args)
      BY DEF Form, Arithmetic, Comparing, Branching, Skipping
    <3> QED BY <3>1, <3>2
  <2> PICK b : b = IF IsReg(t) THEN "rB" ELSE IF t.t = "const" \/ NeedsConstant(t) THEN "kBC" ELSE "iBC"
    OBVIOUS
  <2>2. Op = <<VerbHere, "rA", b>>
    BY <2>1 DEF DataForm
  <2>3. FieldOf(Op, 2, VerbHere, FieldAt(2))
    BY <1>2, FieldHere
  <2> QED BY <2>2, <2>3 DEF FieldOf
<1>6. CASE IsReg(t)
  BY <1>2, <1>4, <1>5, <1>6, SlotsHere, RegisterValue
<1>7. CASE ~IsReg(t) /\ NeedsConstant(t)
  <2>1. FieldAt(2) = "kBC"
    BY <1>5, <1>7
  <2>2. t.t # "const" /\ (t.t = "num" \/ Literal(t))
    BY <1>1, <1>7, KindsApart DEF Literal
  <2>3. Field(2) < Len(Func.constants) /\ Func.constants[Field(2) + 1] \in ParseAsConstant(t)
    BY <1>3, <2>1, <2>2, ConstantHere
  <2>4. Func.constants[Field(2) + 1] = Promise!Value(t)
    BY <2>2, <2>3, ConstantIs
  <2>5. OperandValue(2) = Func.constants[Field(2) + 1]
    BY <2>1 DEF OperandValue, IsRegister
  <2> QED BY <1>4, <2>3, <2>4, <2>5 DEF ValueHere
<1>8. CASE ~IsReg(t) /\ ~NeedsConstant(t)
  <2>1. t.t = "num" /\ t.n \in SignedRange(2)
    BY <1>1, <1>8, KindsApart DEF NeedsConstant, Literal
  <2>2. FieldAt(2) = "iBC"
    BY <1>5, <1>8, <2>1
  <2>3. ~ConstantField(Op, 2) /\ Bytes(Op, 2) = 2
    BY <2>2 DEF ConstantField, Bytes, FieldAt, Place
  <2>4. NumberIn1(t, SignedRange(Bytes(Op, 2)))
    BY <2>1, <2>3, RangesSame DEF NumberIn1
  <2>5. ValueHere(2)
    BY <1>3, <2>3, <2>4, ImmediateValue
  <2> QED BY <1>4, <2>2, <2>5
<1> QED BY <1>6, <1>7, <1>8

-----------------------------------------------------------------------------
(* Calls.                                                                  *)

LEMMA ArgsCount ==
  ASSUME InstructionHere, VerbHere \notin Idle
  PROVE  /\ GoodForms(Func.name, here.pc + 1, VerbHere, Args)
         /\ Len(Args) = Len(Op) - 1 /\ DOMAIN Args = 1 .. Len(Op) - 1
         /\ \A i \in 1 .. Len(Args) : OperandHere(i)
<1>1. DOMAIN Args = 1 .. Len(Op) - 1 /\ Args \in Seq(Tokens) /\ Len(Op) \in Nat
  BY DEF InstructionHere, Count
<1>2. Len(Args) = Len(Op) - 1
  <2> PICK x, n : x = Args /\ n = Len(Op) - 1
    OBVIOUS
  <2>1. DOMAIN x = 1 .. Len(x) /\ Len(x) \in Nat /\ DOMAIN x = 1 .. n
    BY <1>1, LenProperties
  <2>2. n \in Nat
    BY DEF InstructionHere, Count
  <2> QED BY <2>1, <2>2
<1> QED BY <1>1, <1>2, GoodOperandsAre DEF InstructionHere

LEMMA SameRange ==
  ASSUME InstructionHere, VerbHere \notin Idle
  PROVE  1 .. Len(Op) - 1 = 1 .. Len(Args)
<1>1. DOMAIN Args = 1 .. Len(Op) - 1 /\ Args \in Seq(Tokens)
  BY DEF InstructionHere
<1> QED BY <1>1, LenProperties

LEMMA CountHere ==
  ASSUME InstructionHere, VerbHere \in {"CALLF", "CALLFN"}
  PROVE  Field(1) = Args[1].n /\ Len(Args) = 2
<1>1. VerbHere \notin Idle
  BY DEF Idle
<1>2. Len(Args) = 2 /\ NumberIn1(Args[1], 0 .. ByteSize - 1)
  BY <1>1, ArgsCount DEF GoodForms, Registers, Idle, Arithmetic, Comparing, Branching, Skipping, Named2
<1>3. OperandHere(1)
  BY <1>1, <1>2, ArgsCount
<1>4. PICK labels : Operand(Word, 1, Args[1], here.pc + 1, labels, Func.constants, NamesOf(functions))
  BY <1>3 DEF OperandHere
<1>5. VMReads(Word, 1) = Args[1].n
  BY <1>2, <1>4, CountRead DEF NumberIn1, VerbHere, Op
<1> QED BY <1>2, <1>5 DEF Field

LEMMA CalleeHere ==
  ASSUME InstructionHere, Sized, VerbHere = "CALLF"
  PROVE  /\ Field(2) + 1 \in DOMAIN functions /\ functions[Field(2) + 1].name = Args[2].s
         /\ Field(2) \in Nat
<1>1. VerbHere \notin Idle
  BY DEF Idle
<1>2. OperandHere(2)
  BY <1>1, CountHere, ArgsCount
<1>3. PICK labels : Operand(Word, 2, Args[2], here.pc + 1, labels, Func.constants, NamesOf(functions))
  BY <1>2 DEF OperandHere
<1> PICK names : names = NamesOf(functions)
  OBVIOUS
<1>4. names \in Seq(Names) /\ Len(names) <= Span(2)
  BY DEF Sized
<1>5. PICK n \in 1 .. Len(names) : names[n] = Args[2].s /\ VMReads(Word, 2) = n - 1
  BY <1>3, <1>4, CalleeRead DEF VerbHere, Op
<1>6. n \in DOMAIN functions /\ functions[n].name = Args[2].s
  <2>1. n \in DOMAIN names
    BY <1>4, LenProperties
  <2> QED BY <1>5, <2>1 DEF NamesOf
<1>7. Field(2) = n - 1 /\ n - 1 + 1 = n /\ n - 1 \in Nat
  BY <1>5 DEF Field
<1> QED BY <1>6, <1>7

\* The name of a library function.
NameOf(c) == IF c.s = <<>> THEN "" ELSE c.s[1]
LEMMA NameIs == ASSUME NEW t PROVE NameOf(StringOf(t)) = t.s
<1> PICK none : none = ""
  OBVIOUS
<1>1. StringOf(t) = make_string(IF t.s = none THEN <<>> ELSE <<t.s>>)
  BY Zenon DEF StringOf
<1>2. \A q : make_string(q).s = q
  BY DEF make_string, Null
<1>3. StringOf(t).s = IF t.s = none THEN <<>> ELSE <<t.s>>
  <2> PICK q : q = IF t.s = none THEN <<>> ELSE <<t.s>>
    OBVIOUS
  <2>1. StringOf(t).s = q
    BY ONLY <1>1, <1>2, q = IF t.s = none THEN <<>> ELSE <<t.s>>
  <2> QED BY <2>1
<1>4. \A c : NameOf(c) = IF c.s = <<>> THEN none ELSE c.s[1]
  BY Zenon DEF NameOf
<1>5. \A x : <<x>> # <<>> /\ <<x>>[1] = x
  OBVIOUS
<1> QED BY <1>3, <1>4, <1>5

LEMMA LibraryHere ==
  ASSUME InstructionHere, Sized, VerbHere = "CALLFN"
  PROVE  /\ FieldAt(2) = "kBC" /\ Field(2) < Len(Func.constants)
         /\ NameOf(Func.constants[Field(2) + 1]) = Args[2].s
<1>1. VerbHere \notin Idle
  BY DEF Idle
<1>2. OperandHere(2) /\ Args[2].t = "text" /\ 2 \in 1 .. Len(Op) - 1
  <2>1. Len(Args) = 2 /\ Args[2].t = "text"
    BY <1>1, ArgsCount DEF GoodForms, Registers, Idle, Arithmetic, Comparing, Branching, Skipping, Named2
  <2>2. 2 \in 1 .. Len(Args) /\ 2 \in 1 .. Len(Op) - 1
    BY <1>1, <2>1, SameRange
  <2> QED BY <1>1, <2>1, <2>2, ArgsCount
<1>3. FieldAt(2) = "kBC"
  <2>1. FieldOf(Op, 2, VerbHere, FieldAt(2))
    BY <1>2, FieldHere
  <2> QED BY <1>2, <2>1 DEF FieldOf, FieldFacts
<1>4. /\ Field(2) < Len(Func.constants)
      /\ Func.constants[Field(2) + 1] \in ParseAsConstant(Args[2])
  BY <1>2, <1>3, ConstantHere
<1>5. Func.constants[Field(2) + 1] = StringOf(Args[2])
  BY <1>2, <1>4 DEF ParseAsConstant
<1> QED BY <1>3, <1>4, <1>5, NameIs

-----------------------------------------------------------------------------
(* Jumps.                                                                  *)

\* What is added to the place behind an instruction, and where that is.
Ahead(t) == IF t.t = "num" THEN t.n ELSE Promise!Position(Func.name, t.s) - (here.pc + 1 + 1)

LEMMA AheadIs ==
  ASSUME AtHere, NEW t, t.t = "num" => t.n \in Int, here.pc \in Int,
         t.t # "num" => Promise!Position(Func.name, t.s) \in Int
  PROVE  here.pc + 1 + Ahead(t) + 1 = Promise!Target(t)
<1>1. Promise!Target(t) = IF t.t = "num" THEN here.pc + 1 + 1 + t.n ELSE Promise!Position(Func.name, t.s)
  BY DEF Promise!Target, AtHere
<1> PICK k, p : k = here.pc /\ p = Promise!Position(Func.name, t.s)
  OBVIOUS
<1>2. CASE t.t = "num"
  BY <1>1, <1>2 DEF Ahead
<1>3. CASE t.t # "num"
  <2>1. p \in Int /\ k \in Int /\ Ahead(t) = p - (k + 1 + 1) /\ Promise!Target(t) = p
    BY <1>1, <1>3 DEF Ahead
  <2> QED BY <2>1
<1> QED BY <1>2, <1>3

LEMMA JumpHere ==
  ASSUME AtHere, InstructionHere, NEW i \in 1 .. Len(Op) - 1, VerbHere \notin Idle, JumpField(Op, i),
         Promise!Destination(Func.name, here.pc + 1, Args[i], SignedRange(Bytes(Op, i)))
  PROVE  here.pc + 1 + Field(i) + 1 = Promise!Target(Args[i])
<1> PICK t, k : t = Args[i] /\ k = here.pc + 1
  OBVIOUS
<1>1. PICK labels : /\ Positioned(labels, Func.name)
                    /\ Operand(Word, i, t, k, labels, Func.constants, NamesOf(functions))
  BY DEF InstructionHere, OperandHere
<1>2. k \in Int /\ here.pc \in Int
  BY DEF InstructionHere
<1>3. VMReads(Word, i) = IF t.t = "num" THEN t.n ELSE Promise!Position(Func.name, t.s) - (k + 1)
  BY <1>1, <1>2, JumpRead DEF Op
<1>4. Field(i) = Ahead(t)
  BY <1>3 DEF Field, Ahead
<1>5. t.n \in Int
  BY <1>1 DEF Operand, Tokens
<1>6. ASSUME t.t # "num" PROVE Promise!Position(Func.name, t.s) \in Int
  <2>1. t.t = "word"
    BY <1>6, RangesSame, WordsAre DEF Promise!Destination
  <2>2. PICK a : a \in FindLabelAddress(labels, t)
    BY <1>1, <2>1 DEF Operand, Means, Op
  <2>3. a \in Nat /\ Promise!Position(Func.name, t.s) = a + 1
    BY <1>1, <2>2 DEF Positioned
  <2> QED BY <2>3
<1>7. here.pc + 1 + Ahead(t) + 1 = Promise!Target(t)
  BY <1>2, <1>5, <1>6, AheadIs
<1> QED BY <1>4, <1>7

\* Where each of the jumps goes.
LEMMA JumpsHere ==
  ASSUME AtHere, InstructionHere
  PROVE  /\ VerbHere = "JUMP" => Len(Args) = 1 /\ here.pc + 1 + Field(1) + 1 = Promise!Target(Args[1])
         /\ VerbHere \in {"BRTRUE", "BRFALSE"} =>
              Len(Args) = 2 /\ here.pc + 1 + Field(2) + 1 = Promise!Target(Args[2])
         /\ VerbHere \in Branching =>
              Len(Args) = 3 /\ here.pc + 1 + Field(3) + 1 = Promise!Target(Args[3])
<1>1. ASSUME VerbHere = "JUMP"
      PROVE  Len(Args) = 1 /\ here.pc + 1 + Field(1) + 1 = Promise!Target(Args[1])
  <2>1. VerbHere \notin Idle
    BY <1>1 DEF Idle
  <2>2. Len(Args) = 1 /\ Promise!Destination(Func.name, here.pc + 1, Args[1], SignedRange(3))
    BY <1>1, <2>1, ArgsCount DEF GoodForms, Registers, Idle, Arithmetic, Comparing, Branching, Skipping, Named2
  <2>3. 1 \in 1 .. Len(Op) - 1
    BY <2>1, <2>2, SameRange
  <2>4. FieldOf(Op, 1, VerbHere, FieldAt(1))
    BY <2>3, FieldHere
  <2>5. Bytes(Op, 1) = 3 /\ JumpField(Op, 1)
    BY <1>1, <2>3, <2>4 DEF FieldOf, FieldRanges, Bytes, Place, JumpField
  <2> QED BY <2>1, <2>2, <2>3, <2>5, JumpHere
<1>2. ASSUME VerbHere \in {"BRTRUE", "BRFALSE"}
      PROVE  Len(Args) = 2 /\ here.pc + 1 + Field(2) + 1 = Promise!Target(Args[2])
  <2>1. VerbHere \notin Idle
    BY <1>2 DEF Idle
  <2>2. Len(Args) = 2 /\ Promise!Destination(Func.name, here.pc + 1, Args[2], SignedRange(2))
    BY <1>2, <2>1, ArgsCount DEF GoodForms, Registers, Idle, Arithmetic, Comparing, Branching, Skipping, Named2
  <2>3. 2 \in 1 .. Len(Op) - 1
    BY <2>1, <2>2, SameRange
  <2>4. FieldOf(Op, 2, VerbHere, FieldAt(2))
    BY <2>3, FieldHere
  <2>5. Bytes(Op, 2) = 2 /\ JumpField(Op, 2)
    BY <1>2, <2>3, <2>4 DEF FieldOf, FieldRanges, Bytes, Place, JumpField
  <2> QED BY <2>1, <2>2, <2>3, <2>5, JumpHere
<1>3. ASSUME VerbHere \in Branching
      PROVE  Len(Args) = 3 /\ here.pc + 1 + Field(3) + 1 = Promise!Target(Args[3])
  <2>1. VerbHere \notin Idle
    BY <1>3 DEF Idle, Branching
  <2>2. Len(Args) = 3 /\ Promise!Destination(Func.name, here.pc + 1, Args[3], SignedRange(1))
    BY <1>3, <2>1, ArgsCount DEF GoodForms, Registers, Idle, Arithmetic, Comparing, Branching, Skipping, Named2
  <2>3. 3 \in 1 .. Len(Op) - 1
    BY <2>1, <2>2, SameRange
  <2>4. FieldOf(Op, 3, VerbHere, FieldAt(3))
    BY <2>3, FieldHere
  <2>5. Bytes(Op, 3) = 1 /\ JumpField(Op, 3)
    BY <1>3, <2>3, <2>4 DEF FieldOf, FieldRanges, Bytes, Place, JumpField
  <2> QED BY <2>1, <2>2, <2>3, <2>5, JumpHere
<1> QED BY <1>1, <1>2, <1>3

-----------------------------------------------------------------------------
(* What an instruction works on.                                           *)

Fetched ==
  /\ AtHere /\ Loaded /\ InstructionHere /\ Sized
  /\ \A i \in 1 .. Len(Op) - 1 : Field(i) \in Int

LEMMA FetchedHere == ASSUME Going, InCode PROVE Fetched
<1>1. AtHere /\ Loaded
  BY GoingIsHere
<1>2. Compiled /\ Placed(here) /\ TypeInv
  BY DEF Going, Compiled, AssemblerInv
<1>3. InstructionHere /\ Sized
  BY <1>2, InstructionIsHere, SizedHere
<1>4. Word \in Words
  BY <1>2, WordHere
<1>5. ASSUME NEW i \in 1 .. Len(Op) - 1 PROVE Field(i) \in Int
  BY <1>4, <1>5, FieldType DEF Field, Op
<1> QED BY <1>1, <1>3, <1>5 DEF Fetched

LEMMA RegisterOperands ==
  ASSUME Fetched, VerbHere \notin Idle \union {"FUNCREF"}, NEW i \in 1 .. Len(Args), Reg1(Args[i])
  PROVE  SlotOf(i) /\ ValueHere(i)
<1>1. InstructionHere /\ AtHere /\ VerbHere \notin Idle
  BY DEF Fetched
<1>2. i \in 1 .. Len(Op) - 1
  BY <1>1, ArgsCount
<1>3. IsReg(Args[i])
  BY KindsApart
<1>4. SlotOf(i)
  BY <1>1, <1>2, <1>3, SlotsHere
<1> QED BY <1>1, <1>3, <1>4, RegisterValue

LEMMA CalculationHere ==
  ASSUME Fetched, VerbHere \in Arithmetic
  PROVE  SlotOf(1) /\ ValueHere(2) /\ ValueHere(3)
<1>1. VerbHere \notin Idle \union {"FUNCREF"}
  BY DEF Arithmetic, Idle
<1>2. Registers(Args, 3)
  BY <1>1, ArgsCount DEF Fetched, GoodForms, Idle, Arithmetic, Comparing, Branching, Skipping, Named2
<1>3. Len(Args) = 3 /\ Reg1(Args[1]) /\ Reg1(Args[2]) /\ Reg1(Args[3])
  BY <1>2 DEF Registers
<1>4. 1 \in 1 .. Len(Args) /\ 2 \in 1 .. Len(Args) /\ 3 \in 1 .. Len(Args)
  BY <1>3
<1> QED BY <1>1, <1>3, <1>4, RegisterOperands

LEMMA CompareHere ==
  ASSUME Fetched, VerbHere \in Comparing
  PROVE  SlotOf(1) /\ ValueHere(2) /\ ValueHere(3)
<1>1. VerbHere \notin Idle \union {"FUNCREF"}
  BY DEF Comparing, Idle
<1>2. /\ Len(Args) = 3 /\ Reg1(Args[1])
      /\ \A i \in 2 .. 3 : EitherIn(Args[i], Promise!NonNegative(SignedRange(1)))
  BY <1>1, ArgsCount DEF Fetched, GoodForms, Registers, Idle, Arithmetic, Comparing, Branching, Skipping, Named2
<1>3. 1 \in 1 .. Len(Args) /\ 2 \in 2 .. 3 /\ 3 \in 2 .. 3
  BY <1>2
<1>4. 2 \in 1 .. Len(Op) - 1 /\ 3 \in 1 .. Len(Op) - 1
  <2>1. 2 \in 1 .. Len(Args) /\ 3 \in 1 .. Len(Args)
    BY <1>2
  <2> QED BY <1>1, <2>1, SameRange DEF Fetched
<1>5. SlotOf(1)
  BY <1>1, <1>2, <1>3, RegisterOperands
<1> QED BY <1>2, <1>3, <1>4, <1>5, TestedValue DEF Fetched

LEMMA TestHere ==
  ASSUME Fetched, VerbHere \in Branching \union Skipping \union {"BRTRUE", "BRFALSE"}
  PROVE  /\ ValueHere(1)
         /\ VerbHere \notin {"BRTRUE", "BRFALSE"} => ValueHere(2)
<1>1. VerbHere \notin Idle \union {"FUNCREF"}
  BY DEF Branching, Skipping, Idle
<1>2. CASE VerbHere \in Branching
  <2>1. Len(Args) = 3 /\ \A i \in 1 .. 2 : EitherIn(Args[i], SignedRange(1))
    BY <1>1, <1>2, ArgsCount DEF Fetched, GoodForms, Registers, Idle, Arithmetic, Comparing, Branching, Skipping, Named2
  <2>2. DOMAIN Args = 1 .. Len(Op) - 1 /\ Len(Args) = Len(Op) - 1 /\ 1 \in 1 .. 3 /\ 2 \in 1 .. 3
    BY <1>1, ArgsCount DEF Fetched
  <2>3. 1 \in 1 .. Len(Op) - 1 /\ 2 \in 1 .. Len(Op) - 1 /\ 1 \in 1 .. 2 /\ 2 \in 1 .. 2
    BY ONLY <2>1, <2>2
  <2> QED BY <1>2, <2>1, <2>3, TestedValue DEF Fetched
<1>3. CASE VerbHere \in Skipping
  <2>1. Len(Args) = 2 /\ \A i \in 1 .. 2 : EitherIn(Args[i], SignedRange(2))
    BY <1>1, <1>3, ArgsCount DEF Fetched, GoodForms, Registers, Idle, Arithmetic, Comparing, Branching, Skipping, Named2
  <2>2. DOMAIN Args = 1 .. Len(Op) - 1 /\ Len(Args) = Len(Op) - 1
    BY <1>1, ArgsCount DEF Fetched
  <2>3. 1 \in 1 .. Len(Op) - 1 /\ 2 \in 1 .. Len(Op) - 1 /\ 1 \in 1 .. 2 /\ 2 \in 1 .. 2
    BY ONLY <2>1, <2>2
  <2> QED BY <1>3, <2>1, <2>3, TestedValue DEF Fetched
<1>4. CASE VerbHere \in {"BRTRUE", "BRFALSE"}
  <2>1. Len(Args) = 2 /\ Reg1(Args[1])
    BY <1>1, <1>4, ArgsCount DEF Fetched, GoodForms, Registers, Idle, Arithmetic, Comparing, Branching, Skipping, Named2
  <2>2. 1 \in 1 .. Len(Args)
    BY <2>1
  <2> QED BY <1>1, <1>4, <2>1, <2>2, RegisterOperands
<1> QED BY <1>2, <1>3, <1>4

\* No instruction of a well-formed program reads a constant that is not there.
LEMMA ConstantsThere ==
  ASSUME Fetched, Last(Op) = "kBC"
  PROVE  Field(2) < Len(Func.constants) /\ Field(2) \in Int
<1>1. InstructionHere /\ Sized /\ AtHere
  BY DEF Fetched
<1> PICK op, n : op = Op /\ n = Len(Op) - 1
  OBVIOUS
<1>2. op \in Opcodes /\ VerbHere = op[1] /\ n \in 0 .. 3 /\ Len(op) = n + 1 /\ op[n + 1] = "kBC"
  <2>1. Op \in Opcodes /\ VerbHere = Op[1] /\ Len(Op) = Count(VerbHere) + 1
    BY <1>1 DEF InstructionHere, Verb
  <2>2. Count(VerbHere) \in 0 .. 3
    BY DEF Count
  <2>3. n \in 0 .. 3 /\ Len(op) = n + 1
    BY <2>1, <2>2
  <2>4. Op[Len(Op)] = "kBC"
    BY DEF Last
  <2> QED BY <2>1, <2>3, <2>4
<1>3. n # 0
  <2>1. ASSUME n = 0 PROVE FALSE
    <3>1. Op[1] = "kBC"
      BY <1>2, <2>1
    <3>2. Op[1] \in KnownVerbs
      BY <1>2, VerbsKnown
    <3> QED BY <3>1, <3>2 DEF KnownVerbs, Arithmetic, Comparing, Branching, Skipping
  <2> QED BY <2>1
<1>4. n \in 1 .. Len(Op) - 1 /\ Op[n + 1] = "kBC"
  BY <1>2, <1>3
<1>5. n = 2 /\ VerbHere \in {"LOAD", "NAME", "CALLFN"}
  BY <1>2, <1>4, OpcodeFields DEF FieldFacts
<1>6. FieldAt(2) = "kBC"
  <2>1. FieldOf(Op, 2, VerbHere, FieldAt(2))
    BY <1>1, <1>4, <1>5, FieldHere
  <2> QED BY <1>4, <1>5, <2>1 DEF FieldOf
<1>7. Field(2) \in Int
  BY <1>4, <1>5 DEF Fetched
<1>8. CASE VerbHere = "LOAD"
  BY <1>1, <1>6, <1>7, <1>8, LoadHere
<1>9. CASE VerbHere = "CALLFN"
  BY <1>1, <1>7, <1>9, LibraryHere
<1>10. CASE VerbHere = "NAME"
  <2>1. VerbHere \notin Idle
    BY <1>10 DEF Idle
  <2>2. OperandHere(2)
    BY <1>1, <1>4, <1>5, <2>1, ArgsCount
  <2>3. Args[2].t = "text"
    BY <1>1, <1>10, <2>1, ArgsCount DEF GoodForms, Registers, Idle, Arithmetic, Comparing, Branching, Skipping, Named2
  <2> QED BY <1>1, <1>6, <1>7, <2>2, <2>3, ConstantHere
<1> QED BY <1>5, <1>8, <1>9, <1>10

-----------------------------------------------------------------------------
(* What ends the program, in the VM and as the source says.                *)

LEMMA CodeHere ==
  ASSUME Going
  PROVE  /\ Len(Promise!Code) = Len(Func.code) /\ DOMAIN Promise!Code = 1 .. Len(Func.code)
         /\ Len(Func.code) \in Nat /\ here.pc \in Int /\ here.base \in Int /\ here.func \in Nat
<1>1. Compiled /\ Placed(here)
  BY DEF Going
<1> PICK i, f : i = here.func + 1 /\ f = Func
  OBVIOUS
<1>2. i \in DOMAIN functions /\ f = functions[i] /\ here.pc \in Int /\ here.base \in Int /\ here.func \in Nat
  BY <1>1 DEF Placed, Places, Func
<1>3. Len(f.code) = Cardinality(CodeOf(f.name)) /\ Len(f.code) \in 0 .. Len(source)
  BY <1>1, <1>2, SourceAt
<1>4. Promise!Code = Promise!Instructions(f.name)
  BY GoingIsHere, HereIs
<1> PICK code, n : code = Promise!Code /\ n = Len(f.code)
  OBVIOUS
<1>5. n \in Nat
  BY <1>3
<1>6. code = [k \in 1 .. n |-> source[Nth(CodeOf(f.name), k)]]
  BY <1>3, <1>4, InstructionsSame
<1>7. DOMAIN code = 1 .. n /\ Len(code) = n
  BY <1>5, <1>6
<1> QED BY <1>2, <1>5, <1>7

Touching(verb, x) ==
  CASE verb = "RETURN" -> {0}
    [] verb = "CALLFN" -> {x[1].n}
    [] verb \in {"NOOP", "ARG"} -> {}
    [] OTHER -> {x[i].n : i \in {j \in DOMAIN x : IsReg(x[j])}}

LEMMA TouchingHere ==
  ASSUME Fetched
  PROVE  Promise!Touched = Touching(VerbHere, Args)
<1>1. Promise!Here.verb = VerbHere /\ Promise!Operands = Args
  BY HereIs DEF Fetched, InstructionHere
<1>2. \A t : Promise!IsReg(t) <=> IsReg(t)
  BY DEF Promise!IsReg, IsReg
<1> QED BY <1>1, <1>2 DEF Promise!Touched, Touching

LEMMA SlotsAre ==
  ASSUME Fetched
  PROVE  /\ Slots \subseteq Touching(VerbHere, Args)
         /\ VerbHere # "FUNCREF" => Slots = Touching(VerbHere, Args)
<1>1. InstructionHere /\ DOMAIN Fields(Op) = 1 .. Len(Op) - 1
  BY DEF Fetched, InstructionHere
<1>2. CASE VerbHere = "RETURN"
  BY <1>2 DEF Slots, Touching
<1>3. CASE VerbHere = "CALLFN"
  BY <1>1, <1>3, CountHere DEF Slots, Touching
<1>4. CASE VerbHere = "ARG"
  BY <1>4 DEF Slots, Touching
<1>5. CASE VerbHere = "NOOP"
  <2>1. DOMAIN Fields(Op) = {}
    <3>1. Len(Op) = Count(VerbHere) + 1
      BY DEF Fetched, InstructionHere
    <3>2. Count(VerbHere) = 0
      BY <1>5 DEF Count, NoOperand
    <3> QED BY <1>1, <3>1, <3>2
  <2>2. Slots = {}
    BY <1>5, <2>1 DEF Slots
  <2>3. Touching(VerbHere, Args) = {}
    BY <1>5 DEF Touching
  <2> QED BY <2>2, <2>3
<1>6. CASE VerbHere \notin {"RETURN", "CALLFN", "ARG", "NOOP"}
  <2>1. VerbHere \notin Idle
    BY <1>6 DEF Idle
  <2>2. DOMAIN Args = 1 .. Len(Op) - 1
    BY <1>1, <2>1 DEF InstructionHere
  <2>3. ASSUME NEW i \in 1 .. Len(Op) - 1
        PROVE  /\ IsRegister(i) => Field(i) = Args[i].n /\ IsReg(Args[i])
               /\ IsReg(Args[i]) /\ VerbHere # "FUNCREF" => IsRegister(i) /\ Field(i) = Args[i].n
    BY <1>1, <2>1, <2>3, SlotsHere DEF SlotOf
  <2>4. Slots = {Field(i) : i \in {j \in 1 .. Len(Op) - 1 : IsRegister(j)}}
    BY <1>1, <1>6 DEF Slots
  <2>5. Touching(VerbHere, Args) = {Args[i].n : i \in {j \in 1 .. Len(Op) - 1 : IsReg(Args[j])}}
    BY <1>6, <2>2 DEF Touching
  <2> QED BY <2>3, <2>4, <2>5
<1> QED BY <1>2, <1>3, <1>4, <1>5, <1>6

LEMMA DivisionHere ==
  ASSUME Fetched, VerbHere \in {"DIV", "MOD"}
  PROVE  is_int(OperandValue(2)) /\ OperandValue(3) = make_int(0)
           <=> Promise!is_int(Promise!Value(Args[2])) /\ Promise!Value(Args[3]) = Promise!make_int(0)
<1>1. VerbHere \in Arithmetic
  BY DEF Arithmetic
<1>2. ValueHere(2) /\ ValueHere(3)
  BY <1>1, CalculationHere
<1> QED BY <1>2, KindsSame, MakersSame DEF ValueHere

CallsBounded == callStack \in Seq(Places) /\ Len(callStack) <= MaxCalls

LEMMA WaitingIs ==
  ASSUME CallsBounded
  PROVE  /\ Len(Waiting) = Len(callStack) /\ DOMAIN Waiting = DOMAIN callStack
         /\ Len(callStack) \in Nat /\ DOMAIN callStack = 1 .. Len(callStack) /\ MaxCalls \in Nat
<1> PICK q : q = callStack
  OBVIOUS
<1>1. q \in Seq(Places) /\ MaxCalls \in Nat
  BY MachineAssumption DEF CallsBounded
<1>2. Len(q) \in Nat /\ DOMAIN q = 1 .. Len(q)
  BY <1>1, LenProperties
<1>3. Waiting = [i \in 1 .. Len(q) |-> [at |-> PositionOf(q[i]), base |-> q[i].base]]
  BY <1>2 DEF Waiting
<1>4. DOMAIN Waiting = 1 .. Len(q) /\ Len(Waiting) = Len(q)
  BY <1>2, <1>3
<1> QED BY <1>1, <1>2, <1>4

FaultyAt ==
  \/ here.base > StackSize
  \/ \E n \in Touching(VerbHere, Args) : here.base + n >= StackSize
  \/ VerbHere = "RETURN" /\ CallsFull
  \/ /\ VerbHere \in {"DIV", "MOD"}
     /\ is_int(OperandValue(2)) /\ OperandValue(3) = make_int(0)

LEMMA FaultyHere ==
  ASSUME Fetched, CallsBounded
  PROVE  Promise!Faulty <=> here.pc < 0 \/ FaultyAt
<1>1. AtHere /\ InstructionHere
  BY DEF Fetched
<1>2. Where[2] = here.pc + 1 /\ At.base = here.base /\ here.pc \in Int /\ here.pc + 1 \in DOMAIN Promise!Code
  BY <1>1, HereIs DEF AtHere, InstructionHere
<1>3. Promise!Here.verb = VerbHere /\ Promise!Operands = Args
  BY <1>1, HereIs DEF InstructionHere
<1>4. Len(Waiting) = MaxCalls <=> CallsFull
  BY WaitingIs DEF CallsFull, CallsBounded
<1>5. Promise!Faulty <=>
        \/ here.pc + 1 < 1
        \/ here.base > StackSize
        \/ \E n \in Promise!Touched : here.base + n >= StackSize
        \/ VerbHere = "RETURN" /\ CallsFull
        \/ /\ VerbHere \in {"DIV", "MOD"}
           /\ Promise!is_int(Promise!Value(Args[2])) /\ Promise!Value(Args[3]) = Promise!make_int(0)
  BY <1>2, <1>3, <1>4 DEF Promise!Faulty
<1> QED BY <1>2, <1>5, TouchingHere, DivisionHere DEF FaultyAt

LEMMA ThrowsHere ==
  ASSUME Going, InCode, CallsBounded
  PROVE  /\ Throws => Promise!Faulty
         /\ ~Throws /\ VerbHere # "FUNCREF" => ~Promise!Faulty
<1>1. Fetched /\ here.pc \in Int /\ InCode
  BY FetchedHere, CodeHere
<1>2. ~(Last(Op) = "kBC" /\ Field(2) >= Len(Func.constants))
  <2>1. ASSUME Last(Op) = "kBC" PROVE ~(Field(2) >= Len(Func.constants))
    <3> PICK cs, m : cs = Func.constants /\ m = Field(2)
      OBVIOUS
    <3>1. m < Len(cs) /\ m \in Int /\ cs \in Seq(Constants)
      BY <1>1, <2>1, ConstantsThere DEF Fetched, Sized
    <3>2. Len(cs) \in Nat
      BY <3>1, LenProperties
    <3> QED BY <3>1, <3>2
  <2> QED BY <2>1
<1>3. Throws <=> \/ here.pc < 0
                 \/ here.base > StackSize
                 \/ \E n \in Slots : here.base + n >= StackSize
                 \/ VerbHere = "RETURN" /\ CallsFull
                 \/ /\ VerbHere \in {"DIV", "MOD"}
                    /\ is_int(OperandValue(2)) /\ OperandValue(3) = make_int(0)
  BY <1>1, <1>2 DEF Throws
<1>4. Promise!Faulty <=> here.pc < 0 \/ FaultyAt
  BY <1>1, FaultyHere
<1> QED BY <1>1, <1>3, <1>4, SlotsAre DEF FaultyAt

LEMMA ThrowsEarly ==
  ASSUME Going, ~InCode
  PROVE  /\ Throws => Promise!Faulty
         /\ here.pc >= Len(Func.code) => ~Promise!Faulty /\ Where[2] > Len(Promise!Code)
<1>1. here.pc \in Int /\ Len(Func.code) \in Nat /\ DOMAIN Promise!Code = 1 .. Len(Func.code)
      /\ Len(Promise!Code) = Len(Func.code)
  BY CodeHere
<1>2. Where[2] = here.pc + 1
  BY GoingIsHere DEF AtHere
<1>3. here.pc + 1 \notin DOMAIN Promise!Code
  BY <1>1 DEF InCode
<1>4. Promise!Faulty <=> here.pc + 1 < 1
  BY <1>2, <1>3 DEF Promise!Faulty
<1> QED BY <1>1, <1>2, <1>4 DEF Throws

-----------------------------------------------------------------------------
(* Each instruction does what its line says.                               *)

InRun == stage = "run" /\ isRunning /\ Quiet /\ Loaded

LEMMA InRunHere == InRun => AtHere
<1> SUFFICES ASSUME InRun PROVE AtHere
  OBVIOUS
<1>1. At = here
  BY DEF InRun, At
<1>2. Status = "running"
  BY StatusIs DEF InRun
<1>3. Where = PositionOf(At)
  BY <1>2, WhereIs DEF InRun
<1> QED BY <1>1, <1>2, <1>3 DEF AtHere, PositionOf, Func

LEMMA InRunThere == InRun' => AtHere'
BY InRunHere, PTL

Standing == <<At.base, Waiting, Status, result>>

LEMMA StepThere ==
  ASSUME Going, Stay, here' \in Places
  PROVE  AtHere' /\ Where' = <<functions[here'.func + 1].name, here'.pc + 1>> /\ At' = here'
         /\ Status' = Status /\ result' = result /\ source' = source
<1>1. AtHere /\ Loaded
  BY GoingIsHere
<1>2. InRun'
  BY <1>1 DEF Going, Stay, RunVars, InRun, Loaded, Assembled, Quiet
<1>3. AtHere'
  BY <1>2, InRunThere
<1> QED BY <1>1, <1>3 DEF AtHere, Func, Stay, RunVars

LEMMA AdvanceThere ==
  ASSUME Going, Stay, UNCHANGED callStack, NEW d \in Int, Advance(d)
  PROVE  Where' = <<Where[1], here.pc + 1 + d + 1>> /\ UNCHANGED Standing /\ source' = source
<1>1. here \in Places /\ AtHere
  BY GoingIsHere DEF Going, Placed
<1>2. /\ here' \in Places /\ here'.base = here.base /\ here'.func = here.func
      /\ here'.pc = here.pc + 1 + d
  BY <1>1 DEF Advance, Places
<1>3. At' = here' /\ Where' = <<functions[here'.func + 1].name, here'.pc + 1>>
      /\ Status' = Status /\ result' = result /\ source' = source
  BY <1>2, StepThere
<1>4. At'.base = At.base
  BY <1>1, <1>2, <1>3 DEF AtHere
<1>5. Waiting' = Waiting
  BY DEF Waiting, PositionOf, Stay, RunVars
<1>6. Where' = <<Where[1], here.pc + 1 + d + 1>>
  BY <1>1, <1>2, <1>3 DEF AtHere, Func
<1> QED BY <1>3, <1>4, <1>5, <1>6 DEF Standing

LEMMA PromiseAt ==
  ASSUME Going, CallsBounded, NEW verbs, Execute(verbs), "FUNCREF" \notin verbs
  PROVE  Promise!At(verbs) /\ Fetched
<1>1. InCode /\ ~Throws /\ VerbHere \in verbs
  BY DEF Execute
<1>2. Fetched
  BY <1>1, FetchedHere
<1>3. AtHere /\ InstructionHere
  BY <1>2 DEF Fetched
<1>4. ~Promise!Faulty
  BY <1>1, ThrowsHere
<1>5. Where[2] \in DOMAIN Promise!Code
  BY <1>3, HereIs DEF AtHere, InstructionHere
<1>6. Promise!Here.verb = VerbHere
  BY <1>3, HereIs DEF InstructionHere
<1> QED BY <1>1, <1>2, <1>3, <1>4, <1>5, <1>6 DEF Promise!At, AtHere

LEMMA GoesTo ==
  ASSUME Going, Stay, UNCHANGED callStack, NEW d \in Int, Advance(d)
  PROVE  /\ \A k : k = here.pc + 1 + d + 1 => Promise!Go(k)
         /\ d = 0 => Promise!Onwards
         /\ UNCHANGED Standing /\ source' = source
<1>1. Where' = <<Where[1], here.pc + 1 + d + 1>> /\ UNCHANGED Standing /\ source' = source
  BY AdvanceThere
<1>2. Where[2] = here.pc + 1 /\ here.pc \in Int
  BY GoingIsHere, CodeHere DEF AtHere
<1>3. \A k : k = here.pc + 1 + d + 1 => Promise!Go(k)
  BY <1>1 DEF Promise!Go
<1>4. d = 0 => Where[2] + 1 = here.pc + 1 + d + 1
  BY <1>2
<1> QED BY <1>1, <1>3, <1>4 DEF Promise!Onwards

LEMMA SetsRegister ==
  ASSUME AtHere, NEW v, Field(1) = Args[1].n, SetRegister(Field(1), v)
  PROVE  Promise!SetRegister(Promise!Operands[1].n, v)
BY HereIs DEF AtHere, SetRegister, Promise!SetRegister

LEMMA NoOpDoes ==
  ASSUME Going, CallsBounded, NoOp
  PROVE  Promise!NoOperation /\ source' = source
<1>1. Promise!At({"NOOP"})
  BY PromiseAt DEF NoOp
<1>2. Promise!Onwards /\ UNCHANGED Standing /\ source' = source
  BY GoesTo DEF NoOp
<1> QED BY <1>1, <1>2 DEF NoOp, Promise!NoOperation, Standing

LEMMA LoadDoes ==
  ASSUME Going, CallsBounded, Load
  PROVE  Promise!Assign /\ source' = source
<1>1. Promise!At({"LOAD"}) /\ Fetched /\ VerbHere = "LOAD"
  BY PromiseAt DEF Load, Execute
<1>2. Promise!Onwards /\ UNCHANGED Standing /\ source' = source
  BY GoesTo DEF Load
<1>3. AtHere /\ SlotOf(1) /\ ValueHere(2)
  BY <1>1, LoadHere DEF Fetched
<1>4. Promise!Operands = Args /\ Promise!Here.verb = "LOAD"
  BY <1>1, <1>3, HereIs DEF Fetched, InstructionHere
<1>5. SetRegister(Field(1), Promise!Value(Promise!Operands[2]))
  BY <1>3, <1>4 DEF Load, ValueHere
<1>6. Promise!SetRegister(Promise!Operands[1].n, Promise!Value(Promise!Operands[2]))
  BY <1>3, <1>5, SetsRegister DEF SlotOf
<1>7. Promise!At({"LOAD"} \union Arithmetic \union Comparing)
  BY <1>1 DEF Promise!At
<1> QED BY <1>2, <1>4, <1>6, <1>7, VerbsSame DEF Promise!Assign, Standing, Arithmetic

LEMMA CalculationDoes ==
  ASSUME Going, CallsBounded, Calculation
  PROVE  Promise!Assign /\ source' = source
<1>1. Promise!At(Arithmetic) /\ Fetched /\ VerbHere \in Arithmetic
  BY PromiseAt DEF Calculation, Execute, Arithmetic
<1>2. Promise!Onwards /\ UNCHANGED Standing /\ source' = source
  BY GoesTo DEF Calculation
<1>3. AtHere /\ SlotOf(1) /\ ValueHere(2) /\ ValueHere(3)
  BY <1>1, CalculationHere DEF Fetched
<1>4. Promise!Operands = Args /\ Promise!Here.verb = VerbHere
  BY <1>1, <1>3, HereIs DEF Fetched, InstructionHere
<1> PICK v : v = Promise!Calculate(Promise!Here.verb, Promise!Value(Promise!Operands[2]), Promise!Value(Promise!Operands[3]))
  OBVIOUS
<1>5. v = Calculate(VerbHere, OperandValue(2), OperandValue(3))
  BY <1>3, <1>4, ArithmeticSame DEF ValueHere
<1>6. Promise!SetRegister(Promise!Operands[1].n, v)
  BY <1>3, <1>5, SetsRegister DEF SlotOf, Calculation
<1>7. Promise!At({"LOAD"} \union Arithmetic \union Comparing)
  BY <1>1 DEF Promise!At
<1>8. Promise!Here.verb # "LOAD" /\ Promise!Here.verb \in Arithmetic
  BY <1>1, <1>4 DEF Arithmetic
<1> QED BY <1>2, <1>6, <1>7, <1>8, VerbsSame DEF Promise!Assign, Standing

LEMMA CompareDoes ==
  ASSUME Going, CallsBounded, Compare
  PROVE  Promise!Assign /\ source' = source
<1>1. Promise!At(Comparing) /\ Fetched /\ VerbHere \in Comparing
  BY PromiseAt DEF Compare, Execute, Comparing
<1>2. Promise!Onwards /\ UNCHANGED Standing /\ source' = source
  BY GoesTo DEF Compare
<1>3. AtHere /\ SlotOf(1) /\ ValueHere(2) /\ ValueHere(3)
  BY <1>1, CompareHere DEF Fetched
<1>4. Promise!Operands = Args /\ Promise!Here.verb = VerbHere
  BY <1>1, <1>3, HereIs DEF Fetched, InstructionHere
<1> PICK b : b = IF Promise!Holds(Promise!Here.verb, Promise!Value(Promise!Operands[2]), Promise!Value(Promise!Operands[3])) THEN 1 ELSE 0
  OBVIOUS
<1>5. b = IF Holds(VerbHere, OperandValue(2), OperandValue(3)) THEN 1 ELSE 0
  BY <1>1, <1>3, <1>4, ComparisonsSame DEF ValueHere
<1>6. Promise!SetRegister(Promise!Operands[1].n, make_int(b))
  BY <1>3, <1>5, SetsRegister DEF SlotOf, Compare
<1>7. Promise!At({"LOAD"} \union Arithmetic \union Comparing)
  BY <1>1 DEF Promise!At
<1>8. Promise!Here.verb # "LOAD" /\ Promise!Here.verb \notin Arithmetic
  BY <1>1, <1>4 DEF Arithmetic, Comparing
<1>9. make_int(b) = Promise!make_int(b)
  BY MakersSame
<1> QED BY <1>2, <1>6, <1>7, <1>8, <1>9, VerbsSame DEF Promise!Assign, Standing

Jumping == {"JUMP", "BRTRUE", "BRFALSE"} \union Branching \union Skipping
Next1 ==
  CASE Promise!Here.verb \in Promise!Skipping /\ ~Promise!Taken -> Where[2] + 2
    [] Promise!Here.verb \notin Promise!Skipping /\ Promise!Taken -> Promise!Target(Promise!Last(Promise!Operands))
    [] OTHER -> Where[2] + 1

LEMMA BranchesTo ==
  ASSUME Going, CallsBounded, NEW verbs \in SUBSET Jumping, Execute(verbs), Stay, UNCHANGED <<stack, callStack>>,
         NEW d \in Int, Advance(d), Next1 = here.pc + 1 + d + 1
  PROVE  Promise!Branch /\ source' = source
<1>1. Promise!At(verbs)
  BY PromiseAt DEF Jumping, Branching, Skipping
<1>2. Promise!At(Jumping)
  BY <1>1 DEF Promise!At
<1>3. Promise!Go(Next1) /\ UNCHANGED Standing /\ source' = source
  BY GoesTo
<1> QED BY <1>2, <1>3, VerbsSame DEF Promise!Branch, Jumping, Standing, Next1

LEMMA JumpingHere ==
  ASSUME Going, CallsBounded, NEW verbs \in SUBSET Jumping, Execute(verbs)
  PROVE  /\ Fetched /\ VerbHere \in verbs /\ AtHere /\ InstructionHere
         /\ Promise!Operands = Args /\ Promise!Here.verb = VerbHere /\ Where[2] = here.pc + 1 /\ here.pc \in Int
         /\ Promise!Last(Promise!Operands) = Args[Len(Args)]
         /\ Len(Args) = Len(Op) - 1
         /\ \A i \in 1 .. Len(Args) : Field(i) \in Int
<1>1. Fetched /\ VerbHere \in verbs
  BY PromiseAt DEF Execute, Jumping, Branching, Skipping
<1>2. AtHere /\ InstructionHere /\ here.pc \in Int /\ VerbHere \notin Idle
  BY <1>1 DEF Fetched, InstructionHere, Idle, Jumping, Branching, Skipping
<1>3. Promise!Operands = Args /\ Promise!Here.verb = VerbHere
  BY <1>2, HereIs DEF InstructionHere
<1>4. Len(Args) = Len(Op) - 1
  BY <1>2, ArgsCount
<1> QED BY <1>1, <1>2, <1>3, <1>4 DEF AtHere, Fetched, Promise!Last

LEMMA JumpDoes ==
  ASSUME Going, CallsBounded, Jump
  PROVE  Promise!Branch /\ source' = source
<1>0. {"JUMP"} \in SUBSET Jumping /\ Execute({"JUMP"})
  BY DEF Jumping, Jump
<1>1. /\ VerbHere = "JUMP" /\ AtHere /\ InstructionHere /\ Promise!Here.verb = VerbHere
      /\ Promise!Last(Promise!Operands) = Args[Len(Args)] /\ \A i \in 1 .. Len(Args) : Field(i) \in Int
  BY <1>0, JumpingHere
<1>2. Len(Args) = 1 /\ here.pc + 1 + Field(1) + 1 = Promise!Target(Args[1])
  BY <1>1, JumpsHere
<1>3. Field(1) \in Int
  BY <1>1, <1>2
<1>4. Next1 = Promise!Target(Args[1])
  <2>1. Promise!Here.verb \notin Promise!Skipping /\ Promise!Taken
    BY <1>1 DEF Promise!Skipping, Promise!Taken
  <2> QED BY <1>1, <1>2, <2>1 DEF Next1
<1> QED BY <1>0, <1>2, <1>3, <1>4, BranchesTo DEF Jump

LEMMA BranchIfDoes ==
  ASSUME Going, CallsBounded, BranchIf
  PROVE  Promise!Branch /\ source' = source
<1>0. {"BRTRUE", "BRFALSE"} \in SUBSET Jumping /\ Execute({"BRTRUE", "BRFALSE"})
  BY DEF Jumping, BranchIf
<1>1. /\ VerbHere \in {"BRTRUE", "BRFALSE"} /\ AtHere /\ InstructionHere /\ Promise!Here.verb = VerbHere
      /\ Promise!Operands = Args /\ Where[2] = here.pc + 1 /\ here.pc \in Int
      /\ Promise!Last(Promise!Operands) = Args[Len(Args)] /\ \A i \in 1 .. Len(Args) : Field(i) \in Int
  BY <1>0, JumpingHere
<1>2. Len(Args) = 2 /\ here.pc + 1 + Field(2) + 1 = Promise!Target(Args[2])
  BY <1>1, JumpsHere
<1>3. Field(2) \in Int
  BY <1>1, <1>2
<1>4. ValueHere(1)
  <2>1. Fetched
    BY <1>0, JumpingHere
  <2> QED BY <1>1, <2>1, TestHere
<1> PICK d : d = IF is_truthy(OperandValue(1)) = (VerbHere = "BRTRUE") THEN Field(2) ELSE 0
  OBVIOUS
<1>5. d \in Int /\ Advance(d)
  BY <1>3 DEF BranchIf
<1>6. Promise!Taken <=> (is_truthy(OperandValue(1)) <=> VerbHere = "BRTRUE")
  BY <1>1, <1>4, KindsSame DEF ValueHere, Promise!Taken
<1>7. Promise!Here.verb \notin Promise!Skipping
  BY <1>1 DEF Promise!Skipping
<1>8. Next1 = IF Promise!Taken THEN Promise!Target(Args[2]) ELSE Where[2] + 1
  BY <1>1, <1>2, <1>7 DEF Next1
<1>9. d = IF Promise!Taken THEN Field(2) ELSE 0
  <2>1. is_truthy(OperandValue(1)) \in BOOLEAN
    BY DEF is_truthy, is_null, is_int, is_double, is_string
  <2>2. (is_truthy(OperandValue(1)) = (VerbHere = "BRTRUE")) <=> (is_truthy(OperandValue(1)) <=> VerbHere = "BRTRUE")
    BY <2>1
  <2> QED BY <1>6, <2>2
<1>10. Next1 = here.pc + 1 + d + 1
  BY <1>1, <1>2, <1>3, <1>8, <1>9
<1> QED BY <1>0, <1>5, <1>10, BranchesTo DEF BranchIf

LEMMA BranchDoes ==
  ASSUME Going, CallsBounded, Branch
  PROVE  Promise!Branch /\ source' = source
<1>0. Branching \in SUBSET Jumping /\ Execute(Branching)
  BY DEF Jumping, Branch
<1>1. /\ VerbHere \in Branching /\ AtHere /\ InstructionHere /\ Promise!Here.verb = VerbHere
      /\ Promise!Operands = Args /\ Where[2] = here.pc + 1 /\ here.pc \in Int
      /\ Promise!Last(Promise!Operands) = Args[Len(Args)] /\ \A i \in 1 .. Len(Args) : Field(i) \in Int
  BY <1>0, JumpingHere
<1>2. Len(Args) = 3 /\ here.pc + 1 + Field(3) + 1 = Promise!Target(Args[3])
  BY <1>1, JumpsHere
<1>3. Field(3) \in Int
  BY <1>1, <1>2
<1>4. ValueHere(1) /\ ValueHere(2)
  <2>1. Fetched
    BY <1>0, JumpingHere
  <2> QED BY <1>1, <2>1, TestHere DEF Branching
<1> PICK d : d = IF Holds(VerbHere, OperandValue(1), OperandValue(2)) THEN Field(3) ELSE 0
  OBVIOUS
<1>5. d \in Int /\ Advance(d)
  BY <1>3 DEF Branch
<1>6. Promise!Taken <=> Holds(VerbHere, OperandValue(1), OperandValue(2))
  <2>1. Promise!Taken <=> Promise!Holds(VerbHere, Promise!Value(Args[1]), Promise!Value(Args[2]))
    BY <1>1 DEF Promise!Taken, Branching
  <2> QED BY <1>1, <1>4, <2>1, ComparisonsSame DEF ValueHere
<1>7. Promise!Here.verb \notin Promise!Skipping
  BY <1>1 DEF Promise!Skipping, Branching
<1>8. Next1 = IF Promise!Taken THEN Promise!Target(Args[3]) ELSE Where[2] + 1
  BY <1>1, <1>2, <1>7 DEF Next1
<1>9. Next1 = here.pc + 1 + d + 1
  BY <1>1, <1>2, <1>3, <1>6, <1>8
<1> QED BY <1>0, <1>5, <1>9, BranchesTo DEF Branch

LEMMA SkipDoes ==
  ASSUME Going, CallsBounded, Skip
  PROVE  Promise!Branch /\ source' = source
<1>0. Skipping \in SUBSET Jumping /\ Execute(Skipping)
  BY DEF Jumping, Skip
<1>1. /\ VerbHere \in Skipping /\ AtHere /\ Promise!Here.verb = VerbHere
      /\ Promise!Operands = Args /\ Where[2] = here.pc + 1 /\ here.pc \in Int
  BY <1>0, JumpingHere
<1>2. ValueHere(1) /\ ValueHere(2)
  <2>1. Fetched
    BY <1>0, JumpingHere
  <2> QED BY <1>1, <2>1, TestHere DEF Skipping
<1> PICK d : d = IF Holds(VerbHere, OperandValue(1), OperandValue(2)) THEN 0 ELSE 1
  OBVIOUS
<1>3. d \in Int /\ Advance(d)
  BY DEF Skip
<1>4. Promise!Taken <=> Holds(VerbHere, OperandValue(1), OperandValue(2))
  <2>1. Promise!Taken <=> Promise!Holds(VerbHere, Promise!Value(Args[1]), Promise!Value(Args[2]))
    BY <1>1 DEF Promise!Taken, Skipping
  <2> QED BY <1>1, <1>2, <2>1, ComparisonsSame DEF ValueHere
<1>5. Promise!Here.verb \in Promise!Skipping
  BY <1>1, VerbsSame
<1>6. Next1 = IF Promise!Taken THEN Where[2] + 1 ELSE Where[2] + 2
  BY <1>5 DEF Next1
<1>7. Next1 = here.pc + 1 + d + 1
  BY <1>1, <1>4, <1>6
<1> QED BY <1>0, <1>3, <1>7, BranchesTo DEF Skip

\* Calls and returns move the same places in both stacks.
Entry(p) == [at |-> PositionOf(p), base |-> p.base]
Entries(q) == [i \in DOMAIN q |-> Entry(q[i])]

LEMMA EntriesAre ==
  ASSUME NEW q \in Seq(Places), NEW p \in Places
  PROVE  /\ Entries(Append(q, p)) = Append(Entries(q), Entry(p))
         /\ q = <<>> <=> Entries(q) = <<>>
         /\ q # <<>> => /\ Entries(Front(q)) = Promise!Front(Entries(q))
                        /\ Promise!Last(Entries(q)) = Entry(Last(q)) /\ Last(q) \in Places
<1> PICK n : n = Len(q)
  OBVIOUS
<1>1. n \in Nat /\ DOMAIN q = 1 .. n
  BY LenProperties
<1> PICK w : w = Entries(q)
  OBVIOUS
<1>2. w = [i \in 1 .. n |-> Entry(q[i])]
  BY <1>1 DEF Entries
<1>3. w \in Seq({Entry(q[i]) : i \in 1 .. n} \union {Entry(p)}) /\ Len(w) = n
  BY <1>1, <1>2
<1>4. Entries(Append(q, p)) = Append(w, Entry(p))
  <2> PICK a : a = Append(q, p)
    OBVIOUS
  <2>1. DOMAIN a = 1 .. n + 1 /\ a[n + 1] = p /\ \A i \in 1 .. n : a[i] = q[i]
    BY <1>1, AppendProperties
  <2>2. Entries(a) = [i \in 1 .. n + 1 |-> Entry(a[i])]
    BY <2>1 DEF Entries
  <2>3. Append(w, Entry(p)) = [i \in 1 .. n + 1 |-> IF i = n + 1 THEN Entry(p) ELSE w[i]]
    <3> PICK e, T, c : e = Entry(p) /\ T = {Entry(q[i]) : i \in 1 .. n} \union {Entry(p)} /\ c = Append(w, e)
      OBVIOUS
    <3>1. w \in Seq(T) /\ e \in T
      BY <1>3
    <3>2. c \in Seq(T) /\ Len(c) = n + 1 /\ c[n + 1] = e /\ \A i \in 1 .. n : c[i] = w[i]
      BY <1>1, <1>3, <3>1, AppendProperties
    <3>3. c \in [1 .. n + 1 -> T]
      BY <3>2, LenProperties
    <3>4. ASSUME NEW i \in 1 .. n + 1 PROVE c[i] = IF i = n + 1 THEN e ELSE w[i]
      BY <1>1, <3>2, <3>4
    <3>5. c = [i \in 1 .. n + 1 |-> IF i = n + 1 THEN e ELSE w[i]]
      BY <3>3, <3>4
    <3> QED BY <3>5
  <2>4. ASSUME NEW i \in 1 .. n + 1 PROVE Entry(a[i]) = IF i = n + 1 THEN Entry(p) ELSE w[i]
    BY <1>1, <1>2, <2>1, <2>4
  <2> QED BY <2>2, <2>3, <2>4
<1>5. q = <<>> <=> w = <<>>
  BY <1>1, <1>3
<1>6. ASSUME q # <<>>
      PROVE  Entries(Front(q)) = Promise!Front(w) /\ Promise!Last(w) = Entry(Last(q)) /\ Last(q) \in Places
  <2>1. n \in Nat \ {0}
    BY <1>1, <1>6
  <2>2. Last(q) = q[n] /\ Last(q) \in Places
    BY <1>1, <2>1 DEF Last
  <2>3. Promise!Last(w) = w[n]
    BY <1>3 DEF Promise!Last
  <2>4. Front(q) = [i \in 1 .. n - 1 |-> q[i]]
    BY <1>1, <2>1 DEF Front
  <2>5. Promise!Front(w) = [i \in 1 .. n - 1 |-> w[i]]
    BY <1>3, <2>1 DEF Promise!Front
  <2>6. Entries(Front(q)) = [i \in 1 .. n - 1 |-> Entry(q[i])]
    BY <2>4 DEF Entries
  <2>7. ASSUME NEW i \in 1 .. n - 1 PROVE Entry(q[i]) = w[i]
    BY <1>2, <2>1, <2>7
  <2>8. Promise!Last(w) = Entry(Last(q))
    BY <1>2, <2>1, <2>2, <2>3
  <2> QED BY <2>2, <2>5, <2>6, <2>7, <2>8
<1> QED BY <1>4, <1>5, <1>6

LEMMA WaitingEntries ==
  /\ Waiting = Entries(callStack)
  /\ UNCHANGED functions => Waiting' = Entries(callStack')
BY DEF Waiting, Entries, Entry, PositionOf

LEMMA CallNamedDoes ==
  ASSUME Going, CallsBounded, CallNamed
  PROVE  Promise!Library /\ source' = source
<1>1. Promise!At({"CALLFN"}) /\ Fetched /\ VerbHere = "CALLFN"
  BY PromiseAt DEF CallNamed, Execute
<1>2. Promise!Onwards /\ UNCHANGED Standing /\ source' = source
  <2>1. Advance(0) /\ Stay /\ UNCHANGED callStack
    BY Zenon DEF CallNamed
  <2> QED BY <2>1, GoesTo
<1>3. AtHere /\ InstructionHere /\ Sized
  BY <1>1 DEF Fetched
<1>4. Field(1) = Args[1].n /\ NameOf(Func.constants[Field(2) + 1]) = Args[2].s
  BY <1>1, <1>3, CountHere, LibraryHere
<1> PICK v : v = Intrinsic(NameOf(Func.constants[Field(2) + 1]), stack[here.base + Field(1)])
  OBVIOUS
<1>5. SetRegister(Field(1), v)
  BY Zenon DEF CallNamed, NameOf
<1>6. Promise!SetRegister(Promise!Operands[1].n, v)
  BY <1>3, <1>4, <1>5, SetsRegister
<1>7. v = Promise!Intrinsic(Promise!Operands[2].s, stack[At.base + Promise!Operands[1].n])
  BY <1>3, <1>4, HereIs, IntrinsicsSame DEF AtHere
<1> QED BY <1>1, <1>2, <1>6, <1>7 DEF Promise!Library, Standing

LEMMA CallFunctionDoes ==
  ASSUME Going, CallsBounded, CallFunction
  PROVE  Promise!Call /\ source' = source
<1>1. Promise!At({"CALLF"}) /\ Fetched /\ VerbHere = "CALLF"
  BY PromiseAt DEF CallFunction, Execute
<1>2. AtHere /\ InstructionHere /\ Sized
  BY <1>1 DEF Fetched
<1>3. /\ Field(1) = Args[1].n /\ Len(Args) = 2
      /\ functions[Field(2) + 1].name = Args[2].s /\ Field(2) \in Nat
  BY <1>1, <1>2, CountHere, CalleeHere
<1>4. Field(1) \in Int
  <2>1. VerbHere \notin Idle
    BY <1>1 DEF Idle
  <2>2. 1 \in 1 .. Len(Op) - 1
    BY <1>2, <1>3, <2>1, SameRange
  <2> QED BY <1>1, <2>2 DEF Fetched
<1>5. here \in Places /\ here.base \in Int /\ here.pc \in Int
  BY CodeHere DEF Going, Placed
<1> PICK b, f : b = here.base + Field(1) /\ f = Field(2)
  OBVIOUS
<1>6. here' = [pc |-> 0, base |-> b, func |-> f] /\ b \in Int /\ f \in Nat
  BY <1>3, <1>4, <1>5 DEF CallFunction
<1>7. here' \in Places /\ here'.pc = 0 /\ here'.base = b /\ here'.func = f
  BY <1>6 DEF Places
<1>8. Stay /\ Where' = <<functions[here'.func + 1].name, here'.pc + 1>> /\ At' = here'
      /\ Status' = Status /\ result' = result /\ source' = source
  BY <1>7, StepThere DEF CallFunction
<1>9. Promise!Operands = Args /\ At = here /\ Where = <<Func.name, here.pc + 1>>
  BY <1>2, HereIs DEF AtHere
<1>10. Where' = <<Promise!Operands[2].s, 1>> /\ At'.base = At.base + Promise!Operands[1].n
  BY <1>3, <1>7, <1>8, <1>9
<1> PICK p : p = [here EXCEPT !.pc = @ + 1]
  OBVIOUS
<1>11. p \in Places /\ p.pc = here.pc + 1 /\ p.base = here.base /\ p.func = here.func
  BY <1>5 DEF Places
<1>12. callStack' = Append(callStack, p) /\ UNCHANGED <<stack, functions>> /\ ~CallsFull
  BY DEF CallFunction, Stay, RunVars
<1>13. Waiting' = Append(Waiting, Entry(p))
  BY <1>11, <1>12, WaitingEntries, EntriesAre DEF CallsBounded
<1>14. Entry(p) = [at |-> <<Where[1], Where[2] + 1>>, base |-> At.base]
  BY <1>9, <1>11 DEF Entry, PositionOf, Func
<1>15. Len(Waiting) < MaxCalls
  BY <1>12, WaitingIs DEF CallsFull
<1> QED BY <1>1, <1>8, <1>10, <1>12, <1>13, <1>14, <1>15 DEF Promise!Call

LEMMA ReturnToCallerDoes ==
  ASSUME Going, CallsBounded, ReturnToCaller
  PROVE  Promise!Return /\ source' = source
<1>1. Promise!At({"RETURN"})
  BY PromiseAt DEF ReturnToCaller
<1>2. /\ callStack # <<>> /\ here' = Last(callStack) /\ callStack' = Front(callStack)
      /\ Stay /\ UNCHANGED <<stack, functions>>
  BY DEF ReturnToCaller, Stay, RunVars
<1>3. here \in Places
  BY DEF Going, Placed
<1>4. /\ Waiting # <<>> /\ Waiting' = Promise!Front(Waiting)
      /\ Promise!Last(Waiting) = Entry(Last(callStack)) /\ Last(callStack) \in Places
  BY <1>2, <1>3, WaitingEntries, EntriesAre DEF CallsBounded
<1>5. Where' = <<functions[here'.func + 1].name, here'.pc + 1>> /\ At' = here'
      /\ Status' = Status /\ result' = result /\ source' = source
  BY <1>2, <1>4, StepThere
<1>6. Where' = Promise!Last(Waiting).at /\ At'.base = Promise!Last(Waiting).base
  BY <1>2, <1>4, <1>5 DEF Entry, PositionOf
<1> QED BY <1>1, <1>2, <1>4, <1>5, <1>6 DEF Promise!Return

-----------------------------------------------------------------------------
(* The ends of a program.                                                  *)

EndedAs(how) == Status = how /\ Where = Promise!Nowhere
FailedNow == stage # "crashed" /\ ~Quiet /\ Loaded
StoppedNow == stage # "crashed" /\ Quiet /\ Loaded /\ ~isRunning
CrashedNow == stage = "crashed" /\ Loaded

LEMMA FailedEnds == FailedNow => EndedAs("error")
<1> SUFFICES ASSUME FailedNow PROVE EndedAs("error")
  OBVIOUS
<1>1. Status = "error"
  BY StatusIs DEF FailedNow
<1> QED BY <1>1, WhereIs DEF FailedNow, EndedAs
LEMMA StoppedEnds == StoppedNow => EndedAs("stopped")
<1> SUFFICES ASSUME StoppedNow PROVE EndedAs("stopped")
  OBVIOUS
<1>1. Status = "stopped"
  BY StatusIs DEF StoppedNow
<1> QED BY <1>1, WhereIs DEF StoppedNow, EndedAs
LEMMA CrashedEnds == CrashedNow => EndedAs("fault")
<1> SUFFICES ASSUME CrashedNow PROVE EndedAs("fault")
  OBVIOUS
<1>1. Status = "fault"
  BY StatusIs DEF CrashedNow
<1> QED BY <1>1, WhereIs DEF CrashedNow, EndedAs

LEMMA EndsThere ==
  /\ FailedNow' => EndedAs("error")'
  /\ StoppedNow' => EndedAs("stopped")'
  /\ CrashedNow' => EndedAs("fault")'
<1>1. FailedNow' => EndedAs("error")'
  BY FailedEnds, PTL
<1>2. StoppedNow' => EndedAs("stopped")'
  BY StoppedEnds, PTL
<1>3. CrashedNow' => EndedAs("fault")'
  BY CrashedEnds, PTL
<1> QED BY <1>1, <1>2, <1>3

\* Between two instructions, the place that is kept is the one to go on from, and
\* nothing has been returned.
Modes == mode \in {"batch", "vis"}
InStep ==
  /\ Modes /\ result = Null
  /\ mode = "vis" /\ cyclesLeft > 0 => saved = here

LEMMA StopsThere ==
  ASSUME NEW how, EndedAs(how)', UNCHANGED <<functions, callStack>>, At'.base = At.base
  PROVE  Promise!Stop(how)
<1>1. Status' = how /\ Where' = Promise!Nowhere
  BY DEF EndedAs, Promise!Nowhere
<1>2. Waiting' = Waiting
  BY DEF Waiting, PositionOf
<1> QED BY <1>1, <1>2 DEF Promise!Stop

\* Where the program is once Run has returned.
LEMMA AtLeft ==
  ASSUME Going, InStep, stage' = AfterRun, mode' = mode, here'.base = here.base,
         saved'.base = here.base \/ (saved' = saved /\ cyclesLeft > 0)
  PROVE  At'.base = At.base
<1>1. At = here
  BY GoingIsHere DEF AtHere
<1>2. CASE mode = "batch"
  <2>1. stage' = "finish"
    BY <1>2 DEF AfterRun
  <2>2. At' = here'
    BY <2>1 DEF At
  <2> QED BY <1>1, <2>2
<1>3. CASE mode = "vis"
  <2>1. stage' = "host"
    BY <1>3 DEF AfterRun
  <2>2. At' = saved'
    BY <2>1 DEF At
  <2>3. saved'.base = here.base
    BY <1>3 DEF InStep
  <2> QED BY <1>1, <2>2, <2>3
<1> QED BY <1>2, <1>3 DEF InStep, Modes

LEMMA LoadedLeft ==
  ASSUME Going, stage' = AfterRun, UNCHANGED <<source, hasError, lineNum>>
  PROVE  Loaded' /\ stage' # "crashed"
<1>1. stage' \in {"finish", "host"}
  BY DEF AfterRun
<1>2. Assembled
  BY GoingIsHere DEF Loaded
<1>3. Assembled'
  BY <1>2 DEF Assembled
<1>4. stage' \notin {"assembling", "assembled", "crashed"}
  BY <1>1
<1> QED BY <1>3, <1>4 DEF Loaded

LEMMA ThrowDoes ==
  ASSUME Going, CallsBounded, Throw
  PROVE  Promise!Fault /\ source' = source
<1>1. Status = "running" /\ At = here /\ Loaded
  BY GoingIsHere DEF AtHere
<1>2. Promise!Faulty
  BY ThrowsHere, ThrowsEarly DEF Throw
<1>3. CrashedNow'
  <2>1. Assembled'
    BY <1>1 DEF Throw, RunVars, Loaded, Assembled
  <2> QED BY <2>1 DEF Throw, CrashedNow, Loaded
<1>4. At'.base = At.base
  BY <1>1 DEF Throw, At
<1>5. Promise!Stop("fault")
  BY <1>3, <1>4, EndsThere, StopsThere DEF Throw, RunVars
<1> QED BY <1>1, <1>2, <1>5 DEF Promise!Fault, Throw, RunVars

LEMMA OutOfCodeDoes ==
  ASSUME Going, CallsBounded, InStep, OutOfCode
  PROVE  Promise!FallOff /\ source' = source
<1>1. Status = "running" /\ here.pc \in Int /\ Len(Func.code) \in Nat
  BY GoingIsHere, CodeHere DEF AtHere
<1>2. here.pc >= Len(Func.code) /\ ~InCode
  BY <1>1 DEF OutOfCode, InCode
<1>3. Where[2] > Len(Promise!Code)
  BY <1>2, ThrowsEarly
<1>4. /\ stage' = AfterRun /\ result' = result /\ saved' = here /\ isRunning' = FALSE
      /\ UNCHANGED <<source, functions, lineNum, hasError, mode, here, runtimeError, stack, callStack>>
  BY DEF OutOfCode, LeaveSaving, Leave, RunVars, hostVars, InStep
<1>5. StoppedNow'
  BY <1>4, LoadedLeft DEF StoppedNow, Going, Quiet
<1>6. At'.base = At.base
  BY <1>4, AtLeft
<1>7. Promise!Stop("stopped")
  BY <1>4, <1>5, <1>6, EndsThere, StopsThere
<1> QED BY <1>1, <1>3, <1>4, <1>7 DEF Promise!FallOff

LEMMA ReturnFromMainDoes ==
  ASSUME Going, CallsBounded, InStep, ReturnFromMain
  PROVE  Promise!Return /\ source' = source
<1>1. Promise!At({"RETURN"})
  BY PromiseAt DEF ReturnFromMain
<1>2. AtHere /\ here \in Places
  BY GoingIsHere DEF Going, Placed
<1>3. /\ stage' = AfterRun /\ result' = stack[here.base] /\ saved' = here' /\ isRunning' = FALSE
      /\ here' = [here EXCEPT !.pc = @ + 1] /\ callStack = <<>>
      /\ UNCHANGED <<source, functions, lineNum, hasError, mode, runtimeError, stack, callStack>>
  BY DEF ReturnFromMain, Leave, RunVars, hostVars
<1>4. here'.base = here.base /\ saved'.base = here.base
  BY <1>2, <1>3 DEF Places
<1>5. StoppedNow'
  BY <1>3, LoadedLeft DEF StoppedNow, Going, Quiet
<1>6. At'.base = At.base
  BY <1>3, <1>4, AtLeft
<1>7. Promise!Stop("stopped")
  BY <1>3, <1>5, <1>6, EndsThere, StopsThere
<1>8. Waiting = <<>>
  BY <1>2, <1>3, WaitingEntries, EntriesAre DEF CallsBounded
<1> QED BY <1>1, <1>2, <1>3, <1>7, <1>8 DEF Promise!Return, AtHere

LEMMA CannotIndexDoes ==
  ASSUME Going, CallsBounded, CannotIndex
  PROVE  Promise!Fail /\ source' = source
<1>1. Promise!At({"INDEX", "IDXSET"}) /\ Fetched /\ VerbHere \in {"INDEX", "IDXSET"}
  BY PromiseAt DEF CannotIndex, Execute
<1>2. AtHere /\ InstructionHere /\ here \in Places /\ Loaded
  BY <1>1 DEF Fetched, Going, Placed
<1>3. /\ Advance(0) /\ runtimeError' = "Can't index" /\ result' = result
      /\ UNCHANGED <<source, functions, lineNum, hasError, stage, callStack>>
  BY DEF CannotIndex, RunVars
<1>4. stage = "run"
  BY DEF Going
<1>5. FailedNow'
  <2>1. Loaded'
    BY <1>2, <1>3 DEF Loaded, Assembled
  <2>2. ~Quiet'
    <3>1. "Can't index" # ""
      BY Zenon
    <3> QED BY <1>3, <3>1, Zenon DEF Quiet
  <2>3. stage' # "crashed"
    BY <1>3, <1>4
  <2> QED BY <2>1, <2>2, <2>3 DEF FailedNow
<1>6. At'.base = At.base
  <2>1. At' = here'
    BY <1>3, <1>4 DEF At
  <2> QED BY <1>2, <1>3, <2>1 DEF Advance, Places, AtHere
<1>7. Promise!Stop("error")
  BY <1>3, <1>5, <1>6, EndsThere, StopsThere
<1>8. Promise!Here.verb = VerbHere /\ Promise!Operands = Args
  BY <1>2, HereIs DEF InstructionHere
<1>9. Field(1) = Args[1].n
  <2>1. VerbHere \notin Idle \union {"FUNCREF"}
    BY <1>1 DEF Idle
  <2>2. Registers(Args, 3)
    BY <1>1, <1>2, <2>1, ArgsCount DEF GoodForms, Idle, Arithmetic, Comparing, Branching, Skipping, Named2
  <2>3. 1 \in 1 .. Len(Args) /\ Reg1(Args[1])
    BY <2>2 DEF Registers
  <2> QED BY <1>1, <2>1, <2>3, RegisterOperands DEF SlotOf
<1>10. IF Promise!Here.verb = "INDEX" THEN Promise!SetRegister(Promise!Operands[1].n, Promise!Null) ELSE UNCHANGED stack
  <2>1. CASE VerbHere = "INDEX"
    <3>1. SetRegister(Field(1), Promise!Null)
      BY <2>1, MakersSame DEF CannotIndex
    <3> QED BY <1>2, <1>8, <1>9, <2>1, <3>1, SetsRegister
  <2>2. CASE VerbHere # "INDEX"
    BY <1>8, <2>2 DEF CannotIndex
  <2> QED BY <2>1, <2>2
<1>11. Promise!At({"INDEX", "IDXSET", "ARG"})
  BY <1>1 DEF Promise!At
<1> QED BY <1>3, <1>7, <1>10, <1>11 DEF Promise!Fail

LEMMA StrayArgumentDoes ==
  ASSUME Going, CallsBounded, InStep, StrayArgument
  PROVE  Promise!Fail /\ source' = source
<1>1. Promise!At({"ARG"}) /\ Fetched /\ VerbHere = "ARG"
  BY PromiseAt DEF StrayArgument, Execute
<1>2. /\ stage' = AfterRun /\ runtimeError' = "ARG without ARGBLK" /\ result' = result /\ cyclesLeft > 0
      /\ UNCHANGED <<source, functions, lineNum, hasError, mode, saved, here, stack, callStack>>
  BY DEF StrayArgument, Leave, RunVars, hostVars, InStep, Execute, Cycle
<1>3. FailedNow'
  <2>1. Loaded' /\ stage' # "crashed"
    BY <1>2, LoadedLeft
  <2>2. ~Quiet'
    <3>1. "ARG without ARGBLK" # ""
      BY Zenon
    <3> QED BY <1>2, <3>1, Zenon DEF Quiet
  <2> QED BY <2>1, <2>2 DEF FailedNow
<1>4. At'.base = At.base
  BY <1>2, AtLeft
<1>5. Promise!Stop("error")
  BY <1>2, <1>3, <1>4, EndsThere, StopsThere
<1>6. Promise!Here.verb # "INDEX"
  BY <1>1, HereIs DEF Fetched, InstructionHere
<1>7. Promise!At({"INDEX", "IDXSET", "ARG"})
  BY <1>1 DEF Promise!At
<1> QED BY <1>2, <1>5, <1>6, <1>7 DEF Promise!Fail

-----------------------------------------------------------------------------
(* Steps the source does not speak of.                                     *)

Shared == <<source, functions, stack, callStack, result>>

\* Nothing of the program is running yet, or no longer: no instruction is next.
LEMMA NotLoaded == ~Loaded /\ stage # "crashed" /\ Quiet => Where = <<"@main", 1>> /\ Status = "running"
<1> SUFFICES ASSUME ~Loaded, stage # "crashed", Quiet PROVE Where = <<"@main", 1>> /\ Status = "running"
  OBVIOUS
<1> QED BY StatusIs, WhereIs
LEMMA NotLoadedThere ==
  (~Loaded /\ stage # "crashed" /\ Quiet)' => (Where = <<"@main", 1>> /\ Status = "running")'
BY NotLoaded, PTL

LEMMA StuttersUnloaded ==
  ASSUME ~Loaded, ~Loaded', stage # "crashed", stage' # "crashed", Quiet, runtimeError' = runtimeError,
         UNCHANGED <<source, stack, result>>, callStack = <<>>, callStack' = <<>>, At'.base = At.base
  PROVE  UNCHANGED Promise!vars
<1>1. Where = <<"@main", 1>> /\ Status = "running"
  BY NotLoaded
<1>2. Where' = <<"@main", 1>> /\ Status' = "running"
  BY NotLoadedThere DEF Quiet
<1>3. Waiting = <<>> /\ Waiting' = <<>>
  BY DEF Waiting
<1> QED BY <1>1, <1>2, <1>3 DEF Promise!vars

LEMMA RunsOn ==
  stage # "crashed" /\ Quiet /\ Loaded /\ isRunning => Status = "running" /\ Where = PositionOf(At)
<1> SUFFICES ASSUME stage # "crashed", Quiet, Loaded, isRunning PROVE Status = "running" /\ Where = PositionOf(At)
  OBVIOUS
<1> QED BY StatusIs, WhereIs

LEMMA StuttersLoaded ==
  ASSUME Loaded, Loaded', stage # "crashed", stage' # "crashed", UNCHANGED <<runtimeError, isRunning>>,
         UNCHANGED Shared, At'.base = At.base, Quiet /\ isRunning => At' = At
  PROVE  UNCHANGED Promise!vars
<1>1. Waiting' = Waiting
  BY DEF Waiting, PositionOf, Shared
<1>2. Status' = Status /\ Where' = Where
  <2>1. CASE ~Quiet
    <3>1. FailedNow /\ FailedNow'
      BY <2>1 DEF FailedNow, Quiet
    <3>2. EndedAs("error") /\ EndedAs("error")'
      BY <3>1, FailedEnds, EndsThere
    <3> QED BY <3>2 DEF EndedAs, Promise!Nowhere
  <2>2. CASE Quiet /\ ~isRunning
    <3>1. StoppedNow /\ StoppedNow'
      BY <2>2 DEF StoppedNow, Quiet
    <3>2. EndedAs("stopped") /\ EndedAs("stopped")'
      BY <3>1, StoppedEnds, EndsThere
    <3> QED BY <3>2 DEF EndedAs, Promise!Nowhere
  <2>3. CASE Quiet /\ isRunning
    <3>1. Status = "running" /\ Where = PositionOf(At)
      BY <2>3, StatusIs, WhereIs
    <3>2. (stage # "crashed" /\ Quiet /\ Loaded /\ isRunning)' => (Status = "running" /\ Where = PositionOf(At))'
      BY RunsOn, PTL
    <3>3. Status' = "running" /\ Where' = PositionOf(At)'
      BY <2>3, <3>2 DEF Quiet
    <3>4. PositionOf(At)' = PositionOf(At)
      BY <2>3 DEF PositionOf, Shared
    <3> QED BY <3>1, <3>3, <3>4
  <2> QED BY <2>1, <2>2, <2>3
<1> QED BY <1>1, <1>2 DEF Promise!vars, Shared

-----------------------------------------------------------------------------
(* What holds of the machine throughout a well-formed program.             *)

Stages == {"source", "assembling", "assembled", "host", "run", "finish", "done", "crashed"}
Untouched == saved = Place0 /\ here = Place0 /\ Quiet /\ result = Null

\* How far the assembly is.
Prepared ==
  /\ stage = "assembled" => hasError \/ lineNum > Len(source)
  /\ ~Early => IF hasError THEN stage = "done" ELSE lineNum > Len(source)
  /\ stage # "source" => Named1
  /\ Early \/ hasError => Untouched /\ callStack = <<>>

\* How far the run is.
Hosted ==
  /\ stage \in Stages
  /\ isRunning \/ stage = "run" => result = Null
  /\ isRunning => Quiet
  /\ stage = "finish" => mode = "batch"
  /\ stage = "host" /\ mode = "batch" => isRunning
  /\ mode = "vis" /\ stage = "run" => cyclesLeft \in {0, 1} /\ (cyclesLeft = 1 => saved = here)

Following ==
  /\ AssemblerInv /\ Written /\ Executing
  /\ WellMade /\ Modes /\ CallsBounded /\ Prepared /\ Hosted

LEMMA SourceNotEmpty ==
  ASSUME AssemblerInv, WellMade
  PROVE  Len(source) \in Nat /\ Len(source) >= 1
<1>1. source \in Seq(ProgramLines) /\ Len(source) \in Nat /\ DOMAIN source = 1 .. Len(source)
  BY DEF AssemblerInv, TypeInv
<1>2. Promise!Instructions("@main") # <<>>
  BY <1>1, WellFormedIs DEF WellMade
<1>3. ASSUME Len(source) = 0 PROVE FALSE
  <2>1. CodeOf("@main") = {}
    BY <1>1, <1>3 DEF CodeOf
  <2>2. Cardinality(CodeOf("@main")) = 0
    BY <2>1, FS_EmptySet
  <2>3. Promise!Instructions("@main") = [k \in 1 .. 0 |-> source[Nth(CodeOf("@main"), k)]]
    BY <2>2, InstructionsSame
  <2> QED BY <1>2, <2>3
<1> QED BY <1>1, <1>3

\* No function of a well-formed program has its name twice.
LEMMA CollectsAll ==
  ASSUME AssemblerInv, WellMade, CollectFunctions
  PROVE  stage' = "assembling"
<1>1. source \in Seq(ProgramLines) /\ Promise!WellFormed
  BY DEF AssemblerInv, TypeInv, WellMade
<1>2. Distinct(FunctionNames) /\ Len(FunctionNames) \in Nat
  BY <1>1, WellFormedIs, NamesAre
<1>3. FunctionNames \in Seq(Names)
  BY <1>1, NamesTyped
<1> PICK names : names = FunctionNames
  OBVIOUS
<1>4. DOMAIN names = 1 .. Len(names) /\ Len(names) \in Nat
  BY <1>3, LenProperties
<1>5. {i \in DOMAIN names : \E j \in 1 .. i - 1 : names[j] = names[i]} = {}
  <2>1. ASSUME NEW i \in DOMAIN names, NEW j \in 1 .. i - 1, names[j] = names[i] PROVE FALSE
    <3>1. j \in DOMAIN names /\ i # j
      BY <1>4
    <3> QED BY <1>2, <2>1, <3>1 DEF Distinct
  <2> QED BY <2>1
<1> QED BY <1>5 DEF CollectFunctions

LEMMA WellMadeStays == ASSUME WellMade, source' = source PROVE WellMade'
BY SourceFixed DEF WellMade

LEMMA SourceStays == ASSUME [Next]_vars PROVE source' = source
<1>1. CASE Assemble
  BY <1>1 DEF Assemble, CollectFunctions, SkipEmptyLine, AssembleFunction, FinishAssembly
<1>2. CASE ~Assemble
  BY <1>2, StagesGoOn
<1> QED BY <1>1, <1>2

LEMMA AssembleFollows ==
  ASSUME Following, AssembleStep, Written'
  PROVE  Prepared' /\ Hosted' /\ Early /\ Early' /\ callStack' = callStack
<1>0. /\ AssemblerInv /\ WellMade /\ Prepared /\ Hosted /\ Executing /\ Written
      /\ UNCHANGED <<hostVars, saved, here, cyclesLeft, isRunning, runtimeError, stack, callStack, result>>
  BY DEF Following, AssembleStep
<1>1. stage \in {"source", "assembling"}
  BY DEF AssembleStep, Assemble, CollectFunctions, SkipEmptyLine, AssembleFunction, FinishAssembly
<1>2. Untouched /\ callStack = <<>> /\ isRunning = FALSE
  BY <1>0, <1>1 DEF Prepared, Early, Executing, Starting
<1>3. Untouched' /\ callStack' = <<>> /\ isRunning' = FALSE
  BY <1>0, <1>2 DEF Untouched, Place0, Quiet, Null
<1>4. CASE stage' = "assembling"
  <2>1. Named1'
    BY <1>0, <1>4 DEF Written, NamesCollected, Named1
  <2>2. Early /\ Early'
    BY <1>1, <1>4 DEF Early
  <2>3. Prepared'
    BY <1>3, <1>4, <2>1, <2>2 DEF Prepared
  <2>4. Hosted'
    BY <1>3, <1>4 DEF Hosted, Stages, Untouched
  <2> QED BY <1>0, <2>2, <2>3, <2>4
<1>5. CASE stage' # "assembling"
  <2>1. FinishAssembly
    <3>1. ~CollectFunctions
      BY <1>0, <1>5, CollectsAll
    <3>2. ~SkipEmptyLine /\ ~AssembleFunction
      BY <1>5 DEF SkipEmptyLine, AssembleFunction
    <3> QED BY <3>1, <3>2 DEF AssembleStep, Assemble
  <2>2. /\ stage = "assembling" /\ stage' = "assembled" /\ (hasError \/ lineNum > Len(source))
        /\ UNCHANGED <<source, functions, lineNum, hasError>>
    BY <2>1 DEF FinishAssembly
  <2>3. Named1'
    <3>1. Named1
      BY <1>0, <2>2 DEF Prepared
    <3>2. FunctionNames' = FunctionNames
      BY <2>2, HeadingsFixed
    <3> QED BY <2>2, <3>1, <3>2 DEF Named1, NamesOf
  <2>4. Early /\ Early'
    BY <2>2 DEF Early
  <2>5. Prepared'
    BY <1>3, <2>2, <2>3, <2>4 DEF Prepared
  <2>6. Hosted'
    BY <1>3, <2>2 DEF Hosted, Stages, Untouched
  <2> QED BY <1>0, <2>4, <2>5, <2>6
<1> QED BY <1>4, <1>5

LEMMA PreparedGoes ==
  ASSUME Prepared, ~hasError, stage \notin {"source", "assembling"}, ~Early',
         UNCHANGED <<source, functions, lineNum, hasError>>
  PROVE  Prepared' /\ Assembled
<1>1. lineNum > Len(source) /\ Named1
  BY DEF Prepared, Early
<1>2. Named1'
  <2>1. FunctionNames' = FunctionNames
    BY HeadingsFixed
  <2> QED BY <1>1, <2>1 DEF Named1, NamesOf
<1>3. stage' # "assembled"
  BY DEF Early
<1> QED BY <1>1, <1>2, <1>3 DEF Prepared, Assembled

LEMMA MainFound ==
  ASSUME Following, Assembled, stage # "source"
  PROVE  LET main == FindFunctionIndex("@main") IN
         /\ main \in Nat /\ main >= 0 /\ functions[main + 1].name = "@main"
         /\ functions[main + 1].code # <<>>
<1>1. Compiled /\ source \in Seq(ProgramLines) /\ functions \in Seq(FunctionType)
  BY DEF Following, Compiled, Prepared, AssemblerInv, TypeInv
<1>2. Named(NamesOf(functions), "@main")
  BY <1>1, MainNamed DEF Compiled, Named1
<1> PICK main : main = FindFunctionIndex("@main")
  OBVIOUS
<1>3. main \in Nat
  BY <1>1, <1>2, FirstNamed
<1>4. main + 1 \in DOMAIN functions /\ functions[main + 1].name = "@main"
  BY <1>1, <1>3, FunctionFound
<1> PICK f : f = functions[main + 1]
  OBVIOUS
<1>5. Len(f.code) = Cardinality(CodeOf("@main")) /\ f \in FunctionType
  BY <1>1, <1>4, SourceAt
<1>6. Promise!Instructions("@main") # <<>>
  BY <1>1, WellFormedIs DEF Compiled, WellMade
<1>7. ASSUME f.code = <<>> PROVE FALSE
  <2>1. Len(f.code) = 0
    BY <1>7
  <2>2. Promise!Instructions("@main") = [k \in 1 .. 0 |-> source[Nth(CodeOf("@main"), k)]]
    BY <1>5, <2>1, InstructionsSame
  <2> QED BY <1>6, <2>2
<1> QED BY <1>3, <1>4, <1>7

LEMMA ResetFollows ==
  ASSUME Following, Reset
  PROVE  Prepared' /\ Hosted' /\ UNCHANGED Promise!vars /\ UNCHANGED callStack
<1>1. /\ stage = "assembled" /\ ~hasError /\ stage' = "host"
      /\ UNCHANGED <<source, functions, lineNum, hasError, stack, callStack, mode, here, runtimeError, result>>
  BY DEF Reset, HostStep, hostVars
<1>2. Prepared /\ Early /\ ~Early'
  BY <1>1 DEF Following, Early
<1>3. Prepared' /\ Assembled
  BY <1>1, <1>2, PreparedGoes
<1> PICK main : main = FindFunctionIndex("@main")
  OBVIOUS
<1>4. main \in Nat /\ main >= 0 /\ functions[main + 1].name = "@main" /\ functions[main + 1].code # <<>>
  BY <1>1, <1>3, MainFound
<1>5. saved' = [Place0 EXCEPT !.func = main] /\ isRunning' = TRUE
  BY <1>4 DEF Reset
<1>6. saved'.pc = 0 /\ saved'.base = 0 /\ saved'.func = main
  BY <1>5 DEF Place0
<1>7. Untouched
  BY <1>2 DEF Prepared
<1>8. Hosted'
  BY <1>1, <1>5, <1>7 DEF Hosted, Stages, Untouched, Quiet, Null
<1>9. Status = "running" /\ Where = <<"@main", 1>> /\ At.base = 0
  <2>1. ~Loaded /\ stage # "crashed" /\ Quiet
    BY <1>1, <1>7 DEF Loaded, Untouched
  <2>2. At = here
    BY <1>1 DEF At
  <2> QED BY <1>7, <2>1, <2>2, NotLoaded DEF Untouched, Place0
<1>10. Status' = "running" /\ Where' = <<"@main", 1>> /\ At'.base = 0
  <2>1. (stage # "crashed" /\ Quiet /\ Loaded /\ isRunning)'
    BY <1>1, <1>3, <1>5, <1>7 DEF Loaded, Assembled, Quiet, Untouched
  <2>2. (stage # "crashed" /\ Quiet /\ Loaded /\ isRunning)' => (Status = "running" /\ Where = PositionOf(At))'
    BY RunsOn, PTL
  <2>3. Status' = "running" /\ Where' = PositionOf(At)'
    BY <2>1, <2>2
  <2>4. At' = saved'
    BY <1>1 DEF At
  <2> QED BY <1>1, <1>4, <1>6, <2>3, <2>4 DEF PositionOf
<1>11. Waiting' = Waiting
  BY <1>1 DEF Waiting, PositionOf
<1> QED BY <1>1, <1>3, <1>8, <1>9, <1>10, <1>11 DEF Promise!vars

LEMMA AssemblyFailedFollows ==
  ASSUME Following, AssemblyFailed
  PROVE  Prepared' /\ Hosted' /\ UNCHANGED Promise!vars /\ UNCHANGED callStack
<1>1. /\ stage = "assembled" /\ hasError /\ stage' = "done"
      /\ UNCHANGED <<source, functions, lineNum, hasError, stack, callStack, mode, saved, here, cyclesLeft,
                     isRunning, runtimeError, result>>
  BY DEF AssemblyFailed, HostStep
<1>2. Prepared /\ Hosted /\ Early /\ ~Early'
  BY <1>1 DEF Following, Early
<1>3. Untouched /\ callStack = <<>> /\ Untouched'
  BY <1>1, <1>2 DEF Prepared, Untouched, Place0, Quiet, Null
<1>4. Prepared'
  <2>1. Named1'
    <3>1. Named1
      BY <1>1, <1>2 DEF Prepared
    <3>2. FunctionNames' = FunctionNames
      BY <1>1, HeadingsFixed
    <3> QED BY <1>1, <3>1, <3>2 DEF Named1, NamesOf
  <2> QED BY <1>1, <1>2, <1>3, <2>1 DEF Prepared
<1>5. Hosted'
  BY <1>1, <1>2, <1>3 DEF Hosted, Stages, Untouched, Quiet
<1>6. ~Loaded /\ ~Loaded'
  BY <1>1 DEF Loaded, Assembled
<1>7. At'.base = At.base
  BY <1>1, <1>3 DEF At, Untouched
<1>8. stage # "crashed" /\ stage' # "crashed" /\ Quiet
  BY <1>1, <1>3 DEF Untouched
<1> QED BY <1>1, <1>3, <1>4, <1>5, <1>6, <1>7, <1>8, StuttersUnloaded

LEMMA AssembleStutters ==
  ASSUME Following, AssembleStep, Written', WellMade', AssemblerInv'
  PROVE  UNCHANGED Promise!vars
<1>1. /\ Early /\ Early' /\ callStack' = callStack /\ Prepared /\ Prepared' /\ Hosted /\ source' = source
      /\ UNCHANGED <<saved, here, runtimeError, stack, result>> /\ stage \in {"source", "assembling"}
  BY AssembleFollows DEF Following, AssembleStep, Assemble, CollectFunctions, SkipEmptyLine, AssembleFunction, FinishAssembly
<1>2. Untouched /\ callStack = <<>>
  BY <1>1 DEF Prepared
<1>3. ~Loaded
  <2>1. CASE stage = "source"
    <3>1. lineNum = 1 /\ Len(source) \in Nat /\ Len(source) >= 1
      BY <2>1, SourceNotEmpty DEF Following, Written, Between
    <3> QED BY <3>1 DEF Loaded, Assembled
  <2> QED BY <1>1, <2>1 DEF Loaded
<1>4. ~Loaded'
  <2>1. stage' \in {"assembling", "assembled"}
    <3>1. CollectFunctions => stage' = "assembling"
      BY CollectsAll DEF Following
    <3> QED BY <1>1, <3>1 DEF AssembleStep, Assemble, SkipEmptyLine, AssembleFunction, FinishAssembly
  <2> QED BY <2>1 DEF Loaded
<1>5. stage # "crashed" /\ stage' # "crashed" /\ Quiet
  BY <1>1, <1>2 DEF Early, Untouched
<1>6. At'.base = At.base
  <2>1. At = here /\ At' = here'
    BY <1>1 DEF At, Early
  <2> QED BY <1>1, <2>1
<1> QED BY <1>1, <1>2, <1>3, <1>4, <1>5, <1>6, StuttersUnloaded

\* The stages between the assembly and the end.
LEMMA Going1 ==
  ASSUME Following, stage \in {"host", "run", "finish"}, ~Early', UNCHANGED <<source, functions, lineNum, hasError>>
  PROVE  Prepared' /\ Loaded /\ Loaded' /\ ~hasError
<1>1. Prepared /\ ~Early
  BY DEF Following, Early
<1>2. ~hasError
  BY <1>1 DEF Prepared
<1>3. Prepared' /\ Assembled
  BY <1>1, <1>2, PreparedGoes
<1>4. Assembled'
  BY <1>3 DEF Assembled
<1>5. stage' \notin {"assembling", "assembled"}
  BY DEF Early
<1> QED BY <1>2, <1>3, <1>4, <1>5 DEF Loaded

Passes == Prepared' /\ Hosted' /\ UNCHANGED Promise!vars /\ UNCHANGED callStack

LEMMA PassesBy ==
  ASSUME Following, stage \in {"host", "run", "finish"}, stage' \in {"host", "run", "finish", "done"}, Hosted',
         UNCHANGED <<source, functions, lineNum, hasError, runtimeError, isRunning>>, UNCHANGED Shared,
         At'.base = At.base, Quiet /\ isRunning => At' = At
  PROVE  Passes
<1>1. ~Early' /\ stage # "crashed" /\ stage' # "crashed"
  BY DEF Early
<1>2. Prepared' /\ Loaded /\ Loaded'
  BY <1>1, Going1
<1>3. UNCHANGED Promise!vars
  BY <1>1, <1>2, StuttersLoaded
<1> QED BY <1>2, <1>3 DEF Passes, Shared

LEMMA EnterRunPasses == ASSUME Following, EnterRun PROVE Passes
<1>1. /\ stage = "host" /\ isRunning /\ stage' = "run" /\ here' = saved
      /\ cyclesLeft' = (IF mode = "batch" THEN MaxCycles ELSE 1)
      /\ UNCHANGED <<source, functions, lineNum, hasError, stack, callStack, mode, saved, isRunning, runtimeError, result>>
  BY DEF EnterRun, HostStep, hostVars
<1>2. At = saved /\ At' = here'
  BY <1>1 DEF At
<1>3. Hosted'
  BY <1>1 DEF Following, Hosted, Stages, Quiet, Null
<1> QED BY <1>1, <1>2, <1>3, PassesBy DEF Shared

LEMMA ReportPasses == ASSUME Following, Report PROVE Passes
<1>1. /\ stage = "finish" \/ (stage = "host" /\ ~isRunning)
      /\ UNCHANGED <<source, functions, lineNum, hasError, stack, callStack, mode, saved, here, cyclesLeft,
                     isRunning, runtimeError, result>>
  BY DEF Report, HostStep
<1>2. stage' = "done"
  BY DEF Report
<1>3. Modes /\ Hosted
  BY DEF Following
<1>4. At' = At
  <2>1. CASE stage = "finish"
    BY <1>1, <1>2, <1>3, <2>1 DEF At, Hosted
  <2>2. CASE stage = "host" /\ ~isRunning
    <3>1. mode = "vis"
      BY <1>3, <2>2 DEF Hosted, Modes
    <3> QED BY <1>1, <1>2, <2>2, <3>1 DEF At
  <2> QED BY <1>1, <2>1, <2>2
<1>5. Hosted'
  BY <1>1, <1>2, <1>3 DEF Hosted, Stages, Quiet
<1> QED BY <1>1, <1>2, <1>4, <1>5, PassesBy DEF Shared

LEMMA QuitPasses == ASSUME Following, Quit PROVE Passes
<1>1. /\ stage = "host" /\ mode = "vis" /\ isRunning /\ stage' = "done"
      /\ UNCHANGED <<source, functions, lineNum, hasError, stack, callStack, mode, saved, here, cyclesLeft,
                     isRunning, runtimeError, result>>
  BY DEF Quit, HostStep, hostVars
<1>2. At' = At
  BY <1>1 DEF At
<1>3. Hosted'
  BY <1>1 DEF Following, Hosted, Stages, Quiet
<1> QED BY <1>1, <1>2, <1>3, PassesBy DEF Shared

\* Run returns, and the program is where it was.
LEMMA LeavesPass ==
  ASSUME Following, stage = "run", stage' = AfterRun, result' = Null, here' = here,
         saved' = here \/ (saved' = saved /\ cyclesLeft > 0),
         UNCHANGED <<source, functions, lineNum, hasError, mode, isRunning, runtimeError, stack, callStack>>
  PROVE  Passes
<1>1. Modes /\ Hosted
  BY DEF Following
<1>2. result = Null
  BY <1>1 DEF Hosted
<1>3. At = here
  BY DEF At
<1>4. stage' \in {"host", "finish"} /\ (stage' = "finish" <=> mode = "batch") /\ At' = here
  <2>1. CASE mode = "batch"
    <3>1. stage' = "finish"
      BY <2>1 DEF AfterRun
    <3> QED BY <2>1, <3>1 DEF At
  <2>2. CASE mode = "vis"
    <3>1. stage' = "host"
      BY <2>2 DEF AfterRun
    <3>2. saved' = here
      BY <1>1, <2>2 DEF Hosted
    <3> QED BY <2>2, <3>1, <3>2 DEF At
  <2> QED BY <1>1, <2>1, <2>2 DEF Modes
<1>5. Hosted'
  <2>1. mode' = "batch" => stage' # "host"
    BY <1>4
  <2> QED BY <1>1, <1>2, <1>4, <2>1 DEF Hosted, Stages, Quiet, Null
<1> QED BY <1>2, <1>3, <1>4, <1>5, PassesBy DEF Shared

LEMMA OutOfCyclesPasses == ASSUME Following, OutOfCycles PROVE Passes
BY LeavesPass DEF OutOfCycles, LeaveSaving, Leave, RunVars, hostVars
LEMMA LoopEndsPasses == ASSUME Following, LoopEnds PROVE Passes
BY LeavesPass DEF LoopEnds, LeaveSaving, Leave, RunVars, hostVars
LEMMA CallRefusedPasses == ASSUME Following, CallRefused PROVE Passes
BY LeavesPass DEF CallRefused, Execute, Cycle, Leave, RunVars, hostVars

-----------------------------------------------------------------------------
(* Every step follows the source.                                          *)

LEMMA FollowingGoes ==
  ASSUME Following, Cycle
  PROVE  Going /\ InStep /\ CallsBounded /\ ~hasError /\ Prepared /\ Hosted
<1>1. stage = "run" /\ isRunning /\ cyclesLeft > 0 /\ Prepared /\ Hosted /\ ~Early
  BY DEF Cycle, Following, Early
<1>2. ~hasError /\ Assembled /\ Named1
  BY <1>1 DEF Prepared, Assembled
<1>3. Compiled
  BY <1>2 DEF Following, Compiled
<1>4. Placed(here)
  BY <1>1, Places1 DEF Following
<1>5. Going
  BY <1>1, <1>3, <1>4 DEF Going, Hosted
<1>6. InStep
  BY <1>1 DEF Following, InStep, Hosted
<1> QED BY <1>1, <1>2, <1>5, <1>6 DEF Following

\* Steps within Run, and those that leave it for good.
LEMMA StaysHosted ==
  ASSUME Following, Cycle, UNCHANGED <<RunVars, stage>>, result' = result,
         isRunning' = FALSE \/ (isRunning' = isRunning /\ runtimeError' = runtimeError)
  PROVE  Prepared' /\ Hosted'
<1>1. Going /\ InStep /\ ~hasError /\ Prepared /\ Hosted /\ stage = "run"
  BY FollowingGoes DEF Cycle
<1>2. UNCHANGED <<source, functions, lineNum, hasError, mode>> /\ stage' = "run" /\ ~Early'
  BY <1>1 DEF RunVars, hostVars, Early
<1>3. Prepared'
  BY <1>1, <1>2, PreparedGoes
<1>4. cyclesLeft' = cyclesLeft - 1 /\ cyclesLeft > 0
  BY DEF Cycle
<1>5. mode' = "vis" => cyclesLeft' = 0
  BY <1>1, <1>2, <1>4 DEF Hosted
<1>6. isRunning' => Quiet'
  <2>2. ASSUME isRunning' PROVE Quiet'
    <3>1. isRunning' # FALSE /\ runtimeError' = runtimeError /\ Quiet
      BY <1>1, <2>2 DEF Going
    <3> QED BY <3>1, Zenon DEF Quiet
  <2> QED BY <2>2
<1>7. result' = Null /\ Null' = Null
  BY <1>1 DEF InStep, Null
<1> QED BY <1>1, <1>2, <1>3, <1>5, <1>6, <1>7 DEF Hosted, Stages

LEMMA LeavesHosted ==
  ASSUME Following, Cycle, UNCHANGED RunVars, stage' \in {AfterRun, "crashed"},
         isRunning' = FALSE \/ (stage' = "crashed" /\ UNCHANGED <<isRunning, runtimeError, result>>)
  PROVE  Prepared' /\ Hosted'
<1>1. Going /\ InStep /\ ~hasError /\ Prepared /\ Hosted /\ stage = "run"
  BY FollowingGoes DEF Cycle
<1>2. UNCHANGED <<source, functions, lineNum, hasError, mode>>
  BY DEF RunVars, hostVars
<1>3. /\ stage' \in {"host", "finish", "crashed"}
      /\ stage' = "finish" => mode = "batch"
      /\ stage' = "host" => mode # "batch"
  BY DEF AfterRun
<1>4. Prepared'
  <2>1. ~Early' /\ stage \notin {"source", "assembling"}
    BY <1>1, <1>3 DEF Early
  <2> QED BY <1>1, <1>2, <2>1, PreparedGoes
<1>5. isRunning' => Quiet' /\ result' = Null
  <2>1. ASSUME isRunning' PROVE Quiet' /\ result' = Null
    <3>1. isRunning' # FALSE
      BY <2>1
    <3>2. runtimeError' = runtimeError /\ result' = result /\ Quiet
      BY <1>1, <3>1 DEF Going
    <3>3. Quiet'
      BY <3>2, Zenon DEF Quiet
    <3>4. result' = Null
      BY <1>1, <3>2 DEF InStep
    <3> QED BY <3>3, <3>4
  <2> QED BY <2>1
<1>6. Null' = Null
  BY DEF Null
<1>7. Hosted'
  BY <1>1, <1>2, <1>3, <1>5, <1>6 DEF Hosted, Stages
<1> QED BY <1>4, <1>7

LEMMA CallsStay ==
  ASSUME Following, Executing', UNCHANGED callStack
  PROVE  CallsBounded'
BY DEF Following, CallsBounded

Follows == Prepared' /\ Hosted' /\ CallsBounded' /\ Promise!Next

LEMMA StepsFollow == ASSUME Following, Executing', Steps PROVE Follows
<1>1. Cycle /\ Stay /\ UNCHANGED callStack
  BY Zenon DEF Steps, Execute, NoOp, Load, Calculation, Compare, Jump, BranchIf, Branch, Skip, CallNamed
<1>2. UNCHANGED <<RunVars, stage>> /\ result' = result /\ isRunning' = isRunning /\ runtimeError' = runtimeError
  BY <1>1 DEF Stay
<1>3. Going /\ CallsBounded
  BY <1>1, FollowingGoes
<1>4. \/ Promise!NoOperation \/ Promise!Assign \/ Promise!Branch \/ Promise!Library
  BY <1>3, NoOpDoes, LoadDoes, CalculationDoes, CompareDoes, JumpDoes, BranchIfDoes, BranchDoes, SkipDoes,
     CallNamedDoes DEF Steps
<1>5. source' = source
  BY <1>2 DEF RunVars
<1>6. Prepared' /\ Hosted' /\ CallsBounded'
  BY <1>1, <1>2, StaysHosted, CallsStay
<1> QED BY <1>4, <1>5, <1>6 DEF Follows, Promise!Next

LEMMA CallFunctionFollows == ASSUME Following, Executing', CallFunction PROVE Follows
<1>1. Cycle /\ UNCHANGED <<RunVars, stage>> /\ result' = result /\ isRunning' = isRunning /\ runtimeError' = runtimeError
  BY DEF CallFunction, Execute, Stay
<1>2. Going /\ CallsBounded
  BY <1>1, FollowingGoes
<1>3. Promise!Call /\ source' = source
  BY <1>2, CallFunctionDoes
<1>4. CallsBounded'
  <2>1. callStack' = Append(callStack, [here EXCEPT !.pc = @ + 1]) /\ ~(Len(callStack) >= MaxCalls)
    BY DEF CallFunction, CallsFull
  <2>2. Len(callStack) \in Nat /\ MaxCalls \in Nat
    BY <1>2, WaitingIs
  <2>3. Len(callStack') = Len(callStack) + 1
    BY <1>2, <2>1 DEF CallsBounded
  <2> QED BY <2>1, <2>2, <2>3 DEF CallsBounded, Executing
<1> QED BY <1>1, <1>3, <1>4, StaysHosted DEF Follows, Promise!Next

LEMMA ReturnToCallerFollows == ASSUME Following, Executing', ReturnToCaller PROVE Follows
<1>1. Cycle /\ UNCHANGED <<RunVars, stage>> /\ result' = result /\ isRunning' = isRunning /\ runtimeError' = runtimeError
  BY DEF ReturnToCaller, Execute, Stay
<1>2. Going /\ CallsBounded
  BY <1>1, FollowingGoes
<1>3. Promise!Return /\ source' = source
  BY <1>2, ReturnToCallerDoes
<1>4. CallsBounded'
  <2>1. callStack' = Front(callStack) /\ callStack # <<>>
    BY DEF ReturnToCaller
  <2> PICK q : q = callStack
    OBVIOUS
  <2>2. Len(q) \in Nat /\ MaxCalls \in Nat /\ q \in Seq(Places) /\ q # <<>> /\ Len(q) <= MaxCalls
    BY <1>2, <2>1, WaitingIs DEF CallsBounded
  <2>3. Front(q) = [i \in 1 .. Len(q) - 1 |-> q[i]]
    BY <2>2 DEF Front
  <2>4. Len(q) - 1 \in Nat
    BY <2>2
  <2>5. Len(Front(q)) = Len(q) - 1
    BY <2>3, <2>4
  <2> QED BY <2>1, <2>2, <2>5 DEF CallsBounded, Executing
<1> QED BY <1>1, <1>3, <1>4, StaysHosted DEF Follows, Promise!Next

LEMMA EndsFollow ==
  ASSUME Following, Executing', Throw \/ OutOfCode \/ ReturnFromMain \/ StrayArgument
  PROVE  Follows
<1>1. Cycle /\ UNCHANGED <<RunVars, callStack>> /\ stage' \in {AfterRun, "crashed"}
      /\ (isRunning' = FALSE \/ (stage' = "crashed" /\ UNCHANGED <<isRunning, runtimeError, result>>))
  BY DEF Throw, OutOfCode, ReturnFromMain, StrayArgument, Execute, LeaveSaving, Leave
<1>2. Going /\ InStep /\ CallsBounded
  BY <1>1, FollowingGoes
<1>3. \/ Promise!Fault \/ Promise!FallOff \/ Promise!Return \/ Promise!Fail
  BY <1>2, ThrowDoes, OutOfCodeDoes, ReturnFromMainDoes, StrayArgumentDoes
<1>4. source' = source
  BY <1>1 DEF RunVars
<1> QED BY <1>1, <1>3, <1>4, LeavesHosted, CallsStay DEF Follows, Promise!Next

LEMMA CannotIndexFollows == ASSUME Following, Executing', CannotIndex PROVE Follows
<1>1. Cycle /\ UNCHANGED <<RunVars, stage>> /\ result' = result /\ isRunning' = FALSE /\ callStack' = callStack
  BY DEF CannotIndex, Execute
<1>2. Going /\ CallsBounded
  BY <1>1, FollowingGoes
<1>3. Promise!Fail /\ source' = source
  BY <1>2, CannotIndexDoes
<1> QED BY <1>1, <1>3, StaysHosted, CallsStay DEF Follows, Promise!Next

LEMMA NothingFollows ==
  ASSUME Following, UNCHANGED vars
  PROVE  Prepared' /\ Hosted' /\ CallsBounded' /\ UNCHANGED Promise!vars
<1>1. UNCHANGED <<source, stage, functions, lineNum, hasError, mode, saved, here, cyclesLeft, isRunning, runtimeError,
                  stack, callStack, result>>
  BY DEF vars, assemblerVars, hostVars
<1>2. Prepared /\ Hosted /\ CallsBounded
  BY DEF Following
<1>3. Quiet' <=> Quiet
  BY <1>1 DEF Quiet
<1>4. Named1' <=> Named1
  <2>1. FunctionNames' = FunctionNames
    BY <1>1, HeadingsFixed
  <2> QED BY <1>1, <2>1 DEF Named1, NamesOf
<1>5. Prepared'
  BY <1>1, <1>2, <1>3, <1>4 DEF Prepared, Untouched, Early, Place0, Null
<1>6. Hosted'
  BY <1>1, <1>2, <1>3 DEF Hosted, Stages, Null
<1>7. CallsBounded'
  BY <1>1, <1>2 DEF CallsBounded, Places
<1>8. At' = At /\ (Loaded' <=> Loaded)
  BY <1>1 DEF At, Loaded, Assembled
<1>9. Status' = Status
  BY <1>1, <1>8, Zenon DEF Status
<1>10. Where' = Where
  <2>1. PositionOf(At)' = PositionOf(At)
    BY <1>1, <1>8 DEF PositionOf
  <2> QED BY <1>8, <1>9, <2>1, Zenon DEF Where
<1>11. Waiting' = Waiting
  BY <1>1 DEF Waiting, PositionOf
<1> QED BY <1>1, <1>5, <1>6, <1>7, <1>8, <1>9, <1>10, <1>11 DEF Promise!vars

LEMMA NextFollows ==
  ASSUME Following, [Next]_vars
  PROVE  Following' /\ [Promise!Next]_(Promise!vars)
<1>1. AssemblerInv' /\ Written' /\ Executing'
  BY NextKeeps, NextWrites, NextExecutes DEF Following
<1>2. WellMade'
  BY SourceStays, WellMadeStays DEF Following
<1>3. Modes'
  <2>1. mode' = mode
    BY DEF Next, AssembleStep, Host, Run, hostVars, AssemblyFailed, Reset, EnterRun, Report, Quit, vars,
           RunVars, Stay, OutOfCycles, LoopEnds, OutOfCode, Throw, NoOp, Load, Calculation, Compare, Jump,
           BranchIf, Branch, Skip, CannotIndex, StrayArgument, CallRefused, CallFunction, CallNamed,
           ReturnToCaller, ReturnFromMain
  <2> QED BY <2>1 DEF Following, Modes
<1>4. Prepared' /\ Hosted' /\ CallsBounded' /\ [Promise!Next]_(Promise!vars)
  <2>1. CASE AssembleStep
    BY <1>1, <1>2, <2>1, AssembleFollows, AssembleStutters, CallsStay
  <2>2. CASE Reset
    BY <1>1, <2>2, ResetFollows, CallsStay
  <2>3. CASE AssemblyFailed
    BY <1>1, <2>3, AssemblyFailedFollows, CallsStay
  <2>4. CASE EnterRun \/ Report \/ Quit \/ OutOfCycles \/ LoopEnds \/ CallRefused
    <3>1. Passes
      BY <2>4, EnterRunPasses, ReportPasses, QuitPasses, OutOfCyclesPasses, LoopEndsPasses, CallRefusedPasses
    <3> QED BY <1>1, <3>1, CallsStay DEF Passes
  <2>5. CASE Steps \/ CallFunction \/ ReturnToCaller \/ Throw \/ OutOfCode \/ ReturnFromMain \/ StrayArgument
             \/ CannotIndex
    <3>1. Follows
      BY <1>1, <2>5, StepsFollow, CallFunctionFollows, ReturnToCallerFollows, EndsFollow, CannotIndexFollows
    <3> QED BY <3>1 DEF Follows
  <2>6. CASE UNCHANGED vars
    BY <2>6, NothingFollows
  <2> QED BY <2>1, <2>2, <2>3, <2>4, <2>5, <2>6 DEF Next, Host, Run, Steps
<1> QED BY <1>1, <1>2, <1>3, <1>4 DEF Following

LEMMA InitFollows ==
  ASSUME Init, Promise!WellFormed, Len(source) < Span(2)
  PROVE  Following /\ Promise!Init
<1>1. AssemblerInv /\ Written /\ Executing
  BY InitHolds, InitWritten, InitExecutes
<1>2. /\ stage = "source" /\ hasError = FALSE /\ Modes /\ saved = Place0 /\ here = Place0 /\ isRunning = FALSE
      /\ callStack = <<>> /\ result = Null /\ stack = [i \in 0 .. StackSize - 1 |-> Null]
  BY DEF Init, AssemblerInit, Modes
<1>3. Quiet
  BY Zenon DEF Init, Quiet
<1>4. WellMade /\ CallsBounded
  <2>1. MaxCalls \in Nat
    BY MachineAssumption
  <2> QED BY <1>1, <1>2, <2>1 DEF WellMade, CallsBounded, Executing
<1>5. Prepared /\ Hosted
  BY <1>2, <1>3 DEF Prepared, Hosted, Stages, Early, Untouched
<1>6. Following
  BY <1>1, <1>2, <1>4, <1>5 DEF Following
<1>7. ~Loaded
  <2>1. lineNum = 1 /\ Len(source) \in Nat /\ Len(source) >= 1
    BY <1>1, <1>2, <1>4, SourceNotEmpty DEF Written, Between
  <2> QED BY <2>1 DEF Loaded, Assembled
<1>8. Where = <<"@main", 1>> /\ Status = "running"
  BY <1>2, <1>3, <1>7, NotLoaded
<1>9. At.base = 0 /\ Waiting = <<>>
  BY <1>2 DEF At, Place0, Waiting
<1>10. Promise!Init
  BY <1>2, <1>8, <1>9, MakersSame DEF Promise!Init
<1> QED BY <1>6, <1>10

\* Assembled and run, a well-formed program that is short enough for its constants to be
\* numbered does what its lines say: every step of the machine is one the source takes,
\* with operands, labels and names as written, or one the source does not speak of.
THEOREM SourceIsRun ==
  Spec /\ Len(source) < Span(2) => RunsTheSource
<1> DEFINE Keeps == Promise!WellFormed => Following
<1>1. Init /\ Len(source) < Span(2) => Keeps /\ (Promise!WellFormed => Promise!Init)
  BY InitFollows
<1>2. Keeps /\ [Next]_vars => Keeps' /\ [Promise!WellFormed => Promise!Next]_(Promise!vars)
  <2> SUFFICES ASSUME Keeps, [Next]_vars
               PROVE  Keeps' /\ [Promise!WellFormed => Promise!Next]_(Promise!vars)
    OBVIOUS
  <2>1. Promise!WellFormed' <=> Promise!WellFormed
    <3>1. source' = source
      BY SourceStays
    <3> QED BY <3>1, SourceFixed
  <2>2. CASE Promise!WellFormed
    BY <2>2, NextFollows
  <2>3. CASE ~Promise!WellFormed
    BY <2>1, <2>3
  <2> QED BY <2>2, <2>3
<1> QED BY <1>1, <1>2, PTL DEF Spec, RunsTheSource

-----------------------------------------------------------------------------
(* A well-formed program is assembled.                                     *)

\* What is within a byte, or within fewer bytes, is within more.
LEMMA RangesNest ==
  /\ 0 .. ByteSize - 1 \subseteq SignedRange(2)
  /\ SignedRange(1) \subseteq SignedRange(2) /\ SignedRange(1) \subseteq SignedRange(4)
  /\ SignedRange(2) \subseteq SignedRange(4) /\ SignedRange(3) \subseteq SignedRange(4)
  /\ 0 .. Span(3) - 1 \subseteq SignedRange(4)
  /\ SignedRange(3) \subseteq -(Span(3) - 1) .. Span(3) - 1
  /\ Promise!NonNegative(SignedRange(1)) \subseteq 0 .. ByteSize - 1
  /\ Promise!NonNegative(SignedRange(3)) \subseteq 0 .. Span(3) - 1
<1>1. PICK h \in Nat : h >= 2 /\ ByteSize = 2 * h
  BY ByteFacts
<1> PICK a, b, c : a = h * ByteSize /\ b = a * ByteSize /\ c = b * ByteSize
  OBVIOUS
<1>2. /\ Span(1) = 2 * h /\ Span(2) = 2 * a /\ Span(3) = 2 * b /\ Span(4) = 2 * c
  <2>1. /\ Span(1) = ByteSize /\ Span(2) = ByteSize * ByteSize /\ Span(3) = ByteSize * ByteSize * ByteSize
        /\ Span(4) = ByteSize * ByteSize * ByteSize * ByteSize
    BY DEF Span
  <2>2. ByteSize * ByteSize = 2 * a
    BY <1>1
  <2>3. \A n \in Int : (2 * n) * ByteSize = 2 * (n * ByteSize)
    BY <1>1
  <2>4. a \in Int /\ b \in Int
    BY <1>1
  <2> QED BY <1>1, <2>1, <2>2, <2>3, <2>4
<1>3. a \in Nat /\ b \in Nat /\ c \in Nat
  BY <1>1
<1>4. \A m, n \in Nat : n >= 1 => m <= m * n
  OBVIOUS
<1>5. 2 * h <= a /\ a <= b /\ b <= c /\ 2 * b <= c
  <2>1. ASSUME NEW m \in Nat PROVE 4 * m <= m * ByteSize
    BY <1>1, <2>1
  <2> QED BY <1>1, <1>3, <2>1
<1>6. \A n \in Nat : (2 * n) \div 2 = n
  OBVIOUS
<1>7. /\ SignedRange(1) = -h .. h - 1 /\ SignedRange(2) = -a .. a - 1
      /\ SignedRange(3) = -b .. b - 1 /\ SignedRange(4) = -c .. c - 1
  BY <1>1, <1>2, <1>3, <1>6 DEF SignedRange
<1>8. Promise!NonNegative(SignedRange(1)) \subseteq SignedRange(1)
      /\ \A n \in Promise!NonNegative(SignedRange(1)) : n >= 0
  BY DEF Promise!NonNegative
<1>9. h \in Nat /\ ByteSize = 2 * h /\ 2 * h <= a /\ a <= b /\ b <= c /\ 2 * b <= c /\ h <= a
  BY <1>1, <1>5
<1>10. /\ 0 .. ByteSize - 1 \subseteq SignedRange(2)
       /\ SignedRange(1) \subseteq SignedRange(2) /\ SignedRange(1) \subseteq SignedRange(4)
       /\ SignedRange(2) \subseteq SignedRange(4) /\ SignedRange(3) \subseteq SignedRange(4)
       /\ 0 .. Span(3) - 1 \subseteq SignedRange(4)
       /\ SignedRange(3) \subseteq -(Span(3) - 1) .. Span(3) - 1
  <2>1. 0 .. ByteSize - 1 \subseteq SignedRange(2)
    BY ONLY <1>3, <1>7, <1>9
  <2>2. SignedRange(1) \subseteq SignedRange(2) /\ SignedRange(1) \subseteq SignedRange(4)
    BY ONLY <1>3, <1>7, <1>9
  <2>3. SignedRange(2) \subseteq SignedRange(4) /\ SignedRange(3) \subseteq SignedRange(4)
    BY ONLY <1>3, <1>7, <1>9
  <2>4. Span(3) = 2 * b /\ b >= 1
    BY <1>1, <1>2, <1>3, <1>5
  <2>5. 0 .. Span(3) - 1 \subseteq SignedRange(4)
    BY ONLY <2>4, <1>3, <1>7, <1>9
  <2>6. SignedRange(3) \subseteq -(Span(3) - 1) .. Span(3) - 1
    BY ONLY <2>4, <1>3, <1>7, <1>9
  <2> QED BY <2>1, <2>2, <2>3, <2>5, <2>6
<1>11. Promise!NonNegative(SignedRange(1)) \subseteq 0 .. ByteSize - 1
  BY ONLY <1>3, <1>7, <1>8, <1>9
<1>12. Promise!NonNegative(SignedRange(3)) \subseteq 0 .. Span(3) - 1
  <2>1. \A n \in Promise!NonNegative(SignedRange(3)) : n \in SignedRange(3) /\ n >= 0
    BY DEF Promise!NonNegative
  <2>2. Span(3) = 2 * b
    BY <1>2
  <2> QED BY ONLY <2>1, <2>2, <1>3, <1>7
<1> QED BY <1>10, <1>11, <1>12

Parses(f, labels, op, i, t) == ParseOperand(f, labels, op, i, t) # {}

\* Numbers.
LEMMA NumbersParse ==
  ASSUME NEW t, t.t = "num"
  PROVE  /\ t.n \in SignedRange(2) => ParseInt16(t) # {} /\ LowByte(t) # {}
         /\ t.n \in 0 .. ByteSize - 1 => ParseByte(t) # {} /\ LowByte(t) # {}
         /\ t.n \in SignedRange(4) => t.n \in ParseInt32(t) /\ ParseAsConstant(t) # {}
         /\ t.n \in SignedRange(3) => t.n \in ParseInt24(t) /\ t.n \in ParseInt32(t)
<1>1. t.n \in SignedRange(2) => ParseInt16(t) = {t.n}
  BY DEF ParseInt16, NumberIn
<1>2. t.n \in SignedRange(2) => LowByte(t) # {}
  BY <1>1 DEF LowByte
<1>3. t.n \in 0 .. ByteSize - 1 => ParseByte(t) = {t.n} /\ t.n \in SignedRange(2)
  BY RangesNest DEF ParseByte, NumberIn
<1>4. t.n \in SignedRange(4) => ParseInt32(t) = {t.n}
  BY DEF ParseInt32, NumberIn
<1>5. ParseAsConstant(t) = {make_int(n) : n \in ParseInt32(t)}
  BY DEF ParseAsConstant
<1>6. t.n \in SignedRange(3) => t.n \in SignedRange(4) /\ ParseInt24(t) = {t.n}
  BY RangesNest DEF ParseInt24, NumberIn
<1> QED BY <1>1, <1>2, <1>3, <1>4, <1>5, <1>6

LEMMA RegisterParses == ASSUME NEW t \in Tokens, Reg1(t) PROVE ParseRegister(t) # {}
<1>1. IsReg(t) /\ t.n \in 0 .. ByteSize - 1
  BY RangesSame DEF Reg1
<1> PICK u : u = [t EXCEPT !.t = "num"]
  OBVIOUS
<1>2. u.t = "num" /\ u.n = t.n
  BY DEF Tokens
<1>3. LowByte(u) # {}
  BY <1>1, <1>2, NumbersParse
<1> QED BY <1>1, <1>3 DEF ParseRegister

\* Constants: their index is at most the number of constants there are.
LEMMA IndexBounded ==
  ASSUME NEW S, NEW constants \in Seq(S), NEW c
  PROVE  IndexOf(constants, c) \in 0 .. Len(constants)
<1>1. Len(constants) \in Nat
  BY LenProperties
<1>2. CASE Contains(constants, c)
  <2>1. PICK j \in DOMAIN constants : IndexOf(constants, c) = j - 1
    BY <1>2, ConstantIndexed
  <2> QED BY <1>1, <2>1
<1>3. CASE ~Contains(constants, c)
  BY <1>1, <1>3 DEF IndexOf
<1> QED BY <1>2, <1>3

LEMMA NamesParse ==
  ASSUME NEW f \in FunctionType, NEW t, t.t = "text", NEW range, 0 .. Len(f.constants) \subseteq range
  PROVE  NameIndex(f, t, range) # {}
<1>1. ParseAsConstant(t) = {StringOf(t)}
  BY DEF ParseAsConstant
<1>2. IndexOf(f.constants, StringOf(t)) \in 0 .. Len(f.constants)
  <2>1. f.constants \in Seq(Constants)
    BY DEF FunctionType
  <2> QED BY <2>1, IndexBounded
<1> QED BY <1>1, <1>2 DEF NameIndex, ConstantIndex

LEMMA ConstantsParse ==
  ASSUME NEW f, NEW t, t.t = "text" \/ Fractional(t) \/ (t.t = "num" /\ t.n \in SignedRange(4))
  PROVE  ConstantIndex(f, t) # {}
<1>1. ParseAsConstant(t) # {}
  BY NumbersParse, DecimalIs DEF ParseAsConstant
<1> QED BY <1>1 DEF ConstantIndex

\* What the assembler has to know while it assembles a function: its labels, and the
\* functions there are; and that there is room for another constant.
Ready(f, labels, name) ==
  /\ f \in FunctionType /\ Len(f.code) \in Nat
  /\ Positioned(labels, name)
  /\ \A t : Promise!IsWord(t) /\ Promise!LabelLines(name, t.s) # {} => FindLabelAddress(labels, t) # {}
  /\ \A s : Known(s) => FindFunctionIndex(s) \in Nat
Room(f, verb) == Len(f.constants) \in 0 .. (IF verb \in Named2 THEN ByteSize ELSE Span(2)) - 1

LEMMA DestinationParses ==
  ASSUME NEW f, NEW labels, NEW name, Ready(f, labels, name), NEW t \in Tokens, NEW range, NEW number,
         Promise!Destination(name, Len(f.code) + 1, t, range),
         t.t = "num" /\ t.n \in range => t.n \in number
  PROVE  Offset(f, labels, t, number) \intersect range # {}
<1>1. CASE t.t = "num"
  <2>1. t.n \in range /\ t.n \in number
    BY <1>1, RangesSame, WordsAre DEF Promise!Destination
  <2>2. FindLabelAddress(labels, t) = {}
    BY <1>1 DEF FindLabelAddress
  <2>3. Offset(f, labels, t, number) = number
    BY <2>2 DEF Offset
  <2> QED BY <2>1, <2>3
<1>2. CASE t.t # "num"
  <2>1. /\ Promise!IsWord(t) /\ Promise!LabelLines(name, t.s) # {}
        /\ Promise!Position(name, t.s) - (Len(f.code) + 1 + 1) \in range
    BY <1>2, RangesSame DEF Promise!Destination
  <2>2. PICK a : a \in FindLabelAddress(labels, t)
    BY <2>1 DEF Ready
  <2>3. a \in Nat /\ Promise!Position(name, t.s) = a + 1 /\ Len(f.code) \in Nat
    BY <2>2 DEF Ready, Positioned
  <2>4. a - (Len(f.code) + 1) \in Offset(f, labels, t, number)
    BY <2>2 DEF Offset
  <2>5. a - (Len(f.code) + 1) = Promise!Position(name, t.s) - (Len(f.code) + 1 + 1)
    BY <2>3
  <2> QED BY <2>1, <2>4, <2>5
<1> QED BY <1>1, <1>2

\* What the operand of each kind of field is parsed as.
LEMMA RegisterField1 ==
  ASSUME NEW f, NEW labels, NEW op, NEW i, NEW t \in Tokens, Reg1(t),
         Fields(op)[i] \in {"rA", "rB", "rC"} \/ (Verb(op) = "FUNCREF" /\ i = 1)
  PROVE  Parses(f, labels, op, i, t)
<1>1. ParseOperand(f, labels, op, i, t) = ParseRegister(t)
  BY DEF ParseOperand
<1> QED BY <1>1, RegisterParses DEF Parses

NoRegister(op, i) == Fields(op)[i] \notin {"rA", "rB", "rC"} /\ ~(Verb(op) = "FUNCREF" /\ i = 1)

LEMMA ConstantParses ==
  ASSUME NEW f \in FunctionType, NEW labels, NEW op, NEW i, NEW t \in Tokens, NoRegister(op, i)
  PROVE  /\ Fields(op)[i] = "kC" /\ Verb(op) \in Named2 /\ t.t = "text" /\ Room(f, Verb(op)) => Parses(f, labels, op, i, t)
         /\ Fields(op)[i] = "kBC" /\ Verb(op) = "NAME" /\ t.t = "text" /\ Room(f, Verb(op)) => Parses(f, labels, op, i, t)
         /\ Fields(op)[i] = "kBC" /\ Verb(op) = "CALLFN" /\ i = 2 /\ t.t = "text" => Parses(f, labels, op, i, t)
         /\ Fields(op)[i] = "kBC" /\ Verb(op) = "LOAD" /\ (Literal(t) \/ NumberIn1(t, SignedRange(4)))
              => Parses(f, labels, op, i, t)
<1> PICK verb, field : verb = Verb(op) /\ field = Fields(op)[i]
  OBVIOUS
<1>0. field \notin {"rA", "rB", "rC"} /\ ~(verb = "FUNCREF" /\ i = 1)
  BY DEF NoRegister
<1>c. Len(f.constants) \in Nat
  <2>1. f.constants \in Seq(Constants)
    BY DEF FunctionType
  <2> QED BY <2>1, LenProperties
<1>1. ASSUME field = "kC", verb \in Named2, t.t = "text", Room(f, verb) PROVE Parses(f, labels, op, i, t)
  <2>1. ParseOperand(f, labels, op, i, t) = NameIndex(f, t, 0 .. ByteSize - 1)
    BY <1>0, <1>1 DEF ParseOperand, Named2, Branching, Comparing
  <2>2. 0 .. Len(f.constants) \subseteq 0 .. ByteSize - 1
    BY <1>c, <1>1, ByteFacts DEF Room
  <2> QED BY <1>1, <2>1, <2>2, NamesParse DEF Parses
<1>2. ASSUME field = "kBC", verb = "NAME", t.t = "text", Room(f, verb) PROVE Parses(f, labels, op, i, t)
  <2>1. ParseOperand(f, labels, op, i, t) = NameIndex(f, t, 0 .. Span(2) - 1)
    BY <1>0, <1>2 DEF ParseOperand, Branching, Comparing
  <2>2. 0 .. Len(f.constants) \subseteq 0 .. Span(2) - 1
    BY <1>c, <1>2, SpanFacts DEF Room, Named2
  <2> QED BY <1>2, <2>1, <2>2, NamesParse DEF Parses
<1>3. ASSUME field = "kBC", verb = "CALLFN", i = 2, t.t = "text" PROVE Parses(f, labels, op, i, t)
  <2>1. ParseOperand(f, labels, op, i, t) = NameIndex(f, t, Nat)
    BY <1>0, <1>3 DEF ParseOperand, Branching, Comparing
  <2>2. 0 .. Len(f.constants) \subseteq Nat
    BY <1>c
  <2> QED BY <1>3, <2>1, <2>2, NamesParse DEF Parses
<1>4. ASSUME field = "kBC", verb = "LOAD", Literal(t) \/ NumberIn1(t, SignedRange(4)) PROVE Parses(f, labels, op, i, t)
  <2>1. t.t \in {"text", "dec"} \/ (t.t = "num" /\ t.n \in SignedRange(4))
    BY <1>4, KindsApart DEF Literal
  <2>3. t.t = "text" \/ Fractional(t) \/ (t.t = "num" /\ t.n \in SignedRange(4))
    BY <1>4, KindsApart DEF Literal
  <2>2. ParseOperand(f, labels, op, i, t) = ConstantIndex(f, t)
    BY <1>0, <1>4, <2>1 DEF ParseOperand, Branching, Comparing
  <2> QED BY <2>2, <2>3, ConstantsParse DEF Parses
<1> QED BY <1>1, <1>2, <1>3, <1>4

\* The field of an immediate.
Plainly(op, i) == NoRegister(op, i) /\ Fields(op)[i] \notin {"kC", "kBC"}

LEMMA NumberParses ==
  ASSUME NEW f, NEW labels, NEW op, NEW i, NEW t \in Tokens, Plainly(op, i), t.t = "num"
  PROVE  /\ Verb(op) \in Skipping \union {"LOAD", "LIST", "MAP"} /\ t.n \in SignedRange(2) => Parses(f, labels, op, i, t)
         /\ Verb(op) \in Comparing /\ t.n \in 0 .. ByteSize - 1 => Parses(f, labels, op, i, t)
         /\ Verb(op) \in Branching /\ i \in 1 .. 2 /\ t.n \in SignedRange(1) => Parses(f, labels, op, i, t)
         /\ Verb(op) \in {"CALLF", "CALLFN"} /\ i = 1 /\ t.n \in 0 .. ByteSize - 1 => Parses(f, labels, op, i, t)
         /\ Verb(op) = "ARGBLK" /\ t.n \in 0 .. Span(3) - 1 => Parses(f, labels, op, i, t)
         /\ Verb(op) = "ARG" /\ t.n \in SignedRange(3) => Parses(f, labels, op, i, t)
<1> PICK verb, field : verb = Verb(op) /\ field = Fields(op)[i]
  OBVIOUS
<1>0. field \notin {"rA", "rB", "rC"} /\ ~(verb = "FUNCREF" /\ i = 1) /\ field \notin {"kC", "kBC"}
  BY DEF Plainly, NoRegister
<1>1. ASSUME verb \in Skipping \union {"LOAD", "LIST", "MAP"}, t.n \in SignedRange(2) PROVE Parses(f, labels, op, i, t)
  <2>1. ParseOperand(f, labels, op, i, t) = ParseInt16(t)
    BY <1>0, <1>1 DEF ParseOperand, Branching, Comparing, Skipping
  <2> QED BY <1>1, <2>1, NumbersParse DEF Parses
<1>2. ASSUME verb \in Comparing, t.n \in 0 .. ByteSize - 1 PROVE Parses(f, labels, op, i, t)
  <2>1. ParseOperand(f, labels, op, i, t) = ParseByte(t)
    BY <1>0, <1>2 DEF ParseOperand, Branching, Comparing
  <2> QED BY <1>2, <2>1, NumbersParse DEF Parses
<1>3. ASSUME \/ verb \in Branching /\ i \in 1 .. 2 /\ t.n \in SignedRange(1)
             \/ verb \in {"CALLF", "CALLFN"} /\ i = 1 /\ t.n \in 0 .. ByteSize - 1
      PROVE  Parses(f, labels, op, i, t)
  <2>1. ParseOperand(f, labels, op, i, t) = LowByte(t)
    BY <1>0, <1>3 DEF ParseOperand, Branching, Comparing
  <2> QED BY <1>3, <2>1, NumbersParse, RangesNest DEF Parses
<1>4. ASSUME verb = "ARGBLK", t.n \in 0 .. Span(3) - 1 PROVE Parses(f, labels, op, i, t)
  <2>1. ParseOperand(f, labels, op, i, t) = ParseInt32(t) \intersect 0 .. Span(3) - 1
    BY <1>0, <1>4 DEF ParseOperand, Branching, Comparing
  <2>2. t.n \in ParseInt32(t)
    BY <1>4, NumbersParse, RangesNest
  <2> QED BY <1>4, <2>1, <2>2 DEF Parses
<1>5. ASSUME verb = "ARG", t.n \in SignedRange(3) PROVE Parses(f, labels, op, i, t)
  <2>1. ParseOperand(f, labels, op, i, t) = ParseInt32(t) \intersect -(Span(3) - 1) .. Span(3) - 1
    BY <1>0, <1>5 DEF ParseOperand, Branching, Comparing
  <2>2. t.n \in ParseInt32(t) /\ t.n \in -(Span(3) - 1) .. Span(3) - 1
    BY <1>5, NumbersParse, RangesNest
  <2> QED BY <2>1, <2>2 DEF Parses
<1> QED BY <1>1, <1>2, <1>3, <1>4, <1>5

LEMMA JumpParses ==
  ASSUME NEW f, NEW labels, NEW name, Ready(f, labels, name), NEW op, NEW i, NEW t \in Tokens, Plainly(op, i)
  PROVE  /\ Verb(op) = "JUMP" /\ Promise!Destination(name, Len(f.code) + 1, t, SignedRange(3)) => Parses(f, labels, op, i, t)
         /\ Verb(op) \in {"BRTRUE", "BRFALSE"} /\ Promise!Destination(name, Len(f.code) + 1, t, SignedRange(2))
              => Parses(f, labels, op, i, t)
         /\ Verb(op) \in Branching /\ i = 3 /\ Promise!Destination(name, Len(f.code) + 1, t, SignedRange(1))
              => Parses(f, labels, op, i, t)
<1> PICK verb, field, k : verb = Verb(op) /\ field = Fields(op)[i] /\ k = Len(f.code) + 1
  OBVIOUS
<1>0. field \notin {"rA", "rB", "rC"} /\ ~(verb = "FUNCREF" /\ i = 1) /\ field \notin {"kC", "kBC"}
  BY DEF Plainly, NoRegister
<1>1. ASSUME verb = "JUMP", Promise!Destination(name, k, t, SignedRange(3)) PROVE Parses(f, labels, op, i, t)
  <2>1. ParseOperand(f, labels, op, i, t) = Offset(f, labels, t, ParseInt24(t))
    BY <1>0, <1>1 DEF ParseOperand, Branching, Comparing
  <2>2. t.t = "num" /\ t.n \in SignedRange(3) => t.n \in ParseInt24(t)
    BY NumbersParse
  <2>3. Offset(f, labels, t, ParseInt24(t)) \intersect SignedRange(3) # {}
    BY <1>1, <2>2, DestinationParses
  <2> QED BY <2>1, <2>3 DEF Parses
<1>2. ASSUME verb \in {"BRTRUE", "BRFALSE"}, Promise!Destination(name, k, t, SignedRange(2)) PROVE Parses(f, labels, op, i, t)
  <2>1. ParseOperand(f, labels, op, i, t) = Offset(f, labels, t, ParseInt32(t)) \intersect SignedRange(2)
    BY <1>0, <1>2 DEF ParseOperand, Branching, Comparing
  <2>2. t.t = "num" /\ t.n \in SignedRange(2) => t.n \in ParseInt32(t)
    BY NumbersParse, RangesNest
  <2>3. Offset(f, labels, t, ParseInt32(t)) \intersect SignedRange(2) # {}
    BY <1>2, <2>2, DestinationParses
  <2> QED BY <2>1, <2>3 DEF Parses
<1>3. ASSUME verb \in Branching, i = 3, Promise!Destination(name, k, t, SignedRange(1)) PROVE Parses(f, labels, op, i, t)
  <2>1. ParseOperand(f, labels, op, i, t) = Offset(f, labels, t, ParseInt32(t)) \intersect SignedRange(1)
    BY <1>0, <1>3 DEF ParseOperand, Branching, Comparing
  <2>2. t.t = "num" /\ t.n \in SignedRange(1) => t.n \in ParseInt32(t)
    BY NumbersParse, RangesNest
  <2>3. Offset(f, labels, t, ParseInt32(t)) \intersect SignedRange(1) # {}
    BY <1>3, <2>2, DestinationParses
  <2> QED BY <2>1, <2>3 DEF Parses
<1> QED BY <1>1, <1>2, <1>3

LEMMA FunctionParses ==
  ASSUME NEW f, NEW labels, NEW name, Ready(f, labels, name), NEW op, NEW t \in Tokens, Plainly(op, 2)
  PROVE  /\ Verb(op) = "CALLF" /\ Known(t.s) => Parses(f, labels, op, 2, t)
         /\ Verb(op) = "FUNCREF" => Parses(f, labels, op, 2, t)
<1> PICK verb, field : verb = Verb(op) /\ field = Fields(op)[2]
  OBVIOUS
<1>0. field \notin {"rA", "rB", "rC"} /\ field \notin {"kC", "kBC"}
  BY DEF Plainly, NoRegister
<1>1. verb = "CALLF" => ParseOperand(f, labels, op, 2, t) = {FindFunctionIndex(t.s)} \intersect Nat
  BY <1>0 DEF ParseOperand, Branching, Comparing
<1>2. verb = "FUNCREF" => ParseOperand(f, labels, op, 2, t) = {FindFunctionIndex(t.s)}
  BY <1>0 DEF ParseOperand, Branching, Comparing
<1> QED BY <1>1, <1>2 DEF Parses, Ready

\* The opcodes and their fields.
LEMMA FieldsShaped ==
  ASSUME NEW op, Shaped(op), NEW n \in 1 .. 3, Len(op) = n + 1
  PROVE  \A i \in 1 .. n : Fields(op)[i] = op[i + 1]
BY DEF Shaped

LEMMA Fields2 == ASSUME NEW v, NEW a PROVE Verb(<<v, a>>) = v /\ Fields(<<v, a>>)[1] = a
<1> PICK op : op = <<v, a>>
  OBVIOUS
<1>1. Shaped(op) /\ Len(op) = 1 + 1 /\ op[1] = v /\ op[1 + 1] = a
  BY Shaped2
<1>2. 1 \in 1 .. 3 /\ 1 \in 1 .. 1
  OBVIOUS
<1> QED BY <1>1, <1>2, FieldsShaped DEF Verb
LEMMA Fields3 ==
  ASSUME NEW v, NEW a, NEW b
  PROVE  Verb(<<v, a, b>>) = v /\ Fields(<<v, a, b>>)[1] = a /\ Fields(<<v, a, b>>)[2] = b
<1> PICK op : op = <<v, a, b>>
  OBVIOUS
<1>1. Shaped(op) /\ Len(op) = 2 + 1 /\ op[1] = v /\ op[1 + 1] = a /\ op[2 + 1] = b
  BY Shaped3
<1>2. 2 \in 1 .. 3 /\ 1 \in 1 .. 2 /\ 2 \in 1 .. 2
  OBVIOUS
<1> QED BY <1>1, <1>2, FieldsShaped DEF Verb
LEMMA Fields4 ==
  ASSUME NEW v, NEW a, NEW b, NEW c
  PROVE  /\ Verb(<<v, a, b, c>>) = v /\ Fields(<<v, a, b, c>>)[1] = a /\ Fields(<<v, a, b, c>>)[2] = b
         /\ Fields(<<v, a, b, c>>)[3] = c
<1> PICK op : op = <<v, a, b, c>>
  OBVIOUS
<1>1. Shaped(op) /\ Len(op) = 3 + 1 /\ op[1] = v /\ op[1 + 1] = a /\ op[2 + 1] = b /\ op[3 + 1] = c
  BY Shaped4
<1>2. 1 \in 1 .. 3 /\ 2 \in 1 .. 3 /\ 3 \in 1 .. 3
  OBVIOUS
<1> QED BY <1>1, <1>2, FieldsShaped DEF Verb

\* The assembler takes the operands of an instruction.
Accepts(f, labels, verb, x) ==
  /\ Form(verb, x) \in Opcodes /\ Verb(Form(verb, x)) = verb /\ Len(x) = Count(verb)
  /\ \A i \in 1 .. Count(verb) : Parses(f, labels, Form(verb, x), i, x[i])

LEMMA Accepts0 ==
  ASSUME NEW f, NEW labels, NEW verb \in Idle
  PROVE  Accepts(f, labels, verb, <<>>)
<1>1. Form(verb, <<>>) = <<verb>> /\ <<verb>> \in Opcodes
  <2>1. Form("NOOP", <<>>) = <<"NOOP">> /\ Form("RETURN", <<>>) = <<"RETURN">>
    BY DEF Form, Arithmetic, Comparing, Branching, Skipping
  <2>2. <<"NOOP">> \in Opcodes /\ <<"RETURN">> \in Opcodes
    BY DEF Opcodes
  <2> QED BY <2>1, <2>2 DEF Idle
<1>3. Verb(<<verb>>) = verb
  BY DEF Verb
<1>2. Count(verb) = 0
  BY DEF Count, NoOperand, Idle
<1> QED BY <1>1, <1>2, <1>3 DEF Accepts

Acceptable1(f, labels, verb, x, a) ==
  /\ verb \in OneOperand /\ Len(x) = 1 /\ Form(verb, x) = <<verb, a>> /\ <<verb, a>> \in Opcodes
  /\ Parses(f, labels, <<verb, a>>, 1, x[1])
LEMMA Accepts1 ==
  ASSUME NEW f, NEW labels, NEW verb, NEW x, NEW a, Acceptable1(f, labels, verb, x, a)
  PROVE  Accepts(f, labels, verb, x)
<1>1. Count(verb) = 1
  BY DEF Count, NoOperand, OneOperand, Acceptable1
<1>2. \A i \in 1 .. 1 : i = 1
  OBVIOUS
<1> QED BY <1>1, <1>2, Fields2 DEF Accepts, Acceptable1

Acceptable2(f, labels, verb, x, a, b) ==
  /\ verb \in TwoOperands /\ Len(x) = 2 /\ Form(verb, x) = <<verb, a, b>> /\ <<verb, a, b>> \in Opcodes
  /\ Parses(f, labels, <<verb, a, b>>, 1, x[1]) /\ Parses(f, labels, <<verb, a, b>>, 2, x[2])
LEMMA Accepts2 ==
  ASSUME NEW f, NEW labels, NEW verb, NEW x, NEW a, NEW b, Acceptable2(f, labels, verb, x, a, b)
  PROVE  Accepts(f, labels, verb, x)
<1>1. Count(verb) = 2
  BY DEF Count, NoOperand, OneOperand, TwoOperands, Acceptable2
<1>2. \A i \in 1 .. 2 : i = 1 \/ i = 2
  OBVIOUS
<1> QED BY <1>1, <1>2, Fields3 DEF Accepts, Acceptable2

ThreeOperands ==
  Arithmetic \union Comparing \union Branching \union {"LOADV", "LOADC", "ASSIGN", "INDEX", "IDXSET", "CALL"}
Acceptable3(f, labels, verb, x, a, b, c) ==
  /\ verb \in ThreeOperands /\ Len(x) = 3 /\ Form(verb, x) = <<verb, a, b, c>> /\ <<verb, a, b, c>> \in Opcodes
  /\ Parses(f, labels, <<verb, a, b, c>>, 1, x[1]) /\ Parses(f, labels, <<verb, a, b, c>>, 2, x[2])
  /\ Parses(f, labels, <<verb, a, b, c>>, 3, x[3])
LEMMA Accepts3 ==
  ASSUME NEW f, NEW labels, NEW verb, NEW x, NEW a, NEW b, NEW c, Acceptable3(f, labels, verb, x, a, b, c)
  PROVE  Accepts(f, labels, verb, x)
<1>1. Count(verb) = 3
  BY DEF Count, NoOperand, OneOperand, TwoOperands, ThreeOperands, Arithmetic, Comparing, Branching, Acceptable3
<1>2. \A i \in 1 .. 3 : i = 1 \/ i = 2 \/ i = 3
  OBVIOUS
<1> QED BY <1>1, <1>2, Fields4 DEF Accepts, Acceptable3

LEMMA TokensAre ==
  ASSUME NEW x \in Seq(Tokens)
  PROVE  /\ Len(x) \in {1, 2, 3} => x[1] \in Tokens
         /\ Len(x) \in {2, 3} => x[2] \in Tokens
         /\ Len(x) = 3 => x[3] \in Tokens
<1>1. \A i \in 1 .. Len(x) : x[i] \in Tokens
  BY ElementOfSeq
<1> QED BY <1>1

\* Three registers.
LEMMA RegistersAccepted ==
  ASSUME NEW f, NEW labels, NEW x \in Seq(Tokens), Registers(x, 3),
         NEW verb \in Arithmetic \union {"INDEX", "IDXSET", "CALL"}
  PROVE  Accepts(f, labels, verb, x)
<1> PICK op : op = <<verb, "rA", "rB", "rC">>
  OBVIOUS
<1>1. Verb(op) = verb /\ Fields(op)[1] = "rA" /\ Fields(op)[2] = "rB" /\ Fields(op)[3] = "rC"
  BY Fields4
<1>2. Form(verb, x) = op /\ op \in Opcodes
  BY DEF Form, ArithmeticForm, ContainerForm, CallForm, Arithmetic, Comparing, Branching, Skipping, Opcodes
<1>3. Len(x) = 3 /\ \A i \in {1, 2, 3} : x[i] \in Tokens /\ Reg1(x[i])
  BY TokensAre DEF Registers
<1>4. \A i \in {1, 2, 3} : Parses(f, labels, op, i, x[i])
  BY <1>1, <1>3, RegisterField1
<1>5. verb \in ThreeOperands
  BY DEF ThreeOperands
<1>6. Acceptable3(f, labels, verb, x, "rA", "rB", "rC")
  BY <1>2, <1>3, <1>4, <1>5 DEF Acceptable3
<1> QED BY <1>6, Accepts3

LEMMA FewRegistersAccepted ==
  ASSUME NEW f, NEW labels, NEW x \in Seq(Tokens), NEW verb
  PROVE  /\ verb \in {"LOCALS", "OUTER", "GLOBALS"} /\ Registers(x, 1) => Accepts(f, labels, verb, x)
         /\ verb = "PUSH" /\ Registers(x, 2) => Accepts(f, labels, verb, x)
<1>1. ASSUME verb \in {"LOCALS", "OUTER", "GLOBALS"}, Registers(x, 1) PROVE Accepts(f, labels, verb, x)
  <2> PICK op : op = <<verb, "rA">>
    OBVIOUS
  <2>1. Verb(op) = verb /\ Fields(op)[1] = "rA"
    BY Fields2
  <2>2. Form(verb, x) = op /\ op \in Opcodes /\ verb \in OneOperand
    BY <1>1 DEF Form, ContainerForm, Arithmetic, Comparing, Branching, Skipping, Opcodes, OneOperand
  <2>3. Len(x) = 1 /\ x[1] \in Tokens /\ Reg1(x[1])
    BY <1>1, TokensAre DEF Registers
  <2>4. Parses(f, labels, op, 1, x[1])
    BY <2>1, <2>3, RegisterField1
  <2> QED BY <2>2, <2>3, <2>4, Accepts1 DEF Acceptable1
<1>2. ASSUME verb = "PUSH", Registers(x, 2) PROVE Accepts(f, labels, verb, x)
  <2> PICK op : op = <<verb, "rA", "rB">>
    OBVIOUS
  <2>1. Verb(op) = verb /\ Fields(op)[1] = "rA" /\ Fields(op)[2] = "rB"
    BY Fields3
  <2>2. Form(verb, x) = op /\ op \in Opcodes /\ verb \in TwoOperands
    BY <1>2 DEF Form, ContainerForm, Arithmetic, Comparing, Branching, Skipping, Opcodes, TwoOperands
  <2>3. Len(x) = 2 /\ x[1] \in Tokens /\ Reg1(x[1]) /\ x[2] \in Tokens /\ Reg1(x[2])
    BY <1>2, TokensAre DEF Registers
  <2>4. Parses(f, labels, op, 1, x[1]) /\ Parses(f, labels, op, 2, x[2])
    BY <2>1, <2>3, RegisterField1
  <2> QED BY <2>2, <2>3, <2>4, Accepts2 DEF Acceptable2
<1> QED BY <1>1, <1>2

\* What a well-formed instruction has besides: the registers its formats ask for.
RegistersFirst(verb, x) ==
  /\ verb \in Comparing => (Reg1(x[2]) \/ Reg1(x[3])) /\ (verb \in {"EQ", "NE"} => Reg1(x[2]))
  /\ verb \in Skipping \union Branching =>
       (Reg1(x[1]) \/ Reg1(x[2])) /\ (verb \in {"IFEQ", "IFNE", "BREQ", "BRNE"} => Reg1(x[1]))

LEMMA RegistersAreFirst ==
  ASSUME NEW name, NEW k, NEW verb, NEW x, Promise!GoodOperands(name, k, verb, x)
  PROVE  RegistersFirst(verb, x)
<1>1. verb \in Comparing => RegistersFirst(verb, x)
  <2>1. verb \in Comparing => (\E i \in 2 .. 3 : Reg1(x[i])) /\ (verb \in {"EQ", "NE"} => Reg1(x[2]))
    BY VerbsSame DEF Promise!GoodOperands, Reg1, Comparing, Arithmetic, Skipping, Branching
  <2> QED BY <2>1 DEF RegistersFirst, Comparing, Skipping, Branching
<1>2. verb \in Skipping => RegistersFirst(verb, x)
  <2>1. verb \in Skipping => (\E i \in 1 .. 2 : Reg1(x[i])) /\ (verb \in {"IFEQ", "IFNE"} => Reg1(x[1]))
    BY VerbsSame DEF Promise!GoodOperands, Reg1, Comparing, Arithmetic, Skipping, Branching
  <2> QED BY <2>1 DEF RegistersFirst, Comparing, Skipping, Branching
<1>3. verb \in Branching => RegistersFirst(verb, x)
  <2>1. verb \in Branching => (\E i \in 1 .. 2 : Reg1(x[i])) /\ (verb \in {"BREQ", "BRNE"} => Reg1(x[1]))
    BY VerbsSame DEF Promise!GoodOperands, Reg1, Comparing, Arithmetic, Skipping, Branching
  <2> QED BY <2>1 DEF RegistersFirst, Comparing, Skipping, Branching
<1> QED BY <1>1, <1>2, <1>3 DEF RegistersFirst

\* A field that holds a register or a number, as the operand is one.
LEMMA EitherParses ==
  ASSUME NEW f, NEW labels, NEW op, NEW i, NEW t \in Tokens, NEW range, EitherIn(t, range), Verb(op) # "FUNCREF",
         IsReg(t) => Fields(op)[i] \in {"rA", "rB", "rC"},
         ~IsReg(t) => Fields(op)[i] \notin {"rA", "rB", "rC", "kC", "kBC"},
         Plainly(op, i) /\ t.t = "num" /\ t.n \in range => Parses(f, labels, op, i, t)
  PROVE  Parses(f, labels, op, i, t)
<1>1. CASE Reg1(t)
  BY <1>1, KindsApart, RegisterField1
<1>2. CASE NumberIn1(t, range) /\ ~IsReg(t)
  BY <1>2, KindsApart DEF Plainly, NoRegister
<1> QED BY <1>1, <1>2, KindsApart

LEMMA PickIs ==
  ASSUME NEW t, NEW reg, NEW immediate
  PROVE  /\ IsReg(t) => Pick(t, reg, immediate) = reg
         /\ ~IsReg(t) => Pick(t, reg, immediate) = immediate
BY DEF Pick

LEMMA ComparingAccepted ==
  ASSUME NEW f, NEW labels, NEW verb \in Comparing, NEW x \in Seq(Tokens), Len(x) = 3, Reg1(x[1]),
         \A i \in 2 .. 3 : EitherIn(x[i], Promise!NonNegative(SignedRange(1))), RegistersFirst(verb, x)
  PROVE  Accepts(f, labels, verb, x)
<1> PICK b, c : b = Pick(x[2], "rB", "iB") /\ c = Pick(x[3], "rC", "iC")
  OBVIOUS
<1> PICK op : op = <<verb, "rA", b, c>>
  OBVIOUS
<1>1. Form(verb, x) = op
  <2>1. Form(verb, x) = CompareForm(verb, x)
    BY DEF Form, Arithmetic, Comparing, Branching, Skipping
  <2>2. IsReg(x[2]) \/ (verb \in {"LT", "LE"} /\ IsReg(x[3]))
    BY KindsApart DEF RegistersFirst, Comparing
  <2>3. CompareForm(verb, x) = op
    BY <2>2, PickIs DEF CompareForm
  <2> QED BY <2>1, <2>3
<1>2. op \in Opcodes
  BY <1>1, CompareForms DEF FormOf, Form, Arithmetic, Comparing, Branching, Skipping
<1>3. Verb(op) = verb /\ Fields(op)[1] = "rA" /\ Fields(op)[2] = b /\ Fields(op)[3] = c
  BY Fields4
<1>4. x[1] \in Tokens /\ x[2] \in Tokens /\ x[3] \in Tokens
  BY TokensAre
<1>5. Parses(f, labels, op, 1, x[1])
  BY <1>3, <1>4, RegisterField1
<1>6. \A i \in {2, 3} : Plainly(op, i) /\ x[i].t = "num" /\ x[i].n \in Promise!NonNegative(SignedRange(1))
                          => Parses(f, labels, op, i, x[i])
  BY <1>3, <1>4, RangesNest, NumberParses
<1>7. verb # "FUNCREF"
  BY DEF Comparing
<1>8. EitherIn(x[2], Promise!NonNegative(SignedRange(1))) /\ EitherIn(x[3], Promise!NonNegative(SignedRange(1)))
  OBVIOUS
<1>9. Parses(f, labels, op, 2, x[2])
  BY <1>3, <1>4, <1>6, <1>7, <1>8, PickIs, EitherParses
<1>10. Parses(f, labels, op, 3, x[3])
  BY <1>3, <1>4, <1>6, <1>7, <1>8, PickIs, EitherParses
<1> QED BY <1>1, <1>2, <1>5, <1>9, <1>10, Accepts3 DEF Acceptable3, ThreeOperands

LEMMA SkippingAccepted ==
  ASSUME NEW f, NEW labels, NEW verb \in Skipping, NEW x \in Seq(Tokens), Len(x) = 2,
         \A i \in 1 .. 2 : EitherIn(x[i], SignedRange(2)), RegistersFirst(verb, x)
  PROVE  Accepts(f, labels, verb, x)
<1> PICK a, b : /\ a = IF IsReg(x[1]) THEN "rA" ELSE "iAB"
                /\ b = IF IsReg(x[2]) THEN (IF IsReg(x[1]) THEN "rB" ELSE "rC") ELSE "iBC"
  OBVIOUS
<1> PICK op : op = <<verb, a, b>>
  OBVIOUS
<1>1. Form(verb, x) = op
  <2>1. Form(verb, x) = IfForm(verb, x)
    BY DEF Form, Arithmetic, Comparing, Branching, Skipping
  <2>2. IsReg(x[1]) \/ (verb \in {"IFLT", "IFLE"} /\ IsReg(x[2]))
    BY KindsApart DEF RegistersFirst, Skipping
  <2>3. IfForm(verb, x) = op
    BY <2>2, PickIs DEF IfForm
  <2> QED BY <2>1, <2>3
<1>2. op \in Opcodes
  BY <1>1, IfForms DEF FormOf, Form, Arithmetic, Comparing, Branching, Skipping
<1>3. Verb(op) = verb /\ Fields(op)[1] = a /\ Fields(op)[2] = b
  BY Fields3
<1>4. x[1] \in Tokens /\ x[2] \in Tokens
  BY TokensAre
<1>5. \A i \in {1, 2} : Plainly(op, i) /\ x[i].t = "num" /\ x[i].n \in SignedRange(2) => Parses(f, labels, op, i, x[i])
  BY <1>3, <1>4, NumberParses
<1>6. verb # "FUNCREF" /\ verb \in TwoOperands
  BY DEF Skipping, TwoOperands
<1>7. EitherIn(x[1], SignedRange(2)) /\ EitherIn(x[2], SignedRange(2))
  OBVIOUS
<1>8. Parses(f, labels, op, 1, x[1])
  BY <1>3, <1>4, <1>5, <1>6, <1>7, EitherParses
<1>9. Parses(f, labels, op, 2, x[2])
  BY <1>3, <1>4, <1>5, <1>6, <1>7, EitherParses
<1> QED BY <1>1, <1>2, <1>6, <1>8, <1>9, Accepts2 DEF Acceptable2

LEMMA BranchingAccepted ==
  ASSUME NEW f, NEW labels, NEW name, Ready(f, labels, name), NEW verb \in Branching, NEW x \in Seq(Tokens),
         Len(x) = 3, \A i \in 1 .. 2 : EitherIn(x[i], SignedRange(1)),
         Promise!Destination(name, Len(f.code) + 1, x[3], SignedRange(1)), RegistersFirst(verb, x)
  PROVE  Accepts(f, labels, verb, x)
<1> PICK a, b : a = Pick(x[1], "rA", "iA") /\ b = Pick(x[2], "rB", "iB")
  OBVIOUS
<1> PICK op : op = <<verb, a, b, "iC">>
  OBVIOUS
<1>1. Form(verb, x) = op
  <2>1. Form(verb, x) = BranchForm(verb, x)
    BY DEF Form, Arithmetic, Comparing, Branching, Skipping
  <2>2. IsReg(x[1]) \/ (verb \in {"BRLT", "BRLE"} /\ IsReg(x[2]))
    BY KindsApart DEF RegistersFirst, Branching
  <2>3. BranchForm(verb, x) = op
    <3>1. CASE verb \in {"BRLT", "BRLE"}
      BY <2>2, <3>1, PickIs DEF BranchForm
    <3>2. CASE verb \in {"BREQ", "BRNE"}
      BY <2>2, <3>2, PickIs DEF BranchForm
    <3> QED BY <3>1, <3>2 DEF Branching
  <2> QED BY <2>1, <2>3
<1>2. op \in Opcodes
  BY <1>1, BranchForms DEF FormOf, Form, Arithmetic, Comparing, Branching, Skipping
<1>3. Verb(op) = verb /\ Fields(op)[1] = a /\ Fields(op)[2] = b /\ Fields(op)[3] = "iC"
  BY Fields4
<1>4. x[1] \in Tokens /\ x[2] \in Tokens /\ x[3] \in Tokens
  BY TokensAre
<1>5. \A i \in {1, 2} : Plainly(op, i) /\ x[i].t = "num" /\ x[i].n \in SignedRange(1) => Parses(f, labels, op, i, x[i])
  BY <1>3, <1>4, NumberParses
<1>6. verb # "FUNCREF" /\ verb \in ThreeOperands
  BY DEF Branching, ThreeOperands
<1>7. EitherIn(x[1], SignedRange(1)) /\ EitherIn(x[2], SignedRange(1))
  OBVIOUS
<1>8. Parses(f, labels, op, 1, x[1])
  BY <1>3, <1>4, <1>5, <1>6, <1>7, PickIs, EitherParses
<1>9. Parses(f, labels, op, 2, x[2])
  BY <1>3, <1>4, <1>5, <1>6, <1>7, PickIs, EitherParses
<1>10. Plainly(op, 3)
  BY <1>3, <1>6 DEF Plainly, NoRegister
<1>11. Parses(f, labels, op, 3, x[3])
  BY <1>3, <1>4, <1>10, JumpParses
<1> QED BY <1>1, <1>2, <1>6, <1>8, <1>9, <1>11, Accepts3 DEF Acceptable3

LEMMA LoadAccepted ==
  ASSUME NEW f \in FunctionType, NEW labels, NEW x \in Seq(Tokens), Len(x) = 2, Reg1(x[1]),
         EitherIn(x[2], SignedRange(4)) \/ Literal(x[2])
  PROVE  Accepts(f, labels, "LOAD", x)
<1> PICK t, b : t = x[2] /\ b = IF IsReg(t) THEN "rB" ELSE IF t.t = "const" \/ NeedsConstant(t) THEN "kBC" ELSE "iBC"
  OBVIOUS
<1> PICK op : op = <<"LOAD", "rA", b>>
  OBVIOUS
<1>1. Form("LOAD", x) = op
  <2>1. Form("LOAD", x) = DataForm("LOAD", x)
    BY DEF Form, Arithmetic, Comparing, Branching, Skipping
  <2>2. DataForm("LOAD", x) = op
    BY DEF DataForm
  <2> QED BY <2>1, <2>2
<1>2. op \in Opcodes
  BY DEF Opcodes
<1>3. Verb(op) = "LOAD" /\ Fields(op)[1] = "rA" /\ Fields(op)[2] = b
  BY Fields3
<1>4. x[1] \in Tokens /\ t \in Tokens
  BY TokensAre
<1>5. Parses(f, labels, op, 1, x[1])
  BY <1>3, <1>4, RegisterField1
<1>6. Parses(f, labels, op, 2, t)
  <2>1. CASE Reg1(t)
    BY <1>3, <1>4, <2>1, KindsApart, RegisterField1
  <2>2. CASE ~IsReg(t) /\ NeedsConstant(t)
    <3>1. NoRegister(op, 2) /\ Fields(op)[2] = "kBC"
      BY <1>3, <2>2 DEF NoRegister
    <3>2. Literal(t) \/ NumberIn1(t, SignedRange(4))
      BY <2>2, KindsApart
    <3> QED BY <1>3, <1>4, <3>1, <3>2, ConstantParses
  <2>3. CASE ~IsReg(t) /\ ~NeedsConstant(t)
    <3>1. t.t = "num" /\ t.n \in SignedRange(2)
      BY <2>3, KindsApart DEF NeedsConstant, Literal
    <3>2. Plainly(op, 2)
      BY <1>3, <2>3, <3>1 DEF Plainly, NoRegister
    <3> QED BY <1>3, <1>4, <3>1, <3>2, NumberParses
  <2>4. IsReg(t) => Reg1(t)
    BY KindsApart DEF Literal
  <2> QED BY <2>1, <2>2, <2>3, <2>4
<1>7. "LOAD" \in TwoOperands
  BY DEF TwoOperands
<1> QED BY <1>1, <1>2, <1>5, <1>6, <1>7, Accepts2 DEF Acceptable2

LEMMA NamingAccepted ==
  ASSUME NEW f \in FunctionType, NEW labels, NEW verb, Room(f, verb), NEW x \in Seq(Tokens), Reg1(x[1])
  PROVE  /\ verb \in Named2 /\ Len(x) = 3 /\ Reg1(x[2]) /\ x[3].t = "text" => Accepts(f, labels, verb, x)
         /\ verb = "NAME" /\ Len(x) = 2 /\ x[2].t = "text" => Accepts(f, labels, verb, x)
<1>1. ASSUME verb \in Named2, Len(x) = 3, Reg1(x[2]), x[3].t = "text" PROVE Accepts(f, labels, verb, x)
  <2> PICK op : op = <<verb, "rA", "rB", "kC">>
    OBVIOUS
  <2>1. Form(verb, x) = op
    BY <1>1 DEF Form, DataForm, Named2, Arithmetic, Comparing, Branching, Skipping
  <2>2. op \in Opcodes
    BY <1>1 DEF Opcodes, Named2
  <2>3. Verb(op) = verb /\ Fields(op)[1] = "rA" /\ Fields(op)[2] = "rB" /\ Fields(op)[3] = "kC"
    BY Fields4
  <2>4. x[1] \in Tokens /\ x[2] \in Tokens /\ x[3] \in Tokens
    BY <1>1, TokensAre
  <2>5. Parses(f, labels, op, 1, x[1]) /\ Parses(f, labels, op, 2, x[2])
    BY <1>1, <2>3, <2>4, RegisterField1
  <2>6. verb \in ThreeOperands /\ NoRegister(op, 3)
    BY <1>1, <2>3 DEF ThreeOperands, Named2, NoRegister
  <2>7. Parses(f, labels, op, 3, x[3])
    BY <1>1, <2>3, <2>4, <2>6, ConstantParses
  <2> QED BY <1>1, <2>1, <2>2, <2>5, <2>6, <2>7, Accepts3 DEF Acceptable3
<1>2. ASSUME verb = "NAME", Len(x) = 2, x[2].t = "text" PROVE Accepts(f, labels, verb, x)
  <2> PICK op : op = <<verb, "rA", "kBC">>
    OBVIOUS
  <2>1. Form(verb, x) = op
    BY <1>2 DEF Form, DataForm, Arithmetic, Comparing, Branching, Skipping
  <2>2. op \in Opcodes
    BY <1>2 DEF Opcodes
  <2>3. Verb(op) = verb /\ Fields(op)[1] = "rA" /\ Fields(op)[2] = "kBC"
    BY Fields3
  <2>4. x[1] \in Tokens /\ x[2] \in Tokens
    BY <1>2, TokensAre
  <2>5. Parses(f, labels, op, 1, x[1])
    BY <1>2, <2>3, <2>4, RegisterField1
  <2>6. verb \in TwoOperands /\ NoRegister(op, 2)
    BY <1>2, <2>3 DEF TwoOperands, NoRegister
  <2>7. Parses(f, labels, op, 2, x[2])
    BY <1>2, <2>3, <2>4, <2>6, ConstantParses
  <2> QED BY <1>2, <2>1, <2>2, <2>5, <2>6, <2>7, Accepts2 DEF Acceptable2
<1> QED BY <1>1, <1>2

LEMMA JumpingAccepted ==
  ASSUME NEW f, NEW labels, NEW name, Ready(f, labels, name), NEW verb, NEW x \in Seq(Tokens)
  PROVE  /\ verb = "JUMP" /\ Len(x) = 1 /\ Promise!Destination(name, Len(f.code) + 1, x[1], SignedRange(3))
              => Accepts(f, labels, verb, x)
         /\ verb \in {"BRTRUE", "BRFALSE"} /\ Len(x) = 2 /\ Reg1(x[1]) /\ Promise!Destination(name, Len(f.code) + 1, x[2], SignedRange(2))
              => Accepts(f, labels, verb, x)
<1>1. ASSUME verb = "JUMP", Len(x) = 1, Promise!Destination(name, Len(f.code) + 1, x[1], SignedRange(3))
      PROVE  Accepts(f, labels, verb, x)
  <2> PICK op : op = <<verb, "iABC">>
    OBVIOUS
  <2>1. Form(verb, x) = op
    BY <1>1 DEF Form, Arithmetic, Comparing, Branching, Skipping
  <2>2. op \in Opcodes /\ verb \in OneOperand
    BY <1>1 DEF Opcodes, OneOperand
  <2>3. Verb(op) = verb /\ Fields(op)[1] = "iABC"
    BY Fields2
  <2>4. x[1] \in Tokens
    BY <1>1, TokensAre
  <2>5. Plainly(op, 1)
    BY <1>1, <2>3 DEF Plainly, NoRegister
  <2>6. Parses(f, labels, op, 1, x[1])
    BY <1>1, <2>3, <2>4, <2>5, JumpParses
  <2> QED BY <1>1, <2>1, <2>2, <2>6, Accepts1 DEF Acceptable1
<1>2. ASSUME verb \in {"BRTRUE", "BRFALSE"}, Len(x) = 2, Reg1(x[1]),
             Promise!Destination(name, Len(f.code) + 1, x[2], SignedRange(2))
      PROVE  Accepts(f, labels, verb, x)
  <2> PICK op : op = <<verb, "rA", "iBC">>
    OBVIOUS
  <2>1. Form(verb, x) = op
    BY <1>2 DEF Form, BranchForm, Arithmetic, Comparing, Branching, Skipping
  <2>2. op \in Opcodes /\ verb \in TwoOperands
    BY <1>2 DEF Opcodes, TwoOperands
  <2>3. Verb(op) = verb /\ Fields(op)[1] = "rA" /\ Fields(op)[2] = "iBC"
    BY Fields3
  <2>4. x[1] \in Tokens /\ x[2] \in Tokens
    BY <1>2, TokensAre
  <2>5. Plainly(op, 2)
    BY <1>2, <2>3 DEF Plainly, NoRegister
  <2>6. Parses(f, labels, op, 1, x[1])
    BY <1>2, <2>3, <2>4, RegisterField1
  <2>7. Parses(f, labels, op, 2, x[2])
    BY <1>2, <2>3, <2>4, <2>5, JumpParses
  <2> QED BY <1>2, <2>1, <2>2, <2>6, <2>7, Accepts2 DEF Acceptable2
<1> QED BY <1>1, <1>2

LEMMA CallsAccepted ==
  ASSUME NEW f \in FunctionType, NEW labels, NEW name, Ready(f, labels, name), NEW verb, NEW x \in Seq(Tokens),
         Len(x) = 2, NumberIn1(x[1], 0 .. ByteSize - 1)
  PROVE  /\ verb = "CALLF" /\ Known(x[2].s) => Accepts(f, labels, verb, x)
         /\ verb = "CALLFN" /\ x[2].t = "text" => Accepts(f, labels, verb, x)
<1>1. x[1] \in Tokens /\ x[2] \in Tokens /\ x[1].t = "num" /\ x[1].n \in 0 .. ByteSize - 1
  BY TokensAre, KindsApart
<1>2. ASSUME verb = "CALLF", Known(x[2].s) PROVE Accepts(f, labels, verb, x)
  <2> PICK op : op = <<verb, "iA", "iBC">>
    OBVIOUS
  <2>1. Form(verb, x) = op
    BY <1>2 DEF Form, CallForm, Arithmetic, Comparing, Branching, Skipping
  <2>2. op \in Opcodes /\ verb \in TwoOperands
    BY <1>2 DEF Opcodes, TwoOperands
  <2>3. Verb(op) = verb /\ Fields(op)[1] = "iA" /\ Fields(op)[2] = "iBC"
    BY Fields3
  <2>4. Plainly(op, 1) /\ Plainly(op, 2)
    BY <1>2, <2>3 DEF Plainly, NoRegister
  <2>5. Parses(f, labels, op, 1, x[1])
    BY <1>1, <1>2, <2>3, <2>4, NumberParses
  <2>6. Parses(f, labels, op, 2, x[2])
    BY <1>1, <1>2, <2>3, <2>4, FunctionParses
  <2> QED BY <2>1, <2>2, <2>5, <2>6, Accepts2 DEF Acceptable2
<1>3. ASSUME verb = "CALLFN", x[2].t = "text" PROVE Accepts(f, labels, verb, x)
  <2> PICK op : op = <<verb, "iA", "kBC">>
    OBVIOUS
  <2>1. Form(verb, x) = op
    BY <1>3 DEF Form, CallForm, Arithmetic, Comparing, Branching, Skipping
  <2>2. op \in Opcodes /\ verb \in TwoOperands
    BY <1>3 DEF Opcodes, TwoOperands
  <2>3. Verb(op) = verb /\ Fields(op)[1] = "iA" /\ Fields(op)[2] = "kBC"
    BY Fields3
  <2>4. Plainly(op, 1) /\ NoRegister(op, 2)
    BY <1>3, <2>3 DEF Plainly, NoRegister
  <2>5. Parses(f, labels, op, 1, x[1])
    BY <1>1, <1>3, <2>3, <2>4, NumberParses
  <2>6. Parses(f, labels, op, 2, x[2])
    BY <1>1, <1>3, <2>3, <2>4, ConstantParses
  <2> QED BY <2>1, <2>2, <2>5, <2>6, Accepts2 DEF Acceptable2
<1> QED BY <1>2, <1>3

LEMMA ArgumentsAccepted ==
  ASSUME NEW f, NEW labels, NEW verb, NEW x \in Seq(Tokens), Len(x) = 1
  PROVE  /\ verb = "ARG" /\ EitherIn(x[1], SignedRange(3)) => Accepts(f, labels, verb, x)
         /\ verb = "ARGBLK" /\ NumberIn1(x[1], Promise!NonNegative(SignedRange(3))) => Accepts(f, labels, verb, x)
<1>1. x[1] \in Tokens
  BY TokensAre
<1>2. ASSUME verb = "ARG", EitherIn(x[1], SignedRange(3)) PROVE Accepts(f, labels, verb, x)
  <2> PICK a : a = Pick(x[1], "rA", "iABC")
    OBVIOUS
  <2> PICK op : op = <<verb, a>>
    OBVIOUS
  <2>1. Form(verb, x) = op
    BY <1>2 DEF Form, CallForm, Arithmetic, Comparing, Branching, Skipping
  <2>2. op \in Opcodes /\ verb \in OneOperand /\ verb # "FUNCREF"
    BY <1>2 DEF Opcodes, OneOperand, Pick
  <2>3. Verb(op) = verb /\ Fields(op)[1] = a
    BY Fields2
  <2>4. Plainly(op, 1) /\ x[1].t = "num" /\ x[1].n \in SignedRange(3) => Parses(f, labels, op, 1, x[1])
    BY <1>1, <1>2, <2>3, NumberParses
  <2>5. Parses(f, labels, op, 1, x[1])
    BY <1>1, <1>2, <2>2, <2>3, <2>4, PickIs, EitherParses
  <2> QED BY <2>1, <2>2, <2>5, Accepts1 DEF Acceptable1
<1>3. ASSUME verb = "ARGBLK", NumberIn1(x[1], Promise!NonNegative(SignedRange(3))) PROVE Accepts(f, labels, verb, x)
  <2> PICK op : op = <<verb, "iABC">>
    OBVIOUS
  <2>1. Form(verb, x) = op
    BY <1>3 DEF Form, CallForm, Arithmetic, Comparing, Branching, Skipping
  <2>2. op \in Opcodes /\ verb \in OneOperand
    BY <1>3 DEF Opcodes, OneOperand
  <2>3. Verb(op) = verb /\ Fields(op)[1] = "iABC"
    BY Fields2
  <2>4. Plainly(op, 1) /\ x[1].t = "num" /\ x[1].n \in 0 .. Span(3) - 1
    BY <1>3, <2>3, KindsApart, RangesNest DEF Plainly, NoRegister
  <2>5. Parses(f, labels, op, 1, x[1])
    BY <1>1, <1>3, <2>3, <2>4, NumberParses
  <2> QED BY <2>1, <2>2, <2>5, Accepts1 DEF Acceptable1
<1> QED BY <1>2, <1>3

LEMMA ValuesAccepted ==
  ASSUME NEW f, NEW labels, NEW name, Ready(f, labels, name), NEW verb, NEW x \in Seq(Tokens), Len(x) = 2, Reg1(x[1])
  PROVE  /\ verb = "FUNCREF" => Accepts(f, labels, verb, x)
         /\ verb \in {"LIST", "MAP"} /\ NumberIn1(x[2], SignedRange(2)) => Accepts(f, labels, verb, x)
<1>1. x[1] \in Tokens /\ x[2] \in Tokens
  BY TokensAre
<1>2. ASSUME verb = "FUNCREF" PROVE Accepts(f, labels, verb, x)
  <2> PICK op : op = <<verb, "iA", "iBC">>
    OBVIOUS
  <2>1. Form(verb, x) = op
    BY <1>2 DEF Form, DataForm, Arithmetic, Comparing, Branching, Skipping
  <2>2. op \in Opcodes /\ verb \in TwoOperands
    BY <1>2 DEF Opcodes, TwoOperands
  <2>3. Verb(op) = verb /\ Fields(op)[1] = "iA" /\ Fields(op)[2] = "iBC"
    BY Fields3
  <2>4. Plainly(op, 2)
    BY <1>2, <2>3 DEF Plainly, NoRegister
  <2>5. Parses(f, labels, op, 1, x[1])
    BY <1>1, <1>2, <2>3, RegisterField1
  <2>6. Parses(f, labels, op, 2, x[2])
    BY <1>1, <1>2, <2>3, <2>4, FunctionParses
  <2> QED BY <2>1, <2>2, <2>5, <2>6, Accepts2 DEF Acceptable2
<1>3. ASSUME verb \in {"LIST", "MAP"}, NumberIn1(x[2], SignedRange(2)) PROVE Accepts(f, labels, verb, x)
  <2> PICK op : op = <<verb, "rA", "iBC">>
    OBVIOUS
  <2>1. Form(verb, x) = op
    BY <1>3 DEF Form, ContainerForm, Arithmetic, Comparing, Branching, Skipping
  <2>2. op \in Opcodes /\ verb \in TwoOperands
    BY <1>3 DEF Opcodes, TwoOperands
  <2>3. Verb(op) = verb /\ Fields(op)[1] = "rA" /\ Fields(op)[2] = "iBC"
    BY Fields3
  <2>4. Plainly(op, 2) /\ x[2].t = "num" /\ x[2].n \in SignedRange(2)
    BY <1>3, <2>3, KindsApart DEF Plainly, NoRegister
  <2>5. Parses(f, labels, op, 1, x[1])
    BY <1>1, <2>3, RegisterField1
  <2>6. Parses(f, labels, op, 2, x[2])
    BY <1>1, <1>3, <2>3, <2>4, NumberParses
  <2> QED BY <2>1, <2>2, <2>5, <2>6, Accepts2 DEF Acceptable2
<1> QED BY <1>2, <1>3

\* Every instruction that is well formed.
LEMMA GoodAccepted ==
  ASSUME NEW f \in FunctionType, NEW labels, NEW name, Ready(f, labels, name), NEW verb, Room(f, verb),
         NEW x \in Seq(Tokens), verb \in Idle => x = <<>>,
         NEW k, k = Len(f.code) + 1, GoodForms(name, k, verb, x), RegistersFirst(verb, x)
  PROVE  Accepts(f, labels, verb, x)
<1>1. GoodForms(name, k, verb, x) /\ RegistersFirst(verb, x)
  OBVIOUS
<1>2. CASE verb \in Idle
  BY <1>2, Accepts0
<1>3. CASE verb \in Arithmetic \union {"INDEX", "IDXSET", "CALL"} /\ Registers(x, 3)
  BY <1>3, RegistersAccepted
<1>4. CASE \/ verb \in {"LOCALS", "OUTER", "GLOBALS"} /\ Registers(x, 1)
           \/ verb = "PUSH" /\ Registers(x, 2)
  BY <1>4, FewRegistersAccepted
<1>5. CASE verb \in Comparing /\ Len(x) = 3 /\ Reg1(x[1]) /\ \A i \in 2 .. 3 : EitherIn(x[i], Promise!NonNegative(SignedRange(1)))
  BY <1>1, <1>5, ComparingAccepted
<1>6. CASE verb \in Skipping /\ Len(x) = 2 /\ \A i \in 1 .. 2 : EitherIn(x[i], SignedRange(2))
  BY <1>1, <1>6, SkippingAccepted
<1>7. CASE /\ verb \in Branching /\ Len(x) = 3 /\ \A i \in 1 .. 2 : EitherIn(x[i], SignedRange(1))
           /\ Promise!Destination(name, k, x[3], SignedRange(1))
  BY <1>1, <1>7, BranchingAccepted
<1>8. CASE \/ verb = "JUMP" /\ Len(x) = 1 /\ Promise!Destination(name, k, x[1], SignedRange(3))
           \/ /\ verb \in {"BRTRUE", "BRFALSE"} /\ Len(x) = 2 /\ Reg1(x[1])
              /\ Promise!Destination(name, k, x[2], SignedRange(2))
  BY <1>8, JumpingAccepted
<1>9. CASE verb = "LOAD" /\ Len(x) = 2 /\ Reg1(x[1]) /\ (EitherIn(x[2], SignedRange(4)) \/ Literal(x[2]))
  BY <1>9, LoadAccepted
<1>10. CASE \/ verb \in Named2 /\ Len(x) = 3 /\ Reg1(x[1]) /\ Reg1(x[2]) /\ x[3].t = "text"
            \/ verb = "NAME" /\ Len(x) = 2 /\ Reg1(x[1]) /\ x[2].t = "text"
  BY <1>10, NamingAccepted
<1>11. CASE \/ /\ verb = "CALLF" /\ Len(x) = 2 /\ NumberIn1(x[1], 0 .. ByteSize - 1)
               /\ x[2].t = "word" /\ Known(x[2].s)
            \/ verb = "CALLFN" /\ Len(x) = 2 /\ NumberIn1(x[1], 0 .. ByteSize - 1) /\ x[2].t = "text"
  BY <1>11, CallsAccepted
<1>12. CASE \/ verb = "ARG" /\ Len(x) = 1 /\ EitherIn(x[1], SignedRange(3))
            \/ verb = "ARGBLK" /\ Len(x) = 1 /\ NumberIn1(x[1], Promise!NonNegative(SignedRange(3)))
  BY <1>12, ArgumentsAccepted
<1>13. CASE \/ verb = "FUNCREF" /\ Len(x) = 2 /\ Reg1(x[1]) /\ x[2].t = "word"
            \/ verb \in {"LIST", "MAP"} /\ Len(x) = 2 /\ Reg1(x[1]) /\ NumberIn1(x[2], SignedRange(2))
  BY <1>13, ValuesAccepted
<1> QED
  BY <1>1, <1>2, <1>3, <1>4, <1>5, <1>6, <1>7, <1>8, <1>9, <1>10, <1>11, <1>12, <1>13 DEF GoodForms

LEMMA NoVerbs == "" \notin Verbs /\ ".param" \notin Verbs
<1>1. \A op \in Opcodes : op[1] # "" /\ op[1] # ".param"
  BY VerbsKnown DEF KnownVerbs, Arithmetic, Comparing, Branching, Skipping
<1> QED BY <1>1 DEF Verbs, Verb

LEMMA InstructionParses ==
  ASSUME NEW f, NEW labels, NEW verb, NEW x \in Seq(Tokens), Accepts(f, labels, verb, x)
  PROVE  verb \in Verbs /\ AddInstruction(f, labels, verb, x) # {}
<1> PICK op, parsed : op = Form(verb, x) /\ parsed = Parsed(f, labels, op, x)
  OBVIOUS
<1>1. verb \in Verbs
  BY DEF Accepts, Verbs
<1>2. Len(x) = Arity(verb)
  BY <1>1, ArityCounts DEF Accepts
<1>3. DOMAIN x = 1 .. Count(verb)
  <2>1. DOMAIN x = 1 .. Len(x)
    OBVIOUS
  <2> QED BY <2>1 DEF Accepts
<1>4. \A i \in DOMAIN x : parsed[i] # {}
  BY <1>3 DEF Accepts, Parses, Parsed
<1> QED BY <1>1, <1>2, <1>4 DEF AddInstruction

\* Every line, too: one with no instruction changes nothing.
GoodLine(name, k, line) ==
  Promise!GoodOperands(name, k, line.verb, line.args)

LEMMA GoodLineIs ==
  ASSUME NEW name, NEW k, NEW line, GoodLine(name, k, line)
  PROVE  GoodForms(name, k, line.verb, OperandsOf(line)) /\ RegistersFirst(line.verb, OperandsOf(line))
<1>1. GoodForms(name, k, line.verb, line.args) /\ RegistersFirst(line.verb, line.args)
  BY GoodOperandsAre, RegistersAreFirst DEF GoodLine
<1>2. CASE line.verb \in Idle
  BY <1>2 DEF GoodForms, RegistersFirst, Idle, Comparing, Skipping, Branching
<1>3. CASE line.verb \notin Idle
  <2>1. OperandsOf(line) = line.args
    BY <1>3 DEF OperandsOf, Idle
  <2> QED BY <1>1, <2>1
<1> QED BY <1>2, <1>3

LEMMA LineParses ==
  ASSUME NEW f \in FunctionType, NEW labels, NEW name, Ready(f, labels, name), NEW line \in ProgramLines,
         ~Param(line), ~IsFunctionLabel(line),
         Coded(line) => Room(f, line.verb) /\ GoodLine(name, Len(f.code) + 1, line)
  PROVE  AddLine(f, labels, line) # {}
<1> PICK verb, x : verb = line.verb /\ x = OperandsOf(line)
  OBVIOUS
<1>1. x \in Seq(Tokens)
  <2>1. line.args \in Seq(Tokens)
    BY DEF ProgramLines
  <2>2. <<>> \in Seq(Tokens)
    BY EmptySeq
  <2> QED BY <2>1, <2>2 DEF OperandsOf
<1>2. CASE Verbless(line)
  <2>1. AddLine(f, labels, line) = {f}
    BY <1>2, NoVerbs DEF AddLine, Verbless
  <2> QED BY <2>1
<1>3. CASE ~Verbless(line)
  <2>1. Coded(line)
    BY <1>3, CodedIs
  <2> PICK k : k = Len(f.code) + 1
    OBVIOUS
  <2>2. GoodForms(name, k, verb, x) /\ RegistersFirst(verb, x) /\ Room(f, verb)
    BY <2>1, GoodLineIs
  <2>3. verb \in Idle => x = <<>>
    BY DEF Idle, OperandsOf
  <2>4. Accepts(f, labels, verb, x)
    BY <1>1, <2>2, <2>3, GoodAccepted
  <2>5. verb \in Verbs /\ AddInstruction(f, labels, verb, x) # {}
    BY <1>1, <2>4, InstructionParses
  <2>6. AddLine(f, labels, line) = AddInstruction(f, labels, verb, x)
    BY <2>5, NoVerbs DEF AddLine, OperandsOf
  <2> QED BY <2>5, <2>6
<1> QED BY <1>2, <1>3

-----------------------------------------------------------------------------
(* Bodies.                                                                 *)

Given ==
  /\ source \in Seq(ProgramLines) /\ functions \in Seq(FunctionType)
  /\ Named1 /\ WellMade /\ FewNames

LEMMA NamesFound ==
  ASSUME Given, NEW name, Known(name)
  PROVE  FindFunctionIndex(name) \in Nat
<1>1. source \in Seq(ProgramLines) /\ functions \in Seq(FunctionType) /\ NamesOf(functions) = FunctionNames
  BY DEF Given, Named1
<1>2. Named(FunctionNames, name)
  BY <1>1, MainNamed, HeadingNamed DEF Known, Named
<1> QED BY <1>1, <1>2, FirstNamed

LEMMA BodyReady ==
  ASSUME Given, NEW name, NEW last \in Nat, last >= Len(source),
         NEW first \in 1 .. Len(source) + 1, NEW end \in first .. Len(source) + 1,
         Whole(name, first, end, last), NEW f \in FunctionType
  PROVE  Ready(f, Labels(first, end), name)
<1> PICK labels : labels = Labels(first, end)
  OBVIOUS
<1>1. source \in Seq(ProgramLines) /\ Plain
  BY WellFormedIs DEF Given, WellMade
<1>2. Positioned(labels, name)
  BY <1>1, LabelPosition DEF Positioned
<1>3. ASSUME NEW t, Promise!IsWord(t), Promise!LabelLines(name, t.s) # {}
      PROVE  FindLabelAddress(labels, t) # {}
  <2>1. PICK i \in DOMAIN source : source[i].label = t.s /\ OwnerOf(i) = name /\ i \notin Headings
    BY <1>3, OwnersSame, HeadingsSame DEF Promise!LabelLines
  <2>2. ~Unlabelled(source[i]) /\ t.t = "word"
    BY <1>3, <2>1, Zenon DEF Promise!IsWord, Unlabelled
  <2>3. ~IsFunctionLabel(source[i]) /\ ~IsEmpty(source[i])
    BY <2>1, <2>2, LabelledIsLine DEF Headings
  <2>4. i \in first .. end - 1
    BY <2>1, <2>3 DEF Whole, Owns
  <2>5. \E l \in labels : l[1] = t.s
    <3> PICK n : n = Cardinality({j \in first .. i - 1 : ~Verbless(source[j])})
      OBVIOUS
    <3>1. <<source[i].label, n>> \in labels
      BY <2>2, <2>4, LabelsAre
    <3> QED BY <2>1, <3>1
  <2> QED BY <2>2, <2>5 DEF FindLabelAddress
<1>4. Len(f.code) \in Nat
  <2>1. f.code \in Seq(Words)
    BY DEF FunctionType
  <2> QED BY <2>1, LenProperties
<1> QED BY <1>2, <1>3, <1>4, NamesFound DEF Ready

LEMMA BodyParses ==
  ASSUME Given, NEW name \in Names, Known(name), NEW last \in Nat, last >= Len(source),
         NEW first \in 1 .. Len(source) + 1, NEW end \in first .. Len(source) + 1,
         Whole(name, first, end, last)
  PROVE  Body(name, Labels(first, end), first, end) # {}
<1>1. /\ source \in Seq(ProgramLines) /\ functions \in Seq(FunctionType)
      /\ AllGood /\ Plain /\ Len(source) \in Nat /\ Len(source) < Span(2) /\ FewNames
  BY WellFormedIs DEF Given, WellMade
<1> PICK labels : labels = Labels(first, end)
  OBVIOUS
<1>2. AreLabels(labels)
  BY <1>1, LabelsCounted
<1>3. first \in Nat \ {0} /\ end \in Nat /\ end >= first
  OBVIOUS
<1>4. PICK b : BuiltBy(b, name, labels, first, end) /\ Body(name, labels, first, end) = b[end - 1]
  BY <1>3, BodyBuilt
<1>5. /\ b[first - 1] = {Function(name)}
      /\ \A n \in first .. end - 1 : b[n] = WithLine(b[n - 1], labels, source[n])
  BY <1>4 DEF BuiltBy
<1>6. \A j \in first .. end - 1 : ~IsFunctionLabel(source[j])
  BY DEF Whole
<1>7. ASSUME NEW m \in first .. end - 1, NEW h \in b[m - 1]
      PROVE  AddLine(h, labels, source[m]) # {}
  <2> PICK line : line = source[m]
    OBVIOUS
  <2>1. m \in Nat \ {0} /\ m \in DOMAIN source /\ m <= Len(source) /\ m - 1 \in first - 1 .. end - 1 /\ line \in ProgramLines
    BY <1>1, <1>3
  <2>2. Assembling(h, name, labels, first, m - 1)
    BY <1>1, <1>2, <1>4, <1>6, <2>1, BuiltWritten
  <2> PICK S, B : S = CodeOf(name) /\ B = Block(first, m - 1)
    OBVIOUS
  <2>3. /\ h \in FunctionType /\ Len(h.code) = Cardinality(B) /\ Len(h.constants) <= Len(h.code)
    BY <2>2 DEF Assembling, WrittenTo
  <2>4. B \in SUBSET (1 .. m - 1) /\ m - 1 \in Nat
    BY <1>3, <2>1 DEF Block
  <2>5. Len(h.code) \in 0 .. m - 1 /\ Len(h.constants) \in 0 .. m - 1
    <3>1. Cardinality(B) \in 0 .. m - 1
      BY <2>4, CardinalityUpTo
    <3>2. h.constants \in Seq(Constants)
      BY <2>3 DEF FunctionType
    <3>3. Len(h.constants) \in Nat
      BY <3>2, LenProperties
    <3> QED BY <2>3, <2>4, <3>1, <3>3
  <2>6. ASSUME Coded(line) PROVE Room(h, line.verb) /\ GoodLine(name, Len(h.code) + 1, line)
    <3>1. Room(h, line.verb)
      <4>1. line.verb \in Named2 => m <= ByteSize
        BY <1>1, <2>1 DEF FewNames, Named2
      <4>2. m <= Span(2) /\ ByteSize \in Nat /\ Span(2) \in Nat
        BY <1>1, <2>1, ByteFacts, SpanFacts
      <4> QED BY <2>1, <2>5, <4>1, <4>2 DEF Room
    <3>2. S = Block(first, end - 1) /\ S \in SUBSET (1 .. Len(source)) /\ m \in S
      <4>1. S = Block(first, end - 1)
        BY <1>1, CodeIs
      <4> QED BY <2>1, <2>6, <4>1 DEF Block, CodeOf
    <3> PICK k : k = Rank(S, m)
      OBVIOUS
    <3>3. k = Len(h.code) + 1
      <4>1. Below(S, m) = B \union {m} /\ Below(B \union {m}, m) = B \union {m}
        BY <2>1, <2>4, <2>6, <3>2 DEF Below, Block
      <4>2. Rank(B \union {m}, m) = Cardinality(B) + 1
        BY <2>1, <2>4, RankGrows
      <4> QED BY <2>3, <4>1, <4>2 DEF Rank
    <3>4. k \in 1 .. Cardinality(S) /\ Nth(S, k) = m
      BY <1>1, <3>2, RankType, NthOfRank
    <3>5. Promise!Instructions(name) = [q \in 1 .. Cardinality(S) |-> source[Nth(S, q)]]
      BY InstructionsSame
    <3>6. k \in DOMAIN Promise!Instructions(name) /\ Promise!Instructions(name)[k] = line
      BY <3>4, <3>5
    <3>7. GoodAt(name, k)
      BY <1>1, <3>6 DEF AllGood
    <3>8. GoodLine(name, k, line)
      BY <3>6, <3>7 DEF GoodAt, GoodLine
    <3> QED BY <3>1, <3>3, <3>8
  <2>7. ~Param(line) /\ ~IsFunctionLabel(line)
    BY <1>1, <1>6, <2>1 DEF Plain
  <2>8. Ready(h, labels, name)
    BY <2>3, BodyReady
  <2> QED BY <2>1, <2>3, <2>6, <2>7, <2>8, LineParses
<1> DEFINE Bad == {n \in Nat : n \in first - 1 .. end - 1 /\ b[n] = {}}
<1>8. Bad = {}
  <2> SUFFICES ASSUME Bad # {} PROVE FALSE
    OBVIOUS
  <2>1. PICK m : m = Min(Bad)
    OBVIOUS
  <2>2. m \in Bad /\ \A n \in Bad : m <= n
    BY <2>1, LeastNumber
  <2>3. m # first - 1
    BY <1>5, <2>2
  <2>4. m \in first .. end - 1 /\ m - 1 \in Nat /\ m - 1 \in first - 1 .. end - 1 /\ m - 1 \notin Bad
    BY <1>3, <2>2, <2>3
  <2>5. PICK h : h \in b[m - 1]
    BY <2>4
  <2>6. AddLine(h, labels, source[m]) # {}
    BY <1>7, <2>4, <2>5
  <2>7. b[m] = WithLine(b[m - 1], labels, source[m])
    BY <1>5, <2>4
  <2>8. b[m] # {}
    BY <2>5, <2>6, <2>7 DEF WithLine
  <2> QED BY <2>2, <2>8
<1>9. end - 1 \in Nat /\ end - 1 \in first - 1 .. end - 1
  BY <1>3
<1> QED BY <1>4, <1>8, <1>9

\* The lines that are assembled next are all there are of the function.
LEMMA BodyWhole ==
  ASSUME Given, NEW s \in 1 .. Len(source), AtBody(s), ~IsEmpty(source[s]),
         NEW first, first = StartLine(s), NEW end, end = EndLine(s),
         NEW name, name = IF IsFunctionLabel(source[s]) THEN source[s].func ELSE "@main"
  PROVE  /\ first \in 1 .. Len(source) + 1 /\ end \in first .. Len(source) + 1
         /\ Whole(name, first, end, Len(source)) /\ Known(name) /\ name \in Names
<1>1. source \in Seq(ProgramLines) /\ Len(source) \in Nat /\ Unique /\ Apart
  BY WellFormedIs DEF Given, WellMade
<1>2. Distinct(FunctionNames)
  BY <1>1, NamesAre
<1>3. /\ first \in 1 .. Len(source) + 1 /\ end \in first .. Len(source) + 1 /\ s <= first
      /\ \A j \in first .. end - 1 : ~IsFunctionLabel(source[j])
      /\ Owns(name, first, end, end - 1)
  BY <1>1, <1>2, NextBody
<1> PICK last : last = Len(source) + 1
  OBVIOUS
<1>4. last \in Nat /\ s \in Nat /\ s < last /\ first \in s .. last /\ end \in first .. last /\ last - 1 = Len(source)
  BY <1>1, <1>3
<1> DEFINE starts == {i \in s .. last : i <= Len(source) => ~IsFunctionLabel(source[i])}
           ends == {i \in first .. last : i <= Len(source) => IsFunctionLabel(source[i])}
<1>5. starts \in SUBSET Nat /\ last \in starts /\ first = Min(starts)
  BY <1>4 DEF StartLine
<1>6. ends \in SUBSET Nat /\ last \in ends /\ end = Min(ends)
  BY <1>4 DEF EndLine
<1>7. first \in starts
  <2> HIDE DEF starts
  <2> QED BY <1>5, LeastNumber
<1>8. end \in ends
  <2> HIDE DEF ends
  <2> QED BY <1>6, LeastNumber
<1>9. s < end
  <2>1. s = first => ~IsFunctionLabel(source[s])
    BY <1>4, <1>7
  <2>2. s = end => IsFunctionLabel(source[s])
    BY <1>4, <1>8
  <2> QED BY <1>4, <2>1, <2>2
<1>10. ASSUME NEW j \in 1 .. Len(source), ~(j <= end - 1) PROVE OwnerOf(j) # name
  <2>1. end <= j /\ end \in 1 .. Len(source) /\ end \in HeadingsTo(j)
    <3>1. end <= j /\ end \in 1 .. Len(source)
      BY <1>4, <1>9, <1>10
    <3>2. IsFunctionLabel(source[end])
      BY <1>8, <3>1
    <3> QED BY <3>1, <3>2 DEF HeadingsTo
  <2> PICK S, h : S = HeadingsTo(j) /\ h = Max(S)
    OBVIOUS
  <2>2. S \in SUBSET (1 .. j) /\ j \in Nat /\ end \in S
    BY <2>1 DEF HeadingsTo
  <2>3. h \in S /\ h >= end
    BY <2>2, GreatestNumber
  <2>4. h \in Headings /\ h > s /\ OwnerOf(j) = source[h].func
    <3>1. h \in Headings /\ OwnerOf(j) = source[h].func
      BY <2>3 DEF HeadingsTo, Headings, OwnerOf
    <3> QED BY <1>4, <1>9, <2>2, <2>3, <3>1
  <2>5. CASE IsFunctionLabel(source[s])
    <3>1. s \in Headings /\ s # h
      BY <1>4, <2>4, <2>5 DEF Headings
    <3> QED BY <1>1, <2>4, <2>5, <3>1 DEF Unique
  <2>6. CASE ~IsFunctionLabel(source[s])
    <3>1. \A i \in 1 .. s - 1 : IsEmpty(source[i])
      BY <1>4, <2>6 DEF AtBody, Headings
    <3>2. \A line : IsEmpty(line) => ~IsFunctionLabel(line)
      BY DEF IsEmpty, IsFunctionLabel
    <3>3. HeadingsTo(s) = {}
      BY <1>4, <2>6, <3>1, <3>2 DEF HeadingsTo
    <3>4. ImplicitMain
      BY <3>3 DEF ImplicitMain
    <3>5. source[h].func # "@main"
      BY <1>1, <2>4, <3>4 DEF Apart
    <3> QED BY <2>4, <2>6, <3>5
  <2> QED BY <2>5, <2>6
<1>11. Owns(name, first, end, Len(source))
  <2> SUFFICES ASSUME NEW j \in 1 .. Len(source), ~IsFunctionLabel(source[j]), ~IsEmpty(source[j])
               PROVE  OwnerOf(j) = name <=> j \in first .. end - 1
    BY DEF Owns
  <2>1. CASE j <= end - 1
    <3>1. j \in 1 .. end - 1
      BY <1>4, <2>1
    <3> QED BY <1>3, <3>1 DEF Owns
  <2>2. CASE ~(j <= end - 1)
    BY <1>4, <1>10, <2>2
  <2> QED BY <2>1, <2>2
<1>12. Known(name) /\ name \in Names
  <2>1. IsFunctionLabel(source[s]) => s \in Headings
    BY DEF Headings
  <2>2. source[s].func \in STRING
    <3>1. source[s] \in ProgramLines
      BY <1>1
    <3> QED BY <3>1 DEF ProgramLines
  <2> QED BY <2>1, <2>2 DEF Known, Names
<1> QED BY <1>3, <1>11, <1>12 DEF Whole

LEMMA BodyFound ==
  ASSUME Given, NEW s \in 1 .. Len(source), AtBody(s), ~IsEmpty(source[s]),
         NEW first, first = StartLine(s), NEW end, end = EndLine(s),
         NEW name, name = IF IsFunctionLabel(source[s]) THEN source[s].func ELSE "@main"
  PROVE  Body(name, Labels(first, end), first, end) # {}
<1>1. Len(source) \in Nat /\ Len(source) >= Len(source)
  <2>1. source \in Seq(ProgramLines)
    BY DEF Given
  <2>2. Len(source) \in Nat
    BY <2>1, LenProperties
  <2> QED BY <2>2
<1>2. /\ first \in 1 .. Len(source) + 1 /\ end \in first .. Len(source) + 1
      /\ Whole(name, first, end, Len(source)) /\ Known(name) /\ name \in Names
  BY BodyWhole
<1> QED BY <1>1, <1>2, BodyParses

-----------------------------------------------------------------------------
(* The assembly of a well-formed program.                                  *)

Assembles == Following /\ FewNames /\ ~hasError

LEMMA NextAssembles == ASSUME Assembles, [Next]_vars PROVE Assembles'
<1>1. Following /\ Following' /\ FewNames /\ ~hasError
  BY NextFollows DEF Assembles
<1>2. source' = source
  BY SourceStays
<1>3. FewNames'
  BY <1>1, <1>2 DEF FewNames
<1>4. CASE AssembleFunction
  <2> PICK s, first, end, name : /\ s = lineNum /\ first = StartLine(s) /\ end = EndLine(s)
                                 /\ name = IF IsFunctionLabel(source[s]) THEN source[s].func ELSE "@main"
    OBVIOUS
  <2>1. stage = "assembling" /\ s <= Len(source) /\ ~IsEmpty(source[s])
    BY <1>4 DEF AssembleFunction
  <2>2. /\ source \in Seq(ProgramLines) /\ functions \in Seq(FunctionType) /\ Named1 /\ WellMade
        /\ s \in Nat \ {0} /\ AtBody(s)
    BY <1>1, <2>1 DEF Following, AssemblerInv, TypeInv, Prepared, Written, Between
  <2>3. s \in 1 .. Len(source) /\ Given
    BY <1>1, <2>1, <2>2 DEF Given
  <2>4. Body(name, Labels(first, end), first, end) # {}
    BY <2>1, <2>2, <2>3, BodyFound
  <2>5. hasError' = FALSE
    BY <1>4, <2>4 DEF AssembleFunction
  <2> QED BY <1>1, <1>3, <2>5 DEF Assembles
<1>5. CASE ~AssembleFunction
  <2>1. hasError' = hasError
    <3>1. CASE Assemble
      BY <1>5, <3>1 DEF Assemble, CollectFunctions, SkipEmptyLine, FinishAssembly
    <3>2. CASE ~Assemble
      BY <3>2, StagesGoOn
    <3> QED BY <3>1, <3>2
  <2> QED BY <1>1, <1>3, <2>1 DEF Assembles
<1> QED BY <1>4, <1>5

\* A well-formed program is assembled to its last line without an error, if there is
\* room for its constants: in two bytes, and in one where a name has no more (the third
\* operand of LOADV, LOADC and ASSIGN).
THEOREM WellFormedAssembles ==
  Spec /\ Promise!WellFormed /\ Roomy => [](stage = "assembled" => Assembled)
<1>1. Init /\ Promise!WellFormed /\ Roomy => Assembles
  <2>1. Init => hasError = FALSE
    BY DEF Init, AssemblerInit
  <2> QED BY <2>1, InitFollows DEF Assembles, Roomy
<1>2. Assembles /\ [Next]_vars => Assembles'
  BY NextAssembles
<1>3. Assembles => (stage = "assembled" => Assembled)
  BY DEF Assembles, Following, Prepared, Assembled
<1> QED BY <1>1, <1>2, <1>3, PTL DEF Spec
====
