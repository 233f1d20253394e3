---- MODULE Values ----
(***************************************************************************)
(* The values a MiniScript program computes with, in the two runtimes of   *)
(* MS2Proto3: the C runtime (cpp/core/value.h, value.c), which the         *)
(* generated C++ uses, and the C# runtime (cs/Value.cs).                   *)
(*                                                                         *)
(* A value is a record: its type, a numerator and a denominator for        *)
(* numbers, and a sequence of characters for strings.  Doubles are exact   *)
(* rationals: rounding is not modelled, division by a zero double is left  *)
(* to the caller.  The text of a number counts as one character.           *)
(***************************************************************************)
EXTENDS Integers, Sequences, TLC

CONSTANTS MaxInt,        \* INT32_MAX
          CharOrder(_)   \* a character's code point
ASSUME MaxIntAssumption == MaxInt \in Nat

MinInt == -MaxInt - 1
IntCount == 2 * (MaxInt + 1)   \* how many integers 32 bits hold

Null == [type |-> "null", n |-> 0, d |-> 1, s |-> <<>>, items |-> <<>>, cap |-> 0]
make_int(i) == [Null EXCEPT !.type = "int", !.n = i]
make_string(s) == [Null EXCEPT !.type = "string", !.s = s]
make_funcref(i) == [Null EXCEPT !.type = "funcref", !.n = i]

Abs(i) == IF i < 0 THEN -i ELSE i
\* C's division and remainder of integers, which truncate towards zero.
Quotient(i, j) == (IF (i < 0) = (j < 0) THEN 1 ELSE -1) * (Abs(i) \div Abs(j))
Remainder(i, j) == i - j * Quotient(i, j)

Divides(k, i) == Abs(i) % k = 0
GCD(i, j) == CHOOSE k \in 1 .. Abs(j) :
               /\ Divides(k, i) /\ Divides(k, j)
               /\ \A m \in k + 1 .. Abs(j) : ~(Divides(m, i) /\ Divides(m, j))
\* The double i / j, in lowest terms.
make_double(i, j) ==
  LET g == GCD(i, j) * (IF j < 0 THEN -1 ELSE 1)
  IN  [Null EXCEPT !.type = "double", !.n = Quotient(i, g), !.d = Quotient(j, g)]

is_null(v) == v.type = "null"
is_int(v) == v.type = "int"
is_double(v) == v.type = "double"
is_string(v) == v.type = "string"
is_number(v) == is_int(v) \/ is_double(v)
is_truthy(v) == \/ is_number(v) /\ v.n # 0
                \/ is_string(v) /\ v.s # <<>>

\* The text of a value; the layout of numbers is left out.
NumberText(i, j) == ToString(<<i, j>>)
to_string(v) ==
  CASE is_string(v) -> v
    [] is_number(v) -> make_string(<<NumberText(v.n, v.d)>>)
    [] OTHER -> make_string(<<>>)

\* The number of a text, 0 if it is none.  Texts of fractions are left out.
to_number(v) ==
  IF is_number(v) THEN v
  ELSE LET read == {i \in MinInt .. MaxInt : v.s = <<NumberText(i, 1)>>}
       IN  make_int(IF read = {} THEN 0 ELSE CHOOSE i \in read : TRUE)

string_concat(a, b) == make_string(a.s \o b.s)

(***************************************************************************)
(* Arithmetic of the C runtime.                                            *)
(***************************************************************************)
\* An integer result: 32 bits where they hold it, else a double.
Fit(r) == IF r \in MinInt .. MaxInt THEN make_int(r) ELSE make_double(r, 1)

Plus(a, b) == make_double(a.n * b.d + b.n * a.d, a.d * b.d)
Minus(a, b) == make_double(a.n * b.d - b.n * a.d, a.d * b.d)
Times(a, b) == make_double(a.n * b.n, a.d * b.d)
Over(a, b) == make_double(a.n * b.d, a.d * b.n)
Modulo(a, b) == make_double(Remainder(a.n * b.d, b.n * a.d), a.d * b.d)

value_add(a, b) ==
  CASE is_int(a) /\ is_int(b) -> Fit(a.n + b.n)
    [] is_number(a) /\ is_number(b) -> Plus(a, b)
    [] \/ is_string(a) /\ (is_string(b) \/ is_number(b))
       \/ is_string(b) /\ is_number(a) -> string_concat(to_string(a), to_string(b))
    [] OTHER -> Null

value_sub(a, b) ==
  CASE is_int(a) /\ is_int(b) -> Fit(a.n - b.n)
    [] is_number(a) /\ is_number(b) -> Minus(a, b)
    [] OTHER -> Null

\* s repeated as often as the factor says, with a part of it for its fraction.
Repeat(s, f) ==
  LET whole == Quotient(f.n, f.d)
      part  == Quotient(Len(s) * (f.n - whole * f.d), f.d)
      size  == IF f.n <= 0 THEN 0 ELSE whole * Len(s) + part
  IN  make_string([i \in 1 .. size |-> s[((i - 1) % Len(s)) + 1]])

value_mult_nonnumeric(a, b) ==
  IF is_string(a) /\ is_number(b) THEN Repeat(a.s, b) ELSE Null

value_mult(a, b) ==
  CASE is_int(a) /\ is_int(b) -> Fit(a.n * b.n)
    [] is_number(a) /\ is_number(b) -> Times(a, b)
    [] OTHER -> value_mult_nonnumeric(a, b)

value_div(a, b) ==
  CASE is_int(a) /\ is_int(b) -> Fit(Quotient(a.n, b.n))
    [] is_number(a) /\ is_number(b) -> Over(a, b)
    [] is_string(a) /\ is_number(b) -> value_mult_nonnumeric(a, Over(make_int(1), b))
    [] OTHER -> Null

value_mod(a, b) ==
  CASE is_int(a) /\ is_int(b) -> Fit(Remainder(a.n, b.n))
    [] is_number(a) /\ is_number(b) -> Modulo(a, b)
    [] OTHER -> Null

(***************************************************************************)
(* Comparison.  Characters are ordered by CharOrder, an abstraction of the *)
(* code points string_compare goes by.                                     *)
(***************************************************************************)
StringLess(s, t) ==
  \/ Len(s) < Len(t) /\ s = SubSeq(t, 1, Len(s))
  \/ \E i \in 1 .. Len(s) : /\ i <= Len(t)
                            /\ SubSeq(s, 1, i - 1) = SubSeq(t, 1, i - 1)
                            /\ CharOrder(s[i]) < CharOrder(t[i])

NumberLess(a, b) == a.n * b.d < b.n * a.d
SameNumber(a, b) == a.n * b.d = b.n * a.d

value_lt(a, b) == \/ is_number(a) /\ is_number(b) /\ NumberLess(a, b)
                  \/ is_string(a) /\ is_string(b) /\ StringLess(a.s, b.s)
value_le(a, b) == \/ is_number(a) /\ is_number(b) /\ ~NumberLess(b, a)
                  \/ is_string(a) /\ is_string(b) /\ ~StringLess(b.s, a.s)
value_equal(a, b) == \/ is_number(a) /\ is_number(b) /\ SameNumber(a, b)
                     \/ is_string(a) /\ is_string(b) /\ a.s = b.s
                     \/ is_null(a) /\ is_null(b)
====
