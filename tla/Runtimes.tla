---- MODULE Runtimes ----
(***************************************************************************)
(* MS2Proto3 is one program for two runtimes: C# (CSharp) and transpiled   *)
(* C++ over the C core (Strings, Lists, Values).  Here the same calls are  *)
(* made in both, on one value of each: a number, string or list of a       *)
(* MiniScript program, or a String or list of Strings of the host.  The    *)
(* values agree until a call that is known to tell the runtimes apart;     *)
(* there the comparison ends.                                              *)
(***************************************************************************)
EXTENDS Strings, CSharp

CONSTANTS
  Starts,        \* values to begin with
  Operands,      \* numbers to calculate with
  Words,         \* texts to search for, put in, split at
  Items,         \* items to put into lists, not zero
  Formats,       \* format strings
  MaxLength,     \* characters of a text, items of a list
  MaxNumber      \* the numerators and denominators of numbers

VARIABLES
  c,         \* the value in the C and C++ runtime
  cs,        \* the value in the C# runtime
  call,      \* the last call
  answer     \* what it returned, if it leaves the value alone: one of each

vars == <<c, cs, call, answer>>

Call(op, x, i) == [op |-> op, x |-> x, i |-> i]
NoCall == Call("", Null, 0)
Answer(left, right) == [c |-> left, cs |-> right]
NoAnswer == Answer(Null, Null)

HostString(s) == [Null EXCEPT !.type = "String", !.s = s]
HostStrings(texts) ==
  [Null EXCEPT !.type = "Strings", !.items = [k \in DOMAIN texts |-> HostString(texts[k])]]
Texts0(v) == [k \in DOMAIN v.items |-> v.items[k].s]
Bool(b) == make_int(IF b THEN 1 ELSE 0)

\* A text in characters; a value of the C runtime as the C# runtime has it.
Chars(v) == [v EXCEPT !.s = Decode(@), !.cap = 0]
InCSharp(v) == [Chars(v) EXCEPT !.items = [k \in DOMAIN v.items |-> Chars(v.items[k])]]

\* Equal to the program: a double has the text of an integer of its value.
SameAtom(v, w) ==
  \/ is_number(v) /\ is_number(w) /\ SameNumber(v, w)
  \/ v.type = w.type /\ ~is_number(v) /\ Decode(v.s) = w.s
Same(v, w) ==
  /\ SameAtom(v, w) /\ (is_list(v) => v.n = w.n)
  /\ Len(v.items) = Len(w.items) /\ \A k \in DOMAIN v.items : SameAtom(v.items[k], w.items[k])
Agree == Same(c, cs) /\ Same(answer.c, answer.cs)

Init ==
  /\ c \in Starts /\ cs = InCSharp(c)
  /\ call = NoCall /\ answer = NoAnswer

\* A call that makes a new value, or asks something about the value.
Bounded(v) ==
  /\ Abs(v.n) <= MaxNumber /\ v.d <= MaxNumber
  /\ Len(v.items) <= MaxLength /\ UTF8CharacterCount(v.s) <= MaxLength
Step(op, x, i, new, newInCSharp) ==
  /\ call' = Call(op, x, i) /\ UNCHANGED answer
  /\ Bounded(new) /\ c' = new /\ cs' = newInCSharp
Ask(op, x, i, left, right) ==
  /\ call' = Call(op, x, i) /\ answer' = Answer(left, right)
  /\ UNCHANGED <<c, cs>>

(***************************************************************************)
(* Numbers and strings of a MiniScript program.                            *)
(***************************************************************************)
Plain(v) == is_number(v) \/ is_string(v)
\* Combinations left out: the text of a number, a part of a string, x / 0.
Offered(op, x) ==
  /\ op \in {"ADD", "SUB"} => is_string(c) = is_string(x)
  /\ op = "MULT" /\ is_string(c) => is_int(x)
  /\ op \in {"DIV", "MOD"} => is_number(c) /\ is_number(x) /\ x.n # 0

Calculation ==
  \E op \in {"ADD", "SUB", "MULT", "DIV", "MOD"}, x \in Operands \union {make_string(w) : w \in Words} :
    LET y == InCSharp(x)
    IN  /\ call = NoCall /\ Plain(c) /\ Offered(op, x)
        /\ Step(op, x, 0,
             CASE op = "ADD" -> value_add(c, x) [] op = "SUB" -> value_sub(c, x)
               [] op = "MULT" -> value_mult(c, x) [] op = "DIV" -> value_div(c, x)
               [] op = "MOD" -> value_mod(c, x),
             CASE op = "ADD" -> Add(cs, y) [] op = "SUB" -> Sub(cs, y)
               [] op = "MULT" -> Multiply(cs, y) [] op = "DIV" -> Divide(cs, y)
               [] op = "MOD" -> Mod(cs, y))

Comparison ==
  \E op \in {"LT", "LE", "EQ"}, x \in Operands \union {make_string(w) : w \in Words} :
    LET y == InCSharp(x)
    IN  /\ call = NoCall /\ Plain(c)
        /\ Ask(op, x, 0,
             Bool(CASE op = "LT" -> value_lt(c, x) [] op = "LE" -> value_le(c, x)
                    [] op = "EQ" -> value_equal(c, x)),
             Bool(CASE op = "LT" -> value_lt(cs, y) [] op = "LE" -> value_le(cs, y)
                    [] op = "EQ" -> Equal(cs, y)))

EqualsItself == call = NoCall /\ Ask("EQ itself", Null, 0, Bool(value_equal(c, c)), Bool(Equal(cs, cs)))

StringCall ==
  LET s == c.s
      n == UTF8CharacterCount(s)
      Text(op, x, i, new, newInCSharp) ==
        Step(op, make_string(x), i, make_string(new), make_string(newInCSharp))
  IN  /\ call = NoCall /\ is_string(c)
      /\ \/ Ask("length", Null, 0, make_int(n), make_int(Len(cs.s)))
         \/ \E i \in 0 .. n : \E len \in 0 .. n - i :
              Text("substring", <<>>, i, string_substring(s, i, len), Substring(cs.s, i, len))
         \/ \E old, new \in Words :
              Text("replace", old, 0, string_replace(s, old, new),
                   StringReplace(cs.s, Decode(old), Decode(new)))
         \/ \E x \in Words :
              Step("split", make_string(x), 0, string_split(s, x),
                   StringSplit(cs.s, Decode(x)))

(***************************************************************************)
(* Lists.  Indices are those of a program, from the end when negative.     *)
(* The C# runtime has no insert, pop, clear and copy yet: List<Value>'s    *)
(* stand in for them.                                                      *)
(***************************************************************************)
ListCall ==
  /\ call = NoCall /\ is_list(c)
  /\ \/ \E x \in Items : Step("push", x, 0, list_push(c, x), AddItem(cs, InCSharp(x)))
     \/ \E x \in Items, i \in 0 .. c.n :
          Step("insert", x, i, list_insert(c, i, x), InsertItem(cs, i, InCSharp(x)))
     \/ \E i \in -c.n - 1 .. c.n + 1 :
          \/ Ask("get", Null, i, list_get(c, i), Get(cs, i))
          \/ \E x \in Items : Step("set", x, i, list_set(c, i, x), Set(cs, i, InCSharp(x)))
          \/ Step("remove", Null, i, list_remove(c, i), RemoveItem(cs, i))
     \/ \E x \in Items :
          Ask("indexOf", x, 0, make_int(list_indexOf(c, x, 0)),
              make_int(IndexOfItem(cs, InCSharp(x))))
     \/ Step("pop", Null, 0, list_pop(c), IF cs.n = 0 THEN cs ELSE RemoveItem(cs, cs.n - 1))
     \/ Step("clear", Null, 0, list_clear(c), ValueList(<<>>))
     \/ Step("copy", Null, 0, list_copy(c), cs)
     \/ c.cap < MaxLength /\ Step("expand", Null, 0, list_with_expanded_capacity(c), cs)

(***************************************************************************)
(* Strings of the host.                                                    *)
(***************************************************************************)
StringQuery ==
  /\ call = NoCall /\ c.type = "String"
  /\ \E x \in Words :
       LET s == c.s  t == cs.s  y == Decode(x)
           Find(op, left, right) == Ask(op, HostString(x), 0, make_int(left), make_int(right))
           Test(op, left, right) == Ask(op, HostString(x), 0, Bool(left), Bool(right))
       IN  \/ Find("IndexOf", ss_indexOf(s, x), IndexOf(t, y, 0))
           \/ \E i \in 0 .. Len(t) :
                Ask("IndexOf from", HostString(x), i, make_int(ss_indexOfFrom(s, x, i)),
                    make_int(IndexOf(t, y, i)))
           \/ Find("LastIndexOf", ss_lastIndexOf(s, x), LastIndexOf(t, y))
           \/ Test("Contains", ss_contains(s, x), IndexOf(t, y, 0) >= 0)
           \/ Test("StartsWith", ss_startsWith(s, x), StartsWith(t, y))
           \/ Test("EndsWith", ss_endsWith(s, x), EndsWith(t, y))
           \/ Test("IsNullOrWhiteSpace", ss_isNullOrWhiteSpace(s), Solids(t) = {})

StringResult ==
  LET s == c.s
      t == cs.s
      Text(op, x, i, new, newInCSharp) ==
        Step(op, HostString(x), i, HostString(new), HostString(newInCSharp))
  IN  /\ call = NoCall /\ c.type = "String"
      /\ \/ \E i \in 0 .. Len(t) :
              \/ Text("Substring", <<>>, i, ss_substring(s, i), Substring(t, i, Len(t) - i))
              \/ \E n \in 0 .. Len(t) - i :
                   Text("Substring", <<>>, i, ss_substringLen(s, i, n), Substring(t, i, n))
         \/ \E n \in 0 .. Len(t) + 1 :
              \/ Text("Left", <<>>, n, Left(s, n), LeftPart(t, n))
              \/ Text("Right", <<>>, n, RightOf(s, n), RightPart(t, n))
         \/ \E old, new \in Words :
              /\ old # <<>>
              /\ Text("Replace", new, 0, ss_replace(s, old, new), Replace(t, Decode(old), Decode(new)))
         \/ Text("ToUpper", <<>>, 0, ss_toUpper(s), ToUpper(t))
         \/ Text("ToLower", <<>>, 0, ss_toLower(s), ToLower(t))
         \/ Text("Trim", <<>>, 0, ss_trim(s), TrimStart(TrimEnd(t)))
         \/ Text("TrimStart", <<>>, 0, ss_trimStart(s), TrimStart(t))
         \/ Text("TrimEnd", <<>>, 0, ss_trimEnd(s), TrimEnd(t))

SplitString ==
  /\ call = NoCall /\ c.type = "String"
  /\ \E x \in {w \in Words : Len(w) = 1} :
       Step("Split", HostString(x), 0, HostStrings(SplitToList(c.s, x[1])),
            HostStrings(SplitText(cs.s, x)))

JoinStrings ==
  /\ call = NoCall /\ c.type = "Strings"
  /\ \E x \in Words :
       Step("Join", HostString(x), 0, HostString(Join(x, Texts0(c))),
            HostString(Join(Decode(x), Texts0(cs))))

\* What .NET accepts is formatted, with the value for {0}.
FormatString ==
  /\ call = NoCall /\ c.type = "String"
  /\ \E f \in Formats :
       LET left  == FormatList(f, c.s)
           right == Format(Decode(f), cs.s)
           Result(r) == IF r = <<>> THEN Null ELSE HostString(r[1])
       IN  right # <<>> /\ Step("Format", HostString(f), 0, Result(left), Result(right))

\* The runtimes agree on the outcome: the comparison goes on.
Return ==
  /\ call # NoCall /\ Agree
  /\ call' = NoCall /\ answer' = NoAnswer /\ UNCHANGED <<c, cs>>

Next ==
  \/ Return
  \/ Calculation \/ Comparison \/ EqualsItself \/ StringCall \/ ListCall
  \/ StringQuery \/ StringResult \/ SplitString \/ JoinStrings \/ FormatString

Spec == Init /\ [][Next]_vars

(***************************************************************************)
(* Where the runtimes differ: after which calls, on which values.          *)
(***************************************************************************)
\* A 32-bit result that C# takes for an unsigned one; and a quotient of
\* integers, when one is a double to C# because some result was negative.
Wraps(op, x) ==
  /\ is_int(cs) /\ is_int(x) /\ op \in {"ADD", "MULT", "DIV"}
  /\ (CASE op = "ADD" -> cs.n + x.n [] op = "MULT" -> cs.n * x.n
        [] op = "DIV" -> Quotient(cs.n, x.n)) \in MaxInt + 1 .. IntCount - 1
Fraction(op, x) ==
  op = "DIV" /\ is_int(c) /\ is_int(x) /\ ~is_int(cs) /\ ~Divides(Abs(x.n), c.n)

\* strtok takes bytes of the delimiter one by one and drops empty parts; a list
\* has room for so many parts; the empty string has no part.
SplitDiffers(s, x) ==
  LET parts == SplitText(Decode(s), Decode(x))
  IN  x # <<>> /\ (\/ s = <<>>
                   \/ x = <<Space>> /\ Len(parts) > SpaceSplitCapacity
                   \/ /\ x # <<Space>>
                      /\ \/ Len(parts) > SplitCapacity
                         \/ \E k \in DOMAIN parts :
                              \/ parts[k] = <<>>
                              \/ ToSet(UTF8EncodeAll(parts[k])) \intersect ToSet(x) # {})

\* White space in the C core, but not to .NET, with nothing solid before or behind.
Blank(s) == {k \in DOMAIN s : s[k] = 6158}
FirstIsBlank(s) == \E k \in Blank(s) : \A m \in Solids(s) : k <= m
LastIsBlank(s) == \E k \in Blank(s) : \A m \in Solids(s) : m <= k

Differs(op, x, i) ==
  CASE op \in {"ADD", "MULT", "DIV"} -> Wraps(op, x) \/ Fraction(op, x)
    [] op = "EQ itself" -> ~Plain(c) /\ ~is_null(c)
    [] op = "split" -> SplitDiffers(c.s, x.s)
    [] op \in {"push", "insert"} -> c.n >= c.cap
    [] op = "get" -> ~InList(c, i)
    [] op = "set" -> i < 0 /\ InList(c, FromEnd(c, i)) /\ ~Same(x, Get(cs, FromEnd(c, i)))
    [] op = "remove" -> FromEnd(c, i) = c.n
    [] op \in {"IndexOf", "IndexOf from", "LastIndexOf", "Contains", "StartsWith", "EndsWith"} ->
         x.s = <<>>
    [] op = "IsNullOrWhiteSpace" -> Solids(cs.s) # {} /\ Solids(cs.s) = Blank(cs.s)
    [] op = "TrimStart" -> FirstIsBlank(cs.s)
    [] op = "TrimEnd" -> LastIsBlank(cs.s)
    [] op = "Trim" -> FirstIsBlank(cs.s) \/ LastIsBlank(cs.s)
    [] op = "ToUpper" -> \E k \in DOMAIN cs.s : Cardinality({j \in DOMAIN CaseTable : CaseTable[j][2] = cs.s[k]}) > 1
    [] op = "Replace" -> x.s = <<>> /\ cs'.s # <<>>
    [] op = "Split" -> c.s = <<>>
    [] op = "Format" -> \E k, m \in DOMAIN x.s : k < m /\ x.s[k] >= 128 /\ x.s[m] \in {Open, Close}
    [] OTHER -> FALSE

\* The two runtimes part exactly at the calls named above: no value of the
\* transpiled program differs from the C# program's after any other.
DifferOnlyThere == [][~Agree' <=> Differs(call'.op, call'.x, call'.i)]_vars

\* No operation that works on bytes leaves a part of a character behind, but
\* strtok in string_split, whose delimiter may have bytes of other characters.
Whole(s) == UTF8EncodeAll(Decode(s)) = s
CharactersStayWhole ==
  call.op # "split" => Whole(c.s) /\ \A k \in DOMAIN c.items : Whole(c.items[k].s)
====
