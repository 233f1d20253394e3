---- MODULE CSharp ----
(***************************************************************************)
(* The C# runtime (cs/Value.cs, cs/StringUtils.cs).  Its text is a         *)
(* sequence of characters; what it takes from .NET, strings and            *)
(* List<Value>, is modelled from its use.                                  *)
(***************************************************************************)
EXTENDS Lists, Texts

(***************************************************************************)
(* Value: numbers, strings, equality.                                      *)
(***************************************************************************)
\* (uint)r == r ? FromInt((int)r) : FromDouble(r)
FromLong(r) ==
  IF r \in 0 .. IntCount - 1
  THEN make_int(IF r <= MaxInt THEN r ELSE r - IntCount)
  ELSE make_double(r, 1)

Add(a, b) == IF is_int(a) /\ is_int(b) THEN FromLong(a.n + b.n) ELSE value_add(a, b)
Sub(a, b) == value_sub(a, b)
Multiply(a, b) ==
  IF is_int(a) /\ is_int(b) THEN FromLong(a.n * b.n) ELSE value_mult(a, b)
Divide(a, b) ==
  IF is_int(a) /\ is_int(b) THEN FromLong(Quotient(a.n, b.n)) ELSE value_div(a, b)
Mod(a, b) ==
  IF is_int(a) /\ is_int(b) THEN FromLong(Remainder(a.n, b.n)) ELSE value_mod(a, b)

Equal(a, b) == a = b \/ value_equal(a, b)

\* ValueHelpers.val_null is initialised with itself: the value of no bits.
val_null == make_double(0, 1)

(***************************************************************************)
(* ValueList, around a List<Value>.                                        *)
(***************************************************************************)
ValueList(items) == WithItems(NewList(0), items)
Get(v, i) == IF InList(v, i) THEN v.items[i + 1] ELSE val_null
Set(v, i, x) == IF InList(v, i) THEN [v EXCEPT !.items[i + 1] = x] ELSE v
AddItem(v, x) == ValueList(Append(v.items, x))
InsertItem(v, i, x) == ValueList(InsertAt(v.items, i + 1, x))
RemoveItem(v, i) ==
  IF InList(v, FromEnd(v, i)) THEN ValueList(RemoveAt(v.items, FromEnd(v, i) + 1)) ELSE v
IndexOfItem(v, x) ==
  LET found == {i \in DOMAIN v.items : Equal(v.items[i], x)}
  IN  IF found = {} THEN -1 ELSE Min(found) - 1

(***************************************************************************)
(* .NET strings and lists.                                                 *)
(***************************************************************************)
Substring(s, i, n) == SubSeq(s, i + 1, i + n)
IndexOf(s, t, i) == FirstFrom(s, t, i)
LastIndexOf(s, t) == LastOf(s, t)
StartsWith(s, t) == At(s, 0, t)
EndsWith(s, t) == Len(t) <= Len(s) /\ At(s, Len(s) - Len(t), t)
Replace(s, old, new) == Replaced(s, old, new)

\* The case mappings of .NET, for the characters the instances use.
ToUpper(s) ==
  [i \in DOMAIN s |-> CASE s[i] \in 97 .. 122 \union {956} -> s[i] - 32 [] OTHER -> s[i]]
ToLower(s) ==
  [i \in DOMAIN s |-> CASE s[i] \in 65 .. 90 \union {924} -> s[i] + 32
                        [] s[i] = 8490 -> 107 [] OTHER -> s[i]]

NetWhiteSpace ==
  (9 .. 13) \union (8192 .. 8202) \union {32, 133, 160, 5760, 8232, 8233, 8239, 8287, 12288}
Solids(s) == {i \in DOMAIN s : s[i] \notin NetWhiteSpace}
TrimStart(s) == SubSeq(s, Min(Solids(s) \union {Len(s) + 1}), Len(s))
TrimEnd(s) == SubSeq(s, 1, Max(Solids(s) \union {0}))

\* The parts between the occurrences of a separator.
SplitText(s, separator) ==
  LET from[i \in 0 .. Len(s)] ==
        LET found == FirstFrom(s, separator, i)
        IN  IF found = -1 THEN <<SubSeq(s, i + 1, Len(s))>>
            ELSE <<SubSeq(s, i + 1, found)>> \o from[found + Len(separator)]
  IN  from[0]

(***************************************************************************)
(* StringOperations and StringUtils.                                       *)
(***************************************************************************)
StringSplit(s, delimiter) ==
  LET parts == IF delimiter = <<>> THEN [i \in DOMAIN s |-> <<s[i]>>] ELSE SplitText(s, delimiter)
  IN  ValueList([k \in DOMAIN parts |-> make_string(parts[k])])

StringReplace(s, old, new) ==
  IF old = <<>> \/ ~\E i \in 0 .. Len(s) : At(s, i, old) THEN s ELSE Replace(s, old, new)

LeftPart(s, n) == Substring(s, 0, Min({n, Len(s)}))
RightPart(s, n) == SubSeq(s, Max({Len(s) - n, 0}) + 1, Len(s))

\* Format with one argument: <<text>>, or <<>> for a FormatException.
Format(fmt, arg) ==
  LET ch(i) == IF i < Len(fmt) THEN fmt[i + 1] ELSE -1
      from[i \in 0 .. Len(fmt)] ==
        LET j == DigitsEnd(fmt, i + 1, Len(fmt))
        IN  CASE i = Len(fmt) -> <<<<>>>>
              [] ch(i) \in {Open, Close} /\ ch(i + 1) = ch(i) -> Prepended(<<ch(i)>>, from[i + 2])
              [] ch(i) = Open /\ ch(i + 1) # Open ->
                   IF j > i + 1 /\ ch(j) = Close /\ \A k \in i + 1 .. j - 1 : ch(k) = Zero
                   THEN Prepended(arg, from[j + 1]) ELSE <<>>
              [] ch(i) = Close /\ ch(i + 1) # Close -> <<>>
              [] OTHER -> Prepended(<<ch(i)>>, from[i + 1])
  IN  from[0]
====
