---- MODULE ClassicText ----
(***************************************************************************)
(* The String class of the cpp-classic type system, Split and Join, and    *)
(* the two benchmarks written with them. A string is what its storage      *)
(* holds: the bytes of its UTF-8 text and the byte 0 after them; <<>> is a *)
(* string without storage. Positions count from 0.                         *)
(***************************************************************************)
EXTENDS Integers, SequencesExt

NoStorage == <<>>
Stored(bytes) == Append(bytes, 0)
MkString(bytes) == IF bytes = <<>> THEN NoStorage ELSE Stored(bytes)
LengthB(s) == IF s = NoStorage THEN 0 ELSE Len(s) - 1
empty(s) == Len(s) <= 1
Bytes(s) == SubSeq(s, 1, LengthB(s))

\* Compare finds two strings without text equal, stored or not.
SameText(s, other) == Bytes(s) = Bytes(other)
Plus(s, other) == IF other = NoStorage THEN s ELSE IF s = NoStorage THEN other ELSE Bytes(s) \o other

At(s, other, i) == SubSeq(s, i + 1, i + LengthB(other)) = Bytes(other)
Places(s, other, from, to) == {i \in from .. to : At(s, other, i)}
\* Nothing is found in a string without storage, and one without storage everywhere.
IndexOfB(s, other, posB) ==
  IF s = NoStorage THEN -1 ELSE IF other = NoStorage THEN posB
  ELSE LET at == Places(s, other, posB, LengthB(s) - LengthB(other)) IN IF at = {} THEN -1 ELSE Min(at)
LastIndexOfB(s, other, posB) ==
  IF s = NoStorage THEN -1 ELSE IF other = NoStorage THEN posB
  ELSE LET last == LengthB(s) - LengthB(other)
           at == Places(s, other, 0, IF posB # -1 /\ posB < last THEN posB ELSE last)
       IN  IF at = {} THEN -1 ELSE Max(at)

SubstringB(s, posB, count) ==
  IF s = NoStorage THEN s ELSE IF posB >= Len(s) THEN NoStorage
  ELSE LET left == LengthB(s) - posB
       IN  Stored(SubSeq(s, posB + 1, posB + (IF count = -1 \/ count > left THEN left ELSE count)))

\* Bytes 128 to 191 continue a character.
IsUTF8IntraChar(b) == b \div 64 = 2
isASCII(s) == \A i \in DOMAIN s : ~IsUTF8IntraChar(s[i])
Length(s) == Len(SelectSeq(Bytes(s), LAMBDA b : ~IsUTF8IntraChar(b)))

RECURSIVE AdvanceUTF8(_, _, _)
AdvanceUTF8(s, c, count) ==
  IF count <= 0 \/ c >= Len(s) THEN c
  ELSE AdvanceUTF8(s, Min({i \in c + 1 .. Len(s) : i = Len(s) \/ ~IsUTF8IntraChar(s[i + 1])}), count - 1)

\* A negative position is a huge unsigned one: no position of ASCII text, none to go forward in other text.
bytePosOfCharPos(s, pos) == IF s = NoStorage THEN 0 ELSE IF isASCII(s) THEN pos ELSE AdvanceUTF8(s, 0, pos)
charPosOfBytePos(s, posB) == IF posB > Len(s) THEN Length(s) ELSE IF isASCII(s) THEN posB
                             ELSE Length(Stored(SubSeq(s, 1, posB)))
CharPos_InBytes(s, posB) == posB
CharPos(s, posB) == IF posB > 0 THEN charPosOfBytePos(s, posB) ELSE posB
IndexOf(s, other, pos) == CharPos(s, IndexOfB(s, other, bytePosOfCharPos(s, pos)))
LastIndexOf(s, other, pos) == CharPos(s, LastIndexOfB(s, other, bytePosOfCharPos(s, pos)))
Substring(s, pos, numChars, ascii) ==
  LET posB == bytePosOfCharPos(s, pos)
  IN  IF ascii THEN SubstringB(s, pos, numChars)
      ELSE SubstringB(s, posB, (IF numChars < 0 THEN Len(s) ELSE AdvanceUTF8(s, posB, numChars)) - posB)
\* At position 0 a string whose characters were not counted yet is taken for ASCII or not as memory has it.
Substrings(s, pos, numChars, counted) ==
  {Substring(s, pos, numChars, ascii) : ascii \in IF pos > 0 \/ counted THEN {isASCII(s)} ELSE BOOLEAN}

StartsWith(s, other) == empty(other) \/ (s # NoStorage /\ LengthB(s) >= LengthB(other) /\ At(s, other, 0))
\* Asked for one byte more than there is, it compares from the byte before the text.
EndsWith(s, other) ==
  \/ empty(other)
  \/ s # NoStorage /\ LengthB(s) >= LengthB(other) /\ At(s, other, LengthB(s) - LengthB(other))
MayEndWith(s, other) ==
  IF s # NoStorage /\ LengthB(other) = Len(s)
  THEN {FALSE, SubSeq(other, 2, LengthB(other)) = Bytes(s)} ELSE {EndsWith(s, other)}

RECURSIVE TrimStart(_, _)
TrimStart(bytes, c) == IF bytes # <<>> /\ Head(bytes) = c THEN TrimStart(Tail(bytes), c) ELSE bytes
TrimHelper(s, c, left, right) ==
  LET start == IF left THEN TrimStart(Bytes(s), c) ELSE Bytes(s)
  IN  MkString(IF right THEN Reverse(TrimStart(Reverse(start), c)) ELSE start)

ReplaceB(s, posB, count, new) == Plus(Plus(SubstringB(s, 0, posB), new), SubstringB(s, posB + count, -1))
RECURSIVE ReplaceFrom(_, _, _, _)
ReplaceFrom(s, what, with, posB) ==
  IF posB < 0 THEN s
  ELSE LET r == ReplaceB(s, posB, LengthB(what), with)
       IN  ReplaceFrom(r, what, with, IndexOfB(r, what, posB + LengthB(with)))
\* Nothing to replace is found again and again: Replace does not return then.
ReplaceEnds(s, what) == ~empty(what) \/ s = NoStorage
Replace(s, what, with) == ReplaceFrom(s, what, with, IndexOfB(s, what, 0))

\* The next search starts as many bytes further as the delimiter has characters.
RECURSIVE SplitFrom(_, _, _, _)
SplitFrom(s, delimiter, maxSplits, posB) ==
  LET endPosB == IndexOfB(s, delimiter, posB)
      next == endPosB + Length(delimiter)
  IN  IF endPosB < 0 THEN <<SubstringB(s, posB, -1)>>
      ELSE IF maxSplits = 1 THEN <<SubstringB(s, posB, endPosB - posB), SubstringB(s, next, -1)>>
      ELSE <<SubstringB(s, posB, endPosB - posB)>> \o SplitFrom(s, delimiter, maxSplits - 1, next)
SplitEnds(s, delimiter, maxSplits) == ~empty(delimiter) \/ s = NoStorage \/ maxSplits > 0
Split(s, delimiter, maxSplits) == SplitFrom(s, delimiter, maxSplits, 0)

RECURSIVE JoinedBytes(_, _)
JoinedBytes(delimiter, parts) ==
  IF Len(parts) = 1 THEN Bytes(Head(parts))
  ELSE Bytes(Head(parts)) \o Bytes(delimiter) \o JoinedBytes(delimiter, Tail(parts))
Join(delimiter, parts) == IF parts = <<>> THEN NoStorage
                          ELSE IF Len(parts) = 1 THEN MkString(Bytes(parts[1])) ELSE Stored(JoinedBytes(delimiter, parts))

(***************************************************************************)
(* numberWords: a number as the words of its text, where a hyphen is a     *)
(* space to the reader, and back.                                          *)
(***************************************************************************)
singles == <<"", "one", "two", "three", "four", "five", "six", "seven", "eight", "nine", "">>
teens == <<"ten", "eleven", "twelve", "thirteen", "fourteen", "fifteen", "sixteen", "seventeen", "eighteen", "nineteen", "">>
tys == <<"", "", "twenty", "thirty", "forty", "fifty", "sixty", "seventy", "eighty", "ninety">>
ions == <<"thousand", "million", "billion">>
multipliers == <<1000, 1000000, 1000000000>>

Word(words, i) == <<words[i + 1]>>
BelowHundred(h) == CASE h = 0 -> <<>> [] h \in 1 .. 9 -> Word(singles, h) [] h \in 10 .. 19 -> Word(teens, h - 10)
                     [] h \in 20 .. 99 -> Word(tys, h \div 10) \o (IF h % 10 > 0 THEN Word(singles, h % 10) ELSE <<>>)
Hundreds(h) == IF h = 0 THEN <<>> ELSE Word(singles, h) \o <<"hundred">>

\* The words of the thousands of a, the last ion being for what is left.
RECURSIVE FromIon(_, _, _)
FromIon(a, ion, r) ==
  LET next == a \div 1000
      words == Hundreds((a % 1000) \div 100) \o BelowHundred(a % 100) \o r
      named == IF next % 1000 > 0 THEN <<ions[ion]>> \o words ELSE words
  IN  IF next = 0 \/ ion = Len(ions) THEN named ELSE FromIon(next, ion + 1, named)
numberToText(n) == IF n = 0 THEN <<"zero">>
                   ELSE (IF n < 0 THEN <<"negative">> ELSE <<>>) \o FromIon(IF n < 0 THEN -n ELSE n, 1, <<>>)

WordVal(word) == IF word \in ToSet(singles) THEN SelectInSeq(singles, LAMBDA w : w = word) - 1
                 ELSE IF word \in ToSet(tys) THEN 10 * (SelectInSeq(tys, LAMBDA w : w = word) - 1)
                 ELSE SelectInSeq(teens, LAMBDA w : w = word) + 9
Known(word) == word \in ToSet(singles) \cup ToSet(tys) \cup ToSet(teens)

\* "negative" anywhere negates; an unknown word makes the whole text 0.
RECURSIVE ReadWords(_, _, _, _)
ReadWords(words, result, ionVal, sign) ==
  IF words = <<>> THEN sign * (result + ionVal)
  ELSE LET word == Head(words)
           rest == Tail(words)
           hundred == rest # <<>> /\ Head(rest) = "hundred"
       IN  CASE word = "negative" -> ReadWords(rest, result, ionVal, -1)
             [] word \in ToSet(ions) ->
                  ReadWords(rest, result + ionVal * multipliers[SelectInSeq(ions, LAMBDA w : w = word)], 0, sign)
             [] Known(word) /\ hundred -> ReadWords(Tail(rest), result, ionVal + 100 * WordVal(word), sign)
             [] Known(word) /\ ~hundred -> ReadWords(rest, result, ionVal + WordVal(word), sign)
             [] OTHER -> 0
textToNumber(words) == IF words = <<"zero">> THEN 0 ELSE ReadWords(words, 0, 0, 1)

(***************************************************************************)
(* levenshtein: d[j] is the distance of what was read of s1 to the first j *)
(* characters of s2; a row is overwritten while the next one is computed.  *)
(***************************************************************************)
Cheapest_OfTwo(a, b, c) == IF a < b THEN a ELSE b
Cheapest(a, b, c) == IF a < b THEN IF c < a THEN c ELSE a ELSE IF c < b THEN c ELSE b
RECURSIVE NextRow(_, _, _, _, _)
NextRow(s1char, s2, d, lastCost, j) ==
  IF j > Len(s2) THEN [d EXCEPT ![Len(s2)] = lastCost]
  ELSE LET cost == IF s1char = s2[j] THEN 0 ELSE 1
       IN  NextRow(s1char, s2, [d EXCEPT ![j - 1] = lastCost], Cheapest(d[j] + 1, lastCost + 1, cost + d[j - 1]), j + 1)
RECURSIVE Rows(_, _, _, _)
Rows(s1, s2, d, i) == IF i > Len(s1) THEN d[Len(s2)] ELSE Rows(s1, s2, NextRow(s1[i], s2, d, i, 1), i + 1)
editDistance(s1, s2) == IF s1 = <<>> THEN Len(s2) ELSE IF s2 = <<>> THEN Len(s1)
                        ELSE Rows(s1, s2, [j \in 0 .. Len(s2) |-> j], 1)
====
