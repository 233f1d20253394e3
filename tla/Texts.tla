---- MODULE Texts ----
(***************************************************************************)
(* Texts are sequences of bytes or of characters; offsets count from 0.    *)
(* First, searching: what strstr and its relatives do with bytes, and .NET *)
(* strings with characters.  Then UTF-8 in the C core                      *)
(* (cpp/core/unicodeUtil.c and unicodeUtil.h), where the byte behind the   *)
(* last is the terminator.                                                 *)
(***************************************************************************)
EXTENDS Integers, Sequences, FiniteSetsExt, SequencesExt

CONSTANT CaseTable   \* sUpperTable and sLowerTable beyond ASCII: <<upper, lower>>

At(s, i, needle) ==
  i + Len(needle) <= Len(s) /\ SubSeq(s, i + 1, i + Len(needle)) = needle
Occurrences(s, needle) == {i \in 0 .. Len(s) : At(s, i, needle)}
\* The offset of the first from there on, and of the last, -1 if there is none.
FirstFrom(s, needle, i) ==
  LET found == {j \in Occurrences(s, needle) : j >= i} IN IF found = {} THEN -1 ELSE Min(found)
LastOf(s, needle) ==
  IF Occurrences(s, needle) = {} THEN -1 ELSE Max(Occurrences(s, needle))

\* The text with every occurrence replaced, from left to right.
Replaced(s, old, new) ==
  LET from[i \in 0 .. Len(s)] ==
        LET found == FirstFrom(s, old, i)
        IN  IF found = -1 THEN SubSeq(s, i + 1, Len(s))
            ELSE SubSeq(s, i + 1, found) \o new \o from[found + Len(old)]
  IN  from[0]

\* The pieces between the members of a set, empty ones too.
Pieces(s, separators) ==
  LET cuts == {0} \union {i \in 1 .. Len(s) : s[i] \in separators}
      end(i) == Min({j \in i + 1 .. Len(s) + 1 : j = Len(s) + 1 \/ s[j] \in separators})
      starts == SetToSortSeq(cuts, <)
  IN  [k \in DOMAIN starts |-> SubSeq(s, starts[k] + 1, end(starts[k]) - 1)]

(***************************************************************************)
(* Format strings: {0} for the argument, {{ and }} for braces.             *)
(***************************************************************************)
Open == 123
Close == 125
Zero == 48
DigitsEnd(s, i, n) == Min({j \in i .. n - 1 : s[j + 1] \notin 48 .. 57} \union {n})
\* A text in front of the rest, if the rest is one.
Prepended(text, rest) == IF rest = <<>> THEN <<>> ELSE <<text \o rest[1]>>

(***************************************************************************)
(* UTF-8.                                                                  *)
(***************************************************************************)
Byte(b, i) == IF i < Len(b) THEN b[i + 1] ELSE 0
IsUTF8IntraChar(byte) == byte \div 2 ^ 6 = 2

\* The last six bits of a number shifted right, as a byte within a character.
Continuation(u, shift) == 2 ^ 7 + ((u \div 2 ^ shift) % 2 ^ 6)

UTF8Encode(u) ==
  CASE u < 2 ^ 7 -> <<u>>
    [] u \in 2 ^ 7 .. 2 ^ 11 - 1 -> <<192 + u \div 2 ^ 6, Continuation(u, 0)>>
    [] u \in 2 ^ 11 .. 2 ^ 16 - 1 ->
         <<224 + u \div 2 ^ 12, Continuation(u, 6), Continuation(u, 0)>>
    [] u >= 2 ^ 16 ->
         <<240 + u \div 2 ^ 18, Continuation(u, 12), Continuation(u, 6), Continuation(u, 0)>>

\* How many bytes the first byte of a character says it has.
CharSize(first) ==
  CASE first < 128 -> 1 [] first \div 32 = 6 -> 2 [] first \div 16 = 14 -> 3 [] OTHER -> 4

UTF8Decode(b, i) ==
  LET first == Byte(b, i)
      bits(k) == Byte(b, i + k) % 64
  IN  CASE CharSize(first) = 1 -> first
        [] CharSize(first) = 2 -> (first % 2 ^ 5) * 2 ^ 6 + bits(1)
        [] CharSize(first) = 3 -> (first % 2 ^ 4) * 2 ^ 12 + bits(1) * 2 ^ 6 + bits(2)
        [] CharSize(first) = 4 ->
             (first % 2 ^ 3) * 2 ^ 18 + bits(1) * 2 ^ 12 + bits(2) * 2 ^ 6 + bits(3)

\* UTF8DecodeAndAdvance: where the next character begins.
NextChar(b, i) == i + CharSize(Byte(b, i))

CharStarts(b) == {i \in 0 .. Len(b) - 1 : ~IsUTF8IntraChar(Byte(b, i))}

UTF8CharacterCount(b) == Cardinality(CharStarts(b))

UTF8ByteIndexToCharIndex(b, i) ==
  IF i \in CharStarts(b) THEN Cardinality({j \in CharStarts(b) : j < i}) ELSE -1

UTF8CharIndexToByteIndex(b, n) ==
  CASE n < 0 \/ b = <<>> -> -1
    [] n = 0 -> 0
    [] n > 0 /\ b # <<>> ->
         IF n > UTF8CharacterCount(b) THEN -1
         ELSE Min({i \in CharStarts(b) \union {Len(b)} :
                     Cardinality({j \in CharStarts(b) : j < i}) = n})

\* The characters of a text, one UTF8DecodeAndAdvance after the other.
Decode(b) ==
  LET from[i \in 0 .. Len(b) + 3] ==
        IF i >= Len(b) THEN <<>> ELSE <<UTF8Decode(b, i)>> \o from[NextChar(b, i)]
  IN  from[0]

UTF8EncodeAll(chars) == FlattenSeq([k \in DOMAIN chars |-> UTF8Encode(chars[k])])

(***************************************************************************)
(* Case and white space.                                                   *)
(***************************************************************************)
UnicodeCharToUpper(u) ==
  CASE u \in 97 .. 122 -> u - 32
    [] u >= 128 /\ u <= 65535 /\ (\E i \in DOMAIN CaseTable : CaseTable[i][2] = u) ->
         CaseTable[Min({i \in DOMAIN CaseTable : CaseTable[i][2] = u})][1]
    [] OTHER -> u

UnicodeCharToLower(u) ==
  CASE u \in 65 .. 90 -> u + 32
    [] u >= 128 /\ u <= 65535 /\ (\E i \in DOMAIN CaseTable : CaseTable[i][1] = u) ->
         CaseTable[Min({i \in DOMAIN CaseTable : CaseTable[i][1] = u})][2]
    [] OTHER -> u

UTF8IsCaseless(b) ==
  \A i \in DOMAIN Decode(b) :
    LET u == Decode(b)[i] IN UnicodeCharToUpper(u) = u /\ UnicodeCharToLower(u) = u

\* The loop of UTF8ToUpper and UTF8ToLower, which ends early when what is
\* written is longer than the original.
Converted(b, to) ==
  LET starts == SetToSortSeq(CharStarts(b), <)
      pieces == [k \in DOMAIN starts |-> UTF8Encode(to[UTF8Decode(b, starts[k])])]
      before(k) == Len(FlattenSeq(SubSeq(pieces, 1, k - 1)))
  IN  FlattenSeq(SelectSeq([k \in DOMAIN pieces |-> IF before(k) <= Len(b) THEN pieces[k] ELSE <<>>],
                           LAMBDA piece : piece # <<>>))

UTF8ToUpper(b) == Converted(b, [u \in ToSet(Decode(b)) |-> UnicodeCharToUpper(u)])
UTF8ToLower(b) == Converted(b, [u \in ToSet(Decode(b)) |-> UnicodeCharToLower(u)])

UnicodeCharIsWhitespace(u) ==
  u \in (9 .. 13) \union (8192 .. 8202) \union
        {32, 133, 160, 5760, 6158, 8232, 8233, 8239, 8287, 12288}
====
