---- MODULE Strings ----
(***************************************************************************)
(* Strings of the C and C++ runtime, as UTF-8: the operations on string    *)
(* values (cpp/core/value_string.c), and those of the host's String class  *)
(* (CS_String.h over StringStorage.c).  The empty String has no storage;   *)
(* its operations test for that where the operators below test for <<>>.   *)
(***************************************************************************)
EXTENDS Lists, Texts

CONSTANTS SplitCapacity,        \* items string_split makes room for
          SpaceSplitCapacity    \* the same, when the delimiter is a space
ASSUME SplitAssumption == {SplitCapacity, SpaceSplitCapacity} \subseteq Nat \ {0}

Space == 32

\* The length taken for bytes.
Substring_Bytes(b, start, len) ==
  LET first == UTF8CharIndexToByteIndex(b, start)
  IN  IF b = <<>> \/ first < 0 THEN <<>> ELSE SubSeq(b, first + 1, Min({first + len, Len(b)}))

(***************************************************************************)
(* value_string.c                                                          *)
(***************************************************************************)
string_substring(b, start, len) ==
  LET first == UTF8CharIndexToByteIndex(b, start)
      last  == UTF8CharIndexToByteIndex(b, start + len)
  IN  IF b = <<>> \/ first < 0 THEN <<>>
      ELSE SubSeq(b, first + 1, IF last < 0 THEN Len(b) ELSE last)

string_replace(b, old, new) == IF old = <<>> \/ b = <<>> THEN b ELSE Replaced(b, old, new)

\* list_push for each of the pieces, as far as the list's capacity goes.
Filled(cap, pieces) ==
  WithItems(make_list(cap),
            [k \in 1 .. Min({make_list(cap).cap, Len(pieces)}) |-> make_string(pieces[k])])

\* Between characters, at every space, or (strtok) at runs of the delimiter's bytes.
string_split(b, delimiter) ==
  CASE b = <<>> -> make_list(0)
    [] b # <<>> /\ delimiter = <<>> ->
         LET starts == SetToSortSeq(CharStarts(b), <)
         IN  Filled(UTF8CharacterCount(b),
                    [k \in DOMAIN starts |-> SubSeq(b, starts[k] + 1, NextChar(b, starts[k]))])
    [] b # <<>> /\ delimiter = <<Space>> -> Filled(SpaceSplitCapacity, Pieces(b, {Space}))
    [] OTHER -> Filled(SplitCapacity,
                       SelectSeq(Pieces(b, Range(delimiter)), LAMBDA piece : piece # <<>>))

(***************************************************************************)
(* StringStorage.c                                                         *)
(***************************************************************************)
InChars(b, i) == i \in 0 .. UTF8CharacterCount(b) - 1

\* The offset in bytes, unconverted.
IndexOf_Bytes(b, needle, start) ==
  IF b = <<>> \/ needle = <<>> \/ ~InChars(b, start) THEN -1
  ELSE FirstFrom(b, needle, UTF8CharIndexToByteIndex(b, start))

ss_indexOfFrom(b, needle, start) ==
  IF b = <<>> \/ needle = <<>> \/ ~InChars(b, start) THEN -1
  ELSE UTF8ByteIndexToCharIndex(b, FirstFrom(b, needle, UTF8CharIndexToByteIndex(b, start)))
ss_indexOf(b, needle) == ss_indexOfFrom(b, needle, 0)
ss_contains(b, needle) == ss_indexOf(b, needle) >= 0

ss_lastIndexOf(b, needle) ==
  IF b = <<>> \/ needle = <<>> THEN -1 ELSE UTF8ByteIndexToCharIndex(b, LastOf(b, needle))

ss_startsWith(b, prefix) == b # <<>> /\ prefix # <<>> /\ At(b, 0, prefix)
ss_endsWith(b, suffix) ==
  b # <<>> /\ suffix # <<>> /\ Len(suffix) <= Len(b) /\ At(b, Len(b) - Len(suffix), suffix)

ss_substringLen(b, start, len) ==
  IF b = <<>> \/ len < 0 \/ ~InChars(b, start) THEN <<>>
  ELSE SubSeq(b, UTF8CharIndexToByteIndex(b, start) + 1,
              UTF8CharIndexToByteIndex(b, Min({start + len, UTF8CharacterCount(b)})))
ss_substring(b, start) == ss_substringLen(b, start, UTF8CharacterCount(b) - start)

ss_toLower(b) == IF UTF8IsCaseless(b) THEN b ELSE UTF8ToLower(b)
ss_toUpper(b) == IF UTF8IsCaseless(b) THEN b ELSE UTF8ToUpper(b)

\* The offsets of the first character that is no white space, and behind the last.
Solid(b) == {i \in CharStarts(b) : ~UnicodeCharIsWhitespace(UTF8Decode(b, i))}
SolidStart(b) == Min(Solid(b) \union {Len(b)})
SolidEnd(b) == Max({NextChar(b, i) : i \in Solid(b)} \union {0})
ss_trimStart(b) == SubSeq(b, SolidStart(b) + 1, Len(b))
ss_trimEnd(b) == SubSeq(b, 1, SolidEnd(b))
ss_trim(b) == SubSeq(b, SolidStart(b) + 1, SolidEnd(b))
ss_isNullOrWhiteSpace(b) == Solid(b) = {}

ss_split(b, separator) == IF b = <<>> THEN <<<<>>>> ELSE Pieces(b, {separator})
ss_replace(b, old, new) ==
  IF b = <<>> \/ old = <<>> \/ new = <<>> THEN <<>> ELSE Replaced(b, old, new)

(***************************************************************************)
(* CS_String.h                                                             *)
(***************************************************************************)
SplitToList(b, separator) == IF b = <<>> THEN <<>> ELSE ss_split(b, separator)

Join(separator, values) ==
  FlattenSeq([k \in DOMAIN values |-> IF k = 1 THEN values[k] ELSE separator \o values[k]])

Left(b, n) == ss_substringLen(b, 0, n)
RightOf(b, n) ==
  IF n > UTF8CharacterCount(b) THEN b ELSE ss_substringLen(b, UTF8CharacterCount(b) - n, n)

(***************************************************************************)
(* StringUtils::FormatList (cs/StringUtils.cs, the C++ part) with one      *)
(* value: <<text>>, or <<>> for an exception.  fmt[i] is a byte, Length    *)
(* and Substring count characters.                                         *)
(***************************************************************************)
FormatList(fmt, value) ==
  LET n == UTF8CharacterCount(fmt)
      ch(i) == Byte(fmt, i)
      from[i \in 0 .. n] ==
        LET j   == DigitsEnd(fmt, i + 1, n)
            end == Min({k \in i .. n : k = n \/ ch(k) \in {Open, Close}})
        IN  CASE i = n -> <<<<>>>>
              [] i < n /\ ch(i) \in {Open, Close} ->
                   IF i + 1 < n /\ ch(i + 1) = ch(i) THEN Prepended(<<ch(i)>>, from[i + 2])
                   ELSE IF /\ ch(i) = Open /\ j > i + 1 /\ j < n /\ ch(j) = Close
                           /\ \A k \in i + 1 .. j - 1 : ch(k) = Zero
                        THEN Prepended(value, from[j + 1]) ELSE <<>>
              [] OTHER -> Prepended(ss_substringLen(fmt, i, end - i), from[end])
  IN  from[0]
====
