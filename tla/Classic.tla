---- MODULE Classic ----
(***************************************************************************)
(* A program over the cpp-classic type system: its variables, the heap of  *)
(* counted storages they refer to, and one vector worked on by itself. The *)
(* pure operations, on texts and literals, are given a task at the start.  *)
(***************************************************************************)
EXTENDS ClassicValues

CONSTANTS Vars,      \* the program's variables
          Atoms,     \* values without storage that the program writes
          MaxItems,  \* items a list is given, entries a map is given
          MaxSlots,  \* of the vector's buffer
          Tasks      \* what the pure operations are applied to

Text == INSTANCE ClassicText

VARIABLES heap,   \* the storage at every address
          vars,   \* the value of every variable
          vec,    \* a vector of its own
          list,   \* the items that vector is to have; no step reads it
          task    \* for the pure operations
classicVars == <<heap, vars, vec, list, task>>

Init == /\ heap = [a \in Addrs |-> Free] /\ vars = [r \in Vars |-> Null]
        /\ vec = Vec!Vector(0) /\ list = <<>>
        /\ task \in Tasks

(***************************************************************************)
(* Variables: the constructors, operator= and the destructor of Value.     *)
(***************************************************************************)
Program == task.kind = "values" /\ UNCHANGED <<vec, list, task>>
Fresh == CHOOSE a \in Addrs : ~Live(heap, a)
Room == \E a \in Addrs : ~Live(heap, a)

\* operator=: what is assigned is retained before what was there is released.
Assigned_ReleasesFirst(h, old, new) == retain(release(h, old), new)
Assigned(h, old, new) == release(retain(h, new), old)
Assign(r, v) == vars' = [vars EXCEPT ![r] = v] /\ heap' = Assigned(heap, vars[r], v)

\* A new storage has one owner, the variable, once the temporary value is gone.
Hold(r, st) ==
  LET v == Value(st.kind, Fresh)
      made == retainAll([heap EXCEPT ![Fresh] = st], Owned(st))
  IN  vars' = [vars EXCEPT ![r] = v] /\ heap' = release(Assigned(made, vars[r], v), v)

Set(r) == Program /\ \E v \in {Null} \cup {vars[s] : s \in Vars} : Assign(r, v)
New(r) == Program /\ Room /\ \E st \in {ListStorage(0), DictionaryStorage} : Hold(r, st)

Lists == {r \in Vars : vars[r].type = "list"}
Maps == {r \in Vars : vars[r].type = "map"}
StorageOf(r) == heap[vars[r].data]

\* SetValue: the value of a key there is, or a new entry at the head of the key's bin.
SetAt(bins, place, key, value) ==
  IF place[2] # 0 THEN [bins EXCEPT ![place[1]][place[2]].value = value]
  ELSE [bins EXCEPT ![place[1]] = <<[key |-> key, value |-> value]>> \o @]
With(h, bins, key, value) == SetAt(bins, Place(h, bins, key), key, value)

\* EvalCopy: a new list or map of the same values; a map's entries are set one by one.
RECURSIVE Rebuilt(_, _, _)
Rebuilt(h, bins, entries) ==
  IF entries = <<>> THEN bins
  ELSE Rebuilt(h, With(h, bins, Head(entries).key, Head(entries).value), Tail(entries))
CopyOf(st) == IF st.kind = "list"
              THEN [ListStorage(0) EXCEPT !.vec = [buf |-> Vec!Items(st.vec), qty |-> st.vec.qty]]
              ELSE [DictionaryStorage EXCEPT !.bins = Rebuilt(heap, NoBins, Entries(st.bins))]
EvalCopy(r) == Program /\ Room /\ \E s \in Lists \cup Maps : Hold(r, CopyOf(StorageOf(s)))

\* A for loop over a map is given each entry as a map of its own.
PairBins(entry) == Rebuilt(heap, NoBins, <<[key |-> keyString, value |-> entry.key],
                                           [key |-> valueString, value |-> entry.value]>>)
GetKeyValuePair(r) == Program /\ Room /\ \E s \in Maps : \E i \in 1 .. Count(StorageOf(s)) :
  Hold(r, [DictionaryStorage EXCEPT !.bins = PairBins(Entries(StorageOf(s).bins)[i])])

(***************************************************************************)
(* Elements. A value that would let the hash of a map recurse without end, *)
(* a map within one of its own keys, is not given to the map.              *)
(***************************************************************************)
Inputs == Atoms \cup {v \in {vars[s] : s \in Vars} : usesRef(v)}
Indexes == {Number(i) : i \in -1 .. 1}
Within(h, v) ==
  LET children(a) == ToSet(SelectSeq(Owned(h[a]), usesRef))
      step(seen) == seen \cup UNION {{c.data : c \in children(a)} : a \in seen}
      reach[n \in 0 .. Cardinality(Addrs)] ==
        IF n = 0 THEN {v.data} ELSE LET seen == reach[n - 1] IN step(seen)
  IN  IF usesRef(v) THEN reach[Cardinality(Addrs)] ELSE {}
KeysEnd(h) == \A a \in Addrs : Live(h, a) /\ h[a].kind = "map" =>
  \A i \in 1 .. Count(h[a]) : a \notin Within(h, Keys(h[a].bins)[i])
Size(st) == IF st.kind = "list" THEN Len(SelectSeq(st.vec.buf, LAMBDA v : v # Null)) ELSE IF st.kind = "map" THEN Count(st) ELSE 0
Stored(h) == FoldSet(LAMBDA a, n : Size(h[a]) + n, 0, Addrs)
Becomes(h) == KeysEnd(h) /\ Stored(h) <= MaxItems /\ heap' = h

AddItem(r) == Program /\ r \in Lists /\ \E v \in Inputs :
  Becomes(WithVec(heap, vars[r].data, Vec!push_back(StorageOf(r).vec, v))) /\ UNCHANGED vars
RemoveItem(r) == Program /\ r \in Lists /\ \E i \in 0 .. MaxItems - 1 :
  Becomes(WithVec(heap, vars[r].data, Vec!deleteIdx(StorageOf(r).vec, i))) /\ UNCHANGED vars
\* The item popped stays in its slot.
PopItem(r, s) == Program /\ s \in Lists /\ Count(StorageOf(s)) > 0 /\ LET popped == Last(Vec!Items(StorageOf(s).vec)) IN
  /\ vars' = [vars EXCEPT ![r] = popped]
  /\ heap' = Assigned([heap EXCEPT ![vars[s].data].vec = Vec!pop_back(@)], vars[r], popped)

\* SetElem of a list: an index out of range, once it is reported, is that of the first slot.
SetItem(r) == Program /\ r \in Lists /\ StorageOf(r).vec.buf # <<>> /\ \E index \in Indexes, v \in Inputs :
  LET st == StorageOf(r)
  IN  Becomes(WithVec(heap, vars[r].data, Vec!SetSlot(st.vec, Vec!Slot(st.vec, Counted(st, IntValue(index))), v)))
      /\ UNCHANGED vars
\* SetElem of a map: SetValue, as no override is set.
SetValue(r) == Program /\ r \in Maps /\ \E key \in Inputs, v \in Inputs :
  Becomes(WithBins(heap, vars[r].data, With(heap, StorageOf(r).bins, key, v))) /\ UNCHANGED vars
Without(bins, place) == IF place[2] = 0 THEN bins ELSE [bins EXCEPT ![place[1]] = RemoveAt(@, place[2])]
RemoveKey(r) == Program /\ r \in Maps /\ \E key \in Inputs :
  /\ Becomes(WithBins(heap, vars[r].data, Without(StorageOf(r).bins, Place(heap, StorageOf(r).bins, key))))
  /\ UNCHANGED vars
Take(r) == Program /\ \E s \in Lists \cup Maps, index \in Indexes \cup Inputs :
  /\ Readable(StorageOf(s))
  /\ GetElem(heap, vars[s], index) # Endless
  /\ Assign(r, GetElem(heap, vars[s], index))

ProgramStep == \E r \in Vars :
  \/ Set(r) \/ New(r) \/ EvalCopy(r) \/ GetKeyValuePair(r) \/ AddItem(r) \/ RemoveItem(r) \/ (\E s \in Vars : PopItem(r, s))
  \/ SetItem(r) \/ SetValue(r) \/ RemoveKey(r) \/ Take(r)

(***************************************************************************)
(* The vector, and what each operation makes of the items. The list        *)
(* operations of the sequences modules are the reference.                  *)
(***************************************************************************)
Vector == task.kind = "vector" /\ vec # Vec!Undefined /\ UNCHANGED <<heap, vars, task>>
To(v, items) == vec' = v /\ list' = items /\ Len(v.buf) <= MaxSlots
Xs == {Number(1), Number(2)}
Places == -1 .. Len(list)
Has(i) == i \in 0 .. Len(list) - 1
Unless(illegal, items) == IF illegal THEN list ELSE items

Add == Vector /\ \E x \in Xs : To(Vec!push_back(vec, x), Append(list, x))
Insert == Vector /\ \E x \in Xs, i \in Places :
  To(Vec!insert(vec, x, i), Unless(i < 0, InsertAt(list, i + 1, x)))
DeleteIdx == Vector /\ \E i \in Places : To(Vec!deleteIdx(vec, i), Unless(~Has(i), RemoveAt(list, i + 1)))
RemoveRange == Vector /\ \E i, n \in Places : Has(i) /\ i + n <= Len(list) /\
  To(Vec!RemoveRange(vec, i, n), Unless(n < 0, SubSeq(list, 1, i) \o SubSeq(list, i + n + 1, Len(list))))
\* An index past the items: one item leaves, and what a slot out of use holds comes in.
Strayed(i, j) == CASE Has(i) /\ ~Has(j) -> Append(RemoveAt(list, i + 1), vec.buf[Len(list) + 1])
                   [] ~Has(i) /\ Has(j) -> Front(InsertAt(list, j + 1, vec.buf[i + 1]))
                   [] OTHER -> list
Reposition == Vector /\ \E i, j \in -1 .. Len(vec.buf) :
  LET v == Vec!reposition(vec, i, j)
  IN  To(v, IF v = Vec!Undefined \/ i = j THEN list
            ELSE IF Has(i) /\ Has(j) THEN InsertAt(RemoveAt(list, i + 1), j + 1, list[i + 1])
            ELSE Strayed(i, j))
Pop == Vector /\ To(Vec!pop_back(vec), Unless(list = <<>>, Front(list)))
\* A larger size may show what was given up before.
Resize == Vector /\ \E n \in 0 .. MaxSlots :
  To(Vec!resize(vec, n), [i \in 1 .. n |-> IF Has(i - 1) THEN list[i] ELSE Vec!resize(vec, n).buf[i]])
ResizeBuffer == Vector /\ \E n \in 0 .. MaxSlots : To(Vec!resizeBuffer(vec, n), SubSeq(list, 1, Min({n, Len(list)})))
Turn == Vector /\ To(Vec!reverse(vec), Reverse(list))
\* operator[] writes to the first slot when the index is out of range, setItem wraps it around.
Write == Vector /\ \E i \in Places, x \in Xs :
  To(Vec!SetSlot(vec, Vec!Slot(vec, i), x), Unless(list = <<>>, ReplaceAt(list, IF Has(i) THEN i + 1 ELSE 1, x)))
WriteItem == Vector /\ \E i \in -Len(list) .. Len(list), x \in Xs :
  To(Vec!setItem(vec, i, x), Unless(list = <<>>, ReplaceAt(list, 1 + (i % Len(list)), x)))
Duplicate == Vector /\ To(Vec!CopyOf(vec), list)

VectorStep == Add \/ Insert \/ DeleteIdx \/ RemoveRange \/ Reposition \/ Pop \/ Resize \/ ResizeBuffer \/ Turn \/ Write
              \/ WriteItem \/ Duplicate
Next == ProgramStep \/ VectorStep
Spec == Init /\ [][Next]_classicVars

(***************************************************************************)
(* Counts. A storage counts the variables and the slots, those of entries  *)
(* and those of the buffer of a list, that refer to it, and it lives as    *)
(* long as there are any: a slot that no item is in any more still keeps   *)
(* the last one alive.                                                     *)
(***************************************************************************)
OwnersCounted == \A a \in Addrs :
  LET refers(v) == usesRef(v) /\ v.data = a
      owners(b) == Len(SelectSeq(Owned(heap[b]), refers))
      owned == Cardinality({r \in Vars : refers(vars[r])}) + FoldSet(LAMBDA b, n : owners(b) + n, 0, Addrs)
  IN  IF Live(heap, a) THEN heap[a].refs = owned /\ owned > 0 ELSE owned = 0

(***************************************************************************)
(* Equality. Two values are equal when nothing that can be read from them  *)
(* tells them apart: the greatest relation in which equal lists have equal *)
(* items and equal maps the same keys with equal values.                   *)
(***************************************************************************)
Readables == {vars[r] : r \in Vars} \cup UNION {ToSet(Owned(heap[a])) : a \in Addrs}
AtomicKeys == \A a \in Addrs : Live(heap, a) /\ heap[a].kind = "map" =>
                \A i \in 1 .. Count(heap[a]) : ~usesRef(Keys(heap[a].bins)[i])
Plainly(st, key) == {e.value : e \in {f \in ToSet(Entries(st.bins)) : f.key = key}}
Alike(rel, s, t) ==
  /\ s.kind = t.kind /\ Count(s) = Count(t)
  /\ s.kind = "list" => \A i \in 1 .. Count(s) : <<s.vec.buf[i], t.vec.buf[i]>> \in rel
  /\ s.kind = "map" => \A key \in ToSet(Keys(s.bins)) :
       \E u \in Plainly(s, key), v \in Plainly(t, key) : <<u, v>> \in rel
Indistinguishable ==
  LET pairs == {p \in Readables \X Readables : p[1] = p[2] \/ (usesRef(p[1]) /\ usesRef(p[2]))}
      finer(rel) == {p \in rel : p[1] = p[2] \/ Alike(rel, heap[p[1].data], heap[p[2].data])}
      narrowed[n \in 0 .. 9] == IF n = 0 THEN pairs ELSE LET rel == narrowed[n - 1] IN finer(rel)
  IN  narrowed[9]
\* No storage can be reached in two ways, and none lies within itself.
Tree == \A a \in Addrs : Live(heap, a) => heap[a].refs = 1
Ordered == \A a, b \in Addrs : (Live(heap, a) /\ Live(heap, b) /\ heap[a].kind = "map" /\ heap[b].kind = "map") =>
             (Keys(heap[a].bins) = Keys(heap[b].bins) \/ ToSet(Keys(heap[a].bins)) # ToSet(Keys(heap[b].bins)))

\* Equal and Equality tell values apart exactly where reading them does, circles
\* included, when keys are atoms; equal values hash alike when they are trees
\* with their keys in one order (RecursiveEqual, RecursiveHash).
EqualAndAlike == AtomicKeys => LET rel == Indistinguishable IN \A u, v \in Readables :
  /\ Equal(heap, u, v) <=> <<u, v>> \in rel
  /\ Equal(heap, u, v) <=> Equality(heap, u, v) = 1
  /\ (Tree /\ Ordered /\ Equal(heap, u, v)) => Hash(heap, u) = Hash(heap, v)

(***************************************************************************)
(* The chain of a map: itself and its parents along __isa.                 *)
(***************************************************************************)
Parent(v) == IF v.type = "map" THEN Get(heap, heap[v.data].bins, magicIsA) ELSE NoValue
Chain(v) == LET upTo[n \in 1 .. Cardinality(Addrs) + 2] ==
                  IF n = 1 THEN <<v>>
                  ELSE LET before == upTo[n - 1]
                       IN  IF Parent(Last(before)) = NoValue THEN before ELSE Append(before, Parent(Last(before)))
            IN  upTo[Cardinality(Addrs) + 2]
Circular(chain) == Len(chain) > Cardinality(Addrs) + 1
Nearest(chain, key) ==
  LET has(v) == v.type = "map" /\ Get(heap, heap[v.data].bins, key) # NoValue
      at == SelectInSeq(chain, has)
  IN  IF at # 0 THEN Get(heap, heap[chain[at].data].bins, key)
      ELSE IF Circular(chain) THEN Endless ELSE Null

\* The three walks along __isa, those of Lookup, Val and IsA, give the value of the
\* nearest map that has the key, and go round without end where the chain does; Val with
\* a key that is no string does so as well on a map that ends its chain without the key.
WalksAgree == \A v \in Readables : v.type = "map" =>
  LET chain == Chain(v)
  IN  /\ \A key \in Atoms :
           /\ Lookup(heap, v, key) = Nearest(chain, key)
           /\ Val(heap, v, key) = IF key.type # "string" /\ Nearest(chain, key) = Null /\ Last(chain).type = "map"
                                     /\ \A i \in DOMAIN chain :
                                          chain[i].type = "map" => Get(heap, heap[chain[i].data].bins, key) = NoValue
                                  THEN Endless ELSE Nearest(chain, key)
      /\ \A type \in Readables \ {Null} :
           IsA(heap, v, type) = IF type \in ToSet(Tail(chain)) THEN "yes" ELSE IF Circular(chain) THEN "endless" ELSE "no"

\* Whatever the buffer goes through, growing, shrinking, taking slots over and up again,
\* the items are those of a list on which the same was done, and each is found at its place.
\* A list refuses an index it has no item at, and so does the vector, except for operator[],
\* which takes the first item for it, and for reposition, which reports the error and goes
\* on: an index of a slot out of use, or beyond, makes an item leave the list and what was
\* left in such a slot come in (SimpleVector.h reposition).
VectorsAreLists == vec # Vec!Undefined =>
  /\ Vec!Items(vec) = list
  /\ \A x \in Xs : Vec!indexOf(vec, x) = SelectInSeq(list, LAMBDA item : item = x) - 1
(***************************************************************************)
(* Texts. A task gives characters, each as its bytes in UTF-8; what the    *)
(* operations answer in positions of characters and in texts is compared   *)
(* with the same operation on the characters.                              *)
(***************************************************************************)
Encoded(chars) == Text!MkString(FlattenSeq(chars))
FoundAt(chars, other, from) ==
  {i \in from .. Len(chars) - Len(other) : SubSeq(chars, i + 1, i + Len(other)) = other}
First(places) == IF places = {} THEN -1 ELSE Min(places)
RECURSIVE Pieces(_, _, _)
Pieces(chars, other, max) ==
  LET i == First(FoundAt(chars, other, 0))
  IN  IF i = -1 \/ max = 0 THEN <<chars>>
      ELSE <<SubSeq(chars, 1, i)>> \o Pieces(SubSeq(chars, i + Len(other) + 1, Len(chars)), other, max - 1)
Between(pieces, new) ==
  FlattenSeq([i \in 1 .. 2 * Len(pieces) - 1 |-> IF i % 2 = 1 THEN pieces[(i + 1) \div 2] ELSE new])
Texts(strings) == [i \in DOMAIN strings |-> Text!Bytes(strings[i])]

\* Searching, cutting, splitting and replacing count in characters and never cut one:
\* IndexOf, LastIndexOf, Substring, StartsWith, EndsWith, TrimHelper, Replace, Split,
\* Join. They do so exactly but for these:
\* - Substring from position 0 of a string whose characters were not counted yet reads a
\*   flag that was never set, and may cut bytes: right where the characters are of one byte;
\* - LastIndexOf without a position looks only at the start of text that is not ASCII, and
\*   does not find an empty text in text that is;
\* - EndsWith, asked for one byte more than there is, compares the byte before the text;
\* - Split goes on in bytes by the characters of its delimiter;
\* - an empty text is found everywhere, except in another empty one, so that Replace of
\*   it and Split at it without a limit never come to an end.
TextsRight == task.kind = "text" =>
  LET chars == task.text
      other == task.other
      empties == chars = <<>> /\ other = <<>>
      s == Encoded(chars)
      o == Encoded(other)
      bytes == Text!Bytes(s)
      trimmed == Text!Bytes(Text!TrimHelper(s, 97, TRUE, TRUE))
      found == FoundAt(chars, other, 0)
      last == Max(found \cup {-1})
      cutRight(cut, pos, n) == Text!Bytes(cut) = FlattenSeq(SubSeq(chars, pos + 1, Min({Len(chars), pos + n})))
      asPieces(max) == [i \in DOMAIN Pieces(chars, other, max) |-> Encoded(Pieces(chars, other, max)[i])]
  IN  /\ Text!Length(s) = Len(chars)
      /\ \A pos \in 0 .. Len(chars) :
           /\ Text!IndexOf(s, o, pos) = First(FoundAt(chars, other, pos)) <=> ~empties
           /\ Text!LastIndexOf(s, o, pos) = Max((found \cap (0 .. pos)) \cup {-1}) <=> ~empties
           /\ \A n \in 0 .. Len(chars) : \A cut \in Text!Substrings(s, pos, n, TRUE) : cutRight(cut, pos, n)
      /\ \A n \in 0 .. Len(chars) :
           (\A cut \in Text!Substrings(s, 0, n, FALSE) : cutRight(cut, 0, n)) <=> \A i \in 1 .. n : Len(chars[i]) = 1
      /\ Text!LastIndexOf(s, o, -1) = last <=> IF Text!isASCII(s) THEN other # <<>> ELSE last <= 0
      /\ Text!StartsWith(s, o) <=> 0 \in found
      /\ Text!MayEndWith(s, o) = {Len(chars) - Len(other) \in found}
           <=> chars = <<>> \/ other = <<>> \/ Tail(Text!Bytes(o)) # bytes
      /\ \E i \in 1 .. Len(bytes) + 1, j \in 0 .. Len(bytes) :
           /\ trimmed = SubSeq(bytes, i, j)
           /\ \A k \in (1 .. i - 1) \cup (j + 1 .. Len(bytes)) : bytes[k] = 97
           /\ trimmed # <<>> => Head(trimmed) # 97 /\ Last(trimmed) # 97
      /\ other # <<>> =>
           Text!SameText(Text!Replace(s, o, Encoded(task.new)), Encoded(Between(Pieces(chars, other, -1), task.new)))
      /\ other = <<>> => \A from \in 0 .. Len(bytes) + 1 : Text!IndexOfB(s, o, from) # -1 <=> ~Text!ReplaceEnds(s, o)
      /\ \A max \in {1, 2} \cup (IF other = <<>> THEN {} ELSE {-1}) :
           /\ Text!SameText(Text!Join(o, asPieces(max)), s)
           /\ Texts(Text!Split(s, o, max)) = Texts(asPieces(max))
                <=> ~empties /\ (Text!LengthB(o) = Text!Length(o) \/ found = {})

\* The benchmarks: a number's words are read back as the number up to the billions,
\* which lose their words (numberToText, textToNumber); the distance of two words is
\* the least number of characters to insert, delete or change (editDistance).
RECURSIVE Distance(_, _)
Distance(u, v) ==
  IF u = <<>> \/ v = <<>> THEN Len(u) + Len(v)
  ELSE IF Last(u) = Last(v) THEN Distance(Front(u), Front(v))
  ELSE 1 + Min({Distance(Front(u), v), Distance(u, Front(v)), Distance(Front(u), Front(v))})
BenchmarksCompute ==
  /\ task.kind = "number" => (Text!textToNumber(Text!numberToText(task.n)) = task.n
                                <=> -1000000000 < task.n /\ task.n < 1000000000)
  /\ task.kind = "words" => Text!editDistance(task.s1, task.s2) = Distance(task.s1, task.s2)

\* FullEval is to give what EvalCopy gives, sharing what does not change. It does for
\* a list whose first item changes, or none, and for a map when nothing unchanged comes
\* after what changes (Value::FullEval).
LiteralsEvaluated == task.kind = "literal" =>
  LET items == task.items
      entries == [i \in DOMAIN items |-> [key |-> Number(i), value |-> items[i]]]
      changed == {i \in DOMAIN items : items[i].type \in {"var", "temp"}}
  IN  /\ FullEvalList(items) = EvalCopyList(items) <=> changed = {} \/ 1 \in changed
      /\ FullEvalEntries(entries) = EvalCopyEntries(entries)
           <=> \A i \in changed : \A j \in i .. Len(items) : j \in changed

\* Both: what is computed of a number, of words and of a literal.
PureOperations == BenchmarksCompute /\ LiteralsEvaluated
====
