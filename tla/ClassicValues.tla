---- MODULE ClassicValues ----
(***************************************************************************)
(* The Value class of the cpp-classic type system: null, numbers, strings  *)
(* (by number), variables, temporaries, and references to the counted      *)
(* storages of lists and maps on a heap. Raising an exception prints, as   *)
(* MiniscriptErrors.h has it, and execution goes on; Endless stands for a  *)
(* walk that does not come to an end.                                      *)
(***************************************************************************)
EXTENDS Integers, FiniteSets, SequencesExt, Bitwise

CONSTANTS Addrs,      \* where storages are put, a set of integers
          TableSize,  \* bins of a map, 251 in the code
          HashBits,   \* width of a hash, 32 in the code
          Block       \* see SimpleVector
ASSUME SizeAssumption == TableSize \in Nat \ {0} /\ HashBits \in Nat \ {0, 1}
                         /\ Block \in Nat \ {0} /\ Addrs \subseteq Nat

Value(type, data) == [type |-> type, data |-> data]
Null == Value("null", 0)
Number(n) == Value("number", n)
Str(id) == Value("string", id)
Temp(n) == Value("temp", n)
magicIsA == Str(0)
keyString == Str(1)
valueString == Str(2)
Endless == Value("endless", 0)

usesRef(v) == v.type \in {"list", "map"}
IsNull(v) == v.type = "null"
Vec == INSTANCE SimpleVector WITH Fresh <- Null

(***************************************************************************)
(* Storages and their counts. A slot that was given up still owns.         *)
(***************************************************************************)
Free == [kind |-> "free"]
NoBins == [b \in 0 .. TableSize - 1 |-> <<>>]
ListStorage(slots) == [kind |-> "list", refs |-> 1, vec |-> Vec!Vector(slots)]
DictionaryStorage == [kind |-> "map", refs |-> 1, bins |-> NoBins]
Entries(bins) == FlattenSeq([b \in 1 .. TableSize |-> bins[b - 1]])
Keys(bins) == LET all == Entries(bins) IN [i \in DOMAIN all |-> all[i].key]
Values(bins) == LET all == Entries(bins) IN [i \in DOMAIN all |-> all[i].value]
Owned(st) == CASE st.kind = "list" -> st.vec.buf [] st.kind = "map" -> Keys(st.bins) \o Values(st.bins)
               [] st.kind = "free" -> <<>>
Count(st) == IF st.kind = "list" THEN st.vec.qty ELSE Len(Entries(st.bins))

Live(h, a) == h[a].kind # "free"
retain(h, v) == IF usesRef(v) /\ Live(h, v.data) THEN [h EXCEPT ![v.data].refs = @ + 1] ELSE h
RECURSIVE retainAll(_, _), releaseAll(_, _), release(_, _)
retainAll(h, vs) == IF vs = <<>> THEN h ELSE retainAll(retain(h, Head(vs)), Tail(vs))
releaseAll(h, vs) == IF vs = <<>> THEN h ELSE releaseAll(release(h, Head(vs)), Tail(vs))
release(h, v) == IF ~usesRef(v) \/ ~Live(h, v.data) THEN h
                 ELSE IF h[v.data].refs > 1 THEN [h EXCEPT ![v.data].refs = @ - 1]
                 ELSE releaseAll([h EXCEPT ![v.data] = Free], Owned(h[v.data]))

\* A storage is given new contents: they are retained before the old ones are released.
Changed(h, a, st) == releaseAll([retainAll(h, Owned(st)) EXCEPT ![a] = [st EXCEPT !.refs = retainAll(h, Owned(st))[a].refs]],
                                Owned(h[a]))
WithVec(h, a, vec) == Changed(h, a, [h[a] EXCEPT !.vec = vec])
WithBins(h, a, bins) == Changed(h, a, [h[a] EXCEPT !.bins = bins])

(***************************************************************************)
(* Hash and equality. Keys hash and compare like any other value, and what *)
(* lies within a list or a map is worked off a stack.                      *)
(***************************************************************************)
Top == 2^(HashBits - 1)
\* A shift to the right that keeps the sign, and the lowest bit as the highest.
rotateBits(n) == (n \div 2) + (IF n >= Top \/ n % 2 = 1 THEN Top ELSE 0)
XorTable == [x, y \in 0 .. 2^HashBits - 1 |-> x ^^ y]
Folded(x) == XorTable[x \div 2^(HashBits \div 2), x]
IntHash(i) == LET x == (Folded(i % 2^HashBits) * 11) % 2^HashBits IN Folded((Folded(x) * 11) % 2^HashBits)
AtomHash(v) == CASE v.type = "null" -> 0 [] v.type \in {"number", "temp"} -> IntHash(v.data)
                 [] v.type \in {"string", "var"} -> (5 * v.data + 3) % 2^HashBits

\* Containers are pushed once; what is pushed counts as visited.
RECURSIVE Pushed(_, _)
Pushed(work, children) ==
  IF children = <<>> THEN work
  ELSE LET child == Head(children)
       IN  Pushed(IF usesRef(child) /\ child \in work.visited THEN work
                  ELSE [toDo |-> Append(work.toDo, child), visited |-> work.visited \cup {child}], Tail(children))

NoValue == Value("none", 0)
OrNull(v) == IF v = NoValue THEN Null ELSE v
RECURSIVE Hash(_, _), HashFrom(_, _, _), Place(_, _, _), Equal(_, _, _), EqualFrom(_, _, _), EqualNext(_, _, _, _)

\* Where key is: its bin, and its position there, 0 where it is not.
PlaceIn(h, bins, bin, key) == <<bin, SelectInSeq(bins[bin], LAMBDA entry : Equal(h, entry.key, key))>>
Place(h, bins, key) == PlaceIn(h, bins, Hash(h, key) % TableSize, key)
ValueAt(bins, place) == IF place[2] = 0 THEN NoValue ELSE bins[place[1]][place[2]].value
Get(h, bins, key) == ValueAt(bins, Place(h, bins, key))
\* operator[] of a map: a key that is not found any more gives null.
ValueOf(h, bins, key) == OrNull(Get(h, bins, key))

WithValues(h, bins, keys) == FlattenSeq([i \in DOMAIN keys |-> <<keys[i], ValueOf(h, bins, keys[i])>>])
HashChildren(h, v) == CASE v.type = "list" -> Vec!Items(h[v.data].vec)
                        [] v.type = "map" -> WithValues(h, h[v.data].bins, Keys(h[v.data].bins))
                        [] OTHER -> <<>>
ItemHash(h, v) == IF usesRef(v) THEN IntHash(Count(h[v.data])) ELSE AtomHash(v)
HashFrom(h, result, work) ==
  IF work.toDo = <<>> THEN result
  ELSE HashFrom(h, XorTable[rotateBits(result), ItemHash(h, Last(work.toDo))],
                Pushed([work EXCEPT !.toDo = Front(@)], HashChildren(h, Last(work.toDo))))
RecursiveHash(h, v) == HashFrom(h, 0, [toDo |-> <<v>>, visited |-> {v}])
Hash(h, v) == IF usesRef(v) THEN RecursiveHash(h, v) ELSE AtomHash(v)

\* RefEqual compares references, numbers and texts; of records that is equality.
RefEqual(u, v) == u = v
ListPairs(s, t) == [i \in 1 .. Count(s) |-> <<s.vec.buf[i], t.vec.buf[i]>>]
MapPairs_ByPosition(h, both, keys) == [i \in DOMAIN keys |-> [side \in 1 .. 2 |-> Values(both[side])[i]]]
MapPairs(h, both, keys) == [i \in DOMAIN keys |-> [side \in 1 .. 2 |-> Get(h, both[side], keys[i])]]
\* A value is found by its key in the second map; in the first it is null if its key moved.
AllFound(pairs) == \A i \in DOMAIN pairs : pairs[i][2] # NoValue
Inner(h, s, t) == IF s.kind = "list" THEN ListPairs(s, t) ELSE MapPairs(h, <<s.bins, t.bins>>, Keys(s.bins))
Settled(pair) == ~usesRef(pair[1]) \/ ~usesRef(pair[2]) \/ RefEqual(pair[1], pair[2])
PairsWithin(h, pair) == IF Settled(pair) THEN <<>> ELSE Inner(h, h[pair[1].data], h[pair[2].data])
AlikeSoFar(h, pair, pairs) ==
  IF Settled(pair) THEN RefEqual(pair[1], pair[2])
  ELSE h[pair[1].data].kind = h[pair[2].data].kind /\ Count(h[pair[1].data]) = Count(h[pair[2].data]) /\ AllFound(pairs)
NewPairs(pairs, seen) ==
  SelectSeq([i \in DOMAIN pairs |-> <<OrNull(pairs[i][1]), pairs[i][2]>>], LAMBDA p : p \notin seen)
EqualNext(h, toDo, visited, pairs) ==
  AlikeSoFar(h, Last(toDo), pairs)
  /\ EqualFrom(h, Front(toDo) \o NewPairs(pairs, visited \cup {Last(toDo)}), visited \cup {Last(toDo)})
EqualFrom(h, toDo, visited) == toDo = <<>> \/ EqualNext(h, toDo, visited, PairsWithin(h, Last(toDo)))
RecursiveEqual(h, u, v) == EqualFrom(h, <<<<u, v>>>>, {})
Equal(h, u, v) == RefEqual(u, v) \/ (u.type = v.type /\ usesRef(u) /\ RecursiveEqual(h, u, v))

Equality(h, u, v) ==
  IF RefEqual(u, v) THEN 1
  ELSE IF u.type # v.type \/ ~usesRef(u) THEN 0
  ELSE IF Count(h[u.data]) # Count(h[v.data]) THEN 0
  ELSE IF RecursiveEqual(h, u, v) THEN 1 ELSE 0

(***************************************************************************)
(* Reading and writing elements.                                           *)
(***************************************************************************)
IntValue(v) == IF v.type = "number" THEN v.data ELSE 0
Counted(st, i) == IF i < 0 THEN i + Count(st) ELSE i

\* The error of an index out of range is printed; then item wraps the index around.
Readable(st) == st.kind = "list" => st.vec.buf # <<>>
ListElem(st, i) == IF Count(st) = 0 THEN st.vec.buf[1] ELSE st.vec.buf[Vec!Wrapped(st.vec, i) + 1]

\* Lookup: the key in the map or, along __isa, in its parents; fuel bounds the walk.
RECURSIVE LookupFrom(_, _, _, _)
LookupFrom_NoParent(h, obj, key, fuel) == IF obj.type # "map" THEN Null ELSE ValueOf(h, h[obj.data].bins, key)
LookupFrom(h, obj, key, fuel) ==
  IF obj.type # "map" THEN Null
  ELSE IF fuel = 0 THEN Endless
  ELSE LET bins == h[obj.data].bins
           found == Get(h, bins, key)
           parent == Get(h, bins, magicIsA)
       IN  IF found # NoValue THEN found
           ELSE IF parent = NoValue THEN Null ELSE LookupFrom(h, parent, key, fuel - 1)
Fuel == 2 * Cardinality(Addrs) + 2
Lookup(h, v, key) == LookupFrom(h, v, key, Fuel)

GetElem(h, v, index) ==
  CASE v.type = "list" /\ index.type = "number" -> ListElem(h[v.data], index.data)
    [] v.type = "map" -> Lookup(h, v, index)
    [] OTHER -> Null

\* The stub Context knows no variable and no temporary.
GetTemp(n) == Null
GetVar(name) == Null
Evaluated(v) == CASE v.type = "temp" -> GetTemp(v.data) [] v.type = "var" -> GetVar(v.data)
                  [] v.type \notin {"temp", "var"} -> v

\* Val of an element of a map by a key that is no string: without a parent it asks the same map again.
RECURSIVE ElementFrom(_, _, _, _)
ElementFrom(h, base, key, fuel) ==
  IF base.type # "map" THEN Null
  ELSE IF fuel = 0 THEN Endless
  ELSE LET found == Get(h, h[base.data].bins, key)
           parent == Get(h, h[base.data].bins, magicIsA)
       IN  IF found # NoValue THEN found
           ELSE ElementFrom(h, IF parent = NoValue THEN base ELSE Evaluated(parent), key, fuel - 1)

\* Resolve: a name in a map, its parents, and the type of what is no map; the host set no types.
RECURSIVE ResolveFrom(_, _, _, _)
ResolveFrom(h, sequence, name, fuel) ==
  IF sequence.type # "map" THEN Null
  ELSE IF fuel = 0 THEN Endless
  ELSE LET found == Get(h, h[sequence.data].bins, name)
           parent == Get(h, h[sequence.data].bins, magicIsA)
       IN  IF found # NoValue THEN found
           ELSE ResolveFrom(h, IF parent = NoValue THEN Null ELSE Evaluated(parent), name, fuel - 1)
Val(h, sequence, index) == LET idxVal == Evaluated(index)
                               base == Evaluated(sequence)
                           IN  IF idxVal.type = "string" THEN ResolveFrom(h, base, idxVal, Fuel)
                               ELSE IF base.type = "map" THEN ElementFrom(h, base, idxVal, Fuel)
                               ELSE GetElem(h, base, idxVal)

RECURSIVE IsAFrom(_, _, _, _)
IsAFrom(h, p, type, fuel) ==
  IF RefEqual(p, type) THEN "yes"
  ELSE IF p.type # "map" \/ Get(h, h[p.data].bins, magicIsA) = NoValue THEN "no"
  ELSE IF fuel = 0 THEN "endless" ELSE IsAFrom(h, Get(h, h[p.data].bins, magicIsA), type, fuel - 1)
IsA(h, v, type) ==
  IF IsNull(type) THEN (IF IsNull(v) THEN "yes" ELSE "no")
  ELSE IF v.type # "map" \/ Get(h, h[v.data].bins, magicIsA) = NoValue THEN "no"
  ELSE IsAFrom(h, Get(h, h[v.data].bins, magicIsA), type, Fuel)

(***************************************************************************)
(* Literals: lists, and maps as their entries in order. Unevaluated items  *)
(* are variables and temporaries.                                          *)
(***************************************************************************)
Changes(item) == Evaluated(item) # item
FirstChange(items) == SelectInSeq(items, Changes)
\* What precedes the first change is lost: each place gets the item of the change.
FullEvalList(items) ==
  [i \in DOMAIN items |-> IF i < FirstChange(items) THEN items[FirstChange(items)] ELSE Evaluated(items[i])]
EvalCopyList(items) == [i \in DOMAIN items |-> Evaluated(items[i])]

EvalEntry(entry) == [key |-> Evaluated(entry.key), value |-> Evaluated(entry.value)]
EntryChanges(entry) == EvalEntry(entry) # entry
FirstChanged(entries) == SelectInSeq(entries, EntryChanges)
EvalCopyEntries(entries) == [i \in DOMAIN entries |-> EvalEntry(entries[i])]
\* What is unchanged after the first change is left out.
FullEvalEntries(entries) ==
  IF FirstChanged(entries) = 0 THEN entries
  ELSE SubSeq(entries, 1, FirstChanged(entries) - 1)
       \o EvalCopyEntries(SelectSeq(SubSeq(entries, FirstChanged(entries), Len(entries)), EntryChanges))
====
