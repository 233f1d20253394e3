---- MODULE Collections ----
(***************************************************************************)
(* What stands in for .NET's collections in transpiled code: the hash      *)
(* table of MS2Proto4 and MS2Proto5 (cpp/core/CS_Dictionary.h) and the     *)
(* list of MS2Proto3, in a memory pool (cpp/core/CS_List.h).  A variable   *)
(* of the program is a handle: a reference in C#; in C++ an object with a  *)
(* count of its own and a shared pointer to buckets and entries, or a      *)
(* reference to a block of the pool, null before the first Add.  A copy of *)
(* it shares what it refers to.  contents and expected are what the C#     *)
(* program has in its dictionary and list; the comparison ends where an    *)
(* answer differs from them.                                               *)
(***************************************************************************)
EXTENDS Integers, Sequences, SequencesExt, FiniteSetsExt

CONSTANTS
  Keys,           \* integers that are not negative
  Values,
  Handles,
  First,          \* the handle of the dictionary's creator
  Absent,         \* no value
  Endless,        \* no answer: a search that does not end
  MaxCapacity,    \* of the tables explored
  ListItems,      \* integers
  MaxItems        \* of the lists explored
ASSUME HandleAssumption == First \in Handles
ASSUME KeyAssumption == Keys \subseteq Nat

VARIABLES
  task,        \* "dictionary" or "list"
  storage,     \* of a handle: buckets and entries, NoStorage before the first Add
  count,
  copies,      \* the handles in use, all with the storage of First
  contents,
  refs,        \* of a handle: the block with its list, NullRef before there is one
  blocks,
  expected

dictVars == <<storage, count, contents>>
listVars == <<refs, blocks, expected>>
vars == <<task, copies, dictVars, listVars>>

NoStorage == [buckets |-> <<>>, entries |-> <<>>]
NoKey == 0
Entry(k, v, next) == [key |-> k, value |-> v, next |-> next]
createStorage(capacity) ==
  [buckets |-> [b \in 0 .. capacity - 1 |-> -1],
   entries |-> [i \in 0 .. capacity - 1 |-> Entry(NoKey, Absent, -1)]]
Capacity(s) == Cardinality(DOMAIN s.buckets)

\* An integer is its own hash code.
Hash(k) == k
Bucket(s, k) == Hash(k) % Capacity(s)

(***************************************************************************)
(* Chains.                                                                 *)
(***************************************************************************)
\* The entries of a chain, as far as its first Capacity(s) steps.
Following(s, b, chain) == IF chain = <<>> THEN s.buckets[b] ELSE s.entries[Last(chain)].next
Chain(s, b) ==
  LET walk[n \in 0 .. Capacity(s)] ==
        LET before == walk[n - 1]
            i == Following(s, b, before)
        IN  CASE n = 0 -> <<>> [] n > 0 /\ i >= 0 -> Append(before, i) [] OTHER -> before
  IN  walk[Capacity(s)]
Ends(s, b) == Following(s, b, Chain(s, b)) < 0
Live(s) == UNION {ToSet(Chain(s, b)) : b \in DOMAIN s.buckets}

findEntry(s, k) ==
  LET chain == Chain(s, Bucket(s, k))
      found == {n \in DOMAIN chain : s.entries[chain[n]].key = k}
  IN  IF s = NoStorage \/ found = {} THEN -1 ELSE chain[Min(found)]

\* The entries in the order of the chains, in a table of twice the size.
resize(s) ==
  LET order == FlattenSeq([b \in 1 .. Capacity(s) |-> Chain(s, b - 1)])
      key(i) == s.entries[order[i + 1]].key
      size == 2 * Capacity(s)
      last(b, i) == Max({j \in 0 .. i - 1 : Hash(key(j)) % size = b} \union {-1})
  IN  [buckets |-> [b \in 0 .. size - 1 |-> last(b, Len(order))],
       entries |-> [i \in 0 .. size - 1 |->
          IF i < Len(order)
          THEN Entry(key(i), s.entries[order[i + 1]].value, last(Hash(key(i)) % size, i))
          ELSE Entry(NoKey, Absent, -1)]]

(***************************************************************************)
(* Operations.  Those that change the table in place change it for every   *)
(* copy; a table of its own is made by the first Add, and by one that      *)
(* finds three quarters of the table in use.                               *)
(***************************************************************************)
InPlace(s) == storage' = [g \in Handles |-> IF g \in copies THEN s ELSE storage[g]]
OwnTable(h, s) == storage' = [storage EXCEPT ![h] = s]
Counted(h, n) == count' = [count EXCEPT ![h] = n]

Full(h) == 4 * count[h] >= 3 * Capacity(storage[h])
ensureData(h) == IF storage[h] = NoStorage THEN createStorage(4) ELSE storage[h]

\* The chain is not taken along.
Linked_DropsChain(s, n, k, v) ==
  [s EXCEPT !.entries[n] = Entry(k, v, -1), !.buckets[Bucket(s, k)] = n]

\* The table an entry goes to, with the key at the count's index.
Linked(s, n, k, v) ==
  [s EXCEPT !.entries[n] = Entry(k, v, s.buckets[Bucket(s, k)]), !.buckets[Bucket(s, k)] = n]

Update(h, k, v) ==
  /\ findEntry(storage[h], k) >= 0
  /\ InPlace([storage[h] EXCEPT !.entries[findEntry(storage[h], k)].value = v])
  /\ UNCHANGED count

AddNew(h, k, v) ==
  /\ findEntry(storage[h], k) < 0
  /\ Counted(h, count[h] + 1)
  /\ \/ storage[h] # NoStorage /\ ~Full(h) /\ InPlace(Linked(storage[h], count[h], k, v))
     \/ storage[h] = NoStorage /\ OwnTable(h, Linked(createStorage(4), 0, k, v))
     \/ /\ storage[h] # NoStorage /\ Full(h) /\ Capacity(storage[h]) < MaxCapacity
        /\ OwnTable(h, Linked(resize(storage[h]), Cardinality(Live(storage[h])), k, v))

\* Add, and the indexer when it is assigned to.
Add(h, k, v) == Update(h, k, v) \/ AddNew(h, k, v)

\* The key and the value left in an entry out of use are never read: the model
\* forgets them, here and in Clear.
Removed == Entry(NoKey, Absent, -2)

RemoveEntry(h, k) ==
  LET s == storage[h]
      b == Bucket(s, k)
      i == findEntry(s, k)
      chain == Chain(s, b)
      at == CHOOSE n \in DOMAIN chain : chain[n] = i
      unlinked == IF at = 1 THEN [s EXCEPT !.buckets[b] = s.entries[i].next]
                  ELSE [s EXCEPT !.entries[chain[at - 1]].next = s.entries[i].next]
  IN  IF i < 0 THEN UNCHANGED <<storage, count>>
      ELSE InPlace([unlinked EXCEPT !.entries[i] = Removed]) /\ Counted(h, count[h] - 1)

Clear(h) ==
  IF storage[h] = NoStorage THEN UNCHANGED <<storage, count>>
  ELSE InPlace(createStorage(Capacity(storage[h]))) /\ Counted(h, 0)

Copy(h, g) ==
  /\ g \notin copies /\ copies' = copies \union {g}
  /\ storage' = [storage EXCEPT ![g] = storage[h]] /\ count' = [count EXCEPT ![g] = count[h]]

(***************************************************************************)
(* Answers.                                                                *)
(***************************************************************************)
TryGetValue(s, k) ==
  LET i == findEntry(s, k)
  IN  CASE i >= 0 -> s.entries[i].value
        [] i < 0 /\ (s = NoStorage \/ Ends(s, Bucket(s, k))) -> Absent
        [] OTHER -> Endless

\* The keys a KeyIterator passes: removed entries are skipped.
Listed(h) ==
  LET s == storage[h]
  IN  [i \in {j \in 0 .. count[h] - 1 : s.entries[j].next >= -1} |-> s.entries[i].key]

(***************************************************************************)
(* Lists.  A place behind the count, and one that was moved from, holds    *)
(* no item.  Indices count from 0, places from 1.                          *)
(***************************************************************************)
NullRef == 0
NoList == [data |-> <<>>, count |-> 0]
Room(n) == [i \in 1 .. n |-> Absent]
ensureCapacity(l, minCapacity) ==
  LET n == Max({minCapacity, 2 * Len(l.data), 4})
  IN  IF minCapacity <= Len(l.data) THEN l ELSE [l EXCEPT !.data = @ \o Room(n - Len(l.data))]

ListAdd(l, x) ==
  [ensureCapacity(l, l.count + 1) EXCEPT !.data[l.count + 1] = x, !.count = @ + 1]
AddRange(l, m) ==
  LET grown == ensureCapacity(l, l.count + m.count)
      new   == l.count + 1 .. l.count + m.count
  IN  IF m.count = 0 THEN l
      ELSE [data |-> [k \in DOMAIN grown.data |-> IF k \in new THEN m.data[k - l.count] ELSE grown.data[k]],
            count |-> l.count + m.count]
ListClear(l) == [data |-> Room(Len(l.data)), count |-> 0]

\* From a place to another, one after the other.
Move(data, move) == [data EXCEPT ![move.to] = data[move.from], ![move.from] = Absent]
Moves(data, froms, by) == FoldLeft(Move, data, [n \in DOMAIN froms |-> [from |-> froms[n], to |-> froms[n] + by]])
Upward(first, last) == [n \in 1 .. last - first + 1 |-> last - n + 1]
Downward(first, last) == [n \in 1 .. last - first + 1 |-> first + n - 1]

Insert(l, index, x) ==
  LET grown == ensureCapacity(l, l.count + 1)
      moved == Moves(grown.data, Upward(index + 1, l.count), 1)
  IN  IF index \notin 0 .. l.count THEN l ELSE [data |-> [moved EXCEPT ![index + 1] = x], count |-> l.count + 1]
RemoveRange(l, index, n) ==
  LET actual == Min({n, l.count - index})
      left   == [k \in DOMAIN l.data |-> IF k \in index + 1 .. index + actual THEN Absent ELSE l.data[k]]
  IN  IF index \notin 0 .. l.count - 1 \/ n <= 0 THEN l
      ELSE [data |-> Moves(left, Downward(index + actual + 1, l.count), -actual), count |-> l.count - actual]
ListRemoveAt(l, index) ==
  IF index \notin 0 .. l.count - 1 THEN l
  ELSE [data |-> Moves([l.data EXCEPT ![index + 1] = Absent], Downward(index + 2, l.count), -1), count |-> l.count - 1]

Found(l, x) == {k \in 1 .. l.count : l.data[k] = x}
IndexOf(l, x) == IF Found(l, x) = {} THEN -1 ELSE Min(Found(l, x)) - 1
LastIndexOf(l, x) == Max(Found(l, x) \union {0}) - 1
ListRemove(l, x) == ListRemoveAt(l, IndexOf(l, x))

Swap(data, i, j) == [data EXCEPT ![i] = data[j], ![j] = data[i]]
ListReverse(l) == [l EXCEPT !.data = FoldLeft(LAMBDA d, k : Swap(d, k, l.count + 1 - k), @, [k \in 1 .. l.count \div 2 |-> k])]
\* Pass i compares neighbours up to the last i items; the last pass, none.
Passes(n) == FlattenSeq([i \in 1 .. n |-> [j \in 1 .. n - i |-> j]])
Sort(l) == [l EXCEPT !.data = FoldLeft(LAMBDA d, j : IF d[j] > d[j + 1] THEN Swap(d, j, j + 1) ELSE d, @, Passes(l.count))]

(***************************************************************************)
(* The two programs.                                                       *)
(***************************************************************************)
InUse == {k \in Keys : contents[k] # Absent}
AgreeOn(s, n, wanted) ==
  /\ n = Cardinality({k \in Keys : wanted[k] # Absent})
  /\ \A k \in Keys : TryGetValue(s, k) = wanted[k]
Agree == \A h \in copies : AgreeOn(storage[h], count[h], contents)

Init ==
  /\ task \in {"dictionary", "list"}
  /\ refs = [h \in Handles |-> NullRef] /\ blocks = [b \in 1 .. Cardinality(Handles) |-> NoList] /\ expected = <<>>
  /\ storage = [h \in Handles |-> NoStorage] /\ count = [h \in Handles |-> 0]
  /\ copies = {First} /\ contents = [k \in Keys |-> Absent]

DictionaryStep ==
  /\ task = "dictionary" /\ Agree /\ UNCHANGED <<task, listVars>>
  /\ \E h \in copies :
       \/ \E k \in Keys, v \in Values :
            Add(h, k, v) /\ contents' = [contents EXCEPT ![k] = v] /\ UNCHANGED copies
       \/ \E k \in Keys :
            RemoveEntry(h, k) /\ contents' = [contents EXCEPT ![k] = Absent] /\ UNCHANGED copies
       \/ Clear(h) /\ contents' = [k \in Keys |-> Absent] /\ UNCHANGED copies
       \/ \E g \in Handles : Copy(h, g) /\ UNCHANGED contents

ListOf(h) == IF refs[h] = NullRef THEN NoList ELSE blocks[refs[h]]
ItemsOf(l) == SubSeq(l.data, 1, l.count)
ListsAgree == \A h \in copies : ItemsOf(ListOf(h)) = expected
Unused == CHOOSE b \in DOMAIN blocks : \A h \in Handles : refs[h] # b
\* A growing block keeps its reference.
Store(h, l) ==
  LET ref == IF refs[h] = NullRef /\ l # NoList THEN Unused ELSE refs[h]
  IN  refs' = [refs EXCEPT ![h] = ref] /\ blocks' = IF ref = NullRef THEN blocks ELSE [blocks EXCEPT ![ref] = l]
Becomes(h, l, items) == Store(h, l) /\ expected' = items /\ Len(items) <= MaxItems

\* What .NET refuses: an index out of range changes nothing, a range that is too long
\* ends with the list.
Change(h) ==
  LET l == ListOf(h)
      Indices == -1 .. Len(expected)
      n == Len(expected)
  IN  \/ \E x \in ListItems : Becomes(h, ListAdd(l, x), Append(expected, x))
      \/ \E g \in copies : Becomes(h, AddRange(l, ListOf(g)), expected \o expected)
      \/ Becomes(h, ListClear(l), <<>>)
      \/ Becomes(h, ListReverse(l), Reverse(expected))
      \/ Becomes(h, Sort(l), SortSeq(expected, <))
      \/ \E x \in ListItems :
           Becomes(h, ListRemove(l, x), IF x \in ToSet(expected) THEN RemoveAt(expected, SelectInSeq(expected, LAMBDA y : y = x)) ELSE expected)
      \/ \E i \in Indices, x \in ListItems :
           Becomes(h, Insert(l, i, x), IF i < 0 THEN expected ELSE InsertAt(expected, i + 1, x))
      \/ \E i \in Indices :
           Becomes(h, ListRemoveAt(l, i), IF i \in {-1, n} THEN expected ELSE RemoveAt(expected, i + 1))
      \/ \E i \in Indices, len \in 0 .. n + 1 :
           Becomes(h, RemoveRange(l, i, len),
                   IF i \in {-1, n} THEN expected ELSE SubSeq(expected, 1, i) \o SubSeq(expected, i + len + 1, n))
ListStep ==
  /\ task = "list" /\ ListsAgree /\ UNCHANGED <<task, dictVars>>
  /\ \E h \in copies :
       \/ Change(h) /\ UNCHANGED copies
       \/ \E g \in Handles \ copies :
            copies' = copies \union {g} /\ refs' = [refs EXCEPT ![g] = refs[h]] /\ UNCHANGED <<blocks, expected>>

Next == DictionaryStep \/ ListStep
Spec == Init /\ [][Next]_vars

(***************************************************************************)
(* Where they part.                                                        *)
(***************************************************************************)
Changed == {h \in copies : count'[h] # count[h]}
\* The key that is put in place of a live entry: after the removal of an
\* entry below the last, the count is the index of one in use.
Overwritten(h) ==
  /\ count'[h] > count[h] /\ storage[h] # NoStorage /\ ~Full(h)
  /\ count[h] \in Live(storage[h])
NewKey == CHOOSE k \in Keys : contents[k] = Absent /\ contents'[k] # Absent
KeyAt(h, i) == storage[h].entries[i].key

\* Counts, and what is found under every key, are those of .NET unless one of
\* several copies gains or loses a key, or an entry is overwritten.
PartsThere ==
  (\E h \in copies' : ~AgreeOn(storage'[h], count'[h], contents'))
    <=> \E h \in Changed : Cardinality(copies) > 1 \/ Overwritten(h)

\* A search for a key that is not there ends, unless an entry was overwritten
\* by one of its own chain: then it never does.
EndlessThere ==
  (\E h \in copies, k \in Keys : TryGetValue(storage'[h], k) = Endless)
    <=> \E h \in Changed :
          /\ Overwritten(h)
          /\ Bucket(storage[h], KeyAt(h, count[h])) = Bucket(storage[h], NewKey)
          /\ \E k \in Keys \ {NewKey} : contents'[k] = Absent \/ k = KeyAt(h, count[h])

\* The keys are listed, each once, exactly if no entry was removed below one
\* that is in use; otherwise some are missing.
Gap(s) == \E i, j \in DOMAIN s.entries : i < j /\ j \in Live(s) /\ i \notin Live(s)
ListedUnlessGap ==
  Agree => \A h \in copies :
    LET keys == Listed(h)
    IN  (/\ Cardinality(DOMAIN keys) = Cardinality(InUse)
         /\ {keys[i] : i \in DOMAIN keys} = InUse) <=> ~Gap(storage[h])

\* A list is the list of .NET for all its handles, unless it was copied before it had
\* storage: then the first item that is put into it is seen by one handle only.
ListsPartThere ==
  ~ListsAgree' <=> Cardinality(copies) > 1 /\ \E h \in copies : refs[h] = NullRef /\ refs'[h] # NullRef

\* What is searched is found where .NET finds it; nothing is left behind the items.
ListsSound ==
  task = "list" /\ ListsAgree => \A h \in copies :
    LET l == ListOf(h)
    IN  /\ \A x \in ListItems :
              /\ IndexOf(l, x) = SelectInSeq(expected, LAMBDA y : y = x) - 1
              /\ LastIndexOf(l, x) = SelectLastInSeq(expected, LAMBDA y : y = x) - 1
        /\ \A k \in DOMAIN l.data : l.data[k] = Absent <=> k > l.count

\* Where the dictionary and the list of the C++ runtime part from those of .NET, and
\* where a search of the dictionary never ends, or a key is not listed: there, always,
\* and nowhere else.
PartsOnlyThere == [][PartsThere /\ EndlessThere /\ ListsPartThere]_vars /\ [](ListedUnlessGap /\ ListsSound)
====
